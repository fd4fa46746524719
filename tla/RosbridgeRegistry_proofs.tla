---------------------- MODULE RosbridgeRegistry_proofs ----------------------
(***************************************************************************)
(* Proofs about RosbridgeRegistry, for any topics, publishers, subscribers *)
(* and service servers, and any number of connections.                     *)
(***************************************************************************)
EXTENDS RosbridgeRegistry, TLAPS

USE DEF Handles, Phases, ReadHeld, PcStates, SpinStates, ReadBlocked, WriteHeld, GrantQueued,
        Finish, Step, Tell, Limited, ReleaseLocks, opVars, lockVars, mapVars, srvVars, connVars

(* The initial state, with empty records, satisfies the inductive invariant. *)
LEMMA InitIInv == Init => IInv
<1> SUFFICES ASSUME Init PROVE IInv
  OBVIOUS
<1> USE RegistryAssumption DEF Init
<1>1. TypeOK BY DEF TypeOK
<1>2. KindInv /\ GuardInv /\ EntryInv BY DEF KindInv, GuardInv, EntryInv
<1>3. LiveSubscriberSubscribed /\ ServiceHandleOwnsEntry
  BY DEF LiveSubscriberSubscribed, ServiceHandleOwnsEntry, OwnsService
<1>4. RecordInv /\ LivePublisherAdvertised BY DEF RecordInv, LivePublisherAdvertised
<1>5. FirstInv /\ NoSubscriberUnsubscribed BY DEF FirstInv, NoSubscriberUnsubscribed
<1>6. QED
  BY <1>1, <1>2, <1>3, <1>4, <1>5 DEF IInv

(***************************************************************************)
(* Every step keeps the invariant.  For the subscriptions the argument is  *)
(* in EnterTopic, LeaveTopic and Send: only the task that holds the entry's*)
(* guard writes messages about the topic.  For the services it is in       *)
(* InsertService, which finds no owner of the name before it inserts; for  *)
(* the publishers in RemovePublisher, after which the topic has a publisher*)
(* that was dropped.                                                       *)
(***************************************************************************)
LEMMA StepIInv == ASSUME IInv, [Next]_vars PROVE IInv'
<1> USE RegistryAssumption DEF IInv
<1>1. ASSUME NEW h \in Handles, Open(h) PROVE IInv'
  <2>1. TypeOK' /\ KindInv' /\ GuardInv' /\ EntryInv' /\ FirstInv'
    BY <1>1 DEF Open, TypeOK, KindInv, GuardInv, EntryInv, FirstInv
  <2>2. LiveSubscriberSubscribed'
    BY <1>1 DEF Open, TypeOK, KindInv, GuardInv, EntryInv, LiveSubscriberSubscribed, Restored
  <2>3. ServiceHandleOwnsEntry'
    BY <1>1 DEF Open, TypeOK, KindInv, ServiceHandleOwnsEntry, OwnsService
  <2>4. RecordInv' /\ LivePublisherAdvertised'
    BY <1>1 DEF Open, TypeOK, KindInv, RecordInv, LivePublisherAdvertised, NoneDropped, Restored
  <2>5. NoSubscriberUnsubscribed'
    BY <1>1 DEF Open, TypeOK, FirstInv, NoSubscriberUnsubscribed
  <2>6. QED
    BY <2>1, <2>2, <2>3, <2>4, <2>5
<1>2. ASSUME NEW h \in Handles, Drop(h) PROVE IInv'
  <2>1. TypeOK' /\ KindInv' /\ GuardInv' /\ EntryInv' /\ FirstInv'
    BY <1>2 DEF Drop, TypeOK, KindInv, GuardInv, EntryInv, FirstInv
  <2>2. LiveSubscriberSubscribed'
    BY <1>2 DEF Drop, TypeOK, KindInv, GuardInv, EntryInv, LiveSubscriberSubscribed, Restored
  <2>3. ServiceHandleOwnsEntry'
    BY <1>2 DEF Drop, TypeOK, KindInv, ServiceHandleOwnsEntry, OwnsService
  <2>4. RecordInv' /\ LivePublisherAdvertised'
    BY <1>2 DEF Drop, TypeOK, KindInv, RecordInv, LivePublisherAdvertised, NoneDropped, Restored
  <2>5. NoSubscriberUnsubscribed'
    BY <1>2 DEF Drop, TypeOK, FirstInv, NoSubscriberUnsubscribed
  <2>6. QED
    BY <2>1, <2>2, <2>3, <2>4, <2>5
<1>3. ASSUME NEW h \in Handles, LockOptions(h) PROVE IInv'
  <2>1. TypeOK' /\ KindInv' /\ GuardInv' /\ EntryInv' /\ FirstInv'
    BY <1>3 DEF LockOptions, TypeOK, KindInv, GuardInv, EntryInv, FirstInv
  <2>2. LiveSubscriberSubscribed'
    BY <1>3 DEF LockOptions, TypeOK, KindInv, GuardInv, EntryInv, LiveSubscriberSubscribed, Restored
  <2>3. ServiceHandleOwnsEntry'
    BY <1>3 DEF LockOptions, TypeOK, KindInv, ServiceHandleOwnsEntry, OwnsService
  <2>4. RecordInv' /\ LivePublisherAdvertised'
    BY <1>3 DEF LockOptions, TypeOK, KindInv, RecordInv, LivePublisherAdvertised, NoneDropped, Restored
  <2>5. NoSubscriberUnsubscribed'
    BY <1>3 DEF LockOptions, TypeOK, FirstInv, NoSubscriberUnsubscribed
  <2>6. QED
    BY <2>1, <2>2, <2>3, <2>4, <2>5
<1>4. ASSUME NEW h \in Handles, LockClient(h) PROVE IInv'
  <2>1. TypeOK' /\ KindInv' /\ GuardInv' /\ EntryInv' /\ FirstInv'
    BY <1>4 DEF LockClient, TypeOK, KindInv, GuardInv, EntryInv, FirstInv
  <2>2. LiveSubscriberSubscribed'
    BY <1>4 DEF LockClient, TypeOK, KindInv, GuardInv, EntryInv, LiveSubscriberSubscribed, Restored
  <2>3. ServiceHandleOwnsEntry'
    BY <1>4 DEF LockClient, TypeOK, KindInv, ServiceHandleOwnsEntry, OwnsService
  <2>4. RecordInv' /\ LivePublisherAdvertised'
    BY <1>4 DEF LockClient, TypeOK, KindInv, RecordInv, LivePublisherAdvertised, NoneDropped, Restored
  <2>5. NoSubscriberUnsubscribed'
    BY <1>4 DEF LockClient, TypeOK, FirstInv, NoSubscriberUnsubscribed
  <2>6. QED
    BY <2>1, <2>2, <2>3, <2>4, <2>5
<1>5. ASSUME NEW h \in Handles, CheckPublisher(h) PROVE IInv'
  <2>1. TypeOK' /\ KindInv' /\ GuardInv' /\ EntryInv' /\ FirstInv'
    BY <1>5 DEF CheckPublisher, TypeOK, KindInv, GuardInv, EntryInv, FirstInv
  <2>2. LiveSubscriberSubscribed'
    BY <1>5 DEF CheckPublisher, TypeOK, KindInv, GuardInv, EntryInv, LiveSubscriberSubscribed, Restored
  <2>3. ServiceHandleOwnsEntry'
    BY <1>5 DEF CheckPublisher, TypeOK, KindInv, ServiceHandleOwnsEntry, OwnsService
  <2>4. RecordInv' /\ LivePublisherAdvertised'
    BY <1>5 DEF CheckPublisher, TypeOK, KindInv, RecordInv, LivePublisherAdvertised, NoneDropped, Restored
  <2>5. NoSubscriberUnsubscribed'
    BY <1>5 DEF CheckPublisher, TypeOK, FirstInv, NoSubscriberUnsubscribed
  <2>6. QED
    BY <2>1, <2>2, <2>3, <2>4, <2>5
<1>6. ASSUME NEW h \in Handles, InsertPublisher(h) PROVE IInv'
  <2>1. TypeOK' /\ KindInv' /\ GuardInv' /\ EntryInv' /\ FirstInv'
    BY <1>6 DEF InsertPublisher, TypeOK, KindInv, GuardInv, EntryInv, FirstInv
  <2>2. LiveSubscriberSubscribed'
    BY <1>6 DEF InsertPublisher, TypeOK, KindInv, GuardInv, EntryInv, LiveSubscriberSubscribed, Restored
  <2>3. ServiceHandleOwnsEntry'
    BY <1>6 DEF InsertPublisher, TypeOK, KindInv, ServiceHandleOwnsEntry, OwnsService
  <2>4. RecordInv' /\ LivePublisherAdvertised'
    BY <1>6 DEF InsertPublisher, TypeOK, KindInv, RecordInv, LivePublisherAdvertised, NoneDropped, Restored
  <2>5. NoSubscriberUnsubscribed'
    BY <1>6 DEF InsertPublisher, TypeOK, FirstInv, NoSubscriberUnsubscribed
  <2>6. QED
    BY <2>1, <2>2, <2>3, <2>4, <2>5
<1>7. ASSUME NEW h \in Handles, RemovePublisher(h) PROVE IInv'
  <2>1. TypeOK' /\ KindInv' /\ GuardInv' /\ EntryInv' /\ FirstInv'
    BY <1>7 DEF RemovePublisher, TypeOK, KindInv, GuardInv, EntryInv, FirstInv
  <2>2. LiveSubscriberSubscribed'
    BY <1>7 DEF RemovePublisher, TypeOK, KindInv, GuardInv, EntryInv, LiveSubscriberSubscribed, Restored
  <2>3. ServiceHandleOwnsEntry'
    BY <1>7 DEF RemovePublisher, TypeOK, KindInv, ServiceHandleOwnsEntry, OwnsService
  <2>4. RecordInv' /\ LivePublisherAdvertised'
    BY <1>7 DEF RemovePublisher, TypeOK, KindInv, RecordInv, LivePublisherAdvertised, NoneDropped, Restored
  <2>5. NoSubscriberUnsubscribed'
    BY <1>7 DEF RemovePublisher, TypeOK, FirstInv, NoSubscriberUnsubscribed
  <2>6. QED
    BY <2>1, <2>2, <2>3, <2>4, <2>5
<1>8. ASSUME NEW h \in Handles, InsertService(h) PROVE IInv'
  <2>1. TypeOK' /\ KindInv' /\ GuardInv' /\ EntryInv' /\ FirstInv'
    BY <1>8 DEF InsertService, TypeOK, KindInv, GuardInv, EntryInv, FirstInv
  <2>2. LiveSubscriberSubscribed'
    BY <1>8 DEF InsertService, TypeOK, KindInv, GuardInv, EntryInv, LiveSubscriberSubscribed, Restored
  <2>3. ServiceHandleOwnsEntry'
    BY <1>8 DEF InsertService, TypeOK, KindInv, ServiceHandleOwnsEntry, OwnsService
  <2>4. RecordInv' /\ LivePublisherAdvertised'
    BY <1>8 DEF InsertService, TypeOK, KindInv, RecordInv, LivePublisherAdvertised, NoneDropped, Restored
  <2>5. NoSubscriberUnsubscribed'
    BY <1>8 DEF InsertService, TypeOK, FirstInv, NoSubscriberUnsubscribed
  <2>6. QED
    BY <2>1, <2>2, <2>3, <2>4, <2>5
<1>9. ASSUME NEW h \in Handles, RemoveService(h) PROVE IInv'
  <2>1. TypeOK' /\ KindInv' /\ GuardInv' /\ EntryInv' /\ FirstInv'
    BY <1>9 DEF RemoveService, TypeOK, KindInv, GuardInv, EntryInv, FirstInv
  <2>2. LiveSubscriberSubscribed'
    BY <1>9 DEF RemoveService, TypeOK, KindInv, GuardInv, EntryInv, LiveSubscriberSubscribed, Restored
  <2>3. ServiceHandleOwnsEntry'
    BY <1>9 DEF RemoveService, TypeOK, KindInv, ServiceHandleOwnsEntry, OwnsService
  <2>4. RecordInv' /\ LivePublisherAdvertised'
    BY <1>9 DEF RemoveService, TypeOK, KindInv, RecordInv, LivePublisherAdvertised, NoneDropped, Restored
  <2>5. NoSubscriberUnsubscribed'
    BY <1>9 DEF RemoveService, TypeOK, FirstInv, NoSubscriberUnsubscribed
  <2>6. QED
    BY <2>1, <2>2, <2>3, <2>4, <2>5
<1>10. ASSUME NEW h \in Handles, EnterTopic(h) PROVE IInv'
  <2>1. TypeOK' /\ KindInv' /\ GuardInv' /\ EntryInv' /\ FirstInv'
    BY <1>10 DEF EnterTopic, TypeOK, KindInv, GuardInv, EntryInv, FirstInv
  <2>2. LiveSubscriberSubscribed'
    BY <1>10 DEF EnterTopic, TypeOK, KindInv, GuardInv, EntryInv, LiveSubscriberSubscribed, Restored
  <2>3. ServiceHandleOwnsEntry'
    BY <1>10 DEF EnterTopic, TypeOK, KindInv, ServiceHandleOwnsEntry, OwnsService
  <2>4. RecordInv' /\ LivePublisherAdvertised'
    BY <1>10 DEF EnterTopic, TypeOK, KindInv, RecordInv, LivePublisherAdvertised, NoneDropped, Restored
  <2>5. NoSubscriberUnsubscribed'
    BY <1>10 DEF EnterTopic, TypeOK, FirstInv, NoSubscriberUnsubscribed
  <2>6. QED
    BY <2>1, <2>2, <2>3, <2>4, <2>5
<1>11. ASSUME NEW h \in Handles, LeaveTopic(h) PROVE IInv'
  <2>1. TypeOK' /\ KindInv' /\ GuardInv' /\ EntryInv' /\ FirstInv'
    BY <1>11 DEF LeaveTopic, TypeOK, KindInv, GuardInv, EntryInv, FirstInv
  <2>2. LiveSubscriberSubscribed'
    BY <1>11 DEF LeaveTopic, TypeOK, KindInv, GuardInv, EntryInv, LiveSubscriberSubscribed, Restored
  <2>3. ServiceHandleOwnsEntry'
    BY <1>11 DEF LeaveTopic, TypeOK, KindInv, ServiceHandleOwnsEntry, OwnsService
  <2>4. RecordInv' /\ LivePublisherAdvertised'
    BY <1>11 DEF LeaveTopic, TypeOK, KindInv, RecordInv, LivePublisherAdvertised, NoneDropped, Restored
  <2>5. NoSubscriberUnsubscribed'
    BY <1>11 DEF LeaveTopic, TypeOK, FirstInv, NoSubscriberUnsubscribed
  <2>6. QED
    BY <2>1, <2>2, <2>3, <2>4, <2>5
<1>12. ASSUME NEW h \in Handles, TakeWriter(h) PROVE IInv'
  <2>1. TypeOK' /\ KindInv' /\ GuardInv' /\ EntryInv' /\ FirstInv'
    BY <1>12 DEF TakeWriter, TypeOK, KindInv, GuardInv, EntryInv, FirstInv
  <2>2. LiveSubscriberSubscribed'
    BY <1>12 DEF TakeWriter, TypeOK, KindInv, GuardInv, EntryInv, LiveSubscriberSubscribed, Restored
  <2>3. ServiceHandleOwnsEntry'
    BY <1>12 DEF TakeWriter, TypeOK, KindInv, ServiceHandleOwnsEntry, OwnsService
  <2>4. RecordInv' /\ LivePublisherAdvertised'
    BY <1>12 DEF TakeWriter, TypeOK, KindInv, RecordInv, LivePublisherAdvertised, NoneDropped, Restored
  <2>5. NoSubscriberUnsubscribed'
    BY <1>12 DEF TakeWriter, TypeOK, FirstInv, NoSubscriberUnsubscribed
  <2>6. QED
    BY <2>1, <2>2, <2>3, <2>4, <2>5
<1>13. ASSUME NEW h \in Handles, Send(h) PROVE IInv'
  <2>1. TypeOK' /\ KindInv' /\ GuardInv' /\ EntryInv' /\ FirstInv'
    BY <1>13 DEF Send, TypeOK, KindInv, GuardInv, EntryInv, FirstInv
  <2>2. LiveSubscriberSubscribed'
    BY <1>13 DEF Send, TypeOK, KindInv, GuardInv, EntryInv, LiveSubscriberSubscribed, Restored
  <2>3. ServiceHandleOwnsEntry'
    BY <1>13 DEF Send, TypeOK, KindInv, ServiceHandleOwnsEntry, OwnsService
  <2>4. RecordInv' /\ LivePublisherAdvertised'
    BY <1>13 DEF Send, TypeOK, KindInv, RecordInv, LivePublisherAdvertised, NoneDropped, Restored
  <2>5. NoSubscriberUnsubscribed'
    <3>1. CASE h \in Subs /\ phase[h] = "opening"
      <4> SUFFICES ASSUME alive', conn' = 1, NEW t \in Topics, t \in srvSubscribed'
                   PROVE handles'[t] # {} \/ \E u \in Subs :
                             TopicOf[u] = t /\ (pc'[u] # "idle" \/ phase'[u] = "failed")
        BY <1>13 DEF NoSubscriberUnsubscribed, TypeOK, Send
      <4>1. CASE t = TopicOf[h]
        BY <1>13, <3>1, <4>1 DEF Send, TypeOK
      <4>2. CASE t # TopicOf[h]
        <5>1. /\ t \in srvSubscribed /\ handles'[t] = handles[t]
              /\ \A u \in Subs \ {h} : pc'[u] = pc[u] /\ phase'[u] = phase[u]
          BY <1>13, <3>1, <4>2 DEF Send, TypeOK
        <5>2. alive /\ conn = 1
          BY <1>13 DEF Send
        <5>3. QED
          BY <5>1, <5>2, <4>2 DEF NoSubscriberUnsubscribed
      <4>3. QED
        BY <4>1, <4>2
    <3>2. CASE h \in Subs /\ phase[h] # "opening"
      BY <1>13, <3>2 DEF Send, TypeOK, FirstInv, NoSubscriberUnsubscribed
    <3>3. CASE h \notin Subs
      BY <1>13, <3>3 DEF Send, TypeOK, FirstInv, NoSubscriberUnsubscribed
    <3>4. QED
      BY <3>1, <3>2, <3>3
  <2>6. QED
    BY <2>1, <2>2, <2>3, <2>4, <2>5
<1>14. ASSUME NEW h \in Handles, SendFails(h) PROVE IInv'
  <2>1. TypeOK' /\ KindInv' /\ GuardInv' /\ EntryInv' /\ FirstInv'
    BY <1>14 DEF SendFails, TypeOK, KindInv, GuardInv, EntryInv, FirstInv
  <2>2. LiveSubscriberSubscribed'
    BY <1>14 DEF SendFails, TypeOK, KindInv, GuardInv, EntryInv, LiveSubscriberSubscribed, Restored
  <2>3. ServiceHandleOwnsEntry'
    BY <1>14 DEF SendFails, TypeOK, KindInv, ServiceHandleOwnsEntry, OwnsService
  <2>4. RecordInv' /\ LivePublisherAdvertised'
    BY <1>14 DEF SendFails, TypeOK, KindInv, RecordInv, LivePublisherAdvertised, NoneDropped, Restored
  <2>5. NoSubscriberUnsubscribed'
    BY <1>14 DEF SendFails, TypeOK, FirstInv, NoSubscriberUnsubscribed
  <2>6. QED
    BY <2>1, <2>2, <2>3, <2>4, <2>5
<1>15. ASSUME NEW h \in Handles, SubscribeTimesOut(h) PROVE IInv'
  <2>1. TypeOK' /\ KindInv' /\ GuardInv' /\ EntryInv' /\ FirstInv'
    BY <1>15 DEF SubscribeTimesOut, TypeOK, KindInv, GuardInv, EntryInv, FirstInv
  <2>2. LiveSubscriberSubscribed'
    BY <1>15 DEF SubscribeTimesOut, TypeOK, KindInv, GuardInv, EntryInv, LiveSubscriberSubscribed, Restored
  <2>3. ServiceHandleOwnsEntry'
    BY <1>15 DEF SubscribeTimesOut, TypeOK, KindInv, ServiceHandleOwnsEntry, OwnsService
  <2>4. RecordInv' /\ LivePublisherAdvertised'
    BY <1>15 DEF SubscribeTimesOut, TypeOK, KindInv, RecordInv, LivePublisherAdvertised, NoneDropped, Restored
  <2>5. NoSubscriberUnsubscribed'
    BY <1>15 DEF SubscribeTimesOut, TypeOK, FirstInv, NoSubscriberUnsubscribed
  <2>6. QED
    BY <2>1, <2>2, <2>3, <2>4, <2>5
<1>16. CASE ReadFails
  <2>1. TypeOK' /\ KindInv' /\ GuardInv' /\ EntryInv' /\ FirstInv'
    BY <1>16 DEF ReadFails, TypeOK, KindInv, GuardInv, EntryInv, FirstInv
  <2>2. LiveSubscriberSubscribed'
    BY <1>16 DEF ReadFails, TypeOK, KindInv, GuardInv, EntryInv, LiveSubscriberSubscribed, Restored
  <2>3. ServiceHandleOwnsEntry'
    BY <1>16 DEF ReadFails, TypeOK, KindInv, ServiceHandleOwnsEntry, OwnsService
  <2>4. RecordInv' /\ LivePublisherAdvertised'
    BY <1>16 DEF ReadFails, TypeOK, KindInv, RecordInv, LivePublisherAdvertised, NoneDropped, Restored
  <2>5. NoSubscriberUnsubscribed'
    BY <1>16 DEF ReadFails, TypeOK, FirstInv, NoSubscriberUnsubscribed
  <2>6. QED
    BY <2>1, <2>2, <2>3, <2>4, <2>5
<1>17. CASE RequestWrite
  <2>1. TypeOK' /\ KindInv' /\ GuardInv' /\ EntryInv' /\ FirstInv'
    BY <1>17 DEF RequestWrite, TypeOK, KindInv, GuardInv, EntryInv, FirstInv
  <2>2. LiveSubscriberSubscribed'
    BY <1>17 DEF RequestWrite, TypeOK, KindInv, GuardInv, EntryInv, LiveSubscriberSubscribed, Restored
  <2>3. ServiceHandleOwnsEntry'
    BY <1>17 DEF RequestWrite, TypeOK, KindInv, ServiceHandleOwnsEntry, OwnsService
  <2>4. RecordInv' /\ LivePublisherAdvertised'
    BY <1>17 DEF RequestWrite, TypeOK, KindInv, RecordInv, LivePublisherAdvertised, NoneDropped, Restored
  <2>5. NoSubscriberUnsubscribed'
    BY <1>17 DEF RequestWrite, TypeOK, FirstInv, NoSubscriberUnsubscribed
  <2>6. QED
    BY <2>1, <2>2, <2>3, <2>4, <2>5
<1>18. CASE TakeWrite
  <2>1. TypeOK' /\ KindInv' /\ GuardInv' /\ EntryInv' /\ FirstInv'
    BY <1>18 DEF TakeWrite, TypeOK, KindInv, GuardInv, EntryInv, FirstInv
  <2>2. LiveSubscriberSubscribed'
    BY <1>18 DEF TakeWrite, TypeOK, KindInv, GuardInv, EntryInv, LiveSubscriberSubscribed, Restored
  <2>3. ServiceHandleOwnsEntry'
    BY <1>18 DEF TakeWrite, TypeOK, KindInv, ServiceHandleOwnsEntry, OwnsService
  <2>4. RecordInv' /\ LivePublisherAdvertised'
    BY <1>18 DEF TakeWrite, TypeOK, KindInv, RecordInv, LivePublisherAdvertised, NoneDropped, Restored
  <2>5. NoSubscriberUnsubscribed'
    BY <1>18 DEF TakeWrite, TypeOK, FirstInv, NoSubscriberUnsubscribed
  <2>6. QED
    BY <2>1, <2>2, <2>3, <2>4, <2>5
<1>19. CASE Resend
  <2>1. TypeOK' /\ KindInv' /\ GuardInv' /\ EntryInv' /\ FirstInv'
    BY <1>19 DEF Resend, TypeOK, KindInv, GuardInv, EntryInv, FirstInv
  <2>2. LiveSubscriberSubscribed'
    BY <1>19 DEF Resend, TypeOK, KindInv, GuardInv, EntryInv, LiveSubscriberSubscribed, Restored
  <2>3. ServiceHandleOwnsEntry'
    BY <1>19 DEF Resend, TypeOK, KindInv, ServiceHandleOwnsEntry, OwnsService
  <2>4. RecordInv' /\ LivePublisherAdvertised'
    BY <1>19 DEF Resend, TypeOK, KindInv, RecordInv, LivePublisherAdvertised, NoneDropped, Restored
  <2>5. NoSubscriberUnsubscribed'
    BY <1>19 DEF Resend, TypeOK, FirstInv, NoSubscriberUnsubscribed
  <2>6. QED
    BY <2>1, <2>2, <2>3, <2>4, <2>5
<1>20. CASE ResendFails
  <2>1. TypeOK' /\ KindInv' /\ GuardInv' /\ EntryInv' /\ FirstInv'
    BY <1>20 DEF ResendFails, TypeOK, KindInv, GuardInv, EntryInv, FirstInv
  <2>2. LiveSubscriberSubscribed'
    BY <1>20 DEF ResendFails, TypeOK, KindInv, GuardInv, EntryInv, LiveSubscriberSubscribed, Restored
  <2>3. ServiceHandleOwnsEntry'
    BY <1>20 DEF ResendFails, TypeOK, KindInv, ServiceHandleOwnsEntry, OwnsService
  <2>4. RecordInv' /\ LivePublisherAdvertised'
    BY <1>20 DEF ResendFails, TypeOK, KindInv, RecordInv, LivePublisherAdvertised, NoneDropped, Restored
  <2>5. NoSubscriberUnsubscribed'
    BY <1>20 DEF ResendFails, TypeOK, FirstInv, NoSubscriberUnsubscribed
  <2>6. QED
    BY <2>1, <2>2, <2>3, <2>4, <2>5
<1>21. CASE MarkConnected
  <2>1. TypeOK' /\ KindInv' /\ GuardInv' /\ EntryInv' /\ FirstInv'
    BY <1>21 DEF MarkConnected, TypeOK, KindInv, GuardInv, EntryInv, FirstInv
  <2>2. LiveSubscriberSubscribed'
    BY <1>21 DEF MarkConnected, TypeOK, KindInv, GuardInv, EntryInv, LiveSubscriberSubscribed, Restored
  <2>3. ServiceHandleOwnsEntry'
    BY <1>21 DEF MarkConnected, TypeOK, KindInv, ServiceHandleOwnsEntry, OwnsService
  <2>4. RecordInv' /\ LivePublisherAdvertised'
    BY <1>21 DEF MarkConnected, TypeOK, KindInv, RecordInv, LivePublisherAdvertised, NoneDropped, Restored
  <2>5. NoSubscriberUnsubscribed'
    BY <1>21 DEF MarkConnected, TypeOK, FirstInv, NoSubscriberUnsubscribed
  <2>6. QED
    BY <2>1, <2>2, <2>3, <2>4, <2>5
<1>22. CASE Disconnect
  <2>1. TypeOK' /\ KindInv' /\ GuardInv' /\ EntryInv' /\ FirstInv'
    BY <1>22 DEF Disconnect, TypeOK, KindInv, GuardInv, EntryInv, FirstInv
  <2>2. LiveSubscriberSubscribed'
    BY <1>22 DEF Disconnect, TypeOK, KindInv, GuardInv, EntryInv, LiveSubscriberSubscribed, Restored
  <2>3. ServiceHandleOwnsEntry'
    BY <1>22 DEF Disconnect, TypeOK, KindInv, ServiceHandleOwnsEntry, OwnsService
  <2>4. RecordInv' /\ LivePublisherAdvertised'
    BY <1>22 DEF Disconnect, TypeOK, KindInv, RecordInv, LivePublisherAdvertised, NoneDropped, Restored
  <2>5. NoSubscriberUnsubscribed'
    BY <1>22 DEF Disconnect, TypeOK, FirstInv, NoSubscriberUnsubscribed
  <2>6. QED
    BY <2>1, <2>2, <2>3, <2>4, <2>5
<1>23. CASE Connect
  <2>1. TypeOK' /\ KindInv' /\ GuardInv' /\ EntryInv' /\ FirstInv'
    BY <1>23 DEF Connect, TypeOK, KindInv, GuardInv, EntryInv, FirstInv
  <2>2. LiveSubscriberSubscribed'
    BY <1>23 DEF Connect, TypeOK, KindInv, GuardInv, EntryInv, LiveSubscriberSubscribed, Restored
  <2>3. ServiceHandleOwnsEntry'
    BY <1>23 DEF Connect, TypeOK, KindInv, ServiceHandleOwnsEntry, OwnsService
  <2>4. RecordInv' /\ LivePublisherAdvertised'
    BY <1>23 DEF Connect, TypeOK, KindInv, RecordInv, LivePublisherAdvertised, NoneDropped, Restored
  <2>5. NoSubscriberUnsubscribed'
    BY <1>23 DEF Connect, TypeOK, FirstInv, NoSubscriberUnsubscribed
  <2>6. QED
    BY <2>1, <2>2, <2>3, <2>4, <2>5
<1>24. CASE UNCHANGED vars
  <2>1. TypeOK' /\ KindInv' /\ GuardInv' /\ EntryInv' /\ FirstInv'
    BY <1>24 DEF vars, TypeOK, KindInv, GuardInv, EntryInv, FirstInv
  <2>2. LiveSubscriberSubscribed'
    BY <1>24 DEF vars, TypeOK, KindInv, GuardInv, EntryInv, LiveSubscriberSubscribed, Restored
  <2>3. ServiceHandleOwnsEntry'
    BY <1>24 DEF vars, TypeOK, KindInv, ServiceHandleOwnsEntry, OwnsService
  <2>4. RecordInv' /\ LivePublisherAdvertised'
    BY <1>24 DEF vars, TypeOK, KindInv, RecordInv, LivePublisherAdvertised, NoneDropped, Restored
  <2>5. NoSubscriberUnsubscribed'
    BY <1>24 DEF vars, TypeOK, FirstInv, NoSubscriberUnsubscribed
  <2>6. QED
    BY <2>1, <2>2, <2>3, <2>4, <2>5
<1>25. QED
  BY <1>1, <1>2, <1>3, <1>4, <1>5, <1>6, <1>7, <1>8, <1>9, <1>10, <1>11, <1>12,
     <1>13, <1>14, <1>15, <1>16, <1>17, <1>18, <1>19, <1>20, <1>21, <1>22,
     <1>23, <1>24
     DEF Next, LockStep, MapStep, SendStep, SpinStep, Quiet

(* The inductive invariant holds in every reachable state. *)
THEOREM Invariance == Spec => []IInv
<1>1. Init => IInv
  BY InitIInv
<1>2. IInv /\ [Next]_vars => IInv'
  BY StepIInv
<1>3. QED
  BY <1>1, <1>2, PTL DEF Spec

(* The variables keep their types. *)
THEOREM TypeCorrect == Spec => []TypeOK
<1>1. IInv => TypeOK
  BY DEF IInv
<1>2. QED
  BY <1>1, Invariance, PTL

(***************************************************************************)
(* While a connection is up, the server has a subscription for every topic *)
(* with a live subscriber.                                                 *)
(***************************************************************************)
THEOREM SubscribersAreSubscribed == Spec => []LiveSubscriberSubscribed
<1>1. IInv => LiveSubscriberSubscribed
  BY DEF IInv
<1>2. QED
  BY <1>1, Invariance, PTL

(* A service name has at most one live handle, whose callback can be found. *)
THEOREM ServiceHandlesOwnEntries == Spec => []ServiceHandleOwnsEntry
<1>1. IInv => ServiceHandleOwnsEntry
  BY DEF IInv
<1>2. QED
  BY <1>1, Invariance, PTL

(***************************************************************************)
(* While a connection is up, the topic of every live publisher is          *)
(* advertised, unless another publisher of the topic was dropped.          *)
(***************************************************************************)
THEOREM PublishersAreAdvertised == Spec => []LivePublisherAdvertised
<1>1. IInv => LivePublisherAdvertised
  BY DEF IInv
<1>2. QED
  BY <1>1, Invariance, PTL

(* On the first connection, nothing without a subscriber stays subscribed. *)
THEOREM UnusedAreUnsubscribed == Spec => []NoSubscriberUnsubscribed
<1>1. IInv => NoSubscriberUnsubscribed
  BY DEF IInv
<1>2. QED
  BY <1>1, Invariance, PTL

-----------------------------------------------------------------------------
(***************************************************************************)
(* Waiting for locks                                                       *)
(***************************************************************************)

(* Nothing is locked at the start. *)
LEMMA InitLocks == Init => LockInv
BY RegistryAssumption DEF Init, LockInv, Readers, Queued

(* Every step keeps who holds what: the spin task gets the write half when *)
(* nobody reads, and from its request until it lets go whoever asks to     *)
(* read queues.                                                            *)
LEMMA StepLocks == ASSUME IInv, LockInv, [Next]_vars PROVE LockInv'
<1> USE RegistryAssumption DEF IInv, TypeOK, KindInv, LockInv, Readers, Queued
<1>1. ASSUME NEW h \in Handles, Open(h) PROVE LockInv'
  BY <1>1 DEF Open
<1>2. ASSUME NEW h \in Handles, Drop(h) PROVE LockInv'
  BY <1>2 DEF Drop
<1>3. ASSUME NEW h \in Handles, LockOptions(h) PROVE LockInv'
  BY <1>3 DEF LockOptions
<1>4. ASSUME NEW h \in Handles, LockClient(h) PROVE LockInv'
  BY <1>4 DEF LockClient
<1>5. ASSUME NEW h \in Handles, TakeWriter(h) PROVE LockInv'
  BY <1>5 DEF TakeWriter
<1>6. ASSUME NEW h \in Handles, CheckPublisher(h) PROVE LockInv'
  BY <1>6 DEF CheckPublisher
<1>7. ASSUME NEW h \in Handles, InsertPublisher(h) PROVE LockInv'
  BY <1>7 DEF InsertPublisher
<1>8. ASSUME NEW h \in Handles, RemovePublisher(h) PROVE LockInv'
  BY <1>8 DEF RemovePublisher
<1>9. ASSUME NEW h \in Handles, InsertService(h) PROVE LockInv'
  BY <1>9 DEF InsertService
<1>10. ASSUME NEW h \in Handles, RemoveService(h) PROVE LockInv'
  BY <1>10 DEF RemoveService
<1>11. ASSUME NEW h \in Handles, EnterTopic(h) PROVE LockInv'
  BY <1>11 DEF EnterTopic
<1>12. ASSUME NEW h \in Handles, LeaveTopic(h) PROVE LockInv'
  BY <1>12 DEF LeaveTopic
<1>13. ASSUME NEW h \in Handles, Send(h) PROVE LockInv'
  BY <1>13 DEF Send
<1>14. ASSUME NEW h \in Handles, SendFails(h) PROVE LockInv'
  BY <1>14 DEF SendFails
<1>15. ASSUME NEW h \in Handles, SubscribeTimesOut(h) PROVE LockInv'
  BY <1>15 DEF SubscribeTimesOut
<1>16. CASE ReadFails
  BY <1>16 DEF ReadFails
<1>17. CASE RequestWrite
  BY <1>17 DEF RequestWrite
<1>18. CASE TakeWrite
  BY <1>18 DEF TakeWrite
<1>19. CASE Resend
  BY <1>19 DEF Resend
<1>20. CASE ResendFails
  BY <1>20 DEF ResendFails
<1>21. CASE MarkConnected
  BY <1>21 DEF MarkConnected
<1>22. CASE Disconnect
  BY <1>22 DEF Disconnect
<1>23. CASE Connect
  BY <1>23 DEF Connect
<1>24. CASE UNCHANGED vars
  BY <1>24 DEF vars
<1>25. QED
  BY <1>1, <1>2, <1>3, <1>4, <1>5, <1>6, <1>7, <1>8, <1>9, <1>10, <1>11,
     <1>12, <1>13, <1>14, <1>15, <1>16, <1>17, <1>18, <1>19, <1>20,
     <1>21, <1>22, <1>23, <1>24
     DEF Next, LockStep, MapStep, SendStep, SpinStep, Quiet

(* The order in which locks are taken: whoever waits in a circle of waiting *)
(* waits for one who waits for a lock that is taken later; the sink is the  *)
(* last.  Only the second request of the client's lock is out of order.     *)
LEMMA CirclesAskTwice ==
    ASSUME IInv, LockInv, NEW s \in SUBSET Handles, Circle(s)
    PROVE  ~ HasTimeout /\ \E u \in s \cap Subs : pc[u] = "queuedAgain"
<1> USE RegistryAssumption DEF IInv, TypeOK, WaitsFor
<1>1. \A a \in s : pc[a] # "sending"
  BY DEF Circle, Queued
<1>2. writer \notin s
  BY <1>1 DEF LockInv
<1>3. \A a \in s : pc[a] # "tracked"
  BY <1>2 DEF Circle, Queued
<1>4. \A a \in s : pc[a] # "locked"
  <2>1. \A t \in Topics : guard[t] \notin s
    BY <1>1, <1>3 DEF LockInv
  <2>2. \A a \in Handles : TopicOf[a] \in Topics
    OBVIOUS
  <2>3. QED
    BY <1>2, <2>1, <2>2 DEF Circle, Queued
<1>5. PICK a \in s, b \in s : WaitsFor(a, b)
  BY DEF Circle
<1>6. b \in Readers
  BY <1>3, <1>4, <1>5
<1>7. PICK c \in s : WaitsFor(b, c)
  BY DEF Circle
<1>8. pc[b] = "queuedAgain" /\ ~ Limited(b)
  BY <1>3, <1>4, <1>6, <1>7 DEF Readers, Queued
<1>9. b \in Subs /\ phase[b] = "opening"
  BY <1>8 DEF KindInv
<1>10. QED
  BY <1>8, <1>9

(* Whoever waits for a lock waits for somebody at work, and no circle of      *)
(* waiting goes on for good but through the second request of a subscribe     *)
(* without a timeout.                                                         *)
THEOREM LocksComeFree == Spec => []OnlySubscribeDeadlocks
<1>1. Init => IInv /\ LockInv
  BY InitIInv, InitLocks
<1>2. IInv /\ LockInv /\ [Next]_vars => IInv' /\ LockInv'
  BY StepIInv, StepLocks
<1>3. IInv /\ LockInv => OnlySubscribeDeadlocks
  <2> SUFFICES ASSUME IInv, LockInv PROVE OnlySubscribeDeadlocks
    OBVIOUS
  <2>1. \A h \in Handles : pc[h] \in Queued => ReadBlocked
    BY DEF LockInv
  <2>2. ASSUME NEW a \in Handles, NEW b \in Handles, WaitsFor(a, b) PROVE pc[b] # "idle"
    <3>1. TopicOf[a] \in Topics
      BY RegistryAssumption
    <3>2. QED
      BY <2>2, <3>1, RegistryAssumption DEF LockInv, WaitsFor, Readers
  <2>3. QED
    BY <2>1, <2>2, CirclesAskTwice DEF OnlySubscribeDeadlocks
<1>4. QED
  BY <1>1, <1>2, <1>3, PTL DEF Spec

=============================================================================
