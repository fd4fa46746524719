--------------------------- MODULE Ros1Node_proofs ---------------------------
(***************************************************************************)
(* Proofs about Ros1Node and its parts, for any Publishers, connections    *)
(* and advertise calls, also when calls of the master fail.  First the     *)
(* parts: each keeps its own invariant, with the mutex as it sees it.      *)
(* Then the node: its steps are steps of one part and nothing for the      *)
(* other.                                                                  *)
(***************************************************************************)
EXTENDS Ros1Node, TLAPS

-----------------------------------------------------------------------------
(***************************************************************************)
(* The topic                                                               *)
(***************************************************************************)
USE DEF TopicView!nodeVars, TopicView!life, TopicView!Become, TopicView!Holders, TopicView!HangUp

(* A node starts with no publication, and all of IInv. *)
LEMMA TopicInit == ASSUME TopicView!PublicationConstants, TopicView!Init PROVE TopicView!IInv
BY DEF TopicView!PublicationConstants, TopicView!Init, TopicView!IInv, TopicView!TypeOK, TopicView!PubInv,
       TopicView!LivePublisherKeepsEntry, TopicView!LivePublisherRegistered, TopicView!MasterMatches

(* Every step of a Publisher, a client, the accept task or the cleanup keeps IInv. *)
LEMMA TopicStepIInv == ASSUME TopicView!PublicationConstants, TopicView!IInv, [TopicView!Next]_(TopicView!vars) PROVE
       TopicView!IInv'
<1> USE
   DEF TopicView!PublicationConstants, TopicView!LivePublisherKeepsEntry, TopicView!LivePublisherRegistered,
       TopicView!MasterMatches
<1>0. /\ TopicView!TypeOK /\ TopicView!PubInv /\ TopicView!MasterMatches
      /\ TopicView!LivePublisherKeepsEntry /\ TopicView!LivePublisherRegistered
  BY DEF TopicView!IInv
<1>1. ASSUME NEW p \in Pubs, TopicView!Advertise(p) PROVE TopicView!IInv'
  BY <1>0, <1>1 DEF TopicView!Advertise, TopicView!IInv, TopicView!TypeOK, TopicView!PubInv
<1>2. ASSUME NEW p \in Pubs, TopicView!ShareEntry(p) PROVE TopicView!IInv'
  BY <1>0, <1>2 DEF TopicView!ShareEntry, TopicView!IInv, TopicView!TypeOK, TopicView!PubInv
<1>3. ASSUME NEW p \in Pubs, TopicView!RefuseShutDown(p) PROVE TopicView!IInv'
  BY <1>0, <1>3 DEF TopicView!RefuseShutDown, TopicView!IInv, TopicView!TypeOK, TopicView!PubInv
<1>4. ASSUME NEW p \in Pubs, TopicView!MakePublication(p) PROVE TopicView!IInv'
  BY <1>0, <1>4 DEF TopicView!MakePublication, TopicView!IInv, TopicView!TypeOK, TopicView!PubInv
<1>5. ASSUME NEW p \in Pubs, TopicView!MasterRegisters(p) PROVE TopicView!IInv'
  BY <1>0, <1>5 DEF TopicView!MasterRegisters, TopicView!IInv, TopicView!TypeOK, TopicView!PubInv
<1>6. ASSUME NEW p \in Pubs, TopicView!RegistrationFails(p) PROVE TopicView!IInv'
  BY <1>0, <1>6 DEF TopicView!RegistrationFails, TopicView!IInv, TopicView!TypeOK, TopicView!PubInv
<1>7. ASSUME NEW p \in Pubs, TopicView!Drop(p) PROVE TopicView!IInv'
  BY <1>0, <1>7 DEF TopicView!Drop, TopicView!IInv, TopicView!TypeOK, TopicView!PubInv
<1>8. ASSUME NEW c \in Conns, TopicView!ClientConnects(c) \/ TopicView!Accept(c) \/ TopicView!EndHandshake(c)
       \/ TopicView!Panic(c) \/ TopicView!Stall(c)
      PROVE  TopicView!IInv'
  <2>1. TopicView!TypeOK'
    BY <1>0, <1>8
       DEF TopicView!ClientConnects, TopicView!Accept, TopicView!EndHandshake, TopicView!Panic, TopicView!Stall, TopicView!TypeOK
  <2>2. UNCHANGED TopicView!nodeVars /\ (accept = "ended" <=> accept' = "ended")
        /\ (accept = "none" <=> accept' = "none")
    BY <1>0, <1>8
       DEF TopicView!ClientConnects, TopicView!Accept, TopicView!EndHandshake, TopicView!Panic, TopicView!Stall, TopicView!TypeOK
  <2>3. QED
    BY <1>0, <2>1, <2>2 DEF TopicView!IInv, TopicView!PubInv
<1>9. CASE TopicView!NoticeShutdown
  BY <1>0, <1>9 DEF TopicView!NoticeShutdown, TopicView!IInv, TopicView!TypeOK, TopicView!PubInv
<1>10. CASE TopicView!CleanupAsks
  BY <1>0, <1>10 DEF TopicView!CleanupAsks, TopicView!IInv, TopicView!TypeOK, TopicView!PubInv
<1>11. CASE TopicView!CleanupEnds
  BY <1>0, <1>11 DEF TopicView!CleanupEnds, TopicView!IInv, TopicView!TypeOK, TopicView!PubInv
<1>12. CASE UNCHANGED TopicView!vars
  BY <1>0, <1>12 DEF TopicView!vars, TopicView!IInv, TopicView!TypeOK, TopicView!PubInv
<1>13. CASE TopicView!NoticeTooLate
  BY <1>0, <1>13 DEF TopicView!NoticeTooLate, TopicView!IInv, TopicView!TypeOK, TopicView!PubInv
<1>14. CASE TopicView!Leave
  BY <1>0, <1>14 DEF TopicView!Leave, TopicView!IInv, TopicView!TypeOK, TopicView!PubInv
<1>15. CASE TopicView!Shutdown
  BY <1>0, <1>15
     DEF TopicView!Shutdown, TopicView!UnregisterAll, TopicView!IInv, TopicView!TypeOK, TopicView!PubInv
<1>16. CASE TopicView!NodeDrops
  <2>1. TopicView!TypeOK' /\ TopicView!PubInv'
    BY <1>0, <1>16 DEF TopicView!NodeDrops, TopicView!UnregisterAll, TopicView!TypeOK, TopicView!PubInv
  <2>2. TopicView!MasterMatches' /\ TopicView!LivePublisherKeepsEntry' /\ TopicView!LivePublisherRegistered'
    BY <1>0, <1>16 DEF TopicView!NodeDrops, TopicView!UnregisterAll, TopicView!TypeOK, TopicView!PubInv
  <2>3. QED
    BY <2>1, <2>2 DEF TopicView!IInv
<1>17. QED
  BY <1>1, <1>2, <1>3, <1>4, <1>5, <1>6, <1>7, <1>8, <1>9, <1>10, <1>11, <1>12, <1>13, <1>14, <1>15, <1>16
     DEF TopicView!Next, TopicView!PublisherStep, TopicView!ClientStep

-----------------------------------------------------------------------------
(***************************************************************************)
(* The service                                                             *)
(***************************************************************************)
(* A node starts with no service. *)
LEMMA ServiceInit == ASSUME ServiceView!ServersConstants, ServiceView!Init PROVE ServiceView!IInv
  BY DEF ServiceView!ServersConstants, ServiceView!Init, ServiceView!IInv, ServiceView!TypeOK, ServiceView!LockInv,
         ServiceView!MasterMatches, ServiceView!LinkHasHandle, ServiceView!OnlyDropsRemove, ServiceView!Stages, ServiceView!Owner

(* A step changes the stage of one server, and takes or frees the mutex. *)
LEMMA ServiceStepIInv == ASSUME ServiceView!ServersConstants, ServiceView!IInv, [ServiceView!Next]_(ServiceView!vars) PROVE ServiceView!IInv'
<1> USE DEF ServiceView!ServersConstants, ServiceView!life
<1>0. ServiceView!TypeOK /\ ServiceView!LockInv /\ ServiceView!MasterMatches /\ ServiceView!LinkHasHandle /\
       ServiceView!OnlyDropsRemove
  BY DEF ServiceView!IInv
<1>1. ASSUME NEW s \in Servers, ServiceView!Advertise(s) \/ ServiceView!Drop(s) \/ ServiceView!BindFails(s) \/
       ServiceView!NothingToRemove(s) \/ ServiceView!DropTooLate(s)
      PROVE  ServiceView!IInv'
  <2> USE <1>1 DEF ServiceView!Advertise, ServiceView!Drop, ServiceView!DropTooLate, ServiceView!BindFails, ServiceView!NothingToRemove, ServiceView!Becomes
  <2>1. ServiceView!TypeOK'
    BY <1>0 DEF ServiceView!TypeOK, ServiceView!Stages, ServiceView!LockInv
  <2>2. ServiceView!LockInv'
    BY <1>0 DEF ServiceView!TypeOK, ServiceView!LockInv
  <2>3. ServiceView!MasterMatches'
    BY <1>0 DEF ServiceView!MasterMatches
  <2>4. ServiceView!LinkHasHandle'
    BY <1>0 DEF ServiceView!LinkHasHandle, ServiceView!TypeOK, ServiceView!Owner, ServiceView!LockInv
  <2>5. ServiceView!OnlyDropsRemove'
    BY <1>0 DEF ServiceView!OnlyDropsRemove, ServiceView!TypeOK
  <2>6. QED
    BY <2>1, <2>2, <2>3, <2>4, <2>5 DEF ServiceView!IInv
<1>2. ASSUME NEW s \in Servers, ServiceView!InsertLink(s) PROVE ServiceView!IInv'
  <2> USE <1>2 DEF ServiceView!InsertLink, ServiceView!Becomes
  <2>1. ServiceView!TypeOK'
    BY <1>0 DEF ServiceView!TypeOK, ServiceView!Stages, ServiceView!Owner, ServiceView!LockInv
  <2>2. ServiceView!LockInv'
    BY <1>0 DEF ServiceView!TypeOK, ServiceView!LockInv
  <2>3. QED
    BY <1>0, <2>1, <2>2
       DEF ServiceView!IInv, ServiceView!TypeOK, ServiceView!MasterMatches, ServiceView!LinkHasHandle, ServiceView!OnlyDropsRemove
<1>3. ASSUME NEW s \in Servers, ServiceView!MasterRegisters(s) \/ ServiceView!RegistrationFails(s) PROVE
       ServiceView!IInv'
  <2> USE <1>3 DEF ServiceView!MasterRegisters, ServiceView!RegistrationFails, ServiceView!Becomes
  <2>1. ServiceLock = s /\ link = s
    BY <1>0 DEF ServiceView!TypeOK, ServiceView!LockInv
  <2>2. ServiceView!TypeOK'
    BY <1>0, <2>1 DEF ServiceView!TypeOK, ServiceView!Stages, ServiceView!Owner
  <2>3. ServiceView!LockInv'
    BY <1>0, <2>1 DEF ServiceView!TypeOK, ServiceView!LockInv
  <2>4. ServiceView!MasterMatches' /\ ServiceView!LinkHasHandle'
    BY <1>0, <2>1 DEF ServiceView!TypeOK, ServiceView!MasterMatches, ServiceView!LinkHasHandle
  <2>5. ServiceView!OnlyDropsRemove'
    BY <1>0, <2>1 DEF ServiceView!TypeOK, ServiceView!OnlyDropsRemove
  <2>6. QED
    BY <2>2, <2>3, <2>4, <2>5 DEF ServiceView!IInv
<1>4. ASSUME NEW s \in Servers, ServiceView!RemoveLink(s) PROVE ServiceView!IInv'
  <2> USE <1>4 DEF ServiceView!RemoveLink, ServiceView!Becomes
  <2>1. ServiceView!TypeOK'
    BY <1>0 DEF ServiceView!TypeOK, ServiceView!Stages, ServiceView!Owner, ServiceView!LockInv
  <2>2. ServiceView!LockInv'
    BY <1>0 DEF ServiceView!TypeOK, ServiceView!LockInv, ServiceView!MasterMatches
  <2>3. QED
    BY <1>0, <2>1, <2>2
       DEF ServiceView!IInv, ServiceView!TypeOK, ServiceView!MasterMatches, ServiceView!LinkHasHandle, ServiceView!OnlyDropsRemove
<1>5. ASSUME NEW s \in Servers, ServiceView!MasterUnregisters(s) \/ ServiceView!UnregisterFails(s) PROVE
       ServiceView!IInv'
  <2> USE <1>5 DEF ServiceView!MasterUnregisters, ServiceView!UnregisterFails, ServiceView!Becomes
  <2>1. ServiceLock = s /\ (~ lost => link = Nobody /\ (provider = removing \/ (killed /\ provider = Nobody)))
    BY <1>0 DEF ServiceView!TypeOK, ServiceView!LockInv
  <2>2. ServiceView!TypeOK'
    BY <1>0, <2>1 DEF ServiceView!TypeOK, ServiceView!Stages, ServiceView!Owner
  <2>3. ServiceView!LockInv'
    BY <1>0, <2>1 DEF ServiceView!TypeOK, ServiceView!LockInv
  <2>4. ServiceView!MasterMatches' /\ ServiceView!LinkHasHandle'
    BY <1>0, <2>1 DEF ServiceView!TypeOK, ServiceView!MasterMatches, ServiceView!LinkHasHandle
  <2>5. ServiceView!OnlyDropsRemove'
    BY <1>0 DEF ServiceView!TypeOK, ServiceView!OnlyDropsRemove
  <2>6. QED
    BY <2>2, <2>3, <2>4, <2>5 DEF ServiceView!IInv
<1>6. CASE UNCHANGED ServiceView!vars
  BY <1>0, <1>6
     DEF ServiceView!vars, ServiceView!IInv, ServiceView!TypeOK, ServiceView!LockInv, ServiceView!MasterMatches, ServiceView!LinkHasHandle,
         ServiceView!OnlyDropsRemove
<1>7. CASE ServiceView!Leave
  BY <1>0, <1>7
     DEF ServiceView!Leave, ServiceView!IInv, ServiceView!TypeOK, ServiceView!LockInv, ServiceView!MasterMatches,
         ServiceView!LinkHasHandle, ServiceView!OnlyDropsRemove
<1>8. CASE ServiceView!Shutdown
  <2> USE <1>8 DEF ServiceView!Shutdown, ServiceView!UnregisterAll
  <2>1. ServiceView!TypeOK'
    BY <1>0 DEF ServiceView!TypeOK, ServiceView!Owner
  <2>2. ServiceView!LockInv'
    BY <1>0 DEF ServiceView!TypeOK, ServiceView!LockInv
  <2>3. ServiceView!MasterMatches' /\ ServiceView!LinkHasHandle' /\ ServiceView!OnlyDropsRemove'
    BY <1>0 DEF ServiceView!MasterMatches, ServiceView!LinkHasHandle, ServiceView!OnlyDropsRemove
  <2>4. QED
    BY <2>1, <2>2, <2>3 DEF ServiceView!IInv
<1>9. CASE ServiceView!NodeDrops
  <2> USE <1>9 DEF ServiceView!NodeDrops, ServiceView!UnregisterAll
  <2>1. ServiceView!TypeOK'
    BY <1>0 DEF ServiceView!TypeOK, ServiceView!Owner
  <2>2. ServiceView!LockInv'
    BY <1>0 DEF ServiceView!TypeOK, ServiceView!LockInv
  <2>3. ServiceView!MasterMatches' /\ ServiceView!LinkHasHandle' /\ ServiceView!OnlyDropsRemove'
    BY <1>0 DEF ServiceView!MasterMatches, ServiceView!LinkHasHandle, ServiceView!OnlyDropsRemove
  <2>4. QED
    BY <2>1, <2>2, <2>3 DEF ServiceView!IInv
<1>10. QED
  BY <1>1, <1>2, <1>3, <1>4, <1>5, <1>6, <1>7, <1>8, <1>9 DEF ServiceView!Next, ServiceView!NodeStep

-----------------------------------------------------------------------------
(***************************************************************************)
(* The subscription: what Ros1Subscription_proofs shows of it, in the node *)
(***************************************************************************)
SubP == INSTANCE Ros1Subscription_proofs WITH
    lock <- SubLock, phase <- subscriber, entry <- subscription, registered <- subscribed,
    failed <- unknown

(* The lemmas there are about this view of the node. *)
LEMMA SubSame ==
    /\ SubP!Init <=> SubView!Init
    /\ SubP!Next <=> SubView!Next
    /\ SubP!vars = SubView!vars
    /\ SubP!IInv <=> SubView!IInv
    /\ SubP!UpdateInv <=> SubView!UpdateInv
    /\ SubP!ReadsAllPublishers <=> SubView!ReadsAllPublishers
    /\ SubP!EntryHasHandle <=> SubView!EntryHasHandle
    /\ SubP!SubscriptionConstants <=> SubView!SubscriptionConstants
BY DEF SubP!SubscriptionConstants, SubView!SubscriptionConstants, SubP!nodeVars,
       SubView!nodeVars, SubP!masterVars, SubView!masterVars, SubP!readerVars,
       SubView!readerVars, SubP!life, SubView!life, SubP!vars, SubView!vars, SubP!Ids,
       SubView!Ids, SubP!ReaderStates, SubView!ReaderStates, SubP!Phases, SubView!Phases,
       SubP!TypeOK, SubView!TypeOK, SubP!Init, SubView!Init, SubP!Running, SubView!Running,
       SubP!StartMissing, SubView!StartMissing, SubP!AbortReaders, SubView!AbortReaders,
       SubP!Become, SubView!Become, SubP!Subscribe, SubView!Subscribe,
       SubP!JoinSubscription, SubView!JoinSubscription, SubP!AskMaster, SubView!AskMaster,
       SubP!AddSubscription, SubView!AddSubscription, SubP!RegistrationFails,
       SubView!RegistrationFails, SubP!Drop, SubView!Drop, SubP!DropTooLate,
       SubView!DropTooLate, SubP!Receivers, SubView!Receivers, SubP!LeaveSubscription,
       SubView!LeaveSubscription, SubP!RemoveSubscription, SubView!RemoveSubscription,
       SubP!MasterRegisters, SubView!MasterRegisters, SubP!MasterUnregisters,
       SubView!MasterUnregisters, SubP!PublishersChange, SubView!PublishersChange,
       SubP!PublisherUpdate, SubView!PublisherUpdate, SubP!UpdateLost, SubView!UpdateLost,
       SubP!Leave, SubView!Leave, SubP!UnregisterAll, SubView!UnregisterAll, SubP!Shutdown,
       SubView!Shutdown, SubP!NodeDrops, SubView!NodeDrops, SubP!Connect, SubView!Connect,
       SubP!ReadError, SubView!ReadError, SubP!Exit, SubView!Exit, SubP!SubscriberStep,
       SubView!SubscriberStep, SubP!ReaderStep, SubView!ReaderStep, SubP!Next, SubView!Next,
       SubP!LiveSubscriberServed, SubView!LiveSubscriberServed, SubP!SubscriptionRegistered,
       SubView!SubscriptionRegistered, SubP!MasterMatches, SubView!MasterMatches,
       SubP!ListedPublisherRead, SubView!ListedPublisherRead, SubP!ReaderInv,
       SubView!ReaderInv, SubP!LockInv, SubView!LockInv, SubP!NodeInv, SubView!NodeInv,
       SubP!IInv, SubView!IInv, SubP!InSync, SubView!InSync, SubP!UpdateInv,
       SubView!UpdateInv, SubP!ReadsAllPublishers, SubView!ReadsAllPublishers,
       SubP!EntryHasHandle, SubView!EntryHasHandle

(* A node starts with no subscription. *)
LEMMA SubInit ==
    ASSUME SubView!SubscriptionConstants, SubView!Init
    PROVE  SubView!IInv /\ SubView!UpdateInv
BY SubSame, SubP!InitIInv, SubP!InitUpdate

(* Every step of a Subscriber, a reader and the master keeps IInv. *)
LEMMA SubStepIInv ==
    ASSUME SubView!SubscriptionConstants, SubView!IInv, SubView!UpdateInv,
           [SubView!Next]_(SubView!vars)
    PROVE  SubView!IInv' /\ SubView!UpdateInv'
<1>1. (SubP!IInv' <=> SubView!IInv') /\ (SubP!UpdateInv' <=> SubView!UpdateInv')
  BY DEF SubP!IInv, SubView!IInv, SubP!TypeOK, SubView!TypeOK, SubP!LockInv, SubView!LockInv,
       SubP!NodeInv, SubView!NodeInv, SubP!ReaderInv, SubView!ReaderInv,
       SubP!LiveSubscriberServed, SubView!LiveSubscriberServed, SubP!ListedPublisherRead,
       SubView!ListedPublisherRead, SubP!MasterMatches, SubView!MasterMatches,
       SubP!SubscriptionRegistered, SubView!SubscriptionRegistered, SubP!Running,
       SubView!Running, SubP!Ids, SubView!Ids, SubP!ReaderStates, SubView!ReaderStates,
       SubP!Phases, SubView!Phases, SubP!InSync, SubView!InSync, SubP!UpdateInv,
       SubView!UpdateInv
<1>2. SubP!vars' = SubView!vars'
  BY DEF SubP!vars, SubView!vars, SubP!nodeVars, SubView!nodeVars, SubP!masterVars,
     SubView!masterVars, SubP!readerVars, SubView!readerVars, SubP!life, SubView!life
<1>3. [SubP!Next]_(SubP!vars)
  BY <1>2, SubSame
<1>4. SubP!SubscriptionConstants /\ SubP!IInv /\ SubP!UpdateInv
  BY SubSame
<1>5. SubP!IInv' /\ SubP!UpdateInv'
  BY <1>3, <1>4, SubP!StepIInv, SubP!StepUpdate
<1>6. QED
  BY <1>1, <1>5

(* And keeps every Subscription with a Subscriber, or one that was dropped. *)
LEMMA SubStepHandles ==
    ASSUME SubView!SubscriptionConstants, SubView!IInv, SubView!EntryHasHandle,
           [SubView!Next]_(SubView!vars)
    PROVE  SubView!EntryHasHandle'
<1>1. SubP!EntryHasHandle' <=> SubView!EntryHasHandle'
  BY DEF SubP!EntryHasHandle, SubView!EntryHasHandle
<1>2. SubP!vars' = SubView!vars'
  BY DEF SubP!vars, SubView!vars, SubP!nodeVars, SubView!nodeVars, SubP!masterVars,
     SubView!masterVars, SubP!readerVars, SubView!readerVars, SubP!life, SubView!life
<1>3. [SubP!Next]_(SubP!vars)
  BY <1>2, SubSame
<1>4. SubP!SubscriptionConstants /\ SubP!IInv /\ SubP!EntryHasHandle
  BY SubSame
<1>5. QED
  BY <1>1, <1>3, <1>4, SubP!StepHandles

-----------------------------------------------------------------------------
(***************************************************************************)
(* The node                                                                *)
(***************************************************************************)

(* What the parts assume of the constants. *)
LEMMA PartConstants ==
    /\ TopicView!PublicationConstants /\ ServiceView!ServersConstants
    /\ SubView!SubscriptionConstants
BY NodeAssumption DEF NodeConstants, Topic!PublicationConstants, Service!ServersConstants,
   TopicView!PublicationConstants, ServiceView!ServersConstants,
   Sub!SubscriptionConstants, SubView!SubscriptionConstants

(* Whoever may have the mutex for one part is nobody to the others. *)
LEMMA Apart ==
    /\ Nobody \notin Pubs \cup Servers \cup Subs \cup Callers /\ Nobody # Cleaner
    /\ Cleaner \notin Pubs \cup Servers \cup Subs \cup Callers
    /\ \A p \in Pubs : p \notin Servers \cup Subs \cup Callers
    /\ \A p \in Servers : p \notin Pubs \cup Subs \cup Callers
    /\ \A p \in Subs : p \notin Pubs \cup Servers \cup Callers
    /\ \A p \in Callers : p \notin Pubs \cup Servers \cup Subs
BY NodeAssumption DEF NodeConstants, Topic!PublicationConstants, Service!ServersConstants,
   Sub!SubscriptionConstants

(* A node starts as each part does, with the mutex free. *)
LEMMA InitViews ==
    Init => TopicView!Init /\ ServiceView!Init /\ SubView!Init /\ lock = Nobody
<1>1. Init => lock = Nobody
  BY DEF Init, Topic!Init
<1>2. Nobody \notin Servers \cup Subs \cup Callers
  BY Apart
<1>3. Init => TopicView!Init
  BY <1>1, <1>2 DEF Init, Topic!Init, TopicView!Init, TopicLock
<1>4. Init => ServiceView!Init
  BY <1>1, <1>2 DEF Init, Service!Init, ServiceView!Init, ServiceLock
<1>5. Init => SubView!Init
  BY <1>1, Apart DEF Init, Sub!Init, SubView!Init, SubLock, Sub!Ids, SubView!Ids
<1>6. QED
  BY <1>1, <1>3, <1>4, <1>5

(* A step of the topic is one of its view, and the others see nothing of it. *)
LEMMA PublishingViews ==
    ASSUME IInv, Publishing
    PROVE  /\ TopicView!Next /\ UNCHANGED ServiceView!vars /\ UNCHANGED SubView!vars
           /\ lock' \in Pubs \cup {Cleaner, Nobody, lock}
           /\ UNCHANGED <<caller, life>> /\ \A c \in Callers : lock' = c <=> lock = c
<1>1. TopicView!PubInv
  BY DEF IInv, TopicView!IInv
<1> USE Apart DEF TopicLock, ServiceLock, SubLock, Topic!Become, TopicView!Become, Topic!Holders,
                 TopicView!Holders, Topic!HangUp, TopicView!HangUp, Topic!nodeVars,
                 TopicView!nodeVars, ServiceView!vars, serviceVars,
                 Topic!life, TopicView!life, ServiceView!life
<1>2. ASSUME NEW p \in Pubs, Topic!Advertise(p) \/ Topic!PublisherStep(p) \/ Topic!Drop(p)
      PROVE  /\ TopicView!Advertise(p) \/ TopicView!PublisherStep(p) \/ TopicView!Drop(p)
             /\ UNCHANGED <<ServiceLock, SubLock>> /\ lock' \in {p, Nobody, lock}
             /\ UNCHANGED <<node, killed>> /\ (lock \in Callers \cup Subs => UNCHANGED lock)
  <2>1. CASE Topic!Advertise(p)
    BY <2>1 DEF Topic!Advertise, TopicView!Advertise
  <2>2. CASE Topic!ShareEntry(p)
    BY <2>2 DEF Topic!ShareEntry, TopicView!ShareEntry, TopicView!PublisherStep
  <2>3. CASE Topic!RefuseShutDown(p)
    BY <2>3 DEF Topic!RefuseShutDown, TopicView!RefuseShutDown, TopicView!PublisherStep
  <2>4. CASE Topic!MakePublication(p)
    BY <2>4 DEF Topic!MakePublication, TopicView!MakePublication, TopicView!PublisherStep
  <2>5. CASE Topic!MasterRegisters(p)
    BY <1>1, <2>5 DEF Topic!MasterRegisters, TopicView!MasterRegisters,
       TopicView!PublisherStep, TopicView!PubInv
  <2>6. CASE Topic!RegistrationFails(p)
    BY <1>1, <2>6 DEF Topic!RegistrationFails, TopicView!RegistrationFails,
       TopicView!PublisherStep, TopicView!PubInv
  <2>7. CASE Topic!Drop(p)
    BY <2>7 DEF Topic!Drop, TopicView!Drop
  <2>8. QED
    BY <1>2, <2>1, <2>2, <2>3, <2>4, <2>5, <2>6, <2>7 DEF Topic!PublisherStep
<1>3. ASSUME NEW c \in Conns, Topic!ClientStep(c)
      PROVE  TopicView!ClientStep(c) /\ UNCHANGED <<lock, node, killed>>
  BY <1>3 DEF Topic!ClientStep, TopicView!ClientStep, Topic!ClientConnects,
     TopicView!ClientConnects, Topic!Accept, TopicView!Accept, Topic!Stall, TopicView!Stall,
     Topic!EndHandshake, TopicView!EndHandshake, Topic!Panic, TopicView!Panic
<1>4. Topic!NoticeShutdown => TopicView!NoticeShutdown /\ UNCHANGED <<lock, node, killed>>
  BY DEF Topic!NoticeShutdown, TopicView!NoticeShutdown
<1>5. Topic!CleanupAsks =>
        /\ TopicView!CleanupAsks /\ UNCHANGED <<ServiceLock, SubLock, node, killed>>
        /\ lock = Nobody /\ lock' = Cleaner
  BY DEF Topic!CleanupAsks, TopicView!CleanupAsks
<1>6. Topic!CleanupEnds =>
        /\ TopicView!CleanupEnds /\ UNCHANGED <<ServiceLock, SubLock, node, killed>>
        /\ lock = Cleaner /\ lock' = Nobody
  BY <1>1 DEF Topic!CleanupEnds, TopicView!CleanupEnds, TopicView!PubInv
<1>7. Topic!NoticeTooLate => TopicView!NoticeTooLate /\ UNCHANGED <<lock, node, killed>>
  BY DEF Topic!NoticeTooLate, TopicView!NoticeTooLate
<1>8. /\ TopicView!Next /\ UNCHANGED <<ServiceLock, SubLock, node, killed>>
      /\ lock' \in Pubs \cup {Cleaner, Nobody, lock}
      /\ \A c \in Callers : lock' = c <=> lock = c
  BY <1>2, <1>3, <1>4, <1>5, <1>6, <1>7 DEF Publishing, TopicView!Next
<1>9. UNCHANGED <<serviceVars, subVars, caller, kill>>
  BY DEF Publishing
<1>10. QED
  BY <1>8, <1>9 DEF life, subVars, SubView!vars, SubView!nodeVars, SubView!masterVars,
     SubView!readerVars, SubView!life

(* A step of the service is one of its view, and the others see nothing of it. *)
LEMMA ServingViews ==
    ASSUME IInv, Serving
    PROVE  /\ ServiceView!Next /\ UNCHANGED TopicView!vars /\ UNCHANGED SubView!vars
           /\ lock' \in Servers \cup {Nobody, lock}
           /\ UNCHANGED <<caller, life>> /\ \A c \in Callers : lock' = c <=> lock = c
<1>1. PICK s \in Servers :
        Service!Advertise(s) \/ Service!NodeStep(s) \/ Service!Drop(s) \/ Service!DropTooLate(s)
  BY DEF Serving
<1>2. server[s] \in {"registering", "unregistering"} => lock = s
  BY Apart DEF IInv, ServiceView!IInv, ServiceView!TypeOK, ServiceLock
<1> USE Apart, <1>2 DEF TopicLock, ServiceLock, SubLock, Service!Becomes, ServiceView!Becomes,
                       ServiceView!NodeStep, Service!life, ServiceView!life
<1>3. /\ \/ ServiceView!Advertise(s) \/ ServiceView!NodeStep(s)
         \/ ServiceView!Drop(s) \/ ServiceView!DropTooLate(s)
      /\ UNCHANGED <<TopicLock, SubLock, node, killed>> /\ lock' \in {s, Nobody, lock}
      /\ lock \in Callers => UNCHANGED lock
  <2>1. CASE Service!Advertise(s) \/ Service!Drop(s) \/ Service!DropTooLate(s)
    BY <2>1 DEF Service!Advertise, ServiceView!Advertise, Service!Drop, ServiceView!Drop,
       Service!DropTooLate, ServiceView!DropTooLate
  <2>2. CASE Service!BindFails(s) \/ Service!NothingToRemove(s)
    BY <2>2 DEF Service!BindFails, ServiceView!BindFails, Service!NothingToRemove,
       ServiceView!NothingToRemove
  <2>3. CASE Service!InsertLink(s) \/ Service!RemoveLink(s)
    BY <2>3 DEF Service!InsertLink, ServiceView!InsertLink, Service!RemoveLink,
       ServiceView!RemoveLink
  <2>4. CASE Service!MasterRegisters(s) \/ Service!RegistrationFails(s)
    BY <2>4 DEF Service!MasterRegisters, ServiceView!MasterRegisters,
       Service!RegistrationFails, ServiceView!RegistrationFails
  <2>5. CASE Service!MasterUnregisters(s) \/ Service!UnregisterFails(s)
    BY <2>5 DEF Service!MasterUnregisters, ServiceView!MasterUnregisters,
       Service!UnregisterFails, ServiceView!UnregisterFails
  <2>6. QED
    BY <1>1, <2>1, <2>2, <2>3, <2>4, <2>5 DEF Service!NodeStep
<1>4. QED
  <2>1. UNCHANGED <<topicVars, subVars, caller, kill>>
    BY DEF Serving
  <2>2. UNCHANGED TopicView!vars
    BY <1>3, <2>1 DEF TopicView!vars, TopicView!nodeVars, TopicView!life, topicVars
  <2>3. UNCHANGED SubView!vars
    BY <1>3, <2>1 DEF SubView!vars, SubView!nodeVars, SubView!masterVars,
       SubView!readerVars, SubView!life, subVars
  <2>4. QED
    BY <1>3, <2>1, <2>2, <2>3 DEF ServiceView!Next, life

(* A step of the subscription is one of its view, and the others see nothing of it. *)
LEMMA SubscribingViews ==
    ASSUME IInv, Subscribing
    PROVE  /\ SubView!Next /\ UNCHANGED TopicView!vars /\ UNCHANGED ServiceView!vars
           /\ lock' \in Subs \cup {Nobody, lock}
           /\ UNCHANGED <<caller, life>> /\ \A c \in Callers : lock' = c <=> lock = c
<1>1. \A s \in Subs :
        subscriber[s] \in {"registering", "answered", "unregistering"} => lock = s
  BY Apart DEF IInv, SubView!IInv, SubView!LockInv, SubLock
<1> USE Apart DEF TopicLock, ServiceLock, SubLock, Sub!Become, SubView!Become,
                  Sub!nodeVars, SubView!nodeVars, Sub!masterVars, SubView!masterVars,
                  Sub!readerVars, SubView!readerVars, Sub!life, SubView!life, Sub!Ids, SubView!Ids
<1> DEFINE Outside == UNCHANGED <<TopicLock, ServiceLock, node, killed>>
<1>2. ASSUME NEW s \in Subs, Sub!Subscribe(s) \/ Sub!Drop(s) \/ Sub!DropTooLate(s)
      PROVE  SubView!Next /\ Outside /\ UNCHANGED lock
  BY <1>2 DEF Sub!Subscribe, SubView!Subscribe, Sub!Drop, SubView!Drop, Sub!DropTooLate,
     SubView!DropTooLate, SubView!Next
<1>3. ASSUME NEW s \in Subs, Sub!SubscriberStep(s) \/ Sub!RegistrationFails(s)
      PROVE  /\ SubView!Next /\ Outside
             /\ lock' \in {s, Nobody, lock} /\ (lock \in Callers => UNCHANGED lock)
  <2> USE <1>1
  <2>1. CASE Sub!JoinSubscription(s)
    BY <2>1 DEF Sub!JoinSubscription, SubView!JoinSubscription, SubView!SubscriberStep,
       SubView!Next
  <2>2. CASE Sub!AskMaster(s)
    BY <2>2 DEF Sub!AskMaster, SubView!AskMaster, SubView!SubscriberStep, SubView!Next
  <2>3. CASE Sub!AddSubscription(s)
    <3>1. SubView!AddSubscription(s)
      BY <2>3 DEF Sub!AddSubscription, SubView!AddSubscription, Sub!StartMissing,
         SubView!StartMissing
    <3>2. Outside /\ lock = s /\ lock' = Nobody
      BY <2>3 DEF Sub!AddSubscription
    <3>3. QED
      BY <3>1, <3>2 DEF SubView!SubscriberStep, SubView!Next
  <2>4. CASE Sub!LeaveSubscription(s)
    BY <2>4 DEF Sub!LeaveSubscription, SubView!LeaveSubscription, Sub!Receivers,
       SubView!Receivers, SubView!SubscriberStep, SubView!Next
  <2>5. CASE Sub!RemoveSubscription(s)
    <3>1. SubView!RemoveSubscription(s)
      BY <2>5 DEF Sub!RemoveSubscription, SubView!RemoveSubscription, Sub!Receivers,
         SubView!Receivers, Sub!AbortReaders, SubView!AbortReaders, Sub!Running, SubView!Running
    <3>2. Outside /\ lock = Nobody /\ lock' = s
      BY <2>5 DEF Sub!RemoveSubscription
    <3>3. QED
      BY <3>1, <3>2 DEF SubView!SubscriberStep, SubView!Next
  <2>6. CASE Sub!MasterRegisters(s)
    BY <2>6 DEF Sub!MasterRegisters, SubView!MasterRegisters, SubView!SubscriberStep, SubView!Next
  <2>7. CASE Sub!MasterUnregisters(s)
    BY <2>7 DEF Sub!MasterUnregisters, SubView!MasterUnregisters, SubView!SubscriberStep,
       SubView!Next
  <2>8. CASE Sub!RegistrationFails(s)
    BY <2>8 DEF Sub!RegistrationFails, SubView!RegistrationFails, SubView!Next
  <2>9. QED
    BY <1>3, <2>1, <2>2, <2>3, <2>4, <2>5, <2>6, <2>7, <2>8 DEF Sub!SubscriberStep
<1>4. ASSUME NEW p \in Publishers, Sub!PublishersChange(p)
      PROVE  SubView!Next /\ Outside /\ UNCHANGED lock
  BY <1>4 DEF Sub!PublishersChange, SubView!PublishersChange, SubView!Next
<1>5. Sub!PublisherUpdate => SubView!Next /\ Outside /\ UNCHANGED lock
  <2> SUFFICES ASSUME Sub!PublisherUpdate PROVE SubView!PublisherUpdate /\ Outside /\ UNCHANGED lock
    BY DEF SubView!Next
  <2> QED
    BY DEF Sub!PublisherUpdate, SubView!PublisherUpdate, Sub!StartMissing, SubView!StartMissing
<1>6. Sub!UpdateLost => SubView!Next /\ Outside /\ UNCHANGED lock
  BY DEF Sub!UpdateLost, SubView!UpdateLost, SubView!Next
<1>7. ASSUME NEW p \in Publishers, NEW i \in Sub!Ids, Sub!ReaderStep(p, i) \/ Sub!ReadError(p, i)
      PROVE  SubView!Next /\ Outside /\ UNCHANGED lock
  BY <1>7 DEF Sub!ReaderStep, SubView!ReaderStep, Sub!Connect, SubView!Connect, Sub!Exit,
     SubView!Exit, Sub!ReadError, SubView!ReadError, Sub!Running, SubView!Running, SubView!Next
<1>8. /\ SubView!Next /\ Outside /\ lock' \in Subs \cup {Nobody, lock}
      /\ \A c \in Callers : lock' = c <=> lock = c
  BY <1>2, <1>3, <1>4, <1>5, <1>6, <1>7 DEF Subscribing
<1>9. UNCHANGED <<topicVars, serviceVars, caller, kill>>
  BY DEF Subscribing
<1>10. QED
  BY <1>8, <1>9 DEF life, topicVars, serviceVars, TopicView!vars, TopicView!nodeVars,
     TopicView!life, ServiceView!vars, ServiceView!life

(* When a client asks for a service or nothing happens, no part sees anything. *)
LEMMA CallingViews ==
    ASSUME IInv, Calling \/ AskShutdown \/ UNCHANGED vars
    PROVE  /\ UNCHANGED TopicView!vars /\ UNCHANGED ServiceView!vars /\ UNCHANGED SubView!vars
           /\ lock' \in Callers \cup {Nobody, lock}
<1>1. UNCHANGED <<topicVars, serviceVars, subVars, node, killed>>
  BY DEF Calling, AskClient, LookUp, EndClient, ServiceStalls, CallerBecomes, AskShutdown, vars, life
<1>2. /\ UNCHANGED <<TopicLock, ServiceLock, SubLock>>
      /\ lock' \in Callers \cup {Nobody, lock}
  <2>1. ASSUME NEW c \in Callers, LookUp(c)
        PROVE  UNCHANGED <<TopicLock, ServiceLock, SubLock>> /\ lock' = c
    BY Apart, <2>1 DEF LookUp, TopicLock, ServiceLock, SubLock
  <2>2. ASSUME NEW c \in Callers, EndClient(c)
        PROVE  UNCHANGED <<TopicLock, ServiceLock, SubLock>> /\ lock' = Nobody
    BY Apart, <2>2 DEF EndClient, TopicLock, ServiceLock, SubLock, IInv, TypeOK
  <2>3. ASSUME NEW c \in Callers, AskClient(c) \/ ServiceStalls(c)
        PROVE  UNCHANGED <<TopicLock, ServiceLock, SubLock, lock>>
    BY <2>3 DEF AskClient, ServiceStalls, TopicLock, ServiceLock, SubLock
  <2>4. AskShutdown \/ UNCHANGED vars => UNCHANGED <<TopicLock, ServiceLock, SubLock, lock>>
    BY DEF AskShutdown, vars, TopicLock, ServiceLock, SubLock
  <2>5. QED
    BY <2>1, <2>2, <2>3, <2>4 DEF Calling
<1>3. QED
  BY <1>1, <1>2 DEF topicVars, serviceVars, subVars, TopicView!vars, TopicView!nodeVars, TopicView!life,
     ServiceView!vars, ServiceView!life, SubView!vars, SubView!nodeVars, SubView!masterVars,
     SubView!readerVars, SubView!life

(* The node ends for all parts at once. *)
LEMMA EndingViews ==
    ASSUME Leave \/ Shutdown \/ NodeDrops
    PROVE  TopicView!Next /\ ServiceView!Next /\ SubView!Next /\ UNCHANGED <<lock, caller>>
<1> USE Apart DEF TopicLock, ServiceLock, SubLock, Topic!HangUp, TopicView!HangUp, Topic!UnregisterAll,
                 TopicView!UnregisterAll, Service!UnregisterAll, ServiceView!UnregisterAll,
                 Sub!UnregisterAll, SubView!UnregisterAll, Sub!nodeVars, SubView!nodeVars,
                 Sub!masterVars, SubView!masterVars, Sub!readerVars, SubView!readerVars
<1>1. CASE Leave
  <2>1. TopicView!Leave /\ ServiceView!Leave /\ UNCHANGED <<lock, caller>>
    BY <1>1 DEF Leave, Topic!Leave, TopicView!Leave, Service!Leave, ServiceView!Leave
  <2>2. SubView!Leave
    BY <1>1 DEF Leave, Topic!Leave, Sub!Leave, SubView!Leave
  <2>3. QED
    BY <2>1, <2>2 DEF TopicView!Next, ServiceView!Next, SubView!Next
<1>2. CASE Shutdown
  <2>1. TopicView!Shutdown /\ UNCHANGED <<lock, caller>>
    BY <1>2 DEF Shutdown, Topic!Shutdown, TopicView!Shutdown
  <2>2. ServiceView!Shutdown
    BY <1>2 DEF Shutdown, Topic!Shutdown, Service!Shutdown, ServiceView!Shutdown
  <2>3. SubView!Shutdown
    BY <1>2 DEF Shutdown, Topic!Shutdown, Sub!Shutdown, SubView!Shutdown
  <2>4. QED
    BY <2>1, <2>2, <2>3 DEF TopicView!Next, ServiceView!Next, SubView!Next
<1>3. CASE NodeDrops
  <2>1. TopicView!NodeDrops /\ UNCHANGED <<lock, caller>>
    BY <1>3 DEF NodeDrops, Topic!NodeDrops, TopicView!NodeDrops
  <2>2. ServiceView!NodeDrops
    BY <1>3 DEF NodeDrops, Service!NodeDrops, ServiceView!NodeDrops
  <2>3. SubView!NodeDrops
    BY <1>3 DEF NodeDrops, Topic!NodeDrops, Sub!NodeDrops, SubView!NodeDrops, Sub!AbortReaders,
       SubView!AbortReaders, Sub!Running, SubView!Running, Sub!Ids, SubView!Ids
  <2>4. QED
    BY <2>1, <2>2, <2>3 DEF TopicView!Next, ServiceView!Next, SubView!Next
<1>4. QED
  BY <1>1, <1>2, <1>3

(* Every step of the node is one of each part, or nothing to it. *)
LEMMA StepViews ==
    ASSUME IInv, [Next]_vars
    PROVE  /\ [TopicView!Next]_(TopicView!vars) /\ [ServiceView!Next]_(ServiceView!vars)
           /\ [SubView!Next]_(SubView!vars)
BY PublishingViews, ServingViews, SubscribingViews, CallingViews, EndingViews DEF Next

(* Only those who wait for a service have the mutex as callers, and none when the node ends. *)
LEMMA CallerStep ==
    ASSUME IInv, [Next]_vars
    PROVE  /\ lock' \in Pubs \cup Servers \cup Subs \cup Callers \cup {Cleaner, Nobody}
           /\ caller' \in [Callers -> {"idle", "wanting", "waiting", "stalled", "done"}]
           /\ \A c \in Callers : lock' = c <=> caller'[c] \in {"waiting", "stalled"}
           /\ kill' \in {"none", "asked", "done"} /\ EndInv'
<1>0. /\ lock \in Pubs \cup Servers \cup Subs \cup Callers \cup {Cleaner, Nobody}
      /\ caller \in [Callers -> {"idle", "wanting", "waiting", "stalled", "done"}]
      /\ \A c \in Callers : lock = c <=> caller[c] \in {"waiting", "stalled"}
      /\ kill \in {"none", "asked", "done"} /\ EndInv
  BY DEF IInv, TypeOK
<1>1. Nobody \notin Callers
  BY Apart
<1>2. CASE Publishing \/ Serving \/ Subscribing
  <2>1. /\ lock' \in Pubs \cup Servers \cup Subs \cup {Cleaner, Nobody, lock}
        /\ UNCHANGED <<caller, life>> /\ \A c \in Callers : lock' = c <=> lock = c
    BY <1>2, PublishingViews, ServingViews, SubscribingViews
  <2>2. QED
    BY <1>0, <2>1 DEF life, EndInv
<1>3. CASE Calling
  <2>1. PICK c \in Callers : AskClient(c) \/ LookUp(c) \/ EndClient(c) \/ ServiceStalls(c)
    BY <1>3 DEF Calling
  <2>2. QED
    BY <1>0, <1>1, <2>1 DEF AskClient, LookUp, EndClient, ServiceStalls, CallerBecomes, life, EndInv
<1>4. CASE AskShutdown
  <2>1. node # "gone"
    BY <1>4 DEF AskShutdown, Held, IInv, TopicView!IInv, TopicView!PubInv, ServiceView!IInv, ServiceView!LockInv,
       SubView!IInv, SubView!NodeInv
  <2>2. QED
    BY <1>0, <1>4, <2>1 DEF AskShutdown, EndInv
<1>5. CASE Leave \/ Shutdown \/ NodeDrops
  <2>1. UNCHANGED <<lock, caller>>
    BY <1>5, EndingViews
  <2>2. EndInv'
    <3>1. CASE Leave
      BY <1>0, <2>1, <3>1 DEF Leave, Topic!Leave, EndInv
    <3>2. CASE Shutdown
      BY <1>0, <2>1, <3>2 DEF Shutdown, Topic!Shutdown, EndInv
    <3>3. CASE NodeDrops
      BY <1>0, <2>1, <3>3 DEF NodeDrops, Topic!NodeDrops, Held, EndInv
    <3>4. QED
      BY <1>5, <3>1, <3>2, <3>3
  <2>3. kill' \in {"none", "asked", "done"}
    BY <1>0, <1>5 DEF Leave, Shutdown, NodeDrops
  <2>4. QED
    BY <1>0, <2>1, <2>2, <2>3
<1>6. CASE UNCHANGED vars
  BY <1>0, <1>6 DEF vars, life, EndInv
<1>7. QED
  BY <1>2, <1>3, <1>4, <1>5, <1>6 DEF Next

(* Every step of the node keeps the invariants of all parts. *)
LEMMA StepIInv == ASSUME IInv, [Next]_vars PROVE IInv'
<1>1. TopicView!IInv' /\ ServiceView!IInv' /\ SubView!IInv' /\ SubView!UpdateInv'
  BY StepViews, PartConstants, TopicStepIInv, ServiceStepIInv, SubStepIInv DEF IInv
<1>2. QED
  BY <1>1, CallerStep DEF IInv, TypeOK, TopicView!IInv, ServiceView!IInv, SubView!IInv

(* A node starts with the invariants of all parts. *)
LEMMA InitIInv == Init => IInv
<1> SUFFICES ASSUME Init PROVE IInv
  OBVIOUS
<1>1. /\ TopicView!IInv /\ ServiceView!IInv /\ SubView!IInv /\ SubView!UpdateInv
      /\ lock = Nobody
  BY InitViews, PartConstants, TopicInit, ServiceInit, SubInit
<1>2. node = "up" /\ kill = "none" /\ caller = [c \in Callers |-> "idle"] /\ Nobody \notin Callers
  BY Apart DEF Init, Topic!Init
<1>3. QED
  BY <1>1, <1>2 DEF IInv, TypeOK, EndInv, TopicView!IInv, ServiceView!IInv, SubView!IInv

(* The invariants of all parts hold in every reachable state of the node. *)
THEOREM Invariance == Spec => []IInv
BY InitIInv, StepIInv, PTL DEF Spec

(* The variables keep their types, and the mutex one holder. *)
THEOREM TypeCorrect == Spec => []TypeOK
<1>1. IInv => TypeOK
  BY DEF IInv
<1>2. QED
  BY <1>1, Invariance, PTL

(* The node implements its topic: every step of it is one of the topic alone *)
(* or changes nothing that the topic sees, its mutex included.               *)
THEOREM NodeKeepsTopic == Spec => KeepsTopic
<1>1. Init => TopicView!Init
  BY InitViews
<1>2. IInv /\ [Next]_vars => [TopicView!Next]_(TopicView!vars)
  BY StepViews
<1>3. QED
  BY <1>1, <1>2, Invariance, PTL DEF Spec, KeepsTopic

(* The node implements its service in the same way. *)
THEOREM NodeKeepsService == Spec => KeepsService
<1>1. Init => ServiceView!Init
  BY InitViews
<1>2. IInv /\ [Next]_vars => [ServiceView!Next]_(ServiceView!vars)
  BY StepViews
<1>3. QED
  BY <1>1, <1>2, Invariance, PTL DEF Spec, KeepsService

(* And its subscription. *)
THEOREM NodeKeepsSubscription == Spec => KeepsSubscription
<1>1. Init => SubView!Init
  BY InitViews
<1>2. IInv /\ [Next]_vars => [SubView!Next]_(SubView!vars)
  BY StepViews
<1>3. QED
  BY <1>1, <1>2, Invariance, PTL DEF Spec, KeepsSubscription

(* A live Publisher has its Publication, and the master knows of it. *)
THEOREM PublishersAreServed == Spec => []LivePublisherServed
<1>1. IInv => LivePublisherServed
  BY DEF IInv, TopicView!IInv, LivePublisherServed
<1>2. QED
  BY <1>1, Invariance, PTL

(* Until a call of it fails, the master has what the node hosts. *)
THEOREM MasterAgrees == Spec => []MasterMatches
<1>1. IInv => MasterMatches
  BY DEF IInv, TopicView!IInv, ServiceView!IInv, SubView!IInv, MasterMatches
<1>2. QED
  BY <1>1, Invariance, PTL

(* No Subscriber loses its Subscription to the cleanup of another. *)
THEOREM SubscribersAreServed == Spec => []LiveSubscriberServed
<1>1. IInv => LiveSubscriberServed
  BY DEF IInv, SubView!IInv, LiveSubscriberServed
<1>2. QED
  BY <1>1, Invariance, PTL

(* Every publisher of the last list has a reader that is not cancelled. *)
THEOREM EveryListedIsRead == Spec => []ListedPublisherRead
<1>1. IInv => ListedPublisherRead
  BY DEF IInv, SubView!IInv, ListedPublisherRead
<1>2. QED
  BY <1>1, Invariance, PTL

(* The node reads every publisher the master knows, once it has been told. *)
THEOREM EveryPublisherIsRead == Spec => []ReadsAllPublishers
<1>1. IInv => ReadsAllPublishers
  <2> SUFFICES ASSUME IInv PROVE SubView!ReadsAllPublishers
    BY DEF ReadsAllPublishers
  <2>1. SubP!ListedPublisherRead /\ SubP!UpdateInv
    BY SubSame DEF IInv, SubP!IInv
  <2>2. SubP!ReadsAllPublishers
    BY <2>1, SubP!AllRead
  <2>3. QED
    BY <2>2, SubSame
<1>2. QED
  BY <1>1, Invariance, PTL

(* Only a dropped handle takes the link of a name away. *)
THEOREM DropsRemove == Spec => []OnlyDropsRemove
<1>1. IInv => OnlyDropsRemove
  BY DEF IInv, ServiceView!IInv, OnlyDropsRemove
<1>2. QED
  BY <1>1, Invariance, PTL

(* No live Publisher, Subscriber or service handle is without its record. *)
THEOREM HandlesAreServed == Spec => []LiveHandlesServed
BY PublishersAreServed, SubscribersAreServed, DropsRemove, PTL DEF LiveHandlesServed

(* No record is left behind: the accept task of a Publication notices and    *)
(* starts the cleanup, a link has a handle until a registration fails, and   *)
(* the last Subscriber to be dropped removes the Subscription.               *)
THEOREM NothingIsLeft == Spec => []NothingLeftBehind
<1>1. Init => IInv /\ SubView!EntryHasHandle
  <2>1. Init => SubView!EntryHasHandle
    BY DEF Init, Sub!Init, SubView!EntryHasHandle
  <2>2. QED
    BY <2>1, InitIInv
<1>2. IInv /\ SubView!EntryHasHandle /\ [Next]_vars => IInv' /\ SubView!EntryHasHandle'
  BY StepIInv, StepViews, PartConstants, SubStepHandles DEF IInv
<1>3. IInv => TopicView!EntryHasHandle /\ ServiceView!LinkHasHandle
  BY DEF IInv, TopicView!IInv, ServiceView!IInv, TopicView!TypeOK, TopicView!PubInv,
     TopicView!EntryHasHandle
<1>4. QED
  BY <1>1, <1>2, <1>3, PTL DEF Spec, NothingLeftBehind

=============================================================================
