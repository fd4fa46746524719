----------------------- MODULE Ros1Subscription_proofs -----------------------
(***************************************************************************)
(* Proofs about Ros1Subscription, for any Subscribers and publishers, also *)
(* when calls of the master fail.                                          *)
(***************************************************************************)
EXTENDS Ros1Subscription, SequenceTheorems, TLAPS

USE DEF Ids, ReaderStates, Phases, Become, Receivers, Running,
        nodeVars, masterVars, readerVars, life

(* The initial state, with no subscriber and no reader, satisfies the inductive invariant. *)
LEMMA InitIInv == ASSUME SubscriptionConstants, Init PROVE IInv
<1> USE DEF SubscriptionConstants, Init
<1>1. TypeOK
  <2>1. /\ phase \in [Subs -> Phases] /\ lock \in Subs \cup {Nobody}
        /\ listed \in SUBSET Publishers /\ updates \in Seq(SUBSET Publishers)
    OBVIOUS
  <2>2. /\ connections \in [Publishers -> 0 .. MaxReaders]
        /\ started \in [Publishers -> 0 .. MaxReaders]
    OBVIOUS
  <2>3. /\ reader \in [Publishers -> [Ids -> ReaderStates]]
        /\ cancelled \in [Publishers -> [Ids -> BOOLEAN]]
    OBVIOUS
  <2>4. /\ overtaken \in BOOLEAN /\ failed \in BOOLEAN
        /\ node \in {"up", "left", "gone"} /\ killed \in BOOLEAN
    OBVIOUS
  <2>5. entry \in BOOLEAN /\ registered \in BOOLEAN /\ answer = {} /\ current = {}
    OBVIOUS
  <2>6. QED
    BY <2>1, <2>2, <2>3, <2>4, <2>5 DEF TypeOK
<1>2. LockInv /\ NodeInv /\ LiveSubscriberServed /\ ListedPublisherRead /\ MasterMatches
  BY DEF LockInv, NodeInv, LiveSubscriberServed, ListedPublisherRead,
         MasterMatches, SubscriptionRegistered
<1>3. ReaderInv
  BY DEF ReaderInv
<1>4. QED
  BY <1>1, <1>2, <1>3 DEF IInv

(* The readers are as they were when a step leaves them and entry alone. *)
LEMMA SameReaders ==
    ASSUME ReaderInv, ListedPublisherRead, UNCHANGED <<entry, readerVars>>
    PROVE  ReaderInv' /\ ListedPublisherRead'
BY DEF ReaderInv, ListedPublisherRead

(* The readers after StartMissing(list, conns), for a list of publishers. *)
ReadersFor(list) ==
    /\ current' \in SUBSET Publishers
    /\ connections' \in [Publishers -> 0 .. MaxReaders]
    /\ started' \in [Publishers -> 0 .. MaxReaders]
    /\ reader' \in [Publishers -> [Ids -> ReaderStates]]
    /\ \A p \in Publishers : connections'[p] # 0 =>
           Running(p, connections[p])' /\ ~ cancelled'[p][connections'[p]]
    /\ \A p \in Publishers, i \in Ids : i > started'[p] =>
           reader'[p][i] = "unused" /\ ~ cancelled'[p][i]
    /\ \A p \in list : connections'[p] \in Ids

(* The cancelled readers that it allows for: those taken out of the map. *)
CancelsOnly(conns) ==
    /\ cancelled' \in [Publishers -> [Ids -> BOOLEAN]]
    /\ \A p \in Publishers, i \in Ids : cancelled'[p][i] =>
           cancelled[p][i] \/ (i = connections[p] /\ conns[p] = 0)

KeepsSome(conns) ==
    /\ conns \in [Publishers -> 0 .. MaxReaders]
    /\ \A p \in Publishers : conns[p] # 0 => conns[p] = connections[p]

(***************************************************************************)
(* The publishers of a list all have a live reader after StartMissing, if  *)
(* those kept in the map had one before.                                   *)
(***************************************************************************)
LEMMA StartMissingReads ==
    ASSUME SubscriptionConstants, TypeOK, ReaderInv, NEW list \in SUBSET Publishers, NEW conns,
           KeepsSome(conns), CancelsOnly(conns), StartMissing(list, conns)
    PROVE  ReadersFor(list)
<1> USE DEF SubscriptionConstants, TypeOK, ReaderInv, KeepsSome, CancelsOnly
<1> DEFINE new == {p \in list : conns[p] = 0}
<1>1. /\ \A p \in new : started[p] < MaxReaders
      /\ started' = [p \in Publishers |-> started[p] + IF p \in new THEN 1 ELSE 0]
      /\ connections' = [p \in Publishers |-> IF p \in new THEN started[p] + 1 ELSE conns[p]]
      /\ reader' = [p \in Publishers |-> [i \in Ids |->
             IF p \in new /\ i = started[p] + 1 THEN "trying" ELSE reader[p][i]]]
      /\ current' = list
  BY DEF StartMissing
<1>2. \A p \in Publishers : started[p] \in 0 .. MaxReaders /\ conns[p] \in 0 .. MaxReaders
  OBVIOUS
<1> HIDE DEF new
<1>3. new \subseteq Publishers
  BY DEF new
<1>4. started' \in [Publishers -> 0 .. MaxReaders]
  BY <1>1, <1>2
<1>5. connections' \in [Publishers -> 0 .. MaxReaders]
  BY <1>1, <1>2
<1>6. reader' \in [Publishers -> [Ids -> ReaderStates]]
  BY <1>1
<1>7. ASSUME NEW p \in Publishers, connections'[p] # 0
      PROVE  reader'[p][connections'[p]] \in {"trying", "reading"}
             /\ ~ cancelled'[p][connections'[p]]
  <2>1. CASE p \in new
    <3>1. connections'[p] = started[p] + 1 /\ started[p] + 1 \in Ids
      BY <1>1, <1>2, <2>1
    <3>2. reader[p][started[p] + 1] = "unused" /\ ~ cancelled[p][started[p] + 1]
      <4>1. started[p] + 1 > started[p]
        BY <1>2
      <4>2. QED
        BY <3>1, <4>1
    <3>3. started[p] + 1 # connections[p]
      <4>1. connections[p] # 0 => reader[p][connections[p]] \in {"trying", "reading"}
        OBVIOUS
      <4>2. started[p] + 1 # 0
        BY <1>2
      <4>3. QED
        BY <3>2, <4>1, <4>2
    <3>4. QED
      BY <1>1, <2>1, <3>1, <3>2, <3>3
  <2>2. CASE p \notin new
    <3>1. connections'[p] = conns[p] /\ conns[p] = connections[p] /\ connections[p] \in Ids
      BY <1>1, <1>2, <1>7, <2>2
    <3>2. reader'[p][connections[p]] = reader[p][connections[p]]
      BY <1>1, <2>2, <3>1
    <3>3. QED
      BY <1>7, <3>1, <3>2
  <2>3. QED
    BY <2>1, <2>2
<1>8. ASSUME NEW p \in Publishers, NEW i \in Ids, i > started'[p]
      PROVE  reader'[p][i] = "unused" /\ ~ cancelled'[p][i]
  <2>1. i > started[p] /\ ~ (p \in new /\ i = started[p] + 1)
    BY <1>1, <1>2, <1>8
  <2>2. reader[p][i] = "unused" /\ ~ cancelled[p][i]
    BY <2>1
  <2>3. reader'[p][i] = "unused"
    BY <1>1, <2>1, <2>2
  <2>4. i # connections[p]
    <3>1. i # 0
      OBVIOUS
    <3>2. connections[p] # 0 => reader[p][connections[p]] \in {"trying", "reading"}
      OBVIOUS
    <3>3. QED
      BY <2>2, <3>1, <3>2
  <2>5. QED
    BY <2>2, <2>3, <2>4
<1>9. \A p \in list : connections'[p] \in Ids
  BY <1>1, <1>2 DEF new
<1>10. QED
  BY <1>1, <1>4, <1>5, <1>6, <1>7, <1>8, <1>9 DEF ReadersFor

(* Every step, and stuttering, keeps the inductive invariant. *)
LEMMA StepIInv == ASSUME SubscriptionConstants, IInv, [Next]_vars PROVE IInv'
<1> USE DEF SubscriptionConstants, LiveSubscriberServed
<1>0. /\ TypeOK /\ LockInv /\ NodeInv /\ ReaderInv
      /\ LiveSubscriberServed /\ ListedPublisherRead /\ MasterMatches
  BY DEF IInv
<1>1. ASSUME NEW s \in Subs, Subscribe(s) PROVE IInv'
  BY <1>0, <1>1 DEF Subscribe, IInv, TypeOK, LockInv, NodeInv, ReaderInv, ListedPublisherRead,
       MasterMatches, SubscriptionRegistered
<1>2. ASSUME NEW s \in Subs, JoinSubscription(s) PROVE IInv'
  BY <1>0, <1>2 DEF JoinSubscription, IInv, TypeOK, LockInv, NodeInv, ReaderInv, ListedPublisherRead,
       MasterMatches, SubscriptionRegistered
<1>3. ASSUME NEW s \in Subs, AskMaster(s) PROVE IInv'
  BY <1>0, <1>3 DEF AskMaster, IInv, TypeOK, LockInv, NodeInv, ReaderInv, ListedPublisherRead,
       MasterMatches, SubscriptionRegistered
<1>4. ASSUME NEW s \in Subs, AddSubscription(s) PROVE IInv'
  <2>1. StartMissing(answer, connections) /\ UNCHANGED cancelled
    BY <1>4 DEF AddSubscription
  <2>2. answer \in SUBSET Publishers /\ KeepsSome(connections) /\ CancelsOnly(connections)
    BY <1>0, <2>1 DEF TypeOK, KeepsSome, CancelsOnly
  <2>3. current' = answer
    BY <2>1 DEF StartMissing
  <2>4. ReadersFor(answer)
    <3>1. PICK l, c : l = answer /\ c = connections
      OBVIOUS
    <3>2. StartMissing(l, c) /\ KeepsSome(c) /\ CancelsOnly(c) /\ l \in SUBSET Publishers
      BY <2>1, <2>2, <3>1 DEF StartMissing, KeepsSome, CancelsOnly
    <3>3. ReadersFor(l)
      BY <1>0, <3>2, StartMissingReads
    <3>4. QED
      BY <3>1, <3>3 DEF ReadersFor
  <2>5. TypeOK'
    BY <1>0, <1>4, <2>4 DEF AddSubscription, TypeOK, ReadersFor
  <2>6. LockInv' /\ NodeInv' /\ MasterMatches'
    BY <1>0, <1>4 DEF AddSubscription, TypeOK, LockInv, NodeInv,
           MasterMatches, SubscriptionRegistered
  <2>7. entry'
    BY <1>4 DEF AddSubscription
  <2>8. QED
    BY <2>3, <2>4, <2>5, <2>6, <2>7 DEF IInv, ReaderInv, ListedPublisherRead, ReadersFor
<1>5. ASSUME NEW s \in Subs, RegistrationFails(s) PROVE IInv'
  BY <1>0, <1>5 DEF RegistrationFails, IInv, TypeOK, LockInv, NodeInv, ReaderInv, ListedPublisherRead,
       MasterMatches, SubscriptionRegistered
<1>6. ASSUME NEW s \in Subs, Drop(s) PROVE IInv'
  BY <1>0, <1>6 DEF Drop, IInv, TypeOK, LockInv, NodeInv, ReaderInv, ListedPublisherRead,
       MasterMatches, SubscriptionRegistered
<1>7. ASSUME NEW s \in Subs, LeaveSubscription(s) PROVE IInv'
  BY <1>0, <1>7 DEF LeaveSubscription, IInv, TypeOK, LockInv, NodeInv, ReaderInv, ListedPublisherRead,
       MasterMatches, SubscriptionRegistered
<1>8. ASSUME NEW s \in Subs, RemoveSubscription(s) PROVE IInv'
  <2>1. TypeOK'
    <3>1. reader' \in [Publishers -> [Ids -> ReaderStates]]
      BY <1>0, <1>8 DEF RemoveSubscription, AbortReaders, TypeOK
    <3>2. connections' \in [Publishers -> 0 .. MaxReaders] /\ current' \in SUBSET Publishers
      BY <1>8 DEF RemoveSubscription, AbortReaders
    <3>3. QED
      BY <1>0, <1>8, <3>1, <3>2 DEF RemoveSubscription, AbortReaders, TypeOK
  <2>2. LockInv' /\ NodeInv' /\ MasterMatches'
    BY <1>0, <1>8 DEF RemoveSubscription, AbortReaders, TypeOK, LockInv, NodeInv,
           MasterMatches, SubscriptionRegistered
  <2>3. ReaderInv' /\ ListedPublisherRead'
    BY <1>0, <1>8 DEF RemoveSubscription, AbortReaders, TypeOK, ReaderInv, ListedPublisherRead
  <2>4. LiveSubscriberServed'
    BY <1>0, <1>8 DEF RemoveSubscription, TypeOK
  <2>5. QED
    BY <2>1, <2>2, <2>3, <2>4 DEF IInv
<1>9. ASSUME NEW s \in Subs, MasterRegisters(s) PROVE IInv'
  BY <1>0, <1>9 DEF MasterRegisters, IInv, TypeOK, LockInv, NodeInv, ReaderInv, ListedPublisherRead,
       MasterMatches, SubscriptionRegistered
<1>10. ASSUME NEW s \in Subs, MasterUnregisters(s) PROVE IInv'
  <2>1. TypeOK'
    BY <1>0, <1>10 DEF MasterUnregisters, TypeOK
  <2>2. LockInv' /\ NodeInv' /\ LiveSubscriberServed' /\ MasterMatches'
    BY <1>0, <1>10 DEF MasterUnregisters, TypeOK, LockInv, NodeInv, MasterMatches, SubscriptionRegistered
  <2>3. ReaderInv' /\ ListedPublisherRead'
    BY <1>0, <1>10, SameReaders DEF MasterUnregisters
  <2>4. QED
    BY <2>1, <2>2, <2>3 DEF IInv
<1>11. ASSUME NEW p \in Publishers, PublishersChange(p) PROVE IInv'
  <2>1. TypeOK'
    <3>1. listed' \in SUBSET Publishers
      BY <1>0, <1>11 DEF PublishersChange, TypeOK
    <3>2. updates' \in Seq(SUBSET Publishers)
      <4>1. CASE updates' = Append(updates, listed')
        BY <1>0, <3>1, <4>1 DEF TypeOK
      <4>2. CASE updates' = updates
        BY <1>0, <4>2 DEF TypeOK
      <4>3. QED
        BY <1>11, <4>1, <4>2 DEF PublishersChange
    <3>3. QED
      BY <1>0, <1>11, <3>1, <3>2 DEF PublishersChange, TypeOK
  <2>2. LockInv' /\ NodeInv' /\ LiveSubscriberServed' /\ MasterMatches'
    BY <1>0, <1>11 DEF PublishersChange, TypeOK, LockInv, NodeInv, MasterMatches, SubscriptionRegistered
  <2>3. ReaderInv' /\ ListedPublisherRead'
    BY <1>0, <1>11, SameReaders DEF PublishersChange
  <2>4. QED
    BY <2>1, <2>2, <2>3 DEF IInv
<1>12. CASE PublisherUpdate
  <2>1. Head(updates) \in SUBSET Publishers /\ updates' \in Seq(SUBSET Publishers)
    BY <1>0, <1>12 DEF PublisherUpdate, TypeOK
  <2>2. LockInv' /\ NodeInv' /\ LiveSubscriberServed' /\ MasterMatches'
    BY <1>0, <1>12 DEF PublisherUpdate, LockInv, NodeInv, MasterMatches, SubscriptionRegistered
  <2>3. CASE ~ entry
    BY <1>0, <1>12, <2>1, <2>2, <2>3
       DEF PublisherUpdate, IInv, TypeOK, ReaderInv, ListedPublisherRead
  <2>4. CASE entry
    <3> DEFINE stale == {p \in Publishers \ Head(updates) : connections[p] # 0}
    <3> DEFINE conns == [p \in Publishers |-> IF p \in stale THEN 0 ELSE connections[p]]
    <3>1. /\ cancelled' = [p \in Publishers |-> [i \in Ids |->
                 cancelled[p][i] \/ (p \in stale /\ i = connections[p])]]
          /\ StartMissing(Head(updates), conns)
      BY <1>12, <2>4 DEF PublisherUpdate
    <3> HIDE DEF stale
    <3>2. cancelled' \in [Publishers -> [Ids -> BOOLEAN]]
      BY <1>0, <3>1 DEF TypeOK
    <3>3. CancelsOnly(conns)
      BY <3>1, <3>2 DEF CancelsOnly
    <3>4. KeepsSome(conns)
      BY <1>0 DEF TypeOK, KeepsSome
    <3> HIDE DEF conns
    <3>5. ReadersFor(Head(updates))
      <4>1. PICK l, c : l = Head(updates) /\ c = conns
        OBVIOUS
      <4>2. StartMissing(l, c) /\ KeepsSome(c) /\ CancelsOnly(c) /\ l \in SUBSET Publishers
        BY <2>1, <3>1, <3>3, <3>4, <4>1 DEF StartMissing, KeepsSome, CancelsOnly
      <4>3. ReadersFor(l)
        BY <1>0, <4>2, StartMissingReads
      <4>4. QED
        BY <4>1, <4>3 DEF ReadersFor
    <3>6. current' = Head(updates)
      BY <3>1 DEF StartMissing
    <3>7. UNCHANGED <<nodeVars, registered, listed, overtaken, failed, life>>
      BY <1>12 DEF PublisherUpdate
    <3>8. TypeOK'
      BY <1>0, <2>1, <3>2, <3>5, <3>7 DEF TypeOK, ReadersFor
    <3>9. entry' /\ ReaderInv'
      BY <2>4, <3>5, <3>7 DEF ReaderInv, ReadersFor
    <3>10. ListedPublisherRead'
      <4>1. \A p \in current' : connections'[p] \in Ids /\ p \in Publishers /\ connections'[p] # 0
        BY <2>1, <3>5, <3>6 DEF ReadersFor
      <4>2. QED
        BY <3>5, <4>1 DEF ListedPublisherRead, ReadersFor
    <3>11. QED
      BY <2>2, <3>8, <3>9, <3>10 DEF IInv
  <2>5. QED
    BY <2>3, <2>4
<1>13. ASSUME NEW p \in Publishers, NEW i \in Ids, Connect(p, i) PROVE IInv'
  <2>1. TypeOK'
    BY <1>0, <1>13 DEF Connect, TypeOK
  <2>2. LockInv' /\ NodeInv' /\ LiveSubscriberServed' /\ MasterMatches'
    BY <1>0, <1>13 DEF Connect, LockInv, NodeInv, MasterMatches, SubscriptionRegistered
  <2>3. ReaderInv'
    BY <1>0, <1>13 DEF Connect, TypeOK, ReaderInv
  <2>4. ListedPublisherRead'
    BY <1>0, <1>13 DEF Connect, TypeOK, ListedPublisherRead
  <2>5. QED
    BY <2>1, <2>2, <2>3, <2>4 DEF IInv
<1>14. ASSUME NEW p \in Publishers, NEW i \in Ids, ReadError(p, i) PROVE IInv'
  BY <1>0, <1>14 DEF ReadError, IInv, TypeOK, LockInv, NodeInv, ReaderInv, ListedPublisherRead,
       MasterMatches, SubscriptionRegistered
<1>15. ASSUME NEW p \in Publishers, NEW i \in Ids, Exit(p, i) PROVE IInv'
  <2>1. TypeOK'
    BY <1>0, <1>15 DEF Exit, TypeOK
  <2>2. LockInv' /\ NodeInv' /\ LiveSubscriberServed' /\ MasterMatches'
    BY <1>0, <1>15 DEF Exit, LockInv, NodeInv, MasterMatches, SubscriptionRegistered
  <2>3. ReaderInv'
    BY <1>0, <1>15 DEF Exit, TypeOK, ReaderInv
  <2>4. ListedPublisherRead'
    <3>1. \A q \in Publishers, j \in Ids : Running(q, j) /\ ~ cancelled[q][j] =>
              reader'[q][j] = reader[q][j]
      BY <1>0, <1>15 DEF Exit, TypeOK
    <3>2. current \subseteq Publishers /\ UNCHANGED <<entry, current, cancelled>>
      BY <1>0, <1>15 DEF Exit, TypeOK
    <3>3. QED
      BY <1>0, <3>1, <3>2 DEF ListedPublisherRead
  <2>5. QED
    BY <2>1, <2>2, <2>3, <2>4 DEF IInv
<1>16. ASSUME NEW s \in Subs, DropTooLate(s) PROVE IInv'
  BY <1>0, <1>16 DEF DropTooLate, IInv, TypeOK, LockInv, NodeInv, ReaderInv,
       ListedPublisherRead, MasterMatches, SubscriptionRegistered
<1>17. CASE UpdateLost
  <2>1. TypeOK'
    BY <1>0, <1>17 DEF UpdateLost, TypeOK
  <2>2. LockInv' /\ NodeInv' /\ LiveSubscriberServed' /\ MasterMatches'
    BY <1>0, <1>17 DEF UpdateLost, LockInv, NodeInv, MasterMatches, SubscriptionRegistered
  <2>3. ReaderInv' /\ ListedPublisherRead'
    BY <1>0, <1>17, SameReaders DEF UpdateLost
  <2>4. QED
    BY <2>1, <2>2, <2>3 DEF IInv
<1>18. CASE Leave
  <2>1. TypeOK' /\ LockInv' /\ NodeInv' /\ LiveSubscriberServed' /\ MasterMatches'
    BY <1>0, <1>18
       DEF Leave, TypeOK, LockInv, NodeInv, MasterMatches, SubscriptionRegistered
  <2>2. ReaderInv' /\ ListedPublisherRead'
    BY <1>0, <1>18, SameReaders DEF Leave
  <2>3. QED
    BY <2>1, <2>2 DEF IInv
<1>19. CASE Shutdown
  <2>1. TypeOK'
    BY <1>0, <1>19 DEF Shutdown, UnregisterAll, TypeOK
  <2>2. LockInv' /\ NodeInv' /\ LiveSubscriberServed' /\ MasterMatches'
    BY <1>0, <1>19 DEF Shutdown, UnregisterAll, TypeOK, LockInv, NodeInv,
           MasterMatches, SubscriptionRegistered
  <2>3. ReaderInv' /\ ListedPublisherRead'
    BY <1>0, <1>19, SameReaders DEF Shutdown, UnregisterAll
  <2>4. QED
    BY <2>1, <2>2, <2>3 DEF IInv
<1>20. CASE NodeDrops
  <2>1. TypeOK'
    <3>1. reader' \in [Publishers -> [Ids -> ReaderStates]]
      BY <1>0, <1>20 DEF NodeDrops, AbortReaders, TypeOK
    <3>2. connections' \in [Publishers -> 0 .. MaxReaders] /\ current' \in SUBSET Publishers
      BY <1>20 DEF NodeDrops, AbortReaders
    <3>3. QED
      BY <1>0, <1>20, <3>1, <3>2 DEF NodeDrops, UnregisterAll, AbortReaders, TypeOK
  <2>2. lock = Nobody
    BY <1>0, <1>20 DEF NodeDrops, TypeOK, LockInv, NodeInv
  <2>3. LockInv' /\ NodeInv' /\ LiveSubscriberServed'
    BY <1>0, <1>20, <2>2 DEF NodeDrops, AbortReaders, TypeOK, LockInv, NodeInv
  <2>4. MasterMatches'
    BY <1>0, <1>20, <2>2 DEF NodeDrops, UnregisterAll, MasterMatches, SubscriptionRegistered
  <2>5. ReaderInv' /\ ListedPublisherRead'
    BY <1>0, <1>20 DEF NodeDrops, AbortReaders, TypeOK, ReaderInv, ListedPublisherRead
  <2>6. QED
    BY <2>1, <2>3, <2>4, <2>5 DEF IInv
<1>21. CASE UNCHANGED vars
  BY <1>0, <1>21 DEF vars, IInv, TypeOK, LockInv, NodeInv, ReaderInv, ListedPublisherRead,
       MasterMatches, SubscriptionRegistered
<1>22. QED
  BY <1>1, <1>2, <1>3, <1>4, <1>5, <1>6, <1>7, <1>8, <1>9, <1>10, <1>11, <1>12, <1>13,
     <1>14, <1>15, <1>16, <1>17, <1>18, <1>19, <1>20, <1>21
     DEF Next, SubscriberStep, ReaderStep

(* The inductive invariant holds in every reachable state. *)
THEOREM Invariance == ASSUME SubscriptionConstants PROVE Spec => []IInv
<1>1. Init => IInv
  BY InitIInv
<1>2. IInv /\ [Next]_vars => IInv'
  BY StepIInv
<1>3. QED
  BY <1>1, <1>2, PTL DEF Spec

(* The variables keep their types. *)
THEOREM TypeCorrect == ASSUME SubscriptionConstants PROVE Spec => []TypeOK
<1>1. IInv => TypeOK
  BY DEF IInv
<1>2. QED
  BY <1>1, Invariance, PTL

(* No Subscriber loses its Subscription to the cleanup of another. *)
THEOREM SubscribersAreServed ==
    ASSUME SubscriptionConstants PROVE Spec => []LiveSubscriberServed
<1>1. IInv => LiveSubscriberServed
  BY DEF IInv
<1>2. QED
  BY <1>1, Invariance, PTL

(* The master has the node as a subscriber while it has a Subscription, and *)
(* only then, unless a call of it failed.                                   *)
THEOREM MasterKnows == ASSUME SubscriptionConstants PROVE Spec => []MasterMatches
<1>1. IInv => MasterMatches
  BY DEF IInv
<1>2. QED
  BY <1>1, Invariance, PTL

(* Every publisher of the last list has a reader that is not cancelled. *)
THEOREM EveryListedIsRead == ASSUME SubscriptionConstants PROVE Spec => []ListedPublisherRead
<1>1. IInv => ListedPublisherRead
  BY DEF IInv
<1>2. QED
  BY <1>1, Invariance, PTL

(* No step leaves a Subscription behind: LeaveSubscription leaves it to a live *)
(* Subscriber, RemoveSubscription removes it.                                 *)
LEMMA StepHandles ==
    ASSUME SubscriptionConstants, IInv, EntryHasHandle, [Next]_vars PROVE EntryHasHandle'
<1> USE DEF EntryHasHandle, nodeVars, masterVars, readerVars, life, Become
<1>0. /\ phase \in [Subs -> Phases] /\ node \in {"up", "left", "gone"}
      /\ lock # Nobody => ~ entry
      /\ \A s \in Subs : phase[s] \in {"registering", "answered", "unregistering"} <=> lock = s
      /\ Nobody \notin Subs
  BY DEF IInv, TypeOK, LockInv, SubscriptionConstants
<1>1. ASSUME NEW s \in Subs,
             Subscribe(s) \/ Drop(s) \/ DropTooLate(s) \/ JoinSubscription(s) \/ AskMaster(s)
                 \/ MasterRegisters(s)
      PROVE  EntryHasHandle'
  BY <1>0, <1>1
  DEF Subscribe, Drop, DropTooLate, JoinSubscription, AskMaster, MasterRegisters
<1>2. ASSUME NEW s \in Subs, RegistrationFails(s) \/ MasterUnregisters(s) PROVE EntryHasHandle'
  BY <1>0, <1>2 DEF RegistrationFails, MasterUnregisters
<1>3. ASSUME NEW s \in Subs, AddSubscription(s) PROVE EntryHasHandle'
  BY <1>0, <1>3 DEF AddSubscription
<1>4. ASSUME NEW s \in Subs, LeaveSubscription(s) PROVE EntryHasHandle'
  <2>1. CASE Receivers # {}
    <3>1. PICK r \in Subs : phase[r] = "live"
      BY <2>1 DEF Receivers
    <3>2. phase'[r] = "live"
      BY <1>0, <1>4, <3>1 DEF LeaveSubscription
    <3>3. QED
      BY <3>2
  <2>2. CASE ~ entry
    BY <1>4, <2>2 DEF LeaveSubscription
  <2>3. QED
    BY <1>4, <2>1, <2>2 DEF LeaveSubscription
<1>5. ASSUME NEW s \in Subs, RemoveSubscription(s) PROVE EntryHasHandle'
  BY <1>5 DEF RemoveSubscription
<1>6. CASE PublisherUpdate \/ UpdateLost \/ \E p \in Publishers : PublishersChange(p)
  BY <1>6 DEF PublisherUpdate, UpdateLost, PublishersChange
<1>7. CASE \E p \in Publishers, i \in Ids : ReaderStep(p, i) \/ ReadError(p, i)
  BY <1>7 DEF ReaderStep, ReadError, Connect, Exit
<1>8. CASE Leave \/ Shutdown \/ NodeDrops
  BY <1>8 DEF Leave, Shutdown, NodeDrops
<1>9. CASE UNCHANGED vars
  BY <1>9 DEF vars
<1>10. QED
  BY <1>1, <1>2, <1>3, <1>4, <1>5, <1>6, <1>7, <1>8, <1>9 DEF Next, SubscriberStep

(* The last of the Subscribers that are dropped removes the Subscription. *)
THEOREM LastOneRemoves == ASSUME SubscriptionConstants PROVE Spec => []EntryHasHandle
<1>1. Init => IInv /\ EntryHasHandle
  BY InitIInv DEF Init, EntryHasHandle
<1>2. IInv /\ EntryHasHandle /\ [Next]_vars => IInv' /\ EntryHasHandle'
  BY StepIInv, StepHandles
<1>3. QED
  BY <1>1, <1>2, PTL DEF Spec

(* The initial state: there is no Subscription, and none asked for. *)
LEMMA InitUpdate == ASSUME Init PROVE UpdateInv
BY DEF Init, UpdateInv

(* The list the node was or will be given last stays so when a step leaves  *)
(* alone what it is about.                                                  *)
LEMMA SameUpdate ==
    ASSUME UpdateInv, node' = "up" => node = "up", killed => killed', overtaken' = overtaken,
           entry' => entry, \A s \in Subs : phase'[s] = "answered" => phase[s] = "answered",
           UNCHANGED <<updates, current, listed>>,
           answer' = answer \/ \A s \in Subs : phase'[s] # "answered"
    PROVE  UpdateInv'
BY DEF UpdateInv, InSync

(* A sequence and its tail end with the same element. *)
LEMMA TailEndsAlike ==
    ASSUME NEW S, NEW q \in Seq(S), q # << >>
    PROVE  /\ Tail(q) = << >> => Head(q) = q[Len(q)]
           /\ Tail(q) # << >> => Tail(q)[Len(Tail(q))] = q[Len(q)]
<1>1. Len(q) \in Nat \ {0}
  BY EmptySeq
<1>2. /\ Tail(q) \in Seq(S) /\ Len(Tail(q)) = Len(q) - 1
      /\ \A i \in 1 .. Len(Tail(q)) : Tail(q)[i] = q[i + 1]
  BY HeadTailProperties
<1>3. CASE Tail(q) = << >>
  <2>1. Len(Tail(q)) = Len(<< >>) /\ Len(<< >>) = 0
    BY <1>3, EmptySeq, Zenon
  <2>2. Len(q) = 1
    <3>1. Len(Tail(q)) = Len(q) - 1
      BY <1>2
    <3>2. QED
      BY <1>1, <2>1, <3>1
  <2>3. QED
    BY <1>3, <2>2
<1>4. CASE Tail(q) # << >>
  <2>1. Len(Tail(q)) \in Nat \ {0}
    BY <1>2, <1>4, EmptySeq
  <2>2. QED
    BY <1>1, <1>2, <1>4, <2>1
<1>5. QED
  BY <1>3, <1>4

(* Every step keeps it: the lists arrive in the order the master sent them. *)
LEMMA StepUpdate == ASSUME SubscriptionConstants, IInv, UpdateInv, [Next]_vars PROVE UpdateInv'
<1> USE DEF SubscriptionConstants
<1>0. TypeOK /\ LockInv /\ MasterMatches
  BY DEF IInv
<1>1. ASSUME NEW s \in Subs, Subscribe(s) \/ Drop(s) \/ DropTooLate(s) \/ RegistrationFails(s)
      PROVE  UpdateInv'
  BY <1>0, <1>1, SameUpdate
     DEF Subscribe, Drop, DropTooLate, RegistrationFails, TypeOK, LockInv
<1>2. ASSUME NEW s \in Subs, JoinSubscription(s) \/ AskMaster(s) \/ LeaveSubscription(s)
                             \/ MasterUnregisters(s)
      PROVE  UpdateInv'
  BY <1>0, <1>2, SameUpdate
     DEF JoinSubscription, AskMaster, LeaveSubscription, MasterUnregisters, TypeOK
<1>3. ASSUME NEW s \in Subs, AddSubscription(s) PROVE UpdateInv'
  <2>1. current' = answer
    BY <1>3 DEF AddSubscription, StartMissing
  <2>2. \A t \in Subs : phase'[t] # "answered"
    BY <1>0, <1>3 DEF AddSubscription, TypeOK, LockInv
  <2>3. phase[s] = "answered" /\ UNCHANGED <<updates, listed, overtaken, node, killed>>
    BY <1>3 DEF AddSubscription
  <2>4. QED
    BY <2>1, <2>2, <2>3 DEF UpdateInv, InSync
<1>4. ASSUME NEW s \in Subs, RemoveSubscription(s) PROVE UpdateInv'
  BY <1>0, <1>4 DEF RemoveSubscription, UpdateInv, TypeOK, LockInv
<1>5. ASSUME NEW s \in Subs, MasterRegisters(s) PROVE UpdateInv'
  <2>1. ~ entry /\ UNCHANGED <<entry, updates, listed>> /\ answer' = listed
        /\ overtaken' = (updates # << >>)
    BY <1>0, <1>5 DEF MasterRegisters, TypeOK, LockInv
  <2>2. QED
    BY <2>1 DEF UpdateInv, InSync
<1>6. ASSUME NEW p \in Publishers, PublishersChange(p) PROVE UpdateInv'
  <2> SUFFICES ASSUME node' = "up", ~ killed', ~ overtaken',
                      entry' \/ \E s \in Subs : phase'[s] = "answered"
               PROVE  InSync'
    BY DEF UpdateInv
  <2>1. registered
    BY <1>0, <1>6 DEF PublishersChange, MasterMatches, SubscriptionRegistered, LockInv
  <2>2. updates' = Append(updates, listed') /\ updates \in Seq(SUBSET Publishers)
        /\ listed' \in SUBSET Publishers
    BY <1>0, <1>6, <2>1 DEF PublishersChange, TypeOK
  <2>3. updates' # << >> /\ updates'[Len(updates')] = listed'
    BY <2>2
  <2>4. QED
    BY <2>3 DEF InSync
<1>7. CASE PublisherUpdate
  <2> SUFFICES ASSUME node' = "up", ~ killed', ~ overtaken',
                      entry' \/ \E s \in Subs : phase'[s] = "answered"
               PROVE  InSync'
    BY DEF UpdateInv
  <2>1. /\ updates \in Seq(SUBSET Publishers) /\ updates # << >> /\ updates' = Tail(updates)
        /\ UNCHANGED <<listed, node, killed, overtaken, phase, entry>>
    BY <1>0, <1>7 DEF PublisherUpdate, TypeOK
  <2>2. \A s \in Subs : phase'[s] # "answered"
    BY <1>0, <1>7, <2>1 DEF PublisherUpdate, TypeOK, LockInv
  <2>3. current' = Head(updates)
    BY <1>7, <2>1, <2>2 DEF PublisherUpdate, StartMissing
  <2>4. updates[Len(updates)] = listed
    BY <2>1, <2>2 DEF UpdateInv, InSync
  <2>5. updates' = << >> => Head(updates) = updates[Len(updates)]
    BY <2>1, TailEndsAlike
  <2>6. updates' # << >> => updates'[Len(updates')] = updates[Len(updates)]
    BY <2>1, TailEndsAlike
  <2>7. QED
    BY <2>1, <2>2, <2>3, <2>4, <2>5, <2>6 DEF InSync
<1>8. CASE UpdateLost
  BY <1>8 DEF UpdateLost, UpdateInv
<1>9. ASSUME NEW p \in Publishers, NEW i \in Ids, ReaderStep(p, i) \/ ReadError(p, i)
      PROVE  UpdateInv'
  BY <1>9, SameUpdate DEF ReaderStep, Connect, Exit, ReadError
<1>10. CASE Leave \/ Shutdown
  BY <1>0, <1>10 DEF Leave, Shutdown, UpdateInv
<1>11. CASE NodeDrops
  BY <1>11 DEF NodeDrops, UpdateInv
<1>12. CASE UNCHANGED vars
  BY <1>12, SameUpdate DEF vars
<1>13. QED
  BY <1>1, <1>2, <1>3, <1>4, <1>5, <1>6, <1>7, <1>8, <1>9, <1>10, <1>11, <1>12
     DEF Next, SubscriberStep

(* With the last list read, every publisher the master knows is. *)
LEMMA AllRead == ASSUME ListedPublisherRead, UpdateInv PROVE ReadsAllPublishers
BY DEF ListedPublisherRead, UpdateInv, InSync, ReadsAllPublishers

(* The node reads every publisher the master knows, once it has been told. *)
THEOREM EveryPublisherIsRead == ASSUME SubscriptionConstants PROVE Spec => []ReadsAllPublishers
<1>1. Init => UpdateInv
  BY InitUpdate
<1>2. IInv /\ UpdateInv /\ [Next]_vars => UpdateInv'
  BY StepUpdate
<1>3. IInv /\ UpdateInv => ReadsAllPublishers
  BY AllRead DEF IInv
<1>4. QED
  BY <1>1, <1>2, <1>3, Invariance, PTL DEF Spec

=============================================================================
