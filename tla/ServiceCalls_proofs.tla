------------------------ MODULE ServiceCalls_proofs ------------------------
(***************************************************************************)
(* Proofs about the transports of service calls, for any set of calls, any *)
(* number of connections, with and without a timeout: first of             *)
(* RosbridgeCalls by itself, then of each part of the sum.                 *)
(***************************************************************************)
EXTENDS ServiceCalls, TLAPS

USE DEF ReadHeld, Readers, WriteHeld, WritePending, GrantQueued, PcStates, Outcomes,
        RxStates, SpinStates, BeforeSend, callVars, connVars, serverVars, Return, PutOnWire,
        DropSenders

(* The initial state, with no call made and the connection up, satisfies *)
(* the inductive invariant.                                              *)
LEMMA InitIInv == Init => IInv
<1> SUFFICES ASSUME Init PROVE IInv
  OBVIOUS
<1> USE CallsAssumption DEF CallsConstants, Init
<1>1. TypeOK BY DEF TypeOK
<1>2. LockInv BY DEF LockInv
<1>3. TableInv BY DEF TableInv
<1>4. SpinInv BY DEF SpinInv
<1>5. TrafficInv BY DEF TrafficInv
<1>6. ReplyFindsCall /\ NoOrphanedWait /\ NoStaleEntry
  BY DEF ReplyFindsCall, NoOrphanedWait, NoStaleEntry
<1>7. QED
  BY <1>1, <1>2, <1>3, <1>4, <1>5, <1>6 DEF IInv

(***************************************************************************)
(* Every step keeps the invariant.  The steps that carry the argument are  *)
(* SendRequest (the call is still tracked, or its receiver is closed),     *)
(* BeginReconnect (nobody holds the read half, so after this clear nobody  *)
(* is tracked) and Connect (hence no old call is tracked on the new        *)
(* connection).                                                            *)
(***************************************************************************)
LEMMA StepIInv == ASSUME IInv, [Next]_vars PROVE IInv'
<1> USE CallsAssumption DEF CallsConstants, IInv, TypeOK, LockInv, TableInv, SpinInv,
       TrafficInv,
        ReplyFindsCall, NoOrphanedWait, NoStaleEntry
<1>1. ASSUME NEW c \in Calls, Call(c) PROVE IInv'
  BY <1>1 DEF Call
<1>2. ASSUME NEW c \in Calls, LockClient(c) PROVE IInv'
  BY <1>2 DEF LockClient
<1>3. ASSUME NEW c \in Calls, Recheck(c) PROVE IInv'
  BY <1>3 DEF Recheck
<1>4. ASSUME NEW c \in Calls, Track(c) PROVE IInv'
  BY <1>4 DEF Track
<1>5. ASSUME NEW c \in Calls, TakeWriter(c) PROVE IInv'
  BY <1>5 DEF TakeWriter
<1>6. ASSUME NEW c \in Calls, SendRequest(c) PROVE IInv'
  BY <1>6 DEF SendRequest
<1>7. ASSUME NEW c \in Calls, SendFails(c) PROVE IInv'
  BY <1>7 DEF SendFails
<1>8. ASSUME NEW c \in Calls, SendTimesOut(c) PROVE IInv'
  BY <1>8 DEF SendTimesOut
<1>9. ASSUME NEW c \in Calls, Receive(c) PROVE IInv'
  <2>1. TypeOK'
    BY <1>9 DEF Receive
  <2>2. TrafficInv'
    <3>1. \A d \in Calls : outcome'[d] = "none" <=> pc'[d] # "done"
      BY <1>9 DEF Receive
    <3>2. \A d \in Calls :
            outcome'[d] \in {"disconnected", "sendError"} => d \notin wire' \cup served'
      BY <1>9 DEF Receive
    <3>3. QED
      BY <1>9, <3>1, <3>2 DEF Receive
  <2>3. LockInv' BY <1>9 DEF Receive
  <2>4. TableInv' BY <1>9 DEF Receive
  <2>5. SpinInv' BY <1>9 DEF Receive
  <2>6. (ReplyFindsCall /\ NoOrphanedWait /\ NoStaleEntry)'
    BY <1>9 DEF Receive
  <2>7. QED
    BY <2>1, <2>2, <2>3, <2>4, <2>5, <2>6
<1>10. ASSUME NEW c \in Calls, Reset(c) PROVE IInv'
  <2>1. TypeOK'
    BY <1>10 DEF Reset
  <2>2. TrafficInv'
    <3>1. \A d \in Calls : outcome'[d] = "none" <=> pc'[d] # "done"
      BY <1>10 DEF Reset
    <3>2. \A d \in Calls :
            outcome'[d] \in {"disconnected", "sendError"} => d \notin wire' \cup served'
      BY <1>10 DEF Reset
    <3>3. QED
      BY <1>10, <3>1, <3>2 DEF Reset
  <2>3. LockInv' BY <1>10 DEF Reset
  <2>4. TableInv' BY <1>10 DEF Reset
  <2>5. SpinInv' BY <1>10 DEF Reset
  <2>6. (ReplyFindsCall /\ NoOrphanedWait /\ NoStaleEntry)'
    BY <1>10 DEF Reset
  <2>7. QED
    BY <2>1, <2>2, <2>3, <2>4, <2>5, <2>6
<1>11. ASSUME NEW c \in Calls, Expire(c) PROVE IInv'
  BY <1>11 DEF Expire
<1>12. ASSUME NEW c \in Calls, Forget(c) PROVE IInv'
  BY <1>12 DEF Forget
<1>13. ASSUME NEW c \in Calls, Cancel(c) PROVE IInv'
  BY <1>13 DEF Cancel
<1>14. ASSUME NEW c \in Calls, Serve(c) PROVE IInv'
  BY <1>14 DEF Serve
<1>15. ASSUME NEW c \in Calls, HandleResponse(c) PROVE IInv'
  BY <1>15 DEF HandleResponse
<1>16. CASE ReadFails
  BY <1>16 DEF ReadFails
<1>17. CASE ClearCalls
  BY <1>17 DEF ClearCalls
<1>18. CASE BeginReconnect
  BY <1>18 DEF BeginReconnect
<1>19. CASE Connect
  BY <1>19 DEF Connect
<1>20. CASE Resent
  BY <1>20 DEF Resent
<1>21. CASE ResendFails
  BY <1>21 DEF ResendFails
<1>22. CASE MarkConnected
  BY <1>22 DEF MarkConnected
<1>23. CASE Exit
  BY <1>23 DEF Exit
<1>24. CASE Disconnect
  <2>1. TypeOK' BY <1>24 DEF Disconnect
  <2>2. LockInv' BY <1>24 DEF Disconnect
  <2>3. TableInv' BY <1>24 DEF Disconnect
  <2>4. SpinInv' BY <1>24 DEF Disconnect
  <2>5. TrafficInv' BY <1>24 DEF Disconnect
  <2>6. ReplyFindsCall' BY <1>24 DEF Disconnect
  <2>7. NoOrphanedWait' BY <1>24 DEF Disconnect
  <2>8. NoStaleEntry' BY <1>24 DEF Disconnect
  <2>9. QED BY <2>1, <2>2, <2>3, <2>4, <2>5, <2>6, <2>7, <2>8
<1>25. CASE UNCHANGED vars
  BY <1>25 DEF vars
<1>26. QED
  BY <1>1, <1>2, <1>3, <1>4, <1>5, <1>6, <1>7, <1>8, <1>9, <1>10,
     <1>11, <1>12, <1>13, <1>14, <1>15, <1>16, <1>17, <1>18, <1>19, <1>20,
     <1>21, <1>22, <1>23, <1>24, <1>25
     DEF Next, CallStep, SpinStep, Stopped

(* The inductive invariant holds in every reachable state. *)
THEOREM Invariance == Spec => []IInv
<1>1. Init => IInv
  BY InitIInv
<1>2. IInv /\ [Next]_vars => IInv'
  BY StepIInv
<1>3. QED
  BY <1>1, <1>2, PTL DEF Spec

(***************************************************************************)
(* The invariants of the runs, for every value of the constants.           *)
(***************************************************************************)
THEOREM TypeCorrect == Spec => []TypeOK
<1>1. IInv => TypeOK
  BY DEF IInv
<1>2. QED
  BY <1>1, Invariance, PTL

(* No call ever waits for an answer that cannot come any more. *)
THEOREM NoCallIsOrphaned == Spec => [](ReplyFindsCall /\ NoOrphanedWait)
<1>1. IInv => ReplyFindsCall /\ NoOrphanedWait
  BY DEF IInv
<1>2. QED
  BY <1>1, Invariance, PTL

(* The table of calls holds no entry of a finished call or an old connection. *)
THEOREM TableIsClean == Spec => [](NoAbandonedEntry /\ NoStaleEntry)
<1>1. IInv => NoAbandonedEntry /\ NoStaleEntry
  BY DEF IInv, TableInv, NoAbandonedEntry
<1>2. QED
  BY <1>1, Invariance, PTL

(***************************************************************************)
(* The client implements the contract of ServiceCall.                      *)
(***************************************************************************)
LEMMA StatusStep ==
    ASSUME IInv, NEW c \in Calls, NEW p, NEW o,
           pc' = [pc EXCEPT ![c] = p], outcome' = [outcome EXCEPT ![c] = o]
    PROVE  status' = [status EXCEPT ![c] = StatusOf(p, o)]
BY DEF status, IInv, TypeOK

(* Where no outcome changes and no call begins, the contract sees nothing. *)
LEMMA StatusSame ==
    ASSUME IInv, outcome' = outcome,
           \A c \in Calls : (pc'[c] = "idle") <=> (pc[c] = "idle")
    PROVE  status' = status
BY DEF status, StatusOf

(* Every step of the client is a step of ServiceCall or leaves its state alone. *)
LEMMA StepContract ==
    ASSUME IInv, [Next]_vars PROVE [Contract!Next]_(Contract!vars)
<1> USE CallsAssumption DEF CallsConstants, IInv, TypeOK
<1>1. ASSUME NEW c \in Calls, Call(c) PROVE Contract!Begin(c) \/ Contract!Refuse(c)
  <2>1. status[c] = "idle" /\ c \notin served
    BY <1>1 DEF Call, status, StatusOf, TrafficInv
  <2>2. CASE is_disconnected
    <3>1. status' = [status EXCEPT ![c] = StatusOf("done", "disconnected")]
      BY <1>1, <2>2, StatusStep DEF Call
    <3>2. QED
      BY <1>1, <2>1, <3>1 DEF Call, StatusOf, Contract!Refuse
  <2>3. CASE ~is_disconnected
    <3>1. pc' = [pc EXCEPT ![c] = "checked"]
      BY <1>1, <2>3 DEF Call
    <3>2. outcome' = [outcome EXCEPT ![c] = "none"]
      BY <1>1, <2>3 DEF Call, TrafficInv
    <3>3. status' = [status EXCEPT ![c] = StatusOf("checked", "none")]
      BY <3>1, <3>2, StatusStep
    <3>4. QED
      BY <1>1, <2>1, <3>3 DEF Call, StatusOf, Contract!Begin
  <2>4. QED
    BY <2>2, <2>3
<1>2. ASSUME NEW c \in Calls, LockClient(c) PROVE UNCHANGED Contract!vars
  <2>1. status' = status
    BY <1>2, StatusSame DEF LockClient
  <2>2. QED
    BY <1>2, <2>1 DEF LockClient, Contract!vars
<1>3. ASSUME NEW c \in Calls, Recheck(c) PROVE Contract!Refuse(c) \/ UNCHANGED Contract!vars
  <2>1. CASE is_disconnected
    <3>1. status[c] = "pending" /\ c \notin served
      BY <1>3 DEF Recheck, status, StatusOf, TrafficInv
    <3>2. status' = [status EXCEPT ![c] = StatusOf("done", "disconnected")]
      BY <1>3, <2>1, StatusStep DEF Recheck
    <3>3. QED
      BY <1>3, <3>1, <3>2 DEF Recheck, StatusOf, Contract!Refuse
  <2>2. CASE ~is_disconnected
    <3>1. status' = status
      BY <1>3, <2>2, StatusSame DEF Recheck
    <3>2. QED
      BY <1>3, <3>1 DEF Recheck, Contract!vars
  <2>3. QED
    BY <2>1, <2>2
<1>4. ASSUME NEW c \in Calls, Track(c) PROVE UNCHANGED Contract!vars
  <2>1. status' = status
    BY <1>4, StatusSame DEF Track
  <2>2. QED
    BY <1>4, <2>1 DEF Track, Contract!vars
<1>5. ASSUME NEW c \in Calls, TakeWriter(c) PROVE UNCHANGED Contract!vars
  <2>1. status' = status
    BY <1>5, StatusSame DEF TakeWriter
  <2>2. QED
    BY <1>5, <2>1 DEF TakeWriter, Contract!vars
<1>6. ASSUME NEW c \in Calls, SendRequest(c) PROVE UNCHANGED Contract!vars
  <2>1. status' = status
    BY <1>6, StatusSame DEF SendRequest
  <2>2. QED
    BY <1>6, <2>1 DEF SendRequest, Contract!vars
<1>7. ASSUME NEW c \in Calls, SendFails(c) PROVE Contract!Refuse(c)
  <2>1. status[c] = "pending" /\ c \notin served
    BY <1>7 DEF SendFails, status, StatusOf, TrafficInv
  <2>2. status' = [status EXCEPT ![c] = StatusOf("done", "sendError")]
    BY <1>7, StatusStep DEF SendFails
  <2>3. QED
    BY <1>7, <2>1, <2>2 DEF SendFails, StatusOf, Contract!Refuse
<1>8. ASSUME NEW c \in Calls, SendTimesOut(c) PROVE Contract!Fail(c)
  <2>1. status[c] = "pending"
    BY <1>8 DEF SendTimesOut, status, StatusOf, TrafficInv
  <2>2. status' = [status EXCEPT ![c] = StatusOf("done", "sendTimeout")]
    BY <1>8, StatusStep DEF SendTimesOut
  <2>3. QED
    BY <1>8, <2>1, <2>2 DEF SendTimesOut, StatusOf, Contract!Fail
<1>9. ASSUME NEW c \in Calls, Receive(c) PROVE Contract!Succeed(c)
  <2>1. status[c] = "pending" /\ c \in served
    BY <1>9 DEF Receive, status, StatusOf, TrafficInv
  <2>2. status' = [status EXCEPT ![c] = StatusOf("done", "ok")]
    BY <1>9, StatusStep DEF Receive
  <2>3. QED
    BY <1>9, <2>1, <2>2 DEF Receive, StatusOf, Contract!Succeed
<1>10. ASSUME NEW c \in Calls, Reset(c) PROVE Contract!Fail(c)
  <2>1. status[c] = "pending"
    BY <1>10 DEF Reset, status, StatusOf, TrafficInv
  <2>2. status' = [status EXCEPT ![c] = StatusOf("done", "reset")]
    BY <1>10, StatusStep DEF Reset
  <2>3. QED
    BY <1>10, <2>1, <2>2 DEF Reset, StatusOf, Contract!Fail
<1>11. ASSUME NEW c \in Calls, Expire(c) PROVE UNCHANGED Contract!vars
  <2>1. status' = status
    BY <1>11, StatusSame DEF Expire
  <2>2. QED
    BY <1>11, <2>1 DEF Expire, Contract!vars
<1>12. ASSUME NEW c \in Calls, Forget(c) PROVE Contract!Fail(c)
  <2>1. status[c] = "pending"
    BY <1>12 DEF Forget, status, StatusOf, TrafficInv
  <2>2. status' = [status EXCEPT ![c] = StatusOf("done", "timeout")]
    BY <1>12, StatusStep DEF Forget
  <2>3. QED
    BY <1>12, <2>1, <2>2 DEF Forget, StatusOf, Contract!Fail
<1>13. ASSUME NEW c \in Calls, Cancel(c) PROVE Contract!Fail(c)
  <2>1. status[c] = "pending"
    BY <1>13 DEF Cancel, status, StatusOf, TrafficInv
  <2>2. status' = [status EXCEPT ![c] = StatusOf("done", "cancelled")]
    BY <1>13, StatusStep DEF Cancel
  <2>3. QED
    BY <1>13, <2>1, <2>2 DEF Cancel, StatusOf, Contract!Fail
<1>14. ASSUME NEW c \in Calls, Serve(c) PROVE Contract!Execute(c)
  <2>1. status[c] \notin {"idle", "refused"} /\ c \notin served
    BY <1>14 DEF Serve, status, StatusOf, TrafficInv
  <2>2. status' = status
    BY <1>14, StatusSame DEF Serve
  <2>3. QED
    BY <1>14, <2>1, <2>2 DEF Serve, Contract!Execute
<1>15. ASSUME NEW c \in Calls, HandleResponse(c) PROVE UNCHANGED Contract!vars
  <2>1. status' = status
    BY <1>15, StatusSame DEF HandleResponse
  <2>2. QED
    BY <1>15, <2>1 DEF HandleResponse, Contract!vars
<1>16. CASE \/ ReadFails \/ ClearCalls \/ BeginReconnect \/ Connect \/ MarkConnected
          \/ Exit \/ Disconnect \/ UNCHANGED vars
  <2>1. pc' = pc /\ outcome' = outcome /\ served' = served
    BY <1>16 DEF ReadFails, ClearCalls, BeginReconnect, Connect, MarkConnected, Exit,
       Disconnect, vars
  <2>2. status' = status
    BY <2>1, StatusSame
  <2>3. QED
    BY <2>1, <2>2 DEF Contract!vars
<1>17. CASE Resent \/ ResendFails
  <2>1. outcome' = outcome /\ served' = served /\ pc' = GrantQueued
    BY <1>17 DEF Resent, ResendFails
  <2>2. status' = status
    BY <2>1, StatusSame
  <2>3. QED
    BY <2>1, <2>2 DEF Contract!vars
<1>18. QED
  BY <1>1, <1>2, <1>3, <1>4, <1>5, <1>6, <1>7, <1>8, <1>9, <1>10,
     <1>11, <1>12, <1>13, <1>14, <1>15, <1>16, <1>17
     DEF Next, CallStep, SpinStep, Stopped, Contract!Next

(* Every behaviour of the client is a behaviour of ServiceCall. *)
THEOREM Refinement == Spec => KeepsContract
<1>1. Init => Contract!Init
  BY DEF Init, Contract!Init, status, StatusOf
<1>2. IInv /\ [Next]_vars => [Contract!Next]_(Contract!vars)
  BY StepContract
<1>3. QED
  BY <1>1, <1>2, Invariance, PTL DEF Spec, KeepsContract, Contract!Spec

-----------------------------------------------------------------------------
(***************************************************************************)
(* The same of whatever carries the calls: rosbridge's variables change by *)
(* its own steps only, and so do the link's.                               *)
(***************************************************************************)

(* A step of another part is no step of rosbridge. *)
LEMMA RosbridgeSteps == ASSUME [AnyNext]_allVars PROVE [Next]_vars
BY DEF AnyNext, allVars

(* The rosbridge part of the inductive invariant. *)
THEOREM AnyInvariance == AnySpec => []IInv
<1>1. AnyInit => IInv
  BY InitIInv DEF AnyInit
<1>2. IInv /\ [AnyNext]_allVars => IInv'
  BY RosbridgeSteps, StepIInv
<1>3. QED
  BY <1>1, <1>2, PTL DEF AnySpec

(* No call waits for an answer that cannot come, and the table is clean. *)
THEOREM NoCallIsStuck == AnySpec => [](NoOrphanedWait /\ NoAbandonedEntry)
<1>1. IInv => NoOrphanedWait /\ NoAbandonedEntry
  BY DEF IInv, TableInv, NoAbandonedEntry
<1>2. QED
  BY <1>1, AnyInvariance, PTL

(* Rosbridge keeps the contract whatever the other parts do. *)
THEOREM RosbridgeKeepsContract == AnySpec => KeepsContract
<1>1. AnyInit => Contract!Init
  BY DEF AnyInit, Init, Contract!Init, status, StatusOf
<1>2. IInv /\ [AnyNext]_allVars => [Contract!Next]_(Contract!vars)
  BY RosbridgeSteps, StepContract
<1>3. QED
  BY <1>1, <1>2, AnyInvariance, PTL DEF AnySpec, KeepsContract, Contract!Spec

-----------------------------------------------------------------------------
(***************************************************************************)
(* The ROS 1 link                                                          *)
(***************************************************************************)

(* The initial state, with no call made, satisfies the inductive invariant. *)
LEMMA LinkInit == ASSUME Link!Init PROVE Link!IInv
<1> USE PartsAssumption DEF Link!Init
<1>1. Link!TypeOK
  <2>1. << >> \in Seq(LinkCalls) /\ << >> \in Seq(Link!Response)
    OBVIOUS
  <2>2. [c \in LinkCalls |-> 0] \in [LinkCalls -> Nat]
    OBVIOUS
  <2>3. QED
    BY <2>1, <2>2 DEF Link!TypeOK
<1>2. Link!LinkInv
  BY DEF Link!LinkInv
<1>3. Link!OnceInv
  BY DEF Link!OnceInv, Link!Queued, Link!Requested
<1>4. Link!OwnResponse /\ Link!RunsOnce
  BY DEF Link!OwnResponse, Link!RunsOnce
<1>5. QED
  BY <1>1, <1>2, <1>3, <1>4 DEF Link!IInv

(* OwnResponse follows from the rest of the invariant. *)
LEMMA LinkConsequence == Link!LinkInv => Link!OwnResponse
<1> SUFFICES ASSUME Link!LinkInv PROVE Link!OwnResponse
  OBVIOUS
<1>1. Link!OwnResponse
  <2> SUFFICES ASSUME step = "reading", responses # << >> PROVE Head(responses).of = actor
    BY DEF Link!OwnResponse
  <2>1. \E ok \in BOOLEAN : responses = <<[of |-> actor, ok |-> ok]>>
    BY DEF Link!LinkInv, Link!InFlight
  <2>2. QED
    BY <2>1
<1>2. QED
  BY <1>1

(* Every step, and stuttering, keeps the inductive invariant. *)
LEMMA LinkStep == ASSUME Link!IInv, [Link!Next]_(Link!vars) PROVE Link!IInv'
<1> USE PartsAssumption DEF Link!clientVars, Link!wireVars, Link!serverVars
<1>0. Link!TypeOK /\ Link!LinkInv /\ Link!OnceInv /\ Link!OwnResponse /\ Link!RunsOnce
  BY DEF Link!IInv
<1>t. /\ \A c \in LinkCalls : runs[c] \in {0, 1}
      /\ actor \in LinkCalls \cup {NoCall} /\ linkServing \in LinkCalls \cup {NoCall}
      /\ linkQueue \in Seq(LinkCalls) /\ requests \in Seq(LinkCalls)
      /\ responses \in Seq(Link!Response)
  <2>1. ASSUME NEW c \in LinkCalls PROVE runs[c] \in {0, 1}
    <3>1. runs[c] \in Nat /\ runs[c] <= 1
      BY <1>0 DEF Link!TypeOK, Link!RunsOnce
    <3>2. QED
      BY <3>1
  <2>2. QED
    BY <1>0, <2>1 DEF Link!TypeOK
<1>1. ASSUME NEW c \in LinkCalls, Link!Call(c) PROVE Link!IInv'
  <2> USE DEF Link!Call
  <2>1. Link!TypeOK'
    BY <1>0, <1>1 DEF Link!TypeOK
  <2>2. Link!LinkInv'
    BY <1>0, <1>1 DEF Link!LinkInv, Link!InFlight
  <2>3. Link!OnceInv'
    <3>1. Len(linkQueue') = Len(linkQueue) + 1 /\ linkQueue'[Len(linkQueue) + 1] = c
          /\ \A i \in 1 .. Len(linkQueue) : linkQueue'[i] = linkQueue[i]
      BY <1>1, <1>t
    <3>2. \A d \in LinkCalls : Link!Queued(d)' <=> Link!Queued(d) \/ d = c
      BY <1>t, <3>1 DEF Link!Queued
    <3>3. /\ ~ Link!Queued(c) /\ actor # c /\ ~ Link!Requested(c)
          /\ c \notin linkRunning /\ runs[c] = 0
      <4>1. linkCall[c] = "idle"
        BY <1>1
      <4>2. QED
        BY <1>0, <4>1 DEF Link!OnceInv
    <3>4. \A i, j \in 1 .. Len(linkQueue') : linkQueue'[i] = linkQueue'[j] => i = j
      <4>1. \A i, j \in 1 .. Len(linkQueue) : linkQueue[i] = linkQueue[j] => i = j
        BY <1>0 DEF Link!OnceInv
      <4>2. \A i \in 1 .. Len(linkQueue) : linkQueue[i] # c
        BY <3>3 DEF Link!Queued
      <4>3. QED
        BY <1>t, <3>1, <4>1, <4>2
    <3>5. \A d \in LinkCalls : d # c => linkCall'[d] = linkCall[d]
      BY <1>0, <1>1 DEF Link!TypeOK
    <3>6. linkCall'[c] = "waiting" /\ UNCHANGED <<actor, step, requests, linkRunning, runs, broken>>
      BY <1>0, <1>1 DEF Link!TypeOK
    <3>7. \A d \in LinkCalls : Link!Requested(d)' <=> Link!Requested(d)
      BY <3>6 DEF Link!Requested
    <3>8. QED
      BY <1>0, <1>1, <3>2, <3>3, <3>4, <3>5, <3>6, <3>7 DEF Link!OnceInv
  <2>4. QED
    BY <1>0, <1>1, <2>1, <2>2, <2>3, <1>t DEF Link!IInv, Link!OwnResponse, Link!RunsOnce
<1>2. ASSUME NEW c \in LinkCalls, Link!GiveUp(c) PROVE Link!IInv'
  <2>1. Link!TypeOK' /\ Link!LinkInv'
    BY <1>0, <1>2 DEF Link!GiveUp, Link!TypeOK, Link!LinkInv, Link!InFlight
  <2>2. Link!OnceInv'
    BY <1>0, <1>2 DEF Link!GiveUp, Link!TypeOK, Link!OnceInv, Link!Queued, Link!Requested
  <2>3. QED
    BY <1>0, <1>2, <2>1, <2>2 DEF Link!GiveUp, Link!IInv, Link!OwnResponse, Link!RunsOnce
<1>3. CASE Link!DropClient
  <2>1. Link!TypeOK'
    BY <1>0, <1>3 DEF Link!DropClient, Link!TypeOK
  <2>2. Link!LinkInv'
    BY <1>0, <1>3 DEF Link!DropClient, Link!LinkInv
  <2>3. Link!OnceInv'
    <3>1. \A d \in LinkCalls : ~ Link!Queued(d)' /\ (Link!Requested(d)' <=> Link!Requested(d))
      BY <1>3 DEF Link!DropClient, Link!Queued, Link!Requested
    <3>2. QED
      BY <1>0, <1>3, <3>1 DEF Link!DropClient, Link!OnceInv
  <2>4. QED
    BY <1>0, <1>3, <2>1, <2>2, <2>3
       DEF Link!DropClient, Link!IInv, Link!OwnResponse, Link!RunsOnce
<1>4. CASE Link!NextCall
  <2> USE DEF Link!NextCall
  <2>1. /\ linkQueue # << >> /\ actor' = Head(linkQueue) /\ Head(linkQueue) = linkQueue[1]
        /\ Head(linkQueue) \in LinkCalls
        /\ Len(linkQueue) \in Nat /\ Len(linkQueue) >= 1
        /\ linkQueue' = Tail(linkQueue) /\ linkQueue' \in Seq(LinkCalls)
        /\ Len(linkQueue') = Len(linkQueue) - 1
        /\ \A i \in 1 .. Len(linkQueue') : linkQueue'[i] = linkQueue[i + 1]
    BY <1>4, <1>t
  <2>2. step = "free" /\ step' = "writing" /\ UNCHANGED <<linkCall, Link!wireVars, Link!serverVars>>
    BY <1>4
  <2>3. Link!TypeOK'
    BY <1>0, <2>1, <2>2 DEF Link!TypeOK
  <2>4. Link!LinkInv'
    BY <1>0, <2>1, <2>2 DEF Link!LinkInv
  <2>5. Link!OnceInv'
    <3>0. PICK d \in LinkCalls : d = linkQueue[1]
      BY <2>1
    <3>1. Link!Queued(d) /\ ~ Link!Queued(d)'
      <4>1. Link!Queued(d)
        BY <2>1, <3>0 DEF Link!Queued
      <4>2. ASSUME NEW i \in 1 .. Len(linkQueue'), linkQueue'[i] = d PROVE FALSE
        <5>1. i + 1 \in 1 .. Len(linkQueue) /\ 1 \in 1 .. Len(linkQueue) /\ i + 1 # 1
          BY <2>1
        <5>2. linkQueue[i + 1] = linkQueue[1]
          BY <2>1, <3>0, <4>2
        <5>3. QED
          BY <1>0, <5>1, <5>2 DEF Link!OnceInv
      <4>3. QED
        BY <4>1, <4>2 DEF Link!Queued
    <3>2. \A c \in LinkCalls : Link!Queued(c)' => Link!Queued(c)
      BY <2>1 DEF Link!Queued
    <3>3. \A i, j \in 1 .. Len(linkQueue') : linkQueue'[i] = linkQueue'[j] => i = j
      <4>1. ASSUME NEW i \in 1 .. Len(linkQueue'), NEW j \in 1 .. Len(linkQueue'),
                   linkQueue'[i] = linkQueue'[j]
            PROVE  i = j
        <5>1. i + 1 \in 1 .. Len(linkQueue) /\ j + 1 \in 1 .. Len(linkQueue)
          BY <2>1
        <5>2. linkQueue[i + 1] = linkQueue[j + 1]
          BY <2>1, <4>1
        <5>3. i + 1 = j + 1
          BY <1>0, <5>1, <5>2 DEF Link!OnceInv
        <5>4. QED
          BY <5>3
      <4>2. QED
        BY <4>1
    <3>4. \A e \in LinkCalls : Link!Requested(e)' <=> Link!Requested(e)
      BY <2>2 DEF Link!Requested
    <3>5. actor' = d /\ step' = "writing" /\ step = "free"
          /\ UNCHANGED <<linkCall, requests, linkRunning, runs, broken>>
      BY <2>1, <2>2, <3>0
    <3>6. \A e \in LinkCalls :
            linkCall[e] = "idle" => ~ Link!Queued(e)' /\ d # e /\ ~ Link!Requested(e)
      BY <1>0, <3>1, <3>2 DEF Link!OnceInv
    <3>7. \A e \in LinkCalls : Link!Queued(e)' => d # e /\ ~ Link!Requested(e)
      BY <1>0, <3>1, <3>2 DEF Link!OnceInv
    <3>8. \A e \in LinkCalls :
            linkCall[e] = "idle" \/ Link!Queued(e)' \/ Link!Requested(e) \/ d = e
            => e \notin linkRunning /\ runs[e] = 0
      BY <1>0, <3>1, <3>2 DEF Link!OnceInv
    <3>9. QED
      BY <1>0, <3>3, <3>4, <3>5, <3>6, <3>7, <3>8 DEF Link!OnceInv
  <2>6. QED
    BY <1>0, <2>2, <2>3, <2>4, <2>5 DEF Link!IInv, Link!OwnResponse, Link!RunsOnce
<1>5. CASE Link!WriteRequest
  <2> USE DEF Link!WriteRequest
  <2>1. step = "writing" /\ ~ broken /\ requests = << >> /\ linkServing = NoCall /\ responses = << >>
        /\ actor \in LinkCalls
    BY <1>0, <1>5, <1>t DEF Link!LinkInv
  <2>2. requests' = <<actor>> /\ step' = "reading"
        /\ UNCHANGED <<linkCall, linkQueue, actor, broken, responses, Link!serverVars>>
    BY <1>5, <2>1
  <2>3. Link!TypeOK'
    BY <1>0, <2>1, <2>2 DEF Link!TypeOK
  <2>4. Link!LinkInv'
    BY <1>0, <2>1, <2>2 DEF Link!LinkInv, Link!InFlight
  <2>5. Link!OnceInv'
    <3>1. \A d \in LinkCalls : Link!Requested(d)' <=> d = actor
      BY <2>2 DEF Link!Requested
    <3>2. \A d \in LinkCalls : Link!Queued(d)' <=> Link!Queued(d)
      BY <2>2 DEF Link!Queued
    <3>3. QED
      BY <1>0, <2>1, <2>2, <3>1, <3>2 DEF Link!OnceInv
  <2>6. QED
    BY <1>0, <2>1, <2>2, <2>3, <2>4, <2>5 DEF Link!IInv, Link!OwnResponse, Link!RunsOnce
<1>6. CASE Link!ReadResponse
  <2> USE DEF Link!ReadResponse, Link!Answer
  <2>1. step = "reading" /\ step' = "free" /\ actor' = NoCall
        /\ UNCHANGED <<linkQueue, broken, requests, Link!serverVars>>
    BY <1>6
  <2>2. \E ok \in BOOLEAN : responses = <<[of |-> actor, ok |-> ok]>>
    BY <1>0, <1>6 DEF Link!LinkInv, Link!InFlight
  <2>3. responses' = << >>
    BY <1>6, <2>2
  <2>4. ~ broken => requests = << >> /\ linkServing = NoCall
    <3>1. responses # << >>
      BY <1>6
    <3>2. QED
      BY <1>0, <2>1, <3>1 DEF Link!LinkInv, Link!InFlight
  <2>5. Link!TypeOK'
    <3>1. linkCall' \in [LinkCalls -> {"idle", "waiting", "ok", "error", "dropped"}]
      BY <1>0, <1>6 DEF Link!TypeOK
    <3>2. responses' \in Seq(Link!Response)
      BY <2>3
    <3>3. QED
      BY <1>0, <2>1, <3>1, <3>2 DEF Link!TypeOK
  <2>6. Link!LinkInv'
    BY <1>0, <2>1, <2>3, <2>4 DEF Link!LinkInv
  <2>7. Link!OnceInv'
    <3>1. \A d \in LinkCalls : linkCall'[d] = "idle" => linkCall[d] = "idle"
      BY <1>0, <1>6 DEF Link!TypeOK
    <3>2. QED
      BY <1>0, <2>1, <3>1 DEF Link!OnceInv, Link!Queued, Link!Requested
  <2>8. QED
    BY <1>0, <2>1, <2>3, <2>5, <2>6, <2>7 DEF Link!IInv, Link!OwnResponse, Link!RunsOnce
<1>7. CASE Link!Fail
  <2> USE DEF Link!Fail, Link!Answer
  <2>1. broken /\ responses = << >> /\ step' = "free" /\ actor' = NoCall
        /\ UNCHANGED <<linkQueue, Link!wireVars, Link!serverVars>>
    BY <1>0, <1>7 DEF Link!LinkInv
  <2>2. Link!TypeOK'
    BY <1>0, <1>7 DEF Link!TypeOK
  <2>3. Link!LinkInv'
    <3>1. step # "aborted" /\ requests = << >>
      BY <1>0, <1>7, <2>1 DEF Link!LinkInv
    <3>2. linkServer \in {"calling", "answering"} <=> linkServing # NoCall
      BY <1>0 DEF Link!LinkInv
    <3>3. broken' /\ responses' = << >> /\ requests' = << >> /\ step' = "free"
          /\ actor' = NoCall /\ linkServer' = linkServer /\ linkServing' = linkServing
      BY <2>1, <3>1
    <3>4. QED
      BY <3>2, <3>3 DEF Link!LinkInv
  <2>4. Link!OnceInv'
    <3>1. \A d \in LinkCalls : linkCall'[d] = "idle" => linkCall[d] = "idle"
      BY <1>0, <1>7 DEF Link!TypeOK
    <3>2. QED
      BY <1>0, <2>1, <3>1 DEF Link!OnceInv, Link!Queued, Link!Requested
  <2>5. QED
    BY <1>0, <2>1, <2>2, <2>3, <2>4 DEF Link!IInv, Link!OwnResponse, Link!RunsOnce
<1>8. CASE Link!Break
  <2> USE DEF Link!Break
  <2>1. Link!TypeOK' /\ Link!LinkInv'
    BY <1>0, <1>8 DEF Link!TypeOK, Link!LinkInv
  <2>2. Link!OnceInv'
    <3>1. \A d \in LinkCalls : ~ Link!Requested(d)' /\ (Link!Queued(d)' <=> Link!Queued(d))
      BY <1>8 DEF Link!Requested, Link!Queued
    <3>2. \A i, j \in 1 .. Len(requests') : requests'[i] = requests'[j] => i = j
      BY <1>8
    <3>3. broken' /\ UNCHANGED <<linkCall, linkQueue, actor, step, linkRunning, runs>>
      BY <1>8
    <3>4. QED
      BY <1>0, <3>1, <3>2, <3>3 DEF Link!OnceInv
  <2>3. QED
    BY <1>0, <1>8, <2>1, <2>2 DEF Link!IInv, Link!OwnResponse, Link!RunsOnce
<1>9. CASE Link!ReadRequest
  <2> USE DEF Link!ReadRequest
  <2>1. linkServer = "reading" /\ requests # << >> /\ linkServing = NoCall /\ linkServing' = requests[1]
        /\ linkServing' \in LinkCalls /\ requests' = Tail(requests) /\ linkServer' = "calling"
        /\ linkRunning' = linkRunning \cup {linkServing'}
        /\ UNCHANGED <<Link!clientVars, broken, responses, runs>>
    BY <1>0, <1>9, <1>t DEF Link!LinkInv
  <2>2. Len(requests') = Len(requests) - 1 /\ Len(requests) \in Nat /\ Len(requests) >= 1
        /\ requests' \in Seq(LinkCalls)
        /\ \A i \in 1 .. Len(requests') : requests'[i] = requests[i + 1]
    BY <1>t, <2>1
  <2>3. Link!TypeOK'
    BY <1>0, <2>1, <2>2 DEF Link!TypeOK
  <2>4. Link!LinkInv'
    <3>1. step = "reading" /\ ~ broken => requests = <<actor>> /\ responses = << >>
      BY <1>0, <2>1 DEF Link!LinkInv, Link!InFlight
    <3>2. step = "reading" /\ ~ broken => Link!InFlight'
      <4> SUFFICES ASSUME step = "reading", ~ broken PROVE Link!InFlight'
        OBVIOUS
      <4>1. requests[1] = actor /\ Len(requests) = 1
        BY <3>1
      <4>2. requests' = << >> /\ linkServing' = actor
        BY <2>1, <2>2, <4>1
      <4>3. QED
        BY <2>1, <3>1, <4>2 DEF Link!InFlight
    <3>3. step \in {"free", "writing"} => broken
      BY <1>0, <2>1 DEF Link!LinkInv
    <3>4. QED
      BY <1>0, <2>1, <3>2, <3>3 DEF Link!LinkInv
  <2>5. Link!OnceInv'
    <3>0. PICK d \in LinkCalls : d = requests[1]
      BY <2>1
    <3>1. Link!Requested(d) /\ ~ Link!Requested(d)'
      <4>1. Link!Requested(d)
        BY <2>2, <3>0 DEF Link!Requested
      <4>2. ASSUME NEW i \in 1 .. Len(requests'), requests'[i] = d PROVE FALSE
        <5>1. i + 1 \in 1 .. Len(requests) /\ 1 \in 1 .. Len(requests) /\ i + 1 # 1
          BY <2>2
        <5>2. requests[i + 1] = requests[1]
          BY <2>2, <3>0, <4>2
        <5>3. QED
          BY <1>0, <5>1, <5>2 DEF Link!OnceInv
      <4>3. QED
        BY <4>1, <4>2 DEF Link!Requested
    <3>2. \A e \in LinkCalls : Link!Requested(e)' => Link!Requested(e)
      BY <2>2 DEF Link!Requested
    <3>3. \A i, j \in 1 .. Len(requests') : requests'[i] = requests'[j] => i = j
      <4>1. ASSUME NEW i \in 1 .. Len(requests'), NEW j \in 1 .. Len(requests'),
                   requests'[i] = requests'[j]
            PROVE  i = j
        <5>1. i + 1 \in 1 .. Len(requests) /\ j + 1 \in 1 .. Len(requests)
          BY <2>2
        <5>2. requests[i + 1] = requests[j + 1]
          BY <2>2, <4>1
        <5>3. i + 1 = j + 1
          BY <1>0, <5>1, <5>2 DEF Link!OnceInv
        <5>4. QED
          BY <5>3
      <4>2. QED
        BY <4>1
    <3>4. \A e \in LinkCalls : Link!Queued(e)' <=> Link!Queued(e)
      BY <2>1 DEF Link!Queued
    <3>5. linkRunning' = linkRunning \cup {d} /\ UNCHANGED <<linkCall, linkQueue, actor, step, broken, runs>>
      BY <2>1, <3>0
    <3>6. d \notin linkRunning /\ runs[d] = 0 /\ linkCall[d] # "idle" /\ ~ Link!Queued(d)
          /\ ~ (step = "writing" /\ actor = d)
      <4>1. ~ (step = "writing" /\ actor = d)
        BY <1>0, <2>1, <3>0 DEF Link!LinkInv, Link!InFlight, Link!OnceInv
      <4>2. QED
        BY <1>0, <3>1, <4>1 DEF Link!OnceInv
    <3>7. \A e \in LinkCalls :
            \/ linkCall[e] = "idle" \/ Link!Queued(e)' \/ Link!Requested(e)'
            \/ (step = "writing" /\ actor = e)
            => e \notin linkRunning' /\ runs[e] = 0
      BY <1>0, <3>1, <3>2, <3>4, <3>5, <3>6 DEF Link!OnceInv
    <3>8. \A e \in linkRunning' : runs[e] = 0
      BY <1>0, <3>5, <3>6 DEF Link!OnceInv
    <3>9. QED
      BY <1>0, <3>2, <3>3, <3>4, <3>5, <3>7, <3>8 DEF Link!OnceInv
  <2>6. QED
    BY <1>0, <2>1, <2>3, <2>4, <2>5 DEF Link!IInv, Link!OwnResponse, Link!RunsOnce
<1>10. ASSUME NEW c \in LinkCalls, Link!RunCallback(c) PROVE Link!IInv'
  <2> USE DEF Link!RunCallback
  <2>1. Link!TypeOK'
    BY <1>0, <1>10 DEF Link!TypeOK
  <2>2. Link!LinkInv'
    BY <1>0, <1>10 DEF Link!LinkInv, Link!InFlight
  <2>3. Link!OnceInv'
    <3>1. UNCHANGED <<linkCall, linkQueue, actor, step, broken, requests>>
      BY <1>10
    <3>2. linkRunning' = linkRunning \ {c} /\ \A d \in LinkCalls : d # c => runs'[d] = runs[d]
      BY <1>0, <1>10 DEF Link!TypeOK
    <3>3. linkRunning \subseteq LinkCalls
      BY <1>0 DEF Link!TypeOK
    <3>4. QED
      BY <1>0, <1>10, <3>1, <3>2, <3>3 DEF Link!OnceInv, Link!Queued, Link!Requested
  <2>4. Link!RunsOnce'
    BY <1>0, <1>10, <1>t DEF Link!TypeOK, Link!OnceInv, Link!RunsOnce
  <2>5. QED
    BY <1>0, <1>10, <2>1, <2>2, <2>3, <2>4 DEF Link!IInv, Link!OwnResponse
<1>11. CASE Link!WriteResponse
  <2> USE DEF Link!WriteResponse
  <2>1. linkServing # NoCall /\ ~ broken /\ linkServer' = "reading" /\ linkServing' = NoCall
        /\ UNCHANGED <<Link!clientVars, broken, requests, linkRunning, runs>>
    BY <1>0, <1>11 DEF Link!LinkInv
  <2>2. PICK ok \in BOOLEAN : responses' = Append(responses, [of |-> linkServing, ok |-> ok])
    BY <1>11
  <2>3. Link!TypeOK'
    <3>1. responses' \in Seq(Link!Response)
      BY <1>t, <2>1, <2>2 DEF Link!Response
    <3>2. QED
      BY <1>0, <2>1, <3>1 DEF Link!TypeOK
  <2>4. Link!LinkInv'
    <3>1. step \notin {"free", "writing"}
      BY <1>0, <2>1 DEF Link!LinkInv
    <3>2. step = "reading" => requests = << >> /\ linkServing = actor /\ responses = << >>
      BY <1>0, <2>1 DEF Link!LinkInv, Link!InFlight
    <3>3. step = "reading" => responses' = <<[of |-> actor, ok |-> ok]>>
      BY <2>2, <3>2
    <3>4. step = "reading" => Link!InFlight'
      BY <2>1, <3>2, <3>3 DEF Link!InFlight
    <3>5. QED
      BY <1>0, <2>1, <3>1, <3>4 DEF Link!LinkInv
  <2>5. Link!OnceInv'
    BY <1>0, <2>1 DEF Link!OnceInv, Link!Queued, Link!Requested
  <2>6. Link!OwnResponse'
    <3>1. step = "reading" => \E k \in BOOLEAN : responses' = <<[of |-> actor, ok |-> k]>>
      <4>1. step = "reading" => linkServing = actor /\ responses = << >>
        BY <1>0, <2>1 DEF Link!LinkInv, Link!InFlight
      <4>2. QED
        BY <2>2, <4>1
    <3>2. QED
      BY <2>1, <3>1 DEF Link!OwnResponse
  <2>7. QED
    BY <1>0, <2>1, <2>3, <2>4, <2>5, <2>6 DEF Link!IInv, Link!RunsOnce
<1>12. CASE Link!ServerEnds
  <2> USE DEF Link!ServerEnds
  <2>1. Link!TypeOK'
    BY <1>0, <1>12 DEF Link!TypeOK
  <2>2. Link!LinkInv'
    BY <1>0, <1>12 DEF Link!LinkInv, Link!InFlight
  <2>3. Link!OnceInv'
    <3>1. \A d \in LinkCalls : ~ Link!Requested(d)' /\ (Link!Queued(d)' <=> Link!Queued(d))
      BY <1>12 DEF Link!Requested, Link!Queued
    <3>2. \A i, j \in 1 .. Len(requests') : requests'[i] = requests'[j] => i = j
      BY <1>12
    <3>3. broken' /\ UNCHANGED <<linkCall, linkQueue, actor, step, linkRunning, runs>>
      BY <1>12
    <3>4. QED
      BY <1>0, <3>1, <3>2, <3>3 DEF Link!OnceInv
  <2>4. QED
    BY <1>0, <1>12, <2>1, <2>2, <2>3 DEF Link!IInv, Link!OwnResponse, Link!RunsOnce
<1>13. CASE UNCHANGED Link!vars
  BY <1>0, <1>13
     DEF Link!vars, Link!IInv, Link!TypeOK, Link!LinkInv, Link!InFlight, Link!OnceInv,
         Link!Queued, Link!Requested,
     Link!OwnResponse, Link!RunsOnce
<1>14. QED
  BY <1>1, <1>2, <1>3, <1>4, <1>5, <1>6, <1>7, <1>8, <1>9, <1>10, <1>11, <1>12, <1>13
     DEF Link!Next, Link!ActorStep, Link!ServerStep

(***************************************************************************)
(* Refinement: the link keeps the contract of ServiceCall.                 *)
(***************************************************************************)

(* What is answered was executed: RunCallback alone makes the server answer, *)
(* and WriteResponse alone adds a response.                                   *)
LEMMA LinkServed ==
    ASSUME Link!ContractInv, [Link!Next]_(Link!vars) PROVE Link!ServedInv'
<1> USE PartsAssumption DEF Link!clientVars, Link!wireVars, Link!serverVars
<1>0. Link!TypeOK /\ Link!LinkInv /\ Link!OnceInv /\ Link!ServedInv
  BY DEF Link!ContractInv, Link!IInv
<1>t. /\ runs \in [LinkCalls -> Nat] /\ responses \in Seq(Link!Response)
      /\ linkServing \in LinkCalls \cup {NoCall}
      /\ \A i \in 1 .. Len(responses) : responses[i].of \in LinkCalls
  <2>1. responses \in Seq(Link!Response)
    BY <1>0 DEF Link!TypeOK
  <2>2. \A i \in 1 .. Len(responses) : responses[i] \in Link!Response
    BY <2>1
  <2>3. \A i \in 1 .. Len(responses) : responses[i].of \in LinkCalls
    BY <2>2 DEF Link!Response
  <2>4. QED
    BY <1>0, <2>1, <2>3 DEF Link!TypeOK
<1>s. linkServer = "answering" => linkServing \in LinkCalls
  BY <1>0, <1>t DEF Link!LinkInv
<1>1. CASE UNCHANGED <<linkServer, linkServing, responses, runs>>
  BY <1>0, <1>1 DEF Link!ServedInv
<1>2. CASE Link!ReadResponse \/ Link!Break
  <2>1. UNCHANGED <<linkServer, linkServing, runs>>
    BY <1>2 DEF Link!ReadResponse, Link!Break
  <2>2. responses' = responses \/ responses' = << >>
        \/ (responses # << >> /\ responses' = Tail(responses))
    BY <1>2 DEF Link!ReadResponse, Link!Break
  <2>3. \A i \in 1 .. Len(responses') :
          \E j \in 1 .. Len(responses) : responses'[i] = responses[j]
    <3>1. CASE responses # << >> /\ responses' = Tail(responses)
      <4>1. \A i \in 1 .. Len(responses') :
              i + 1 \in 1 .. Len(responses) /\ responses'[i] = responses[i + 1]
        BY <1>t, <3>1
      <4>2. QED
        BY <4>1
    <3>2. CASE responses' = responses \/ responses' = << >>
      BY <3>2
    <3>3. QED
      BY <2>2, <3>1, <3>2
  <2>4. QED
    BY <1>0, <2>1, <2>3 DEF Link!ServedInv
<1>3. CASE Link!ReadRequest
  BY <1>0, <1>3 DEF Link!ReadRequest, Link!ServedInv
<1>4. ASSUME NEW c \in LinkCalls, Link!RunCallback(c) PROVE Link!ServedInv'
  <2>1. responses' = responses /\ linkServing' = linkServing
        /\ (linkServer' = "answering" => linkServer = "answering" \/ linkServing = c)
    BY <1>4 DEF Link!RunCallback
  <2>2. runs'[c] > 0 /\ \A d \in LinkCalls : runs'[d] >= runs[d]
    BY <1>t, <1>4 DEF Link!RunCallback
  <2>3. \A d \in LinkCalls : runs[d] > 0 => runs'[d] > 0
    BY <1>t, <2>2, <1>4 DEF Link!RunCallback
  <2>4. QED
    BY <1>0, <1>t, <1>s, <2>1, <2>2, <2>3 DEF Link!ServedInv
<1>5. CASE Link!WriteResponse
  <2>1. PICK ok \in BOOLEAN : responses' = Append(responses, [of |-> linkServing, ok |-> ok])
    BY <1>5 DEF Link!WriteResponse
  <2>2. linkServer = "answering" /\ linkServer' = "reading" /\ runs' = runs
    BY <1>5 DEF Link!WriteResponse
  <2>3. ASSUME NEW i \in 1 .. Len(responses') PROVE runs[responses'[i].of] > 0
    <3>1. CASE i = Len(responses) + 1
      <4>1. responses'[i].of = linkServing
        BY <1>t, <2>1, <3>1
      <4>2. QED
        BY <1>0, <2>2, <4>1 DEF Link!ServedInv
    <3>2. CASE i # Len(responses) + 1
      <4>1. i \in 1 .. Len(responses) /\ responses'[i] = responses[i]
        BY <1>t, <2>1, <3>2
      <4>2. QED
        BY <1>0, <4>1 DEF Link!ServedInv
    <3>3. QED
      BY <3>1, <3>2
  <2>4. QED
    BY <2>2, <2>3 DEF Link!ServedInv
<1>6. CASE Link!ServerEnds
  BY <1>0, <1>6 DEF Link!ServerEnds, Link!ServedInv
<1>7. QED
  BY <1>1, <1>2, <1>3, <1>4, <1>5, <1>6
     DEF Link!Next, Link!ActorStep, Link!ServerStep, Link!Call, Link!GiveUp, Link!DropClient,
         Link!NextCall, Link!WriteRequest, Link!Fail, Link!vars

(* The call's status in the contract changes exactly where its own does. *)
LEMMA LinkStatusStep ==
    ASSUME Link!TypeOK, NEW c \in LinkCalls,
           NEW s, linkCall' = [linkCall EXCEPT ![c] = s], runs' = runs
    PROVE  /\ Link!Contract!vars' =
                <<[[d \in LinkCalls |-> Link!StatusOf(linkCall[d])] EXCEPT ![c] = Link!StatusOf(s)],
                  {d \in LinkCalls : runs[d] > 0}>>
BY DEF Link!TypeOK, Link!Contract!vars

(* Nothing changes in the contract where no call's status does. *)
LEMMA LinkStatusSame ==
    ASSUME linkCall' = linkCall, runs' = runs PROVE UNCHANGED Link!Contract!vars
BY DEF Link!Contract!vars

(* The statuses of a call as the contract has them. *)
LEMMA LinkStatuses ==
    /\ Link!StatusOf("idle") = "idle" /\ Link!StatusOf("waiting") = "pending" /\ Link!StatusOf("ok") = "ok"
    /\ Link!StatusOf("error") = "failed" /\ Link!StatusOf("dropped") = "failed"
BY DEF Link!StatusOf

(* Every step of the link is a step of the contract, or none. *)
LEMMA LinkContract ==
    ASSUME Link!ContractInv, [Link!Next]_(Link!vars)
    PROVE  [Link!Contract!Next]_(Link!Contract!vars)
<1> USE PartsAssumption DEF Link!clientVars, Link!wireVars, Link!serverVars
<1>0. Link!TypeOK /\ Link!LinkInv /\ Link!OnceInv /\ Link!ServedInv /\ Link!RunsOnce
  BY DEF Link!ContractInv, Link!IInv
<1>1. ASSUME NEW c \in LinkCalls, Link!Call(c) PROVE Link!Contract!Begin(c)
  <2>1. linkCall[c] = "idle" /\ linkCall' = [linkCall EXCEPT ![c] = "waiting"] /\ runs' = runs
    BY <1>1 DEF Link!Call, Link!serverVars
  <2>2. QED
    BY <1>0, <2>1, LinkStatusStep DEF Link!Contract!Begin, Link!StatusOf, Link!Contract!vars
<1>2. ASSUME NEW c \in LinkCalls, Link!GiveUp(c) PROVE Link!Contract!Fail(c)
  <2>1. linkCall[c] = "waiting" /\ linkCall' = [linkCall EXCEPT ![c] = "dropped"] /\ runs' = runs
    BY <1>2 DEF Link!GiveUp, Link!serverVars
  <2>2. QED
    BY <1>0, <2>1, LinkStatusStep, LinkStatuses DEF Link!Contract!Fail, Link!Contract!vars
<1>3. CASE Link!ReadResponse
  <2>1. /\ runs' = runs /\ actor \in LinkCalls
        /\ linkCall \in [LinkCalls -> {"idle", "waiting", "ok", "error", "dropped"}]
    BY <1>0, <1>3 DEF Link!ReadResponse, Link!serverVars, Link!LinkInv, Link!TypeOK
  <2>2. PICK ok \in BOOLEAN : responses = <<[of |-> actor, ok |-> ok]>>
    BY <1>0, <1>3 DEF Link!ReadResponse, Link!LinkInv, Link!InFlight
  <2>h. Head(responses).ok = ok
    BY <2>2
  <2>3. runs[actor] > 0
    BY <1>0, <2>2 DEF Link!ServedInv
  <2>4. CASE linkCall[actor] # "waiting"
    BY <1>3, <2>1, <2>4, LinkStatusSame DEF Link!ReadResponse, Link!Answer
  <2>5. CASE linkCall[actor] = "waiting" /\ ok
    <3>1. linkCall' = [linkCall EXCEPT ![actor] = "ok"]
      BY <1>3, <2>h, <2>5 DEF Link!ReadResponse, Link!Answer
    <3>2. Link!Contract!Succeed(actor)
      BY <1>0, <2>1, <2>3, <2>5, <3>1, LinkStatusStep
         DEF Link!Contract!Succeed, Link!StatusOf, Link!Contract!vars
    <3>3. QED
      BY <2>1, <3>2 DEF Link!Contract!Next
  <2>6. CASE linkCall[actor] = "waiting" /\ ~ ok
    <3>1. linkCall' = [linkCall EXCEPT ![actor] = "error"]
      BY <1>3, <2>h, <2>6 DEF Link!ReadResponse, Link!Answer
    <3>2. Link!Contract!Fail(actor)
      BY <1>0, <2>1, <2>6, <3>1, LinkStatusStep, LinkStatuses
         DEF Link!Contract!Fail, Link!Contract!vars
    <3>3. QED
      BY <2>1, <3>2 DEF Link!Contract!Next
  <2>7. QED
    BY <2>4, <2>5, <2>6
<1>4. CASE Link!Fail
  <2>1. runs' = runs /\ actor \in LinkCalls
    BY <1>0, <1>4 DEF Link!Fail, Link!serverVars, Link!LinkInv, Link!TypeOK
  <2>2. CASE linkCall[actor] # "waiting"
    BY <1>4, <2>1, <2>2, LinkStatusSame DEF Link!Fail, Link!Answer
  <2>3. CASE linkCall[actor] = "waiting"
    <3>1. linkCall' = [linkCall EXCEPT ![actor] = "error"]
      BY <1>4, <2>3 DEF Link!Fail, Link!Answer
    <3>2. Link!Contract!Fail(actor)
      BY <1>0, <2>1, <2>3, <3>1, LinkStatusStep, LinkStatuses
         DEF Link!Contract!Fail, Link!Contract!vars
    <3>3. QED
      BY <2>1, <3>2 DEF Link!Contract!Next
  <2>4. QED
    BY <2>2, <2>3
<1>5. ASSUME NEW c \in LinkCalls, Link!RunCallback(c) PROVE Link!Contract!Execute(c)
  <2>1. c \in linkRunning /\ runs' = [runs EXCEPT ![c] = @ + 1] /\ linkCall' = linkCall
    BY <1>5 DEF Link!RunCallback, Link!clientVars
  <2>2. runs[c] = 0 /\ linkCall[c] # "idle"
    BY <1>0, <2>1 DEF Link!OnceInv
  <2>3. {d \in LinkCalls : runs'[d] > 0} = {d \in LinkCalls : runs[d] > 0} \cup {c}
    BY <1>0, <2>1, <2>2 DEF Link!TypeOK
  <2>4. Link!StatusOf(linkCall[c]) \notin {"idle", "refused"}
    BY <1>0, <2>2 DEF Link!TypeOK, Link!StatusOf
  <2>5. QED
    BY <2>1, <2>2, <2>3, <2>4 DEF Link!Contract!Execute
<1>6. CASE linkCall' = linkCall /\ runs' = runs
  BY <1>6, LinkStatusSame
<1>7. QED
  BY <1>1, <1>2, <1>3, <1>4, <1>5, <1>6
     DEF Link!Next, Link!ActorStep, Link!ServerStep, Link!DropClient, Link!NextCall,
         Link!WriteRequest, Link!Break, Link!ReadRequest,
         Link!WriteResponse, Link!ServerEnds, Link!Contract!Next, Link!vars

(* Nothing is answered at the start. *)
LEMMA LinkInitContract ==
    ASSUME Link!Init PROVE Link!ContractInv /\ Link!Contract!Init
<1>1. Link!IInv
  BY LinkInit
<1>2. Link!ServedInv
  BY DEF Link!Init, Link!ServedInv
<1>3. Link!Contract!Init
  BY DEF Link!Init, Link!Contract!Init, Link!StatusOf
<1>4. QED
  BY <1>1, <1>2, <1>3 DEF Link!ContractInv

(* A step of another part is no step of the link. *)
LEMMA LinkSteps == ASSUME [AnyNext]_allVars PROVE [Link!Next]_(Link!vars)
<1>1. Link!vars' = Link!vars \/ Link!Next
  <2>1. CASE part = "link" /\ Link!Next
    BY <2>1
  <2>2. CASE UNCHANGED linkVars
    BY <2>2 DEF linkVars, Link!vars, Link!clientVars, Link!wireVars, Link!serverVars
  <2>3. QED
    BY <2>1, <2>2 DEF AnyNext, allVars
<1>2. QED
  BY <1>1

(* The link: no call's callback runs twice. *)
THEOREM LinkRunsOnce == AnySpec => []Link!RunsOnce
<1>1. AnyInit => Link!ContractInv
  BY LinkInitContract DEF AnyInit
<1>2. Link!ContractInv /\ [AnyNext]_allVars => Link!ContractInv'
  BY LinkSteps, LinkStep, LinkServed DEF Link!ContractInv
<1>3. Link!ContractInv => Link!RunsOnce
  BY DEF Link!ContractInv, Link!IInv
<1>4. QED
  BY <1>1, <1>2, <1>3, PTL DEF AnySpec

(* The actor never takes the response of one call for that of another. *)
THEOREM LinkResponsesMatch == AnySpec => []OwnResponse
<1>1. AnyInit => Link!ContractInv
  BY LinkInitContract DEF AnyInit
<1>2. Link!ContractInv /\ [AnyNext]_allVars => Link!ContractInv'
  BY LinkSteps, LinkStep, LinkServed DEF Link!ContractInv
<1>3. Link!ContractInv => OwnResponse
  BY DEF Link!ContractInv, Link!IInv, OwnResponse
<1>4. QED
  BY <1>1, <1>2, <1>3, PTL DEF AnySpec

(* The ROS 1 link keeps the contract. *)
THEOREM LinkKeepsContract == AnySpec => Link!KeepsContract
<1>1. AnyInit => Link!ContractInv /\ Link!Contract!Init
  BY LinkInitContract DEF AnyInit
<1>2. Link!ContractInv /\ [AnyNext]_allVars => Link!ContractInv'
  BY LinkSteps, LinkStep, LinkServed DEF Link!ContractInv
<1>3. Link!ContractInv /\ [AnyNext]_allVars => [Link!Contract!Next]_(Link!Contract!vars)
  BY LinkSteps, LinkContract
<1>4. QED
  BY <1>1, <1>2, <1>3, PTL DEF AnySpec, Link!KeepsContract, Link!Contract!Spec

-----------------------------------------------------------------------------
(***************************************************************************)
(* The mock                                                                *)
(***************************************************************************)

(* A mock starts with no call and no server. *)
LEMMA MockInit == ASSUME AnyInit PROVE Mock!IInv /\ Mock!Contract!Init
<1> USE DEF AnyInit, Mock!Init
<1>1. Mock!TypeOK
  BY DEF Mock!TypeOK
<1>2. Mock!ServerInv /\ Mock!CallInv /\ Mock!NewestServes
  BY PartsAssumption DEF Mock!ServerInv, Mock!CallInv, Mock!NewestServes
<1>3. Mock!Contract!Init
  BY DEF Mock!Contract!Init, Mock!StatusOf
<1>4. QED
  BY <1>1, <1>2, <1>3 DEF Mock!IInv

(* Every step keeps its invariant: the callback that LookUp finds is that of *)
(* a server that lives, and a replaced one never lives again.                *)
LEMMA MockStep == ASSUME Mock!IInv, [Mock!Next]_(Mock!vars) PROVE Mock!IInv'
<1> USE DEF Mock!callVars, Mock!serverVars, Mock!Go
<1>0. Mock!TypeOK /\ Mock!ServerInv /\ Mock!CallInv /\ Mock!NewestServes
  BY DEF Mock!IInv
<1>1. ASSUME NEW s \in Servers, Mock!CheckType(s) PROVE Mock!IInv'
  <2>1. Mock!TypeOK'
    BY <1>0, <1>1 DEF Mock!TypeOK, Mock!CheckType
  <2>2. Mock!ServerInv'
    BY <1>0, <1>1 DEF Mock!TypeOK, Mock!ServerInv, Mock!CheckType
  <2>3. Mock!CallInv' /\ Mock!NewestServes'
    BY <1>0, <1>1 DEF Mock!CallInv, Mock!NewestServes, Mock!CheckType
  <2>4. QED
    BY <2>1, <2>2, <2>3 DEF Mock!IInv
<1>2. ASSUME NEW s \in Servers, Mock!Insert(s) PROVE Mock!IInv'
  <2>1. Mock!TypeOK'
    BY <1>0, <1>2 DEF Mock!TypeOK, Mock!Insert
  <2>2. Mock!ServerInv'
    BY <1>0, <1>2 DEF Mock!TypeOK, Mock!ServerInv, Mock!Insert
  <2>3. Mock!CallInv' /\ Mock!NewestServes'
    BY <1>0, <1>2 DEF Mock!CallInv, Mock!NewestServes, Mock!Insert
  <2>4. QED
    BY <2>1, <2>2, <2>3 DEF Mock!IInv
<1>3. ASSUME NEW c \in Calls, Mock!Call(c) PROVE Mock!IInv'
  <2>1. Mock!TypeOK'
    BY <1>0, <1>3 DEF Mock!TypeOK, Mock!Call
  <2>2. Mock!ServerInv' /\ Mock!CallInv'
    BY <1>0, <1>3 DEF Mock!TypeOK, Mock!ServerInv, Mock!CallInv, Mock!Call
  <2>3. Mock!NewestServes'
    <3>1. mockCall[c] = "idle" /\ callback' = callback
      BY <1>3 DEF Mock!Call
    <3>2. callback[c] = NoServer
      BY <1>0, <3>1 DEF Mock!CallInv
    <3>3. QED
      BY <1>0, <1>3, <3>1, <3>2, PartsAssumption DEF Mock!TypeOK, Mock!NewestServes, Mock!Call
  <2>4. QED
    BY <2>1, <2>2, <2>3 DEF Mock!IInv
<1>4. ASSUME NEW c \in Calls, Mock!LookUp(c) PROVE Mock!IInv'
  <2>1. Mock!TypeOK'
    BY <1>0, <1>4 DEF Mock!TypeOK, Mock!LookUp
  <2>2. Mock!ServerInv' /\ Mock!CallInv'
    BY <1>0, <1>4 DEF Mock!TypeOK, Mock!ServerInv, Mock!CallInv, Mock!LookUp
  <2>3. Mock!NewestServes'
    <3>1. store # NoServer => store \notin outdated[c]
      BY <1>0 DEF Mock!ServerInv
    <3>2. QED
      BY <1>0, <1>4, <3>1 DEF Mock!TypeOK, Mock!NewestServes, Mock!LookUp
  <2>4. QED
    BY <2>1, <2>2, <2>3 DEF Mock!IInv
<1>5. ASSUME NEW c \in Calls, Mock!RunCallback(c) PROVE Mock!IInv'
  <2>1. Mock!TypeOK'
    BY <1>0, <1>5 DEF Mock!TypeOK, Mock!RunCallback
  <2>2. Mock!ServerInv' /\ Mock!CallInv' /\ Mock!NewestServes'
    BY <1>0, <1>5 DEF Mock!TypeOK, Mock!ServerInv, Mock!CallInv, Mock!NewestServes,
       Mock!RunCallback
  <2>3. QED
    BY <2>1, <2>2 DEF Mock!IInv
<1>6. ASSUME NEW c \in Calls, Mock!Return(c) \/ Mock!Cancel(c) PROVE Mock!IInv'
  <2>1. Mock!TypeOK'
    BY <1>0, <1>6 DEF Mock!TypeOK, Mock!Return, Mock!Cancel
  <2>2. Mock!ServerInv' /\ Mock!CallInv' /\ Mock!NewestServes'
    BY <1>0, <1>6 DEF Mock!TypeOK, Mock!ServerInv, Mock!CallInv, Mock!NewestServes,
       Mock!Return, Mock!Cancel
  <2>3. QED
    BY <2>1, <2>2 DEF Mock!IInv
<1>7. CASE Mock!DropRos \/ UNCHANGED Mock!vars
  BY <1>0, <1>7 DEF Mock!DropRos, Mock!vars, Mock!IInv, Mock!TypeOK, Mock!ServerInv,
     Mock!CallInv, Mock!NewestServes
<1>8. QED
  BY <1>1, <1>2, <1>3, <1>4, <1>5, <1>6, <1>7 DEF Mock!Next, Mock!CallStep

(* The statuses of a call as the contract has them. *)
LEMMA MockStatuses ==
    /\ Mock!StatusOf("yielding") = "pending" /\ Mock!StatusOf("serving") = "pending"
    /\ Mock!StatusOf("dropped") = "failed" /\ Mock!StatusOf("idle") = "idle"
    /\ Mock!StatusOf("ok") = "ok" /\ Mock!StatusOf("failed") = "failed"
    /\ Mock!StatusOf("refused") = "refused"
BY DEF Mock!StatusOf

(* Every step of the mock is a step of the contract, or none. *)
LEMMA MockContract ==
    ASSUME Mock!IInv, [Mock!Next]_(Mock!vars)
    PROVE  [Mock!Contract!Next]_(Mock!Contract!vars)
<1> USE DEF Mock!callVars, Mock!serverVars, Mock!Go
<1>0. /\ mockCall \in [Calls -> {"idle", "yielding", "serving", "ok", "failed", "refused",
                               "dropped"}]
      /\ mockRan \in [Calls -> {"no", "result", "error"}] /\ mockRunning \subseteq Calls
      /\ Mock!CallInv
  BY DEF Mock!IInv, Mock!TypeOK
<1>s. ASSUME NEW c \in Calls, NEW t, mockCall' = [mockCall EXCEPT ![c] = t], mockRan' = mockRan
      PROVE  Mock!Contract!vars' =
                <<[[d \in Calls |-> Mock!StatusOf(mockCall[d])] EXCEPT ![c] = Mock!StatusOf(t)],
                  {d \in Calls : mockRan[d] # "no"}>>
  BY <1>0, <1>s DEF Mock!Contract!vars
<1>1. ASSUME NEW c \in Calls, Mock!Call(c)
      PROVE  Mock!Contract!Begin(c) \/ Mock!Contract!Refuse(c)
  <2>1. mockCall[c] = "idle" /\ mockRan' = mockRan /\ mockRan[c] = "no"
    BY <1>0, <1>1 DEF Mock!Call, Mock!CallInv
  <2>2. mockCall' = [mockCall EXCEPT ![c] = "yielding"]
        \/ mockCall' = [mockCall EXCEPT ![c] = "refused"]
    BY <1>1 DEF Mock!Call
  <2>3. QED
    BY <1>0, <1>s, <2>1, <2>2, MockStatuses
       DEF Mock!Contract!Begin, Mock!Contract!Refuse, Mock!Contract!vars
<1>2. ASSUME NEW c \in Calls, Mock!LookUp(c)
      PROVE  Mock!Contract!Refuse(c) \/ UNCHANGED Mock!Contract!vars
  <2>1. mockCall[c] = "yielding" /\ mockRan' = mockRan /\ mockRan[c] = "no"
    BY <1>0, <1>2 DEF Mock!LookUp, Mock!CallInv
  <2>2. CASE mockCall' = [mockCall EXCEPT ![c] = "refused"]
    BY <1>0, <1>s, <2>1, <2>2, MockStatuses DEF Mock!Contract!Refuse, Mock!Contract!vars
  <2>3. CASE mockCall' = [mockCall EXCEPT ![c] = "serving"]
    <3>1. \A d \in Calls : Mock!StatusOf(mockCall'[d]) = Mock!StatusOf(mockCall[d])
      BY <1>0, <2>1, <2>3, MockStatuses
    <3>2. QED
      BY <2>1, <3>1 DEF Mock!Contract!vars
  <2>4. QED
    BY <1>2, <2>2, <2>3 DEF Mock!LookUp
<1>3. ASSUME NEW c \in Calls, Mock!RunCallback(c) PROVE Mock!Contract!Execute(c)
  <2>1. mockCall' = mockCall /\ mockRan[c] = "no" /\ mockCall[c] \notin {"idle", "yielding", "refused"}
    BY <1>0, <1>3 DEF Mock!RunCallback, Mock!CallInv
  <2>2. PICK r \in {"result", "error"} : mockRan' = [mockRan EXCEPT ![c] = r]
    BY <1>3 DEF Mock!RunCallback
  <2>3. {d \in Calls : mockRan'[d] # "no"} = {d \in Calls : mockRan[d] # "no"} \cup {c}
    BY <1>0, <2>1, <2>2
  <2>4. Mock!StatusOf(mockCall[c]) \notin {"idle", "refused"}
    BY <1>0, <2>1, MockStatuses
  <2>5. QED
    BY <2>1, <2>3, <2>4 DEF Mock!Contract!Execute
<1>4. ASSUME NEW c \in Calls, Mock!Return(c)
      PROVE  Mock!Contract!Succeed(c) \/ Mock!Contract!Fail(c)
  <2>1. mockCall[c] = "serving" /\ mockRan' = mockRan /\ mockRan[c] # "no"
    BY <1>4 DEF Mock!Return
  <2>2. mockCall' = [mockCall EXCEPT ![c] = "ok"] \/ mockCall' = [mockCall EXCEPT ![c] = "failed"]
    BY <1>4 DEF Mock!Return
  <2>3. QED
    BY <1>0, <1>s, <2>1, <2>2, MockStatuses
       DEF Mock!Contract!Succeed, Mock!Contract!Fail, Mock!Contract!vars
<1>5. ASSUME NEW c \in Calls, Mock!Cancel(c) PROVE Mock!Contract!Fail(c)
  <2>1. mockCall[c] \in {"yielding", "serving"} /\ mockRan' = mockRan
        /\ mockCall' = [mockCall EXCEPT ![c] = "dropped"]
    BY <1>5 DEF Mock!Cancel
  <2>2. QED
    BY <1>0, <1>s, <2>1, MockStatuses DEF Mock!Contract!Fail, Mock!Contract!vars
<1>6. CASE mockCall' = mockCall /\ mockRan' = mockRan
  BY <1>6 DEF Mock!Contract!vars
<1>7. QED
  BY <1>1, <1>2, <1>3, <1>4, <1>5, <1>6
     DEF Mock!Next, Mock!CallStep, Mock!CheckType, Mock!Insert, Mock!DropRos, Mock!vars,
         Mock!Contract!Next

(* A step of another part is no step of the mock. *)
LEMMA MockSteps == ASSUME [AnyNext]_allVars PROVE [Mock!Next]_(Mock!vars)
BY DEF AnyNext, allVars, mockVars, Mock!vars, Mock!callVars, Mock!serverVars

(* A call of the mock is never served by a server that had been replaced. *)
THEOREM MockServesNewest == AnySpec => []NewestServes
<1>1. AnyInit => Mock!IInv
  BY MockInit
<1>2. Mock!IInv /\ [AnyNext]_allVars => Mock!IInv'
  BY MockSteps, MockStep
<1>3. Mock!IInv => NewestServes
  BY DEF Mock!IInv, NewestServes
<1>4. QED
  BY <1>1, <1>2, <1>3, PTL DEF AnySpec

(* The mock keeps the contract. *)
THEOREM MockKeepsContract == AnySpec => Mock!KeepsContract
<1>1. AnyInit => Mock!IInv /\ Mock!Contract!Init
  BY MockInit
<1>2. Mock!IInv /\ [AnyNext]_allVars => Mock!IInv'
  BY MockSteps, MockStep
<1>3. Mock!IInv /\ [AnyNext]_allVars => [Mock!Contract!Next]_(Mock!Contract!vars)
  BY MockSteps, MockContract
<1>4. QED
  BY <1>1, <1>2, <1>3, PTL DEF AnySpec, Mock!KeepsContract, Mock!Contract!Spec

-----------------------------------------------------------------------------
(***************************************************************************)
(* The queue of zenoh's and of ROS 2's server.  The two differ in how their *)
(* task ends; either way it keeps nothing.                                  *)
(***************************************************************************)
Ended ==
    /\ ~ declared
    /\ task' = "gone" /\ queue' = << >> /\ serving' = NoCall
    /\ UNCHANGED <<call, running, ran, declared>>

(* A step of either is one of these. *)
QueuedStep ==
    \/ \E c \in LinkCalls :
        Zenoh!Call(c) \/ Zenoh!Cancel(c) \/ Zenoh!RunCallback(c) \/ Zenoh!Unanswered(c)
    \/ Zenoh!Reject \/ Zenoh!Take \/ Zenoh!Reply \/ Zenoh!DropServer \/ Ended
    \/ UNCHANGED queueVars

LEMMA QueuedSteps == ASSUME [AnyNext]_allVars PROVE QueuedStep
<1>1. Zenoh!Next => QueuedStep
  BY DEF Zenoh!Next, Zenoh!TaskStep, Zenoh!End, QueuedStep, Ended
<1>2. Ros2!Next => QueuedStep
  BY DEF Ros2!Next, Ros2!TaskStep, Ros2!End, Ros2!Call, Ros2!Cancel, Ros2!RunCallback,
     Ros2!Unanswered, Ros2!Reject, Ros2!Take, Ros2!Reply, Ros2!Answer, Ros2!DropServer,
     Zenoh!Call, Zenoh!Cancel, Zenoh!RunCallback, Zenoh!Unanswered, Zenoh!Reject, Zenoh!Take,
     Zenoh!Reply, Zenoh!Answer, Zenoh!DropServer, QueuedStep, Ended
<1>3. UNCHANGED queueVars => QueuedStep
  BY DEF QueuedStep
<1>4. QED
  BY <1>1, <1>2, <1>3 DEF AnyNext, allVars

(* A service starts with no query. *)
LEMMA QueuedInit == ASSUME AnyInit PROVE Zenoh!IInv /\ Zenoh!Contract!Init
<1> USE DEF AnyInit, Zenoh!Init
<1>1. Zenoh!TypeOK
  <2>1. << >> \in Seq(LinkCalls)
    OBVIOUS
  <2>2. QED
    BY <2>1 DEF Zenoh!TypeOK
<1>2. Zenoh!OnceInv
  BY DEF Zenoh!OnceInv, Zenoh!Queued
<1>3. Zenoh!Contract!Init
  BY DEF Zenoh!Contract!Init, Zenoh!StatusOf
<1>4. QED
  BY <1>1, <1>2, <1>3 DEF Zenoh!IInv

(* What taking the first query off the queue does. *)
LEMMA TakeFirst ==
    ASSUME Zenoh!IInv, queue # << >>, queue' = Tail(queue)
    PROVE  /\ queue' \in Seq(LinkCalls)
           /\ Head(queue) \in LinkCalls /\ Zenoh!Queued(Head(queue))
           /\ \A c \in LinkCalls : Zenoh!Queued(c)' => Zenoh!Queued(c) /\ c # Head(queue)
           /\ \A i, j \in 1 .. Len(queue') : queue'[i] = queue'[j] => i = j
<1>0. queue \in Seq(LinkCalls) /\ \A i, j \in 1 .. Len(queue) : queue[i] = queue[j] => i = j
  BY DEF Zenoh!IInv, Zenoh!TypeOK, Zenoh!OnceInv
<1>1. /\ queue' \in Seq(LinkCalls) /\ Len(queue) \in Nat /\ Len(queue) >= 1
      /\ Len(queue') = Len(queue) - 1
      /\ Head(queue) = queue[1] /\ Head(queue) \in LinkCalls
      /\ \A i \in 1 .. Len(queue') : queue'[i] = queue[i + 1]
  BY <1>0
<1>2. Zenoh!Queued(Head(queue))
  BY <1>1 DEF Zenoh!Queued
<1>3. ASSUME NEW i \in 1 .. Len(queue')
      PROVE  i + 1 \in 1 .. Len(queue) /\ queue'[i] = queue[i + 1] /\ queue'[i] # queue[1]
  <2>1. i + 1 \in 1 .. Len(queue) /\ 1 \in 1 .. Len(queue) /\ i + 1 # 1
    BY <1>1
  <2>2. QED
    BY <1>0, <1>1, <2>1
<1>4. \A c \in LinkCalls : Zenoh!Queued(c)' => Zenoh!Queued(c) /\ c # Head(queue)
  BY <1>1, <1>3 DEF Zenoh!Queued
<1>5. ASSUME NEW i \in 1 .. Len(queue'), NEW j \in 1 .. Len(queue'), queue'[i] = queue'[j]
      PROVE  i = j
  <2>1. i + 1 = j + 1
    BY <1>0, <1>3, <1>5
  <2>2. QED
    BY <2>1
<1>6. QED
  BY <1>1, <1>2, <1>4, <1>5

(* Every step keeps the invariant: a callback starts for a call that was in *)
(* the queue, and is there no more.                                          *)
LEMMA QueuedKeeps ==
    ASSUME Zenoh!IInv, QueuedStep PROVE Zenoh!IInv'
<1>0. Zenoh!TypeOK /\ Zenoh!OnceInv
  BY DEF Zenoh!IInv
<1>c. NoCall \notin LinkCalls
  BY PartsAssumption
<1>1. ASSUME NEW c \in LinkCalls, Zenoh!Call(c) PROVE Zenoh!IInv'
  <2> USE DEF Zenoh!Call
  <2>1. queue \in Seq(LinkCalls)
    BY <1>0 DEF Zenoh!TypeOK
  <2>2. call[c] = "idle" /\ ~ Zenoh!Queued(c) /\ c \notin running /\ ran[c] = "no"
    BY <1>0, <1>1 DEF Zenoh!OnceInv
  <2>3. /\ queue' \in Seq(LinkCalls)
        /\ \A d \in LinkCalls : Zenoh!Queued(d)' => Zenoh!Queued(d) \/ d = c
        /\ \A i, j \in 1 .. Len(queue') : queue'[i] = queue'[j] => i = j
    <3>1. CASE queue' = queue
      BY <1>0, <2>1, <3>1 DEF Zenoh!OnceInv, Zenoh!Queued
    <3>2. CASE queue' = Append(queue, c)
      <4>1. /\ queue' \in Seq(LinkCalls) /\ Len(queue') = Len(queue) + 1 /\ Len(queue) \in Nat
            /\ queue'[Len(queue) + 1] = c
            /\ \A i \in 1 .. Len(queue) : queue'[i] = queue[i]
        BY <2>1, <3>2
      <4>2. QED
        BY <1>0, <2>2, <4>1 DEF Zenoh!OnceInv, Zenoh!Queued
    <3>3. QED
      BY <1>1, <3>1, <3>2
  <2>4. Zenoh!TypeOK'
    BY <1>0, <1>1, <2>3 DEF Zenoh!TypeOK
  <2>5. \A d \in LinkCalls : call'[d] = "idle" => call[d] = "idle" /\ d # c
    BY <1>0, <1>1 DEF Zenoh!TypeOK
  <2>6. UNCHANGED <<serving, running, ran, declared, task>>
    BY <1>1
  <2>7. Zenoh!OnceInv'
    BY <1>0, <2>2, <2>3, <2>5, <2>6 DEF Zenoh!OnceInv
  <2>8. QED
    BY <2>4, <2>7 DEF Zenoh!IInv
<1>2. ASSUME NEW c \in LinkCalls, Zenoh!Cancel(c) \/ Zenoh!Unanswered(c) PROVE Zenoh!IInv'
  BY <1>0, <1>2 DEF Zenoh!Cancel, Zenoh!Unanswered, Zenoh!IInv, Zenoh!TypeOK, Zenoh!OnceInv,
     Zenoh!Queued
<1>3. ASSUME NEW c \in LinkCalls, Zenoh!RunCallback(c) PROVE Zenoh!IInv'
  <2>1. Zenoh!TypeOK'
    BY <1>0, <1>3 DEF Zenoh!TypeOK, Zenoh!RunCallback
  <2>2. c \in running /\ running' = running \ {c} /\ UNCHANGED <<call, queue, serving, task>>
        /\ \A d \in LinkCalls : d # c => ran'[d] = ran[d]
    BY <1>0, <1>3 DEF Zenoh!TypeOK, Zenoh!RunCallback
  <2>3. running \subseteq LinkCalls
    BY <1>0 DEF Zenoh!TypeOK
  <2>4. Zenoh!OnceInv'
    BY <1>0, <2>2, <2>3 DEF Zenoh!OnceInv, Zenoh!Queued
  <2>5. QED
    BY <2>1, <2>4 DEF Zenoh!IInv
<1>4. CASE Zenoh!Reject
  <2>1. queue # << >> /\ queue' = Tail(queue)
        /\ UNCHANGED <<call, serving, running, ran, declared, task>>
    BY <1>4 DEF Zenoh!Reject
  <2>2. Zenoh!TypeOK'
    BY <1>0, <2>1, TakeFirst DEF Zenoh!TypeOK
  <2>3. Zenoh!OnceInv'
    BY <1>0, <2>1, TakeFirst DEF Zenoh!OnceInv
  <2>4. QED
    BY <2>2, <2>3 DEF Zenoh!IInv
<1>5. CASE Zenoh!Take
  <2>1. queue # << >> /\ queue' = Tail(queue) /\ serving' = Head(queue) /\ task' = "calling"
        /\ running' = running \cup {serving'} /\ UNCHANGED <<call, ran, declared>>
    BY <1>5 DEF Zenoh!Take
  <2>2. PICK d \in LinkCalls : d = Head(queue)
    BY <2>1, TakeFirst
  <2>3. Zenoh!Queued(d) /\ call[d] # "idle" /\ ran[d] = "no"
    BY <1>0, <2>1, <2>2, TakeFirst DEF Zenoh!OnceInv
  <2>4. Zenoh!TypeOK'
    BY <1>0, <2>1, <2>2, TakeFirst DEF Zenoh!TypeOK
  <2>5. Zenoh!OnceInv'
    <3>1. task' = "calling" <=> serving' # NoCall
      BY <1>c, <2>1, <2>2
    <3>2. \A c \in LinkCalls : Zenoh!Queued(c)' => Zenoh!Queued(c) /\ c # d
      BY <2>1, <2>2, TakeFirst
    <3>3. \A i, j \in 1 .. Len(queue') : queue'[i] = queue'[j] => i = j
      BY <2>1, TakeFirst
    <3>4. running' = running \cup {d} /\ call' = call /\ ran' = ran
      BY <2>1, <2>2
    <3>5. QED
      BY <1>0, <2>3, <3>1, <3>2, <3>3, <3>4 DEF Zenoh!OnceInv
  <2>6. QED
    BY <2>4, <2>5 DEF Zenoh!IInv
<1>6. CASE Zenoh!Reply
  <2>1. UNCHANGED <<queue, running, ran, declared>> /\ task' = "receiving" /\ serving' = NoCall
    BY <1>6 DEF Zenoh!Reply
  <2>2. call' = call \/ Zenoh!Answer(serving)
    BY <1>6 DEF Zenoh!Reply
  <2>3. call' \in [LinkCalls -> {"idle", "waiting", "ok", "failed", "dropped"}]
        /\ \A c \in LinkCalls : call'[c] = "idle" => call[c] = "idle"
    BY <1>0, <2>2 DEF Zenoh!TypeOK, Zenoh!Answer
  <2>4. Zenoh!TypeOK'
    BY <1>0, <2>1, <2>3 DEF Zenoh!TypeOK
  <2>5. Zenoh!OnceInv'
    BY <1>0, <2>1, <2>3 DEF Zenoh!OnceInv, Zenoh!Queued
  <2>6. QED
    BY <2>4, <2>5 DEF Zenoh!IInv
<1>7. CASE Zenoh!DropServer
  BY <1>0, <1>7 DEF Zenoh!DropServer, Zenoh!IInv, Zenoh!TypeOK, Zenoh!OnceInv, Zenoh!Queued
<1>8. CASE Ended
  <2>1. queue' \in Seq(LinkCalls) /\ Len(queue') = 0
    BY <1>8 DEF Ended
  <2>2. Zenoh!TypeOK'
    BY <1>0, <1>8, <2>1 DEF Ended, Zenoh!TypeOK
  <2>3. Zenoh!OnceInv'
    BY <1>0, <1>8, <2>1 DEF Ended, Zenoh!OnceInv, Zenoh!Queued
  <2>4. QED
    BY <2>2, <2>3 DEF Zenoh!IInv
<1>9. CASE UNCHANGED queueVars
  BY <1>0, <1>9 DEF queueVars, Zenoh!IInv, Zenoh!TypeOK, Zenoh!OnceInv, Zenoh!Queued
<1>10. QED
  BY <1>1, <1>2, <1>3, <1>4, <1>5, <1>6, <1>7, <1>8, <1>9 DEF QueuedStep

(* The statuses of a call as the contract has them. *)
LEMMA QueuedStatuses ==
    /\ Zenoh!StatusOf("waiting") = "pending" /\ Zenoh!StatusOf("dropped") = "failed"
    /\ Zenoh!StatusOf("idle") = "idle" /\ Zenoh!StatusOf("ok") = "ok"
    /\ Zenoh!StatusOf("failed") = "failed"
BY DEF Zenoh!StatusOf

(* Every step of a service is a step of the contract, or none. *)
LEMMA QueuedContract ==
    ASSUME Zenoh!IInv, QueuedStep
    PROVE  [Zenoh!Contract!Next]_(Zenoh!Contract!vars)
<1>0. /\ call \in [LinkCalls -> {"idle", "waiting", "ok", "failed", "dropped"}]
      /\ ran \in [LinkCalls -> {"no", "result", "error"}]
      /\ serving \in LinkCalls \cup {NoCall} /\ Zenoh!OnceInv
  BY DEF Zenoh!IInv, Zenoh!TypeOK
<1>s. ASSUME NEW c \in LinkCalls, NEW t, call' = [call EXCEPT ![c] = t], ran' = ran
      PROVE  Zenoh!Contract!vars' =
                <<[[d \in LinkCalls |-> Zenoh!StatusOf(call[d])] EXCEPT ![c] = Zenoh!StatusOf(t)],
                  {d \in LinkCalls : ran[d] # "no"}>>
  BY <1>0, <1>s DEF Zenoh!Contract!vars
<1>1. ASSUME NEW c \in LinkCalls, Zenoh!Call(c) PROVE Zenoh!Contract!Begin(c)
  <2>1. call[c] = "idle" /\ ran' = ran /\ call' = [call EXCEPT ![c] = "waiting"]
    BY <1>1 DEF Zenoh!Call
  <2>2. QED
    BY <1>0, <1>s, <2>1, QueuedStatuses DEF Zenoh!Contract!Begin, Zenoh!Contract!vars
<1>2. ASSUME NEW c \in LinkCalls, Zenoh!Cancel(c) \/ Zenoh!Unanswered(c)
      PROVE  Zenoh!Contract!Fail(c)
  <2>1. call[c] = "waiting" /\ ran' = ran
        /\ (call' = [call EXCEPT ![c] = "dropped"] \/ call' = [call EXCEPT ![c] = "failed"])
    BY <1>2 DEF Zenoh!Cancel, Zenoh!Unanswered
  <2>2. QED
    BY <1>0, <1>s, <2>1, QueuedStatuses DEF Zenoh!Contract!Fail, Zenoh!Contract!vars
<1>3. ASSUME NEW c \in LinkCalls, Zenoh!RunCallback(c) PROVE Zenoh!Contract!Execute(c)
  <2>1. call' = call /\ ran[c] = "no" /\ call[c] # "idle"
    BY <1>0, <1>3 DEF Zenoh!RunCallback, Zenoh!OnceInv
  <2>2. PICK r \in {"result", "error"} : ran' = [ran EXCEPT ![c] = r]
    BY <1>3 DEF Zenoh!RunCallback
  <2>3. {d \in LinkCalls : ran'[d] # "no"} = {d \in LinkCalls : ran[d] # "no"} \cup {c}
    BY <1>0, <2>1, <2>2
  <2>4. Zenoh!StatusOf(call[c]) \notin {"idle", "refused"}
    BY <1>0, <2>1, QueuedStatuses
  <2>5. QED
    BY <2>1, <2>3, <2>4 DEF Zenoh!Contract!Execute
<1>4. CASE Zenoh!Reply
  <2>1. ran' = ran /\ serving \in LinkCalls /\ ran[serving] # "no"
    BY <1>0, <1>4 DEF Zenoh!Reply, Zenoh!OnceInv
  <2>2. CASE call' = call
    BY <2>1, <2>2 DEF Zenoh!Contract!vars
  <2>3. CASE call[serving] = "waiting" /\ Zenoh!Answer(serving)
    <3>1. call' = [call EXCEPT ![serving] = "ok"]
      BY <2>3 DEF Zenoh!Answer
    <3>2. Zenoh!Contract!Succeed(serving)
      BY <1>0, <1>s, <2>1, <2>3, <3>1, QueuedStatuses
         DEF Zenoh!Contract!Succeed, Zenoh!Contract!vars
    <3>3. QED
      BY <2>1, <3>2 DEF Zenoh!Contract!Next
  <2>4. CASE call[serving] # "waiting" /\ Zenoh!Answer(serving)
    <3>1. call' = call
      BY <1>0, <2>4 DEF Zenoh!Answer
    <3>2. QED
      BY <2>2, <3>1
  <2>5. QED
    BY <1>4, <2>2, <2>3, <2>4 DEF Zenoh!Reply
<1>5. CASE call' = call /\ ran' = ran
  BY <1>5 DEF Zenoh!Contract!vars
<1>6. QED
  BY <1>1, <1>2, <1>3, <1>4, <1>5
     DEF QueuedStep, Zenoh!Reject, Zenoh!Take, Zenoh!DropServer, Ended, queueVars,
         Zenoh!Contract!Next

(* Rosbridge, the ROS 1 link, the mock, and zenoh's and ROS 2's servers keep *)
(* the contract: at most one outcome for a call, and a result only of an     *)
(* execution.                                                                *)
THEOREM AllRefine == AnySpec => AllKeepContract
<1>1. AnySpec => Zenoh!KeepsContract
  <2>1. AnyInit => Zenoh!IInv /\ Zenoh!Contract!Init
    BY QueuedInit
  <2>2. Zenoh!IInv /\ [AnyNext]_allVars => Zenoh!IInv'
    BY QueuedSteps, QueuedKeeps
  <2>3. Zenoh!IInv /\ [AnyNext]_allVars => [Zenoh!Contract!Next]_(Zenoh!Contract!vars)
    BY QueuedSteps, QueuedContract
  <2>4. QED
    BY <2>1, <2>2, <2>3, PTL DEF AnySpec, Zenoh!KeepsContract, Zenoh!Contract!Spec
<1>2. QED
  BY <1>1, RosbridgeKeepsContract, LinkKeepsContract, MockKeepsContract, PTL DEF AllKeepContract

-----------------------------------------------------------------------------
(***************************************************************************)
(* Nobody is left behind: whoever waits has its request, its callback or   *)
(* its response with someone who is there to pass it on.                   *)
(***************************************************************************)

(* The link: what is queued stays so until the actor takes it, and neither *)
(* the actor nor the server goes without closing the connection.           *)
LEMMA LinkWaits ==
    ASSUME Link!IInv, Link!WaitInv, [Link!Next]_(Link!vars) PROVE Link!WaitInv'
<1> USE DEF Link!clientVars, Link!wireVars, Link!serverVars
<1>0. /\ linkCall \in [LinkCalls -> {"idle", "waiting", "ok", "error", "dropped"}]
      /\ linkQueue \in Seq(LinkCalls)
      /\ \A c \in LinkCalls : linkCall[c] = "waiting" => step # "aborted" /\ (Link!Queued(c) \/ actor = c)
      /\ linkServer = "gone" => broken
      /\ linkServer = "calling" => linkServing \in linkRunning
  BY DEF Link!IInv, Link!TypeOK, Link!WaitInv
<1>1. CASE UNCHANGED Link!vars
  BY <1>0, <1>1 DEF Link!vars, Link!WaitInv, Link!Queued
<1>2. ASSUME NEW c \in LinkCalls, Link!Call(c) PROVE Link!WaitInv'
  <2>1. /\ Len(linkQueue') = Len(linkQueue) + 1 /\ Len(linkQueue) \in Nat /\ linkQueue'[Len(linkQueue) + 1] = c
        /\ \A i \in 1 .. Len(linkQueue) : linkQueue'[i] = linkQueue[i]
    BY <1>0, <1>2 DEF Link!Call
  <2>2. \A d \in LinkCalls : Link!Queued(d) \/ d = c => Link!Queued(d)'
    BY <2>1 DEF Link!Queued
  <2>3. \A d \in LinkCalls : linkCall'[d] = "waiting" => d = c \/ linkCall[d] = "waiting"
    BY <1>0, <1>2 DEF Link!Call
  <2>4. QED
    BY <1>0, <1>2, <2>2, <2>3 DEF Link!Call, Link!WaitInv
<1>3. ASSUME NEW c \in LinkCalls, Link!GiveUp(c) PROVE Link!WaitInv'
  BY <1>0, <1>3 DEF Link!GiveUp, Link!WaitInv, Link!Queued
<1>4. CASE Link!DropClient
  BY <1>0, <1>4 DEF Link!DropClient, Link!WaitInv
<1>5. CASE Link!NextCall
  <2>1. /\ Len(linkQueue') = Len(linkQueue) - 1 /\ Len(linkQueue) \in Nat /\ Head(linkQueue) = linkQueue[1]
        /\ \A i \in 1 .. Len(linkQueue') : linkQueue'[i] = linkQueue[i + 1]
    BY <1>0, <1>5 DEF Link!NextCall
  <2>2. ASSUME NEW c \in LinkCalls, Link!Queued(c), c # Head(linkQueue) PROVE Link!Queued(c)'
    <3>1. PICK i \in 1 .. Len(linkQueue) : linkQueue[i] = c
      BY <2>2 DEF Link!Queued
    <3>2. i - 1 \in 1 .. Len(linkQueue') /\ linkQueue'[i - 1] = c
      BY <2>1, <2>2, <3>1
    <3>3. QED
      BY <3>2 DEF Link!Queued
  <2>3. \A c \in LinkCalls : actor # c \/ step # "free"
    BY PartsAssumption DEF Link!IInv, Link!LinkInv
  <2>4. QED
    BY <1>0, <1>5, <2>2, <2>3 DEF Link!NextCall, Link!WaitInv
<1>6. CASE Link!WriteRequest
  BY <1>0, <1>6 DEF Link!WriteRequest, Link!WaitInv, Link!Queued
<1>7. CASE Link!ReadResponse \/ Link!Fail
  <2>1. \A c \in LinkCalls : linkCall'[c] = "waiting" => linkCall[c] = "waiting" /\ c # actor
    BY <1>0, <1>7 DEF Link!ReadResponse, Link!Fail, Link!Answer
  <2>2. QED
    BY <1>0, <1>7, <2>1 DEF Link!ReadResponse, Link!Fail, Link!WaitInv, Link!Queued
<1>8. CASE Link!Break
  BY <1>0, <1>8 DEF Link!Break, Link!WaitInv, Link!Queued
<1>9. CASE Link!ReadRequest
  BY <1>0, <1>9 DEF Link!ReadRequest, Link!WaitInv, Link!Queued
<1>10. ASSUME NEW c \in LinkCalls, Link!RunCallback(c) PROVE Link!WaitInv'
  BY <1>0, <1>10 DEF Link!RunCallback, Link!WaitInv, Link!Queued
<1>11. CASE Link!WriteResponse
  BY <1>0, <1>11 DEF Link!WriteResponse, Link!WaitInv, Link!Queued
<1>12. CASE Link!ServerEnds
  BY <1>0, <1>12 DEF Link!ServerEnds, Link!WaitInv, Link!Queued
<1>13. QED
  BY <1>1, <1>2, <1>3, <1>4, <1>5, <1>6, <1>7, <1>8, <1>9, <1>10, <1>11, <1>12
  DEF Link!Next, Link!ActorStep, Link!ServerStep

(* Hence every caller's request is somewhere from where it goes on. *)
LEMMA LinkGoesOn == ASSUME Link!IInv, Link!WaitInv PROVE Link!NoOrphanedWait
<1> SUFFICES ASSUME NEW c \in LinkCalls, linkCall[c] = "waiting"
             PROVE  step # "aborted" /\ (Link!Queued(c) \/ (actor = c /\ Link!GoesOn(c)))
  BY DEF Link!NoOrphanedWait
<1>1. step # "aborted" /\ (Link!Queued(c) \/ actor = c)
  BY DEF Link!WaitInv
<1>2. ASSUME actor = c, step # "writing", ~ broken PROVE Link!GoesOn(c)
  <2>1. step = "reading" /\ Link!InFlight
    BY <1>1, <1>2, PartsAssumption DEF Link!IInv, Link!TypeOK, Link!LinkInv
  <2>2. linkServer = "calling" => linkServing \in linkRunning
    BY DEF Link!WaitInv
  <2>3. CASE linkServing = NoCall
    <3>1. linkServer = "reading"
      BY <1>2, <2>3 DEF Link!IInv, Link!TypeOK, Link!LinkInv, Link!WaitInv
    <3>2. QED
      BY <1>2, <2>1, <2>3, <3>1, PartsAssumption DEF Link!InFlight, Link!GoesOn
  <2>4. QED
    BY <1>2, <2>1, <2>2, <2>3 DEF Link!InFlight, Link!GoesOn
<1>3. QED
  BY <1>1, <1>2 DEF Link!GoesOn

(* The mock: RunCallback takes a callback out of the pool with its result. *)
LEMMA MockWaits ==
    ASSUME Mock!IInv, Mock!NoOrphanedWait, [Mock!Next]_(Mock!vars) PROVE Mock!NoOrphanedWait'
<1> USE DEF Mock!NoOrphanedWait, Mock!callVars, Mock!serverVars, Mock!Go
<1>0. Mock!TypeOK
  BY DEF Mock!IInv
<1>1. CASE UNCHANGED Mock!vars
  BY <1>1 DEF Mock!vars
<1>2. ASSUME NEW s \in Servers, Mock!CheckType(s) \/ Mock!Insert(s) PROVE Mock!NoOrphanedWait'
  BY <1>2 DEF Mock!CheckType, Mock!Insert
<1>3. ASSUME NEW c \in Calls,
             Mock!Call(c) \/ Mock!LookUp(c) \/ Mock!RunCallback(c) \/ Mock!Return(c) \/ Mock!Cancel(c)
      PROVE  Mock!NoOrphanedWait'
  BY <1>0, <1>3 DEF Mock!Call, Mock!LookUp, Mock!RunCallback, Mock!Return, Mock!Cancel, Mock!TypeOK
<1>4. CASE Mock!DropRos
  BY <1>4 DEF Mock!DropRos
<1>5. QED
  BY <1>1, <1>2, <1>3, <1>4 DEF Mock!Next, Mock!CallStep

(* The queue: a task that ends lets go of every query, and no query comes  *)
(* to a service that is not declared.                                      *)
LEMMA QueuedWaits ==
    ASSUME Zenoh!IInv, Zenoh!WaitInv, QueuedStep PROVE Zenoh!WaitInv'
<1>0. /\ Zenoh!TypeOK /\ (task = "calling" <=> serving # NoCall)
      /\ task = "gone" => queue = << >> /\ ~ declared
      /\ serving # NoCall => serving \in running \/ ran[serving] # "no"
  BY DEF Zenoh!IInv, Zenoh!OnceInv, Zenoh!WaitInv, Zenoh!NoOrphanedWait, Zenoh!TypeOK
<1> SUFFICES /\ (task = "gone" => queue = << >> /\ ~ declared)'
             /\ (task = "calling" <=> serving # NoCall)'
             /\ (serving # NoCall => serving \in running \/ ran[serving] # "no")'
  BY PartsAssumption, QueuedKeeps DEF Zenoh!WaitInv, Zenoh!NoOrphanedWait, Zenoh!Queued
<1>1. CASE UNCHANGED queueVars
  BY <1>0, <1>1 DEF queueVars
<1>2. ASSUME NEW c \in LinkCalls,
             Zenoh!Call(c) \/ Zenoh!Cancel(c) \/ Zenoh!RunCallback(c) \/ Zenoh!Unanswered(c)
      PROVE  /\ (task = "gone" => queue = << >> /\ ~ declared)'
             /\ (task = "calling" <=> serving # NoCall)'
             /\ (serving # NoCall => serving \in running \/ ran[serving] # "no")'
  BY <1>0, <1>2 DEF Zenoh!Call, Zenoh!Cancel, Zenoh!RunCallback, Zenoh!Unanswered, Zenoh!TypeOK
<1>3. CASE Zenoh!Reject \/ Zenoh!Reply \/ Zenoh!DropServer \/ Ended
  BY <1>0, <1>3 DEF Zenoh!Reject, Zenoh!Reply, Zenoh!DropServer, Ended
<1>4. CASE Zenoh!Take
  <2>1. Head(queue) \in LinkCalls
    BY <1>4, TakeFirst DEF Zenoh!Take
  <2>2. QED
    BY <1>0, <1>4, <2>1, PartsAssumption DEF Zenoh!Take
<1>5. QED
  BY <1>1, <1>2, <1>3, <1>4 DEF QueuedStep

(* Nobody waits at the start. *)
LEMMA NobodyWaits ==
    ASSUME AnyInit PROVE Link!WaitInv /\ Mock!NoOrphanedWait /\ Zenoh!WaitInv
<1>1. Link!WaitInv
  BY DEF AnyInit, Link!Init, Link!WaitInv
<1>2. Mock!NoOrphanedWait
  BY DEF AnyInit, Mock!Init, Mock!NoOrphanedWait
<1>3. Zenoh!WaitInv
  BY PartsAssumption DEF AnyInit, Zenoh!Init, Zenoh!WaitInv, Zenoh!NoOrphanedWait, Zenoh!Queued
<1>4. QED
  BY <1>1, <1>2, <1>3

(* In every part, whoever waits has its request, its callback or its response *)
(* with someone who is there to pass it on.                                   *)
THEOREM NobodyIsOrphaned == AnySpec => []NobodyOrphaned
<1> DEFINE I == /\ Link!IInv /\ Mock!IInv /\ Zenoh!IInv
               /\ Link!WaitInv /\ Mock!NoOrphanedWait /\ Zenoh!WaitInv
<1>1. AnyInit => I
  BY LinkInit, MockInit, QueuedInit, NobodyWaits DEF AnyInit
<1>2. I /\ [AnyNext]_allVars => I'
  <2> SUFFICES ASSUME I, [AnyNext]_allVars PROVE I'
    OBVIOUS
  <2>1. Link!IInv' /\ Link!WaitInv'
    BY LinkSteps, LinkStep, LinkWaits
  <2>2. Mock!IInv' /\ Mock!NoOrphanedWait'
    BY MockSteps, MockStep, MockWaits
  <2>3. Zenoh!IInv' /\ Zenoh!WaitInv'
    BY QueuedSteps, QueuedKeeps, QueuedWaits
  <2>4. QED
    BY <2>1, <2>2, <2>3
<1>3. I => Link!NoOrphanedWait /\ Mock!NoOrphanedWait /\ Zenoh!NoOrphanedWait
  BY LinkGoesOn DEF Zenoh!WaitInv
<1>4. AnySpec => []NoOrphanedWait
  BY NoCallIsStuck, PTL
<1>5. QED
  BY <1>1, <1>2, <1>3, <1>4, PTL DEF AnySpec, NobodyOrphaned

=============================================================================
