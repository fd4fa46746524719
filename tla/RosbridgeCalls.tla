--------------------------- MODULE RosbridgeCalls ---------------------------
(***************************************************************************)
(* Service calls of the rosbridge client across connection loss.           *)
(*                                                                         *)
(* Source: roslibrust_rosbridge/src/client.rs.  Any number of tasks run    *)
(* ClientHandle::call_service against one shared Client, while the single  *)
(* stubborn_spin task reads the websocket, hands responses to the waiting  *)
(* calls and, when the connection fails, clears the table of calls in      *)
(* flight and reconnects.  The tasks share:                                *)
(*   - the outer tokio RwLock<Client>: a call reads it, reconnect writes   *)
(*     it.  Tokio queues lock requests first come first served, so a       *)
(*     reader that asks while the spin task waits for or holds the write   *)
(*     half is queued, and is handed its guard when that half is dropped;  *)
(*   - the inner lock on the websocket's sink (client.writer);             *)
(*   - service_calls, the map from call id to oneshot sender, which        *)
(*     callers also reach through an Arc without the outer lock;           *)
(*   - the flag is_disconnected, read and written without any lock.        *)
(* Call ids are fresh uuids: a call is identified with its id.             *)
(***************************************************************************)
EXTENDS Naturals, ServiceConstants

CONSTANTS
    HasTimeout,   \* whether ClientHandleOptions::timeout is set
    MaxConn       \* bound: how many connections the server accepts

ASSUME CallsAssumption == CallsConstants

VARIABLES
    pc,              \* where each call is in call_service
    outcome,         \* what call_service returned
    rx,              \* the call's oneshot channel, seen from its receiver
    service_calls,   \* ids whose sender is in the map
    writer,          \* the call that holds client.writer, or NoCall
    spin,            \* where the spin task is
    is_disconnected,
    conn,            \* number of the current websocket connection
    alive,           \* whether that connection still carries messages
    sentOn,          \* the connection each request was written to (0: none)
    wire,            \* requests the server has received and not yet executed
    served,          \* requests the server has executed
    replies          \* responses the spin task can still read

callVars == <<pc, outcome, rx, writer>>
connVars == <<spin, is_disconnected, conn, alive>>
serverVars == <<wire, served>>
vars == <<pc, outcome, rx, service_calls, writer, spin, is_disconnected,
          conn, alive, sentOn, wire, served, replies>>

ReadHeld == {"granted", "rechecked", "tracked", "sending"}

Readers == {c \in Calls : pc[c] \in ReadHeld}

WriteHeld == spin \in {"connecting", "resending"}

WritePending == spin = "wantWrite"

(* Dropping the write half hands the read half to everybody queued. *)
GrantQueued == [c \in Calls |-> IF pc[c] = "queued" THEN "granted" ELSE pc[c]]

PcStates == {"idle", "checked", "queued", "waiting", "expired", "done"} \cup ReadHeld

Outcomes == {"none", "ok", "disconnected", "sendError", "sendTimeout", "timeout",
             "reset", "cancelled"}

RxStates == {"open", "value", "closed", "dropped"}

SpinStates == {"spin", "flagged", "wantWrite", "connecting", "resending",
               "reconnected", "exited"}

TypeOK ==
    /\ pc \in [Calls -> PcStates]
    /\ outcome \in [Calls -> Outcomes]
    /\ rx \in [Calls -> RxStates]
    /\ service_calls \subseteq Calls
    /\ writer \in Calls \cup {NoCall}
    /\ spin \in SpinStates
    /\ is_disconnected \in BOOLEAN
    /\ conn \in Nat
    /\ alive \in BOOLEAN
    /\ sentOn \in [Calls -> Nat]
    /\ wire \subseteq Calls
    /\ served \subseteq Calls
    /\ replies \subseteq Calls

Init ==
    /\ pc = [c \in Calls |-> "idle"]
    /\ outcome = [c \in Calls |-> "none"]
    /\ rx = [c \in Calls |-> "open"]
    /\ service_calls = {}
    /\ writer = NoCall
    /\ spin = "spin"
    /\ is_disconnected = FALSE
    /\ conn = 1
    /\ alive = TRUE
    /\ sentOn = [c \in Calls |-> 0]
    /\ wire = {}
    /\ served = {}
    /\ replies = {}

-----------------------------------------------------------------------------
(***************************************************************************)
(* call_service                                                            *)
(***************************************************************************)

Return(c, o) ==
    /\ pc' = [pc EXCEPT ![c] = "done"]
    /\ outcome' = [outcome EXCEPT ![c] = o]

(* First check_for_disconnect, before any lock. *)
Call(c) ==
    /\ pc[c] = "idle"
    /\ spin # "exited"
    /\ IF is_disconnected
         THEN Return(c, "disconnected")
         ELSE pc' = [pc EXCEPT ![c] = "checked"] /\ UNCHANGED outcome
    /\ UNCHANGED <<rx, service_calls, writer, connVars, sentOn, serverVars, replies>>

(* inner.read().await: granted at once, or queued behind the writer. *)
LockClient(c) ==
    /\ pc[c] = "checked"
    /\ pc' = [pc EXCEPT ![c] = IF WriteHeld \/ WritePending THEN "queued" ELSE "granted"]
    /\ UNCHANGED <<outcome, rx, service_calls, writer, connVars, sentOn, serverVars, replies>>

(* Second check_for_disconnect, with the read half held. *)
Recheck(c) ==
    /\ pc[c] = "granted"
    /\ IF is_disconnected
         THEN Return(c, "disconnected")
         ELSE pc' = [pc EXCEPT ![c] = "rechecked"] /\ UNCHANGED outcome
    /\ UNCHANGED <<rx, service_calls, writer, connVars, sentOn, serverVars, replies>>

(* service_calls.insert(id, tx). *)
Track(c) ==
    /\ pc[c] = "rechecked"
    /\ pc' = [pc EXCEPT ![c] = "tracked"]
    /\ service_calls' = service_calls \cup {c}
    /\ UNCHANGED <<outcome, rx, writer, connVars, sentOn, serverVars, replies>>

(* client.writer.write().await. *)
TakeWriter(c) ==
    /\ pc[c] = "tracked"
    /\ writer = NoCall
    /\ writer' = c
    /\ pc' = [pc EXCEPT ![c] = "sending"]
    /\ UNCHANGED <<outcome, rx, service_calls, connVars, sentOn, serverVars, replies>>

(* What reaches the server: nothing once the connection is gone. *)
PutOnWire(c) ==
    /\ sentOn' = [sentOn EXCEPT ![c] = conn]
    /\ wire' = IF alive THEN wire \cup {c} ELSE wire

(***************************************************************************)
(* comm.call_service returns Ok and both locks are dropped.  Writing to a  *)
(* connection whose loss has not surfaced yet also returns Ok.             *)
(***************************************************************************)
SendRequest(c) ==
    /\ pc[c] = "sending"
    /\ PutOnWire(c)
    /\ pc' = [pc EXCEPT ![c] = "waiting"]
    /\ writer' = NoCall
    /\ UNCHANGED <<outcome, rx, service_calls, connVars, served, replies>>

(* comm.call_service returns Err: the call stops being tracked. *)
SendFails(c) ==
    /\ pc[c] = "sending"
    /\ ~alive
    /\ service_calls' = service_calls \ {c}
    /\ writer' = NoCall
    /\ Return(c, "sendError")
    /\ UNCHANGED <<rx, connVars, sentOn, serverVars, replies>>

(* Mutation: a write that timed out is reported as one that never happened. *)
SendTimesOutAsFailed(c) ==
    /\ HasTimeout
    /\ pc[c] = "sending"
    /\ \/ PutOnWire(c)
       \/ UNCHANGED <<sentOn, wire>>
    /\ service_calls' = service_calls \ {c}
    /\ writer' = NoCall
    /\ Return(c, "sendError")
    /\ UNCHANGED <<rx, connVars, served, replies>>

(***************************************************************************)
(* opts.timeout elapses while the request is written.  The message may     *)
(* already have been handed to the sink, which sends it later.             *)
(***************************************************************************)
SendTimesOut(c) ==
    /\ HasTimeout
    /\ pc[c] = "sending"
    /\ \/ PutOnWire(c)
       \/ UNCHANGED <<sentOn, wire>>
    /\ service_calls' = service_calls \ {c}
    /\ writer' = NoCall
    /\ Return(c, "sendTimeout")
    /\ UNCHANGED <<rx, connVars, served, replies>>

(* rx resolves with the response's values. *)
Receive(c) ==
    /\ pc[c] = "waiting"
    /\ rx[c] = "value"
    /\ Return(c, "ok")
    /\ UNCHANGED <<rx, service_calls, writer, connVars, sentOn, serverVars, replies>>

(* rx resolves with an error: the sender was dropped. *)
Reset(c) ==
    /\ pc[c] = "waiting"
    /\ rx[c] = "closed"
    /\ Return(c, "reset")
    /\ UNCHANGED <<rx, service_calls, writer, connVars, sentOn, serverVars, replies>>

(* tokio::time::timeout polls rx, finds nothing and gives up on it. *)
Expire(c) ==
    /\ HasTimeout
    /\ pc[c] = "waiting"
    /\ rx[c] = "open"
    /\ rx' = [rx EXCEPT ![c] = "dropped"]
    /\ pc' = [pc EXCEPT ![c] = "expired"]
    /\ UNCHANGED <<outcome, service_calls, writer, connVars, sentOn, serverVars, replies>>

(* Mutation: a timed out call stays tracked. *)
ForgetNothing(c) ==
    /\ pc[c] = "expired"
    /\ Return(c, "timeout")
    /\ UNCHANGED <<rx, service_calls, writer, connVars, sentOn, serverVars, replies>>

(* service_calls.remove(id), so that a late response is discarded. *)
Forget(c) ==
    /\ pc[c] = "expired"
    /\ service_calls' = service_calls \ {c}
    /\ Return(c, "timeout")
    /\ UNCHANGED <<rx, writer, connVars, sentOn, serverVars, replies>>

(***************************************************************************)
(* The caller drops the future at an await, as list_services does when its *)
(* own timeout elapses: guards and receiver are dropped, nothing else runs.*)
(***************************************************************************)
Cancel(c) ==
    /\ c \in Cancellable
    /\ pc[c] \in {"queued", "granted", "tracked", "sending", "waiting"}
    /\ \/ pc[c] = "sending" /\ PutOnWire(c)
       \/ UNCHANGED <<sentOn, wire>>
    /\ writer' = IF writer = c THEN NoCall ELSE writer
    /\ rx' = [rx EXCEPT ![c] = "dropped"]
    /\ Return(c, "cancelled")
    /\ UNCHANGED <<service_calls, connVars, served, replies>>

-----------------------------------------------------------------------------
(***************************************************************************)
(* The server and the network.                                             *)
(***************************************************************************)

(* The response travels on the connection the request came on. *)
Serve(c) ==
    /\ c \in wire
    /\ wire' = wire \ {c}
    /\ served' = served \cup {c}
    /\ replies' = IF alive /\ sentOn[c] = conn THEN replies \cup {c} ELSE replies
    /\ UNCHANGED <<callVars, service_calls, connVars, sentOn>>

(* The websocket dies or the server closes it. *)
Disconnect ==
    /\ alive
    /\ conn < MaxConn
    /\ alive' = FALSE
    /\ UNCHANGED <<callVars, service_calls, spin, is_disconnected, conn, sentOn,
                   serverVars, replies>>

-----------------------------------------------------------------------------
(***************************************************************************)
(* stubborn_spin                                                           *)
(***************************************************************************)

(* Dropping the senders of the calls in s wakes their receivers. *)
DropSenders(s) ==
    rx' = [c \in Calls |-> IF c \in s /\ rx[c] = "open" THEN "closed" ELSE rx[c]]

(* spin_once reads a response; handle_response removes the call, then sends. *)
HandleResponse(c) ==
    /\ spin = "spin"
    /\ c \in replies
    /\ replies' = replies \ {c}
    /\ service_calls' = service_calls \ {c}
    /\ rx' = [rx EXCEPT ![c] = IF c \in service_calls /\ rx[c] = "open"
                                 THEN "value" ELSE rx[c]]
    /\ UNCHANGED <<pc, outcome, writer, connVars, sentOn, serverVars>>

(* spin_once returns Err: the flag is set before anything is cleaned up. *)
ReadFails ==
    /\ spin = "spin"
    /\ ~alive
    /\ spin' = "flagged"
    /\ is_disconnected' = TRUE
    /\ UNCHANGED <<callVars, service_calls, conn, alive, sentOn, serverVars, replies>>

(* client.read().await.service_calls.clear(), then write() is requested. *)
ClearCalls ==
    /\ spin = "flagged"
    /\ DropSenders(service_calls)
    /\ service_calls' = {}
    /\ spin' = "wantWrite"
    /\ UNCHANGED <<pc, outcome, writer, is_disconnected, conn, alive, sentOn,
                   serverVars, replies>>

(* Mutation: reconnect relies on the first clear. *)
BeginReconnectNoClear ==
    /\ spin = "wantWrite"
    /\ Readers = {}
    /\ spin' = "connecting"
    /\ UNCHANGED <<callVars, service_calls, is_disconnected, conn, alive, sentOn,
                   serverVars, replies>>

(* The write half is granted; reconnect clears the calls a second time. *)
BeginReconnect ==
    /\ spin = "wantWrite"
    /\ Readers = {}
    /\ DropSenders(service_calls)
    /\ service_calls' = {}
    /\ spin' = "connecting"
    /\ UNCHANGED <<pc, outcome, writer, is_disconnected, conn, alive, sentOn,
                   serverVars, replies>>

(* stubborn_connect succeeds: a fresh reader and a fresh writer. *)
Connect ==
    /\ spin = "connecting"
    /\ conn' = conn + 1
    /\ alive' = TRUE
    /\ replies' = {}
    /\ spin' = "resending"
    /\ UNCHANGED <<callVars, service_calls, is_disconnected, sentOn, serverVars>>

(* Everything re-sent: reconnect returns Ok and the write half is dropped. *)
Resent ==
    /\ spin = "resending"
    /\ spin' = "reconnected"
    /\ pc' = GrantQueued
    /\ UNCHANGED <<outcome, rx, writer, service_calls, is_disconnected, conn, alive,
                   sentOn, serverVars, replies>>

(***************************************************************************)
(* A re-send fails: the guard is dropped after the pause, those queued     *)
(* meanwhile are served first, and the write half is requested again.      *)
(***************************************************************************)
ResendFails ==
    /\ spin = "resending"
    /\ ~alive
    /\ spin' = "wantWrite"
    /\ pc' = GrantQueued
    /\ UNCHANGED <<outcome, rx, writer, service_calls, is_disconnected, conn, alive,
                   sentOn, serverVars, replies>>

MarkConnected ==
    /\ spin = "reconnected"
    /\ is_disconnected' = FALSE
    /\ spin' = "spin"
    /\ UNCHANGED <<callVars, service_calls, conn, alive, sentOn, serverVars, replies>>

(* The last ClientHandle is gone: the Weak pointer no longer upgrades. *)
Exit ==
    /\ spin = "spin"
    /\ \A c \in Calls : pc[c] \in {"idle", "done"}
    /\ spin' = "exited"
    /\ UNCHANGED <<callVars, service_calls, is_disconnected, conn, alive, sentOn,
                   serverVars, replies>>

(* Nothing is left to do once the client is dropped. *)
Stopped ==
    /\ spin = "exited"
    /\ UNCHANGED vars

-----------------------------------------------------------------------------
CallStep(c) ==
    \/ Call(c) \/ LockClient(c) \/ Recheck(c) \/ Track(c) \/ TakeWriter(c)
    \/ SendRequest(c) \/ SendFails(c) \/ SendTimesOut(c)
    \/ Receive(c) \/ Reset(c) \/ Expire(c) \/ Forget(c) \/ Cancel(c)

SpinStep ==
    \/ \E c \in Calls : HandleResponse(c)
    \/ ReadFails \/ ClearCalls \/ BeginReconnect \/ Connect
    \/ Resent \/ ResendFails \/ MarkConnected \/ Exit

Next ==
    \/ \E c \in Calls : CallStep(c) \/ Serve(c)
    \/ SpinStep
    \/ Disconnect
    \/ Stopped

Spec == Init /\ [][Next]_vars

(***************************************************************************)
(* The runtime polls every task that can run.  Nothing is assumed of the   *)
(* user (Call, Cancel, Exit), of the network (Disconnect) or of the        *)
(* service (Serve), nor that a call's timeout is ever reached: a property  *)
(* that takes it has TimersFire as a hypothesis.                           *)
(***************************************************************************)
CallFairness(c) ==
    /\ WF_vars(LockClient(c) \/ Recheck(c) \/ Track(c) \/ TakeWriter(c))
    /\ WF_vars(SendRequest(c) \/ SendFails(c) \/ SendTimesOut(c))
    /\ WF_vars(Receive(c) \/ Reset(c) \/ Forget(c))

SpinFairness ==
    /\ WF_vars(\E c \in Calls : HandleResponse(c))
    /\ WF_vars(ReadFails \/ ClearCalls \/ BeginReconnect \/ Resent \/ ResendFails
               \/ MarkConnected)

TimersFire == \A c \in Calls : WF_vars(Expire(c))

FairSpec == Spec /\ SpinFairness /\ \A c \in Calls : CallFairness(c)

(* A server that lets a client reconnect. *)
ReachableSpec == FairSpec /\ WF_vars(Connect)

-----------------------------------------------------------------------------
(***************************************************************************)
(* Properties                                                              *)
(***************************************************************************)

(***************************************************************************)
(* A response always finds its call: from before the request can be on the *)
(* wire until the call is resolved, its sender is in the map.  (The insert *)
(* precedes the send, and every removal resolves the call.)                *)
(***************************************************************************)
ReplyFindsCall ==
    \A c \in Calls :
        pc[c] \in {"tracked", "sending", "waiting"} /\ rx[c] = "open" => c \in service_calls

(***************************************************************************)
(* No call waits for an answer that can no longer come: while a connection *)
(* is up, an unresolved call was written to that very connection, and its  *)
(* request is with the server or its response is on the way.  A call that  *)
(* passed the flag check just before the loss must therefore be swept out  *)
(* by one of the two clears.                                               *)
(***************************************************************************)
NoOrphanedWait ==
    \A c \in Calls :
        (alive /\ pc[c] = "waiting" /\ rx[c] = "open")
            => sentOn[c] = conn /\ c \in wire \cup replies

(***************************************************************************)
(* A finished call leaves no entry behind, whatever order its timeout, its *)
(* response and the loss of the connection came in ("so a late response is *)
(* discarded instead of accumulating in the map").                         *)
(***************************************************************************)
NoAbandonedEntry ==
    \A c \in Calls \ Cancellable : pc[c] = "done" => c \notin service_calls

(***************************************************************************)
(* Whatever the caller did with the future, no entry outlives the          *)
(* connection it was made on: when the client is connected again, only     *)
(* calls of the new connection are tracked.                                *)
(***************************************************************************)
NoStaleEntry ==
    alive => \A c \in service_calls : sentOn[c] \in {0, conn}

(* With a timeout configured and a reachable server every call returns. *)
EveryCallReturns ==
    HasTimeout /\ TimersFire => \A c \in Calls : (pc[c] = "checked") ~> (pc[c] = "done")

-----------------------------------------------------------------------------
(***************************************************************************)
(* The inductive invariant behind the safety properties.                   *)
(***************************************************************************)
BeforeSend == {"idle", "checked", "queued"} \cup ReadHeld

(* The locks exclude: reconnect runs alone, one call uses the sink. *)
LockInv ==
    /\ WriteHeld => Readers = {}
    /\ \A c \in Calls : pc[c] = "sending" <=> writer = c

(* Who may have an entry, and when the table is known to be empty. *)
TableInv ==
    /\ \A c \in service_calls :
          \/ pc[c] \in {"tracked", "sending", "waiting", "expired"}
          \/ pc[c] = "done" /\ c \in Cancellable
    /\ \A c \in service_calls : rx[c] \in {"open", "dropped"}
    /\ \A c \in Calls : pc[c] \in BeforeSend \ {"tracked", "sending"} => rx[c] = "open"
    /\ WriteHeld => service_calls = {}

(* The spin task cleans up and reconnects only when the connection is lost. *)
SpinInv ==
    spin \in {"flagged", "wantWrite", "connecting"} => ~alive

(* Requests, executions and responses agree with where the calls are. *)
TrafficInv ==
    /\ \A c \in Calls : pc[c] \in BeforeSend => sentOn[c] = 0 /\ c \notin wire \cup served
    /\ replies \subseteq served
    /\ \A c \in wire : c \notin served
    /\ \A c \in Calls : rx[c] = "value" => c \in served
    /\ \A c \in Calls : outcome[c] = "none" <=> pc[c] # "done"
    /\ \A c \in Calls :
          outcome[c] \in {"disconnected", "sendError"} => c \notin wire \cup served

IInv ==
    /\ TypeOK
    /\ LockInv
    /\ TableInv
    /\ SpinInv
    /\ TrafficInv
    /\ ReplyFindsCall
    /\ NoOrphanedWait
    /\ NoStaleEntry

-----------------------------------------------------------------------------
(***************************************************************************)
(* Refinement: call_service keeps the contract of ServiceCall.             *)
(***************************************************************************)
StatusOf(p, o) ==
    CASE o = "ok" -> "ok"
      [] o \in {"disconnected", "sendError"} -> "refused"
      [] o = "none" -> IF p = "idle" THEN "idle" ELSE "pending"
      [] OTHER -> "failed"

status == [c \in Calls |-> StatusOf(pc[c], outcome[c])]

Contract == INSTANCE ServiceCall WITH executed <- served

(* Every behaviour of the client is one the contract allows. *)
KeepsContract == Contract!Spec

=============================================================================
