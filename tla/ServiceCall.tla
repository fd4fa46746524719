---------------------------- MODULE ServiceCall ----------------------------
(***************************************************************************)
(* What a remote service call promises its caller, whatever the transport: *)
(*   - the service executes a request at most once: a call is never sent   *)
(*     again behind the caller's back, in particular not by a reconnect;   *)
(*   - "ok" is returned only for a request the service has executed;       *)
(*   - a call that was refused (Error::Disconnected, or a write the        *)
(*     connection rejected) is never executed, so it is safe to retry;     *)
(*   - a call that failed may or may not have been, or still be, executed; *)
(*   - a call returns once.                                                *)
(***************************************************************************)
CONSTANT Calls

VARIABLES
    status,     \* what the caller of each call knows
    executed    \* the calls the service has executed

vars == <<status, executed>>

Init ==
    /\ status = [c \in Calls |-> "idle"]
    /\ executed = {}

Begin(c) ==
    /\ status[c] = "idle"
    /\ status' = [status EXCEPT ![c] = "pending"]
    /\ UNCHANGED executed

Refuse(c) ==
    /\ status[c] \in {"idle", "pending"}
    /\ c \notin executed
    /\ status' = [status EXCEPT ![c] = "refused"]
    /\ UNCHANGED executed

Execute(c) ==
    /\ status[c] \notin {"idle", "refused"}
    /\ c \notin executed
    /\ executed' = executed \cup {c}
    /\ UNCHANGED status

Succeed(c) ==
    /\ status[c] = "pending"
    /\ c \in executed
    /\ status' = [status EXCEPT ![c] = "ok"]
    /\ UNCHANGED executed

Fail(c) ==
    /\ status[c] = "pending"
    /\ status' = [status EXCEPT ![c] = "failed"]
    /\ UNCHANGED executed

Next == \E c \in Calls : Begin(c) \/ Refuse(c) \/ Execute(c) \/ Succeed(c) \/ Fail(c)

Spec == Init /\ [][Next]_vars

=============================================================================
