---------------------------- MODULE MockServices ----------------------------
(***************************************************************************)
(* One service name of MockRos: a map from the name to the callback that   *)
(* was registered last, and clients that look it up for each call.         *)
(*                                                                         *)
(* Source: roslibrust_mock/src/lib.rs (advertise_service, service_client,  *)
(* MockServiceClient::call).  A server has no handle: it is replaced, and  *)
(* never removed.  A client holds a weak reference to the map, a call in   *)
(* progress a strong one.                                                  *)
(***************************************************************************)
EXTENDS Naturals, ServiceConstants

CONSTANTS
    Servers,    \* calls of advertise_service
    Type,       \* the service type each names
    NoServer

VARIABLES
    call,       \* what the caller of each call knows
    callback,   \* the callback each call looked up
    running,    \* calls whose callback is in the pool of blocking threads
    ran,        \* those whose callback returned, and how
    store,      \* whose callback is in the map
    server,     \* how far each call of advertise_service is
    exists,     \* whether a MockRos exists
    outdated    \* servers that had been replaced when a call was made

callVars == <<call, callback, running, ran>>
serverVars == <<store, server>>
vars == <<callVars, serverVars, exists, outdated>>

TypeOK ==
    /\ call \in [Calls -> {"idle", "yielding", "serving", "ok", "failed", "refused", "dropped"}]
    /\ callback \in [Calls -> Servers \cup {NoServer}]
    /\ running \subseteq Calls
    /\ ran \in [Calls -> {"no", "result", "error"}]
    /\ store \in Servers \cup {NoServer}
    /\ server \in [Servers -> {"idle", "checked", "live", "replaced", "refused"}]
    /\ exists \in BOOLEAN
    /\ outdated \in [Calls -> SUBSET Servers]

Init ==
    /\ call = [c \in Calls |-> "idle"]
    /\ callback = [c \in Calls |-> NoServer]
    /\ running = {}
    /\ ran = [c \in Calls |-> "no"]
    /\ store = NoServer
    /\ server = [s \in Servers |-> "idle"]
    /\ exists = TRUE
    /\ outdated = [c \in Calls |-> {}]

-----------------------------------------------------------------------------
(***************************************************************************)
(* advertise_service                                                       *)
(***************************************************************************)

(* Under the read lock. *)
CheckType(s) ==
    /\ server[s] = "idle" /\ exists
    /\ server' = [server EXCEPT ![s] =
           IF store # NoServer /\ Type[store] # Type[s] THEN "refused" ELSE "checked"]
    /\ UNCHANGED <<callVars, store, exists, outdated>>

(* Mutation: a callback that is there stays. *)
InsertIfNone(s) ==
    /\ server[s] = "checked" /\ exists
    /\ store' = IF store = NoServer THEN s ELSE store
    /\ server' = [t \in Servers |->
           IF t = s THEN "live" ELSE IF t = store THEN "replaced" ELSE server[t]]
    /\ UNCHANGED <<callVars, exists, outdated>>

(* Under the write lock: whatever is there by then is replaced. *)
Insert(s) ==
    /\ server[s] = "checked" /\ exists
    /\ store' = s
    /\ server' = [t \in Servers |->
           IF t = s THEN "live" ELSE IF t = store THEN "replaced" ELSE server[t]]
    /\ UNCHANGED <<callVars, exists, outdated>>

(* The last clone of the MockRos is dropped, which no use of it outlives. *)
DropRos ==
    /\ exists
    /\ \A s \in Servers : server[s] # "checked"
    /\ exists' = FALSE
    /\ UNCHANGED <<callVars, serverVars, outdated>>

-----------------------------------------------------------------------------
(***************************************************************************)
(* MockServiceClient::call                                                 *)
(***************************************************************************)

Go(c, place) == call' = [call EXCEPT ![c] = place]

(* The map still exists while another call holds it. *)
StoreExists == exists \/ \E c \in Calls : call[c] \in {"yielding", "serving"}

(* Weak::upgrade, then the task yields. *)
Call(c) ==
    /\ call[c] = "idle"
    /\ Go(c, IF StoreExists THEN "yielding" ELSE "refused")
    /\ outdated' = [outdated EXCEPT ![c] = {s \in Servers : server[s] = "replaced"}]
    /\ UNCHANGED <<callback, running, ran, serverVars, exists>>

(* The callback is cloned under the read lock and handed to spawn_blocking. *)
LookUp(c) ==
    /\ call[c] = "yielding"
    /\ IF store = NoServer
         THEN Go(c, "refused") /\ UNCHANGED <<callback, running>>
         ELSE /\ Go(c, "serving")
              /\ callback' = [callback EXCEPT ![c] = store]
              /\ running' = running \cup {c}
    /\ UNCHANGED <<ran, serverVars, exists, outdated>>

(* It returns a response or an error, or panics; nothing else stops it. *)
RunCallback(c) ==
    /\ c \in running
    /\ running' = running \ {c}
    /\ \E result \in {"result", "error"} : ran' = [ran EXCEPT ![c] = result]
    /\ UNCHANGED <<call, callback, serverVars, exists, outdated>>

Return(c) ==
    /\ call[c] = "serving" /\ ran[c] # "no"
    /\ Go(c, IF ran[c] = "result" THEN "ok" ELSE "failed")
    /\ UNCHANGED <<callback, running, ran, serverVars, exists, outdated>>

(* The caller drops the future; the callback is not stopped. *)
Cancel(c) ==
    /\ c \in Cancellable
    /\ call[c] \in {"yielding", "serving"}
    /\ Go(c, "dropped")
    /\ UNCHANGED <<callback, running, ran, serverVars, exists, outdated>>

-----------------------------------------------------------------------------

CallStep(c) == LookUp(c) \/ RunCallback(c) \/ Return(c)

Next ==
    \/ \E s \in Servers : CheckType(s) \/ Insert(s)
    \/ \E c \in Calls : Call(c) \/ CallStep(c) \/ Cancel(c)
    \/ DropRos

(* Tasks run, and callbacks return. *)
Fairness == \A c \in Calls : WF_vars(CallStep(c))

Spec == Init /\ [][Next]_vars /\ Fairness

-----------------------------------------------------------------------------
(* A call is served by the most recently registered server, never by one     *)
(* that had been replaced before the call was made ("look up the most        *)
(* recently registered service server").                                     *)
NewestServes == \A c \in Calls : callback[c] \notin outdated[c]

(* What makes it inductive: the callback in the map is that of the newest    *)
(* server, and who was replaced stays so.                                    *)
ServerInv ==
    /\ store # NoServer => server[store] = "live"
    /\ \A c \in Calls : \A s \in outdated[c] : server[s] = "replaced"

(* And KeepsContract: a callback runs once, and only for a call under way.   *)
CallInv == \A c \in Calls :
    /\ call[c] \in {"idle", "yielding", "refused"} => c \notin running /\ ran[c] = "no"
    /\ call[c] \in {"idle", "yielding"} => callback[c] = NoServer
    /\ c \in running => ran[c] = "no"

IInv == TypeOK /\ ServerInv /\ CallInv /\ NewestServes

(* A call that was handed to the pool has its callback there, or returned.   *)
NoOrphanedWait == \A c \in Calls : call[c] = "serving" => c \in running \/ ran[c] # "no"

(* A call that nobody drops returns.                                         *)
CallReturns ==
    \A c \in Calls \ Cancellable : (call[c] = "yielding") ~> (call[c] \in {"ok", "failed", "refused"})

(***************************************************************************)
(* Refinement: the mock keeps the contract of ServiceCall.                 *)
(***************************************************************************)
StatusOf(s) ==
    CASE s \in {"yielding", "serving"} -> "pending"
      [] s = "dropped" -> "failed"
      [] OTHER -> s

Contract == INSTANCE ServiceCall WITH
    status <- [c \in Calls |-> StatusOf(call[c])],
    executed <- {c \in Calls : ran[c] # "no"}

(* Every behaviour of the mock is one the contract allows. *)
KeepsContract == Contract!Spec

=============================================================================
