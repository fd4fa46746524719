-------------------------- MODULE Ros1ServiceLink --------------------------
(***************************************************************************)
(* Calls of a ROS 1 service over the persistent TCP connection of one      *)
(* ServiceClient: the callers, the actor that owns the connection, and the *)
(* task of the server that reads requests from it and runs the callback.   *)
(*                                                                         *)
(* Source: roslibrust_ros1/src/service_client.rs (ServiceClient::call,     *)
(* actor_context, handle_service_call) and service_server.rs               *)
(* (handle_tcp_connection).  Requests and responses carry no identifier:   *)
(* that a response belongs to a call follows from the order on the         *)
(* connection alone.  A caller may give its call up at any time, the       *)
(* service may be unadvertised, and the connection may break.              *)
(***************************************************************************)
EXTENDS Naturals, Sequences, ServiceConstants

VARIABLES
    call,       \* what the caller of each call knows
    queue,      \* requests sent to the actor
    actor,      \* the call the actor works on, or NoCall
    step,       \* what the actor does
    broken,     \* whether the connection is broken
    requests,   \* requests on the connection
    responses,  \* responses on the connection
    server,     \* what the server's task of the connection does
    serving,    \* the call it works on
    running,    \* calls whose callback is in the pool of blocking threads
    runs        \* how often the callback ran for each call

clientVars == <<call, queue, actor, step>>
wireVars == <<broken, requests, responses>>
serverVars == <<server, serving, running, runs>>
vars == <<clientVars, wireVars, serverVars>>

Response == [of : Calls, ok : BOOLEAN]

TypeOK ==
    /\ call \in [Calls -> {"idle", "waiting", "ok", "error", "dropped"}]
    /\ queue \in Seq(Calls)
    /\ actor \in Calls \cup {NoCall}
    /\ step \in {"free", "writing", "reading", "aborted"}
    /\ broken \in BOOLEAN
    /\ requests \in Seq(Calls)
    /\ responses \in Seq(Response)
    /\ server \in {"reading", "calling", "answering", "gone"}
    /\ serving \in Calls \cup {NoCall}
    /\ running \in SUBSET Calls
    /\ runs \in [Calls -> Nat]

Init ==
    /\ call = [c \in Calls |-> "idle"]
    /\ queue = << >>
    /\ actor = NoCall /\ step = "free"
    /\ broken = FALSE
    /\ requests = << >> /\ responses = << >>
    /\ server = "reading" /\ serving = NoCall
    /\ running = {}
    /\ runs = [c \in Calls |-> 0]

-----------------------------------------------------------------------------
(***************************************************************************)
(* The callers                                                             *)
(***************************************************************************)

Call(c) ==
    /\ call[c] = "idle" /\ step # "aborted"
    /\ call' = [call EXCEPT ![c] = "waiting"]
    /\ queue' = Append(queue, c)
    /\ UNCHANGED <<actor, step, wireVars, serverVars>>

(* The future of the call is dropped; its request stays where it is. *)
GiveUp(c) ==
    /\ c \in Cancellable
    /\ call[c] = "waiting"
    /\ call' = [call EXCEPT ![c] = "dropped"]
    /\ UNCHANGED <<queue, actor, step, wireVars, serverVars>>

(* The last clone of the ServiceClient goes, which no call outlives: the *)
(* actor is aborted wherever it is, and the connection closed.           *)
DropClient ==
    /\ step # "aborted"
    /\ \A c \in Calls : call[c] # "waiting"
    /\ step' = "aborted"
    /\ actor' = NoCall
    /\ queue' = << >>
    /\ broken' = TRUE
    /\ UNCHANGED <<call, requests, responses, serverVars>>

-----------------------------------------------------------------------------
(***************************************************************************)
(* The actor: one call at a time                                           *)
(***************************************************************************)

NextCall ==
    /\ step = "free" /\ queue # << >>
    /\ actor' = Head(queue)
    /\ queue' = Tail(queue)
    /\ step' = "writing"
    /\ UNCHANGED <<call, wireVars, serverVars>>

WriteRequest ==
    /\ step = "writing" /\ ~ broken
    /\ requests' = Append(requests, actor)
    /\ step' = "reading"
    /\ UNCHANGED <<call, queue, actor, broken, responses, serverVars>>

(* The oneshot of a caller that gave up does not take the result. *)
Answer(c, result) ==
    call' = IF call[c] = "waiting" THEN [call EXCEPT ![c] = result] ELSE call

(* Mutation: a call that nobody waits for is not read for. *)
ReadForWaiting ==
    /\ step = "reading"
    /\ IF call[actor] = "waiting"
         THEN /\ responses # << >>
              /\ Answer(actor, IF Head(responses).ok THEN "ok" ELSE "error")
              /\ responses' = Tail(responses)
         ELSE UNCHANGED <<call, responses>>
    /\ step' = "free"
    /\ actor' = NoCall
    /\ UNCHANGED <<queue, broken, requests, serverVars>>

ReadResponse ==
    /\ step = "reading" /\ responses # << >>
    /\ Answer(actor, IF Head(responses).ok THEN "ok" ELSE "error")
    /\ responses' = Tail(responses)
    /\ step' = "free"
    /\ actor' = NoCall
    /\ UNCHANGED <<queue, broken, requests, serverVars>>

(* A write or a read fails: the call does, and the actor goes on to the next *)
(* one with the same connection.                                             *)
Fail ==
    /\ broken
    /\ step = "writing" \/ (step = "reading" /\ responses = << >>)
    /\ Answer(actor, "error")
    /\ step' = "free"
    /\ actor' = NoCall
    /\ UNCHANGED <<queue, wireVars, serverVars>>

-----------------------------------------------------------------------------
(***************************************************************************)
(* The connection, and the server's task for it                            *)
(***************************************************************************)

(* What was under way is lost. *)
Break ==
    /\ ~ broken
    /\ broken' = TRUE
    /\ requests' = << >> /\ responses' = << >>
    /\ UNCHANGED <<clientVars, serverVars>>

(* The request is read and its callback handed to spawn_blocking. *)
ReadRequest ==
    /\ server = "reading" /\ requests # << >>
    /\ serving' = Head(requests)
    /\ requests' = Tail(requests)
    /\ running' = running \cup {serving'}
    /\ server' = "calling"
    /\ UNCHANGED <<clientVars, broken, responses, runs>>

(* The callback runs to its end, whether or not the task still waits for it. *)
RunCallback(c) ==
    /\ c \in running
    /\ running' = running \ {c}
    /\ runs' = [runs EXCEPT ![c] = @ + 1]
    /\ server' = IF server = "calling" /\ serving = c THEN "answering" ELSE server
    /\ UNCHANGED <<clientVars, wireVars, serving>>

(* One byte for success or failure, and the callback's result. *)
WriteResponse ==
    /\ server = "answering" /\ ~ broken
    /\ \E ok \in BOOLEAN : responses' = Append(responses, [of |-> serving, ok |-> ok])
    /\ server' = "reading"
    /\ serving' = NoCall
    /\ UNCHANGED <<clientVars, broken, requests, running, runs>>

(* The task ends: it cannot read or write, the callback panicked, or it was *)
(* aborted because the service is unadvertised.  Its socket is closed.      *)
ServerEnds ==
    /\ server # "gone"
    /\ server' = "gone"
    /\ serving' = NoCall
    /\ broken' = TRUE
    /\ requests' = << >>
    /\ UNCHANGED <<clientVars, responses, running, runs>>

-----------------------------------------------------------------------------

ActorStep == NextCall \/ WriteRequest \/ ReadResponse \/ Fail

ServerStep ==
    ReadRequest \/ WriteResponse \/ \E c \in Calls : RunCallback(c)

Next ==
    \/ \E c \in Calls : Call(c) \/ GiveUp(c)
    \/ DropClient \/ ActorStep \/ ServerStep \/ Break \/ ServerEnds

(* Tasks run, and callbacks return. *)
Fairness ==
    /\ WF_vars(NextCall \/ WriteRequest \/ Fail) /\ WF_vars(ReadResponse)
    /\ WF_vars(ReadRequest \/ WriteResponse)
    /\ WF_vars(\E c \in Calls : RunCallback(c))

Spec == Init /\ [][Next]_vars /\ Fairness

-----------------------------------------------------------------------------
(***************************************************************************)
(* Properties                                                              *)
(***************************************************************************)

(* The response the actor reads is the one to the request it wrote, however *)
(* many callers gave up before.                                             *)
OwnResponse ==
    step = "reading" /\ responses # << >> => Head(responses).of = actor

(* The callback runs at most once for a call, also when the connection      *)
(* breaks after the request was read.                                       *)
RunsOnce == \A c \in Calls : runs[c] <= 1

(* What makes OwnResponse inductive: while the connection holds there is one *)
(* request between the actor and its response, in one place, and none when   *)
(* the actor has not written one.                                            *)
InFlight ==
    \/ requests = <<actor>> /\ serving = NoCall /\ responses = << >>
    \/ requests = << >> /\ serving = actor /\ responses = << >>
    \/ requests = << >> /\ serving = NoCall /\ \E ok \in BOOLEAN : responses = <<[of |-> actor, ok |-> ok]>>

LinkInv ==
    /\ step \in {"writing", "reading"} <=> actor # NoCall
    /\ server \in {"calling", "answering"} <=> serving # NoCall
    /\ step \in {"free", "writing"} => responses = << >>
    /\ step \in {"free", "writing"} /\ ~ broken => requests = << >> /\ serving = NoCall
    /\ step # "aborted" /\ broken => requests = << >>
    /\ step = "reading" /\ ~ broken => InFlight
    /\ step = "reading" /\ broken =>
           responses = << >> \/ \E ok \in BOOLEAN : responses = <<[of |-> actor, ok |-> ok]>>

(* And RunsOnce: how far a call has come, from the queue to its callback. *)
Queued(c) == \E i \in 1 .. Len(queue) : queue[i] = c
Requested(c) == \E i \in 1 .. Len(requests) : requests[i] = c

OnceInv ==
    /\ step = "aborted" => broken
    /\ \A c \in Calls : call[c] = "idle" => ~ Queued(c) /\ actor # c /\ ~ Requested(c)
    /\ \A i, j \in 1 .. Len(queue) : queue[i] = queue[j] => i = j
    /\ \A c \in Calls : Queued(c) => actor # c /\ ~ Requested(c)
    /\ \A i, j \in 1 .. Len(requests) : requests[i] = requests[j] => i = j
    /\ \A c \in Calls :
        call[c] = "idle" \/ Queued(c) \/ Requested(c) \/ (step = "writing" /\ actor = c)
        => c \notin running /\ runs[c] = 0
    /\ \A c \in running : runs[c] = 0

IInv == TypeOK /\ LinkInv /\ OnceInv /\ OwnResponse /\ RunsOnce

(* And KeepsContract: what is answered, or about to be, was executed. *)
ServedInv ==
    /\ server = "answering" => runs[serving] > 0
    /\ \A i \in 1 .. Len(responses) : runs[responses[i].of] > 0

ContractInv == IInv /\ ServedInv

(* Whoever waits has its request with an actor or a server that is still    *)
(* there to go on, or its response on the way, or a connection whose loss   *)
(* the actor is about to notice: neither the end of the server's task nor   *)
(* that of the client leaves a caller behind.                               *)
GoesOn(c) ==
    \/ step = "writing" \/ broken
    \/ responses # << >>
    \/ requests = <<c>> /\ server = "reading"
    \/ serving = c /\ (server = "calling" => c \in running)

NoOrphanedWait == \A c \in Calls :
    call[c] = "waiting" => step # "aborted" /\ (Queued(c) \/ (actor = c /\ GoesOn(c)))

(* What makes it inductive. *)
WaitInv ==
    /\ server = "gone" => broken
    /\ server = "calling" => serving \in running
    /\ \A c \in Calls : call[c] = "waiting" => step # "aborted" /\ (Queued(c) \/ actor = c)

(* A call that nobody gives up returns.                                     *)
CallReturns ==
    \A c \in Calls \ Cancellable : call[c] = "waiting" ~> call[c] \in {"ok", "error"}

(***************************************************************************)
(* Refinement: a call of a ROS 1 service keeps the contract of ServiceCall.*)
(***************************************************************************)
StatusOf(s) ==
    CASE s = "idle" -> "idle"
      [] s = "waiting" -> "pending"
      [] s = "ok" -> "ok"
      [] OTHER -> "failed"

Contract == INSTANCE ServiceCall WITH
    status <- [c \in Calls |-> StatusOf(call[c])],
    executed <- {c \in Calls : runs[c] > 0}

(* Every behaviour of client and server is one the contract allows. *)
KeepsContract == Contract!Spec

=============================================================================
