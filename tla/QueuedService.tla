---------------------------- MODULE QueuedService ----------------------------
(***************************************************************************)
(* A service over zenoh: one task takes the queries of one service in      *)
(* order, runs the callback in the pool of blocking threads and replies.   *)
(*                                                                         *)
(* Source: roslibrust_zenoh/src/lib.rs and roslibrust_ros2/src/lib.rs      *)
(* (advertise_service, and call of the service client).  The two differ in *)
(* the end: the task of the first serves what is queued when the handle is *)
(* dropped, the task of the second is cancelled at its next await.  A      *)
(* query that is dropped without a reply ends the caller's wait (zenoh).   *)
(***************************************************************************)
EXTENDS Naturals, Sequences, ServiceConstants

CONSTANTS
    Aborts      \* whether the drop of the server cancels its task

VARIABLES
    call,       \* what the caller of each call knows
    queue,      \* queries for the task
    serving,    \* the query it works on
    running,    \* calls whose callback is in the pool of blocking threads
    ran,        \* those whose callback returned, and how
    declared,   \* whether the service is declared
    task        \* what the task does

vars == <<call, queue, serving, running, ran, declared, task>>

TypeOK ==
    /\ call \in [Calls -> {"idle", "waiting", "ok", "failed", "dropped"}]
    /\ queue \in Seq(Calls)
    /\ serving \in Calls \cup {NoCall}
    /\ running \subseteq Calls
    /\ ran \in [Calls -> {"no", "result", "error"}]
    /\ declared \in BOOLEAN
    /\ task \in {"receiving", "calling", "gone"}

Init ==
    /\ call = [c \in Calls |-> "idle"]
    /\ queue = << >>
    /\ serving = NoCall
    /\ running = {}
    /\ ran = [c \in Calls |-> "no"]
    /\ declared = TRUE
    /\ task = "receiving"

-----------------------------------------------------------------------------

(* The query is sent to the service that is declared, if there is one. *)
Call(c) ==
    /\ call[c] = "idle"
    /\ call' = [call EXCEPT ![c] = "waiting"]
    /\ queue' = IF declared THEN Append(queue, c) ELSE queue
    /\ UNCHANGED <<serving, running, ran, declared, task>>

Cancel(c) ==
    /\ c \in Cancellable
    /\ call[c] = "waiting"
    /\ call' = [call EXCEPT ![c] = "dropped"]
    /\ UNCHANGED <<queue, serving, running, ran, declared, task>>

(* A call that is gone does not take the response. *)
Answer(c) == call' = [call EXCEPT ![c] = IF @ = "waiting" THEN "ok" ELSE @]

(* Nobody holds the query any more: it never reached a service, or was dropped. *)
Unanswered(c) ==
    /\ call[c] = "waiting"
    /\ c # serving /\ \A i \in 1 .. Len(queue) : queue[i] # c
    /\ call' = [call EXCEPT ![c] = "failed"]
    /\ UNCHANGED <<queue, serving, running, ran, declared, task>>

(* A query without a payload, or with one that is no request, is dropped.  *)
Reject ==
    /\ task = "receiving" /\ queue # << >>
    /\ queue' = Tail(queue)
    /\ UNCHANGED <<call, serving, running, ran, declared, task>>

Take ==
    /\ task = "receiving" /\ queue # << >>
    /\ serving' = Head(queue)
    /\ queue' = Tail(queue)
    /\ running' = running \cup {serving'}
    /\ task' = "calling"
    /\ UNCHANGED <<call, ran, declared>>

(* The callback returns a response or an error, or panics. *)
RunCallback(c) ==
    /\ c \in running
    /\ running' = running \ {c}
    /\ \E result \in {"result", "error"} : ran' = [ran EXCEPT ![c] = result]
    /\ UNCHANGED <<call, queue, serving, declared, task>>

(* Mutation: an error ends the task, which keeps its queries. *)
ReplyOrStall ==
    /\ task = "calling" /\ ran[serving] # "no"
    /\ IF ran[serving] = "result" THEN Answer(serving) ELSE UNCHANGED call
    /\ task' = IF ran[serving] = "result" THEN "receiving" ELSE "gone"
    /\ serving' = NoCall
    /\ UNCHANGED <<queue, running, ran, declared>>

(* Mutation: the reply goes out before the callback is done. *)
ReplyEarly ==
    /\ task = "calling"
    /\ Answer(serving)
    /\ task' = "receiving"
    /\ serving' = NoCall
    /\ UNCHANGED <<queue, running, ran, declared>>

(* The response is sent; for an error the query is dropped. *)
Reply ==
    /\ task = "calling" /\ ran[serving] # "no"
    /\ IF ran[serving] = "result" THEN Answer(serving) ELSE UNCHANGED call
    /\ task' = "receiving"
    /\ serving' = NoCall
    /\ UNCHANGED <<queue, running, ran, declared>>

(* The handle is dropped: no query reaches the service any more. *)
DropServer ==
    /\ declared
    /\ declared' = FALSE
    /\ UNCHANGED <<call, queue, serving, running, ran, task>>

(* The task ends: at its next await, with all its queries, or when it has *)
(* served what was queued.                                                *)
End ==
    /\ task # "gone" /\ ~ declared
    /\ Aborts \/ (task = "receiving" /\ queue = << >>)
    /\ task' = "gone"
    /\ queue' = << >> /\ serving' = NoCall
    /\ UNCHANGED <<call, running, ran, declared>>

-----------------------------------------------------------------------------

TaskStep == Reject \/ Take \/ Reply \/ End

Next ==
    \/ \E c \in Calls : Call(c) \/ Cancel(c) \/ RunCallback(c) \/ Unanswered(c)
    \/ TaskStep \/ DropServer

(* The task runs, callbacks return, and zenoh ends a query nobody holds. *)
Fairness ==
    /\ WF_vars(TaskStep)
    /\ \A c \in Calls : WF_vars(RunCallback(c)) /\ WF_vars(Unanswered(c))

Spec == Init /\ [][Next]_vars /\ Fairness

-----------------------------------------------------------------------------
(* A call that nobody drops returns, whatever the callback does and whenever *)
(* the server is dropped.                                                    *)
CallReturns ==
    \A c \in Calls \ Cancellable : (call[c] = "waiting") ~> (call[c] \in {"ok", "failed"})

(* What KeepsContract rests on: a call is in the queue at most once, and its *)
(* callback has not started before.                                          *)
Queued(c) == \E i \in 1 .. Len(queue) : queue[i] = c

OnceInv ==
    /\ task = "calling" <=> serving # NoCall
    /\ \A i, j \in 1 .. Len(queue) : queue[i] = queue[j] => i = j
    /\ \A c \in Calls : call[c] = "idle" => ~ Queued(c)
    /\ \A c \in Calls :
        call[c] = "idle" \/ Queued(c) => c \notin running /\ ran[c] = "no"
    /\ \A c \in running : ran[c] = "no"

IInv == TypeOK /\ OnceInv

(* A query that somebody holds is held by a task that is there to serve it,  *)
(* with its callback in the pool or returned.  (That nobody holds a query    *)
(* any more its caller is told.)                                             *)
NoOrphanedWait == \A c \in Calls :
    /\ Queued(c) => task # "gone"
    /\ c = serving => task = "calling" /\ (c \in running \/ ran[c] # "no")

(* What makes it inductive: a task ends with nothing left, when no query can *)
(* come any more.                                                            *)
WaitInv ==
    /\ task = "gone" => queue = << >> /\ ~ declared
    /\ NoOrphanedWait

(***************************************************************************)
(* Refinement: the contract of ServiceCall.                                *)
(***************************************************************************)
StatusOf(s) ==
    CASE s = "waiting" -> "pending"
      [] s = "dropped" -> "failed"
      [] OTHER -> s

Contract == INSTANCE ServiceCall WITH
    status <- [c \in Calls |-> StatusOf(call[c])],
    executed <- {c \in Calls : ran[c] # "no"}

(* Every behaviour of the service is one the contract allows. *)
KeepsContract == Contract!Spec

=============================================================================
