------------------------- MODULE RosbridgeDispatch -------------------------
(***************************************************************************)
(* How the rosbridge client handles one incoming message at a time, on the *)
(* runtime's worker threads, while tasks of the application use the same   *)
(* Client.                                                                 *)
(*                                                                         *)
(* Source: roslibrust_rosbridge/src/client.rs.  Three things decide the    *)
(* outcome together.  stubborn_spin gives spin_once 10 ms and drops it     *)
(* wherever it is suspended when they are over.  handle_service holds a    *)
(* guard of the services map while it waits for the writer, for the        *)
(* callback and for the websocket.  Waiting for a guard of a map (DashMap) *)
(* does not suspend a task: it blocks the worker thread the task runs on.  *)
(*                                                                         *)
(* A map is taken to be one shard, as if all its names had the same hash.  *)
(* One connection: losing it is RosbridgeRegistry's and RosbridgeCalls'    *)
(* subject.                                                                *)
(***************************************************************************)
EXTENDS Naturals, FiniteSets, Sequences

CONSTANTS
    Requests,        \* call_service messages
    NestedCallbacks, \* requests whose callback publishes on the same client
    Publications,    \* publish messages the server sends, all of one topic
    Pubs,            \* calls of ClientHandle::publish
    Subs,            \* Subscribers of that topic: subscribe, and their drop
    Old,             \* services advertised before, each may be dropped
    New,             \* calls of advertise_service
    ServiceOf,       \* the service each request asks for
    Workers,         \* worker threads of the runtime
    Spin, Nobody

Tasks == Pubs \cup Subs \cup Old \cup New

ASSUME DispatchAssumption ==
    /\ NestedCallbacks \subseteq Requests
    /\ ServiceOf \in [Requests -> Old \cup New]
    /\ Workers \in Nat \ {0}
    /\ Requests \cap Publications = {} /\ Requests \cap Tasks = {}
    /\ Pubs \cap Subs = {} /\ (Pubs \cup Subs) \cap (Old \cup New) = {}
    /\ Old \cap New = {}
    /\ Spin \notin Tasks \cup Requests
    /\ Nobody \notin Tasks \cup Requests \cup Publications \cup {Spin}
    /\ IsFiniteSet(Old) /\ IsFiniteSet(Subs)

VARIABLES
    spin,        \* where the spin task is
    cur,         \* the message it handles
    inbox,       \* messages on the websocket, in order
    sent,        \* messages the server has put there so far
    pc,          \* where each task is
    writer,      \* who holds client.writer
    guard,       \* who holds the write guard of the subscriptions map
    services,    \* keys of Client::services
    handles,     \* subscribers in the entry of the topic
    subscribed,  \* subscribers whose subscribe message the server has
    callback,    \* the callback of each request
    answered,    \* requests whose service_response is on the websocket
    due,         \* who was subscribed when each publication was sent
    got          \* the publications put in each subscriber's queue

spinVars == <<spin, cur>>
netVars == <<inbox, sent, due>>
mapVars == <<services, handles, subscribed>>
outVars == <<callback, answered, got>>
vars == <<spinVars, netVars, pc, writer, guard, mapVars, outVars>>

Messages == Requests \cup Publications

(* Places of the spin task; at "entering" its thread waits for the map. *)
SpinPlaces == {"reading", "entering", "queued", "calling", "replying"}
TaskPlaces == {"idle", "entering", "queued", "holding", "sent", "done",
               "leaving", "alone", "parting", "gone"}

TypeOK ==
    /\ spin \in SpinPlaces
    /\ cur \in Messages \cup {Nobody}
    /\ inbox \in Seq(Messages)
    /\ sent \subseteq Messages
    /\ pc \in [Tasks -> TaskPlaces]
    /\ writer \in Tasks \cup Requests \cup {Spin, Nobody}
    /\ guard \in Subs \cup {Nobody}
    /\ services \subseteq Old \cup New
    /\ handles \subseteq Subs
    /\ subscribed \subseteq Subs
    /\ callback \in [Requests -> {"none", "running", "ended"}]
    /\ answered \subseteq Requests
    /\ due \in [Publications -> SUBSET Subs]
    /\ got \in [Subs -> SUBSET Publications]

Init ==
    /\ spin = "reading"
    /\ cur = Nobody
    /\ inbox = << >>
    /\ sent = {}
    /\ pc = [t \in Tasks |-> "idle"]
    /\ writer = Nobody
    /\ guard = Nobody
    /\ services = Old
    /\ handles = {}
    /\ subscribed = {}
    /\ callback = [r \in Requests |-> "none"]
    /\ answered = {}
    /\ due = [p \in Publications |-> {}]
    /\ got = [u \in Subs |-> {}]

-----------------------------------------------------------------------------
(***************************************************************************)
(* Threads and guards                                                      *)
(***************************************************************************)

(* handle_service keeps the guard of its entry until it returns. *)
SpinHoldsService == spin \in {"queued", "calling", "replying"}

Blocked == {t \in Tasks : pc[t] \in {"entering", "leaving"}}
           \cup IF spin = "entering" THEN {Spin} ELSE {}

(* Some worker thread is free to run a task that is ready. *)
WorkerFree == Cardinality(Blocked) < Workers

Go(t, place) == pc' = [pc EXCEPT ![t] = place]

-----------------------------------------------------------------------------
(***************************************************************************)
(* The server                                                              *)
(***************************************************************************)

ServerSends(m) ==
    /\ m \notin sent
    /\ m \in Publications => subscribed # {}
    /\ sent' = sent \cup {m}
    /\ inbox' = Append(inbox, m)
    /\ due' = IF m \in Publications THEN [due EXCEPT ![m] = subscribed] ELSE due
    /\ UNCHANGED <<spinVars, pc, writer, guard, mapVars, outVars>>

-----------------------------------------------------------------------------
(***************************************************************************)
(* The spin task                                                           *)
(***************************************************************************)

(* handle_message returns: the next spin_once begins. *)
BackToReading ==
    /\ spin' = "reading"
    /\ cur' = Nobody

(* handle_publish: every callback of the topic, no await in between. *)
Deliver(p) ==
    got' = [u \in Subs |-> IF u \in handles THEN got[u] \cup {p} ELSE got[u]]

(* spin_once, handle_publish up to subscriptions.get. *)
ReadPublication ==
    /\ spin = "reading" /\ WorkerFree
    /\ inbox # << >> /\ Head(inbox) \in Publications
    /\ inbox' = Tail(inbox)
    /\ IF guard = Nobody
         THEN Deliver(Head(inbox)) /\ UNCHANGED spinVars
         ELSE /\ spin' = "entering"
              /\ cur' = Head(inbox)
              /\ UNCHANGED got
    /\ UNCHANGED <<sent, due, pc, writer, guard, mapVars, callback, answered>>

(* The thread gets the guard it was blocked on. *)
EnterPublication ==
    /\ spin = "entering"
    /\ guard = Nobody
    /\ Deliver(cur)
    /\ BackToReading
    /\ UNCHANGED <<netVars, pc, writer, guard, mapVars, callback, answered>>

(* handle_service up to the writer: an unknown service is ignored. *)
ReadRequest ==
    /\ spin = "reading" /\ WorkerFree
    /\ inbox # << >> /\ Head(inbox) \in Requests
    /\ inbox' = Tail(inbox)
    /\ IF ServiceOf[Head(inbox)] \in services
         THEN spin' = "queued" /\ cur' = Head(inbox)
         ELSE UNCHANGED spinVars
    /\ UNCHANGED <<sent, due, pc, writer, guard, mapVars, outVars>>

(* spawn_blocking: the callback runs on a thread that is no worker. *)
CallBack ==
    /\ spin = "queued" /\ WorkerFree
    /\ writer = Nobody
    /\ writer' = Spin
    /\ spin' = "calling"
    /\ callback' = [callback EXCEPT ![cur] = "running"]
    /\ UNCHANGED <<cur, netVars, pc, guard, mapVars, answered, got>>

CallbackReturned ==
    /\ spin = "calling" /\ WorkerFree
    /\ callback[cur] = "ended"
    /\ spin' = "replying"
    /\ UNCHANGED <<cur, netVars, pc, writer, guard, mapVars, outVars>>

Reply ==
    /\ spin = "replying" /\ WorkerFree
    /\ answered' = answered \cup {cur}
    /\ writer' = Nobody
    /\ BackToReading
    /\ UNCHANGED <<netVars, pc, guard, mapVars, callback, got>>

(* Mutation: the time is taken from when the writer is there. *)
OverdueWithWriter ==
    \/ spin = "calling" /\ callback[cur] = "running"
    \/ spin = "replying"

(* The 10 ms may be over wherever spin_once has to wait, however short the  *)
(* wait: they began before the message was there.  What is there when it is *)
(* polled it takes before the timeout is looked at.                         *)
Overdue ==
    \/ spin = "queued" /\ writer # Nobody
    \/ spin = "calling" /\ callback[cur] = "running"
    \/ spin = "replying"

(* Mutation: only the wait for the writer is given up. *)
ExpireInQueue ==
    /\ Overdue /\ WorkerFree
    /\ spin = "queued"
    /\ BackToReading
    /\ UNCHANGED <<netVars, pc, writer, guard, mapVars, outVars>>

(* stubborn_spin drops spin_once: its guard and the writer are released, the *)
(* callback runs on, and a response may or may not have been handed over.    *)
Expire ==
    /\ Overdue /\ WorkerFree
    /\ writer' = IF writer = Spin THEN Nobody ELSE writer
    /\ answered' \in IF spin = "replying" THEN {answered, answered \cup {cur}}
                                          ELSE {answered}
    /\ BackToReading
    /\ UNCHANGED <<netVars, pc, guard, mapVars, callback, got>>

-----------------------------------------------------------------------------
(***************************************************************************)
(* Callbacks                                                               *)
(***************************************************************************)

CallbackEnds(r) ==
    /\ callback[r] = "running"
    /\ r \in NestedCallbacks => writer = r
    /\ callback' = [callback EXCEPT ![r] = "ended"]
    /\ writer' = IF writer = r THEN Nobody ELSE writer
    /\ UNCHANGED <<spinVars, netVars, pc, guard, mapVars, answered, got>>

(* The callback blocks on ClientHandle::publish until the writer is free. *)
CallbackTakesWriter(r) ==
    /\ r \in NestedCallbacks
    /\ callback[r] = "running"
    /\ writer = Nobody
    /\ writer' = r
    /\ UNCHANGED <<spinVars, netVars, pc, guard, mapVars, outVars>>

-----------------------------------------------------------------------------
(***************************************************************************)
(* Tasks of the application                                                *)
(***************************************************************************)

(* publish and advertise_service begin by asking for the writer. *)
Ask(t) ==
    /\ t \in Pubs \cup New
    /\ pc[t] = "idle" /\ WorkerFree
    /\ Go(t, "queued")
    /\ UNCHANGED <<spinVars, netVars, writer, guard, mapVars, outVars>>

TakeWriter(t) ==
    /\ pc[t] \in {"queued", "alone"} /\ WorkerFree
    /\ writer = Nobody
    /\ writer' = t
    /\ Go(t, IF pc[t] = "alone" THEN "parting" ELSE "holding")
    /\ UNCHANGED <<spinVars, netVars, guard, mapVars, outVars>>

(* The message is written and the writer released. *)
SendAndLeave(t) ==
    /\ t \in Pubs \cup Old \cup (New \cap services)
    /\ pc[t] = "holding" /\ WorkerFree
    /\ writer' = Nobody
    /\ Go(t, "done")
    /\ UNCHANGED <<spinVars, netVars, guard, mapVars, outVars>>

(* advertise_service: services.insert, which may block the thread. *)
InsertService(t) ==
    /\ t \in New /\ t \notin services
    /\ pc[t] = "holding" /\ WorkerFree
    /\ IF SpinHoldsService
         THEN Go(t, "entering") /\ UNCHANGED services
         ELSE services' = services \cup {t} /\ UNCHANGED pc
    /\ UNCHANGED <<spinVars, netVars, writer, guard, handles, subscribed, outVars>>

InsertUnblocked(t) ==
    /\ t \in New
    /\ pc[t] = "entering"
    /\ ~ SpinHoldsService
    /\ services' = services \cup {t}
    /\ Go(t, "holding")
    /\ UNCHANGED <<spinVars, netVars, writer, guard, handles, subscribed, outVars>>

(* unadvertise_service: services.remove, which may block the thread. *)
RemoveService(t) ==
    /\ t \in Old
    /\ \/ pc[t] = "idle" /\ WorkerFree
       \/ pc[t] = "entering" /\ ~ SpinHoldsService
    /\ IF SpinHoldsService
         THEN Go(t, "entering") /\ UNCHANGED services
         ELSE Go(t, "queued") /\ services' = services \ {t}
    /\ UNCHANGED <<spinVars, netVars, writer, guard, handles, subscribed, outVars>>

(* _subscribe: the guard of subscriptions.entry. *)
EnterTopic(t) ==
    /\ t \in Subs
    /\ \/ pc[t] = "idle" /\ WorkerFree
       \/ pc[t] = "entering" /\ guard = Nobody
    /\ IF guard = Nobody
         THEN Go(t, "queued") /\ guard' = t
         ELSE Go(t, "entering") /\ UNCHANGED guard
    /\ UNCHANGED <<spinVars, netVars, writer, mapVars, outVars>>

(* Mutation: the entry's guard is dropped before the message is sent. *)
SendSubscribeUnguarded(t) ==
    /\ t \in Subs
    /\ pc[t] = "holding" /\ WorkerFree
    /\ subscribed' = subscribed \cup {t}
    /\ guard' = Nobody
    /\ Go(t, "sent")
    /\ UNCHANGED <<spinVars, netVars, writer, services, handles, outVars>>

SendSubscribe(t) ==
    /\ t \in Subs
    /\ pc[t] = "holding" /\ WorkerFree
    /\ subscribed' = subscribed \cup {t}
    /\ Go(t, "sent")
    /\ UNCHANGED <<spinVars, netVars, writer, guard, services, handles, outVars>>

(* The subscriber's queue is reachable from now on, the locks are dropped. *)
InsertHandle(t) ==
    /\ pc[t] = "sent" /\ WorkerFree
    /\ handles' = handles \cup {t}
    /\ writer' = Nobody
    /\ guard' = Nobody
    /\ Go(t, "done")
    /\ UNCHANGED <<spinVars, netVars, services, subscribed, outVars>>

(* unsubscribe, spawned by the drop of a Subscriber: subscriptions.get_mut *)
(* may block the thread; the last of the topic keeps the guard.            *)
RemoveHandle(t) ==
    /\ t \in Subs
    /\ \/ pc[t] = "done" /\ WorkerFree
       \/ pc[t] = "leaving" /\ guard = Nobody
    /\ IF guard # Nobody
         THEN Go(t, "leaving") /\ UNCHANGED <<handles, guard>>
         ELSE /\ handles' = handles \ {t}
              /\ IF handles \subseteq {t}
                   THEN Go(t, "alone") /\ guard' = t
                   ELSE Go(t, "gone") /\ UNCHANGED guard
    /\ UNCHANGED <<spinVars, netVars, writer, services, subscribed, outVars>>

(* The server has the unsubscribe message, the locks are dropped. *)
SendUnsubscribe(t) ==
    /\ pc[t] = "parting" /\ WorkerFree
    /\ subscribed' = {}
    /\ writer' = Nobody
    /\ guard' = Nobody
    /\ Go(t, "gone")
    /\ UNCHANGED <<spinVars, netVars, services, handles, outVars>>

-----------------------------------------------------------------------------

Begin(t) ==
    \/ pc[t] = "idle" /\ (Ask(t) \/ RemoveService(t) \/ EnterTopic(t))
    \/ pc[t] = "done" /\ RemoveHandle(t)

Continue(t) ==
    \/ pc[t] = "entering" /\ (InsertUnblocked(t) \/ RemoveService(t) \/ EnterTopic(t))
    \/ TakeWriter(t) \/ SendAndLeave(t) \/ InsertService(t)
    \/ SendSubscribe(t) \/ InsertHandle(t)
    \/ pc[t] = "leaving" /\ RemoveHandle(t)
    \/ SendUnsubscribe(t)

SpinStep ==
    \/ ReadPublication \/ EnterPublication \/ ReadRequest
    \/ CallBack \/ CallbackReturned \/ Reply

CallbackStep(r) == CallbackEnds(r) \/ CallbackTakesWriter(r)

Next ==
    \/ \E m \in Messages : ServerSends(m)
    \/ SpinStep
    \/ Expire
    \/ \E r \in Requests : CallbackStep(r)
    \/ \E t \in Tasks : Begin(t) \/ Continue(t)

(***************************************************************************)
(* A free worker thread runs what is ready, the timer fires once the 10 ms *)
(* are over, a callback ends if it does not wait for the client for ever,  *)
(* and the writer is granted in the order of the requests for it.  The     *)
(* server sends and the application begins what they like.                 *)
(***************************************************************************)
Fairness ==
    /\ SF_vars(SpinStep)
    /\ WF_vars(Expire)
    /\ \A r \in Requests : SF_vars(CallbackStep(r))
    /\ \A t \in Tasks : SF_vars(Continue(t))

Spec == Init /\ [][Next]_vars /\ Fairness

-----------------------------------------------------------------------------
(***************************************************************************)
(* Properties                                                              *)
(***************************************************************************)

Waiting(m) == \E i \in DOMAIN inbox : inbox[i] = m

(* The Subscriber has been dropped. *)
Dropped(u) == pc[u] \in {"leaving", "alone", "parting", "gone"}

(* A publication the server sent to a subscriber is in its queue once the   *)
(* client has handled it, as long as it is not dropped, and also when it    *)
(* arrives before subscribe returned: handle_publish cannot look at the     *)
(* topic's entry while _subscribe has it, and the 10 ms cannot interrupt it.*)
NoPublicationMissed ==
    \A p \in sent \cap Publications :
        \/ cur = p
        \/ Waiting(p)
        \/ \A u \in due[p] : Dropped(u) \/ p \in got[u]

Reached(u) == u \in handles \/ pc[u] = "sent" \/ Dropped(u)

(* What makes it inductive: a subscriber between its subscribe message and  *)
(* its handle has the guard, and the spin task has to pass that guard.      *)
GuardInv ==
    /\ \A u \in Subs :
           pc[u] \in {"queued", "holding", "sent", "alone", "parting"} <=> guard = u
    /\ \A t \in Tasks : pc[t] = "sent" \/ Dropped(t) => t \in Subs
    /\ \A u \in subscribed : Reached(u)
    /\ \A p \in Publications : \A u \in due[p] : Reached(u)
    /\ spin = "reading" => cur = Nobody
    /\ spin = "entering" => cur \in Publications
    /\ spin \in {"queued", "calling", "replying"} => cur \in Requests

IInv == TypeOK /\ GuardInv /\ NoPublicationMissed

(***************************************************************************)
(* Who waits for whom, and why that has an end                             *)
(***************************************************************************)

Actors == Tasks \cup Requests \cup {Spin}

WaitsForWriter(a) ==
    \/ a \in Tasks /\ pc[a] \in {"queued", "alone"}
    \/ a = Spin /\ spin = "queued"
    \/ a \in NestedCallbacks /\ callback[a] = "running" /\ writer # a

WaitsForGuard(a) ==
    \/ a \in Subs /\ pc[a] \in {"entering", "leaving"}
    \/ a = Spin /\ spin = "entering"

Waits(a, b) ==
    \/ WaitsForWriter(a) /\ b = writer
    \/ WaitsForGuard(a) /\ b = guard
    \/ a \in Old \cup New /\ pc[a] = "entering" /\ SpinHoldsService /\ b = Spin
    \/ a = Spin /\ spin = "calling" /\ callback[cur] = "running" /\ b = cur

(* Wherever some wait for each other in a circle, the spin task is one of   *)
(* them, and gives up what it waits for when its 10 ms are over.            *)
CirclesEnd ==
    \A s \in SUBSET Actors : s # {} =>
        \E a \in s : (\A b \in s : ~ Waits(a, b)) \/ (a = Spin /\ Overdue)

(* The threads that guards of a map can block: that of each task that drops *)
(* a service, of the one that advertises with the writer, and of each that  *)
(* subscribes or unsubscribes but the one that has the guard.               *)
ThreadsNeeded == Cardinality(Old) + IF Subs = {} THEN 1 ELSE Cardinality(Subs)

(* With more worker threads than that, one is free or becomes free.         *)
ThreadToCome ==
    ThreadsNeeded < Workers => WorkerFree \/ \E a \in Blocked : \A b \in Actors : ~ Waits(a, b)

(* So the locks and the blocked threads never stop everything for good.     *)
NoDeadlock == CirclesEnd /\ ThreadToCome

(* Only a callback that has returned is answered, and none is called again: *)
(* not by a spin_once after the one that was dropped.                       *)
AnsweredReturned == \A r \in answered : callback[r] = "ended"

CalledOnce ==
    [][\A r \in Requests :
           /\ callback[r] = "ended" => callback'[r] = "ended"
           /\ callback[r] = "running" => callback'[r] # "none"
           /\ callback[r] = "none" => callback'[r] # "ended"]_vars

(* What makes these inductive: who has the writer ...                       *)
WriterInv ==
    /\ \A t \in Tasks :
           writer = t <=> \/ pc[t] \in {"holding", "sent", "parting"}
                          \/ t \in New /\ pc[t] = "entering"
    /\ writer = Spin <=> spin \in {"calling", "replying"}
    /\ \A r \in Requests : writer = r => r \in NestedCallbacks /\ callback[r] = "running"
    /\ \A t \in Pubs : pc[t] # "entering"

(* ... and that each message is on the websocket once, and read once.       *)
CallbackInv ==
    /\ \A i, j \in DOMAIN inbox : inbox[i] = inbox[j] => i = j
    /\ ~ Waiting(cur)
    /\ \A m \in Messages : Waiting(m) \/ cur = m => m \in sent
    /\ \A r \in Requests :
           /\ callback[r] # "none" => r \in sent
           /\ Waiting(r) \/ (cur = r /\ spin = "queued") => callback[r] = "none"
    /\ spin = "calling" => callback[cur] # "none"
    /\ spin = "replying" => callback[cur] = "ended"

WaitInv == IInv /\ WriterInv /\ CallbackInv /\ AnsweredReturned

(* A request for an advertised service is answered (roslibrust_common's     *)
(* ServiceProvider: "The service will be active until the handle is         *)
(* dropped").                                                               *)
RequestsAnswered ==
    \A r \in Requests : (cur = r /\ spin = "queued") ~> r \in answered

(* Answered or not, a request that was taken up is done with some day and   *)
(* for good: the spin task has left it, and its callback was not called or  *)
(* has come to its end, although it may wait for the writer that the spin   *)
(* task holds over it, and the spin task for the writer of a task that      *)
(* waits for the guard the spin task has.                                   *)
RequestsSettle ==
    \A r \in Requests : cur = r ~> [](cur # r /\ callback[r] # "running")

(* The spin task comes back to its websocket after every message, whatever  *)
(* the callbacks and the tasks of the application do ("continuously         *)
(* managing that connection").                                              *)
SpinComesBack == []<>(spin = "reading")

=============================================================================
