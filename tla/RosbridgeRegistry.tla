------------------------- MODULE RosbridgeRegistry -------------------------
(***************************************************************************)
(* Publishers, subscribers and service servers of the rosbridge client,    *)
(* against what the rosbridge server knows of them.                        *)
(*                                                                         *)
(* Source: roslibrust_rosbridge/src/client.rs.  Opening a handle           *)
(* (advertise, subscribe, advertise_service) records it in a map of the    *)
(* Client and tells the server; dropping the handle spawns a task that     *)
(* does the opposite.  When the connection is lost the stubborn_spin task  *)
(* takes the write half of the client's lock, connects again and tells the *)
(* new server what the maps hold.  A handle is opened and dropped at most  *)
(* once: a second use of a topic is another handle.                        *)
(*                                                                         *)
(* Messages on the websocket arrive in the order they were written, so the *)
(* server's view is updated when a message is written.                     *)
(***************************************************************************)
EXTENDS Naturals, FiniteSets

CONSTANTS
    Topics,
    Pubs, Subs, Servers,   \* Publisher, Subscriber and ServiceHandle values
    TopicOf,               \* the topic or service each of them is opened on
    HasTimeout,            \* whether ClientHandleOptions::timeout is set
    MaxConn,               \* bound: how many connections the server accepts
    MaxOpened,             \* bound: how many of the handles a behaviour opens
    Nobody                 \* a lock nobody holds

Handles == Pubs \cup Subs \cup Servers

ASSUME RegistryAssumption ==
    /\ TopicOf \in [Handles -> Topics]
    /\ Pubs \cap Subs = {} /\ Pubs \cap Servers = {} /\ Subs \cap Servers = {}
    /\ HasTimeout \in BOOLEAN
    /\ MaxConn \in Nat \ {0} /\ MaxOpened \in Nat
    /\ Nobody \notin Handles

VARIABLES
    phase,           \* life of each handle
    pc,              \* where the operation on it is
    writer,          \* who holds client.writer
    guard,           \* who holds the subscriptions entry of each topic
    publishers,      \* keys of Client::publishers
    subscriptions,   \* keys of Client::subscriptions
    handles,         \* the subscribers in each of those entries
    services,        \* keys of Client::services
    srvAdvertised,   \* the server's view of this connection
    srvSubscribed,
    srvServices,
    spin,            \* where the spin task is
    is_disconnected,
    conn,            \* number of the current connection
    alive            \* whether it still carries messages

opVars == <<phase, pc>>
lockVars == <<writer, guard>>
mapVars == <<publishers, subscriptions, handles, services>>
srvVars == <<srvAdvertised, srvSubscribed, srvServices>>
connVars == <<spin, is_disconnected, conn, alive>>
vars == <<opVars, lockVars, mapVars, srvVars, connVars>>

Phases == {"fresh", "opening", "live", "closing", "closed", "failed"}

(* States in which the task holds a read half of the client's lock. *)
ReadHeld == {"lockedOpts", "queuedAgain", "locked", "checked", "tracked", "sending"}

PcStates == {"idle", "asked", "queuedOpts", "queued"} \cup ReadHeld

SpinStates == {"spin", "flagged", "wantWrite", "connecting", "resending", "reconnected"}

Readers == {h \in Handles : pc[h] \in ReadHeld}

WriteHeld == spin \in {"connecting", "resending"}

(* Tokio's lock is fair: a read request waits behind an earlier write request. *)
ReadBlocked == WriteHeld \/ spin = "wantWrite"

GrantQueued ==
    [h \in Handles |-> CASE pc[h] = "queued" -> "locked"
                         [] pc[h] = "queuedOpts" -> "lockedOpts"
                         [] OTHER -> pc[h]]

TypeOK ==
    /\ phase \in [Handles -> Phases]
    /\ pc \in [Handles -> PcStates]
    /\ writer \in Handles \cup {Nobody}
    /\ guard \in [Topics -> Handles \cup {Nobody}]
    /\ publishers \subseteq Topics
    /\ subscriptions \subseteq Topics
    /\ handles \in [Topics -> SUBSET Subs]
    /\ services \subseteq Topics
    /\ srvAdvertised \subseteq Topics
    /\ srvSubscribed \subseteq Topics
    /\ srvServices \subseteq Topics
    /\ spin \in SpinStates
    /\ is_disconnected \in BOOLEAN
    /\ conn \in Nat
    /\ alive \in BOOLEAN

Init ==
    /\ phase = [h \in Handles |-> "fresh"]
    /\ pc = [h \in Handles |-> "idle"]
    /\ writer = Nobody
    /\ guard = [t \in Topics |-> Nobody]
    /\ publishers = {}
    /\ subscriptions = {}
    /\ handles = [t \in Topics |-> {}]
    /\ services = {}
    /\ srvAdvertised = {}
    /\ srvSubscribed = {}
    /\ srvServices = {}
    /\ spin = "spin"
    /\ is_disconnected = FALSE
    /\ conn = 1
    /\ alive = TRUE

-----------------------------------------------------------------------------
(***************************************************************************)
(* Beginning and ending an operation                                       *)
(***************************************************************************)

(* The call ends here: its locks are dropped. *)
Finish(h, p) ==
    /\ phase' = [phase EXCEPT ![h] = p]
    /\ pc' = [pc EXCEPT ![h] = "idle"]

Step(h, s) ==
    /\ pc' = [pc EXCEPT ![h] = s]
    /\ UNCHANGED phase

(* advertise, subscribe, advertise_service: check_for_disconnect. *)
Open(h) ==
    /\ phase[h] = "fresh"
    /\ Cardinality({g \in Handles : phase[g] # "fresh"}) < MaxOpened
    /\ IF is_disconnected
         THEN Finish(h, "failed")
         ELSE /\ phase' = [phase EXCEPT ![h] = "opening"]
              /\ pc' = [pc EXCEPT ![h] = "asked"]
    /\ UNCHANGED <<lockVars, mapVars, srvVars, connVars>>

(* The handle is dropped: a task is spawned to undo the opening. *)
Drop(h) ==
    /\ phase[h] = "live"
    /\ phase' = [phase EXCEPT ![h] = "closing"]
    /\ pc' = [pc EXCEPT ![h] = "asked"]
    /\ UNCHANGED <<lockVars, mapVars, srvVars, connVars>>

(***************************************************************************)
(* subscribe reads opts.timeout through a guard of its own, a temporary    *)
(* that lives until the whole call returns.                                *)
(***************************************************************************)
LockOptions(h) ==
    /\ h \in Subs /\ phase[h] = "opening"
    /\ pc[h] = "asked"
    /\ Step(h, IF ReadBlocked THEN "queuedOpts" ELSE "lockedOpts")
    /\ UNCHANGED <<lockVars, mapVars, srvVars, connVars>>

(* inner.read().await, in _subscribe for the second time. *)
LockClient(h) ==
    /\ \/ /\ pc[h] = "asked"
          /\ ~(h \in Subs /\ phase[h] = "opening")
          /\ Step(h, IF ReadBlocked THEN "queued" ELSE "locked")
       \/ /\ pc[h] = "lockedOpts"
          /\ Step(h, IF ReadBlocked THEN "queuedAgain" ELSE "locked")
    /\ UNCHANGED <<lockVars, mapVars, srvVars, connVars>>

(* client.writer.write().await. *)
TakeWriter(h) ==
    /\ pc[h] = "tracked"
    /\ writer = Nobody
    /\ writer' = h
    /\ Step(h, "sending")
    /\ UNCHANGED <<guard, mapVars, srvVars, connVars>>

-----------------------------------------------------------------------------
(***************************************************************************)
(* Publishers                                                              *)
(***************************************************************************)

(* advertise: publishers.contains_key. *)
CheckPublisher(p) ==
    /\ p \in Pubs /\ phase[p] = "opening"
    /\ pc[p] = "locked"
    /\ IF TopicOf[p] \in publishers THEN Finish(p, "failed") ELSE Step(p, "checked")
    /\ UNCHANGED <<lockVars, mapVars, srvVars, connVars>>

(* advertise: publishers.insert, a separate access to the map. *)
InsertPublisher(p) ==
    /\ pc[p] = "checked"
    /\ publishers' = publishers \cup {TopicOf[p]}
    /\ Step(p, "tracked")
    /\ UNCHANGED <<lockVars, subscriptions, handles, services, srvVars, connVars>>

(* unadvertise: publishers.remove, before the writer is requested. *)
RemovePublisher(p) ==
    /\ p \in Pubs /\ phase[p] = "closing"
    /\ pc[p] = "locked"
    /\ publishers' = publishers \ {TopicOf[p]}
    /\ Step(p, "tracked")
    /\ UNCHANGED <<lockVars, subscriptions, handles, services, srvVars, connVars>>

(***************************************************************************)
(* Service servers                                                         *)
(***************************************************************************)

(* Mutation: the check for an earlier handle of the name is dropped. *)
InsertServiceUnchecked(s) ==
    /\ s \in Servers /\ phase[s] = "opening"
    /\ pc[s] = "locked"
    /\ writer = Nobody
    /\ services' = services \cup {TopicOf[s]}
    /\ writer' = s
    /\ Step(s, "sending")
    /\ UNCHANGED <<guard, publishers, subscriptions, handles, srvVars, connVars>>

(* advertise_service: the writer first, then contains_key and insert. *)
InsertService(s) ==
    /\ s \in Servers /\ phase[s] = "opening"
    /\ pc[s] = "locked"
    /\ writer = Nobody
    /\ IF TopicOf[s] \in services
         THEN Finish(s, "failed") /\ UNCHANGED <<writer, services>>
         ELSE /\ services' = services \cup {TopicOf[s]}
              /\ writer' = s
              /\ Step(s, "sending")
    /\ UNCHANGED <<guard, publishers, subscriptions, handles, srvVars, connVars>>

(* unadvertise_service: services.remove, then the writer is requested. *)
RemoveService(s) ==
    /\ s \in Servers /\ phase[s] = "closing"
    /\ pc[s] = "locked"
    /\ services' = services \ {TopicOf[s]}
    /\ Step(s, "tracked")
    /\ UNCHANGED <<lockVars, publishers, subscriptions, handles, srvVars, connVars>>

(***************************************************************************)
(* Subscribers                                                             *)
(***************************************************************************)

(* _subscribe: subscriptions.entry().or_insert(), whose guard is kept. *)
EnterTopic(u) ==
    /\ u \in Subs /\ phase[u] = "opening"
    /\ pc[u] = "locked"
    /\ guard[TopicOf[u]] = Nobody
    /\ guard' = [guard EXCEPT ![TopicOf[u]] = u]
    /\ subscriptions' = subscriptions \cup {TopicOf[u]}
    /\ Step(u, "tracked")
    /\ UNCHANGED <<writer, publishers, handles, services, srvVars, connVars>>

(* Mutation: the entry's guard is dropped before the message is sent. *)
LeaveTopicUnguarded(u) ==
    LET t == TopicOf[u] IN
    /\ u \in Subs /\ phase[u] = "closing"
    /\ pc[u] = "locked"
    /\ guard[t] = Nobody
    /\ handles' = [handles EXCEPT ![t] = @ \ {u}]
    /\ IF handles[t] \subseteq {u} THEN Step(u, "tracked") ELSE Finish(u, "closed")
    /\ UNCHANGED <<lockVars, publishers, subscriptions, services, srvVars, connVars>>

(* Mutation: emptiness is tested before the subscriber is removed. *)
LeaveTopicTestedEarly(u) ==
    LET t == TopicOf[u] IN
    /\ u \in Subs /\ phase[u] = "closing"
    /\ pc[u] = "locked"
    /\ guard[t] = Nobody
    /\ handles' = [handles EXCEPT ![t] = @ \ {u}]
    /\ IF handles[t] = {}
         THEN guard' = [guard EXCEPT ![t] = u] /\ Step(u, "tracked")
         ELSE UNCHANGED guard /\ Finish(u, "closed")
    /\ UNCHANGED <<writer, publishers, subscriptions, services, srvVars, connVars>>

(***************************************************************************)
(* unsubscribe: subscriptions.get_mut() and handles.remove(); the guard is *)
(* kept only when the last subscriber left.  The entry is never removed.   *)
(***************************************************************************)
LeaveTopic(u) ==
    LET t == TopicOf[u] IN
    /\ u \in Subs /\ phase[u] = "closing"
    /\ pc[u] = "locked"
    /\ guard[t] = Nobody
    /\ handles' = [handles EXCEPT ![t] = @ \ {u}]
    /\ IF handles[t] \subseteq {u}
         THEN guard' = [guard EXCEPT ![t] = u] /\ Step(u, "tracked")
         ELSE UNCHANGED guard /\ Finish(u, "closed")
    /\ UNCHANGED <<writer, publishers, subscriptions, services, srvVars, connVars>>

-----------------------------------------------------------------------------
(***************************************************************************)
(* Sending                                                                 *)
(***************************************************************************)

(* What the server makes of the message h's task writes. *)
Tell(h) ==
    LET Change(set, members) ==
            IF h \notin members \/ ~alive THEN set
            ELSE IF phase[h] = "opening" THEN set \cup {TopicOf[h]}
            ELSE set \ {TopicOf[h]}
    IN  /\ srvAdvertised' = Change(srvAdvertised, Pubs)
        /\ srvSubscribed' = Change(srvSubscribed, Subs)
        /\ srvServices' = Change(srvServices, Servers)

(* Mutation: the sink stays locked. *)
ReleaseGuardOnly(h) ==
    /\ guard' = [t \in Topics |-> IF guard[t] = h THEN Nobody ELSE guard[t]]
    /\ UNCHANGED writer

ReleaseLocks(h) ==
    /\ writer' = IF writer = h THEN Nobody ELSE writer
    /\ guard' = [t \in Topics |-> IF guard[t] = h THEN Nobody ELSE guard[t]]

(* The write succeeds; _subscribe then stores the subscriber's callback. *)
Send(h) ==
    /\ pc[h] = "sending"
    /\ Tell(h)
    /\ ReleaseLocks(h)
    /\ handles' = IF h \in Subs /\ phase[h] = "opening"
                    THEN [handles EXCEPT ![TopicOf[h]] = @ \cup {h}] ELSE handles
    /\ Finish(h, IF phase[h] = "opening" THEN "live" ELSE "closed")
    /\ UNCHANGED <<publishers, subscriptions, services, connVars>>

(* The write fails: nothing that was recorded in the maps is undone. *)
SendFails(h) ==
    /\ pc[h] = "sending"
    /\ ~alive
    /\ ReleaseLocks(h)
    /\ Finish(h, IF phase[h] = "opening" THEN "failed" ELSE "closed")
    /\ UNCHANGED <<mapVars, srvVars, connVars>>

(* Mutation: the timeout does not cover the second request of the lock. *)
LimitedLate(h) ==
    HasTimeout /\ h \in Subs /\ phase[h] = "opening" /\ pc[h] \in {"tracked", "sending"}

(* The awaits inside _subscribe, which subscribe puts a timeout around. *)
Limited(h) ==
    HasTimeout /\ h \in Subs /\ phase[h] = "opening" /\ pc[h] \in {"queuedAgain", "tracked", "sending"}

(* opts.timeout elapses, at any of them. *)
SubscribeTimesOut(u) ==
    /\ Limited(u)
    /\ \/ pc[u] = "sending" /\ Tell(u)
       \/ UNCHANGED srvVars
    /\ ReleaseLocks(u)
    /\ Finish(u, "failed")
    /\ UNCHANGED <<mapVars, connVars>>

-----------------------------------------------------------------------------
(***************************************************************************)
(* stubborn_spin and reconnect                                             *)
(***************************************************************************)
Disconnect ==
    /\ alive
    /\ conn < MaxConn
    /\ alive' = FALSE
    /\ UNCHANGED <<opVars, lockVars, mapVars, srvVars, spin, is_disconnected, conn>>

(* spin_once fails, the flag is set and the write half requested. *)
ReadFails ==
    /\ spin = "spin"
    /\ ~alive
    /\ is_disconnected' = TRUE
    /\ spin' = "flagged"
    /\ UNCHANGED <<opVars, lockVars, mapVars, srvVars, conn, alive>>

RequestWrite ==
    /\ spin = "flagged"
    /\ spin' = "wantWrite"
    /\ UNCHANGED <<opVars, lockVars, mapVars, srvVars, is_disconnected, conn, alive>>

TakeWrite ==
    /\ spin = "wantWrite"
    /\ Readers = {}
    /\ spin' = "connecting"
    /\ UNCHANGED <<opVars, lockVars, mapVars, srvVars, is_disconnected, conn, alive>>

(* A new connection, of which the server knows nothing yet. *)
Connect ==
    /\ spin = "connecting"
    /\ conn' = conn + 1
    /\ alive' = TRUE
    /\ srvAdvertised' = {}
    /\ srvSubscribed' = {}
    /\ srvServices' = {}
    /\ spin' = "resending"
    /\ UNCHANGED <<opVars, lockVars, mapVars, is_disconnected>>

(* Mutation: only the subscriptions are sent again. *)
ResendSubscriptions ==
    /\ spin = "resending"
    /\ srvSubscribed' = IF alive THEN subscriptions ELSE srvSubscribed
    /\ pc' = GrantQueued
    /\ spin' = "reconnected"
    /\ UNCHANGED <<phase, lockVars, mapVars, srvAdvertised, srvServices, is_disconnected,
                   conn, alive>>

(* Publishers and subscriptions are sent again, service servers are not. *)
Resend ==
    /\ spin = "resending"
    /\ srvAdvertised' = IF alive THEN publishers ELSE srvAdvertised
    /\ srvSubscribed' = IF alive THEN subscriptions ELSE srvSubscribed
    /\ pc' = GrantQueued
    /\ spin' = "reconnected"
    /\ UNCHANGED <<phase, lockVars, mapVars, srvServices, is_disconnected, conn, alive>>

(* One of the writes fails: the lock is dropped and requested again. *)
ResendFails ==
    /\ spin = "resending"
    /\ ~alive
    /\ pc' = GrantQueued
    /\ spin' = "wantWrite"
    /\ UNCHANGED <<phase, lockVars, mapVars, srvVars, is_disconnected, conn, alive>>

MarkConnected ==
    /\ spin = "reconnected"
    /\ is_disconnected' = FALSE
    /\ spin' = "spin"
    /\ UNCHANGED <<opVars, lockVars, mapVars, srvVars, conn, alive>>

(* Nothing is in progress, and the user need not open another handle. *)
Quiet ==
    /\ spin = "spin" /\ alive
    /\ \A h \in Handles : phase[h] \in {"fresh", "closed", "failed"}
    /\ UNCHANGED vars

-----------------------------------------------------------------------------
LockStep(h) == LockOptions(h) \/ LockClient(h)

MapStep(h) ==
    \/ CheckPublisher(h) \/ InsertPublisher(h) \/ RemovePublisher(h)
    \/ InsertService(h) \/ RemoveService(h)
    \/ EnterTopic(h) \/ LeaveTopic(h)

SendStep(h) == TakeWriter(h) \/ Send(h) \/ SendFails(h)

SpinStep ==
    \/ ReadFails \/ RequestWrite \/ TakeWrite \/ Resend \/ ResendFails \/ MarkConnected

Next ==
    \/ \E h \in Handles :
          \/ Open(h) \/ Drop(h)
          \/ LockStep(h) \/ MapStep(h) \/ SendStep(h) \/ SubscribeTimesOut(h)
    \/ SpinStep
    \/ Disconnect
    \/ Connect
    \/ Quiet

Spec == Init /\ [][Next]_vars

(***************************************************************************)
(* The runtime runs every task that can run, timers fire, and the server   *)
(* accepts new connections.  Opening and dropping are up to the user.      *)
(***************************************************************************)
Fairness ==
    /\ \A h \in Handles :
          WF_vars(LockStep(h) \/ MapStep(h) \/ SendStep(h)) /\ WF_vars(SubscribeTimesOut(h))
    /\ WF_vars(SpinStep)
    /\ WF_vars(Connect)

FairSpec == Spec /\ Fairness

-----------------------------------------------------------------------------
(***************************************************************************)
(* Properties                                                              *)
(***************************************************************************)

(* The server's view counts while a connection is up and has been restored. *)
Restored == alive /\ spin # "resending"

(***************************************************************************)
(* A topic with a subscriber is subscribed at the server, however          *)
(* subscribes, drops of other subscribers of the topic and reconnects      *)
(* interleave.  (The entry's guard is held across the message, so "the     *)
(* last one left" cannot overtake "somebody came".)                        *)
(***************************************************************************)
LiveSubscriberSubscribed ==
    Restored => \A t \in Topics : handles[t] # {} => t \in srvSubscribed

(***************************************************************************)
(* At most one ServiceHandle owns a service name, and the callback of a    *)
(* live ServiceHandle can be found: the drop of an earlier handle of that  *)
(* name never removes it.                                                  *)
(***************************************************************************)
OwnsService(s) ==
    \/ phase[s] = "live"
    \/ phase[s] = "opening" /\ pc[s] = "sending"
    \/ phase[s] = "closing" /\ pc[s] \in {"asked", "queued", "locked"}

ServiceHandleOwnsEntry ==
    \A s \in Servers : OwnsService(s) =>
        /\ TopicOf[s] \in services
        /\ \A s2 \in Servers \ {s} : TopicOf[s2] = TopicOf[s] => ~OwnsService(s2)

(***************************************************************************)
(* On one connection, a topic without subscribers is not subscribed at the *)
(* server once the task of the last drop is done: "When the last           *)
(* subscriber is dropped the topic is automatically un-subscribed to."     *)
(* (A subscribe that timed out may have been sent.)                        *)
(***************************************************************************)
NoSubscriberUnsubscribed ==
    (alive /\ conn = 1) =>
        \A t \in srvSubscribed :
            handles[t] # {} \/ \E u \in Subs : TopicOf[u] = t /\ (pc[u] # "idle" \/ phase[u] = "failed")

(***************************************************************************)
(* A live publisher's topic is advertised at the server, across failed     *)
(* writes and reconnects, unless another publisher of the topic was        *)
(* dropped: unadvertise removes the record before it has the writer, so    *)
(* that its message may follow the one of an advertise made in between.    *)
(***************************************************************************)
NoneDropped(t) == \A q \in Pubs : TopicOf[q] = t => phase[q] \notin {"closing", "closed"}

LivePublisherAdvertised ==
    Restored =>
        \A p \in Pubs :
            phase[p] = "live" /\ NoneDropped(TopicOf[p]) => TopicOf[p] \in srvAdvertised

(* Advertising a topic that has a publisher "is not currently supported and  *)
(* will result in an error" (client.rs:271), so that no publisher is there   *)
(* when another of the topic is dropped, and un-advertises it.               *)
OnePublisherPerTopic ==
    \A p, q \in Pubs :
        phase[p] = "live" /\ phase[q] = "live" /\ TopicOf[p] = TopicOf[q] => p = q

(***************************************************************************)
(* Who waits for whom, with no timeout to end it.  One that queues for the *)
(* client's lock behind the spin task's write request waits for everyone   *)
(* that still has a read half.                                             *)
(***************************************************************************)
Queued == {"queuedOpts", "queued", "queuedAgain"}

WaitsFor(a, b) ==
    /\ ~ Limited(a)
    /\ \/ pc[a] \in Queued /\ spin = "wantWrite" /\ b \in Readers
       \/ pc[a] = "tracked" /\ b = writer
       \/ pc[a] = "locked" /\ a \in Servers /\ phase[a] = "opening" /\ b = writer
       \/ pc[a] = "locked" /\ a \in Subs /\ b = guard[TopicOf[a]]

Circle(s) == s # {} /\ \A a \in s : \E b \in s : WaitsFor(a, b)

(***************************************************************************)
(* Of the four locks (the client's, the sink's, the entry's guard and the  *)
(* read half subscribe takes twice) the last alone can block everyone for  *)
(* good, and only without a timeout: whoever waits for a lock waits for    *)
(* one that is held, by somebody at work, and where some wait for each     *)
(* other in a circle one of them is a subscribe at its second request.     *)
(***************************************************************************)
OnlySubscribeDeadlocks ==
    /\ \A h \in Handles : pc[h] \in Queued => ReadBlocked
    /\ \A a, b \in Handles : WaitsFor(a, b) => pc[b] # "idle"
    /\ \A s \in SUBSET Handles :
           Circle(s) => ~ HasTimeout /\ \E u \in s \cap Subs : pc[u] = "queuedAgain"

(* The client "attempts to re-establish the connection if it goes down". *)
Reconnects == ~alive ~> (alive /\ spin = "spin")

-----------------------------------------------------------------------------
(***************************************************************************)
(* The inductive invariants behind the safety properties.                  *)
(***************************************************************************)

(* Which kind of handle can be where. *)
KindInv ==
    \A h \in Handles :
        /\ pc[h] \in {"queuedOpts", "lockedOpts", "queuedAgain"} =>
              h \in Subs /\ phase[h] = "opening"
        /\ pc[h] = "checked" => h \in Pubs /\ phase[h] = "opening"
        /\ (h \in Servers /\ pc[h] = "tracked") => phase[h] = "closing"

(* A subscriber's task that is about to write owns its topic's entry. *)
GuardInv ==
    \A u \in Subs : pc[u] \in {"tracked", "sending"} =>
        /\ guard[TopicOf[u]] = u
        /\ phase[u] = "opening" => TopicOf[u] \in subscriptions
        /\ phase[u] # "opening" => handles[TopicOf[u]] = {}

(* A topic with a subscriber has an entry, which a reconnect subscribes. *)
EntryInv == \A t \in Topics : handles[t] # {} => t \in subscriptions

(* A publisher that advertises or has, has a record, which a reconnect sends. *)
RecordInv ==
    \A p \in Pubs :
        /\ NoneDropped(TopicOf[p])
        /\ phase[p] = "live" \/ (phase[p] = "opening" /\ pc[p] \in {"tracked", "sending"})
        => TopicOf[p] \in publishers

(* The first connection ends before the spin task leaves its loop. *)
FirstInv == conn >= 1 /\ (alive /\ conn = 1 => spin = "spin")

(* Who holds the locks: the holder of the sink writes, that of an entry is about *)
(* to, nobody reads while the spin task has the write half, and whoever queues   *)
(* for a read half does so behind the spin task.                                 *)
LockInv ==
    /\ writer # Nobody => pc[writer] = "sending"
    /\ \A t \in Topics : guard[t] # Nobody => pc[guard[t]] \in {"tracked", "sending"}
    /\ WriteHeld => Readers = {}
    /\ \A h \in Handles : pc[h] \in Queued => ReadBlocked
    /\ \A h \in Handles : pc[h] # "idle" => phase[h] \in {"opening", "closing"}

IInv ==
    /\ TypeOK
    /\ KindInv
    /\ GuardInv
    /\ EntryInv
    /\ RecordInv
    /\ FirstInv
    /\ LiveSubscriberSubscribed
    /\ ServiceHandleOwnsEntry
    /\ LivePublisherAdvertised
    /\ NoSubscriberUnsubscribed

=============================================================================
