-------------------------- MODULE Ros1Subscription --------------------------
(***************************************************************************)
(* One topic that a ROS 1 node subscribes to: the Subscribers of the       *)
(* application, the node's Subscription, the reader task it keeps for each *)
(* publisher, and the ROS master, which says who publishes.                *)
(*                                                                         *)
(* Source: roslibrust_ros1/src/node/actor.rs (register_subscriber,         *)
(* unregister_subscriber), node/xmlrpc.rs (publisherUpdate) and            *)
(* subscriber.rs (Subscription, publisher_reader_task, Subscriber::drop).  *)
(* The node is behind one mutex, which register_subscriber and             *)
(* unregister_subscriber keep while they wait for the master.  The master  *)
(* is external: it answers a registration with the publishers it knows     *)
(* and later sends every change of them as a publisherUpdate, in order.    *)
(***************************************************************************)
EXTENDS Naturals, Sequences

CONSTANTS
    Subs,          \* Subscriber values, each subscribed and dropped once
    Publishers,    \* XMLRPC URIs of publishers of the topic
    MaxReaders,    \* bound: reader tasks started for each publisher
    MaxUpdates,    \* bound: publisherUpdate calls on their way
    Nobody

(* What Ros1Node assumes of them. *)
SubscriptionConstants ==
    /\ MaxReaders \in Nat /\ MaxUpdates \in Nat
    /\ Nobody \notin Subs

VARIABLES
    phase,        \* life of each Subscriber
    lock,         \* who keeps the node's mutex while it waits for the master
    entry,        \* whether Node::subscriptions has the topic
    answer,       \* the master's answer to a registration under way
    registered,   \* whether the master has the node as a subscriber
    listed,       \* publishers the master knows
    updates,      \* publisherUpdate calls on their way to the node
    overtaken,    \* whether some were when the node registered last
    failed,       \* whether a call of the master has failed
    current,      \* publishers in the last list the node was given
    connections,  \* the reader in the map for each publisher, 0 if none
    started,      \* reader tasks started for each publisher so far
    reader,       \* what each of them does
    cancelled,    \* whether its token is cancelled
    node, killed  \* of the node, see Ros1Publication

nodeVars == <<phase, lock, entry, answer>>
masterVars == <<registered, listed, updates, overtaken, failed>>
readerVars == <<current, connections, started, reader, cancelled>>
life == <<node, killed>>
vars == <<nodeVars, masterVars, readerVars, life>>

Ids == 1 .. MaxReaders

(* "trying" also stands for the pauses between two attempts. *)
ReaderStates == {"unused", "trying", "reading", "gone"}

Phases == {"idle", "wanting", "registering", "answered",
           "live", "dropped", "unregistering", "done"}

TypeOK ==
    /\ phase \in [Subs -> Phases]
    /\ lock \in Subs \cup {Nobody}
    /\ entry \in BOOLEAN
    /\ answer \in SUBSET Publishers
    /\ registered \in BOOLEAN
    /\ listed \in SUBSET Publishers
    /\ updates \in Seq(SUBSET Publishers)
    /\ overtaken \in BOOLEAN /\ failed \in BOOLEAN
    /\ current \in SUBSET Publishers
    /\ connections \in [Publishers -> 0 .. MaxReaders]
    /\ started \in [Publishers -> 0 .. MaxReaders]
    /\ reader \in [Publishers -> [Ids -> ReaderStates]]
    /\ cancelled \in [Publishers -> [Ids -> BOOLEAN]]
    /\ node \in {"up", "left", "gone"} /\ killed \in BOOLEAN

Init ==
    /\ phase = [s \in Subs |-> "idle"]
    /\ lock = Nobody
    /\ entry = FALSE
    /\ answer = {}
    /\ registered = FALSE
    /\ listed \in SUBSET Publishers
    /\ updates = << >>
    /\ overtaken = FALSE /\ failed = FALSE
    /\ current = {}
    /\ connections = [p \in Publishers |-> 0]
    /\ started = [p \in Publishers |-> 0]
    /\ reader = [p \in Publishers |-> [i \in Ids |-> "unused"]]
    /\ cancelled = [p \in Publishers |-> [i \in Ids |-> FALSE]]
    /\ node = "up" /\ killed = FALSE

-----------------------------------------------------------------------------
(***************************************************************************)
(* The publishers a Subscription reads from                                *)
(***************************************************************************)

Running(p, i) == reader[p][i] \in {"trying", "reading"}

(* Mutation: a publisher counts as known once a reader was started for it. *)
StartMissingOnce(list, conns) ==
    LET new == {p \in list : started[p] = 0}
    IN  /\ started' = [p \in Publishers |-> IF p \in new THEN 1 ELSE started[p]]
        /\ connections' = [p \in Publishers |-> IF p \in new THEN 1 ELSE conns[p]]
        /\ reader' = [p \in Publishers |-> [i \in Ids |->
               IF p \in new /\ i = 1 THEN "trying" ELSE reader[p][i]]]
        /\ current' = list

(* add_publisher_source for every publisher of the list: those without an *)
(* entry in the map get one, and a reader task.                           *)
StartMissing(list, conns) ==
    LET new == {p \in list : conns[p] = 0}
    IN  /\ \A p \in new : started[p] < MaxReaders
        /\ started' = [p \in Publishers |-> started[p] + IF p \in new THEN 1 ELSE 0]
        /\ connections' = [p \in Publishers |->
               IF p \in new THEN started[p] + 1 ELSE conns[p]]
        /\ reader' = [p \in Publishers |-> [i \in Ids |->
               IF p \in new /\ i = started[p] + 1 THEN "trying" ELSE reader[p][i]]]
        /\ current' = list

(* The Subscription is dropped: its reader tasks are aborted. *)
AbortReaders ==
    /\ connections' = [p \in Publishers |-> 0]
    /\ reader' = [p \in Publishers |-> [i \in Ids |->
           IF Running(p, i) THEN "gone" ELSE reader[p][i]]]
    /\ current' = {}
    /\ UNCHANGED <<started, cancelled>>

-----------------------------------------------------------------------------
(***************************************************************************)
(* Subscribing and dropping                                                *)
(***************************************************************************)

Become(s, p) == phase' = [phase EXCEPT ![s] = p]

Subscribe(s) ==
    /\ phase[s] = "idle" /\ node = "up"
    /\ Become(s, "wanting")
    /\ UNCHANGED <<lock, entry, answer, masterVars, readerVars, life>>

(* The topic has a Subscription: its channel gets one more receiver. *)
JoinSubscription(s) ==
    /\ phase[s] = "wanting" /\ lock = Nobody
    /\ entry
    /\ Become(s, "live")
    /\ UNCHANGED <<lock, entry, answer, masterVars, readerVars, life>>

(* The bound on readers is left to spare here, not with the mutex taken. *)
AskMaster(s) ==
    /\ phase[s] = "wanting" /\ lock = Nobody
    /\ ~ entry /\ \A p \in Publishers : started[p] < MaxReaders
    /\ lock' = s
    /\ Become(s, "registering")
    /\ UNCHANGED <<entry, answer, masterVars, readerVars, life>>

AddSubscription(s) ==
    /\ phase[s] = "answered"
    /\ StartMissing(answer, connections)
    /\ entry' = TRUE
    /\ answer' = {}
    /\ lock' = Nobody
    /\ Become(s, "live")
    /\ UNCHANGED <<masterVars, cancelled, life>>

(* register_subscriber returns early, whether or not the master did it. *)
RegistrationFails(s) ==
    /\ phase[s] \in {"registering", "answered"}
    /\ answer' = {}
    /\ lock' = Nobody
    /\ Become(s, "done")
    /\ failed' = TRUE
    /\ UNCHANGED <<entry, registered, listed, updates, overtaken, readerVars, life>>

(* Subscriber::drop gives the receiver up, then asks the node to clean up. *)
Drop(s) ==
    /\ phase[s] = "live" /\ node # "gone"
    /\ Become(s, "dropped")
    /\ UNCHANGED <<lock, entry, answer, masterVars, readerVars, life>>

(* The weak handle of the node no longer upgrades. *)
DropTooLate(s) ==
    /\ phase[s] = "live" /\ node # "up"
    /\ Become(s, "done")
    /\ UNCHANGED <<lock, entry, answer, masterVars, readerVars, life>>

(* Mutation: the receiver of a Subscriber being dropped still counts. *)
CountDropped == {s \in Subs : phase[s] \in {"live", "dropped"}}

(* Mutation: the receivers of others are not looked at. *)
CountNobody == {}

(* subscriber_count: who has a receiver of the channel. *)
Receivers == {s \in Subs : phase[s] = "live"}

LeaveSubscription(s) ==
    /\ phase[s] = "dropped" /\ lock = Nobody
    /\ ~ entry \/ Receivers # {}
    /\ Become(s, "done")
    /\ UNCHANGED <<lock, entry, answer, masterVars, readerVars, life>>

RemoveSubscription(s) ==
    /\ phase[s] = "dropped" /\ lock = Nobody
    /\ entry /\ Receivers = {}
    /\ entry' = FALSE
    /\ AbortReaders
    /\ lock' = s
    /\ Become(s, "unregistering")
    /\ UNCHANGED <<answer, masterVars, life>>

-----------------------------------------------------------------------------
(***************************************************************************)
(* The master                                                              *)
(***************************************************************************)

MasterRegisters(s) ==
    /\ phase[s] = "registering"
    /\ registered' = TRUE
    /\ answer' = listed
    /\ overtaken' = (updates # << >>)
    /\ Become(s, "answered")
    /\ UNCHANGED <<lock, entry, listed, updates, failed, readerVars, life>>

(* unregister_subscriber ends with the master's answer, good or bad. *)
MasterUnregisters(s) ==
    /\ phase[s] = "unregistering"
    /\ \/ registered' = FALSE /\ UNCHANGED failed
       \/ failed' = TRUE /\ UNCHANGED registered
    /\ lock' = Nobody
    /\ Become(s, "done")
    /\ UNCHANGED <<entry, answer, listed, updates, overtaken, readerVars, life>>

(* A publisher comes or goes. *)
PublishersChange(p) ==
    /\ listed' = IF p \in listed THEN listed \ {p} ELSE listed \cup {p}
    /\ IF registered
         THEN /\ Len(updates) < MaxUpdates
              /\ updates' = Append(updates, listed')
         ELSE UNCHANGED updates
    /\ UNCHANGED <<nodeVars, registered, overtaken, failed, readerVars, life>>

(* publisherUpdate: stale publishers are removed, then new ones are added. *)
PublisherUpdate ==
    /\ lock = Nobody
    /\ updates # << >>
    /\ updates' = Tail(updates)
    /\ IF entry
         THEN LET stale == {p \in Publishers \ Head(updates) : connections[p] # 0}
              IN  /\ cancelled' = [p \in Publishers |-> [i \in Ids |->
                         cancelled[p][i] \/ (p \in stale /\ i = connections[p])]]
                  /\ StartMissing(Head(updates), [p \in Publishers |->
                         IF p \in stale THEN 0 ELSE connections[p]])
         ELSE UNCHANGED readerVars
    /\ UNCHANGED <<nodeVars, registered, listed, overtaken, failed, life>>

(* The node does not answer any more. *)
UpdateLost ==
    /\ killed \/ node # "up"
    /\ updates # << >>
    /\ updates' = Tail(updates)
    /\ UNCHANGED <<nodeVars, registered, listed, overtaken, failed, readerVars, life>>

-----------------------------------------------------------------------------
(***************************************************************************)
(* Node::shutdown                                                          *)
(***************************************************************************)

(* The last NodeHandle goes; a call of subscribe would have kept it. *)
Leave ==
    /\ node = "up"
    /\ \A s \in Subs : phase[s] \notin {"wanting", "registering", "answered"}
    /\ node' = "left"
    /\ UNCHANGED <<nodeVars, masterVars, readerVars, killed>>

(* The topics in the map are unregistered, and stay there. *)
UnregisterAll ==
    /\ IF entry
       THEN \/ registered' = FALSE /\ UNCHANGED failed
            \/ failed' = TRUE /\ UNCHANGED registered
       ELSE UNCHANGED <<registered, failed>>
    /\ UNCHANGED <<listed, updates, overtaken>>

Shutdown ==
    /\ lock = Nobody /\ node # "gone"
    /\ UnregisterAll
    /\ killed' = TRUE
    /\ UNCHANGED <<nodeVars, readerVars, node>>

(* Node::drop, and the map with what it holds. *)
NodeDrops ==
    /\ node = "left"
    /\ \A s \in Subs : phase[s] \notin {"dropped", "unregistering"}
    /\ UnregisterAll
    /\ node' = "gone"
    /\ entry' = FALSE
    /\ AbortReaders
    /\ UNCHANGED <<phase, lock, answer, killed>>

-----------------------------------------------------------------------------
(***************************************************************************)
(* publisher_reader_task                                                   *)
(***************************************************************************)

(* An attempt succeeds, also one that a cancellation came too late for. *)
Connect(p, i) ==
    /\ reader[p][i] = "trying"
    /\ reader' = [reader EXCEPT ![p][i] = "reading"]
    /\ UNCHANGED <<nodeVars, masterVars, current, connections, started, cancelled, life>>

ReadError(p, i) ==
    /\ reader[p][i] = "reading"
    /\ reader' = [reader EXCEPT ![p][i] = "trying"]
    /\ UNCHANGED <<nodeVars, masterVars, current, connections, started, cancelled, life>>

(* A cancelled reader notices at its next select or attempt, which may be *)
(* much later, and removes the map's entry for its publisher.             *)
Exit(p, i) ==
    /\ Running(p, i) /\ cancelled[p][i]
    /\ reader' = [reader EXCEPT ![p][i] = "gone"]
    /\ connections' = [connections EXCEPT ![p] = 0]
    /\ UNCHANGED <<nodeVars, masterVars, current, started, cancelled, life>>

-----------------------------------------------------------------------------

SubscriberStep(s) ==
    \/ JoinSubscription(s) \/ AskMaster(s) \/ AddSubscription(s)
    \/ LeaveSubscription(s) \/ RemoveSubscription(s)
    \/ MasterRegisters(s) \/ MasterUnregisters(s)

ReaderStep(p, i) == Connect(p, i) \/ Exit(p, i)

Next ==
    \/ \E s \in Subs : Subscribe(s) \/ Drop(s) \/ DropTooLate(s) \/ RegistrationFails(s)
    \/ \E s \in Subs : SubscriberStep(s)
    \/ \E p \in Publishers : PublishersChange(p)
    \/ PublisherUpdate \/ UpdateLost
    \/ \E p \in Publishers, i \in Ids : ReaderStep(p, i) \/ ReadError(p, i)
    \/ Leave \/ Shutdown \/ NodeDrops

Spec == Init /\ [][Next]_vars

-----------------------------------------------------------------------------
(***************************************************************************)
(* Properties                                                              *)
(***************************************************************************)

(* A live Subscriber has a Subscription behind it, whatever other           *)
(* Subscribers of the topic come and go: unregister_subscriber never takes  *)
(* it away from one that joined meanwhile.                                  *)
LiveSubscriberServed == \A s \in Subs : phase[s] = "live" => entry \/ node = "gone"

(* A Subscription is registered with the master, which will tell it about   *)
(* publishers, until the node is shut down; and without a Subscription      *)
(* nothing is, unless a call of the master failed.                          *)
SubscriptionRegistered == entry => registered \/ killed
MasterMatches == SubscriptionRegistered /\ (~ failed /\ lock = Nobody /\ registered => entry)

(* There is a reader that keeps trying for every publisher in the last list *)
(* the node was given, also when one that was cancelled before has still to *)
(* notice and cleans up an entry that is no longer its own.                 *)
ListedPublisherRead ==
    entry => \A p \in current : \E i \in Ids : Running(p, i) /\ ~ cancelled[p][i]

(* What makes it inductive: the reader in the map is alive and not cancelled. *)
ReaderInv ==
    /\ \A p \in Publishers : connections[p] # 0 =>
           Running(p, connections[p]) /\ ~ cancelled[p][connections[p]]
    /\ \A p \in Publishers, i \in Ids : i > started[p] =>
           reader[p][i] = "unused" /\ ~ cancelled[p][i]
    /\ ~ entry => current = {} /\ \A p \in Publishers : connections[p] = 0

(* And for the master: who has the mutex, and whether it is removing. *)
LockInv ==
    /\ \A s \in Subs : phase[s] \in {"registering", "answered", "unregistering"} <=> lock = s
    /\ \A s \in Subs : phase[s] = "answered" => registered
    /\ lock # Nobody => ~ entry

(* A Subscription has a Subscriber, or one whose Drop is still to remove it: *)
(* of several that are dropped at a time not each leaves it to another.      *)
EntryHasHandle == entry /\ node = "up" => \E s \in Subs : phase[s] \in {"live", "dropped"}

(* What the end of the node waits for. *)
NodeInv ==
    /\ \A s \in Subs :
         /\ phase[s] \in {"wanting", "registering", "answered"} => node = "up"
         /\ phase[s] \in {"dropped", "unregistering"} => node # "gone"
    /\ node = "gone" => ~ entry

IInv ==
    /\ TypeOK /\ LockInv /\ NodeInv /\ ReaderInv
    /\ LiveSubscriberServed /\ ListedPublisherRead /\ MasterMatches

(* When the last Subscriber is gone the master does not list the node as a  *)
(* subscriber any more, unless a call of it failed (CHANGELOG.md:           *)
(* "subscribers not automatically unsubscribing from the master when        *)
(* dropped").                                                               *)
DroppedUnregistered ==
    <>[](\A s \in Subs : phase[s] \in {"idle", "dropped", "unregistering", "done"})
        => <>[](~ registered) \/ <>failed

(* With no publisherUpdate on its way, the node reads every publisher the   *)
(* master knows.  The exception: updates of an earlier registration that    *)
(* were on their way when the node registered again are applied to the new  *)
(* Subscription, and their older lists replace the newer one.               *)
ReadsAllPublishers ==
    entry /\ node = "up" /\ ~ killed /\ lock = Nobody /\ updates = << >> /\ ~ overtaken =>
        \A p \in listed : \E i \in Ids : Running(p, i) /\ ~ cancelled[p][i]

(* What makes it inductive: the list the node was or will be given last.    *)
InSync ==
    /\ updates = << >> => (entry => current = listed)
    /\ updates = << >> => \A s \in Subs : phase[s] = "answered" => answer = listed
    /\ updates # << >> => updates[Len(updates)] = listed

UpdateInv ==
    /\ node = "up" /\ ~ killed /\ ~ overtaken
    /\ entry \/ \E s \in Subs : phase[s] = "answered"
    => InSync

(* There are never two readers of a publisher, which would deliver each of  *)
(* its messages twice.                                                      *)
OneReaderPerPublisher ==
    \A p \in Publishers, i, j \in Ids :
        Running(p, i) /\ Running(p, j) /\ ~ cancelled[p][i] /\ ~ cancelled[p][j] => i = j

=============================================================================
