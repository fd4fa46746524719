------------------------------ MODULE Ros1Node ------------------------------
(***************************************************************************)
(* One ROS 1 node that publishes a topic, subscribes to another, serves a  *)
(* service and calls services of others: what Ros1Publication,             *)
(* Ros1Subscription and Ros1ServiceServers say of the first three, that    *)
(* all share the node's mutex, and how the node ends.                      *)
(*                                                                         *)
(* Source: roslibrust_ros1/src/node/actor.rs.  NodeServerHandle::node is   *)
(* one Mutex around all the records of the node.  Whoever registers or     *)
(* unregisters anything keeps it while it waits for the master, so every   *)
(* other operation of the node waits for the same answer; a service client *)
(* keeps it also while it waits for the service.                           *)
(***************************************************************************)
EXTENDS Naturals, Sequences

CONSTANTS
    Pubs, Conns, Cleaner,           \* of the topic, see Ros1Publication
    Servers,                        \* of the service, see Ros1ServiceServers
    Subs, Publishers,               \* of the other topic, see Ros1Subscription
    MaxReaders, MaxUpdates,         \* bounds of it
    Callers,                        \* calls of service_client
    Nobody

VARIABLES
    lock,                                                       \* the node's mutex
    phase, entry, accept, cleanup, conn, registered, failed,    \* of the topic
    server, link, removing, provider, lost,                     \* of the service
    subscriber, subscription, answer, subscribed, unknown,      \* of the other topic
    listed, updates, overtaken, current, connections, started, reader, cancelled,
    caller,                                                     \* progress of each Caller
    node,                   \* "up", "left" by the last NodeHandle, "gone" when dropped
    kill,                   \* the shutdown that another node or a tool may ask for
    killed

topicVars == <<phase, entry, accept, cleanup, conn, registered, failed>>
serviceVars == <<server, link, removing, provider, lost>>
subVars == <<subscriber, subscription, answer, subscribed, unknown, listed, updates,
             overtaken, current, connections, started, reader, cancelled>>
life == <<node, kill, killed>>
vars == <<lock, topicVars, serviceVars, subVars, caller, life>>

Topic == INSTANCE Ros1Publication
Service == INSTANCE Ros1ServiceServers WITH registered <- provider, failed <- lost
Sub == INSTANCE Ros1Subscription WITH
    phase <- subscriber, entry <- subscription, registered <- subscribed, failed <- unknown

NodeConstants ==
    /\ Topic!PublicationConstants /\ Service!ServersConstants /\ Sub!SubscriptionConstants
    /\ Servers \cap (Pubs \cup {Cleaner}) = {}
    /\ Subs \cap (Pubs \cup Servers \cup {Cleaner}) = {}
    /\ Callers \cap (Pubs \cup Servers \cup Subs \cup {Cleaner, Nobody}) = {}

ASSUME NodeAssumption == NodeConstants

Init ==
    /\ Topic!Init /\ Service!Init /\ Sub!Init
    /\ caller = [c \in Callers |-> "idle"]
    /\ kill = "none"

(* Some Arc of the Node is left: of the application, whose NodeHandle goes   *)
(* last, or of a task that upgraded its weak handle.                         *)
Held ==
    \/ node = "up"
    \/ cleanup # "none" \/ kill = "asked"
    \/ \E s \in Servers : server[s] \in {"dropped", "unregistering"}
    \/ \E s \in Subs : subscriber[s] \in {"dropped", "unregistering"}

-----------------------------------------------------------------------------
(* Each step finds the mutex as the others left it. *)
Publishing ==
    /\ \/ \E p \in Pubs : Topic!Advertise(p) \/ Topic!PublisherStep(p) \/ Topic!Drop(p)
       \/ \E c \in Conns : Topic!ClientStep(c)
       \/ Held /\ Topic!NoticeShutdown
       \/ ~ Held /\ Topic!NoticeTooLate
       \/ Topic!CleanupAsks \/ Topic!CleanupEnds
    /\ UNCHANGED <<serviceVars, subVars, caller, kill>>

Serving ==
    /\ \E s \in Servers :
         \/ Service!Advertise(s) \/ Service!NodeStep(s)
         \/ Held /\ Service!Drop(s)
         \/ ~ Held /\ Service!DropTooLate(s)
    /\ UNCHANGED <<topicVars, subVars, caller, kill>>

Subscribing ==
    /\ \/ \E s \in Subs :
            \/ Sub!Subscribe(s) \/ Sub!SubscriberStep(s) \/ Sub!RegistrationFails(s)
            \/ Held /\ Sub!Drop(s)
            \/ ~ Held /\ Sub!DropTooLate(s)
       \/ \E p \in Publishers : Sub!PublishersChange(p)
       \/ Held /\ Sub!PublisherUpdate
       \/ (killed \/ ~ Held) /\ Sub!UpdateLost
       \/ \E p \in Publishers, i \in Sub!Ids : Sub!ReaderStep(p, i) \/ Sub!ReadError(p, i)
    /\ UNCHANGED <<topicVars, serviceVars, caller, kill>>

(***************************************************************************)
(* register_service_client: the master is asked where the service is, and  *)
(* the service for a connection.                                           *)
(***************************************************************************)
CallerBecomes(c, s) ==
    /\ caller' = [caller EXCEPT ![c] = s]
    /\ UNCHANGED <<topicVars, serviceVars, subVars, life>>

AskClient(c) == caller[c] = "idle" /\ node = "up" /\ CallerBecomes(c, "wanting") /\ UNCHANGED lock

LookUp(c) == caller[c] = "wanting" /\ lock = Nobody /\ lock' = c /\ CallerBecomes(c, "waiting")

(* It is connected, or one of the two failed. *)
EndClient(c) == caller[c] \in {"waiting", "stalled"} /\ lock' = Nobody /\ CallerBecomes(c, "done")

(* The service accepts the connection, and sends no header for now. *)
ServiceStalls(c) == caller[c] = "waiting" /\ CallerBecomes(c, "stalled") /\ UNCHANGED lock

Calling ==
    \E c \in Callers : AskClient(c) \/ LookUp(c) \/ EndClient(c) \/ ServiceStalls(c)

-----------------------------------------------------------------------------
(***************************************************************************)
(* The end of the node                                                     *)
(***************************************************************************)

Leave ==
    /\ \A c \in Callers : caller[c] \in {"idle", "done"}
    /\ Topic!Leave /\ Service!Leave /\ Sub!Leave
    /\ UNCHANGED <<lock, caller, kill>>

(* The request is answered at once, and a task spawned that waits for the mutex. *)
AskShutdown ==
    /\ kill = "none" /\ Held
    /\ kill' = "asked"
    /\ UNCHANGED <<lock, topicVars, serviceVars, subVars, caller, node, killed>>

(* The application may go on to use the node. *)
Shutdown ==
    /\ kill = "asked" /\ kill' = "done"
    /\ Topic!Shutdown /\ Service!Shutdown /\ Sub!Shutdown
    /\ UNCHANGED caller

NodeDrops ==
    /\ ~ Held
    /\ Topic!NodeDrops /\ Service!NodeDrops /\ Sub!NodeDrops
    /\ UNCHANGED <<caller, kill>>

Next ==
    \/ Publishing \/ Serving \/ Subscribing \/ Calling
    \/ Leave \/ AskShutdown \/ Shutdown \/ NodeDrops

(***************************************************************************)
(* The mutex is handed over and the master answers or fails; a handshake   *)
(* ends unless the client stalls, and a connection to a service unless the *)
(* service does; the Node drops with its last Arc.  Each handle and task   *)
(* acts a few times only, so that whoever waits for the mutex or for its   *)
(* branch of select has it to itself in the end, and weak fairness is      *)
(* enough.  Nobody has to drop a handle, and the application need not end. *)
(***************************************************************************)
OfTopic(A) == A /\ UNCHANGED <<serviceVars, subVars, caller, kill>>
OfService(A) == A /\ UNCHANGED <<topicVars, subVars, caller, kill>>
OfSub(A) == A /\ UNCHANGED <<topicVars, serviceVars, caller, kill>>

Fairness ==
    /\ \A p \in Pubs : WF_vars(OfTopic(Topic!PublisherStep(p)))
    /\ \A s \in Servers : WF_vars(OfService(Service!NodeStep(s)))
    /\ \A s \in Subs : WF_vars(OfSub(Sub!SubscriberStep(s)))
    /\ WF_vars(Held /\ OfSub(Sub!PublisherUpdate))
    /\ WF_vars(Held /\ OfTopic(Topic!NoticeShutdown))
    /\ WF_vars(OfTopic(Topic!CleanupAsks \/ Topic!CleanupEnds))
    /\ \A c \in Conns :
         /\ WF_vars(OfTopic(Topic!Accept(c)))
         /\ WF_vars(conn[c] = "handshake" /\ OfTopic(Topic!EndHandshake(c)))
    /\ \A c \in Callers :
         /\ WF_vars(LookUp(c))
         /\ WF_vars(caller[c] = "waiting" /\ EndClient(c))
    /\ WF_vars(Shutdown) /\ WF_vars(NodeDrops)

Spec == Init /\ [][Next]_vars /\ Fairness

-----------------------------------------------------------------------------
(***************************************************************************)
(* The node as each part sees it: while others keep the mutex, it is as if *)
(* nothing happened.                                                       *)
(***************************************************************************)
TopicLock == IF lock \in Servers \cup Subs \cup Callers THEN Nobody ELSE lock
ServiceLock == IF lock \in Servers THEN lock ELSE Nobody
SubLock == IF lock \in Subs THEN lock ELSE Nobody

TopicView == INSTANCE Ros1Publication WITH lock <- TopicLock
ServiceView == INSTANCE Ros1ServiceServers WITH
    lock <- ServiceLock, registered <- provider, failed <- lost
SubView == INSTANCE Ros1Subscription WITH
    lock <- SubLock, phase <- subscriber, entry <- subscription, registered <- subscribed,
    failed <- unknown

(* Every behaviour of the node is one of each part, so that what is true of  *)
(* a part alone is true of it in the node.                                   *)
KeepsTopic == TopicView!Init /\ [][TopicView!Next]_(TopicView!vars)
KeepsService == ServiceView!Init /\ [][ServiceView!Next]_(ServiceView!vars)
KeepsSubscription == SubView!Init /\ [][SubView!Next]_(SubView!vars)

TypeOK ==
    /\ lock \in Pubs \cup Servers \cup Subs \cup Callers \cup {Cleaner, Nobody}
    /\ TopicView!TypeOK /\ ServiceView!TypeOK /\ SubView!TypeOK
    /\ caller \in [Callers -> {"idle", "wanting", "waiting", "stalled", "done"}]
    /\ \A c \in Callers : lock = c <=> caller[c] \in {"waiting", "stalled"}
    /\ kill \in {"none", "asked", "done"}

(* A live Publisher is not left without its Publication, and the master      *)
(* knows of it, whatever Publishers dropped before and services do with the  *)
(* node's records meanwhile, as long as the node is there and was not shut   *)
(* down from outside.                                                        *)
LivePublisherServed ==
    TopicView!LivePublisherKeepsEntry /\ TopicView!LivePublisherRegistered

(* The master has what the node's maps hold, whoever's handle is dropped,    *)
(* unless a call of it failed or the node was shut down; and it never has    *)
(* what they do not hold: a node that is dropped "appears fully dead to ROS" *)
(* (actor.rs:702), also one that was used after its shutdown.                *)
MasterMatches ==
    TopicView!MasterMatches /\ ServiceView!MasterMatches /\ SubView!MasterMatches

(* A live Subscriber has a Subscription behind it, whatever other            *)
(* Subscribers of the topic come and go: unregister_subscriber never takes   *)
(* it away from one that joined meanwhile.                                   *)
LiveSubscriberServed == SubView!LiveSubscriberServed

(* There is a reader that keeps trying for every publisher in the last list  *)
(* the node was given, also when one that was cancelled before has still to  *)
(* notice and cleans up an entry that is no longer its own.                  *)
ListedPublisherRead == SubView!ListedPublisherRead

(* With no publisherUpdate on its way, the node reads every publisher the    *)
(* master knows.  The exception: updates of an earlier registration that     *)
(* were on their way when the node registered again are applied to the new   *)
(* Subscription, and their older lists replace the newer one.                *)
ReadsAllPublishers == SubView!ReadsAllPublishers

(* A service with a live handle loses its link only to a drop of a handle of *)
(* the same name, also when other advertise calls fail.                      *)
OnlyDropsRemove == ServiceView!OnlyDropsRemove

(* No live handle is without its record in the node.                         *)
LiveHandlesServed == LivePublisherServed /\ LiveSubscriberServed /\ OnlyDropsRemove

(* And no record in the node is left behind: each has a handle, or a task or *)
(* a Drop that is still to remove it, however many handles of a topic are    *)
(* dropped at the same time.  (The exceptions: an accept task that panicked, *)
(* a registration of a service that failed.)                                 *)
NothingLeftBehind ==
    TopicView!EntryHasHandle /\ ServiceView!LinkHasHandle /\ SubView!EntryHasHandle

(* Node::drop finds the mutex free, and no entry without its channel.        *)
EndInv ==
    /\ \A c \in Callers : caller[c] \in {"wanting", "waiting", "stalled"} => node = "up"
    /\ node = "gone" => kill # "asked"

IInv ==
    /\ TypeOK /\ EndInv
    /\ TopicView!IInv /\ ServiceView!IInv /\ SubView!IInv /\ SubView!UpdateInv

(* Everyone waits for a service that does not answer. *)
Hung == \E c \in Callers : caller[c] = "stalled"

(* When the last Publisher is dropped, the Publication is dropped and the    *)
(* master told, although services and clients keep the mutex for their own   *)
(* calls, and although the node may go meanwhile: unless a service that is   *)
(* to be called stalls.                                                      *)
EventuallyDropped == Topic!Abandoned ~> (Topic!Cleared \/ Hung)

(* Once every handle of the service is dropped, it is gone from the node and *)
(* from the master, unless a call of the master failed or a service stalls.  *)
EventuallyUnadvertised == Service!EventuallyUnadvertised \/ <>Hung

(* When the last Subscriber is gone the master does not list the node as a   *)
(* subscriber any more (CHANGELOG.md: "subscribers not automatically         *)
(* unsubscribing from the master when dropped"), with the same exceptions.   *)
DroppedUnregistered == Sub!DroppedUnregistered \/ <>Hung

(* A service whose handle is live is hosted, where no other handle of its    *)
(* name is live.                                                             *)
KeptAlive == Service!KeptAlive

=============================================================================
