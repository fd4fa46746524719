--------------------------- MODULE Ros1Publication ---------------------------
(***************************************************************************)
(* The life of one topic that a ROS 1 node publishes: the Publishers of    *)
(* the application, the Publication in Node::publishers, the task that     *)
(* accepts its subscribers and watches for the last Publisher to go, the   *)
(* cleanup it spawns, and the registration with the master.                *)
(*                                                                         *)
(* Source: roslibrust_ros1/src/node/actor.rs (register_publisher,          *)
(* unregister_publisher, try_unregister_publisher) and publisher.rs        *)
(* (Publication::new, tcp_accept_task).  Every Publisher holds a sender of *)
(* the shutdown channel; the channel closes for good with the last one.    *)
(* What is sent to subscribers is in PublicationStream.                    *)
(***************************************************************************)
EXTENDS Naturals

CONSTANTS
    Pubs,           \* Publisher values, each advertised and dropped once
    Conns,          \* TCP connections of subscribers
    Nobody, Cleaner \* other holders of the mutex

(* What Ros1Node assumes of them. *)
PublicationConstants ==
    /\ Nobody \notin Pubs /\ Cleaner \notin Pubs /\ Nobody # Cleaner

VARIABLES
    phase,       \* life of each Publisher
    lock,        \* who keeps the node's mutex while it waits for the master
    entry,       \* whether Node::publishers has the topic
    accept,      \* the accept task of that Publication
    cleanup,     \* the unregistration that it spawned
    registered,  \* whether the master has the node as a publisher
    failed,      \* whether a call of the master has failed
    conn,        \* connections not yet handed to a writer
    node,        \* whether the application has a NodeHandle, and the Node is there
    killed       \* whether the node was shut down from outside

life == <<node, killed>>
nodeVars == <<phase, lock, entry, cleanup, registered, failed, life>>
vars == <<nodeVars, accept, conn>>

TypeOK ==
    /\ phase \in [Pubs -> {"idle", "wanting", "registering", "live", "refused", "dropped"}]
    /\ lock \in Pubs \cup {Nobody, Cleaner}
    /\ entry \in BOOLEAN
    /\ accept \in {"none", "selecting", "handshake", "ended", "panicked"}
    /\ cleanup \in {"none", "waiting", "asking"}
    /\ registered \in BOOLEAN /\ failed \in BOOLEAN
    /\ conn \in [Conns -> {"absent", "connecting", "handshake", "stalled", "gone"}]
    /\ node \in {"up", "left", "gone"} /\ killed \in BOOLEAN

Init ==
    /\ phase = [p \in Pubs |-> "idle"]
    /\ lock = Nobody
    /\ entry = FALSE
    /\ accept = "none"
    /\ cleanup = "none"
    /\ registered = FALSE /\ failed = FALSE
    /\ conn = [c \in Conns |-> "absent"]
    /\ node = "up" /\ killed = FALSE

-----------------------------------------------------------------------------
(***************************************************************************)
(* Advertising                                                             *)
(***************************************************************************)

Become(p, s) == phase' = [phase EXCEPT ![p] = s]

(* Those with a sender of the shutdown channel, which keep it open. *)
Holders == {p \in Pubs : phase[p] \in {"registering", "live"}}

Advertise(p) ==
    /\ phase[p] = "idle" /\ node = "up"
    /\ Become(p, "wanting")
    /\ UNCHANGED <<lock, entry, cleanup, registered, failed, accept, conn, life>>

ShareEntry(p) ==
    /\ phase[p] = "wanting" /\ lock = Nobody
    /\ entry /\ Holders # {}
    /\ Become(p, "live")
    /\ UNCHANGED <<lock, entry, cleanup, registered, failed, accept, conn, life>>

(* "We still have an entry for a publication, but it has been shutdown" *)
RefuseShutDown(p) ==
    /\ phase[p] = "wanting" /\ lock = Nobody
    /\ entry /\ Holders = {}
    /\ Become(p, "refused")
    /\ UNCHANGED <<lock, entry, cleanup, registered, failed, accept, conn, life>>

MakePublication(p) ==
    /\ phase[p] = "wanting" /\ lock = Nobody
    /\ ~ entry
    /\ entry' = TRUE
    /\ accept' = "selecting"
    /\ lock' = p
    /\ Become(p, "registering")
    /\ UNCHANGED <<cleanup, registered, failed, conn, life>>

MasterRegisters(p) ==
    /\ phase[p] = "registering"
    /\ registered' = TRUE
    /\ lock' = Nobody
    /\ Become(p, "live")
    /\ UNCHANGED <<failed, entry, cleanup, accept, conn, life>>

(* register_publisher returns early and leaves the entry to the accept task, *)
(* which finds the channel closed.  The master may have done its part.       *)
RegistrationFails(p) ==
    /\ phase[p] = "registering"
    /\ registered' \in {registered, TRUE}
    /\ failed' = TRUE
    /\ lock' = Nobody
    /\ Become(p, "refused")
    /\ UNCHANGED <<entry, cleanup, accept, conn, life>>

Drop(p) ==
    /\ phase[p] = "live"
    /\ Become(p, "dropped")
    /\ UNCHANGED <<lock, entry, cleanup, registered, failed, accept, conn, life>>

-----------------------------------------------------------------------------
(***************************************************************************)
(* tcp_accept_task                                                         *)
(***************************************************************************)

ClientConnects(c) ==
    /\ conn[c] = "absent" /\ accept \in {"selecting", "handshake"}
    /\ conn' = [conn EXCEPT ![c] = "connecting"]
    /\ UNCHANGED <<nodeVars, accept>>

Accept(c) ==
    /\ accept = "selecting"
    /\ conn[c] = "connecting"
    /\ accept' = "handshake"
    /\ conn' = [conn EXCEPT ![c] = "handshake"]
    /\ UNCHANGED nodeVars

(* The client sends no header for now, or is going away. *)
Stall(c) ==
    /\ conn[c] = "handshake"
    /\ conn' = [conn EXCEPT ![c] = "stalled"]
    /\ UNCHANGED <<nodeVars, accept>>

(* The connection gets a writer, or is turned away. *)
EndHandshake(c) ==
    /\ accept = "handshake" /\ conn[c] \in {"handshake", "stalled"}
    /\ accept' = "selecting"
    /\ conn' = [conn EXCEPT ![c] = "gone"]
    /\ UNCHANGED nodeVars

(* The task's listener goes with it. *)
HangUp == conn' = [c \in Conns |-> IF conn[c] = "absent" THEN "absent" ELSE "gone"]

(* The client is gone when it should be answered or closed: expect panics. *)
Panic(c) ==
    /\ accept = "handshake" /\ conn[c] = "stalled"
    /\ accept' = "panicked"
    /\ HangUp
    /\ UNCHANGED nodeVars

(* Mutation: nothing is said to the node. *)
EndQuietly ==
    /\ accept = "selecting"
    /\ Holders = {}
    /\ accept' = "ended"
    /\ HangUp
    /\ UNCHANGED nodeVars

NoticeShutdown ==
    /\ accept = "selecting"
    /\ Holders = {}
    /\ accept' = "ended"
    /\ cleanup' = "waiting"
    /\ HangUp
    /\ UNCHANGED <<phase, lock, entry, registered, failed, life>>

(* The weak handle of the node no longer upgrades: nothing is left to do. *)
NoticeTooLate ==
    /\ accept = "selecting" /\ node = "left"
    /\ Holders = {}
    /\ accept' = "ended"
    /\ HangUp
    /\ UNCHANGED nodeVars

-----------------------------------------------------------------------------
(***************************************************************************)
(* The cleanup: unregister_publisher                                       *)
(***************************************************************************)

(* Mutation: the entry goes before the master is asked, and the mutex is not *)
(* kept meanwhile.                                                           *)
CleanupUnlocked ==
    /\ cleanup = "waiting" /\ lock = Nobody
    /\ cleanup' = "asking"
    /\ entry' = FALSE
    /\ accept' = "none"
    /\ UNCHANGED <<phase, lock, registered, failed, conn, life>>

CleanupAsks ==
    /\ cleanup = "waiting" /\ lock = Nobody
    /\ cleanup' = "asking"
    /\ lock' = Cleaner
    /\ UNCHANGED <<phase, entry, registered, failed, accept, conn, life>>

(* The entry is removed whatever the master says. *)
CleanupEnds ==
    /\ cleanup = "asking"
    /\ \/ registered' = FALSE /\ UNCHANGED failed
       \/ failed' = TRUE /\ UNCHANGED registered
    /\ entry' = FALSE
    /\ accept' = "none"
    /\ cleanup' = "none"
    /\ lock' = Nobody
    /\ UNCHANGED <<phase, conn, life>>

-----------------------------------------------------------------------------
(***************************************************************************)
(* Node::shutdown                                                          *)
(***************************************************************************)

(* The last NodeHandle goes; a call of advertise would have kept it. *)
Leave ==
    /\ node = "up"
    /\ \A p \in Pubs : phase[p] \notin {"wanting", "registering"}
    /\ node' = "left"
    /\ UNCHANGED <<phase, lock, entry, cleanup, registered, failed, killed, accept, conn>>

(* The topics in the map are unregistered, and stay there. *)
UnregisterAll ==
    IF entry
    THEN \/ registered' = FALSE /\ UNCHANGED failed
         \/ failed' = TRUE /\ UNCHANGED registered
    ELSE UNCHANGED <<registered, failed>>

Shutdown ==
    /\ lock = Nobody /\ node # "gone"
    /\ UnregisterAll
    /\ killed' = TRUE
    /\ UNCHANGED <<phase, lock, entry, cleanup, node, accept, conn>>

(* Node::drop, and the map with what it holds. *)
NodeDrops ==
    /\ node = "left" /\ cleanup = "none"
    /\ UnregisterAll
    /\ node' = "gone"
    /\ entry' = FALSE
    /\ accept' = "none"
    /\ HangUp
    /\ UNCHANGED <<phase, lock, cleanup, killed>>

-----------------------------------------------------------------------------

PublisherStep(p) ==
    ShareEntry(p) \/ RefuseShutDown(p) \/ MakePublication(p)
        \/ MasterRegisters(p) \/ RegistrationFails(p)

ClientStep(c) ==
    ClientConnects(c) \/ Accept(c) \/ Stall(c) \/ EndHandshake(c) \/ Panic(c)

Next ==
    \/ \E p \in Pubs : Advertise(p) \/ PublisherStep(p) \/ Drop(p)
    \/ \E c \in Conns : ClientStep(c)
    \/ NoticeShutdown \/ NoticeTooLate \/ CleanupAsks \/ CleanupEnds
    \/ Leave \/ Shutdown \/ NodeDrops

Spec == Init /\ [][Next]_vars

-----------------------------------------------------------------------------
(***************************************************************************)
(* Properties                                                              *)
(***************************************************************************)

(* A live Publisher is never left without its Publication: the cleanup of   *)
(* Publishers dropped before removes their entry, and not one that was made *)
(* or shared meanwhile.                                                     *)
LivePublisherKeepsEntry == \A p \in Pubs : phase[p] = "live" => entry \/ node = "gone"

(* And the master knows of it, also when another Publisher of the topic     *)
(* came to be while the registration or unregistration was under way.       *)
LivePublisherRegistered ==
    \A p \in Pubs : phase[p] = "live" => registered \/ killed \/ node = "gone"

(* The master has the topic while the map does, unless the node was shut    *)
(* down or a call failed, and never without the map: when the node is gone  *)
(* it has none.                                                             *)
MasterMatches ==
    ~ failed /\ lock = Nobody => (registered => entry) /\ (entry => registered \/ killed)

(* A Publication has a Publisher, an accept task that is still to notice that *)
(* the last is gone, or its cleanup to come, unless the task panicked.        *)
EntryHasHandle ==
    entry /\ Holders = {} =>
        \/ accept \in {"selecting", "handshake", "panicked"}
        \/ cleanup # "none" \/ node = "left"

(* A cleanup runs only after the channel of the Publication it removes has  *)
(* closed.                                                                  *)
PubInv ==
    /\ cleanup # "none" => accept = "ended"
    /\ accept = "ended" => Holders = {} /\ (cleanup # "none" \/ node = "left")
    /\ entry <=> accept # "none"
    /\ node = "gone" => ~ entry
    /\ lock = Cleaner <=> cleanup = "asking"
    /\ \A p \in Pubs : phase[p] = "registering" <=> lock = p
    /\ \A p \in Pubs : phase[p] = "registering" => entry /\ accept # "ended" /\ Holders = {p}
    /\ \A p \in Pubs : phase[p] \in {"wanting", "registering"} => node = "up"

IInv ==
    /\ TypeOK /\ PubInv /\ MasterMatches
    /\ LivePublisherKeepsEntry /\ LivePublisherRegistered

(* When the last Publisher is dropped, the Publication is dropped           *)
(* eventually and the master told (publisher.rs:197), if the clients that   *)
(* connect finish their handshakes: one that stays silent, or resets its    *)
(* connection, keeps the accept task from noticing, or kills it.            *)
Abandoned == entry /\ Holders = {} /\ lock = Nobody
Cleared ==
    \/ ~ entry /\ (failed \/ ~ registered)
    \/ accept = "panicked" \/ \E c \in Conns : conn[c] = "stalled"
EventuallyDropped == Abandoned ~> Cleared

=============================================================================
