------------------------- MODULE Ros1ServiceServers -------------------------
(***************************************************************************)
(* The servers a ROS 1 node advertises for one service name: the handles   *)
(* given to the user, the link that hosts the service in the node's map,   *)
(* and what the ROS master knows.                                          *)
(*                                                                         *)
(* Source: roslibrust_ros1/src/node/actor.rs (register_service_server,     *)
(* unregister_service_server, try_unregister_service_server) and           *)
(* service_server.rs (ServiceServer).  The map holds one link for a name;  *)
(* the look-up for an earlier one uses the service's type as the key, so   *)
(* it finds nothing and a second advertise replaces the link.  A handle    *)
(* knows only its name: its Drop spawns a task that removes whatever link  *)
(* the map then holds.                                                     *)
(***************************************************************************)
EXTENDS FiniteSets

CONSTANTS
    Servers,        \* calls of advertise_service, each with its own link
    Nobody

(* What Ros1Node assumes of them. *)
ServersConstants == Nobody \notin Servers

VARIABLES
    server,         \* the progress of each call, and of the handle it returned
    link,           \* service_servers[name]: whose link, or Nobody
    registered,     \* whose URI the master has, or Nobody
    lock,           \* who holds the node's mutex, or Nobody
    removing,       \* whose link the holder took out of the map
    failed,         \* whether a call of the master has failed
    node, killed    \* of the node, see Ros1Publication

life == <<node, killed>>
vars == <<server, link, registered, lock, removing, failed, life>>

Stages == {"new", "asked", "registering", "held", "failed",
           "dropped", "unregistering", "gone"}

Owner == Servers \cup {Nobody}

TypeOK ==
    /\ server \in [Servers -> Stages]
    /\ link \in Owner /\ registered \in Owner /\ lock \in Owner /\ removing \in Owner
    /\ failed \in BOOLEAN
    /\ node \in {"up", "left", "gone"} /\ killed \in BOOLEAN
    /\ \A s \in Servers : lock = s <=> server[s] \in {"registering", "unregistering"}

Init ==
    /\ server = [s \in Servers |-> "new"]
    /\ link = Nobody /\ registered = Nobody
    /\ lock = Nobody /\ removing = Nobody
    /\ failed = FALSE
    /\ node = "up" /\ killed = FALSE

Becomes(s, stage) == server' = [server EXCEPT ![s] = stage]

Advertise(s) ==
    /\ server[s] = "new" /\ node = "up"
    /\ Becomes(s, "asked")
    /\ UNCHANGED <<link, registered, lock, removing, failed, life>>

(* No socket for the service: nothing has changed. *)
BindFails(s) ==
    /\ server[s] = "asked" /\ lock = Nobody
    /\ Becomes(s, "failed")
    /\ UNCHANGED <<link, registered, lock, removing, failed, life>>

(* A link of the same name is dropped, with its connections. *)
InsertLink(s) ==
    /\ server[s] = "asked" /\ lock = Nobody
    /\ Becomes(s, "registering")
    /\ lock' = s
    /\ link' = s
    /\ UNCHANGED <<registered, removing, failed, life>>

MasterRegisters(s) ==
    /\ server[s] = "registering"
    /\ registered' = s
    /\ lock' = Nobody
    /\ Becomes(s, "held")
    /\ UNCHANGED <<link, removing, failed, life>>

(* The call fails, whether or not the master did it, or the caller's future *)
(* is dropped: no handle is returned, and the link stays.                   *)
RegistrationFails(s) ==
    /\ failed' = TRUE
    /\ server[s] = "registering"
    /\ registered' \in {registered, s}
    /\ lock' = Nobody
    /\ Becomes(s, "failed")
    /\ UNCHANGED <<link, removing, life>>

(* Mutation: the handle is dropped and nothing is spawned. *)
DropQuietly(s) ==
    /\ server[s] = "held"
    /\ Becomes(s, "gone")
    /\ UNCHANGED <<link, registered, lock, removing, failed, life>>

(* Drop of the handle: a task is spawned that waits for the node's mutex. *)
Drop(s) ==
    /\ server[s] = "held" /\ node # "gone"
    /\ Becomes(s, "dropped")
    /\ UNCHANGED <<link, registered, lock, removing, failed, life>>

(* The weak handle of the node no longer upgrades. *)
DropTooLate(s) ==
    /\ server[s] = "held" /\ node # "up"
    /\ Becomes(s, "gone")
    /\ UNCHANGED <<link, registered, lock, removing, failed, life>>

RemoveLink(s) ==
    /\ server[s] = "dropped" /\ lock = Nobody /\ link # Nobody
    /\ removing' = link
    /\ link' = Nobody
    /\ lock' = s
    /\ Becomes(s, "unregistering")
    /\ UNCHANGED <<registered, failed, life>>

NothingToRemove(s) ==
    /\ server[s] = "dropped" /\ lock = Nobody /\ link = Nobody
    /\ Becomes(s, "gone")
    /\ UNCHANGED <<link, registered, lock, removing, failed, life>>

(* Mutation: the URI of the dropped handle's own link is unregistered. *)
UnregisterOwn(s) ==
    /\ server[s] = "unregistering"
    /\ registered' = IF registered = s THEN Nobody ELSE registered
    /\ lock' = Nobody /\ removing' = Nobody
    /\ Becomes(s, "gone")
    /\ UNCHANGED <<link, failed, life>>

(* The master forgets a service only for the URI it has. *)
MasterUnregisters(s) ==
    /\ server[s] = "unregistering"
    /\ registered' = IF registered = removing THEN Nobody ELSE registered
    /\ lock' = Nobody /\ removing' = Nobody
    /\ Becomes(s, "gone")
    /\ UNCHANGED <<link, failed, life>>

UnregisterFails(s) ==
    /\ failed' = TRUE
    /\ server[s] = "unregistering"
    /\ lock' = Nobody /\ removing' = Nobody
    /\ Becomes(s, "gone")
    /\ UNCHANGED <<link, registered, life>>

NodeStep(s) ==
    \/ BindFails(s) \/ InsertLink(s) \/ MasterRegisters(s) \/ RegistrationFails(s)
    \/ RemoveLink(s) \/ NothingToRemove(s) \/ MasterUnregisters(s) \/ UnregisterFails(s)

(* The last NodeHandle goes; a call of advertise_service would have kept it. *)
Leave ==
    /\ node = "up"
    /\ \A s \in Servers : server[s] \notin {"asked", "registering"}
    /\ node' = "left"
    /\ UNCHANGED <<server, link, registered, lock, removing, failed, killed>>

(* Node::shutdown unregisters the services in the map, which stay there. *)
UnregisterAll ==
    IF link # Nobody
    THEN \/ registered' = (IF registered = link THEN Nobody ELSE registered) /\ UNCHANGED failed
         \/ failed' = TRUE /\ UNCHANGED registered
    ELSE UNCHANGED <<registered, failed>>

Shutdown ==
    /\ lock = Nobody /\ node # "gone"
    /\ UnregisterAll
    /\ killed' = TRUE
    /\ UNCHANGED <<server, link, lock, removing, node>>

(* Node::drop: no task is left that holds the node. *)
NodeDrops ==
    /\ node = "left"
    /\ \A s \in Servers : server[s] \notin {"dropped", "unregistering"}
    /\ UnregisterAll
    /\ node' = "gone"
    /\ link' = Nobody
    /\ UNCHANGED <<server, lock, removing, killed>>

Next ==
    \/ \E s \in Servers : Advertise(s) \/ Drop(s) \/ DropTooLate(s) \/ NodeStep(s)
    \/ Leave \/ Shutdown \/ NodeDrops

Spec == Init /\ [][Next]_vars

-----------------------------------------------------------------------------

(* The master has the URI of the link in the map, and none without a link,   *)
(* whoever's handle is dropped, unless a call of it failed; once the node    *)
(* was shut down, it may have none.                                          *)
MasterMatches ==
    ~ failed /\ lock = Nobody => registered = link \/ (killed /\ registered = Nobody)

(* A link in the map has a handle whose Drop is still to remove it, unless a *)
(* registration failed: that leaves its link behind without a handle.        *)
LinkHasHandle ==
    ~ failed /\ link # Nobody =>
        \/ server[link] \in {"registering", "held", "dropped"}
        \/ server[link] = "gone" /\ node = "left"

(* A service with a live handle is without a link only after a handle of the *)
(* same name was dropped, also when other advertise calls fail, as long as   *)
(* the node is there.                                                        *)
OnlyDropsRemove ==
    link = Nobody /\ node # "gone" /\ (\E s \in Servers : server[s] = "held")
        => \E s \in Servers : server[s] \in {"unregistering", "gone"}

(* What makes MasterMatches inductive. *)
LockInv ==
    /\ lock = Nobody <=> \A s \in Servers : server[s] \notin {"registering", "unregistering"}
    /\ lock # Nobody =>
         \/ server[lock] = "registering" /\ link = lock
         \/ server[lock] = "unregistering" /\ link = Nobody
            /\ (failed \/ registered = removing \/ (killed /\ registered = Nobody))
    /\ node = "gone" =>
         link = Nobody /\ \A s \in Servers : server[s] \notin {"dropped", "unregistering"}
    /\ \A s \in Servers : server[s] \in {"asked", "registering"} => node = "up"

IInv == TypeOK /\ LockInv /\ MasterMatches /\ LinkHasHandle /\ OnlyDropsRemove

(* Once every handle that was returned is dropped, the service is gone from  *)
(* the node and from the master, unless a call of the master failed.         *)
EventuallyUnadvertised ==
    <>[](\A s \in Servers :
            server[s] \in {"new", "failed", "dropped", "unregistering", "gone"})
        => <>[](link = Nobody /\ registered = Nobody) \/ <>failed

(* service_server.rs:15: "The underlying ServiceServer is kept alive while   *)
(* object is kept alive", where no other handle of the name is.              *)
KeptAlive ==
    \A s \in Servers :
        node = "up" /\ server[s] = "held" /\ (\A t \in Servers \ {s} : server[t] \in {"new", "dropped", "unregistering", "gone"})
            => link = s

=============================================================================
