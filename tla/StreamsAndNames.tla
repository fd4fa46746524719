--------------------------- MODULE StreamsAndNames ---------------------------
(***************************************************************************)
(* Six small machines that share no state: the messages of a ROS 1         *)
(* publication, the queue of a rosbridge Subscriber, the channels of an    *)
(* MCAP file, zenoh's discovery, and the code generator's search for       *)
(* packages and resolution of messages.  "part" is the one that runs in a  *)
(* behaviour; the others stay at one of their initial states.              *)
(***************************************************************************)
EXTENDS PublicationStream, QueueConstants, FiniteSets

CONSTANTS
    Writers, Topics, MessageTypes, TypeName, MaxWritten, MaxHandles, None,
    Declarations, Types, LOST_AFTER, MaxDelay,
    PackageNames, Versions, MaxPackages,
    Files, Builtins, FullNames, Graphs, PARSE_LIMIT

ASSUME QueueAssumption == QueueSizes

ASSUME TypesAssumption == None \notin MessageTypes

ASSUME DiscoveryAssumption == MaxDelay \in Nat /\ LOST_AFTER \in Nat /\ MaxDelay < LOST_AFTER

ASSUME FilesAssumption ==
    /\ IsFiniteSet(Files) /\ Files \cap Builtins = {}
    /\ PARSE_LIMIT \in Nat
    /\ Graphs \subseteq [name : [Files \cup Builtins -> FullNames],
                         refers : [Files \cup Builtins -> SUBSET FullNames]]

(* No message refers to another: what the resolution has where it does not run. *)
NoGraph == {[name |-> [f \in Files \cup Builtins |-> f],
             refers |-> [f \in Files \cup Builtins |-> {}]]}

VARIABLES
    part,
    \* SubscriberQueue
    queue, received, producer, pc, returned, newest, given, since, overlapped,
    \* McapChannels
    schemas, channels, records, handles, file, finished,
    \* ZenohDiscovery
    typeOf, task, due, wire, facts, age, check, heard, gone,
    \* PackageSearch
    packages, at, map,
    \* MessageResolution
    graph, unresolved, resolved, covers, outcome

queueVars == <<queue, received, producer, pc, returned, newest, given, since, overlapped>>
mcapVars == <<schemas, channels, records, handles, file, finished>>
zenohVars == <<typeOf, task, due, wire, facts, age, check, heard, gone>>
searchVars == <<packages, at, map>>
graphVars == <<graph, unresolved, resolved, covers, outcome>>
allVars == <<part, vars, queueVars, mcapVars, zenohVars, searchVars, graphVars>>

Queue == INSTANCE SubscriberQueue WITH got <- given
Mcap == INSTANCE McapChannels WITH Types <- MessageTypes
Zenoh == INSTANCE ZenohDiscovery
Search == INSTANCE PackageSearch
Resolution == INSTANCE MessageResolution WITH queue <- unresolved
Idle == INSTANCE MessageResolution WITH queue <- unresolved, Graphs <- NoGraph

ASSUME BuiltinsAssumption == \A g \in Graphs : Resolution!BuiltinsFit(g)

Parts == {"stream", "queue", "mcap", "zenoh", "search", "resolution"}

AnyInit ==
    /\ part \in Parts
    /\ Init /\ Queue!Init /\ Mcap!Init /\ Zenoh!Init
    /\ Search!Init /\ (part = "search" \/ packages = << >>)
    /\ IF part = "resolution" THEN Resolution!Init ELSE Idle!Init

AnyNext ==
    /\ UNCHANGED part
    /\ \/ /\ part = "stream" /\ Next
          /\ UNCHANGED <<queueVars, mcapVars, zenohVars, searchVars, graphVars>>
       \/ /\ part = "queue" /\ Queue!Next
          /\ UNCHANGED <<vars, mcapVars, zenohVars, searchVars, graphVars>>
       \/ /\ part = "mcap" /\ Mcap!Next
          /\ UNCHANGED <<vars, queueVars, zenohVars, searchVars, graphVars>>
       \/ /\ part = "zenoh" /\ Zenoh!Next
          /\ UNCHANGED <<vars, queueVars, mcapVars, searchVars, graphVars>>
       \/ /\ part = "search" /\ Search!Next
          /\ UNCHANGED <<vars, queueVars, mcapVars, zenohVars, graphVars>>
       \/ /\ part = "resolution" /\ Resolution!Next
          /\ UNCHANGED <<vars, queueVars, mcapVars, zenohVars, searchVars>>

(* Nothing is asked of the resolution where another part runs. *)
AnyFairness ==
    /\ Fairness
    /\ WF_graphVars(part = "resolution" /\ Resolution!Next)

AnySpec == AnyInit /\ [][AnyNext]_allVars /\ AnyFairness

-----------------------------------------------------------------------------
(* rosbridge: a message that nobody else took is the newest one, or still   *)
(* in the queue, while calls of two consumers do not overlap.               *)
NewestKept == Queue!NewestKept

(* rosbridge: no consumer is given an older message after a newer one.      *)
NeverBackInTime == Queue!NeverBackInTime

(* rosbridge: most_recent returns nothing older than what was newest when   *)
(* it was called.                                                           *)
MostRecentIsRecent == Queue!MostRecentIsRecent

(* MCAP: what is written with a writer's own handle is read under the same  *)
(* topic, and with the same type.                                           *)
ReadAsWritten == Mcap!ReadAsWritten

(* zenoh: a declaration that lives stays known once it was heard.           *)
LiveStaysKnown == Zenoh!LiveStaysKnown

(* zenoh: what is known was declared a moment ago.                          *)
KnownIsRecent == Zenoh!KnownIsRecent

(* Code generation: messages are resolved exactly if they can be, and each  *)
(* from all it refers to, in whatever order they were found and whichever   *)
(* of the built-in definitions are among them.                              *)
ResolvesRight == part = "resolution" => Resolution!ResolvesRight

(* Code generation: the resolution ends.                                    *)
Terminates == part = "resolution" => Resolution!Terminates

=============================================================================
