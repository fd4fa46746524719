-------------------------- MODULE MessageResolution --------------------------
(***************************************************************************)
(* How the code generator resolves the message files it found: a queue of  *)
(* files, each taken from the front, resolved if all it refers to is, and  *)
(* put back at the end otherwise.  The map of what is resolved begins with *)
(* definitions that come with the code generator (builtin_interfaces/Time, *)
(* Duration, service_msgs/ServiceEventInfo); a file that is found of such  *)
(* a name takes its place.                                                 *)
(*                                                                         *)
(* Source: roslibrust_codegen/src/lib.rs (resolve_dependency_graph and     *)
(* MessageFile::resolve) and ros2_builtin_interfaces.rs.  The order of the *)
(* queue is that of a HashMap.  A file refers to others by their full      *)
(* names; two that are found have the same name when a ROS 1 and a ROS 2   *)
(* package of one name were found.  Of what resolve calculates (md5 sum,   *)
(* hash, definition, fixed length) the model keeps which files it was      *)
(* calculated from.                                                        *)
(***************************************************************************)
EXTENDS Naturals, FiniteSets, Sequences

CONSTANTS
    Files,      \* those found
    Builtins,   \* get_builtin_interfaces()
    FullNames,
    Graphs,     \* [name, refers]: the full name of each file, and those it refers to
    PARSE_LIMIT \* MAX_PARSE_ITER_LIMIT

VARIABLES
    graph,      \* the files' names and references
    queue,      \* unresolved messages: file and seen_count
    resolved,   \* the file resolved under each name, as a set of one or none
    covers,     \* the files each resolved file's sum and definition cover
    outcome     \* what became of it

vars == <<graph, queue, resolved, covers, outcome>>

All == Files \cup Builtins

(* The built-in definitions have names of their own and refer to each other *)
(* only, and not in a circle.                                               *)
BuiltinsFit(g) ==
    /\ \A b, c \in Builtins : g.name[b] = g.name[c] => b = c
    /\ \A b \in Builtins : \A n \in g.refers[b] : \E c \in Builtins : g.name[c] = n
    /\ \A s \in SUBSET Builtins : s # {} =>
           \E b \in s : \A n \in g.refers[b] : \A c \in s : g.name[c] # n

TypeOK ==
    /\ graph \in Graphs
    /\ queue \in Seq([file : Files, seen : Nat])
    /\ resolved \in [FullNames -> SUBSET All]
    /\ covers \in [All -> SUBSET All]
    /\ outcome \in {"running", "resolved", "failed", "recursing"}

Orders == {q \in [1 .. Cardinality(Files) -> Files] : \A f \in Files : \E i \in DOMAIN q : q[i] = f}

(* The files a set of files leads to in one step, by way of the map. *)
Referred(s) == UNION {resolved[n] : n \in UNION {graph.refers[f] : f \in s}}

(* All that f refers to, directly or not: the smallest set that holds what f *)
(* refers to, and with a file what that one refers to.                       *)
Below(f) ==
    {g \in All : \A s \in SUBSET All : Referred({f}) \cup Referred(s) \subseteq s => g \in s}

(* The sum of a file is calculated anew from the sums of those below it, in a *)
(* recursion that has no end if one of them refers to itself.                 *)
Endless(f) == \E g \in {f} \cup Below(f) : g \in Below(g)

(* The map begins with the built-in definitions, each calculated from those *)
(* it refers to.                                                            *)
Init ==
    /\ graph \in Graphs
    /\ \E order \in Orders :
           queue = [i \in DOMAIN order |-> [file |-> order[i], seen |-> 0]]
    /\ resolved = [n \in FullNames |-> {b \in Builtins : graph.name[b] = n}]
    /\ covers = [f \in All |-> IF f \in Builtins THEN {f} \cup Below(f) ELSE {}]
    /\ outcome = "running"

-----------------------------------------------------------------------------

Msg == Head(queue).file

(* Mutation: one reference that is resolved is enough. *)
SomeResolved ==
    graph.refers[Msg] = {} \/ \E n \in graph.refers[Msg] : resolved[n] # {}

FullyResolved == \A n \in graph.refers[Msg] : resolved[n] # {}

(* The loop gives up after the message whose turn it was. *)
After(rest) ==
    outcome' = IF Head(queue).seen > PARSE_LIMIT THEN "failed"
               ELSE IF rest = << >> THEN "resolved" ELSE "running"

(* A file takes the place of what has its name in the map, also a built-in one. *)
Resolve ==
    /\ outcome = "running" /\ queue # << >>
    /\ FullyResolved
    /\ queue' = Tail(queue)
    /\ IF Endless(Msg)
         THEN outcome' = "recursing" /\ UNCHANGED <<resolved, covers>>
         ELSE /\ resolved' = [resolved EXCEPT ![graph.name[Msg]] = {Msg}]
              /\ covers' = [covers EXCEPT ![Msg] = {Msg} \cup Below(Msg)]
              /\ After(Tail(queue))
    /\ UNCHANGED graph

(* Mutation: how often it was seen is not counted. *)
PutBackUncounted ==
    /\ outcome = "running" /\ queue # << >>
    /\ ~ FullyResolved
    /\ queue' = Append(Tail(queue), Head(queue))
    /\ After(queue')
    /\ UNCHANGED <<graph, resolved, covers>>

PutBack ==
    /\ outcome = "running" /\ queue # << >>
    /\ ~ FullyResolved
    /\ queue' = Append(Tail(queue), [Head(queue) EXCEPT !.seen = @ + 1])
    /\ After(queue')
    /\ UNCHANGED <<graph, resolved, covers>>

Next == Resolve \/ PutBack

Spec == Init /\ [][Next]_vars /\ WF_vars(Next)

-----------------------------------------------------------------------------
(***************************************************************************)
(* What the result should be, from the files alone                         *)
(***************************************************************************)

Named(n) == {f \in All : graph.name[f] = n}

(* Files of one name, found twice or found and built in, refer to the same. *)
NamesAgree ==
    \A f, g \in All : graph.name[f] = graph.name[g] => graph.refers[f] = graph.refers[g]

(* The set has the built-in definitions, and each file found if it has one  *)
(* of each name the file refers to.                                         *)
Complete(s) ==
    /\ Builtins \subseteq s
    /\ \A f \in Files : (\A n \in graph.refers[f] : Named(n) \cap s # {}) => f \in s

(* Only the set of all is complete: no file lacks a reference, and none     *)
(* refers to itself but by way of a name that is built in.                  *)
AllResolvable == \A s \in SUBSET All : Complete(s) => s = All

(* Ranks that fall along every reference: with one that ends at the limit,  *)
(* no chain of references is longer.                                        *)
Ranks ==
    {rank \in [Files -> 0 .. PARSE_LIMIT] :
        \A f \in Files : \A n \in graph.refers[f] :
            \E g \in Named(n) : g \in Builtins \/ rank[g] < rank[f]}

(* All that a file refers to, directly or not, whatever was resolved: the   *)
(* smallest set that holds it, and with a file those of each name in it.    *)
Closure(f) ==
    {g \in All : \A s \in SUBSET All :
        (f \in s /\ \A h \in s : \A n \in graph.refers[h] : Named(n) \subseteq s) => g \in s}

(* Where files of one name refer to the same: whatever the order, a file    *)
(* that is resolved is resolved from all it refers to and nothing else,     *)
(* from one file of each name.  Of a found file and the built-in one it     *)
(* replaces, it is the one that was in the map then.                        *)
CoversAll ==
    NamesAgree => \A f \in All : covers[f] # {} =>
        /\ f \in covers[f] /\ covers[f] \subseteq Closure(f)
        /\ \A g \in Closure(f) : \E h \in covers[f] : graph.name[h] = graph.name[g]
        /\ \A g, h \in covers[f] : graph.name[g] = graph.name[h] => g = h

(* It ends: with every file resolved if each can be and no chain of         *)
(* references is longer than the limit, and with an error if one cannot.    *)
(* Where files of one name refer to the same, the recursion always ends.    *)
EndsRight ==
    /\ outcome = "resolved" => AllResolvable
    /\ outcome = "failed" => Ranks = {}
    /\ NamesAgree => outcome # "recursing"

ResolvesRight == CoversAll /\ EndsRight

-----------------------------------------------------------------------------
(***************************************************************************)
(* Why it is right: the inductive invariant                                *)
(***************************************************************************)

(* The files that were resolved, and those of them in the map. *)
Finished == {f \in All : covers[f] # {}}
Done == {f \in All : f \in resolved[graph.name[f]]}

(* The map has one file, a finished one, of each name of a finished file. *)
ResolvedByName ==
    /\ \A n \in FullNames : resolved[n] \subseteq Named(n) \cap Finished
    /\ \A n \in FullNames : \A f, g \in resolved[n] : f = g
    /\ \A f \in Finished : resolved[graph.name[f]] # {}

(* What is resolved refers only to what is resolved, ... *)
FinishedClosed == \A f \in Finished : \A n \in graph.refers[f] : resolved[n] # {}

(* ... so that each could be, ... *)
Supplied == \A s \in SUBSET All : Complete(s) => Finished \subseteq s

(* ... and in the map nothing refers to itself, unless names disagree. *)
Grounded ==
    \A s \in SUBSET Done : s # {} =>
        \E f \in s : \A n \in graph.refers[f] : resolved[n] \cap s = {}

RestQueued ==
    outcome # "recursing" =>
        \A f \in Files \ Finished : \E i \in DOMAIN queue : queue[i].file = f

(* The queue is gone through in rounds: who is first was seen least often. *)
InRounds ==
    \A i, j \in DOMAIN queue : i < j =>
        queue[i].seen <= queue[j].seen /\ queue[j].seen <= queue[i].seen + 1

(* Nobody is put back more often than the chains below it are long. *)
WithinRank ==
    \A rank \in Ranks : \A i \in DOMAIN queue : queue[i].seen <= rank[queue[i].file]

Ended ==
    /\ outcome = "resolved" => queue = << >>
    /\ outcome = "failed" => Ranks = {}

IInv ==
    /\ TypeOK
    /\ Builtins \subseteq Finished
    /\ ResolvedByName /\ FinishedClosed /\ Supplied
    /\ RestQueued /\ InRounds /\ WithinRank /\ Ended
    /\ NamesAgree => Grounded /\ outcome # "recursing"
    /\ CoversAll

(* The build script does not hang.                                          *)
Terminates == <>(outcome # "running")

=============================================================================
