-------------------------- MODULE MCStreamsAndNames --------------------------
EXTENDS StreamsAndNames

CONSTANTS c1, c2, f1, f2, f3, missing, time, info

TwoConns == {c1, c2}
OneConn == {c1}

(* The third type has a name of its own, the first two share one. *)
Named == [t \in 1 .. 3 |-> IF t = 3 THEN 3 ELSE 1]

ThreeFiles == {f1, f2, f3}
TimeAndInfo == {time, info}
FileNames == ThreeFiles \cup TimeAndInfo \cup {missing}

(* References among three files, to a missing one, to the built-in ones and *)
(* of a file to itself; with names of their own, with one name for two of   *)
(* them, and with the name of a built-in one for one.                       *)
AllGraphs ==
    {[name |-> [f \in ThreeFiles \cup TimeAndInfo |-> IF f = f3 THEN third ELSE f],
      refers |-> [f \in ThreeFiles \cup TimeAndInfo |->
                     CASE f = f1 -> a [] f = f2 -> b [] f = f3 -> c
                       [] f = info -> {time} [] f = time -> {}]] :
        third \in {f2, f3, time}, a \in SUBSET {f2, f3, missing, time},
        b \in SUBSET {f1, f2, info}, c \in SUBSET {f1, f2}}

(* Of the parts with many initial states, those that do not run have one. *)
(* The first declaration's type is "t": which one it is makes no odds.    *)
MCInit ==
    /\ AnyInit
    /\ part = "stream" \/ topic = "plain"
    /\ typeOf[1] = "t" /\ (part = "zenoh" \/ typeOf[2] = "t")
    /\ part = "resolution" \/ (unresolved[1].file = f1 /\ unresolved[2].file = f2)

MCSpec == MCInit /\ [][AnyNext]_allVars /\ AnyFairness

=============================================================================
