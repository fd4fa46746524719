------------------------ MODULE MCRosbridgeRegistry ------------------------
(***************************************************************************)
(* Small instances of RosbridgeRegistry for TLC.  Every handle of an       *)
(* instance is opened on t1, except p3, which is opened on t2.              *)
(***************************************************************************)
EXTENDS RosbridgeRegistry

CONSTANTS t1, t2, p1, p2, p3, u1, u2, u3, s1, s2, s3, nobody

None == {}
OneTopic == {t1}
OnePub == {p1}
TwoPubs == {p1, p2}
OneSub == {u1}
TwoSubs == {u1, u2}
TwoServers == {s1, s2}
TopicsOfHandles == [h \in Handles |-> IF h = p3 THEN t2 ELSE t1]


(* Of two handles of a kind the first is opened first: they differ by their *)
(* names only, so that this leaves out no more than the other order.        *)
OpenedInOrder ==
    \A pair \in {<<p1, p2>>, <<u1, u2>>, <<s1, s2>>} :
        {pair[1], pair[2]} \subseteq Handles /\ phase'[pair[2]] # "fresh" =>
            phase'[pair[1]] # "fresh"

MCSpec == Init /\ [][Next /\ OpenedInOrder]_vars /\ Fairness

=============================================================================
