------------------------- MODULE MCRos1Subscription -------------------------
(* Small instances of Ros1Subscription for TLC. *)
EXTENDS Ros1Subscription

CONSTANTS s1, s2, a, b

OneSub == {s1}
TwoSubs == {s1, s2}
TwoPublishers == {a, b}

=============================================================================
