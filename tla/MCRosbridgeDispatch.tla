------------------------ MODULE MCRosbridgeDispatch ------------------------
(* Small instances of RosbridgeDispatch for TLC. *)
EXTENDS RosbridgeDispatch

CONSTANTS r1, r2, p1, u1, u2, o1, n1

None == {}
OneRequest == {r1}
TwoRequests == {r1, r2}
OnePublication == {p1}
TwoSubs == {u1, u2}
OneOld == {o1}
OneNew == {n1}

FirstOld == [r \in Requests |-> o1]

(* The second request comes where there is no second Subscriber and no *)
(* service to advertise.                                               *)
Fewer == r2 \notin sent \/ (pc[u2] = "idle" /\ pc[n1] = "idle")

MCSpec == Init /\ [][Next /\ Fewer']_vars /\ Fairness

=============================================================================
