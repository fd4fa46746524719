--------------------------- MODULE MCServiceCalls ---------------------------
(* Two calls over rosbridge and the mock, three over the others, of which   *)
(* one may be cancelled; three mock servers, the last one of another type.  *)
EXTENDS ServiceCalls

CONSTANTS c1, c2, c3, s1, s2, s3

OneCall == {c1}
TwoCalls == {c1, c2}
ThreeCalls == {c1, c2, c3}
ThreeServers == {s1, s2, s3}
TwoTypes == [s \in Servers |-> IF s = s3 THEN "other" ELSE "one"]

=============================================================================
