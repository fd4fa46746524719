---------------------------- MODULE MCRos1Node ----------------------------
(***************************************************************************)
(* Small instances of Ros1Node for TLC: in each behaviour only the members *)
(* of one crew ever begin anything, which the specification allows, as     *)
(* nobody has to.                                                          *)
(***************************************************************************)
EXTENDS Ros1Node

CONSTANTS p1, p2, c1, s1, s2, k1, u1, u2, a, b

TwoPubs == {p1, p2}
OneConn == {c1}
TwoServers == {s1, s2}
OneCaller == {k1}
TwoSubs == {u1, u2}
TwoPublishers == {a, b}

VARIABLE crew

Crews == {{p1, p2, c1, k1, "kill"}, {p1, p2, s1, k1}, {p1, s1, s2, "kill"},
          {u1, u2, a}, {u1, a, b}, {u1, a, "kill"}, {u1, s1, a, k1}}

IdleStay ==
    /\ \A p \in Pubs \ crew : phase'[p] = "idle"
    /\ \A s \in Servers \ crew : server'[s] = "new"
    /\ \A c \in Conns \ crew : conn'[c] = "absent"
    /\ \A c \in Callers \ crew : caller'[c] = "idle"
    /\ \A u \in Subs \ crew : subscriber'[u] = "idle"
    /\ \A p \in Publishers : p \in crew \/ p \notin listed'
    /\ "kill" \in crew \/ kill' = "none"

MCInit == Init /\ crew \in Crews /\ listed \subseteq crew
MCNext == Next /\ IdleStay /\ UNCHANGED crew
MCSpec == MCInit /\ [][MCNext]_<<vars, crew>> /\ Fairness
=============================================================================
