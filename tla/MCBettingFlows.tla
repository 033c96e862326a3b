--------------------------- MODULE MCBettingFlows ---------------------------
(* One match, two teams and a market of each type. *)
EXTENDS MatchPages

CONSTANTS u1, m1, ta, tb, w1, r1, d1

MCUsers == {u1}
MCMatch == {m1}
MCTeams == {ta, tb}
MCMarkets == {w1, r1}
MCWin == {w1}
MCNone == {}
MCMatchOf == [k \in Market |-> m1]

(* A rake that leaves the winners nothing. *)
MCRake == [k \in Market |-> 10000]

MCPlacements == {[t \in {ta, tb} |-> IF t = ta THEN 2 ELSE 1]}
MCAmounts == {1}
MCSessions == {d1}
=============================================================================
