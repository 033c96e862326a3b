---------------------------- MODULE MCBettingTx ----------------------------
(* One match, two teams, and a few markets of it. *)
EXTENDS BettingTx, TLC

CONSTANTS u1, u2, m1, ta, tb, fx, w1, w2, r1

MCUsers == {u1, u2}
MCOneUser == {u1}
MCMatch == {m1}
MCTeams == {ta, tb}
MCNone == {}
MCOne == {1}
MCAmounts == {0, 1, 2}

MCWinOnly == {w1}
MCWinAndRank == {w1, r1}
MCTwoWins == {w1, w2}
MCMatchOf == [k \in Market |-> m1]
MCRake == [k \in Market |-> 3000]

(* All teams placed, a place out of range, and an empty object. *)
MCPlacements == {[t \in {ta, tb} |-> IF t = ta THEN 2 ELSE 1], [t \in {ta} |-> 5], [t \in {} |-> 1]}

MCSymmetry == Permutations(MCUsers)
=============================================================================
