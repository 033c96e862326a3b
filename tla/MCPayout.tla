------------------------------ MODULE MCPayout ------------------------------
(* Two payouts of an auction whose participants share two members. *)
EXTENDS Payout, TLC

CONSTANTS u1, u2, r1, r2, k1, k2

MCUser == {u1, u2}
MCLeaver == {u2}
MCEntryRole == {"PLAYER"}
MCRow == {r1, r2}
MCCall == {k1, k2}
MCAmount == {-1, 1}
MCDelta == {-1, 0, 1}
MCReward == {1}

MCSymmetry == Permutations(MCRow) \cup Permutations(MCCall)
=============================================================================
