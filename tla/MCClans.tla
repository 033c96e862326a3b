------------------------------- MODULE MCClans -------------------------------
(* Clans with three users, two requests at a time. *)
EXTENDS Clans, TLC

CONSTANTS a, b, d, k1, k2, r1, r2, r3, q1, q2, i1, s1, s2

MCUser == {a, b, d}
MCClan == {k1}
MCClans == {k1, k2}
MCRow == {r1, r2, r3}
MCRequest == {q1}
MCRequests == {q1, q2}
MCItem == {i1}
MCNone == {}
MCSession == {s1, s2}

MCSymmetry ==
  Permutations(MCUser) \cup Permutations(MCRow) \cup Permutations(MCSession)
=============================================================================
