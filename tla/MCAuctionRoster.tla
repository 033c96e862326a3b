-------------------------- MODULE MCAuctionRoster --------------------------
(* Two or three users enrol in an empty auction. *)
EXTENDS AuctionRoster, TLC

CONSTANTS a, b, r1, r2, r3

MCUsers == {a, b}
MCRows == {r1, r2, r3}
MCEmpty == [r \in MCRows |-> None]
MCStart == {1, 2}
MCTeams == {1, 2}
MCNoBids == {}
=============================================================================
