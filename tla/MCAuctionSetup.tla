--------------------------- MODULE MCAuctionSetup ---------------------------
(* The users of MCAuctionRoster, one new value of each setting, and the page. *)
EXTENDS MCAuctionRoster, AuctionSetup

MCNewStart == {1}
MCNewTeams == {1}

MCSymmetry == Permutations(MCUsers)
=============================================================================
