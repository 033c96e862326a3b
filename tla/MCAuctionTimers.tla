-------------------------- MODULE MCAuctionTimers --------------------------
(* Two captains draft two players through the gateway. *)
EXTENDS AuctionTimers, TLC

CONSTANTS c1, c2, p1, p2, h1, h2

MCUsers == {c1, c2, p1, p2}

MCEnrolled ==
  [r \in MCUsers |->
     [user |-> r, role |-> IF r \in {c1, c2} THEN "CAPTAIN" ELSE "PLAYER",
      points |-> IF r \in {c1, c2} THEN StartPoints ELSE 0,
      team |-> None, price |-> 0, unsold |-> FALSE]]

MCBids == 1..2
MCOneHandler == {h1}
MCTwoHandlers == {h1, h2}

MCEverything ==
  {"startAuction", "selectPlayer", "placeBid", "confirmBid", "passPlayer", "nextPlayer",
   "pauseAuction", "resumeAuction", "pauseTimer", "resumeTimer", "resetAuction", "undoSoldPlayer",
   "enterAssignmentPhase", "manualAssignPlayer", "completeAuction", "restBid",
   "restSelect"}
MCRest == {"startAuction", "restSelect"}
MCBasic == {"startAuction", "selectPlayer", "placeBid"}
MCWithPass == {"startAuction", "selectPlayer", "placeBid", "passPlayer", "nextPlayer"}
MCPausing == {"startAuction", "selectPlayer", "pauseAuction", "resumeAuction"}
MCRacing ==
  {"startAuction", "selectPlayer", "placeBid", "confirmBid", "passPlayer", "nextPlayer",
   "undoSoldPlayer", "pauseAuction", "resumeAuction", "restBid", "restSelect"}

MCSymmetry == Permutations({c1, c2}) \cup Permutations({p1, p2}) \cup Permutations({h1, h2})
=============================================================================
