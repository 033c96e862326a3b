--------------------------- MODULE MCAuctionRoom ---------------------------
(* A master's page and a captain's page; one captain, two players. *)
EXTENDS AuctionRoom, TLC

CONSTANTS c1, p1, p2, master, tab1, tab2, h1, h2

MCUsers == {c1, p1, p2}
MCSymmetry == Permutations({p1, p2})

MCEnrolled ==
  [r \in MCUsers |->
     [user |-> r, role |-> IF r = c1 THEN "CAPTAIN" ELSE "PLAYER",
      points |-> IF r = c1 THEN StartPoints ELSE 0,
      team |-> None, price |-> 0, unsold |-> FALSE]]

MCBids == {1}
MCClients == {tab1, tab2}
MCUserOf == [c \in {tab1, tab2} |-> IF c = tab1 THEN master ELSE c1]
MCOneTask == {h1}
MCTwoTasks == {h1, h2}
MCFlaky == {tab2}
MCSteady == {}
MCDirect == {"nextPlayer", "enterAssignmentPhase", "undoSoldPlayer",
             "pauseAuction", "resumeAuction"}
MCNextOnly == {"nextPlayer"}
=============================================================================
