----------------------------- MODULE MCLedgerTx -----------------------------
(* Two database sessions over two or three users. *)
EXTENDS LedgerTx, TLC

CONSTANTS u1, u2, u3, s1, s2, s3

Pay(from, to, amt) == [from |-> from, to |-> to, amt |-> amt]

MCUsers == {u1, u2}
MCSessions == {s1, s2}
MCThreeSessions == {s1, s2, s3}
MCAmount == {1, 2}

(* Gifts in both directions, a reward and a purchase. *)
MCSingles == {<<Pay(u1, u2, 1)>>, <<Pay(u2, u1, 2)>>, <<Pay(SINK, u1, 2)>>, <<Pay(u2, SINK, 1)>>}

(* Settlements that pay the same two users in opposite orders, and a gift. *)
MCSettlements ==
  {<<Pay(SINK, u1, 1), Pay(SINK, u2, 2)>>, <<Pay(SINK, u2, 1), Pay(SINK, u1, 1)>>,
   <<Pay(u1, u2, 1)>>}

(* Gifts and settlements side by side. *)
MCServices == MCSingles \cup MCSettlements

MCSaved == {u2}
MCNone == {}
=============================================================================
