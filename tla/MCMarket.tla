------------------------------ MODULE MCMarket ------------------------------
(* A member who chats with the bot and has attended nothing yet, one who shops *)
(* on the web, one administrator, one voucher product.                        *)
EXTENDS Market, TLC

CONSTANTS u1, u2, p1, o1, o2, k1, k2, i1, c1, c2, d1, a1, a2

MCUsers == {u1, u2}
MCNobody == {}
MCProduct == {p1}
MCOrders == {o1, o2}
MCCoupons == {k1, k2}
MCItems == {i1}
MCOffer == [p \in MCProduct |-> [status |-> "ACTIVE", price |-> 1, stock |-> 1, sold |-> 0]]
MCCouponOf == [k \in MCCoupons |-> p1]
MCLimit == [p \in MCProduct |-> 1]
MCItemPrice == [i \in MCItems |-> 1]
MCQuantity == {1}
MCPrices == {2}
MCStocks == {}

MCClients == {c1, c2}
MCMemberOf == [c \in MCClients |-> IF c = c1 THEN u1 ELSE u2]
MCChat == {c1}
MCAdmin == {a1}

(* For the disagreements: two calls of one member, two administrators. *)
MCTwoClients == {c2, d1}
MCBothOfOne == [c \in MCTwoClients |-> u2]
MCTwoAdmins == {a1, a2}

MCKind == {"days", "matches"}
MCFirst == [k \in MCKind |-> IF k = "days" THEN 2 ELSE 1]
MCNew == [k \in MCKind |-> IF k = "days" THEN {1, 2} ELSE {}]
MCTypos == [k \in MCKind |-> IF k = "days" THEN {Typo} ELSE {}]
MCEarly == [u \in MCUsers |-> [k \in MCKind |-> IF u = u2 THEN 2 ELSE IF k = "matches" THEN 1 ELSE 0]]
MCSheets ==
  {<<[who |-> u1, kind |-> "days", status |-> "ABSENT"],
     [who |-> u1, kind |-> "days", status |-> "LATE"]>>}

MCSymmetry == Permutations(MCOrders) \cup Permutations(MCCoupons)
=============================================================================
