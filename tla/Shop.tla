-------------------------------- MODULE Shop --------------------------------
(***************************************************************************)
(* The market (modules/shop/shop.service.ts): members buy products and      *)
(* profile items with points, administrators deliver or cancel orders and   *)
(* edit products.                                                          *)
(*                                                                         *)
(* No call locks what it reads first.  Each is two steps: the reads with     *)
(* their checks, and the writes.  The writes of a purchase or a             *)
(* cancellation are one step because the first of them locks the row of the  *)
(* product or of the buyer until the commit, or fails.                      *)
(***************************************************************************)
EXTENDS Ledger, FiniteSetsExt

CONSTANTS
  Product, Order, Coupon, Item,  \* ids of products, orders, coupons, profile items
  Offer,      \* the rows of shop_products when the market opens
  Voucher,    \* products of category VOUCHER
  CouponOf,   \* the product a coupon belongs to
  Limit,      \* purchaseLimit of each product, 0 for none
  ItemPrice,
  Client,     \* clients through which members call, one call at a time each
  MemberOf,   \* the member who uses a client
  Admin,      \* clients of administrators
  Quantity,   \* quantities clients ask for
  NewPrice, NewStock,  \* what an edit may carry
  None        \* null

ProductStatus == {"ACTIVE", "INACTIVE", "OUT_OF_STOCK"}
OrderStatus == {"COMPLETED", "DELIVERED", "CANCELLED"}
ProductRow == [status : ProductStatus, price : Nat, stock : Nat, sold : Int]
OrderRow == [product : Product, buyer : User, quantity : Nat \ {0}, total : Nat, status : OrderStatus]

ASSUME IdAssumption == IsFiniteSet(Order) /\ IsFiniteSet(Coupon) /\ IsFiniteSet(Item)
ASSUME NoneAssumption == None \notin User /\ None \notin OrderRow
ASSUME QuantityAssumption == Quantity \subseteq Int
ASSUME OfferAssumption == Offer \in [Product -> ProductRow]
ASSUME VoucherAssumption == Voucher \subseteq Product /\ CouponOf \in [Coupon -> Product]
ASSUME EditAssumption == NewPrice \subseteq Nat /\ NewStock \subseteq Nat
ASSUME PriceAssumption == Limit \in [Product -> Nat] /\ ItemPrice \in [Item -> Nat \ {0}]
ASSUME ClientAssumption == MemberOf \in [Client -> User] /\ Client \cap Admin = {}

VARIABLES
  product,
  order,   \* None for an id that is not in use
  coupon,  \* the member a coupon is assigned to, None while it is unused
  items,   \* the profile items of each member
  call     \* what each client's call has read and has still to write

vars == <<ledgerVars, product, order, coupon, items, call>>
shopVars == <<product, order, coupon, items>>

Idle == [op |-> "idle"]

Call ==
  {Idle} \cup [op : {"purchase"}, product : Product, quantity : Nat \ {0}, price : Nat]
         \cup [op : {"deliver", "cancel"}, order : Order]
         \cup [op : {"save"}, product : Product, row : ProductRow]
         \cup [op : {"item"}, item : Item]

ShopTypeOK ==
  /\ product \in [Product -> ProductRow]
  /\ order \in [Order -> OrderRow \cup {None}]
  /\ coupon \in [Coupon -> User \cup {None}]
  /\ items \in [User -> SUBSET Item]
  /\ call \in [Client \cup Admin -> Call]

Init ==
  /\ LedgerInit
  /\ product = Offer
  /\ order = [o \in Order |-> None]
  /\ coupon = [k \in Coupon |-> None]
  /\ items = [u \in User |-> {}]
  /\ call = [c \in Client \cup Admin |-> Idle]

-----------------------------------------------------------------------------
Goes(c, what) == call[c] = Idle /\ call' = [call EXCEPT ![c] = what]
Ends(c) == call' = [call EXCEPT ![c] = Idle]

OrdersOf(u, p) ==
  {o \in Order : order[o] # None /\ order[o].buyer = u /\ order[o].product = p
                 /\ order[o].status # "CANCELLED"}

BoughtBy(u, p) == SumFunction([o \in OrdersOf(u, p) |-> order[o].quantity])

(* Mutant: the purchase itself is not counted.                                *)
WithinLimitBefore(u, p, q) == Limit[p] = 0 \/ BoughtBy(u, p) <= Limit[p]

WithinLimit(u, p, q) == Limit[p] = 0 \/ BoughtBy(u, p) + q <= Limit[p]

OnSale(u, p, q) ==
  /\ q > 0
  /\ product[p].status = "ACTIVE" /\ product[p].stock >= q
  /\ WithinLimit(u, p, q)

ReadProduct(c, p, q) ==
  /\ OnSale(MemberOf[c], p, q)
  /\ Goes(c, [op |-> "purchase", product |-> p, quantity |-> q, price |-> product[p].price])
  /\ UNCHANGED <<ledgerVars, shopVars>>

Unused(p) == {k \in Coupon : CouponOf[k] = p /\ coupon[k] = None}

NewOrder(c, o) ==
  order' = [order EXCEPT ![o] =
    [product |-> call[c].product, buyer |-> MemberOf[c], quantity |-> call[c].quantity,
     total |-> call[c].price * call[c].quantity, status |-> "COMPLETED"]]

StockTaken(row, q) ==
  [row EXCEPT !.stock = @ - q, !.sold = @ + q,
              !.status = IF row.stock - q <= 0 THEN "OUT_OF_STOCK" ELSE @]

(* The oldest unused coupons are handed out; which they are makes no difference. *)
HandOut(u, p, q) ==
  IF p \in Voucher
  THEN \E K \in kSubset(q, Unused(p)) :
         coupon' = [k \in Coupon |-> IF k \in K THEN u ELSE coupon[k]]
  ELSE UNCHANGED coupon

(* Mutant: the stock is taken without looking at it again.                       *)
PurchaseUnchecked(c) ==
  /\ call[c].op = "purchase"
  /\ LET u == MemberOf[c] p == call[c].product q == call[c].quantity IN
       /\ product' = [product EXCEPT ![p] = StockTaken(@, q)]
       /\ \E o \in Order : order[o] = None /\ NewOrder(c, o)
       /\ Burn(u, call[c].price * q)
       /\ HandOut(u, p, q)
  /\ Ends(c) /\ UNCHANGED items

Purchase(c) ==
  /\ call[c].op = "purchase"
  /\ LET u == MemberOf[c] p == call[c].product q == call[c].quantity IN
       /\ product[p].stock >= q
       /\ product' = [product EXCEPT ![p] = StockTaken(@, q)]
       /\ \E o \in Order : order[o] = None /\ NewOrder(c, o)
       /\ Burn(u, call[c].price * q)
       /\ HandOut(u, p, q)
  /\ Ends(c) /\ UNCHANGED items

ReadItem(c, i) ==
  /\ i \notin items[MemberOf[c]]
  /\ Goes(c, [op |-> "item", item |-> i])
  /\ UNCHANGED <<ledgerVars, shopVars>>

(* The unique key of member_items refuses a second row.                          *)
PurchaseProfileItem(c) ==
  /\ call[c].op = "item"
  /\ call[c].item \notin items[MemberOf[c]]
  /\ Burn(MemberOf[c], ItemPrice[call[c].item])
  /\ items' = [items EXCEPT ![MemberOf[c]] = @ \cup {call[c].item}]
  /\ Ends(c) /\ UNCHANGED <<product, order, coupon>>

-----------------------------------------------------------------------------
(* Mutant: only a delivered order is refused.                                     *)
CancellableUndelivered(o) == order[o] # None /\ order[o].status # "DELIVERED"

Cancellable(o) == order[o] # None /\ order[o].status = "COMPLETED"

ReadToCancel(c, o) ==
  /\ Cancellable(o)
  /\ Goes(c, [op |-> "cancel", order |-> o])
  /\ UNCHANGED <<ledgerVars, shopVars>>

Deliverable(o) == order[o] # None /\ order[o].status = "COMPLETED"

ReadToDeliver(c, o) ==
  /\ Deliverable(o)
  /\ Goes(c, [op |-> "deliver", order |-> o])
  /\ UNCHANGED <<ledgerVars, shopVars>>

SetStatus(o, s) == order' = [order EXCEPT ![o].status = s]

MarkDelivered(c) ==
  /\ call[c].op = "deliver" /\ Ends(c)
  /\ SetStatus(call[c].order, "DELIVERED")
  /\ UNCHANGED <<ledgerVars, product, coupon, items>>

Assigned(u, p) == {k \in Coupon : CouponOf[k] = p /\ coupon[k] = u}

(* Mutant: the coupons stay with the buyer.                                        *)
TakeBackNone(u, p, q) == UNCHANGED coupon

(* As many coupons of the product as the order had, whichever order brought them.  *)
TakeBack(u, p, q) ==
  IF p \in Voucher
  THEN \E K \in kSubset(Min({q, Cardinality(Assigned(u, p))}), Assigned(u, p)) :
         coupon' = [k \in Coupon |-> IF k \in K THEN None ELSE coupon[k]]
  ELSE UNCHANGED coupon

(* The product stays out of stock even if there is stock again.                    *)
CancelOrder(c) ==
  /\ call[c].op = "cancel" /\ Ends(c)
  /\ LET row == order[call[c].order] IN
       /\ Mint(row.buyer, row.total)
       /\ product' = [product EXCEPT ![row.product].stock = @ + row.quantity,
                                     ![row.product].sold = @ - row.quantity]
       /\ TakeBack(row.buyer, row.product, row.quantity)
  /\ SetStatus(call[c].order, "CANCELLED")
  /\ UNCHANGED items

(* An edit changes the fields it names.                                             *)
Edited(p) ==
  {[product[p] EXCEPT !.price = x, !.stock = n, !.status = s] :
     x \in NewPrice \cup {product[p].price}, n \in NewStock \cup {product[p].stock},
     s \in {"ACTIVE", "INACTIVE", product[p].status}}

(* updateProduct and softDeleteProduct                                              *)
ReadToEdit(c, p, row) ==
  /\ row \in Edited(p)
  /\ Goes(c, [op |-> "save", product |-> p, row |-> row])
  /\ UNCHANGED <<ledgerVars, shopVars>>

(* save() writes every column that differs from what it was when it was read.       *)
SaveProduct(c) ==
  /\ call[c].op = "save" /\ Ends(c)
  /\ product' = [product EXCEPT ![call[c].product] = call[c].row]
  /\ UNCHANGED <<ledgerVars, order, coupon, items>>

(* A check under the lock fails, and the transaction is rolled back.                 *)
Refused(c) ==
  /\ \/ /\ call[c].op = "purchase"
        /\ \/ product[call[c].product].stock < call[c].quantity
           \/ account[MemberOf[c]] # "open"
           \/ balance[MemberOf[c]] < call[c].price * call[c].quantity
           \/ call[c].product \in Voucher
              /\ Cardinality(Unused(call[c].product)) < call[c].quantity
     \/ /\ call[c].op = "item"
        /\ \/ call[c].item \in items[MemberOf[c]]
           \/ account[MemberOf[c]] # "open"
           \/ balance[MemberOf[c]] < ItemPrice[call[c].item]
  /\ Ends(c)
  /\ UNCHANGED <<ledgerVars, shopVars>>

MemberCall(c) ==
  \/ \E p \in Product, q \in Quantity : ReadProduct(c, p, q)
  \/ \E i \in Item : ReadItem(c, i)
  \/ Purchase(c) \/ PurchaseProfileItem(c) \/ Refused(c)

AdminCall(c) ==
  \/ \E o \in Order : ReadToCancel(c, o) \/ ReadToDeliver(c, o)
  \/ \E p \in Product : \E row \in Edited(p) : ReadToEdit(c, p, row)
  \/ CancelOrder(c) \/ MarkDelivered(c) \/ SaveProduct(c)

Next ==
  \/ \E u \in User : Join(u) /\ UNCHANGED <<shopVars, call>>
  \/ \E c \in Client : MemberCall(c)
  \/ \E c \in Admin : AdminCall(c)

Spec == Init /\ [][Next]_vars

-----------------------------------------------------------------------------
OpenOrders(u) == UNION {OrdersOf(u, p) : p \in Product}

Spent(u) ==
  SumFunction([o \in OpenOrders(u) |-> order[o].total]) + SumFunctionOnSet(ItemPrice, items[u])

(* A member has spent what the orders that were not cancelled and the items cost,      *)
(* whatever was edited, refused, delivered or cancelled meanwhile.                     *)
SpentOnOrders ==
  \A u \in User : account[u] = "open" => balance[u] = SeedPoints - Spent(u)

(* A member holds as many vouchers of a product as were bought and not cancelled.      *)
VouchersMatchOrders ==
  \A u \in User, p \in Voucher : Cardinality(Assigned(u, p)) = BoughtBy(u, p)

(* The orders account for everything: the points a member has spent and the vouchers a *)
(* member holds are those of the orders that were not cancelled.                       *)
OrdersReconcile == SpentOnOrders /\ VouchersMatchOrders

(* Nobody gets more of a product than its limit (shop.service.ts:144).                  *)
LimitKept == \A u \in User, p \in Product : Limit[p] > 0 => BoughtBy(u, p) <= Limit[p]

(* What a product counts as sold is what the orders say (shop.service.ts:163).          *)
SoldMatchesOrders ==
  \A p \in Product : product[p].sold = MapThenSumSet(LAMBDA u : BoughtBy(u, p), User)
=============================================================================
