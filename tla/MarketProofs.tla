---------------------------- MODULE MarketProofs ----------------------------
(***************************************************************************)
(* Theorems about the shop behind the market gate (modules Shop and Market): *)
(* nobody has an order who has not earned the market, purchases keep to the   *)
(* limits, and orders account for points spent and vouchers held.             *)
(***************************************************************************)
EXTENDS Market, LedgerProofs

-----------------------------------------------------------------------------
(* What the steps of the market do to the shop.                              *)

Patch(a, p, row) ==
  /\ Goes(a, [op |-> "save", product |-> p, row |-> row])
  /\ UNCHANGED <<ledgerVars, shopVars>>

ClerkCall(a) ==
  \/ \E o \in Order : ReadToCancel(a, o) \/ ReadToDeliver(a, o)
  \/ \E p \in Product, row \in ProductRow : Patch(a, p, row)
  \/ CancelOrder(a) \/ MarkDelivered(a) \/ SaveProduct(a)

ShopStep ==
  \/ \E u \in User : Join(u) /\ UNCHANGED <<shopVars, call>>
  \/ \E c \in Client : MemberCall(c)
  \/ \E a \in Admin : ClerkCall(a)
  \/ UNCHANGED vars

(* A field is open on a price or a stock of a product, or on a requirement.      *)
LEMMA EditIs ==
  ASSUME NEW e \in Edit, e.field \in {"price", "stock"}
  PROVE  e.product \in Product /\ e.shown \in Nat
  BY GateAssumption DEF Edit, NoEdit

(* What a page sends of a product is a row of the table.                          *)
LEMMA InlineSaveIsPatch ==
  ASSUME MarketTypeOK, NEW a \in Admin, HandleInlineSave(a)
  PROVE  \E p \in Product, row \in ProductRow : Patch(a, p, row)
  <1> DEFINE p == edit[a].product
  <1>1. edit[a] \in Edit
    BY DEF MarketTypeOK
  <1>2. edit[a].field \in {"price", "stock"}
    BY DEF HandleInlineSave
  <1>3. p \in Product /\ edit[a].shown \in Nat
    BY <1>1, <1>2, EditIs
  <1>4. product[p] \in ProductRow
    BY <1>3 DEF MarketTypeOK, ShopTypeOK
  <1>5. CASE edit[a].field = "price"
    <2>1. PICK x \in NewPrice \cup {edit[a].shown} :
            SendPatch(a, p, [product[p] EXCEPT !.price = x])
      BY <1>5 DEF HandleInlineSave
    <2>2. [product[p] EXCEPT !.price = x] \in ProductRow
      BY <1>3, <1>4, EditAssumption DEF ProductRow
    <2> QED BY <1>3, <2>1, <2>2 DEF SendPatch, Patch
  <1>6. CASE edit[a].field = "stock"
    <2>1. PICK x \in NewStock \cup {edit[a].shown} :
            SendPatch(a, p, [product[p] EXCEPT !.stock = x])
      BY <1>6 DEF HandleInlineSave
    <2>2. [product[p] EXCEPT !.stock = x] \in ProductRow
      BY <1>3, <1>4, EditAssumption DEF ProductRow
    <2> QED BY <1>3, <2>1, <2>2 DEF SendPatch, Patch
  <1> QED BY <1>2, <1>5, <1>6

(* Switching a product on or off, or deleting it, is one kind of patch. *)
LEMMA SwitchIsPatch ==
  ASSUME MarketTypeOK, NEW a \in Admin, NEW p \in Product,
         HandleToggleActive(a, p) \/ SoftDelete(a, p)
  PROVE  \E row \in ProductRow : Patch(a, p, row)
  <1>1. product[p] \in ProductRow
    BY DEF MarketTypeOK, ShopTypeOK
  <1>2. \A s \in ProductStatus : [product[p] EXCEPT !.status = s] \in ProductRow
    BY <1>1 DEF ProductRow
  <1>3. "ACTIVE" \in ProductStatus /\ "INACTIVE" \in ProductStatus
    BY DEF ProductStatus
  <1>4. CASE HandleToggleActive(a, p)
    BY <1>2, <1>3, <1>4 DEF HandleToggleActive, SendPatch, Patch
  <1>5. CASE SoftDelete(a, p)
    BY <1>2, <1>3, <1>5 DEF SoftDelete, SendPatch, Patch
  <1> QED BY <1>4, <1>5

(* What a visit holds, stage by stage of the command or page. *)
LEMMA VisitIs ==
  ASSUME NEW v \in Visit
  PROVE  /\ v.at \in {"away", "gate", "in", "menu", "amount"}
         /\ v.at = "gate" => v.cached \in BOOLEAN /\ v.need \in [Kind -> Nat]
         /\ v.at = "menu" => v.shown \in SUBSET (Product \X Nat)
         /\ v.at = "amount" => v.product \in Product /\ v.price \in Nat
  BY DEF Visit, Away

(* To ask for something is a read of the shop, or refused at once.                  *)
LEMMA BuysIsCall ==
  ASSUME NEW c \in Client, NEW p \in Product, NEW q \in Quantity, Buys(c, p, q)
  PROVE  MemberCall(c) \/ UNCHANGED vars
  BY DEF Buys, MemberCall

(* A member behind the gate changes the shop only by a call of the shop. *)
LEMMA MemberOnShop ==
  ASSUME MarketTypeOK, NEW c \in Client, MarketMember(c)
  PROVE  MemberCall(c) \/ UNCHANGED vars
  <1>1. CASE ReadRequirement(c) \/ Forbidden(c) \/ GivesUp(c) \/ ChooseProduct(c)
    BY <1>1 DEF ReadRequirement, Forbidden, GivesUp, ChooseProduct, OnlyVisit
  <1>2. CASE Enter(c)
    BY <1>2 DEF Enter
  <1>3. ASSUME NEW p \in Product, NEW q \in Quantity, BuyOnWeb(c, p, q)
        PROVE  MemberCall(c) \/ UNCHANGED vars
    BY <1>3, BuysIsCall DEF BuyOnWeb
  <1>4. ASSUME NEW q \in Quantity, EnterQuantity(c, q)
        PROVE  MemberCall(c) \/ UNCHANGED vars
    <2>1. visit[c] \in Visit /\ visit[c].at = "amount"
      BY <1>4 DEF EnterQuantity, MarketTypeOK
    <2>2. visit[c].product \in Product
      BY <2>1, VisitIs
    <2>3. PICK p \in Product : p = visit[c].product
      BY <2>2
    <2>4. Buys(c, p, q)
      BY <1>4, <2>3 DEF EnterQuantity
    <2> QED BY <2>4, BuysIsCall
  <1>5. ASSUME NEW i \in Item, ReadItem(c, i) PROVE MemberCall(c)
    BY <1>5 DEF MemberCall
  <1>6. CASE Purchase(c) \/ PurchaseProfileItem(c) \/ Refused(c)
    BY <1>6 DEF MemberCall
  <1> QED BY <1>1, <1>2, <1>3, <1>4, <1>5, <1>6 DEF MarketMember

(* So does an administrator. *)
LEMMA AdminOnShop ==
  ASSUME MarketTypeOK, NEW a \in Admin, MarketAdmin(a)
  PROVE  ClerkCall(a) \/ UNCHANGED vars
  <1>1. CASE HandleInlineSave(a)
    BY <1>1, InlineSaveIsPatch DEF ClerkCall
  <1>2. CASE Saved(a)
    BY <1>2 DEF Saved, ClerkCall
  <1>3. CASE CancelEdit(a)
    BY <1>3 DEF CancelEdit, OnlyEdit
  <1>4. ASSUME NEW p \in Product, NEW f, OpenInlineEdit(a, p, f) PROVE UNCHANGED vars
    BY <1>4 DEF OpenInlineEdit, OnlyEdit
  <1>5. ASSUME NEW p \in Product, HandleToggleActive(a, p) \/ SoftDelete(a, p) PROVE ClerkCall(a)
    BY <1>5, SwitchIsPatch DEF ClerkCall
  <1>6. ASSUME NEW k \in Kind, StartEdit(a, k) PROVE UNCHANGED vars
    BY <1>6 DEF StartEdit, OnlyEdit
  <1>7. ASSUME NEW k \in Kind, NEW v, HandleSave(a, k, v) PROVE UNCHANGED vars
    BY <1>7 DEF HandleSave
  <1>8. ASSUME NEW s, HandleFile(a, s) PROVE UNCHANGED vars
    BY <1>8 DEF HandleFile
  <1>9. CASE UploadRow(a)
    BY <1>9 DEF UploadRow
  <1>10. ASSUME NEW o \in Order, ReadToCancel(a, o) \/ ReadToDeliver(a, o) PROVE ClerkCall(a)
    BY <1>10 DEF ClerkCall
  <1>11. CASE CancelOrder(a) \/ MarkDelivered(a)
    BY <1>11 DEF ClerkCall
  <1> QED BY <1>1, <1>2, <1>3, <1>4, <1>5, <1>6, <1>7, <1>8, <1>9, <1>10, <1>11 DEF MarketAdmin

(* A step of the market is one of the shop's, or none for the shop.                   *)
LEMMA MarketOnShop ==
  ASSUME MarketTypeOK, [MarketNext]_allVars
  PROVE  ShopStep
  <1>1. CASE \E u \in User : Join(u) /\ UNCHANGED <<shopVars, call, marketVars>>
    BY <1>1 DEF ShopStep
  <1>2. CASE \E c \in Client : MarketMember(c)
    BY <1>2, MemberOnShop DEF ShopStep
  <1>3. CASE \E a \in Admin : MarketAdmin(a)
    BY <1>3, AdminOnShop DEF ShopStep
  <1>4. CASE UNCHANGED allVars
    BY <1>4 DEF allVars, ShopStep
  <1> QED BY <1>1, <1>2, <1>3, <1>4 DEF MarketNext

-----------------------------------------------------------------------------
(* What the orders add up to.                                                 *)

Table == [Order -> OrderRow \cup {None}]

(* What a row of the table adds to what a member has bought and spent.         *)
Counts(row, u) == row # None /\ row.buyer = u /\ row.status # "CANCELLED"
QuantityOf(row, u, p) == IF Counts(row, u) /\ row.product = p THEN row.quantity ELSE 0
TotalOf(row, u) == IF Counts(row, u) THEN row.total ELSE 0

BoughtIn(ord, u, p) == SumFunctionOnSet([o \in Order |-> QuantityOf(ord[o], u, p)], Order)
SpentIn(ord, u) == SumFunctionOnSet([o \in Order |-> TotalOf(ord[o], u)], Order)

(* What one order counts for a buyer and a product is a natural number. *)
LEMMA RowAmounts ==
  ASSUME NEW row \in OrderRow \cup {None}, NEW u, NEW p
  PROVE  /\ QuantityOf(row, u, p) \in Nat
         /\ TotalOf(row, u) \in Nat
         /\ QuantityOf(None, u, p) = 0 /\ TotalOf(None, u) = 0
  BY DEF QuantityOf, TotalOf, Counts, OrderRow

(* So is what a whole table counts. *)
LEMMA TableAmounts ==
  ASSUME NEW ord \in Table, NEW u, NEW p
  PROVE  /\ BoughtIn(ord, u, p) \in Nat
         /\ SpentIn(ord, u) \in Nat
  <1> DEFINE f == [o \in Order |-> QuantityOf(ord[o], u, p)]
             g == [o \in Order |-> TotalOf(ord[o], u)]
  <1>1. \A o \in Order : f[o] \in Nat /\ g[o] \in Nat
    BY RowAmounts DEF Table
  <1>2. SumFunctionOnSet(f, Order) \in Nat /\ SumFunctionOnSet(g, Order) \in Nat
    <2> HIDE DEF f, g
    <2> QED BY <1>1, IdAssumption, SumNonNegative
  <1> QED BY <1>2 DEF BoughtIn, SpentIn

(* One row written changes both by what it adds less what the old row added.    *)
LEMMA RowWritten ==
  ASSUME NEW ord \in Table, NEW o \in Order, NEW row \in OrderRow \cup {None}, NEW u, NEW p
  PROVE  /\ [ord EXCEPT ![o] = row] \in Table
         /\ BoughtIn([ord EXCEPT ![o] = row], u, p)
              = BoughtIn(ord, u, p) + (QuantityOf(row, u, p) - QuantityOf(ord[o], u, p))
         /\ SpentIn([ord EXCEPT ![o] = row], u)
              = SpentIn(ord, u) + (TotalOf(row, u) - TotalOf(ord[o], u))
  <1> DEFINE new == [ord EXCEPT ![o] = row]
             f(t) == [i \in Order |-> QuantityOf(t[i], u, p)]
             g(t) == [i \in Order |-> TotalOf(t[i], u)]
  <1>1. new \in Table /\ new[o] = row /\ \A i \in Order \ {o} : new[i] = ord[i]
    BY DEF Table
  <1> HIDE DEF new
  <1>2. \A i \in Order : f(ord)[i] \in Int /\ f(new)[i] \in Int /\ g(ord)[i] \in Int /\ g(new)[i] \in Int
    BY <1>1, RowAmounts DEF Table
  <1>3. \A i \in Order \ {o} : f(new)[i] = f(ord)[i] /\ g(new)[i] = g(ord)[i]
    BY <1>1
  <1>4. f(new)[o] = QuantityOf(row, u, p) /\ f(ord)[o] = QuantityOf(ord[o], u, p)
        /\ g(new)[o] = TotalOf(row, u) /\ g(ord)[o] = TotalOf(ord[o], u)
    BY <1>1
  <1>5. SumFunctionOnSet(f(new), Order) = SumFunctionOnSet(f(ord), Order) + (f(new)[o] - f(ord)[o])
    <2>1. PICK x, y : x = f(ord) /\ y = f(new)
      OBVIOUS
    <2> HIDE DEF f
    <2>2. (\A i \in Order : x[i] \in Int) /\ (\A i \in Order : y[i] \in Int)
      BY <1>2, <2>1
    <2>3. \A i \in Order \ {o} : y[i] = x[i]
      BY <1>3, <2>1
    <2>4. SumFunctionOnSet(y, Order) = SumFunctionOnSet(x, Order) + (y[o] - x[o])
      BY <2>2, <2>3, IdAssumption, SumUpdate
    <2> QED BY <2>1, <2>4
  <1>6. SumFunctionOnSet(g(new), Order) = SumFunctionOnSet(g(ord), Order) + (g(new)[o] - g(ord)[o])
    <2>1. PICK x, y : x = g(ord) /\ y = g(new)
      OBVIOUS
    <2> HIDE DEF g
    <2>2. (\A i \in Order : x[i] \in Int) /\ (\A i \in Order : y[i] \in Int)
      BY <1>2, <2>1
    <2>3. \A i \in Order \ {o} : y[i] = x[i]
      BY <1>3, <2>1
    <2>4. SumFunctionOnSet(y, Order) = SumFunctionOnSet(x, Order) + (y[o] - x[o])
      BY <2>2, <2>3, IdAssumption, SumUpdate
    <2> QED BY <2>1, <2>4
  <1>7. BoughtIn(new, u, p) = BoughtIn(ord, u, p) + (QuantityOf(row, u, p) - QuantityOf(ord[o], u, p))
    BY <1>4, <1>5 DEF BoughtIn
  <1>8. SpentIn(new, u) = SpentIn(ord, u) + (TotalOf(row, u) - TotalOf(ord[o], u))
    BY <1>4, <1>6 DEF SpentIn
  <1> QED BY <1>1, <1>7, <1>8 DEF new

(* The sums the properties speak of are these.                                   *)
LEMMA SumsOfTable ==
  ASSUME NEW ord \in Table, NEW u, NEW p
  PROVE  /\ SumFunction([o \in {i \in Order : ord[i] # None /\ ord[i].buyer = u
                                   /\ ord[i].product = p /\ ord[i].status # "CANCELLED"}
                          |-> ord[o].quantity]) = BoughtIn(ord, u, p)
         /\ SumFunction([o \in {i \in Order : Counts(ord[i], u)} |-> ord[o].total])
              = SpentIn(ord, u)
  <1> DEFINE R == {i \in Order : ord[i] # None /\ ord[i].buyer = u
                      /\ ord[i].product = p /\ ord[i].status # "CANCELLED"}
             T == {i \in Order : Counts(ord[i], u)}
             f == [o \in R |-> ord[o].quantity]
             g == [o \in Order |-> QuantityOf(ord[o], u, p)]
             h == [o \in T |-> ord[o].total]
             k == [o \in Order |-> TotalOf(ord[o], u)]
  <1>1. \A o \in R : ord[o] \in OrderRow
    BY DEF Table
  <1>2. \A o \in R : f[o] \in Int /\ g[o] = f[o]
    BY <1>1 DEF OrderRow, QuantityOf, Counts
  <1>3. \A o \in Order \ R : g[o] = 0
    BY DEF QuantityOf, Counts
  <1>4. \A o \in T : ord[o] \in OrderRow
    BY DEF Table, Counts
  <1>5. \A o \in T : h[o] \in Int /\ k[o] = h[o]
    BY <1>4 DEF OrderRow, TotalOf
  <1>6. \A o \in Order \ T : k[o] = 0
    BY DEF TotalOf
  <1>7. R \in SUBSET Order /\ T \in SUBSET Order /\ DOMAIN f = R /\ DOMAIN h = T
    OBVIOUS
  <1>8. SumFunctionOnSet(g, Order) = SumFunctionOnSet(f, R)
    <2> HIDE DEF f, g, R
    <2> QED BY <1>2, <1>3, <1>7, IdAssumption, SumRestrict
  <1>9. SumFunctionOnSet(k, Order) = SumFunctionOnSet(h, T)
    <2> HIDE DEF h, k, T
    <2> QED BY <1>5, <1>6, <1>7, IdAssumption, SumRestrict
  <1>10. SumFunction(f) = SumFunctionOnSet(f, R) /\ SumFunction(h) = SumFunctionOnSet(h, T)
    BY <1>7 DEF SumFunction
  <1> QED BY <1>8, <1>9, <1>10 DEF BoughtIn, SpentIn

(* The quantity the limit check sums is the quantity in the table of orders. *)
LEMMA BoughtIsIn ==
  ASSUME order \in Table, NEW u \in User, NEW p \in Product
  PROVE  BoughtBy(u, p) = BoughtIn(order, u, p)
  BY SumsOfTable DEF BoughtBy, OrdersOf

(* What a member spent is the open orders and the profile items. *)
LEMMA SpentIsIn ==
  ASSUME order \in Table, NEW u \in User
  PROVE  Spent(u) = SpentIn(order, u) + SumFunctionOnSet(ItemPrice, items[u])
  <1>1. OpenOrders(u) = {i \in Order : Counts(order[i], u)}
    BY DEF OpenOrders, OrdersOf, Counts, Table, OrderRow
  <1> QED BY <1>1, SumsOfTable DEF Spent

-----------------------------------------------------------------------------
(* The types of the shop.                                                      *)

(* What a call under way holds, by its kind. *)
LEMMA CallIs ==
  ASSUME NEW x \in Call
  PROVE  /\ x.op = "purchase" => x.product \in Product /\ x.quantity \in Nat \ {0} /\ x.price \in Nat
         /\ x.op \in {"cancel", "deliver"} => x.order \in Order
         /\ x.op = "save" => x.product \in Product /\ x.row \in ProductRow
         /\ x.op = "item" => x.item \in Item
  BY DEF Call, Idle

(* The calls the handlers begin are calls. *)
LEMMA NewCalls ==
  /\ Idle \in Call /\ Idle.op = "idle"
  /\ \A p \in Product, q \in Nat \ {0}, x \in Nat :
       [op |-> "purchase", product |-> p, quantity |-> q, price |-> x] \in Call
  /\ \A i \in Item : [op |-> "item", item |-> i] \in Call
  /\ \A o \in Order : [op |-> "cancel", order |-> o] \in Call /\ [op |-> "deliver", order |-> o] \in Call
  /\ \A p \in Product, row \in ProductRow : [op |-> "save", product |-> p, row |-> row] \in Call
  BY DEF Call, Idle

(* What a call of a purchase knows.                                             *)
LEMMA PurchaseCall ==
  ASSUME ShopTypeOK, NEW c \in Client, call[c].op = "purchase"
  PROVE  /\ MemberOf[c] \in User /\ call[c].product \in Product
         /\ call[c].quantity \in Nat \ {0} /\ call[c].price \in Nat
         /\ call[c].price * call[c].quantity \in Nat
  <1>1. call[c] \in Call
    BY DEF ShopTypeOK
  <1>2. MemberOf[c] \in User
    BY ClientAssumption
  <1>3. \A x, y \in Nat : x * y \in Nat
    OBVIOUS
  <1> QED BY <1>1, <1>2, <1>3, CallIs

(* The row a purchase writes.                                                   *)
RowOf(c) ==
  [product |-> call[c].product, buyer |-> MemberOf[c], quantity |-> call[c].quantity,
   total |-> call[c].price * call[c].quantity, status |-> "COMPLETED"]

(* The row purchase inserts is an order row. *)
LEMMA RowOfType ==
  ASSUME ShopTypeOK, NEW c \in Client, call[c].op = "purchase"
  PROVE  RowOf(c) \in OrderRow
  BY PurchaseCall DEF RowOf, OrderRow, OrderStatus

(* purchase keeps the tables well typed. *)
LEMMA PurchaseType ==
  ASSUME ShopTypeOK, NEW c \in Client, Purchase(c)
  PROVE  ShopTypeOK'
  <1>1. call[c].op = "purchase"
    BY DEF Purchase
  <1> DEFINE u == MemberOf[c]
             p == call[c].product
             q == call[c].quantity
  <1>2. u \in User /\ p \in Product /\ q \in Nat \ {0}
    BY <1>1, PurchaseCall
  <1>3. product' = [product EXCEPT ![p] = StockTaken(product[p], q)] /\ product[p].stock >= q
    BY DEF Purchase
  <1>4. product' \in [Product -> ProductRow]
    <2>1. product[p] \in ProductRow
      BY <1>2 DEF ShopTypeOK
    <2>2. product[p].stock - q \in Nat /\ product[p].sold + q \in Int
      BY <1>2, <1>3, <2>1 DEF ProductRow
    <2>3. StockTaken(product[p], q) \in ProductRow
      BY <2>1, <2>2 DEF StockTaken, ProductRow, ProductStatus
    <2> QED BY <1>3, <2>3 DEF ShopTypeOK
  <1>5. order' \in [Order -> OrderRow \cup {None}]
    <2>1. PICK o \in Order : order' = [order EXCEPT ![o] = RowOf(c)]
      BY DEF Purchase, NewOrder, RowOf
    <2> QED BY <1>1, <2>1, RowOfType DEF ShopTypeOK
  <1>6. coupon' \in [Coupon -> User \cup {None}]
    <2>1. HandOut(u, p, q)
      BY DEF Purchase
    <2> QED BY <1>2, <2>1 DEF HandOut, ShopTypeOK
  <1>7. call' \in [Client \cup Admin -> Call] /\ items' = items
    BY NewCalls DEF Purchase, Ends, ShopTypeOK
  <1> QED BY <1>4, <1>5, <1>6, <1>7 DEF ShopTypeOK

(* cancelOrder does, for the order its read found. *)
LEMMA CancelType ==
  ASSUME ShopTypeOK, NEW a \in Admin, CancelOrder(a), order[call[a].order] # None
  PROVE  ShopTypeOK'
  <1> DEFINE o == call[a].order
             row == order[o]
  <1>1. call[a] \in Call /\ call[a].op = "cancel"
    BY DEF ShopTypeOK, CancelOrder
  <1>2. o \in Order
    BY <1>1, CallIs
  <1>3. row \in OrderRow
    BY <1>2 DEF ShopTypeOK
  <1>4. row.product \in Product /\ row.quantity \in Nat
    BY <1>3 DEF OrderRow
  <1>5. product' \in [Product -> ProductRow]
    <2> DEFINE old == product[row.product]
               new == [old EXCEPT !.stock = @ + row.quantity, !.sold = @ - row.quantity]
    <2>1. old \in ProductRow
      BY <1>4 DEF ShopTypeOK
    <2>2. old.stock + row.quantity \in Nat /\ old.sold - row.quantity \in Int
      BY <1>4, <2>1 DEF ProductRow
    <2>3. new \in ProductRow
      BY <2>1, <2>2 DEF ProductRow
    <2>4. product' = [product EXCEPT ![row.product] = new]
      BY <1>4, <2>1 DEF CancelOrder, ShopTypeOK, ProductRow
    <2> QED BY <2>3, <2>4 DEF ShopTypeOK
  <1>6. order' \in [Order -> OrderRow \cup {None}]
    <2>1. [row EXCEPT !.status = "CANCELLED"] \in OrderRow
      BY <1>3 DEF OrderRow, OrderStatus
    <2>2. order' = [order EXCEPT ![o] = [row EXCEPT !.status = "CANCELLED"]]
      BY DEF CancelOrder, SetStatus
    <2> QED BY <2>1, <2>2 DEF ShopTypeOK
  <1>7. coupon' \in [Coupon -> User \cup {None}]
    <2>1. TakeBack(row.buyer, row.product, row.quantity)
      BY DEF CancelOrder
    <2> QED BY <2>1 DEF TakeBack, ShopTypeOK
  <1>8. call' \in [Client \cup Admin -> Call] /\ items' = items
    BY NewCalls DEF CancelOrder, Ends, ShopTypeOK
  <1> QED BY <1>5, <1>6, <1>7, <1>8 DEF ShopTypeOK

(* markDelivered does, for the order its read found. *)
LEMMA DeliverType ==
  ASSUME ShopTypeOK, NEW a \in Admin, MarkDelivered(a), order[call[a].order] # None
  PROVE  ShopTypeOK'
  <1> DEFINE o == call[a].order
             row == order[o]
  <1>1. call[a] \in Call /\ call[a].op = "deliver"
    BY DEF ShopTypeOK, MarkDelivered
  <1>2. o \in Order
    BY <1>1, CallIs
  <1>3. row \in OrderRow
    BY <1>2 DEF ShopTypeOK
  <1>4. [row EXCEPT !.status = "DELIVERED"] \in OrderRow
    BY <1>3 DEF OrderRow, OrderStatus
  <1>5. order' = [order EXCEPT ![o] = [row EXCEPT !.status = "DELIVERED"]]
    BY DEF MarkDelivered, SetStatus
  <1>6. order' \in [Order -> OrderRow \cup {None}]
    BY <1>4, <1>5 DEF ShopTypeOK
  <1>7. call' \in [Client \cup Admin -> Call] /\ UNCHANGED <<product, coupon, items>>
    BY NewCalls DEF MarkDelivered, Ends, ShopTypeOK
  <1> QED BY <1>6, <1>7 DEF ShopTypeOK

(* Calls that only read leave everything but the caller's call as it is.            *)
LEMMA OnlyCallType ==
  ASSUME ShopTypeOK, UNCHANGED shopVars, NEW c \in Client \cup Admin, NEW x \in Call,
         call' = [call EXCEPT ![c] = x]
  PROVE  ShopTypeOK'
  BY DEF ShopTypeOK, shopVars

(* Reading the product only begins a call. *)
LEMMA ReadProductType ==
  ASSUME ShopTypeOK, NEW c \in Client, NEW p \in Product, NEW q \in Quantity, ReadProduct(c, p, q)
  PROVE  /\ ShopTypeOK' /\ UNCHANGED <<ledgerVars, shopVars>> /\ q \in Nat \ {0}
         /\ call' = [call EXCEPT ![c] = [op |-> "purchase", product |-> p, quantity |-> q,
                                         price |-> product[p].price]]
  <1>1. q \in Nat \ {0}
    BY QuantityAssumption DEF ReadProduct, OnSale
  <1>2. product[p].price \in Nat
    BY DEF ShopTypeOK, ProductRow
  <1>3. [op |-> "purchase", product |-> p, quantity |-> q, price |-> product[p].price] \in Call
    BY <1>1, <1>2, NewCalls
  <1>4. call' = [call EXCEPT ![c] = [op |-> "purchase", product |-> p, quantity |-> q,
                                     price |-> product[p].price]]
        /\ UNCHANGED <<ledgerVars, shopVars>>
    BY DEF ReadProduct, Goes
  <1>5. PICK x \in Call : x = [op |-> "purchase", product |-> p, quantity |-> q,
                               price |-> product[p].price]
    BY <1>3
  <1>6. call' = [call EXCEPT ![c] = x]
    BY <1>4, <1>5
  <1>7. ShopTypeOK'
    BY <1>4, <1>6, OnlyCallType
  <1> QED BY <1>1, <1>4, <1>7

(* purchaseProfileItem keeps the tables well typed. *)
LEMMA ItemType ==
  ASSUME ShopTypeOK, NEW c \in Client, PurchaseProfileItem(c)
  PROVE  ShopTypeOK' /\ call[c].item \in Item /\ MemberOf[c] \in User
  <1>1. call[c] \in Call /\ call[c].op = "item"
    BY DEF ShopTypeOK, PurchaseProfileItem
  <1>2. call[c].item \in Item /\ MemberOf[c] \in User
    BY <1>1, CallIs, ClientAssumption
  <1>3. items' \in [User -> SUBSET Item]
    BY <1>2 DEF PurchaseProfileItem, ShopTypeOK
  <1>4. call' \in [Client \cup Admin -> Call] /\ UNCHANGED <<product, order, coupon>>
    BY NewCalls DEF PurchaseProfileItem, Ends, ShopTypeOK
  <1> QED BY <1>2, <1>3, <1>4 DEF ShopTypeOK

(* So does the save of an edited product. *)
LEMMA SaveType ==
  ASSUME ShopTypeOK, NEW a \in Admin, SaveProduct(a)
  PROVE  ShopTypeOK'
  <1>1. call[a] \in Call /\ call[a].op = "save"
    BY DEF ShopTypeOK, SaveProduct
  <1>2. call[a].product \in Product /\ call[a].row \in ProductRow
    BY <1>1, CallIs
  <1>3. call' \in [Client \cup Admin -> Call] /\ UNCHANGED <<order, coupon, items>>
    BY NewCalls DEF SaveProduct, Ends, ShopTypeOK
  <1>4. product' \in [Product -> ProductRow]
    BY <1>2 DEF SaveProduct, ShopTypeOK
  <1> QED BY <1>3, <1>4 DEF ShopTypeOK

(* An order an administrator has read is in the table: no order is ever deleted.      *)
KnownOrders ==
  \A a \in Admin : call[a].op \in {"cancel", "deliver"} => order[call[a].order] # None

ShopTypes == ShopTypeOK /\ KnownOrders

(* Orders once placed stay in the table.                                               *)
OrdersStay == \A o \in Order : order[o] # None => order'[o] # None

(* A step that changes one call keeps the orders clerks hold known. *)
LEMMA OneCallKeepsKnown ==
  ASSUME ShopTypes, OrdersStay, NEW c \in Client \cup Admin, NEW x \in Call,
         call' = [call EXCEPT ![c] = x],
         c \in Admin /\ x.op \in {"cancel", "deliver"} => order'[x.order] # None
  PROVE  KnownOrders'
  <1> SUFFICES ASSUME NEW a \in Admin, call'[a].op \in {"cancel", "deliver"}
               PROVE  order'[call'[a].order] # None
    BY DEF KnownOrders
  <1>1. CASE a = c
    BY <1>1 DEF ShopTypes, ShopTypeOK
  <1>2. CASE a # c
    <2>1. call'[a] = call[a] /\ call[a] \in Call
      BY <1>2 DEF ShopTypes, ShopTypeOK
    <2>2. call[a].order \in Order
      BY <2>1, CallIs
    <2> QED BY <2>1, <2>2 DEF ShopTypes, KnownOrders, OrdersStay
  <1> QED BY <1>1, <1>2

(* A member's call keeps the types, and touches no order there is.                     *)
LEMMA MemberCallTypes ==
  ASSUME ShopTypes, NEW c \in Client, MemberCall(c)
  PROVE  ShopTypes'
  <1>0. ShopTypeOK /\ Idle \in Call /\ c \notin Admin
    BY NewCalls, ClientAssumption DEF ShopTypes
  <1>1. ASSUME NEW p \in Product, NEW q \in Quantity, ReadProduct(c, p, q) PROVE ShopTypes'
    <2>1. PICK x : x = [op |-> "purchase", product |-> p, quantity |-> q, price |-> product[p].price]
      OBVIOUS
    <2>2. call' = [call EXCEPT ![c] = x] /\ UNCHANGED order /\ ShopTypeOK' /\ q \in Nat \ {0}
      BY <1>0, <1>1, <2>1, ReadProductType DEF shopVars
    <2>3. product[p].price \in Nat
      BY <1>0 DEF ShopTypeOK, ProductRow
    <2>4. x \in Call
      BY <2>1, <2>2, <2>3, NewCalls
    <2> QED BY <1>0, <2>2, <2>4, OneCallKeepsKnown DEF ShopTypes, OrdersStay
  <1>2. ASSUME NEW i \in Item, ReadItem(c, i) PROVE ShopTypes'
    <2>1. PICK x \in Call : x = [op |-> "item", item |-> i]
      BY NewCalls
    <2>2. call' = [call EXCEPT ![c] = x] /\ UNCHANGED shopVars
      BY <1>2, <2>1 DEF ReadItem, Goes
    <2> QED BY <1>0, <2>2, OnlyCallType, OneCallKeepsKnown DEF ShopTypes, OrdersStay, shopVars
  <1>3. CASE Purchase(c)
    <2>1. PICK o \in Order : order[o] = None /\ order' = [order EXCEPT ![o] = RowOf(c)]
      BY <1>3 DEF Purchase, NewOrder, RowOf
    <2>2. RowOf(c) \in OrderRow
      BY <1>0, <1>3, RowOfType DEF Purchase
    <2>3. OrdersStay
      BY <1>0, <2>1, <2>2, NoneAssumption DEF OrdersStay, ShopTypeOK
    <2>4. call' = [call EXCEPT ![c] = Idle]
      BY <1>3 DEF Purchase, Ends
    <2> QED BY <1>0, <1>3, <2>3, <2>4, PurchaseType, OneCallKeepsKnown DEF ShopTypes
  <1>4. CASE PurchaseProfileItem(c)
    <2>1. call' = [call EXCEPT ![c] = Idle] /\ UNCHANGED order
      BY <1>4 DEF PurchaseProfileItem, Ends
    <2> QED BY <1>0, <1>4, <2>1, ItemType, OneCallKeepsKnown DEF ShopTypes, OrdersStay
  <1>5. CASE Refused(c)
    <2>1. call' = [call EXCEPT ![c] = Idle] /\ UNCHANGED shopVars
      BY <1>5 DEF Refused, Ends
    <2> QED BY <1>0, <2>1, OnlyCallType, OneCallKeepsKnown DEF ShopTypes, OrdersStay, shopVars
  <1> QED BY <1>1, <1>2, <1>3, <1>4, <1>5 DEF MemberCall

(* Every call of a clerk keeps the types. *)
LEMMA ClerkCallTypes ==
  ASSUME ShopTypes, NEW a \in Admin, ClerkCall(a)
  PROVE  ShopTypes'
  <1>0. ShopTypeOK /\ Idle \in Call /\ Idle.op = "idle"
    BY NewCalls DEF ShopTypes
  <1>1. ASSUME NEW o \in Order, ReadToCancel(a, o) PROVE ShopTypes'
    <2>1. PICK x \in Call : x = [op |-> "cancel", order |-> o]
      BY NewCalls
    <2>2. call' = [call EXCEPT ![a] = x] /\ UNCHANGED shopVars /\ order[o] # None
      BY <1>1, <2>1 DEF ReadToCancel, Goes, Cancellable
    <2>3. x.order = o
      BY <2>1
    <2> QED BY <1>0, <2>2, <2>3, OnlyCallType, OneCallKeepsKnown DEF ShopTypes, OrdersStay, shopVars
  <1>2. ASSUME NEW o \in Order, ReadToDeliver(a, o) PROVE ShopTypes'
    <2>1. PICK x \in Call : x = [op |-> "deliver", order |-> o]
      BY NewCalls
    <2>2. call' = [call EXCEPT ![a] = x] /\ UNCHANGED shopVars /\ order[o] # None
      BY <1>2, <2>1 DEF ReadToDeliver, Goes, Deliverable
    <2>3. x.order = o
      BY <2>1
    <2> QED BY <1>0, <2>2, <2>3, OnlyCallType, OneCallKeepsKnown DEF ShopTypes, OrdersStay, shopVars
  <1>3. ASSUME NEW p \in Product, NEW row \in ProductRow, Patch(a, p, row) PROVE ShopTypes'
    <2>1. PICK x \in Call : x = [op |-> "save", product |-> p, row |-> row]
      BY NewCalls
    <2>2. call' = [call EXCEPT ![a] = x] /\ UNCHANGED shopVars
      BY <1>3, <2>1 DEF Patch, Goes
    <2>3. x.op = "save"
      BY <2>1
    <2> QED BY <1>0, <2>2, <2>3, OnlyCallType, OneCallKeepsKnown DEF ShopTypes, OrdersStay, shopVars
  <1>4. CASE CancelOrder(a) \/ MarkDelivered(a)
    <2> DEFINE o == call[a].order
    <2>1. call[a] \in Call /\ call[a].op \in {"cancel", "deliver"}
      BY <1>0, <1>4 DEF ShopTypeOK, CancelOrder, MarkDelivered
    <2>2. o \in Order /\ order[o] # None /\ order[o] \in OrderRow
      BY <1>0, <2>1, CallIs DEF ShopTypes, KnownOrders, ShopTypeOK
    <2>3. PICK s \in {"CANCELLED", "DELIVERED"} : SetStatus(o, s)
      BY <1>4 DEF CancelOrder, MarkDelivered
    <2>4. [order[o] EXCEPT !.status = s] \in OrderRow
      BY <2>2 DEF OrderRow, OrderStatus
    <2>5. order' = [order EXCEPT ![o] = [order[o] EXCEPT !.status = s]]
      BY <2>3 DEF SetStatus
    <2>6. OrdersStay
      BY <1>0, <2>2, <2>4, <2>5, NoneAssumption DEF OrdersStay, ShopTypeOK
    <2>7. call' = [call EXCEPT ![a] = Idle]
      BY <1>4 DEF CancelOrder, MarkDelivered, Ends
    <2>8. ShopTypeOK'
      BY <1>0, <1>4, <2>2, CancelType, DeliverType
    <2> QED BY <1>0, <2>6, <2>7, <2>8, OneCallKeepsKnown DEF ShopTypes
  <1>5. CASE SaveProduct(a)
    <2>1. call' = [call EXCEPT ![a] = Idle] /\ UNCHANGED order
      BY <1>5 DEF SaveProduct, Ends
    <2> QED BY <1>0, <1>5, <2>1, SaveType, OneCallKeepsKnown DEF ShopTypes, OrdersStay
  <1> QED BY <1>1, <1>2, <1>3, <1>4, <1>5 DEF ClerkCall

(* Every step of the shop keeps the types. *)
LEMMA ShopStepTypes ==
  ASSUME ShopTypes, ShopStep
  PROVE  ShopTypes'
  <1>1. ASSUME UNCHANGED <<shopVars, call>> PROVE ShopTypes'
    BY <1>1 DEF shopVars, ShopTypes, ShopTypeOK, KnownOrders
  <1>2. UNCHANGED vars => UNCHANGED <<shopVars, call>>
    BY DEF vars, shopVars
  <1> QED BY <1>1, <1>2, MemberCallTypes, ClerkCallTypes DEF ShopStep

-----------------------------------------------------------------------------
(* The gate.                                                                   *)

(* The lesser of two numbers is one of them and at most each. *)
LEMMA LesserOfTwo ==
  ASSUME NEW x \in Nat, NEW y \in Nat
  PROVE  Min({x, y}) \in {x, y} /\ Min({x, y}) <= x /\ Min({x, y}) <= y
  <1>1. \E z \in {x, y} : \A w \in {x, y} : z =< w
    OBVIOUS
  <1> QED BY <1>1 DEF Min

(* The types of what the gate and the pages keep.                                *)
GateTypes ==
  /\ config \in [Kind -> Nat \cup {Typo}]
  /\ lowest \in [Kind -> Nat]
  /\ records \in [User -> [Kind -> [Status -> Nat]]]
  /\ passed \in [User -> BOOLEAN]
  /\ visit \in [Client -> Visit]
  /\ edit \in [Admin -> Edit]
  /\ upload \in [Admin -> Seq(SheetRow)]
  /\ uploads \in 0 .. MaxUploads

(* The type invariant of the market is that of the shop and that of the gate. *)
LEMMA MarketTypesAre == MarketTypeOK <=> ShopTypeOK /\ GateTypes
  BY DEF MarketTypeOK, GateTypes

(* What never shrinks: what a member has attended. What never grows: the mildest   *)
(* requirements.                                                                    *)
GateMoves ==
  /\ \A u \in User, k \in Kind : Counted(u, k)' >= Counted(u, k)
  /\ \A k \in Kind : lowest'[k] <= lowest[k]

(* What the gate counts for a member and a kind is a natural number. *)
LEMMA CountedType ==
  ASSUME GateTypes, NEW u \in User, NEW k \in Kind
  PROVE  /\ records[u][k]["PRESENT"] \in Nat /\ records[u][k]["LATE"] \in Nat
         /\ Counted(u, k) \in Nat
  BY DEF GateTypes, Counted, Status

(* Records and thresholds that stay are gate moves. *)
LEMMA GateStays ==
  ASSUME GateTypes, UNCHANGED <<records, lowest>>
  PROVE  GateMoves
  <1>1. \A u \in User, k \in Kind : Counted(u, k) \in Nat /\ Counted(u, k)' = Counted(u, k)
    BY CountedType DEF Counted
  <1>2. \A k \in Kind : lowest[k] \in Nat
    BY DEF GateTypes
  <1> QED BY <1>1, <1>2 DEF GateMoves

(* The visits the steps of a member begin are visits. *)
LEMMA VisitsAre ==
  /\ Away \in Visit
  /\ \A b \in BOOLEAN, n \in [Kind -> Nat] : [at |-> "gate", cached |-> b, need |-> n] \in Visit
  /\ [at |-> "in"] \in Visit
  /\ \A s \in SUBSET (Product \X Nat) : [at |-> "menu", shown |-> s] \in Visit
  /\ \A p \in Product, x \in Nat : [at |-> "amount", product |-> p, price |-> x] \in Visit
  BY DEF Visit, Away

(* A visit goes on to another place.                                                *)
LEMMA ComesType ==
  ASSUME GateTypes, NEW c \in Client, NEW v \in Visit, Comes(c, v)
  PROVE  visit' \in [Client -> Visit]
  BY DEF GateTypes, Comes

(* Reading a requirement keeps the gate's types. *)
LEMMA ReadRequirementTypes ==
  ASSUME GateTypes, NEW c \in Client, ReadRequirement(c)
  PROVE  GateTypes'
  <1>1. config \in [Kind -> Nat]
    BY DEF GateTypes, ReadRequirement
  <1>2. passed[MemberOf[c]] \in BOOLEAN
    BY ClientAssumption DEF GateTypes
  <1>3. PICK v \in Visit : v = [at |-> "gate", cached |-> passed[MemberOf[c]], need |-> config]
    BY <1>1, <1>2, VisitsAre
  <1>4. visit' \in [Client -> Visit]
    BY <1>3, ComesType DEF ReadRequirement
  <1> QED BY <1>4 DEF ReadRequirement, OnlyVisit, GateTypes

(* Answering at the gate keeps them. *)
LEMMA EnterTypes ==
  ASSUME GateTypes, ShopTypeOK, NEW c \in Client, Enter(c)
  PROVE  GateTypes'
  <1>1. OnShow \in SUBSET (Product \X Nat)
    BY DEF OnShow, ShopTypeOK, ProductRow
  <1>2. PICK v \in Visit : v = IF c \notin Chat THEN [at |-> "in"]
                                ELSE IF OnShow = {} THEN Away ELSE [at |-> "menu", shown |-> OnShow]
    BY <1>1, VisitsAre
  <1>3. visit' \in [Client -> Visit]
    BY <1>2, ComesType DEF Enter
  <1>4. passed' \in [User -> BOOLEAN]
    BY ClientAssumption DEF Enter, GateTypes
  <1> QED BY <1>3, <1>4 DEF Enter, GateTypes

(* Choosing in the menu keeps them. *)
LEMMA ChooseTypes ==
  ASSUME GateTypes, NEW c \in Client, ChooseProduct(c)
  PROVE  GateTypes'
  <1>1. visit[c] \in Visit /\ visit[c].at = "menu"
    BY DEF GateTypes, ChooseProduct
  <1>2. visit[c].shown \in SUBSET (Product \X Nat)
    BY <1>1, VisitIs
  <1>3. PICK offer \in visit[c].shown :
          Comes(c, [at |-> "amount", product |-> offer[1], price |-> offer[2]])
    BY DEF ChooseProduct
  <1>4. offer[1] \in Product /\ offer[2] \in Nat
    BY <1>2
  <1>5. [at |-> "amount", product |-> offer[1], price |-> offer[2]] \in Visit
    BY <1>4, VisitsAre
  <1>6. visit' \in [Client -> Visit]
    BY <1>3, <1>5, ComesType
  <1> QED BY <1>6 DEF ChooseProduct, OnlyVisit, GateTypes

(* Every step of a member keeps them and leaves records and settings alone. *)
LEMMA MemberTypes ==
  ASSUME GateTypes, ShopTypeOK, NEW c \in Client, MarketMember(c)
  PROVE  GateTypes' /\ UNCHANGED <<records, lowest, config, edit, upload, uploads>>
  <1>1. CASE ReadRequirement(c)
    BY <1>1, ReadRequirementTypes DEF ReadRequirement, OnlyVisit
  <1>2. CASE Enter(c)
    BY <1>2, EnterTypes DEF Enter
  <1>3. CASE Forbidden(c) \/ GivesUp(c)
    <2>1. Comes(c, Away) /\ OnlyVisit
      BY <1>3 DEF Forbidden, GivesUp
    <2>2. visit' \in [Client -> Visit]
      BY <2>1, VisitsAre, ComesType
    <2> QED BY <2>1, <2>2 DEF OnlyVisit, GateTypes
  <1>4. CASE ChooseProduct(c)
    BY <1>4, ChooseTypes DEF ChooseProduct, OnlyVisit
  <1>5. ASSUME NEW p, NEW q, Buys(c, p, q)
        PROVE  GateTypes' /\ UNCHANGED <<records, lowest, config, edit, upload, uploads>>
    <2>1. visit' \in [Client -> Visit]
      BY <1>5, VisitsAre, ComesType DEF Buys
    <2> QED BY <1>5, <2>1 DEF Buys, GateTypes
  <1>6. ASSUME UNCHANGED marketVars
        PROVE  GateTypes' /\ UNCHANGED <<records, lowest, config, edit, upload, uploads>>
    BY <1>6 DEF marketVars, GateTypes
  <1> QED BY <1>1, <1>2, <1>3, <1>4, <1>5, <1>6 DEF MarketMember, BuyOnWeb, EnterQuantity

(* The edits the admin pages open are edits. *)
LEMMA NewEdits ==
  /\ NoEdit \in Edit
  /\ \A p \in Product, f \in {"price", "stock"}, n \in Nat :
       [field |-> f, product |-> p, shown |-> n] \in Edit
  /\ \A k \in Kind, n \in Nat \cup {Typo} : [field |-> k, shown |-> n] \in Edit
  BY DEF Edit

(* Writing one setting moves the lowest threshold of that setting down or not at all. *)
LEMMA SetConfigMoves ==
  ASSUME GateTypes, NEW k \in Kind, NEW v \in Nat \cup {Typo}, SetConfig(k, v)
  PROVE  /\ config' \in [Kind -> Nat \cup {Typo}] /\ lowest' \in [Kind -> Nat]
         /\ \A j \in Kind : lowest'[j] <= lowest[j]
         /\ config'[k] = v /\ (v # Typo => lowest'[k] <= v)
         /\ \A j \in Kind : j # k => config'[j] = config[j]
  <1>1. config \in [Kind -> Nat \cup {Typo}] /\ lowest \in [Kind -> Nat]
    BY DEF GateTypes
  <1>2. lowest[k] \in Nat
    BY <1>1
  <1> DEFINE x == IF v = Typo THEN lowest[k] ELSE Min({lowest[k], v})
  <1>3. x \in Nat /\ x <= lowest[k] /\ (v # Typo => x <= v)
    <2>1. CASE v = Typo
      BY <1>2, <2>1
    <2>2. CASE v # Typo
      <3>1. v \in Nat
        BY <2>2
      <3>2. Min({lowest[k], v}) \in {lowest[k], v} /\ Min({lowest[k], v}) <= lowest[k]
            /\ Min({lowest[k], v}) <= v
        BY <1>2, <3>1, LesserOfTwo
      <3> QED BY <1>2, <2>2, <3>1, <3>2
    <2> QED BY <2>1, <2>2
  <1>4. config' = [config EXCEPT ![k] = v] /\ lowest' = [lowest EXCEPT ![k] = x]
    BY DEF SetConfig
  <1> HIDE DEF x
  <1>5. config' \in [Kind -> Nat \cup {Typo}] /\ config'[k] = v
        /\ \A j \in Kind : j # k => config'[j] = config[j]
    BY <1>1, <1>4
  <1>6. lowest' \in [Kind -> Nat] /\ lowest'[k] = x /\ \A j \in Kind : j # k => lowest'[j] = lowest[j]
    BY <1>1, <1>3, <1>4
  <1>7. \A j \in Kind : lowest'[j] <= lowest[j]
    BY <1>1, <1>3, <1>6
  <1> QED BY <1>3, <1>5, <1>6, <1>7

(* What an uploaded row does to the records.                                        *)
LEMMA UploadMoves ==
  ASSUME GateTypes, NEW a \in Admin, UploadRow(a)
  PROVE  /\ records' \in [User -> [Kind -> [Status -> Nat]]]
         /\ upload' \in [Admin -> Seq(SheetRow)]
         /\ \A u \in User, k \in Kind : Counted(u, k)' >= Counted(u, k)
  <1>1. upload[a] \in Seq(SheetRow) /\ upload[a] # << >>
    BY DEF GateTypes, UploadRow
  <1> DEFINE row == Head(upload[a])
  <1>2. row \in SheetRow /\ Tail(upload[a]) \in Seq(SheetRow)
    BY <1>1
  <1>3. upload' \in [Admin -> Seq(SheetRow)]
    BY <1>2 DEF GateTypes, UploadRow
  <1>4. CASE ~ Known(row.who)
    <2>1. records' = records
      BY <1>4 DEF UploadRow
    <2> QED BY <1>3, <2>1, CountedType DEF GateTypes, Counted
  <1>5. CASE Known(row.who)
    <2> DEFINE w == row.who
               k == row.kind
               s == ParseStatus(row.status)
    <2>1. w \in User
      BY <1>5, ChatAssumption DEF Known
    <2>2. k \in Kind /\ s \in Status
      BY <1>2 DEF SheetRow, ParseStatus, Status
    <2>3. records' = [records EXCEPT ![w][k][s] = @ + 1]
      BY <1>5 DEF UploadRow, WriteRow
    <2>4. records \in [User -> [Kind -> [Status -> Nat]]]
      BY DEF GateTypes
    <2> HIDE DEF w, k, s
    <2> DEFINE old == records[w][k]
               new == [old EXCEPT ![s] = @ + 1]
    <2>9. /\ old \in [Status -> Nat] /\ new \in [Status -> Nat]
          /\ \A t \in Status : new[t] = IF t = s THEN old[t] + 1 ELSE old[t]
      BY <2>1, <2>2, <2>4
    <2>10. records' = [records EXCEPT ![w] = [records[w] EXCEPT ![k] = new]]
      BY <2>3
    <2> HIDE DEF new
    <2>11. /\ [records[w] EXCEPT ![k] = new] \in [Kind -> [Status -> Nat]]
           /\ \A j \in Kind : [records[w] EXCEPT ![k] = new][j] = IF j = k THEN new ELSE records[w][j]
      BY <2>1, <2>2, <2>4, <2>9
    <2>5. /\ records' \in [User -> [Kind -> [Status -> Nat]]]
          /\ \A u \in User, j \in Kind :
               records'[u][j] = IF u = w /\ j = k THEN new ELSE records[u][j]
      BY <2>1, <2>4, <2>10, <2>11
    <2>6. \A u \in User, j \in Kind, t \in Status :
            records'[u][j][t] = IF u = w /\ j = k /\ t = s THEN records[u][j][t] + 1
                                ELSE records[u][j][t]
      BY <2>5, <2>9
    <2>7. "PRESENT" \in Status /\ "LATE" \in Status
      BY DEF Status
    <2>8. ASSUME NEW u \in User, NEW j \in Kind PROVE Counted(u, j)' >= Counted(u, j)
      <3>1. \A t \in Status : records[u][j][t] \in Nat /\ records'[u][j][t] \in Nat
                              /\ records'[u][j][t] >= records[u][j][t]
        BY <2>4, <2>5, <2>6
      <3> QED BY <2>7, <3>1 DEF Counted
    <2> QED BY <1>3, <2>5, <2>8
  <1> QED BY <1>4, <1>5

(* Every step of an administrator keeps the gate's types, and counts only grow, thresholds only fall. *)
LEMMA AdminTypes ==
  ASSUME GateTypes, ShopTypeOK, NEW a \in Admin, MarketAdmin(a)
  PROVE  GateTypes' /\ GateMoves /\ UNCHANGED <<passed, visit>>
  <1>1. ASSUME UNCHANGED marketVars
        PROVE  GateTypes' /\ GateMoves /\ UNCHANGED <<passed, visit>>
    BY <1>1, GateStays DEF marketVars, GateTypes
  <1>2. ASSUME NEW e \in Edit, edit' = [edit EXCEPT ![a] = e],
               UNCHANGED <<config, lowest, records, passed, visit, upload, uploads>>
        PROVE  GateTypes' /\ GateMoves /\ UNCHANGED <<passed, visit>>
    BY <1>2, GateStays DEF GateTypes
  <1>3. CASE HandleInlineSave(a)
    BY <1>1, <1>3 DEF HandleInlineSave, SendPatch
  <1>4. CASE Saved(a) \/ CancelEdit(a)
    <2>1. edit' = [edit EXCEPT ![a] = NoEdit]
          /\ UNCHANGED <<config, lowest, records, passed, visit, upload, uploads>>
      BY <1>4 DEF Saved, CancelEdit, Closes, OnlyEdit
    <2> QED BY <1>2, <2>1, NewEdits
  <1>5. ASSUME NEW p \in Product, NEW f \in {"price", "stock"}, OpenInlineEdit(a, p, f)
        PROVE  GateTypes' /\ GateMoves /\ UNCHANGED <<passed, visit>>
    <2>1. product[p] \in ProductRow
      BY DEF ShopTypeOK
    <2>2. product[p][f] \in Nat
      BY <2>1 DEF ProductRow
    <2>3. PICK e \in Edit : e = [field |-> f, product |-> p, shown |-> product[p][f]]
      BY <2>2, NewEdits
    <2>4. edit' = [edit EXCEPT ![a] = e]
          /\ UNCHANGED <<config, lowest, records, passed, visit, upload, uploads>>
      BY <1>5, <2>3 DEF OpenInlineEdit, Opens, OnlyEdit
    <2> QED BY <1>2, <2>4
  <1>6. ASSUME NEW p \in Product, HandleToggleActive(a, p) \/ SoftDelete(a, p)
        PROVE  GateTypes' /\ GateMoves /\ UNCHANGED <<passed, visit>>
    BY <1>1, <1>6 DEF HandleToggleActive, SoftDelete, SendPatch
  <1>7. ASSUME NEW k \in Kind, StartEdit(a, k)
        PROVE  GateTypes' /\ GateMoves /\ UNCHANGED <<passed, visit>>
    <2>1. config[k] \in Nat \cup {Typo}
      BY DEF GateTypes
    <2>2. PICK e \in Edit : e = [field |-> k, shown |-> config[k]]
      BY <2>1, NewEdits
    <2>3. edit' = [edit EXCEPT ![a] = e]
          /\ UNCHANGED <<config, lowest, records, passed, visit, upload, uploads>>
      BY <1>7, <2>2 DEF StartEdit, Opens, OnlyEdit
    <2> QED BY <1>2, <2>3
  <1>8. ASSUME NEW k \in Kind, NEW v \in NewValue[k], HandleSave(a, k, v)
        PROVE  GateTypes' /\ GateMoves /\ UNCHANGED <<passed, visit>>
    <2>1. v \in Nat \cup {Typo}
      BY GateAssumption
    <2>2. edit' \in [Admin -> Edit]
      BY <1>8, NewEdits DEF HandleSave, Closes, GateTypes
    <2>3. UNCHANGED <<records, passed, visit, upload, uploads>>
      BY <1>8 DEF HandleSave
    <2>4. CASE SetConfig(k, v)
      <3>1. config' \in [Kind -> Nat \cup {Typo}] /\ lowest' \in [Kind -> Nat]
            /\ \A j \in Kind : lowest'[j] <= lowest[j]
        BY <2>1, <2>4, SetConfigMoves
      <3>2. \A u \in User, j \in Kind : Counted(u, j)' >= Counted(u, j)
        BY <2>3, CountedType DEF Counted
      <3>3. GateMoves
        BY <3>1, <3>2 DEF GateMoves
      <3> QED BY <2>2, <2>3, <3>1, <3>3 DEF GateTypes
    <2>5. CASE UNCHANGED <<config, lowest>>
      BY <2>2, <2>3, <2>5, GateStays DEF GateTypes
    <2> QED BY <1>8, <2>4, <2>5 DEF HandleSave
  <1>9. ASSUME NEW s \in Sheet, HandleFile(a, s)
        PROVE  GateTypes' /\ GateMoves /\ UNCHANGED <<passed, visit>>
    <2>1. s \in Seq(SheetRow)
      BY SheetAssumption
    <2>2. upload' = [upload EXCEPT ![a] = s] /\ uploads' = uploads + 1 /\ uploads < MaxUploads
          /\ UNCHANGED <<config, lowest, records, passed, visit, edit>>
      BY <1>9 DEF HandleFile
    <2>3. upload' \in [Admin -> Seq(SheetRow)]
      BY <2>1, <2>2 DEF GateTypes
    <2>4. uploads' \in 0 .. MaxUploads
      BY <2>2, SheetAssumption DEF GateTypes
    <2> QED BY <2>2, <2>3, <2>4, GateStays DEF GateTypes
  <1>10. CASE UploadRow(a)
    <2>1. UNCHANGED <<config, lowest, passed, visit, edit, uploads>>
      BY <1>10 DEF UploadRow
    <2>2. \A k \in Kind : lowest'[k] <= lowest[k]
      BY <2>1 DEF GateTypes
    <2> QED BY <1>10, <2>1, <2>2, UploadMoves DEF GateTypes, GateMoves
  <1> QED BY <1>1, <1>3, <1>4, <1>5, <1>6, <1>7, <1>8, <1>9, <1>10 DEF MarketAdmin

-----------------------------------------------------------------------------
(* Nobody buys who has not earned it.                                           *)

Earned(u) == \A k \in Kind : Counted(u, k) >= lowest[k]

RequirementsAbove == \A k \in Kind : config[k] # Typo => config[k] >= lowest[k]

PassedEarned == \A u \in User : passed[u] => Earned(u)

(* Whoever stands at the gate holds the flag as it was read, and requirements that *)
(* have been in force; whoever is behind it has earned it.                         *)
VisitorsEarned ==
  \A c \in Client :
    /\ visit[c].at = "gate" =>
         /\ visit[c].cached => Earned(MemberOf[c])
         /\ \A k \in Kind : visit[c].need[k] >= lowest[k]
    /\ visit[c].at \in {"in", "menu", "amount"} => Earned(MemberOf[c])

CallersEarned == \A c \in Client : call[c].op = "purchase" => Earned(MemberOf[c])

GateInv ==
  RequirementsAbove /\ PassedEarned /\ VisitorsEarned /\ CallersEarned /\ BuyersEarnedIt

(* Attendance is never taken away and the mildest requirements only get milder.    *)
LEMMA EarnedStays ==
  ASSUME GateTypes, GateTypes', GateMoves, NEW u \in User, Earned(u)
  PROVE  Earned(u)'
  <1> SUFFICES ASSUME NEW k \in Kind PROVE Counted(u, k)' >= lowest'[k]
    BY DEF Earned
  <1>1. Counted(u, k) \in Nat /\ lowest[k] \in Nat /\ lowest'[k] \in Nat
    BY CountedType DEF GateTypes
  <1>2. Counted(u, k)' \in Nat
    BY DEF GateTypes, Counted, Status
  <1>3. Counted(u, k) >= lowest[k] /\ Counted(u, k)' >= Counted(u, k) /\ lowest'[k] <= lowest[k]
    BY DEF Earned, GateMoves
  <1> QED BY <1>1, <1>2, <1>3

(* BuyersEarnedIt, read on the orders there are. *)
LEMMA BuyersEarned ==
  BuyersEarnedIt <=> \A o \in Order : order[o] # None => Earned(order[o].buyer)
  BY DEF BuyersEarnedIt, Earned

(* An administrator changes the state of an order, and neither who bought it nor    *)
(* what members are about to buy.                                                   *)
LEMMA ClerksKeepBuyers ==
  ASSUME ShopTypes, NEW a \in Admin, ClerkCall(a)
  PROVE  /\ \A o \in Order : order'[o] # None => order[o] # None /\ order'[o].buyer = order[o].buyer
         /\ \A c \in Client : call'[c] = call[c]
  <1>1. ShopTypeOK /\ a \notin Client
    BY ClientAssumption DEF ShopTypes
  <1>2. ASSUME NEW x, call' = [call EXCEPT ![a] = x] PROVE \A c \in Client : call'[c] = call[c]
    BY <1>1, <1>2 DEF ShopTypeOK
  <1>3. CASE UNCHANGED order
    <2>1. \E x : call' = [call EXCEPT ![a] = x]
      BY <1>3 DEF ClerkCall, ReadToCancel, ReadToDeliver, Patch, Goes, CancelOrder, MarkDelivered,
                  SaveProduct, Ends
    <2> QED BY <1>2, <1>3, <2>1
  <1>4. CASE CancelOrder(a) \/ MarkDelivered(a)
    <2> DEFINE o == call[a].order
    <2>1. call[a] \in Call /\ call[a].op \in {"cancel", "deliver"}
      BY <1>1, <1>4 DEF ShopTypeOK, CancelOrder, MarkDelivered
    <2>2. o \in Order /\ order[o] # None /\ order[o] \in OrderRow
      BY <1>1, <2>1, CallIs DEF ShopTypes, KnownOrders, ShopTypeOK
    <2>3. PICK s \in {"CANCELLED", "DELIVERED"} : SetStatus(o, s)
      BY <1>4 DEF CancelOrder, MarkDelivered
    <2>4. [order[o] EXCEPT !.status = s].buyer = order[o].buyer
      BY <2>2 DEF OrderRow
    <2>5. order' = [order EXCEPT ![o] = [order[o] EXCEPT !.status = s]]
      BY <2>3 DEF SetStatus
    <2>6. call' = [call EXCEPT ![a] = Idle]
      BY <1>4 DEF CancelOrder, MarkDelivered, Ends
    <2> QED BY <1>1, <1>2, <2>2, <2>4, <2>5, <2>6 DEF ShopTypeOK
  <1>5. UNCHANGED order \/ CancelOrder(a) \/ MarkDelivered(a)
    BY DEF ClerkCall, ReadToCancel, ReadToDeliver, Patch, SaveProduct, shopVars
  <1> QED BY <1>3, <1>4, <1>5

(* How a step may change what the gate and the shop know of a client: a flag is set  *)
(* for who has earned it, a client comes to the gate with what is stored, passes it   *)
(* or goes, and who starts to buy has earned it.                                      *)
GateStep ==
  /\ \A u \in User : passed'[u] => passed[u] \/ Earned(u)
  /\ \A c \in Client : \/ visit'[c] = visit[c]
                       \/ visit'[c].at = "away"
                       \/ (visit'[c].at \in {"in", "menu", "amount"} /\ Earned(MemberOf[c]))
                       \/ (/\ visit'[c].at = "gate"
                           /\ visit'[c].cached => passed[MemberOf[c]]
                           /\ \A k \in Kind : visit'[c].need[k] = config[k] /\ config[k] # Typo)
  /\ \A c \in Client : call'[c].op = "purchase" => call[c].op = "purchase" \/ Earned(MemberOf[c])
  /\ \A o \in Order : order'[o] # None =>
       \/ (order[o] # None /\ order'[o].buyer = order[o].buyer)
       \/ (\E c \in Client : call[c].op = "purchase" /\ order'[o].buyer = MemberOf[c])

(* Such steps keep the gate's invariant.                                              *)
LEMMA GateKept ==
  ASSUME GateTypes, GateTypes', GateMoves, ShopTypeOK, GateInv, RequirementsAbove', GateStep
  PROVE  GateInv'
  <1>0. \A u \in User : Earned(u) => Earned(u)'
    BY EarnedStays
  <1>1. \A c \in Client : MemberOf[c] \in User
    BY ClientAssumption
  <1>2. PassedEarned'
    BY <1>0 DEF PassedEarned, GateInv, GateStep
  <1>3. CallersEarned'
    BY <1>0, <1>1 DEF CallersEarned, GateInv, GateStep
  <1>4. BuyersEarnedIt'
    <2>1. ASSUME NEW o \in Order, order'[o] # None, NEW k \in Kind
          PROVE  Counted(order[o].buyer, k)' >= lowest'[k]
      <3>1. PICK u \in User : u = order'[o].buyer /\ Earned(u)
        <4>1. CASE order[o] # None /\ order'[o].buyer = order[o].buyer
          <5>1. order[o].buyer \in User
            BY <4>1 DEF ShopTypeOK, OrderRow
          <5> QED BY <4>1, <5>1, BuyersEarned DEF GateInv
        <4>2. ASSUME NEW c \in Client, call[c].op = "purchase", order'[o].buyer = MemberOf[c]
              PROVE  \E u \in User : u = order'[o].buyer /\ Earned(u)
          BY <1>1, <4>2 DEF GateInv, CallersEarned
        <4> QED BY <2>1, <4>1, <4>2 DEF GateStep
      <3>2. Counted(u, k)' >= lowest'[k]
        BY <1>0, <3>1 DEF Earned
      <3>3. Counted(order[o].buyer, k)' = Counted(u, k)'
        BY <3>1 DEF Counted
      <3> QED BY <3>2, <3>3
    <2> QED BY <2>1 DEF BuyersEarnedIt
  <1>5. VisitorsEarned'
    <2> SUFFICES ASSUME NEW c \in Client
                 PROVE  /\ visit'[c].at = "gate" =>
                             /\ visit'[c].cached => Earned(MemberOf[c])'
                             /\ \A k \in Kind : visit'[c].need[k] >= lowest'[k]
                        /\ visit'[c].at \in {"in", "menu", "amount"} => Earned(MemberOf[c])'
      BY DEF VisitorsEarned
    <2>0. visit[c] \in Visit /\ visit'[c] \in Visit
      BY DEF GateTypes
    <2>1. CASE visit'[c] = visit[c]
      <3>1. ASSUME visit[c].at = "gate", NEW k \in Kind PROVE visit[c].need[k] >= lowest'[k]
        <4>1. visit[c].need[k] >= lowest[k]
          BY <3>1 DEF GateInv, VisitorsEarned
        <4>2. visit[c].need[k] \in Nat
          BY <2>0, <3>1, VisitIs
        <4>3. lowest[k] \in Nat /\ lowest'[k] \in Nat /\ lowest'[k] <= lowest[k]
          BY DEF GateTypes, GateMoves
        <4> QED BY <4>1, <4>2, <4>3
      <3> QED BY <1>0, <1>1, <2>1, <3>1 DEF GateInv, VisitorsEarned
    <2>2. CASE visit'[c].at = "away"
      BY <2>2
    <2>3. CASE visit'[c].at \in {"in", "menu", "amount"} /\ Earned(MemberOf[c])
      BY <1>0, <1>1, <2>3
    <2>4. CASE /\ visit'[c].at = "gate"
               /\ visit'[c].cached => passed[MemberOf[c]]
               /\ \A k \in Kind : visit'[c].need[k] = config[k] /\ config[k] # Typo
      <3>1. ASSUME NEW k \in Kind PROVE visit'[c].need[k] >= lowest'[k]
        <4>1. config[k] >= lowest[k] /\ config[k] \in Nat
          BY <2>4 DEF GateInv, RequirementsAbove, GateTypes
        <4>2. lowest[k] \in Nat /\ lowest'[k] \in Nat /\ lowest'[k] <= lowest[k]
          BY DEF GateTypes, GateMoves
        <4> QED BY <2>4, <4>1, <4>2
      <3>2. visit'[c].cached => Earned(MemberOf[c])'
        BY <1>0, <1>1, <2>4 DEF GateInv, PassedEarned
      <3> QED BY <2>4, <3>1, <3>2
    <2> QED BY <2>1, <2>2, <2>3, <2>4 DEF GateStep
  <1> QED BY <1>2, <1>3, <1>4, <1>5 DEF GateInv

(* What an administrator stores is at least the mildest that was stored.               *)
LEMMA AdminKeepsAbove ==
  ASSUME GateTypes, ShopTypeOK, GateInv, NEW a \in Admin, MarketAdmin(a)
  PROVE  RequirementsAbove'
  <1>1. CASE UNCHANGED <<config, lowest>>
    BY <1>1 DEF RequirementsAbove, GateInv
  <1>2. ASSUME NEW k \in Kind, NEW v \in Nat \cup {Typo}, SetConfig(k, v) PROVE RequirementsAbove'
    <2>1. \A j \in Kind : j # k => config'[j] = config[j] /\ lowest'[j] = lowest[j]
      BY <1>2 DEF SetConfig, GateTypes
    <2>2. config'[k] = v /\ lowest'[k] = IF v = Typo THEN lowest[k] ELSE Min({lowest[k], v})
      BY <1>2 DEF SetConfig, GateTypes
    <2>3. v # Typo => v >= lowest'[k]
      <3>1. ASSUME v # Typo PROVE v >= Min({lowest[k], v})
        <4>1. v \in Nat /\ lowest[k] \in Nat
          BY <3>1 DEF GateTypes
        <4>2. Min({lowest[k], v}) <= v /\ Min({lowest[k], v}) \in {lowest[k], v}
          BY <4>1, LesserOfTwo
        <4> QED BY <4>1, <4>2
      <3> QED BY <2>2, <3>1
    <2>4. \A j \in Kind : config[j] # Typo => config[j] >= lowest[j]
      BY DEF GateInv, RequirementsAbove
    <2> QED BY <2>1, <2>2, <2>3, <2>4 DEF RequirementsAbove
  <1>3. UNCHANGED <<config, lowest>> \/ \E k \in Kind : \E v \in NewValue[k] : SetConfig(k, v)
    BY DEF MarketAdmin, HandleInlineSave, SendPatch, Saved, CancelEdit, OpenInlineEdit, OnlyEdit,
           HandleToggleActive, SoftDelete, StartEdit, HandleSave, HandleFile, UploadRow, marketVars
  <1>4. \A k \in Kind : NewValue[k] \subseteq Nat \cup {Typo}
    BY GateAssumption
  <1> QED BY <1>1, <1>2, <1>3, <1>4

(* A client who stands at the gate and is let in has earned it.                       *)
LEMMA LetInEarned ==
  ASSUME GateTypes, GateInv, NEW c \in Client, visit[c].at = "gate", visit[c].cached \/ Enough(c)
  PROVE  Earned(MemberOf[c])
  <1>1. CASE visit[c].cached
    BY <1>1 DEF GateInv, VisitorsEarned
  <1>2. CASE Enough(c)
    <2> SUFFICES ASSUME NEW k \in Kind PROVE Counted(MemberOf[c], k) >= lowest[k]
      BY DEF Earned
    <2>1. Counted(MemberOf[c], k) \in Nat /\ lowest[k] \in Nat
      BY ClientAssumption, CountedType DEF GateTypes
    <2>2. visit[c].need[k] \in Nat
      <3>1. visit[c] \in Visit
        BY DEF GateTypes
      <3> QED BY <3>1, VisitIs
    <2>3. Counted(MemberOf[c], k) >= visit[c].need[k]
      BY <1>2 DEF Enough
    <2>4. visit[c].need[k] >= lowest[k]
      BY DEF GateInv, VisitorsEarned
    <2> QED BY <2>1, <2>2, <2>3, <2>4
  <1> QED BY <1>1, <1>2

(* A step in which one client comes or goes and nothing else changes.                  *)
LEMMA OneVisit ==
  ASSUME GateTypes, NEW c \in Client, NEW v, Comes(c, v), UNCHANGED <<passed, call, order>>,
         \/ v.at = "away"
         \/ (v.at \in {"in", "menu", "amount"} /\ Earned(MemberOf[c]))
         \/ (/\ v.at = "gate" /\ (v.cached => passed[MemberOf[c]])
             /\ \A k \in Kind : v.need[k] = config[k] /\ config[k] # Typo)
  PROVE  GateStep
  <1>1. visit'[c] = v /\ \A d \in Client \ {c} : visit'[d] = visit[d]
    BY DEF Comes, GateTypes
  <1> QED BY <1>1 DEF GateStep

(* Whoever the gate lets in has earned it at that moment. *)
LEMMA EnterIsGateStep ==
  ASSUME GateTypes, ShopTypeOK, GateInv, NEW c \in Client, Enter(c)
  PROVE  GateStep
  <1>1. Earned(MemberOf[c])
    BY LetInEarned DEF Enter
  <1>2. /\ passed' = [passed EXCEPT ![MemberOf[c]] = TRUE]
        /\ call' = call /\ order' = order
    BY DEF Enter, vars
  <1>3. \A d \in Client \ {c} : visit'[d] = visit[d]
    BY DEF Enter, Comes, GateTypes
  <1>4. visit'[c].at = "away" \/ visit'[c].at \in {"in", "menu", "amount"}
    <2>1. visit'[c] = IF c \notin Chat THEN [at |-> "in"]
                      ELSE IF OnShow = {} THEN Away ELSE [at |-> "menu", shown |-> OnShow]
      BY DEF Enter, Comes, GateTypes
    <2> QED BY <2>1 DEF Away
  <1>5. \A u \in User : passed'[u] => passed[u] \/ Earned(u)
    BY <1>1, <1>2 DEF GateTypes
  <1> QED BY <1>1, <1>2, <1>3, <1>4, <1>5 DEF GateStep

(* A purchase begun by a member who earned it is a step of the gate. *)
LEMMA BuysIsGateStep ==
  ASSUME GateTypes, ShopTypeOK, NEW c \in Client, NEW p, NEW q, Buys(c, p, q), Earned(MemberOf[c])
  PROVE  GateStep
  <1>1. visit'[c].at = "away" /\ \A d \in Client \ {c} : visit'[d] = visit[d]
    BY DEF Buys, Comes, Away, GateTypes
  <1>2. passed' = passed /\ order' = order
    BY DEF Buys, ReadProduct, vars, shopVars
  <1>3. \A d \in Client \ {c} : call'[d] = call[d]
    BY DEF Buys, ReadProduct, Goes, vars, ShopTypeOK
  <1> QED BY <1>1, <1>2, <1>3 DEF GateStep

(* The purchase writes the member's name.                                              *)
LEMMA PurchaseIsGateStep ==
  ASSUME GateTypes, ShopTypeOK, NEW c \in Client, Purchase(c), UNCHANGED marketVars
  PROVE  GateStep
  <1>1. passed' = passed /\ visit' = visit
    BY DEF marketVars
  <1>2. PICK o \in Order : order[o] = None /\ order' = [order EXCEPT ![o] = RowOf(c)]
    BY DEF Purchase, NewOrder, RowOf
  <1>3. call[c].op = "purchase" /\ RowOf(c).buyer = MemberOf[c]
    BY DEF Purchase, RowOf
  <1>4. \A i \in Order : order'[i] = IF i = o THEN RowOf(c) ELSE order[i]
    BY <1>2 DEF ShopTypeOK
  <1>5. \A d \in Client : call'[d].op = "purchase" => call[d].op = "purchase"
    BY DEF Purchase, Ends, Idle, ShopTypeOK
  <1> QED BY <1>1, <1>3, <1>4, <1>5 DEF GateStep

(* Calls other than purchases cannot break the gate. *)
LEMMA OtherCallIsGateStep ==
  ASSUME GateTypes, ShopTypeOK, UNCHANGED <<order, marketVars>>, NEW c \in Client, NEW x \in Call,
         x.op # "purchase", call' = [call EXCEPT ![c] = x]
  PROVE  GateStep
  <1>1. passed' = passed /\ visit' = visit /\ order' = order
    BY DEF marketVars
  <1>2. \A d \in Client : call'[d].op = "purchase" => call[d].op = "purchase"
    BY DEF ShopTypeOK
  <1> QED BY <1>1, <1>2 DEF GateStep

(* Every step of a member is such a step.                                               *)
LEMMA MemberIsGateStep ==
  ASSUME GateTypes, ShopTypeOK, GateInv, NEW c \in Client, MarketMember(c)
  PROVE  GateStep
  <1>1. CASE ReadRequirement(c)
    <2> DEFINE v == [at |-> "gate", cached |-> passed[MemberOf[c]], need |-> config]
    <2>1. Comes(c, v) /\ UNCHANGED <<passed, call, order>> /\ \A k \in Kind : config[k] # Typo
      BY <1>1 DEF ReadRequirement, OnlyVisit, vars
    <2>2. v.at = "gate" /\ v.cached = passed[MemberOf[c]] /\ v.need = config
      OBVIOUS
    <2> HIDE DEF v
    <2> QED BY <2>1, <2>2, OneVisit
  <1>2. CASE Enter(c)
    BY <1>2, EnterIsGateStep
  <1>3. CASE Forbidden(c) \/ GivesUp(c)
    <2>1. Comes(c, Away) /\ UNCHANGED <<passed, call, order>>
      BY <1>3 DEF Forbidden, GivesUp, OnlyVisit, vars
    <2> QED BY <2>1, OneVisit DEF Away
  <1>4. CASE ChooseProduct(c)
    <2>1. PICK offer \in visit[c].shown :
            Comes(c, [at |-> "amount", product |-> offer[1], price |-> offer[2]])
      BY <1>4 DEF ChooseProduct
    <2>2. UNCHANGED <<passed, call, order>> /\ visit[c].at = "menu"
      BY <1>4 DEF ChooseProduct, OnlyVisit, vars
    <2>3. Earned(MemberOf[c])
      BY <2>2 DEF GateInv, VisitorsEarned
    <2>4. PICK v : v = [at |-> "amount", product |-> offer[1], price |-> offer[2]]
      OBVIOUS
    <2>5. v.at = "amount" /\ Comes(c, v)
      BY <2>1, <2>4
    <2> QED BY <2>2, <2>3, <2>5, OneVisit
  <1>5. ASSUME NEW p \in Product, NEW q \in Quantity, BuyOnWeb(c, p, q) PROVE GateStep
    <2>1. Earned(MemberOf[c])
      BY <1>5 DEF BuyOnWeb, GateInv, VisitorsEarned
    <2> QED BY <1>5, <2>1, BuysIsGateStep DEF BuyOnWeb
  <1>6. ASSUME NEW q \in Quantity, EnterQuantity(c, q) PROVE GateStep
    <2>1. Earned(MemberOf[c])
      BY <1>6 DEF EnterQuantity, GateInv, VisitorsEarned
    <2>2. PICK p : p = visit[c].product
      OBVIOUS
    <2>3. Buys(c, p, q)
      BY <1>6, <2>2 DEF EnterQuantity
    <2> QED BY <2>1, <2>3, BuysIsGateStep
  <1>7. ASSUME NEW i \in Item, ReadItem(c, i), UNCHANGED marketVars PROVE GateStep
    <2>1. [op |-> "item", item |-> i] \in Call /\ [op |-> "item", item |-> i].op # "purchase"
      BY NewCalls
    <2>2. UNCHANGED order /\ call' = [call EXCEPT ![c] = [op |-> "item", item |-> i]]
      BY <1>7 DEF ReadItem, Goes, shopVars
    <2> QED BY <1>7, <2>1, <2>2, OtherCallIsGateStep
  <1>8. CASE Purchase(c) /\ UNCHANGED marketVars
    BY <1>8, PurchaseIsGateStep
  <1>9. CASE (PurchaseProfileItem(c) \/ Refused(c)) /\ UNCHANGED marketVars
    <2>1. UNCHANGED order /\ call' = [call EXCEPT ![c] = Idle]
      BY <1>9 DEF PurchaseProfileItem, Refused, Ends, shopVars
    <2> QED BY <1>9, <2>1, NewCalls, OtherCallIsGateStep
  <1> QED BY <1>1, <1>2, <1>3, <1>4, <1>5, <1>6, <1>7, <1>8, <1>9 DEF MarketMember

(* Every step of the market keeps the gate invariant. *)
LEMMA MarketNextGate ==
  ShopTypes /\ GateTypes /\ GateInv /\ [MarketNext]_allVars => (ShopTypes /\ GateTypes /\ GateInv)'
  <1> SUFFICES ASSUME ShopTypes, GateTypes, GateInv, [MarketNext]_allVars
               PROVE  (ShopTypes /\ GateTypes /\ GateInv)'
    OBVIOUS
  <1>1. ShopTypeOK /\ MarketTypeOK
    BY MarketTypesAre DEF ShopTypes
  <1>2. ShopTypes'
    BY <1>1, MarketOnShop, ShopStepTypes
  <1>3. CASE UNCHANGED <<marketVars, call, order>>
    <2>1. GateTypes' /\ GateMoves
      BY <1>3, GateStays DEF GateTypes, marketVars
    <2>2. RequirementsAbove'
      BY <1>3 DEF RequirementsAbove, GateInv, marketVars
    <2>3. GateStep
      BY <1>3 DEF GateStep, marketVars
    <2> QED BY <1>1, <1>2, <2>1, <2>2, <2>3, GateKept
  <1>4. ASSUME NEW c \in Client, MarketMember(c) PROVE (GateTypes /\ GateInv)'
    <2>1. GateTypes' /\ UNCHANGED <<records, lowest, config>>
      BY <1>1, <1>4, MemberTypes
    <2>2. GateMoves
      BY <2>1, GateStays
    <2>3. RequirementsAbove'
      BY <2>1 DEF RequirementsAbove, GateInv
    <2>4. GateStep
      BY <1>1, <1>4, MemberIsGateStep
    <2> QED BY <1>1, <2>1, <2>2, <2>3, <2>4, GateKept
  <1>5. ASSUME NEW a \in Admin, MarketAdmin(a) PROVE (GateTypes /\ GateInv)'
    <2>1. GateTypes' /\ GateMoves /\ UNCHANGED <<passed, visit>>
      BY <1>1, <1>5, AdminTypes
    <2>2. RequirementsAbove'
      BY <1>1, <1>5, AdminKeepsAbove
    <2>3. GateStep
      <3>1. CASE ClerkCall(a)
        BY <2>1, <3>1, ClerksKeepBuyers DEF GateStep
      <3>2. CASE UNCHANGED vars
        BY <2>1, <3>2 DEF vars, GateStep
      <3> QED BY <1>1, <1>5, <3>1, <3>2, AdminOnShop
    <2> QED BY <1>1, <2>1, <2>2, <2>3, GateKept
  <1>6. UNCHANGED <<marketVars, call, order>> \/ (\E c \in Client : MarketMember(c))
        \/ \E a \in Admin : MarketAdmin(a)
    BY DEF MarketNext, allVars, vars, shopVars
  <1> QED BY <1>2, <1>3, <1>4, <1>5, <1>6

(* The market starts with it. *)
LEMMA MarketInitGate == MarketInit => ShopTypes /\ GateTypes /\ GateInv
  <1> SUFFICES ASSUME MarketInit PROVE ShopTypes /\ GateTypes /\ GateInv
    OBVIOUS
  <1>1. ShopTypes
    BY OfferAssumption, NewCalls DEF MarketInit, Init, ShopTypes, ShopTypeOK, KnownOrders
  <1>2. GateTypes
    <2>1. records \in [User -> [Kind -> [Status -> Nat]]]
      BY SheetAssumption DEF MarketInit
    <2>2. config \in [Kind -> Nat \cup {Typo}] /\ lowest \in [Kind -> Nat]
      BY GateAssumption DEF MarketInit
    <2>3. visit \in [Client -> Visit] /\ edit \in [Admin -> Edit] /\ passed \in [User -> BOOLEAN]
      BY VisitsAre, NewEdits DEF MarketInit
    <2>4. upload \in [Admin -> Seq(SheetRow)] /\ uploads \in 0 .. MaxUploads
      BY SheetAssumption DEF MarketInit
    <2> QED BY <2>1, <2>2, <2>3, <2>4 DEF GateTypes
  <1>3. GateInv
    <2>1. RequirementsAbove
      BY GateAssumption DEF MarketInit, RequirementsAbove
    <2>2. PassedEarned /\ BuyersEarnedIt
      BY DEF MarketInit, Init, PassedEarned, BuyersEarnedIt
    <2>3. VisitorsEarned /\ CallersEarned
      BY DEF MarketInit, Init, VisitorsEarned, CallersEarned, Away, Idle
    <2> QED BY <2>1, <2>2, <2>3 DEF GateInv
  <1> QED BY <1>1, <1>2, <1>3

(* Whoever has an order had attended what the mildest requirements ever in force asked, *)
(* through every interleaving of visits, edits of the requirements and uploads: the     *)
(* flag of the gate, read before and used after, never lets in who has not.             *)
THEOREM OnlyEarnersBuy == MarketSpec => []BuyersEarnedIt
  <1>1. GateInv => BuyersEarnedIt
    BY DEF GateInv
  <1> QED BY <1>1, MarketInitGate, MarketNextGate, PTL DEF MarketSpec

(* Every row, call, visit and setting has its type.                                     *)
THEOREM MarketTypeCorrect == MarketSpec => []MarketTypeOK
  <1>1. ShopTypes /\ GateTypes => MarketTypeOK
    BY MarketTypesAre DEF ShopTypes
  <1> QED BY <1>1, MarketInitGate, MarketNextGate, PTL DEF MarketSpec

-----------------------------------------------------------------------------
(* Orders account for points and vouchers.                                      *)

(* A second administrator or a second client of one member would call on what   *)
(* the other has since changed: no call locks what it reads first.               *)
OneAdministrator == \A a, b \in Admin : a = b
OneClientPerMember == \A c, d \in Client : MemberOf[c] = MemberOf[d] => c = d

SpentNow(u) == SpentIn(order, u) + SumFunctionOnSet(ItemPrice, items[u])

(* Whoever has joined has what is left of the seed, whoever has not spent nothing. *)
Paid ==
  \A u \in User : /\ account[u] = "open" => balance[u] = SeedPoints - SpentNow(u)
                  /\ account[u] = "none" => SpentNow(u) = 0

AssignedIn(cp, u, p) == {k \in Coupon : CouponOf[k] = p /\ cp[k] = u}

Vouchered ==
  \A u \in User, p \in Voucher : Cardinality(AssignedIn(coupon, u, p)) = BoughtIn(order, u, p)

(* The order a clerk has read is still as it was.                                  *)
ClerkSees ==
  \A a \in Admin : call[a].op \in {"cancel", "deliver"} => order[call[a].order].status = "COMPLETED"

OrdersInv == ShopTypes /\ ClerkSees /\ LedgerInv /\ Paid /\ Vouchered

Within(ord, u, p, q) == Limit[p] > 0 => BoughtIn(ord, u, p) + q <= Limit[p]

(* What a member is about to buy is still within the limit.                        *)
PurchaseFits ==
  \A c \in Client : call[c].op = "purchase" =>
    Within(order, MemberOf[c], call[c].product, call[c].quantity)

LimitInv == ShopTypes /\ ClerkSees /\ PurchaseFits /\ \A u \in User, p \in Product : Within(order, u, p, 0)

(* Row o of the table is written, and nothing else of it.                          *)
Writes(o, row) == order' = [order EXCEPT ![o] = row]

(* Writing one row changes what a buyer bought and spent by the difference of the rows. *)
LEMMA WrittenSums ==
  ASSUME ShopTypeOK, NEW o \in Order, NEW row \in OrderRow \cup {None}, Writes(o, row), NEW u, NEW p
  PROVE  /\ BoughtIn(order', u, p)
              = BoughtIn(order, u, p) + (QuantityOf(row, u, p) - QuantityOf(order[o], u, p))
         /\ SpentIn(order', u) = SpentIn(order, u) + (TotalOf(row, u) - TotalOf(order[o], u))
         /\ \A i \in Order : order'[i] = IF i = o THEN row ELSE order[i]
  <1>1. order \in Table
    BY DEF ShopTypeOK, Table
  <1>2. PICK ord \in Table : ord = order
    BY <1>1
  <1>3. order' = [ord EXCEPT ![o] = row]
    BY <1>2 DEF Writes
  <1>4. \A i \in Order : order'[i] = IF i = o THEN row ELSE order[i]
    BY <1>1 DEF Writes, Table
  <1>5. /\ BoughtIn([ord EXCEPT ![o] = row], u, p)
             = BoughtIn(ord, u, p) + (QuantityOf(row, u, p) - QuantityOf(ord[o], u, p))
        /\ SpentIn([ord EXCEPT ![o] = row], u) = SpentIn(ord, u) + (TotalOf(row, u) - TotalOf(ord[o], u))
    BY RowWritten
  <1> QED BY <1>2, <1>3, <1>4, <1>5

(* What the table of orders undergoes in a step of the shop.                        *)
Buying(c, o) ==
  /\ Purchase(c) /\ call[c].op = "purchase"
  /\ order[o] = None /\ Writes(o, RowOf(c)) /\ RowOf(c) \in OrderRow
Closing(a, o, s) ==
  /\ order[o] \in OrderRow /\ call[a].order = o /\ call'[a] = Idle
  /\ Writes(o, [order[o] EXCEPT !.status = s])
  /\ \/ (s = "CANCELLED" /\ call[a].op = "cancel" /\ CancelOrder(a))
     \/ (s = "DELIVERED" /\ call[a].op = "deliver" /\ MarkDelivered(a))

(* The calls of all but one client stay as they are.                                 *)
OnlyCallOf(c) == \A d \in (Client \cup Admin) \ {c} : call'[d] = call[d]

(* purchase inserts one new order and ends its call. *)
LEMMA PurchaseIsBuying ==
  ASSUME ShopTypeOK, NEW c \in Client, Purchase(c)
  PROVE  (\E o \in Order : Buying(c, o)) /\ OnlyCallOf(c) /\ call'[c] = Idle
  <1>1. call[c].op = "purchase"
    BY DEF Purchase
  <1>2. PICK o \in Order : order[o] = None /\ NewOrder(c, o)
    BY DEF Purchase
  <1>3. Writes(o, RowOf(c)) /\ RowOf(c) \in OrderRow
    BY <1>1, <1>2, RowOfType DEF NewOrder, Writes, RowOf
  <1>4. OnlyCallOf(c) /\ call'[c] = Idle
    BY DEF Purchase, Ends, OnlyCallOf, ShopTypeOK
  <1> QED BY <1>1, <1>2, <1>3, <1>4 DEF Buying

(* cancelOrder and markDelivered close one order and end their call. *)
LEMMA ClerkIsClosing ==
  ASSUME ShopTypes, NEW a \in Admin, CancelOrder(a) \/ MarkDelivered(a)
  PROVE  (\E o \in Order, s \in {"CANCELLED", "DELIVERED"} : Closing(a, o, s)) /\ OnlyCallOf(a)
  <1> DEFINE o == call[a].order
  <1>1. ShopTypeOK
    BY DEF ShopTypes
  <1>2. call[a] \in Call /\ call[a].op \in {"cancel", "deliver"}
    BY <1>1 DEF ShopTypeOK, CancelOrder, MarkDelivered
  <1>3. o \in Order /\ order[o] \in OrderRow
    BY <1>1, <1>2, CallIs DEF ShopTypes, KnownOrders, ShopTypeOK
  <1>4. call' = [call EXCEPT ![a] = Idle]
    BY DEF CancelOrder, MarkDelivered, Ends
  <1>5. OnlyCallOf(a) /\ call'[a] = Idle
    BY <1>1, <1>4 DEF OnlyCallOf, ShopTypeOK
  <1>6. CASE CancelOrder(a)
    <2>1. Writes(o, [order[o] EXCEPT !.status = "CANCELLED"]) /\ call[a].op = "cancel"
      BY <1>6 DEF CancelOrder, SetStatus, Writes
    <2>2. Closing(a, o, "CANCELLED")
      BY <1>3, <1>5, <1>6, <2>1 DEF Closing
    <2> QED BY <1>3, <1>5, <2>2
  <1>7. CASE MarkDelivered(a)
    <2>1. Writes(o, [order[o] EXCEPT !.status = "DELIVERED"]) /\ call[a].op = "deliver"
      BY <1>7 DEF MarkDelivered, SetStatus, Writes
    <2>2. Closing(a, o, "DELIVERED")
      BY <1>3, <1>5, <1>7, <2>1 DEF Closing
    <2> QED BY <1>3, <1>5, <2>2
  <1> QED BY <1>6, <1>7

(* A row of the table whose state alone changes counts as much as before, or no more.  *)
LEMMA ClosedRow ==
  ASSUME NEW row \in OrderRow, NEW s \in {"CANCELLED", "DELIVERED"}, NEW u, NEW p,
         NEW new, new = [row EXCEPT !.status = s]
  PROVE  /\ new \in OrderRow /\ new.status = s
         /\ s = "CANCELLED" => QuantityOf(new, u, p) = 0 /\ TotalOf(new, u) = 0
         /\ s = "DELIVERED" /\ row.status # "CANCELLED" =>
              QuantityOf(new, u, p) = QuantityOf(row, u, p) /\ TotalOf(new, u) = TotalOf(row, u)
  <1>1. new \in OrderRow /\ new.status = s /\ new.buyer = row.buyer
        /\ new.product = row.product /\ new.quantity = row.quantity /\ new.total = row.total
    BY DEF OrderRow, OrderStatus
  <1>2. row # None /\ new # None
    BY <1>1, NoneAssumption
  <1>3. Counts(new, u) <=> new.buyer = u /\ s # "CANCELLED"
    BY <1>1, <1>2 DEF Counts
  <1>4. row.status # "CANCELLED" => (Counts(row, u) <=> row.buyer = u)
    BY <1>2 DEF Counts
  <1> QED BY <1>1, <1>3, <1>4 DEF QuantityOf, TotalOf

(* A single administrator's call goes on with the order as he read it.              *)
LEMMA ClerkStillSees ==
  ASSUME OneAdministrator, ShopTypes, ClerkSees, ShopStep
  PROVE  ClerkSees'
  <1>1. ShopTypeOK
    BY DEF ShopTypes
  <1>2. CASE UNCHANGED <<order, call>>
    BY <1>2 DEF ClerkSees
  <1>3. ASSUME NEW c \in Client, MemberCall(c) PROVE ClerkSees'
    <2>1. \A a \in Admin : call'[a] = call[a]
      BY <1>1, <1>3, ClientAssumption DEF MemberCall, ReadProduct, ReadItem, Purchase,
                                          PurchaseProfileItem, Refused, Goes, Ends, ShopTypeOK
    <2>2. \A o \in Order : order[o] # None => order'[o] = order[o]
      <3>1. CASE UNCHANGED order
        BY <3>1
      <3>2. CASE Purchase(c)
        <4>1. PICK o \in Order : Buying(c, o)
          BY <1>1, <3>2, PurchaseIsBuying
        <4> QED BY <1>1, <4>1, WrittenSums DEF Buying
      <3> QED BY <1>3, <3>1, <3>2 DEF MemberCall, ReadProduct, ReadItem, PurchaseProfileItem,
                                      Refused, shopVars
    <2>3. \A a \in Admin : call[a].op \in {"cancel", "deliver"} =>
            call[a].order \in Order /\ order[call[a].order] # None
      BY <1>1, CallIs DEF ShopTypes, KnownOrders, ShopTypeOK
    <2> QED BY <2>1, <2>2, <2>3 DEF ClerkSees
  <1>4. ASSUME NEW a \in Admin, ClerkCall(a) PROVE ClerkSees'
    <2>1. \A b \in Admin : b = a
      BY DEF OneAdministrator
    <2>2. CASE call'[a].op \notin {"cancel", "deliver"}
      BY <2>1, <2>2 DEF ClerkSees
    <2>3. ASSUME NEW o \in Order, ReadToCancel(a, o) \/ ReadToDeliver(a, o) PROVE ClerkSees'
      <3>1. order[o].status = "COMPLETED" /\ order' = order /\ call'[a].order = o
        BY <1>1, <2>3 DEF ReadToCancel, ReadToDeliver, Cancellable, Deliverable, Goes, shopVars, ShopTypeOK
      <3> QED BY <2>1, <3>1 DEF ClerkSees
    <2>4. ASSUME NEW p, NEW row, Patch(a, p, row) PROVE call'[a].op = "save"
      BY <1>1, <2>4 DEF Patch, Goes, ShopTypeOK
    <2>5. CASE CancelOrder(a) \/ MarkDelivered(a) \/ SaveProduct(a)
      BY <1>1, <2>2, <2>5 DEF CancelOrder, MarkDelivered, SaveProduct, Ends, Idle, ShopTypeOK
    <2> QED BY <1>4, <2>2, <2>3, <2>4, <2>5 DEF ClerkCall
  <1>5. UNCHANGED <<order, call>> \/ (\E c \in Client : MemberCall(c)) \/ (\E a \in Admin : ClerkCall(a))
    BY DEF ShopStep, vars, shopVars
  <1> QED BY <1>2, <1>3, <1>4, <1>5

-----------------------------------------------------------------------------
(* Limits.                                                                        *)

(* What fits a table fits one on which the member has bought no more.                *)
LEMMA StillWithin ==
  ASSUME NEW ord \in Table, NEW new \in Table, NEW u, NEW p \in Product, NEW q \in Nat,
         Within(ord, u, p, q), BoughtIn(new, u, p) <= BoughtIn(ord, u, p)
  PROVE  Within(new, u, p, q)
  <1>1. BoughtIn(new, u, p) \in Nat /\ BoughtIn(ord, u, p) \in Nat /\ Limit[p] \in Nat
    BY TableAmounts, PriceAssumption
  <1> QED BY <1>1 DEF Within

(* A call that is checked reads what it may buy from the table as it is.              *)
LEMMA CheckedFits ==
  ASSUME ShopTypeOK, NEW u \in User, NEW p \in Product, NEW q, OnSale(u, p, q)
  PROVE  Within(order, u, p, q)
  <1>1. Limit[p] > 0 => BoughtBy(u, p) + q <= Limit[p]
    BY PriceAssumption DEF OnSale, WithinLimit
  <1> QED BY <1>1, BoughtIsIn DEF Within, ShopTypeOK, Table

(* The limits stand when nobody has bought more and no new purchase is checked.        *)
LEMMA NothingBought ==
  ASSUME ShopTypes, ShopTypes', LimitInv, ClerkSees',
         \A u \in User, p \in Product : BoughtIn(order', u, p) <= BoughtIn(order, u, p),
         \A c \in Client : call'[c].op = "purchase" =>
            \/ call'[c] = call[c]
            \/ Within(order', MemberOf[c], call'[c].product, call'[c].quantity)
  PROVE  LimitInv'
  <1>1. PICK old \in Table : old = order
    BY DEF ShopTypes, ShopTypeOK, Table
  <1>2. PICK new \in Table : new = order'
    BY DEF ShopTypes, ShopTypeOK, Table
  <1>3. \A u \in User, p \in Product, q \in Nat : Within(old, u, p, q) => Within(new, u, p, q)
    BY <1>1, <1>2, StillWithin
  <1>4. \A u \in User, p \in Product : Within(new, u, p, 0)
    BY <1>1, <1>3 DEF LimitInv
  <1>5. ASSUME NEW c \in Client, call'[c].op = "purchase"
        PROVE  Within(new, MemberOf[c], call'[c].product, call'[c].quantity)
    <2>1. CASE call'[c] = call[c]
      <3>1. MemberOf[c] \in User /\ call[c].product \in Product /\ call[c].quantity \in Nat
        BY <1>5, <2>1, PurchaseCall DEF ShopTypes
      <3>2. Within(old, MemberOf[c], call[c].product, call[c].quantity)
        BY <1>1, <1>5, <2>1 DEF LimitInv, PurchaseFits
      <3> QED BY <1>3, <2>1, <3>1, <3>2
    <2> QED BY <1>2, <1>5, <2>1
  <1>6. PurchaseFits'
    BY <1>2, <1>5 DEF PurchaseFits
  <1> QED BY <1>2, <1>4, <1>6 DEF LimitInv

(* purchase keeps the limit: with one call per member, the quantities its check summed still stand. *)
LEMMA PurchaseKeepsLimit ==
  ASSUME OneClientPerMember, ShopTypes, ShopTypes', ClerkSees', LimitInv,
         NEW c \in Client, Purchase(c)
  PROVE  LimitInv'
  <1> DEFINE u == MemberOf[c]
             p == call[c].product
             q == call[c].quantity
  <1>1. ShopTypeOK /\ order \in Table /\ order' \in Table
    BY DEF ShopTypes, ShopTypeOK, Table
  <1>2. PICK o \in Order : Buying(c, o)
    BY <1>1, PurchaseIsBuying
  <1>3. OnlyCallOf(c) /\ call'[c] = Idle /\ call[c].op = "purchase"
    BY <1>1, <1>2, PurchaseIsBuying DEF Buying
  <1>4. u \in User /\ p \in Product /\ q \in Nat \ {0}
    BY <1>1, <1>3, PurchaseCall
  <1>5. \A v \in User, r \in Product :
          BoughtIn(order', v, r) = BoughtIn(order, v, r) + (IF v = u /\ r = p THEN q ELSE 0)
    <2> SUFFICES ASSUME NEW v \in User, NEW r \in Product
                 PROVE  BoughtIn(order', v, r)
                          = BoughtIn(order, v, r) + (IF v = u /\ r = p THEN q ELSE 0)
      OBVIOUS
    <2>1. QuantityOf(order[o], v, r) = 0
      BY <1>2, RowAmounts DEF Buying
    <2>2. QuantityOf(RowOf(c), v, r) = IF v = u /\ r = p THEN q ELSE 0
      BY <1>2, NoneAssumption DEF Buying, QuantityOf, Counts, RowOf
    <2>3. BoughtIn(order', v, r)
            = BoughtIn(order, v, r) + (QuantityOf(RowOf(c), v, r) - QuantityOf(order[o], v, r))
      BY <1>1, <1>2, WrittenSums DEF Buying
    <2> QED BY <1>4, <2>1, <2>2, <2>3
  <1>6. ASSUME NEW v \in User, NEW r \in Product PROVE Within(order', v, r, 0)
    <2>1. BoughtIn(order, v, r) \in Nat /\ Limit[r] \in Nat
      BY <1>1, TableAmounts, PriceAssumption
    <2>2. Within(order, v, r, 0) /\ Within(order, u, p, q)
      BY <1>3 DEF LimitInv, PurchaseFits
    <2> HIDE DEF u, p, q
    <2>3. CASE v = u /\ r = p
      BY <1>4, <1>5, <2>1, <2>2, <2>3 DEF Within
    <2>4. CASE ~(v = u /\ r = p)
      BY <1>4, <1>5, <2>1, <2>2, <2>4 DEF Within
    <2> QED BY <2>3, <2>4
  <1>7. ASSUME NEW d \in Client, call'[d].op = "purchase"
        PROVE  Within(order', MemberOf[d], call'[d].product, call'[d].quantity)
    <2>1. d # c
      BY <1>3, <1>7 DEF Idle
    <2>2. call'[d] = call[d] /\ MemberOf[d] # u
      BY <1>3, <2>1 DEF OnlyCallOf, OneClientPerMember
    <2>3. MemberOf[d] \in User /\ call[d].product \in Product /\ call[d].quantity \in Nat
      BY <1>1, <1>7, <2>2, PurchaseCall
    <2>4. BoughtIn(order', MemberOf[d], call[d].product) = BoughtIn(order, MemberOf[d], call[d].product) + 0
      BY <1>5, <2>2, <2>3
    <2>5. BoughtIn(order, MemberOf[d], call[d].product) \in Nat
      BY <1>1, TableAmounts
    <2>6. Within(order, MemberOf[d], call[d].product, call[d].quantity)
      BY <1>7, <2>2 DEF LimitInv, PurchaseFits
    <2> QED BY <2>2, <2>4, <2>5, <2>6 DEF Within
  <1>8. PurchaseFits'
    BY <1>7 DEF PurchaseFits
  <1> QED BY <1>6, <1>8 DEF LimitInv

(* An order that is closed adds nothing.                                             *)
LEMMA ClosingKeepsLimit ==
  ASSUME ShopTypes, ShopTypes', ClerkSees', LimitInv, NEW a \in Admin, CancelOrder(a) \/ MarkDelivered(a)
  PROVE  LimitInv'
  <1>1. ShopTypeOK /\ order \in Table
    BY DEF ShopTypes, ShopTypeOK, Table
  <1>2. PICK o \in Order, s \in {"CANCELLED", "DELIVERED"} : Closing(a, o, s)
    BY ClerkIsClosing
  <1>3. \A c \in Client : call'[c] = call[c]
    BY ClerkIsClosing, ClientAssumption DEF OnlyCallOf
  <1>4. order[o].status # "CANCELLED"
    BY <1>2 DEF Closing, LimitInv, ClerkSees
  <1>5. ASSUME NEW u \in User, NEW p \in Product PROVE BoughtIn(order', u, p) <= BoughtIn(order, u, p)
    <2>1. PICK new : new = [order[o] EXCEPT !.status = s]
      OBVIOUS
    <2>2. PICK row \in OrderRow : row = order[o]
      BY <1>2 DEF Closing
    <2>3. /\ new \in OrderRow
          /\ s = "CANCELLED" => QuantityOf(new, u, p) = 0
          /\ s = "DELIVERED" => QuantityOf(new, u, p) = QuantityOf(row, u, p)
      BY <1>4, <2>1, <2>2, ClosedRow
    <2>4. BoughtIn(order', u, p) = BoughtIn(order, u, p) + (QuantityOf(new, u, p) - QuantityOf(row, u, p))
      BY <1>1, <1>2, <2>1, <2>2, <2>3, WrittenSums DEF Closing
    <2>5. BoughtIn(order, u, p) \in Nat /\ QuantityOf(row, u, p) \in Nat /\ QuantityOf(new, u, p) \in Nat
      BY <1>1, <2>2, <2>3, TableAmounts, RowAmounts
    <2> QED BY <2>3, <2>4, <2>5
  <1> QED BY <1>3, <1>5, NothingBought

(* Every step of the shop keeps the limit. *)
LEMMA ShopStepLimit ==
  ASSUME OneAdministrator, OneClientPerMember, LimitInv, ShopStep
  PROVE  LimitInv'
  <1>1. ShopTypes /\ ShopTypes' /\ ClerkSees' /\ ShopTypeOK
    BY ShopStepTypes, ClerkStillSees DEF LimitInv, ShopTypes
  <1>2. order \in Table
    BY <1>1 DEF ShopTypeOK, Table
  <1>3. \A u \in User, p \in Product : BoughtIn(order, u, p) <= BoughtIn(order, u, p)
    <2>1. \A u \in User, p \in Product : BoughtIn(order, u, p) \in Nat
      BY <1>2, TableAmounts
    <2> QED BY <2>1
  <1>4. CASE UNCHANGED <<order, call>>
    BY <1>1, <1>3, <1>4, NothingBought
  <1>5. ASSUME NEW c \in Client \cup Admin, UNCHANGED order, OnlyCallOf(c),
               c \in Client /\ call'[c].op = "purchase" =>
                 Within(order, MemberOf[c], call'[c].product, call'[c].quantity)
        PROVE  LimitInv'
    BY <1>1, <1>3, <1>5, NothingBought DEF OnlyCallOf
  <1>6. ASSUME NEW c \in Client, NEW p \in Product, NEW q \in Quantity, ReadProduct(c, p, q)
        PROVE  LimitInv'
    <2>1. UNCHANGED order /\ OnlyCallOf(c)
          /\ call'[c] = [op |-> "purchase", product |-> p, quantity |-> q, price |-> product[p].price]
      BY <1>1, <1>6 DEF ReadProduct, Goes, shopVars, OnlyCallOf, ShopTypeOK
    <2>2. Within(order, MemberOf[c], p, q)
      BY <1>1, <1>6, CheckedFits, ClientAssumption DEF ReadProduct
    <2> QED BY <1>5, <2>1, <2>2
  <1>7. ASSUME NEW c \in Client, NEW i \in Item, ReadItem(c, i) PROVE LimitInv'
    <2>1. UNCHANGED order /\ OnlyCallOf(c) /\ call'[c] = [op |-> "item", item |-> i]
      BY <1>1, <1>7 DEF ReadItem, Goes, shopVars, OnlyCallOf, ShopTypeOK
    <2> QED BY <1>5, <2>1
  <1>8. ASSUME NEW c \in Client, PurchaseProfileItem(c) \/ Refused(c) PROVE LimitInv'
    <2>1. UNCHANGED order /\ OnlyCallOf(c) /\ call'[c] = Idle
      BY <1>1, <1>8 DEF PurchaseProfileItem, Refused, Ends, shopVars, OnlyCallOf, ShopTypeOK
    <2> QED BY <1>5, <2>1 DEF Idle
  <1>9. ASSUME NEW c \in Client, Purchase(c) PROVE LimitInv'
    BY <1>1, <1>9, PurchaseKeepsLimit
  <1>10. ASSUME NEW a \in Admin, CancelOrder(a) \/ MarkDelivered(a) PROVE LimitInv'
    BY <1>1, <1>10, ClosingKeepsLimit
  <1>11. ASSUME NEW a \in Admin, UNCHANGED order, OnlyCallOf(a) PROVE LimitInv'
    BY <1>5, <1>11, ClientAssumption
  <1>12. ASSUME NEW a \in Admin, ClerkCall(a) PROVE LimitInv'
    <2>1. ASSUME NEW x, call' = [call EXCEPT ![a] = x] PROVE OnlyCallOf(a)
      BY <1>1, <2>1 DEF OnlyCallOf, ShopTypeOK
    <2>2. CASE CancelOrder(a) \/ MarkDelivered(a)
      BY <1>10, <2>2
    <2>3. CASE SaveProduct(a)
      BY <1>11, <2>1, <2>3 DEF SaveProduct, Ends
    <2>4. ASSUME NEW o \in Order, ReadToCancel(a, o) \/ ReadToDeliver(a, o) PROVE LimitInv'
      BY <1>11, <2>1, <2>4 DEF ReadToCancel, ReadToDeliver, Goes, shopVars
    <2>5. ASSUME NEW p \in Product, NEW row \in ProductRow, Patch(a, p, row) PROVE LimitInv'
      BY <1>11, <2>1, <2>5 DEF Patch, Goes, shopVars
    <2> QED BY <1>12, <2>2, <2>3, <2>4, <2>5 DEF ClerkCall
  <1>13. ASSUME NEW c \in Client, MemberCall(c) PROVE LimitInv'
    BY <1>6, <1>7, <1>8, <1>9, <1>13 DEF MemberCall
  <1> QED BY <1>4, <1>12, <1>13 DEF LimitInv, ShopStep, vars, shopVars

(* Without orders nothing is bought or spent. *)
LEMMA EmptyTable ==
  ASSUME \A o \in Order : order[o] = None, NEW u, NEW p
  PROVE  BoughtIn(order, u, p) = 0 /\ SpentIn(order, u) = 0
  <1> DEFINE f == [o \in Order |-> QuantityOf(order[o], u, p)]
             g == [o \in Order |-> TotalOf(order[o], u)]
  <1>1. \A o \in Order : f[o] = 0 /\ g[o] = 0
    BY DEF QuantityOf, TotalOf, Counts
  <1>2. SumFunctionOnSet(f, Order) = 0 /\ SumFunctionOnSet(g, Order) = 0
    <2>1. PICK x, y : x = f /\ y = g
      OBVIOUS
    <2>2. \A o \in Order : x[o] = 0 /\ y[o] = 0
      BY <1>1, <2>1
    <2>3. SumFunctionOnSet(x, Order) = 0 /\ SumFunctionOnSet(y, Order) = 0
      BY <2>2, SumOfZeros, IdAssumption
    <2> QED BY <2>1, <2>3
  <1> QED BY <1>2 DEF BoughtIn, SpentIn

(* At the start there is no order and no clerk has read one. *)
LEMMA MarketInitClerk == MarketInit => ShopTypes /\ ClerkSees /\ (\A o \in Order : order[o] = None)
  BY MarketInitGate DEF MarketInit, Init, ClerkSees, Idle

(* The market starts within its limits. *)
LEMMA MarketInitLimit == MarketInit => LimitInv
  <1> SUFFICES ASSUME MarketInit PROVE LimitInv
    OBVIOUS
  <1>1. PurchaseFits
    BY DEF MarketInit, Init, PurchaseFits, Idle
  <1>2. ASSUME NEW u \in User, NEW p \in Product PROVE Within(order, u, p, 0)
    <2>1. BoughtIn(order, u, p) = 0
      BY MarketInitClerk, EmptyTable
    <2> QED BY <2>1, PriceAssumption DEF Within
  <1> QED BY <1>1, <1>2, MarketInitClerk DEF LimitInv

(* Every step of the market keeps the limit. *)
LEMMA MarketNextLimit ==
  ASSUME OneAdministrator, OneClientPerMember
  PROVE  GateTypes /\ GateInv /\ LimitInv /\ [MarketNext]_allVars => LimitInv'
  BY MarketOnShop, MarketTypesAre, ShopStepLimit DEF LimitInv, ShopTypes

(* Nobody gets more of a product than its limit, in a market with one administrator in  *)
(* which each member shops through one client: a purchase is checked before it is         *)
(* written, by reads that lock nothing.                                                  *)
THEOREM LimitsHold ==
  ASSUME OneAdministrator, OneClientPerMember
  PROVE  MarketSpec => []LimitKept
  <1>1. LimitInv => LimitKept
    <2> SUFFICES ASSUME LimitInv, NEW u \in User, NEW p \in Product, Limit[p] > 0
                 PROVE  BoughtBy(u, p) <= Limit[p]
      BY DEF LimitKept
    <2>1. order \in Table
      BY DEF LimitInv, ShopTypes, ShopTypeOK, Table
    <2>2. BoughtIn(order, u, p) \in Nat /\ BoughtIn(order, u, p) + 0 <= Limit[p]
      BY <2>1, TableAmounts DEF LimitInv, Within
    <2> QED BY <2>1, <2>2, BoughtIsIn
  <1> QED BY <1>1, MarketInitGate, MarketNextGate, MarketInitLimit, MarketNextLimit, PTL DEF MarketSpec, LimitInv

-----------------------------------------------------------------------------
(* Vouchers.                                                                       *)

Shelf == [Coupon -> User \cup {None}]

(* A member holds finitely many vouchers of a product. *)
LEMMA AssignedFinite ==
  ASSUME NEW cp, NEW u, NEW p
  PROVE  IsFiniteSet(AssignedIn(cp, u, p)) /\ Cardinality(AssignedIn(cp, u, p)) \in Nat
  <1>1. AssignedIn(cp, u, p) \in SUBSET Coupon
    BY DEF AssignedIn
  <1> QED BY <1>1, IdAssumption, FS_Subset, FS_CardinalityType

(* Coupons nobody has are handed to one member.                                     *)
LEMMA HandedOut ==
  ASSUME NEW cp \in Shelf, NEW u \in User, NEW p, NEW q \in Nat, NEW K,
         K \subseteq {k \in Coupon : CouponOf[k] = p /\ cp[k] = None}, Cardinality(K) = q,
         NEW new, new = [k \in Coupon |-> IF k \in K THEN u ELSE cp[k]],
         NEW v \in User, NEW r
  PROVE  Cardinality(AssignedIn(new, v, r))
           = Cardinality(AssignedIn(cp, v, r)) + (IF v = u /\ r = p THEN q ELSE 0)
  <1>1. IsFiniteSet(K) /\ IsFiniteSet(AssignedIn(cp, v, r)) /\ Cardinality(AssignedIn(cp, v, r)) \in Nat
    <2>1. K \in SUBSET Coupon
      OBVIOUS
    <2> QED BY <2>1, IdAssumption, FS_Subset, AssignedFinite
  <1>2. CASE v = u /\ r = p
    <2>1. AssignedIn(new, v, r) = AssignedIn(cp, v, r) \cup K /\ AssignedIn(cp, v, r) \cap K = {}
      BY <1>2, NoneAssumption DEF AssignedIn
    <2>2. Cardinality(AssignedIn(cp, v, r) \cup K)
            = Cardinality(AssignedIn(cp, v, r)) + Cardinality(K) - Cardinality(AssignedIn(cp, v, r) \cap K)
      BY <1>1, FS_Union
    <2>3. Cardinality(AssignedIn(cp, v, r) \cap K) = 0
      BY <2>1, FS_EmptySet
    <2>4. Cardinality(AssignedIn(cp, v, r) \cup K) = Cardinality(AssignedIn(cp, v, r)) + q
      BY <1>1, <2>2, <2>3
    <2> QED BY <1>2, <2>1, <2>4
  <1>3. CASE ~(v = u /\ r = p)
    <2>1. AssignedIn(new, v, r) = AssignedIn(cp, v, r)
      BY <1>3, NoneAssumption DEF AssignedIn
    <2> QED BY <1>1, <1>3, <2>1
  <1> QED BY <1>2, <1>3

(* Coupons one member has are taken back.                                           *)
LEMMA TakenBack ==
  ASSUME NEW cp \in Shelf, NEW u \in User, NEW p, NEW q \in Nat, NEW K,
         K \subseteq AssignedIn(cp, u, p), Cardinality(K) = q,
         NEW new, new = [k \in Coupon |-> IF k \in K THEN None ELSE cp[k]],
         NEW v \in User, NEW r
  PROVE  Cardinality(AssignedIn(new, v, r))
           = Cardinality(AssignedIn(cp, v, r)) - (IF v = u /\ r = p THEN q ELSE 0)
  <1>1. IsFiniteSet(AssignedIn(cp, v, r)) /\ Cardinality(AssignedIn(cp, v, r)) \in Nat
    BY AssignedFinite
  <1>2. CASE v = u /\ r = p
    <2>1. AssignedIn(new, v, r) = AssignedIn(cp, v, r) \ K /\ AssignedIn(cp, v, r) \cap K = K
      BY <1>2, NoneAssumption DEF AssignedIn
    <2>2. Cardinality(AssignedIn(cp, v, r) \ K)
            = Cardinality(AssignedIn(cp, v, r)) - Cardinality(AssignedIn(cp, v, r) \cap K)
      BY <1>1, FS_Difference
    <2>3. Cardinality(AssignedIn(cp, v, r) \ K) = Cardinality(AssignedIn(cp, v, r)) - q
      BY <2>1, <2>2
    <2> QED BY <1>2, <2>1, <2>3
  <1>3. CASE ~(v = u /\ r = p)
    <2>1. AssignedIn(new, v, r) = AssignedIn(cp, v, r)
      BY <1>3, NoneAssumption DEF AssignedIn
    <2> QED BY <1>1, <1>3, <2>1
  <1> QED BY <1>2, <1>3

(* A purchase hands out as many vouchers as it is of.                                *)
LEMMA PurchaseKeepsVouchers ==
  ASSUME ShopTypes, Vouchered, NEW c \in Client, Purchase(c)
  PROVE  Vouchered'
  <1> DEFINE u == MemberOf[c]
             p == call[c].product
             q == call[c].quantity
  <1>1. ShopTypeOK /\ order \in Table
    BY DEF ShopTypes, ShopTypeOK, Table
  <1>2. PICK o \in Order : Buying(c, o)
    BY <1>1, PurchaseIsBuying
  <1>3. u \in User /\ p \in Product /\ q \in Nat
    BY <1>1, <1>2, PurchaseCall DEF Buying
  <1>4. PICK cp \in Shelf : cp = coupon
    BY <1>1 DEF ShopTypeOK, Shelf
  <1>5. HandOut(u, p, q)
    BY DEF Purchase
  <1>6. ASSUME NEW v \in User, NEW r \in Voucher
        PROVE  Cardinality(AssignedIn(coupon', v, r)) = BoughtIn(order', v, r)
    <2>1. Cardinality(AssignedIn(cp, v, r)) = BoughtIn(order, v, r)
      BY <1>4, <1>6 DEF Vouchered
    <2>2. BoughtIn(order, v, r) \in Nat
      BY <1>1, TableAmounts
    <2>3. QuantityOf(order[o], v, r) = 0
      BY <1>2, RowAmounts DEF Buying
    <2>4. QuantityOf(RowOf(c), v, r) = IF v = u /\ r = p THEN q ELSE 0
      BY <1>2, NoneAssumption DEF Buying, QuantityOf, Counts, RowOf
    <2>5. BoughtIn(order', v, r)
            = BoughtIn(order, v, r) + (QuantityOf(RowOf(c), v, r) - QuantityOf(order[o], v, r))
      BY <1>1, <1>2, WrittenSums DEF Buying
    <2> HIDE DEF u, p, q
    <2>6. CASE p \in Voucher
      <3>1. PICK K \in kSubset(q, Unused(p)) : coupon' = [k \in Coupon |-> IF k \in K THEN u ELSE coupon[k]]
        BY <1>5, <2>6 DEF HandOut
      <3>2. K \subseteq {k \in Coupon : CouponOf[k] = p /\ cp[k] = None} /\ Cardinality(K) = q
        BY <1>4, <3>1 DEF kSubset, Unused
      <3>3. PICK new : new = [k \in Coupon |-> IF k \in K THEN u ELSE cp[k]]
        OBVIOUS
      <3>4. Cardinality(AssignedIn(new, v, r))
              = Cardinality(AssignedIn(cp, v, r)) + (IF v = u /\ r = p THEN q ELSE 0)
        BY <1>3, <3>2, <3>3, HandedOut
      <3>5. coupon' = new
        BY <1>4, <3>1, <3>3
      <3> QED BY <1>3, <2>1, <2>2, <2>3, <2>4, <2>5, <3>4, <3>5
    <2>7. CASE p \notin Voucher
      <3>1. coupon' = cp /\ r # p
        BY <1>4, <1>5, <2>7 DEF HandOut
      <3> QED BY <2>1, <2>2, <2>3, <2>4, <2>5, <3>1
    <2> QED BY <2>6, <2>7
  <1> QED BY <1>6 DEF Vouchered

(* An order that is cancelled gives back as many vouchers as it was of: the member has *)
(* at least those.                                                                     *)
LEMMA CancelKeepsVouchers ==
  ASSUME ShopTypes, Vouchered, ClerkSees, NEW a \in Admin, NEW o \in Order,
         Closing(a, o, "CANCELLED")
  PROVE  Vouchered'
  <1> DEFINE u == order[o].buyer
             p == order[o].product
             q == order[o].quantity
  <1>1. ShopTypeOK /\ order \in Table
    BY DEF ShopTypes, ShopTypeOK, Table
  <1>2. order[o] \in OrderRow /\ order[o].status = "COMPLETED" /\ TakeBack(u, p, q)
        /\ order[o] # None
    BY NoneAssumption DEF Closing, ClerkSees, CancelOrder
  <1>3. u \in User /\ p \in Product /\ q \in Nat
    BY <1>2 DEF OrderRow
  <1>4. PICK cp \in Shelf : cp = coupon
    BY <1>1 DEF ShopTypeOK, Shelf
  <1>5. ASSUME NEW v \in User, NEW r \in Product
        PROVE  BoughtIn(order', v, r) = BoughtIn(order, v, r) - (IF v = u /\ r = p THEN q ELSE 0)
               /\ BoughtIn(order', v, r) \in Nat
    <2>1. PICK new, row : new = [order[o] EXCEPT !.status = "CANCELLED"] /\ row = order[o]
      OBVIOUS
    <2>2. new \in OrderRow /\ QuantityOf(new, v, r) = 0
      BY <1>2, <2>1, ClosedRow
    <2>3. BoughtIn(order', v, r) = BoughtIn(order, v, r) + (QuantityOf(new, v, r) - QuantityOf(row, v, r))
      BY <1>1, <2>1, <2>2, WrittenSums DEF Closing
    <2>4. QuantityOf(row, v, r) = IF v = u /\ r = p THEN q ELSE 0
      BY <1>2, <2>1 DEF QuantityOf, Counts
    <2>5. BoughtIn(order, v, r) \in Nat
      BY <1>1, TableAmounts
    <2>6. order' \in Table
      BY <1>1, <2>1, <2>2 DEF Closing, Writes, Table
    <2>7. BoughtIn(order', v, r) \in Nat
      BY <2>6, TableAmounts
    <2> HIDE DEF u, p, q
    <2> QED BY <1>3, <2>2, <2>3, <2>4, <2>5, <2>7
  <1> HIDE DEF u, p, q
  <1>6. ASSUME NEW v \in User, NEW r \in Voucher
        PROVE  Cardinality(AssignedIn(coupon', v, r)) = BoughtIn(order', v, r)
    <2>1. Cardinality(AssignedIn(cp, v, r)) = BoughtIn(order, v, r) /\ r \in Product
      BY <1>4, <1>6, VoucherAssumption DEF Vouchered
    <2>2. BoughtIn(order, v, r) \in Nat
      BY <1>1, TableAmounts
    <2>3. BoughtIn(order', v, r) = BoughtIn(order, v, r) - (IF v = u /\ r = p THEN q ELSE 0)
      BY <1>5, <2>1
    <2>4. CASE p \in Voucher
      <3>1. q <= Cardinality(AssignedIn(cp, u, p)) /\ Cardinality(AssignedIn(cp, u, p)) \in Nat
        <4>1. Cardinality(AssignedIn(cp, u, p)) = BoughtIn(order, u, p)
          BY <1>3, <1>4, <2>4 DEF Vouchered
        <4>2. BoughtIn(order, u, p) - q \in Nat /\ BoughtIn(order, u, p) \in Nat
          <5>1. BoughtIn(order', u, p) = BoughtIn(order, u, p) - q /\ BoughtIn(order', u, p) \in Nat
            BY <1>3, <1>5
          <5>2. BoughtIn(order, u, p) \in Nat
            BY <1>1, TableAmounts
          <5> QED BY <5>1, <5>2
        <4> QED BY <1>3, <4>1, <4>2
      <3>2. Min({q, Cardinality(AssignedIn(cp, u, p))}) = q
        BY <1>3, <3>1, LesserOfTwo
      <3>3. Assigned(u, p) = AssignedIn(cp, u, p)
        BY <1>4 DEF Assigned, AssignedIn
      <3>4. PICK K \in kSubset(q, AssignedIn(cp, u, p)) :
              coupon' = [k \in Coupon |-> IF k \in K THEN None ELSE coupon[k]]
        BY <1>2, <2>4, <3>2, <3>3 DEF TakeBack
      <3>5. K \subseteq AssignedIn(cp, u, p) /\ Cardinality(K) = q
        BY <3>4 DEF kSubset
      <3>6. PICK new : new = [k \in Coupon |-> IF k \in K THEN None ELSE cp[k]]
        OBVIOUS
      <3>7. Cardinality(AssignedIn(new, v, r))
              = Cardinality(AssignedIn(cp, v, r)) - (IF v = u /\ r = p THEN q ELSE 0)
        BY <1>3, <3>5, <3>6, TakenBack
      <3>8. coupon' = new
        BY <1>4, <3>4, <3>6
      <3> QED BY <2>1, <2>3, <3>7, <3>8
    <2>5. CASE p \notin Voucher
      <3>1. coupon' = cp /\ r # p
        BY <1>2, <1>4, <2>5 DEF TakeBack
      <3> QED BY <2>1, <2>2, <2>3, <3>1
    <2> QED BY <2>4, <2>5
  <1> QED BY <1>6 DEF Vouchered

(* Every step keeps vouchers and orders in agreement. *)
LEMMA ShopStepVouchers ==
  ASSUME ShopTypes, Vouchered, ClerkSees, ShopStep
  PROVE  Vouchered'
  <1>1. ShopTypeOK
    BY DEF ShopTypes
  <1>2. CASE UNCHANGED <<order, coupon>>
    BY <1>2 DEF Vouchered
  <1>3. ASSUME NEW c \in Client, Purchase(c) PROVE Vouchered'
    BY <1>3, PurchaseKeepsVouchers
  <1>4. ASSUME NEW a \in Admin, CancelOrder(a) \/ MarkDelivered(a) PROVE Vouchered'
    <2>1. PICK o \in Order, s \in {"CANCELLED", "DELIVERED"} : Closing(a, o, s)
      BY <1>4, ClerkIsClosing
    <2>2. CASE s = "CANCELLED"
      BY <2>1, <2>2, CancelKeepsVouchers
    <2>3. CASE s = "DELIVERED"
      <3>1. coupon' = coupon /\ order[o].status # "CANCELLED" /\ order[o] \in OrderRow
        BY <2>1, <2>3 DEF Closing, MarkDelivered, ClerkSees
      <3>2. ASSUME NEW u \in User, NEW p \in Voucher PROVE BoughtIn(order', u, p) = BoughtIn(order, u, p)
        <4>1. PICK new, row : new = [order[o] EXCEPT !.status = s] /\ row = order[o]
          OBVIOUS
        <4>2. new \in OrderRow /\ QuantityOf(new, u, p) = QuantityOf(row, u, p)
          BY <2>3, <3>1, <4>1, ClosedRow
        <4>3. BoughtIn(order', u, p) = BoughtIn(order, u, p) + (QuantityOf(new, u, p) - QuantityOf(row, u, p))
          BY <1>1, <2>1, <4>1, <4>2, WrittenSums DEF Closing
        <4>4. order \in Table /\ QuantityOf(row, u, p) \in Nat
          BY <1>1, <3>1, <4>1, RowAmounts DEF ShopTypeOK, Table
        <4>5. BoughtIn(order, u, p) \in Nat
          BY <4>4, TableAmounts
        <4> QED BY <4>2, <4>3, <4>4, <4>5
      <3> QED BY <3>1, <3>2 DEF Vouchered
    <2> QED BY <2>1, <2>2, <2>3
  <1>5. UNCHANGED <<order, coupon>> \/ (\E c \in Client : Purchase(c))
        \/ (\E a \in Admin : CancelOrder(a) \/ MarkDelivered(a))
    BY DEF ShopStep, MemberCall, ClerkCall, ReadProduct, ReadItem, PurchaseProfileItem, Refused,
           ReadToCancel, ReadToDeliver, Patch, SaveProduct, vars, shopVars
  <1> QED BY <1>2, <1>3, <1>4, <1>5

-----------------------------------------------------------------------------
(* Points.                                                                           *)

(* What a transfer between a member and SINK does to the balances.                    *)
LEMMA BurnMoves ==
  ASSUME LedgerInv, NEW u \in User, NEW amt \in Int, Burn(u, amt)
  PROVE  /\ LedgerInv' /\ account' = account /\ account[u] = "open"
         /\ \A v \in User : balance'[v] = balance[v] - (IF v = u THEN amt ELSE 0)
  <1>1. u \in Account \cup {NoAccount} /\ SINK \in Account \cup {NoAccount} /\ SINK \notin User
    BY UserAssumption DEF Account
  <1>2. Transfer(u, SINK, amt)
    BY DEF Burn
  <1>3. account' = account /\ account[u] = "open" /\ balance' = Moved(u, SINK, amt)
    BY <1>2 DEF Transfer
  <1>4. \A v \in User : balance[v] \in Int
    BY DEF LedgerInv, LedgerTypeOK
  <1>5. \A v \in User : balance'[v] = balance[v] - (IF v = u THEN amt ELSE 0)
    BY <1>1, <1>3, <1>4 DEF Moved
  <1> QED BY <1>1, <1>2, <1>3, <1>5, TransferKeepsInv

(* A mint of the ledger adds to one balance and keeps the ledger right. *)
LEMMA MintMoves ==
  ASSUME LedgerInv, NEW u \in User, NEW amt \in Int, Mint(u, amt)
  PROVE  /\ LedgerInv' /\ account' = account /\ account[u] = "open"
         /\ \A v \in User : balance'[v] = balance[v] + (IF v = u THEN amt ELSE 0)
  <1>1. u \in Account \cup {NoAccount} /\ SINK \in Account \cup {NoAccount} /\ SINK \notin User
    BY UserAssumption DEF Account
  <1>2. Transfer(SINK, u, amt)
    BY DEF Mint
  <1>3. account' = account /\ account[u] = "open" /\ balance' = Moved(SINK, u, amt)
    BY <1>2 DEF Transfer
  <1>4. \A v \in User : balance[v] \in Int
    BY DEF LedgerInv, LedgerTypeOK
  <1>5. \A v \in User : balance'[v] = balance[v] + (IF v = u THEN amt ELSE 0)
    BY <1>1, <1>3, <1>4 DEF Moved
  <1> QED BY <1>1, <1>2, <1>3, <1>5, TransferKeepsInv

(* What a member spent is a natural number. *)
LEMMA SpentType ==
  ASSUME ShopTypeOK, NEW u \in User
  PROVE  SpentNow(u) \in Nat /\ SpentIn(order, u) \in Nat
         /\ SumFunctionOnSet(ItemPrice, items[u]) \in Nat
  <1>1. SpentIn(order, u) \in Nat
    BY TableAmounts DEF ShopTypeOK, Table
  <1>2. SumFunctionOnSet(ItemPrice, items[u]) \in Nat
    <2>1. items[u] \in SUBSET Item
      BY DEF ShopTypeOK
    <2>2. IsFiniteSet(items[u]) /\ \A i \in items[u] : ItemPrice[i] \in Nat
      BY <2>1, IdAssumption, PriceAssumption, FS_Subset
    <2> QED BY <2>2, SumNonNegative
  <1> QED BY <1>1, <1>2 DEF SpentNow

(* A step in which a member's balance falls by what more he has spent.                *)
LEMMA SpendingKeepsPaid ==
  ASSUME Paid, LedgerInv, ShopTypeOK, ShopTypeOK', NEW u \in User, NEW d \in Int,
         account' = account, account[u] = "open",
         \A v \in User : balance'[v] = balance[v] - (IF v = u THEN d ELSE 0),
         \A v \in User : SpentNow(v)' = SpentNow(v) + (IF v = u THEN d ELSE 0)
  PROVE  Paid'
  <1> SUFFICES ASSUME NEW v \in User
               PROVE  /\ account'[v] = "open" => balance'[v] = SeedPoints - SpentNow(v)'
                      /\ account'[v] = "none" => SpentNow(v)' = 0
    BY DEF Paid
  <1>1. SpentNow(v) \in Int /\ balance[v] \in Int /\ SeedPoints \in Int
    BY SpentType, SeedPointsAssumption DEF LedgerInv, LedgerTypeOK
  <1>2. SpentNow(v)' = SpentNow(v) + (IF v = u THEN d ELSE 0)
        /\ balance'[v] = balance[v] - (IF v = u THEN d ELSE 0)
    OBVIOUS
  <1> QED BY <1>1, <1>2 DEF Paid

(* Where no balance and no spending changes, payment stays in agreement. *)
LEMMA SameSpentKeepsPaid ==
  ASSUME Paid, account' = account, \A v \in User : balance'[v] = balance[v],
         \A v \in User : SpentNow(v)' = SpentNow(v)
  PROVE  Paid'
  BY DEF Paid

(* purchase burns what the order costs. *)
LEMMA PurchaseKeepsPaid ==
  ASSUME ShopTypes, ShopTypes', LedgerInv, Paid, NEW c \in Client, Purchase(c)
  PROVE  Paid' /\ LedgerInv'
  <1> DEFINE u == MemberOf[c]
             total == call[c].price * call[c].quantity
  <1>1. ShopTypeOK /\ ShopTypeOK'
    BY DEF ShopTypes
  <1>2. PICK o \in Order : Buying(c, o)
    BY <1>1, PurchaseIsBuying
  <1>3. u \in User /\ total \in Nat
    BY <1>1, <1>2, PurchaseCall DEF Buying
  <1>4. Burn(u, total) /\ items' = items
    BY DEF Purchase
  <1>5. LedgerInv' /\ account' = account /\ account[u] = "open"
        /\ \A v \in User : balance'[v] = balance[v] - (IF v = u THEN total ELSE 0)
    BY <1>3, <1>4, BurnMoves
  <1>6. ASSUME NEW v \in User PROVE SpentNow(v)' = SpentNow(v) + (IF v = u THEN total ELSE 0)
    <2>1. TotalOf(order[o], v) = 0
      BY <1>2, RowAmounts DEF Buying
    <2>2. TotalOf(RowOf(c), v) = IF v = u THEN total ELSE 0
      BY <1>2, NoneAssumption DEF Buying, TotalOf, Counts, RowOf
    <2>3. SpentIn(order', v) = SpentIn(order, v) + (TotalOf(RowOf(c), v) - TotalOf(order[o], v))
      BY <1>1, <1>2, WrittenSums DEF Buying
    <2>4. SpentIn(order, v) \in Nat /\ SumFunctionOnSet(ItemPrice, items[v]) \in Nat
      BY <1>1, SpentType
    <2> HIDE DEF u, total
    <2>5. SpentNow(v)' = SpentIn(order', v) + SumFunctionOnSet(ItemPrice, items[v])
      BY <1>4 DEF SpentNow
    <2>6. SpentNow(v) = SpentIn(order, v) + SumFunctionOnSet(ItemPrice, items[v])
      BY DEF SpentNow
    <2> QED BY <1>3, <2>1, <2>2, <2>3, <2>4, <2>5, <2>6
  <1> HIDE DEF u, total
  <1> QED BY <1>1, <1>3, <1>5, <1>6, SpendingKeepsPaid

(* purchaseProfileItem burns what the item costs. *)
LEMMA ItemKeepsPaid ==
  ASSUME ShopTypes, ShopTypes', LedgerInv, Paid, NEW c \in Client, PurchaseProfileItem(c)
  PROVE  Paid' /\ LedgerInv'
  <1> DEFINE u == MemberOf[c]
             i == call[c].item
  <1>1. ShopTypeOK /\ ShopTypeOK'
    BY DEF ShopTypes
  <1>2. u \in User /\ i \in Item /\ ItemPrice[i] \in Nat
    BY <1>1, ItemType, PriceAssumption
  <1>3. Burn(u, ItemPrice[i]) /\ i \notin items[u] /\ order' = order
        /\ items' = [items EXCEPT ![u] = items[u] \cup {i}]
    BY DEF PurchaseProfileItem
  <1>4. LedgerInv' /\ account' = account /\ account[u] = "open"
        /\ \A v \in User : balance'[v] = balance[v] - (IF v = u THEN ItemPrice[i] ELSE 0)
    BY <1>2, <1>3, BurnMoves
  <1> HIDE DEF u, i
  <1>5. ASSUME NEW v \in User PROVE SpentNow(v)' = SpentNow(v) + (IF v = u THEN ItemPrice[i] ELSE 0)
    <2>1. SpentIn(order, v) \in Nat /\ SumFunctionOnSet(ItemPrice, items[v]) \in Nat
      BY <1>1, SpentType
    <2>2. SpentNow(v)' = SpentIn(order, v) + SumFunctionOnSet(ItemPrice, items'[v])
      BY <1>3 DEF SpentNow
    <2>3. SpentNow(v) = SpentIn(order, v) + SumFunctionOnSet(ItemPrice, items[v])
      BY DEF SpentNow
    <2>4. CASE v = u
      <3>1. PICK S \in SUBSET Item : S = items[v] \cup {i}
        BY <1>1, <1>2 DEF ShopTypeOK
      <3>2. items'[v] = S /\ S \ {i} = items[v] /\ i \in S
        BY <1>1, <1>3, <2>4, <3>1 DEF ShopTypeOK
      <3>3. IsFiniteSet(S) /\ \A x \in S : ItemPrice[x] \in Int
        BY IdAssumption, PriceAssumption, FS_Subset
      <3>4. SumFunctionOnSet(ItemPrice, S) = ItemPrice[i] + SumFunctionOnSet(ItemPrice, S \ {i})
        BY <3>2, <3>3, SumRemove
      <3>5. SumFunctionOnSet(ItemPrice, items'[v]) = ItemPrice[i] + SumFunctionOnSet(ItemPrice, items[v])
        BY <3>2, <3>4
      <3> QED BY <1>2, <2>1, <2>2, <2>3, <2>4, <3>5
    <2>5. CASE v # u
      <3>1. items'[v] = items[v]
        BY <1>1, <1>3, <2>5 DEF ShopTypeOK
      <3> QED BY <2>1, <2>2, <2>3, <2>5, <3>1
    <2> QED BY <2>4, <2>5
  <1>6. PICK x \in Nat : x = ItemPrice[i]
    BY <1>2
  <1> QED BY <1>1, <1>2, <1>4, <1>5, <1>6, SpendingKeepsPaid

(* cancelOrder gives back what the order took, delivery nothing. *)
LEMMA ClosingKeepsPaid ==
  ASSUME ShopTypes, ShopTypes', LedgerInv, Paid, ClerkSees,
         NEW a \in Admin, CancelOrder(a) \/ MarkDelivered(a)
  PROVE  Paid' /\ LedgerInv'
  <1>1. ShopTypeOK /\ ShopTypeOK'
    BY DEF ShopTypes
  <1>2. PICK o \in Order, s \in {"CANCELLED", "DELIVERED"} : Closing(a, o, s)
    BY ClerkIsClosing
  <1>3. order[o] \in OrderRow /\ order[o].status = "COMPLETED"
        /\ order[o] # None /\ items' = items
    BY <1>2, NoneAssumption DEF Closing, ClerkSees, CancelOrder, MarkDelivered
  <1>4. PICK new, row : new = [order[o] EXCEPT !.status = s] /\ row = order[o]
    OBVIOUS
  <1>5. ASSUME NEW v \in User
        PROVE  /\ SpentNow(v)' = SpentNow(v) + (TotalOf(new, v) - TotalOf(row, v))
               /\ s = "CANCELLED" => TotalOf(new, v) = 0
               /\ s = "DELIVERED" => TotalOf(new, v) = TotalOf(row, v)
               /\ TotalOf(row, v) = (IF v = row.buyer THEN row.total ELSE 0)
               /\ SpentNow(v) \in Int /\ TotalOf(row, v) \in Nat
    <2>1. /\ new \in OrderRow
          /\ s = "CANCELLED" => TotalOf(new, v) = 0
          /\ s = "DELIVERED" => TotalOf(new, v) = TotalOf(row, v)
      BY <1>3, <1>4, ClosedRow
    <2>2. TotalOf(row, v) = (IF v = row.buyer THEN row.total ELSE 0) /\ TotalOf(row, v) \in Nat
      BY <1>3, <1>4 DEF TotalOf, Counts, OrderRow
    <2>3. SpentIn(order', v) = SpentIn(order, v) + (TotalOf(new, v) - TotalOf(row, v))
      BY <1>1, <1>2, <1>4, <2>1, WrittenSums DEF Closing
    <2>4. SpentIn(order, v) \in Nat /\ SumFunctionOnSet(ItemPrice, items[v]) \in Nat /\ SpentNow(v) \in Int
      BY <1>1, SpentType
    <2>5. SpentNow(v)' = SpentIn(order', v) + SumFunctionOnSet(ItemPrice, items[v])
      BY <1>3 DEF SpentNow
    <2>6. SpentNow(v) = SpentIn(order, v) + SumFunctionOnSet(ItemPrice, items[v])
      BY DEF SpentNow
    <2>7. TotalOf(new, v) \in Nat
      BY <2>1, RowAmounts
    <2> QED BY <2>1, <2>2, <2>3, <2>4, <2>5, <2>6, <2>7
  <1>6. CASE s = "CANCELLED"
    <2>1. row.buyer \in User /\ row.total \in Nat
      BY <1>3, <1>4 DEF OrderRow
    <2>2. Mint(row.buyer, row.total)
      BY <1>2, <1>4, <1>6 DEF Closing, CancelOrder
    <2>3. /\ LedgerInv' /\ account' = account /\ account[row.buyer] = "open"
          /\ \A v \in User : balance'[v] = balance[v] + (IF v = row.buyer THEN row.total ELSE 0)
      BY <2>1, <2>2, MintMoves
    <2>4. PICK d \in Int : d = 0 - row.total
      BY <2>1
    <2>5. \A v \in User : balance'[v] = balance[v] - (IF v = row.buyer THEN d ELSE 0)
      <3>1. \A v \in User : balance[v] \in Int
        BY DEF LedgerInv, LedgerTypeOK
      <3> QED BY <2>1, <2>3, <2>4, <3>1
    <2>6. \A v \in User : SpentNow(v)' = SpentNow(v) + (IF v = row.buyer THEN d ELSE 0)
      BY <1>5, <1>6, <2>1, <2>4
    <2> QED BY <1>1, <2>1, <2>3, <2>5, <2>6, SpendingKeepsPaid
  <1>7. CASE s = "DELIVERED"
    <2>1. UNCHANGED ledgerVars
      BY <1>2, <1>7 DEF Closing, MarkDelivered
    <2>2. account' = account /\ balance' = balance
      BY <2>1 DEF ledgerVars
    <2>3. \A v \in User : SpentNow(v)' = SpentNow(v)
      BY <1>5, <1>7
    <2> QED BY <2>1, <2>2, <2>3, SameSpentKeepsPaid, SameLedgerKeepsInv
  <1> QED BY <1>6, <1>7

(* Whoever joins has spent nothing yet and is given the seed.                             *)
LEMMA JoinKeepsPaid ==
  ASSUME LedgerInv, Paid, NEW u \in User, Join(u), UNCHANGED shopVars
  PROVE  Paid' /\ LedgerInv'
  <1>1. \A v \in User : SpentNow(v)' = SpentNow(v)
    BY DEF shopVars, SpentNow
  <1>2. account[u] = "none" /\ account' = [account EXCEPT ![u] = "open"]
        /\ balance' = [balance EXCEPT ![u] = SeedPoints]
    BY DEF Join
  <1>3. SpentNow(u) = 0
    BY <1>2 DEF Paid
  <1>4. \A v \in User : account'[v] = (IF v = u THEN "open" ELSE account[v])
                        /\ balance'[v] = IF v = u THEN SeedPoints ELSE balance[v]
    BY <1>2 DEF LedgerInv, LedgerTypeOK
  <1>5. Paid'
    BY <1>1, <1>3, <1>4, SeedPointsAssumption DEF Paid
  <1> QED BY <1>5, JoinKeepsInv

(* Every step of the shop keeps orders, vouchers and balances in agreement. *)
LEMMA ShopStepOrders ==
  ASSUME OneAdministrator, OrdersInv, ShopStep
  PROVE  OrdersInv'
  <1>1. ShopTypes /\ ShopTypes' /\ ClerkSees /\ ClerkSees' /\ Vouchered' /\ LedgerInv /\ Paid
    BY ShopStepTypes, ClerkStillSees, ShopStepVouchers DEF OrdersInv
  <1>2. CASE UNCHANGED <<ledgerVars, order, items>>
    <2>1. account' = account /\ balance' = balance /\ \A v \in User : SpentNow(v)' = SpentNow(v)
      BY <1>2 DEF ledgerVars, SpentNow
    <2> QED BY <1>1, <1>2, <2>1, SameSpentKeepsPaid, SameLedgerKeepsInv DEF OrdersInv
  <1>3. ASSUME NEW u \in User, Join(u), UNCHANGED shopVars PROVE OrdersInv'
    BY <1>1, <1>3, JoinKeepsPaid DEF OrdersInv
  <1>4. ASSUME NEW c \in Client, Purchase(c) PROVE OrdersInv'
    BY <1>1, <1>4, PurchaseKeepsPaid DEF OrdersInv
  <1>5. ASSUME NEW c \in Client, PurchaseProfileItem(c) PROVE OrdersInv'
    BY <1>1, <1>5, ItemKeepsPaid DEF OrdersInv
  <1>6. ASSUME NEW a \in Admin, CancelOrder(a) \/ MarkDelivered(a) PROVE OrdersInv'
    BY <1>1, <1>6, ClosingKeepsPaid DEF OrdersInv
  <1>7. \/ UNCHANGED <<ledgerVars, order, items>>
        \/ (\E u \in User : Join(u) /\ UNCHANGED shopVars)
        \/ (\E c \in Client : Purchase(c) \/ PurchaseProfileItem(c))
        \/ (\E a \in Admin : CancelOrder(a) \/ MarkDelivered(a))
    BY DEF ShopStep, MemberCall, ClerkCall, ReadProduct, ReadItem, Refused,
           ReadToCancel, ReadToDeliver, Patch, SaveProduct, vars, shopVars
  <1> QED BY <1>2, <1>3, <1>4, <1>5, <1>6, <1>7

(* The market starts in agreement. *)
LEMMA MarketInitOrders == MarketInit => OrdersInv
  <1> SUFFICES ASSUME MarketInit PROVE OrdersInv
    OBVIOUS
  <1>1. ShopTypes /\ ClerkSees /\ \A o \in Order : order[o] = None
    BY MarketInitClerk
  <1>2. LedgerInv /\ LedgerInit
    BY LedgerInitInv DEF MarketInit, Init
  <1>3. Paid
    <2> SUFFICES ASSUME NEW u \in User PROVE SpentNow(u) = 0 /\ account[u] = "none"
      BY DEF Paid
    <2>1. SpentIn(order, u) = 0
      BY <1>1, EmptyTable
    <2>2. SumFunctionOnSet(ItemPrice, items[u]) = 0
      BY SumEmpty DEF MarketInit, Init
    <2> QED BY <1>2, <2>1, <2>2 DEF SpentNow, LedgerInit
  <1>4. Vouchered
    <2> SUFFICES ASSUME NEW u \in User, NEW p \in Voucher
                 PROVE  Cardinality(AssignedIn(coupon, u, p)) = BoughtIn(order, u, p)
      BY DEF Vouchered
    <2>1. BoughtIn(order, u, p) = 0
      BY <1>1, EmptyTable
    <2>2. AssignedIn(coupon, u, p) = {}
      BY NoneAssumption DEF MarketInit, Init, AssignedIn
    <2> QED BY <2>1, <2>2, FS_EmptySet
  <1> QED BY <1>1, <1>2, <1>3, <1>4 DEF OrdersInv

(* Every step of the market keeps it. *)
LEMMA MarketNextOrders ==
  ASSUME OneAdministrator
  PROVE  GateTypes /\ GateInv /\ OrdersInv /\ [MarketNext]_allVars => OrdersInv'
  BY MarketOnShop, MarketTypesAre, ShopStepOrders DEF OrdersInv, ShopTypes

(* In a market with one administrator the orders account for everything: what a member   *)
(* has spent is what the orders that were not cancelled and the items cost, and the        *)
(* vouchers a member holds are those of such orders.  A second administrator who cancels   *)
(* the order this one delivers breaks it: neither call locks the order it read.            *)
THEOREM OrdersAccount ==
  ASSUME OneAdministrator
  PROVE  MarketSpec => []OrdersReconcile
  <1>1. OrdersInv => OrdersReconcile
    <2> SUFFICES ASSUME OrdersInv PROVE OrdersReconcile
      OBVIOUS
    <2>1. order \in Table
      BY DEF OrdersInv, ShopTypes, ShopTypeOK, Table
    <2>2. SpentOnOrders
      BY <2>1, SpentIsIn DEF OrdersInv, Paid, SpentNow, SpentOnOrders
    <2>3. VouchersMatchOrders
      BY <2>1, BoughtIsIn, VoucherAssumption DEF OrdersInv, Vouchered, VouchersMatchOrders, Assigned, AssignedIn
    <2> QED BY <2>2, <2>3 DEF OrdersReconcile
  <1> QED BY <1>1, MarketInitGate, MarketNextGate, MarketInitOrders, MarketNextOrders, PTL DEF MarketSpec, OrdersInv
=============================================================================
