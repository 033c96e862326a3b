------------------------------- MODULE Market -------------------------------
(***************************************************************************)
(* Who may shop, and through what.  A member buys with the bot's command     *)
(* (commands/buy.command.ts), a conversation over what the market showed     *)
(* when it began, or through the web.  Both stand behind the market gate     *)
(* (common/services/market-gate.service.ts): enough days and enough matches  *)
(* attended, by the rows of the sheets administrators upload, against        *)
(* requirements administrators change.  Administrators edit products and     *)
(* settings on pages that show what they last fetched.                       *)
(***************************************************************************)
EXTENDS Shop, Sequences

CONSTANTS
  Chat,        \* the clients that are conversations with the bot, the rest is web
  Kind,        \* what the gate counts: "days" (rows without a scrim), "matches"
  FirstValue,  \* the requirement of each kind the migration seeds: 7 and 2
  NewValue,    \* what administrators type for each kind
  Typo,        \* a text that is no number
  InClan,      \* users with a row of clan_members
  Uploaded,    \* attendance rows there are from before, per user and kind
  Sheet,       \* the sheets administrators upload: sequences of rows
  MaxUploads   \* bound: uploads begun

Status == {"PRESENT", "LATE", "ABSENT", "EXCUSED"}
SheetRow == [who : User \cup {None}, kind : Kind, status : Status \cup {None}]

ASSUME ChatAssumption == Chat \subseteq Client /\ InClan \subseteq User
ASSUME GateAssumption ==
  /\ FirstValue \in [Kind -> Nat] /\ Typo \notin Nat /\ Kind \cap {"none", "price", "stock"} = {}
  /\ NewValue \in [Kind -> SUBSET (Nat \cup {Typo})]
ASSUME SheetAssumption ==
  /\ Uploaded \in [User -> [Kind -> Nat]] /\ MaxUploads \in Nat
  /\ \A s \in Sheet : s \in Seq(SheetRow) /\ s # << >>

VARIABLES
  config,   \* the value of each requirement
  lowest,   \* history: the least number each requirement has been
  records,  \* attendance_records of each user: how many of a kind and status
  passed,   \* users.market_gate_passed
  visit,    \* how far a client has come
  edit,     \* the field an administrator has open on a page, and what it showed
  upload,   \* the rows of an administrator's sheet still to be read
  uploads   \* uploads begun

marketVars == <<config, lowest, records, passed, visit, edit, upload, uploads>>
allVars == <<vars, marketVars>>

Away == [at |-> "away"]
Visit ==
  {Away} \cup [at : {"gate"}, cached : BOOLEAN, need : [Kind -> Nat]]
         \cup [at : {"in"}]
         \cup [at : {"menu"}, shown : SUBSET (Product \X Nat)]
         \cup [at : {"amount"}, product : Product, price : Nat]

NoEdit == [field |-> "none"]
Edit ==
  {NoEdit} \cup [field : {"price", "stock"}, product : Product, shown : Nat]
           \cup [field : Kind, shown : Nat \cup {Typo}]

MarketTypeOK ==
  /\ ShopTypeOK
  /\ config \in [Kind -> Nat \cup {Typo}]
  /\ lowest \in [Kind -> Nat]
  /\ records \in [User -> [Kind -> [Status -> Nat]]]
  /\ passed \in [User -> BOOLEAN]
  /\ visit \in [Client -> Visit]
  /\ edit \in [Admin -> Edit]
  /\ upload \in [Admin -> Seq(SheetRow)]
  /\ uploads \in 0 .. MaxUploads

MarketInit ==
  /\ Init
  /\ config = FirstValue
  /\ lowest = FirstValue
  /\ records = [u \in User |-> [k \in Kind |->
       [s \in Status |-> IF s = "PRESENT" THEN Uploaded[u][k] ELSE 0]]]
  /\ passed = [u \in User |-> FALSE]
  /\ visit = [c \in Client |-> Away]
  /\ edit = [a \in Admin |-> NoEdit]
  /\ upload = [a \in Admin |-> << >>]
  /\ uploads = 0

-----------------------------------------------------------------------------
(* The gate.                                                                 *)

Comes(c, where) == visit' = [visit EXCEPT ![c] = where]
OnlyVisit == UNCHANGED <<vars, config, lowest, records, passed, edit, upload, uploads>>

Busy(c) == visit[c] # Away \/ call[c] # Idle

FreeOrders == {o \in Order : order[o] = None}

(* The flag is read with the user, then the two settings.  A setting that is  *)
(* no number is an error for everybody, whatever the flag says.  The bot       *)
(* creates the account of a newcomer first, which is Join.  Bound: a client    *)
(* comes only while an id is left for the order he may place.                  *)
ReadRequirement(c) ==
  /\ ~Busy(c) /\ account[MemberOf[c]] = "open"
  /\ Cardinality({d \in Client : Busy(d)}) < Cardinality(FreeOrders)
  /\ \A k \in Kind : config[k] # Typo
  /\ Comes(c, [at |-> "gate", cached |-> passed[MemberOf[c]], need |-> config])
  /\ OnlyVisit

(* Only rows PRESENT or LATE count.                                            *)
Counted(u, k) == records[u][k]["PRESENT"] + records[u][k]["LATE"]

(* Mutant: absences are counted as well.                                       *)
EnoughAnyhow(c) ==
  \A k \in Kind :
    MapThenSumSet(LAMBDA s : records[MemberOf[c]][k][s], Status) >= visit[c].need[k]

Enough(c) == \A k \in Kind : Counted(MemberOf[c], k) >= visit[c].need[k]

(* ACTIVE products, whether or not any are in stock.                            *)
OnShow == {<<p, product[p].price>> : p \in {p \in Product : product[p].status = "ACTIVE"}}

(* Enforce lets the member in and remembers it.  The bot then shows the market, *)
(* or ends the conversation if there is nothing to show.                        *)
Enter(c) ==
  /\ visit[c].at = "gate"
  /\ visit[c].cached \/ Enough(c)
  /\ passed' = [passed EXCEPT ![MemberOf[c]] = TRUE]
  /\ Comes(c, IF c \notin Chat THEN [at |-> "in"]
              ELSE IF OnShow = {} THEN Away ELSE [at |-> "menu", shown |-> OnShow])
  /\ UNCHANGED <<vars, config, lowest, records, edit, upload, uploads>>

(* Mutant: the flag is not looked at.                                            *)
ForbiddenAgain(c) == visit[c].at = "gate" /\ ~Enough(c) /\ Comes(c, Away) /\ OnlyVisit

Forbidden(c) ==
  /\ visit[c].at = "gate"
  /\ ~visit[c].cached /\ ~Enough(c)
  /\ Comes(c, Away) /\ OnlyVisit

-----------------------------------------------------------------------------
(* Buying.                                                                    *)

(* purchase() asks again what the product costs and whether it may be bought.   *)
Buys(c, p, q) ==
  /\ Comes(c, Away)
  /\ IF OnSale(MemberOf[c], p, q)
     THEN ReadProduct(c, p, q)
     ELSE UNCHANGED vars
  /\ UNCHANGED <<config, lowest, records, passed, edit, upload, uploads>>

BuyOnWeb(c, p, q) == visit[c].at = "in" /\ Buys(c, p, q)

ChooseProduct(c) ==
  /\ visit[c].at = "menu"
  /\ \E offer \in visit[c].shown :
       Comes(c, [at |-> "amount", product |-> offer[1], price |-> offer[2]])
  /\ OnlyVisit

EnterQuantity(c, q) == visit[c].at = "amount" /\ Buys(c, visit[c].product, q)

(* The member cancels, types what is no whole positive number, or lets the      *)
(* fifteen minutes of the menu or the five of the quantity pass.                *)
GivesUp(c) ==
  /\ visit[c].at \in {"menu", "amount"}
  /\ Comes(c, Away) /\ OnlyVisit

MarketMember(c) ==
  \/ ReadRequirement(c) \/ Enter(c) \/ Forbidden(c) \/ GivesUp(c)
  \/ ChooseProduct(c)
  \/ \E p \in Product, q \in Quantity : BuyOnWeb(c, p, q)
  \/ \E q \in Quantity : EnterQuantity(c, q)
  \/ /\ \/ \E i \in Item : ~Busy(c) /\ c \notin Chat /\ ReadItem(c, i)
        \/ Purchase(c) \/ PurchaseProfileItem(c) \/ Refused(c)
     /\ UNCHANGED marketVars

-----------------------------------------------------------------------------
(* The pages of administrators.                                               *)

OnlyEdit == UNCHANGED <<vars, config, lowest, records, passed, visit, upload, uploads>>
Opens(a, what) == edit[a] = NoEdit /\ call[a] = Idle /\ edit' = [edit EXCEPT ![a] = what]
Closes(a) == edit' = [edit EXCEPT ![a] = NoEdit]

(* A field starts with what the list showed, and the list with what the page     *)
(* fetched: one step, for nothing else is done with what was fetched.             *)
OpenInlineEdit(a, p, f) ==
  /\ Opens(a, [field |-> f, product |-> p, shown |-> product[p][f]])
  /\ OnlyEdit

StartEdit(a, k) == Opens(a, [field |-> k, shown |-> config[k]]) /\ OnlyEdit

CancelEdit(a) == edit[a] # NoEdit /\ call[a] = Idle /\ Closes(a) /\ OnlyEdit

(* updateProduct reads the row, changes the field it was sent and saves.         *)
SendPatch(a, p, row) ==
  /\ Goes(a, [op |-> "save", product |-> p, row |-> row])
  /\ UNCHANGED <<ledgerVars, shopVars>>
  /\ UNCHANGED marketVars

(* The field holds what the row showed unless the administrator types over it.    *)
HandleInlineSave(a) ==
  \/ /\ edit[a].field = "price"
     /\ \E x \in (NewPrice \cup {edit[a].shown}) \ {0} :
          SendPatch(a, edit[a].product, [product[edit[a].product] EXCEPT !.price = x])
  \/ /\ edit[a].field = "stock"
     /\ \E n \in NewStock \cup {edit[a].shown} :
          SendPatch(a, edit[a].product, [product[edit[a].product] EXCEPT !.stock = n])

(* No row the page gets has an isActive, so that its switch always says "on".      *)
HandleToggleActive(a, p) ==
  edit[a] = NoEdit /\ SendPatch(a, p, [product[p] EXCEPT !.status = "ACTIVE"])

SoftDelete(a, p) ==
  edit[a] = NoEdit /\ SendPatch(a, p, [product[p] EXCEPT !.status = "INACTIVE"])

(* The field is closed when the answer has come.                                   *)
Saved(a) ==
  /\ SaveProduct(a) /\ Closes(a)
  /\ UNCHANGED <<config, lowest, records, passed, visit, upload, uploads>>

(* Whatever text is sent is stored.                                                *)
SetConfig(k, v) ==
  /\ config' = [config EXCEPT ![k] = v]
  /\ lowest' = [lowest EXCEPT ![k] = IF v = Typo THEN @ ELSE Min({@, v})]

(* The text that was shown is not sent.                                            *)
HandleSave(a, k, v) ==
  /\ edit[a].field = k /\ v \in NewValue[k]
  /\ IF v = edit[a].shown THEN UNCHANGED <<config, lowest>> ELSE SetConfig(k, v)
  /\ Closes(a)
  /\ UNCHANGED <<vars, records, passed, visit, upload, uploads>>

-----------------------------------------------------------------------------
(* Attendance sheets.                                                         *)

HandleFile(a, sheet) ==
  /\ upload[a] = << >> /\ uploads < MaxUploads
  /\ upload' = [upload EXCEPT ![a] = sheet]
  /\ uploads' = uploads + 1
  /\ UNCHANGED <<vars, config, lowest, records, passed, visit, edit>>

(* A status that is none of the four is PRESENT.                               *)
ParseStatus(s) == IF s \in Status THEN s ELSE "PRESENT"

WriteRow(row) ==
  records' = [records EXCEPT ![row.who][row.kind][ParseStatus(row.status)] = @ + 1]

Known(who) == who \in InClan /\ account[who] = "open"

(* A row without a name, of an unknown user or of one outside the clan fails,    *)
(* and the rest of the sheet goes on.  Nothing says that a row is there already. *)
UploadRow(a) ==
  /\ upload[a] # << >>
  /\ LET row == Head(upload[a]) IN
       IF Known(row.who) THEN WriteRow(row) ELSE UNCHANGED records
  /\ upload' = [upload EXCEPT ![a] = Tail(@)]
  /\ UNCHANGED <<vars, config, lowest, passed, visit, edit, uploads>>

MarketAdmin(a) ==
  \/ HandleInlineSave(a) \/ Saved(a) \/ CancelEdit(a)
  \/ \E p \in Product, f \in {"price", "stock"} : OpenInlineEdit(a, p, f)
  \/ \E p \in Product : HandleToggleActive(a, p) \/ SoftDelete(a, p)
  \/ \E k \in Kind : StartEdit(a, k) \/ \E v \in NewValue[k] : HandleSave(a, k, v)
  \/ \E s \in Sheet : HandleFile(a, s)
  \/ UploadRow(a)
  \/ /\ \/ \E o \in Order : ReadToCancel(a, o) \/ ReadToDeliver(a, o)
        \/ CancelOrder(a) \/ MarkDelivered(a)
     /\ UNCHANGED marketVars

MarketNext ==
  \/ \E u \in User : Join(u) /\ UNCHANGED <<shopVars, call, marketVars>>
  \/ \E c \in Client : MarketMember(c)
  \/ \E a \in Admin : MarketAdmin(a)

MarketSpec == MarketInit /\ [][MarketNext]_allVars

(* The server's steps and the time limits of a conversation.                     *)
Answer(c) ==
  \/ Enter(c) \/ Forbidden(c) \/ GivesUp(c)
  \/ \E p \in Product, q \in Quantity : BuyOnWeb(c, p, q)
  \/ (Purchase(c) \/ PurchaseProfileItem(c) \/ Refused(c)) /\ UNCHANGED marketVars

FairMarketSpec == MarketSpec /\ \A c \in Client : WF_allVars(Answer(c))

-----------------------------------------------------------------------------
(* Whoever has an order had attended, before it, at least what the mildest       *)
(* requirements there ever were ask for: the flag that opens the gate for good   *)
(* is set by the gate alone ("MarketGateGuard: 출석 7일 + 내전 2회 이상 통과한      *)
(* 사용자만 진입", shop.controller.ts:50).                                         *)
BuyersEarnedIt ==
  \A o \in Order : order[o] # None => \A k \in Kind : Counted(order[o].buyer, k) >= lowest[k]

(* Whoever the gate let in once is let in for good, also when the requirements     *)
(* are raised ("cachedPassed=true면 빠른 경로로 즉시 반환 (재계산 없음)",                *)
(* market-gate.service.ts:38).                                                    *)
LetInForGood ==
  [][\A c \in Client : Forbidden(c) => ~passed[MemberOf[c]]]_allVars

(* Whoever comes to buy gets an answer: the order, a refusal, or the time limit   *)
(* (buy.command.ts:23).                                                           *)
EveryVisitEnds == \A c \in Client : Busy(c) ~> ~Busy(c)

(* The member pays the price he was shown (buy.command.ts:126).  Not kept.          *)
ChargedAsShown ==
  [][\A c \in Chat : visit[c].at = "amount" /\ call'[c] # Idle
                      => call'[c].price = visit[c].price]_allVars

(* The server refuses what is no number where one is needed ("숫자 형식이 필요한        *)
(* 항목에 비숫자 값 입력 시 서버에서 오류를 반환합니다", config/page.tsx:181).  Not kept.  *)
RequirementsAreNumbers == \A k \in Kind : config[k] # Typo

(* A sheet that is uploaded again does not count again.  Not kept.                  *)
SheetCountsOnce ==
  \A u \in User, k \in Kind :
    Counted(u, k) <= Uploaded[u][k] + MapThenSumSet(LAMBDA s :
      Cardinality({i \in DOMAIN s : s[i].who = u /\ s[i].kind = k}), Sheet)

(* An administrator who saves the stock as it was shown takes nothing back from     *)
(* what was sold meanwhile (products/page.tsx:89).  Not kept.                       *)
StockShownIsStock ==
  [][\A a \in Admin : edit[a].field = "stock" /\ call[a].op = "save" /\ call'[a] = Idle
       => product'[edit[a].product].stock \in {product[edit[a].product].stock} \cup NewStock]_allVars
=============================================================================
