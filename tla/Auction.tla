------------------------------ MODULE Auction ------------------------------
(***************************************************************************)
(* One draft auction (modules/auctions): the master puts players up one at *)
(* a time, captains bid their session points, and a player is sold to the  *)
(* highest bid by the master, by the gateway or when the time is up.       *)
(*                                                                         *)
(* One action is one transaction of AuctionsService or                     *)
(* AuctionsBiddingService.  Each locks the row of the auction first, so     *)
(* they are serial; the operations that lock nothing are in AuctionRoster   *)
(* and the callbacks and timers of the gateway in AuctionTimers.  Calls by  *)
(* others than the creator of the auction are refused and change nothing.   *)
(***************************************************************************)
EXTENDS Integers, FiniteSets, FiniteSetsExt, Functions

CONSTANTS
  User,
  Row,        \* ids of rows of auction_participants
  Enrolled,   \* the rows when the auction is ready to start, None for a free id
  StartPoints, TeamCount,  \* settings of the auction at that time
  BidAmount,  \* amounts clients send
  Turn,       \* turnTimeLimit, in seconds
  None        \* null

Role == {"CAPTAIN", "PLAYER", "SPECTATOR"}
Entry == [user : User, role : Role, points : Int, team : User \cup {None},
          price : Int, unsold : BOOLEAN]

ASSUME NoneAssumption == None \notin User \cup Row /\ None \notin Entry /\ None \notin Int
ASSUME FiniteAssumption == IsFiniteSet(User) /\ IsFiniteSet(Row)
ASSUME BidAmountAssumption == BidAmount \subseteq Int
ASSUME EnrolledAssumption == Enrolled \in [Row -> Entry \cup {None}]
ASSUME SettingsAssumption == StartPoints \in Nat /\ TeamCount \in Nat /\ Turn \in Nat \ {0}

VARIABLES
  auction,  \* the row of table auctions
  entry,    \* its participants, None for an id that is not in use
  bid       \* bid[u][t]: the active bid of u for player t, 0 if there is none

auctionVars == <<auction, entry, bid>>

AuctionStatus == {"PENDING", "ONGOING", "PAUSED", "ASSIGNING", "COMPLETED", "CANCELLED"}
BiddingPhase == {"WAITING", "BIDDING", "SOLD"}

(* left is the whole seconds from now to currentBiddingEndTime, 0 when that is   *)
(* past: all that any code computes from it.  GONE stands for no row.             *)
AuctionRow ==
  [status : AuctionStatus \cup {"GONE"}, phase : BiddingPhase, current : User \cup {None},
   left : 0..Turn \cup {None}, timerPaused : BOOLEAN, pausedLeft : 0..Turn \cup {None},
   start : Nat, teams : Nat]

NewAuction ==
  [status |-> "PENDING", phase |-> "WAITING", current |-> None, left |-> None,
   timerPaused |-> FALSE, pausedLeft |-> None, start |-> StartPoints, teams |-> TeamCount]

AuctionTypeOK ==
  /\ auction \in AuctionRow
  /\ entry \in [Row -> Entry \cup {None}]
  /\ bid \in [User -> [User -> Nat]]

AuctionInit ==
  /\ auction = NewAuction
  /\ entry = Enrolled
  /\ bid = [u \in User |-> [t \in User |-> 0]]

-----------------------------------------------------------------------------
(* findOne returns some row that matches: nothing makes a user's row unique.     *)

Find(u) == {r \in Row : entry[r] # None /\ entry[r].user = u}
FindRole(u, role) == {r \in Find(u) : entry[r].role = role}
OneOf(R) == IF R = {} THEN {None} ELSE R

Captains == {r \in Row : entry[r] # None /\ entry[r].role = "CAPTAIN"}
Players == {r \in Row : entry[r] # None /\ entry[r].role = "PLAYER"}

Unassigned(r) == entry[r].team = None

IsOngoing == auction.status = "ONGOING"

(* loadAsCreatorTx *)
Loaded == auction.status # "GONE"

Start ==
  /\ auction.status = "PENDING"
  /\ auction' = [auction EXCEPT !.status = "ONGOING"]
  /\ UNCHANGED <<entry, bid>>

(* Mutant: a player who has a team can be put up again.                           *)
SelectPlayerAny(p) ==
  /\ IsOngoing
  /\ FindRole(p, "PLAYER") # {}
  /\ auction' = [auction EXCEPT !.current = p, !.left = Turn, !.phase = "BIDDING"]
  /\ UNCHANGED <<entry, bid>>

(* The bids made for another player in the meantime stay active.                 *)
SelectPlayer(p) ==
  /\ IsOngoing
  /\ \E r \in FindRole(p, "PLAYER") : Unassigned(r)
  /\ auction' = [auction EXCEPT !.current = p, !.left = Turn, !.phase = "BIDDING"]
  /\ UNCHANGED <<entry, bid>>

-----------------------------------------------------------------------------
(* Bids.                                                                          *)

HighestBid(t) == Max({bid[u][t] : u \in User})

HighestBidders(t) == {u \in User : bid[u][t] > 0 /\ bid[u][t] = HighestBid(t)}

Committed(u) == SumFunctionOnSet(bid[u], User)

OtherBidsTotal(u, t) == SumFunctionOnSet(bid[u], User \ {t})

(* Mutant: bids for other players are not counted.                                *)
AffordableAlone(r, t, amt) == entry[r].points >= amt

Affordable(r, t, amt) == entry[r].points >= OtherBidsTotal(entry[r].user, t) + amt

(* Mutant: a bid counts whoever is up.                                             *)
PlaceBidAnyPlayer(u, t, amt) ==
  /\ IsOngoing
  /\ \E r \in Find(u) : entry[r].role = "CAPTAIN" /\ Affordable(r, t, amt)
  /\ amt > HighestBid(t)
  /\ bid' = [bid EXCEPT ![u][t] = amt]
  /\ auction' = [auction EXCEPT !.left = Turn]
  /\ UNCHANGED entry

(* The phase is not asked: a player already sold can be bid for.                   *)
PlaceBid(u, t, amt) ==
  /\ IsOngoing /\ auction.current = t
  /\ \E r \in Find(u) : entry[r].role = "CAPTAIN" /\ Affordable(r, t, amt)
  /\ amt > HighestBid(t)
  /\ bid' = [bid EXCEPT ![u][t] = amt]
  /\ auction' = [auction EXCEPT !.left = Turn]
  /\ UNCHANGED entry

CanOutbid(c) ==
  entry[c].points - OtherBidsTotal(entry[c].user, auction.current)
    >= HighestBid(auction.current) + 1

(* checkAutoConfirm *)
NoRivalCanBid ==
  /\ IsOngoing /\ auction.current # None
  /\ \E u \in HighestBidders(auction.current) :
       ~ \E c \in Captains : entry[c].user # u /\ CanOutbid(c)

NoBidsFor(t) == [u \in User |-> [bid[u] EXCEPT ![t] = 0]]

-----------------------------------------------------------------------------
(* Sales.                                                                          *)

(* Mutant: the price is not taken from the captain.                                *)
SoldWithoutCharge(r, c, u, amt) ==
  [q \in Row |-> IF q = r THEN [entry[q] EXCEPT !.team = u, !.price = amt] ELSE entry[q]]

(* Row r is bought by u, who is charged in row c; either may be missing.            *)
Sold(r, c, u, amt) ==
  LET assigned(q) ==
        IF q = r THEN [entry[q] EXCEPT !.team = u, !.price = amt] ELSE entry[q]
  IN [q \in Row |-> IF q = c THEN [assigned(q) EXCEPT !.points = @ - amt] ELSE assigned(q)]

(* The current player goes to the highest bid.                                      *)
SellCurrent(u) ==
  LET t == auction.current IN
  \E r \in OneOf(Find(t)), c \in OneOf(Find(u)) :
    /\ r # None => Unassigned(r)
    /\ entry' = Sold(r, c, u, bid[u][t])
    /\ bid' = NoBidsFor(t)

Confirmable == Loaded /\ auction.phase # "SOLD" /\ auction.current # None

(* The service asks it once more under the lock, and then does nothing.              *)
AlreadySold == \E r \in Find(auction.current) : ~ Unassigned(r)

(* Mutant: the bids are not ordered by amount.                                       *)
ConfirmAnyBid ==
  /\ Confirmable
  /\ \E u \in User : bid[u][auction.current] > 0 /\ SellCurrent(u)
  /\ auction' = [auction EXCEPT !.phase = "SOLD", !.left = None]

(* In whatever state the auction is; the player stays the current one.               *)
ConfirmCurrentBid ==
  /\ Confirmable
  /\ \E u \in HighestBidders(auction.current) : SellCurrent(u)
  /\ auction' = [auction EXCEPT !.phase = "SOLD", !.left = None]

PassCurrentPlayer ==
  /\ Loaded /\ auction.current # None
  /\ bid' = NoBidsFor(auction.current)
  /\ auction' = [auction EXCEPT !.current = None, !.left = None]
  /\ UNCHANGED entry

(* The phase stays BIDDING, and the end time in the row is not looked at.             *)
AutoConfirmOnTimeout ==
  /\ Confirmable /\ IsOngoing
  /\ \/ \E u \in HighestBidders(auction.current) : SellCurrent(u)
     \/ HighestBidders(auction.current) = {} /\ UNCHANGED <<entry, bid>>
  /\ auction' = [auction EXCEPT !.current = None, !.left = None]

-----------------------------------------------------------------------------
(* The master's controls.                                                             *)

(* Mutant: the captains keep what they have left.                                      *)
ResetPlayersOnly(r) ==
  IF entry[r] # None /\ entry[r].role = "PLAYER"
  THEN [entry[r] EXCEPT !.team = None, !.price = 0, !.unsold = FALSE]
  ELSE entry[r]

ResetEntry(r) ==
  CASE entry[r] = None -> None
    [] entry[r] # None /\ entry[r].role = "CAPTAIN" -> [entry[r] EXCEPT !.points = auction.start]
    [] entry[r] # None /\ entry[r].role = "PLAYER" ->
         [entry[r] EXCEPT !.team = None, !.price = 0, !.unsold = FALSE]
    [] OTHER -> entry[r]

Reset ==
  /\ auction.status \in {"ONGOING", "ASSIGNING", "PAUSED"}
  /\ bid' = [u \in User |-> [t \in User |-> 0]]
  /\ entry' = [r \in Row |-> ResetEntry(r)]
  /\ auction' = [auction EXCEPT !.status = "ONGOING", !.phase = "WAITING", !.current = None,
                   !.left = None, !.timerPaused = FALSE, !.pausedLeft = None]

Complete ==
  /\ auction.status \in {"ONGOING", "ASSIGNING"}
  /\ auction' = [auction EXCEPT !.status = "COMPLETED"]
  /\ UNCHANGED <<entry, bid>>

(* The remaining time is kept if a player is up; the end time stays in the row.         *)
TimeSaved == IF auction.left # None THEN auction.left ELSE auction.pausedLeft

PauseAuction ==
  /\ IsOngoing
  /\ auction' = [auction EXCEPT !.status = "PAUSED", !.pausedLeft = TimeSaved]
  /\ UNCHANGED <<entry, bid>>

ResumeAuction ==
  /\ auction.status = "PAUSED"
  /\ auction' = [auction EXCEPT !.status = "ONGOING", !.pausedLeft = None,
                   !.left = IF auction.pausedLeft # None /\ auction.current # None
                            THEN auction.pausedLeft ELSE @]
  /\ UNCHANGED <<entry, bid>>

PauseTimer ==
  /\ Loaded /\ ~ auction.timerPaused
  /\ auction' = [auction EXCEPT !.timerPaused = TRUE, !.pausedLeft = TimeSaved]
  /\ UNCHANGED <<entry, bid>>

(* Mutant: what was left is added to a whole turn.                                      *)
ResumeTimerExtended ==
  /\ Loaded /\ auction.timerPaused
  /\ auction' = [auction EXCEPT !.timerPaused = FALSE, !.pausedLeft = None,
                   !.left = IF auction.pausedLeft # None THEN Turn + auction.pausedLeft ELSE @]
  /\ UNCHANGED <<entry, bid>>

ResumeTimer ==
  /\ Loaded /\ auction.timerPaused
  /\ auction' = [auction EXCEPT !.timerPaused = FALSE, !.pausedLeft = None,
                   !.left = IF auction.pausedLeft # None THEN auction.pausedLeft ELSE @]
  /\ UNCHANGED <<entry, bid>>

RefundOf(r) == IF entry[r].unsold THEN 0 ELSE entry[r].price

(* The captain is saved first, then the player.                                           *)
UndoSoldPlayer(p) ==
  /\ Loaded
  /\ \E r \in FindRole(p, "PLAYER") :
       /\ ~ Unassigned(r)
       /\ \E c \in OneOf(Find(entry[r].team)) :
            entry' = [q \in Row |->
              CASE q = r -> [entry[q] EXCEPT !.team = None, !.price = 0, !.unsold = FALSE]
                [] q = c /\ q # r -> [entry[q] EXCEPT !.points = @ + RefundOf(r)]
                [] OTHER -> entry[q]]
  /\ UNCHANGED <<auction, bid>>

(* The active bids for the current player stay.                                           *)
NextPlayer ==
  /\ Loaded
  /\ auction' = [auction EXCEPT !.phase = "WAITING", !.current = None, !.left = None]
  /\ UNCHANGED <<entry, bid>>

(* From any state.                                                                         *)
EnterAssignmentPhase ==
  /\ Loaded
  /\ auction' = [auction EXCEPT !.status = "ASSIGNING", !.phase = "WAITING",
                   !.current = None, !.left = None]
  /\ UNCHANGED <<entry, bid>>

ManualAssignPlayer(p, c) ==
  /\ auction.status = "ASSIGNING"
  /\ FindRole(c, "CAPTAIN") # {}
  /\ \E r \in FindRole(p, "PLAYER") :
       /\ Unassigned(r)
       /\ entry' = [entry EXCEPT ![r].team = c, ![r].price = 0, ![r].unsold = TRUE]
  /\ UNCHANGED <<auction, bid>>

(* A second passes.                                                                         *)
Elapse ==
  /\ auction.left \notin {None, 0}
  /\ auction' = [auction EXCEPT !.left = @ - 1]
  /\ UNCHANGED <<entry, bid>>

MasterStep ==
  \/ Start \/ Reset \/ Complete \/ PauseAuction \/ ResumeAuction \/ PauseTimer \/ ResumeTimer
  \/ ConfirmCurrentBid \/ PassCurrentPlayer \/ NextPlayer \/ EnterAssignmentPhase
  \/ \E p \in User : SelectPlayer(p) \/ UndoSoldPlayer(p)
  \/ \E p, c \in User : ManualAssignPlayer(p, c)

AuctionNext ==
  \/ MasterStep
  \/ \E u, t \in User, amt \in BidAmount : PlaceBid(u, t, amt)
  \/ AutoConfirmOnTimeout
  \/ Elapse

AuctionSpec == AuctionInit /\ [][AuctionNext]_auctionVars

-----------------------------------------------------------------------------
PaidBy(u) ==
  SumFunctionOnSet([r \in Row |-> IF r \in Players /\ entry[r].team = u
                                  THEN entry[r].price ELSE 0], Row)

(* What a captain has left and what the team paid are the starting points, after any   *)
(* sales, undone sales, assignments and resets.                                         *)
TeamBudget ==
  \A c \in Captains : entry[c].points + PaidBy(entry[c].user) = auction.start

(* A captain can pay all active bids at once, so any of them may win, in any order.      *)
BidsCovered ==
  \A c \in Captains : Committed(entry[c].user) <= entry[c].points

(* A purse covers what its captain has spent and promised: it is the starting points less *)
(* what the team paid, and pays every active bid.                                         *)
PursesCover == TeamBudget /\ BidsCovered

(* A player whose bidding is open belongs to no team: the defence against charging twice  *)
(* in confirmCurrentBid and autoConfirmOnTimeout is never needed.                         *)
UnderHammerIsFree ==
  auction.phase # "SOLD" /\ auction.current # None =>
    \A r \in Find(auction.current) : Unassigned(r)

(* A player joins a team for the highest active bid, made by its captain, or is assigned  *)
(* for nothing after the bidding.                                                          *)
SoldToHighestBidder ==
  [][\A r \in Players :
       Unassigned(r) /\ entry'[r].team # None =>
         \/ auction.status = "ASSIGNING" /\ entry'[r].unsold /\ entry'[r].price = 0
         \/ /\ auction.current = entry[r].user
            /\ entry'[r].team \in HighestBidders(auction.current)
            /\ entry'[r].price = HighestBid(auction.current)]_auctionVars

(* To the captains the auction is a draft.                                                  *)
UsersOf(role) == {Enrolled[r].user : r \in {q \in Row : Enrolled[q] # None /\ Enrolled[q].role = role}}
CaptainUsers == UsersOf("CAPTAIN")
PlayerUsers == UsersOf("PLAYER")
RowOfUser == [u \in CaptainUsers \cup PlayerUsers |->
                CHOOSE r \in Row : Enrolled[r] # None /\ Enrolled[r].user = u]

DraftOf == INSTANCE Draft WITH
  Captain <- CaptainUsers,
  Player <- PlayerUsers,
  Purse <- StartPoints,
  team <- [p \in PlayerUsers |-> entry[RowOfUser[p]].team],
  price <- [p \in PlayerUsers |-> entry[RowOfUser[p]].price],
  purse <- [c \in CaptainUsers |-> entry[RowOfUser[c]].points]
DraftSpec == DraftOf!Spec

-----------------------------------------------------------------------------
(* Claims of the documentation that the code does not keep.                                 *)

(* A sale makes every active bid for the player inactive and so frees the points of the     *)
(* captains who lost (docs/handoff.md:138, auctions-bidding.service.ts:236).                *)
SoldPlayerHasNoActiveBid ==
  \A r \in Players, u \in User :
    ~ Unassigned(r) /\ ~ entry[r].unsold => bid[u][entry[r].user] = 0

(* COMPLETED is a final state (docs/auction/PROCESS.md:82).                                 *)
CompletedIsFinal ==
  [][auction.status = "COMPLETED" => auction'.status \in {"COMPLETED", "GONE"}]_auctionVars
=============================================================================
