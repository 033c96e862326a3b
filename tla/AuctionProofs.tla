--------------------------- MODULE AuctionProofs ---------------------------
(***************************************************************************)
(* Proofs about Auction, for any number of captains and players, any purses *)
(* and any bids: what its transactions keep, the gateway's countdown        *)
(* (AuctionTimers), the pages in its room (AuctionRoom), and the set-up     *)
(* before it (AuctionRoster, AuctionSetup).  Those of the bidding hold for  *)
(* an auction that was set up as it should be (OrderlyEnrolled), which is   *)
(* what those of the set-up show.                                           *)
(***************************************************************************)
EXTENDS AuctionTimers, AuctionRoom, AuctionSetup, PointSums, SequenceTheorems

(* A row per user, captains with the starting points, nobody in a team yet.  *)
OrderlyEnrolled ==
  /\ \A q, r \in Row :
       Enrolled[q] # None /\ Enrolled[r] # None /\ Enrolled[q].user = Enrolled[r].user => q = r
  /\ \A r \in Row : Enrolled[r] # None =>
       /\ Enrolled[r].team = None /\ Enrolled[r].price = 0 /\ ~ Enrolled[r].unsold
       /\ Enrolled[r].role = "CAPTAIN" => Enrolled[r].points = StartPoints

IsRow(r, u, role) == Enrolled[r] # None /\ Enrolled[r].user = u /\ Enrolled[r].role = role
HasRow(u, role) == \E r \in Row : IsRow(r, u, role)

(* Rows are changed, never added, removed or given to somebody else.          *)
RosterKept ==
  \A r \in Row :
    /\ (entry[r] = None) <=> (Enrolled[r] = None)
    /\ entry[r] # None => entry[r].user = Enrolled[r].user /\ entry[r].role = Enrolled[r].role

(* Only players are in teams, those of captains; whoever is free costs nothing  *)
(* and can be refunded in full once sold.                                       *)
TeamsMakeSense ==
  \A r \in Row : entry[r] # None =>
    /\ entry[r].price >= 0
    /\ entry[r].unsold => entry[r].price = 0
    /\ entry[r].team = None => entry[r].price = 0 /\ ~ entry[r].unsold
    /\ entry[r].team # None => entry[r].role = "PLAYER" /\ HasRow(entry[r].team, "CAPTAIN")

BiddersAreCaptains == \A u, t \in User : bid[u][t] > 0 => HasRow(u, "CAPTAIN")

CurrentIsPlayer == auction.current # None => HasRow(auction.current, "PLAYER")

(* Whoever is assigned by hand is not up for sale.                              *)
AssigningHasNoCurrent == auction.status = "ASSIGNING" => auction.current = None

StartKept == auction.start = StartPoints

AuctionInv ==
  /\ AuctionTypeOK /\ RosterKept /\ StartKept
  /\ TeamsMakeSense /\ BiddersAreCaptains
  /\ CurrentIsPlayer /\ AssigningHasNoCurrent
  /\ TeamBudget /\ BidsCovered /\ UnderHammerIsFree

-----------------------------------------------------------------------------
(* Facts about the operators of the auction.                                  *)

(* The highest of finitely many integers is one of them.                      *)
LEMMA MaxIsHighest ==
  ASSUME NEW S, IsFiniteSet(S), S \subseteq Int, S # {}
  PROVE  Max(S) \in S /\ \A y \in S : Max(S) >= y
  BY HighestExists DEF Max

(* The highest bid for a player is somebody's and no lower than any other. *)
LEMMA HighestIsSomebodys ==
  ASSUME AuctionTypeOK, NEW u \in User, NEW t \in User
  PROVE  /\ HighestBid(t) \in Nat
         /\ \E v \in User : bid[v][t] = HighestBid(t)
         /\ \A v \in User : bid[v][t] <= HighestBid(t)
  <1> DEFINE S == {bid[v][t] : v \in User}
  <1>1. IsFiniteSet(S)
    <2> DEFINE f == [v \in User |-> bid[v][t]]
    <2>1. f \in Surjection(User, S)
      BY DEF Surjection
    <2> HIDE DEF f, S
    <2> QED BY <2>1, FS_Surjection, FiniteAssumption
  <1>2. S \subseteq Int /\ S # {}
    BY DEF AuctionTypeOK
  <1> HIDE DEF S
  <1>3. Max(S) \in S /\ \A y \in S : Max(S) >= y
    BY <1>1, <1>2, MaxIsHighest, Zenon
  <1>4. HighestBid(t) = Max(S)
    BY DEF HighestBid, S
  <1>5. \A v \in User : bid[v][t] \in S /\ bid[v][t] \in Nat
    BY DEF S, AuctionTypeOK
  <1>6. \E v \in User : bid[v][t] = HighestBid(t)
    BY <1>3, <1>4 DEF S
  <1>7. \A v \in User : HighestBid(t) >= bid[v][t]
    BY <1>3, <1>4, <1>5
  <1> QED BY <1>5, <1>6, <1>7

(* So it is a number. *)
LEMMA HighestBidType ==
  ASSUME AuctionTypeOK, NEW u \in User, NEW t \in User
  PROVE  HighestBid(t) \in Nat
  BY HighestIsSomebodys

(* Nobody but the bidder of a row has it.                                      *)
LEMMA OneRow ==
  ASSUME OrderlyEnrolled, RosterKept, NEW u, NEW role, NEW r \in Row, IsRow(r, u, role)
  PROVE  Find(u) = {r} /\ entry[r] # None /\ entry[r].user = u /\ entry[r].role = role
  BY DEF OrderlyEnrolled, RosterKept, IsRow, Find

(* What a bidder has bid in all is the bid for one player and those for the others. *)
LEMMA CommittedSplits ==
  ASSUME AuctionTypeOK, NEW u \in User, NEW t \in User
  PROVE  /\ Committed(u) = bid[u][t] + OtherBidsTotal(u, t)
         /\ Committed(u) \in Int /\ OtherBidsTotal(u, t) \in Int
  <1>1. \A x \in User : bid[u][x] \in Int
    BY DEF AuctionTypeOK
  <1>2. IsFiniteSet(User) /\ IsFiniteSet(User \ {t})
    BY FiniteAssumption, FS_RemoveElement
  <1>3. Committed(u) = bid[u][t] + SumFunctionOnSet(bid[u], User \ {t})
    BY <1>1, <1>2, SumRemove DEF Committed
  <1>4. SumFunctionOnSet(bid[u], User) \in Int /\ SumFunctionOnSet(bid[u], User \ {t}) \in Int
    BY <1>1, <1>2, SumType
  <1> QED BY <1>3, <1>4 DEF Committed, OtherBidsTotal

(* What row r adds to what the team of u has paid.                             *)
PaidFor(r, u) == IF r \in Players /\ entry[r].team = u THEN entry[r].price ELSE 0

(* A row's share is a number.                                                  *)
LEMMA PaidForType ==
  ASSUME AuctionTypeOK, NEW r \in Row, NEW u
  PROVE  PaidFor(r, u) \in Int
  BY DEF AuctionTypeOK, Entry, PaidFor, Players

(* When one row changes its share, the payments of a team change by it.        *)
LEMMA PaidByUpdate ==
  ASSUME AuctionTypeOK, AuctionTypeOK', NEW u, NEW r \in Row,
         \A q \in Row \ {r} : PaidFor(q, u)' = PaidFor(q, u)
  PROVE  /\ PaidBy(u) \in Int
         /\ PaidBy(u)' = PaidBy(u) + (PaidFor(r, u)' - PaidFor(r, u))
  <1> DEFINE f == [q \in Row |-> PaidFor(q, u)]
             g == [q \in Row |-> PaidFor(q, u)']
  <1>1. \A q \in Row : f[q] \in Int /\ g[q] \in Int
    <2> TAKE q \in Row
    <2>1. PaidFor(q, u) \in Int
      BY PaidForType
    <2>2. PaidFor(q, u)' \in Int
      BY DEF AuctionTypeOK, Entry, PaidFor, Players
    <2> QED BY <2>1, <2>2
  <1>2. \A q \in Row \ {r} : g[q] = f[q]
    OBVIOUS
  <1>3. PaidBy(u) = SumFunctionOnSet(f, Row)
    BY DEF PaidBy, PaidFor
  <1>4. PaidBy(u)' = SumFunctionOnSet(g, Row)
    BY DEF PaidBy, PaidFor
  <1>5. f[r] = PaidFor(r, u) /\ g[r] = PaidFor(r, u)'
    OBVIOUS
  <1> HIDE DEF f, g
  <1>6. SumFunctionOnSet(g, Row) = SumFunctionOnSet(f, Row) + (g[r] - f[r])
    BY <1>1, <1>2, FiniteAssumption, SumUpdate
  <1>7. SumFunctionOnSet(f, Row) \in Int
    BY <1>1, FiniteAssumption, SumType
  <1> QED BY <1>3, <1>4, <1>5, <1>6, <1>7

(* A team that has nobody has paid nothing.                                    *)
LEMMA NothingPaid ==
  ASSUME NEW u, \A r \in Row : PaidFor(r, u) = 0
  PROVE  PaidBy(u) = 0
  <1> DEFINE f == [r \in Row |-> PaidFor(r, u)]
  <1>1. \A r \in Row : f[r] = 0
    OBVIOUS
  <1>2. PaidBy(u) = SumFunctionOnSet(f, Row)
    BY DEF PaidBy, PaidFor
  <1> HIDE DEF f
  <1> QED BY <1>1, <1>2, FiniteAssumption, SumOfZeros

BidsAreNumbers == bid \in [User -> [User -> Nat]]

(* When a bidder's bid for one player changes, what is committed changes by it. *)
LEMMA CommittedUpdate ==
  ASSUME AuctionTypeOK, BidsAreNumbers', NEW u \in User, NEW t \in User,
         \A x \in User \ {t} : bid'[u][x] = bid[u][x]
  PROVE  /\ Committed(u) \in Int
         /\ Committed(u)' = Committed(u) + (bid'[u][t] - bid[u][t])
  <1> DEFINE f == bid[u]
             g == bid'[u]
  <1>1. \A x \in User : f[x] \in Int /\ g[x] \in Int
    <2>1. bid[u] \in [User -> Nat]
      BY DEF AuctionTypeOK
    <2>2. bid'[u] \in [User -> Nat]
      BY DEF BidsAreNumbers
    <2> QED BY <2>1, <2>2
  <1>2. \A x \in User \ {t} : g[x] = f[x]
    OBVIOUS
  <1>3. Committed(u) = SumFunctionOnSet(f, User) /\ Committed(u)' = SumFunctionOnSet(g, User)
    BY DEF Committed
  <1>4. f[t] = bid[u][t] /\ g[t] = bid'[u][t]
    OBVIOUS
  <1> HIDE DEF f, g
  <1>5. SumFunctionOnSet(g, User) = SumFunctionOnSet(f, User) + (g[t] - f[t])
    <2>1. \A x \in User : f[x] \in Int
      BY <1>1
    <2>2. \A x \in User : g[x] \in Int
      BY <1>1
    <2>3. IsFiniteSet(User) /\ t \in User
      BY FiniteAssumption
    <2> QED BY <2>1, <2>2, <2>3, <1>2, SumUpdate
  <1>6. SumFunctionOnSet(f, User) \in Int
    BY <1>1, FiniteAssumption, SumType
  <1> QED BY <1>3, <1>4, <1>5, <1>6

-----------------------------------------------------------------------------
(* The invariant holds at first and is kept by every step.                     *)

(* The invariant holds at the start. *)
LEMMA InitInv == ASSUME OrderlyEnrolled, AuctionInit PROVE AuctionInv
  <1> USE DEF AuctionInit
  <1>1. AuctionTypeOK
    BY NoneAssumption, EnrolledAssumption, SettingsAssumption
       DEF AuctionTypeOK, AuctionRow, NewAuction, AuctionStatus, BiddingPhase
  <1>2. RosterKept /\ StartKept /\ CurrentIsPlayer /\ AssigningHasNoCurrent /\ UnderHammerIsFree
    BY DEF RosterKept, StartKept, CurrentIsPlayer, AssigningHasNoCurrent, UnderHammerIsFree,
           NewAuction
  <1>3. TeamsMakeSense
    BY DEF TeamsMakeSense, OrderlyEnrolled
  <1>4. BiddersAreCaptains
    BY DEF BiddersAreCaptains
  <1>5. TeamBudget
    <2> SUFFICES ASSUME NEW c \in Captains
                 PROVE  entry[c].points + PaidBy(entry[c].user) = auction.start
      BY DEF TeamBudget
    <2>1. \A r \in Row : PaidFor(r, entry[c].user) = 0
      <3> TAKE r \in Row
      <3>1. CASE r \in Players
        <4>1. entry[r].price = 0
          BY <3>1 DEF OrderlyEnrolled, Players
        <4> QED BY <4>1 DEF PaidFor
      <3>2. CASE r \notin Players
        BY <3>2 DEF PaidFor
      <3> QED BY <3>1, <3>2
    <2>2. PaidBy(entry[c].user) = 0
      BY <2>1, NothingPaid
    <2>3. entry[c].points = StartPoints /\ auction.start = StartPoints
      BY DEF OrderlyEnrolled, Captains, NewAuction
    <2> QED BY <2>2, <2>3, SettingsAssumption
  <1>6. BidsCovered
    <2> SUFFICES ASSUME NEW c \in Captains
                 PROVE  Committed(entry[c].user) <= entry[c].points
      BY DEF BidsCovered
    <2>1. entry[c].user \in User
      BY EnrolledAssumption DEF Captains, Entry
    <2>2. Committed(entry[c].user) = 0
      <3> DEFINE f == bid[entry[c].user]
      <3>1. \A x \in User : f[x] = 0
        BY <2>1
      <3>2. Committed(entry[c].user) = SumFunctionOnSet(f, User)
        BY DEF Committed
      <3> HIDE DEF f
      <3> QED BY <3>1, <3>2, FiniteAssumption, SumOfZeros
    <2>3. entry[c].points = StartPoints
      BY DEF OrderlyEnrolled, Captains
    <2> QED BY <2>2, <2>3, SettingsAssumption
  <1> QED BY <1>1, <1>2, <1>3, <1>4, <1>5, <1>6 DEF AuctionInv

(* A step that changes only the row of the auction has to keep what is said of it.  *)
LEMMA RowStep ==
  ASSUME AuctionInv, UNCHANGED <<entry, bid>>,
         auction' \in AuctionRow, auction'.start = auction.start,
         CurrentIsPlayer', AssigningHasNoCurrent', UnderHammerIsFree'
  PROVE  AuctionInv'
  <1>1. AuctionTypeOK' /\ RosterKept' /\ StartKept' /\ TeamsMakeSense' /\ BiddersAreCaptains'
    BY DEF AuctionInv, AuctionTypeOK, RosterKept, StartKept, TeamsMakeSense, BiddersAreCaptains
  <1>2. TeamBudget' /\ BidsCovered'
    BY DEF AuctionInv, TeamBudget, BidsCovered, Captains, Players, PaidBy, Committed
  <1> QED BY <1>1, <1>2 DEF AuctionInv

(* The row keeps its type and the starting points under each of its changes.    *)
LEMMA RowChanges ==
  ASSUME AuctionTypeOK,
         \/ Start \/ Complete \/ PauseAuction \/ ResumeAuction \/ PauseTimer \/ ResumeTimer
         \/ NextPlayer \/ EnterAssignmentPhase \/ Elapse
         \/ \E p \in User : SelectPlayer(p)
  PROVE  auction' \in AuctionRow /\ auction'.start = auction.start /\ UNCHANGED <<entry, bid>>
  <1> USE NoneAssumption, SettingsAssumption
      DEF AuctionTypeOK, AuctionRow, AuctionStatus, BiddingPhase
  <1>1. CASE Start
    BY <1>1 DEF Start
  <1>2. CASE Complete
    BY <1>2 DEF Complete
  <1>3. CASE PauseAuction
    BY <1>3 DEF PauseAuction, TimeSaved
  <1>4. CASE ResumeAuction
    BY <1>4 DEF ResumeAuction
  <1>5. CASE PauseTimer
    BY <1>5 DEF PauseTimer, TimeSaved
  <1>6. CASE ResumeTimer
    BY <1>6 DEF ResumeTimer
  <1>7. CASE NextPlayer
    BY <1>7 DEF NextPlayer
  <1>8. CASE EnterAssignmentPhase
    BY <1>8 DEF EnterAssignmentPhase
  <1>9. CASE Elapse
    <2>1. auction.left \in 0..Turn /\ auction.left # 0
      BY <1>9 DEF Elapse
    <2>2. auction.left - 1 \in 0..Turn
      <3>1. \A n, m \in Int : n \in 0..m /\ n # 0 => n - 1 \in 0..m
        OBVIOUS
      <3>2. auction.left \in Int /\ Turn \in Int
        BY <2>1
      <3> HIDE DEF AuctionTypeOK, AuctionRow, AuctionStatus, BiddingPhase
      <3> QED BY <2>1, <3>1, <3>2
    <2> QED BY <1>9, <2>2 DEF Elapse
  <1>10. CASE \E p \in User : SelectPlayer(p)
    <2>1. PICK p \in User : SelectPlayer(p)
      BY <1>10
    <2>2. Turn \in 0..Turn
      OBVIOUS
    <2> QED BY <2>1, <2>2 DEF SelectPlayer
  <1> QED BY <1>1, <1>2, <1>3, <1>4, <1>5, <1>6, <1>7, <1>8, <1>9, <1>10

(* Whoever is put up is free: a user has one row.                                *)
LEMMA SelectedIsFree ==
  ASSUME OrderlyEnrolled, AuctionInv, NEW p \in User, SelectPlayer(p)
  PROVE  CurrentIsPlayer' /\ AssigningHasNoCurrent' /\ UnderHammerIsFree'
  <1>1. PICK r \in FindRole(p, "PLAYER") : Unassigned(r)
    BY DEF SelectPlayer
  <1>2. r \in Row /\ IsRow(r, p, "PLAYER") /\ RosterKept
    BY <1>1 DEF AuctionInv, RosterKept, FindRole, Find, IsRow
  <1>3. Find(p) = {r}
    BY <1>2, OneRow
  <1>4. auction'.current = p /\ auction'.status = "ONGOING" /\ entry' = entry
    BY DEF SelectPlayer, IsOngoing, AuctionInv, AuctionTypeOK, AuctionRow
  <1> QED BY <1>1, <1>2, <1>3, <1>4
       DEF CurrentIsPlayer, HasRow, AssigningHasNoCurrent, UnderHammerIsFree, Find, Unassigned, IsRow

(* The steps that change only the row of the auction.                             *)
LEMMA RowStepsKeepInv ==
  ASSUME OrderlyEnrolled, AuctionInv,
         \/ Start \/ Complete \/ PauseAuction \/ ResumeAuction \/ PauseTimer \/ ResumeTimer
         \/ NextPlayer \/ EnterAssignmentPhase \/ Elapse
         \/ \E p \in User : SelectPlayer(p)
  PROVE  AuctionInv'
  <1>1. /\ auction' \in AuctionRow /\ auction'.start = auction.start /\ UNCHANGED <<entry, bid>>
        /\ auction \in AuctionRow
    BY RowChanges DEF AuctionInv, AuctionTypeOK
  <1>2. CurrentIsPlayer' /\ AssigningHasNoCurrent' /\ UnderHammerIsFree'
    <2>1. CASE \E p \in User : SelectPlayer(p)
      BY <2>1, SelectedIsFree
    <2>2. CASE NextPlayer \/ EnterAssignmentPhase
      <3>1. auction'.current = None
        BY <2>2, <1>1 DEF NextPlayer, EnterAssignmentPhase, AuctionRow
      <3> QED BY <3>1 DEF CurrentIsPlayer, AssigningHasNoCurrent, UnderHammerIsFree
    <2>3. CASE \/ Start \/ Complete \/ PauseAuction \/ ResumeAuction \/ PauseTimer
               \/ ResumeTimer \/ Elapse
      <3>1. /\ auction'.current = auction.current /\ auction'.phase = auction.phase
            /\ auction'.status = "ASSIGNING" => auction.status = "ASSIGNING"
        BY <2>3, <1>1 DEF Start, Complete, PauseAuction, ResumeAuction, PauseTimer, ResumeTimer,
             Elapse, AuctionRow
      <3> QED BY <3>1, <1>1 DEF AuctionInv, CurrentIsPlayer, AssigningHasNoCurrent,
                UnderHammerIsFree, Find, Unassigned
    <2> QED BY <2>1, <2>2, <2>3
  <1> QED BY <1>1, <1>2, RowStep

-----------------------------------------------------------------------------
(* What the captains have promised.                                               *)

(* Dropping the bids for t takes from each bidder what was promised for t.        *)
LEMMA BidsDropped ==
  ASSUME AuctionTypeOK, NEW t \in User, bid' = NoBidsFor(t)
  PROVE  /\ BidsAreNumbers'
         /\ BiddersAreCaptains => BiddersAreCaptains'
         /\ \A u \in User : /\ Committed(u) \in Int
                            /\ Committed(u)' = Committed(u) - bid[u][t]
  <1>1. \A u, x \in User : bid'[u][x] = IF x = t THEN 0 ELSE bid[u][x]
    BY DEF AuctionTypeOK, NoBidsFor
  <1>2. BidsAreNumbers'
    BY DEF AuctionTypeOK, NoBidsFor, BidsAreNumbers
  <1>3. BiddersAreCaptains => BiddersAreCaptains'
    BY <1>1 DEF BiddersAreCaptains, HasRow, IsRow
  <1>4. ASSUME NEW u \in User
        PROVE  Committed(u) \in Int /\ Committed(u)' = Committed(u) - bid[u][t]
    <2>1. \A x \in User \ {t} : bid'[u][x] = bid[u][x]
      BY <1>1
    <2>2. Committed(u) \in Int /\ Committed(u)' = Committed(u) + (bid'[u][t] - bid[u][t])
      BY <1>2, <2>1, CommittedUpdate
    <2>3. bid'[u][t] = 0 /\ bid[u][t] \in Int
      BY <1>1 DEF AuctionTypeOK
    <2> QED BY <2>2, <2>3
  <1> QED BY <1>2, <1>3, <1>4

(* The user of a row is a user, and its purse a number.                           *)
LEMMA EntryType ==
  ASSUME AuctionTypeOK, NEW r \in Row, entry[r] # None
  PROVE  /\ entry[r] \in Entry /\ entry[r].user \in User /\ entry[r].points \in Int
         /\ entry[r].price \in Int /\ entry[r].role \in Role /\ entry[r].unsold \in BOOLEAN
         /\ entry[r].team \in User \cup {None}
  BY DEF AuctionTypeOK, Entry

-----------------------------------------------------------------------------
(* What the captains have paid.                                                   *)

(* Row r, of a player, changes hands; c is the row of captain u.                  *)
RowsMove(r, c, u) ==
  /\ r # c /\ IsRow(r, Enrolled[r].user, "PLAYER") /\ IsRow(c, u, "CAPTAIN")
  /\ \A q \in Row \ {r, c} : entry'[q] = entry[q]
  /\ entry'[r] # None /\ entry'[r].user = entry[r].user /\ entry'[r].role = entry[r].role
  /\ entry'[c] # None /\ entry'[c].user = entry[c].user /\ entry'[c].role = entry[c].role
  /\ entry'[c].team = entry[c].team /\ entry'[c].price = entry[c].price
  /\ entry'[c].unsold = entry[c].unsold

(* The captain pays what the row costs the team, or gets back what it did; no     *)
(* other team is charged.                                                        *)
PriceMoves(r, c, u) ==
  /\ \A v \in User : v # u => PaidFor(r, v)' = PaidFor(r, v)
  /\ entry'[c].points = entry[c].points - (PaidFor(r, u)' - PaidFor(r, u))

(* Row r is sold to captain u for amt, goes back to nobody with a refund, or is   *)
(* assigned by hand for nothing.                                                  *)
SoldTo(r, c, u, amt) ==
  /\ RowsMove(r, c, u) /\ PriceMoves(r, c, u) /\ entry' \in [Row -> Entry \cup {None}]
  /\ entry[r].team = None /\ entry'[r].team = u
  /\ entry'[r].price = amt /\ ~ entry'[r].unsold
  /\ entry'[c].points = entry[c].points - amt

Released(r, c, u) ==
  /\ RowsMove(r, c, u) /\ PriceMoves(r, c, u) /\ entry' \in [Row -> Entry \cup {None}]
  /\ entry[r].team = u /\ entry'[r].team = None
  /\ entry'[r].price = 0 /\ ~ entry'[r].unsold
  /\ entry'[c].points = entry[c].points + entry[r].price

Given(r, c, u) ==
  /\ RowsMove(r, c, u) /\ PriceMoves(r, c, u) /\ entry' \in [Row -> Entry \cup {None}]
  /\ entry[r].team = None /\ entry'[r].team = u
  /\ entry'[r].price = 0 /\ entry'[r].unsold
  /\ entry'[c] = entry[c]

(* The two rows.                                                                  *)
LEMMA MovedRows ==
  ASSUME AuctionTypeOK, RosterKept, NEW r \in Row, NEW c \in Row, NEW u, RowsMove(r, c, u)
  PROVE  /\ entry[r] # None /\ entry[r] \in Entry
         /\ entry[r].user = Enrolled[r].user /\ entry[r].role = "PLAYER"
         /\ entry[c] # None /\ entry[c] \in Entry
         /\ entry[c].user = u /\ entry[c].role = "CAPTAIN"
  BY EntryType DEF RosterKept, RowsMove, IsRow

(* Rows keep their users and roles when one changes hands.                        *)
LEMMA MoveKeepsRoster ==
  ASSUME RosterKept, NEW r \in Row, NEW c \in Row, NEW u, RowsMove(r, c, u)
  PROVE  RosterKept' /\ Captains' = Captains /\ Players' = Players
  <1>1. /\ entry[r] # None /\ entry[c] # None
        /\ entry[r].role = "PLAYER" /\ entry[c].role = "CAPTAIN" /\ entry[c].user = u
    BY DEF RosterKept, RowsMove, IsRow
  <1>2. \A q \in Row : /\ (entry'[q] = None) <=> (entry[q] = None)
                       /\ entry[q] # None => /\ entry'[q].user = entry[q].user
                                             /\ entry'[q].role = entry[q].role
    <2> TAKE q \in Row
    <2>1. CASE q = r
      BY <1>1, <2>1 DEF RowsMove
    <2>2. CASE q = c
      BY <1>1, <2>2 DEF RowsMove
    <2>3. CASE q \notin {r, c}
      BY <2>3 DEF RowsMove
    <2> QED BY <2>1, <2>2, <2>3
  <1>3. RosterKept'
    BY <1>2 DEF RosterKept
  <1> QED BY <1>2, <1>3 DEF Captains, Players

(* Then the purses still balance.                                                 *)
LEMMA MoveKeepsBudget ==
  ASSUME OrderlyEnrolled, RosterKept, AuctionTypeOK, AuctionTypeOK', TeamBudget,
         auction'.start = auction.start,
         NEW r \in Row, NEW c \in Row, NEW u, RowsMove(r, c, u), PriceMoves(r, c, u)
  PROVE  TeamBudget'
  <1>1. /\ entry[r] # None /\ entry[c] # None
        /\ entry[r].role = "PLAYER" /\ entry[c].role = "CAPTAIN" /\ entry[c].user = u
    BY DEF RosterKept, RowsMove, IsRow
  <1>2. Captains' = Captains /\ Players' = Players
    BY MoveKeepsRoster
  <1> SUFFICES ASSUME NEW d \in Captains
               PROVE  (entry[d].points + PaidBy(entry[d].user) = auction.start)'
    BY <1>2 DEF TeamBudget
  <1>3. d \in Row /\ entry[d] # None /\ entry[d].role = "CAPTAIN" /\ d # r
    BY <1>1 DEF Captains
  <1> PICK v \in User : v = entry[d].user
    BY <1>3, EntryType
  <1>4. entry'[d].user = v /\ entry[d].points \in Int
    <2>1. CASE d = c
      BY <1>3, <2>1, EntryType DEF RowsMove
    <2>2. CASE d # c
      BY <1>3, <2>2, EntryType DEF RowsMove
    <2> QED BY <2>1, <2>2
  <1>5. entry[d].points + PaidBy(v) = auction.start
    BY DEF TeamBudget
  <1>6. \A q \in Row \ {r} : PaidFor(q, v)' = PaidFor(q, v)
    <2> TAKE q \in Row \ {r}
    <2>1. CASE q = c
      BY <1>1, <1>2, <2>1 DEF PaidFor, Players
    <2>2. CASE q # c
      <3>1. entry'[q] = entry[q]
        BY <2>2 DEF RowsMove
      <3> QED BY <1>2, <3>1 DEF PaidFor
    <2> QED BY <2>1, <2>2
  <1>7. PaidBy(v) \in Int /\ PaidBy(v)' = PaidBy(v) + (PaidFor(r, v)' - PaidFor(r, v))
    BY <1>6, PaidByUpdate
  <1>8. PaidFor(r, v) \in Int /\ PaidFor(r, v)' \in Int
    <2>1. PaidFor(r, v) \in Int
      BY PaidForType
    <2>2. PaidFor(r, v)' \in Int
      BY DEF AuctionTypeOK, Entry, PaidFor, Players
    <2> QED BY <2>1, <2>2
  <1>9. entry'[d].points = entry[d].points - (PaidFor(r, v)' - PaidFor(r, v))
    <2>1. CASE v = u
      <3>1. d = c
        BY <1>1, <1>3, <2>1 DEF OrderlyEnrolled, RosterKept
      <3> QED BY <2>1, <3>1 DEF PriceMoves
    <2>2. CASE v # u
      <3>1. d # c
        BY <1>1, <2>2
      <3>2. entry'[d] = entry[d] /\ PaidFor(r, v)' = PaidFor(r, v)
        BY <1>3, <1>4, <2>2, <3>1 DEF RowsMove, PriceMoves
      <3> QED BY <1>4, <1>8, <3>2
    <2> QED BY <2>1, <2>2
  <1> QED BY <1>4, <1>5, <1>7, <1>8, <1>9

(* What TeamsMakeSense says of one row.                                           *)
RowMakesSense(e) ==
  /\ e.price >= 0
  /\ e.unsold => e.price = 0
  /\ e.team = None => e.price = 0 /\ ~ e.unsold
  /\ e.team # None => e.role = "PLAYER" /\ HasRow(e.team, "CAPTAIN")

(* When one row changes hands, the invariant is kept if that row still makes      *)
(* sense and the bids and the player under the hammer do.                         *)
LEMMA MoveKeepsInv ==
  ASSUME OrderlyEnrolled, AuctionInv, AuctionTypeOK', auction'.start = auction.start,
         NEW r \in Row, NEW c \in Row, NEW u, RowsMove(r, c, u), PriceMoves(r, c, u),
         RowMakesSense(entry'[r]),
         BiddersAreCaptains', CurrentIsPlayer', AssigningHasNoCurrent',
         BidsCovered', UnderHammerIsFree'
  PROVE  AuctionInv'
  <1>1. RosterKept' /\ StartKept'
    BY MoveKeepsRoster DEF AuctionInv, StartKept
  <1>2. TeamBudget'
    BY MoveKeepsBudget DEF AuctionInv
  <1>3. TeamsMakeSense'
    <2>1. \A q \in Row : entry[q] # None => RowMakesSense(entry[q])
      BY DEF AuctionInv, TeamsMakeSense, RowMakesSense
    <2>2. \A q \in Row : entry'[q] # None => RowMakesSense(entry'[q])
      <3> TAKE q \in Row
      <3>1. CASE q = r
        BY <3>1
      <3>2. CASE q = c
        <4>1. entry[c] # None /\ RowMakesSense(entry[c])
          BY <2>1 DEF AuctionInv, RosterKept, RowsMove, IsRow
        <4> QED BY <3>2, <4>1 DEF RowsMove, RowMakesSense
      <3>3. CASE q \notin {r, c}
        BY <2>1, <3>3 DEF RowsMove
      <3> QED BY <3>1, <3>2, <3>3
    <2> QED BY <2>2 DEF TeamsMakeSense, RowMakesSense, HasRow, IsRow
  <1> QED BY <1>1, <1>2, <1>3 DEF AuctionInv

-----------------------------------------------------------------------------
(* Sales.                                                                         *)

(* The highest bidder for the current player is a captain, who is charged in the   *)
(* one row of the captain for the one row of the player.                          *)
LEMMA SaleRows ==
  ASSUME OrderlyEnrolled, AuctionInv, auction.current # None,
         NEW u \in HighestBidders(auction.current), SellCurrent(u)
  PROVE  \E r, c \in Row :
           /\ r # c /\ IsRow(r, auction.current, "PLAYER") /\ IsRow(c, u, "CAPTAIN")
           /\ entry[r].team = None
           /\ entry' = Sold(r, c, u, bid[u][auction.current])
           /\ bid' = NoBidsFor(auction.current)
  <1>1. auction.current \in User /\ u \in User /\ bid[u][auction.current] > 0
    BY DEF AuctionInv, AuctionTypeOK, AuctionRow, HighestBidders
  <1>2. PICK r \in Row : IsRow(r, auction.current, "PLAYER")
    BY DEF AuctionInv, CurrentIsPlayer, HasRow
  <1>3. PICK c \in Row : IsRow(c, u, "CAPTAIN")
    BY <1>1 DEF AuctionInv, BiddersAreCaptains, HasRow
  <1>4. r # c
    BY <1>2, <1>3 DEF IsRow
  <1>5. OneOf(Find(auction.current)) = {r} /\ OneOf(Find(u)) = {c}
    <2>1. Find(auction.current) = {r}
      BY <1>2, OneRow DEF AuctionInv
    <2>2. Find(u) = {c}
      BY <1>3, OneRow DEF AuctionInv
    <2> QED BY <2>1, <2>2 DEF OneOf
  <1>6. /\ r # None => Unassigned(r)
        /\ entry' = Sold(r, c, u, bid[u][auction.current])
        /\ bid' = NoBidsFor(auction.current)
    BY <1>5 DEF SellCurrent
  <1>7. r # None
    BY NoneAssumption
  <1> QED BY <1>2, <1>3, <1>4, <1>6, <1>7 DEF Unassigned

(* An entry stays one when the fields a sale changes are changed.                 *)
LEMMA EntryChanges ==
  ASSUME NEW e \in Entry, NEW u \in User \cup {None}, NEW n \in Int, NEW b \in BOOLEAN
  PROVE  /\ [e EXCEPT !.team = u, !.price = n] \in Entry
         /\ [e EXCEPT !.team = u, !.price = n, !.unsold = b] \in Entry
         /\ [e EXCEPT !.points = @ - n] \in Entry
  <1>1. [e EXCEPT !.team = u, !.price = n] \in Entry
    BY DEF Entry
  <1>2. e.points - n \in Int
    BY DEF Entry
  <1>3. [e EXCEPT !.points = @ - n] \in Entry
    BY <1>2 DEF Entry
  <1>4. [e EXCEPT !.team = u, !.price = n, !.unsold = b] \in Entry
    BY DEF Entry
  <1> QED BY <1>1, <1>3, <1>4

(* Player t, in row r, is sold to captain u, in row c, for amt.                    *)
IsSale(r, c, t, u, amt) ==
  /\ r # c /\ IsRow(r, t, "PLAYER") /\ IsRow(c, u, "CAPTAIN")
  /\ entry[r].team = None /\ entry[r].price = 0
  /\ entry' = Sold(r, c, u, amt)

(* The two rows of a sale.                                                        *)
LEMMA SoldRows ==
  ASSUME AuctionTypeOK, RosterKept, NEW r \in Row, NEW c \in Row,
         NEW t \in User, NEW u \in User, NEW amt \in Int, IsSale(r, c, t, u, amt)
  PROVE  /\ RowsMove(r, c, u) /\ PriceMoves(r, c, u)
         /\ entry' \in [Row -> Entry \cup {None}]
         /\ entry'[r].team = u /\ entry'[r].price = amt
         /\ entry'[r].unsold = entry[r].unsold
         /\ entry'[c].points = entry[c].points - amt
  <1>1. /\ entry[r] \in Entry /\ entry[c] \in Entry
        /\ entry[r].user = t /\ entry[r].role = "PLAYER"
        /\ entry[c].user = u /\ entry[c].role = "CAPTAIN"
    BY EntryType DEF RosterKept, IsRow, IsSale
  <1>2. /\ entry'[r] = [entry[r] EXCEPT !.team = u, !.price = amt]
        /\ entry'[c] = [entry[c] EXCEPT !.points = @ - amt]
        /\ \A q \in Row \ {r, c} : entry'[q] = entry[q]
    <2>1. entry'[r] = [entry[r] EXCEPT !.team = u, !.price = amt]
      BY Zenon DEF IsSale, Sold
    <2>2. entry'[c] = [entry[c] EXCEPT !.points = @ - amt]
      BY Zenon DEF IsSale, Sold
    <2>3. \A q \in Row \ {r, c} : entry'[q] = entry[q]
      BY Zenon DEF IsSale, Sold
    <2> QED BY <2>1, <2>2, <2>3
  <1>3. entry'[r] \in Entry /\ entry'[c] \in Entry
    <2>1. [entry[r] EXCEPT !.team = u, !.price = amt] \in Entry
      <3>1. u \in User \cup {None}
        OBVIOUS
      <3> QED BY <1>1, <3>1, EntryChanges, Zenon
    <2>2. [entry[c] EXCEPT !.points = @ - amt] \in Entry
      <3>1. u \in User \cup {None}
        OBVIOUS
      <3> QED BY <1>1, <3>1, EntryChanges, Zenon
    <2> QED BY <1>2, <2>1, <2>2, Zenon
  <1>4. entry' \in [Row -> Entry \cup {None}]
    <2>1. \A q \in Row : entry'[q] \in Entry \cup {None}
      <3> TAKE q \in Row
      <3>1. CASE q \in {r, c}
        BY <1>3, <3>1
      <3>2. CASE q \notin {r, c}
        BY <1>2, <3>2 DEF AuctionTypeOK
      <3> QED BY <3>1, <3>2
    <2>2. entry' = [q \in Row |-> entry'[q]]
      BY DEF IsSale, Sold
    <2> QED BY <2>1, <2>2
  <1>5. /\ entry'[r].user = t /\ entry'[r].role = "PLAYER" /\ entry'[r].team = u
        /\ entry'[r].price = amt /\ entry'[r].unsold = entry[r].unsold
        /\ entry'[c].user = u /\ entry'[c].role = "CAPTAIN"
        /\ entry'[c].team = entry[c].team /\ entry'[c].price = entry[c].price
        /\ entry'[c].unsold = entry[c].unsold
        /\ entry'[c].points = entry[c].points - amt
    BY <1>1, <1>2 DEF Entry
  <1>6. RowsMove(r, c, u)
    BY <1>1, <1>2, <1>3, <1>5, NoneAssumption DEF RowsMove, IsRow, IsSale
  <1>7. PriceMoves(r, c, u)
    <2>1. u # None
      BY NoneAssumption
    <2>2. r \in Players'
      BY <1>3, <1>5, NoneAssumption DEF Players
    <2>3. \A v : PaidFor(r, v) = 0
      BY <2>1 DEF PaidFor, IsSale
    <2>4. PaidFor(r, u)' = amt
      BY <1>5, <2>2 DEF PaidFor
    <2>5. \A v \in User : v # u => PaidFor(r, v)' = 0
      BY <1>5 DEF PaidFor
    <2> QED BY <1>5, <2>3, <2>4, <2>5 DEF PriceMoves
  <1> QED BY <1>5, <1>4, <1>6, <1>7

(* The current player is sold to the highest bidder.                               *)
LEMMA SaleIsMove ==
  ASSUME OrderlyEnrolled, AuctionInv, auction.current # None,
         NEW u \in HighestBidders(auction.current), SellCurrent(u)
  PROVE  /\ u \in User /\ bid' = NoBidsFor(auction.current)
         /\ \E r, c \in Row : /\ Enrolled[r].user = auction.current
                             /\ SoldTo(r, c, u, bid[u][auction.current])
  <1> PICK t \in User : t = auction.current
    BY DEF AuctionInv, AuctionTypeOK, AuctionRow
  <1>1. PICK r \in Row, c \in Row :
           /\ r # c /\ IsRow(r, t, "PLAYER") /\ IsRow(c, u, "CAPTAIN")
           /\ entry[r].team = None
           /\ entry' = Sold(r, c, u, bid[u][t])
           /\ bid' = NoBidsFor(t)
    BY SaleRows
  <1>2. u \in User /\ bid[u][t] \in Int
    BY DEF HighestBidders, AuctionInv, AuctionTypeOK
  <1>3. AuctionTypeOK /\ RosterKept
    BY DEF AuctionInv
  <1>4. entry[r].price = 0 /\ ~ entry[r].unsold
    BY <1>1 DEF AuctionInv, RosterKept, IsRow, TeamsMakeSense
  <1> PICK amt \in Int : amt = bid[u][t]
    BY <1>2
  <1>5. IsSale(r, c, t, u, amt)
    BY <1>1, <1>4 DEF IsSale
  <1>6. /\ RowsMove(r, c, u) /\ PriceMoves(r, c, u)
        /\ entry' \in [Row -> Entry \cup {None}]
        /\ entry'[r].team = u /\ entry'[r].price = amt
        /\ entry'[r].unsold = entry[r].unsold
        /\ entry'[c].points = entry[c].points - amt
    BY <1>2, <1>3, <1>5, SoldRows
  <1>7. SoldTo(r, c, u, amt) /\ Enrolled[r].user = t
    BY <1>1, <1>4, <1>6 DEF SoldTo, IsRow
  <1>8. SoldTo(r, c, u, bid[u][t])
    BY <1>7
  <1> QED BY <1>1, <1>2, <1>7, <1>8

(* A sale keeps the invariant: the captain who pays amt no longer owes it.         *)
LEMMA SaleKeepsInv ==
  ASSUME OrderlyEnrolled, AuctionInv, auction.current # None,
         NEW u \in HighestBidders(auction.current), SellCurrent(u),
         auction' \in AuctionRow, auction'.start = auction.start,
         CurrentIsPlayer', AssigningHasNoCurrent', UnderHammerIsFree'
  PROVE  AuctionInv'
  <1> PICK t \in User : t = auction.current
    BY DEF AuctionInv, AuctionTypeOK, AuctionRow
  <1>1. PICK r \in Row, c \in Row : SoldTo(r, c, u, bid[u][t])
    BY SaleIsMove
  <1>2. u \in User /\ bid[u][t] \in Int /\ bid[u][t] > 0 /\ bid' = NoBidsFor(t)
    BY SaleIsMove DEF HighestBidders, AuctionInv, AuctionTypeOK
  <1>3. AuctionTypeOK /\ RosterKept /\ BidsCovered
    BY DEF AuctionInv
  <1>4. /\ RowsMove(r, c, u) /\ PriceMoves(r, c, u)
        /\ entry' \in [Row -> Entry \cup {None}]
        /\ entry'[r].team = u /\ entry'[r].price = bid[u][t] /\ ~ entry'[r].unsold
        /\ entry'[c].points = entry[c].points - bid[u][t]
    BY <1>1 DEF SoldTo
  <1>5. /\ entry[r] # None /\ entry[r].role = "PLAYER"
        /\ entry[c] # None /\ entry[c].role = "CAPTAIN" /\ entry[c].user = u
    BY <1>3, <1>4, MovedRows
  <1>6. /\ BidsAreNumbers' /\ BiddersAreCaptains'
        /\ \A v \in User : Committed(v) \in Int /\ Committed(v)' = Committed(v) - bid[v][t]
    BY <1>2, BidsDropped DEF AuctionInv
  <1>7. AuctionTypeOK'
    BY <1>4, <1>6 DEF AuctionTypeOK, BidsAreNumbers
  <1>8. RowMakesSense(entry'[r])
    <2>1. /\ entry'[r].team = u /\ entry'[r].price = bid[u][t]
          /\ entry'[r].role = "PLAYER" /\ ~ entry'[r].unsold
      BY <1>5, <1>4 DEF RowsMove
    <2>2. HasRow(u, "CAPTAIN")
      BY <1>4 DEF RowsMove, HasRow
    <2> QED BY <1>2, <2>1, <2>2, NoneAssumption DEF RowMakesSense
  <1>9. BidsCovered'
    <2>1. Captains' = Captains
      BY <1>3, <1>4, MoveKeepsRoster
    <2> SUFFICES ASSUME NEW d \in Captains
                 PROVE  (Committed(entry[d].user) <= entry[d].points)'
      BY <2>1 DEF BidsCovered
    <2>2. d \in Row /\ entry[d] # None /\ entry[d].role = "CAPTAIN"
      BY DEF Captains
    <2> PICK v \in User : v = entry[d].user
      BY <1>3, <2>2, EntryType
    <2>3. Committed(v) <= entry[d].points /\ entry[d].points \in Int /\ bid[v][t] \in Nat
      BY <1>3, <2>2, EntryType DEF BidsCovered, AuctionTypeOK
    <2>4. Committed(v) \in Int /\ Committed(v)' = Committed(v) - bid[v][t]
      BY <1>6
    <2>5. CASE d = c
      <3>1. v = u /\ entry'[d].user = v
        BY <1>5, <1>4, <2>5 DEF RowsMove
      <3>2. entry'[d].points = entry[d].points - bid[u][t]
        BY <1>4, <2>5
      <3> QED BY <1>2, <2>3, <2>4, <3>1, <3>2
    <2>6. CASE d # c
      <3>1. entry'[d] = entry[d]
        BY <1>5, <1>4, <2>2, <2>6 DEF RowsMove
      <3>2. Committed(v)' <= entry[d].points
        BY <2>3, <2>4
      <3> QED BY <3>1, <3>2
    <2> QED BY <2>5, <2>6
  <1> QED BY <1>4, <1>6, <1>7, <1>8, <1>9, MoveKeepsInv

(* The end of the bidding: a sale, or nobody has bid.                              *)
LEMMA SalesKeepInv ==
  ASSUME OrderlyEnrolled, AuctionInv, ConfirmCurrentBid \/ AutoConfirmOnTimeout
  PROVE  AuctionInv'
  <1>1. auction \in AuctionRow /\ auction.current # None
    BY DEF AuctionInv, AuctionTypeOK, ConfirmCurrentBid, AutoConfirmOnTimeout, Confirmable
  <1>2. CASE ConfirmCurrentBid
    <2>1. auction' = [auction EXCEPT !.phase = "SOLD", !.left = None]
      BY <1>2 DEF ConfirmCurrentBid
    <2>2. /\ auction' \in AuctionRow /\ auction'.start = auction.start
          /\ auction'.current = auction.current /\ auction'.status = auction.status
          /\ auction'.phase = "SOLD"
      BY <1>1, <2>1 DEF AuctionRow, BiddingPhase
    <2>3. CurrentIsPlayer' /\ AssigningHasNoCurrent' /\ UnderHammerIsFree'
      BY <2>2 DEF AuctionInv, CurrentIsPlayer, AssigningHasNoCurrent, UnderHammerIsFree,
           HasRow, IsRow
    <2> QED BY <1>1, <1>2, <2>2, <2>3, SaleKeepsInv DEF ConfirmCurrentBid
  <1>3. CASE AutoConfirmOnTimeout
    <2>1. auction' = [auction EXCEPT !.current = None, !.left = None]
      BY <1>3 DEF AutoConfirmOnTimeout
    <2>2. /\ auction' \in AuctionRow /\ auction'.start = auction.start
          /\ auction'.current = None
      BY <1>1, <2>1 DEF AuctionRow
    <2>3. CurrentIsPlayer' /\ AssigningHasNoCurrent' /\ UnderHammerIsFree'
      BY <2>2 DEF CurrentIsPlayer, AssigningHasNoCurrent, UnderHammerIsFree
    <2>4. CASE \E u \in HighestBidders(auction.current) : SellCurrent(u)
      BY <1>1, <2>2, <2>3, <2>4, SaleKeepsInv
    <2>5. CASE UNCHANGED <<entry, bid>>
      BY <2>2, <2>3, <2>5, RowStep
    <2> QED BY <1>3, <2>4, <2>5 DEF AutoConfirmOnTimeout
  <1> QED BY <1>2, <1>3

-----------------------------------------------------------------------------
(* Bids, resets and what the master assigns or takes back.                         *)

(* A step that changes no row of the participants.                                 *)
LEMMA BidStep ==
  ASSUME AuctionInv, entry' = entry, auction' \in AuctionRow, auction'.start = auction.start,
         BidsAreNumbers', BiddersAreCaptains', BidsCovered',
         CurrentIsPlayer', AssigningHasNoCurrent', UnderHammerIsFree'
  PROVE  AuctionInv'
  <1>1. AuctionTypeOK' /\ RosterKept' /\ StartKept' /\ TeamsMakeSense'
    BY DEF AuctionInv, AuctionTypeOK, BidsAreNumbers, RosterKept, StartKept, TeamsMakeSense,
           HasRow, IsRow
  <1>2. TeamBudget'
    BY DEF AuctionInv, TeamBudget, Captains, Players, PaidBy
  <1> QED BY <1>1, <1>2 DEF AuctionInv

(* A bid is covered by what the captain has and has not promised elsewhere.         *)
LEMMA PlaceBidKeepsInv ==
  ASSUME OrderlyEnrolled, AuctionInv,
         NEW u \in User, NEW t \in User, NEW amt \in BidAmount, PlaceBid(u, t, amt)
  PROVE  AuctionInv'
  <1>1. AuctionTypeOK /\ RosterKept /\ BiddersAreCaptains /\ BidsCovered
    BY DEF AuctionInv
  <1>2. /\ IsOngoing /\ auction.current = t /\ amt > HighestBid(t)
        /\ bid' = [bid EXCEPT ![u][t] = amt]
        /\ auction' = [auction EXCEPT !.left = Turn] /\ entry' = entry
    BY DEF PlaceBid
  <1>3. PICK r \in Find(u) : entry[r].role = "CAPTAIN" /\ Affordable(r, t, amt)
    BY DEF PlaceBid
  <1>4. /\ r \in Row /\ entry[r] # None /\ entry[r].user = u /\ IsRow(r, u, "CAPTAIN")
        /\ entry[r].points \in Int /\ OtherBidsTotal(u, t) + amt <= entry[r].points
    <2>1. r \in Row /\ entry[r] # None /\ entry[r].user = u
      BY <1>3 DEF Find
    <2>2. entry[r].points \in Int /\ OtherBidsTotal(u, t) \in Int /\ amt \in Int
      BY <1>1, <2>1, EntryType, CommittedSplits, BidAmountAssumption
    <2>3. entry[r].points >= OtherBidsTotal(u, t) + amt
      BY <1>3, <2>1 DEF Affordable
    <2> QED BY <1>1, <1>3, <2>1, <2>2, <2>3 DEF RosterKept, IsRow
  <1>5. amt \in Nat /\ bid[u][t] \in Nat
    <2>1. HighestBid(t) \in Nat /\ amt \in Int
      BY <1>1, HighestBidType, BidAmountAssumption
    <2> QED BY <1>1, <1>2, <2>1 DEF AuctionTypeOK
  <1>6. \A v, x \in User : bid'[v][x] = IF v = u /\ x = t THEN amt ELSE bid[v][x]
    BY <1>1, <1>2 DEF AuctionTypeOK
  <1>7. BidsAreNumbers'
    BY <1>1, <1>2, <1>5 DEF AuctionTypeOK, BidsAreNumbers
  <1>8. BiddersAreCaptains'
    <2>1. HasRow(u, "CAPTAIN")
      BY <1>4 DEF HasRow
    <2> QED BY <1>1, <1>6, <2>1 DEF BiddersAreCaptains, HasRow, IsRow
  <1>9. BidsCovered'
    <2>1. Captains' = Captains
      BY <1>2 DEF Captains
    <2> SUFFICES ASSUME NEW d \in Captains
                 PROVE  (Committed(entry[d].user) <= entry[d].points)'
      BY <2>1 DEF BidsCovered
    <2>2. d \in Row /\ entry[d] # None /\ entry[d].role = "CAPTAIN"
      BY DEF Captains
    <2> PICK v \in User : v = entry[d].user
      BY <1>1, <2>2, EntryType
    <2>3. CASE v = u
      <3>1. d = r
        BY <1>1, <1>4, <2>2, <2>3 DEF OrderlyEnrolled, RosterKept, IsRow
      <3>2. \A x \in User \ {t} : bid'[u][x] = bid[u][x]
        BY <1>6
      <3>3. Committed(u)' = Committed(u) + (bid'[u][t] - bid[u][t])
        BY <1>1, <1>7, <3>2, CommittedUpdate
      <3>4. /\ Committed(u) = bid[u][t] + OtherBidsTotal(u, t)
            /\ Committed(u) \in Int /\ OtherBidsTotal(u, t) \in Int
        BY <1>1, CommittedSplits
      <3>5. bid'[u][t] = amt
        BY <1>6
      <3>6. Committed(u)' <= entry[r].points
        BY <1>4, <1>5, <3>3, <3>4, <3>5
      <3> QED BY <1>2, <2>3, <3>1, <3>6
    <2>4. CASE v # u
      <3>1. bid'[v] = bid[v]
        BY <1>1, <1>2, <2>4 DEF AuctionTypeOK
      <3>2. Committed(v)' = Committed(v)
        BY <3>1 DEF Committed
      <3> QED BY <1>1, <1>2, <3>2 DEF BidsCovered
    <2> QED BY <2>3, <2>4
  <1>10. /\ auction' \in AuctionRow /\ auction'.start = auction.start
         /\ auction'.current = auction.current /\ auction'.phase = auction.phase
         /\ auction'.status = auction.status
    <2>1. Turn \in 0..Turn
      BY SettingsAssumption
    <2> QED BY <1>1, <1>2, <2>1 DEF AuctionTypeOK, AuctionRow
  <1>11. CurrentIsPlayer' /\ AssigningHasNoCurrent' /\ UnderHammerIsFree'
    BY <1>2, <1>10 DEF AuctionInv, CurrentIsPlayer, AssigningHasNoCurrent, UnderHammerIsFree,
         HasRow, IsRow, Find, Unassigned
  <1> QED BY <1>2, <1>7, <1>8, <1>9, <1>10, <1>11, BidStep

(* Passing drops the bids for the player.                                          *)
LEMMA PassKeepsInv ==
  ASSUME OrderlyEnrolled, AuctionInv, PassCurrentPlayer
  PROVE  AuctionInv'
  <1>1. AuctionTypeOK /\ BidsCovered
    BY DEF AuctionInv
  <1> PICK t \in User : t = auction.current
    BY <1>1 DEF AuctionTypeOK, AuctionRow, PassCurrentPlayer
  <1>2. /\ bid' = NoBidsFor(t) /\ entry' = entry
        /\ auction' = [auction EXCEPT !.current = None, !.left = None]
    BY DEF PassCurrentPlayer
  <1>3. /\ BidsAreNumbers' /\ BiddersAreCaptains'
        /\ \A v \in User : Committed(v) \in Int /\ Committed(v)' = Committed(v) - bid[v][t]
    BY <1>2, BidsDropped DEF AuctionInv
  <1>4. BidsCovered'
    <2>1. Captains' = Captains
      BY <1>2 DEF Captains
    <2> SUFFICES ASSUME NEW d \in Captains
                 PROVE  (Committed(entry[d].user) <= entry[d].points)'
      BY <2>1 DEF BidsCovered
    <2>2. d \in Row /\ entry[d] # None
      BY DEF Captains
    <2> PICK v \in User : v = entry[d].user
      BY <1>1, <2>2, EntryType
    <2>3. Committed(v) <= entry[d].points /\ entry[d].points \in Int /\ bid[v][t] \in Nat
      BY <1>1, <2>2, EntryType DEF BidsCovered, AuctionTypeOK
    <2>4. Committed(v)' <= entry[d].points
      BY <1>3, <2>3
    <2> QED BY <1>2, <2>4
  <1>5. auction' \in AuctionRow /\ auction'.start = auction.start /\ auction'.current = None
    BY <1>1, <1>2 DEF AuctionTypeOK, AuctionRow
  <1>6. CurrentIsPlayer' /\ AssigningHasNoCurrent' /\ UnderHammerIsFree'
    BY <1>5 DEF CurrentIsPlayer, AssigningHasNoCurrent, UnderHammerIsFree
  <1> QED BY <1>2, <1>3, <1>4, <1>5, <1>6, BidStep

(* Whoever has not less than before can pay the same bids.                          *)
LEMMA RicherCovers ==
  ASSUME AuctionTypeOK, BidsCovered, bid' = bid, Captains' = Captains,
         \A d \in Captains : /\ entry'[d].user = entry[d].user
                             /\ entry'[d].points \in Int
                             /\ entry'[d].points >= entry[d].points
  PROVE  BidsCovered'
  <1> SUFFICES ASSUME NEW d \in Captains
               PROVE  (Committed(entry[d].user) <= entry[d].points)'
    BY DEF BidsCovered
  <1>1. d \in Row /\ entry[d] # None
    BY DEF Captains
  <1> PICK v \in User : v = entry[d].user
    BY <1>1, EntryType
  <1>2. Committed(v)' = Committed(v) /\ Committed(v) \in Int
    BY CommittedSplits DEF Committed
  <1>3. Committed(v) <= entry[d].points /\ entry[d].points \in Int
    BY <1>1, EntryType DEF BidsCovered
  <1>4. Committed(v)' <= entry'[d].points
    BY <1>2, <1>3
  <1> QED BY <1>4

(* A player who is taken back leaves the one row of the captain refunded.            *)
LEMMA UndoIsMove ==
  ASSUME OrderlyEnrolled, AuctionInv, NEW p \in User, UndoSoldPlayer(p)
  PROVE  \E r, c \in Row, w \in User : Released(r, c, w)
  <1>1. AuctionTypeOK /\ RosterKept /\ TeamsMakeSense
    BY DEF AuctionInv
  <1> DEFINE Back(q, r, c) ==
        CASE q = r -> [entry[q] EXCEPT !.team = None, !.price = 0, !.unsold = FALSE]
          [] q = c /\ q # r -> [entry[q] EXCEPT !.points = @ + RefundOf(r)]
          [] OTHER -> entry[q]
  <1>2. PICK r \in FindRole(p, "PLAYER") :
          /\ ~ Unassigned(r)
          /\ \E c \in OneOf(Find(entry[r].team)) : entry' = [q \in Row |-> Back(q, r, c)]
    BY DEF UndoSoldPlayer
  <1>3. /\ r \in Row /\ entry[r] # None /\ entry[r].user = p /\ entry[r].role = "PLAYER"
        /\ entry[r].team # None /\ entry[r] \in Entry
    BY <1>1, <1>2, EntryType DEF FindRole, Find, Unassigned
  <1> PICK w \in User : w = entry[r].team
    BY <1>3 DEF Entry
  <1>4. PICK c \in Row : IsRow(c, w, "CAPTAIN")
    BY <1>1, <1>3 DEF TeamsMakeSense, HasRow
  <1>5. /\ Find(w) = {c} /\ entry[c] # None /\ entry[c].user = w
        /\ entry[c].role = "CAPTAIN" /\ r # c /\ entry[c] \in Entry
    <2>1. Find(w) = {c} /\ entry[c] # None /\ entry[c].user = w /\ entry[c].role = "CAPTAIN"
      BY <1>1, <1>4, OneRow
    <2> QED BY <1>1, <1>3, <2>1, EntryType
  <1>6. entry' = [q \in Row |-> Back(q, r, c)]
    BY <1>2, <1>5 DEF OneOf
  <1>7. RefundOf(r) = entry[r].price /\ entry[r].price \in Int /\ entry[r].price >= 0
    BY <1>1, <1>3 DEF RefundOf, TeamsMakeSense, Entry
  <1>8. /\ entry'[r] = [entry[r] EXCEPT !.team = None, !.price = 0, !.unsold = FALSE]
        /\ entry'[c] = [entry[c] EXCEPT !.points = @ + RefundOf(r)]
        /\ \A q \in Row \ {r, c} : entry'[q] = entry[q]
    <2>1. entry'[r] = [entry[r] EXCEPT !.team = None, !.price = 0, !.unsold = FALSE]
      BY <1>3, <1>6, Zenon
    <2>2. entry'[c] = [entry[c] EXCEPT !.points = @ + RefundOf(r)]
      BY <1>5, <1>6, Zenon
    <2>3. \A q \in Row \ {r, c} : entry'[q] = entry[q]
      BY <1>6, Zenon
    <2> QED BY <2>1, <2>2, <2>3
  <1> HIDE DEF Back
  <1>9. entry'[r] \in Entry /\ entry'[c] \in Entry
    <2>1. entry'[r] \in Entry
      <3>1. [entry[r] EXCEPT !.team = None, !.price = 0, !.unsold = FALSE] \in Entry
        <4>1. entry[r] \in Entry /\ None \in User \cup {None} /\ 0 \in Int /\ FALSE \in BOOLEAN
          BY <1>3
        <4> QED BY <4>1, EntryChanges, Zenon
      <3> QED BY <1>8, <3>1, Zenon
    <2>2. entry[c].points + RefundOf(r) \in Int
      BY <1>5, <1>7 DEF Entry
    <2>3. entry'[c] \in Entry
      BY <1>5, <1>8, <2>2 DEF Entry
    <2> QED BY <2>1, <2>3
  <1>10. /\ entry'[r].user = p /\ entry'[r].role = "PLAYER" /\ entry'[r].team = None
         /\ entry'[r].price = 0 /\ ~ entry'[r].unsold
         /\ entry'[c].user = w /\ entry'[c].role = "CAPTAIN"
         /\ entry'[c].team = entry[c].team /\ entry'[c].price = entry[c].price
         /\ entry'[c].unsold = entry[c].unsold
         /\ entry'[c].points = entry[c].points + entry[r].price
    BY <1>3, <1>5, <1>7, <1>8 DEF Entry
  <1>11. RowsMove(r, c, w)
    BY <1>1, <1>3, <1>4, <1>5, <1>8, <1>9, <1>10, NoneAssumption DEF RowsMove, RosterKept, IsRow
  <1>12. PriceMoves(r, c, w)
    <2>1. r \in Players
      BY <1>3 DEF Players
    <2>2. \A v \in User : PaidFor(r, v)' = 0
      BY <1>10, NoneAssumption DEF PaidFor
    <2>3. PaidFor(r, w) = entry[r].price /\ \A v \in User : v # w => PaidFor(r, v) = 0
      BY <2>1 DEF PaidFor
    <2>4. entry[c].points \in Int
      BY <1>5 DEF Entry
    <2> QED BY <1>7, <1>10, <2>2, <2>3, <2>4 DEF PriceMoves
  <1>13. entry' \in [Row -> Entry \cup {None}]
    <2>1. \A q \in Row : entry'[q] \in Entry \cup {None}
      <3> TAKE q \in Row
      <3>1. CASE q \in {r, c}
        BY <1>9, <3>1
      <3>2. CASE q \notin {r, c}
        BY <1>1, <1>8, <3>2 DEF AuctionTypeOK
      <3> QED BY <3>1, <3>2
    <2>2. entry' = [q \in Row |-> entry'[q]]
      BY <1>6
    <2> QED BY <2>1, <2>2
  <1> QED BY <1>3, <1>10, <1>11, <1>12, <1>13 DEF Released

(* Taking a player back refunds what was paid, so the bids stay covered.             *)
LEMMA UndoKeepsInv ==
  ASSUME OrderlyEnrolled, AuctionInv, NEW p \in User, UndoSoldPlayer(p)
  PROVE  AuctionInv'
  <1>1. AuctionTypeOK /\ RosterKept /\ TeamsMakeSense /\ BidsCovered
    BY DEF AuctionInv
  <1>2. PICK r \in Row, c \in Row, w \in User : Released(r, c, w)
    BY UndoIsMove
  <1>3. /\ RowsMove(r, c, w) /\ PriceMoves(r, c, w)
        /\ entry' \in [Row -> Entry \cup {None}]
        /\ entry'[r].team = None /\ entry'[r].price = 0 /\ ~ entry'[r].unsold
        /\ entry'[c].points = entry[c].points + entry[r].price
    BY <1>2 DEF Released
  <1>4. /\ entry[r] # None /\ entry[r] \in Entry /\ entry[r].role = "PLAYER"
        /\ entry[c] # None /\ entry[c].role = "CAPTAIN"
    BY <1>1, <1>3, MovedRows
  <1>5. entry[r].price \in Int /\ entry[r].price >= 0
    BY <1>1, <1>4 DEF TeamsMakeSense, Entry
  <1>6. auction' = auction /\ bid' = bid
    BY DEF UndoSoldPlayer
  <1>7. AuctionTypeOK'
    BY <1>1, <1>3, <1>6 DEF AuctionTypeOK
  <1>8. RowMakesSense(entry'[r])
    BY <1>3 DEF RowMakesSense
  <1>9. BidsCovered'
    <2>1. Captains' = Captains
      BY <1>1, <1>3, MoveKeepsRoster
    <2>2. ASSUME NEW d \in Captains
          PROVE  /\ entry'[d].user = entry[d].user /\ entry'[d].points \in Int
                 /\ entry'[d].points >= entry[d].points
      <3>1. d \in Row /\ entry[d].role = "CAPTAIN" /\ entry[d].points \in Int /\ d # r
        BY <1>1, <1>4, EntryType DEF Captains
      <3>2. CASE d = c
        BY <1>3, <1>5, <3>1, <3>2 DEF RowsMove
      <3>3. CASE d # c
        BY <1>3, <3>1, <3>3 DEF RowsMove
      <3> QED BY <3>2, <3>3
    <2> QED BY <1>1, <1>6, <2>1, <2>2, RicherCovers
  <1>10. BiddersAreCaptains' /\ CurrentIsPlayer' /\ AssigningHasNoCurrent'
    BY <1>6 DEF AuctionInv, BiddersAreCaptains, CurrentIsPlayer, AssigningHasNoCurrent,
         HasRow, IsRow
  <1>11. UnderHammerIsFree'
    <2> SUFFICES ASSUME auction.phase # "SOLD", auction.current # None,
                        NEW q \in Row, entry'[q] # None, entry'[q].user = auction.current
                 PROVE  entry'[q].team = None
      BY <1>6 DEF UnderHammerIsFree, Find, Unassigned
    <2>1. CASE q = r
      BY <1>3, <2>1
    <2>2. CASE q = c
      BY <1>1, <1>3, <1>4, <2>2 DEF TeamsMakeSense, RowsMove
    <2>3. CASE q \notin {r, c}
      BY <1>3, <2>3 DEF AuctionInv, UnderHammerIsFree, Find, Unassigned, RowsMove
    <2> QED BY <2>1, <2>2, <2>3
  <1> QED BY <1>3, <1>6, <1>7, <1>8, <1>9, <1>10, <1>11, MoveKeepsInv

(* A player is assigned by hand to the row of a captain.                              *)
LEMMA AssignIsMove ==
  ASSUME OrderlyEnrolled, AuctionInv, NEW p \in User, NEW w \in User, ManualAssignPlayer(p, w)
  PROVE  \E r, c \in Row : Given(r, c, w)
  <1>1. AuctionTypeOK /\ RosterKept /\ TeamsMakeSense
    BY DEF AuctionInv
  <1>2. PICK r \in FindRole(p, "PLAYER") :
          /\ Unassigned(r)
          /\ entry' = [entry EXCEPT ![r].team = w, ![r].price = 0, ![r].unsold = TRUE]
    BY DEF ManualAssignPlayer
  <1>3. /\ r \in Row /\ entry[r] # None /\ entry[r].user = p /\ entry[r].role = "PLAYER"
        /\ entry[r].team = None /\ entry[r].price = 0 /\ entry[r] \in Entry
    BY <1>1, <1>2, EntryType DEF FindRole, Find, Unassigned, TeamsMakeSense
  <1>4. PICK c \in Row : entry[c] # None /\ entry[c].user = w /\ entry[c].role = "CAPTAIN"
    BY DEF ManualAssignPlayer, FindRole, Find
  <1>5. r # c /\ IsRow(c, w, "CAPTAIN") /\ entry[c].points \in Int
    BY <1>1, <1>3, <1>4, EntryType DEF RosterKept, IsRow
  <1>6. /\ entry'[r] = [entry[r] EXCEPT !.team = w, !.price = 0, !.unsold = TRUE]
        /\ \A q \in Row : q # r => entry'[q] = entry[q]
        /\ entry' = [q \in Row |-> entry'[q]]
    BY <1>1, <1>2, <1>3 DEF AuctionTypeOK
  <1>7. entry'[r] \in Entry
    <2>1. entry[r] \in Entry /\ w \in User \cup {None} /\ 0 \in Int /\ TRUE \in BOOLEAN
      BY <1>3
    <2>2. [entry[r] EXCEPT !.team = w, !.price = 0, !.unsold = TRUE] \in Entry
      BY <2>1, EntryChanges, Zenon
    <2> QED BY <1>6, <2>2, Zenon
  <1>8. /\ entry'[r].user = p /\ entry'[r].role = "PLAYER" /\ entry'[r].team = w
        /\ entry'[r].price = 0 /\ entry'[r].unsold
    BY <1>3, <1>6 DEF Entry
  <1>9. RowsMove(r, c, w)
    BY <1>1, <1>3, <1>4, <1>5, <1>6, <1>7, <1>8, NoneAssumption
       DEF RowsMove, RosterKept, IsRow
  <1>10. PriceMoves(r, c, w)
    <2>1. \A v \in User : PaidFor(r, v) = 0 /\ PaidFor(r, v)' = 0
      BY <1>3, <1>8 DEF PaidFor
    <2>2. entry'[c] = entry[c]
      BY <1>5, <1>6
    <2> QED BY <1>5, <2>1, <2>2 DEF PriceMoves
  <1>11. entry' \in [Row -> Entry \cup {None}]
    <2>1. \A q \in Row : entry'[q] \in Entry \cup {None}
      BY <1>1, <1>6, <1>7 DEF AuctionTypeOK
    <2> QED BY <1>6, <2>1
  <1> QED BY <1>3, <1>5, <1>6, <1>8, <1>9, <1>10, <1>11 DEF Given

(* A player assigned by hand costs nothing; nobody is under the hammer then.         *)
LEMMA AssignKeepsInv ==
  ASSUME OrderlyEnrolled, AuctionInv, NEW p \in User, NEW w \in User, ManualAssignPlayer(p, w)
  PROVE  AuctionInv'
  <1>1. AuctionTypeOK /\ RosterKept /\ BidsCovered
    BY DEF AuctionInv
  <1>2. PICK r \in Row, c \in Row : Given(r, c, w)
    BY AssignIsMove
  <1>3. /\ RowsMove(r, c, w) /\ PriceMoves(r, c, w)
        /\ entry' \in [Row -> Entry \cup {None}]
        /\ entry'[r].team = w /\ entry'[r].price = 0 /\ entry'[r].unsold
        /\ entry'[c] = entry[c]
    BY <1>2 DEF Given
  <1>4. entry[r].role = "PLAYER" /\ entry[c].role = "CAPTAIN"
    BY <1>1, <1>3, MovedRows
  <1>5. auction' = auction /\ bid' = bid /\ auction.status = "ASSIGNING"
    BY DEF ManualAssignPlayer
  <1>6. AuctionTypeOK'
    BY <1>1, <1>3, <1>5 DEF AuctionTypeOK
  <1>7. RowMakesSense(entry'[r])
    <2>1. HasRow(w, "CAPTAIN") /\ entry'[r].role = "PLAYER"
      BY <1>3, <1>4 DEF HasRow, RowsMove
    <2> QED BY <1>3, <2>1, NoneAssumption DEF RowMakesSense
  <1>8. BidsCovered'
    <2>1. Captains' = Captains
      BY <1>1, <1>3, MoveKeepsRoster
    <2>2. ASSUME NEW d \in Captains
          PROVE  /\ entry'[d].user = entry[d].user /\ entry'[d].points \in Int
                 /\ entry'[d].points >= entry[d].points
      <3>1. d \in Row /\ entry[d].role = "CAPTAIN" /\ entry[d].points \in Int /\ d # r
        BY <1>1, <1>4, EntryType DEF Captains
      <3>2. entry'[d] = entry[d]
        BY <1>3, <3>1 DEF RowsMove
      <3> QED BY <3>1, <3>2
    <2> QED BY <1>1, <1>5, <2>1, <2>2, RicherCovers
  <1>9. BiddersAreCaptains' /\ CurrentIsPlayer' /\ AssigningHasNoCurrent' /\ UnderHammerIsFree'
    BY <1>5 DEF AuctionInv, BiddersAreCaptains, CurrentIsPlayer, AssigningHasNoCurrent,
         UnderHammerIsFree, HasRow, IsRow
  <1> QED BY <1>3, <1>5, <1>6, <1>7, <1>8, <1>9, MoveKeepsInv

(* A reset gives every captain the starting points and takes every team apart.        *)
LEMMA ResetKeepsInv ==
  ASSUME OrderlyEnrolled, AuctionInv, Reset
  PROVE  AuctionInv'
  <1>1. AuctionTypeOK /\ RosterKept /\ TeamsMakeSense
    BY DEF AuctionInv
  <1>2. /\ bid' = [u \in User |-> [t \in User |-> 0]]
        /\ entry' = [r \in Row |-> ResetEntry(r)]
        /\ auction' = [auction EXCEPT !.status = "ONGOING", !.phase = "WAITING",
                         !.current = None, !.left = None, !.timerPaused = FALSE,
                         !.pausedLeft = None]
    BY DEF Reset
  <1>3. /\ auction' \in AuctionRow /\ auction'.start = auction.start
        /\ auction'.current = None /\ auction.start \in Nat
    BY <1>1, <1>2 DEF AuctionTypeOK, AuctionRow, AuctionStatus, BiddingPhase
  <1>4. ASSUME NEW r \in Row
        PROVE  IF entry[r] = None THEN entry'[r] = None
               ELSE /\ entry'[r] \in Entry
                    /\ entry'[r].user = entry[r].user /\ entry'[r].role = entry[r].role
                    /\ entry'[r].team = None /\ entry'[r].price = 0 /\ ~ entry'[r].unsold
                    /\ entry[r].role = "CAPTAIN" => entry'[r].points = auction.start
    <2>1. entry'[r] = ResetEntry(r)
      BY <1>2
    <2>2. CASE entry[r] = None
      BY <2>1, <2>2 DEF ResetEntry
    <2>3. CASE entry[r] # None /\ entry[r].role = "CAPTAIN"
      <3>1. entry'[r] = [entry[r] EXCEPT !.points = auction.start]
        BY <2>1, <2>3, Zenon DEF ResetEntry
      <3>2. entry[r] \in Entry /\ entry[r].team = None /\ entry[r].price = 0 /\ ~ entry[r].unsold
        BY <1>1, <2>3, EntryType DEF TeamsMakeSense
      <3>3. entry'[r] \in Entry
        BY <1>3, <3>1, <3>2 DEF Entry
      <3>4. /\ entry'[r].user = entry[r].user /\ entry'[r].role = entry[r].role
            /\ entry'[r].team = entry[r].team /\ entry'[r].price = entry[r].price
            /\ entry'[r].unsold = entry[r].unsold /\ entry'[r].points = auction.start
        BY <3>1, <3>2 DEF Entry
      <3> QED BY <2>3, <3>2, <3>3, <3>4
    <2>4. CASE entry[r] # None /\ entry[r].role = "PLAYER"
      <3>1. entry'[r] = [entry[r] EXCEPT !.team = None, !.price = 0, !.unsold = FALSE]
        BY <2>1, <2>4, Zenon DEF ResetEntry
      <3>2. entry[r] \in Entry /\ None \in User \cup {None} /\ 0 \in Int /\ FALSE \in BOOLEAN
        BY <1>1, <2>4, EntryType
      <3>3. [entry[r] EXCEPT !.team = None, !.price = 0, !.unsold = FALSE] \in Entry
        BY <3>2, EntryChanges, Zenon
      <3>4. entry'[r] \in Entry
        BY <3>1, <3>3, Zenon
      <3>5. /\ entry'[r].user = entry[r].user /\ entry'[r].role = entry[r].role
            /\ entry'[r].team = None /\ entry'[r].price = 0 /\ ~ entry'[r].unsold
        BY <3>1, <3>2 DEF Entry
      <3> QED BY <2>4, <3>4, <3>5
    <2>5. CASE entry[r] # None /\ entry[r].role \notin {"CAPTAIN", "PLAYER"}
      <3>1. entry'[r] = entry[r]
        BY <2>1, <2>5, Zenon DEF ResetEntry
      <3>2. entry[r] \in Entry /\ entry[r].team = None /\ entry[r].price = 0 /\ ~ entry[r].unsold
        BY <1>1, <2>5, EntryType DEF TeamsMakeSense
      <3> QED BY <2>5, <3>1, <3>2
    <2> QED BY <2>2, <2>3, <2>4, <2>5
  <1>5. AuctionTypeOK' /\ BidsAreNumbers'
    <2>1. \A r \in Row : entry'[r] \in Entry \cup {None}
      BY <1>4
    <2>2. entry' \in [Row -> Entry \cup {None}]
      BY <1>2, <2>1
    <2> QED BY <1>2, <1>3, <2>2 DEF AuctionTypeOK, BidsAreNumbers
  <1>6. RosterKept' /\ StartKept' /\ Captains' = Captains
    <2>1. \A r \in Row : /\ (entry'[r] = None) <=> (entry[r] = None)
                         /\ entry[r] # None => /\ entry'[r].user = entry[r].user
                                               /\ entry'[r].role = entry[r].role
      BY <1>4, NoneAssumption
    <2> QED BY <1>1, <1>3, <2>1 DEF RosterKept, Captains, AuctionInv, StartKept
  <1>7. TeamsMakeSense'
    BY <1>4 DEF TeamsMakeSense
  <1>8. BiddersAreCaptains'
    BY <1>2 DEF BiddersAreCaptains
  <1>9. CurrentIsPlayer' /\ AssigningHasNoCurrent' /\ UnderHammerIsFree'
    BY <1>3 DEF CurrentIsPlayer, AssigningHasNoCurrent, UnderHammerIsFree
  <1>10. ASSUME NEW d \in Captains
         PROVE  /\ (entry[d].points + PaidBy(entry[d].user) = auction.start)'
                /\ (Committed(entry[d].user) <= entry[d].points)'
    <2>1. /\ d \in Row /\ entry[d] # None /\ entry[d].role = "CAPTAIN"
          /\ entry'[d].user = entry[d].user /\ entry'[d].points = auction.start
      BY <1>4 DEF Captains
    <2> PICK v \in User : v = entry[d].user
      BY <1>1, <2>1, EntryType
    <2>2. PaidBy(v)' = 0
      <3> DEFINE f == [r \in Row |-> PaidFor(r, v)']
      <3>1. \A r \in Row : f[r] = 0
        BY <1>4, NoneAssumption DEF PaidFor, Players
      <3>2. PaidBy(v)' = SumFunctionOnSet(f, Row)
        BY DEF PaidBy, PaidFor
      <3> HIDE DEF f
      <3> QED BY <3>1, <3>2, FiniteAssumption, SumOfZeros
    <2>3. Committed(v)' = 0
      <3> DEFINE g == bid'[v]
      <3>1. \A x \in User : g[x] = 0
        BY <1>2
      <3>2. Committed(v)' = SumFunctionOnSet(g, User)
        BY DEF Committed
      <3> HIDE DEF g
      <3> QED BY <3>1, <3>2, FiniteAssumption, SumOfZeros
    <2> QED BY <1>3, <2>1, <2>2, <2>3
  <1>11. TeamBudget' /\ BidsCovered'
    BY <1>6, <1>10 DEF TeamBudget, BidsCovered
  <1> QED BY <1>5, <1>6, <1>7, <1>8, <1>9, <1>11 DEF AuctionInv

(* Every transaction of the auction keeps the invariant.                             *)
LEMMA NextKeepsInv ==
  ASSUME OrderlyEnrolled, AuctionInv, [AuctionNext]_auctionVars
  PROVE  AuctionInv'
  <1>1. CASE \/ Start \/ Complete \/ PauseAuction \/ ResumeAuction \/ PauseTimer
             \/ ResumeTimer \/ NextPlayer \/ EnterAssignmentPhase \/ Elapse
             \/ \E p \in User : SelectPlayer(p)
    BY <1>1, RowStepsKeepInv
  <1>2. CASE ConfirmCurrentBid \/ AutoConfirmOnTimeout
    BY <1>2, SalesKeepInv
  <1>3. CASE PassCurrentPlayer
    BY <1>3, PassKeepsInv
  <1>4. CASE Reset
    BY <1>4, ResetKeepsInv
  <1>5. CASE \E p \in User : UndoSoldPlayer(p)
    BY <1>5, UndoKeepsInv
  <1>6. CASE \E p, c \in User : ManualAssignPlayer(p, c)
    BY <1>6, AssignKeepsInv
  <1>7. CASE \E u, t \in User, amt \in BidAmount : PlaceBid(u, t, amt)
    BY <1>7, PlaceBidKeepsInv
  <1>8. CASE UNCHANGED auctionVars
    <2>1. UNCHANGED <<entry, bid>> /\ auction' = auction
      BY <1>8 DEF auctionVars
    <2>2. CurrentIsPlayer' /\ AssigningHasNoCurrent' /\ UnderHammerIsFree'
      BY <2>1 DEF AuctionInv, CurrentIsPlayer, AssigningHasNoCurrent, UnderHammerIsFree, Find,
           Unassigned
    <2> QED BY <2>1, <2>2, RowStep DEF AuctionInv, AuctionTypeOK
  <1> QED BY <1>1, <1>2, <1>3, <1>4, <1>5, <1>6, <1>7, <1>8 DEF AuctionNext, MasterStep

(* The invariant holds in every state of an auction that was set up as it should be.  *)
LEMMA AuctionIsInv == ASSUME OrderlyEnrolled PROVE AuctionSpec => []AuctionInv
  <1>1. AuctionInit => AuctionInv
    BY InitInv
  <1>2. AuctionInv /\ [AuctionNext]_auctionVars => AuctionInv'
    BY NextKeepsInv
  <1> QED BY <1>1, <1>2, PTL DEF AuctionSpec

(* The transactions that touch the participants.                                      *)
LEMMA TeamsChangeOnly ==
  ASSUME [AuctionNext]_auctionVars, entry' # entry
  PROVE  \/ ConfirmCurrentBid \/ AutoConfirmOnTimeout \/ Reset
         \/ \E p \in User : UndoSoldPlayer(p)
         \/ \E p, c \in User : ManualAssignPlayer(p, c)
  BY DEF AuctionNext, MasterStep, auctionVars, Start, Complete, PauseAuction, ResumeAuction,
       PauseTimer, ResumeTimer, NextPlayer, EnterAssignmentPhase, Elapse, SelectPlayer,
       PlaceBid, PassCurrentPlayer

-----------------------------------------------------------------------------
(* The auction as a draft: the state of module Draft, read from the rows.             *)

TeamOf == [p \in PlayerUsers |-> entry[RowOfUser[p]].team]
PriceOf == [p \in PlayerUsers |-> entry[RowOfUser[p]].price]
PurseOf == [c \in CaptainUsers |-> entry[RowOfUser[c]].points]

(* The row of a user is the one that was enrolled.                                    *)
LEMMA RowsOfUsers ==
  ASSUME OrderlyEnrolled, NEW role \in {"CAPTAIN", "PLAYER"}, NEW r \in Row, NEW u,
         IsRow(r, u, role)
  PROVE  /\ u \in UsersOf(role) /\ RowOfUser[u] = r
         /\ role = "CAPTAIN" => u \in CaptainUsers
         /\ role = "PLAYER" => u \in PlayerUsers
  <1>1. u \in UsersOf(role)
    BY DEF UsersOf, IsRow
  <1>2. u \in CaptainUsers \cup PlayerUsers
    BY <1>1 DEF CaptainUsers, PlayerUsers
  <1>3. \A q \in Row : Enrolled[q] # None /\ Enrolled[q].user = u => q = r
    BY DEF OrderlyEnrolled, IsRow
  <1>4. RowOfUser[u] = CHOOSE q \in Row : Enrolled[q] # None /\ Enrolled[q].user = u
    BY <1>2 DEF RowOfUser
  <1>5. RowOfUser[u] = r
    BY <1>3, <1>4 DEF IsRow
  <1> QED BY <1>1, <1>5 DEF CaptainUsers, PlayerUsers

(* Whoever takes part has such a row.                                                 *)
LEMMA UsersHaveRows ==
  ASSUME OrderlyEnrolled
  PROVE  /\ \A c \in CaptainUsers : RowOfUser[c] \in Row /\ IsRow(RowOfUser[c], c, "CAPTAIN")
         /\ \A p \in PlayerUsers : RowOfUser[p] \in Row /\ IsRow(RowOfUser[p], p, "PLAYER")
  <1>1. ASSUME NEW role \in {"CAPTAIN", "PLAYER"}, NEW u \in UsersOf(role)
        PROVE  RowOfUser[u] \in Row /\ IsRow(RowOfUser[u], u, role)
    <2>1. PICK r \in Row : IsRow(r, u, role)
      BY <1>1 DEF UsersOf, IsRow
    <2>2. RowOfUser[u] = r
      BY <2>1, RowsOfUsers
    <2> QED BY <2>1, <2>2
  <1> QED BY <1>1 DEF CaptainUsers, PlayerUsers

(* When row r changes hands, one player and one purse of the draft change.            *)
LEMMA MoveInDraft ==
  ASSUME OrderlyEnrolled, NEW r \in Row, NEW c \in Row, NEW u, NEW p,
         p = Enrolled[r].user, RowsMove(r, c, u)
  PROVE  /\ p \in PlayerUsers /\ RowOfUser[p] = r
         /\ u \in CaptainUsers /\ RowOfUser[u] = c
         /\ TeamOf' = [TeamOf EXCEPT ![p] = entry'[r].team]
         /\ PriceOf' = [PriceOf EXCEPT ![p] = entry'[r].price]
         /\ PurseOf' = [PurseOf EXCEPT ![u] = entry'[c].points]
  <1>1. IsRow(r, p, "PLAYER") /\ IsRow(c, u, "CAPTAIN")
    BY DEF RowsMove
  <1>2. /\ p \in PlayerUsers /\ RowOfUser[p] = r
        /\ u \in CaptainUsers /\ RowOfUser[u] = c
    BY <1>1, RowsOfUsers
  <1>3. ASSUME NEW q \in PlayerUsers, q # p
        PROVE  entry'[RowOfUser[q]] = entry[RowOfUser[q]]
    <2>1. RowOfUser[q] \in Row /\ IsRow(RowOfUser[q], q, "PLAYER")
      BY UsersHaveRows
    <2>2. RowOfUser[q] # r /\ RowOfUser[q] # c
      BY <1>1, <1>3, <2>1 DEF IsRow
    <2> QED BY <2>1, <2>2 DEF RowsMove
  <1>4. ASSUME NEW d \in CaptainUsers, d # u
        PROVE  entry'[RowOfUser[d]] = entry[RowOfUser[d]]
    <2>1. RowOfUser[d] \in Row /\ IsRow(RowOfUser[d], d, "CAPTAIN")
      BY UsersHaveRows
    <2>2. RowOfUser[d] # r /\ RowOfUser[d] # c
      BY <1>1, <1>4, <2>1 DEF IsRow
    <2> QED BY <2>1, <2>2 DEF RowsMove
  <1>5. TeamOf' = [TeamOf EXCEPT ![p] = entry'[r].team]
    BY <1>2, <1>3, Zenon DEF TeamOf
  <1>6. PriceOf' = [PriceOf EXCEPT ![p] = entry'[r].price]
    BY <1>2, <1>3, Zenon DEF PriceOf
  <1>7. PurseOf' = [PurseOf EXCEPT ![u] = entry'[c].points]
    BY <1>2, <1>4, Zenon DEF PurseOf
  <1> QED BY <1>2, <1>5, <1>6, <1>7

(* No captain has more than the starting points, or less than any one bid.            *)
LEMMA BidWithinPurse ==
  ASSUME AuctionInv, NEW c \in Captains, NEW u \in User, u = entry[c].user, NEW t \in User
  PROVE  bid[u][t] <= entry[c].points /\ entry[c].points <= StartPoints
  <1>1. /\ AuctionTypeOK /\ c \in Row /\ entry[c] # None
        /\ entry[c].points + PaidBy(u) = StartPoints /\ Committed(u) <= entry[c].points
    BY DEF AuctionInv, Captains, TeamBudget, BidsCovered, StartKept
  <1>2. PaidBy(u) \in Nat
    <2> DEFINE f == [r \in Row |-> PaidFor(r, u)]
    <2>1. \A r \in Row : f[r] \in Nat
      <3> TAKE r \in Row
      <3>1. PaidFor(r, u) \in Int
        BY <1>1, PaidForType
      <3>2. PaidFor(r, u) >= 0
        BY DEF PaidFor, Players, AuctionInv, TeamsMakeSense
      <3> QED BY <3>1, <3>2
    <2>2. PaidBy(u) = SumFunctionOnSet(f, Row)
      BY DEF PaidBy, PaidFor
    <2> HIDE DEF f
    <2> QED BY <2>1, <2>2, FiniteAssumption, SumNonNegative
  <1>3. /\ Committed(u) = bid[u][t] + OtherBidsTotal(u, t)
        /\ Committed(u) \in Int /\ OtherBidsTotal(u, t) \in Int
    BY <1>1, CommittedSplits
  <1>4. OtherBidsTotal(u, t) \in Nat
    <2> DEFINE f == bid[u]
               S == User \ {t}
    <2>1. \A x \in S : f[x] \in Nat
      BY <1>1 DEF AuctionTypeOK
    <2>2. IsFiniteSet(S)
      BY FiniteAssumption, FS_RemoveElement
    <2>3. OtherBidsTotal(u, t) = SumFunctionOnSet(f, S)
      BY DEF OtherBidsTotal
    <2> HIDE DEF f, S
    <2> QED BY <2>1, <2>2, <2>3, SumNonNegative
  <1>5. bid[u][t] \in Int /\ entry[c].points \in Int /\ StartPoints \in Int
    BY <1>1, EntryType, SettingsAssumption DEF AuctionTypeOK
  <1> QED BY <1>1, <1>2, <1>3, <1>4, <1>5

(* A sale is one of the draft: the price is within the purse.                         *)
LEMMA SaleInDraft ==
  ASSUME OrderlyEnrolled, AuctionInv, ConfirmCurrentBid \/ AutoConfirmOnTimeout
  PROVE  DraftOf!Next \/ UNCHANGED <<TeamOf, PriceOf, PurseOf>>
  <1>1. CASE entry' = entry
    BY <1>1 DEF TeamOf, PriceOf, PurseOf
  <1>2. CASE entry' # entry
    <2>1. auction.current # None /\ \E u \in HighestBidders(auction.current) : SellCurrent(u)
      BY <1>2 DEF ConfirmCurrentBid, AutoConfirmOnTimeout, Confirmable
    <2> PICK u \in HighestBidders(auction.current) : SellCurrent(u)
      BY <2>1
    <2> PICK t \in User : t = auction.current
      BY <2>1 DEF AuctionInv, AuctionTypeOK, AuctionRow
    <2>2. PICK r \in Row, c \in Row : Enrolled[r].user = t /\ SoldTo(r, c, u, bid[u][t])
      BY <2>1, SaleIsMove
    <2>3. u \in User
      BY DEF HighestBidders
    <2> PICK amt \in Int : amt = bid[u][t] /\ amt > 0
      BY <2>3 DEF AuctionInv, AuctionTypeOK, HighestBidders
    <2>4. /\ RowsMove(r, c, u)
          /\ entry[r].team = None /\ entry'[r].team = u /\ entry'[r].price = amt
          /\ entry'[c].points = entry[c].points - amt
      BY <2>2 DEF SoldTo
    <2>5. /\ t \in PlayerUsers /\ RowOfUser[t] = r /\ u \in CaptainUsers /\ RowOfUser[u] = c
          /\ TeamOf' = [TeamOf EXCEPT ![t] = entry'[r].team]
          /\ PriceOf' = [PriceOf EXCEPT ![t] = entry'[r].price]
          /\ PurseOf' = [PurseOf EXCEPT ![u] = entry'[c].points]
      BY <2>2, <2>4, MoveInDraft
    <2>6. TeamOf[t] = None /\ PurseOf[u] = entry[c].points
      BY <2>4, <2>5 DEF TeamOf, PurseOf
    <2>7. amt \in 1..PurseOf[u] /\ amt \in 1..StartPoints
      <3>1. c \in Captains /\ entry[c].user = u /\ entry[c].points \in Int
        BY <2>4, MovedRows DEF AuctionInv, Captains, Entry
      <3>2. amt <= entry[c].points /\ entry[c].points <= StartPoints
        BY <2>3, <3>1, BidWithinPurse
      <3> QED BY <2>6, <3>1, <3>2, SettingsAssumption
    <2>8. /\ TeamOf' = [TeamOf EXCEPT ![t] = u]
          /\ PriceOf' = [PriceOf EXCEPT ![t] = amt]
          /\ PurseOf' = [PurseOf EXCEPT ![u] = PurseOf[u] - amt]
      BY <2>4, <2>5, <2>6
    <2>9. DraftOf!Sell(t, u, amt)
      BY <2>6, <2>7, <2>8 DEF DraftOf!Sell, DraftOf!Joins, TeamOf, PriceOf, PurseOf
    <2> QED BY <2>5, <2>7, <2>9 DEF DraftOf!Next
  <1> QED BY <1>1, <1>2

(* Taking a player back releases the player in the draft.                             *)
LEMMA UndoInDraft ==
  ASSUME OrderlyEnrolled, AuctionInv, NEW p \in User, UndoSoldPlayer(p)
  PROVE  DraftOf!Next
  <1>1. PICK r \in Row, c \in Row, w \in User : Released(r, c, w)
    BY UndoIsMove
  <1> PICK t : t = Enrolled[r].user
    OBVIOUS
  <1>2. /\ RowsMove(r, c, w) /\ entry[r].team = w /\ entry'[r].team = None
        /\ entry'[r].price = 0 /\ entry'[c].points = entry[c].points + entry[r].price
    BY <1>1 DEF Released
  <1>3. /\ t \in PlayerUsers /\ RowOfUser[t] = r /\ w \in CaptainUsers /\ RowOfUser[w] = c
        /\ TeamOf' = [TeamOf EXCEPT ![t] = entry'[r].team]
        /\ PriceOf' = [PriceOf EXCEPT ![t] = entry'[r].price]
        /\ PurseOf' = [PurseOf EXCEPT ![w] = entry'[c].points]
    BY <1>2, MoveInDraft
  <1>4. TeamOf[t] = w /\ PriceOf[t] = entry[r].price /\ PurseOf[w] = entry[c].points /\ w # None
    BY <1>2, <1>3, NoneAssumption DEF TeamOf, PriceOf, PurseOf
  <1>5. /\ TeamOf' = [TeamOf EXCEPT ![t] = None]
        /\ PriceOf' = [PriceOf EXCEPT ![t] = 0]
        /\ PurseOf' = [PurseOf EXCEPT ![TeamOf[t]] = PurseOf[TeamOf[t]] + PriceOf[t]]
    BY <1>2, <1>3, <1>4
  <1>6. DraftOf!Release(t)
    BY <1>4, <1>5 DEF DraftOf!Release, TeamOf, PriceOf, PurseOf
  <1> QED BY <1>3, <1>6 DEF DraftOf!Next

(* An assignment by hand gives a player away in the draft.                            *)
LEMMA AssignInDraft ==
  ASSUME OrderlyEnrolled, AuctionInv, NEW p \in User, NEW w \in User, ManualAssignPlayer(p, w)
  PROVE  DraftOf!Next
  <1>1. PICK r \in Row, c \in Row : Given(r, c, w)
    BY AssignIsMove
  <1> PICK t : t = Enrolled[r].user
    OBVIOUS
  <1>2. /\ RowsMove(r, c, w) /\ entry[r].team = None /\ entry'[r].team = w
        /\ entry'[r].price = 0 /\ entry'[c] = entry[c]
    BY <1>1 DEF Given
  <1>3. /\ t \in PlayerUsers /\ RowOfUser[t] = r /\ w \in CaptainUsers /\ RowOfUser[w] = c
        /\ TeamOf' = [TeamOf EXCEPT ![t] = entry'[r].team]
        /\ PriceOf' = [PriceOf EXCEPT ![t] = entry'[r].price]
        /\ PurseOf' = [PurseOf EXCEPT ![w] = entry'[c].points]
    BY <1>2, MoveInDraft
  <1>4. TeamOf[t] = None /\ PurseOf[w] = entry[c].points
    BY <1>2, <1>3 DEF TeamOf, PurseOf
  <1>5. PurseOf' = PurseOf
    BY <1>2, <1>3, <1>4 DEF PurseOf
  <1>6. DraftOf!Give(t, w)
    BY <1>2, <1>3, <1>4, <1>5 DEF DraftOf!Give, DraftOf!Joins, TeamOf, PriceOf, PurseOf
  <1> QED BY <1>3, <1>6 DEF DraftOf!Next

(* A reset starts the draft over.                                                     *)
LEMMA ResetInDraft ==
  ASSUME OrderlyEnrolled, AuctionInv, Reset
  PROVE  DraftOf!Next
  <1>1. AuctionTypeOK /\ RosterKept /\ StartKept
    BY DEF AuctionInv
  <1>2. ASSUME NEW p \in PlayerUsers
        PROVE  entry'[RowOfUser[p]].team = None /\ entry'[RowOfUser[p]].price = 0
    <2>1. RowOfUser[p] \in Row /\ IsRow(RowOfUser[p], p, "PLAYER")
      BY UsersHaveRows
    <2> PICK r \in Row : r = RowOfUser[p]
      BY <2>1
    <2>2. entry[r] # None /\ entry[r].role = "PLAYER" /\ entry[r] \in Entry
      BY <1>1, <2>1, EntryType DEF RosterKept, IsRow
    <2>3. entry'[r] = [entry[r] EXCEPT !.team = None, !.price = 0, !.unsold = FALSE]
      BY <2>2, Zenon DEF Reset, ResetEntry
    <2> QED BY <2>2, <2>3 DEF Entry
  <1>3. ASSUME NEW c \in CaptainUsers
        PROVE  entry'[RowOfUser[c]].points = StartPoints
    <2>1. RowOfUser[c] \in Row /\ IsRow(RowOfUser[c], c, "CAPTAIN")
      BY UsersHaveRows
    <2> PICK r \in Row : r = RowOfUser[c]
      BY <2>1
    <2>2. entry[r] # None /\ entry[r].role = "CAPTAIN" /\ entry[r] \in Entry
      BY <1>1, <2>1, EntryType DEF RosterKept, IsRow
    <2>3. entry'[r] = [entry[r] EXCEPT !.points = auction.start]
      BY <2>2, Zenon DEF Reset, ResetEntry
    <2> QED BY <1>1, <2>2, <2>3 DEF Entry, StartKept
  <1>4. DraftOf!Restart
    BY <1>2, <1>3 DEF DraftOf!Restart
  <1> QED BY <1>4 DEF DraftOf!Next

(* At first nobody has been drafted.                                                  *)
LEMMA InitInDraft == ASSUME OrderlyEnrolled, AuctionInit PROVE DraftOf!Init
  <1>1. ASSUME NEW p \in PlayerUsers
        PROVE  entry[RowOfUser[p]].team = None /\ entry[RowOfUser[p]].price = 0
    BY UsersHaveRows DEF AuctionInit, OrderlyEnrolled, IsRow
  <1>2. ASSUME NEW c \in CaptainUsers
        PROVE  entry[RowOfUser[c]].points = StartPoints
    BY UsersHaveRows DEF AuctionInit, OrderlyEnrolled, IsRow
  <1> QED BY <1>1, <1>2 DEF DraftOf!Init

(* Every transaction of the auction is a step of the draft, or none.                  *)
LEMMA StepInDraft ==
  ASSUME OrderlyEnrolled, AuctionInv, [AuctionNext]_auctionVars
  PROVE  [DraftOf!Next]_(DraftOf!draftVars)
  <1>1. CASE entry' = entry
    BY <1>1 DEF DraftOf!draftVars
  <1>2. CASE ConfirmCurrentBid \/ AutoConfirmOnTimeout
    BY <1>2, SaleInDraft DEF TeamOf, PriceOf, PurseOf, DraftOf!draftVars
  <1>3. CASE Reset
    BY <1>3, ResetInDraft
  <1>4. CASE \E p \in User : UndoSoldPlayer(p)
    BY <1>4, UndoInDraft
  <1>5. CASE \E p, c \in User : ManualAssignPlayer(p, c)
    BY <1>5, AssignInDraft
  <1> QED BY <1>1, <1>2, <1>3, <1>4, <1>5, TeamsChangeOnly

-----------------------------------------------------------------------------
(* Who joins a team.                                                                  *)

JoinsFairly(r) ==
  Unassigned(r) /\ entry'[r].team # None =>
    \/ auction.status = "ASSIGNING" /\ entry'[r].unsold /\ entry'[r].price = 0
    \/ /\ auction.current = entry[r].user
       /\ entry'[r].team \in HighestBidders(auction.current)
       /\ entry'[r].price = HighestBid(auction.current)

(* Nobody joins a team but for the highest bid, or by hand.                           *)
LEMMA StepJoinsFairly ==
  ASSUME OrderlyEnrolled, AuctionInv, [AuctionNext]_auctionVars, NEW r \in Players
  PROVE  JoinsFairly(r)
  <1>1. /\ AuctionTypeOK /\ RosterKept /\ r \in Row /\ entry[r] # None
        /\ entry[r].role = "PLAYER" /\ entry[r] \in Entry
    BY EntryType DEF AuctionInv, Players
  <1>2. CASE entry'[r] = entry[r]
    BY <1>2 DEF JoinsFairly, Unassigned
  <1>3. ASSUME entry' # entry, ConfirmCurrentBid \/ AutoConfirmOnTimeout
        PROVE  JoinsFairly(r)
    <2>1. auction.current # None /\ \E u \in HighestBidders(auction.current) : SellCurrent(u)
      BY <1>3 DEF ConfirmCurrentBid, AutoConfirmOnTimeout, Confirmable
    <2> PICK u \in HighestBidders(auction.current) : SellCurrent(u)
      BY <2>1
    <2>2. PICK q \in Row, c \in Row : /\ Enrolled[q].user = auction.current
                                      /\ SoldTo(q, c, u, bid[u][auction.current])
      BY <2>1, SaleIsMove
    <2>3. /\ RowsMove(q, c, u) /\ entry'[q].team = u
          /\ entry'[q].price = bid[u][auction.current]
      BY <2>2 DEF SoldTo
    <2>4. entry[q].user = auction.current /\ entry[c].role = "CAPTAIN"
      BY <1>1, <2>2, <2>3, MovedRows
    <2>5. bid[u][auction.current] = HighestBid(auction.current)
      BY DEF HighestBidders
    <2>6. CASE r = q
      BY <2>3, <2>4, <2>5, <2>6 DEF JoinsFairly
    <2>7. CASE r # q
      <3>1. entry'[r] = entry[r]
        BY <1>1, <2>3, <2>4, <2>7 DEF RowsMove
      <3> QED BY <1>2, <3>1
    <2> QED BY <2>6, <2>7
  <1>4. CASE Reset
    <2>1. entry'[r] = [entry[r] EXCEPT !.team = None, !.price = 0, !.unsold = FALSE]
      BY <1>1, <1>4, Zenon DEF Reset, ResetEntry
    <2>2. entry'[r].team = None
      BY <1>1, <2>1 DEF Entry
    <2> QED BY <2>2 DEF JoinsFairly
  <1>5. ASSUME NEW p \in User, UndoSoldPlayer(p) PROVE JoinsFairly(r)
    <2>1. PICK q \in Row, c \in Row, w \in User : Released(q, c, w)
      BY <1>5, UndoIsMove
    <2>2. RowsMove(q, c, w) /\ entry'[q].team = None
      BY <2>1 DEF Released
    <2>3. entry[c].role = "CAPTAIN"
      BY <1>1, <2>2, MovedRows
    <2>4. CASE r = q
      BY <2>2, <2>4 DEF JoinsFairly
    <2>5. CASE r # q
      <3>1. entry'[r] = entry[r]
        BY <1>1, <2>2, <2>3, <2>5 DEF RowsMove
      <3> QED BY <1>2, <3>1
    <2> QED BY <2>4, <2>5
  <1>6. ASSUME NEW p \in User, NEW w \in User, ManualAssignPlayer(p, w) PROVE JoinsFairly(r)
    <2>1. PICK q \in Row, c \in Row : Given(q, c, w)
      BY <1>6, AssignIsMove
    <2>2. RowsMove(q, c, w) /\ entry'[q].price = 0 /\ entry'[q].unsold
      BY <2>1 DEF Given
    <2>3. entry[c].role = "CAPTAIN" /\ auction.status = "ASSIGNING"
      BY <1>1, <1>6, <2>2, MovedRows DEF ManualAssignPlayer
    <2>4. CASE r = q
      BY <2>2, <2>3, <2>4 DEF JoinsFairly
    <2>5. CASE r # q
      <3>1. entry'[r] = entry[r]
        BY <1>1, <2>2, <2>3, <2>5 DEF RowsMove
      <3> QED BY <1>2, <3>1
    <2> QED BY <2>4, <2>5
  <1>7. CASE entry' = entry
    BY <1>2, <1>7
  <1> QED BY <1>3, <1>4, <1>5, <1>6, <1>7, TeamsChangeOnly

-----------------------------------------------------------------------------
(* The gateway.                                                                       *)

(* What the gateway does to the auction is one transaction, or nothing.                *)
LEMMA GatewayStep ==
  ASSUME AuctionTypeOK, [Next]_vars
  PROVE  [AuctionNext]_auctionVars
  <1>1. CASE \E h \in Handler : HandlerStep(h)
    BY <1>1 DEF HandlerStep, CheckAutoConfirm, ActOnCheck, ConfirmChecked, StartTimerAfterRead,
         CallStopped, Call, ReadRoomState, CallResumeTimer, AuctionNext, MasterStep
  <1>2. CASE \E h \in Handler : Event(h)
    BY <1>2 DEF Event, HandlePlaceBid, HandleSelectPlayer, HandleStopFirst,
         HandleResumeAuction, HandleResumeTimer, AuctionNext, MasterStep
  <1>3. CASE HandlePlain
    BY <1>3 DEF HandlePlain, AuctionNext, MasterStep
  <1>4. CASE RestCall
    BY <1>4 DEF RestCall, AuctionNext, MasterStep
  <1>5. CASE Second
    <2>1. CASE auction.left \in {None, 0}
      <3>1. auction' = [auction EXCEPT !.left = auction.left] /\ UNCHANGED <<entry, bid>>
        BY <1>5, <2>1 DEF Second
      <3>2. auction' = auction
        BY <3>1 DEF AuctionTypeOK, AuctionRow
      <3> QED BY <3>1, <3>2 DEF auctionVars
    <2>2. CASE auction.left \notin {None, 0}
      <3>1. Elapse
        BY <1>5, <2>2 DEF Second, Elapse
      <3> QED BY <3>1 DEF AuctionNext
    <2> QED BY <2>1, <2>2
  <1>6. CASE HandleTimerExpired
    BY <1>6 DEF HandleTimerExpired, AuctionNext
  <1>7. CASE Restart
    BY <1>7 DEF Restart
  <1>8. CASE UNCHANGED vars
    BY <1>8 DEF vars
  <1> QED BY <1>1, <1>2, <1>3, <1>4, <1>5, <1>6, <1>7, <1>8 DEF Next

(* However its handlers, its countdown and its restarts interleave, the gateway does   *)
(* to an auction only what transactions of the service do, one after the other.        *)
THEOREM GatewayImplementsAuction == ASSUME OrderlyEnrolled PROVE Spec => AuctionSpec
  <1>1. Init => AuctionInit /\ AuctionInv
    BY InitInv DEF Init
  <1>2. AuctionInv /\ [Next]_vars => [AuctionNext]_auctionVars
    BY GatewayStep DEF AuctionInv
  <1>3. AuctionInv /\ [Next]_vars => AuctionInv'
    BY <1>2, NextKeepsInv
  <1> QED BY <1>1, <1>2, <1>3, PTL DEF Spec, AuctionSpec

(* A captain's purse is the starting points less what the team has paid, and covers    *)
(* every bid the captain has standing, whatever captains, master and countdown do.     *)
THEOREM PursesAlwaysCover == ASSUME OrderlyEnrolled PROVE Spec => []PursesCover
  <1>1. AuctionInv => PursesCover
    BY DEF AuctionInv, PursesCover
  <1> QED BY <1>1, AuctionIsInv, GatewayImplementsAuction, PTL

(* A player whose bidding is open is in no team, so nobody is ever sold twice.         *)
THEOREM HammerAlwaysFree == ASSUME OrderlyEnrolled PROVE Spec => []UnderHammerIsFree
  <1>1. AuctionInv => UnderHammerIsFree
    BY DEF AuctionInv
  <1> QED BY <1>1, AuctionIsInv, GatewayImplementsAuction, PTL

(* A player joins a team only for the highest bid, made by its captain, or by hand     *)
(* after the bidding.                                                                  *)
LEMMA AuctionSellsFairly == ASSUME OrderlyEnrolled PROVE AuctionSpec => SoldToHighestBidder
  <1>1. AuctionInv /\ [AuctionNext]_auctionVars
          => [\A r \in Players :
                Unassigned(r) /\ entry'[r].team # None =>
                  \/ auction.status = "ASSIGNING" /\ entry'[r].unsold /\ entry'[r].price = 0
                  \/ /\ auction.current = entry[r].user
                     /\ entry'[r].team \in HighestBidders(auction.current)
                     /\ entry'[r].price = HighestBid(auction.current)]_auctionVars
    BY StepJoinsFairly DEF JoinsFairly
  <1> QED BY <1>1, AuctionIsInv, PTL DEF AuctionSpec, SoldToHighestBidder

(* A player joins a team only for the highest bid, made by its captain, or by hand     *)
(* after the bidding, at whatever moment the countdown or the master decides.          *)
THEOREM AlwaysSoldToHighestBidder == ASSUME OrderlyEnrolled PROVE Spec => SoldToHighestBidder
  BY AuctionSellsFairly, GatewayImplementsAuction

(* To the captains the auction is a draft.                                              *)
LEMMA AuctionRunsDraft == ASSUME OrderlyEnrolled PROVE AuctionSpec => DraftSpec
  <1>1. AuctionInit => DraftOf!Init
    BY InitInDraft
  <1>2. AuctionInv /\ [AuctionNext]_auctionVars => [DraftOf!Next]_(DraftOf!draftVars)
    BY StepInDraft
  <1> QED BY <1>1, <1>2, AuctionIsInv, PTL DEF AuctionSpec, DraftSpec, DraftOf!Spec

(* To the captains the auction, run by the gateway, is a draft: teams are built only   *)
(* by sales their purses can pay, assignments for nothing, refunds and fresh starts.   *)
THEOREM GatewayRunsDraft == ASSUME OrderlyEnrolled PROVE Spec => DraftSpec
  BY AuctionRunsDraft, GatewayImplementsAuction

-----------------------------------------------------------------------------
(* The countdown.                                                                      *)

Open ==
  /\ IsOngoing /\ ~ auction.timerPaused /\ auction.phase = "BIDDING"
  /\ auction.current \in User

JobsFit ==
  /\ timer \in Int \cup {None}
  /\ job \in [Handler -> [todo : Todo, secs : Int]]

(* Starting an auction opens no bidding. *)
PendingIsWaiting == auction.status = "PENDING" => auction.phase # "BIDDING"

(* A countdown runs, has just run out, or is known to be lost. *)
Accounted == timer # None \/ expiring \/ dropped

(* The handler will start a countdown, end the bidding, or be refused. *)
Busy(h) == job[h].todo \notin {"idle", "resumeTimer"}

TimerWillRun == Open => Accounted \/ \E h \in Handler : Busy(h)

CountdownInv == AuctionInv /\ JobsFit /\ PendingIsWaiting /\ TimerWillRun

(* Bidding is opened by selecting a player and reopened by resuming; a sale, a pass    *)
(* and every other control of the master end it.                                       *)
LEMMA TransactionsEndBidding ==
  ASSUME AuctionTypeOK, PendingIsWaiting,
         \/ Start \/ Complete \/ NextPlayer \/ EnterAssignmentPhase
         \/ \E p \in User : UndoSoldPlayer(p)
         \/ \E p, c \in User : ManualAssignPlayer(p, c)
         \/ \E u, t \in User, amt \in BidAmount : PlaceBid(u, t, amt)
  PROVE  (Open' => Open) /\ PendingIsWaiting'
  <1> USE DEF Open, IsOngoing, PendingIsWaiting
  <1>0. auction \in AuctionRow
    BY DEF AuctionTypeOK
  <1> USE <1>0 DEF AuctionRow
  <1>1. CASE Start \/ Complete \/ NextPlayer \/ EnterAssignmentPhase
    BY <1>1 DEF Start, Complete, NextPlayer, EnterAssignmentPhase
  <1>2. CASE \E p \in User : UndoSoldPlayer(p)
    BY <1>2 DEF UndoSoldPlayer
  <1>3. CASE \E p, c \in User : ManualAssignPlayer(p, c)
    BY <1>3 DEF ManualAssignPlayer
  <1>4. CASE \E u, t \in User, amt \in BidAmount : PlaceBid(u, t, amt)
    BY <1>4 DEF PlaceBid
  <1> QED BY <1>1, <1>2, <1>3, <1>4

(* Open bidding can be ended: the player was not sold. *)
LEMMA OpenCanEnd ==
  ASSUME AuctionInv, Open PROVE Confirmable /\ ~ AlreadySold
  BY NoneAssumption DEF AuctionInv, UnderHammerIsFree, AlreadySold, Unassigned, Open, Confirmable, Loaded, IsOngoing

(* A step that notes losses leaves none unnoted. *)
LEMMA LossesAreNoted == ASSUME NoteDrop, Open' PROVE Accounted'
  <1>1. \E p \in User : BiddingOpen(p)'
    BY DEF Open, BiddingOpen, IsOngoing
  <1>2. timer' = None /\ ~ expiring' => dropped'
    BY <1>1, Zenon DEF NoteDrop
  <1> QED BY <1>2, Zenon DEF Accounted

(* What is lost, or due, stays so while only the handlers' jobs change. *)
LEMMA StaysAccounted ==
  ASSUME UNCHANGED <<timer, expiring, dropped>>, Accounted PROVE Accounted'
  BY Zenon DEF Accounted

(* What a handler does next is all that changes in the jobs. *)
LEMMA JobSet ==
  ASSUME JobsFit, NEW h \in Handler, NEW todo \in Todo, NEW secs \in Int,
         job' = [job EXCEPT ![h] = [todo |-> todo, secs |-> secs]]
  PROVE  /\ job' \in [Handler -> [todo : Todo, secs : Int]]
         /\ job'[h].todo = todo
         /\ \A g \in Handler : g # h => job'[g] = job[g]
  BY DEF JobsFit

LEMMA JobSetBare ==
  ASSUME JobsFit, NEW h \in Handler, NEW todo \in Todo,
         job' = [job EXCEPT ![h] = [todo |-> todo, secs |-> 0]]
  PROVE  /\ job' \in [Handler -> [todo : Todo, secs : Int]]
         /\ job'[h].todo = todo
         /\ \A g \in Handler : g # h => job'[g] = job[g]
  BY DEF JobsFit

(* A handler that is about to do something covers for the countdown. *)
LEMMA BusyCovers ==
  ASSUME JobsFit, timer' \in Int \cup {None}, NEW h \in Handler,
         NEW todo \in Todo \ {"idle", "resumeTimer"}, NEW secs \in Int,
         job' = [job EXCEPT ![h] = [todo |-> todo, secs |-> secs]]
  PROVE  JobsFit' /\ TimerWillRun'
  <1>1. job' \in [Handler -> [todo : Todo, secs : Int]] /\ job'[h].todo = todo
    BY JobSet
  <1>2. Busy(h)'
    BY <1>1 DEF Busy
  <1>3. TimerWillRun'
    BY <1>2, Zenon DEF TimerWillRun
  <1> QED BY <1>1, <1>3 DEF JobsFit

LEMMA BusyCoversBare ==
  ASSUME JobsFit, timer' \in Int \cup {None}, NEW h \in Handler,
         NEW todo \in Todo \ {"idle", "resumeTimer"},
         job' = [job EXCEPT ![h] = [todo |-> todo, secs |-> 0]]
  PROVE  JobsFit' /\ TimerWillRun'
  <1>1. job' \in [Handler -> [todo : Todo, secs : Int]] /\ job'[h].todo = todo
    BY JobSetBare
  <1>2. Busy(h)'
    BY <1>1 DEF Busy
  <1>3. TimerWillRun'
    BY <1>2, Zenon DEF TimerWillRun
  <1> QED BY <1>1, <1>3 DEF JobsFit

(* A handler that is done has started a countdown, or ended the bidding, or its loss   *)
(* is noted.                                                                           *)
LEMMA DoneLeavesAccounted ==
  ASSUME JobsFit, timer' \in Int \cup {None}, NEW h \in Handler, Done(h),
         Open' => Accounted'
  PROVE  JobsFit' /\ TimerWillRun'
  <1>1. "idle" \in Todo
    BY DEF Todo
  <1>2. job' = [job EXCEPT ![h] = [todo |-> "idle", secs |-> 0]]
    BY DEF Done, Idle
  <1>3. job' \in [Handler -> [todo : Todo, secs : Int]]
    BY <1>1, <1>2, JobSetBare
  <1>4. TimerWillRun'
    BY Zenon DEF TimerWillRun
  <1> QED BY <1>3, <1>4 DEF JobsFit

(* Steps that open no bidding, lose no countdown and leave busy handlers busy. *)
LEMMA OthersCover ==
  ASSUME TimerWillRun, Open' => Open, Accounted => Accounted',
         \A g \in Handler : Busy(g) => Busy(g)'
  PROVE  TimerWillRun'
  BY Zenon DEF TimerWillRun

(* A handler that goes on starts the countdown, ends the bidding, or is refused, which *)
(* is noted.                                                                           *)
LEMMA HandlerKeepsCountdown ==
  ASSUME CountdownInv, NEW h \in Handler, HandlerStep(h)
  PROVE  JobsFit' /\ PendingIsWaiting' /\ TimerWillRun'
  <1>0. /\ JobsFit /\ PendingIsWaiting /\ TimerWillRun /\ auction \in AuctionRow
        /\ timer \in Int \cup {None} /\ job[h].secs \in Int /\ Turn \in Int
        /\ OrTurn(auction.pausedLeft) \in Int
    BY SettingsAssumption DEF CountdownInv, AuctionInv, AuctionTypeOK, AuctionRow, JobsFit, OrTurn
  <1>1. CASE CheckAutoConfirm(h)
    <2> DEFINE todo == IF NoRivalCanBid THEN "autoConfirm" ELSE "resetTimer"
    <2>1. todo \in Todo \ {"idle", "resumeTimer"}
      BY DEF Todo, StopFirst
    <2>2. job' = [job EXCEPT ![h] = [todo |-> todo, secs |-> 0]]
      BY <1>1 DEF CheckAutoConfirm, ThenDo
    <2>3. auction' = auction /\ timer' = timer
      BY <1>1 DEF CheckAutoConfirm, auctionVars
    <2> HIDE DEF todo
    <2> QED BY <1>0, <2>1, <2>2, <2>3, BusyCoversBare DEF PendingIsWaiting
  <1>2. CASE ActOnCheck(h)
    <2>1. auction' = auction
      BY <1>2 DEF ActOnCheck, auctionVars
    <2>2. CASE StopTimer /\ ThenDo(h, "confirmChecked")
      <3>1. job' = [job EXCEPT ![h] = [todo |-> "confirmChecked", secs |-> 0]] /\ timer' = None
        BY <2>2 DEF ThenDo, StopTimer
      <3>2. "confirmChecked" \in Todo \ {"idle", "resumeTimer"}
        BY DEF Todo
      <3> QED BY <1>0, <2>1, <3>1, <3>2, BusyCoversBare DEF PendingIsWaiting
    <2>3. CASE StartTimer(Turn) /\ Done(h)
      <3>1. timer' = Turn /\ Turn # None
        BY <1>0, <2>3, NoneAssumption DEF StartTimer
      <3>2. Accounted'
        BY <3>1, Zenon DEF Accounted
      <3> QED BY <1>0, <2>1, <2>3, <3>1, <3>2, DoneLeavesAccounted DEF PendingIsWaiting
    <2> QED BY <1>2, <2>2, <2>3 DEF ActOnCheck
  <1>3. CASE ConfirmChecked(h)
    <2>1. timer' = timer /\ Done(h)
      BY <1>3 DEF ConfirmChecked
    <2>2. CASE ConfirmCurrentBid
      <3>1. ~ Open' /\ PendingIsWaiting'
        BY <1>0, <2>2 DEF ConfirmCurrentBid, AuctionRow, Open, IsOngoing, PendingIsWaiting
      <3> QED BY <1>0, <2>1, <3>1, DoneLeavesAccounted
    <2>3. CASE UNCHANGED auctionVars /\ NoteDrop
      <3>1. auction' = auction
        BY <2>3 DEF auctionVars
      <3> QED BY <1>0, <2>1, <2>3, <3>1, LossesAreNoted, DoneLeavesAccounted DEF PendingIsWaiting
    <2> QED BY <1>3, <2>2, <2>3 DEF ConfirmChecked
  <1>4. CASE StartTimerAfterRead(h)
    <2>1. auction' = auction /\ Done(h)
      BY <1>4 DEF StartTimerAfterRead, auctionVars
    <2>2. timer' = job[h].secs /\ timer' # None
      BY <1>0, <1>4, NoneAssumption DEF StartTimerAfterRead, StartTimer
    <2>3. Accounted'
      BY <2>2, Zenon DEF Accounted
    <2> QED BY <1>0, <2>1, <2>2, <2>3, DoneLeavesAccounted DEF PendingIsWaiting
  <1>5. CASE CallStopped(h)
    <2>1. timer' = timer /\ Done(h)
      BY <1>5 DEF CallStopped
    <2>2. CASE Call(job[h].todo)
      <3>1. ~ Open' /\ PendingIsWaiting'
        BY <1>0, <2>2, NoneAssumption
           DEF Call, ConfirmCurrentBid, PassCurrentPlayer, Reset, PauseAuction, PauseTimer,
               AuctionRow, Open, IsOngoing, PendingIsWaiting
      <3> QED BY <1>0, <2>1, <3>1, DoneLeavesAccounted
    <2>3. CASE UNCHANGED auctionVars /\ NoteDrop
      <3>1. auction' = auction
        BY <2>3 DEF auctionVars
      <3> QED BY <1>0, <2>1, <2>3, <3>1, LossesAreNoted, DoneLeavesAccounted DEF PendingIsWaiting
    <2> QED BY <1>5, <2>2, <2>3 DEF CallStopped
  <1>6. CASE ReadRoomState(h)
    <2>1. auction' = auction /\ timer' = timer
      BY <1>6 DEF ReadRoomState, auctionVars
    <2>2. CASE auction.current # None /\ ~ auction.timerPaused
      <3>1. job' = [job EXCEPT ![h] = [todo |-> "startTimer", secs |-> OrTurn(auction.pausedLeft)]]
        BY <1>6, <2>2 DEF ReadRoomState, ThenDoWith
      <3>2. "startTimer" \in Todo \ {"idle", "resumeTimer"}
        BY DEF Todo
      <3> QED BY <1>0, <2>1, <3>1, <3>2, BusyCovers DEF PendingIsWaiting
    <2>3. CASE ~ (auction.current # None /\ ~ auction.timerPaused)
      <3>1. Done(h)
        BY <1>6, <2>3 DEF ReadRoomState
      <3>2. ~ Open'
        BY <2>1, <2>3, NoneAssumption DEF Open
      <3> QED BY <1>0, <2>1, <3>1, <3>2, DoneLeavesAccounted DEF PendingIsWaiting
    <2> QED BY <2>2, <2>3
  <1>7. CASE CallResumeTimer(h)
    <2>1. UNCHANGED <<timer, expiring, dropped>> /\ job[h].todo = "resumeTimer"
      BY <1>7 DEF CallResumeTimer
    <2>2. CASE ResumeTimer /\ ThenDoWith(h, "startTimer", job[h].secs)
      <3>1. job' = [job EXCEPT ![h] = [todo |-> "startTimer", secs |-> job[h].secs]]
        BY <2>2 DEF ThenDoWith
      <3>2. "startTimer" \in Todo \ {"idle", "resumeTimer"}
        BY DEF Todo
      <3>3. PendingIsWaiting'
        BY <1>0, <2>2 DEF ResumeTimer, AuctionRow, PendingIsWaiting
      <3> QED BY <1>0, <2>1, <3>1, <3>2, <3>3, BusyCovers
    <2>3. CASE Done(h) /\ UNCHANGED auctionVars
      <3>1. auction' = auction
        BY <2>3 DEF auctionVars
      <3>2. "idle" \in Todo /\ job' = [job EXCEPT ![h] = [todo |-> "idle", secs |-> 0]]
        BY <2>3 DEF Done, Idle, Todo
      <3>3. /\ job' \in [Handler -> [todo : Todo, secs : Int]]
            /\ \A g \in Handler : g # h => job'[g] = job[g]
        BY <1>0, <3>2, JobSetBare
      <3>4. \A g \in Handler : Busy(g) => Busy(g)'
        BY <2>1, <3>3 DEF Busy
      <3>5. JobsFit' /\ PendingIsWaiting' /\ (Open' => Open)
        BY <1>0, <2>1, <3>1, <3>3 DEF JobsFit, PendingIsWaiting, Open, IsOngoing
      <3> QED BY <1>0, <2>1, <3>4, <3>5, StaysAccounted, OthersCover
    <2> QED BY <1>7, <2>2, <2>3 DEF CallResumeTimer
  <1> QED BY <1>1, <1>2, <1>3, <1>4, <1>5, <1>6, <1>7 DEF HandlerStep

(* An event that opens or reopens the bidding, or stops the countdown, leaves a handler *)
(* that has more to do.                                                                *)
LEMMA EventKeepsCountdown ==
  ASSUME CountdownInv, NEW h \in Handler, Event(h)
  PROVE  JobsFit' /\ PendingIsWaiting' /\ TimerWillRun'
  <1>0. /\ AuctionTypeOK /\ JobsFit /\ PendingIsWaiting /\ TimerWillRun
        /\ auction \in AuctionRow /\ timer \in Int \cup {None} /\ Turn \in Int
        /\ OrTurn(auction.pausedLeft) \in Int
    BY SettingsAssumption DEF CountdownInv, AuctionInv, AuctionTypeOK, AuctionRow, JobsFit, OrTurn
  <1>1. ASSUME NEW u \in User, NEW t \in User, NEW amt \in BidAmount, HandlePlaceBid(h, u, t, amt)
        PROVE  JobsFit' /\ PendingIsWaiting' /\ TimerWillRun'
    <2>1. PlaceBid(u, t, amt) /\ timer' = timer
      BY <1>1 DEF HandlePlaceBid
    <2>2. /\ job' = [job EXCEPT ![h] = [todo |-> "checkAutoConfirm", secs |-> 0]]
          /\ "checkAutoConfirm" \in Todo \ {"idle", "resumeTimer"}
      BY <1>1 DEF HandlePlaceBid, ThenDo, Todo
    <2>3. PendingIsWaiting'
      BY <1>0, <2>1, TransactionsEndBidding
    <2> QED BY <1>0, <2>1, <2>2, <2>3, BusyCoversBare
  <1>2. ASSUME NEW p \in User, HandleSelectPlayer(h, p)
        PROVE  JobsFit' /\ PendingIsWaiting' /\ TimerWillRun'
    <2>1. SelectPlayer(p) /\ timer' = timer
      BY <1>2 DEF HandleSelectPlayer
    <2>2. /\ job' = [job EXCEPT ![h] = [todo |-> "startTimer", secs |-> Turn]]
          /\ "startTimer" \in Todo \ {"idle", "resumeTimer"}
      BY <1>2 DEF HandleSelectPlayer, ThenDoWith, Todo
    <2>3. PendingIsWaiting'
      BY <1>0, <2>1 DEF SelectPlayer, IsOngoing, AuctionRow, PendingIsWaiting
    <2> QED BY <1>0, <2>1, <2>2, <2>3, BusyCovers
  <1>3. ASSUME NEW msg \in StopFirst, HandleStopFirst(h, msg)
        PROVE  JobsFit' /\ PendingIsWaiting' /\ TimerWillRun'
    <2>1. auction' = auction /\ timer' = None
      BY <1>3 DEF HandleStopFirst, auctionVars, StopTimer
    <2>2. /\ job' = [job EXCEPT ![h] = [todo |-> msg, secs |-> 0]]
          /\ msg \in Todo \ {"idle", "resumeTimer"}
      BY <1>3 DEF HandleStopFirst, ThenDo, Todo, StopFirst
    <2> QED BY <1>0, <2>1, <2>2, BusyCoversBare DEF PendingIsWaiting
  <1>4. CASE HandleResumeAuction(h)
    <2>1. ResumeAuction /\ timer' = timer
      BY <1>4 DEF HandleResumeAuction
    <2>2. /\ job' = [job EXCEPT ![h] = [todo |-> "readRoomState", secs |-> 0]]
          /\ "readRoomState" \in Todo \ {"idle", "resumeTimer"}
      BY <1>4 DEF HandleResumeAuction, ThenDo, Todo
    <2>3. PendingIsWaiting'
      BY <1>0, <2>1 DEF ResumeAuction, AuctionRow, PendingIsWaiting
    <2> QED BY <1>0, <2>1, <2>2, <2>3, BusyCoversBare
  <1>5. CASE HandleResumeTimer(h)
    <2>1. UNCHANGED <<timer, expiring, dropped>> /\ auction' = auction /\ job[h].todo = "idle"
      BY <1>5 DEF HandleResumeTimer, Arrives, auctionVars
    <2>2. /\ job' = [job EXCEPT ![h] = [todo |-> "resumeTimer", secs |-> OrTurn(auction.pausedLeft)]]
          /\ "resumeTimer" \in Todo
      BY <1>5 DEF HandleResumeTimer, ThenDoWith, Todo
    <2>3. /\ job' \in [Handler -> [todo : Todo, secs : Int]]
          /\ \A g \in Handler : g # h => job'[g] = job[g]
      BY <1>0, <2>2, JobSet
    <2>4. \A g \in Handler : Busy(g) => Busy(g)'
      BY <2>1, <2>3 DEF Busy
    <2>5. JobsFit' /\ PendingIsWaiting' /\ (Open' => Open)
      BY <1>0, <2>1, <2>3 DEF JobsFit, PendingIsWaiting, Open, IsOngoing
    <2> QED BY <1>0, <2>1, <2>4, <2>5, StaysAccounted, OthersCover
  <1> QED BY <1>1, <1>2, <1>3, <1>4, <1>5 DEF Event

(* The clock stops the countdown only when its callback is due.  *)
LEMMA SecondKeepsCountdown ==
  ASSUME CountdownInv, Second
  PROVE  JobsFit' /\ PendingIsWaiting' /\ TimerWillRun'
  <1>1. JobsFit /\ PendingIsWaiting /\ TimerWillRun /\ auction \in AuctionRow
    BY DEF CountdownInv, AuctionInv, AuctionTypeOK
  <1>2. /\ auction'.status = auction.status /\ auction'.phase = auction.phase
        /\ auction'.current = auction.current /\ auction'.timerPaused = auction.timerPaused
    BY <1>1 DEF Second, AuctionRow
  <1>3. timer' = (IF timer \in {None, 1} THEN None ELSE timer - 1) /\ job' = job
    BY DEF Second
  <1>4. (Open' => Open) /\ JobsFit' /\ PendingIsWaiting'
    BY <1>1, <1>2, <1>3 DEF Open, IsOngoing, JobsFit, PendingIsWaiting
  <1>5. timer # None => timer' # None \/ timer = 1
    BY <1>1, <1>3, NoneAssumption DEF JobsFit
  <1>6. /\ expiring => expiring'
        /\ timer = 1 => expiring'
        /\ dropped => dropped'
    BY Zenon DEF Second
  <1>7. Accounted => Accounted'
    BY <1>5, <1>6, Zenon DEF Accounted
  <1>8. \A g \in Handler : Busy(g) => Busy(g)'
    BY <1>3 DEF Busy
  <1> QED BY <1>1, <1>4, <1>7, <1>8, OthersCover

(* A countdown that runs out ends the bidding. *)
LEMMA ExpiryKeepsCountdown ==
  ASSUME CountdownInv, HandleTimerExpired
  PROVE  JobsFit' /\ PendingIsWaiting' /\ TimerWillRun'
  <1>1. JobsFit /\ PendingIsWaiting /\ AuctionInv /\ auction \in AuctionRow
    BY DEF CountdownInv, AuctionInv, AuctionTypeOK
  <1>2. timer' = timer /\ job' = job
    BY DEF HandleTimerExpired
  <1>3. ~ Open' /\ PendingIsWaiting'
    <2>1. CASE AutoConfirmOnTimeout
      BY <1>1, <2>1, NoneAssumption
         DEF AutoConfirmOnTimeout, Open, IsOngoing, AuctionRow, PendingIsWaiting
    <2>2. CASE /\ ~ (Confirmable /\ IsOngoing
                     /\ (HighestBidders(auction.current) # {} => ~ AlreadySold))
               /\ UNCHANGED auctionVars
      <3>1. ~ Open
        BY <1>1, <2>2, OpenCanEnd DEF Open
      <3>2. auction' = auction
        BY <2>2 DEF auctionVars
      <3> QED BY <1>1, <3>1, <3>2 DEF Open, IsOngoing, PendingIsWaiting
    <2> QED BY <2>1, <2>2 DEF HandleTimerExpired
  <1> QED BY <1>1, <1>2, <1>3 DEF JobsFit, TimerWillRun

(* What the transactions do to the bidding, when the gateway's own state stays. *)
LEMMA EndingsKeepCountdown ==
  ASSUME CountdownInv, Open' => Open, UNCHANGED <<timer, job, expiring, dropped>>
  PROVE  JobsFit' /\ TimerWillRun'
  <1>1. JobsFit' /\ \A g \in Handler : Busy(g) => Busy(g)'
    BY DEF CountdownInv, JobsFit, Busy
  <1> QED BY <1>1, StaysAccounted, OthersCover DEF CountdownInv

LEMMA StepKeepsCountdown ==
  ASSUME OrderlyEnrolled, CountdownInv, [Next]_vars
  PROVE  CountdownInv'
  <1>1. AuctionInv'
    BY GatewayStep, NextKeepsInv DEF CountdownInv, AuctionInv
  <1>2. JobsFit /\ PendingIsWaiting /\ AuctionTypeOK /\ auction \in AuctionRow
    BY DEF CountdownInv, AuctionInv, AuctionTypeOK
  <1>3. JobsFit' /\ PendingIsWaiting' /\ TimerWillRun'
    <2>1. CASE \E h \in Handler : HandlerStep(h) \/ Event(h)
      BY <2>1, HandlerKeepsCountdown, EventKeepsCountdown
    <2>2. CASE HandlePlain
      <3>1. (Open' => Open) /\ PendingIsWaiting'
        BY <1>2, <2>2, TransactionsEndBidding DEF HandlePlain
      <3>2. UNCHANGED <<timer, job, expiring, dropped>>
        BY <2>2 DEF HandlePlain, gatewayVars
      <3> QED BY <3>1, <3>2, EndingsKeepCountdown
    <2>3. CASE RestCall
      <3>1. timer' = timer /\ job' = job
        BY <2>3 DEF RestCall
      <3>2. CASE (\E u, t \in User, amt \in BidAmount : PlaceBid(u, t, amt)) /\ UNCHANGED dropped
        <4>1. (Open' => Open) /\ PendingIsWaiting'
          BY <1>2, <3>2, TransactionsEndBidding
        <4>2. UNCHANGED <<timer, job, expiring, dropped>>
          BY <2>3, <3>2 DEF RestCall
        <4> QED BY <4>1, <4>2, EndingsKeepCountdown
      <3>3. CASE (\E p \in User : SelectPlayer(p)) /\ NoteDrop
        <4>1. PendingIsWaiting'
          BY <1>2, <3>3 DEF SelectPlayer, IsOngoing, AuctionRow, PendingIsWaiting
        <4>2. Open' => Accounted'
          BY <3>3, LossesAreNoted
        <4>3. TimerWillRun'
          BY <4>2, Zenon DEF TimerWillRun
        <4> QED BY <1>2, <3>1, <4>1, <4>3 DEF JobsFit
      <3> QED BY <2>3, <3>2, <3>3 DEF RestCall
    <2>4. CASE Second
      BY <2>4, SecondKeepsCountdown
    <2>5. CASE HandleTimerExpired
      BY <2>5, ExpiryKeepsCountdown
    <2>6. CASE Restart
      <3>1. auction' = auction
        BY <2>6 DEF Restart, auctionVars
      <3>2. timer' = None /\ job' = [h \in Handler |-> Idle]
        BY <2>6 DEF Restart
      <3>3. JobsFit' /\ PendingIsWaiting'
        BY <1>2, <3>1, <3>2 DEF JobsFit, Idle, Todo, PendingIsWaiting
      <3>4. Open' => Accounted'
        BY <2>6, LossesAreNoted DEF Restart
      <3>5. TimerWillRun'
        BY <3>4, Zenon DEF TimerWillRun
      <3> QED BY <3>3, <3>5
    <2>7. CASE UNCHANGED vars
      <3>1. UNCHANGED <<timer, job, expiring, dropped>> /\ UNCHANGED auctionVars
        BY <2>7 DEF vars, gatewayVars
      <3>2. auction' = auction
        BY <3>1 DEF auctionVars
      <3>3. (Open' => Open) /\ PendingIsWaiting'
        BY <1>2, <3>2 DEF Open, IsOngoing, PendingIsWaiting
      <3> QED BY <3>1, <3>3, EndingsKeepCountdown
    <2> QED BY <2>1, <2>2, <2>3, <2>4, <2>5, <2>6, <2>7 DEF Next
  <1> QED BY <1>1, <1>3 DEF CountdownInv

(* While bidding is open and no handler is at work, a countdown is running, unless it   *)
(* was lost by a call that was refused, by a restart or by a selection through REST:    *)
(* however handlers overlap, whoever sends what, nothing else loses it.                 *)
THEOREM OpenBiddingIsTimed ==
  ASSUME OrderlyEnrolled PROVE Spec => []OpenBiddingHasTimer
  <1>1. Init => CountdownInv
    <2> SUFFICES ASSUME Init PROVE CountdownInv
      OBVIOUS
    <2>1. AuctionInv
      BY InitInv DEF Init
    <2>2. auction.status = "PENDING" /\ auction.phase = "WAITING"
      BY DEF Init, AuctionInit, NewAuction
    <2>3. JobsFit
      BY DEF Init, JobsFit, Idle, Todo
    <2> QED BY <2>1, <2>2, <2>3
            DEF CountdownInv, PendingIsWaiting, TimerWillRun, Open, IsOngoing
  <1>2. CountdownInv /\ [Next]_vars => CountdownInv'
    BY StepKeepsCountdown
  <1>3. CountdownInv => OpenBiddingHasTimer
    <2> SUFFICES ASSUME CountdownInv, \E p \in User : BiddingOpen(p), ~ expiring, ~ dropped,
                        \A h \in Handler : job[h] = Idle
                 PROVE  timer # None
      BY Zenon DEF OpenBiddingHasTimer
    <2>1. Open
      BY DEF BiddingOpen, Open
    <2>2. \A h \in Handler : ~ Busy(h)
      BY DEF Idle, Busy
    <2>3. TimerWillRun
      BY DEF CountdownInv
    <2> QED BY <2>1, <2>2, <2>3, Zenon DEF TimerWillRun, Accounted
  <1> QED BY <1>1, <1>2, <1>3, PTL DEF Spec

-----------------------------------------------------------------------------
(* The room: the gateway's handlers and the pages. *)

RoomView ==
  [status : AuctionStatus \cup {"GONE"}, phase : BiddingPhase, current : User \cup {None},
   teams : Nat, participants : [Row -> Entry \cup {None}],
   currentBid : [bidder : User, amount : Nat] \cup {None}]

Views == RoomView \cup {None}
Letter == [event : RoomMessage, state : Views]

TaskState ==
       {Resting}
  \cup [at : {"join", "answer"}, by : Client]
  \cup [at : {"call"}, request : RoomRequest, shown : User \cup {None}]
  \cup [at : {"read"}, event : RoomMessage]
  \cup [at : {"tell"}, event : RoomMessage, state : Views]
  \cup [at : {"check"}]

(* A handler that lets a page join does so for a page that is still there. *)
JoinsWhoIsThere(todo) ==
  /\ todo.at = "join" => online[todo.by]
  /\ todo.at = "answer" => joined[todo.by]

(* A bid names the player its page showed, and an amount that may be sent. *)
BidsForShown(todo) ==
  todo.at = "call" /\ todo.request.event = "placeBid" =>
    todo.request.player = todo.shown /\ todo.shown \in User /\ todo.request.amount \in BidAmount

BareSaysNothing(todo) == todo.at = "tell" /\ todo.event = Bare => todo.state = None

PagesAndTasks ==
  /\ online \in [Client -> BOOLEAN] /\ joined \in [Client -> BOOLEAN]
  /\ view \in [Client -> Views] /\ inbox \in [Client -> Seq(Letter)]
  /\ task \in [Task -> TaskState] /\ latest \in [state : Views, current : BOOLEAN]
  /\ \A c \in Client : (joined[c] => online[c]) /\ (inbox[c] # <<>> => joined[c])
                         /\ Len(inbox[c]) <= MaxInbox
  /\ \A h \in Task :
       JoinsWhoIsThere(task[h]) /\ BidsForShown(task[h]) /\ BareSaysNothing(task[h])

Joining(c) == \E h \in Task : task[h].at \in {"join", "answer"} /\ task[h].by = c

(* With what is on its way to it the page will show what was told last, or nothing: the *)
(* last message it listens to says so, or if there is none, the page shows it already.  *)
WillFollow(messages, shown, last) ==
  \/ /\ \A i \in 1..Len(messages) : messages[i].event \in Unheard
     /\ shown \in {None, last}
  \/ \E i \in 1..Len(messages) :
       /\ messages[i].event \notin Unheard /\ messages[i].state \in {None, last}
       /\ \A j \in (i + 1)..Len(messages) : messages[j].event \in Unheard

PagesWillFollow ==
  \A c \in Client : joined[c] /\ ~ Joining(c) => WillFollow(inbox[c], view[c], latest.state)

(* A change that is not told yet has a handler that will. *)
ChangesWillBeTold ==
  latest.current =>
    \/ latest.state \in {None, RoomState}
    \/ \E h \in Task : task[h].at \in {"read", "tell"}

RoomInv == AuctionInv /\ PagesAndTasks /\ PagesWillFollow /\ ChangesWillBeTold

-----------------------------------------------------------------------------
(* What pages are told, and what they may ask. *)

(* What a handler reads is something a page can show. *)
LEMMA RoomStateType ==
  ASSUME AuctionTypeOK
  PROVE  RoomState \in RoomView
  <1>1. auction \in AuctionRow /\ entry \in [Row -> Entry \cup {None}]
    BY DEF AuctionTypeOK
  <1>2. /\ auction.status \in AuctionStatus \cup {"GONE"} /\ auction.phase \in BiddingPhase
        /\ auction.current \in User \cup {None} /\ auction.teams \in Nat
    BY <1>1 DEF AuctionRow
  <1>3. CurrentBid \in [bidder : User, amount : Nat] \cup {None}
    <2>1. CASE auction.current = None \/ HighestBid(auction.current) = 0
      BY <2>1 DEF CurrentBid
    <2>2. CASE auction.current # None /\ HighestBid(auction.current) # 0
      <3>1. auction.current \in User
        BY <1>2, <2>2
      <3>2. PICK t \in User : t = auction.current
        BY <3>1
      <3>3. HighestBid(t) \in Nat /\ \E v \in User : bid[v][t] = HighestBid(t)
        BY <3>2, HighestIsSomebodys
      <3>4. HighestBid(t) > 0
        BY <2>2, <3>2, <3>3
      <3>5. \E v \in User : v \in HighestBidders(t)
        BY <3>3, <3>4 DEF HighestBidders
      <3>6. (CHOOSE v \in User : v \in HighestBidders(t)) \in User
        BY <3>5
      <3>7. CurrentBid = [bidder |-> CHOOSE v \in User : v \in HighestBidders(t),
                          amount |-> HighestBid(t)]
        BY <2>2, <3>2 DEF CurrentBid
      <3> QED BY <3>3, <3>6, <3>7
    <2> QED BY <2>1, <2>2
  <1> QED BY <1>1, <1>2, <1>3 DEF RoomState, RoomView

(* What a request is made of. *)
LEMMA PlainRequests ==
  ASSUME NEW e \in RoomEvent
  PROVE  /\ Req(e) \in RoomRequest /\ Req(e).event = e
         /\ \A p \in User \cup {None} : ReqFor(e, p) \in RoomRequest /\ ReqFor(e, p).event = e
  BY DEF Req, ReqFor, RoomRequest

(* The events of the gateway and what is told of them. *)
LEMMA RoomEvents ==
  /\ {"startAuction", "selectPlayer", "placeBid", "confirmBid", "autoConfirm", "passPlayer",
      "nextPlayer", "completeAuction", "resetAuction", "pauseAuction", "resumeAuction",
      "undoSoldPlayer", "enterAssignmentPhase", "manualAssignPlayer", "timerExpired"} \subseteq RoomEvent
  /\ \A e \in RoomEvent : Told[e] \in RoomMessage
  /\ Bare \in RoomMessage
  <1>1. \A e \in RoomEvent : Told[e] \in RoomMessage
    BY DEF RoomMessage
  <1>2. Bare \in RoomMessage
    BY DEF RoomMessage
  <1> QED BY <1>1, <1>2 DEF RoomEvent, Told

(* Those a page shows are users. *)
LEMMA ShownAreUsers ==
  ASSUME NEW s \in RoomView, NEW role
  PROVE  /\ UsersAt(s, Of(s, role)) \subseteq User
         /\ UsersAt(s, OpenPlayers(s)) \subseteq User
         /\ UsersAt(s, SelectablePool(s)) \subseteq User
  <1>1. \A r \in Row : s.participants[r] # None => s.participants[r].user \in User
    BY DEF RoomView, Entry
  <1>2. \A x : \A r \in Of(s, x) : r \in Row /\ s.participants[r] # None
    BY DEF Of
  <1>3. OpenPlayers(s) \subseteq Of(s, "PLAYER") /\ SelectablePool(s) \subseteq Of(s, "PLAYER")
    BY DEF OpenPlayers, SelectablePool, Unattempted
  <1> QED BY <1>1, <1>2, <1>3 DEF UsersAt

(* A click asks for something, and a bid is for the player on the screen. *)
LEMMA ClicksMakeSense ==
  ASSUME PagesAndTasks, NEW c \in Client, NEW q \in Offered(c)
  PROVE  /\ q \in RoomRequest /\ view[c].current \in User \cup {None}
         /\ q.event = "placeBid" =>
              q.player = view[c].current /\ view[c].current \in User /\ q.amount \in BidAmount
  <1>1. PICK s : s = view[c]
    OBVIOUS
  <1>2. s \in Views /\ s # None
    BY <1>1 DEF PagesAndTasks, Offered
  <1>3. s \in RoomView
    BY <1>2 DEF Views
  <1>4. s.current \in User \cup {None}
    BY <1>3 DEF RoomView
  <1>5. \/ q \in AuctionPendingMaster(s) \/ q \in AuctionOngoingMaster(s)
        \/ \E u \in User : q \in AuctionOngoingCaptain(s, u)
    <2>1. UsersAt(s, Of(s, "CAPTAIN")) \subseteq User
      BY <1>3, ShownAreUsers
    <2> QED BY <1>1, <1>2, <2>1 DEF Offered
  <1>6. CASE q \in AuctionPendingMaster(s)
    <2>1. q = Req("startAuction")
      BY <1>6 DEF AuctionPendingMaster
    <2> QED BY <1>1, <1>4, <2>1, PlainRequests, RoomEvents
  <1>7. CASE q \in AuctionOngoingMaster(s)
    <2>1. CASE q \in AssignmentPanel(s)
      <3>1. PICK p \in User, w \in User :
              q = [event |-> "manualAssignPlayer", player |-> p, captain |-> w, amount |-> 0]
        <4>1. UsersAt(s, OpenPlayers(s)) \subseteq User /\ UsersAt(s, Of(s, "CAPTAIN")) \subseteq User
          BY <1>3, ShownAreUsers
        <4> QED BY <2>1, <4>1 DEF AssignmentPanel
      <3> QED BY <1>1, <1>4, <3>1, RoomEvents DEF RoomRequest
    <2>2. CASE \E p \in UsersAt(s, SelectablePool(s)) : q = ReqFor("selectPlayer", p)
      <3>1. PICK p \in User : q = ReqFor("selectPlayer", p)
        BY <1>3, <2>2, ShownAreUsers
      <3> QED BY <1>1, <1>4, <3>1, PlainRequests, RoomEvents
    <2>3. CASE \E e \in {"completeAuction", "resetAuction", "enterAssignmentPhase", "confirmBid",
                         "passPlayer", "nextPlayer"} : q = Req(e)
      <3>1. PICK e \in RoomEvent : e # "placeBid" /\ q = Req(e)
        BY <2>3, RoomEvents
      <3> QED BY <1>1, <1>4, <3>1, PlainRequests
    <2> QED BY <1>7, <2>1, <2>2, <2>3
         DEF AuctionOngoingMaster, CompleteButton, EnterAssignmentButton
  <1>8. ASSUME NEW u \in User, q \in AuctionOngoingCaptain(s, u)
        PROVE  q \in RoomRequest /\ q.player = s.current /\ s.current # None /\ q.amount \in BidAmount
    <2>1. PICK amt \in BidAmount :
            /\ q = [event |-> "placeBid", player |-> s.current, captain |-> u, amount |-> amt]
            /\ s.current # None
      BY <1>8 DEF AuctionOngoingCaptain
    <2> QED BY <1>4, <2>1, RoomEvents, BidAmountAssumption DEF RoomRequest
  <1> QED BY <1>1, <1>4, <1>5, <1>6, <1>7, <1>8

-----------------------------------------------------------------------------
(* What pages will show. *)

(* A message that is not listened to changes nothing; any other is what the page will   *)
(* show.                                                                                *)
LEMMA AppendFollows ==
  ASSUME NEW S, NEW messages \in Seq(S), NEW m \in S, NEW shown, NEW last,
         \/ m.event \notin Unheard /\ m.state \in {None, last}
         \/ m.event \in Unheard /\ WillFollow(messages, shown, last)
  PROVE  WillFollow(Append(messages, m), shown, last)
  <1>1. PICK n \in Nat : n = Len(messages)
    OBVIOUS
  <1>2. PICK a \in Seq(S) : a = Append(messages, m)
    BY AppendProperties
  <1>3. Len(a) = n + 1 /\ a[n + 1] = m /\ \A i \in 1..n : a[i] = messages[i]
    BY <1>1, <1>2, AppendProperties
  <1>4. WillFollow(a, shown, last)
    <2>1. CASE m.event \notin Unheard /\ m.state \in {None, last}
      <3>1. n + 1 \in 1..Len(a) /\ \A j \in (n + 1 + 1)..Len(a) : a[j].event \in Unheard
        BY <1>1, <1>3
      <3> QED BY <1>3, <2>1, <3>1 DEF WillFollow
    <2>2. CASE /\ m.event \in Unheard /\ shown \in {None, last}
               /\ \A i \in 1..n : messages[i].event \in Unheard
      <3>1. \A i \in 1..Len(a) : i = n + 1 \/ i \in 1..n
        BY <1>1, <1>3
      <3>2. \A i \in 1..Len(a) : a[i].event \in Unheard
        BY <1>3, <2>2, <3>1
      <3> QED BY <2>2, <3>2 DEF WillFollow
    <2>3. ASSUME m.event \in Unheard, NEW i \in 1..n, messages[i].event \notin Unheard,
                 messages[i].state \in {None, last},
                 \A j \in (i + 1)..n : messages[j].event \in Unheard
          PROVE  WillFollow(a, shown, last)
      <3>1. i \in 1..Len(a) /\ a[i] = messages[i]
        BY <1>1, <1>3
      <3>2. \A j \in (i + 1)..Len(a) : j = n + 1 \/ (j \in 1..n /\ j \in (i + 1)..n)
        BY <1>1, <1>3
      <3>3. \A j \in (i + 1)..Len(a) : a[j].event \in Unheard
        BY <1>3, <2>3, <3>2
      <3> QED BY <2>3, <3>1, <3>3 DEF WillFollow
    <2> QED BY <1>1, <2>1, <2>2, <2>3 DEF WillFollow
  <1> QED BY <1>2, <1>4

(* The page hears the first of the messages. *)
LEMMA HearingFollows ==
  ASSUME NEW S, NEW messages \in Seq(S), messages # <<>>, NEW shown, NEW last,
         WillFollow(messages, shown, last)
  PROVE  WillFollow(Tail(messages),
                    IF Head(messages).event \in Unheard THEN shown ELSE Head(messages).state, last)
  <1>1. PICK n \in Nat : n = Len(messages) /\ n > 0
    BY EmptySeq
  <1>2. PICK t \in Seq(S) : t = Tail(messages)
    BY HeadTailProperties
  <1>3. Len(t) = n - 1 /\ \A i \in 1..(n - 1) : t[i] = messages[i + 1]
    BY <1>1, <1>2, HeadTailProperties
  <1>4. Head(messages) = messages[1] /\ 1 \in 1..n
    BY <1>1
  <1>5. PICK v : v = IF Head(messages).event \in Unheard THEN shown ELSE Head(messages).state
    OBVIOUS
  <1>6. WillFollow(t, v, last)
    <2>1. CASE shown \in {None, last} /\ \A i \in 1..n : messages[i].event \in Unheard
      <3>1. v = shown
        BY <1>4, <1>5, <2>1
      <3>2. \A i \in 1..Len(t) : i \in 1..(n - 1) /\ i + 1 \in 1..n
        BY <1>1, <1>3
      <3>3. \A i \in 1..Len(t) : t[i].event \in Unheard
        BY <1>3, <2>1, <3>2
      <3> QED BY <2>1, <3>1, <3>3 DEF WillFollow
    <2>2. ASSUME NEW i \in 1..n, messages[i].event \notin Unheard,
                 messages[i].state \in {None, last},
                 \A j \in (i + 1)..n : messages[j].event \in Unheard
          PROVE  WillFollow(t, v, last)
      <3>1. CASE i = 1
        <4>1. v \in {None, last}
          BY <1>4, <1>5, <2>2, <3>1
        <4>2. \A j \in 1..Len(t) : j \in 1..(n - 1) /\ j + 1 \in (i + 1)..n
          BY <1>1, <1>3, <3>1
        <4>3. \A j \in 1..Len(t) : t[j].event \in Unheard
          BY <1>3, <2>2, <4>2
        <4> QED BY <4>1, <4>3 DEF WillFollow
      <3>2. CASE i # 1
        <4>1. PICK k : k = i - 1
          OBVIOUS
        <4>2. k \in 1..Len(t) /\ t[k] = messages[i]
          <5>1. k \in 1..(n - 1) /\ k + 1 = i
            BY <1>1, <3>2, <4>1
          <5> QED BY <1>3, <5>1
        <4>3. \A j \in (k + 1)..Len(t) : j \in 1..(n - 1) /\ j + 1 \in (i + 1)..n
          BY <1>1, <1>3, <3>2, <4>1
        <4>4. \A j \in (k + 1)..Len(t) : t[j].event \in Unheard
          BY <1>3, <2>2, <4>3
        <4> QED BY <2>2, <4>2, <4>4 DEF WillFollow
      <3> QED BY <3>1, <3>2
    <2> QED BY <1>1, <2>1, <2>2 DEF WillFollow
  <1> QED BY <1>2, <1>5, <1>6

-----------------------------------------------------------------------------
(* The handlers' tasks. *)

(* What a handler has at hand, by what it does next. *)
LEMMA TaskFields ==
  ASSUME NEW todo \in TaskState
  PROVE  /\ todo.at \in {"idle", "join", "answer", "call", "read", "tell", "check"}
         /\ todo.at \in {"join", "answer"} => todo.by \in Client
         /\ todo.at = "call" => todo.request \in RoomRequest /\ todo.shown \in User \cup {None}
         /\ todo.at = "read" => todo.event \in RoomMessage
         /\ todo.at = "tell" => todo.event \in RoomMessage /\ todo.state \in Views
         /\ todo.at = "idle" => todo = Resting
  BY DEF TaskState, Resting

(* One handler goes on, the others stay where they are. *)
LEMMA TaskDoes ==
  ASSUME task \in [Task -> TaskState], NEW h \in Task, NEW todo \in TaskState, Does(h, todo)
  PROVE  /\ task' \in [Task -> TaskState] /\ task'[h] = todo
         /\ \A g \in Task \ {h} : task'[g] = task[g]
  BY DEF Does

(* What a handler does before and after it lets somebody join changes no page. *)
LEMMA TaskKeepsPages ==
  ASSUME PagesAndTasks, PagesWillFollow, NEW h \in Task, NEW todo \in TaskState, Does(h, todo),
         task[h].at \notin {"join", "answer"}, todo.at \notin {"join", "answer"},
         BidsForShown(todo), BareSaysNothing(todo),
         UNCHANGED <<online, joined, view, inbox, latest>>
  PROVE  PagesAndTasks' /\ PagesWillFollow'
  <1>1. /\ task' \in [Task -> TaskState] /\ task'[h] = todo
        /\ \A g \in Task \ {h} : task'[g] = task[g]
    BY TaskDoes DEF PagesAndTasks
  <1>2. ASSUME NEW g \in Task
        PROVE  (JoinsWhoIsThere(task[g]) /\ BidsForShown(task[g]) /\ BareSaysNothing(task[g]))'
    <2>1. JoinsWhoIsThere(task[g]) /\ BidsForShown(task[g]) /\ BareSaysNothing(task[g])
      BY DEF PagesAndTasks
    <2> QED BY <1>1, <2>1 DEF JoinsWhoIsThere, BidsForShown, BareSaysNothing
  <1>3. \A c : Joining(c)' => Joining(c)
    BY <1>1 DEF Joining
  <1>4. \A c : Joining(c) => Joining(c)'
    BY <1>1 DEF Joining
  <1>5. PagesAndTasks'
    BY <1>1, <1>2 DEF PagesAndTasks
  <1>6. PagesWillFollow'
    BY <1>3, <1>4 DEF PagesWillFollow, WillFollow
  <1> QED BY <1>5, <1>6

(* Nothing of the auction changes, nothing is told, and no handler gives up telling. *)
LEMMA StillToldOrTelling ==
  ASSUME ChangesWillBeTold, UNCHANGED <<auctionVars, latest>>,
         \A h \in Task : task[h].at \in {"read", "tell"} => task'[h].at \in {"read", "tell"}
  PROVE  ChangesWillBeTold'
  <1>1. RoomState' = RoomState
    BY DEF auctionVars, RoomState, CurrentBid, HighestBid, HighestBidders
  <1> QED BY <1>1 DEF ChangesWillBeTold

-----------------------------------------------------------------------------
(* Connections. *)

(* A page that connects is not in the room yet, so nothing is promised to it. *)
LEMMA ConnectKeepsPages ==
  ASSUME PagesAndTasks, PagesWillFollow, NEW h \in Task, NEW c \in Client, Connect(h, c)
  PROVE  PagesAndTasks' /\ PagesWillFollow'
  <1>1. PICK todo : todo = [at |-> "join", by |-> c]
    OBVIOUS
  <1>2. todo \in TaskState /\ todo.at = "join" /\ todo.by = c
    BY <1>1 DEF TaskState
  <1>3. /\ ~ online[c] /\ ~ joined[c] /\ task[h].at = "idle"
        /\ online' = [online EXCEPT ![c] = TRUE] /\ Does(h, todo)
        /\ UNCHANGED <<joined, view, inbox, latest>>
    BY <1>1 DEF Connect, PagesAndTasks, Resting
  <1>4. /\ task' \in [Task -> TaskState] /\ task'[h] = todo
        /\ \A g \in Task \ {h} : task'[g] = task[g]
    BY <1>2, <1>3, TaskDoes DEF PagesAndTasks
  <1>5. online' \in [Client -> BOOLEAN] /\ \A d \in Client : online[d] => online'[d]
    BY <1>3 DEF PagesAndTasks
  <1>6. online'[c]
    BY <1>3 DEF PagesAndTasks
  <1>7. ASSUME NEW g \in Task
        PROVE  (JoinsWhoIsThere(task[g]) /\ BidsForShown(task[g]) /\ BareSaysNothing(task[g]))'
    <2>1. CASE g = h
      BY <1>2, <1>4, <1>6, <2>1 DEF JoinsWhoIsThere, BidsForShown, BareSaysNothing
    <2>2. CASE g # h
      <3>1. task'[g] = task[g] /\ task[g] \in TaskState
        BY <1>4, <2>2 DEF PagesAndTasks
      <3>2. JoinsWhoIsThere(task[g]) /\ BidsForShown(task[g]) /\ BareSaysNothing(task[g])
        BY DEF PagesAndTasks
      <3>3. task[g].at = "join" => task[g].by \in Client
        BY <3>1, TaskFields
      <3> QED BY <1>3, <1>5, <3>1, <3>2, <3>3 DEF JoinsWhoIsThere, BidsForShown, BareSaysNothing
    <2> QED BY <2>1, <2>2
  <1>8. PagesAndTasks'
    BY <1>3, <1>4, <1>5, <1>7 DEF PagesAndTasks
  <1>9. ASSUME NEW d \in Client, joined[d], ~ Joining(d)' PROVE ~ Joining(d)
    BY <1>3, <1>4, <1>9 DEF Joining
  <1>10. PagesWillFollow'
    BY <1>3, <1>9 DEF PagesWillFollow, WillFollow
  <1> QED BY <1>8, <1>10

(* Nor while the answer to its joining is still to be sent. *)
LEMMA JoinKeepsPages ==
  ASSUME PagesAndTasks, PagesWillFollow, NEW h \in Task, JoinRoom(h)
  PROVE  PagesAndTasks' /\ PagesWillFollow'
  <1>1. PICK c \in Client : task[h].at = "join" /\ task[h].by = c
    BY TaskFields DEF JoinRoom, PagesAndTasks
  <1>2. PICK todo : todo = [at |-> "answer", by |-> c]
    OBVIOUS
  <1>3. todo \in TaskState /\ todo.at = "answer" /\ todo.by = c
    BY <1>2 DEF TaskState
  <1>4. /\ joined' = [joined EXCEPT ![c] = TRUE] /\ Does(h, todo)
        /\ UNCHANGED <<online, view, inbox, latest>>
    BY <1>1, <1>2 DEF JoinRoom
  <1>5. /\ task' \in [Task -> TaskState] /\ task'[h] = todo
        /\ \A g \in Task \ {h} : task'[g] = task[g]
    BY <1>3, <1>4, TaskDoes DEF PagesAndTasks
  <1>6. /\ joined' \in [Client -> BOOLEAN] /\ joined'[c]
        /\ \A d \in Client : joined'[d] <=> joined[d] \/ d = c
    BY <1>4 DEF PagesAndTasks
  <1>7. online[c]
    BY <1>1 DEF PagesAndTasks, JoinsWhoIsThere
  <1>8. ASSUME NEW g \in Task
        PROVE  (JoinsWhoIsThere(task[g]) /\ BidsForShown(task[g]) /\ BareSaysNothing(task[g]))'
    <2>1. CASE g = h
      BY <1>3, <1>5, <1>6, <2>1 DEF JoinsWhoIsThere, BidsForShown, BareSaysNothing
    <2>2. CASE g # h
      <3>1. task'[g] = task[g] /\ task[g] \in TaskState
        BY <1>5, <2>2 DEF PagesAndTasks
      <3>2. JoinsWhoIsThere(task[g]) /\ BidsForShown(task[g]) /\ BareSaysNothing(task[g])
        BY DEF PagesAndTasks
      <3>3. task[g].at = "answer" => task[g].by \in Client
        BY <3>1, TaskFields
      <3> QED BY <1>4, <1>6, <3>1, <3>2, <3>3 DEF JoinsWhoIsThere, BidsForShown, BareSaysNothing
    <2> QED BY <2>1, <2>2
  <1>9. PagesAndTasks'
    BY <1>4, <1>5, <1>6, <1>7, <1>8 DEF PagesAndTasks
  <1>10. ASSUME NEW d \in Client, joined'[d], ~ Joining(d)' PROVE joined[d] /\ ~ Joining(d)
    <2>1. d # c
      BY <1>3, <1>5, <1>10 DEF Joining
    <2> QED BY <1>1, <1>5, <1>6, <1>10, <2>1 DEF Joining
  <1>11. PagesWillFollow'
    BY <1>4, <1>10 DEF PagesWillFollow, WillFollow
  <1> QED BY <1>9, <1>11

(* One more message on the way to a page; the others are not concerned. *)
LEMMA AnswerKeepsPages ==
  ASSUME PagesAndTasks, PagesWillFollow, NEW h \in Task, AnswerJoin(h)
  PROVE  PagesAndTasks' /\ PagesWillFollow'
  <1>1. PICK c \in Client : task[h].at = "answer" /\ task[h].by = c
    BY TaskFields DEF AnswerJoin, PagesAndTasks
  <1>2. PICK m : m = [event |-> Bare, state |-> None]
    OBVIOUS
  <1>3. m \in Letter /\ m.event \notin Unheard /\ m.state = None
    BY <1>2, RoomEvents DEF Letter, Views, Unheard, Bare
  <1>4. /\ inbox' = [inbox EXCEPT ![c] = Append(inbox[c], m)] /\ Does(h, Resting)
        /\ Len(inbox[c]) < MaxInbox /\ UNCHANGED <<online, joined, view, latest>>
    BY <1>1, <1>2 DEF AnswerJoin, Ends
  <1>5. /\ task' \in [Task -> TaskState] /\ task'[h] = Resting
        /\ \A g \in Task \ {h} : task'[g] = task[g]
    <2>1. Resting \in TaskState
      BY DEF TaskState
    <2> QED BY <1>4, <2>1, TaskDoes DEF PagesAndTasks
  <1>6. PICK s \in Seq(Letter) : s = inbox[c]
    BY DEF PagesAndTasks
  <1>7. /\ Append(s, m) \in Seq(Letter) /\ Append(s, m) # <<>> /\ Len(Append(s, m)) = Len(s) + 1
    BY <1>3, AppendProperties
  <1>8. /\ inbox' \in [Client -> Seq(Letter)] /\ inbox'[c] = Append(s, m)
        /\ \A d \in Client \ {c} : inbox'[d] = inbox[d]
    BY <1>4, <1>6, <1>7 DEF PagesAndTasks
  <1>9. joined[c]
    BY <1>1 DEF PagesAndTasks, JoinsWhoIsThere
  <1>10. ASSUME NEW g \in Task
         PROVE  (JoinsWhoIsThere(task[g]) /\ BidsForShown(task[g]) /\ BareSaysNothing(task[g]))'
    <2>1. JoinsWhoIsThere(task[g]) /\ BidsForShown(task[g]) /\ BareSaysNothing(task[g])
      BY DEF PagesAndTasks
    <2> QED BY <1>4, <1>5, <2>1 DEF JoinsWhoIsThere, BidsForShown, BareSaysNothing, Resting
  <1>11. \A d \in Client : (inbox'[d] # <<>> => joined[d]) /\ Len(inbox'[d]) <= MaxInbox
    <2>1. Len(Append(s, m)) <= MaxInbox
      BY <1>4, <1>6, <1>7, LenProperties, MaxInboxAssumption
    <2> QED BY <1>8, <1>9, <2>1 DEF PagesAndTasks
  <1>12. PagesAndTasks'
    BY <1>4, <1>5, <1>8, <1>10, <1>11 DEF PagesAndTasks
  <1>13. ASSUME NEW d \in Client, joined[d], ~ Joining(d)'
         PROVE  WillFollow(inbox'[d], view[d], latest.state)
    <2>1. CASE d = c
      BY <1>3, <1>8, <2>1, AppendFollows
    <2>2. CASE d # c
      <3>1. ~ Joining(d)
        BY <1>1, <1>5, <1>13, <2>2 DEF Joining
      <3> QED BY <1>8, <1>13, <2>2, <3>1 DEF PagesWillFollow
    <2> QED BY <2>1, <2>2
  <1>14. PagesWillFollow'
    BY <1>4, <1>13 DEF PagesWillFollow, WillFollow
  <1> QED BY <1>12, <1>14

(* Whoever goes takes along what was on the way and the join in progress; the others    *)
(* are not concerned.                                                                   *)
LEMMA GoneKeepsPages ==
  ASSUME PagesAndTasks, PagesWillFollow, NEW c \in Client, Disconnect(c) \/ ClosePage(c)
  PROVE  PagesAndTasks' /\ PagesWillFollow'
  <1>1. /\ online' = [online EXCEPT ![c] = FALSE] /\ joined' = [joined EXCEPT ![c] = FALSE]
        /\ inbox' = [inbox EXCEPT ![c] = <<>>] /\ latest' = latest
        /\ task' = [g \in Task |-> IF task[g].at \in {"join", "answer"} /\ task[g].by = c
                                   THEN Resting ELSE task[g]]
    BY DEF Disconnect, ClosePage, Gone
  <1>2. view' \in [Client -> Views] /\ \A d \in Client \ {c} : view'[d] = view[d]
    BY DEF Disconnect, ClosePage, PagesAndTasks, Views
  <1>3. /\ online' \in [Client -> BOOLEAN] /\ joined' \in [Client -> BOOLEAN]
        /\ ~ joined'[c]
        /\ \A d \in Client \ {c} : online'[d] = online[d] /\ joined'[d] = joined[d]
    BY <1>1 DEF PagesAndTasks
  <1>4. /\ inbox' \in [Client -> Seq(Letter)] /\ inbox'[c] = <<>>
        /\ \A d \in Client \ {c} : inbox'[d] = inbox[d]
    BY <1>1 DEF PagesAndTasks
  <1>5. /\ task' \in [Task -> TaskState]
        /\ \A g \in Task : IF task[g].at \in {"join", "answer"} /\ task[g].by = c
                           THEN task'[g] = Resting ELSE task'[g] = task[g]
    BY <1>1 DEF PagesAndTasks, TaskState
  <1>6. ASSUME NEW g \in Task
        PROVE  (JoinsWhoIsThere(task[g]) /\ BidsForShown(task[g]) /\ BareSaysNothing(task[g]))'
    <2>1. CASE task'[g] = Resting
      BY <2>1 DEF JoinsWhoIsThere, BidsForShown, BareSaysNothing, Resting
    <2>2. CASE task'[g] = task[g] /\ ~ (task[g].at \in {"join", "answer"} /\ task[g].by = c)
      <3>1. task[g] \in TaskState
        BY DEF PagesAndTasks
      <3>2. JoinsWhoIsThere(task[g]) /\ BidsForShown(task[g]) /\ BareSaysNothing(task[g])
        BY DEF PagesAndTasks
      <3>3. task[g].at \in {"join", "answer"} => task[g].by \in Client \ {c}
        BY <2>2, <3>1, TaskFields
      <3> QED BY <1>3, <2>2, <3>2, <3>3 DEF JoinsWhoIsThere, BidsForShown, BareSaysNothing
    <2> QED BY <1>5, <2>1, <2>2
  <1>7. Len(<<>>) <= MaxInbox
    BY MaxInboxAssumption
  <1>8. PagesAndTasks'
    BY <1>1, <1>2, <1>3, <1>4, <1>5, <1>6, <1>7 DEF PagesAndTasks
  <1>9. ASSUME NEW d \in Client, joined'[d], ~ Joining(d)'
        PROVE  d # c /\ joined[d] /\ ~ Joining(d)
    <2>1. d # c
      BY <1>3, <1>9
    <2> QED BY <1>3, <1>5, <1>9, <2>1 DEF Joining
  <1>10. PagesWillFollow'
    BY <1>1, <1>2, <1>4, <1>9 DEF PagesWillFollow, WillFollow
  <1> QED BY <1>8, <1>10

(* A page hears what it is told in the order it was told. *)
LEMMA HearKeepsPages ==
  ASSUME PagesAndTasks, PagesWillFollow, NEW c \in Client, Hear(c)
  PROVE  PagesAndTasks' /\ PagesWillFollow'
  <1>1. PICK s \in Seq(Letter) : s = inbox[c] /\ s # <<>>
    BY DEF PagesAndTasks, Hear
  <1>2. PICK v : v = IF Head(s).event \in Unheard THEN view[c] ELSE Head(s).state
    OBVIOUS
  <1>3. /\ inbox' = [inbox EXCEPT ![c] = Tail(s)] /\ view' = [view EXCEPT ![c] = v]
        /\ UNCHANGED <<online, joined, task, latest>>
    BY <1>1, <1>2 DEF Hear
  <1>4. Head(s) \in Letter /\ Tail(s) \in Seq(Letter) /\ Len(Tail(s)) = Len(s) - 1
    BY <1>1, HeadTailProperties
  <1>5. v \in Views
    BY <1>2, <1>4 DEF Letter, PagesAndTasks
  <1>6. /\ inbox' \in [Client -> Seq(Letter)] /\ inbox'[c] = Tail(s)
        /\ \A d \in Client \ {c} : inbox'[d] = inbox[d]
    BY <1>3, <1>4 DEF PagesAndTasks
  <1>7. /\ view' \in [Client -> Views] /\ view'[c] = v
        /\ \A d \in Client \ {c} : view'[d] = view[d]
    BY <1>3, <1>5 DEF PagesAndTasks
  <1>8. \A d \in Client : (inbox'[d] # <<>> => joined[d]) /\ Len(inbox'[d]) <= MaxInbox
    <2>1. joined[c] /\ Len(Tail(s)) <= MaxInbox
      <3>1. joined[c] /\ Len(s) <= MaxInbox
        BY <1>1 DEF PagesAndTasks
      <3> QED BY <1>1, <1>4, <3>1, LenProperties, MaxInboxAssumption
    <2> QED BY <1>6, <2>1 DEF PagesAndTasks
  <1>9. PagesAndTasks'
    BY <1>3, <1>6, <1>7, <1>8 DEF PagesAndTasks, JoinsWhoIsThere, BidsForShown, BareSaysNothing
  <1>10. ASSUME NEW d \in Client, joined[d], ~ Joining(d)
         PROVE  WillFollow(inbox'[d], view'[d], latest.state)
    <2>1. WillFollow(inbox[d], view[d], latest.state)
      BY <1>10 DEF PagesWillFollow
    <2>2. CASE d = c
      BY <1>1, <1>2, <1>6, <1>7, <2>1, <2>2, HearingFollows
    <2>3. CASE d # c
      BY <1>6, <1>7, <2>1, <2>3
    <2> QED BY <2>2, <2>3
  <1>11. PagesWillFollow'
    <2>1. \A d : Joining(d)' <=> Joining(d)
      BY <1>3 DEF Joining
    <2> QED BY <1>3, <1>10, <2>1 DEF PagesWillFollow
  <1> QED BY <1>9, <1>11

-----------------------------------------------------------------------------
(* Requests. *)

(* A handler at rest takes a request on. *)
LEMMA ReceivesKeepsPages ==
  ASSUME PagesAndTasks, PagesWillFollow, NEW h \in Task, NEW q \in RoomRequest,
         NEW shown \in User \cup {None}, Receives(h, q, shown),
         q.event = "placeBid" => q.player = shown /\ shown \in User /\ q.amount \in BidAmount
  PROVE  PagesAndTasks' /\ PagesWillFollow'
  <1>1. PICK todo : todo = [at |-> "call", request |-> q, shown |-> shown]
    OBVIOUS
  <1>2. todo \in TaskState /\ todo.at = "call" /\ todo.request = q /\ todo.shown = shown
    BY <1>1 DEF TaskState
  <1>3. Does(h, todo) /\ task[h].at = "idle" /\ UNCHANGED <<online, joined, view, inbox, latest>>
    BY <1>1 DEF Receives, Resting
  <1>4. BidsForShown(todo) /\ BareSaysNothing(todo)
    BY <1>2 DEF BidsForShown, BareSaysNothing
  <1> QED BY <1>2, <1>3, <1>4, TaskKeepsPages

(* Every request the process takes on is such a one. *)
LEMMA RequestsKeepPages ==
  ASSUME AuctionTypeOK, PagesAndTasks, PagesWillFollow, NEW h \in Task,
         TimerExpires(h) \/ DirectEvent(h) \/ \E c \in Client : PageClick(h, c)
  PROVE  PagesAndTasks' /\ PagesWillFollow'
  <1>1. CASE TimerExpires(h)
    BY <1>1, RoomEvents, PlainRequests, ReceivesKeepsPages DEF TimerExpires
  <1>2. CASE DirectEvent(h)
    <2>1. PICK e \in Direct :
            \/ \E p \in User : Receives(h, ReqFor(e, p), None)
            \/ Receives(h, Req(e), None)
      BY <1>2 DEF DirectEvent
    <2>2. e \in RoomEvent /\ e # "placeBid"
      BY DirectAssumption
    <2>3. CASE Receives(h, Req(e), None)
      BY <2>2, <2>3, PlainRequests, ReceivesKeepsPages
    <2>4. ASSUME NEW p \in User, Receives(h, ReqFor(e, p), None)
          PROVE  PagesAndTasks' /\ PagesWillFollow'
      <3>1. PICK q \in RoomRequest : q = ReqFor(e, p) /\ q.event = e
        BY <2>2, PlainRequests
      <3>2. Receives(h, q, None)
        BY <2>4, <3>1
      <3> QED BY <2>2, <3>1, <3>2, ReceivesKeepsPages
    <2> QED BY <2>1, <2>3, <2>4
  <1>3. ASSUME NEW c \in Client, PageClick(h, c)
        PROVE  PagesAndTasks' /\ PagesWillFollow'
    <2>1. PICK q \in Offered(c) : Receives(h, q, view[c].current)
      BY <1>3 DEF PageClick
    <2>2. PICK p \in User \cup {None} : p = view[c].current
      BY ClicksMakeSense
    <2>3. /\ q \in RoomRequest
          /\ q.event = "placeBid" => q.player = p /\ p \in User /\ q.amount \in BidAmount
      BY <2>2, ClicksMakeSense
    <2>4. Receives(h, q, p)
      BY <2>1, <2>2
    <2> QED BY <2>3, <2>4, ReceivesKeepsPages
  <1> QED BY <1>1, <1>2, <1>3

(* What the service refuses changes nothing. *)
LEMMA WithoutCallStays == ASSUME NEW q, WithoutCall(q) PROVE UNCHANGED auctionVars
  BY DEF WithoutCall

(* The service did what was asked and the room is told of it, or the auction is as it   *)
(* was.                                                                                 *)
LEMMA CallEnds ==
  ASSUME NEW h \in Task, CallService(h)
  PROVE  /\ task[h].at = "call" /\ UNCHANGED <<online, joined, view, inbox, latest>>
         /\ \/ /\ ServiceCall(task[h].request)
               /\ Does(h, [at |-> "read", event |-> Told[task[h].request.event]])
            \/ /\ UNCHANGED auctionVars
               /\ \/ Does(h, [at |-> "read", event |-> Bare])
                  \/ Does(h, [at |-> "read", event |-> Told[task[h].request.event]])
                  \/ Does(h, Resting)
  <1>1. PICK q : q = task[h].request
    OBVIOUS
  <1>2. /\ task[h].at = "call" /\ UNCHANGED <<online, joined, view, inbox, latest>>
        /\ \/ ServiceCall(q) /\ ReadFor(h, q, Told[q.event])
           \/ WithoutCall(q) /\ \/ ReadFor(h, q, Bare)
                                \/ ReadFor(h, q, Told[q.event])
                                \/ Ends(h)
    BY <1>1 DEF CallService
  <1> QED BY <1>1, <1>2, WithoutCallStays DEF ReadFor, Ends

(* A call of the service reaches no page before it is told. *)
LEMMA CallKeepsPages ==
  ASSUME PagesAndTasks, PagesWillFollow, NEW h \in Task, CallService(h)
  PROVE  PagesAndTasks' /\ PagesWillFollow'
  <1>1. task[h] \in TaskState /\ task[h].at = "call"
    BY CallEnds DEF PagesAndTasks
  <1>2. task[h].request.event \in RoomEvent
    BY <1>1, TaskFields DEF RoomRequest
  <1>3. Resting \in TaskState /\ Resting.at = "idle"
    BY DEF TaskState, Resting
  <1>4. ASSUME NEW e \in RoomMessage
        PROVE  [at |-> "read", event |-> e] \in TaskState /\ [at |-> "read", event |-> e].at = "read"
    BY DEF TaskState
  <1>5. PICK todo \in TaskState : Does(h, todo) /\ todo.at \in {"idle", "read"}
    BY <1>2, <1>3, <1>4, CallEnds, RoomEvents
  <1>6. BidsForShown(todo) /\ BareSaysNothing(todo)
    BY <1>5 DEF BidsForShown, BareSaysNothing
  <1>7. UNCHANGED <<online, joined, view, inbox, latest>>
    BY CallEnds
  <1> QED BY <1>1, <1>5, <1>6, <1>7, TaskKeepsPages

(* Nor does what a handler reads. *)
LEMMA ReadKeepsPages ==
  ASSUME AuctionTypeOK, PagesAndTasks, PagesWillFollow, NEW h \in Task, ReadState(h)
  PROVE  PagesAndTasks' /\ PagesWillFollow'
  <1>1. task[h].at = "read" /\ task[h].event \in RoomMessage
    BY TaskFields DEF ReadState, PagesAndTasks
  <1>2. PICK s : s = IF task[h].event \in Unheard \cup {Bare} THEN None ELSE RoomState
    OBVIOUS
  <1>3. s \in Views /\ (task[h].event = Bare => s = None)
    BY <1>2, RoomStateType DEF Views
  <1>4. PICK todo : todo = [at |-> "tell", event |-> task[h].event, state |-> s]
    OBVIOUS
  <1>5. todo \in TaskState /\ todo.at = "tell" /\ todo.event = task[h].event /\ todo.state = s
    BY <1>1, <1>3, <1>4 DEF TaskState
  <1>6. BidsForShown(todo) /\ BareSaysNothing(todo)
    BY <1>3, <1>5 DEF BidsForShown, BareSaysNothing
  <1>7. Does(h, todo) /\ UNCHANGED <<online, joined, view, inbox, latest>>
    BY <1>2, <1>4 DEF ReadState
  <1> QED BY <1>1, <1>5, <1>6, <1>7, TaskKeepsPages

(* A sale without rivals is a request like any other. *)
LEMMA CheckKeepsPages ==
  ASSUME PagesAndTasks, PagesWillFollow, NEW h \in Task, CheckRivals(h)
  PROVE  PagesAndTasks' /\ PagesWillFollow'
  <1>1. Resting \in TaskState /\ Resting.at = "idle"
    BY DEF TaskState, Resting
  <1>2. PICK q \in RoomRequest : q = Req("autoConfirm") /\ q.event = "autoConfirm"
    BY PlainRequests, RoomEvents
  <1>3. PICK todo : todo = [at |-> "call", request |-> q, shown |-> None]
    OBVIOUS
  <1>4. todo \in TaskState /\ todo.at = "call" /\ todo.request = q
    BY <1>3 DEF TaskState
  <1>5. task[h].at = "check" /\ UNCHANGED <<online, joined, view, inbox, latest>>
    BY DEF CheckRivals
  <1>6. Does(h, todo) \/ Does(h, Resting)
    BY <1>2, <1>3 DEF CheckRivals, Ends
  <1>7. /\ BidsForShown(todo) /\ BareSaysNothing(todo)
        /\ BidsForShown(Resting) /\ BareSaysNothing(Resting)
    BY <1>1, <1>2, <1>4 DEF BidsForShown, BareSaysNothing
  <1> QED BY <1>1, <1>4, <1>5, <1>6, <1>7, TaskKeepsPages

(* A broadcast is on its way to every page in the room at once. *)
LEMMA TellKeepsPages ==
  ASSUME PagesAndTasks, PagesWillFollow, NEW h \in Task, Tell(h)
  PROVE  PagesAndTasks' /\ PagesWillFollow'
  <1>1. /\ task[h].at = "tell" /\ task[h].event \in RoomMessage /\ task[h].state \in Views
        /\ task[h].event = Bare => task[h].state = None
    BY TaskFields DEF Tell, PagesAndTasks, BareSaysNothing
  <1>2. PICK m : m = [event |-> task[h].event, state |-> task[h].state]
    OBVIOUS
  <1>3. /\ m \in Letter /\ m.event = task[h].event /\ m.state = task[h].state
        /\ m.event = Bare => m.state = None
    BY <1>1, <1>2 DEF Letter
  <1>4. /\ \A c \in Client : joined[c] => Len(inbox[c]) < MaxInbox
        /\ inbox' = [c \in Client |-> IF joined[c] THEN Append(inbox[c], m) ELSE inbox[c]]
        /\ UNCHANGED <<online, joined, view>>
    BY <1>2 DEF Tell, Broadcast
  <1>5. latest' \in [state : Views, current : BOOLEAN]
    <2>1. latest \in [state : Views, current : BOOLEAN]
      BY DEF PagesAndTasks
    <2>2. latest' = CASE m.event \in Unheard -> [latest EXCEPT !.current = FALSE]
                      [] m.event = Bare -> [state |-> None, current |-> TRUE]
                      [] OTHER -> [state |-> m.state, current |-> m.state = RoomState]
      BY <1>3 DEF Tell
    <2> QED BY <1>3, <2>1, <2>2 DEF Letter, Views
  <1>6. m.event \notin Unheard => latest'.state = m.state
    BY <1>3 DEF Tell
  <1>7. ASSUME m.event \in Unheard PROVE latest'.state = latest.state
    <2>1. latest \in [state : Views, current : BOOLEAN]
      BY DEF PagesAndTasks
    <2>2. latest' = [latest EXCEPT !.current = FALSE]
      BY <1>3, <1>7 DEF Tell, Unheard, Bare
    <2> QED BY <2>1, <2>2
  <1>8. PICK todo \in {Resting, [at |-> "check"]} : Does(h, todo)
    BY DEF Tell
  <1>9. todo \in TaskState /\ todo.at \in {"idle", "check"}
    BY <1>8 DEF TaskState, Resting
  <1>10. /\ task' \in [Task -> TaskState] /\ task'[h] = todo
         /\ \A g \in Task \ {h} : task'[g] = task[g]
    BY <1>8, <1>9, TaskDoes DEF PagesAndTasks
  <1>11. ASSUME NEW g \in Task
         PROVE  (JoinsWhoIsThere(task[g]) /\ BidsForShown(task[g]) /\ BareSaysNothing(task[g]))'
    <2>1. JoinsWhoIsThere(task[g]) /\ BidsForShown(task[g]) /\ BareSaysNothing(task[g])
      BY DEF PagesAndTasks
    <2> QED BY <1>4, <1>9, <1>10, <2>1 DEF JoinsWhoIsThere, BidsForShown, BareSaysNothing
  <1>12. ASSUME NEW d \in Client
         PROVE  /\ inbox'[d] \in Seq(Letter) /\ Len(inbox'[d]) <= MaxInbox
                /\ inbox'[d] # <<>> => joined[d]
                /\ joined[d] /\ ~ Joining(d) => WillFollow(inbox'[d], view[d], latest'.state)
    <2>1. PICK s \in Seq(Letter) : s = inbox[d]
      BY DEF PagesAndTasks
    <2>2. CASE joined[d]
      <3>1. inbox'[d] = Append(s, m)
        BY <1>4, <2>1, <2>2
      <3>2. Append(s, m) \in Seq(Letter) /\ Len(Append(s, m)) = Len(s) + 1
        BY <1>3, AppendProperties
      <3>3. Len(Append(s, m)) <= MaxInbox
        BY <1>4, <2>1, <2>2, <3>2, LenProperties, MaxInboxAssumption
      <3>4. ASSUME ~ Joining(d) PROVE WillFollow(Append(s, m), view[d], latest'.state)
        <4>1. PICK last : last = latest'.state
          OBVIOUS
        <4>2. CASE m.event \notin Unheard
          BY <1>3, <1>6, <4>1, <4>2, AppendFollows
        <4>3. CASE m.event \in Unheard
          <5>1. WillFollow(s, view[d], last)
            BY <1>7, <2>1, <2>2, <3>4, <4>1, <4>3 DEF PagesWillFollow
          <5> QED BY <1>3, <4>1, <4>3, <5>1, AppendFollows
        <4> QED BY <4>2, <4>3
      <3> QED BY <2>2, <3>1, <3>2, <3>3, <3>4
    <2>3. CASE ~ joined[d]
      BY <1>4, <2>3 DEF PagesAndTasks
    <2> QED BY <2>2, <2>3
  <1>13. inbox' \in [Client -> Seq(Letter)]
    BY <1>4, <1>12
  <1>14. PagesAndTasks'
    BY <1>4, <1>5, <1>10, <1>11, <1>12, <1>13 DEF PagesAndTasks
  <1>15. \A d : Joining(d) => Joining(d)'
    BY <1>1, <1>10 DEF Joining
  <1>16. PagesWillFollow'
    BY <1>4, <1>12, <1>15 DEF PagesWillFollow
  <1> QED BY <1>14, <1>16

-----------------------------------------------------------------------------
(* The room and the auction. *)

(* A call of the service is one transaction of the auction. *)
LEMMA CallIsTransaction ==
  ASSUME AuctionTypeOK, NEW q \in RoomRequest, ServiceCall(q),
         q.event = "placeBid" => q.player \in User /\ q.amount \in BidAmount
  PROVE  AuctionNext
  <1>1. \A r \in Row : entry[r] # None => entry[r].user # None
    BY EntryType, NoneAssumption
  <1>2. \A role : FindRole(None, role) = {} /\ Find(None) = {}
    BY <1>1 DEF FindRole, Find
  <1>3. q.player \in User \cup {None} /\ q.captain \in User \cup {None}
    BY DEF RoomRequest
  <1>4. CASE SelectPlayer(q.player)
    BY <1>2, <1>3, <1>4 DEF SelectPlayer, AuctionNext, MasterStep
  <1>5. CASE q.event = "placeBid" /\ PlaceBid(q.captain, q.player, q.amount)
    BY <1>2, <1>3, <1>5 DEF PlaceBid, AuctionNext
  <1>6. CASE UndoSoldPlayer(q.player)
    BY <1>2, <1>3, <1>6 DEF UndoSoldPlayer, AuctionNext, MasterStep
  <1>7. CASE ManualAssignPlayer(q.player, q.captain)
    BY <1>2, <1>3, <1>7 DEF ManualAssignPlayer, AuctionNext, MasterStep
  <1>8. CASE \/ Start \/ Reset \/ Complete \/ PauseAuction \/ ResumeAuction \/ ConfirmCurrentBid
             \/ PassCurrentPlayer \/ NextPlayer \/ EnterAssignmentPhase \/ AutoConfirmOnTimeout
    BY <1>8 DEF AuctionNext, MasterStep
  <1> QED BY <1>4, <1>5, <1>6, <1>7, <1>8 DEF ServiceCall

(* Only a handler that calls the service changes the auction. *)
LEMMA RoomStep ==
  ASSUME AuctionTypeOK, PagesAndTasks, [RoomNext]_allRoomVars
  PROVE  [AuctionNext]_auctionVars /\ (UNCHANGED auctionVars \/ \E h \in Task : CallService(h))
  <1>1. ASSUME NEW h \in Task, CallService(h) PROVE [AuctionNext]_auctionVars
    <2>1. PICK q : q = task[h].request
      OBVIOUS
    <2>2. ServiceCall(q) \/ UNCHANGED auctionVars
      BY <1>1, <2>1, CallEnds
    <2>3. q \in RoomRequest
      BY <1>1, <2>1, CallEnds, TaskFields DEF PagesAndTasks
    <2>4. q.event = "placeBid" => q.player \in User /\ q.amount \in BidAmount
      BY <1>1, <2>1, CallEnds DEF PagesAndTasks, BidsForShown
    <2> QED BY <2>2, <2>3, <2>4, CallIsTransaction
  <1>2. ASSUME NEW h \in Task,
               JoinRoom(h) \/ AnswerJoin(h) \/ ReadState(h) \/ Tell(h) \/ CheckRivals(h)
        PROVE  UNCHANGED auctionVars
    BY <1>2 DEF JoinRoom, AnswerJoin, ReadState, Tell, CheckRivals
  <1>3. ASSUME NEW h \in Task, DirectEvent(h) \/ TimerExpires(h) PROVE UNCHANGED auctionVars
    BY <1>3 DEF DirectEvent, TimerExpires, Receives
  <1>4. ASSUME NEW h \in Task, NEW c \in Client, Connect(h, c) \/ PageClick(h, c)
        PROVE  UNCHANGED auctionVars
    BY <1>4 DEF Connect, PageClick, Receives
  <1>5. ASSUME NEW c \in Client, Hear(c) \/ Disconnect(c) \/ ClosePage(c)
        PROVE  UNCHANGED auctionVars
    BY <1>5 DEF Hear, Disconnect, ClosePage, Gone
  <1>6. CASE UNCHANGED allRoomVars
    BY <1>6 DEF allRoomVars
  <1> QED BY <1>1, <1>2, <1>3, <1>4, <1>5, <1>6 DEF RoomNext, TaskStep

(* The next state is told by somebody, or told already. *)
LEMMA RoomKeepsTelling ==
  ASSUME PagesAndTasks, ChangesWillBeTold, [RoomNext]_allRoomVars
  PROVE  ChangesWillBeTold'
  <1>1. ASSUME NEW h \in Task, NEW todo, Does(h, todo), UNCHANGED <<auctionVars, latest>>,
               task[h].at \notin {"read", "tell"} \/ todo.at \in {"read", "tell"}
        PROVE  ChangesWillBeTold'
    <2>1. \A g \in Task : task[g].at \in {"read", "tell"} => task'[g].at \in {"read", "tell"}
      BY <1>1 DEF Does, PagesAndTasks
    <2> QED BY <1>1, <2>1, StillToldOrTelling
  <1>2. ASSUME UNCHANGED <<auctionVars, latest, task>> PROVE ChangesWillBeTold'
    BY <1>2, StillToldOrTelling
  <1>3. ASSUME NEW h \in Task, CallService(h) PROVE ChangesWillBeTold'
    <2>1. task[h].at = "call" /\ UNCHANGED latest
      BY <1>3, CallEnds
    <2>2. CASE UNCHANGED auctionVars
      <3>1. PICK todo : Does(h, todo)
        BY <1>3, CallEnds
      <3> QED BY <1>1, <2>1, <2>2, <3>1
    <2>3. CASE ~ UNCHANGED auctionVars
      <3>1. PICK e : Does(h, [at |-> "read", event |-> e])
        BY <1>3, <2>3, CallEnds
      <3>2. task'[h].at = "read"
        BY <3>1 DEF Does, PagesAndTasks
      <3> QED BY <3>2 DEF ChangesWillBeTold
    <2> QED BY <2>2, <2>3
  <1>4. ASSUME NEW h \in Task, Tell(h) PROVE ChangesWillBeTold'
    <2>1. RoomState' = RoomState
      BY <1>4 DEF Tell, auctionVars, RoomState, CurrentBid, HighestBid, HighestBidders
    <2>2. CASE task[h].event \in Unheard
      <3>1. latest' = [latest EXCEPT !.current = FALSE]
        BY <1>4, <2>2 DEF Tell, Unheard, Bare
      <3>2. ~ latest'.current
        BY <3>1 DEF PagesAndTasks
      <3> QED BY <3>2 DEF ChangesWillBeTold
    <2>3. CASE task[h].event \notin Unheard
      <3>1. \/ latest' = [state |-> None, current |-> TRUE]
            \/ latest' = [state |-> task[h].state, current |-> task[h].state = RoomState]
        BY <1>4, <2>3 DEF Tell
      <3>2. CASE latest' = [state |-> None, current |-> TRUE]
        BY <3>2 DEF ChangesWillBeTold
      <3>3. CASE latest' = [state |-> task[h].state, current |-> task[h].state = RoomState]
        <4>1. latest'.state = task[h].state /\ (latest'.current <=> task[h].state = RoomState)
          BY <3>3, Zenon
        <4> QED BY <2>1, <4>1 DEF ChangesWillBeTold
      <3> QED BY <3>1, <3>2, <3>3
    <2> QED BY <2>2, <2>3
  <1>5. ASSUME NEW h \in Task, JoinRoom(h) \/ AnswerJoin(h) \/ ReadState(h) \/ CheckRivals(h)
        PROVE  ChangesWillBeTold'
    <2>1. UNCHANGED <<auctionVars, latest>>
      BY <1>5 DEF JoinRoom, AnswerJoin, ReadState, CheckRivals
    <2>2. CASE JoinRoom(h)
      BY <1>1, <2>1, <2>2 DEF JoinRoom
    <2>3. CASE AnswerJoin(h)
      BY <1>1, <2>1, <2>3 DEF AnswerJoin, Ends
    <2>4. CASE ReadState(h)
      <3>1. PICK todo : Does(h, todo) /\ todo.at = "tell"
        BY <2>4 DEF ReadState
      <3> QED BY <1>1, <2>1, <3>1
    <2>5. CASE CheckRivals(h)
      BY <1>1, <2>1, <2>5 DEF CheckRivals, Ends
    <2> QED BY <1>5, <2>2, <2>3, <2>4, <2>5
  <1>6. ASSUME NEW h \in Task, NEW q, NEW shown, Receives(h, q, shown) PROVE ChangesWillBeTold'
    <2>1. task[h].at = "idle"
      BY <1>6 DEF Receives, Resting
    <2>2. PICK todo : Does(h, todo) /\ UNCHANGED <<auctionVars, latest>>
      BY <1>6 DEF Receives
    <2> QED BY <1>1, <2>1, <2>2
  <1>7. ASSUME NEW h \in Task, DirectEvent(h) \/ TimerExpires(h) PROVE ChangesWillBeTold'
    BY <1>6, <1>7 DEF DirectEvent, TimerExpires
  <1>8. ASSUME NEW h \in Task, NEW c \in Client, Connect(h, c) \/ PageClick(h, c)
        PROVE  ChangesWillBeTold'
    <2>1. CASE Connect(h, c)
      <3>1. task[h].at = "idle"
        BY <2>1 DEF Connect, Resting
      <3>2. PICK todo : Does(h, todo) /\ UNCHANGED <<auctionVars, latest>>
        BY <2>1 DEF Connect
      <3> QED BY <1>1, <3>1, <3>2
    <2>2. CASE PageClick(h, c)
      BY <1>6, <2>2 DEF PageClick
    <2> QED BY <1>8, <2>1, <2>2
  <1>9. ASSUME NEW c \in Client, Disconnect(c) \/ ClosePage(c) PROVE ChangesWillBeTold'
    <2>1. /\ UNCHANGED <<auctionVars, latest>>
          /\ task' = [h \in Task |-> IF task[h].at \in {"join", "answer"} /\ task[h].by = c
                                     THEN Resting ELSE task[h]]
      BY <1>9 DEF Disconnect, ClosePage, Gone
    <2>2. \A h \in Task : task[h].at \in {"read", "tell"} => task'[h].at \in {"read", "tell"}
      BY <2>1
    <2> QED BY <2>1, <2>2, StillToldOrTelling
  <1>10. ASSUME NEW c \in Client, Hear(c) PROVE ChangesWillBeTold'
    BY <1>2, <1>10 DEF Hear
  <1>11. CASE UNCHANGED allRoomVars
    BY <1>2, <1>11 DEF allRoomVars, roomVars
  <1> QED BY <1>3, <1>4, <1>5, <1>7, <1>8, <1>9, <1>10, <1>11 DEF RoomNext, TaskStep

(* The pages' side of the invariant, whoever acts. *)
LEMMA RoomKeepsPages ==
  ASSUME AuctionTypeOK, PagesAndTasks, PagesWillFollow, [RoomNext]_allRoomVars
  PROVE  PagesAndTasks' /\ PagesWillFollow'
  <1>1. ASSUME NEW h \in Task, TaskStep(h) PROVE PagesAndTasks' /\ PagesWillFollow'
    BY <1>1, JoinKeepsPages, AnswerKeepsPages, CallKeepsPages, ReadKeepsPages, TellKeepsPages,
       CheckKeepsPages DEF TaskStep
  <1>2. ASSUME NEW h \in Task, DirectEvent(h) \/ TimerExpires(h)
        PROVE  PagesAndTasks' /\ PagesWillFollow'
    BY <1>2, RequestsKeepPages
  <1>3. ASSUME NEW h \in Task, NEW c \in Client, Connect(h, c) \/ PageClick(h, c)
        PROVE  PagesAndTasks' /\ PagesWillFollow'
    BY <1>3, ConnectKeepsPages, RequestsKeepPages
  <1>4. ASSUME NEW c \in Client, Hear(c) \/ Disconnect(c) \/ ClosePage(c)
        PROVE  PagesAndTasks' /\ PagesWillFollow'
    BY <1>4, HearKeepsPages, GoneKeepsPages
  <1>5. CASE UNCHANGED allRoomVars
    <2>1. UNCHANGED <<online, joined, view, inbox, task, latest>>
      BY <1>5 DEF allRoomVars, roomVars
    <2>2. PagesAndTasks'
      BY <2>1 DEF PagesAndTasks, JoinsWhoIsThere, BidsForShown, BareSaysNothing
    <2>3. \A d : Joining(d)' <=> Joining(d)
      BY <2>1 DEF Joining
    <2>4. PagesWillFollow'
      BY <2>1, <2>3 DEF PagesWillFollow
    <2> QED BY <2>2, <2>4
  <1> QED BY <1>1, <1>2, <1>3, <1>4, <1>5 DEF RoomNext

(* The whole of it. *)
LEMMA RoomKeepsInv ==
  ASSUME OrderlyEnrolled, RoomInv, [RoomNext]_allRoomVars
  PROVE  RoomInv'
  <1>1. AuctionInv /\ AuctionTypeOK /\ PagesAndTasks
    BY DEF RoomInv, AuctionInv
  <1>2. AuctionInv'
    BY <1>1, RoomStep, NextKeepsInv
  <1>3. PagesAndTasks' /\ PagesWillFollow'
    BY <1>1, RoomKeepsPages DEF RoomInv
  <1>4. ChangesWillBeTold'
    BY <1>1, RoomKeepsTelling DEF RoomInv
  <1> QED BY <1>2, <1>3, <1>4 DEF RoomInv

(* Nobody is there and nothing was told. *)
LEMMA RoomInitInv ==
  ASSUME OrderlyEnrolled, RoomInit
  PROVE  RoomInv
  <1>1. AuctionInv
    BY InitInv DEF RoomInit
  <1>2. /\ online = [c \in Client |-> FALSE] /\ joined = [c \in Client |-> FALSE]
        /\ view = [c \in Client |-> None] /\ inbox = [c \in Client |-> <<>>]
        /\ task = [h \in Task |-> Resting] /\ latest = [state |-> None, current |-> TRUE]
    BY DEF RoomInit
  <1>3. Resting \in TaskState /\ Resting.at = "idle" /\ None \in Views
    BY DEF Resting, TaskState, Views
  <1>4. <<>> \in Seq(Letter) /\ Len(<<>>) <= MaxInbox
    BY MaxInboxAssumption
  <1>5. \A h \in Task :
          JoinsWhoIsThere(task[h]) /\ BidsForShown(task[h]) /\ BareSaysNothing(task[h])
    BY <1>2, <1>3 DEF JoinsWhoIsThere, BidsForShown, BareSaysNothing
  <1>6. PagesAndTasks
    BY <1>2, <1>3, <1>4, <1>5 DEF PagesAndTasks
  <1>7. PagesWillFollow
    BY <1>2 DEF PagesWillFollow
  <1>8. ChangesWillBeTold
    BY <1>2 DEF ChangesWillBeTold
  <1> QED BY <1>1, <1>6, <1>7, <1>8 DEF RoomInv

(* The invariant of the room. *)
LEMMA RoomIsInv == ASSUME OrderlyEnrolled PROVE RoomSpec => []RoomInv
  <1>1. RoomInit => RoomInv
    BY RoomInitInv
  <1>2. RoomInv /\ [RoomNext]_allRoomVars => RoomInv'
    BY RoomKeepsInv
  <1> QED BY <1>1, <1>2, PTL DEF RoomSpec

(* What the invariant says of the pages and the handlers, in the words of the room. *)
LEMMA RoomFollows ==
  ASSUME RoomInv
  PROVE  RoomTypeOK /\ PagesFollowBroadcasts /\ ChangesAreTold
  <1>1. AuctionTypeOK /\ PagesAndTasks /\ PagesWillFollow /\ ChangesWillBeTold
    BY DEF RoomInv, AuctionInv
  <1>2. ASSUME NEW h \in Task
        PROVE  \/ task[h] = Resting
               \/ task[h].at = "call" /\ task[h].request \in RoomRequest
               \/ task[h].at \in {"read", "tell"} /\ task[h].event \in RoomMessage
               \/ task[h].at = "check"
               \/ task[h].at \in {"join", "answer"} /\ task[h].by \in Client
    <2>1. task[h] \in TaskState
      BY <1>1 DEF PagesAndTasks
    <2> QED BY <2>1, TaskFields
  <1>3. ASSUME NEW c \in Client, NEW i \in DOMAIN inbox[c]
        PROVE  inbox[c][i].event \in RoomMessage
    <2>1. PICK s \in Seq(Letter) : s = inbox[c]
      BY <1>1 DEF PagesAndTasks
    <2>2. s[i] \in Letter
      BY <1>3, <2>1, LenProperties, ElementOfSeq
    <2> QED BY <2>1, <2>2 DEF Letter
  <1>4. RoomTypeOK
    BY <1>1, <1>2, <1>3 DEF RoomTypeOK, PagesAndTasks
  <1>5. ASSUME NEW c \in Client, joined[c], inbox[c] = <<>>,
               \A h \in Task : task[h].at \in {"join", "answer"} => task[h].by # c
        PROVE  view[c] \in {None, latest.state}
    <2>1. WillFollow(<<>>, view[c], latest.state)
      BY <1>1, <1>5 DEF PagesWillFollow, Joining
    <2>2. Len(<<>>) = 0 /\ 1..0 = {}
      OBVIOUS
    <2> QED BY <2>1, <2>2 DEF WillFollow
  <1>6. PagesFollowBroadcasts
    BY <1>5 DEF PagesFollowBroadcasts
  <1>7. ChangesAreTold
    <2>1. Resting.at = "idle"
      BY DEF Resting
    <2> QED BY <1>1, <2>1 DEF ChangesAreTold, ChangesWillBeTold
  <1> QED BY <1>4, <1>6, <1>7

(* However often pages come, go and lose their connection, and whatever the handlers    *)
(* interleave: a page that has heard all that was sent to it shows what was told last,  *)
(* or nothing since it joined.                                                          *)
THEOREM PagesAlwaysFollow == ASSUME OrderlyEnrolled PROVE RoomSpec => []PagesFollowBroadcasts
  <1>1. RoomInv => PagesFollowBroadcasts
    BY RoomFollows
  <1> QED BY <1>1, RoomIsInv, PTL

(* For any number of handlers at work at once: when none is, the last broadcast tells   *)
(* the state of the auction, unless it was sent with a state that was read before       *)
(* another change or tells what the pages do not hear.                                  *)
THEOREM ChangesAlwaysTold == ASSUME OrderlyEnrolled PROVE RoomSpec => []ChangesAreTold
  <1>1. RoomInv => ChangesAreTold
    BY RoomFollows
  <1> QED BY <1>1, RoomIsInv, PTL

(* The types of the room: among them that a page has messages on the way only while its *)
(* socket is in the room.                                                               *)
THEOREM RoomTypes == ASSUME OrderlyEnrolled PROVE RoomSpec => []RoomTypeOK
  <1>1. RoomInv => RoomTypeOK
    BY RoomFollows
  <1> QED BY <1>1, RoomIsInv, PTL

(* A handler whose task changes with the bids has called the service, for the player    *)
(* its page showed.                                                                     *)
LEMMA BidIsForShown ==
  ASSUME AuctionTypeOK, PagesAndTasks, [RoomNext]_allRoomVars, NEW h \in Task,
         task[h].at = "call", task[h].request.event = "placeBid", task'[h] # task[h], bid' # bid
  PROVE  /\ auction.current = task[h].shown
         /\ bid'[task[h].request.captain][task[h].shown] > bid[task[h].request.captain][task[h].shown]
  <1>1. CallService(h)
    <2>1. PICK g \in Task : CallService(g)
      BY RoomStep DEF auctionVars
    <2>2. g = h
      BY <2>1, CallEnds DEF Does, PagesAndTasks
    <2> QED BY <2>1, <2>2
  <1>2. PICK q : q = task[h].request
    OBVIOUS
  <1>3. ServiceCall(q)
    BY <1>1, <1>2, CallEnds DEF auctionVars
  <1>4. PICK t \in User : t = task[h].shown /\ q.player = t
    BY <1>2 DEF PagesAndTasks, BidsForShown
  <1>5. PICK u : u = q.captain
    OBVIOUS
  <1>6. PICK amt : amt = q.amount
    OBVIOUS
  <1>7. PlaceBid(u, t, amt)
    BY <1>2, <1>3, <1>4, <1>5, <1>6 DEF ServiceCall
  <1>8. u \in User
    <2>1. PICK r \in Row : entry[r] # None /\ entry[r].user = u
      BY <1>7 DEF PlaceBid, Find
    <2> QED BY <2>1, EntryType
  <1>9. auction.current = t /\ amt > HighestBid(t) /\ bid' = [bid EXCEPT ![u][t] = amt]
    BY <1>7 DEF PlaceBid
  <1>10. amt \in Int /\ bid[u][t] \in Nat /\ HighestBid(t) \in Nat /\ bid[u][t] <= HighestBid(t)
    <2>1. q \in RoomRequest
      BY <1>2, TaskFields DEF PagesAndTasks
    <2>2. amt \in Int
      BY <1>6, <2>1 DEF RoomRequest
    <2>3. bid[u][t] \in Nat
      BY <1>8 DEF AuctionTypeOK
    <2> QED BY <1>8, <2>2, <2>3, HighestIsSomebodys
  <1>11. bid'[u][t] = amt
    BY <1>8, <1>9 DEF AuctionTypeOK
  <1>12. bid'[u][t] > bid[u][t]
    BY <1>9, <1>10, <1>11
  <1> QED BY <1>2, <1>4, <1>5, <1>9, <1>12

(* A captain's bid counts for the player who was on the screen it was made on, or not   *)
(* at all, whoever is up when it arrives and whatever other handlers do in between.     *)
THEOREM BidsAlwaysForShown == ASSUME OrderlyEnrolled PROVE RoomSpec => BidsOnThePlayerShown
  <1>1. RoomInv /\ [RoomNext]_allRoomVars
          => [\A h \in Task :
                task[h].at = "call" /\ task[h].request.event = "placeBid" /\ task'[h] # task[h]
                /\ bid' # bid =>
                  /\ auction.current = task[h].shown
                  /\ bid'[task[h].request.captain][task[h].shown]
                       > bid[task[h].request.captain][task[h].shown]]_allRoomVars
    BY BidIsForShown DEF RoomInv, AuctionInv
  <1> QED BY <1>1, RoomIsInv, PTL DEF RoomSpec, BidsOnThePlayerShown

(* Whatever pages, programs and handlers do at once, to the auction it is one           *)
(* transaction after the other.                                                         *)
THEOREM RoomImplementsAuction == ASSUME OrderlyEnrolled PROVE RoomSpec => AuctionSpec
  <1>1. RoomInit => AuctionInit
    BY DEF RoomInit
  <1>2. RoomInv /\ [RoomNext]_allRoomVars => [AuctionNext]_auctionVars
    BY RoomStep DEF RoomInv, AuctionInv
  <1> QED BY <1>1, <1>2, RoomIsInv, PTL DEF RoomSpec, AuctionSpec

(* So also with pages that act on what they were told some time ago teams are built     *)
(* only by sales their purses can pay, assignments for nothing, refunds and fresh       *)
(* starts.                                                                              *)
THEOREM RoomRunsDraft == ASSUME OrderlyEnrolled PROVE RoomSpec => DraftSpec
  BY AuctionRunsDraft, RoomImplementsAuction

(* And the purses cover what is spent and promised, nobody up for sale is in a team,    *)
(* and players are sold to the highest bidder, whatever the pages show.                 *)
THEOREM RoomBidsSoundly ==
  ASSUME OrderlyEnrolled
  PROVE  RoomSpec => [](PursesCover /\ UnderHammerIsFree) /\ SoldToHighestBidder
  <1>1. AuctionInv => PursesCover /\ UnderHammerIsFree
    BY DEF AuctionInv, PursesCover
  <1>2. AuctionSpec => [](PursesCover /\ UnderHammerIsFree) /\ SoldToHighestBidder
    BY <1>1, AuctionIsInv, AuctionSellsFairly, PTL
  <1> QED BY <1>2, RoomImplementsAuction

-----------------------------------------------------------------------------
(* The set-up, one request after the other: what it leaves is orderly. *)

UsersUnique == \A q, r \in Used : entry[q].user = entry[r].user => q = r

NothingBid == \A u, t \in User : bid[u][t] = 0

NothingCharged == \A r \in Used : entry[r].price = 0

(* Teams are made only after the auction has started. *)
PendingIsFresh == IsPending => \A r \in Used : entry[r].team = None /\ ~ entry[r].unsold

(* Only a request that ends removes the auction, and with it all that hangs on it. *)
GoneIsEmpty == ~ Loaded => Used = {} /\ requests = {}

OneAtATime == \A p, q \in requests : p = q

HaveStart(start) == \A c \in Captains : entry[c].points = start

(* New settings reach the captains one step before they reach the auction. *)
CaptainsDue ==
  /\ (\A q \in requests : q.op # "saveAuction") => HaveStart(auction.start)
  /\ \A q \in requests : q.op = "saveAuction" => HaveStart(q.entity.start)

(* What a request has read is still so when it writes. *)
StillSo(q) ==
  /\ q.op = "insert" =>
       Find(q.user) = {} /\ (q.role = "CAPTAIN" => q.points = auction.start)
  /\ q.op = "save" =>
       /\ entry[q.row] # None
       /\ q.entity = [entry[q.row] EXCEPT !.role = "CAPTAIN", !.points = auction.start]
  /\ q.op \in {"updateCaptains", "saveAuction"} =>
       /\ q.loaded = Used
       /\ q.entity = [auction EXCEPT !.start = q.entity.start, !.teams = q.entity.teams]

RosterInv ==
  /\ RosterTypeOK
  /\ UsersUnique /\ NothingBid /\ NothingCharged /\ PendingIsFresh /\ GoneIsEmpty
  /\ OneAtATime /\ CaptainsDue
  /\ \A q \in requests : StillSo(q)

(* What each kind of request carries. *)
LEMMA RequestFields ==
  ASSUME NEW q \in Request
  PROVE  /\ q.op = "insert" => q.user \in User /\ q.role \in Role /\ q.points \in Nat
                               /\ q.rest \subseteq User
         /\ q.op \in {"save", "remove"} => q.row \in Row /\ q.entity \in Entry
         /\ q.op = "bulk" => q.users \subseteq User
         /\ q.op \in {"updateCaptains", "saveAuction"} =>
              q.entity \in AuctionRow /\ q.loaded \subseteq Row
  BY DEF Request

(* The requests there are. *)
LEMMA RequestsOf ==
  /\ \A u \in User, role \in Role, n \in Nat, rest \in SUBSET User :
       InsertOf(u, role, n, rest) \in Request
  /\ \A U \in SUBSET User : Bulk(U) \subseteq Request
  /\ \A op \in {"save", "remove"}, r \in Row, e \in Entry :
       [op |-> op, row |-> r, entity |-> e] \in Request
  BY DEF Request, InsertOf, Bulk

(* What the rows of the auction are like, whatever is under way. *)
RosterRows ==
  /\ AuctionTypeOK /\ UsersUnique /\ NothingBid /\ NothingCharged /\ PendingIsFresh
  /\ ~ Loaded => Used = {}

(* The invariant after a step that leaves at most one request, n. *)
LEMMA OneWaits ==
  ASSUME RosterInv, NEW n \in Request, requests' \subseteq {n}, UNCHANGED crashes, RosterRows',
         n \in requests' => Loaded' /\ StillSo(n)',
         IF n \in requests' /\ n.op = "saveAuction" THEN HaveStart(n.entity.start)'
                                                   ELSE HaveStart(auction.start)'
  PROVE  RosterInv'
  <1>1. RosterTypeOK'
    BY DEF RosterInv, RosterRows, RosterTypeOK
  <1>2. GoneIsEmpty' /\ OneAtATime'
    BY DEF RosterRows, GoneIsEmpty, OneAtATime
  <1>3. requests' = {} \/ requests' = {n}
    OBVIOUS
  <1>4. CaptainsDue'
    BY <1>3 DEF CaptainsDue
  <1>5. \A q \in requests' : StillSo(q)'
    BY <1>3
  <1> QED BY <1>1, <1>2, <1>4, <1>5 DEF RosterInv, RosterRows

(* A request that has only read goes on, or has nothing more to do. *)
LEMMA ReadingKeepsInv ==
  ASSUME RosterInv, Loaded, HaveStart(auction.start), UNCHANGED <<auction, entry, bid, crashes>>,
         NEW n \in Request, requests' \subseteq {n}, StillSo(n),
         n.op = "saveAuction" => n.entity.start = auction.start
  PROVE  RosterInv'
  <1>1. Used' = Used /\ Captains' = Captains /\ Loaded' = Loaded /\ IsPending' = IsPending
    BY DEF Used, Captains, Loaded, IsPending
  <1>2. RosterRows'
    BY <1>1 DEF RosterInv, RosterTypeOK, AuctionTypeOK, RosterRows, UsersUnique, NothingBid,
         NothingCharged, PendingIsFresh
  <1>3. StillSo(n)'
    BY <1>1 DEF StillSo, Find
  <1>4. HaveStart(auction.start)'
    BY <1>1 DEF HaveStart
  <1> QED BY <1>1, <1>2, <1>3, <1>4, OneWaits DEF HaveStart

(* A request that has read what it needs waits to write. *)
LEMMA BeginKeepsInv ==
  ASSUME RosterInv, requests = {}, Loaded, NEW q \in Request, Begin(q), StillSo(q),
         q.op = "saveAuction" => q.entity.start = auction.start
  PROVE  RosterInv'
  <1>1. requests' \subseteq {q} /\ UNCHANGED <<auction, entry, bid, crashes>>
    BY DEF Begin, auctionVars
  <1>2. HaveStart(auction.start)
    BY DEF RosterInv, CaptainsDue
  <1> QED BY <1>1, <1>2, ReadingKeepsInv

(* A call that finds no other in progress. *)
LEMMA ReceiveKeepsInv ==
  ASSUME RosterInv, requests = {}, Receive
  PROVE  RosterInv'
  <1>1. AuctionTypeOK /\ auction \in AuctionRow /\ auction.start \in Nat /\ 0 \in Nat
    BY DEF RosterInv, RosterTypeOK, AuctionTypeOK, AuctionRow
  <1>2. IsPending => Loaded
    BY DEF IsPending, Loaded
  <1>3. ASSUME NEW u \in User, NEW role \in Role, NEW n \in Nat, Find(u) = {}, Loaded,
               role = "CAPTAIN" => n = auction.start, Begin(InsertOf(u, role, n, {}))
        PROVE  RosterInv'
    <2>1. PICK q : q = InsertOf(u, role, n, {})
      OBVIOUS
    <2>2. q.op = "insert" /\ q.user = u /\ q.role = role /\ q.points = n
      BY <2>1 DEF InsertOf
    <2>3. q \in Request
      BY <2>1, RequestsOf
    <2>4. StillSo(q)
      BY <1>3, <2>2 DEF StillSo
    <2> QED BY <1>3, <2>1, <2>2, <2>3, <2>4, BeginKeepsInv
  <1>4. ASSUME NEW u \in Candidate, NEW role \in Role, Join(u, role) PROVE RosterInv'
    <2>1. u \in User /\ Find(u) = {} /\ Loaded
      BY <1>4, InputAssumption DEF Join
    <2>2. PointsAs(role) \in Nat /\ (role = "CAPTAIN" => PointsAs(role) = auction.start)
      BY <1>1 DEF PointsAs
    <2> QED BY <1>3, <1>4, <2>1, <2>2 DEF Join
  <1>5. ASSUME NEW u \in Candidate, AddPlayer(u) PROVE RosterInv'
    <2>1. u \in User /\ Find(u) = {} /\ Loaded /\ "PLAYER" \in Role
      BY <1>2, <1>5, InputAssumption DEF AddPlayer, Role
    <2> QED BY <1>1, <1>3, <1>5, <2>1 DEF AddPlayer
  <1>6. ASSUME NEW u \in Candidate, AddCaptain(u) PROVE RosterInv'
    <2>1. u \in User /\ Loaded /\ "CAPTAIN" \in Role
      BY <1>2, <1>6, InputAssumption DEF AddCaptain, CaptainAllowed, Role
    <2>2. CASE Find(u) = {} /\ Begin(InsertOf(u, "CAPTAIN", auction.start, {}))
      BY <1>1, <1>3, <2>1, <2>2
    <2>3. ASSUME NEW r \in FindRole(u, "PLAYER"),
                 Begin([op |-> "save", row |-> r,
                        entity |-> [entry[r] EXCEPT !.role = "CAPTAIN", !.points = auction.start]])
          PROVE  RosterInv'
      <3>1. PICK e : e = [entry[r] EXCEPT !.role = "CAPTAIN", !.points = auction.start]
        OBVIOUS
      <3>2. r \in Row /\ entry[r] # None /\ entry[r] \in Entry
        BY <1>1, EntryType DEF FindRole, Find
      <3>3. e \in Entry
        <4>1. \A x \in Entry, n \in Int : [x EXCEPT !.role = "CAPTAIN", !.points = n] \in Entry
          BY DEF Entry, Role
        <4>2. auction.start \in Int
          BY <1>1
        <4> QED BY <3>1, <3>2, <4>1, <4>2
      <3>4. PICK q : q = [op |-> "save", row |-> r, entity |-> e]
        OBVIOUS
      <3>5. q.op = "save" /\ q.row = r /\ q.entity = e
        BY <3>4
      <3>6. q \in Request
        BY <3>2, <3>3, <3>4, RequestsOf
      <3>7. StillSo(q)
        BY <3>1, <3>2, <3>5 DEF StillSo
      <3> QED BY <2>1, <2>3, <3>1, <3>4, <3>5, <3>6, <3>7, BeginKeepsInv
    <2> QED BY <1>6, <2>2, <2>3 DEF AddCaptain
  <1>7. ASSUME NEW r \in Row, entry[r] # None, Loaded,
               Begin([op |-> "remove", row |-> r, entity |-> entry[r]])
        PROVE  RosterInv'
    <2>1. PICK q : q = [op |-> "remove", row |-> r, entity |-> entry[r]]
      OBVIOUS
    <2>2. q.op = "remove" /\ q \in Request
      BY <1>1, <1>7, <2>1, EntryType, RequestsOf
    <2>3. StillSo(q)
      BY <2>2 DEF StillSo
    <2> QED BY <1>7, <2>1, <2>2, <2>3, BeginKeepsInv
  <1>8. ASSUME NEW u, RemoveParticipant(u) \/ RemoveCaptain(u) PROVE RosterInv'
    <2>1. PICK r \in Find(u) : Begin([op |-> "remove", row |-> r, entity |-> entry[r]])
      BY <1>8 DEF RemoveParticipant, RemoveCaptain, FindRole
    <2>2. r \in Row /\ entry[r] # None /\ Loaded
      BY <1>2, <1>8 DEF Find, RemoveParticipant, RemoveCaptain
    <2> QED BY <1>7, <2>1, <2>2
  <1>9. ASSUME NEW U \in SUBSET User, AddPlayers(U) PROVE RosterInv'
    <2>1. PICK q : q = [op |-> "bulk", users |-> U]
      OBVIOUS
    <2>2. q.op = "bulk" /\ q \in Request
      BY <2>1 DEF Request
    <2>3. StillSo(q)
      BY <2>2 DEF StillSo
    <2> QED BY <1>2, <1>9, <2>1, <2>2, <2>3, BeginKeepsInv DEF AddPlayers
  <1>10. ASSUME NEW start \in NewStart, NEW teams \in NewTeams, UpdateAuctionSettings(start, teams)
         PROVE  RosterInv'
    <2>1. start \in Nat /\ teams \in Nat /\ Loaded /\ Used \in SUBSET Row
      BY <1>2, <1>10, InputAssumption DEF UpdateAuctionSettings, Used
    <2>2. PICK both, one : /\ both = [auction EXCEPT !.start = start, !.teams = teams]
                           /\ one = [auction EXCEPT !.teams = teams]
      OBVIOUS
    <2>3. /\ both \in AuctionRow /\ both = [auction EXCEPT !.start = both.start, !.teams = both.teams]
          /\ one \in AuctionRow /\ one = [auction EXCEPT !.start = one.start, !.teams = one.teams]
          /\ one.start = auction.start
      BY <1>1, <2>1, <2>2 DEF AuctionRow
    <2>4. ASSUME NEW op \in {"updateCaptains", "saveAuction"}, NEW e \in {both, one},
                 op = "saveAuction" => e = one,
                 Begin([op |-> op, loaded |-> Used, entity |-> e])
          PROVE  RosterInv'
      <3>1. PICK q : q = [op |-> op, loaded |-> Used, entity |-> e]
        OBVIOUS
      <3>2. q.op = op /\ q.loaded = Used /\ q.entity = e
        BY <3>1
      <3>3. q \in Request
        BY <2>1, <2>3, <3>1 DEF Request
      <3>4. StillSo(q)
        BY <2>3, <3>2 DEF StillSo
      <3> QED BY <2>1, <2>3, <2>4, <3>1, <3>2, <3>3, <3>4, BeginKeepsInv
    <2> QED BY <1>10, <2>2, <2>4 DEF UpdateAuctionSettings
  <1>11. CASE DeleteAuction
    <2>1. PICK q : q = [op |-> "deleteParticipants"]
      OBVIOUS
    <2>2. q.op = "deleteParticipants" /\ q \in Request
      BY <2>1 DEF Request
    <2>3. StillSo(q) /\ Loaded
      BY <1>11, <2>2 DEF StillSo, DeleteAuction, Deletable, Loaded
    <2> QED BY <1>11, <2>1, <2>2, <2>3, BeginKeepsInv DEF DeleteAuction
  <1>12. \A U \in (SUBSET Candidate) \ {{}} : U \in SUBSET User
    BY InputAssumption
  <1> QED BY <1>4, <1>5, <1>6, <1>8, <1>9, <1>10, <1>11, <1>12 DEF Receive

(* The request that writes is the only one. *)
LEMMA TheOnlyOne ==
  ASSUME RosterInv, NEW q \in requests
  PROVE  /\ requests = {q} /\ q \in Request /\ StillSo(q) /\ Loaded
         /\ q.op # "saveAuction" => HaveStart(auction.start)
         /\ q.op = "saveAuction" => HaveStart(q.entity.start)
  <1>1. requests = {q} /\ q \in Request /\ StillSo(q) /\ Loaded
    BY DEF RosterInv, OneAtATime, RosterTypeOK, GoneIsEmpty
  <1> QED BY <1>1 DEF RosterInv, CaptainsDue

(* The rows of an auction are orderly whenever the invariant holds. *)
LEMMA RowsAreOrderly == ASSUME RosterInv PROVE RosterRows
  BY DEF RosterInv, RosterTypeOK, RosterRows, GoneIsEmpty

(* The next of a list is added or passed over. *)
LEMMA AddNextKeepsInv ==
  ASSUME RosterInv, NEW q \in requests, NEW u \in User, AddNext(q, u)
  PROVE  RosterInv'
  <1>1. /\ requests = {q} /\ q \in Request /\ Loaded /\ HaveStart(auction.start)
        /\ q.op = "bulk" /\ q.users \in SUBSET User
    BY TheOnlyOne, RequestFields DEF AddNext
  <1>2. UNCHANGED <<auction, entry, bid, crashes>> /\ 0 \in Nat /\ "PLAYER" \in Role
    BY DEF AddNext, auctionVars, Role
  <1>3. CASE Find(u) = {}
    <2>1. PICK n : n = InsertOf(u, "PLAYER", 0, q.users \ {u})
      OBVIOUS
    <2>2. n.op = "insert" /\ n.user = u /\ n.role = "PLAYER"
      BY <2>1 DEF InsertOf
    <2>3. n \in Request
      BY <1>1, <1>2, <2>1, RequestsOf
    <2>4. requests' \subseteq {n}
      BY <1>1, <1>3, <2>1 DEF AddNext
    <2>5. StillSo(n)
      BY <1>3, <2>2 DEF StillSo
    <2> QED BY <1>1, <1>2, <2>2, <2>3, <2>4, <2>5, ReadingKeepsInv
  <1>4. CASE Find(u) # {}
    <2>1. PICK n : n = [op |-> "bulk", users |-> q.users \ {u}]
      OBVIOUS
    <2>2. n.op = "bulk" /\ n \in Request
      BY <1>1, <2>1 DEF Request
    <2>3. requests' \subseteq {n}
      BY <1>1, <1>4, <2>1 DEF AddNext, Bulk
    <2>4. StillSo(n)
      BY <2>2 DEF StillSo
    <2> QED BY <1>1, <1>2, <2>2, <2>3, <2>4, ReadingKeepsInv
  <1> QED BY <1>3, <1>4

(* One row is written: e takes the place of what row r was, which had the same user or  *)
(* was free.                                                                            *)
LEMMA RowWritten ==
  ASSUME RosterRows, NEW r \in Row, NEW e \in Entry, Loaded,
         entry' = [entry EXCEPT ![r] = e], UNCHANGED <<auction, bid>>,
         e.price = 0, IsPending => e.team = None /\ ~ e.unsold,
         IF entry[r] = None THEN Find(e.user) = {} ELSE e.user = entry[r].user,
         HaveStart(auction.start), e.role = "CAPTAIN" => e.points = auction.start
  PROVE  RosterRows' /\ HaveStart(auction.start)' /\ Used' = Used \cup {r}
  <1>1. /\ \A s \in Row : entry'[s] = IF s = r THEN e ELSE entry[s]
        /\ e # None /\ AuctionTypeOK
    BY NoneAssumption DEF RosterRows, AuctionTypeOK
  <1>2. Used' = Used \cup {r} /\ IsPending' = IsPending /\ Loaded' = Loaded
    BY <1>1 DEF Used, IsPending, Loaded
  <1>3. UsersUnique'
    <2>1. \A s \in Used : s # r => entry[s].user # e.user
      BY DEF RosterRows, UsersUnique, Used, Find
    <2> QED BY <1>1, <1>2, <2>1 DEF RosterRows, UsersUnique
  <1>4. NothingBid' /\ NothingCharged' /\ PendingIsFresh'
    BY <1>1, <1>2 DEF RosterRows, NothingBid, NothingCharged, PendingIsFresh
  <1>5. AuctionTypeOK'
    BY <1>1 DEF AuctionTypeOK
  <1>6. HaveStart(auction.start)'
    BY <1>1 DEF HaveStart, Captains
  <1> QED BY <1>2, <1>3, <1>4, <1>5, <1>6 DEF RosterRows

(* A new row is written. *)
LEMMA InsertKeepsInv ==
  ASSUME RosterInv, NEW q \in requests, Insert(q)
  PROVE  RosterInv'
  <1>1. /\ requests = {q} /\ q \in Request /\ StillSo(q) /\ Loaded /\ HaveStart(auction.start)
        /\ q.op = "insert" /\ q.user \in User /\ q.role \in Role /\ q.points \in Nat
        /\ q.rest \in SUBSET User
    BY TheOnlyOne, RequestFields DEF Insert
  <1>2. PICK e : e = NewEntry(q.user, q.role, q.points)
    OBVIOUS
  <1>3. e \in Entry /\ e.user = q.user /\ e.role = q.role /\ e.points = q.points
        /\ e.price = 0 /\ e.team = None /\ ~ e.unsold
    BY <1>1, <1>2 DEF NewEntry, Entry
  <1>4. FreeRow \in Row /\ entry[FreeRow] = None
    BY DEF Insert, FreeRow, Used
  <1>5. PICK r \in Row : r = FreeRow /\ entry[r] = None
    BY <1>4
  <1>6. entry' = [entry EXCEPT ![r] = e] /\ UNCHANGED <<auction, bid, crashes>>
    BY <1>1, <1>2, <1>5 DEF Insert
  <1>7. Find(e.user) = {} /\ (e.role = "CAPTAIN" => e.points = auction.start)
    BY <1>1, <1>3 DEF StillSo
  <1>8. RosterRows' /\ HaveStart(auction.start)'
    BY <1>1, <1>3, <1>5, <1>6, <1>7, RowsAreOrderly, RowWritten
  <1>9. PICK n : n = [op |-> "bulk", users |-> q.rest]
    OBVIOUS
  <1>10. n.op = "bulk" /\ n \in Request
    BY <1>1, <1>9 DEF Request
  <1>11. requests' \subseteq {n} /\ Loaded'
    BY <1>1, <1>6, <1>9 DEF Insert, Bulk, Loaded
  <1>12. StillSo(n)'
    BY <1>10 DEF StillSo
  <1> QED BY <1>6, <1>8, <1>10, <1>11, <1>12, OneWaits

(* A player who has become a captain is written. *)
LEMMA SaveKeepsInv ==
  ASSUME RosterInv, NEW q \in requests, Save(q)
  PROVE  RosterInv'
  <1>1. /\ requests = {q} /\ q \in Request /\ StillSo(q) /\ Loaded /\ HaveStart(auction.start)
        /\ q.op = "save" /\ q.row \in Row /\ q.entity \in Entry
    BY TheOnlyOne, RequestFields DEF Save
  <1>2. PICK r \in Row, e \in Entry : r = q.row /\ e = q.entity
    BY <1>1
  <1>3. entry[r] # None /\ entry[r] \in Entry
        /\ e = [entry[r] EXCEPT !.role = "CAPTAIN", !.points = auction.start]
    BY <1>1, <1>2 DEF StillSo, RosterInv, RosterTypeOK, AuctionTypeOK
  <1>4. e.user = entry[r].user /\ e.price = entry[r].price /\ e.team = entry[r].team
        /\ e.unsold = entry[r].unsold /\ e.points = auction.start
    BY <1>3 DEF Entry
  <1>5. e.price = 0 /\ (IsPending => e.team = None /\ ~ e.unsold)
    BY <1>3, <1>4 DEF RosterInv, NothingCharged, PendingIsFresh, Used
  <1>6. entry' = [entry EXCEPT ![r] = e] /\ UNCHANGED <<auction, bid, crashes>>
    BY <1>1, <1>2 DEF Save
  <1>7. RosterRows' /\ HaveStart(auction.start)'
    BY <1>1, <1>3, <1>4, <1>5, <1>6, RowsAreOrderly, RowWritten
  <1>8. requests' = {}
    BY <1>1 DEF Save, End
  <1> QED BY <1>1, <1>6, <1>7, <1>8, OneWaits

(* Rows go. *)
LEMMA RowsRemoved ==
  ASSUME RosterRows, NEW R \in SUBSET Row, UNCHANGED auction, NothingBid', bid' \in [User -> [User -> Nat]],
         entry' = [r \in Row |-> IF r \in R THEN None ELSE entry[r]]
  PROVE  /\ RosterRows' /\ Used' = Used \ R
         /\ HaveStart(auction.start) => HaveStart(auction.start)'
  <1>1. Used' = Used \ R /\ IsPending' = IsPending /\ Loaded' = Loaded
    BY DEF Used, IsPending, Loaded
  <1>2. \A r \in Used' : r \in Used /\ entry'[r] = entry[r]
    BY <1>1 DEF Used
  <1>3. UsersUnique' /\ NothingCharged' /\ PendingIsFresh'
    BY <1>1, <1>2 DEF RosterRows, UsersUnique, NothingCharged, PendingIsFresh
  <1>4. AuctionTypeOK'
    BY DEF RosterRows, AuctionTypeOK
  <1>5. HaveStart(auction.start) => HaveStart(auction.start)'
    BY DEF HaveStart, Captains
  <1> QED BY <1>1, <1>3, <1>4, <1>5 DEF RosterRows

(* A participant is removed. *)
LEMMA RemoveKeepsInv ==
  ASSUME RosterInv, NEW q \in requests, Remove(q)
  PROVE  RosterInv'
  <1>1. /\ requests = {q} /\ q \in Request /\ Loaded /\ HaveStart(auction.start)
        /\ q.op = "remove" /\ q.row \in Row
    BY TheOnlyOne, RequestFields DEF Remove
  <1>2. PICK r \in Row : r = q.row
    BY <1>1
  <1>3. entry' = [entry EXCEPT ![r] = None] /\ UNCHANGED <<auction, bid, crashes>>
    BY <1>2 DEF Remove
  <1>4. entry' = [s \in Row |-> IF s \in {r} THEN None ELSE entry[s]]
    BY <1>3 DEF RosterInv, RosterTypeOK, AuctionTypeOK
  <1>5. NothingBid' /\ bid' \in [User -> [User -> Nat]]
    BY <1>3 DEF RosterInv, RosterTypeOK, AuctionTypeOK, NothingBid
  <1>6. RosterRows' /\ HaveStart(auction.start)'
    BY <1>1, <1>3, <1>4, <1>5, RowsAreOrderly, RowsRemoved
  <1>7. requests' = {}
    BY <1>1 DEF Remove, End
  <1> QED BY <1>1, <1>3, <1>6, <1>7, OneWaits

(* The captains get the new starting points. *)
LEMMA UpdateCaptainsKeepsInv ==
  ASSUME RosterInv, NEW q \in requests, UpdateCaptains(q)
  PROVE  RosterInv'
  <1>1. /\ requests = {q} /\ q \in Request /\ StillSo(q) /\ Loaded
        /\ q.op = "updateCaptains" /\ q.entity \in AuctionRow /\ q.loaded \in SUBSET Row
    BY TheOnlyOne, RequestFields DEF UpdateCaptains
  <1>2. PICK n : n = [q EXCEPT !.op = "saveAuction"]
    OBVIOUS
  <1>3. /\ n.op = "saveAuction" /\ n.entity = q.entity /\ n.loaded = q.loaded /\ n \in Request
    BY <1>1, <1>2 DEF Request
  <1>4. requests' \subseteq {n} /\ UNCHANGED <<auction, bid, crashes>> /\ entry' = CaptainsUpdated(q)
    BY <1>1, <1>2 DEF UpdateCaptains, Continue
  <1>5. PICK start \in Int : start = q.entity.start
    BY <1>1 DEF AuctionRow
  <1>6. AuctionTypeOK /\ entry \in [Row -> Entry \cup {None}]
    BY DEF RosterInv, RosterTypeOK, AuctionTypeOK
  <1>7. ASSUME NEW r \in Row
        PROVE  /\ entry[r] = None => entry'[r] = None
               /\ entry[r] # None =>
                    /\ entry'[r] \in Entry
                    /\ entry'[r].user = entry[r].user /\ entry'[r].role = entry[r].role
                    /\ entry'[r].price = entry[r].price /\ entry'[r].team = entry[r].team
                    /\ entry'[r].unsold = entry[r].unsold
                    /\ entry[r].role = "CAPTAIN" => entry'[r].points = start
    <2>1. entry'[r] = IF r \in Captains THEN [entry[r] EXCEPT !.points = start] ELSE entry[r]
      BY <1>4, <1>5 DEF CaptainsUpdated
    <2>2. CASE r \in Captains
      <3>1. entry[r] \in Entry /\ entry[r] # None
        BY <1>6, <2>2 DEF Captains
      <3>2. entry'[r] = [entry[r] EXCEPT !.points = start]
        BY <2>1, <2>2
      <3> QED BY <3>1, <3>2 DEF Entry
    <2>3. CASE r \notin Captains
      BY <1>6, <2>1, <2>3 DEF Captains
    <2> QED BY <2>2, <2>3
  <1>8. /\ Used' = Used /\ Captains' = Captains /\ IsPending' = IsPending /\ Loaded' = Loaded
        /\ \A r \in Used : entry'[r] # None
    BY <1>4, <1>7, NoneAssumption DEF Used, Captains, IsPending, Loaded
  <1>9. entry' \in [Row -> Entry \cup {None}]
    BY <1>4, <1>6, <1>7 DEF CaptainsUpdated
  <1>10. AuctionTypeOK' /\ NothingBid'
    BY <1>4, <1>6, <1>9 DEF RosterInv, AuctionTypeOK, NothingBid
  <1>11. \A r \in Used : r \in Row /\ entry[r] # None
    BY DEF Used
  <1>12. UsersUnique' /\ NothingCharged' /\ PendingIsFresh'
    BY <1>7, <1>8, <1>11 DEF RosterInv, UsersUnique, NothingCharged, PendingIsFresh
  <1>13. RosterRows' /\ Loaded'
    BY <1>1, <1>8, <1>10, <1>12 DEF RosterRows
  <1>14. HaveStart(n.entity.start)'
    BY <1>3, <1>5, <1>7, <1>8 DEF HaveStart, Captains
  <1>15. StillSo(n)'
    BY <1>1, <1>3, <1>4, <1>8 DEF StillSo
  <1>16. n \in requests'
    BY <1>2, <1>1 DEF UpdateCaptains, Continue
  <1> QED BY <1>3, <1>4, <1>13, <1>14, <1>15, <1>16, OneWaits

(* The auction gets the new settings: no participant has been added since it was read. *)
LEMMA SaveAuctionKeepsInv ==
  ASSUME RosterInv, NEW q \in requests, SaveAuction(q)
  PROVE  RosterInv'
  <1>1. /\ requests = {q} /\ q \in Request /\ StillSo(q) /\ Loaded /\ HaveStart(q.entity.start)
        /\ q.op = "saveAuction" /\ q.entity \in AuctionRow
    BY TheOnlyOne, RequestFields DEF SaveAuction
  <1>2. q.loaded = Used /\ q.entity = [auction EXCEPT !.start = q.entity.start, !.teams = q.entity.teams]
    BY <1>1 DEF StillSo
  <1>3. auction' = q.entity /\ UNCHANGED <<entry, bid, crashes>> /\ requests' = {}
    BY <1>1, <1>2 DEF SaveAuction, End
  <1>4. auction \in AuctionRow
    BY DEF RosterInv, RosterTypeOK, AuctionTypeOK
  <1>5. auction'.status = auction.status /\ auction' \in AuctionRow
    BY <1>1, <1>2, <1>3, <1>4 DEF AuctionRow
  <1>6. Used' = Used /\ IsPending' = IsPending /\ Loaded' = Loaded
    BY <1>3, <1>5 DEF Used, IsPending, Loaded
  <1>7. RosterRows'
    BY <1>1, <1>3, <1>5, <1>6 DEF RosterInv, RosterTypeOK, RosterRows, AuctionTypeOK, UsersUnique,
         NothingBid, NothingCharged, PendingIsFresh
  <1>8. HaveStart(auction.start)'
    BY <1>1, <1>3 DEF HaveStart, Captains
  <1> QED BY <1>1, <1>3, <1>7, <1>8, OneWaits

(* The steps of a deletion. *)
LEMMA DeletingKeepsInv ==
  ASSUME RosterInv, NEW q \in requests,
         DeleteParticipants(q) \/ DeleteBids(q) \/ RemoveAuction(q)
  PROVE  RosterInv'
  <1>1. /\ requests = {q} /\ q \in Request /\ Loaded /\ HaveStart(auction.start)
        /\ AuctionTypeOK /\ auction \in AuctionRow
    <2>1. q.op # "saveAuction"
      BY DEF DeleteParticipants, DeleteBids, RemoveAuction
    <2> QED BY <2>1, TheOnlyOne DEF RosterInv, RosterTypeOK, AuctionTypeOK
  <1>2. ASSUME bid' = [u \in User |-> [t \in User |-> 0]] \/ bid' = bid
        PROVE  NothingBid' /\ bid' \in [User -> [User -> Nat]]
    BY <1>2 DEF RosterInv, RosterTypeOK, AuctionTypeOK, NothingBid
  <1>3. ASSUME NEW op \in {"deleteBids", "removeAuction"}, NEW R \in SUBSET Row,
               requests' = {[op |-> op]}, UNCHANGED <<auction, crashes>>,
               bid' = [u \in User |-> [t \in User |-> 0]] \/ bid' = bid,
               entry' = [r \in Row |-> IF r \in R THEN None ELSE entry[r]]
        PROVE  RosterInv'
    <2>1. PICK n : n = [op |-> op]
      OBVIOUS
    <2>2. n.op = op /\ n \in Request /\ requests' \subseteq {n}
      BY <1>3, <2>1 DEF Request
    <2>3. RosterRows' /\ HaveStart(auction.start)'
      BY <1>1, <1>2, <1>3, RowsAreOrderly, RowsRemoved
    <2>4. StillSo(n)' /\ Loaded'
      BY <1>1, <1>3, <2>2 DEF StillSo, Loaded
    <2> QED BY <1>3, <2>2, <2>3, <2>4, OneWaits
  <1>4. CASE DeleteParticipants(q)
    <2>1. requests' = {[op |-> "deleteBids"]} /\ UNCHANGED <<auction, bid, crashes>>
      BY <1>1, <1>4 DEF DeleteParticipants, Continue
    <2>2. entry' = [r \in Row |-> IF r \in Row THEN None ELSE entry[r]]
      BY <1>4 DEF DeleteParticipants
    <2> QED BY <1>3, <2>1, <2>2
  <1>5. CASE DeleteBids(q)
    <2>1. requests' = {[op |-> "removeAuction"]} /\ UNCHANGED <<auction, entry, crashes>>
          /\ bid' = [u \in User |-> [t \in User |-> 0]]
      BY <1>1, <1>5 DEF DeleteBids, Continue
    <2>2. PICK R \in SUBSET Row : R = {}
      OBVIOUS
    <2>3. entry' = [r \in Row |-> IF r \in R THEN None ELSE entry[r]]
      BY <1>1, <2>1, <2>2 DEF AuctionTypeOK
    <2> QED BY <1>3, <2>1, <2>3
  <1>6. CASE RemoveAuction(q)
    <2>1. /\ auction' = [NewAuction EXCEPT !.status = "GONE"] /\ requests' = {} /\ UNCHANGED crashes
          /\ entry' = [r \in Row |-> None] /\ bid' = [u \in User |-> [t \in User |-> 0]]
      BY <1>1, <1>6 DEF RemoveAuction, End
    <2>2. auction' \in AuctionRow /\ auction'.status = "GONE"
      BY <2>1, SettingsAssumption DEF NewAuction, AuctionRow, BiddingPhase
    <2>3. AuctionTypeOK' /\ NothingBid'
      BY <1>2, <2>1, <2>2 DEF AuctionTypeOK
    <2>4. Used' = {} /\ Captains' = {}
      BY <2>1 DEF Used, Captains
    <2>5. RosterRows' /\ HaveStart(auction.start)'
      BY <2>3, <2>4 DEF RosterRows, UsersUnique, NothingCharged, PendingIsFresh, HaveStart
    <2> QED BY <1>1, <2>1, <2>5, OneWaits
  <1> QED BY <1>4, <1>5, <1>6

(* Every statement of the request in progress. *)
LEMMA WriteKeepsInv ==
  ASSUME RosterInv, NEW q \in requests, Write(q)
  PROVE  RosterInv'
  BY AddNextKeepsInv, InsertKeepsInv, SaveKeepsInv, RemoveKeepsInv, UpdateCaptainsKeepsInv,
     SaveAuctionKeepsInv, DeletingKeepsInv DEF Write

(* What the rows are after a transaction of the master when nobody has bid: the same    *)
(* members, who cost nothing and have the points they had or get those of the start;    *)
(* and before the start they are left alone.                                            *)
RowsStay ==
  /\ \A r \in Row :
       /\ entry'[r] = None <=> entry[r] = None
       /\ entry[r] # None =>
            /\ entry'[r] \in Entry /\ entry'[r].price = 0
            /\ entry'[r].user = entry[r].user /\ entry'[r].role = entry[r].role
            /\ entry[r].role = "CAPTAIN" => entry'[r].points = auction.start
  /\ IsPending => entry' = entry
  /\ entry' \in [Row -> Entry \cup {None}]

(* No row changes in a step that leaves them alone. *)
LEMMA UnchangedRowsStay ==
  ASSUME RosterRows, HaveStart(auction.start), entry' = entry
  PROVE  RowsStay
  <1>1. \A r \in Row : entry[r] # None =>
          /\ entry[r] \in Entry /\ entry[r].price = 0
          /\ entry[r].role = "CAPTAIN" => entry[r].points = auction.start
    BY DEF RosterRows, AuctionTypeOK, NothingCharged, Used, HaveStart, Captains
  <1> QED BY <1>1 DEF RosterRows, AuctionTypeOK, RowsStay

(* One row changes. *)
LEMMA ChangedRowStays ==
  ASSUME RosterRows, HaveStart(auction.start), NEW r \in Row, NEW e \in Entry, entry[r] # None,
         e.price = 0, e.user = entry[r].user, e.role = entry[r].role, ~ IsPending,
         e.role = "CAPTAIN" => e.points = auction.start,
         entry' = [q \in Row |-> IF q = r THEN e ELSE entry[q]]
  PROVE  RowsStay
  <1>1. \A q \in Row : entry[q] # None =>
          /\ entry[q] \in Entry /\ entry[q].price = 0
          /\ entry[q].role = "CAPTAIN" => entry[q].points = auction.start
    BY DEF RosterRows, AuctionTypeOK, NothingCharged, Used, HaveStart, Captains
  <1>2. e # None /\ entry \in [Row -> Entry \cup {None}]
    BY NoneAssumption DEF RosterRows, AuctionTypeOK
  <1> QED BY <1>1, <1>2 DEF RowsStay

(* An assignment by hand: after the bidding, for nothing. *)
LEMMA AssignRowsStay ==
  ASSUME RosterRows, HaveStart(auction.start), NEW p \in User, NEW c \in User,
         ManualAssignPlayer(p, c)
  PROVE  RowsStay
  <1>1. PICK r \in FindRole(p, "PLAYER") :
          entry' = [entry EXCEPT ![r].team = c, ![r].price = 0, ![r].unsold = TRUE]
    BY DEF ManualAssignPlayer
  <1>2. r \in Row /\ entry[r] # None /\ entry[r] \in Entry /\ entry[r].role = "PLAYER"
    BY <1>1 DEF FindRole, Find, RosterRows, AuctionTypeOK
  <1>3. PICK e : e = [entry[r] EXCEPT !.team = c, !.price = 0, !.unsold = TRUE]
    OBVIOUS
  <1>4. e \in Entry
    <2>1. c \in User \cup {None} /\ 0 \in Int /\ TRUE \in BOOLEAN
      OBVIOUS
    <2>2. [entry[r] EXCEPT !.team = c, !.price = 0, !.unsold = TRUE] \in Entry
      BY <1>2, <2>1, EntryChanges, Zenon
    <2> QED BY <1>3, <2>2
  <1>5. e.price = 0 /\ e.user = entry[r].user /\ e.role = entry[r].role
    BY <1>2, <1>3 DEF Entry
  <1>6. entry' = [q \in Row |-> IF q = r THEN e ELSE entry[q]]
    BY <1>1, <1>2, <1>3 DEF RosterRows, AuctionTypeOK
  <1>7. ~ IsPending
    BY DEF ManualAssignPlayer, IsPending
  <1> QED BY <1>2, <1>4, <1>5, <1>6, <1>7, ChangedRowStays

(* An assignment is undone: nothing was paid, so nothing is given back. *)
LEMMA UndoRowsStay ==
  ASSUME RosterRows, HaveStart(auction.start), NEW p \in User, UndoSoldPlayer(p)
  PROVE  RowsStay
  <1>1. PICK r \in FindRole(p, "PLAYER") :
          /\ ~ Unassigned(r)
          /\ \E c \in OneOf(Find(entry[r].team)) :
               entry' = [q \in Row |->
                 CASE q = r -> [entry[q] EXCEPT !.team = None, !.price = 0, !.unsold = FALSE]
                   [] q = c /\ q # r -> [entry[q] EXCEPT !.points = @ + RefundOf(r)]
                   [] OTHER -> entry[q]]
    BY DEF UndoSoldPlayer
  <1>2. /\ r \in Row /\ entry[r] # None /\ entry[r] \in Entry /\ entry[r].role = "PLAYER"
        /\ entry[r].price = 0
    BY <1>1 DEF FindRole, Find, RosterRows, AuctionTypeOK, NothingCharged, Used
  <1>3. RefundOf(r) = 0
    BY <1>2 DEF RefundOf
  <1>4. PICK e : e = [entry[r] EXCEPT !.team = None, !.price = 0, !.unsold = FALSE]
    OBVIOUS
  <1>5. e \in Entry
    <2>1. None \in User \cup {None} /\ 0 \in Int /\ FALSE \in BOOLEAN
      OBVIOUS
    <2> QED BY <1>2, <1>4, <2>1, EntryChanges
  <1>6. e.price = 0 /\ e.user = entry[r].user /\ e.role = entry[r].role
    BY <1>2, <1>4 DEF Entry
  <1>7. PICK c \in OneOf(Find(entry[r].team)) :
          entry' = [q \in Row |->
            CASE q = r -> [entry[q] EXCEPT !.team = None, !.price = 0, !.unsold = FALSE]
              [] q = c /\ q # r -> [entry[q] EXCEPT !.points = @ + RefundOf(r)]
              [] OTHER -> entry[q]]
    BY <1>1
  <1>8. ASSUME NEW q \in Row PROVE entry'[q] = IF q = r THEN e ELSE entry[q]
    <2>1. CASE q = r
      BY <1>4, <1>7, <2>1
    <2>2. CASE q = c /\ q # r
      <3>1. q \in Find(entry[r].team)
        BY <1>7, <2>2, NoneAssumption DEF OneOf
      <3>2. entry[q] \in Entry
        BY <3>1 DEF Find, RosterRows, AuctionTypeOK
      <3>3. entry'[q] = [entry[q] EXCEPT !.points = entry[q].points + RefundOf(r)]
        BY <1>7, <2>2
      <3>4. entry[q].points + RefundOf(r) = entry[q].points
        BY <1>3, <3>2 DEF Entry
      <3>5. [entry[q] EXCEPT !.points = entry[q].points] = entry[q]
        BY <3>2 DEF Entry
      <3> QED BY <2>2, <3>3, <3>4, <3>5
    <2>3. CASE q # c /\ q # r
      BY <1>7, <2>3
    <2> QED BY <2>1, <2>2, <2>3
  <1>9. entry' = [q \in Row |-> IF q = r THEN e ELSE entry[q]]
    <2>1. entry' = [q \in Row |-> entry'[q]]
      BY <1>7
    <2> QED BY <1>8, <2>1
  <1>10. ~ IsPending
    BY <1>1, <1>2 DEF RosterRows, PendingIsFresh, Unassigned, Used
  <1> QED BY <1>2, <1>5, <1>6, <1>9, <1>10, ChangedRowStays

(* The rows of an auction that begins anew. *)
LEMMA ResetRowsStay ==
  ASSUME RosterRows, HaveStart(auction.start), Reset
  PROVE  RowsStay
  <1>1. entry' = [r \in Row |-> ResetEntry(r)] /\ ~ IsPending /\ auction.start \in Int
    BY DEF Reset, IsPending, RosterRows, AuctionTypeOK, AuctionRow
  <1>2. ASSUME NEW r \in Row
        PROVE  /\ entry'[r] = None <=> entry[r] = None
               /\ entry[r] # None =>
                    /\ entry'[r] \in Entry /\ entry'[r].price = 0
                    /\ entry'[r].user = entry[r].user /\ entry'[r].role = entry[r].role
                    /\ entry[r].role = "CAPTAIN" => entry'[r].points = auction.start
    <2>1. entry'[r] = ResetEntry(r)
      BY <1>1
    <2>2. CASE entry[r] = None
      BY <2>1, <2>2 DEF ResetEntry
    <2>3. ASSUME entry[r] # None
          PROVE  entry[r] \in Entry /\ entry[r].price = 0
      BY <2>3 DEF RosterRows, AuctionTypeOK, NothingCharged, Used
    <2>4. CASE entry[r] # None /\ entry[r].role = "CAPTAIN"
      <3>1. entry'[r] = [entry[r] EXCEPT !.points = auction.start]
        BY <2>1, <2>4, Zenon DEF ResetEntry
      <3>2. entry[r] \in Entry /\ entry[r].price = 0
        BY <2>3, <2>4
      <3>3. entry'[r] \in Entry
        BY <1>1, <3>1, <3>2 DEF Entry
      <3>4. /\ entry'[r].user = entry[r].user /\ entry'[r].role = entry[r].role
            /\ entry'[r].price = entry[r].price /\ entry'[r].points = auction.start
        BY <3>1, <3>2 DEF Entry
      <3> QED BY <2>4, <3>2, <3>3, <3>4, NoneAssumption
    <2>5. CASE entry[r] # None /\ entry[r].role = "PLAYER"
      <3>1. entry'[r] = [entry[r] EXCEPT !.team = None, !.price = 0, !.unsold = FALSE]
        BY <2>1, <2>5, Zenon DEF ResetEntry
      <3>2. entry[r] \in Entry /\ None \in User \cup {None} /\ 0 \in Int /\ FALSE \in BOOLEAN
        BY <2>3, <2>5
      <3>3. [entry[r] EXCEPT !.team = None, !.price = 0, !.unsold = FALSE] \in Entry
        BY <3>2, EntryChanges, Zenon
      <3>4. /\ entry'[r].user = entry[r].user /\ entry'[r].role = entry[r].role
            /\ entry'[r].price = 0
        BY <3>1, <3>2 DEF Entry
      <3> QED BY <2>5, <3>1, <3>3, <3>4, NoneAssumption
    <2>6. CASE entry[r] # None /\ entry[r].role \notin {"CAPTAIN", "PLAYER"}
      <3>1. entry'[r] = entry[r]
        BY <2>1, <2>6, Zenon DEF ResetEntry
      <3> QED BY <2>3, <2>6, <3>1
    <2> QED BY <2>2, <2>4, <2>5, <2>6
  <1>3. entry' \in [Row -> Entry \cup {None}]
    BY <1>1, <1>2
  <1> QED BY <1>1, <1>2, <1>3 DEF RowsStay

(* Nobody is bought while nobody bids. *)
LEMMA NobodyBids ==
  ASSUME RosterRows
  PROVE  ~ ConfirmCurrentBid
  <1>1. ASSUME ConfirmCurrentBid PROVE FALSE
    <2>1. PICK u \in HighestBidders(auction.current) : TRUE
      BY <1>1 DEF ConfirmCurrentBid
    <2>2. auction.current \in User
      BY <1>1 DEF ConfirmCurrentBid, Confirmable, RosterRows, AuctionTypeOK, AuctionRow
    <2> QED BY <2>1, <2>2 DEF HighestBidders, RosterRows, NothingBid
  <1> QED BY <1>1

(* A transaction of the master, in any state of the auction. *)
LEMMA MasterRows ==
  ASSUME RosterRows, HaveStart(auction.start), MasterStep
  PROVE  /\ RowsStay /\ NothingBid' /\ bid' \in [User -> [User -> Nat]]
         /\ auction' \in AuctionRow /\ auction'.start = auction.start /\ Loaded'
         /\ IsPending' => IsPending
  <1>1. AuctionTypeOK /\ NothingBid /\ auction \in AuctionRow /\ bid \in [User -> [User -> Nat]]
    BY DEF RosterRows, AuctionTypeOK
  <1> DEFINE Only == \/ Start \/ Complete \/ PauseAuction \/ ResumeAuction \/ PauseTimer
                     \/ ResumeTimer \/ NextPlayer \/ EnterAssignmentPhase
                     \/ \E p \in User : SelectPlayer(p)
  <1>2. CASE Only
    <2>1. auction' \in AuctionRow /\ auction'.start = auction.start /\ UNCHANGED <<entry, bid>>
      BY <1>1, <1>2, RowChanges
    <2>2. /\ auction.status # "GONE" /\ auction'.status # "GONE"
          /\ auction'.status = "PENDING" => auction.status = "PENDING"
      BY <1>1, <1>2 DEF Start, Complete, PauseAuction, ResumeAuction, PauseTimer, ResumeTimer,
           NextPlayer, EnterAssignmentPhase, SelectPlayer, IsOngoing, Loaded, AuctionRow
    <2> QED BY <1>1, <2>1, <2>2, UnchangedRowsStay DEF NothingBid, Loaded, IsPending
  <1>3. CASE ConfirmCurrentBid
    BY <1>3, NobodyBids
  <1>4. CASE PassCurrentPlayer
    <2>1. UNCHANGED entry /\ auction' = [auction EXCEPT !.current = None, !.left = None] /\ Loaded
      BY <1>4 DEF PassCurrentPlayer
    <2>2. auction' \in AuctionRow /\ auction'.start = auction.start /\ auction'.status = auction.status
      BY <1>1, <2>1 DEF AuctionRow
    <2>3. NothingBid' /\ bid' \in [User -> [User -> Nat]]
      BY <1>1, <1>4 DEF PassCurrentPlayer, NoBidsFor, NothingBid
    <2> QED BY <2>1, <2>2, <2>3, UnchangedRowsStay DEF Loaded, IsPending
  <1>5. CASE Reset
    <2>1. /\ auction' = [auction EXCEPT !.status = "ONGOING", !.phase = "WAITING", !.current = None,
                           !.left = None, !.timerPaused = FALSE, !.pausedLeft = None]
          /\ bid' = [u \in User |-> [t \in User |-> 0]]
      BY <1>5 DEF Reset
    <2>2. /\ auction' \in AuctionRow /\ auction'.start = auction.start
          /\ auction'.status = "ONGOING"
      BY <1>1, <2>1 DEF AuctionRow, AuctionStatus, BiddingPhase
    <2>3. NothingBid' /\ bid' \in [User -> [User -> Nat]]
      BY <2>1 DEF NothingBid
    <2> QED BY <1>5, <2>2, <2>3, ResetRowsStay DEF Loaded, IsPending
  <1>6. CASE \E p \in User : UndoSoldPlayer(p)
    BY <1>1, <1>6, UndoRowsStay DEF UndoSoldPlayer, NothingBid, Loaded, IsPending
  <1>7. CASE \E p, c \in User : ManualAssignPlayer(p, c)
    BY <1>1, <1>7, AssignRowsStay DEF ManualAssignPlayer, NothingBid, Loaded, IsPending
  <1> QED BY <1>2, <1>3, <1>4, <1>5, <1>6, <1>7 DEF MasterStep

(* A transaction of the master between two requests. *)
LEMMA MasterKeepsInv ==
  ASSUME RosterInv, requests = {}, MasterStep, UNCHANGED <<requests, crashes>>
  PROVE  RosterInv'
  <1>1. RosterRows /\ HaveStart(auction.start)
    BY RowsAreOrderly DEF RosterInv, CaptainsDue
  <1>2. /\ RowsStay /\ NothingBid' /\ bid' \in [User -> [User -> Nat]]
        /\ auction' \in AuctionRow /\ auction'.start = auction.start /\ Loaded'
        /\ IsPending' => IsPending
    BY <1>1, MasterRows
  <1>3. AuctionTypeOK'
    BY <1>2 DEF RowsStay, AuctionTypeOK
  <1>4. Used' = Used /\ Captains' = Captains
    BY <1>2 DEF RowsStay, Used, Captains
  <1>5. UsersUnique' /\ NothingCharged'
    BY <1>1, <1>2, <1>4 DEF RosterRows, RowsStay, UsersUnique, NothingCharged, Used
  <1>6. PendingIsFresh'
    BY <1>1, <1>2, <1>4 DEF RosterRows, RowsStay, PendingIsFresh
  <1>7. RosterRows'
    BY <1>2, <1>3, <1>5, <1>6 DEF RosterRows
  <1>8. HaveStart(auction.start)'
    BY <1>2, <1>4 DEF RowsStay, HaveStart, Captains
  <1>9. PICK n \in Request : TRUE
    <2>1. [op |-> "deleteBids"] \in Request
      BY DEF Request
    <2> QED BY <2>1
  <1> QED BY <1>7, <1>8, <1>9, OneWaits

(* A new auction, when the last is gone with all that hung on it. *)
LEMMA CreateKeepsInv ==
  ASSUME RosterInv, NEW start \in Nat, NEW teams \in Nat, ~ Loaded,
         auction' = [NewAuction EXCEPT !.start = start, !.teams = teams],
         UNCHANGED <<entry, bid, requests, crashes>>
  PROVE  RosterInv'
  <1>1. Used = {} /\ requests' = {}
    BY DEF RosterInv, GoneIsEmpty
  <1>2. auction' \in AuctionRow
    BY SettingsAssumption DEF NewAuction, AuctionRow, AuctionStatus, BiddingPhase
  <1>3. Used' = {} /\ Captains' = {}
    BY <1>1 DEF Used, Captains
  <1>4. RosterRows'
    BY <1>2, <1>3 DEF RosterInv, RosterTypeOK, AuctionTypeOK, RosterRows, UsersUnique, NothingBid,
         NothingCharged, PendingIsFresh
  <1>5. HaveStart(auction.start)'
    BY <1>3 DEF HaveStart
  <1>6. PICK n \in Request : TRUE
    <2>1. [op |-> "deleteBids"] \in Request
      BY DEF Request
    <2> QED BY <2>1
  <1> QED BY <1>1, <1>4, <1>5, <1>6, OneWaits

(* One call after the other. *)
LEMMA SerialKeepsInv ==
  ASSUME RosterInv, [SerialNext]_rosterVars
  PROVE  RosterInv'
  <1>1. CASE requests = {} /\ Receive
    BY <1>1, ReceiveKeepsInv
  <1>2. CASE \E q \in requests : Write(q)
    BY <1>2, WriteKeepsInv
  <1>3. CASE requests = {} /\ MasterStep /\ UNCHANGED <<requests, crashes>>
    BY <1>3, MasterKeepsInv
  <1>4. CASE UNCHANGED rosterVars
    <2>1. UNCHANGED <<auction, entry, bid, requests, crashes>>
      BY <1>4 DEF rosterVars, auctionVars
    <2>2. RosterTypeOK'
      BY <2>1 DEF RosterInv, RosterTypeOK, AuctionTypeOK
    <2>3. UsersUnique' /\ NothingBid' /\ NothingCharged' /\ PendingIsFresh'
      BY <2>1 DEF RosterInv, UsersUnique, NothingBid, NothingCharged, PendingIsFresh, Used, IsPending
    <2>4. GoneIsEmpty' /\ OneAtATime' /\ CaptainsDue'
      BY <2>1 DEF RosterInv, GoneIsEmpty, OneAtATime, CaptainsDue, HaveStart, Captains, Used, Loaded
    <2>5. \A q \in requests' : StillSo(q)'
      BY <2>1 DEF RosterInv, StillSo, Find, Used
    <2> QED BY <2>2, <2>3, <2>4, <2>5 DEF RosterInv
  <1> QED BY <1>1, <1>2, <1>3, <1>4 DEF SerialNext

(* The participants the set-up finds are orderly enrolled. *)
LEMMA RosterInitInv ==
  ASSUME OrderlyEnrolled, RosterInit
  PROVE  RosterInv
  <1>1. AuctionInit /\ requests = {} /\ crashes = 0
    BY DEF RosterInit
  <1>2. auction = NewAuction /\ entry = Enrolled /\ bid = [u \in User |-> [t \in User |-> 0]]
    BY <1>1 DEF AuctionInit
  <1>3. AuctionTypeOK
    BY <1>1, InitInv DEF AuctionInv
  <1>4. RosterTypeOK
    BY <1>1, <1>3, BoundsAssumption DEF RosterTypeOK
  <1>5. UsersUnique /\ NothingBid /\ NothingCharged /\ PendingIsFresh
    BY <1>2 DEF OrderlyEnrolled, UsersUnique, NothingBid, NothingCharged, PendingIsFresh, Used
  <1>6. Loaded /\ auction.start = StartPoints
    BY <1>2 DEF NewAuction, Loaded
  <1>7. HaveStart(auction.start)
    BY <1>2, <1>6 DEF OrderlyEnrolled, HaveStart, Captains
  <1> QED BY <1>1, <1>4, <1>5, <1>6, <1>7
       DEF RosterInv, GoneIsEmpty, OneAtATime, CaptainsDue

(* What the invariant says to the reader. *)
LEMMA OrderlyRoster ==
  ASSUME RosterInv
  PROVE  OneRowPerUser /\ SetUpIsOrderly /\ CaptainsHaveStart
  <1>1. ASSUME NEW u \in User PROVE Cardinality(Find(u)) <= 1
    <2>1. \A q, r \in Find(u) : q = r
      BY DEF RosterInv, UsersUnique, Find, Used
    <2>2. CASE Find(u) = {}
      BY <2>2, FS_EmptySet
    <2>3. CASE Find(u) # {}
      <3>1. PICK r : Find(u) = {r}
        BY <2>1, <2>3
      <3>2. Cardinality({r}) = 1
        BY FS_Singleton
      <3> QED BY <3>1, <3>2
    <2> QED BY <2>2, <2>3
  <1>2. requests = {} => HaveStart(auction.start)
    BY DEF RosterInv, CaptainsDue
  <1>3. SetUpIsOrderly
    <2>1. OneRowPerUser
      BY <1>1 DEF OneRowPerUser
    <2>2. ASSUME IsPending, requests = {}, NEW r \in Used
          PROVE  /\ entry[r].team = None /\ entry[r].price = 0 /\ ~ entry[r].unsold
                 /\ entry[r].role = "CAPTAIN" => entry[r].points = auction.start
      BY <1>2, <2>2 DEF RosterInv, NothingCharged, PendingIsFresh, HaveStart, Captains, Used
    <2> QED BY <2>1, <2>2 DEF SetUpIsOrderly
  <1> QED BY <1>1, <1>2, <1>3 DEF OneRowPerUser, CaptainsHaveStart, HaveStart

(* Requests that come one after the other never make a user take part twice, whatever   *)
(* is joined, enrolled, removed and deleted in between, and leave every captain of an   *)
(* auction with the points it starts with.                                              *)
THEOREM SerialSetUpIsOrderly ==
  ASSUME OrderlyEnrolled
  PROVE  SerialSpec => [](OneRowPerUser /\ SetUpIsOrderly /\ CaptainsHaveStart)
  <1>1. RosterInit => RosterInv
    BY RosterInitInv
  <1>2. RosterInv /\ [SerialNext]_rosterVars => RosterInv'
    BY SerialKeepsInv
  <1>3. RosterInv => OneRowPerUser /\ SetUpIsOrderly /\ CaptainsHaveStart
    BY OrderlyRoster
  <1> QED BY <1>1, <1>2, <1>3, PTL DEF SerialSpec

-----------------------------------------------------------------------------
(* The page of the master before the start. *)

(* Whom a request that adds players has still to add. *)
ToAdd(q) == IF q.op = "bulk" THEN q.users ELSE {q.user} \cup q.rest

(* Of those in U, each takes part or is still to be added by q. *)
AddsAll(q, U) ==
  q.op \in {"bulk", "insert"} /\ \A u \in U : Find(u) # {} \/ u \in ToAdd(q)

(* While the picker waits for its players nothing of it changes, and its request is     *)
(* under way.                                                                           *)
PickerInv ==
  /\ chosen \subseteq Candidate
  /\ calls # {} => waiting # "none"
  /\ waiting = "players" =>
       dialog = "players" /\ calls = {} /\ \E q \in requests : AddsAll(q, chosen)

SetupInv == RosterInv /\ SetupTypeOK /\ PickerInv

(* Each statement of a request that adds players adds the next one or finds that user   *)
(* in the auction already; with the last, all take part.                                *)
LEMMA AddingGoesOn ==
  ASSUME RosterInv, NEW q \in requests, Write(q), NEW U, AddsAll(q, U)
  PROVE  \/ requests' = {} /\ \A u \in U : Find(u)' # {}
         \/ \E n \in requests' : AddsAll(n, U)'
  <1>1. requests = {q} /\ q \in Request /\ Loaded /\ entry \in [Row -> Entry \cup {None}]
    BY TheOnlyOne DEF RosterInv, RosterTypeOK, AuctionTypeOK
  <1>2. CASE \E v \in User : AddNext(q, v)
    <2>1. PICK v \in User : AddNext(q, v)
      BY <1>2
    <2>2. q.op = "bulk" /\ v \in q.users /\ entry' = entry
      BY <2>1 DEF AddNext, auctionVars
    <2>3. \A u : Find(u)' = Find(u)
      BY <2>2 DEF Find
    <2>4. \A u \in U : Find(u)' # {} \/ u \in q.users
      BY <2>2, <2>3 DEF AddsAll, ToAdd
    <2>5. CASE Find(v) = {}
      <3>1. PICK n : n = InsertOf(v, "PLAYER", 0, q.users \ {v})
        OBVIOUS
      <3>2. n.op = "insert" /\ n.user = v /\ n.rest = q.users \ {v}
        BY <3>1 DEF InsertOf
      <3>3. n \in requests'
        BY <2>1, <2>5, <3>1 DEF AddNext
      <3>4. ToAdd(n) = q.users
        BY <2>2, <3>2 DEF ToAdd
      <3> QED BY <2>4, <3>2, <3>3, <3>4 DEF AddsAll
    <2>6. CASE Find(v) # {}
      <3>1. requests' = Bulk(q.users \ {v})
        BY <1>1, <2>1, <2>6 DEF AddNext
      <3>2. \A u \in U : Find(u)' # {} \/ u \in q.users \ {v}
        BY <2>3, <2>4, <2>6
      <3>3. CASE q.users \ {v} = {}
        BY <3>1, <3>2, <3>3 DEF Bulk
      <3>4. CASE q.users \ {v} # {}
        <4>1. PICK n : n = [op |-> "bulk", users |-> q.users \ {v}]
          OBVIOUS
        <4>2. n.op = "bulk" /\ n.users = q.users \ {v} /\ n \in requests'
          BY <3>1, <3>4, <4>1 DEF Bulk
        <4> QED BY <3>2, <4>2 DEF AddsAll, ToAdd
      <3> QED BY <3>3, <3>4
    <2> QED BY <2>5, <2>6
  <1>3. CASE Insert(q)
    <2>1. q.op = "insert" /\ Row # Used /\ q.user \in User
      BY <1>1, <1>3, RequestFields DEF Insert
    <2>2. PICK f \in Row : f = FreeRow /\ entry[f] = None
      BY <2>1 DEF FreeRow, Used
    <2>3. PICK e : e = NewEntry(q.user, q.role, q.points)
      OBVIOUS
    <2>4. e.user = q.user /\ e # None
      <3>1. e.user = q.user
        BY <2>3 DEF NewEntry
      <3>2. e \in Entry
        BY <1>1, <2>1, <2>3, RequestFields DEF NewEntry, Entry
      <3> QED BY <3>1, <3>2, NoneAssumption
    <2>5. entry' = [entry EXCEPT ![f] = e] /\ requests' = Bulk(q.rest)
      BY <1>1, <1>3, <2>2, <2>3 DEF Insert
    <2>6. \A u : Find(u) # {} \/ u = q.user => Find(u)' # {}
      <3>1. \A r \in Row : entry'[r] = IF r = f THEN e ELSE entry[r]
        BY <1>1, <2>5
      <3> QED BY <2>2, <2>4, <3>1 DEF Find
    <2>7. \A u \in U : Find(u)' # {} \/ u \in q.rest
      BY <2>1, <2>6 DEF AddsAll, ToAdd
    <2>8. CASE q.rest = {}
      BY <2>5, <2>7, <2>8 DEF Bulk
    <2>9. CASE q.rest # {}
      <3>1. PICK n : n = [op |-> "bulk", users |-> q.rest]
        OBVIOUS
      <3>2. n.op = "bulk" /\ n.users = q.rest /\ n \in requests'
        BY <2>5, <2>9, <3>1 DEF Bulk
      <3> QED BY <2>7, <3>2 DEF AddsAll, ToAdd
    <2> QED BY <2>8, <2>9
  <1>4. CASE q.op \notin {"bulk", "insert"}
    BY <1>4 DEF AddsAll
  <1> QED BY <1>2, <1>3, <1>4 DEF Write, AddsAll, Save, Remove, UpdateCaptains, SaveAuction,
           DeleteParticipants, DeleteBids, RemoveAuction

(* To the server a step of the page is a call that finds no other in progress, or a new *)
(* auction.                                                                             *)
LEMMA SetupStep ==
  ASSUME SetupInv, [SetupNext]_setupVars
  PROVE  \/ [SerialNext]_rosterVars
         \/ \E start \in NewStart, teams \in NewTeams : CreateAuction(start, teams)
  <1>1. CASE PageStep
    <2>1. CASE Focus \/ Closes \/ HandleAddCaptains
      BY <2>1 DEF Focus, Closes, HandleAddCaptains
    <2>2. ASSUME NEW d, Opens(d) PROVE UNCHANGED rosterVars
      BY <2>2 DEF Opens
    <2>3. ASSUME NEW u \in Candidate, Toggle(u) \/ CaptainCall(u) \/ HandleRemove(u)
          PROVE  [SerialNext]_rosterVars
      BY <2>3 DEF Toggle, CaptainCall, HandleRemove, Asks, SerialNext, Receive
    <2>4. CASE HandleAddPlayers
      <3>1. CASE AddPlayers(chosen)
        <4>1. requests = {} /\ chosen \in (SUBSET Candidate) \ {{}}
          BY <2>4 DEF HandleAddPlayers, Asks, SetupInv, PickerInv
        <4> QED BY <3>1, <4>1 DEF SerialNext, Receive
      <3> QED BY <2>4, <3>1 DEF HandleAddPlayers
    <2>5. CASE HandleCancel
      BY <2>5 DEF HandleCancel, Asks, SerialNext, Receive
    <2>6. CASE HandleStart
      BY <2>6 DEF HandleStart, SerialNext, MasterStep
    <2> QED BY <1>1, <2>1, <2>2, <2>3, <2>4, <2>5, <2>6 DEF PageStep
  <1>2. CASE requests = {} /\ Receive /\ UNCHANGED pageVars
    BY <1>2 DEF SerialNext
  <1>3. CASE requests = {} /\ MasterStep /\ Hears /\ UNCHANGED <<requests, crashes>>
    BY <1>3 DEF SerialNext
  <1>4. CASE \E q \in requests : Write(q) /\ Answered
    BY <1>4 DEF SerialNext
  <1>5. CASE UNCHANGED setupVars
    BY <1>5 DEF setupVars
  <1> QED BY <1>1, <1>2, <1>3, <1>4, <1>5 DEF SetupNext

(* The server's side of the invariant. *)
LEMMA SetupKeepsRoster ==
  ASSUME SetupInv, [SetupNext]_setupVars
  PROVE  RosterInv'
  <1>1. CASE [SerialNext]_rosterVars
    BY <1>1, SerialKeepsInv DEF SetupInv
  <1>2. ASSUME NEW start \in NewStart, NEW teams \in NewTeams, CreateAuction(start, teams)
        PROVE  RosterInv'
    <2>1. start \in Nat /\ teams \in Nat /\ ~ Loaded
      BY <1>2, InputAssumption DEF CreateAuction, Loaded
    <2> QED BY <1>2, <2>1, CreateKeepsInv DEF CreateAuction, SetupInv
  <1> QED BY <1>1, <1>2, SetupStep

(* The last of the players has been added when the picker stops waiting. *)
LEMMA WaitsUntilAdded ==
  ASSUME SetupInv, NEW q \in requests, Write(q), Answered, waiting = "players"
  PROVE  \/ requests' = {} /\ waiting' = "none" /\ \A u \in chosen : Find(u)' # {}
         \/ UNCHANGED pageVars /\ \E n \in requests' : AddsAll(n, chosen)'
  <1>1. RosterInv /\ calls = {} /\ requests = {q} /\ AddsAll(q, chosen)
    <2>1. RosterInv /\ calls = {} /\ \E p \in requests : AddsAll(p, chosen)
      BY DEF SetupInv, PickerInv
    <2> QED BY <2>1, TheOnlyOne
  <1>2. PICK U : U = chosen
    OBVIOUS
  <1>3. \/ requests' = {} /\ \A u \in U : Find(u)' # {}
        \/ \E n \in requests' : AddsAll(n, U)'
    BY <1>1, <1>2, AddingGoesOn
  <1>4. CASE requests' = {}
    BY <1>1, <1>2, <1>3, <1>4 DEF Answered
  <1>5. CASE requests' # {}
    <2>1. UNCHANGED pageVars
      BY <1>1, <1>5 DEF Answered
    <2>2. chosen' = U
      BY <1>2, <2>1 DEF pageVars
    <2>3. PICK n \in requests' : AddsAll(n, U)'
      BY <1>3, <1>5
    <2>4. AddsAll(n, chosen)'
      BY <2>2, <2>3 DEF AddsAll
    <2> QED BY <2>1, <2>3, <2>4
  <1> QED BY <1>4, <1>5

(* The page's side of the invariant: what the picker waits for. *)
LEMMA SetupKeepsPicker ==
  ASSUME SetupInv, [SetupNext]_setupVars
  PROVE  PickerInv'
  <1>1. /\ chosen \subseteq Candidate /\ (calls # {} => waiting # "none")
        /\ waiting = "players" =>
             dialog = "players" /\ calls = {} /\ requests # {}
    BY DEF SetupInv, PickerInv
  <1>2. ASSUME chosen' \subseteq Candidate, calls' # {} => waiting' # "none", waiting' # "players"
        PROVE  PickerInv'
    BY <1>2 DEF PickerInv
  <1>3. CASE PageStep
    <2>1. CASE Focus
      BY <1>1, <1>2, <2>1 DEF Focus, Leaves, Shuts
    <2>2. CASE Closes
      BY <1>1, <1>2, <2>2 DEF Closes
    <2>3. ASSUME NEW d \in Dialog \ {"none"}, Opens(d) PROVE PickerInv'
      BY <1>1, <1>2, <2>3 DEF Opens
    <2>4. ASSUME NEW u \in Candidate, Toggle(u) PROVE PickerInv'
      BY <1>1, <1>2, <2>4 DEF Toggle
    <2>5. ASSUME NEW u \in Candidate, CaptainCall(u) PROVE PickerInv'
      BY <1>1, <1>2, <2>5 DEF CaptainCall, Shuts
    <2>6. ASSUME NEW u \in Candidate, HandleRemove(u) PROVE PickerInv'
      BY <1>1, <1>2, <2>6 DEF HandleRemove, Asks
    <2>7. CASE HandleAddPlayers
      <3>1. CASE AddPlayers(chosen) /\ waiting' = "players" /\ UNCHANGED <<dialog, chosen>>
        <4>1. dialog = "players" /\ requests = {} /\ calls' = {} /\ dialog' = "players"
          BY <1>1, <2>7, <3>1 DEF HandleAddPlayers, Asks
        <4>2. PICK n : n = [op |-> "bulk", users |-> chosen]
          OBVIOUS
        <4>3. n.op = "bulk" /\ n.users = chosen' /\ n \in requests'
          BY <3>1, <4>2 DEF AddPlayers, Begin
        <4>4. AddsAll(n, chosen)'
          BY <4>3 DEF AddsAll, ToAdd
        <4> QED BY <1>1, <3>1, <4>1, <4>3, <4>4 DEF PickerInv
      <3>2. CASE ~ IsPending /\ dialog' = "none" /\ chosen' = {} /\ UNCHANGED <<rosterVars, waiting>>
        BY <1>1, <1>2, <2>7, <3>2 DEF HandleAddPlayers, Asks
      <3> QED BY <2>7, <3>1, <3>2 DEF HandleAddPlayers
    <2>8. CASE HandleAddCaptains
      BY <1>1, <1>2, <2>8 DEF HandleAddCaptains, Asks
    <2>9. CASE HandleCancel
      BY <1>1, <1>2, <2>9 DEF HandleCancel, Asks
    <2>10. CASE HandleStart
      BY <1>1, <1>2, <2>10 DEF HandleStart, Leaves, Shuts
    <2>11. ASSUME NEW start, NEW teams, CreateAuction(start, teams) PROVE PickerInv'
      BY <1>1, <1>2, <2>11 DEF CreateAuction
    <2> QED BY <1>3, <2>1, <2>2, <2>3, <2>4, <2>5, <2>6, <2>7, <2>8, <2>9, <2>10, <2>11 DEF PageStep
  <1>4. CASE requests = {} /\ Receive /\ UNCHANGED pageVars
    BY <1>1, <1>2, <1>4 DEF pageVars
  <1>5. CASE requests = {} /\ MasterStep /\ Hears
    BY <1>1, <1>2, <1>5 DEF pageVars, Hears, Leaves, Shuts
  <1>6. ASSUME NEW q \in requests, Write(q), Answered PROVE PickerInv'
    <2>1. CASE waiting = "players"
      <3>1. CASE requests' = {} /\ waiting' = "none" /\ \A u \in chosen : Find(u)' # {}
        BY <1>1, <1>2, <1>6, <2>1, <3>1 DEF Answered, Picker
      <3>2. CASE UNCHANGED pageVars /\ \E n \in requests' : AddsAll(n, chosen)'
        BY <1>1, <2>1, <3>2 DEF PickerInv, pageVars
      <3> QED BY <1>6, <2>1, <3>1, <3>2, WaitsUntilAdded
    <2>2. CASE waiting # "players"
      BY <1>1, <1>2, <1>6, <2>2 DEF Answered, pageVars
    <2> QED BY <2>1, <2>2
  <1>7. CASE UNCHANGED setupVars
    BY <1>7 DEF SetupInv, PickerInv, setupVars, pageVars, rosterVars, auctionVars, AddsAll, Find
  <1> QED BY <1>3, <1>4, <1>5, <1>6, <1>7 DEF SetupNext

(* The page's variables, and what of them goes together. *)
ShownTypeOK ==
  /\ current \in {"none"} \cup AuctionStatus
  /\ room # None =>
       /\ current = "PENDING"
       /\ room.captains \cup room.players \subseteq User /\ room.teams \in Nat

OpenTypeOK ==
  /\ dialog \in Dialog
  /\ chosen \subseteq User /\ (chosen # {} => dialog \in Picker)
  /\ waiting \in {"none", "other"} \cup Picker /\ (waiting \in Picker => dialog = waiting)
  /\ calls \subseteq User

(* What a page is told or reads of the list. *)
LEMMA WhatPagesAreTold ==
  ASSUME AuctionTypeOK
  PROVE  /\ CurrentAuction \in {"none"} \cup AuctionStatus
         /\ RoomShown.captains \cup RoomShown.players \subseteq User /\ RoomShown.teams \in Nat
  <1>1. auction.status \in AuctionStatus \cup {"GONE"} /\ auction.teams \in Nat
    BY DEF AuctionTypeOK, AuctionRow
  <1>2. ASSUME NEW r \in Captains \cup Players PROVE entry[r].user \in User
    <2>1. r \in Row /\ entry[r] # None
      BY <1>2 DEF Captains, Players
    <2> QED BY <2>1, EntryType
  <1>3. ShownUsers(Captains) \subseteq User /\ ShownUsers(Players) \subseteq User
    BY <1>2 DEF ShownUsers
  <1>4. CurrentAuction \in {"none"} \cup AuctionStatus
    BY <1>1 DEF CurrentAuction
  <1> QED BY <1>1, <1>3, <1>4 DEF RoomShown

(* The same after a step. *)
LEMMA WhatPagesWillBeTold ==
  AuctionTypeOK' => /\ (CurrentAuction \in {"none"} \cup AuctionStatus)'
                    /\ (RoomShown.captains \cup RoomShown.players \subseteq User)'
                    /\ (RoomShown.teams \in Nat)'
  <1>1. AuctionTypeOK => /\ CurrentAuction \in {"none"} \cup AuctionStatus
                         /\ RoomShown.captains \cup RoomShown.players \subseteq User
                         /\ RoomShown.teams \in Nat
    BY WhatPagesAreTold
  <1> QED BY <1>1, PTL

(* The master acts on an auction there is, and it is still there afterwards. *)
LEMMA MasterKeepsRow ==
  ASSUME AuctionTypeOK, MasterStep
  PROVE  auction'.status \in AuctionStatus
  <1>1. auction \in AuctionRow
    BY DEF AuctionTypeOK
  <1>2. auction.status \in AuctionStatus
    <2>1. auction.status # "GONE"
      BY DEF MasterStep, Start, Reset, Complete, PauseAuction, ResumeAuction, PauseTimer,
         ResumeTimer, ConfirmCurrentBid, Confirmable, PassCurrentPlayer, NextPlayer,
         EnterAssignmentPhase, SelectPlayer, UndoSoldPlayer, ManualAssignPlayer, Loaded, IsOngoing
    <2> QED BY <1>1, <2>1 DEF AuctionRow
  <1>3. CASE Start \/ Reset \/ Complete \/ PauseAuction \/ ResumeAuction
    BY <1>1, <1>3 DEF Start, Reset, Complete, PauseAuction, ResumeAuction, AuctionRow, AuctionStatus
  <1>4. CASE PauseTimer \/ ResumeTimer \/ ConfirmCurrentBid \/ PassCurrentPlayer
    BY <1>1, <1>2, <1>4 DEF PauseTimer, ResumeTimer, ConfirmCurrentBid, PassCurrentPlayer, AuctionRow
  <1>5. CASE NextPlayer \/ EnterAssignmentPhase
    BY <1>1, <1>2, <1>5 DEF NextPlayer, EnterAssignmentPhase, AuctionRow, AuctionStatus
  <1>6. ASSUME NEW p, SelectPlayer(p) \/ UndoSoldPlayer(p)
        PROVE  auction'.status = auction.status
    BY <1>1, <1>6 DEF SelectPlayer, UndoSoldPlayer, AuctionRow
  <1>7. ASSUME NEW p, NEW c, ManualAssignPlayer(p, c)
        PROVE  auction'.status = auction.status
    BY <1>7 DEF ManualAssignPlayer
  <1> QED BY <1>2, <1>3, <1>4, <1>5, <1>6, <1>7 DEF MasterStep

(* What the page shows keeps its type, whoever acts. *)
LEMMA SetupKeepsShown ==
  ASSUME SetupInv, RosterInv', [SetupNext]_setupVars
  PROVE  ShownTypeOK'
  <1>1. ShownTypeOK /\ AuctionTypeOK /\ AuctionTypeOK'
    BY DEF SetupInv, SetupTypeOK, ShownTypeOK, RosterInv, RosterTypeOK
  <1>2. /\ CurrentAuction \in {"none"} \cup AuctionStatus
        /\ CurrentAuction' \in {"none"} \cup AuctionStatus
    <2>1. (CurrentAuction \in {"none"} \cup AuctionStatus)'
      BY <1>1, WhatPagesWillBeTold
    <2> QED BY <1>1, <2>1, WhatPagesAreTold
  <1>3. PICK S : S = RoomShown' /\ S.captains \cup S.players \subseteq User /\ S.teams \in Nat
    <2>1. (RoomShown.captains \cup RoomShown.players \subseteq User)' /\ (RoomShown.teams \in Nat)'
      BY <1>1, WhatPagesWillBeTold
    <2> QED BY <2>1
  <1>4. ASSUME UNCHANGED <<current, room>> PROVE ShownTypeOK'
    BY <1>1, <1>4 DEF ShownTypeOK
  <1>5. ASSUME current' \in {"none"} \cup AuctionStatus, room' = None PROVE ShownTypeOK'
    BY <1>5 DEF ShownTypeOK
  <1>6. CASE PageStep
    <2>1. CASE Focus
      BY <1>2, <1>5, <2>1 DEF Focus
    <2>2. CASE HandleStart
      <3>1. current' = "ONGOING" /\ room' = None
        BY <1>1, <2>2 DEF HandleStart, Start, AuctionTypeOK, AuctionRow
      <3> QED BY <1>5, <3>1 DEF AuctionStatus
    <2>3. ASSUME NEW start, NEW teams, CreateAuction(start, teams) PROVE ShownTypeOK'
      BY <1>1, <2>3 DEF CreateAuction, ShownTypeOK, AuctionStatus
    <2>4. ASSUME NEW d, Opens(d) PROVE ShownTypeOK'
      BY <1>4, <2>4 DEF Opens
    <2>5. ASSUME NEW u, Toggle(u) \/ CaptainCall(u) \/ HandleRemove(u) PROVE ShownTypeOK'
      BY <1>4, <2>5 DEF Toggle, CaptainCall, HandleRemove, Asks
    <2>6. CASE Closes \/ HandleAddPlayers \/ HandleAddCaptains \/ HandleCancel
      BY <1>4, <2>6 DEF Closes, HandleAddPlayers, HandleAddCaptains, HandleCancel, Asks
    <2> QED BY <1>6, <2>1, <2>2, <2>3, <2>4, <2>5, <2>6 DEF PageStep
  <1>7. CASE requests = {} /\ Receive /\ UNCHANGED pageVars
    BY <1>4, <1>7 DEF pageVars
  <1>8. CASE requests = {} /\ MasterStep /\ Hears
    <2>1. CASE UNCHANGED pageVars
      BY <1>4, <2>1 DEF pageVars
    <2>2. CASE current' = auction'.status /\ room' = IF current' = "PENDING" THEN S ELSE None
      <3>1. current' \in AuctionStatus
        BY <1>1, <1>8, <2>2, MasterKeepsRow
      <3> QED BY <1>3, <2>2, <3>1 DEF ShownTypeOK
    <2> QED BY <1>3, <1>8, <2>1, <2>2 DEF Hears
  <1>9. ASSUME NEW q \in requests, Write(q), Answered PROVE ShownTypeOK'
    <2>1. CASE UNCHANGED pageVars
      BY <1>4, <2>1 DEF pageVars
    <2>2. CASE /\ current' = IF room = None \/ CurrentAuction' = "none"
                             THEN CurrentAuction' ELSE current
               /\ room' = IF current' = "PENDING" THEN room ELSE None
      BY <1>1, <1>2, <2>2 DEF ShownTypeOK
    <2> QED BY <1>9, <2>1, <2>2 DEF Answered
  <1>10. CASE UNCHANGED setupVars
    BY <1>4, <1>10 DEF setupVars, pageVars
  <1> QED BY <1>6, <1>7, <1>8, <1>9, <1>10 DEF SetupNext

(* So does what is open on it and what it waits for. *)
LEMMA SetupKeepsOpen ==
  ASSUME SetupInv, [SetupNext]_setupVars
  PROVE  OpenTypeOK'
  <1>1. OpenTypeOK
    BY DEF SetupInv, SetupTypeOK, OpenTypeOK
  <1>2. ASSUME dialog' = "none", chosen' = {}, waiting' \in {"none", "other"}, calls' \subseteq User
        PROVE  OpenTypeOK'
    BY <1>2 DEF OpenTypeOK, Dialog, Picker
  <1>3. ASSUME UNCHANGED <<dialog, chosen, waiting, calls>> PROVE OpenTypeOK'
    BY <1>1, <1>3 DEF OpenTypeOK
  <1>4. CASE PageStep
    <2>1. CASE Focus \/ HandleStart
      BY <1>1, <1>2, <2>1 DEF Focus, HandleStart, Leaves, Shuts, OpenTypeOK
    <2>2. CASE Closes
      BY <1>1, <2>2 DEF Closes, OpenTypeOK, Dialog, Picker
    <2>3. ASSUME NEW d \in Dialog \ {"none"}, Opens(d) PROVE OpenTypeOK'
      BY <1>1, <2>3 DEF Opens, OpenTypeOK, Picker
    <2>4. ASSUME NEW u \in Candidate, Toggle(u) PROVE OpenTypeOK'
      BY <1>1, <2>4, InputAssumption DEF Toggle, OpenTypeOK
    <2>5. ASSUME NEW u \in Candidate, CaptainCall(u) PROVE OpenTypeOK'
      BY <1>1, <2>5 DEF CaptainCall, Shuts, OpenTypeOK, Dialog, Picker
    <2>6. ASSUME NEW u \in Candidate, HandleRemove(u) PROVE OpenTypeOK'
      BY <1>1, <2>6 DEF HandleRemove, OpenTypeOK, Picker
    <2>7. CASE HandleAddPlayers
      BY <1>1, <2>7 DEF HandleAddPlayers, Asks, OpenTypeOK, Dialog, Picker
    <2>8. CASE HandleAddCaptains
      BY <1>1, <2>8 DEF HandleAddCaptains, OpenTypeOK, Picker
    <2>9. CASE HandleCancel
      BY <1>1, <2>9 DEF HandleCancel, Asks, OpenTypeOK, Dialog, Picker
    <2>10. ASSUME NEW start, NEW teams, CreateAuction(start, teams) PROVE OpenTypeOK'
      BY <1>1, <2>10 DEF CreateAuction, OpenTypeOK, Dialog, Picker
    <2> QED BY <1>4, <2>1, <2>2, <2>3, <2>4, <2>5, <2>6, <2>7, <2>8, <2>9, <2>10 DEF PageStep
  <1>5. CASE requests = {} /\ Receive /\ UNCHANGED pageVars
    BY <1>3, <1>5 DEF pageVars
  <1>6. CASE requests = {} /\ MasterStep /\ Hears
    BY <1>1, <1>2, <1>3, <1>6 DEF Hears, pageVars, Leaves, Shuts, OpenTypeOK
  <1>7. ASSUME NEW q \in requests, Write(q), Answered PROVE OpenTypeOK'
    <2>1. CASE UNCHANGED pageVars
      BY <1>3, <2>1 DEF pageVars
    <2>2. CASE /\ waiting' = "none" /\ UNCHANGED calls
               /\ \/ dialog' = "none" /\ chosen' = {}
                  \/ UNCHANGED <<dialog, chosen>>
      BY <1>1, <2>2 DEF OpenTypeOK, Dialog, Picker
    <2> QED BY <1>7, <2>1, <2>2 DEF Answered
  <1>8. CASE UNCHANGED setupVars
    BY <1>3, <1>8 DEF setupVars, pageVars
  <1> QED BY <1>4, <1>5, <1>6, <1>7, <1>8 DEF SetupNext

(* The whole invariant of the set-up, whoever acts. *)
LEMMA SetupKeepsInv ==
  ASSUME SetupInv, [SetupNext]_setupVars
  PROVE  SetupInv'
  <1>1. RosterInv' /\ PickerInv'
    BY SetupKeepsRoster, SetupKeepsPicker
  <1>2. ShownTypeOK' /\ OpenTypeOK'
    BY <1>1, SetupKeepsShown, SetupKeepsOpen
  <1>3. SetupTypeOK'
    BY <1>1, <1>2 DEF SetupTypeOK, ShownTypeOK, OpenTypeOK, RosterInv
  <1> QED BY <1>1, <1>3 DEF SetupInv

(* The page of a new auction, before anything is asked. *)
LEMMA SetupInitInv ==
  ASSUME OrderlyEnrolled, SetupInit
  PROVE  SetupInv
  <1>1. RosterInv
    BY RosterInitInv DEF SetupInit
  <1> QED BY <1>1 DEF SetupInit, SetupInv, SetupTypeOK, RosterInv, PickerInv, Dialog, Picker,
       AuctionStatus

(* The invariant of the set-up. *)
LEMMA SetupIsInv == ASSUME OrderlyEnrolled PROVE SetupSpec => []SetupInv
  <1>1. SetupInit => SetupInv
    BY SetupInitInv
  <1>2. SetupInv /\ [SetupNext]_setupVars => SetupInv'
    BY SetupKeepsInv
  <1> QED BY <1>1, <1>2, PTL DEF SetupSpec

(* The page and others on the same server, one request after the other: however the     *)
(* list, the broadcasts and the answers reach the page, nobody takes part twice.        *)
THEOREM SetupEnrollsOnce == ASSUME OrderlyEnrolled PROVE SetupSpec => []OneRowPerUser
  <1>1. SetupInv => OneRowPerUser
    BY OrderlyRoster DEF SetupInv
  <1> QED BY <1>1, SetupIsInv, PTL

(* What the set-up leaves is what the auction is begun with: the hypothesis of the      *)
(* theorems about the bidding.                                                          *)
THEOREM SetupEndsOrderly == ASSUME OrderlyEnrolled PROVE SetupSpec => []SetUpIsOrderly
  <1>1. SetupInv => SetUpIsOrderly
    BY OrderlyRoster DEF SetupInv
  <1> QED BY <1>1, SetupIsInv, PTL

(* A finite set of at most one element. *)
LEMMA AtMostOne ==
  ASSUME NEW S, IsFiniteSet(S), Cardinality(S) <= 1, NEW x \in S, NEW y \in S
  PROVE  x = y
  <1> SUFFICES ASSUME x # y PROVE FALSE
    OBVIOUS
  <1>1. IsFiniteSet({x, y}) /\ Cardinality({x, y}) <= Cardinality(S)
    BY FS_Subset
  <1>2. Cardinality({x, y}) = 2
    <2>1. IsFiniteSet({x}) /\ Cardinality({x}) = 1
      BY FS_Singleton
    <2>2. Cardinality({x} \cup {y}) = Cardinality({x}) + 1
      BY <2>1, FS_AddElement
    <2>3. {x} \cup {y} = {x, y}
      OBVIOUS
    <2> QED BY <2>1, <2>2, <2>3
  <1>3. Cardinality(S) \in Nat
    BY FS_CardinalityType
  <1> QED BY <1>1, <1>2, <1>3

(* Said of the participants as they are when the auction is started, this is            *)
(* OrderlyEnrolled.                                                                     *)
LEMMA StartsOrderlyEnrolled ==
  ASSUME AuctionTypeOK, SetUpIsOrderly, IsPending, requests = {}, Enrolled = entry, StartPoints = auction.start
  PROVE  OrderlyEnrolled
  <1>1. ASSUME NEW q \in Used, NEW r \in Used, entry[q].user = entry[r].user PROVE q = r
    <2>1. PICK u \in User : u = entry[q].user /\ q \in Find(u) /\ r \in Find(u)
      BY <1>1, EntryType DEF Find, Used
    <2>2. IsFiniteSet(Find(u)) /\ Cardinality(Find(u)) <= 1
      BY FiniteAssumption, FS_Subset DEF SetUpIsOrderly, OneRowPerUser, Find
    <2> QED BY <2>1, <2>2, AtMostOne
  <1> QED BY <1>1 DEF SetUpIsOrderly, OrderlyEnrolled, Used

(* The page's types, of which the dialog and what it waits for is more than a type. *)
THEOREM SetupTypes == ASSUME OrderlyEnrolled PROVE SetupSpec => []SetupTypeOK
  <1>1. SetupInv => SetupTypeOK
    BY DEF SetupInv
  <1> QED BY <1>1, SetupIsInv, PTL

(* The picker stops waiting for its players when all of them take part, the last row    *)
(* written.                                                                             *)
LEMMA PickedAreAdded ==
  ASSUME SetupInv, [SetupNext]_setupVars, waiting = "players", waiting' = "none"
  PROVE  \A u \in chosen : \E r \in Row : entry'[r] # None /\ entry'[r].user = u
  <1>1. OpenTypeOK /\ dialog = "players" /\ requests # {} /\ calls = {}
    BY DEF SetupInv, SetupTypeOK, OpenTypeOK, PickerInv
  <1>2. ~ PageStep
    <2>1. ~ (Focus \/ HandleStart)
      BY <1>1 DEF Focus, HandleStart, Leaves
    <2>2. ~ Closes
      BY <1>1 DEF Closes
    <2>3. \A u \in Candidate : ~ (Toggle(u) \/ CaptainCall(u) \/ HandleRemove(u))
      BY <1>1 DEF Toggle, CaptainCall, HandleRemove, Asks
    <2>4. ~ (HandleAddPlayers \/ HandleAddCaptains \/ HandleCancel)
      BY <1>1 DEF HandleAddPlayers, HandleAddCaptains, HandleCancel, Asks
    <2>5. \A d : ~ Opens(d)
      BY <1>1 DEF Opens
    <2>6. \A start, teams : ~ CreateAuction(start, teams)
      BY <1>1 DEF CreateAuction
    <2> QED BY <2>1, <2>2, <2>3, <2>4, <2>5, <2>6 DEF PageStep
  <1>3. PICK q \in requests : Write(q) /\ Answered
    BY <1>1, <1>2 DEF SetupNext, setupVars, pageVars
  <1>4. \A u \in chosen : Find(u)' # {}
    BY <1>3, WaitsUntilAdded DEF pageVars
  <1> QED BY <1>4 DEF Find

(* When the page says that players were added, all who were chosen take part, also if   *)
(* some did before and whatever was added, removed or cancelled since the page was last *)
(* told.                                                                                *)
THEOREM ChosenAlwaysTakePart == ASSUME OrderlyEnrolled PROVE SetupSpec => PickedTakePart
  <1>1. SetupInv /\ [SetupNext]_setupVars
          => [waiting = "players" /\ waiting' = "none"
                => \A u \in chosen : \E r \in Row : entry'[r] # None /\ entry'[r].user = u]_setupVars
    BY PickedAreAdded
  <1> QED BY <1>1, SetupIsInv, PTL DEF SetupSpec, PickedTakePart
=============================================================================
