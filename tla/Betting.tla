------------------------------ MODULE Betting ------------------------------
(***************************************************************************)
(* Matches and the parimutuel betting markets attached to them             *)
(* (modules/matches/match.service.ts, modules/betting/betting.service.ts), *)
(* on top of the point ledger.                                             *)
(*                                                                         *)
(* A match goes DRAFT -> BETTING_OPEN -> LOCKED -> SETTLED, or CANCELLED    *)
(* from any state before the last.  Members stake points on a side of a    *)
(* market; a stake is burned at once, and winners, or everyone when the    *)
(* market is cancelled, are paid by minting.  One action is one committed   *)
(* database transaction; a transaction that throws changes nothing.  The   *)
(* one check made outside a lock (createMarket's search for a market of     *)
(* the same type) is a step of its own.                                     *)
(***************************************************************************)
EXTENDS Ledger, FiniteSets

CONSTANTS
  Match, Team, Market,   \* ids the database may hand out
  Foreign,      \* uuids that are the id of no team
  MatchOf,      \* the match a market is created for
  WinMarket,    \* the markets of type WIN; the others are of type RANK
  RakeBps,      \* a market's rake in basis points (CreateMarketDto bounds it below only)
  StakeAmount,  \* amounts members try to stake
  Placements,   \* the placements of a settle request that carries some
  MaxFlow,      \* bound: OtherRequest lets no account give more than this in all
  None          \* null: no team, no option, no placements

ASSUME IdAssumption == IsFiniteSet(Market) /\ IsFiniteSet(Team) /\ IsFiniteSet(Foreign)
ASSUME MarketAssumption == MatchOf \in [Market -> Match] /\ WinMarket \subseteq Market
ASSUME RakeAssumption == RakeBps \in [Market -> Nat]
ASSUME StakeAmountAssumption == StakeAmount \subseteq Int
ASSUME PlacementsAssumption == \A p \in Placements : \E T \in SUBSET Team : p \in [T -> Int]

Place == 1..4
Side == Team \cup Foreign \cup Place

ASSUME NoneAssumption ==
  /\ None \notin Side /\ None \notin Match /\ None \notin Placements
  /\ Place \cap (Team \cup Foreign) = {}

VARIABLES
  matchStatus,    \* matches.status, "NONE" before the row exists
  winnerTeam,     \* matches.winner_team_id
  teamMatch,      \* teams.match_id, None before the row exists
  placement,      \* teams.placement, 0 for null
  marketStatus,   \* betting_markets.status; "NONE" before createMarket is called,
                  \* "CHECKED" once it has found no market of this match and type
  totalPool,      \* betting_markets.total_pool
  winningOption,  \* betting_markets.winning_option
  stake,          \* betting_stakes.stake of market, user and side, 0 if there is no row
  stakeStatus,    \* betting_stakes.status, "NONE" if there is no row
  payout,         \* betting_stakes.payout, 0 for null
  paidIn,         \* amounts of the point_tx rows that refer to the market: BET_STAKE
  paidOut         \* and BET_PAYOUT or BET_REFUND

matchVars == <<matchStatus, winnerTeam, teamMatch, placement>>
marketVars == <<marketStatus, totalPool, winningOption>>
stakeVars == <<stake, stakeStatus, payout, paidIn, paidOut>>
bettingVars == <<matchVars, marketVars, stakeVars>>
vars == <<ledgerVars, bettingVars>>

MatchStatus == {"NONE", "DRAFT", "BETTING_OPEN", "LOCKED", "SETTLED", "CANCELLED"}
MarketStatus == {"NONE", "CHECKED", "OPEN", "LOCKED", "SETTLED", "CANCELLED"}
StakeStatus == {"NONE", "PLACED", "WON", "LOST", "REFUNDED"}

BettingTypeOK ==
  /\ LedgerTypeOK
  /\ matchStatus \in [Match -> MatchStatus]
  /\ winnerTeam \in [Match -> Team \cup {None}]
  /\ teamMatch \in [Team -> Match \cup {None}]
  /\ placement \in [Team -> 0..4]
  /\ marketStatus \in [Market -> MarketStatus]
  /\ totalPool \in [Market -> Nat]
  /\ winningOption \in [Market -> Side \cup {None}]
  /\ stake \in [Market -> [User -> [Side -> Nat]]]
  /\ stakeStatus \in [Market -> [User -> [Side -> StakeStatus]]]
  /\ payout \in [Market -> [User -> [Side -> Int]]]
  /\ paidIn \in [Market -> [User -> Nat]]
  /\ paidOut \in [Market -> [User -> Nat]]

BettingInit ==
  /\ LedgerInit
  /\ matchStatus = [m \in Match |-> "NONE"]
  /\ winnerTeam = [m \in Match |-> None]
  /\ teamMatch = [t \in Team |-> None]
  /\ placement = [t \in Team |-> 0]
  /\ marketStatus = [k \in Market |-> "NONE"]
  /\ totalPool = [k \in Market |-> 0]
  /\ winningOption = [k \in Market |-> None]
  /\ stake = [k \in Market |-> [u \in User |-> [s \in Side |-> 0]]]
  /\ stakeStatus = [k \in Market |-> [u \in User |-> [s \in Side |-> "NONE"]]]
  /\ payout = [k \in Market |-> [u \in User |-> [s \in Side |-> 0]]]
  /\ paidIn = [k \in Market |-> [u \in User |-> 0]]
  /\ paidOut = [k \in Market |-> [u \in User |-> 0]]

-----------------------------------------------------------------------------
(* Matches and teams.                                                        *)

(* Mutant: betting on a locked match may be opened again.                     *)
TransitionReopening(from) ==
  CASE from = "DRAFT" -> {"BETTING_OPEN", "CANCELLED"}
    [] from = "BETTING_OPEN" -> {"LOCKED", "CANCELLED"}
    [] from = "LOCKED" -> {"SETTLED", "CANCELLED", "BETTING_OPEN"}
    [] OTHER -> {}

(* MATCH_STATUS_TRANSITIONS *)
Transition(from) ==
  CASE from = "DRAFT" -> {"BETTING_OPEN", "CANCELLED"}
    [] from = "BETTING_OPEN" -> {"LOCKED", "CANCELLED"}
    [] from = "LOCKED" -> {"SETTLED", "CANCELLED"}
    [] OTHER -> {}

AssertTransition(m, to) == to \in Transition(matchStatus[m])

MatchExists(m) == matchStatus[m] # "NONE"

CreateMatch(m) ==
  /\ ~ MatchExists(m)
  /\ matchStatus' = [matchStatus EXCEPT ![m] = "DRAFT"]
  /\ UNCHANGED <<ledgerVars, winnerTeam, teamMatch, placement, marketVars, stakeVars>>

(* A team may be added to a match in any state.                               *)
CreateTeam(m, t) ==
  /\ MatchExists(m) /\ teamMatch[t] = None
  /\ teamMatch' = [teamMatch EXCEPT ![t] = m]
  /\ UNCHANGED <<ledgerVars, matchStatus, winnerTeam, placement, marketVars, stakeVars>>

OpenBetting(m) ==
  /\ AssertTransition(m, "BETTING_OPEN")
  /\ matchStatus' = [matchStatus EXCEPT ![m] = "BETTING_OPEN"]
  /\ UNCHANGED <<ledgerVars, winnerTeam, teamMatch, placement, marketVars, stakeVars>>

(* Match, teams and one market in one transaction (/admin betting start).     *)
CreateBettingScenario(m, T, k) ==
  /\ ~ MatchExists(m) /\ Cardinality(T) >= 2 /\ \A t \in T : teamMatch[t] = None
  /\ marketStatus[k] = "NONE" /\ MatchOf[k] = m
  /\ matchStatus' = [matchStatus EXCEPT ![m] = "BETTING_OPEN"]
  /\ teamMatch' = [t \in Team |-> IF t \in T THEN m ELSE teamMatch[t]]
  /\ marketStatus' = [marketStatus EXCEPT ![k] = "OPEN"]
  /\ UNCHANGED <<ledgerVars, winnerTeam, placement, totalPool, winningOption, stakeVars>>

-----------------------------------------------------------------------------
(* Markets.                                                                   *)

MarketExists(k) == marketStatus[k] \notin {"NONE", "CHECKED"}

SameType(k, j) == k \in WinMarket <=> j \in WinMarket

(* createMarket looks for a market of the match and type without a lock ...    *)
CheckNoMarket(k) ==
  /\ marketStatus[k] = "NONE"
  /\ MatchExists(MatchOf[k])
  /\ ~ \E j \in Market : MarketExists(j) /\ MatchOf[j] = MatchOf[k] /\ SameType(k, j)
  /\ marketStatus' = [marketStatus EXCEPT ![k] = "CHECKED"]
  /\ UNCHANGED <<ledgerVars, matchVars, totalPool, winningOption, stakeVars>>

(* ... and inserts the market whatever happened since, in any state of its     *)
(* match.                                                                      *)
InsertMarket(k) ==
  /\ marketStatus[k] = "CHECKED"
  /\ marketStatus' = [marketStatus EXCEPT ![k] = "OPEN"]
  /\ UNCHANGED <<ledgerVars, matchVars, totalPool, winningOption, stakeVars>>

(* A WIN side need only look like a uuid.                                      *)
ValidateSide(k, s) == IF k \in WinMarket THEN s \in Team \cup Foreign ELSE s \in Place

(* Mutant: only the match is asked whether betting is open.                    *)
AssertMatchOpen(k) == MarketExists(k) /\ matchStatus[MatchOf[k]] = "BETTING_OPEN"

(* Mutant: only the market is asked.                                           *)
AssertMarketOpen(k) == marketStatus[k] = "OPEN"

AssertOpenForStaking(k) ==
  marketStatus[k] = "OPEN" /\ matchStatus[MatchOf[k]] = "BETTING_OPEN"

(* Mutant: a second stake on the same side replaces the first.                 *)
AddStakeReplacing(k, u, s, amt) ==
  /\ amt > 0
  /\ ValidateSide(k, s)
  /\ Burn(u, amt)
  /\ stake' = [stake EXCEPT ![k][u][s] = amt]
  /\ stakeStatus' = [stakeStatus EXCEPT ![k][u][s] = "PLACED"]
  /\ totalPool' = [totalPool EXCEPT ![k] = @ + amt]
  /\ paidIn' = [paidIn EXCEPT ![k][u] = @ + amt]
  /\ UNCHANGED <<matchVars, marketStatus, winningOption, payout, paidOut>>

AddStake(k, u, s, amt) ==
  /\ amt > 0
  /\ ValidateSide(k, s)
  /\ Burn(u, amt)
  /\ stake' = [stake EXCEPT ![k][u][s] = @ + amt]
  /\ stakeStatus' = [stakeStatus EXCEPT ![k][u][s] = IF @ = "NONE" THEN "PLACED" ELSE @]
  /\ totalPool' = [totalPool EXCEPT ![k] = @ + amt]
  /\ paidIn' = [paidIn EXCEPT ![k][u] = @ + amt]
  /\ UNCHANGED <<matchVars, marketStatus, winningOption, payout, paidOut>>

PlaceStake(k, u, s, amt) == AssertOpenForStaking(k) /\ AddStake(k, u, s, amt)

LockMarket(k) ==
  /\ marketStatus[k] = "OPEN"
  /\ marketStatus' = [marketStatus EXCEPT ![k] = "LOCKED"]
  /\ UNCHANGED <<ledgerVars, matchVars, totalPool, winningOption, stakeVars>>

(* Mutant: the markets of the match are left open.                             *)
CloseBettingOfMatchOnly(m, K) ==
  /\ AssertTransition(m, "LOCKED")
  /\ matchStatus' = [matchStatus EXCEPT ![m] = "LOCKED"]
  /\ UNCHANGED <<ledgerVars, winnerTeam, teamMatch, placement, marketVars, stakeVars>>

(* The match and the markets K of it.                                          *)
CloseBetting(m, K) ==
  /\ AssertTransition(m, "LOCKED")
  /\ matchStatus' = [matchStatus EXCEPT ![m] = "LOCKED"]
  /\ marketStatus' = [k \in Market |-> IF k \in K THEN "LOCKED" ELSE marketStatus[k]]
  /\ UNCHANGED <<ledgerVars, winnerTeam, teamMatch, placement, totalPool, winningOption,
                 stakeVars>>

MarketsIn(m, S) == {k \in Market : MatchOf[k] = m /\ marketStatus[k] \in S}

LockMatch(m) == CloseBetting(m, MarketsIn(m, {"OPEN"}))

-----------------------------------------------------------------------------
(* Settlement.                                                                 *)

(* BigInt division truncates towards zero.                                     *)
BigDiv(a, b) == IF a >= 0 THEN a \div b ELSE -((-a) \div b)

RakeAmount(k) == BigDiv(totalPool[k] * RakeBps[k], 10000)

(* Negative when the rake exceeds 10000 basis points.                          *)
PoolAfterRake(k) == totalPool[k] - RakeAmount(k)

StakesOn(k, s) == [u \in User |-> stake[k][u][s]]

WinningPool(k, opt) == SumFunctionOnSet(StakesOn(k, opt), User)

(* Mutant: payouts are rounded up.                                             *)
PayoutRoundedUp(k, opt, u, s) ==
  IF s = opt /\ WinningPool(k, opt) > 0
  THEN -BigDiv(-stake[k][u][s] * PoolAfterRake(k) - WinningPool(k, opt) + 1, WinningPool(k, opt))
  ELSE 0

Payout(k, opt, u, s) ==
  IF s = opt /\ WinningPool(k, opt) > 0
  THEN BigDiv(stake[k][u][s] * PoolAfterRake(k), WinningPool(k, opt))
  ELSE 0

(* Only a positive payout is minted.                                           *)
Minted(k, opt, u) ==
  IF Payout(k, opt, u, opt) > 0 THEN Payout(k, opt, u, opt) ELSE 0

(* Mutant: the stakes that lost are not marked.                                *)
SettledStatusWinnersOnly(k, opt, u, s) ==
  IF stakeStatus[k][u][s] # "NONE" /\ s = opt THEN "WON" ELSE stakeStatus[k][u][s]

SettledStatus(k, opt, u, s) ==
  CASE stakeStatus[k][u][s] = "NONE" -> "NONE"
    [] stakeStatus[k][u][s] # "NONE" /\ s = opt -> "WON"
    [] OTHER -> "LOST"

(* The locked markets K are settled in one transaction, market k on opt[k].     *)
Settle(K, opt) ==
  /\ \A k \in K : marketStatus[k] = "LOCKED"
  /\ marketStatus' = [k \in Market |-> IF k \in K THEN "SETTLED" ELSE marketStatus[k]]
  /\ winningOption' = [k \in Market |-> IF k \in K THEN opt[k] ELSE winningOption[k]]
  /\ stakeStatus' = [k \in Market |-> IF k \notin K THEN stakeStatus[k] ELSE
       [u \in User |-> [s \in Side |-> SettledStatus(k, opt[k], u, s)]]]
  /\ payout' = [k \in Market |-> IF k \notin K THEN payout[k] ELSE
       [u \in User |-> [s \in Side |-> Payout(k, opt[k], u, s)]]]
  /\ paidOut' = [k \in Market |-> IF k \notin K THEN paidOut[k] ELSE
       [u \in User |-> paidOut[k][u] + Minted(k, opt[k], u)]]
  /\ MintAll([u \in User |-> SumFunctionOnSet([k \in K |-> Minted(k, opt[k], u)], K)])
  /\ UNCHANGED <<totalPool, stake, paidIn>>

SettleMarket(k, opt) == Settle({k}, [j \in {k} |-> opt]) /\ UNCHANGED matchVars

(* Mutant: the range of a place is not checked.                                *)
PlacementsInMatch(m, p) == \A t \in DOMAIN p : teamMatch[t] = m

PlacementsAllowed(m, p) ==
  \A t \in DOMAIN p : p[t] \in Place /\ teamMatch[t] = m

(* The match and the locked markets K of it.  A RANK market is settled on place *)
(* 1, and only by a request with placements.                                   *)
EnterResult(m, K, w, p) ==
  /\ AssertTransition(m, "SETTLED")
  /\ teamMatch[w] = m
  /\ p # None => PlacementsAllowed(m, p)
  /\ p = None => K \subseteq WinMarket
  /\ Settle(K, [k \in Market |-> IF k \in WinMarket THEN w ELSE 1])
  /\ placement' = IF p = None THEN placement ELSE
       [t \in Team |-> IF t \in DOMAIN p THEN p[t] ELSE placement[t]]
  /\ matchStatus' = [matchStatus EXCEPT ![m] = "SETTLED"]
  /\ winnerTeam' = [winnerTeam EXCEPT ![m] = w]
  /\ UNCHANGED teamMatch

SettleMatch(m, w, p) == EnterResult(m, MarketsIn(m, {"LOCKED"}), w, p)

-----------------------------------------------------------------------------
(* Cancellation.                                                               *)

Refund(k, u, s) == IF stakeStatus[k][u][s] = "PLACED" THEN stake[k][u][s] ELSE 0

(* Mutant: one stake of the member is refunded, not all.                       *)
RefundOneStake(k, u) ==
  IF \E s \in Side : Refund(k, u, s) > 0
  THEN Refund(k, u, CHOOSE s \in Side : Refund(k, u, s) > 0)
  ELSE 0

RefundTo(k, u) == SumFunctionOnSet([s \in Side |-> Refund(k, u, s)], Side)

(* The markets K are cancelled in one transaction and every placed stake goes   *)
(* back to its owner.                                                           *)
Cancel(K) ==
  /\ marketStatus' = [k \in Market |-> IF k \in K THEN "CANCELLED" ELSE marketStatus[k]]
  /\ stakeStatus' = [k \in Market |-> IF k \notin K THEN stakeStatus[k] ELSE
       [u \in User |-> [s \in Side |->
         IF stakeStatus[k][u][s] = "PLACED" THEN "REFUNDED" ELSE stakeStatus[k][u][s]]]]
  /\ payout' = [k \in Market |-> IF k \notin K THEN payout[k] ELSE
       [u \in User |-> [s \in Side |->
         IF stakeStatus[k][u][s] = "PLACED" THEN stake[k][u][s] ELSE payout[k][u][s]]]]
  /\ paidOut' = [k \in Market |-> IF k \notin K THEN paidOut[k] ELSE
       [u \in User |-> paidOut[k][u] + RefundTo(k, u)]]
  /\ MintAll([u \in User |-> SumFunctionOnSet([k \in K |-> RefundTo(k, u)], K)])
  /\ UNCHANGED <<totalPool, winningOption, stake, paidIn>>

(* Mutant: a settled market is cancelled like any other.                       *)
CancelMarketAnyTime(k) ==
  /\ MarketExists(k) /\ marketStatus[k] # "CANCELLED"
  /\ Cancel({k})
  /\ UNCHANGED matchVars

CancelMarket(k) ==
  /\ marketStatus[k] \in {"OPEN", "LOCKED"}
  /\ Cancel({k})
  /\ UNCHANGED matchVars

(* The match and the unsettled markets K of it.                                 *)
CallOff(m, K) ==
  /\ AssertTransition(m, "CANCELLED")
  /\ Cancel(K)
  /\ matchStatus' = [matchStatus EXCEPT ![m] = "CANCELLED"]
  /\ UNCHANGED <<winnerTeam, teamMatch, placement>>

CancelMatch(m) == CallOff(m, MarketsIn(m, {"OPEN", "LOCKED"}))

-----------------------------------------------------------------------------
(* The other callers of the ledger.                                             *)
OtherRequest ==
  /\ OneRequest
  /\ account' = account =>
       \A a \in Account : outflow'[a] # outflow[a] => outflow'[a] <= MaxFlow
  /\ UNCHANGED bettingVars

BettingNext ==
  \/ \E m \in Match : CreateMatch(m) \/ OpenBetting(m) \/ LockMatch(m) \/ CancelMatch(m)
  \/ \E m \in Match, t \in Team : CreateTeam(m, t)
  \/ \E m \in Match, T \in SUBSET Team, k \in Market : CreateBettingScenario(m, T, k)
  \/ \E m \in Match, w \in Team, p \in Placements \cup {None} : SettleMatch(m, w, p)
  \/ \E k \in Market : CheckNoMarket(k) \/ InsertMarket(k) \/ LockMarket(k) \/ CancelMarket(k)
  \/ \E k \in Market, s \in Side : SettleMarket(k, s)
  \/ \E k \in Market, u \in User, s \in Side, amt \in StakeAmount : PlaceStake(k, u, s, amt)
  \/ OtherRequest

BettingSpec == BettingInit /\ [][BettingNext]_vars

-----------------------------------------------------------------------------
(* The pool a settlement divides is the sum of the stakes it divides it among.  *)
PoolMatchesStakes ==
  \A k \in Market :
    totalPool[k] =
      SumFunctionOnSet([u \in User |-> SumFunctionOnSet(stake[k][u], Side)], User)

(* The two records of a member's bets agree: the stakes are the points the      *)
(* ledger took from the member for this market, and what the ledger paid back   *)
(* is what the settled or cancelled stakes say.                                  *)
StakesReconcile ==
  \A k \in Market, u \in User :
    /\ paidIn[k][u] = SumFunctionOnSet(stake[k][u], Side)
    /\ paidOut[k][u] = CASE marketStatus[k] = "CANCELLED" -> paidIn[k][u]
                         [] marketStatus[k] = "SETTLED" ->
                              Minted(k, winningOption[k], u)
                         [] OTHER -> 0

(* The books of every market agree: its pool, its stakes and the ledger.          *)
BooksReconcile == PoolMatchesStakes /\ StakesReconcile

Received(k) == SumFunctionOnSet(paidOut[k], User)

(* A settlement never pays out more than the pool after the rake, and what the   *)
(* rounding keeps back is less than one point per winner.                        *)
Solvency ==
  \A k \in Market :
    marketStatus[k] = "SETTLED" /\ RakeBps[k] <= 10000 =>
      /\ Received(k) <= PoolAfterRake(k)
      /\ WinningPool(k, winningOption[k]) > 0 =>
           PoolAfterRake(k) - Received(k)
             < Cardinality({u \in User : stake[k][u][winningOption[k]] > 0})

(* The status of every stake agrees with that of its market.                      *)
StakesFollowMarket ==
  \A k \in Market, u \in User, s \in Side :
    stakeStatus[k][u][s] \in
      CASE stake[k][u][s] = 0 -> {"NONE"}
        [] stake[k][u][s] > 0 /\ marketStatus[k] = "SETTLED" ->
             {IF s = winningOption[k] THEN "WON" ELSE "LOST"}
        [] stake[k][u][s] > 0 /\ marketStatus[k] = "CANCELLED" -> {"REFUNDED"}
        [] OTHER -> {"PLACED"}

(* A market that is created or left open after betting closed never takes a       *)
(* stake, so ...                                                                  *)
LateMarketIsEmpty ==
  \A k \in Market, u \in User, s \in Side :
    \/ marketStatus[k] \in {"NONE", "CHECKED"}
    \/ marketStatus[k] = "OPEN" /\ matchStatus[MatchOf[k]] # "BETTING_OPEN"
    => stake[k][u][s] = 0

(* ... once a match is settled or cancelled no stake of it waits for a result,     *)
(* although settling skips every market that is not locked.                        *)
NoStrandedStake ==
  \A k \in Market, u \in User, s \in Side :
    matchStatus[MatchOf[k]] \in {"SETTLED", "CANCELLED"} => stakeStatus[k][u][s] # "PLACED"

(* The book of a market is closed when its match or the market itself leaves the  *)
(* open state: no stake is added or changed afterwards, and none is ever reduced.  *)
BookCloses ==
  [][\A k \in Market :
       /\ ~ AssertOpenForStaking(k) => stake'[k] = stake[k] /\ totalPool'[k] = totalPool[k]
       /\ \A u \in User, s \in Side : stake'[k][u][s] >= stake[k][u][s]]_vars

(* A market is resolved once: its result, and what it paid, are final.              *)
ResolvedOnce ==
  [][\A k \in Market :
       marketStatus[k] \in {"SETTLED", "CANCELLED"} =>
         /\ marketStatus'[k] = marketStatus[k]
         /\ winningOption'[k] = winningOption[k]
         /\ paidOut'[k] = paidOut[k]
         /\ stakeStatus'[k] = stakeStatus[k]]_vars

-----------------------------------------------------------------------------
(* Claims of the documentation that the code does not keep.                         *)

(* "settle: market LOCKED and match LOCKED (or SETTLED)"                            *)
(* (betting.service.ts:44): a market is settled only after its match is locked.     *)
SettledOnlyAfterMatchLocked ==
  \A k \in Market :
    marketStatus[k] = "SETTLED" => matchStatus[MatchOf[k]] \notin {"DRAFT", "BETTING_OPEN"}

(* "cancelMatch(): unsettled markets are CANCELLED and refunded in full"            *)
(* (match.service.ts:55): a match whose betting is open or locked can be cancelled.  *)
CancelRefundsAll ==
  \A m \in Match : matchStatus[m] \in {"BETTING_OPEN", "LOCKED"} => ENABLED CancelMatch(m)

(* "Market already exists for match and type" (betting.service.ts:78): a match has   *)
(* at most one market of each type.                                                  *)
OneMarketPerType ==
  \A j, k \in Market :
    MarketExists(j) /\ MarketExists(k) /\ MatchOf[j] = MatchOf[k] /\ SameType(j, k) => j = k

-----------------------------------------------------------------------------
(* To the members a market is a book that takes contributions, closes, and pays      *)
(* back at most what it took, or all of it.                                          *)
PhaseOf(status) ==
  CASE status \in {"NONE", "CHECKED"} -> "absent"
    [] status = "OPEN" -> "open"
    [] status = "LOCKED" -> "closed"
    [] status = "SETTLED" -> "paid"
    [] OTHER -> "refunded"

Book == INSTANCE BettingBook WITH
  Pot <- Market,
  phase <- [k \in Market |-> PhaseOf(marketStatus[k])],
  contributed <- paidIn,
  received <- paidOut
BookSpec == Book!Spec
=============================================================================
