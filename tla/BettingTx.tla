----------------------------- MODULE BettingTx -----------------------------
(***************************************************************************)
(* The transactions of Betting by statement, where they can meet: a stake   *)
(* (BettingService.placeStake) and the locking, settling and cancelling of a *)
(* match (MatchService), which take row locks one after the other and read   *)
(* some rows without a lock.  PostgreSQL runs them at READ COMMITTED: a plain *)
(* read sees what is committed and waits for nobody.                         *)
(*                                                                         *)
(* What a transaction has written is seen by others when it commits, so it   *)
(* is written then.  The transactions of Betting that lock a single row are  *)
(* still one step each, and wait for the lock of that row.                   *)
(***************************************************************************)
EXTENDS Betting

VARIABLES
  staking,  \* markets whose row a placeStake holds, having found market and match open
  closing   \* of a match: the transaction that holds its row, None if there is none

txVars == <<vars, staking, closing>>

(* to: the status the match is to get.  left: markets found and still to be     *)
(* locked.  held: markets whose rows are locked.                                *)
Closing == [to : {"LOCKED", "SETTLED", "CANCELLED"}, left : SUBSET Market, held : SUBSET Market]

TxTypeOK ==
  /\ BettingTypeOK
  /\ staking \in SUBSET Market
  /\ closing \in [Match -> Closing \cup {None}]

TxInit == BettingInit /\ staking = {} /\ closing = [m \in Match |-> None]

MatchFree(m) == closing[m] = None

MarketFree(k) ==
  /\ k \notin staking
  /\ ~ MatchFree(MatchOf[k]) => k \notin closing[MatchOf[k]].held

-----------------------------------------------------------------------------
(* placeStake: SELECT of the market FOR UPDATE, plain SELECT of the match.       *)
BeginStake(k) ==
  /\ MarketFree(k)
  /\ AssertOpenForStaking(k)
  /\ staking' = staking \cup {k}
  /\ UNCHANGED <<vars, closing>>

CommitStake(k, u, s, amt) ==
  /\ k \in staking
  /\ AddStake(k, u, s, amt)
  /\ staking' = staking \ {k}
  /\ UNCHANGED closing

(* Wrong amount or side, too few points, an error or a crash.                    *)
RollBackStake(k) ==
  /\ k \in staking
  /\ staking' = staking \ {k}
  /\ UNCHANGED <<vars, closing>>

-----------------------------------------------------------------------------
(* Markets a transaction asks for, once it holds the match.                      *)
AskedFor(m, to) ==
  MarketsIn(m, CASE to = "LOCKED" -> {"OPEN"}
                 [] to = "SETTLED" -> {"LOCKED"}
                 [] to = "CANCELLED" -> {"OPEN", "LOCKED"})

(* SELECT of the match FOR UPDATE, plain SELECT of its markets.                  *)
BeginClosing(m, to) ==
  /\ MatchFree(m)
  /\ AssertTransition(m, to)
  /\ closing' = [closing EXCEPT ![m] = [to |-> to, left |-> AskedFor(m, to), held |-> {}]]
  /\ UNCHANGED <<vars, staking>>

(* Mutant: lockMatch takes no lock of the markets it writes.                     *)
LockedNow(to, k) == IF to = "LOCKED" THEN TRUE ELSE MarketFree(k)

(* lockMarket, settleMarket and cancelMarket lock the row and read it again; one *)
(* in a state they do not expect makes the transaction fail.                     *)
MayLock(to, k) == MarketFree(k)

Expected(to) ==
  CASE to = "LOCKED" -> {"OPEN", "LOCKED"}
    [] to = "SETTLED" -> {"LOCKED"}
    [] to = "CANCELLED" -> {"OPEN", "LOCKED", "CANCELLED"}

LockNext(m, k) ==
  /\ ~ MatchFree(m) /\ k \in closing[m].left
  /\ MayLock(closing[m].to, k)
  /\ marketStatus[k] \in Expected(closing[m].to)
  /\ closing' = [closing EXCEPT ![m].left = @ \ {k}, ![m].held = @ \cup {k}]
  /\ UNCHANGED <<vars, staking>>

CommitClosing(m, w, p) ==
  /\ ~ MatchFree(m) /\ closing[m].left = {}
  /\ \/ closing[m].to = "LOCKED" /\ CloseBetting(m, closing[m].held)
     \/ closing[m].to = "SETTLED" /\ EnterResult(m, closing[m].held, w, p)
     \/ closing[m].to = "CANCELLED" /\ CallOff(m, closing[m].held)
  /\ closing' = [closing EXCEPT ![m] = None]
  /\ UNCHANGED staking

RollBackClosing(m) ==
  /\ ~ MatchFree(m)
  /\ closing' = [closing EXCEPT ![m] = None]
  /\ UNCHANGED <<vars, staking>>

-----------------------------------------------------------------------------
(* Mutant: betting_markets.match_id is no foreign key, and nothing waits.        *)
ReferAnyTime(m) == TRUE

(* The insert of a row that refers to a match locks the match FOR KEY SHARE and  *)
(* so waits for whoever holds it FOR UPDATE.                                     *)
MayRefer(m) == MatchFree(m)

(* Transactions with one lock, and those of the ledger.                          *)
SingleStep ==
  /\ \/ \E m \in Match : CreateMatch(m) \/ (MatchFree(m) /\ OpenBetting(m))
     \/ \E m \in Match, t \in Team : MayRefer(m) /\ CreateTeam(m, t)
     \/ \E m \in Match, T \in SUBSET Team, k \in Market : CreateBettingScenario(m, T, k)
     \/ \E k \in Market : CheckNoMarket(k) \/ (MayRefer(MatchOf[k]) /\ InsertMarket(k))
     \/ \E k \in Market : MarketFree(k) /\ (LockMarket(k) \/ CancelMarket(k))
     \/ \E k \in Market, s \in Side : MarketFree(k) /\ SettleMarket(k, s)
     \/ OtherRequest
  /\ UNCHANGED <<staking, closing>>

TxNext ==
  \/ SingleStep
  \/ \E k \in Market : BeginStake(k) \/ RollBackStake(k)
  \/ \E k \in Market, u \in User, s \in Side, amt \in StakeAmount : CommitStake(k, u, s, amt)
  \/ \E m \in Match, to \in MatchStatus \ {"NONE", "DRAFT", "BETTING_OPEN"} : BeginClosing(m, to)
  \/ \E m \in Match, k \in Market : LockNext(m, k)
  \/ \E m \in Match, w \in Team, p \in Placements \cup {None} : CommitClosing(m, w, p)
  \/ \E m \in Match : RollBackClosing(m)

TxSpec == TxInit /\ [][TxNext]_txVars

-----------------------------------------------------------------------------
(* What a transaction found is still so when it writes: placeStake does not ask  *)
(* for the match again, and lockMatch, settleMatch and cancelMatch do not look   *)
(* for their markets again (betting.service.ts:160, match.service.ts:221, 342).  *)
StakesFound == \A k \in staking : AssertOpenForStaking(k)

ClosingFound(m) ==
  /\ AssertTransition(m, closing[m].to)
  /\ \A k \in closing[m].held : marketStatus[k] \in Expected(closing[m].to)
  /\ closing[m].to # "SETTLED" =>
       AskedFor(m, closing[m].to) \subseteq closing[m].left \cup closing[m].held

FoundIsStillSo == StakesFound /\ \A m \in Match : MatchFree(m) \/ ClosingFound(m)
=============================================================================
