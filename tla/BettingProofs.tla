---------------------------- MODULE BettingProofs ----------------------------
(***************************************************************************)
(* No stake is lost between the locks, for any number of members, matches    *)
(* and markets: what the transactions of BettingTx found before they wrote is *)
(* still so when they write, and therefore a market outside an open match is  *)
(* empty and no stake of a decided match waits for a result. And no point is  *)
(* lost between the books: pools are the stakes placed, every stake's points  *)
(* are where its status says, each market is a book as BettingBook promises,  *)
(* and balances stay what the ledger's rows add up to.                        *)
(*                                                                         *)
(* The second half is about the conversations of the bot and the pages of the *)
(* administrators, which hold what they once read while the rest goes on:      *)
(* whatever is clicked, and however late, what they ask the betting service    *)
(* to do is what was on the screen, and what they tell is so.                  *)
(***************************************************************************)
EXTENDS BettingTx, MatchPages, LedgerProofs

(* The part of the types the argument uses. *)
BookTypeOK ==
  /\ matchStatus \in [Match -> MatchStatus]
  /\ marketStatus \in [Market -> MarketStatus]
  /\ totalPool \in [Market -> Int]
  /\ stake \in [Market -> [User -> [Side -> Nat]]]
  /\ stakeStatus \in [Market -> [User -> [Side -> StakeStatus]]]
  /\ staking \subseteq Market
  /\ closing \in [Match -> Closing \cup {None}]

(* A transaction locks markets of its match only, and none that a stake holds. *)
LocksAreApart ==
  \A m \in Match : ~ MatchFree(m) =>
    /\ \A k \in closing[m].left \cup closing[m].held : MatchOf[k] = m
    /\ closing[m].held \cap staking = {}

(* A market that was locked too late for a settlement in progress is empty. *)
MissedIsEmpty ==
  \A m \in Match, k \in Market, u \in User, s \in Side :
    /\ ~ MatchFree(m) /\ closing[m].to = "SETTLED"
    /\ k \in MarketsIn(m, {"LOCKED"}) \ (closing[m].left \cup closing[m].held)
    => stake[k][u][s] = 0

(* A stake waits only in a market that is not resolved, and is not empty. *)
PlacedInUnresolved ==
  \A k \in Market, u \in User, s \in Side :
    stakeStatus[k][u][s] = "PLACED" =>
      marketStatus[k] \in {"OPEN", "LOCKED"} /\ stake[k][u][s] # 0

TxInv ==
  /\ BookTypeOK
  /\ FoundIsStillSo
  /\ LocksAreApart
  /\ LateMarketIsEmpty
  /\ MissedIsEmpty
  /\ PlacedInUnresolved
  /\ NoStrandedStake
-----------------------------------------------------------------------------

(* The invariant holds at the start. *)
LEMMA TxInitInv == TxInit => TxInv
  <1> SUFFICES ASSUME TxInit PROVE TxInv
    OBVIOUS
  <1> USE DEF TxInit, BettingInit
  <1>1. BookTypeOK
    BY DEF BookTypeOK, MatchStatus, MarketStatus, StakeStatus
  <1>2. FoundIsStillSo /\ LocksAreApart /\ MissedIsEmpty
    BY DEF FoundIsStillSo, StakesFound, LocksAreApart, MissedIsEmpty, MatchFree
  <1>3. LateMarketIsEmpty /\ PlacedInUnresolved /\ NoStrandedStake
    BY MarketAssumption DEF LateMarketIsEmpty, PlacedInUnresolved, NoStrandedStake
  <1> QED BY <1>1, <1>2, <1>3 DEF TxInv

(* What a transaction found stays so if its match keeps its state, its markets do *)
(* and no other market comes into the state it looked for.                         *)
LEMMA ClosingFoundKept ==
  ASSUME BookTypeOK, NEW m \in Match, ~ MatchFree(m), ClosingFound(m),
         closing'[m] = closing[m], matchStatus'[m] = matchStatus[m],
         \A k \in closing[m].held : marketStatus'[k] = marketStatus[k],
         \A k \in Market : MatchOf[k] = m =>
           \/ marketStatus'[k] = marketStatus[k]
           \/ marketStatus'[k] \notin {"OPEN", "LOCKED"}
           \/ marketStatus[k] = "OPEN" /\ marketStatus'[k] = "LOCKED"
  PROVE  ClosingFound(m)'
  <1>1. closing[m] \in Closing
    BY DEF BookTypeOK, MatchFree
  <1>2. AssertTransition(m, closing[m].to)'
    BY DEF ClosingFound, AssertTransition, Transition
  <1>3. \A k \in closing'[m].held : marketStatus'[k] \in Expected(closing'[m].to)
    BY DEF ClosingFound
  <1>4. CASE closing[m].to = "LOCKED"
    BY <1>2, <1>3, <1>4 DEF ClosingFound, AskedFor, MarketsIn
  <1>5. CASE closing[m].to = "CANCELLED"
    BY <1>2, <1>3, <1>5 DEF ClosingFound, AskedFor, MarketsIn
  <1>6. CASE closing[m].to = "SETTLED"
    BY <1>2, <1>3, <1>6 DEF ClosingFound
  <1> QED BY <1>1, <1>4, <1>5, <1>6 DEF Closing

(* The markets a transaction holds were not resolved before, or are cancelled. *)
LEMMA HeldIsUnresolved ==
  ASSUME BookTypeOK, NEW m \in Match, ~ MatchFree(m), ClosingFound(m), NEW k \in closing[m].held
  PROVE  marketStatus[k] \in {"OPEN", "LOCKED", "CANCELLED"}
  <1>1. closing[m].to \in {"LOCKED", "SETTLED", "CANCELLED"}
    BY DEF BookTypeOK, MatchFree, Closing
  <1>2. marketStatus[k] \in Expected(closing[m].to)
    BY DEF ClosingFound
  <1> QED BY <1>1, <1>2 DEF Expected

(* Locks are given back, or nothing of the books changes: the ledger, teams. *)
LEMMA SameBooks ==
  ASSUME TxInv, UNCHANGED <<matchStatus, marketStatus, totalPool, stake, stakeStatus>>,
         staking' \subseteq staking, closing' \in [Match -> Closing \cup {None}],
         \A m \in Match : closing'[m] \in {closing[m], None}
  PROVE  TxInv'
  <1> USE DEF TxInv
  <1>1. BookTypeOK' /\ LateMarketIsEmpty' /\ PlacedInUnresolved' /\ NoStrandedStake'
    BY DEF BookTypeOK, LateMarketIsEmpty, PlacedInUnresolved, NoStrandedStake
  <1>2. LocksAreApart' /\ MissedIsEmpty'
    BY DEF LocksAreApart, MissedIsEmpty, MatchFree, MarketsIn
  <1>3. StakesFound'
    BY DEF FoundIsStillSo, StakesFound, AssertOpenForStaking
  <1>4. ASSUME NEW m \in Match PROVE MatchFree(m)' \/ ClosingFound(m)'
    <2>1. CASE MatchFree(m) \/ closing'[m] = None
      BY <2>1 DEF MatchFree
    <2>2. CASE ~ MatchFree(m) /\ closing'[m] = closing[m]
      BY <2>2, ClosingFoundKept DEF FoundIsStillSo
    <2> QED BY <2>1, <2>2
  <1>5. FoundIsStillSo'
    BY <1>3, <1>4 DEF FoundIsStillSo
  <1> QED BY <1>1, <1>2, <1>5

(* A match nobody holds is created, or its betting is opened. *)
LEMMA MatchOpens ==
  ASSUME TxInv, NEW m \in Match, MatchFree(m), NEW st \in {"DRAFT", "BETTING_OPEN"},
         matchStatus[m] \in {"NONE", "DRAFT"},
         matchStatus' = [matchStatus EXCEPT ![m] = st],
         UNCHANGED <<marketStatus, totalPool, stake, stakeStatus, staking, closing>>
  PROVE  TxInv'
  <1> USE DEF TxInv
  <1>1. BookTypeOK'
    BY DEF BookTypeOK, MatchStatus
  <1>2. FoundIsStillSo'
    <2>1. StakesFound'
      BY MarketAssumption DEF FoundIsStillSo, StakesFound, AssertOpenForStaking, BookTypeOK
    <2>2. ASSUME NEW n \in Match PROVE MatchFree(n)' \/ ClosingFound(n)'
      <3>1. CASE MatchFree(n)
        BY <3>1 DEF MatchFree
      <3>2. CASE ~ MatchFree(n)
        <4>1. matchStatus'[n] = matchStatus[n]
          BY <3>2 DEF BookTypeOK
        <4> QED BY <3>2, <4>1, ClosingFoundKept DEF FoundIsStillSo
      <3> QED BY <3>1, <3>2
    <2> QED BY <2>1, <2>2 DEF FoundIsStillSo
  <1>3. LocksAreApart' /\ MissedIsEmpty' /\ PlacedInUnresolved'
    BY DEF LocksAreApart, MissedIsEmpty, PlacedInUnresolved, MatchFree, MarketsIn
  <1>4. LateMarketIsEmpty'
    BY MarketAssumption DEF LateMarketIsEmpty, BookTypeOK
  <1>5. NoStrandedStake'
    BY MarketAssumption DEF NoStrandedStake, BookTypeOK
  <1> QED BY <1>1, <1>2, <1>3, <1>4, <1>5

(* A market comes closer to its creation, while nobody holds its match if it is *)
(* inserted.                                                                    *)
LEMMA MarketOpens ==
  ASSUME TxInv, NEW k \in Market, marketStatus[k] \in {"NONE", "CHECKED"},
         NEW st \in {"CHECKED", "OPEN"}, st = "OPEN" => MatchFree(MatchOf[k]),
         marketStatus' = [marketStatus EXCEPT ![k] = st],
         UNCHANGED <<matchStatus, totalPool, stake, stakeStatus, staking, closing>>
  PROVE  TxInv'
  <1> USE DEF TxInv
  <1>1. BookTypeOK'
    BY DEF BookTypeOK, MarketStatus
  <1>2. FoundIsStillSo'
    <2>1. StakesFound'
      BY DEF FoundIsStillSo, StakesFound, AssertOpenForStaking, BookTypeOK
    <2>2. ASSUME NEW n \in Match PROVE MatchFree(n)' \/ ClosingFound(n)'
      <3>1. CASE MatchFree(n)
        BY <3>1 DEF MatchFree
      <3>2. CASE ~ MatchFree(n)
        <4>1. k \notin closing[n].held
          BY <3>2, HeldIsUnresolved DEF FoundIsStillSo
        <4>2. \A j \in Market : j # k => marketStatus'[j] = marketStatus[j]
          BY DEF BookTypeOK
        <4>3. closing[n].held \subseteq Market
          BY <3>2 DEF BookTypeOK, MatchFree, Closing
        <4>4. MatchOf[k] = n => marketStatus'[k] = "CHECKED"
          BY <3>2 DEF BookTypeOK
        <4> QED BY <3>2, <4>1, <4>2, <4>3, <4>4, ClosingFoundKept DEF FoundIsStillSo
      <3> QED BY <3>1, <3>2
    <2> QED BY <2>1, <2>2 DEF FoundIsStillSo
  <1>3. LocksAreApart' /\ MissedIsEmpty'
    BY DEF LocksAreApart, MissedIsEmpty, MatchFree, MarketsIn, BookTypeOK
  <1>4. LateMarketIsEmpty'
    BY DEF LateMarketIsEmpty, BookTypeOK
  <1>5. PlacedInUnresolved' /\ NoStrandedStake'
    BY DEF PlacedInUnresolved, NoStrandedStake, BookTypeOK
  <1> QED BY <1>1, <1>2, <1>3, <1>4, <1>5

(* A market is locked, settled or cancelled on its own. *)
LEMMA MarketCloses ==
  ASSUME TxInv, NEW k \in Market, MarketFree(k), marketStatus[k] \in {"OPEN", "LOCKED"},
         NEW st \in {"LOCKED", "SETTLED", "CANCELLED"}, st = "LOCKED" => marketStatus[k] = "OPEN",
         marketStatus' = [marketStatus EXCEPT ![k] = st],
         stakeStatus' \in [Market -> [User -> [Side -> StakeStatus]]],
         \A j \in Market : j # k \/ st = "LOCKED" => stakeStatus'[j] = stakeStatus[j],
         st # "LOCKED" => \A u \in User, s \in Side : stakeStatus'[k][u][s] # "PLACED",
         UNCHANGED <<matchStatus, totalPool, stake, staking, closing>>
  PROVE  TxInv'
  <1> USE DEF TxInv
  <1>1. BookTypeOK'
    BY DEF BookTypeOK, MarketStatus
  <1>2. \A j \in Market : j # k => marketStatus'[j] = marketStatus[j]
    BY DEF BookTypeOK
  <1>3. marketStatus'[k] = st
    BY DEF BookTypeOK
  <1>4. FoundIsStillSo'
    <2>1. StakesFound'
      BY <1>2 DEF FoundIsStillSo, StakesFound, AssertOpenForStaking, BookTypeOK, MarketFree
    <2>2. ASSUME NEW n \in Match PROVE MatchFree(n)' \/ ClosingFound(n)'
      <3>1. CASE MatchFree(n)
        BY <3>1 DEF MatchFree
      <3>2. CASE ~ MatchFree(n)
        <4>1. k \notin closing[n].held
          BY <3>2 DEF LocksAreApart, MarketFree
        <4>2. closing[n].held \subseteq Market
          BY <3>2 DEF BookTypeOK, MatchFree, Closing
        <4> QED BY <3>2, <4>1, <4>2, <1>2, <1>3, ClosingFoundKept DEF FoundIsStillSo
      <3> QED BY <3>1, <3>2
    <2> QED BY <2>1, <2>2 DEF FoundIsStillSo
  <1>5. LocksAreApart'
    BY DEF LocksAreApart, MatchFree
  <1>6. LateMarketIsEmpty'
    BY <1>2, <1>3 DEF LateMarketIsEmpty
  <1>7. MissedIsEmpty'
    <2> SUFFICES ASSUME NEW m \in Match, NEW j \in Market, NEW u \in User, NEW s \in Side,
                        ~ MatchFree(m), closing[m].to = "SETTLED",
                        MatchOf[j] = m, marketStatus'[j] = "LOCKED",
                        j \notin closing[m].left \cup closing[m].held
                 PROVE  stake[j][u][s] = 0
      BY DEF MissedIsEmpty, MatchFree, MarketsIn
    <2>1. CASE marketStatus[j] = "LOCKED"
      BY <2>1 DEF MissedIsEmpty, MarketsIn
    <2>2. CASE marketStatus[j] # "LOCKED"
      <3>1. j = k /\ marketStatus[j] = "OPEN"
        BY <2>2, <1>2, <1>3
      <3>2. matchStatus[m] # "BETTING_OPEN"
        BY DEF FoundIsStillSo, ClosingFound, AssertTransition, Transition
      <3> QED BY <3>1, <3>2 DEF LateMarketIsEmpty
    <2> QED BY <2>1, <2>2
  <1>8. ASSUME NEW j \in Market, NEW u \in User, NEW s \in Side, stakeStatus'[j][u][s] = "PLACED"
        PROVE  stakeStatus[j][u][s] = "PLACED" /\ (j # k \/ st = "LOCKED")
    BY <1>8
  <1>9. PlacedInUnresolved'
    BY <1>2, <1>3, <1>8 DEF PlacedInUnresolved
  <1>10. NoStrandedStake'
    BY <1>8 DEF NoStrandedStake
  <1> QED BY <1>1, <1>4, <1>5, <1>6, <1>7, <1>9, <1>10

-----------------------------------------------------------------------------
(* Stakes. *)
LEMMA BeginStakeKeeps ==
  ASSUME TxInv, NEW k \in Market, BeginStake(k)
  PROVE  TxInv'
  <1> USE DEF TxInv, BeginStake
  <1> USE DEF vars, bettingVars, matchVars, marketVars, stakeVars
  <1>1. BookTypeOK' /\ LateMarketIsEmpty' /\ PlacedInUnresolved' /\ NoStrandedStake'
    BY DEF BookTypeOK, LateMarketIsEmpty, PlacedInUnresolved, NoStrandedStake
  <1>2. LocksAreApart'
    <2> SUFFICES ASSUME NEW m \in Match, ~ MatchFree(m)
                 PROVE  /\ \A j \in closing[m].left \cup closing[m].held : MatchOf[j] = m
                        /\ closing[m].held \cap (staking \cup {k}) = {}
      BY DEF LocksAreApart, MatchFree
    <2> QED BY DEF LocksAreApart, MarketFree
  <1>3. MissedIsEmpty'
    BY DEF MissedIsEmpty, MatchFree, MarketsIn
  <1>4. StakesFound'
    BY DEF FoundIsStillSo, StakesFound, AssertOpenForStaking
  <1>5. ASSUME NEW m \in Match PROVE MatchFree(m)' \/ ClosingFound(m)'
    <2>1. CASE MatchFree(m)
      BY <2>1 DEF MatchFree
    <2>2. CASE ~ MatchFree(m)
      BY <2>2, ClosingFoundKept DEF FoundIsStillSo
    <2> QED BY <2>1, <2>2
  <1> QED BY <1>1, <1>2, <1>3, <1>4, <1>5 DEF FoundIsStillSo

(* What a stake adds is the member's row for that side, and more than nothing. *)
LEMMA AddStakeAdds ==
  ASSUME BookTypeOK, NEW k \in Market, NEW u \in User, NEW s \in Side, NEW amt \in StakeAmount,
         AddStake(k, u, s, amt)
  PROVE  /\ stake' \in [Market -> [User -> [Side -> Nat]]]
         /\ stakeStatus' \in [Market -> [User -> [Side -> StakeStatus]]]
         /\ totalPool' \in [Market -> Int]
         /\ \A j \in Market : j # k => /\ stake'[j] = stake[j]
                                       /\ stakeStatus'[j] = stakeStatus[j]
                                       /\ totalPool'[j] = totalPool[j]
         /\ \A v \in User, t \in Side :
              /\ stake'[k][v][t] >= stake[k][v][t]
              /\ \/ stakeStatus'[k][v][t] = stakeStatus[k][v][t]
                 \/ v = u /\ t = s
         /\ stake'[k][u][s] # 0
  <1>1. amt \in Nat /\ amt > 0
    BY StakeAmountAssumption DEF AddStake
  <1>2. stake[k][u][s] \in Nat
    BY DEF BookTypeOK
  <1>3. stake[k] \in [User -> [Side -> Nat]] /\ stakeStatus[k] \in [User -> [Side -> StakeStatus]]
    BY DEF BookTypeOK
  <1>4. stakeStatus[k][u][s] \in StakeStatus
    BY <1>3
  <1>5. stake' = [stake EXCEPT ![k][u][s] = stake[k][u][s] + amt]
    BY DEF AddStake
  <1>6. stakeStatus' = [stakeStatus EXCEPT ![k][u][s] =
          IF stakeStatus[k][u][s] = "NONE" THEN "PLACED" ELSE stakeStatus[k][u][s]]
    BY DEF AddStake
  <1>7. totalPool' = [totalPool EXCEPT ![k] = totalPool[k] + amt]
    BY DEF AddStake
  <1>8. stake' \in [Market -> [User -> [Side -> Nat]]]
    BY <1>1, <1>2, <1>3, <1>5 DEF BookTypeOK
  <1>9. stakeStatus' \in [Market -> [User -> [Side -> StakeStatus]]]
    BY <1>3, <1>4, <1>6 DEF BookTypeOK, StakeStatus
  <1>10. totalPool' \in [Market -> Int]
    BY <1>1, <1>7 DEF BookTypeOK
  <1>11. \A v \in User, t \in Side : stake'[k][v][t] =
           IF v = u /\ t = s THEN stake[k][u][s] + amt ELSE stake[k][v][t]
    BY <1>3, <1>5 DEF BookTypeOK
  <1>12. \A v \in User, t \in Side : v # u \/ t # s => stakeStatus'[k][v][t] = stakeStatus[k][v][t]
    BY <1>3, <1>6 DEF BookTypeOK
  <1>13. \A v \in User, t \in Side : stake[k][v][t] \in Nat
    BY DEF BookTypeOK
  <1>14. \A j \in Market : j # k => /\ stake'[j] = stake[j]
                                  /\ stakeStatus'[j] = stakeStatus[j]
                                  /\ totalPool'[j] = totalPool[j]
    BY <1>5, <1>6, <1>7 DEF BookTypeOK
  <1>15. \A v \in User, t \in Side : stake'[k][v][t] >= stake[k][v][t]
    BY <1>1, <1>2, <1>11, <1>13
  <1>16. stake'[k][u][s] # 0
    BY <1>1, <1>2, <1>11
  <1> QED BY <1>8, <1>9, <1>10, <1>12, <1>14, <1>15, <1>16

(* The commit of placeStake keeps the invariant. *)
LEMMA CommitStakeKeeps ==
  ASSUME TxInv, NEW k \in Market, NEW u \in User, NEW s \in Side, NEW amt \in StakeAmount,
         CommitStake(k, u, s, amt)
  PROVE  TxInv'
  <1> USE DEF TxInv
  <1> staking' = staking \ {k} /\ closing' = closing /\ AddStake(k, u, s, amt)
    BY DEF CommitStake
  <1> matchStatus' = matchStatus /\ marketStatus' = marketStatus
    BY DEF AddStake, matchVars
  <1>1. marketStatus[k] = "OPEN" /\ matchStatus[MatchOf[k]] = "BETTING_OPEN"
    BY DEF CommitStake, FoundIsStillSo, StakesFound, AssertOpenForStaking
  <1>2. BookTypeOK'
    BY AddStakeAdds DEF BookTypeOK
  <1>3. FoundIsStillSo'
    <2>1. StakesFound'
      BY DEF FoundIsStillSo, StakesFound, AssertOpenForStaking
    <2>2. ASSUME NEW m \in Match PROVE MatchFree(m)' \/ ClosingFound(m)'
      <3>1. CASE MatchFree(m)
        BY <3>1 DEF MatchFree
      <3>2. CASE ~ MatchFree(m)
        BY <3>2, ClosingFoundKept DEF FoundIsStillSo
      <3> QED BY <3>1, <3>2
    <2> QED BY <2>1, <2>2 DEF FoundIsStillSo
  <1>4. LocksAreApart'
    BY DEF LocksAreApart, MatchFree
  <1>5. \A j \in Market : j # k => stake'[j] = stake[j] /\ stakeStatus'[j] = stakeStatus[j]
    BY AddStakeAdds
  <1>6. LateMarketIsEmpty'
    BY <1>1, <1>5 DEF LateMarketIsEmpty
  <1>7. MissedIsEmpty'
    BY <1>1, <1>5 DEF MissedIsEmpty, MatchFree, MarketsIn
  <1>8. PlacedInUnresolved'
    <2> SUFFICES ASSUME NEW j \in Market, NEW v \in User, NEW t \in Side,
                        stakeStatus'[j][v][t] = "PLACED"
                 PROVE  marketStatus[j] \in {"OPEN", "LOCKED"} /\ stake'[j][v][t] # 0
      BY DEF PlacedInUnresolved
    <2>1. CASE j # k
      BY <2>1, <1>5 DEF PlacedInUnresolved
    <2>2. CASE j = k /\ v = u /\ t = s
      BY <2>2, <1>1, AddStakeAdds
    <2>3. CASE j = k /\ ~ (v = u /\ t = s)
      <3>1. stakeStatus[j][v][t] = "PLACED" /\ stake'[j][v][t] >= stake[j][v][t]
        BY <2>3, AddStakeAdds
      <3>2. stake[j][v][t] # 0 /\ stake[j][v][t] \in Nat /\ stake'[j][v][t] \in Nat
        BY <3>1, <1>2 DEF PlacedInUnresolved, BookTypeOK
      <3> QED BY <2>3, <3>1, <3>2, <1>1
    <2> QED BY <2>1, <2>2, <2>3
  <1>9. NoStrandedStake'
    BY <1>1, <1>5 DEF NoStrandedStake
  <1> QED BY <1>2, <1>3, <1>4, <1>6, <1>7, <1>8, <1>9

-----------------------------------------------------------------------------
(* Transactions on a match. *)
LEMMA BeginClosingKeeps ==
  ASSUME TxInv, NEW m \in Match, NEW to \in {"LOCKED", "SETTLED", "CANCELLED"}, BeginClosing(m, to)
  PROVE  TxInv'
  <1> USE DEF TxInv, vars, bettingVars, matchVars, marketVars, stakeVars
  <1> DEFINE c == [to |-> to, left |-> AskedFor(m, to), held |-> {}]
  <1>1. AskedFor(m, to) \subseteq Market /\ \A k \in AskedFor(m, to) : MatchOf[k] = m
    BY DEF AskedFor, MarketsIn
  <1>2. c \in Closing
    BY <1>1 DEF Closing
  <1>3. closing' = [closing EXCEPT ![m] = c]
    BY DEF BeginClosing
  <1>4. UNCHANGED <<matchStatus, marketStatus, totalPool, stake, stakeStatus, staking>>
    BY DEF BeginClosing
  <1>5. c.to = to /\ c.left = AskedFor(m, to) /\ c.held = {}
    OBVIOUS
  <1>6. AssertTransition(m, to)
    BY DEF BeginClosing
  <1> HIDE DEF c
  <1>7. closing'[m] = c /\ \A n \in Match : n # m => closing'[n] = closing[n]
    BY <1>3 DEF BookTypeOK
  <1>8. BookTypeOK' /\ LateMarketIsEmpty' /\ PlacedInUnresolved' /\ NoStrandedStake'
    BY <1>2, <1>3, <1>4 DEF BookTypeOK, LateMarketIsEmpty, PlacedInUnresolved, NoStrandedStake
  <1>9. LocksAreApart'
    BY <1>1, <1>4, <1>5, <1>7 DEF LocksAreApart, MatchFree
  <1>10. MissedIsEmpty'
    <2> SUFFICES ASSUME NEW n \in Match, NEW k \in Market, NEW u \in User, NEW s \in Side,
                        ~ MatchFree(n)', closing'[n].to = "SETTLED",
                        k \in MarketsIn(n, {"LOCKED"}),
                        k \notin closing'[n].left \cup closing'[n].held
                 PROVE  stake[k][u][s] = 0
      BY <1>4 DEF MissedIsEmpty, MarketsIn
    <2>1. CASE n = m
      BY <2>1, <1>5, <1>7 DEF AskedFor
    <2>2. CASE n # m
      BY <2>2, <1>7 DEF MissedIsEmpty, MatchFree
    <2> QED BY <2>1, <2>2
  <1>11. StakesFound'
    BY <1>4 DEF FoundIsStillSo, StakesFound, AssertOpenForStaking
  <1>12. ASSUME NEW n \in Match PROVE MatchFree(n)' \/ ClosingFound(n)'
    <2>1. CASE n = m
      BY <2>1, <1>4, <1>5, <1>6, <1>7 DEF ClosingFound, AssertTransition, AskedFor, MarketsIn
    <2>2. CASE n # m /\ MatchFree(n)
      BY <2>2, <1>7 DEF MatchFree
    <2>3. CASE n # m /\ ~ MatchFree(n)
      BY <2>3, <1>4, <1>7, ClosingFoundKept DEF FoundIsStillSo
    <2> QED BY <2>1, <2>2, <2>3
  <1> QED BY <1>8, <1>9, <1>10, <1>11, <1>12 DEF FoundIsStillSo

(* A transaction that takes its next row lock keeps it. *)
LEMMA LockNextKeeps ==
  ASSUME TxInv, NEW m \in Match, NEW k \in Market, LockNext(m, k)
  PROVE  TxInv'
  <1> USE DEF TxInv, vars, bettingVars, matchVars, marketVars, stakeVars
  <1>1. ~ MatchFree(m) /\ closing[m] \in Closing /\ k \in closing[m].left
    BY DEF LockNext, BookTypeOK, MatchFree
  <1> DEFINE c == [closing[m] EXCEPT !.left = @ \ {k}, !.held = @ \cup {k}]
  <1>2. /\ c \in Closing /\ c.to = closing[m].to
        /\ c.left = closing[m].left \ {k} /\ c.held = closing[m].held \cup {k}
    BY <1>1 DEF Closing
  <1>3. closing' = [closing EXCEPT ![m] = c]
    BY DEF LockNext
  <1>4. UNCHANGED <<matchStatus, marketStatus, totalPool, stake, stakeStatus, staking>>
    BY DEF LockNext
  <1>5. marketStatus[k] \in Expected(closing[m].to) /\ k \notin staking
    BY DEF LockNext, MayLock, MarketFree
  <1> HIDE DEF c
  <1>6. closing'[m] = c /\ \A n \in Match : n # m => closing'[n] = closing[n]
    BY <1>3 DEF BookTypeOK
  <1>7. BookTypeOK' /\ LateMarketIsEmpty' /\ PlacedInUnresolved' /\ NoStrandedStake'
    BY <1>2, <1>3, <1>4 DEF BookTypeOK, LateMarketIsEmpty, PlacedInUnresolved, NoStrandedStake
  <1>8. LocksAreApart'
    BY <1>1, <1>2, <1>4, <1>5, <1>6 DEF LocksAreApart, MatchFree
  <1>9. c.left \cup c.held = closing[m].left \cup closing[m].held
    BY <1>1, <1>2
  <1>10. MissedIsEmpty'
    <2> SUFFICES ASSUME NEW n \in Match, NEW j \in Market, NEW u \in User, NEW s \in Side,
                        ~ MatchFree(n)', closing'[n].to = "SETTLED",
                        j \in MarketsIn(n, {"LOCKED"}),
                        j \notin closing'[n].left \cup closing'[n].held
                 PROVE  stake[j][u][s] = 0
      BY <1>4 DEF MissedIsEmpty, MarketsIn
    <2>1. CASE n = m
      BY <2>1, <1>1, <1>2, <1>6, <1>9 DEF MissedIsEmpty
    <2>2. CASE n # m
      BY <2>2, <1>6 DEF MissedIsEmpty, MatchFree
    <2> QED BY <2>1, <2>2
  <1>11. StakesFound'
    BY <1>4 DEF FoundIsStillSo, StakesFound, AssertOpenForStaking
  <1>12. ASSUME NEW n \in Match PROVE MatchFree(n)' \/ ClosingFound(n)'
    <2>1. CASE n = m
      <3>1. ClosingFound(m)
        BY <1>1 DEF FoundIsStillSo
      <3> QED BY <2>1, <3>1, <1>2, <1>4, <1>5, <1>6, <1>9
              DEF ClosingFound, AssertTransition, AskedFor, MarketsIn
    <2>2. CASE n # m /\ MatchFree(n)
      BY <2>2, <1>6 DEF MatchFree
    <2>3. CASE n # m /\ ~ MatchFree(n)
      BY <2>3, <1>4, <1>6, ClosingFoundKept DEF FoundIsStillSo
    <2> QED BY <2>1, <2>2, <2>3
  <1> QED BY <1>7, <1>8, <1>10, <1>11, <1>12 DEF FoundIsStillSo

(* A match and the markets held of it change state together. *)
LEMMA MatchDecided ==
  ASSUME TxInv, NEW m \in Match, ~ MatchFree(m), closing[m].left = {},
         closing' = [closing EXCEPT ![m] = None],
         matchStatus' = [matchStatus EXCEPT ![m] = closing[m].to],
         marketStatus' \in [Market -> MarketStatus],
         stakeStatus' \in [Market -> [User -> [Side -> StakeStatus]]],
         \A k \in Market : \/ k \notin closing[m].held /\ marketStatus'[k] = marketStatus[k]
                           \/ k \in closing[m].held /\ marketStatus'[k] = closing[m].to,
         \A k \in Market : k \notin closing[m].held \/ closing[m].to = "LOCKED" =>
                           stakeStatus'[k] = stakeStatus[k],
         closing[m].to # "LOCKED" => \A k \in closing[m].held, u \in User, s \in Side :
                                      stakeStatus'[k][u][s] # "PLACED",
         UNCHANGED <<totalPool, stake, staking>>
  PROVE  TxInv'
  <1> USE DEF TxInv
  <1> DEFINE to == closing[m].to  held == closing[m].held
  <1>1. to \in {"LOCKED", "SETTLED", "CANCELLED"} /\ held \subseteq Market
    BY DEF BookTypeOK, MatchFree, Closing
  <1>2. closing'[m] = None /\ \A n \in Match : n # m => closing'[n] = closing[n]
    BY DEF BookTypeOK
  <1>3. matchStatus'[m] = to /\ \A n \in Match : n # m => matchStatus'[n] = matchStatus[n]
    BY DEF BookTypeOK
  <1>4. /\ AssertTransition(m, to)
        /\ \A k \in held : MatchOf[k] = m /\ k \notin staking /\ marketStatus[k] \in Expected(to)
        /\ to # "SETTLED" => AskedFor(m, to) \subseteq held
    BY DEF FoundIsStillSo, ClosingFound, LocksAreApart
  <1>5. to = "SETTLED" => matchStatus[m] = "LOCKED"
    BY <1>4 DEF AssertTransition, Transition, BookTypeOK, MatchStatus
  <1>6. \A k \in Market : k \notin held => marketStatus'[k] = marketStatus[k]
    OBVIOUS
  <1>7. \A k \in held : marketStatus'[k] = to
    BY <1>1
  <1>8. \A k \in Market : MatchOf[k] = m /\ marketStatus[k] = "OPEN" =>
          k \in held \/ to = "SETTLED"
    BY <1>1, <1>4 DEF AskedFor, MarketsIn
  <1> HIDE DEF to, held
  <1>9. ASSUME NEW k \in Market, NEW u \in User, NEW s \in Side, stakeStatus'[k][u][s] = "PLACED"
        PROVE  stakeStatus[k][u][s] = "PLACED" /\ (k \notin held \/ to = "LOCKED")
    BY <1>9 DEF to, held
  <1>10. BookTypeOK'
    BY <1>1, <1>2, <1>3 DEF BookTypeOK, MatchStatus, to
  <1>11. FoundIsStillSo'
    <2>1. StakesFound'
      <3> SUFFICES ASSUME NEW k \in staking PROVE AssertOpenForStaking(k)'
        BY DEF StakesFound
      <3>1. marketStatus[k] = "OPEN" /\ matchStatus[MatchOf[k]] = "BETTING_OPEN" /\ k \in Market
        BY DEF FoundIsStillSo, StakesFound, AssertOpenForStaking, BookTypeOK
      <3>2. k \notin held
        BY <1>4
      <3>3. MatchOf[k] # m
        BY <3>1, <3>2, <1>5, <1>8
      <3> QED BY <3>1, <3>2, <3>3, <1>3, <1>6, MarketAssumption DEF AssertOpenForStaking
    <2>2. ASSUME NEW n \in Match PROVE MatchFree(n)' \/ ClosingFound(n)'
      <3>1. CASE n = m
        BY <3>1, <1>2 DEF MatchFree
      <3>2. CASE n # m /\ MatchFree(n)
        BY <3>2, <1>2 DEF MatchFree
      <3>3. CASE n # m /\ ~ MatchFree(n)
        <4>1. closing[n].held \subseteq Market /\ \A k \in closing[n].held : MatchOf[k] = n
          BY <3>3 DEF BookTypeOK, MatchFree, Closing, LocksAreApart
        <4>2. \A k \in Market : MatchOf[k] = n => marketStatus'[k] = marketStatus[k]
          BY <3>3, <1>4, <1>6
        <4>3. ClosingFound(n)
          BY <3>3 DEF FoundIsStillSo
        <4> QED BY <3>3, <4>1, <4>2, <4>3, <1>2, <1>3, ClosingFoundKept
      <3> QED BY <3>1, <3>2, <3>3
    <2> QED BY <2>1, <2>2 DEF FoundIsStillSo
  <1>12. LocksAreApart'
    BY <1>2 DEF LocksAreApart, MatchFree
  <1>13. LateMarketIsEmpty'
    <2> SUFFICES ASSUME NEW k \in Market, NEW u \in User, NEW s \in Side,
                        \/ marketStatus'[k] \in {"NONE", "CHECKED"}
                        \/ marketStatus'[k] = "OPEN" /\ matchStatus'[MatchOf[k]] # "BETTING_OPEN"
                 PROVE  stake[k][u][s] = 0
      BY DEF LateMarketIsEmpty
    <2>1. k \notin held /\ marketStatus'[k] = marketStatus[k]
      BY <1>1, <1>6, <1>7
    <2>2. CASE MatchOf[k] # m
      BY <2>1, <2>2, <1>3, MarketAssumption DEF LateMarketIsEmpty
    <2>3. CASE MatchOf[k] = m
      BY <2>1, <2>3, <1>5, <1>8 DEF LateMarketIsEmpty
    <2> QED BY <2>2, <2>3
  <1>14. MissedIsEmpty'
    <2> SUFFICES ASSUME NEW n \in Match, NEW k \in Market, NEW u \in User, NEW s \in Side,
                        ~ MatchFree(n)', closing'[n].to = "SETTLED",
                        MatchOf[k] = n, marketStatus'[k] = "LOCKED",
                        k \notin closing'[n].left \cup closing'[n].held
                 PROVE  stake[k][u][s] = 0
      BY DEF MissedIsEmpty, MarketsIn
    <2>1. n # m /\ ~ MatchFree(n) /\ closing'[n] = closing[n]
      BY <1>2 DEF MatchFree
    <2>2. marketStatus[k] = "LOCKED"
      BY <2>1, <1>4, <1>6
    <2> QED BY <2>1, <2>2 DEF MissedIsEmpty, MarketsIn
  <1>15. PlacedInUnresolved'
    <2> SUFFICES ASSUME NEW k \in Market, NEW u \in User, NEW s \in Side,
                        stakeStatus'[k][u][s] = "PLACED"
                 PROVE  marketStatus'[k] \in {"OPEN", "LOCKED"} /\ stake[k][u][s] # 0
      BY DEF PlacedInUnresolved
    <2> QED BY <1>6, <1>7, <1>9 DEF PlacedInUnresolved
  <1>16. NoStrandedStake'
    <2> SUFFICES ASSUME NEW k \in Market, NEW u \in User, NEW s \in Side,
                        matchStatus'[MatchOf[k]] \in {"SETTLED", "CANCELLED"},
                        stakeStatus'[k][u][s] = "PLACED"
                 PROVE  FALSE
      BY DEF NoStrandedStake
    <2>1. /\ stakeStatus[k][u][s] = "PLACED" /\ (k \notin held \/ to = "LOCKED")
          /\ marketStatus[k] \in {"OPEN", "LOCKED"} /\ stake[k][u][s] # 0
      BY <1>9 DEF PlacedInUnresolved
    <2>2. MatchOf[k] = m /\ to # "LOCKED"
      BY <2>1, <1>3, MarketAssumption DEF NoStrandedStake
    <2>3. CASE to = "CANCELLED"
      <3>1. k \in AskedFor(m, to)
        BY <2>1, <2>2, <2>3 DEF AskedFor, MarketsIn
      <3> QED BY <2>1, <2>3, <3>1, <1>4
    <2>4. CASE to = "SETTLED"
      <3>1. marketStatus[k] # "OPEN"
        BY <2>1, <2>2, <2>4, <1>5 DEF LateMarketIsEmpty
      <3> QED BY <2>1, <2>2, <2>4, <3>1 DEF MissedIsEmpty, MarketsIn, to, held
    <2> QED BY <2>2, <2>3, <2>4, <1>1
  <1> QED BY <1>10, <1>11, <1>12, <1>13, <1>14, <1>15, <1>16

(* What a settlement, and a cancellation, does to the books. *)
LEMMA SettleBooks ==
  ASSUME BookTypeOK, NEW K \in SUBSET Market, NEW opt, Settle(K, opt)
  PROVE  /\ marketStatus' \in [Market -> MarketStatus]
         /\ stakeStatus' \in [Market -> [User -> [Side -> StakeStatus]]]
         /\ \A k \in Market : /\ k \in K => marketStatus[k] = "LOCKED" /\ marketStatus'[k] = "SETTLED"
                              /\ k \notin K => /\ marketStatus'[k] = marketStatus[k]
                                               /\ stakeStatus'[k] = stakeStatus[k]
         /\ \A k \in K, u \in User, s \in Side : stakeStatus'[k][u][s] # "PLACED"
         /\ UNCHANGED <<totalPool, stake>>
  <1>1. \A k \in Market, u \in User, s \in Side :
          SettledStatus(k, opt[k], u, s) \in StakeStatus \ {"PLACED"}
    BY DEF SettledStatus, StakeStatus
  <1>2. /\ marketStatus' = [k \in Market |-> IF k \in K THEN "SETTLED" ELSE marketStatus[k]]
        /\ stakeStatus' = [k \in Market |-> IF k \notin K THEN stakeStatus[k] ELSE
             [u \in User |-> [s \in Side |-> SettledStatus(k, opt[k], u, s)]]]
        /\ \A k \in K : marketStatus[k] = "LOCKED"
        /\ UNCHANGED <<totalPool, stake>>
    BY DEF Settle
  <1>3. marketStatus' \in [Market -> MarketStatus]
    BY <1>2 DEF BookTypeOK, MarketStatus
  <1>4. stakeStatus' \in [Market -> [User -> [Side -> StakeStatus]]]
    BY <1>1, <1>2 DEF BookTypeOK
  <1>5. \A k \in K, u \in User, s \in Side : stakeStatus'[k][u][s] # "PLACED"
    BY <1>1, <1>2
  <1> QED BY <1>2, <1>3, <1>4, <1>5

(* What the cancellation of a set of markets writes. *)
LEMMA CancelBooks ==
  ASSUME BookTypeOK, NEW K \in SUBSET Market, Cancel(K)
  PROVE  /\ marketStatus' \in [Market -> MarketStatus]
         /\ stakeStatus' \in [Market -> [User -> [Side -> StakeStatus]]]
         /\ \A k \in Market : /\ k \in K => marketStatus'[k] = "CANCELLED"
                              /\ k \notin K => /\ marketStatus'[k] = marketStatus[k]
                                               /\ stakeStatus'[k] = stakeStatus[k]
         /\ \A k \in K, u \in User, s \in Side : stakeStatus'[k][u][s] # "PLACED"
         /\ UNCHANGED <<totalPool, stake>>
  <1> DEFINE st(k, u, s) == IF stakeStatus[k][u][s] = "PLACED" THEN "REFUNDED" ELSE stakeStatus[k][u][s]
  <1>1. \A k \in Market, u \in User, s \in Side : st(k, u, s) \in StakeStatus \ {"PLACED"}
    BY DEF StakeStatus, BookTypeOK
  <1>2. /\ marketStatus' = [k \in Market |-> IF k \in K THEN "CANCELLED" ELSE marketStatus[k]]
        /\ stakeStatus' = [k \in Market |-> IF k \notin K THEN stakeStatus[k] ELSE
             [u \in User |-> [s \in Side |-> st(k, u, s)]]]
        /\ UNCHANGED <<totalPool, stake>>
    BY DEF Cancel
  <1> HIDE DEF st
  <1>3. marketStatus' \in [Market -> MarketStatus]
    BY <1>2 DEF BookTypeOK, MarketStatus
  <1>4. stakeStatus' \in [Market -> [User -> [Side -> StakeStatus]]]
    BY <1>1, <1>2 DEF BookTypeOK
  <1>5. \A k \in K, u \in User, s \in Side : stakeStatus'[k][u][s] # "PLACED"
    BY <1>1, <1>2
  <1> QED BY <1>2, <1>3, <1>4, <1>5

(* The commit of lockMatch, settleMatch or cancelMatch keeps the invariant. *)
LEMMA CommitClosingKeeps ==
  ASSUME TxInv, NEW m \in Match, NEW w, NEW p, CommitClosing(m, w, p)
  PROVE  TxInv'
  <1> DEFINE K == closing[m].held
  <1>1. ~ MatchFree(m) /\ closing[m].left = {} /\ staking' = staking
    BY DEF CommitClosing
  <1>2. closing' = [closing EXCEPT ![m] = None]
    BY DEF CommitClosing
  <1>3. BookTypeOK /\ K \in SUBSET Market
    BY <1>1 DEF TxInv, BookTypeOK, MatchFree, Closing
  <1>4. CASE closing[m].to = "LOCKED" /\ CloseBetting(m, K)
    <2>1. marketStatus' = [k \in Market |-> IF k \in K THEN "LOCKED" ELSE marketStatus[k]]
      BY <1>4 DEF CloseBetting
    <2>2. /\ matchStatus' = [matchStatus EXCEPT ![m] = closing[m].to]
          /\ UNCHANGED <<totalPool, stake, stakeStatus>>
      BY <1>4 DEF CloseBetting, stakeVars
    <2>3. marketStatus' \in [Market -> MarketStatus]
      BY <1>3, <2>1 DEF BookTypeOK, MarketStatus
    <2>4. stakeStatus \in [Market -> [User -> [Side -> StakeStatus]]]
      BY <1>3 DEF BookTypeOK
    <2> QED BY <1>1, <1>2, <1>3, <1>4, <2>1, <2>2, <2>3, <2>4, MatchDecided
  <1>5. CASE closing[m].to = "SETTLED" /\ EnterResult(m, K, w, p)
    <2>1. matchStatus' = [matchStatus EXCEPT ![m] = closing[m].to]
      BY <1>5 DEF EnterResult
    <2>2. Settle(K, [k \in Market |-> IF k \in WinMarket THEN w ELSE 1])
      BY <1>5 DEF EnterResult
    <2> HIDE DEF K
    <2>3. /\ marketStatus' \in [Market -> MarketStatus]
          /\ stakeStatus' \in [Market -> [User -> [Side -> StakeStatus]]]
          /\ \A k \in Market : /\ k \in K => marketStatus'[k] = "SETTLED"
                               /\ k \notin K => /\ marketStatus'[k] = marketStatus[k]
                                                /\ stakeStatus'[k] = stakeStatus[k]
          /\ \A k \in K, u \in User, s \in Side : stakeStatus'[k][u][s] # "PLACED"
          /\ UNCHANGED <<totalPool, stake>>
      BY <1>3, <2>2, SettleBooks
    <2> QED BY <1>1, <1>2, <1>3, <1>5, <2>1, <2>3, MatchDecided DEF K
  <1>6. CASE closing[m].to = "CANCELLED" /\ CallOff(m, K)
    <2>1. matchStatus' = [matchStatus EXCEPT ![m] = closing[m].to]
      BY <1>6 DEF CallOff
    <2>2. Cancel(K)
      BY <1>6 DEF CallOff
    <2> HIDE DEF K
    <2>3. /\ marketStatus' \in [Market -> MarketStatus]
          /\ stakeStatus' \in [Market -> [User -> [Side -> StakeStatus]]]
          /\ \A k \in Market : /\ k \in K => marketStatus'[k] = "CANCELLED"
                               /\ k \notin K => /\ marketStatus'[k] = marketStatus[k]
                                                /\ stakeStatus'[k] = stakeStatus[k]
          /\ \A k \in K, u \in User, s \in Side : stakeStatus'[k][u][s] # "PLACED"
          /\ UNCHANGED <<totalPool, stake>>
      BY <1>3, <2>2, CancelBooks
    <2> QED BY <1>1, <1>2, <1>3, <1>6, <2>1, <2>3, MatchDecided DEF K
  <1> QED BY <1>4, <1>5, <1>6 DEF CommitClosing

-----------------------------------------------------------------------------
(* The match, its teams and a market at once (/admin betting start). *)
LEMMA ScenarioKeeps ==
  ASSUME TxInv, NEW m \in Match, NEW k \in Market, matchStatus[m] = "NONE",
         marketStatus[k] = "NONE", MatchOf[k] = m,
         matchStatus' = [matchStatus EXCEPT ![m] = "BETTING_OPEN"],
         marketStatus' = [marketStatus EXCEPT ![k] = "OPEN"],
         UNCHANGED <<totalPool, stake, stakeStatus, staking, closing>>
  PROVE  TxInv'
  <1> USE DEF TxInv
  <1>1. \A n \in Match : n # m => matchStatus'[n] = matchStatus[n]
    BY DEF BookTypeOK
  <1>2. \A j \in Market : j # k => marketStatus'[j] = marketStatus[j]
    BY DEF BookTypeOK
  <1>3. matchStatus'[m] = "BETTING_OPEN" /\ marketStatus'[k] = "OPEN"
    BY DEF BookTypeOK
  <1>4. MatchFree(m)
    BY DEF FoundIsStillSo, ClosingFound, AssertTransition, Transition
  <1>5. BookTypeOK'
    BY DEF BookTypeOK, MatchStatus, MarketStatus
  <1>6. FoundIsStillSo'
    <2>1. StakesFound'
      BY <1>1, <1>2, MarketAssumption DEF FoundIsStillSo, StakesFound, AssertOpenForStaking, BookTypeOK
    <2>2. ASSUME NEW n \in Match PROVE MatchFree(n)' \/ ClosingFound(n)'
      <3>1. CASE MatchFree(n)
        BY <3>1 DEF MatchFree
      <3>2. CASE ~ MatchFree(n)
        <4>1. n # m
          BY <3>2, <1>4
        <4>2. closing[n].held \subseteq Market /\ \A j \in closing[n].held : MatchOf[j] = n
          BY <3>2 DEF BookTypeOK, MatchFree, Closing, LocksAreApart
        <4>3. \A j \in Market : MatchOf[j] = n => marketStatus'[j] = marketStatus[j]
          BY <4>1, <1>2
        <4> QED BY <3>2, <4>1, <4>2, <4>3, <1>1, ClosingFoundKept DEF FoundIsStillSo
      <3> QED BY <3>1, <3>2
    <2> QED BY <2>1, <2>2 DEF FoundIsStillSo
  <1>7. LocksAreApart'
    BY DEF LocksAreApart, MatchFree
  <1>8. LateMarketIsEmpty'
    BY <1>1, <1>2, <1>3, MarketAssumption DEF LateMarketIsEmpty
  <1>9. MissedIsEmpty'
    BY <1>2, <1>3 DEF MissedIsEmpty, MatchFree, MarketsIn
  <1>10. PlacedInUnresolved'
    BY <1>2, <1>3 DEF PlacedInUnresolved
  <1>11. NoStrandedStake'
    BY <1>1, <1>3, MarketAssumption DEF NoStrandedStake
  <1> QED BY <1>5, <1>6, <1>7, <1>8, <1>9, <1>10, <1>11

(* A transaction with one lock. *)
LEMMA SingleStepKeeps ==
  ASSUME TxInv, SingleStep
  PROVE  TxInv'
  <1> USE DEF matchVars, marketVars, stakeVars
  <1>1. staking' = staking /\ closing' = closing /\ BookTypeOK
    BY DEF SingleStep, TxInv
  <1>2. ASSUME UNCHANGED <<matchStatus, marketStatus, totalPool, stake, stakeStatus>> PROVE TxInv'
    BY <1>1, <1>2, SameBooks DEF BookTypeOK
  <1>3. ASSUME NEW m \in Match, CreateMatch(m) PROVE TxInv'
    <2>1. matchStatus[m] = "NONE"
      BY <1>3 DEF CreateMatch, MatchExists
    <2>2. MatchFree(m)
      BY <2>1 DEF TxInv, FoundIsStillSo, ClosingFound, AssertTransition, Transition
    <2> QED BY <1>1, <1>3, <2>1, <2>2, MatchOpens DEF CreateMatch
  <1>4. ASSUME NEW m \in Match, MatchFree(m), OpenBetting(m) PROVE TxInv'
    <2>1. matchStatus[m] = "DRAFT"
      BY <1>1, <1>4 DEF OpenBetting, AssertTransition, Transition, BookTypeOK, MatchStatus
    <2> QED BY <1>1, <1>4, <2>1, MatchOpens DEF OpenBetting
  <1>5. ASSUME NEW m \in Match, NEW t \in Team, CreateTeam(m, t) PROVE TxInv'
    BY <1>2, <1>5 DEF CreateTeam
  <1>6. ASSUME NEW m \in Match, NEW T \in SUBSET Team, NEW k \in Market,
               CreateBettingScenario(m, T, k)
        PROVE  TxInv'
    <2>1. matchStatus[m] = "NONE" /\ marketStatus[k] = "NONE" /\ MatchOf[k] = m
      BY <1>6 DEF CreateBettingScenario, MatchExists
    <2>2. /\ matchStatus' = [matchStatus EXCEPT ![m] = "BETTING_OPEN"]
          /\ marketStatus' = [marketStatus EXCEPT ![k] = "OPEN"]
          /\ UNCHANGED <<totalPool, stake, stakeStatus>>
      BY <1>6 DEF CreateBettingScenario
    <2> QED BY <1>1, <2>1, <2>2, ScenarioKeeps
  <1>7. ASSUME NEW k \in Market, CheckNoMarket(k) PROVE TxInv'
    BY <1>1, <1>7, MarketOpens DEF CheckNoMarket
  <1>8. ASSUME NEW k \in Market, MatchFree(MatchOf[k]), InsertMarket(k) PROVE TxInv'
    BY <1>1, <1>8, MarketOpens DEF InsertMarket
  <1>9. ASSUME NEW k \in Market, MarketFree(k), LockMarket(k) PROVE TxInv'
    BY <1>1, <1>9, MarketCloses DEF LockMarket, BookTypeOK
  <1>10. ASSUME NEW k \in Market, MarketFree(k), CancelMarket(k) PROVE TxInv'
    <2>1. Cancel({k}) /\ matchStatus' = matchStatus /\ marketStatus[k] \in {"OPEN", "LOCKED"}
      BY <1>10 DEF CancelMarket
    <2>2. marketStatus' = [marketStatus EXCEPT ![k] = "CANCELLED"]
      BY <1>1, <2>1 DEF Cancel, BookTypeOK
    <2>3. /\ stakeStatus' \in [Market -> [User -> [Side -> StakeStatus]]]
          /\ \A j \in Market : j # k => stakeStatus'[j] = stakeStatus[j]
          /\ \A u \in User, s \in Side : stakeStatus'[k][u][s] # "PLACED"
          /\ UNCHANGED <<totalPool, stake>>
      BY <1>1, <2>1, CancelBooks
    <2> QED BY <1>1, <1>10, <2>1, <2>2, <2>3, MarketCloses
  <1>11. ASSUME NEW k \in Market, NEW s \in Side, MarketFree(k), SettleMarket(k, s) PROVE TxInv'
    <2> DEFINE opt == [j \in {k} |-> s]
    <2>1. Settle({k}, opt) /\ matchStatus' = matchStatus
      BY <1>11 DEF SettleMarket
    <2> HIDE DEF opt
    <2>2. marketStatus' = [marketStatus EXCEPT ![k] = "SETTLED"] /\ marketStatus[k] = "LOCKED"
      BY <1>1, <2>1 DEF Settle, BookTypeOK
    <2>3. /\ stakeStatus' \in [Market -> [User -> [Side -> StakeStatus]]]
          /\ \A j \in Market : j # k => stakeStatus'[j] = stakeStatus[j]
          /\ \A u \in User, t \in Side : stakeStatus'[k][u][t] # "PLACED"
          /\ UNCHANGED <<totalPool, stake>>
      <3> DEFINE K == {k}
      <3>1. K \in SUBSET Market /\ k \in K /\ (\A j \in Market : j # k => j \notin K)
        OBVIOUS
      <3>2. Settle(K, opt)
        BY <2>1
      <3> HIDE DEF K
      <3> QED BY <1>1, <3>1, <3>2, SettleBooks
    <2> QED BY <1>1, <1>11, <2>1, <2>2, <2>3, MarketCloses
  <1>12. ASSUME OtherRequest PROVE TxInv'
    BY <1>2, <1>12 DEF bettingVars, OtherRequest
  <1> QED BY <1>3, <1>4, <1>5, <1>6, <1>7, <1>8, <1>9, <1>10, <1>11, <1>12
          DEF SingleStep, MayRefer

(* A stake that is rolled back keeps it. *)
LEMMA RollBackStakeKeeps ==
  ASSUME TxInv, NEW k \in Market, RollBackStake(k)
  PROVE  TxInv'
  <1>1. UNCHANGED <<matchStatus, marketStatus, totalPool, stake, stakeStatus, closing>>
    BY DEF RollBackStake, vars, bettingVars, matchVars, marketVars, stakeVars
  <1>2. staking' \subseteq staking
    BY DEF RollBackStake
  <1> QED BY <1>1, <1>2, SameBooks DEF TxInv, BookTypeOK

(* So does a closing transaction that is rolled back. *)
LEMMA RollBackClosingKeeps ==
  ASSUME TxInv, NEW m \in Match, RollBackClosing(m)
  PROVE  TxInv'
  <1>1. UNCHANGED <<matchStatus, marketStatus, totalPool, stake, stakeStatus, staking>>
    BY DEF RollBackClosing, vars, bettingVars, matchVars, marketVars, stakeVars
  <1>2. closing' = [closing EXCEPT ![m] = None] /\ closing \in [Match -> Closing \cup {None}]
    BY DEF RollBackClosing, TxInv, BookTypeOK
  <1> QED BY <1>1, <1>2, SameBooks

(* Every step keeps the invariant. *)
LEMMA TxNextInv == TxInv /\ [TxNext]_txVars => TxInv'
  <1> SUFFICES ASSUME TxInv, [TxNext]_txVars PROVE TxInv'
    OBVIOUS
  <1>1. CASE SingleStep
    BY <1>1, SingleStepKeeps
  <1>2. ASSUME NEW k \in Market, BeginStake(k) \/ RollBackStake(k) PROVE TxInv'
    BY <1>2, BeginStakeKeeps, RollBackStakeKeeps
  <1>3. ASSUME NEW k \in Market, NEW u \in User, NEW s \in Side, NEW amt \in StakeAmount,
               CommitStake(k, u, s, amt)
        PROVE  TxInv'
    BY <1>3, CommitStakeKeeps
  <1>4. ASSUME NEW m \in Match, NEW to \in MatchStatus \ {"NONE", "DRAFT", "BETTING_OPEN"},
               BeginClosing(m, to)
        PROVE  TxInv'
    <2>1. to \in {"LOCKED", "SETTLED", "CANCELLED"}
      BY DEF MatchStatus
    <2> QED BY <1>4, <2>1, BeginClosingKeeps
  <1>5. ASSUME NEW m \in Match, NEW k \in Market, LockNext(m, k) PROVE TxInv'
    BY <1>5, LockNextKeeps
  <1>6. ASSUME NEW m \in Match, NEW w \in Team, NEW p \in Placements \cup {None},
               CommitClosing(m, w, p)
        PROVE  TxInv'
    BY <1>6, CommitClosingKeeps
  <1>7. ASSUME NEW m \in Match, RollBackClosing(m) PROVE TxInv'
    BY <1>7, RollBackClosingKeeps
  <1>8. CASE UNCHANGED txVars
    <2>1. UNCHANGED <<matchStatus, marketStatus, totalPool, stake, stakeStatus, staking, closing>>
      BY <1>8 DEF txVars, vars, bettingVars, matchVars, marketVars, stakeVars
    <2> QED BY <2>1, SameBooks DEF TxInv, BookTypeOK
  <1> QED BY <1>1, <1>2, <1>3, <1>4, <1>5, <1>6, <1>7, <1>8 DEF TxNext

-----------------------------------------------------------------------------

(* The invariant of the transactions and their locks holds in every state. *)
THEOREM TxInvariant == TxSpec => []TxInv
  BY TxInitInv, TxNextInv, PTL DEF TxSpec

(* A stake that found market and match open (betting.service.ts:160), and a       *)
(* transaction that found the markets of its match (match.service.ts:221, 283,    *)
(* 342), find them so until they commit, although they do not look again.         *)
THEOREM WhatWasFoundHolds == TxSpec => []FoundIsStillSo
  <1>1. TxInv => FoundIsStillSo
    BY DEF TxInv
  <1> QED BY <1>1, TxInvariant, PTL

(* A market that is created or left open after betting closed never takes a stake  *)
(* (createMarket asks for no state of the match, betting.service.ts:63).           *)
THEOREM LateMarketsStayEmpty == TxSpec => []LateMarketIsEmpty
  <1>1. TxInv => LateMarketIsEmpty
    BY DEF TxInv
  <1> QED BY <1>1, TxInvariant, PTL

(* No stake of a settled or cancelled match waits for a result, although settleMatch *)
(* skips the markets that are not locked (match.service.ts:284).                     *)
THEOREM NoStakeStranded == TxSpec => []NoStrandedStake
  <1>1. TxInv => NoStrandedStake
    BY DEF TxInv
  <1> QED BY <1>1, TxInvariant, PTL

-----------------------------------------------------------------------------
(* A step changes stakes and pool of an open market of an open match at most, and    *)
(* lowers no stake.                                                                  *)
BookStep ==
  \A k \in Market :
    /\ ~ AssertOpenForStaking(k) => stake'[k] = stake[k] /\ totalPool'[k] = totalPool[k]
    /\ \A u \in User, s \in Side : stake'[k][u][s] >= stake[k][u][s]

(* Every step is one that BookCloses allows. *)
LEMMA TxNextBook == TxInv /\ [TxNext]_txVars => BookStep
  <1> SUFFICES ASSUME TxInv, [TxNext]_txVars PROVE BookStep
    OBVIOUS
  <1> USE DEF vars, bettingVars, matchVars, marketVars, stakeVars
  <1>1. BookTypeOK
    BY DEF TxInv
  <1>2. ASSUME UNCHANGED <<stake, totalPool>> PROVE BookStep
    <2>1. \A k \in Market, u \in User, s \in Side : stake[k][u][s] \in Nat
      BY <1>1 DEF BookTypeOK
    <2> QED BY <1>2, <2>1 DEF BookStep
  <1>3. CASE SingleStep
    BY <1>2, <1>3 DEF SingleStep, CreateMatch, OpenBetting, CreateTeam, CreateBettingScenario,
       CheckNoMarket, InsertMarket, LockMarket, CancelMarket, Cancel, SettleMarket, Settle, OtherRequest
  <1>4. ASSUME NEW k \in Market, BeginStake(k) \/ RollBackStake(k) PROVE BookStep
    BY <1>2, <1>4 DEF BeginStake, RollBackStake
  <1>5. ASSUME NEW k \in Market, NEW u \in User, NEW s \in Side, NEW amt \in StakeAmount,
               CommitStake(k, u, s, amt)
        PROVE  BookStep
    <2>1. AddStake(k, u, s, amt) /\ AssertOpenForStaking(k)
      BY <1>5 DEF CommitStake, TxInv, FoundIsStillSo, StakesFound
    <2>2. \A j \in Market : j # k => stake'[j] = stake[j] /\ totalPool'[j] = totalPool[j]
      BY <1>1, <2>1, AddStakeAdds
    <2>3. \A v \in User, t \in Side : stake'[k][v][t] >= stake[k][v][t]
      BY <1>1, <2>1, AddStakeAdds
    <2>4. \A j \in Market, v \in User, t \in Side : stake[j][v][t] \in Nat
      BY <1>1 DEF BookTypeOK
    <2> QED BY <2>1, <2>2, <2>3, <2>4 DEF BookStep
  <1>6. ASSUME NEW m \in Match, NEW to, NEW k, BeginClosing(m, to) \/ LockNext(m, k)
        PROVE  BookStep
    BY <1>2, <1>6 DEF BeginClosing, LockNext
  <1>7. ASSUME NEW m \in Match, NEW w, NEW p, CommitClosing(m, w, p) PROVE BookStep
    BY <1>2, <1>7 DEF CommitClosing, CloseBetting, EnterResult, Settle, CallOff, Cancel
  <1>8. ASSUME NEW m \in Match, RollBackClosing(m) PROVE BookStep
    BY <1>2, <1>8 DEF RollBackClosing
  <1>9. CASE UNCHANGED txVars
    BY <1>2, <1>9 DEF txVars
  <1> QED BY <1>3, <1>4, <1>5, <1>6, <1>7, <1>8, <1>9 DEF TxNext

(* The book of a market is closed when its match or the market itself leaves the    *)
(* open state (assertOpenForStaking), whatever stakes were being placed.            *)
THEOREM BookIsClosed == TxSpec => BookCloses
  <1>1. TxInv /\ [TxNext]_txVars => [BookStep]_vars
    BY TxNextBook
  <1>2. [BookStep]_vars => [\A k \in Market :
       /\ ~ AssertOpenForStaking(k) => stake'[k] = stake[k] /\ totalPool'[k] = totalPool[k]
       /\ \A u \in User, s \in Side : stake'[k][u][s] >= stake[k][u][s]]_vars
    BY DEF BookStep
  <1> QED BY <1>1, <1>2, TxInvariant, PTL DEF TxSpec, BookCloses

-----------------------------------------------------------------------------
(* The money of a market: what its pool, its stakes and the ledger say of it. *)

(* Contributions and payouts are numbers. *)
MoneyTypes ==
  /\ paidIn \in [Market -> [User -> Nat]]
  /\ paidOut \in [Market -> [User -> Nat]]

(* Until a market is resolved every stake of it waits. *)
StakesWait ==
  \A k \in Market, u \in User, s \in Side :
    marketStatus[k] \notin {"SETTLED", "CANCELLED"} =>
      stakeStatus[k][u][s] = IF stake[k][u][s] = 0 THEN "NONE" ELSE "PLACED"

BooksInv == MoneyTypes /\ StakesWait /\ PoolMatchesStakes /\ StakesReconcile

(* What a member has staked in a market on all of its sides. *)
StakedBy(k, u) == SumFunctionOnSet(stake[k][u], Side)

(* What a step other than a resolution or a stake leaves alone. *)
SameMoney == UNCHANGED <<totalPool, winningOption, stake, stakeStatus, paidIn, paidOut>>

(* There are finitely many sides. *)
LEMMA SideIsFinite == IsFiniteSet(Side)
  <1>1. IsFiniteSet(Team \cup Foreign)
    BY IdAssumption, FS_Union
  <1>2. IsFiniteSet(1..4)
    <2>1. PICK a \in Int, b \in Int : a = 1 /\ b = 4
      OBVIOUS
    <2>2. IsFiniteSet(a..b)
      BY FS_Interval
    <2> QED BY <2>1, <2>2
  <1>3. IsFiniteSet((Team \cup Foreign) \cup Place)
    BY <1>1, <1>2, FS_Union DEF Place
  <1> QED BY <1>3 DEF Side

(* A member's stakes add up to a natural number, and one of them to no more. *)
LEMMA StakedType ==
  ASSUME BookTypeOK, NEW k \in Market, NEW u \in User
  PROVE  /\ StakedBy(k, u) \in Nat
         /\ \A s \in Side : stake[k][u][s] \in Nat /\ stake[k][u][s] <= StakedBy(k, u)
  <1> DEFINE f == stake[k][u]
  <1>1. \A s \in Side : f[s] \in Nat
    BY DEF BookTypeOK
  <1> HIDE DEF f
  <1>2. SumFunctionOnSet(f, Side) \in Nat
    BY <1>1, SideIsFinite, SumNonNegative
  <1>3. \A s \in Side : f[s] <= SumFunctionOnSet(f, Side)
    BY <1>1, SideIsFinite, SumBoundsPart
  <1> QED BY <1>1, <1>2, <1>3 DEF f, StakedBy

(* Before the first market all books are empty. *)
LEMMA BooksInitInv == TxInit => BooksInv
  <1> SUFFICES ASSUME TxInit PROVE BooksInv
    OBVIOUS
  <1> USE DEF TxInit, BettingInit
  <1>1. MoneyTypes /\ StakesWait
    BY DEF MoneyTypes, StakesWait
  <1>2. ASSUME NEW k \in Market, NEW u \in User PROVE SumFunctionOnSet(stake[k][u], Side) = 0
    <2> DEFINE f == stake[k][u]
    <2>1. \A s \in Side : f[s] = 0
      OBVIOUS
    <2> HIDE DEF f
    <2>2. SumFunctionOnSet(f, Side) = 0
      BY <2>1, SideIsFinite, SumOfZeros
    <2> QED BY <2>2 DEF f
  <1>3. PoolMatchesStakes
    <2> SUFFICES ASSUME NEW k \in Market
                 PROVE  totalPool[k] =
                   SumFunctionOnSet([u \in User |-> SumFunctionOnSet(stake[k][u], Side)], User)
      BY DEF PoolMatchesStakes
    <2> DEFINE g == [u \in User |-> SumFunctionOnSet(stake[k][u], Side)]
    <2>1. \A u \in User : g[u] = 0
      BY <1>2
    <2> HIDE DEF g
    <2>2. SumFunctionOnSet(g, User) = 0
      BY <2>1, UserAssumption, SumOfZeros
    <2> QED BY <2>2 DEF g
  <1>4. StakesReconcile
    BY <1>2 DEF StakesReconcile
  <1> QED BY <1>1, <1>3, <1>4 DEF BooksInv

(* Markets open and close, and whatever leaves the money alone keeps the books. *)
LEMMA SameMoneyKeepsBooks ==
  ASSUME BookTypeOK, BooksInv, SameMoney,
         \A k \in Market :
           \/ marketStatus'[k] = marketStatus[k]
           \/ /\ marketStatus[k] \notin {"SETTLED", "CANCELLED"}
              /\ marketStatus'[k] \notin {"SETTLED", "CANCELLED"}
  PROVE  BooksInv'
  <1> USE DEF BooksInv, SameMoney
  <1>1. MoneyTypes' /\ StakesWait' /\ PoolMatchesStakes'
    BY DEF MoneyTypes, StakesWait, PoolMatchesStakes
  <1>2. StakesReconcile'
    <2> SUFFICES ASSUME NEW k \in Market, NEW u \in User
                 PROVE  /\ paidIn[k][u] = SumFunctionOnSet(stake[k][u], Side)
                        /\ paidOut[k][u] = CASE marketStatus'[k] = "CANCELLED" -> paidIn[k][u]
                                             [] marketStatus'[k] = "SETTLED" ->
                                                  Minted(k, winningOption[k], u)
                                             [] OTHER -> 0
      BY DEF StakesReconcile, Minted, Payout, PoolAfterRake, RakeAmount, WinningPool, StakesOn
    <2>1. /\ paidIn[k][u] = SumFunctionOnSet(stake[k][u], Side)
          /\ paidOut[k][u] = CASE marketStatus[k] = "CANCELLED" -> paidIn[k][u]
                               [] marketStatus[k] = "SETTLED" -> Minted(k, winningOption[k], u)
                               [] OTHER -> 0
      BY DEF StakesReconcile
    <2>2. CASE marketStatus'[k] = marketStatus[k]
      BY <2>1, <2>2
    <2>3. CASE /\ marketStatus[k] \notin {"SETTLED", "CANCELLED"}
               /\ marketStatus'[k] \notin {"SETTLED", "CANCELLED"}
      BY <2>1, <2>3
    <2> QED BY <2>2, <2>3
  <1> QED BY <1>1, <1>2

(* A stake is recorded alike in the member's row, in the pool and in the ledger. *)
LEMMA StakeKeepsBooks ==
  ASSUME BookTypeOK, BooksInv, NEW k \in Market, NEW u \in User, NEW s \in Side,
         NEW amt \in StakeAmount, AddStake(k, u, s, amt), marketStatus[k] = "OPEN"
  PROVE  BooksInv' /\ paidIn'[k][u] > paidIn[k][u]
  <1> USE DEF BooksInv
  <1>1. amt \in Nat /\ amt > 0
    BY StakeAmountAssumption DEF AddStake
  <1>2. /\ stake' = [stake EXCEPT ![k][u][s] = stake[k][u][s] + amt]
        /\ stakeStatus' = [stakeStatus EXCEPT ![k][u][s] =
             IF stakeStatus[k][u][s] = "NONE" THEN "PLACED" ELSE stakeStatus[k][u][s]]
        /\ totalPool' = [totalPool EXCEPT ![k] = totalPool[k] + amt]
        /\ paidIn' = [paidIn EXCEPT ![k][u] = paidIn[k][u] + amt]
        /\ UNCHANGED <<marketStatus, winningOption, paidOut>>
    BY DEF AddStake
  <1>3. /\ \A v \in User : paidIn[k][v] \in Nat
        /\ \A v \in User : paidIn'[k][v] = IF v = u THEN paidIn[k][u] + amt ELSE paidIn[k][v]
        /\ \A j \in Market : j # k => paidIn'[j] = paidIn[j]
    BY <1>2 DEF MoneyTypes
  <1>4. /\ \A j \in Market : j # k => stake'[j] = stake[j] /\ stakeStatus'[j] = stakeStatus[j]
        /\ \A v \in User : v # u => stake'[k][v] = stake[k][v] /\ stakeStatus'[k][v] = stakeStatus[k][v]
    BY <1>2 DEF BookTypeOK
  <1>5. /\ stake[k][u] \in [Side -> Nat]
        /\ stake'[k][u] = [stake[k][u] EXCEPT ![s] = stake[k][u][s] + amt]
    BY <1>2 DEF BookTypeOK
  <1>6. MoneyTypes'
    BY <1>1, <1>2 DEF MoneyTypes
  <1>7. StakesWait'
    <2>1. stakeStatus[k][u] \in [Side -> StakeStatus]
      BY DEF BookTypeOK
    <2>2. stakeStatus'[k][u] = [stakeStatus[k][u] EXCEPT ![s] =
            IF stakeStatus[k][u][s] = "NONE" THEN "PLACED" ELSE stakeStatus[k][u][s]]
      BY <1>2 DEF BookTypeOK
    <2> SUFFICES ASSUME NEW j \in Market, NEW v \in User, NEW t \in Side,
                        marketStatus[j] \notin {"SETTLED", "CANCELLED"}
                 PROVE  stakeStatus'[j][v][t] = IF stake'[j][v][t] = 0 THEN "NONE" ELSE "PLACED"
      BY <1>2 DEF StakesWait
    <2>3. stakeStatus[j][v][t] = IF stake[j][v][t] = 0 THEN "NONE" ELSE "PLACED"
      BY DEF StakesWait
    <2>4. CASE j # k \/ v # u
      BY <2>3, <2>4, <1>4
    <2>5. CASE j = k /\ v = u /\ t # s
      BY <2>1, <2>2, <2>3, <2>5, <1>5
    <2>6. CASE j = k /\ v = u /\ t = s
      <3>1. stakeStatus'[k][u][s] = "PLACED"
        BY <2>1, <2>2, <2>3, <2>6
      <3>2. stake'[k][u][s] = stake[k][u][s] + amt /\ stake[k][u][s] \in Nat
        BY <1>5
      <3> QED BY <3>1, <3>2, <1>1, <2>6
    <2> QED BY <2>4, <2>5, <2>6
  <1>8. /\ SumFunctionOnSet(stake'[k][u], Side) = StakedBy(k, u) + amt
        /\ \A v \in User : v # u => SumFunctionOnSet(stake'[k][v], Side) = StakedBy(k, v)
        /\ \A j \in Market, v \in User : j # k => SumFunctionOnSet(stake'[j][v], Side) = StakedBy(j, v)
    <2>1. PICK f, g : f = stake[k][u] /\ g = stake'[k][u]
      OBVIOUS
    <2>2. /\ \A t \in Side : f[t] \in Int /\ g[t] \in Int
          /\ \A t \in Side \ {s} : g[t] = f[t]
          /\ g[s] = f[s] + amt
      BY <2>1, <1>1, <1>5
    <2>3. SumFunctionOnSet(g, Side) = SumFunctionOnSet(f, Side) + (g[s] - f[s])
      BY <2>2, SideIsFinite, SumUpdate
    <2>4. g[s] - f[s] = amt
      BY <2>2, <1>1
    <2>5. SumFunctionOnSet(g, Side) = SumFunctionOnSet(f, Side) + amt
      BY <2>3, <2>4
    <2> QED BY <2>1, <2>5, <1>4 DEF StakedBy
  <1>9. PoolMatchesStakes'
    <2> SUFFICES ASSUME NEW j \in Market
                 PROVE  totalPool'[j] =
                   SumFunctionOnSet([v \in User |-> SumFunctionOnSet(stake'[j][v], Side)], User)
      BY DEF PoolMatchesStakes
    <2>1. PICK f, g : /\ f = [v \in User |-> SumFunctionOnSet(stake[j][v], Side)]
                      /\ g = [v \in User |-> SumFunctionOnSet(stake'[j][v], Side)]
      OBVIOUS
    <2>2. totalPool[j] = SumFunctionOnSet(f, User)
      BY <2>1 DEF PoolMatchesStakes
    <2>3. \A v \in User : f[v] \in Int
      BY <2>1, StakedType DEF StakedBy
    <2>4. CASE j # k
      <3>1. \A v \in User : f[v] = g[v]
        BY <2>1, <2>4, <1>8 DEF StakedBy
      <3>2. SumFunctionOnSet(f, User) = SumFunctionOnSet(g, User)
        BY <3>1, UserAssumption, SumCong
      <3>3. totalPool'[j] = totalPool[j]
        BY <2>4, <1>2 DEF BookTypeOK
      <3> QED BY <2>1, <2>2, <3>2, <3>3
    <2>5. CASE j = k
      <3>1. g[u] = f[u] + amt /\ \A v \in User \ {u} : g[v] = f[v]
        BY <2>1, <2>5, <1>8 DEF StakedBy
      <3>2. \A v \in User : g[v] \in Int
        BY <2>3, <3>1, <1>1
      <3>3. SumFunctionOnSet(g, User) = SumFunctionOnSet(f, User) + (g[u] - f[u])
        BY <2>3, <3>1, <3>2, UserAssumption, SumUpdate
      <3>4. g[u] - f[u] = amt
        BY <2>3, <3>1, <1>1
      <3>5. totalPool'[j] = totalPool[j] + amt
        BY <2>5, <1>2 DEF BookTypeOK
      <3> QED BY <2>1, <2>2, <3>3, <3>4, <3>5
    <2> QED BY <2>4, <2>5
  <1>10. StakesReconcile'
    <2> SUFFICES ASSUME NEW j \in Market, NEW v \in User
                 PROVE  (/\ paidIn[j][v] = SumFunctionOnSet(stake[j][v], Side)
                         /\ paidOut[j][v] = CASE marketStatus[j] = "CANCELLED" -> paidIn[j][v]
                                              [] marketStatus[j] = "SETTLED" ->
                                                   Minted(j, winningOption[j], v)
                                              [] OTHER -> 0)'
      BY DEF StakesReconcile
    <2>1. /\ paidIn[j][v] = SumFunctionOnSet(stake[j][v], Side)
          /\ paidOut[j][v] = CASE marketStatus[j] = "CANCELLED" -> paidIn[j][v]
                               [] marketStatus[j] = "SETTLED" -> Minted(j, winningOption[j], v)
                               [] OTHER -> 0
      BY DEF StakesReconcile
    <2>2. paidIn'[j][v] = SumFunctionOnSet(stake'[j][v], Side)
      BY <2>1, <1>3, <1>8 DEF StakedBy
    <2>3. CASE j = k
      BY <2>1, <2>2, <2>3, <1>2
    <2>4. CASE j # k
      <3>1. paidIn'[j] = paidIn[j] /\ stake'[j] = stake[j] /\ totalPool'[j] = totalPool[j]
        BY <2>4, <1>2, <1>3, <1>4 DEF BookTypeOK
      <3>2. Minted(j, winningOption[j], v)' = Minted(j, winningOption[j], v)
        BY <3>1, <1>2 DEF Minted, Payout, PoolAfterRake, RakeAmount, WinningPool, StakesOn
      <3> QED BY <2>1, <2>2, <3>1, <3>2, <1>2
    <2> QED BY <2>3, <2>4
  <1> QED BY <1>1, <1>3, <1>6, <1>7, <1>9, <1>10

-----------------------------------------------------------------------------
(* Division with truncation: a share of a positive amount is at most in proportion, *)
(* one of a negative amount is not positive, and one without a stake is nothing.    *)
LEMMA ShareBound ==
  ASSUME NEW a \in Nat, NEW p \in Int, NEW w \in Nat, w > 0
  PROVE  /\ BigDiv(a * p, w) \in Int
         /\ BigDiv(a * p, w) > 0 => p > 0 /\ w * BigDiv(a * p, w) <= p * a
         /\ a = 0 => BigDiv(a * p, w) = 0
  <1>1. PICK c \in Int : c = a * p
    OBVIOUS
  <1>2. CASE c >= 0
    <2>1. c \in Nat /\ c \div w \in Nat /\ w * (c \div w) <= c
      BY <1>2
    <2>2. BigDiv(c, w) = c \div w
      BY <1>2 DEF BigDiv
    <2>3. a = 0 => c = 0
      BY <1>1
    <2>4. c = 0 => c \div w = 0
      OBVIOUS
    <2>5. c \div w > 0 => p > 0
      <3> SUFFICES ASSUME c \div w > 0, p <= 0 PROVE FALSE
        OBVIOUS
      <3>1. a * p <= 0
        OBVIOUS
      <3>2. c = 0
        BY <1>1, <1>2, <3>1
      <3> QED BY <2>4, <3>2
    <2>6. c = p * a
      BY <1>1
    <2> QED BY <1>1, <2>1, <2>2, <2>3, <2>4, <2>5, <2>6
  <1>3. CASE c < 0
    <2>1. PICK d \in Nat : d = -c
      BY <1>3
    <2>2. d \div w \in Nat
      OBVIOUS
    <2>3. BigDiv(c, w) = -(d \div w)
      BY <1>3, <2>1 DEF BigDiv
    <2>4. a # 0
      BY <1>1, <1>3
    <2> QED BY <1>1, <2>2, <2>3, <2>4
  <1> QED BY <1>2, <1>3

(* A pool without its rake is at most the pool, however high the rake. *)
LEMMA RakeBound ==
  ASSUME NEW k \in Market, totalPool[k] \in Nat
  PROVE  PoolAfterRake(k) \in Int /\ PoolAfterRake(k) <= totalPool[k]
  <1>1. PICK t \in Nat, r \in Nat : t = totalPool[k] /\ r = RakeBps[k]
    BY RakeAssumption
  <1>2. t * r \in Nat
    OBVIOUS
  <1>3. PICK c \in Nat : c = t * r
    BY <1>2
  <1>4. BigDiv(c, 10000) \in Nat
    BY DEF BigDiv
  <1>5. PoolAfterRake(k) = t - BigDiv(c, 10000)
    BY <1>1, <1>3 DEF PoolAfterRake, RakeAmount
  <1> QED BY <1>1, <1>4, <1>5

(* The pool of a market is the sum of what its members paid. *)
LEMMA PoolIsPaidIn ==
  ASSUME BookTypeOK, BooksInv, NEW k \in Market
  PROVE  totalPool[k] \in Nat /\ totalPool[k] = SumFunctionOnSet(paidIn[k], User)
  <1>1. PICK f, g : /\ f = [u \in User |-> SumFunctionOnSet(stake[k][u], Side)]
                    /\ g = paidIn[k]
    OBVIOUS
  <1>2. \A u \in User : g[u] = f[u] /\ g[u] \in Nat
    BY <1>1 DEF BooksInv, StakesReconcile, MoneyTypes
  <1>3. SumFunctionOnSet(g, User) = SumFunctionOnSet(f, User)
    BY <1>2, UserAssumption, SumCong
  <1>4. SumFunctionOnSet(g, User) \in Nat
    BY <1>2, UserAssumption, SumNonNegative
  <1>5. totalPool[k] = SumFunctionOnSet(f, User)
    BY <1>1 DEF BooksInv, PoolMatchesStakes
  <1> QED BY <1>1, <1>3, <1>4, <1>5

(* A settlement pays nothing to who staked nothing, never takes points, and pays all *)
(* winners together no more than the pool.                                           *)
LEMMA MintedWithinPool ==
  ASSUME BookTypeOK, BooksInv, NEW k \in Market, NEW o \in Side
  PROVE  /\ \A u \in User : Minted(k, o, u) \in Nat /\ (paidIn[k][u] = 0 => Minted(k, o, u) = 0)
         /\ SumFunctionOnSet([u \in User |-> Minted(k, o, u)], User) <= totalPool[k]
  <1>1. totalPool[k] \in Nat
    BY PoolIsPaidIn
  <1>2. PICK p \in Int, t \in Nat : p = PoolAfterRake(k) /\ t = totalPool[k] /\ p <= t
    BY <1>1, RakeBound
  <1>3. PICK f, g : f = StakesOn(k, o) /\ g = [u \in User |-> Minted(k, o, u)]
    OBVIOUS
  <1>4. \A u \in User : f[u] = stake[k][u][o] /\ f[u] \in Nat
    BY <1>3 DEF StakesOn, BookTypeOK
  <1>5. SumFunctionOnSet(f, User) \in Nat
    BY <1>4, UserAssumption, SumNonNegative
  <1>6. PICK w \in Nat : w = SumFunctionOnSet(f, User) /\ w = WinningPool(k, o)
    BY <1>3, <1>5 DEF WinningPool
  <1>7. \A u \in User : Minted(k, o, u) =
          IF w > 0 /\ BigDiv(f[u] * p, w) > 0 THEN BigDiv(f[u] * p, w) ELSE 0
    BY <1>2, <1>4, <1>6 DEF Minted, Payout
  <1>8. \A u \in User : /\ g[u] \in Nat
                        /\ g[u] > 0 => w > 0 /\ p > 0 /\ w * g[u] <= p * f[u]
                        /\ f[u] = 0 => g[u] = 0
    <2> SUFFICES ASSUME NEW u \in User
                 PROVE  /\ g[u] \in Nat
                        /\ g[u] > 0 => w > 0 /\ p > 0 /\ w * g[u] <= p * f[u]
                        /\ f[u] = 0 => g[u] = 0
      OBVIOUS
    <2>1. PICK a \in Nat : a = f[u]
      BY <1>4
    <2>2. g[u] = IF w > 0 /\ BigDiv(a * p, w) > 0 THEN BigDiv(a * p, w) ELSE 0
      BY <1>3, <1>7, <2>1
    <2>3. CASE w = 0
      BY <2>2, <2>3
    <2>4. CASE w > 0
      <3>1. /\ BigDiv(a * p, w) \in Int
            /\ BigDiv(a * p, w) > 0 => p > 0 /\ w * BigDiv(a * p, w) <= p * a
            /\ a = 0 => BigDiv(a * p, w) = 0
        BY <2>4, ShareBound
      <3>2. PICK b \in Int : b = BigDiv(a * p, w)
        BY <3>1
      <3>3. b > 0 => p > 0 /\ w * b <= p * a
        BY <3>1, <3>2
      <3>4. g[u] = IF b > 0 THEN b ELSE 0
        BY <2>2, <2>4, <3>2
      <3> QED BY <2>1, <2>4, <3>1, <3>2, <3>3, <3>4
    <2> QED BY <2>3, <2>4
  <1>9. \A u \in User : paidIn[k][u] = 0 => g[u] = 0
    <2> SUFFICES ASSUME NEW u \in User, paidIn[k][u] = 0 PROVE g[u] = 0
      OBVIOUS
    <2>1. StakedBy(k, u) = 0
      BY DEF BooksInv, StakesReconcile, StakedBy
    <2>2. f[u] \in Nat /\ f[u] <= StakedBy(k, u)
      BY <1>4, StakedType
    <2> QED BY <2>1, <2>2, <1>8
  <1>10. SumFunctionOnSet(g, User) <= t
    <2>1. CASE \A u \in User : g[u] = 0
      <3>1. SumFunctionOnSet(g, User) = 0
        BY <2>1, UserAssumption, SumOfZeros
      <3> QED BY <3>1
    <2>2. CASE \E u \in User : g[u] # 0
      <3>1. w > 0 /\ p > 0
        BY <2>2, <1>8
      <3>2. \A u \in User : f[u] \in Nat /\ g[u] \in Nat /\ w * g[u] <= p * f[u]
        <4> SUFFICES ASSUME NEW u \in User PROVE w * g[u] <= p * f[u]
          BY <1>4, <1>8
        <4>1. CASE g[u] > 0
          BY <4>1, <1>8
        <4>2. CASE g[u] = 0
          <5>1. PICK a \in Nat : a = f[u]
            BY <1>4
          <5>2. p * a >= 0 /\ w * 0 = 0
            BY <3>1
          <5> QED BY <4>2, <5>1, <5>2
        <4> QED BY <4>1, <4>2, <1>8
      <3>3. p \in Nat
        BY <3>1
      <3>4. SumFunctionOnSet(g, User) <= p
        BY <3>1, <3>2, <3>3, <1>6, UserAssumption, SumOfShares
      <3>5. SumFunctionOnSet(g, User) \in Nat
        BY <3>2, UserAssumption, SumNonNegative
      <3> QED BY <3>3, <3>4, <3>5, <1>2
    <2> QED BY <2>1, <2>2
  <1> QED BY <1>2, <1>3, <1>8, <1>9, <1>10

-----------------------------------------------------------------------------
(* What a settlement divides is what its market holds, and what it pays is on record. *)
LEMMA SettleKeepsBooks ==
  ASSUME BookTypeOK, BooksInv, NEW K \in SUBSET Market, NEW opt, \A k \in K : opt[k] \in Side,
         Settle(K, opt)
  PROVE  /\ BooksInv'
         /\ \A k \in K : paidOut'[k] = [u \in User |-> Minted(k, opt[k], u)]
         /\ \A k \in Market \ K : paidOut'[k] = paidOut[k]
         /\ paidIn' = paidIn
  <1> USE DEF BooksInv
  <1>1. /\ \A k \in K : marketStatus[k] = "LOCKED"
        /\ marketStatus' = [k \in Market |-> IF k \in K THEN "SETTLED" ELSE marketStatus[k]]
        /\ winningOption' = [k \in Market |-> IF k \in K THEN opt[k] ELSE winningOption[k]]
        /\ paidOut' = [k \in Market |-> IF k \notin K THEN paidOut[k] ELSE
             [u \in User |-> paidOut[k][u] + Minted(k, opt[k], u)]]
        /\ UNCHANGED <<totalPool, stake, paidIn>>
    BY DEF Settle
  <1>2. \A k \in Market : k \notin K => stakeStatus'[k] = stakeStatus[k]
    BY DEF Settle
  <1>3. \A k \in K, u \in User : Minted(k, opt[k], u) \in Nat
    <2> SUFFICES ASSUME NEW k \in K, NEW u \in User PROVE Minted(k, opt[k], u) \in Nat
      OBVIOUS
    <2>1. PICK o \in Side : o = opt[k]
      OBVIOUS
    <2>2. Minted(k, o, u) \in Nat
      BY MintedWithinPool
    <2> QED BY <2>1, <2>2
  <1>4. \A k \in K, u \in User : paidOut[k][u] = 0
    <2> SUFFICES ASSUME NEW k \in K, NEW u \in User PROVE paidOut[k][u] = 0
      OBVIOUS
    <2>1. k \in Market
      OBVIOUS
    <2>2. paidOut[k][u] = CASE marketStatus[k] = "CANCELLED" -> paidIn[k][u]
                            [] marketStatus[k] = "SETTLED" -> Minted(k, winningOption[k], u)
                            [] OTHER -> 0
      BY <2>1 DEF StakesReconcile
    <2> QED BY <1>1, <2>2
  <1>5. \A k \in K, u \in User : 0 + Minted(k, opt[k], u) = Minted(k, opt[k], u)
    <2> SUFFICES ASSUME NEW k \in K, NEW u \in User
                 PROVE  0 + Minted(k, opt[k], u) = Minted(k, opt[k], u)
      OBVIOUS
    <2>1. PICK n \in Nat : n = Minted(k, opt[k], u)
      BY <1>3
    <2> QED BY <2>1
  <1>6. \A k \in K : paidOut'[k] = [u \in User |-> Minted(k, opt[k], u)]
    <2> SUFFICES ASSUME NEW k \in K PROVE paidOut'[k] = [u \in User |-> Minted(k, opt[k], u)]
      OBVIOUS
    <2>1. paidOut'[k] = [u \in User |-> paidOut[k][u] + Minted(k, opt[k], u)]
      BY <1>1
    <2>2. \A u \in User : paidOut[k][u] + Minted(k, opt[k], u) = Minted(k, opt[k], u)
      BY <1>4, <1>5
    <2> QED BY <2>1, <2>2
  <1>7. MoneyTypes'
    <2>1. \A k \in K : paidOut'[k] \in [User -> Nat]
      BY <1>3, <1>6
    <2>2. \A k \in Market \ K : paidOut'[k] = paidOut[k]
      BY <1>1
    <2>3. DOMAIN paidOut' = Market /\ paidOut' = [k \in Market |-> paidOut'[k]]
      BY <1>1
    <2> QED BY <1>1, <2>1, <2>2, <2>3 DEF MoneyTypes
  <1>8. StakesWait'
    BY <1>1, <1>2 DEF StakesWait
  <1>9. PoolMatchesStakes'
    BY <1>1 DEF PoolMatchesStakes
  <1>10. StakesReconcile'
    <2> SUFFICES ASSUME NEW k \in Market, NEW u \in User
                 PROVE  (/\ paidIn[k][u] = SumFunctionOnSet(stake[k][u], Side)
                         /\ paidOut[k][u] = CASE marketStatus[k] = "CANCELLED" -> paidIn[k][u]
                                              [] marketStatus[k] = "SETTLED" ->
                                                   Minted(k, winningOption[k], u)
                                              [] OTHER -> 0)'
      BY DEF StakesReconcile
    <2>1. /\ paidIn[k][u] = SumFunctionOnSet(stake[k][u], Side)
          /\ paidOut[k][u] = CASE marketStatus[k] = "CANCELLED" -> paidIn[k][u]
                               [] marketStatus[k] = "SETTLED" -> Minted(k, winningOption[k], u)
                               [] OTHER -> 0
      BY DEF StakesReconcile
    <2>2. PICK o : o = winningOption'[k]
      OBVIOUS
    <2>3. Minted(k, winningOption[k], u)' = Minted(k, o, u)
      BY <1>1, <2>2 DEF Minted, Payout, PoolAfterRake, RakeAmount, WinningPool, StakesOn
    <2>4. CASE k \in K
      <3>1. marketStatus'[k] = "SETTLED" /\ o = opt[k]
        BY <1>1, <2>2, <2>4
      <3>2. paidOut'[k][u] = Minted(k, o, u)
        BY <1>6, <2>4, <3>1
      <3> QED BY <1>1, <2>1, <2>3, <3>1, <3>2
    <2>5. CASE k \notin K
      <3>1. marketStatus'[k] = marketStatus[k] /\ paidOut'[k] = paidOut[k] /\ o = winningOption[k]
        BY <1>1, <2>2, <2>5
      <3> QED BY <1>1, <2>1, <2>3, <3>1
    <2> QED BY <2>4, <2>5
  <1> QED BY <1>1, <1>6, <1>7, <1>8, <1>9, <1>10

(* A cancellation gives every member what the market still holds of theirs: all, or *)
(* nothing when the market was cancelled before.                                     *)
LEMMA RefundIsAll ==
  ASSUME BookTypeOK, BooksInv, PlacedInUnresolved, NEW k \in Market, NEW u \in User,
         marketStatus[k] \in {"OPEN", "LOCKED", "CANCELLED"}
  PROVE  paidOut[k][u] + RefundTo(k, u) = paidIn[k][u]
  <1> USE DEF BooksInv
  <1>1. paidIn[k][u] \in Nat /\ paidIn[k][u] = StakedBy(k, u)
    BY DEF MoneyTypes, StakesReconcile, StakedBy
  <1>2. PICK f, g : f = stake[k][u] /\ g = [s \in Side |-> Refund(k, u, s)]
    OBVIOUS
  <1>3. \A s \in Side : f[s] \in Nat
    BY <1>2 DEF BookTypeOK
  <1>4. paidOut[k][u] = CASE marketStatus[k] = "CANCELLED" -> paidIn[k][u]
                          [] marketStatus[k] = "SETTLED" -> Minted(k, winningOption[k], u)
                          [] OTHER -> 0
    BY DEF StakesReconcile
  <1>5. CASE marketStatus[k] = "CANCELLED"
    <2>1. \A s \in Side : g[s] = 0
      BY <1>2, <1>5 DEF Refund, PlacedInUnresolved
    <2>2. SumFunctionOnSet(g, Side) = 0
      BY <2>1, SideIsFinite, SumOfZeros
    <2>3. RefundTo(k, u) = 0 /\ paidOut[k][u] = paidIn[k][u]
      BY <1>2, <1>4, <1>5, <2>2 DEF RefundTo
    <2> QED BY <1>1, <2>3
  <1>6. CASE marketStatus[k] \in {"OPEN", "LOCKED"}
    <2>1. \A s \in Side : f[s] = g[s]
      BY <1>2, <1>3, <1>6 DEF Refund, StakesWait
    <2>2. SumFunctionOnSet(f, Side) = SumFunctionOnSet(g, Side)
      BY <2>1, SideIsFinite, SumCong
    <2>3. RefundTo(k, u) = StakedBy(k, u)
      BY <1>2, <2>2 DEF RefundTo, StakedBy
    <2>4. paidOut[k][u] = 0
      BY <1>4, <1>6
    <2> QED BY <1>1, <2>3, <2>4
  <1> QED BY <1>5, <1>6

(* A cancellation refunds each cancelled market exactly what was staked on it, and touches no other book. *)
LEMMA CancelKeepsBooks ==
  ASSUME BookTypeOK, BooksInv, PlacedInUnresolved, NEW K \in SUBSET Market,
         \A k \in K : marketStatus[k] \in {"OPEN", "LOCKED", "CANCELLED"}, Cancel(K)
  PROVE  /\ BooksInv'
         /\ \A k \in K : paidOut'[k] = paidIn[k]
         /\ \A k \in Market \ K : paidOut'[k] = paidOut[k]
         /\ paidIn' = paidIn
  <1> USE DEF BooksInv
  <1>1. /\ marketStatus' = [k \in Market |-> IF k \in K THEN "CANCELLED" ELSE marketStatus[k]]
        /\ paidOut' = [k \in Market |-> IF k \notin K THEN paidOut[k] ELSE
             [u \in User |-> paidOut[k][u] + RefundTo(k, u)]]
        /\ UNCHANGED <<totalPool, winningOption, stake, paidIn>>
    BY DEF Cancel
  <1>2. \A k \in Market : k \notin K => stakeStatus'[k] = stakeStatus[k]
    BY DEF Cancel
  <1>3. \A k \in K : paidOut'[k] = paidIn[k]
    <2> SUFFICES ASSUME NEW k \in K PROVE paidOut'[k] = paidIn[k]
      OBVIOUS
    <2>1. paidOut'[k] = [u \in User |-> paidOut[k][u] + RefundTo(k, u)]
      BY <1>1
    <2>2. \A u \in User : paidOut[k][u] + RefundTo(k, u) = paidIn[k][u]
      BY RefundIsAll
    <2>3. paidIn[k] \in [User -> Nat]
      BY DEF MoneyTypes
    <2> QED BY <2>1, <2>2, <2>3
  <1>4. MoneyTypes'
    BY <1>1, <1>3 DEF MoneyTypes
  <1>5. StakesWait' /\ PoolMatchesStakes'
    BY <1>1, <1>2 DEF StakesWait, PoolMatchesStakes
  <1>6. StakesReconcile'
    <2> SUFFICES ASSUME NEW k \in Market, NEW u \in User
                 PROVE  (/\ paidIn[k][u] = SumFunctionOnSet(stake[k][u], Side)
                         /\ paidOut[k][u] = CASE marketStatus[k] = "CANCELLED" -> paidIn[k][u]
                                              [] marketStatus[k] = "SETTLED" ->
                                                   Minted(k, winningOption[k], u)
                                              [] OTHER -> 0)'
      BY DEF StakesReconcile
    <2>1. /\ paidIn[k][u] = SumFunctionOnSet(stake[k][u], Side)
          /\ paidOut[k][u] = CASE marketStatus[k] = "CANCELLED" -> paidIn[k][u]
                               [] marketStatus[k] = "SETTLED" -> Minted(k, winningOption[k], u)
                               [] OTHER -> 0
      BY DEF StakesReconcile
    <2>2. Minted(k, winningOption[k], u)' = Minted(k, winningOption[k], u)
      BY <1>1 DEF Minted, Payout, PoolAfterRake, RakeAmount, WinningPool, StakesOn
    <2>3. CASE k \in K
      <3>1. marketStatus'[k] = "CANCELLED" /\ paidOut'[k] = paidIn[k]
        BY <1>1, <1>3, <2>3
      <3> QED BY <1>1, <2>1, <3>1
    <2>4. CASE k \notin K
      <3>1. marketStatus'[k] = marketStatus[k] /\ paidOut'[k] = paidOut[k]
        BY <1>1, <2>4
      <3> QED BY <1>1, <2>1, <2>2, <3>1
    <2> QED BY <2>3, <2>4
  <1> QED BY <1>1, <1>3, <1>4, <1>5, <1>6

-----------------------------------------------------------------------------
(* The ways a transaction changes the books. *)
Opens(k, st) ==
  /\ marketStatus[k] \in {"NONE", "CHECKED"} /\ st \in {"CHECKED", "OPEN"}
  /\ marketStatus' = [marketStatus EXCEPT ![k] = st]
  /\ SameMoney

Locks(K) ==
  /\ \A k \in K : marketStatus[k] \in {"OPEN", "LOCKED"}
  /\ marketStatus' = [k \in Market |-> IF k \in K THEN "LOCKED" ELSE marketStatus[k]]
  /\ SameMoney

Stakes(k, u, s, amt) == marketStatus[k] = "OPEN" /\ AddStake(k, u, s, amt)

Settles(K, opt) == (\A k \in K : opt[k] \in Side) /\ Settle(K, opt)

Cancels(K) ==
  /\ \A k \in K : marketStatus[k] \in {"OPEN", "LOCKED", "CANCELLED"}
  /\ Cancel(K)

BooksMove ==
  \/ UNCHANGED marketStatus /\ SameMoney
  \/ \E k \in Market, st \in {"CHECKED", "OPEN"} : Opens(k, st)
  \/ \E K \in SUBSET Market : Locks(K)
  \/ \E k \in Market, u \in User, s \in Side, amt \in StakeAmount : Stakes(k, u, s, amt)
  \/ \E K \in SUBSET Market : \E opt \in [K -> Side] : Settles(K, opt)
  \/ \E K \in SUBSET Market : Cancels(K)

(* A settlement depends on the results of the markets it settles only. *)
LEMMA SettleRestricted ==
  ASSUME NEW K \in SUBSET Market, NEW opt, \A k \in K : opt[k] \in Side, Settle(K, opt)
  PROVE  BooksMove
  <1> DEFINE o == [k \in K |-> opt[k]]
  <1>1. o \in [K -> Side] /\ \A k \in K : o[k] = opt[k]
    OBVIOUS
  <1>2. Settle(K, o)
    <2>1. [u \in User |-> SumFunctionOnSet([k \in K |-> Minted(k, o[k], u)], K)]
            = [u \in User |-> SumFunctionOnSet([k \in K |-> Minted(k, opt[k], u)], K)]
      <3>1. \A u \in User : [k \in K |-> Minted(k, o[k], u)] = [k \in K |-> Minted(k, opt[k], u)]
        BY <1>1
      <3> HIDE DEF o
      <3> QED BY <3>1
    <2> HIDE DEF o
    <2> QED BY <1>1, <2>1 DEF Settle
  <1> HIDE DEF o
  <1> QED BY <1>1, <1>2 DEF BooksMove, Settles

(* Every transaction changes the books in one of these ways, or not at all. *)
LEMMA TxMoves ==
  ASSUME TxInv, [TxNext]_txVars
  PROVE  BooksMove
  <1> USE DEF vars, bettingVars, matchVars, marketVars, stakeVars
  <1>1. BookTypeOK
    BY DEF TxInv
  <1>2. ASSUME UNCHANGED <<marketStatus, totalPool, winningOption, stake, stakeStatus, paidIn, paidOut>>
        PROVE  BooksMove
    BY <1>2 DEF BooksMove, SameMoney
  <1>3. CASE SingleStep
    <2>1. ASSUME NEW m \in Match, CreateMatch(m) \/ OpenBetting(m) PROVE BooksMove
      BY <1>2, <2>1 DEF CreateMatch, OpenBetting
    <2>2. ASSUME NEW m \in Match, NEW t \in Team, CreateTeam(m, t) PROVE BooksMove
      BY <1>2, <2>2 DEF CreateTeam
    <2>3. ASSUME NEW m \in Match, NEW T \in SUBSET Team, NEW k \in Market,
                 CreateBettingScenario(m, T, k)
          PROVE  BooksMove
      <3>1. Opens(k, "OPEN")
        BY <2>3 DEF CreateBettingScenario, Opens, SameMoney
      <3> QED BY <3>1 DEF BooksMove
    <2>4. ASSUME NEW k \in Market, CheckNoMarket(k) PROVE BooksMove
      <3>1. Opens(k, "CHECKED")
        BY <2>4 DEF CheckNoMarket, Opens, SameMoney
      <3> QED BY <3>1 DEF BooksMove
    <2>5. ASSUME NEW k \in Market, InsertMarket(k) PROVE BooksMove
      <3>1. Opens(k, "OPEN")
        BY <2>5 DEF InsertMarket, Opens, SameMoney
      <3> QED BY <3>1 DEF BooksMove
    <2>6. ASSUME NEW k \in Market, LockMarket(k) PROVE BooksMove
      <3>1. Locks({k})
        BY <1>1, <2>6 DEF LockMarket, Locks, SameMoney, BookTypeOK
      <3> QED BY <3>1 DEF BooksMove
    <2>7. ASSUME NEW k \in Market, CancelMarket(k) PROVE BooksMove
      <3>1. Cancels({k})
        BY <2>7 DEF CancelMarket, Cancels
      <3> QED BY <3>1 DEF BooksMove
    <2>8. ASSUME NEW k \in Market, NEW s \in Side, SettleMarket(k, s) PROVE BooksMove
      <3>1. PICK K, opt : K = {k} /\ opt = [j \in {k} |-> s]
        OBVIOUS
      <3>2. Settle(K, opt)
        BY <2>8, <3>1 DEF SettleMarket
      <3>3. K \in SUBSET Market /\ \A j \in K : opt[j] \in Side
        BY <3>1
      <3> QED BY <3>2, <3>3, SettleRestricted
    <2>9. ASSUME OtherRequest PROVE BooksMove
      BY <1>2, <2>9 DEF OtherRequest
    <2> QED BY <1>3, <2>1, <2>2, <2>3, <2>4, <2>5, <2>6, <2>7, <2>8, <2>9 DEF SingleStep
  <1>4. ASSUME NEW k \in Market, BeginStake(k) \/ RollBackStake(k) PROVE BooksMove
    BY <1>2, <1>4 DEF BeginStake, RollBackStake
  <1>5. ASSUME NEW k \in Market, NEW u \in User, NEW s \in Side, NEW amt \in StakeAmount,
               CommitStake(k, u, s, amt)
        PROVE  BooksMove
    <2>1. Stakes(k, u, s, amt)
      BY <1>5 DEF CommitStake, Stakes, TxInv, FoundIsStillSo, StakesFound, AssertOpenForStaking
    <2> QED BY <2>1 DEF BooksMove
  <1>6. ASSUME NEW m \in Match, NEW to, NEW k, BeginClosing(m, to) \/ LockNext(m, k)
        PROVE  BooksMove
    BY <1>2, <1>6 DEF BeginClosing, LockNext
  <1>7. ASSUME NEW m \in Match, NEW w \in Team, NEW p, CommitClosing(m, w, p) PROVE BooksMove
    <2>1. PICK K : K = closing[m].held
      OBVIOUS
    <2>2. /\ K \in SUBSET Market
          /\ \A k \in K : marketStatus[k] \in Expected(closing[m].to)
      BY <1>7, <2>1 DEF CommitClosing, TxInv, BookTypeOK, MatchFree, Closing, FoundIsStillSo,
         ClosingFound
    <2>3. CASE closing[m].to = "LOCKED" /\ CloseBetting(m, K)
      <3>1. Locks(K)
        BY <2>2, <2>3 DEF CloseBetting, Locks, SameMoney, Expected
      <3> QED BY <2>2, <3>1 DEF BooksMove
    <2>4. CASE closing[m].to = "SETTLED" /\ EnterResult(m, K, w, p)
      <3>1. PICK opt : opt = [k \in Market |-> IF k \in WinMarket THEN w ELSE 1]
        OBVIOUS
      <3>2. Settle(K, opt)
        BY <2>4, <3>1 DEF EnterResult
      <3>3. 1 \in Place
        BY DEF Place
      <3>4. \A k \in K : opt[k] \in Side
        BY <2>2, <3>1, <3>3 DEF Side
      <3> QED BY <2>2, <3>2, <3>4, SettleRestricted
    <2>5. CASE closing[m].to = "CANCELLED" /\ CallOff(m, K)
      <3>1. Cancels(K)
        BY <2>2, <2>5 DEF CallOff, Cancels, Expected
      <3> QED BY <2>2, <3>1 DEF BooksMove
    <2> QED BY <1>7, <2>1, <2>3, <2>4, <2>5 DEF CommitClosing
  <1>8. ASSUME NEW m \in Match, RollBackClosing(m) PROVE BooksMove
    BY <1>2, <1>8 DEF RollBackClosing
  <1>9. CASE UNCHANGED txVars
    BY <1>2, <1>9 DEF txVars
  <1> QED BY <1>3, <1>4, <1>5, <1>6, <1>7, <1>8, <1>9 DEF TxNext

(* Every move of the books keeps them right. *)
LEMMA BooksMoveKeeps ==
  ASSUME BookTypeOK, BooksInv, PlacedInUnresolved, BooksMove
  PROVE  BooksInv'
  <1>1. CASE UNCHANGED marketStatus /\ SameMoney
    BY <1>1, SameMoneyKeepsBooks
  <1>2. ASSUME NEW k \in Market, NEW st \in {"CHECKED", "OPEN"}, Opens(k, st) PROVE BooksInv'
    <2>1. SameMoney
      BY <1>2 DEF Opens
    <2>2. \A j \in Market :
            \/ marketStatus'[j] = marketStatus[j]
            \/ /\ marketStatus[j] \notin {"SETTLED", "CANCELLED"}
               /\ marketStatus'[j] \notin {"SETTLED", "CANCELLED"}
      BY <1>2 DEF Opens, BookTypeOK
    <2> QED BY <2>1, <2>2, SameMoneyKeepsBooks
  <1>3. ASSUME NEW K \in SUBSET Market, Locks(K) PROVE BooksInv'
    <2>1. SameMoney
      BY <1>3 DEF Locks
    <2>2. \A j \in Market :
            \/ marketStatus'[j] = marketStatus[j]
            \/ /\ marketStatus[j] \notin {"SETTLED", "CANCELLED"}
               /\ marketStatus'[j] \notin {"SETTLED", "CANCELLED"}
      BY <1>3 DEF Locks, BookTypeOK
    <2> QED BY <2>1, <2>2, SameMoneyKeepsBooks
  <1>4. ASSUME NEW k \in Market, NEW u \in User, NEW s \in Side, NEW amt \in StakeAmount,
               Stakes(k, u, s, amt)
        PROVE  BooksInv'
    BY <1>4, StakeKeepsBooks DEF Stakes
  <1>5. ASSUME NEW K \in SUBSET Market, NEW opt \in [K -> Side], Settles(K, opt) PROVE BooksInv'
    BY <1>5, SettleKeepsBooks DEF Settles
  <1>6. ASSUME NEW K \in SUBSET Market, Cancels(K) PROVE BooksInv'
    BY <1>6, CancelKeepsBooks DEF Cancels
  <1> QED BY <1>1, <1>2, <1>3, <1>4, <1>5, <1>6 DEF BooksMove

(* Pools, stakes and what was paid in and out agree in every state. *)
THEOREM BooksInvariant == TxSpec => []BooksInv
  <1>1. TxInv /\ BooksInv /\ [TxNext]_txVars => BooksInv'
    BY TxMoves, BooksMoveKeeps DEF TxInv
  <1> QED BY <1>1, BooksInitInv, TxInvariant, PTL DEF TxSpec

(* The books of every market agree whatever stakes are being placed when its match is   *)
(* decided: the pool that settleMarket divides (betting.service.ts:270) is the sum of    *)
(* the stakes, the stakes of a member are the points the ledger took for them, and what   *)
(* the ledger paid back is what the resolved stakes say.                                  *)
THEOREM BooksAlwaysReconcile == TxSpec => []BooksReconcile
  <1>1. BooksInv => BooksReconcile
    BY DEF BooksInv, BooksReconcile
  <1> QED BY <1>1, BooksInvariant, PTL

(* A market is settled on one of its sides. *)
ResultIsSide == \A k \in Market : marketStatus[k] = "SETTLED" => winningOption[k] \in Side

LEMMA MoveKeepsResult ==
  ASSUME BookTypeOK, ResultIsSide, BooksMove
  PROVE  ResultIsSide'
  <1>1. ASSUME NEW k \in Market, NEW st \in {"CHECKED", "OPEN"}, Opens(k, st)
        PROVE  ResultIsSide'
    BY <1>1 DEF Opens, SameMoney, ResultIsSide, BookTypeOK
  <1>2. ASSUME NEW K \in SUBSET Market, Locks(K) PROVE ResultIsSide'
    BY <1>2 DEF Locks, SameMoney, ResultIsSide
  <1>3. ASSUME NEW k \in Market, NEW u \in User, NEW s \in Side, NEW amt \in StakeAmount,
               Stakes(k, u, s, amt)
        PROVE  ResultIsSide'
    BY <1>3 DEF Stakes, AddStake, ResultIsSide
  <1>4. ASSUME NEW K \in SUBSET Market, NEW opt \in [K -> Side], Settles(K, opt)
        PROVE  ResultIsSide'
    BY <1>4 DEF Settles, Settle, ResultIsSide
  <1>5. ASSUME NEW K \in SUBSET Market, Cancels(K) PROVE ResultIsSide'
    BY <1>5 DEF Cancels, Cancel, ResultIsSide
  <1>6. CASE UNCHANGED marketStatus /\ SameMoney
    BY <1>6 DEF SameMoney, ResultIsSide
  <1> QED BY <1>1, <1>2, <1>3, <1>4, <1>5, <1>6 DEF BooksMove

(* A share of a pool that is not negative falls short of its proportion by less than one. *)
LEMMA ShareFalls ==
  ASSUME NEW a \in Nat, NEW p \in Nat, NEW w \in Nat, w > 0
  PROVE  /\ BigDiv(a * p, w) \in Nat /\ w * BigDiv(a * p, w) <= p * a
         /\ w * BigDiv(a * p, w) + w > p * a
  <1>1. PICK c \in Nat : c = a * p /\ c = p * a
    OBVIOUS
  <1>2. c \div w \in Nat /\ w * (c \div w) <= c /\ w * (c \div w) + w > c
    OBVIOUS
  <1>3. BigDiv(c, w) = c \div w
    BY DEF BigDiv
  <1> QED BY <1>1, <1>2, <1>3

(* A rake of at most everything leaves something, or nothing. *)
LEMMA RakeLeaves ==
  ASSUME NEW k \in Market, totalPool[k] \in Nat, RakeBps[k] <= 10000
  PROVE  PoolAfterRake(k) \in Nat
  <1>1. PICK t \in Nat, r \in Nat : t = totalPool[k] /\ r = RakeBps[k] /\ r <= 10000
    BY RakeAssumption
  <1>2. PICK c \in Nat : c = t * r
    OBVIOUS
  <1>3. c <= t * 10000
    BY <1>1, <1>2
  <1>4. c \div 10000 \in Nat /\ c \div 10000 <= t
    BY <1>3
  <1>5. BigDiv(c, 10000) = c \div 10000
    BY DEF BigDiv
  <1>6. PoolAfterRake(k) = t - (c \div 10000)
    BY <1>1, <1>2, <1>5 DEF PoolAfterRake, RakeAmount
  <1> QED BY <1>1, <1>4, <1>6

(* What a settled market has paid is what its stakes say, winner by winner. *)
LEMMA PaidInProportion ==
  ASSUME BookTypeOK, BooksInv, NEW k \in Market, NEW o \in Side,
         marketStatus[k] = "SETTLED", winningOption[k] = o, RakeBps[k] <= 10000
  PROVE  /\ PoolAfterRake(k) \in Nat /\ WinningPool(k, o) \in Nat
         /\ \A u \in User :
              /\ stake[k][u][o] \in Nat /\ paidOut[k][u] \in Nat
              /\ WinningPool(k, o) = 0 => paidOut[k][u] = 0
              /\ WinningPool(k, o) > 0 =>
                   /\ WinningPool(k, o) * paidOut[k][u] <= PoolAfterRake(k) * stake[k][u][o]
                   /\ WinningPool(k, o) * paidOut[k][u] + WinningPool(k, o)
                        > PoolAfterRake(k) * stake[k][u][o]
  <1>1. PICK p \in Nat : p = PoolAfterRake(k)
    BY PoolIsPaidIn, RakeLeaves
  <1>2. \A u \in User : StakesOn(k, o)[u] = stake[k][u][o] /\ stake[k][u][o] \in Nat
    BY DEF StakesOn, BookTypeOK
  <1>3. PICK w \in Nat : w = WinningPool(k, o)
    BY <1>2, UserAssumption, SumNonNegative DEF WinningPool
  <1>4. ASSUME NEW u \in User
        PROVE  /\ paidOut[k][u] \in Nat /\ (w = 0 => paidOut[k][u] = 0)
               /\ w > 0 => /\ w * paidOut[k][u] <= p * stake[k][u][o]
                           /\ w * paidOut[k][u] + w > p * stake[k][u][o]
    <2>1. PICK a \in Nat : a = stake[k][u][o]
      BY <1>2
    <2>2. paidOut[k][u] = Minted(k, o, u)
      BY DEF BooksInv, StakesReconcile
    <2>3. Minted(k, o, u) = IF w > 0 /\ BigDiv(a * p, w) > 0 THEN BigDiv(a * p, w) ELSE 0
      BY <1>1, <1>3, <2>1 DEF Minted, Payout
    <2>4. CASE w = 0
      BY <2>2, <2>3, <2>4
    <2>5. CASE w > 0
      <3> DEFINE b == BigDiv(a * p, w)
      <3>1. b \in Nat /\ w * b <= p * a /\ w * b + w > p * a
        BY <2>5, ShareFalls
      <3> HIDE DEF b
      <3>2. paidOut[k][u] = b
        BY <2>2, <2>3, <2>5, <3>1 DEF b
      <3> QED BY <2>1, <2>5, <3>1, <3>2
    <2> QED BY <2>4, <2>5
  <1> QED BY <1>1, <1>2, <1>3, <1>4

(* Users who staked f have the shares g of a pool p, rounded down; w is their stakes. *)
RoundsDown(f, g, p, w) ==
  \A u \in User : /\ f[u] \in Nat /\ g[u] \in Nat
                  /\ w = 0 => g[u] = 0
                  /\ w > 0 => w * g[u] <= p * f[u] /\ w * g[u] + w > p * f[u]

Stakers(f) == {u \in User : f[u] > 0}

(* The shares come to the pool, but for less than a point for each of the users. *)
LEMMA SharesOfPool ==
  ASSUME NEW f, NEW g, NEW p \in Nat, NEW w \in Nat,
         w = SumFunctionOnSet(f, User), RoundsDown(f, g, p, w)
  PROVE  /\ SumFunctionOnSet(g, User) \in Int
         /\ SumFunctionOnSet(g, User) <= p
         /\ w > 0 => p - SumFunctionOnSet(g, User) < Cardinality(Stakers(f))
  <1>1. IsFiniteSet(User)
    BY UserAssumption
  <1>2. SumFunctionOnSet(g, User) \in Int
    <2>1. \A u \in User : g[u] \in Int
      BY DEF RoundsDown
    <2> QED BY <1>1, <2>1, SumType
  <1>3. CASE w = 0
    <2>1. \A u \in User : g[u] = 0
      BY <1>3 DEF RoundsDown
    <2>2. SumFunctionOnSet(g, User) = 0
      BY <1>1, <2>1, SumOfZeros
    <2> QED BY <1>2, <1>3, <2>2
  <1>4. CASE w > 0
    <2>1. \A u \in User : f[u] \in Nat /\ g[u] \in Nat /\ w * g[u] <= p * f[u]
      BY <1>4 DEF RoundsDown
    <2>2. \A u \in User : /\ f[u] \in Nat /\ g[u] \in Nat
                          /\ (f[u] > 0 => w * g[u] + w > p * f[u])
      BY <1>4 DEF RoundsDown
    <2>3. SumFunctionOnSet(g, User) <= p
      BY <1>1, <1>4, <2>1, SumOfShares
    <2>4. p - SumFunctionOnSet(g, User) < Cardinality(Stakers(f))
      BY <1>1, <1>4, <2>2, SumOfRoundedShares DEF Stakers
    <2> QED BY <1>2, <2>3, <2>4
  <1> QED BY <1>3, <1>4

(* The rounding of the shares, summed over the winners. *)
LEMMA SettledIsSolvent == ASSUME BookTypeOK, BooksInv, ResultIsSide PROVE Solvency
  <1> SUFFICES ASSUME NEW k \in Market, marketStatus[k] = "SETTLED", RakeBps[k] <= 10000,
                      NEW o \in Side, o = winningOption[k],
                      NEW W, W = {u \in User : stake[k][u][o] > 0}
               PROVE  /\ Received(k) <= PoolAfterRake(k)
                      /\ WinningPool(k, o) > 0 =>
                           PoolAfterRake(k) - Received(k) < Cardinality(W)
    BY DEF Solvency, ResultIsSide
  <1>1. PoolAfterRake(k) \in Nat /\ WinningPool(k, o) \in Nat
    BY PaidInProportion
  <1>2. RoundsDown(StakesOn(k, o), paidOut[k], PoolAfterRake(k), WinningPool(k, o))
    BY PaidInProportion DEF RoundsDown, StakesOn
  <1>3. W = Stakers(StakesOn(k, o))
    BY DEF Stakers, StakesOn
  <1>4. WinningPool(k, o) = SumFunctionOnSet(StakesOn(k, o), User)
    BY DEF WinningPool
  <1>5. /\ SumFunctionOnSet(paidOut[k], User) <= PoolAfterRake(k)
        /\ WinningPool(k, o) > 0 =>
             PoolAfterRake(k) - SumFunctionOnSet(paidOut[k], User)
               < Cardinality(Stakers(StakesOn(k, o)))
    BY <1>1, <1>2, <1>4, SharesOfPool
  <1> QED BY <1>3, <1>5 DEF Received

(* A settlement (settleMarket) pays no more than the pool after the rake, and of it all  *)
(* but less than a point for each winner, whatever was staked and by how many.           *)
THEOREM SettlementsAreSolvent == TxSpec => []Solvency
  <1>1. TxInit => ResultIsSide
    BY DEF TxInit, BettingInit, ResultIsSide
  <1>2. TxInv /\ ResultIsSide /\ [TxNext]_txVars => ResultIsSide'
    BY TxMoves, MoveKeepsResult DEF TxInv
  <1>3. TxInv /\ BooksInv /\ ResultIsSide => Solvency
    BY SettledIsSolvent DEF TxInv
  <1> QED BY <1>1, <1>2, <1>3, BooksInvariant, TxInvariant, PTL DEF TxSpec

-----------------------------------------------------------------------------
(* The promise of BettingBook: what members see of a market's state. *)
LEMMA PhasesAre ==
  /\ PhaseOf("NONE") = "absent" /\ PhaseOf("CHECKED") = "absent"
  /\ PhaseOf("OPEN") = "open" /\ PhaseOf("LOCKED") = "closed"
  /\ PhaseOf("SETTLED") = "paid" /\ PhaseOf("CANCELLED") = "refunded"
  BY DEF PhaseOf

(* The markets of K come into the phase "to", and the others stay. *)
LEMMA PhaseIsSet ==
  ASSUME NEW K \in SUBSET Market, NEW to,
         \A k \in Market : PhaseOf(marketStatus'[k]) =
                             IF k \in K THEN to ELSE PhaseOf(marketStatus[k])
  PROVE  Book!SetPhase(K, to)
  BY DEF Book!SetPhase

(* BettingBook adds up as the other modules do. *)
LEMMA BookSums ==
  ASSUME NEW f, NEW S
  PROVE  Book!SumFunctionOnSet(f, S) = SumFunctionOnSet(f, S)
  BY DEF Book!SumFunctionOnSet, Book!FoldFunctionOnSet, Book!MapThenFoldSet,
     SumFunctionOnSet, FoldFunctionOnSet, MapThenFoldSet

(* The initial state promises nothing yet. *)
LEMMA BookStarts == TxInit => Book!Init
  BY PhasesAre DEF TxInit, BettingInit, Book!Init

(* Every change of the books is one the members were promised, or none they see. *)
LEMMA MoveIsPromised ==
  ASSUME BookTypeOK, BooksInv, PlacedInUnresolved, BooksMove
  PROVE  [Book!Next]_(Book!bookVars)
  <1>1. CASE UNCHANGED marketStatus /\ SameMoney
    BY <1>1 DEF SameMoney, Book!bookVars
  <1>2. ASSUME NEW k \in Market, NEW st \in {"CHECKED", "OPEN"}, Opens(k, st)
        PROVE  [Book!Next]_(Book!bookVars)
    <2>1. marketStatus[k] \in {"NONE", "CHECKED"} /\ marketStatus' = [marketStatus EXCEPT ![k] = st]
      BY <1>2 DEF Opens
    <2>2. UNCHANGED <<paidIn, paidOut>>
      BY <1>2 DEF Opens, SameMoney
    <2>3. CASE st = "CHECKED"
      <3>1. \A j \in Market : PhaseOf(marketStatus'[j]) = PhaseOf(marketStatus[j])
        BY <2>1, <2>3, PhasesAre DEF BookTypeOK
      <3> QED BY <2>2, <3>1 DEF Book!bookVars
    <2>4. CASE st = "OPEN"
      <3>1. Book!SetPhase({k}, "open")
        <4>1. PICK K : K = {k}
          OBVIOUS
        <4>2. \A j \in Market : PhaseOf(marketStatus'[j]) =
                                  IF j \in K THEN "open" ELSE PhaseOf(marketStatus[j])
          BY <2>1, <2>4, <4>1, PhasesAre DEF BookTypeOK
        <4>3. K \in SUBSET Market
          BY <4>1
        <4>4. Book!SetPhase(K, "open")
          BY <4>2, <4>3, PhaseIsSet
        <4> QED BY <4>1, <4>4
      <3>2. Book!Open(k)
        BY <2>1, <2>2, <3>1, PhasesAre DEF Book!Open
      <3> QED BY <3>2 DEF Book!Next
    <2> QED BY <2>3, <2>4
  <1>3. ASSUME NEW K \in SUBSET Market, Locks(K) PROVE [Book!Next]_(Book!bookVars)
    <2>1. PICK O : O = {k \in K : marketStatus[k] = "OPEN"}
      OBVIOUS
    <2>2. /\ \A k \in K : marketStatus[k] \in {"OPEN", "LOCKED"}
          /\ marketStatus' = [k \in Market |-> IF k \in K THEN "LOCKED" ELSE marketStatus[k]]
          /\ UNCHANGED <<paidIn, paidOut>>
      BY <1>3 DEF Locks, SameMoney
    <2>3. O \in SUBSET Market /\ \A k \in O : marketStatus[k] = "OPEN"
      BY <2>1
    <2>4. \A j \in Market : PhaseOf(marketStatus'[j]) =
                              IF j \in O THEN "closed" ELSE PhaseOf(marketStatus[j])
      BY <2>1, <2>2, PhasesAre
    <2>5. Book!SetPhase(O, "closed")
      BY <2>3, <2>4, PhaseIsSet
    <2>6. Book!Close(O)
      BY <2>2, <2>3, <2>5, PhasesAre DEF Book!Close
    <2> QED BY <2>3, <2>6 DEF Book!Next
  <1>4. ASSUME NEW k \in Market, NEW u \in User, NEW s \in Side, NEW amt \in StakeAmount,
               Stakes(k, u, s, amt)
        PROVE  [Book!Next]_(Book!bookVars)
    <2>1. /\ marketStatus[k] = "OPEN"
          /\ paidIn' = [paidIn EXCEPT ![k][u] = paidIn[k][u] + amt]
          /\ UNCHANGED <<marketStatus, paidOut>>
      BY <1>4 DEF Stakes, AddStake
    <2>2. paidIn'[k][u] > paidIn[k][u]
      BY <1>4, StakeKeepsBooks DEF Stakes
    <2>3. paidIn' = [paidIn EXCEPT ![k][u] = paidIn'[k][u]]
      BY <2>1 DEF BooksInv, MoneyTypes
    <2>4. Book!Contribute(k, u)
      BY <2>1, <2>2, <2>3, PhasesAre DEF Book!Contribute
    <2> QED BY <2>4 DEF Book!Next
  <1>5. ASSUME NEW K \in SUBSET Market, NEW opt \in [K -> Side], Settles(K, opt)
        PROVE  [Book!Next]_(Book!bookVars)
    <2>1. /\ \A k \in K : marketStatus[k] = "LOCKED"
          /\ marketStatus' = [k \in Market |-> IF k \in K THEN "SETTLED" ELSE marketStatus[k]]
      BY <1>5 DEF Settles, Settle
    <2>2. /\ \A k \in K : paidOut'[k] = [u \in User |-> Minted(k, opt[k], u)]
          /\ \A k \in Market \ K : paidOut'[k] = paidOut[k]
          /\ paidIn' = paidIn
      BY <1>5, SettleKeepsBooks DEF Settles
    <2>3. \A k \in Market : PhaseOf(marketStatus'[k]) =
                              IF k \in K THEN "paid" ELSE PhaseOf(marketStatus[k])
      BY <2>1, PhasesAre
    <2>4. Book!SetPhase(K, "paid")
      BY <2>3, PhaseIsSet
    <2>5. ASSUME NEW k \in K PROVE Book!Paid(k)
      <3>1. k \in Market /\ opt[k] \in Side
        OBVIOUS
      <3>2. PICK o \in Side : o = opt[k]
        BY <3>1
      <3>3. /\ \A u \in User : Minted(k, o, u) \in Nat /\ (paidIn[k][u] = 0 => Minted(k, o, u) = 0)
            /\ SumFunctionOnSet([u \in User |-> Minted(k, o, u)], User) <= totalPool[k]
        BY <3>1, MintedWithinPool
      <3>4. totalPool[k] = SumFunctionOnSet(paidIn[k], User)
        BY <3>1, PoolIsPaidIn
      <3>5. paidOut'[k] = [u \in User |-> Minted(k, o, u)]
        BY <2>2, <3>2
      <3>6. SumFunctionOnSet(paidOut'[k], User) <= SumFunctionOnSet(paidIn[k], User)
        BY <3>3, <3>4, <3>5
      <3>7. \A u \in User : paidOut'[k][u] >= 0 /\ (paidIn[k][u] = 0 => paidOut'[k][u] = 0)
        BY <3>3, <3>5
      <3> QED BY <3>6, <3>7, BookSums DEF Book!Paid
    <2>6. Book!Distribute(K)
      BY <2>1, <2>2, <2>4, <2>5, PhasesAre DEF Book!Distribute
    <2> QED BY <2>6 DEF Book!Next
  <1>6. ASSUME NEW K \in SUBSET Market, Cancels(K) PROVE [Book!Next]_(Book!bookVars)
    <2>1. PICK O : O = {k \in K : marketStatus[k] # "CANCELLED"}
      OBVIOUS
    <2>2. /\ \A k \in K : marketStatus[k] \in {"OPEN", "LOCKED", "CANCELLED"}
          /\ marketStatus' = [k \in Market |-> IF k \in K THEN "CANCELLED" ELSE marketStatus[k]]
      BY <1>6 DEF Cancels, Cancel
    <2>3. /\ \A k \in K : paidOut'[k] = paidIn[k]
          /\ \A k \in Market \ K : paidOut'[k] = paidOut[k]
          /\ paidIn' = paidIn
      BY <1>6, CancelKeepsBooks DEF Cancels
    <2>4. O \in SUBSET Market /\ \A k \in O : marketStatus[k] \in {"OPEN", "LOCKED"}
      BY <2>1, <2>2
    <2>5. \A k \in K \ O : paidOut[k] = paidIn[k]
      <3> SUFFICES ASSUME NEW k \in K \ O PROVE paidOut[k] = paidIn[k]
        OBVIOUS
      <3>1. k \in Market /\ marketStatus[k] = "CANCELLED"
        BY <2>1
      <3>2. \A u \in User : paidOut[k][u] = paidIn[k][u]
        BY <3>1 DEF BooksInv, StakesReconcile
      <3>3. paidOut[k] \in [User -> Nat] /\ paidIn[k] \in [User -> Nat]
        BY <3>1 DEF BooksInv, MoneyTypes
      <3> QED BY <3>2, <3>3
    <2>6. paidOut' = [k \in Market |-> IF k \in O THEN paidIn[k] ELSE paidOut[k]]
      <3>1. DOMAIN paidOut' = Market /\ paidOut' = [k \in Market |-> paidOut'[k]]
        BY <1>6 DEF Cancels, Cancel
      <3>2. \A k \in Market : paidOut'[k] = IF k \in O THEN paidIn[k] ELSE paidOut[k]
        BY <2>1, <2>3, <2>5
      <3> QED BY <3>1, <3>2
    <2>7. \A k \in Market : PhaseOf(marketStatus'[k]) =
                              IF k \in O THEN "refunded" ELSE PhaseOf(marketStatus[k])
      BY <2>1, <2>2, PhasesAre
    <2>8. Book!SetPhase(O, "refunded")
      BY <2>4, <2>7, PhaseIsSet
    <2>9. Book!GiveBack(O)
      BY <2>3, <2>4, <2>6, <2>8, PhasesAre DEF Book!GiveBack
    <2> QED BY <2>4, <2>9 DEF Book!Next
  <1> QED BY <1>1, <1>2, <1>3, <1>4, <1>5, <1>6 DEF BooksMove

(* To its members a market is the book of BettingBook: it takes stakes while it is open, *)
(* and once pays out no more than it took, or gives back to each exactly what they gave. *)
THEOREM MarketsAreBooks == TxSpec => BookSpec
  <1>1. TxInv /\ BooksInv /\ [TxNext]_txVars => [Book!Next]_(Book!bookVars)
    BY TxMoves, MoveIsPromised DEF TxInv
  <1> QED BY <1>1, BookStarts, TxInvariant, BooksInvariant, PTL DEF TxSpec, BookSpec, Book!Spec

-----------------------------------------------------------------------------
(* The ledger under the transactions of the markets. *)

(* What a member is paid for several markets is a natural number. *)
LEMMA SumOverMarkets ==
  ASSUME NEW K \in SUBSET Market, NEW g, \A k \in K : g[k] \in Nat
  PROVE  SumFunctionOnSet(g, K) \in Nat
  <1>1. IsFiniteSet(K)
    BY IdAssumption, FS_Subset
  <1> QED BY <1>1, SumNonNegative

(* What a move of the books does to the ledger is a transfer or a mint to many. *)
LEMMA MoveKeepsLedger ==
  ASSUME LedgerInv, BookTypeOK, BooksInv, PlacedInUnresolved
  PROVE  /\ \A k \in Market, u \in User, s \in Side, amt \in StakeAmount :
              AddStake(k, u, s, amt) => LedgerInv'
         /\ \A K \in SUBSET Market : \A opt : (\A k \in K : opt[k] \in Side) /\ Settle(K, opt)
              => LedgerInv'
         /\ \A K \in SUBSET Market : Cancel(K) => LedgerInv'
  <1>1. ASSUME NEW k \in Market, NEW u \in User, NEW s \in Side, NEW amt \in StakeAmount,
               AddStake(k, u, s, amt)
        PROVE  LedgerInv'
    <2>1. Transfer(u, SINK, amt)
      BY <1>1 DEF AddStake, Burn
    <2>2. u \in Account \cup {NoAccount} /\ SINK \in Account \cup {NoAccount} /\ amt \in Int
      BY StakeAmountAssumption DEF Account
    <2> QED BY <2>1, <2>2, TransferKeepsInv
  <1>2. ASSUME NEW K \in SUBSET Market, NEW opt, \A k \in K : opt[k] \in Side, Settle(K, opt)
        PROVE  LedgerInv'
    <2>1. PICK pay : pay = [u \in User |-> SumFunctionOnSet([k \in K |-> Minted(k, opt[k], u)], K)]
      OBVIOUS
    <2>2. \A k \in K, u \in User : Minted(k, opt[k], u) \in Nat
      <3> SUFFICES ASSUME NEW k \in K, NEW u \in User PROVE Minted(k, opt[k], u) \in Nat
        OBVIOUS
      <3>1. PICK o \in Side : o = opt[k]
        BY <1>2
      <3>2. Minted(k, o, u) \in Nat
        BY MintedWithinPool
      <3> QED BY <3>1, <3>2
    <2>3. pay \in [User -> Nat]
      <3> SUFFICES ASSUME NEW u \in User
                   PROVE  SumFunctionOnSet([k \in K |-> Minted(k, opt[k], u)], K) \in Nat
        BY <2>1
      <3>1. PICK g : g = [k \in K |-> Minted(k, opt[k], u)]
        OBVIOUS
      <3>2. SumFunctionOnSet(g, K) \in Nat
        BY <2>2, <3>1, SumOverMarkets
      <3> QED BY <3>1, <3>2
    <2>4. MintAll(pay)
      BY <1>2, <2>1 DEF Settle
    <2> QED BY <2>3, <2>4, MintAllKeepsInv
  <1>3. ASSUME NEW K \in SUBSET Market, Cancel(K)
        PROVE  LedgerInv'
    <2>1. PICK pay : pay = [u \in User |-> SumFunctionOnSet([k \in K |-> RefundTo(k, u)], K)]
      OBVIOUS
    <2>2. \A k \in K, u \in User : RefundTo(k, u) \in Nat
      <3> SUFFICES ASSUME NEW k \in K, NEW u \in User PROVE RefundTo(k, u) \in Nat
        OBVIOUS
      <3>1. PICK g : g = [s \in Side |-> Refund(k, u, s)]
        OBVIOUS
      <3>2. \A s \in Side : g[s] \in Nat
        BY <3>1 DEF Refund, BookTypeOK
      <3>3. SumFunctionOnSet(g, Side) \in Nat
        BY <3>2, SideIsFinite, SumNonNegative
      <3> QED BY <3>1, <3>3 DEF RefundTo
    <2>3. pay \in [User -> Nat]
      <3> SUFFICES ASSUME NEW u \in User
                   PROVE  SumFunctionOnSet([k \in K |-> RefundTo(k, u)], K) \in Nat
        BY <2>1
      <3>1. PICK g : g = [k \in K |-> RefundTo(k, u)]
        OBVIOUS
      <3>2. SumFunctionOnSet(g, K) \in Nat
        BY <2>2, <3>1, SumOverMarkets
      <3> QED BY <3>1, <3>2
    <2>4. MintAll(pay)
      BY <1>3, <2>1 DEF Cancel
    <2> QED BY <2>3, <2>4, MintAllKeepsInv
  <1> QED BY <1>1, <1>2, <1>3

(* Every step keeps balances and rows of the ledger in agreement. *)
LEMMA TxNextLedger ==
  ASSUME LedgerInv, TxInv, BooksInv, [TxNext]_txVars
  PROVE  LedgerInv'
  <1> USE DEF vars, bettingVars, matchVars, marketVars, stakeVars
  <1>1. BookTypeOK /\ PlacedInUnresolved
    BY DEF TxInv
  <1>2. ASSUME UNCHANGED ledgerVars PROVE LedgerInv'
    BY <1>2, SameLedgerKeepsInv
  <1>3. ASSUME NEW K \in SUBSET Market, NEW opt, \A k \in K : opt[k] \in Side, Settle(K, opt)
        PROVE  LedgerInv'
    BY <1>1, <1>3, MoveKeepsLedger
  <1>4. ASSUME NEW K \in SUBSET Market, Cancel(K) PROVE LedgerInv'
    BY <1>1, <1>4, MoveKeepsLedger
  <1>5. CASE SingleStep
    <2>1. ASSUME NEW m \in Match, CreateMatch(m) \/ OpenBetting(m) PROVE LedgerInv'
      BY <1>2, <2>1 DEF CreateMatch, OpenBetting
    <2>2. ASSUME NEW m \in Match, NEW t \in Team, CreateTeam(m, t) PROVE LedgerInv'
      BY <1>2, <2>2 DEF CreateTeam
    <2>3. ASSUME NEW m \in Match, NEW T \in SUBSET Team, NEW k \in Market,
                 CreateBettingScenario(m, T, k)
          PROVE  LedgerInv'
      BY <1>2, <2>3 DEF CreateBettingScenario
    <2>4. ASSUME NEW k \in Market, CheckNoMarket(k) \/ InsertMarket(k) \/ LockMarket(k)
          PROVE  LedgerInv'
      BY <1>2, <2>4 DEF CheckNoMarket, InsertMarket, LockMarket
    <2>5. ASSUME NEW k \in Market, CancelMarket(k) PROVE LedgerInv'
      <3>1. Cancel({k})
        BY <2>5 DEF CancelMarket
      <3> QED BY <3>1, <1>4
    <2>6. ASSUME NEW k \in Market, NEW s \in Side, SettleMarket(k, s) PROVE LedgerInv'
      <3>1. PICK K, opt : K = {k} /\ opt = [j \in {k} |-> s]
        OBVIOUS
      <3>2. Settle(K, opt)
        BY <2>6, <3>1 DEF SettleMarket
      <3>3. K \in SUBSET Market /\ \A j \in K : opt[j] \in Side
        BY <3>1
      <3> QED BY <3>2, <3>3, <1>3
    <2>7. ASSUME OtherRequest PROVE LedgerInv'
      <3>1. LedgerNext
        BY <2>7 DEF OtherRequest, LedgerNext
      <3> QED BY <3>1, LedgerNextInv
    <2> QED BY <1>5, <2>1, <2>2, <2>3, <2>4, <2>5, <2>6, <2>7 DEF SingleStep
  <1>6. ASSUME NEW k \in Market, BeginStake(k) \/ RollBackStake(k) PROVE LedgerInv'
    BY <1>2, <1>6 DEF BeginStake, RollBackStake
  <1>7. ASSUME NEW k \in Market, NEW u \in User, NEW s \in Side, NEW amt \in StakeAmount,
               CommitStake(k, u, s, amt)
        PROVE  LedgerInv'
    BY <1>1, <1>7, MoveKeepsLedger DEF CommitStake
  <1>8. ASSUME NEW m \in Match, NEW to, NEW k, BeginClosing(m, to) \/ LockNext(m, k)
        PROVE  LedgerInv'
    BY <1>2, <1>8 DEF BeginClosing, LockNext
  <1>9. ASSUME NEW m \in Match, NEW w \in Team, NEW p, CommitClosing(m, w, p) PROVE LedgerInv'
    <2>1. PICK K : K = closing[m].held
      OBVIOUS
    <2>2. K \in SUBSET Market
      BY <1>9, <2>1 DEF CommitClosing, TxInv, BookTypeOK, MatchFree, Closing
    <2>3. CASE CloseBetting(m, K)
      BY <1>2, <2>3 DEF CloseBetting
    <2>4. CASE EnterResult(m, K, w, p)
      <3>1. PICK opt : opt = [k \in Market |-> IF k \in WinMarket THEN w ELSE 1]
        OBVIOUS
      <3>2. Settle(K, opt)
        BY <2>4, <3>1 DEF EnterResult
      <3>3. \A k \in K : opt[k] \in Side
        BY <2>2, <3>1 DEF Side, Place
      <3> QED BY <2>2, <3>2, <3>3, <1>3
    <2>5. CASE CallOff(m, K)
      <3>1. Cancel(K)
        BY <2>5 DEF CallOff
      <3> QED BY <2>2, <3>1, <1>4
    <2> QED BY <1>9, <2>1, <2>3, <2>4, <2>5 DEF CommitClosing
  <1>10. ASSUME NEW m \in Match, RollBackClosing(m) PROVE LedgerInv'
    BY <1>2, <1>10 DEF RollBackClosing
  <1>11. CASE UNCHANGED txVars
    BY <1>2, <1>11 DEF txVars
  <1> QED BY <1>5, <1>6, <1>7, <1>8, <1>9, <1>10, <1>11 DEF TxNext

(* Betting never breaks the ledger: while stakes are burned and payouts and refunds are *)
(* minted, balances are the sums of the table, nobody has less than nothing, and the    *)
(* points in circulation are those issued (betting.service.ts, ledger.service.ts).       *)
THEOREM BettingKeepsLedger ==
  TxSpec => [](BalanceIsLedgerSum /\ NoOverdraft /\ CirculatingSupply)
  <1>1. TxInit => LedgerInv
    BY LedgerInitInv DEF TxInit, BettingInit
  <1>2. LedgerInv /\ TxInv /\ BooksInv /\ [TxNext]_txVars => LedgerInv'
    BY TxNextLedger
  <1>3. LedgerInv => BalanceIsLedgerSum /\ NoOverdraft /\ CirculatingSupply
    BY DEF LedgerInv
  <1> QED BY <1>1, <1>2, <1>3, TxInvariant, BooksInvariant, PTL DEF TxSpec

-----------------------------------------------------------------------------
(* Conversations and pages (modules BettingFlows and MatchPages).               *)

(* The part of the types the argument uses.                                     *)
BetsTypeOK ==
  /\ matchStatus \in [Match -> MatchStatus]
  /\ teamMatch \in [Team -> Match \cup {None}]
  /\ marketStatus \in [Market -> MarketStatus]
  /\ stakeStatus \in [Market -> [User -> [Side -> StakeStatus]]]

ChatsTypeOK ==
  /\ flow \in [Session -> Flow \cup Page]
  /\ told \in [Market -> [User -> [Side -> StakeStatus]]]

Results == {"WON", "LOST", "REFUNDED"}

(* Only a resolved market has stakes with a result, and only results are told.  *)
ResultsAreLate ==
  \A k \in Market, u \in User, x \in Side :
    stakeStatus[k][u][x] \in Results => marketStatus[k] \in {"SETTLED", "CANCELLED"}

ToldAreResults ==
  \A k \in Market, u \in User, x \in Side :
    told[k][u][x] # "NONE" => told[k][u][x] \in Results /\ told[k][u][x] = stakeStatus[k][u][x]

(* What a conversation read and offers, where it stands and what it asks.       *)
TeamsStay(f) == \A t \in Team : f.teams[t] # None => teamMatch[t] = f.teams[t]

ListFits(f) ==
  /\ f.cmd \in {"bet", "rank"} => f.list \subseteq Market
  /\ f.cmd = "rank" => f.list \cap WinMarket = {}
  /\ f.cmd \in {"lock", "settle"} => f.list \subseteq Match
  /\ f.at # "step1" => f.item \in f.list

(* No list of /rank holds a match. *)
RankClick == [on : {"button"}, id : Button] \cup [on : {"select"}, id : Side]

StepFits(f) ==
  /\ f.at = "modal" => f.cmd \in {"bet", "rank"} /\ SideAccepted(f, f.side)
  /\ f.at \in {"step3", "settle", "notify"} => f.cmd = "settle"
  /\ f.at = "lock" => f.cmd = "lock"
  /\ f.at \in {"step3", "settle"} => f.screen = Confirmation(f.item, f.side)
  /\ f.cmd = "lock" /\ f.at \in {"step2", "lock"} => f.screen = Confirmation(f.item, None)
  /\ f.cmd = "rank" => f.clicks \in Seq(RankClick)

ChatFits(f) == f \in Chat => ListFits(f) /\ StepFits(f) /\ TeamsStay(f)

(* A page shows a status the match has had, and its dialog asks about its match. *)
SeenBefore(f) ==
  /\ matchStatus[f.item] # "NONE"
  /\ matchStatus[f.item] = "DRAFT" => f.seen = "DRAFT"
  /\ matchStatus[f.item] = "BETTING_OPEN" => f.seen \in {"DRAFT", "BETTING_OPEN"}

PageFits(f) ==
  f \in Page => /\ SeenBefore(f)
                /\ f.ask = "lock" => f.seen # "DRAFT"
                /\ f.ask # "nothing" => f.screen = Confirmation(f.item, None)

FlowsInv ==
  /\ BetsTypeOK /\ ChatsTypeOK
  /\ ResultsAreLate /\ ToldAreResults
  /\ \A s \in Session : ChatFits(flow[s]) /\ PageFits(flow[s])

-----------------------------------------------------------------------------
(* What a transaction of module Betting does to what conversations read: results *)
(* stay, teams stay in their match, and matches go on to their next status.      *)
NextStatus(from) == IF from = "NONE" THEN {"DRAFT", "BETTING_OPEN"} ELSE Transition(from)

BetsGoOn ==
  /\ BetsTypeOK' /\ ResultsAreLate'
  /\ \A k \in Market, u \in User, x \in Side :
       stakeStatus[k][u][x] \in Results => stakeStatus'[k][u][x] = stakeStatus[k][u][x]
  /\ \A t \in Team : teamMatch[t] # None => teamMatch'[t] = teamMatch[t]
  /\ \A m \in Match : matchStatus'[m] = matchStatus[m] \/ matchStatus'[m] \in NextStatus(matchStatus[m])

(* Matches and teams change, the status of a market does not go back.            *)
LEMMA NoResults ==
  ASSUME BetsTypeOK, ResultsAreLate, stakeStatus' = stakeStatus,
         matchStatus' \in [Match -> MatchStatus], marketStatus' \in [Market -> MarketStatus],
         teamMatch' \in [Team -> Match \cup {None}],
         \A k \in Market : marketStatus[k] \in {"SETTLED", "CANCELLED"} => marketStatus'[k] = marketStatus[k],
         \A t \in Team : teamMatch[t] # None => teamMatch'[t] = teamMatch[t],
         \A m \in Match : \/ matchStatus'[m] = matchStatus[m]
                          \/ matchStatus'[m] \in NextStatus(matchStatus[m])
  PROVE  BetsGoOn
  BY DEF BetsGoOn, BetsTypeOK, ResultsAreLate

(* Nothing of the bets changes. *)
LEMMA BetsStay ==
  ASSUME BetsTypeOK, ResultsAreLate, UNCHANGED bettingVars
  PROVE  BetsGoOn
  <1>1. UNCHANGED <<matchStatus, marketStatus, teamMatch, stakeStatus>>
    BY DEF bettingVars, matchVars, marketVars, stakeVars
  <1> QED BY <1>1, NoResults DEF BetsTypeOK

(* A match takes its next status. *)
LEMMA OneMatchGoesOn ==
  ASSUME BetsTypeOK, NEW m \in Match, NEW to \in NextStatus(matchStatus[m]),
         matchStatus' = [matchStatus EXCEPT ![m] = to]
  PROVE  /\ matchStatus' \in [Match -> MatchStatus]
         /\ \A n \in Match : \/ matchStatus'[n] = matchStatus[n]
                             \/ matchStatus'[n] \in NextStatus(matchStatus[n])
  <1>1. to \in MatchStatus
    BY DEF NextStatus, Transition, MatchStatus, BetsTypeOK
  <1>2. \A n \in Match : matchStatus'[n] = IF n = m THEN to ELSE matchStatus[n]
    BY DEF BetsTypeOK
  <1>3. matchStatus' \in [Match -> MatchStatus]
    BY <1>1 DEF BetsTypeOK
  <1> QED BY <1>2, <1>3

(* A match is created, opened, or gets a team or its first market. *)
LEMMA MatchGrows ==
  ASSUME BetsTypeOK, ResultsAreLate,
         \/ \E m \in Match : CreateMatch(m) \/ OpenBetting(m)
         \/ \E m \in Match, t \in Team : CreateTeam(m, t)
         \/ \E m \in Match, T \in SUBSET Team, k \in Market : CreateBettingScenario(m, T, k)
  PROVE  BetsGoOn
  <1> USE DEF marketVars, stakeVars
  <1>1. ASSUME NEW m \in Match, CreateMatch(m) PROVE BetsGoOn
    <2>1. "DRAFT" \in NextStatus(matchStatus[m])
      BY <1>1 DEF CreateMatch, MatchExists, NextStatus
    <2>2. /\ matchStatus' = [matchStatus EXCEPT ![m] = "DRAFT"]
          /\ UNCHANGED <<teamMatch, marketStatus, stakeStatus>>
      BY <1>1 DEF CreateMatch
    <2> QED BY <2>1, <2>2, OneMatchGoesOn, NoResults DEF BetsTypeOK
  <1>2. ASSUME NEW m \in Match, OpenBetting(m) PROVE BetsGoOn
    <2>1. "BETTING_OPEN" \in NextStatus(matchStatus[m])
      BY <1>2 DEF OpenBetting, AssertTransition, Transition, NextStatus
    <2>2. /\ matchStatus' = [matchStatus EXCEPT ![m] = "BETTING_OPEN"]
          /\ UNCHANGED <<teamMatch, marketStatus, stakeStatus>>
      BY <1>2 DEF OpenBetting
    <2> QED BY <2>1, <2>2, OneMatchGoesOn, NoResults DEF BetsTypeOK
  <1>3. ASSUME NEW m \in Match, NEW t \in Team, CreateTeam(m, t) PROVE BetsGoOn
    <2>1. /\ teamMatch' = [teamMatch EXCEPT ![t] = m] /\ teamMatch[t] = None
          /\ UNCHANGED <<matchStatus, marketStatus, stakeStatus>>
      BY <1>3 DEF CreateTeam
    <2>2. /\ teamMatch' \in [Team -> Match \cup {None}]
          /\ \A o \in Team : teamMatch[o] # None => teamMatch'[o] = teamMatch[o]
      BY <2>1 DEF BetsTypeOK
    <2> QED BY <2>1, <2>2, NoResults DEF BetsTypeOK
  <1>4. ASSUME NEW m \in Match, NEW T \in SUBSET Team, NEW k \in Market, CreateBettingScenario(m, T, k)
        PROVE  BetsGoOn
    <2>1. "BETTING_OPEN" \in NextStatus(matchStatus[m])
      BY <1>4 DEF CreateBettingScenario, MatchExists, NextStatus
    <2>2. /\ matchStatus' = [matchStatus EXCEPT ![m] = "BETTING_OPEN"]
          /\ teamMatch' = [t \in Team |-> IF t \in T THEN m ELSE teamMatch[t]]
          /\ \A t \in T : teamMatch[t] = None
          /\ marketStatus' = [marketStatus EXCEPT ![k] = "OPEN"] /\ marketStatus[k] = "NONE"
          /\ stakeStatus' = stakeStatus
      BY <1>4 DEF CreateBettingScenario
    <2>3. /\ teamMatch' \in [Team -> Match \cup {None}]
          /\ \A t \in Team : teamMatch[t] # None => teamMatch'[t] = teamMatch[t]
      BY <2>2 DEF BetsTypeOK
    <2>4. /\ marketStatus' \in [Market -> MarketStatus]
          /\ \A j \in Market : marketStatus[j] \in {"SETTLED", "CANCELLED"} => marketStatus'[j] = marketStatus[j]
      BY <2>2 DEF BetsTypeOK, MarketStatus
    <2> QED BY <2>1, <2>2, <2>3, <2>4, OneMatchGoesOn, NoResults
  <1> QED BY <1>1, <1>2, <1>3, <1>4

(* Markets are created and locked. *)
LEMMA MarketsGoOn ==
  ASSUME BetsTypeOK, ResultsAreLate,
         \/ \E k \in Market : CheckNoMarket(k) \/ InsertMarket(k) \/ LockMarket(k)
         \/ \E m \in Match : LockMatch(m)
  PROVE  BetsGoOn
  <1>1. ASSUME NEW k \in Market, CheckNoMarket(k) \/ InsertMarket(k) \/ LockMarket(k) PROVE BetsGoOn
    <2>1. /\ \E st \in {"CHECKED", "OPEN", "LOCKED"} : marketStatus' = [marketStatus EXCEPT ![k] = st]
          /\ marketStatus[k] \in {"NONE", "CHECKED", "OPEN"}
          /\ UNCHANGED <<matchStatus, teamMatch, stakeStatus>>
      BY <1>1 DEF CheckNoMarket, InsertMarket, LockMarket, matchVars, stakeVars
    <2>2. /\ marketStatus' \in [Market -> MarketStatus]
          /\ \A j \in Market : marketStatus[j] \in {"SETTLED", "CANCELLED"} => marketStatus'[j] = marketStatus[j]
      BY <2>1 DEF BetsTypeOK, MarketStatus
    <2> QED BY <2>1, <2>2, NoResults DEF BetsTypeOK
  <1>2. ASSUME NEW m \in Match, LockMatch(m) PROVE BetsGoOn
    <2> DEFINE K == MarketsIn(m, {"OPEN"})
    <2>1. "LOCKED" \in NextStatus(matchStatus[m])
      BY <1>2 DEF LockMatch, CloseBetting, AssertTransition, Transition, NextStatus
    <2>2. /\ matchStatus' = [matchStatus EXCEPT ![m] = "LOCKED"]
          /\ marketStatus' = [k \in Market |-> IF k \in K THEN "LOCKED" ELSE marketStatus[k]]
          /\ UNCHANGED <<teamMatch, stakeStatus>>
      BY <1>2 DEF LockMatch, CloseBetting, stakeVars
    <2>3. /\ marketStatus' \in [Market -> MarketStatus]
          /\ \A j \in Market : marketStatus[j] \in {"SETTLED", "CANCELLED"} => marketStatus'[j] = marketStatus[j]
      BY <2>2 DEF BetsTypeOK, MarketStatus, MarketsIn
    <2> QED BY <2>1, <2>2, <2>3, OneMatchGoesOn, NoResults DEF BetsTypeOK
  <1> QED BY <1>1, <1>2

(* A stake waits for its result from the first. *)
LEMMA StakeGoesOn ==
  ASSUME BetsTypeOK, ResultsAreLate, NEW k \in Market, NEW u, NEW x \in Side, NEW amt,
         PlaceStake(k, u, x, amt)
  PROVE  BetsGoOn
  <1>1. /\ marketStatus[k] = "OPEN" /\ UNCHANGED <<matchStatus, teamMatch, marketStatus>>
        /\ stakeStatus' = [stakeStatus EXCEPT ![k][u][x] = IF @ = "NONE" THEN "PLACED" ELSE @]
    BY DEF PlaceStake, AssertOpenForStaking, AddStake, matchVars
  <1>2. \A j \in Market, v \in User, y \in Side :
          stakeStatus'[j][v][y] = IF j = k /\ v = u /\ y = x /\ stakeStatus[k][u][x] = "NONE"
                                  THEN "PLACED" ELSE stakeStatus[j][v][y]
    BY <1>1 DEF BetsTypeOK
  <1>3. stakeStatus' \in [Market -> [User -> [Side -> StakeStatus]]]
    <2>1. PICK row : row = [stakeStatus[k] EXCEPT ![u][x] = IF @ = "NONE" THEN "PLACED" ELSE @]
      OBVIOUS
    <2>2. row \in [User -> [Side -> StakeStatus]]
      <3>1. CASE u \in User
        BY <2>1, <3>1 DEF BetsTypeOK, StakeStatus
      <3>2. CASE u \notin User
        <4>1. PICK old : old = stakeStatus[k] /\ old \in [User -> [Side -> StakeStatus]]
          BY DEF BetsTypeOK
        <4>2. PICK new : row = [old EXCEPT ![u] = new]
          BY <2>1, <4>1
        <4> QED BY <3>2, <4>1, <4>2
      <3> QED BY <3>1, <3>2
    <2>3. stakeStatus' = [stakeStatus EXCEPT ![k] = row]
      BY <1>1, <2>1
    <2> QED BY <2>2, <2>3 DEF BetsTypeOK
  <1>4. BetsTypeOK'
    BY <1>1, <1>3 DEF BetsTypeOK
  <1>5. ResultsAreLate'
    BY <1>1, <1>2 DEF ResultsAreLate, Results
  <1>6. \A j \in Market, v \in User, y \in Side :
          stakeStatus[j][v][y] \in Results => stakeStatus'[j][v][y] = stakeStatus[j][v][y]
    BY <1>2 DEF Results
  <1> QED BY <1>1, <1>4, <1>5, <1>6 DEF BetsGoOn

(* The stakes of the markets K get their results, the others stay. *)
LEMMA ResultsComeIn ==
  ASSUME BetsTypeOK, ResultsAreLate, NEW K \in SUBSET Market, NEW st \in {"SETTLED", "CANCELLED"},
         marketStatus' = [k \in Market |-> IF k \in K THEN st ELSE marketStatus[k]],
         stakeStatus' \in [Market -> [User -> [Side -> StakeStatus]]],
         \A k \in Market \ K : stakeStatus'[k] = stakeStatus[k],
         \A k \in K, u \in User, x \in Side :
           stakeStatus[k][u][x] \in Results => stakeStatus'[k][u][x] = stakeStatus[k][u][x],
         matchStatus' \in [Match -> MatchStatus], teamMatch' = teamMatch,
         \A m \in Match : \/ matchStatus'[m] = matchStatus[m]
                          \/ matchStatus'[m] \in NextStatus(matchStatus[m])
  PROVE  BetsGoOn
  <1>1. marketStatus' \in [Market -> MarketStatus]
    BY DEF BetsTypeOK, MarketStatus
  <1>2. BetsTypeOK'
    BY <1>1 DEF BetsTypeOK
  <1>3. ResultsAreLate'
    BY DEF ResultsAreLate
  <1>4. \A k \in Market, u \in User, x \in Side :
          stakeStatus[k][u][x] \in Results => stakeStatus'[k][u][x] = stakeStatus[k][u][x]
    OBVIOUS
  <1> QED BY <1>2, <1>3, <1>4 DEF BetsGoOn

(* Settlements resolve locked markets, none of whose stakes has a result. *)
LEMMA SettleGoesOn ==
  ASSUME BetsTypeOK, ResultsAreLate, NEW m \in Match, NEW w, NEW p, SettleMatch(m, w, p)
  PROVE  BetsGoOn
  <1> DEFINE K == MarketsIn(m, {"LOCKED"})
  <1>1. PICK opt : opt = [k \in Market |-> IF k \in WinMarket THEN w ELSE 1]
    OBVIOUS
  <1>2. /\ matchStatus' = [matchStatus EXCEPT ![m] = "SETTLED"]
        /\ AssertTransition(m, "SETTLED") /\ teamMatch' = teamMatch /\ Settle(K, opt)
    BY <1>1 DEF SettleMatch, EnterResult
  <1>3. /\ marketStatus' = [k \in Market |-> IF k \in K THEN "SETTLED" ELSE marketStatus[k]]
        /\ stakeStatus' = [k \in Market |-> IF k \notin K THEN stakeStatus[k] ELSE
             [u \in User |-> [s \in Side |-> SettledStatus(k, opt[k], u, s)]]]
    BY <1>2 DEF Settle
  <1>4. \A k \in Market, u \in User, s \in Side : SettledStatus(k, opt[k], u, s) \in StakeStatus
    BY DEF SettledStatus, StakeStatus
  <1>5. stakeStatus' \in [Market -> [User -> [Side -> StakeStatus]]]
    BY <1>3, <1>4 DEF BetsTypeOK
  <1>6. \A k \in K, u \in User, x \in Side : stakeStatus[k][u][x] \notin Results
    BY DEF MarketsIn, ResultsAreLate
  <1>7. "SETTLED" \in NextStatus(matchStatus[m])
    BY <1>2 DEF AssertTransition, NextStatus, Transition
  <1>8. K \in SUBSET Market
    BY DEF MarketsIn
  <1> HIDE DEF K
  <1> QED BY <1>2, <1>3, <1>5, <1>6, <1>7, <1>8, OneMatchGoesOn, ResultsComeIn

(* Cancellations give a result to the stakes that wait for one. *)
LEMMA CancelGoesOn ==
  ASSUME BetsTypeOK, ResultsAreLate, NEW K \in SUBSET Market, Cancel(K), teamMatch' = teamMatch,
         matchStatus' \in [Match -> MatchStatus],
         \A m \in Match : \/ matchStatus'[m] = matchStatus[m]
                          \/ matchStatus'[m] \in NextStatus(matchStatus[m])
  PROVE  BetsGoOn
  <1> DEFINE st(k, u, x) == IF stakeStatus[k][u][x] = "PLACED" THEN "REFUNDED" ELSE stakeStatus[k][u][x]
  <1>1. \A k \in Market, u \in User, x \in Side :
          /\ st(k, u, x) \in StakeStatus
          /\ stakeStatus[k][u][x] \in Results => st(k, u, x) = stakeStatus[k][u][x]
    BY DEF StakeStatus, BetsTypeOK, Results
  <1>2. /\ marketStatus' = [k \in Market |-> IF k \in K THEN "CANCELLED" ELSE marketStatus[k]]
        /\ stakeStatus' = [k \in Market |-> IF k \notin K THEN stakeStatus[k] ELSE
             [u \in User |-> [x \in Side |-> st(k, u, x)]]]
    BY DEF Cancel
  <1> HIDE DEF st
  <1>3. stakeStatus' \in [Market -> [User -> [Side -> StakeStatus]]]
    BY <1>1, <1>2 DEF BetsTypeOK
  <1>4. \A k \in K, u \in User, x \in Side :
          stakeStatus[k][u][x] \in Results => stakeStatus'[k][u][x] = stakeStatus[k][u][x]
    BY <1>1, <1>2
  <1> QED BY <1>2, <1>3, <1>4, ResultsComeIn

(* Markets and matches are called off. *)
LEMMA CallsOffGoOn ==
  ASSUME BetsTypeOK, ResultsAreLate,
         (\E k \in Market : CancelMarket(k)) \/ (\E m \in Match : CancelMatch(m))
  PROVE  BetsGoOn
  <1>1. ASSUME NEW k \in Market, CancelMarket(k) PROVE BetsGoOn
    BY <1>1, CancelGoesOn DEF CancelMarket, matchVars, BetsTypeOK
  <1>2. ASSUME NEW m \in Match, CancelMatch(m) PROVE BetsGoOn
    <2>1. PICK K : K = MarketsIn(m, {"OPEN", "LOCKED"})
      OBVIOUS
    <2>2. /\ matchStatus' = [matchStatus EXCEPT ![m] = "CANCELLED"]
          /\ AssertTransition(m, "CANCELLED") /\ teamMatch' = teamMatch /\ Cancel(K)
      BY <1>2, <2>1 DEF CancelMatch, CallOff
    <2>3. "CANCELLED" \in NextStatus(matchStatus[m])
      BY <2>2 DEF AssertTransition, NextStatus, Transition
    <2>4. K \in SUBSET Market
      BY <2>1 DEF MarketsIn
    <2> QED BY <2>2, <2>3, <2>4, OneMatchGoesOn, CancelGoesOn
  <1> QED BY <1>1, <1>2

-----------------------------------------------------------------------------
(* The steps of conversations and pages, by what they do to the bets.            *)

(* What happens while nobody talks. *)
Meanwhile == (Elsewhere \/ \E m \in Match : CreateMatch(m)) /\ UNCHANGED flowVars

(* The requests that conversations and pages end in. *)
Asks(s) ==
  \/ \E amt \in StakeAmount : SubmitBet(s, amt) \/ SubmitRank(s, amt)
  \/ LockConfirmed(s) \/ SettleConfirmed(s)
  \/ \E m \in Match, w \in Team, p \in Placements \cup {None} : WebSettle(s, m, w, p)
  \/ HandleTransition(s)
  \/ \E t \in Team : HandleAddTeam(s, t)

(* The rest of the program moves the bets on in the same way. *)
LEMMA ElsewhereGoesOn ==
  ASSUME BetsTypeOK, ResultsAreLate, Meanwhile
  PROVE  BetsGoOn
  <1>1. ASSUME NEW u \in User, Join(u), UNCHANGED bettingVars PROVE BetsGoOn
    BY <1>1, BetsStay
  <1> QED BY <1>1, MatchGrows, MarketsGoOn, SettleGoesOn, CallsOffGoOn
       DEF Meanwhile, Elsewhere, AdminBettingStart

-----------------------------------------------------------------------------
(* What a conversation and a page hold. *)
LEMMA ChatIs ==
  ASSUME NEW f \in Chat
  PROVE  /\ f.at \in Point /\ f.cmd \in Command /\ f.list \in SUBSET Item
         /\ f.teams \in [Team -> Match \cup {None}]
         /\ f.item \in Item \cup {None} /\ f.side \in Side \cup {None}
         /\ f.screen \in Screen /\ f.clicks \in Seq(Click) /\ f.made \in 0..MaxClicks
         /\ f # Idle /\ f \notin Page
  <1>1. f.at \in Point /\ f.cmd \in Command
    BY DEF Chat
  <1>2. f # Idle
    <2>1. Idle.at = "idle"
      BY DEF Idle
    <2> QED BY <1>1, <2>1 DEF Point
  <1>3. f \notin Page
    <2>1. f.cmd # "page"
      BY <1>1 DEF Command
    <2> QED BY <2>1 DEF Page
  <1> QED BY <1>1, <1>2, <1>3 DEF Chat

(* A page is no conversation. *)
LEMMA PageIs ==
  ASSUME NEW f \in Page
  PROVE  /\ f.at \in {"page", "form", "refused"} /\ f.cmd = "page" /\ f.item \in Match
         /\ f.seen \in MatchStatus /\ f.teams \in [Team -> Match \cup {None}]
         /\ f.reload \in BOOLEAN /\ f.ask \in Ask \cup {"nothing"}
         /\ f # Idle /\ f \notin Chat
  <1>1. f.at \in {"page", "form", "refused"} /\ f.cmd = "page"
    BY DEF Page
  <1>2. f # Idle
    <2>1. Idle.at = "idle"
      BY DEF Idle
    <2> QED BY <1>1, <2>1
  <1> QED BY <1>1, <1>2, ChatIs DEF Page

(* Which flows stand where. *)
LEMMA FlowIs ==
  ASSUME NEW f \in Flow \cup Page, f # Idle
  PROVE  /\ f.cmd \in Command => f \in Chat
         /\ f.cmd = "page" => f \in Page
         /\ f.at \in Point \ {"notify"} => f \in Chat
  <1>1. CASE f \in Chat
    BY <1>1, ChatIs DEF Command
  <1>2. CASE f \in Page
    BY <1>2, PageIs DEF Command, Point
  <1>3. CASE f \in Notice
    BY <1>3 DEF Notice, Command, Point
  <1> QED BY <1>1, <1>2, <1>3 DEF Flow

(* Who is idle, and the notice of a settlement on the web, are neither. *)
LEMMA QuietFlows ==
  /\ Idle \in Flow /\ Idle \notin Chat /\ Idle \notin Page
  /\ \A m \in Match : LET n == [at |-> "notify", cmd |-> "web", item |-> m]
                      IN n \in Flow /\ n \notin Chat /\ n \notin Page /\ n # Idle
  <1>1. Idle \in Flow /\ Idle \notin Chat /\ Idle \notin Page
    BY ChatIs, PageIs DEF Flow
  <1>2. ASSUME NEW m \in Match, NEW n, n = [at |-> "notify", cmd |-> "web", item |-> m]
        PROVE  n \in Flow /\ n \notin Chat /\ n \notin Page /\ n # Idle
    <2>1. n.cmd = "web" /\ n.at = "notify" /\ n \in Notice
      BY <1>2 DEF Notice
    <2>2. n \notin Chat /\ n \notin Page
      BY <2>1, ChatIs, PageIs DEF Command
    <2>3. Idle.at = "idle"
      BY DEF Idle
    <2> QED BY <2>1, <2>2, <2>3 DEF Flow
  <1> QED BY <1>1, <1>2

-----------------------------------------------------------------------------
(* What fits goes on to fit whatever the transactions do. *)
LEMMA FitGoesOn ==
  ASSUME FlowsInv, BetsGoOn, NEW f \in Flow \cup Page, ChatFits(f), PageFits(f)
  PROVE  ChatFits(f)' /\ PageFits(f)'
  <1>1. ASSUME f \in Chat PROVE TeamsStay(f)'
    BY <1>1 DEF ChatFits, TeamsStay, BetsGoOn
  <1>2. ASSUME f \in Page PROVE SeenBefore(f)'
    <2>1. f.item \in Match /\ SeenBefore(f)
      BY <1>2, PageIs DEF PageFits
    <2>2. \/ matchStatus'[f.item] = matchStatus[f.item]
          \/ matchStatus'[f.item] \in Transition(matchStatus[f.item])
      BY <2>1 DEF BetsGoOn, NextStatus, SeenBefore
    <2> QED BY <2>1, <2>2 DEF SeenBefore, Transition
  <1>3. ChatFits(f)'
    BY <1>1 DEF ChatFits, ListFits, StepFits, SideAccepted, TeamsOf, Confirmation
  <1>4. PageFits(f)'
    BY <1>2 DEF PageFits, Confirmation
  <1> QED BY <1>3, <1>4

(* What was told stays true. *)
LEMMA ToldGoesOn ==
  ASSUME FlowsInv, BetsGoOn, told' = told
  PROVE  ToldAreResults' /\ told' \in [Market -> [User -> [Side -> StakeStatus]]]
  BY DEF FlowsInv, ChatsTypeOK, ToldAreResults, BetsGoOn

(* One conversation or page goes on. *)
LEMMA OneFlowKeeps ==
  ASSUME FlowsInv, BetsGoOn, told' = told, NEW s \in Session,
         NEW f \in Flow \cup Page, flow' = [flow EXCEPT ![s] = f], ChatFits(f), PageFits(f)
  PROVE  FlowsInv'
  <1>1. \A r \in Session : flow'[r] = IF r = s THEN f ELSE flow[r]
    BY DEF FlowsInv, ChatsTypeOK
  <1>2. flow' \in [Session -> Flow \cup Page]
    BY DEF FlowsInv, ChatsTypeOK
  <1>3. BetsTypeOK' /\ ResultsAreLate'
    BY DEF BetsGoOn
  <1>4. ASSUME NEW r \in Session PROVE (ChatFits(flow[r]) /\ PageFits(flow[r]))'
    <2>1. PICK g \in Flow \cup Page : g = flow'[r]
      BY <1>2
    <2>2. ChatFits(g) /\ PageFits(g)
      BY <1>1, <2>1 DEF FlowsInv
    <2>3. ChatFits(g)' /\ PageFits(g)'
      BY <2>2, FitGoesOn
    <2> QED BY <2>1, <2>3
  <1>5. ChatsTypeOK' /\ ToldAreResults'
    BY <1>2, ToldGoesOn DEF ChatsTypeOK
  <1> QED BY <1>3, <1>4, <1>5 DEF FlowsInv

(* All go on as they were. *)
LEMMA SameFlowsKeep ==
  ASSUME FlowsInv, BetsGoOn, UNCHANGED flowVars
  PROVE  FlowsInv'
  <1>1. flow' = flow /\ told' = told
    BY DEF flowVars
  <1>2. ASSUME NEW r \in Session PROVE (ChatFits(flow[r]) /\ PageFits(flow[r]))'
    <2>1. PICK g \in Flow \cup Page : g = flow'[r]
      BY <1>1 DEF FlowsInv, ChatsTypeOK
    <2>2. ChatFits(g) /\ PageFits(g)
      BY <1>1, <2>1 DEF FlowsInv
    <2>3. ChatFits(g)' /\ PageFits(g)'
      BY <2>2, FitGoesOn
    <2> QED BY <2>1, <2>3
  <1>3. ChatsTypeOK' /\ ToldAreResults'
    BY <1>1, ToldGoesOn DEF ChatsTypeOK, FlowsInv
  <1> QED BY <1>2, <1>3 DEF FlowsInv, BetsGoOn

(* A conversation that ends. *)
LEMMA EndKeeps ==
  ASSUME FlowsInv, BetsGoOn, told' = told, NEW s \in Session, Ends(s)
  PROVE  FlowsInv'
  <1>1. ChatFits(Idle) /\ PageFits(Idle)
    BY QuietFlows DEF ChatFits, PageFits
  <1> QED BY <1>1, QuietFlows, OneFlowKeeps DEF Ends

-----------------------------------------------------------------------------
(* The steps of a conversation. *)

(* The command waits at another step. *)
LEMMA GoesKeeps ==
  ASSUME FlowsInv, UNCHANGED <<vars, told>>, NEW s \in Session, InChat(s), flow[s].clicks # << >>,
         NEW at \in Point, NEW item \in Item \cup {None}, NEW side \in Side \cup {None},
         NEW screen \in Screen, Goes(s, at, item, side, screen),
         at # "step1" => item \in flow[s].list,
         at = "modal" => /\ flow[s].cmd \in {"bet", "rank"}
                         /\ flow[s].cmd = "rank" \/ side \in TeamsOf(flow[s], item),
         at \in {"step3", "settle", "notify"} => flow[s].cmd = "settle",
         at = "lock" => flow[s].cmd = "lock",
         at \in {"step3", "settle"} => screen = Confirmation(item, side),
         flow[s].cmd = "lock" /\ at \in {"step2", "lock"} => screen = Confirmation(item, None)
  PROVE  FlowsInv'
  <1>1. PICK f : f = flow[s]
    OBVIOUS
  <1>2. f \in Chat /\ ChatFits(f)
    BY <1>1, FlowIs DEF FlowsInv, ChatsTypeOK, InChat
  <1>3. PICK g : g = [f EXCEPT !.at = at, !.item = item, !.side = side, !.screen = screen,
                               !.clicks = Tail(@)]
    OBVIOUS
  <1>4. Tail(f.clicks) \in Seq(Click) /\ (f.cmd = "rank" => Tail(f.clicks) \in Seq(RankClick))
    <2>1. f.clicks \in Seq(Click) /\ f.clicks # << >>
      BY <1>1, <1>2, ChatIs
    <2>2. f.cmd = "rank" => f.clicks \in Seq(RankClick)
      BY <1>2 DEF ChatFits, StepFits
    <2> QED BY <2>1, <2>2
  <1>5. /\ g.at = at /\ g.cmd = f.cmd /\ g.list = f.list /\ g.teams = f.teams
        /\ g.item = item /\ g.side = side /\ g.screen = screen /\ g.clicks = Tail(f.clicks)
    BY <1>2, <1>3 DEF Chat
  <1>6. g \in Chat
    BY <1>2, <1>3, <1>4 DEF Chat
  <1>7. flow' = [flow EXCEPT ![s] = g]
    <2>1. g = [flow[s] EXCEPT !.at = at, !.item = item, !.side = side, !.screen = screen,
                              !.clicks = Tail(@)]
      BY <1>1, <1>3, Zenon
    <2> QED BY <2>1, Zenon DEF Goes
  <1>8. ListFits(g)
    BY <1>1, <1>2, <1>5 DEF ChatFits, ListFits
  <1>9. StepFits(g)
    <2>1. at = "modal" => f.cmd \in {"bet", "rank"} /\ (f.cmd = "rank" \/ side \in TeamsOf(f, item))
      BY <1>1
    <2>2. TeamsOf(g, item) = TeamsOf(f, item)
      BY <1>5 DEF TeamsOf
    <2>3. at = "modal" => g.cmd \in {"bet", "rank"} /\ SideAccepted(g, g.side)
      BY <1>5, <2>1, <2>2 DEF SideAccepted
    <2> QED BY <1>1, <1>4, <1>5, <2>3 DEF StepFits
  <1>10. TeamsStay(g)
    BY <1>2, <1>5 DEF ChatFits, TeamsStay
  <1>11. ChatFits(g) /\ PageFits(g)
    BY <1>6, <1>8, <1>9, <1>10, ChatIs DEF ChatFits, PageFits
  <1>12. BetsGoOn
    BY BetsStay DEF vars, FlowsInv
  <1> QED BY <1>6, <1>7, <1>11, <1>12, OneFlowKeeps DEF Flow

(* What the bot receives. *)
LEMMA ClickIs ==
  ASSUME FlowsInv, NEW s \in Session, InChat(s), flow[s].clicks # << >>
  PROVE  /\ Clicked(s) \in Click /\ Clicked(s).on \in {"button", "select"}
         /\ Clicked(s).on = "button" => Clicked(s).id \in Button
         /\ Clicked(s).on = "select" => Clicked(s).id \in Item \cup Side
         /\ flow[s].cmd = "rank" /\ Clicked(s).on = "select" => Clicked(s).id \in Side
         /\ flow[s] \in Chat /\ ListFits(flow[s]) /\ StepFits(flow[s])
  <1>1. flow[s] \in Chat /\ ListFits(flow[s]) /\ StepFits(flow[s])
    BY FlowIs DEF FlowsInv, ChatsTypeOK, InChat, ChatFits
  <1>2. flow[s].clicks \in Seq(Click)
    BY <1>1, ChatIs
  <1>3. Clicked(s) \in Click
    BY <1>2 DEF Clicked
  <1>4. flow[s].cmd = "rank" => Clicked(s) \in RankClick
    BY <1>1 DEF Clicked, StepFits
  <1> QED BY <1>1, <1>3, <1>4 DEF Click, RankClick

(* The command waits for the first step again. *)
LEMMA BackKeeps ==
  ASSUME FlowsInv, UNCHANGED <<vars, told>>, NEW s \in Session, InChat(s), flow[s].clicks # << >>,
         Ignored(s) \/ BackToItems(s) \/ \E x \in Item : Goes(s, "step1", None, None, Sides(x))
  PROVE  FlowsInv'
  <1>1. flow[s].screen \in Screen /\ Items \in Screen /\ \A x \in Item : Sides(x) \in Screen
    BY ClickIs, ChatIs DEF Screen, Items, Sides
  <1>2. "step1" \in Point
    BY DEF Point
  <1>3. \E screen \in Screen : Goes(s, "step1", None, None, screen)
    BY <1>1 DEF Ignored, BackToItems
  <1> QED BY <1>2, <1>3, GoesKeeps

(* A conversation or a page is given up. *)
LEMMA EndOfChatKeeps ==
  ASSUME FlowsInv, UNCHANGED <<vars, told>>, NEW s \in Session, Ends(s)
  PROVE  FlowsInv'
  BY EndKeeps, BetsStay DEF FlowsInv, vars

(* The first step of each command. *)
LEMMA FirstStepKeeps ==
  ASSUME FlowsInv, NEW s \in Session, BetStep1(s) \/ RankStep1(s) \/ SettleStep1(s) \/ LockStep1(s)
  PROVE  FlowsInv'
  <1> DEFINE c == Clicked(s)
  <1>1. /\ UNCHANGED <<vars, told>> /\ InChat(s) /\ flow[s].clicks # << >>
        /\ \/ Ends(s)
           \/ Ignored(s)
           \/ /\ c.id \in flow[s].list /\ flow[s].cmd # "lock"
              /\ Goes(s, "step2", c.id, None, Sides(c.id))
           \/ /\ c.id \in flow[s].list /\ flow[s].cmd = "lock"
              /\ Goes(s, "step2", c.id, None, Confirmation(c.id, None))
    <2>1. /\ UNCHANGED <<vars, told>> /\ Receives(s, "step1")
      BY DEF BetStep1, RankStep1, SettleStep1, LockStep1, Step1
    <2>2. InChat(s) /\ flow[s].clicks # << >>
      BY <2>1 DEF Receives
    <2>3. c.on \in {"button", "select"} /\ (c.on = "button" => c.id \in Button) /\ c \in Click
      BY <2>2, ClickIs
    <2>4. \/ c = [on |-> "button", id |-> "cancel"]
          \/ c.on = "button" /\ c.id # "cancel"
          \/ c.on = "select" /\ c.id \notin flow[s].list
          \/ c.on = "select" /\ c.id \in flow[s].list
      BY <2>3 DEF Click
    <2> QED BY <2>1, <2>2, <2>4 DEF BetStep1, RankStep1, SettleStep1, LockStep1, Step1, Dialogue
  <1>2. CASE Ends(s)
    BY <1>1, <1>2, EndOfChatKeeps
  <1>3. CASE Ignored(s)
    BY <1>1, <1>3, BackKeeps
  <1>4. ASSUME c.id \in flow[s].list, NEW screen,
               \/ flow[s].cmd # "lock" /\ screen = Sides(c.id)
               \/ flow[s].cmd = "lock" /\ screen = Confirmation(c.id, None),
               Goes(s, "step2", c.id, None, screen)
        PROVE  FlowsInv'
    <2>1. PICK x : x = c.id
      OBVIOUS
    <2>2. x \in Item
      BY <1>1, <1>4, <2>1, ClickIs, ChatIs
    <2>3. screen \in Screen /\ "step2" \in Point
      BY <1>4, <2>1, <2>2 DEF Screen, Sides, Confirmation, Point
    <2> QED BY <1>1, <1>4, <2>1, <2>2, <2>3, GoesKeeps
  <1> QED BY <1>1, <1>2, <1>3, <1>4

(* A side is chosen, and accepted. *)
LEMMA SideIs ==
  ASSUME FlowsInv, NEW s \in Session, InChat(s), flow[s].clicks # << >>,
         Clicked(s).on = "select", SideAccepted(flow[s], Clicked(s).id)
  PROVE  Clicked(s).id \in Side
  BY ClickIs DEF SideAccepted, TeamsOf, Side

(* The second step of /bet and /rank ends in the modal, that of /settle in a question. *)
LEMMA SecondStepKeeps ==
  ASSUME FlowsInv, NEW s \in Session, BetStep2(s) \/ RankStep2(s) \/ SettleStep2(s)
  PROVE  FlowsInv'
  <1> DEFINE c == Clicked(s)
             f == flow[s]
  <1>1. /\ UNCHANGED <<vars, told>> /\ Receives(s, "step2") /\ f.cmd \in {"bet", "rank", "settle"}
        /\ \/ Ends(s)
           \/ Ignored(s) \/ BackToItems(s)
           \/ /\ c.on = "select" /\ SideAccepted(f, c.id) /\ f.cmd \in {"bet", "rank"}
              /\ Goes(s, "modal", f.item, c.id, f.screen)
           \/ /\ c.on = "select" /\ SideAccepted(f, c.id) /\ f.cmd = "settle"
              /\ Goes(s, "step3", f.item, c.id, Confirmation(f.item, c.id))
    <2>1. UNCHANGED <<vars, told>> /\ Receives(s, "step2") /\ f.cmd \in {"bet", "rank", "settle"}
      BY DEF BetStep2, RankStep2, SettleStep2, Step2, Dialogue
    <2>2. c.on \in {"button", "select"} /\ c \in Click
      BY <2>1, ClickIs DEF Receives
    <2>3. \/ c = [on |-> "button", id |-> "cancel"]
          \/ c = [on |-> "button", id |-> "back"]
          \/ c.on = "button" /\ c.id \notin {"cancel", "back"}
          \/ c.on = "select" /\ ~ SideAccepted(f, c.id)
          \/ c.on = "select" /\ SideAccepted(f, c.id)
      BY <2>2 DEF Click
    <2> QED BY <2>1, <2>3 DEF BetStep2, RankStep2, SettleStep2, Step2, Dialogue
  <1>2. InChat(s) /\ f.at = "step2" /\ f.clicks # << >>
    BY <1>1 DEF Receives
  <1>3. f \in Chat /\ ListFits(f)
    BY <1>2, ClickIs
  <1>4. f.item \in f.list /\ f.item \in Item /\ f.screen \in Screen
    BY <1>2, <1>3, ChatIs DEF ListFits
  <1>5. CASE Ends(s)
    BY <1>1, <1>5, EndOfChatKeeps
  <1>6. CASE Ignored(s) \/ BackToItems(s)
    BY <1>1, <1>2, <1>6, BackKeeps
  <1>7. CASE /\ c.on = "select" /\ SideAccepted(f, c.id) /\ f.cmd \in {"bet", "rank"}
             /\ Goes(s, "modal", f.item, c.id, f.screen)
    <2>1. f.cmd = "rank" \/ c.id \in TeamsOf(f, f.item)
      BY <1>7 DEF SideAccepted
    <2>2. c.id \in Side /\ "modal" \in Point
      BY <1>2, <1>7, SideIs DEF Point
    <2> QED BY <1>1, <1>2, <1>4, <1>7, <2>1, <2>2, GoesKeeps
  <1>8. CASE /\ c.on = "select" /\ SideAccepted(f, c.id) /\ f.cmd = "settle"
             /\ Goes(s, "step3", f.item, c.id, Confirmation(f.item, c.id))
    <2>1. c.id \in Side /\ "step3" \in Point
      BY <1>2, <1>8, SideIs DEF Point
    <2>2. Confirmation(f.item, c.id) \in Screen
      BY <1>4, <2>1 DEF Confirmation, Screen
    <2> QED BY <1>1, <1>2, <1>4, <1>8, <2>1, <2>2, GoesKeeps
  <1> QED BY <1>1, <1>5, <1>6, <1>7, <1>8

(* What /lock and /settle ask about before they go on. *)
LEMMA LastStepKeeps ==
  ASSUME FlowsInv, NEW s \in Session, LockStep2(s) \/ SettleStep3(s)
  PROVE  FlowsInv'
  <1> DEFINE f == flow[s]
  <1>1. /\ UNCHANGED <<vars, told>> /\ InChat(s) /\ f.clicks # << >>
        /\ f.at \in {"step2", "step3"}
    BY DEF LockStep2, SettleStep3, Receives
  <1>2. f \in Chat /\ ListFits(f) /\ StepFits(f)
    BY <1>1, ClickIs
  <1>3. f.item \in f.list /\ f.item \in Item /\ f.screen \in Screen /\ f.side \in Side \cup {None}
    BY <1>1, <1>2, ChatIs DEF ListFits
  <1>4. \/ Ends(s)
        \/ Ignored(s) \/ BackToItems(s) \/ Goes(s, "step1", None, None, Sides(f.item))
        \/ LockStep2(s) /\ Goes(s, "lock", f.item, None, f.screen)
        \/ SettleStep3(s) /\ Goes(s, "settle", f.item, f.side, f.screen)
    BY DEF LockStep2, SettleStep3
  <1>5. CASE Ends(s)
    BY <1>1, <1>5, EndOfChatKeeps
  <1>6. CASE Ignored(s) \/ BackToItems(s) \/ Goes(s, "step1", None, None, Sides(f.item))
    BY <1>1, <1>3, <1>6, BackKeeps
  <1>7. CASE LockStep2(s) /\ Goes(s, "lock", f.item, None, f.screen)
    <2>1. f.cmd = "lock" /\ f.at = "step2"
      BY <1>7 DEF LockStep2, Dialogue, Receives
    <2>2. f.screen = Confirmation(f.item, None) /\ "lock" \in Point
      BY <1>2, <2>1 DEF StepFits, Point
    <2> QED BY <1>1, <1>3, <1>7, <2>1, <2>2, GoesKeeps
  <1>8. CASE SettleStep3(s) /\ Goes(s, "settle", f.item, f.side, f.screen)
    <2>1. f.at = "step3"
      BY <1>8 DEF SettleStep3, Receives
    <2>2. f.cmd = "settle" /\ f.screen = Confirmation(f.item, f.side) /\ "settle" \in Point
      BY <1>2, <2>1 DEF StepFits, Point
    <2> QED BY <1>1, <1>3, <1>8, <2>1, <2>2, GoesKeeps
  <1> QED BY <1>4, <1>5, <1>6, <1>7, <1>8

(* A conversation begins with a list that fits its command. *)
LEMMA BeginKeeps ==
  ASSUME FlowsInv, NEW s \in Session, NEW cmd \in Command, NEW u \in User \cup {None}, NEW list,
         Begin(s, cmd, u, list), cmd \in {"bet", "rank"} => list \subseteq Market,
         cmd = "rank" => list \cap WinMarket = {}, cmd \in {"lock", "settle"} => list \subseteq Match
  PROVE  FlowsInv'
  <1>1. PICK g : g = [at |-> "step1", cmd |-> cmd, user |-> u, list |-> list, teams |-> TeamsRead(cmd),
                      item |-> None, side |-> None, screen |-> [menu |-> "items"],
                      clicks |-> << >>, made |-> 0]
    OBVIOUS
  <1>2. flow' = [flow EXCEPT ![s] = g] /\ UNCHANGED <<vars, told>>
    BY <1>1 DEF Begin
  <1>3. TeamsRead(cmd) \in [Team -> Match \cup {None}]
    BY DEF TeamsRead, FlowsInv, BetsTypeOK
  <1>4. list \in SUBSET Item /\ << >> \in Seq(Click) /\ << >> \in Seq(RankClick) /\ 0 \in 0..MaxClicks
    BY ClicksAssumption DEF Item, Command
  <1>5. "step1" \in Point /\ [menu |-> "items"] \in Screen
    BY DEF Point, Screen
  <1>6. g \in Chat
    BY <1>1, <1>3, <1>4, <1>5 DEF Chat
  <1>7. ListFits(g) /\ StepFits(g)
    BY <1>1, <1>4 DEF ListFits, StepFits
  <1>8. TeamsStay(g)
    BY <1>1 DEF TeamsStay, TeamsRead
  <1>9. ChatFits(g) /\ PageFits(g)
    BY <1>6, <1>7, <1>8, ChatIs DEF ChatFits, PageFits
  <1> QED BY <1>2, <1>6, <1>9, BetsStay, OneFlowKeeps DEF Flow, vars, FlowsInv

(* The four commands begin with the items that suit them. *)
LEMMA CommandKeeps ==
  ASSUME FlowsInv, NEW s \in Session,
         \/ \E u \in User : Bet(s, u) \/ RankPredict(s, u)
         \/ AdminBettingLock(s) \/ AdminBettingSettle(s)
  PROVE  FlowsInv'
  <1> USE DEF Command
  <1>1. ASSUME NEW u \in User, Bet(s, u) PROVE FlowsInv'
    BY <1>1, BeginKeeps DEF Bet, OpenMarkets
  <1>2. ASSUME NEW u \in User, RankPredict(s, u) PROVE FlowsInv'
    BY <1>2, BeginKeeps DEF RankPredict, OpenMarkets
  <1>3. CASE AdminBettingLock(s)
    BY <1>3, BeginKeeps DEF AdminBettingLock, MatchesIn
  <1>4. CASE AdminBettingSettle(s)
    BY <1>4, BeginKeeps DEF AdminBettingSettle, MatchesIn
  <1> QED BY <1>1, <1>2, <1>3, <1>4

(* What can be clicked on is what the command understands. *)
LEMMA OfferedIs ==
  ASSUME NEW f \in Chat, ListFits(f), NEW c \in Offered(f)
  PROVE  c \in Click /\ (f.cmd = "rank" => c \in RankClick)
  <1>1. f.list \subseteq Item /\ f.screen \in Screen /\ f.cmd \in Command
    BY ChatIs
  <1>2. f.cmd = "rank" => f.list \subseteq Side
    BY MarketIdAssumption DEF ListFits, Side
  <1>3. \A x : Options(f, x) \subseteq Side
    <2>1. 1..MaxPlace \subseteq Place
      BY ClicksAssumption DEF Place
    <2> QED BY <2>1 DEF Options, TeamsOf, Side
  <1>4. \A b \in Button : [on |-> "button", id |-> b] \in Click /\ [on |-> "button", id |-> b] \in RankClick
    BY DEF Click, RankClick
  <1>5. f.screen.menu \in {"items", "sides", "confirm"}
    BY <1>1 DEF Screen
  <1>6. CASE f.screen.menu = "items"
    <2>1. c \in OnSelect(f.list) \cup OnButton({"cancel"})
      BY <1>6 DEF Offered
    <2> QED BY <1>1, <1>2, <2>1 DEF OnSelect, OnButton, Click, RankClick, Button
  <1>7. CASE f.screen.menu = "sides"
    <2>1. c \in OnSelect(Options(f, f.screen.item)) \cup OnButton({"back", "cancel"})
      BY <1>7 DEF Offered
    <2>2. Options(f, f.screen.item) \subseteq Side
      BY <1>3
    <2> QED BY <2>1, <2>2 DEF OnSelect, OnButton, Click, RankClick, Button
  <1>8. CASE f.screen.menu = "confirm"
    <2>1. c \in OnButton({"confirm", "cancel", IF f.cmd = "lock" THEN "back" ELSE "back2"})
      BY <1>8 DEF Offered
    <2> QED BY <2>1 DEF OnButton, Click, RankClick, Button
  <1> QED BY <1>5, <1>6, <1>7, <1>8

(* Clicks are made, and lost. *)
LEMMA ClickKeeps ==
  ASSUME FlowsInv, NEW s \in Session, Clicks(s) \/ LoseClick(s)
  PROVE  FlowsInv'
  <1>1. PICK f : f = flow[s]
    OBVIOUS
  <1>2. f \in Chat /\ ListFits(f) /\ StepFits(f) /\ TeamsStay(f)
    BY <1>1, FlowIs DEF FlowsInv, ChatsTypeOK, ChatFits, InChat, Clicks, LoseClick
  <1>3. PICK more, n : /\ flow' = [flow EXCEPT ![s] = [f EXCEPT !.clicks = more, !.made = n]]
                       /\ more \in Seq(Click) /\ (f.cmd = "rank" => more \in Seq(RankClick))
                       /\ n \in 0..MaxClicks
    <2>1. /\ f.clicks \in Seq(Click) /\ (f.cmd = "rank" => f.clicks \in Seq(RankClick))
          /\ f.made \in 0..MaxClicks
      BY <1>2, ChatIs DEF StepFits
    <2>2. CASE Clicks(s)
      <3>1. PICK c \in Offered(f) :
              flow' = [flow EXCEPT ![s].clicks = Append(@, c), ![s].made = @ + 1]
        BY <1>1, <2>2 DEF Clicks
      <3>2. flow' = [flow EXCEPT ![s] = [f EXCEPT !.clicks = Append(f.clicks, c), !.made = f.made + 1]]
        BY <1>1, <1>2, <3>1 DEF Chat, FlowsInv, ChatsTypeOK
      <3>3. Append(f.clicks, c) \in Seq(Click) /\ (f.cmd = "rank" => Append(f.clicks, c) \in Seq(RankClick))
        BY <1>2, <2>1, OfferedIs
      <3>4. f.made + 1 \in 0..MaxClicks
        BY <1>1, <2>1, <2>2, ClicksAssumption DEF Clicks
      <3> QED BY <3>2, <3>3, <3>4
    <2>3. CASE LoseClick(s)
      <3>1. f.clicks # << >> /\ flow' = [flow EXCEPT ![s].clicks = Tail(@)]
        BY <1>1, <2>3 DEF LoseClick
      <3>2. flow' = [flow EXCEPT ![s] = [f EXCEPT !.clicks = Tail(f.clicks), !.made = f.made]]
        BY <1>1, <1>2, <3>1 DEF Chat, FlowsInv, ChatsTypeOK
      <3>3. Tail(f.clicks) \in Seq(Click) /\ (f.cmd = "rank" => Tail(f.clicks) \in Seq(RankClick))
        BY <2>1, <3>1
      <3> QED BY <2>1, <3>2, <3>3
    <2> QED BY <2>2, <2>3
  <1>4. PICK g : g = [f EXCEPT !.clicks = more, !.made = n]
    OBVIOUS
  <1>5. /\ g \in Chat /\ g.at = f.at /\ g.cmd = f.cmd /\ g.list = f.list /\ g.teams = f.teams
        /\ g.item = f.item /\ g.side = f.side /\ g.screen = f.screen /\ g.clicks = more
    BY <1>2, <1>3, <1>4 DEF Chat
  <1>6. ListFits(g) /\ TeamsStay(g)
    BY <1>2, <1>5 DEF ListFits, TeamsStay
  <1>7. StepFits(g)
    BY <1>2, <1>3, <1>5 DEF StepFits, SideAccepted, TeamsOf
  <1>8. ChatFits(g) /\ PageFits(g)
    BY <1>5, <1>6, <1>7, ChatIs DEF ChatFits, PageFits
  <1>9. UNCHANGED <<vars, told>>
    BY DEF Clicks, LoseClick
  <1> QED BY <1>3, <1>4, <1>5, <1>8, <1>9, BetsStay, OneFlowKeeps DEF Flow, vars, FlowsInv

-----------------------------------------------------------------------------
(* The end of a conversation. *)

(* Where a request is made, whatever became of it, the bets go on. *)
LEMMA AskGoesOn ==
  ASSUME FlowsInv, NEW s \in Session, Asks(s)
  PROVE  BetsGoOn
  <1> USE DEF FlowsInv
  <1>1. UNCHANGED vars => BetsGoOn
    BY BetsStay DEF vars
  <1>2. ASSUME NEW amt \in StakeAmount, SubmitBet(s, amt) \/ SubmitRank(s, amt) PROVE BetsGoOn
    <2>1. /\ flow[s].at = "modal" /\ flow[s] # Idle
          /\ \/ PlaceStake(flow[s].item, flow[s].user, flow[s].side, amt)
             \/ UNCHANGED vars
          /\ flow[s].cmd \in {"bet", "rank"}
      BY <1>2 DEF SubmitBet, SubmitRank, SubmitAmount, Dialogue
    <2>2. flow[s] \in Chat /\ ListFits(flow[s]) /\ StepFits(flow[s])
      BY <2>1, FlowIs DEF ChatsTypeOK, ChatFits, Command
    <2>3. flow[s].item \in Market
      BY <2>1, <2>2 DEF ListFits
    <2>4. CASE PlaceStake(flow[s].item, flow[s].user, flow[s].side, amt)
      <3>1. PICK k, u, x : k \in Market /\ k = flow[s].item /\ u = flow[s].user /\ x = flow[s].side
        BY <2>3
      <3>2. PlaceStake(k, u, x, amt)
        BY <2>4, <3>1
      <3>3. x \in Side
        BY <3>2 DEF PlaceStake, AddStake, ValidateSide, Side
      <3> QED BY <3>1, <3>2, <3>3, StakeGoesOn
    <2> QED BY <1>1, <2>1, <2>4
  <1>3. CASE LockConfirmed(s)
    <2>1. flow[s].at = "lock" /\ flow[s] # Idle /\ (LockMatch(flow[s].item) \/ UNCHANGED vars)
      BY <1>3 DEF LockConfirmed
    <2>2. flow[s] \in Chat /\ ListFits(flow[s]) /\ StepFits(flow[s])
      BY <2>1, FlowIs DEF ChatsTypeOK, ChatFits, Point
    <2>3. flow[s].item \in Match
      BY <2>1, <2>2 DEF ListFits, StepFits
    <2> QED BY <1>1, <2>1, <2>3, MarketsGoOn
  <1>4. CASE SettleConfirmed(s)
    <2>1. /\ flow[s].at = "settle" /\ flow[s] # Idle
          /\ SettleMatch(flow[s].item, flow[s].side, None) \/ UNCHANGED vars
      BY <1>4 DEF SettleConfirmed
    <2>2. flow[s] \in Chat /\ ListFits(flow[s]) /\ StepFits(flow[s])
      BY <2>1, FlowIs DEF ChatsTypeOK, ChatFits, Point
    <2>3. flow[s].item \in Match
      BY <2>1, <2>2 DEF ListFits, StepFits
    <2>4. CASE SettleMatch(flow[s].item, flow[s].side, None)
      <3>1. PICK m, w : m \in Match /\ m = flow[s].item /\ w = flow[s].side
        BY <2>3
      <3>2. SettleMatch(m, w, None)
        BY <2>4, <3>1
      <3> QED BY <3>1, <3>2, SettleGoesOn
    <2> QED BY <1>1, <2>1, <2>4
  <1>5. ASSUME NEW m \in Match, NEW w, NEW p, WebSettle(s, m, w, p) PROVE BetsGoOn
    BY <1>5, SettleGoesOn DEF WebSettle
  <1>6. CASE HandleTransition(s)
    <2>1. PICK m : m = flow[s].item
      OBVIOUS
    <2>2. m \in Match
      BY <1>6, <2>1, FlowIs, PageIs DEF HandleTransition, OnPage, ChatsTypeOK
    <2>3. OpenBetting(m) \/ LockMatch(m) \/ CancelMatch(m) \/ UNCHANGED vars
      BY <1>6, <2>1 DEF HandleTransition
    <2> QED BY <1>1, <2>2, <2>3, MatchGrows, MarketsGoOn, CallsOffGoOn
  <1>7. ASSUME NEW t \in Team, HandleAddTeam(s, t) PROVE BetsGoOn
    <2>1. PICK m : m = flow[s].item
      OBVIOUS
    <2>2. m \in Match
      BY <1>7, <2>1, FlowIs, PageIs DEF HandleAddTeam, OnPage, ChatsTypeOK
    <2> QED BY <1>7, <2>1, <2>2, MatchGrows DEF HandleAddTeam
  <1> QED BY <1>2, <1>3, <1>4, <1>5, <1>6, <1>7 DEF Asks

(* The request is the end of the conversation, but for the notice. *)
LEMMA EndOfCommandKeeps ==
  ASSUME FlowsInv, NEW s \in Session,
         \/ \E amt \in StakeAmount : SubmitBet(s, amt) \/ SubmitRank(s, amt)
         \/ LockConfirmed(s) \/ SettleConfirmed(s)
         \/ \E m \in Match, w \in Team, p \in Placements \cup {None} : WebSettle(s, m, w, p)
  PROVE  FlowsInv'
  <1>1. BetsGoOn /\ told' = told
    BY AskGoesOn DEF Asks, SubmitBet, SubmitRank, SubmitAmount, LockConfirmed, SettleConfirmed, WebSettle
  <1>2. CASE Ends(s)
    BY <1>1, <1>2, EndKeeps
  <1>3. CASE flow' = flow
    BY <1>1, <1>3, SameFlowsKeep DEF flowVars
  <1>4. CASE SettleConfirmed(s) /\ flow' = [flow EXCEPT ![s].at = "notify"]
    <2>1. PICK f : f = flow[s]
      OBVIOUS
    <2>2. f.at = "settle" /\ f # Idle
      BY <1>4, <2>1 DEF SettleConfirmed
    <2>3. f \in Chat /\ ListFits(f) /\ StepFits(f) /\ TeamsStay(f)
      BY <2>1, <2>2, FlowIs DEF FlowsInv, ChatsTypeOK, ChatFits, Point
    <2>4. PICK g : g = [f EXCEPT !.at = "notify"]
      OBVIOUS
    <2>5. /\ g \in Chat /\ g.at = "notify" /\ g.cmd = f.cmd /\ g.list = f.list /\ g.teams = f.teams
          /\ g.item = f.item /\ g.screen = f.screen /\ g.clicks = f.clicks
      BY <2>3, <2>4 DEF Chat, Point
    <2>6. flow' = [flow EXCEPT ![s] = g]
      BY <1>4, <2>1, <2>4
    <2>7. ListFits(g) /\ StepFits(g) /\ TeamsStay(g)
      BY <2>2, <2>3, <2>5 DEF ListFits, StepFits, TeamsStay
    <2>8. ChatFits(g) /\ PageFits(g)
      BY <2>5, <2>7, ChatIs DEF ChatFits, PageFits
    <2> QED BY <1>1, <2>5, <2>6, <2>8, OneFlowKeeps DEF Flow
  <1>5. ASSUME NEW m \in Match, flow' = [flow EXCEPT ![s] = [at |-> "notify", cmd |-> "web", item |-> m]]
        PROVE  FlowsInv'
    <2>1. PICK n : n = [at |-> "notify", cmd |-> "web", item |-> m]
      OBVIOUS
    <2>2. n \in Flow /\ n \notin Chat /\ n \notin Page
      BY <2>1, QuietFlows
    <2>3. ChatFits(n) /\ PageFits(n)
      BY <2>2 DEF ChatFits, PageFits
    <2> QED BY <1>1, <1>5, <2>1, <2>2, <2>3, OneFlowKeeps
  <1> QED BY <1>2, <1>3, <1>4, <1>5
       DEF SubmitBet, SubmitRank, SubmitAmount, LockConfirmed, SettleConfirmed, WebSettle

(* Bettors are told results only. *)
LEMMA NotifyKeeps ==
  ASSUME FlowsInv, NEW s \in Session, NEW reached, NotifyBettors(s, reached)
  PROVE  FlowsInv'
  <1> DEFINE f == flow[s]
  <1>1. BetsGoOn /\ UNCHANGED <<stakeStatus, marketStatus, matchStatus, teamMatch>>
    BY BetsStay DEF FlowsInv, NotifyBettors, vars, bettingVars, matchVars, marketVars, stakeVars
  <1>2. PICK item : item = flow[s].item
    OBVIOUS
  <1>3. told' = [k \in Market |-> [u \in User |-> [x \in Side |->
           IF MatchOf[k] = item /\ u \in reached /\ stakeStatus[k][u][x] # "PLACED"
           THEN stakeStatus[k][u][x] ELSE told[k][u][x]]]]
    BY <1>2 DEF NotifyBettors, Result
  <1>4. stakeStatus \in [Market -> [User -> [Side -> StakeStatus]]]
    BY DEF FlowsInv, BetsTypeOK
  <1>5. told' \in [Market -> [User -> [Side -> StakeStatus]]]
    BY <1>3, <1>4 DEF FlowsInv, ChatsTypeOK
  <1>6. ASSUME NEW k \in Market, NEW u \in User, NEW x \in Side, told'[k][u][x] # "NONE"
        PROVE  told'[k][u][x] \in Results /\ told'[k][u][x] = stakeStatus'[k][u][x]
    <2>1. stakeStatus[k][u][x] \in {"NONE", "PLACED"} \cup Results
      BY <1>4 DEF StakeStatus, Results
    <2>2. told'[k][u][x] = stakeStatus[k][u][x] \/ told'[k][u][x] = told[k][u][x]
      BY <1>3
    <2>3. told'[k][u][x] = "PLACED" => told[k][u][x] = "PLACED"
      BY <1>3
    <2>4. told[k][u][x] # "NONE" => told[k][u][x] \in Results /\ told[k][u][x] = stakeStatus[k][u][x]
      BY DEF FlowsInv, ToldAreResults
    <2>5. "PLACED" \notin Results /\ "PLACED" # "NONE"
      BY DEF Results
    <2> QED BY <1>1, <1>6, <2>1, <2>2, <2>3, <2>4, <2>5
  <1>7. ToldAreResults'
    BY <1>6 DEF ToldAreResults
  <1>8. flow' = [flow EXCEPT ![s] = Idle]
    BY DEF NotifyBettors, Ends
  <1>9. ASSUME NEW r \in Session PROVE (ChatFits(flow[r]) /\ PageFits(flow[r]))'
    <2>1. PICK g \in Flow \cup Page : g = flow'[r] /\ (g = Idle \/ g = flow[r])
      BY <1>8, QuietFlows DEF FlowsInv, ChatsTypeOK
    <2>2. ChatFits(g) /\ PageFits(g)
      BY <2>1, QuietFlows DEF FlowsInv, ChatFits, PageFits
    <2>3. ChatFits(g)' /\ PageFits(g)'
      BY <1>1, <2>2, FitGoesOn
    <2> QED BY <2>1, <2>3
  <1>10. ChatsTypeOK'
    BY <1>5, <1>8, QuietFlows DEF FlowsInv, ChatsTypeOK
  <1> QED BY <1>1, <1>7, <1>9, <1>10 DEF FlowsInv, BetsGoOn

(* The process dies, and time limits pass. *)
LEMMA BreaksKeep ==
  ASSUME FlowsInv, Restart \/ \E s \in Session : TimesOut(s)
  PROVE  FlowsInv'
  <1>1. BetsGoOn /\ told' = told
    BY BetsStay DEF FlowsInv, Restart, TimesOut, vars
  <1>2. CASE Restart
    <2>1. flow' = [s \in Session |-> Idle]
      BY <1>2 DEF Restart
    <2>2. ASSUME NEW r \in Session PROVE (ChatFits(flow[r]) /\ PageFits(flow[r]))'
      BY <2>1, QuietFlows DEF ChatFits, PageFits
    <2>3. ChatsTypeOK' /\ ToldAreResults'
      BY <1>1, <2>1, QuietFlows, ToldGoesOn DEF ChatsTypeOK
    <2> QED BY <1>1, <2>2, <2>3 DEF FlowsInv, BetsGoOn
  <1>3. ASSUME NEW s \in Session, TimesOut(s) PROVE FlowsInv'
    BY <1>3, EndOfChatKeeps DEF TimesOut
  <1> QED BY <1>2, <1>3

-----------------------------------------------------------------------------
(* The pages of a match. *)

(* A page goes on, with what it shows and asks. *)
LEMMA PageGoesOn ==
  ASSUME FlowsInv, BetsGoOn, told' = told, NEW s \in Session, NEW f \in Page,
         flow' = [flow EXCEPT ![s] = f], PageFits(f)
  PROVE  FlowsInv'
  <1>1. ChatFits(f)
    BY PageIs DEF ChatFits
  <1> QED BY <1>1, OneFlowKeeps

(* A page that is open fits. *)
LEMMA OpenPageIs ==
  ASSUME FlowsInv, NEW s \in Session, NEW ats, OnPage(s, ats)
  PROVE  flow[s] \in Page /\ flow[s].at \in ats /\ PageFits(flow[s]) /\ flow[s].item \in Match
  BY FlowIs, PageIs DEF FlowsInv, ChatsTypeOK, OnPage

(* Opening, reading again, and leaving a page. *)
LEMMA ReadingKeeps ==
  ASSUME FlowsInv, NEW s \in Session,
         \/ \E m \in Match : OpenPage(s, m)
         \/ LeavePage(s) \/ Reload(s) \/ Reconnect(s)
  PROVE  FlowsInv'
  <1>1. BetsGoOn /\ told' = told
    BY BetsStay DEF FlowsInv, OpenPage, LeavePage, Reload, Reconnect, vars
  <1>2. ASSUME NEW m \in Match, OpenPage(s, m) PROVE FlowsInv'
    <2>1. PICK g : g = [at |-> "page", cmd |-> "page", item |-> m, seen |-> matchStatus[m],
                        teams |-> teamMatch, reload |-> FALSE, ask |-> "nothing", screen |-> NoDialog]
      OBVIOUS
    <2>2. g \in Page
      BY <2>1 DEF Page, NoDialog, FlowsInv, BetsTypeOK
    <2>3. PageFits(g)
      BY <1>2, <2>1 DEF PageFits, SeenBefore, OpenPage, MatchExists
    <2> QED BY <1>1, <1>2, <2>1, <2>2, <2>3, PageGoesOn DEF OpenPage
  <1>3. CASE LeavePage(s)
    BY <1>3, EndOfChatKeeps DEF LeavePage
  <1>4. CASE Reload(s)
    <2>1. PICK f, st : f = flow[s] /\ st = matchStatus[f.item]
      OBVIOUS
    <2>2. f \in Page /\ PageFits(f) /\ f.item \in Match /\ f.at \in {"page", "form", "refused"}
      BY <1>4, <2>1, OpenPageIs DEF Reload
    <2>3. st \in MatchStatus /\ teamMatch \in [Team -> Match \cup {None}]
      BY <2>1, <2>2 DEF FlowsInv, BetsTypeOK
    <2>4. PICK g : g = [f EXCEPT !.seen = st, !.teams = teamMatch, !.reload = FALSE,
                                 !.at = IF st = "LOCKED" THEN @ ELSE "page"]
      OBVIOUS
    <2>5. flow' = [flow EXCEPT ![s] = g]
      BY <1>4, <2>1, <2>4 DEF Reload
    <2>6. g \in Page /\ g.item = f.item /\ g.seen = st /\ g.ask = f.ask /\ g.screen = f.screen
      BY <2>2, <2>3, <2>4 DEF Page
    <2>7. PageFits(g)
      <3>1. SeenBefore(g)
        BY <2>1, <2>2, <2>6 DEF PageFits, SeenBefore
      <3>2. f.ask = "lock" => st # "DRAFT"
        BY <2>1, <2>2 DEF PageFits, SeenBefore
      <3> QED BY <2>2, <2>6, <3>1, <3>2 DEF PageFits
    <2> QED BY <1>1, <2>5, <2>6, <2>7, PageGoesOn
  <1>5. CASE Reconnect(s)
    <2>1. PICK f : f = flow[s]
      OBVIOUS
    <2>2. f \in Page /\ PageFits(f)
      BY <1>5, <2>1, OpenPageIs DEF Reconnect
    <2>3. PICK g : g = [f EXCEPT !.reload = TRUE]
      OBVIOUS
    <2>4. flow' = [flow EXCEPT ![s] = g]
      BY <1>5, <2>1, <2>3 DEF Reconnect
    <2>5. g \in Page /\ g.item = f.item /\ g.seen = f.seen /\ g.ask = f.ask /\ g.screen = f.screen
      BY <2>2, <2>3 DEF Page
    <2>6. PageFits(g)
      BY <2>2, <2>5 DEF PageFits, SeenBefore
    <2> QED BY <1>1, <2>4, <2>5, <2>6, PageGoesOn
  <1> QED BY <1>2, <1>3, <1>4, <1>5

(* A dialog opens for a button that is offered, and is closed or confirmed. *)
LEMMA DialogKeeps ==
  ASSUME FlowsInv, NEW s \in Session,
         (\E a \in Ask : Press(s, a)) \/ Dismiss(s) \/ HandleTransition(s)
  PROVE  FlowsInv'
  <1>1. BetsGoOn /\ told' = told
    BY BetsStay, AskGoesOn DEF Asks, FlowsInv, Press, Dismiss, HandleTransition, vars
  <1>2. PICK f : f = flow[s]
    OBVIOUS
  <1>3. f \in Page /\ PageFits(f) /\ f.item \in Match
    BY <1>2, OpenPageIs DEF Press, Dismiss, HandleTransition
  <1>4. ASSUME NEW a \in Ask, Press(s, a) PROVE FlowsInv'
    <2>1. PICK d : d = [menu |-> "confirm", item |-> f.item, side |-> None]
      OBVIOUS
    <2>2. PICK g : g = [f EXCEPT !.ask = a, !.screen = d]
      OBVIOUS
    <2>3. flow' = [flow EXCEPT ![s] = g]
      BY <1>2, <1>3, <1>4, <2>1, <2>2 DEF Press, Page, FlowsInv, ChatsTypeOK
    <2>4. g \in Page /\ g.item = f.item /\ g.seen = f.seen /\ g.ask = a /\ g.screen = d
      BY <1>3, <2>1, <2>2 DEF Page
    <2>5. a = "lock" => f.seen # "DRAFT"
      BY <1>2, <1>4 DEF Press, Buttons
    <2>6. PageFits(g)
      BY <1>3, <2>1, <2>4, <2>5 DEF PageFits, SeenBefore, Confirmation
    <2> QED BY <1>1, <2>3, <2>4, <2>6, PageGoesOn
  <1>5. ASSUME NEW again \in BOOLEAN, Closes(s, again) PROVE FlowsInv'
    <2>1. PICK g : g = [f EXCEPT !.ask = "nothing", !.screen = NoDialog, !.reload = @ \/ again]
      OBVIOUS
    <2>2. flow' = [flow EXCEPT ![s] = g]
      BY <1>2, <1>5, <2>1 DEF Closes
    <2>3. PICK re \in BOOLEAN : re = (f.reload \/ again)
      OBVIOUS
    <2>4. g = [f EXCEPT !.ask = "nothing", !.screen = NoDialog, !.reload = re]
      BY <2>1, <2>3
    <2>5. g \in Page /\ g.item = f.item /\ g.seen = f.seen /\ g.ask = "nothing"
      BY <1>3, <2>4 DEF Page, NoDialog
    <2>6. PageFits(g)
      BY <1>3, <2>5 DEF PageFits, SeenBefore
    <2> QED BY <1>1, <2>2, <2>5, <2>6, PageGoesOn
  <1> QED BY <1>4, <1>5 DEF Dismiss, HandleTransition

(* Teams are added, and results are entered and refused. *)
LEMMA FormKeeps ==
  ASSUME FlowsInv, NEW s \in Session,
         \/ \E t \in Team : HandleAddTeam(s, t)
         \/ EnterResults(s)
         \/ \E w, ranks : HandleSubmit(s, w, ranks)
  PROVE  FlowsInv'
  <1>1. BetsGoOn /\ told' = told
    BY BetsStay, AskGoesOn DEF Asks, FlowsInv, HandleAddTeam, EnterResults, HandleSubmit, vars
  <1>2. PICK f : f = flow[s]
    OBVIOUS
  <1>3. f \in Page /\ PageFits(f)
    BY <1>2, OpenPageIs DEF HandleAddTeam, EnterResults, HandleSubmit
  <1>4. ASSUME NEW at \in {"page", "form", "refused"}, NEW re \in BOOLEAN,
               flow' = [flow EXCEPT ![s] = [f EXCEPT !.at = at, !.reload = re]]
        PROVE  FlowsInv'
    <2>1. PICK g : g = [f EXCEPT !.at = at, !.reload = re]
      OBVIOUS
    <2>2. g \in Page /\ g.item = f.item /\ g.seen = f.seen /\ g.ask = f.ask /\ g.screen = f.screen
      BY <1>3, <2>1 DEF Page
    <2>3. PageFits(g)
      BY <1>3, <2>2 DEF PageFits, SeenBefore
    <2> QED BY <1>1, <1>4, <2>1, <2>2, <2>3, PageGoesOn
  <1>5. f.at \in {"page", "form", "refused"} /\ f.reload \in BOOLEAN
    BY <1>3, PageIs
  <1>6. ASSUME NEW t \in Team, HandleAddTeam(s, t)
        PROVE  flow' = [flow EXCEPT ![s] = [f EXCEPT !.at = f.at, !.reload = TRUE]]
    BY <1>2, <1>3, <1>6 DEF HandleAddTeam, Page, FlowsInv, ChatsTypeOK
  <1>7. ASSUME NEW w, NEW ranks, HandleSubmit(s, w, ranks)
        PROVE  flow' = [flow EXCEPT ![s] = [f EXCEPT !.at = "refused", !.reload = f.reload]]
    BY <1>2, <1>3, <1>7 DEF HandleSubmit, Page, FlowsInv, ChatsTypeOK
  <1>8. ASSUME EnterResults(s)
        PROVE  \E re \in BOOLEAN : flow' = [flow EXCEPT ![s] = [f EXCEPT !.at = "form", !.reload = re]]
    <2>1. PICK old \in BOOLEAN : flow' = [flow EXCEPT ![s].at = "form", ![s].reload = @ \/ old]
      BY <1>8 DEF EnterResults
    <2>2. PICK re \in BOOLEAN : re = (f.reload \/ old)
      OBVIOUS
    <2>3. flow' = [flow EXCEPT ![s].at = "form", ![s].reload = re]
      BY <1>2, <1>3, <2>1, <2>2 DEF Page, FlowsInv, ChatsTypeOK
    <2>4. flow' = [flow EXCEPT ![s] = [f EXCEPT !.at = "form", !.reload = re]]
      BY <1>2, <1>3, <2>3 DEF Page, FlowsInv, ChatsTypeOK
    <2> QED BY <2>4
  <1> QED BY <1>4, <1>5, <1>6, <1>7, <1>8

-----------------------------------------------------------------------------
(* The invariant. *)
LEMMA FlowsInitInv == FlowsInit => FlowsInv
  <1> SUFFICES ASSUME FlowsInit PROVE FlowsInv
    OBVIOUS
  <1>1. BetsTypeOK /\ ResultsAreLate
    BY DEF FlowsInit, BettingInit, BetsTypeOK, ResultsAreLate, Results,
           MatchStatus, MarketStatus, StakeStatus
  <1>2. ChatsTypeOK
    BY QuietFlows DEF FlowsInit, ChatsTypeOK, StakeStatus
  <1>3. ToldAreResults
    BY DEF FlowsInit, ToldAreResults
  <1>4. ASSUME NEW s \in Session PROVE ChatFits(flow[s]) /\ PageFits(flow[s])
    BY QuietFlows DEF FlowsInit, ChatFits, PageFits
  <1> QED BY <1>1, <1>2, <1>3, <1>4 DEF FlowsInv

(* Every step keeps the invariant. *)
LEMMA PagesNextInv == FlowsInv /\ [PagesNext]_allVars => FlowsInv'
  <1> SUFFICES ASSUME FlowsInv, [PagesNext]_allVars PROVE FlowsInv'
    OBVIOUS
  <1>1. ASSUME NEW s \in Session, Member(s) PROVE FlowsInv'
    BY <1>1, CommandKeeps, ClickKeeps, EndOfCommandKeeps DEF Member
  <1>2. ASSUME NEW s \in Session, Bot(s) PROVE FlowsInv'
    BY <1>2, FirstStepKeeps, SecondStepKeeps, LastStepKeeps, BreaksKeep, EndOfCommandKeeps, NotifyKeeps
       DEF Bot
  <1>3. CASE Meanwhile
    <2>1. BetsGoOn
      BY <1>3, ElsewhereGoesOn DEF FlowsInv
    <2> QED BY <1>3, <2>1, SameFlowsKeep DEF Meanwhile
  <1>4. CASE FlowsNext
    BY <1>1, <1>2, <1>3, <1>4, EndOfCommandKeeps, BreaksKeep DEF FlowsNext, Meanwhile
  <1>5. ASSUME NEW s \in Session, OnPages(s) PROVE FlowsInv'
    BY <1>5, ReadingKeeps, DialogKeeps, FormKeeps DEF OnPages
  <1>6. CASE UNCHANGED allVars
    <2>1. BetsGoOn
      BY <1>6, BetsStay DEF allVars, vars, FlowsInv
    <2> QED BY <1>6, <2>1, SameFlowsKeep DEF allVars
  <1> QED BY <1>3, <1>4, <1>5, <1>6 DEF PagesNext, Meanwhile

(* What conversations and pages hold fits the tables in every state, whatever the   *)
(* rest of the program does while they wait for a click (discord-bot/commands,     *)
(* app/admin/matches/[id]).                                                        *)
THEOREM ChatsInvariant == PagesSpec => []FlowsInv
  BY FlowsInitInv, PagesNextInv, PTL DEF PagesSpec

(* The result a member is sent of a stake (betting-notify.service.ts) is the       *)
(* result in the table, and stays it: no stake changes its result.              *)
THEOREM BettorsToldTheTruth == PagesSpec => []ToldTheResult
  <1>1. FlowsInv => ToldTheResult
    BY DEF FlowsInv, ToldAreResults, ToldTheResult
  <1> QED BY <1>1, ChatsInvariant, PTL
-----------------------------------------------------------------------------
(* What a step does to the bets.                                                *)

(* A step leaves the bets alone, is of others than those who talk, or ends a    *)
(* conversation or a dialog.                                                    *)
LEMMA StepsAre ==
  ASSUME [PagesNext]_allVars
  PROVE  UNCHANGED vars \/ Meanwhile \/ \E s \in Session : Asks(s)
  <1>1. ASSUME NEW s \in Session, Member(s) PROVE UNCHANGED vars \/ Asks(s)
    BY <1>1 DEF Member, Bet, RankPredict, AdminBettingLock, AdminBettingSettle, Begin,
                Clicks, LoseClick, Asks
  <1>2. ASSUME NEW s \in Session, Bot(s) PROVE UNCHANGED vars \/ Asks(s)
    BY <1>2 DEF Bot, BetStep1, RankStep1, LockStep1, SettleStep1, Step1, BetStep2, RankStep2,
                SettleStep2, Step2, LockStep2, SettleStep3, TimesOut, NotifyBettors, Asks
  <1>3. ASSUME NEW s \in Session, OnPages(s) PROVE UNCHANGED vars \/ Asks(s)
    BY <1>3 DEF OnPages, OpenPage, LeavePage, Reload, Reconnect, Press, Dismiss, EnterResults,
                HandleSubmit, Asks
  <1>4. CASE FlowsNext
    BY <1>1, <1>2, <1>4 DEF FlowsNext, Restart, Asks, Meanwhile
  <1> QED BY <1>3, <1>4 DEF PagesNext, Meanwhile, allVars

(* The conversation that ends in a stake has chosen a market and a side of it.  *)
LEMMA StakersChose ==
  ASSUME FlowsInv, NEW s \in Session, NEW amt, SubmitBet(s, amt) \/ SubmitRank(s, amt)
  PROVE  /\ flow[s] \in Chat /\ flow[s].item \in Market
         /\ ListFits(flow[s]) /\ TeamsStay(flow[s]) /\ SideAccepted(flow[s], flow[s].side)
         /\ flow[s].cmd \in {"bet", "rank"}
  <1>1. flow[s].at = "modal" /\ flow[s] # Idle /\ flow[s].cmd \in {"bet", "rank"}
    BY DEF SubmitBet, SubmitRank, SubmitAmount, Dialogue
  <1>2. flow[s] \in Chat /\ ListFits(flow[s]) /\ StepFits(flow[s]) /\ TeamsStay(flow[s])
    BY <1>1, FlowIs DEF FlowsInv, ChatsTypeOK, ChatFits, Command
  <1> QED BY <1>1, <1>2 DEF ListFits, StepFits

(* Of all that happens only /bet and /rank stake. *)
LEMMA StakesMove ==
  ASSUME FlowsInv, [PagesNext]_allVars
  PROVE  \/ stake' = stake
         \/ \E s \in Session, amt \in StakeAmount :
              /\ SubmitBet(s, amt) \/ SubmitRank(s, amt)
              /\ PlaceStake(flow[s].item, flow[s].user, flow[s].side, amt)
  <1>1. UNCHANGED vars => stake' = stake
    BY DEF vars, bettingVars, stakeVars
  <1>2. ASSUME NEW m, OpenBetting(m) \/ LockMatch(m) \/ CancelMatch(m) \/ CreateMatch(m)
        PROVE  stake' = stake
    BY <1>2 DEF OpenBetting, LockMatch, CloseBetting, CancelMatch, CallOff, Cancel, CreateMatch, stakeVars
  <1>3. ASSUME NEW m, NEW w, NEW p, SettleMatch(m, w, p) PROVE stake' = stake
    BY <1>3 DEF SettleMatch, EnterResult, Settle
  <1>4. ASSUME NEW m, NEW t, CreateTeam(m, t) PROVE stake' = stake
    BY <1>4 DEF CreateTeam, stakeVars
  <1>5. ASSUME Meanwhile PROVE stake' = stake
    BY <1>2, <1>3, <1>5 DEF Meanwhile, Elsewhere, AdminBettingStart, CreateBettingScenario, stakeVars,
       CheckNoMarket, InsertMarket, LockMarket, CancelMarket, Cancel, bettingVars
  <1>6. ASSUME NEW s \in Session, NEW amt \in StakeAmount, SubmitBet(s, amt) \/ SubmitRank(s, amt)
        PROVE  stake' = stake \/ PlaceStake(flow[s].item, flow[s].user, flow[s].side, amt)
    BY <1>1, <1>6 DEF SubmitBet, SubmitRank, SubmitAmount
  <1>7. ASSUME NEW s \in Session, LockConfirmed(s) \/ SettleConfirmed(s) PROVE stake' = stake
    BY <1>1, <1>2, <1>3, <1>7 DEF LockConfirmed, SettleConfirmed
  <1>8. ASSUME NEW s \in Session, NEW m, NEW w, NEW p, WebSettle(s, m, w, p) PROVE stake' = stake
    BY <1>3, <1>8 DEF WebSettle
  <1>9. ASSUME NEW s \in Session, NEW t, HandleTransition(s) \/ HandleAddTeam(s, t) PROVE stake' = stake
    BY <1>1, <1>2, <1>4, <1>9 DEF HandleTransition, HandleAddTeam
  <1> QED BY <1>1, <1>5, <1>6, <1>7, <1>8, <1>9, StepsAre DEF Asks

(* The tables the action properties speak of. *)
TablesOK ==
  /\ stake \in [Market -> [User -> [Side -> Int]]]
  /\ winnerTeam \in [Match -> Side \cup {None}]

(* Of the stakes only those on side x of market k change. *)
StakesOnlyOn(k, x) ==
  /\ stake' \in [Market -> [User -> [Side -> Int]]]
  /\ \A j \in Market, u \in User, y \in Side :
       stake'[j][u][y] # stake[j][u][y] => j = k /\ y = x

(* A stake is added to one side of one market. *)
LEMMA StakeAddsTo ==
  ASSUME TablesOK, NEW k \in Market, NEW u, NEW x \in Side, NEW amt \in StakeAmount, AddStake(k, u, x, amt)
  PROVE  StakesOnlyOn(k, x)
  <1>1. PICK row : row = [stake[k] EXCEPT ![u][x] = @ + amt]
    OBVIOUS
  <1>2. stake' = [stake EXCEPT ![k] = row]
    BY <1>1 DEF AddStake
  <1>3. PICK old : old = stake[k] /\ old \in [User -> [Side -> Int]]
    BY DEF TablesOK
  <1>4. amt \in Int
    BY StakeAmountAssumption
  <1>5. row \in [User -> [Side -> Int]] /\ \A v \in User, y \in Side : row[v][y] # old[v][y] => y = x
    <2>1. CASE u \in User
      <3>1. row = [old EXCEPT ![u] = [old[u] EXCEPT ![x] = old[u][x] + amt]]
        BY <1>1, <1>3
      <3>2. old[u] \in [Side -> Int] /\ old[u][x] + amt \in Int
        BY <1>3, <1>4, <2>1
      <3> QED BY <1>3, <3>1, <3>2
    <2>2. CASE u \notin User
      <3>1. PICK new : row = [old EXCEPT ![u] = new]
        BY <1>1, <1>3
      <3> QED BY <1>3, <2>2, <3>1
    <2> QED BY <2>1, <2>2
  <1>6. stake' \in [Market -> [User -> [Side -> Int]]]
    BY <1>2, <1>5 DEF TablesOK
  <1>7. \A j \in Market : stake'[j] = IF j = k THEN row ELSE stake[j]
    BY <1>2 DEF TablesOK
  <1> QED BY <1>3, <1>5, <1>6, <1>7 DEF StakesOnlyOn

(* The stake a conversation ends in is on the side it has chosen. *)
LEMMA StakesWhatWasChosen ==
  ASSUME FlowsInv, TablesOK, NEW s \in Session, NEW amt \in StakeAmount,
         SubmitBet(s, amt) \/ SubmitRank(s, amt),
         PlaceStake(flow[s].item, flow[s].user, flow[s].side, amt)
  PROVE  /\ flow[s].side \in Side /\ ValidateSide(flow[s].item, flow[s].side)
         /\ StakesOnlyOn(flow[s].item, flow[s].side)
  <1>1. PICK k, u, x : k \in Market /\ k = flow[s].item /\ u = flow[s].user /\ x = flow[s].side
    BY StakersChose
  <1>2. AddStake(k, u, x, amt)
    BY <1>1 DEF PlaceStake
  <1>3. ValidateSide(k, x)
    BY <1>2 DEF AddStake
  <1>4. x \in Side
    BY <1>3 DEF ValidateSide, Side
  <1>5. StakesOnlyOn(k, x)
    BY <1>1, <1>2, <1>4, StakeAddsTo
  <1> QED BY <1>1, <1>3, <1>4, <1>5

(* Only a settlement names a winner. *)
LEMMA WinnersMove ==
  ASSUME FlowsInv, [PagesNext]_allVars
  PROVE  \/ winnerTeam' = winnerTeam
         \/ \E m \in Match, w \in Side \cup {None} : winnerTeam' = [winnerTeam EXCEPT ![m] = w]
  <1>1. UNCHANGED vars => winnerTeam' = winnerTeam
    BY DEF vars, bettingVars, matchVars
  <1>2. ASSUME NEW m, OpenBetting(m) \/ LockMatch(m) \/ CancelMatch(m) \/ CreateMatch(m)
        PROVE  winnerTeam' = winnerTeam
    BY <1>2 DEF OpenBetting, LockMatch, CloseBetting, CancelMatch, CallOff, CreateMatch
  <1>3. ASSUME NEW m, NEW w, NEW p, SettleMatch(m, w, p) PROVE winnerTeam' = [winnerTeam EXCEPT ![m] = w]
    BY <1>3 DEF SettleMatch, EnterResult
  <1>4. ASSUME NEW m, NEW t, CreateTeam(m, t) PROVE winnerTeam' = winnerTeam
    BY <1>4 DEF CreateTeam
  <1>5. Team \subseteq Side
    BY DEF Side
  <1>6. CASE Meanwhile
    BY <1>2, <1>3, <1>5, <1>6 DEF Meanwhile, Elsewhere, AdminBettingStart, CreateBettingScenario, matchVars,
       CheckNoMarket, InsertMarket, LockMarket, CancelMarket, bettingVars
  <1>7. ASSUME NEW s \in Session, NEW amt, SubmitBet(s, amt) \/ SubmitRank(s, amt)
        PROVE  winnerTeam' = winnerTeam
    BY <1>1, <1>7 DEF SubmitBet, SubmitRank, SubmitAmount, PlaceStake, AddStake, matchVars
  <1>8. ASSUME NEW s \in Session, LockConfirmed(s) PROVE winnerTeam' = winnerTeam
    BY <1>1, <1>2, <1>8 DEF LockConfirmed
  <1>9. ASSUME NEW s \in Session, SettleConfirmed(s)
        PROVE  \/ winnerTeam' = winnerTeam
               \/ \E m \in Match, w \in Side \cup {None} : winnerTeam' = [winnerTeam EXCEPT ![m] = w]
    <2>1. flow[s].at = "settle" /\ flow[s] # Idle
      BY <1>9 DEF SettleConfirmed
    <2>2. flow[s] \in Chat /\ ListFits(flow[s]) /\ StepFits(flow[s])
      BY <2>1, FlowIs DEF FlowsInv, ChatsTypeOK, ChatFits, Point
    <2>3. flow[s].item \in Match /\ flow[s].side \in Side \cup {None}
      BY <2>1, <2>2, ChatIs DEF ListFits, StepFits
    <2> QED BY <1>1, <1>3, <1>9, <2>3 DEF SettleConfirmed
  <1>10. ASSUME NEW s \in Session, NEW m \in Match, NEW w \in Team, NEW p, WebSettle(s, m, w, p)
         PROVE  \E n \in Match, v \in Side \cup {None} : winnerTeam' = [winnerTeam EXCEPT ![n] = v]
    BY <1>3, <1>5, <1>10 DEF WebSettle
  <1>11. ASSUME NEW s \in Session, NEW t, HandleTransition(s) \/ HandleAddTeam(s, t)
         PROVE  winnerTeam' = winnerTeam
    BY <1>1, <1>2, <1>4, <1>11 DEF HandleTransition, HandleAddTeam
  <1> QED BY <1>1, <1>6, <1>7, <1>8, <1>9, <1>10, <1>11, StepsAre DEF Asks

(* The tables keep their shape. *)
LEMMA TablesKeep == FlowsInv /\ TablesOK /\ [PagesNext]_allVars => TablesOK'
  <1> SUFFICES ASSUME FlowsInv, TablesOK, [PagesNext]_allVars PROVE TablesOK'
    OBVIOUS
  <1>1. stake' \in [Market -> [User -> [Side -> Int]]]
    BY StakesMove, StakesWhatWasChosen DEF TablesOK, StakesOnlyOn
  <1>2. winnerTeam' \in [Match -> Side \cup {None}]
    BY WinnersMove DEF TablesOK
  <1> QED BY <1>1, <1>2 DEF TablesOK

(* So they are at the start. *)
LEMMA TablesInit == FlowsInit => TablesOK
  BY DEF FlowsInit, BettingInit, TablesOK

(* Whatever is clicked, a command stakes points only on a team of the match or a place. *)
LEMMA StakesOnSides ==
  ASSUME FlowsInv, TablesOK, [PagesNext]_allVars,
         NEW k \in Market, NEW u \in User, NEW x \in Side, stake'[k][u][x] # stake[k][u][x]
  PROVE  IF k \in WinMarket THEN x \in Team /\ teamMatch[x] = MatchOf[k] ELSE x \in Place
  <1>1. PICK s \in Session, amt \in StakeAmount :
          /\ SubmitBet(s, amt) \/ SubmitRank(s, amt)
          /\ PlaceStake(flow[s].item, flow[s].user, flow[s].side, amt)
    BY StakesMove
  <1>2. PICK f : f = flow[s]
    OBVIOUS
  <1>3. k = f.item /\ x = f.side /\ ValidateSide(k, x)
    BY <1>1, <1>2, StakesWhatWasChosen DEF StakesOnlyOn
  <1>4. /\ f \in Chat /\ ListFits(f) /\ TeamsStay(f) /\ SideAccepted(f, x) /\ f.cmd \in {"bet", "rank"}
    BY <1>1, <1>2, <1>3, StakersChose
  <1>5. CASE k \notin WinMarket
    BY <1>3, <1>5 DEF ValidateSide
  <1>6. CASE k \in WinMarket
    <2>1. f.item \in f.list
      <3>1. f.at = "modal"
        BY <1>1, <1>2 DEF SubmitBet, SubmitRank, SubmitAmount
      <3> QED BY <1>4, <3>1 DEF ListFits
    <2>2. f.cmd # "rank"
      BY <1>3, <1>4, <1>6, <2>1 DEF ListFits
    <2>3. x \in Team /\ f.teams[x] = MatchOf[k]
      BY <1>3, <1>4, <2>2 DEF SideAccepted, TeamsOf, MatchOfItem
    <2>4. MatchOf[k] # None
      BY MarketAssumption, NoneAssumption
    <2> QED BY <1>4, <1>6, <2>3, <2>4 DEF TeamsStay
  <1> QED BY <1>5, <1>6

(* The shape of the tables joins the invariant. *)
LEMMA TablesInvariant == PagesSpec => [](FlowsInv /\ TablesOK)
  <1>1. FlowsInit => FlowsInv /\ TablesOK
    BY FlowsInitInv, TablesInit
  <1>2. FlowsInv /\ TablesOK /\ [PagesNext]_allVars => (FlowsInv /\ TablesOK)'
    BY PagesNextInv, TablesKeep
  <1> QED BY <1>1, <1>2, PTL DEF PagesSpec

(* /bet and /rank stake only on a team of the market's match, or on a place, though *)
(* a click may be late and betting.service.ts takes any uuid for a team.           *)
THEOREM StakesAreOnSides == PagesSpec => CommandsStakeOnSides
  <1> DEFINE A == \A k \in Market, u \in User, x \in Side :
                    flow' # flow /\ stake'[k][u][x] # stake[k][u][x] =>
                      IF k \in WinMarket THEN x \in Team /\ teamMatch[x] = MatchOf[k] ELSE x \in Place
  <1>1. FlowsInv /\ TablesOK /\ [PagesNext]_allVars => [A]_allVars
    BY StakesOnSides
  <1>2. CommandsStakeOnSides <=> [][A]_allVars
    BY DEF CommandsStakeOnSides
  <1> HIDE DEF A
  <1> QED BY <1>1, <1>2, TablesInvariant, PTL DEF PagesSpec

(* A conversation or page is changed by its own member only. *)
LEMMA OwnFlow ==
  ASSUME FlowsInv, NEW s \in Session, NEW r \in Session, r # s, Asks(r)
  PROVE  flow'[s] = flow[s]
  BY DEF FlowsInv, ChatsTypeOK, Asks, SubmitBet, SubmitRank, SubmitAmount, LockConfirmed,
         SettleConfirmed, WebSettle, HandleTransition, HandleAddTeam, Ends, Closes

(* Of all requests only three kinds change matches that exist, each the match it asked about. *)
LEMMA MatchesAskedFor ==
  ASSUME FlowsInv, TablesOK, NEW s \in Session, Asks(s), flow[s] # Idle,
         NEW m \in Match, matchStatus'[m] # matchStatus[m]
  PROVE  /\ flow[s].item = m /\ flow[s].screen.menu = "confirm" /\ flow[s].screen.item = m
         /\ matchStatus'[m] = "SETTLED" => flow[s].screen.side = winnerTeam'[m]
  <1> USE DEF FlowsInv
  <1>1. UNCHANGED vars => matchStatus' = matchStatus
    BY DEF vars, bettingVars, matchVars
  <1>2. ASSUME NEW n, NEW to, matchStatus' = [matchStatus EXCEPT ![n] = to]
        PROVE  m = n /\ matchStatus'[m] = to
    BY <1>2 DEF BetsTypeOK
  <1>3. ASSUME NEW amt, SubmitBet(s, amt) \/ SubmitRank(s, amt) PROVE FALSE
    BY <1>1, <1>3 DEF SubmitBet, SubmitRank, SubmitAmount, PlaceStake, AddStake, matchVars
  <1>4. ASSUME NEW n \in Match, NEW w, NEW p, WebSettle(s, n, w, p) PROVE FALSE
    BY <1>4 DEF WebSettle
  <1>5. ASSUME NEW t, HandleAddTeam(s, t) PROVE FALSE
    BY <1>5 DEF HandleAddTeam, CreateTeam
  <1>6. CASE LockConfirmed(s)
    <2>1. PICK f : f = flow[s]
      OBVIOUS
    <2>2. f.at = "lock" /\ LockMatch(f.item)
      BY <1>1, <1>6, <2>1 DEF LockConfirmed
    <2>3. f \in Chat /\ StepFits(f)
      BY <2>1, <2>2, FlowIs DEF ChatsTypeOK, ChatFits, Point
    <2>4. f.screen = Confirmation(f.item, None)
      BY <2>2, <2>3 DEF StepFits
    <2>5. m = f.item /\ matchStatus'[m] = "LOCKED"
      BY <1>2, <2>2 DEF LockMatch, CloseBetting
    <2> QED BY <2>1, <2>4, <2>5 DEF Confirmation
  <1>7. CASE SettleConfirmed(s)
    <2>1. PICK f : f = flow[s]
      OBVIOUS
    <2>2. f.at = "settle" /\ SettleMatch(f.item, f.side, None)
      BY <1>1, <1>7, <2>1 DEF SettleConfirmed
    <2>3. f \in Chat /\ StepFits(f)
      BY <2>1, <2>2, FlowIs DEF ChatsTypeOK, ChatFits, Point
    <2>4. f.screen = Confirmation(f.item, f.side)
      BY <2>2, <2>3 DEF StepFits
    <2>5. /\ matchStatus' = [matchStatus EXCEPT ![f.item] = "SETTLED"]
          /\ winnerTeam' = [winnerTeam EXCEPT ![f.item] = f.side]
      BY <2>2 DEF SettleMatch, EnterResult
    <2>6. m = f.item /\ winnerTeam'[m] = f.side
      BY <1>2, <2>5 DEF TablesOK
    <2> QED BY <2>1, <2>4, <2>6 DEF Confirmation
  <1>8. CASE HandleTransition(s)
    <2>1. PICK f : f = flow[s]
      OBVIOUS
    <2>2. f.ask # "nothing" /\ (OpenBetting(f.item) \/ LockMatch(f.item) \/ CancelMatch(f.item))
      BY <1>1, <1>8, <2>1 DEF HandleTransition
    <2>3. f \in Page /\ PageFits(f)
      BY <1>8, <2>1, OpenPageIs DEF HandleTransition
    <2>4. f.screen = Confirmation(f.item, None)
      BY <2>2, <2>3 DEF PageFits
    <2>5. PICK to \in {"BETTING_OPEN", "LOCKED", "CANCELLED"} :
            matchStatus' = [matchStatus EXCEPT ![f.item] = to]
      BY <2>2 DEF OpenBetting, LockMatch, CloseBetting, CancelMatch, CallOff
    <2>6. m = f.item /\ matchStatus'[m] = to
      BY <1>2, <2>5
    <2> QED BY <2>1, <2>4, <2>6 DEF Confirmation
  <1> QED BY <1>3, <1>4, <1>5, <1>6, <1>7, <1>8 DEF Asks

(* So whoever changes a match while he talks has been asked about it. *)
LEMMA OnlyAsConfirmed ==
  ASSUME FlowsInv, TablesOK, [PagesNext]_allVars, NEW s \in Session, NEW m \in Match,
         flow[s] # Idle, flow'[s] # flow[s], matchStatus'[m] # matchStatus[m]
  PROVE  /\ Asks(s) /\ flow[s].item = m /\ flow[s].screen.menu = "confirm" /\ flow[s].screen.item = m
         /\ matchStatus'[m] = "SETTLED" => flow[s].screen.side = winnerTeam'[m]
  <1>1. ~ UNCHANGED vars /\ ~ Meanwhile
    BY DEF vars, bettingVars, matchVars, Meanwhile, flowVars
  <1>2. Asks(s)
    BY <1>1, StepsAre, OwnFlow
  <1> QED BY <1>2, MatchesAskedFor

(* /admin lock, /admin settle and the dialogs of the match page change the match,  *)
(* and name the winner, that the question on the screen was about: no late click    *)
(* gets past a redrawn menu.                                                       *)
THEOREM AdminsConfirmed == PagesSpec => AsConfirmed
  <1>1. FlowsInv /\ TablesOK /\ [PagesNext]_allVars =>
          [\A s \in Session, m \in Match :
            /\ flow[s] # Idle /\ flow'[s] # flow[s]
            /\ matchStatus'[m] # matchStatus[m]
            => /\ flow[s].screen.menu = "confirm" /\ flow[s].screen.item = m
               /\ matchStatus'[m] = "SETTLED" => flow[s].screen.side = winnerTeam'[m]]_allVars
    BY OnlyAsConfirmed
  <1> QED BY <1>1, TablesInvariant, PTL DEF PagesSpec, AsConfirmed

(* A page opens a match that is a draft, and locks one that is open. *)
LEMMA OnlyWhatIsShown ==
  ASSUME FlowsInv, TablesOK, [PagesNext]_allVars, NEW s \in Session,
         OnPage(s, {"page"}), flow[s].ask \in {"open", "lock"},
         flow'[s] # flow[s], matchStatus' # matchStatus
  PROVE  flow[s].seen = matchStatus[flow[s].item]
  <1> USE DEF FlowsInv
  <1>1. ~ UNCHANGED vars /\ ~ Meanwhile
    BY DEF vars, bettingVars, matchVars, Meanwhile, flowVars
  <1>2. Asks(s)
    BY <1>1, StepsAre, OwnFlow
  <1>3. PICK f : f = flow[s]
    OBVIOUS
  <1>4. f \in Page /\ PageFits(f) /\ f.at = "page" /\ f.cmd = "page" /\ f # Idle
    BY <1>3, OpenPageIs, PageIs
  <1>5. HandleTransition(s)
    BY <1>2, <1>3, <1>4 DEF Asks, SubmitBet, SubmitRank, SubmitAmount, LockConfirmed, SettleConfirmed,
       WebSettle, HandleAddTeam, CreateTeam, Dialogue
  <1>6. \/ f.ask = "open" /\ OpenBetting(f.item)
        \/ f.ask = "lock" /\ LockMatch(f.item)
    BY <1>3, <1>5 DEF HandleTransition, vars, bettingVars, matchVars
  <1>7. \/ matchStatus[f.item] = "DRAFT"
        \/ f.ask = "lock" /\ matchStatus[f.item] = "BETTING_OPEN"
    BY <1>6 DEF OpenBetting, LockMatch, CloseBetting, AssertTransition, Transition
  <1> QED BY <1>3, <1>4, <1>6, <1>7 DEF PageFits, SeenBefore

(* The match page opens or locks a match only from the status it shows, however    *)
(* old that is: a match never returns to a status (MATCH_STATUS_TRANSITIONS).      *)
THEOREM PagesAreNotMisled == PagesSpec => PagesChangeWhatTheyShow
  <1>1. FlowsInv /\ TablesOK /\ [PagesNext]_allVars =>
          [\A s \in Session :
            /\ OnPage(s, {"page"}) /\ flow[s].ask \in {"open", "lock"}
            /\ flow'[s] # flow[s] /\ matchStatus' # matchStatus
            => flow[s].seen = matchStatus[flow[s].item]]_allVars
    BY OnlyWhatIsShown
  <1> QED BY <1>1, TablesInvariant, PTL DEF PagesSpec, PagesChangeWhatTheyShow
=============================================================================
