--------------------------- MODULE LedgerTxProofs ---------------------------
(***************************************************************************)
(* Proofs about LedgerTx: whatever transactions interleave, wait, deadlock, *)
(* fail or crash, a balance stays what its ledger rows add up to as long as *)
(* no request saves its entity; and when nobody saves entities the sessions *)
(* do to the ledger only what serial transactions of module Ledger do.      *)
(***************************************************************************)
EXTENDS LedgerTx, LedgerProofs

(* Every leg, made or still to be made, passed the checks of its parameters.  *)
LegAllowed(leg) == TransferAllowed(leg.from, leg.to, leg.amt)
LegsAllowed ==
  \A s \in Session :
    /\ \A i \in DOMAIN legs[s] : LegAllowed(legs[s][i])
    /\ \A i \in DOMAIN done[s] : LegAllowed(done[s][i])

(* A row is locked by one session at a time, and is not deleted meanwhile.     *)
OneHolder == \A u \in User : \A s, t \in holders[u] : s = t
HeldIsOpen == \A u \in User : holders[u] # {} => account[u] = "open"

(* A session has moved points only between rows it holds.                     *)
DoneIsHeld ==
  \A s \in Session : \A i \in DOMAIN done[s] : \A u \in RowsOf(done[s][i]) : s \in holders[u]

(* An entity that is being saved was read from a row.                         *)
SavesWhatWasRead ==
  \A s \in Session : pc[s] \in {"read", "reloaded"} =>
    target[s] \in SaveTarget /\ account[target[s]] # "none"

LocksInv ==
  /\ TxTypeOK
  /\ LegsAllowed
  /\ OneHolder
  /\ HeldIsOpen
  /\ DoneIsHeld
  /\ SavesWhatWasRead
  /\ LockedRowIsCurrent
  /\ NobodyOwnsBeforeJoining
  /\ UnsavedBalanceIsLedgerSum

-----------------------------------------------------------------------------
(* The transactions of the services: one transfer, or mints to anybody.        *)
ServicePrograms ==
  \A prog \in Program : Len(prog) = 1 \/ \A i \in DOMAIN prog : prog[i].from = SINK

MintsOnly(L) == \A i \in DOMAIN L : L[i].from = SINK

(* What a session has left to do and has done is such a transaction.           *)
RunsServices ==
  \A s \in Session :
    \/ Len(done[s]) + Len(legs[s]) <= 1
    \/ MintsOnly(done[s]) /\ MintsOnly(legs[s])

(* What mints issue is what they give to users together.                       *)
MintsAddUp ==
  \A s \in Session : MintsOnly(done[s]) =>
    MovedFrom(done[s], SINK)
      = SumFunctionOnSet([u \in User |-> MovedTo(done[s], u)], User)

(* No session has computed an overdrawn balance for a row it holds.            *)
WorkCovered == \A s \in Session, u \in User : s \in holders[u] => work[s][u] >= 0

SerialInv ==
  /\ LocksInv
  /\ LedgerInv
  /\ RunsServices
  /\ MintsAddUp
  /\ WorkCovered

-----------------------------------------------------------------------------
(* What a sequence of legs moves.                                              *)

(* Only the value at n + 1 is added when a function on 1 .. n is extended.      *)
LEMMA SumNext ==
  ASSUME NEW n \in Nat, NEW f, NEW g,
         \A i \in 1 .. n : f[i] \in Int /\ g[i] = f[i], g[n + 1] \in Int
  PROVE  SumFunctionOnSet(g, 1 .. n + 1) = SumFunctionOnSet(f, 1 .. n) + g[n + 1]
  <1>1. IsFiniteSet(1 .. n) /\ IsFiniteSet(1 .. n + 1)
    BY FS_Interval
  <1>2. n + 1 \in 1 .. n + 1 /\ (1 .. n + 1) \ {n + 1} = 1 .. n
    OBVIOUS
  <1>3. \A i \in 1 .. n + 1 : g[i] \in Int
    OBVIOUS
  <1>4. SumFunctionOnSet(g, 1 .. n + 1)
          = g[n + 1] + SumFunctionOnSet(g, (1 .. n + 1) \ {n + 1})
    BY <1>1, <1>2, <1>3, SumRemove
  <1>5. SumFunctionOnSet(g, 1 .. n) = SumFunctionOnSet(f, 1 .. n)
    BY <1>1, SumCong
  <1>6. SumFunctionOnSet(f, 1 .. n) \in Int
    BY <1>1, SumType
  <1>7. \A x, y \in Int : x + y = y + x
    OBVIOUS
  <1>8. SumFunctionOnSet(g, 1 .. n + 1) = g[n + 1] + SumFunctionOnSet(f, 1 .. n)
    BY <1>2, <1>4, <1>5, Zenon
  <1> QED BY <1>6, <1>7, <1>8

(* The amounts of the legs to an account, and of those from it, as functions.   *)
ToAmounts(L, a) == [i \in DOMAIN L |-> IF L[i].to = a THEN L[i].amt ELSE 0]
FromAmounts(L, a) == [i \in DOMAIN L |-> IF L[i].from = a THEN L[i].amt ELSE 0]

(* The amount of a leg.                                                        *)
LEMMA LegAmount == \A leg \in Leg : leg.amt \in Int
  BY AmountAssumption DEF Leg

(* What legs move are integers.                                                *)
LEMMA MovedType ==
  ASSUME NEW L \in Seq(Leg), NEW a
  PROVE  MovedTo(L, a) \in Int /\ MovedFrom(L, a) \in Int
  <1>1. IsFiniteSet(DOMAIN L)
    <2>1. DOMAIN L = 1 .. Len(L) /\ Len(L) \in Nat
      OBVIOUS
    <2> QED BY <2>1, FS_Interval
  <1>2. \A i \in DOMAIN L : L[i].amt \in Int
    <2>1. \A i \in DOMAIN L : L[i] \in Leg
      OBVIOUS
    <2> QED BY <2>1, LegAmount
  <1>3. (\A i \in DOMAIN L : ToAmounts(L, a)[i] \in Int)
        /\ (\A i \in DOMAIN L : FromAmounts(L, a)[i] \in Int)
    BY <1>2 DEF ToAmounts, FromAmounts
  <1>4. SumFunctionOnSet(ToAmounts(L, a), DOMAIN L) \in Int
        /\ SumFunctionOnSet(FromAmounts(L, a), DOMAIN L) \in Int
    BY <1>1, <1>3, SumType
  <1> QED BY <1>4 DEF MovedTo, MovedFrom, ToAmounts, FromAmounts

(* Legs that passed the checks move no negative amount.                        *)
LEMMA MovedNonNegative ==
  ASSUME NEW L \in Seq(Leg), \A i \in DOMAIN L : LegAllowed(L[i]), NEW a
  PROVE  MovedTo(L, a) \in Nat /\ MovedFrom(L, a) \in Nat
  <1>1. IsFiniteSet(DOMAIN L)
    <2>1. DOMAIN L = 1 .. Len(L) /\ Len(L) \in Nat
      OBVIOUS
    <2> QED BY <2>1, FS_Interval
  <1>2. \A i \in DOMAIN L : L[i].amt \in Nat
    <2>1. \A i \in DOMAIN L : L[i].amt \in Int
      <3>1. \A i \in DOMAIN L : L[i] \in Leg
        OBVIOUS
      <3> QED BY <3>1, LegAmount
    <2>2. \A i \in DOMAIN L : L[i].amt > 0
      BY DEF LegAllowed, TransferAllowed
    <2> QED BY <2>1, <2>2
  <1>3. (\A i \in DOMAIN L : ToAmounts(L, a)[i] \in Nat)
        /\ (\A i \in DOMAIN L : FromAmounts(L, a)[i] \in Nat)
    BY <1>2 DEF ToAmounts, FromAmounts
  <1>4. SumFunctionOnSet(ToAmounts(L, a), DOMAIN L) \in Nat
        /\ SumFunctionOnSet(FromAmounts(L, a), DOMAIN L) \in Nat
    BY <1>1, <1>3, SumNonNegative
  <1> QED BY <1>4 DEF MovedTo, MovedFrom, ToAmounts, FromAmounts

(* Legs none of which is to an account move nothing to it; the same from it.    *)
LEMMA MovedNothing ==
  ASSUME NEW L \in Seq(Leg), NEW a
  PROVE  /\ (\A i \in DOMAIN L : L[i].to # a) => MovedTo(L, a) = 0
         /\ (\A i \in DOMAIN L : L[i].from # a) => MovedFrom(L, a) = 0
  <1>1. IsFiniteSet(DOMAIN L)
    <2>1. DOMAIN L = 1 .. Len(L) /\ Len(L) \in Nat
      OBVIOUS
    <2> QED BY <2>1, FS_Interval
  <1>2. ASSUME \A i \in DOMAIN L : L[i].to # a PROVE MovedTo(L, a) = 0
    <2>1. \A i \in DOMAIN L : ToAmounts(L, a)[i] = 0
      BY <1>2 DEF ToAmounts
    <2>2. SumFunctionOnSet(ToAmounts(L, a), DOMAIN L) = 0
      BY <1>1, <2>1, SumOfZeros
    <2> QED BY <2>2 DEF MovedTo, ToAmounts
  <1>3. ASSUME \A i \in DOMAIN L : L[i].from # a PROVE MovedFrom(L, a) = 0
    <2>1. \A i \in DOMAIN L : FromAmounts(L, a)[i] = 0
      BY <1>3 DEF FromAmounts
    <2>2. SumFunctionOnSet(FromAmounts(L, a), DOMAIN L) = 0
      BY <1>1, <2>1, SumOfZeros
    <2> QED BY <2>2 DEF MovedFrom, FromAmounts
  <1> QED BY <1>2, <1>3

(* The empty sequence moves nothing.                                           *)
LEMMA MovedEmpty == ASSUME NEW a PROVE MovedTo(<< >>, a) = 0 /\ MovedFrom(<< >>, a) = 0
  <1>1. << >> \in Seq(Leg) /\ DOMAIN << >> = {}
    OBVIOUS
  <1> QED BY <1>1, MovedNothing

(* One more leg moves its amount.                                              *)
LEMMA MovedAppend ==
  ASSUME NEW L \in Seq(Leg), NEW leg \in Leg, NEW a
  PROVE  /\ MovedTo(Append(L, leg), a) = MovedTo(L, a) + (IF leg.to = a THEN leg.amt ELSE 0)
         /\ MovedFrom(Append(L, leg), a) = MovedFrom(L, a) + (IF leg.from = a THEN leg.amt ELSE 0)
  <1> DEFINE n == Len(L)
             M == Append(L, leg)
  <1>1. /\ n \in Nat /\ DOMAIN L = 1 .. n /\ DOMAIN M = 1 .. n + 1
        /\ \A i \in 1 .. n : M[i] = L[i]
        /\ M[n + 1] = leg
    OBVIOUS
  <1>2. leg.amt \in Int /\ \A i \in 1 .. n : L[i].amt \in Int
    <2>1. \A i \in 1 .. n : L[i] \in Leg
      BY <1>1
    <2> QED BY <2>1, LegAmount
  <1>3. MovedTo(M, a) = SumFunctionOnSet(ToAmounts(M, a), 1 .. n + 1)
        /\ MovedTo(L, a) = SumFunctionOnSet(ToAmounts(L, a), 1 .. n)
        /\ MovedFrom(M, a) = SumFunctionOnSet(FromAmounts(M, a), 1 .. n + 1)
        /\ MovedFrom(L, a) = SumFunctionOnSet(FromAmounts(L, a), 1 .. n)
    BY <1>1 DEF MovedTo, MovedFrom, ToAmounts, FromAmounts
  <1> HIDE DEF n, M
  <1>4. n + 1 \in 1 .. n + 1 /\ \A i \in 1 .. n : i \in 1 .. n + 1
    BY <1>1
  <1>5. /\ \A i \in 1 .. n : ToAmounts(L, a)[i] \in Int
                             /\ ToAmounts(M, a)[i] = ToAmounts(L, a)[i]
        /\ ToAmounts(M, a)[n + 1] = IF leg.to = a THEN leg.amt ELSE 0
    BY <1>1, <1>2, <1>4 DEF ToAmounts
  <1>6. /\ \A i \in 1 .. n : FromAmounts(L, a)[i] \in Int
                             /\ FromAmounts(M, a)[i] = FromAmounts(L, a)[i]
        /\ FromAmounts(M, a)[n + 1] = IF leg.from = a THEN leg.amt ELSE 0
    BY <1>1, <1>2, <1>4 DEF FromAmounts
  <1>7. MovedTo(M, a) = MovedTo(L, a) + (IF leg.to = a THEN leg.amt ELSE 0)
    <2>1. ToAmounts(M, a)[n + 1] \in Int
      BY <1>2, <1>5
    <2>2. SumFunctionOnSet(ToAmounts(M, a), 1 .. n + 1)
            = SumFunctionOnSet(ToAmounts(L, a), 1 .. n) + ToAmounts(M, a)[n + 1]
      BY <1>1, <1>5, <2>1, SumNext
    <2> QED BY <1>3, <1>5, <2>2
  <1>8. MovedFrom(M, a) = MovedFrom(L, a) + (IF leg.from = a THEN leg.amt ELSE 0)
    <2>1. FromAmounts(M, a)[n + 1] \in Int
      BY <1>2, <1>6
    <2>2. SumFunctionOnSet(FromAmounts(M, a), 1 .. n + 1)
            = SumFunctionOnSet(FromAmounts(L, a), 1 .. n) + FromAmounts(M, a)[n + 1]
      BY <1>1, <1>6, <2>1, SumNext
    <2> QED BY <1>3, <1>6, <2>2
  <1> QED BY <1>7, <1>8 DEF M

(* The first of the legs to be made, and the rest.                             *)
LEMMA FirstLeg ==
  ASSUME NEW L \in Seq(Leg), L # << >>, \A i \in DOMAIN L : LegAllowed(L[i])
  PROVE  /\ Head(L) \in Leg /\ LegAllowed(Head(L))
         /\ Tail(L) \in Seq(Leg) /\ \A i \in DOMAIN Tail(L) : LegAllowed(Tail(L)[i])
         /\ Len(L) = Len(Tail(L)) + 1
         /\ MintsOnly(L) => Head(L).from = SINK /\ MintsOnly(Tail(L))
  <1>1. /\ Head(L) = L[1] /\ 1 \in DOMAIN L /\ L[1] \in Leg
        /\ Tail(L) \in Seq(Leg) /\ Len(Tail(L)) = Len(L) - 1 /\ Len(L) \in Nat
        /\ \A i \in DOMAIN Tail(L) : i + 1 \in DOMAIN L /\ Tail(L)[i] = L[i + 1]
    OBVIOUS
  <1> QED BY <1>1 DEF MintsOnly

(* The legs of a sequence extended by one.                                     *)
LEMMA LegsOfAppend ==
  ASSUME NEW L \in Seq(Leg), NEW leg \in Leg
  PROVE  /\ Append(L, leg) \in Seq(Leg) /\ Len(Append(L, leg)) = Len(L) + 1
         /\ \A i \in DOMAIN Append(L, leg) : \/ i \in DOMAIN L /\ Append(L, leg)[i] = L[i]
                                             \/ Append(L, leg)[i] = leg
         /\ \A i \in DOMAIN L : i \in DOMAIN Append(L, leg) /\ Append(L, leg)[i] = L[i]
         /\ \E i \in DOMAIN Append(L, leg) : Append(L, leg)[i] = leg
  <1>1. /\ Append(L, leg) \in Seq(Leg) /\ Len(Append(L, leg)) = Len(L) + 1 /\ Len(L) \in Nat
        /\ DOMAIN Append(L, leg) = 1 .. Len(L) + 1 /\ DOMAIN L = 1 .. Len(L)
        /\ \A i \in 1 .. Len(L) : Append(L, leg)[i] = L[i]
        /\ Append(L, leg)[Len(L) + 1] = leg
    OBVIOUS
  <1>2. \A i \in 1 .. Len(L) + 1 : i \in 1 .. Len(L) \/ i = Len(L) + 1
    BY <1>1
  <1> QED BY <1>1, <1>2

-----------------------------------------------------------------------------
(* The inductive invariant of the sessions.                                    *)

(* At the start nobody holds, has done or owns anything.                       *)
LEMMA LocksInitInv == Init => LocksInv
  <1> SUFFICES ASSUME Init PROVE LocksInv
    OBVIOUS
  <1>1. LedgerInv
    BY LedgerInitInv DEF Init
  <1>2. /\ pc = [s \in Session |-> "idle"] /\ legs = [s \in Session |-> << >>]
        /\ done = [s \in Session |-> << >>] /\ work = [s \in Session |-> [u \in User |-> 0]]
        /\ target = [s \in Session |-> Nobody] /\ seen = [s \in Session |-> 0]
        /\ holders = [u \in User |-> {}] /\ begun = 0
    BY DEF Init
  <1>3. LedgerTypeOK /\ NobodyOwnsBeforeJoining /\ BalanceIsLedgerSum
    BY <1>1 DEF LedgerInv
  <1>4. << >> \in Seq(Leg) /\ DOMAIN << >> = {}
    OBVIOUS
  <1>5. TxTypeOK
    BY <1>2, <1>3, <1>4, MaxTxAssumption DEF TxTypeOK
  <1>6. LegsAllowed /\ OneHolder /\ HeldIsOpen /\ DoneIsHeld /\ SavesWhatWasRead
        /\ LockedRowIsCurrent
    BY <1>2, <1>4 DEF LegsAllowed, OneHolder, HeldIsOpen, DoneIsHeld, SavesWhatWasRead,
                      LockedRowIsCurrent
  <1>7. UnsavedBalanceIsLedgerSum
    BY <1>3 DEF UnsavedBalanceIsLedgerSum, BalanceIsLedgerSum
  <1> QED BY <1>3, <1>5, <1>6, <1>7 DEF LocksInv

(* The types, one by one.                                                      *)
LEMMA TxTypes ==
  ASSUME TxTypeOK, NEW s \in Session
  PROVE  /\ pc[s] \in {"idle", "paying", "read", "reloaded"}
         /\ legs[s] \in Seq(Leg) /\ done[s] \in Seq(Leg)
         /\ work[s] \in [User -> Int]
         /\ \A u \in User : holders[u] \in SUBSET Session
         /\ \A u \in User : s \in holders[u] => pc[s] = "paying"
  BY DEF TxTypeOK

(* A transaction that begins has its legs to do and has locked nothing.         *)
LEMMA BeginKeepsLocks ==
  ASSUME LocksInv, NEW s \in Session, NEW prog \in Program, Begin(s, prog)
  PROVE  LocksInv'
  <1>0. TxTypeOK /\ LegsAllowed /\ OneHolder /\ HeldIsOpen /\ DoneIsHeld /\ SavesWhatWasRead
        /\ LockedRowIsCurrent /\ NobodyOwnsBeforeJoining /\ UnsavedBalanceIsLedgerSum
    BY DEF LocksInv
  <1>1. /\ pc[s] = "idle" /\ pc' = [pc EXCEPT ![s] = "paying"]
        /\ legs' = [legs EXCEPT ![s] = prog] /\ done' = [done EXCEPT ![s] = << >>]
        /\ begun < MaxTx /\ begun' = begun + 1
        /\ \A i \in DOMAIN prog : LegAllowed(prog[i])
    BY DEF Begin, LegAllowed
  <1>2. /\ UNCHANGED <<work, target, seen, holders>>
        /\ UNCHANGED <<account, balance, inflow, outflow>>
    BY DEF Begin, ledgerVars
  <1>3. prog \in Seq(Leg) /\ << >> \in Seq(Leg) /\ DOMAIN << >> = {}
    BY ProgramAssumption
  <1>4. \A u \in User : s \notin holders[u]
    BY <1>0, <1>1 DEF TxTypeOK
  <1>5. begun' \in 0 .. MaxTx
    BY <1>0, <1>1, MaxTxAssumption DEF TxTypeOK
  <1>6. TxTypeOK'
    <2>1. LedgerTypeOK'
      BY <1>0, <1>2 DEF TxTypeOK, LedgerTypeOK
    <2>2. /\ pc' \in [Session -> {"idle", "paying", "read", "reloaded"}]
          /\ legs' \in [Session -> Seq(Leg)] /\ done' \in [Session -> Seq(Leg)]
      BY <1>0, <1>1, <1>3 DEF TxTypeOK
    <2>3. \A u \in User : \A t \in holders'[u] : pc'[t] = "paying"
      BY <1>0, <1>1, <1>2 DEF TxTypeOK
    <2> QED BY <1>0, <1>2, <1>5, <2>1, <2>2, <2>3 DEF TxTypeOK
  <1>7. LegsAllowed'
    <2> SUFFICES ASSUME NEW t \in Session
                 PROVE  (/\ \A i \in DOMAIN legs[t] : LegAllowed(legs[t][i])
                         /\ \A i \in DOMAIN done[t] : LegAllowed(done[t][i]))'
      BY DEF LegsAllowed
    <2>1. CASE t = s
      <3>1. legs'[t] = prog /\ done'[t] = << >>
        BY <1>0, <1>1, <2>1 DEF TxTypeOK
      <3> QED BY <1>1, <1>3, <3>1
    <2>2. CASE t # s
      <3>1. legs'[t] = legs[t] /\ done'[t] = done[t]
        BY <1>0, <1>1, <2>2 DEF TxTypeOK
      <3> QED BY <1>0, <3>1 DEF LegsAllowed
    <2> QED BY <2>1, <2>2
  <1>8. \A t \in Session : t # s => done'[t] = done[t]
    BY <1>0, <1>1 DEF TxTypeOK
  <1>9. done'[s] = << >>
    BY <1>0, <1>1 DEF TxTypeOK
  <1>10. OneHolder' /\ HeldIsOpen'
    BY <1>0, <1>2 DEF OneHolder, HeldIsOpen
  <1>11. DoneIsHeld'
    BY <1>0, <1>2, <1>3, <1>8, <1>9 DEF DoneIsHeld
  <1>12. SavesWhatWasRead'
    BY <1>0, <1>1, <1>2 DEF SavesWhatWasRead, TxTypeOK
  <1>13. LockedRowIsCurrent'
    BY <1>0, <1>2, <1>4, <1>8 DEF LockedRowIsCurrent
  <1>14. NobodyOwnsBeforeJoining' /\ UnsavedBalanceIsLedgerSum'
    BY <1>0, <1>2 DEF NobodyOwnsBeforeJoining, UnsavedBalanceIsLedgerSum, BalanceFromLedger
  <1> QED BY <1>6, <1>7, <1>10, <1>11, <1>12, <1>13, <1>14 DEF LocksInv

(* A row that is locked is read at its committed value.                        *)
LEMMA LockRowKeepsLocks ==
  ASSUME LocksInv, NEW s \in Session, NEW u \in User, LockRow(s, u)
  PROVE  LocksInv'
  <1>0. TxTypeOK /\ LegsAllowed /\ OneHolder /\ HeldIsOpen /\ DoneIsHeld /\ SavesWhatWasRead
        /\ LockedRowIsCurrent /\ NobodyOwnsBeforeJoining /\ UnsavedBalanceIsLedgerSum
    BY DEF LocksInv
  <1>1. /\ holders[u] = {} /\ holders' = [holders EXCEPT ![u] = @ \cup {s}]
        /\ work' = [work EXCEPT ![s][u] = balance[u]]
    BY DEF LockRow
  <1>2. /\ UNCHANGED <<pc, legs, done, target, seen, begun>>
        /\ UNCHANGED <<account, balance, inflow, outflow>>
    BY DEF LockRow, ledgerVars
  <1>3. pc[s] = "paying" /\ account[u] = "open"
    BY DEF LockRow, Wanted
  <1>4. balance[u] \in Int
    BY <1>0 DEF TxTypeOK, LedgerTypeOK
  <1>5. /\ holders'[u] = {s} /\ \A v \in User : v # u => holders'[v] = holders[v]
        /\ work'[s][u] = balance[u]
        /\ \A t \in Session, v \in User : t # s \/ v # u => work'[t][v] = work[t][v]
    BY <1>0, <1>1 DEF TxTypeOK
  <1>6. TxTypeOK'
    <2>1. LedgerTypeOK'
      BY <1>0, <1>2 DEF TxTypeOK, LedgerTypeOK
    <2>2. work' \in [Session -> [User -> Int]]
      BY <1>0, <1>1, <1>4 DEF TxTypeOK
    <2>3. holders' \in [User -> SUBSET Session]
      BY <1>0, <1>1 DEF TxTypeOK
    <2>4. \A v \in User : \A t \in holders'[v] : pc'[t] = "paying"
      BY <1>0, <1>2, <1>3, <1>5 DEF TxTypeOK
    <2> QED BY <1>0, <1>2, <2>1, <2>2, <2>3, <2>4 DEF TxTypeOK
  <1>7. LegsAllowed' /\ SavesWhatWasRead' /\ NobodyOwnsBeforeJoining' /\ UnsavedBalanceIsLedgerSum'
    BY <1>0, <1>2 DEF LegsAllowed, SavesWhatWasRead, NobodyOwnsBeforeJoining,
                      UnsavedBalanceIsLedgerSum, BalanceFromLedger
  <1>8. OneHolder' /\ HeldIsOpen'
    BY <1>0, <1>2, <1>3, <1>5 DEF OneHolder, HeldIsOpen
  <1>9. DoneIsHeld'
    BY <1>0, <1>1, <1>2, <1>5 DEF DoneIsHeld, RowsOf
  <1>10. LockedRowIsCurrent'
    <2> SUFFICES ASSUME NEW t \in Session, NEW v \in User, t \in holders'[v]
                 PROVE  (work[t][v] = balance[v] + MovedTo(done[t], v) - MovedFrom(done[t], v))'
      BY DEF LockedRowIsCurrent
    <2>1. CASE v = u
      <3>1. t = s
        BY <1>5, <2>1
      <3>2. \A i \in DOMAIN done[s] : done[s][i].to # u /\ done[s][i].from # u
        BY <1>0, <1>1 DEF DoneIsHeld, RowsOf
      <3>3. MovedTo(done[s], u) = 0 /\ MovedFrom(done[s], u) = 0
        BY <1>0, <3>2, MovedNothing, TxTypes
      <3> QED BY <1>2, <1>4, <1>5, <2>1, <3>1, <3>3
    <2>2. CASE v # u
      BY <1>0, <1>2, <1>5, <2>2 DEF LockedRowIsCurrent
    <2> QED BY <2>1, <2>2
  <1> QED BY <1>6, <1>7, <1>8, <1>9, <1>10 DEF LocksInv

(* A transaction that rolls back gives its locks back and has done nothing.     *)
LEMMA RollBackKeepsLocks ==
  ASSUME LocksInv, NEW s \in Session, RollBack(s)
  PROVE  LocksInv'
  <1>0. TxTypeOK /\ LegsAllowed /\ OneHolder /\ HeldIsOpen /\ DoneIsHeld /\ SavesWhatWasRead
        /\ LockedRowIsCurrent /\ NobodyOwnsBeforeJoining /\ UnsavedBalanceIsLedgerSum
    BY DEF LocksInv
  <1>1. /\ pc' = [pc EXCEPT ![s] = "idle"] /\ legs' = [legs EXCEPT ![s] = << >>]
        /\ done' = [done EXCEPT ![s] = << >>]
        /\ work' = [work EXCEPT ![s] = [u \in User |-> 0]]
        /\ holders' = [u \in User |-> holders[u] \ {s}]
    BY DEF RollBack, Released
  <1>2. /\ UNCHANGED <<target, seen, begun>>
        /\ UNCHANGED <<account, balance, inflow, outflow>>
    BY DEF RollBack, ledgerVars
  <1>3. << >> \in Seq(Leg) /\ DOMAIN << >> = {}
    OBVIOUS
  <1>4. \A u \in User : holders'[u] = holders[u] \ {s}
    BY <1>1
  <1>5. \A t \in Session : t # s =>
          pc'[t] = pc[t] /\ legs'[t] = legs[t] /\ done'[t] = done[t] /\ work'[t] = work[t]
    BY <1>0, <1>1 DEF TxTypeOK
  <1>6. pc'[s] = "idle" /\ legs'[s] = << >> /\ done'[s] = << >>
    BY <1>0, <1>1 DEF TxTypeOK
  <1>7. TxTypeOK'
    <2>1. LedgerTypeOK'
      BY <1>0, <1>2 DEF TxTypeOK, LedgerTypeOK
    <2>2. /\ pc' \in [Session -> {"idle", "paying", "read", "reloaded"}]
          /\ legs' \in [Session -> Seq(Leg)] /\ done' \in [Session -> Seq(Leg)]
      BY <1>0, <1>1, <1>3 DEF TxTypeOK
    <2>3. work' \in [Session -> [User -> Int]]
      BY <1>0, <1>1 DEF TxTypeOK
    <2>4. holders' \in [User -> SUBSET Session]
      BY <1>0, <1>1 DEF TxTypeOK
    <2>5. \A u \in User : \A t \in holders'[u] : pc'[t] = "paying"
      <3> SUFFICES ASSUME NEW u \in User, NEW t \in holders'[u] PROVE pc'[t] = "paying"
        OBVIOUS
      <3>1. t \in Session /\ t # s /\ t \in holders[u]
        BY <1>4, <2>4
      <3> QED BY <1>0, <1>5, <3>1 DEF TxTypeOK
    <2> QED BY <1>0, <1>2, <2>1, <2>2, <2>3, <2>4, <2>5 DEF TxTypeOK
  <1>8. LegsAllowed'
    BY <1>0, <1>3, <1>5, <1>6 DEF LegsAllowed
  <1>9. OneHolder' /\ HeldIsOpen'
    BY <1>0, <1>2, <1>4 DEF OneHolder, HeldIsOpen
  <1>10. DoneIsHeld'
    <2> SUFFICES ASSUME NEW t \in Session, NEW i \in DOMAIN done'[t], NEW u \in RowsOf(done'[t][i])
                 PROVE  t \in holders'[u]
      BY DEF DoneIsHeld, RowsOf
    <2>1. t # s
      BY <1>3, <1>6
    <2>2. u \in User
      BY DEF RowsOf
    <2> QED BY <1>0, <1>4, <1>5, <2>1, <2>2 DEF DoneIsHeld
  <1>11. SavesWhatWasRead'
    BY <1>0, <1>2, <1>5, <1>6 DEF SavesWhatWasRead
  <1>12. LockedRowIsCurrent'
    BY <1>0, <1>2, <1>4, <1>5 DEF LockedRowIsCurrent
  <1>13. NobodyOwnsBeforeJoining' /\ UnsavedBalanceIsLedgerSum'
    BY <1>0, <1>2 DEF NobodyOwnsBeforeJoining, UnsavedBalanceIsLedgerSum, BalanceFromLedger
  <1> QED BY <1>7, <1>8, <1>9, <1>10, <1>11, <1>12, <1>13 DEF LocksInv

(* What the next leg does to the rows its session has read, and to its lists.    *)
LEMMA ApplyEffect ==
  ASSUME TxTypeOK, LegsAllowed, NEW s \in Session, Apply(s)
  PROVE  LET leg == Current(s) IN
         /\ leg \in Leg /\ LegAllowed(leg) /\ RowsOf(leg) \subseteq Held(s)
         /\ IsRealUserAccount(leg.from) => work[s][leg.from] >= leg.amt
         /\ work' \in [Session -> [User -> Int]]
         /\ \A u \in User : work'[s][u] = work[s][u] + (IF leg.to = u THEN leg.amt ELSE 0)
                                                     - (IF leg.from = u THEN leg.amt ELSE 0)
         /\ legs' \in [Session -> Seq(Leg)] /\ done' \in [Session -> Seq(Leg)]
         /\ legs'[s] = Tail(legs[s]) /\ done'[s] = Append(done[s], leg)
         /\ \A t \in Session : t # s =>
              legs'[t] = legs[t] /\ done'[t] = done[t] /\ work'[t] = work[t]
  <1> DEFINE leg == Current(s)
  <1>1. legs[s] \in Seq(Leg) /\ done[s] \in Seq(Leg) /\ legs[s] # << >>
        /\ \A i \in DOMAIN legs[s] : LegAllowed(legs[s][i])
    BY TxTypes DEF Apply, LegsAllowed
  <1>2. leg \in Leg /\ LegAllowed(leg) /\ Tail(legs[s]) \in Seq(Leg)
    BY <1>1, FirstLeg DEF Current
  <1>3. RowsOf(leg) \subseteq Held(s) /\ (IsRealUserAccount(leg.from) => work[s][leg.from] >= leg.amt)
    BY DEF Apply, LegPayable
  <1>4. Append(done[s], leg) \in Seq(Leg)
    BY <1>1, <1>2, LegsOfAppend
  <1>5. leg.amt \in Int
    BY <1>2, LegAmount
  <1>6. \A u \in User : ~ (leg.to = u /\ leg.from = u)
    BY <1>2, UserAssumption DEF LegAllowed, TransferAllowed, IsRealUserAccount
  <1> DEFINE new == [u \in User |-> CASE u = leg.to -> work[s][u] + leg.amt
                                      [] u = leg.from /\ u # leg.to -> work[s][u] - leg.amt
                                      [] OTHER -> work[s][u]]
  <1>7. /\ work' = [work EXCEPT ![s] = new]
        /\ legs' = [legs EXCEPT ![s] = Tail(legs[s])]
        /\ done' = [done EXCEPT ![s] = Append(done[s], leg)]
    BY DEF Apply
  <1>8. \A u \in User : work[s][u] \in Int
    BY DEF TxTypeOK
  <1>9. \A u \in User : new[u] = work[s][u] + (IF leg.to = u THEN leg.amt ELSE 0)
                                            - (IF leg.from = u THEN leg.amt ELSE 0)
    <2> HIDE DEF leg
    <2> QED BY <1>5, <1>6, <1>8
  <1>10. new \in [User -> Int]
    <2> HIDE DEF leg
    <2> QED BY <1>5, <1>8
  <1> HIDE DEF leg, new
  <1>11. /\ work' \in [Session -> [User -> Int]] /\ work'[s] = new
         /\ \A t \in Session : t # s => work'[t] = work[t]
    BY <1>7, <1>10 DEF TxTypeOK
  <1>12. /\ legs' \in [Session -> Seq(Leg)] /\ legs'[s] = Tail(legs[s])
         /\ \A t \in Session : t # s => legs'[t] = legs[t]
    BY <1>2, <1>7 DEF TxTypeOK
  <1>13. /\ done' \in [Session -> Seq(Leg)] /\ done'[s] = Append(done[s], leg)
         /\ \A t \in Session : t # s => done'[t] = done[t]
    BY <1>4, <1>7 DEF TxTypeOK
  <1> QED BY <1>2, <1>3, <1>9, <1>11, <1>12, <1>13 DEF leg

(* A leg is computed from rows the session holds, on top of what it did before.   *)
LEMMA ApplyKeepsLocks ==
  ASSUME LocksInv, NEW s \in Session, Apply(s)
  PROVE  LocksInv'
  <1>0. TxTypeOK /\ LegsAllowed /\ OneHolder /\ HeldIsOpen /\ DoneIsHeld /\ SavesWhatWasRead
        /\ LockedRowIsCurrent /\ NobodyOwnsBeforeJoining /\ UnsavedBalanceIsLedgerSum
    BY DEF LocksInv
  <1>1. PICK leg : leg = Current(s)
    OBVIOUS
  <1>2. /\ leg \in Leg /\ LegAllowed(leg) /\ RowsOf(leg) \subseteq Held(s)
        /\ work' \in [Session -> [User -> Int]]
        /\ \A u \in User : work'[s][u] = work[s][u] + (IF leg.to = u THEN leg.amt ELSE 0)
                                                    - (IF leg.from = u THEN leg.amt ELSE 0)
        /\ legs' \in [Session -> Seq(Leg)] /\ done' \in [Session -> Seq(Leg)]
        /\ legs'[s] = Tail(legs[s]) /\ done'[s] = Append(done[s], leg)
        /\ \A t \in Session : t # s =>
             legs'[t] = legs[t] /\ done'[t] = done[t] /\ work'[t] = work[t]
    BY <1>0, <1>1, ApplyEffect
  <1>3. /\ UNCHANGED <<pc, target, seen, holders, begun>>
        /\ UNCHANGED <<account, balance, inflow, outflow>>
        /\ legs[s] # << >>
    BY DEF Apply, ledgerVars
  <1>4. legs[s] \in Seq(Leg) /\ done[s] \in Seq(Leg)
        /\ (\A i \in DOMAIN legs[s] : LegAllowed(legs[s][i]))
        /\ \A i \in DOMAIN done[s] : LegAllowed(done[s][i])
    BY <1>0, TxTypes DEF LegsAllowed
  <1>5. TxTypeOK'
    <2>1. LedgerTypeOK'
      BY <1>0, <1>3 DEF TxTypeOK, LedgerTypeOK
    <2> QED BY <1>0, <1>2, <1>3, <2>1 DEF TxTypeOK
  <1>6. \A i \in DOMAIN Append(done[s], leg) :
          \/ i \in DOMAIN done[s] /\ Append(done[s], leg)[i] = done[s][i]
          \/ Append(done[s], leg)[i] = leg
    BY <1>2, <1>4, LegsOfAppend
  <1>7. LegsAllowed'
    <2> SUFFICES ASSUME NEW t \in Session
                 PROVE  (/\ \A i \in DOMAIN legs[t] : LegAllowed(legs[t][i])
                         /\ \A i \in DOMAIN done[t] : LegAllowed(done[t][i]))'
      BY DEF LegsAllowed
    <2>1. CASE t = s
      <3>1. \A i \in DOMAIN Tail(legs[s]) : LegAllowed(Tail(legs[s])[i])
        BY <1>3, <1>4, FirstLeg
      <3>2. \A i \in DOMAIN Append(done[s], leg) : LegAllowed(Append(done[s], leg)[i])
        BY <1>2, <1>4, <1>6
      <3> QED BY <1>2, <2>1, <3>1, <3>2
    <2>2. CASE t # s
      BY <1>0, <1>2, <2>2 DEF LegsAllowed
    <2> QED BY <2>1, <2>2
  <1>8. OneHolder' /\ HeldIsOpen' /\ SavesWhatWasRead'
        /\ NobodyOwnsBeforeJoining' /\ UnsavedBalanceIsLedgerSum'
    BY <1>0, <1>3 DEF OneHolder, HeldIsOpen, SavesWhatWasRead, NobodyOwnsBeforeJoining,
                      UnsavedBalanceIsLedgerSum, BalanceFromLedger
  <1>9. DoneIsHeld'
    <2> SUFFICES ASSUME NEW t \in Session, NEW i \in DOMAIN done'[t], NEW u \in RowsOf(done'[t][i])
                 PROVE  t \in holders'[u]
      BY DEF DoneIsHeld, RowsOf
    <2>1. CASE t = s
      <3>1. \A v \in RowsOf(leg) : s \in holders[v]
        BY <1>2 DEF Held
      <3>2. done'[t] = Append(done[s], leg) /\ i \in DOMAIN Append(done[s], leg)
        BY <1>2, <2>1, Zenon
      <3>3. done'[t][i] = leg \/ (i \in DOMAIN done[s] /\ done'[t][i] = done[s][i])
        BY <1>6, <3>2, Zenon
      <3>4. CASE done'[t][i] = leg
        <4>1. u \in RowsOf(leg)
          BY <3>4, Zenon
        <4> QED BY <1>3, <2>1, <3>1, <4>1
      <3>5. CASE i \in DOMAIN done[s] /\ done'[t][i] = done[s][i]
        <4>1. u \in RowsOf(done[s][i])
          BY <3>5, Zenon
        <4> QED BY <1>0, <1>3, <2>1, <3>5, <4>1 DEF DoneIsHeld
      <3> QED BY <3>3, <3>4, <3>5
    <2>2. CASE t # s
      BY <1>0, <1>2, <1>3, <2>2 DEF DoneIsHeld
    <2> QED BY <2>1, <2>2
  <1>10. LockedRowIsCurrent'
    <2> SUFFICES ASSUME NEW t \in Session, NEW u \in User, t \in holders'[u]
                 PROVE  (work[t][u] = balance[u] + MovedTo(done[t], u) - MovedFrom(done[t], u))'
      BY DEF LockedRowIsCurrent
    <2>1. CASE t = s
      <3>1. work[s][u] = balance[u] + MovedTo(done[s], u) - MovedFrom(done[s], u)
        BY <1>0, <1>3, <2>1 DEF LockedRowIsCurrent
      <3>2. /\ MovedTo(done'[s], u) = MovedTo(done[s], u) + (IF leg.to = u THEN leg.amt ELSE 0)
            /\ MovedFrom(done'[s], u) = MovedFrom(done[s], u) + (IF leg.from = u THEN leg.amt ELSE 0)
        BY <1>2, <1>4, MovedAppend
      <3>3. /\ MovedTo(done[s], u) \in Int /\ MovedFrom(done[s], u) \in Int
            /\ balance[u] \in Int /\ leg.amt \in Int
        BY <1>0, <1>2, <1>4, MovedType, LegAmount DEF TxTypeOK, LedgerTypeOK
      <3>4. work'[s][u] = work[s][u] + (IF leg.to = u THEN leg.amt ELSE 0)
                                     - (IF leg.from = u THEN leg.amt ELSE 0)
        BY <1>2
      <3> QED BY <1>3, <2>1, <3>1, <3>2, <3>3, <3>4
    <2>2. CASE t # s
      BY <1>0, <1>2, <1>3, <2>2 DEF LockedRowIsCurrent
    <2> QED BY <2>1, <2>2
  <1> QED BY <1>5, <1>7, <1>8, <1>9, <1>10 DEF LocksInv

(* What a commit makes visible: to every user what the transaction moved.          *)
LEMMA CommitEffect ==
  ASSUME LocksInv, NEW s \in Session, Commit(s)
  PROVE  \A u \in User : balance'[u] = balance[u] + MovedTo(done[s], u) - MovedFrom(done[s], u)
  <1>0. TxTypeOK /\ LockedRowIsCurrent /\ DoneIsHeld
    BY DEF LocksInv
  <1> SUFFICES ASSUME NEW u \in User
               PROVE  balance'[u] = balance[u] + MovedTo(done[s], u) - MovedFrom(done[s], u)
    OBVIOUS
  <1>1. balance' = [v \in User |-> IF v \in Held(s) THEN work[s][v] ELSE balance[v]]
    BY DEF Commit
  <1>2. CASE s \in holders[u]
    BY <1>0, <1>1, <1>2 DEF LockedRowIsCurrent, Held
  <1>3. CASE s \notin holders[u]
    <2>1. \A i \in DOMAIN done[s] : done[s][i].to # u /\ done[s][i].from # u
      BY <1>0, <1>3 DEF DoneIsHeld, RowsOf
    <2>2. MovedTo(done[s], u) = 0 /\ MovedFrom(done[s], u) = 0
      BY <1>0, <2>1, MovedNothing, TxTypes
    <2>3. balance[u] \in Int /\ balance'[u] = balance[u]
      BY <1>0, <1>1, <1>3 DEF TxTypeOK, LedgerTypeOK, Held
    <2> QED BY <2>2, <2>3
  <1> QED BY <1>2, <1>3

(* A commit writes the balances and the rows together.                             *)
LEMMA CommitKeepsLocks ==
  ASSUME LocksInv, NEW s \in Session, Commit(s)
  PROVE  LocksInv'
  <1>0. TxTypeOK /\ LegsAllowed /\ OneHolder /\ HeldIsOpen /\ DoneIsHeld /\ SavesWhatWasRead
        /\ LockedRowIsCurrent /\ NobodyOwnsBeforeJoining /\ UnsavedBalanceIsLedgerSum
    BY DEF LocksInv
  <1>1. /\ pc' = [pc EXCEPT ![s] = "idle"] /\ done' = [done EXCEPT ![s] = << >>]
        /\ balance' = [u \in User |-> IF u \in Held(s) THEN work[s][u] ELSE balance[u]]
        /\ inflow' = [a \in Account |-> inflow[a] + MovedTo(done[s], a)]
        /\ outflow' = [a \in Account |-> outflow[a] + MovedFrom(done[s], a)]
        /\ work' = [work EXCEPT ![s] = [u \in User |-> 0]]
        /\ holders' = [u \in User |-> holders[u] \ {s}]
        /\ UNCHANGED <<account, legs, target, seen, begun>>
    BY DEF Commit, Released
  <1>2. \A u \in User : balance'[u] = balance[u] + MovedTo(done[s], u) - MovedFrom(done[s], u)
    BY CommitEffect
  <1>3. << >> \in Seq(Leg) /\ DOMAIN << >> = {}
    OBVIOUS
  <1>4. \A u \in User : holders'[u] = holders[u] \ {s}
    BY <1>1
  <1>5. \A t \in Session : t # s => pc'[t] = pc[t] /\ done'[t] = done[t] /\ work'[t] = work[t]
    BY <1>0, <1>1 DEF TxTypeOK
  <1>6. pc'[s] = "idle" /\ done'[s] = << >>
    BY <1>0, <1>1 DEF TxTypeOK
  <1>7. \A a \in Account : MovedTo(done[s], a) \in Nat /\ MovedFrom(done[s], a) \in Nat
    BY <1>0, TxTypes, MovedNonNegative DEF LegsAllowed
  <1>8. TxTypeOK'
    <2>1. LedgerTypeOK'
      <3>1. \A a \in Account : inflow[a] \in Nat /\ outflow[a] \in Nat
        BY <1>0 DEF TxTypeOK, LedgerTypeOK
      <3>2. \A a \in Account : inflow[a] + MovedTo(done[s], a) \in Nat
                               /\ outflow[a] + MovedFrom(done[s], a) \in Nat
        BY <1>7, <3>1
      <3>3. inflow' \in [Account -> Nat] /\ outflow' \in [Account -> Nat]
        BY <1>1, <3>2
      <3>4. balance' \in [User -> Int]
        BY <1>0, <1>1 DEF TxTypeOK, LedgerTypeOK
      <3>5. account' \in [User -> {"none", "open", "deleted"}]
        BY <1>0, <1>1 DEF TxTypeOK, LedgerTypeOK
      <3> QED BY <3>3, <3>4, <3>5 DEF LedgerTypeOK
    <2>2. /\ pc' \in [Session -> {"idle", "paying", "read", "reloaded"}]
          /\ done' \in [Session -> Seq(Leg)]
      BY <1>0, <1>1, <1>3 DEF TxTypeOK
    <2>3. work' \in [Session -> [User -> Int]]
      BY <1>0, <1>1 DEF TxTypeOK
    <2>4. holders' \in [User -> SUBSET Session]
      BY <1>0, <1>1 DEF TxTypeOK
    <2>5. \A u \in User : \A t \in holders'[u] : pc'[t] = "paying"
      <3> SUFFICES ASSUME NEW u \in User, NEW t \in holders'[u] PROVE pc'[t] = "paying"
        OBVIOUS
      <3>1. t \in Session /\ t # s /\ t \in holders[u]
        BY <1>4, <2>4
      <3> QED BY <1>0, <1>5, <3>1 DEF TxTypeOK
    <2> QED BY <1>0, <1>1, <2>1, <2>2, <2>3, <2>4, <2>5 DEF TxTypeOK
  <1>9. LegsAllowed'
    BY <1>0, <1>1, <1>3, <1>5, <1>6 DEF LegsAllowed
  <1>10. OneHolder' /\ HeldIsOpen'
    BY <1>0, <1>1, <1>4 DEF OneHolder, HeldIsOpen
  <1>11. DoneIsHeld'
    <2> SUFFICES ASSUME NEW t \in Session, NEW i \in DOMAIN done'[t], NEW u \in RowsOf(done'[t][i])
                 PROVE  t \in holders'[u]
      BY DEF DoneIsHeld, RowsOf
    <2>1. t # s
      BY <1>3, <1>6
    <2>2. u \in User
      BY DEF RowsOf
    <2> QED BY <1>0, <1>4, <1>5, <2>1, <2>2 DEF DoneIsHeld
  <1>12. SavesWhatWasRead'
    BY <1>0, <1>1, <1>5, <1>6 DEF SavesWhatWasRead
  <1>13. \A u \in User : s \notin holders[u] => balance'[u] = balance[u]
    BY <1>1 DEF Held
  <1>14. LockedRowIsCurrent'
    <2> SUFFICES ASSUME NEW t \in Session, NEW u \in User, t \in holders'[u]
                 PROVE  (work[t][u] = balance[u] + MovedTo(done[t], u) - MovedFrom(done[t], u))'
      BY DEF LockedRowIsCurrent
    <2>1. t # s /\ t \in holders[u]
      BY <1>4
    <2>2. s \notin holders[u]
      BY <1>0, <2>1 DEF OneHolder
    <2>3. balance'[u] = balance[u]
      BY <1>13, <2>2
    <2> QED BY <1>0, <1>5, <2>1, <2>3 DEF LockedRowIsCurrent
  <1>15. NobodyOwnsBeforeJoining'
    <2> SUFFICES ASSUME NEW u \in User, account'[u] = "none" PROVE balance'[u] = 0
      BY DEF NobodyOwnsBeforeJoining
    <2>1. s \notin holders[u]
      BY <1>0, <1>1 DEF HeldIsOpen
    <2> QED BY <1>0, <1>1, <1>13, <2>1 DEF NobodyOwnsBeforeJoining
  <1>16. UnsavedBalanceIsLedgerSum'
    <2> SUFFICES ASSUME NEW u \in User \ SaveTarget PROVE balance'[u] = inflow'[u] - outflow'[u]
      BY DEF UnsavedBalanceIsLedgerSum, BalanceFromLedger
    <2>1. balance[u] = inflow[u] - outflow[u]
      BY <1>0 DEF UnsavedBalanceIsLedgerSum, BalanceFromLedger
    <2>2. u \in Account /\ inflow[u] \in Nat /\ outflow[u] \in Nat
      BY <1>0 DEF TxTypeOK, LedgerTypeOK, Account
    <2>3. inflow'[u] = inflow[u] + MovedTo(done[s], u) /\ outflow'[u] = outflow[u] + MovedFrom(done[s], u)
      BY <1>1, <2>2
    <2> QED BY <1>2, <1>7, <2>1, <2>2, <2>3
  <1> QED BY <1>8, <1>9, <1>10, <1>11, <1>12, <1>14, <1>15, <1>16 DEF LocksInv

(* Reading an entity or reading it again inside save() writes nothing.              *)
LEMMA ReadEntityKeepsLocks ==
  ASSUME LocksInv, NEW s \in Session, NEW u \in SaveTarget, ReadEntity(s, u)
  PROVE  LocksInv'
  <1>0. TxTypeOK /\ LegsAllowed /\ OneHolder /\ HeldIsOpen /\ DoneIsHeld /\ SavesWhatWasRead
        /\ LockedRowIsCurrent /\ NobodyOwnsBeforeJoining /\ UnsavedBalanceIsLedgerSum
    BY DEF LocksInv
  <1>1. /\ pc[s] = "idle" /\ pc' = [pc EXCEPT ![s] = "read"]
        /\ target' = [target EXCEPT ![s] = u]
        /\ work' = [work EXCEPT ![s][u] = balance[u]]
        /\ begun < MaxTx /\ begun' = begun + 1 /\ account[u] = "open"
    BY DEF ReadEntity
  <1>2. /\ UNCHANGED <<legs, done, seen, holders>>
        /\ UNCHANGED <<account, balance, inflow, outflow>>
    BY DEF ReadEntity, ledgerVars
  <1>3. u \in User
    BY SaveTargetAssumption
  <1>4. \A v \in User : s \notin holders[v]
    BY <1>0, <1>1 DEF TxTypeOK
  <1>5. /\ pc'[s] = "read" /\ target'[s] = u
        /\ \A t \in Session : t # s =>
             pc'[t] = pc[t] /\ work'[t] = work[t] /\ target'[t] = target[t]
    BY <1>0, <1>1 DEF TxTypeOK
  <1>6. TxTypeOK'
    <2>1. LedgerTypeOK' /\ balance[u] \in Int
      BY <1>0, <1>2, <1>3 DEF TxTypeOK, LedgerTypeOK
    <2>2. /\ pc' \in [Session -> {"idle", "paying", "read", "reloaded"}]
          /\ target' \in [Session -> SaveTarget \cup {Nobody}]
      BY <1>0, <1>1 DEF TxTypeOK
    <2>3. work' \in [Session -> [User -> Int]]
      BY <1>0, <1>1, <1>3, <2>1 DEF TxTypeOK
    <2>4. begun' \in 0 .. MaxTx
      BY <1>0, <1>1, MaxTxAssumption DEF TxTypeOK
    <2>5. \A v \in User : \A t \in holders'[v] : pc'[t] = "paying"
      <3> SUFFICES ASSUME NEW v \in User, NEW t \in holders'[v] PROVE pc'[t] = "paying"
        OBVIOUS
      <3>1. t \in holders[v] /\ t \in Session /\ t # s
        BY <1>0, <1>2, <1>4 DEF TxTypeOK
      <3> QED BY <1>0, <1>5, <3>1 DEF TxTypeOK
    <2> QED BY <1>0, <1>2, <2>1, <2>2, <2>3, <2>4, <2>5 DEF TxTypeOK
  <1>7. LegsAllowed' /\ OneHolder' /\ HeldIsOpen' /\ DoneIsHeld'
        /\ NobodyOwnsBeforeJoining' /\ UnsavedBalanceIsLedgerSum'
    BY <1>0, <1>2 DEF LegsAllowed, OneHolder, HeldIsOpen, DoneIsHeld, NobodyOwnsBeforeJoining,
                      UnsavedBalanceIsLedgerSum, BalanceFromLedger
  <1>8. SavesWhatWasRead'
    BY <1>0, <1>1, <1>2, <1>5 DEF SavesWhatWasRead
  <1>9. LockedRowIsCurrent'
    BY <1>0, <1>2, <1>4, <1>5 DEF LockedRowIsCurrent
  <1> QED BY <1>6, <1>7, <1>8, <1>9 DEF LocksInv

(* Reading a row again under its lock keeps what the locks promise. *)
LEMMA ReloadKeepsLocks ==
  ASSUME LocksInv, NEW s \in Session, Reload(s)
  PROVE  LocksInv'
  <1>0. TxTypeOK /\ LegsAllowed /\ OneHolder /\ HeldIsOpen /\ DoneIsHeld /\ SavesWhatWasRead
        /\ LockedRowIsCurrent /\ NobodyOwnsBeforeJoining /\ UnsavedBalanceIsLedgerSum
    BY DEF LocksInv
  <1> DEFINE found == IF account[target[s]] = "open" THEN balance[target[s]] ELSE NoAccount
  <1>1. /\ pc[s] = "read" /\ pc' = [pc EXCEPT ![s] = "reloaded"]
        /\ seen' = [seen EXCEPT ![s] = found]
    BY DEF Reload
  <1>2. /\ UNCHANGED <<legs, done, work, target, holders, begun>>
        /\ UNCHANGED <<account, balance, inflow, outflow>>
    BY DEF Reload, ledgerVars
  <1>3. target[s] \in User
    BY <1>0, <1>1, SaveTargetAssumption DEF SavesWhatWasRead
  <1>4. found \in Int \cup {NoAccount}
    BY <1>0, <1>3 DEF TxTypeOK, LedgerTypeOK
  <1> HIDE DEF found
  <1>5. pc'[s] = "reloaded" /\ \A t \in Session : t # s => pc'[t] = pc[t]
    BY <1>0, <1>1 DEF TxTypeOK
  <1>6. TxTypeOK'
    <2>1. LedgerTypeOK'
      BY <1>0, <1>2 DEF TxTypeOK, LedgerTypeOK
    <2>2. /\ pc' \in [Session -> {"idle", "paying", "read", "reloaded"}]
          /\ seen' \in [Session -> Int \cup {NoAccount}]
      BY <1>0, <1>1, <1>4 DEF TxTypeOK
    <2>3. \A v \in User : \A t \in holders'[v] : pc'[t] = "paying"
      BY <1>0, <1>1, <1>2, <1>5 DEF TxTypeOK
    <2> QED BY <1>0, <1>2, <2>1, <2>2, <2>3 DEF TxTypeOK
  <1>7. LegsAllowed' /\ OneHolder' /\ HeldIsOpen' /\ DoneIsHeld' /\ LockedRowIsCurrent'
        /\ NobodyOwnsBeforeJoining' /\ UnsavedBalanceIsLedgerSum'
    BY <1>0, <1>2 DEF LegsAllowed, OneHolder, HeldIsOpen, DoneIsHeld, NobodyOwnsBeforeJoining,
                      LockedRowIsCurrent, UnsavedBalanceIsLedgerSum, BalanceFromLedger
  <1>8. SavesWhatWasRead'
    BY <1>0, <1>1, <1>2, <1>5 DEF SavesWhatWasRead
  <1> QED BY <1>6, <1>7, <1>8 DEF LocksInv

(* A save writes only the row of a user whose entity is saved, and waits for its lock.  *)
LEMMA WriteEntityKeepsLocks ==
  ASSUME LocksInv, NEW s \in Session, WriteEntity(s)
  PROVE  LocksInv'
  <1>0. TxTypeOK /\ LegsAllowed /\ OneHolder /\ HeldIsOpen /\ DoneIsHeld /\ SavesWhatWasRead
        /\ LockedRowIsCurrent /\ NobodyOwnsBeforeJoining /\ UnsavedBalanceIsLedgerSum
    BY DEF LocksInv
  <1>1. PICK u : u = target[s]
    OBVIOUS
  <1>2. /\ pc[s] = "reloaded" /\ holders[u] = {}
        /\ pc' = [pc EXCEPT ![s] = "idle"] /\ target' = [target EXCEPT ![s] = Nobody]
        /\ seen' = [seen EXCEPT ![s] = 0]
        /\ work' = [work EXCEPT ![s] = [v \in User |-> 0]]
        /\ UNCHANGED <<inflow, outflow, legs, done, holders, begun>>
    BY <1>1 DEF WriteEntity
  <1>3. /\ \/ seen[s] = NoAccount /\ account' = [account EXCEPT ![u] = "open"]
           \/ seen[s] # NoAccount /\ account' = account
        /\ \/ /\ seen[s] = NoAccount \/ account[u] = "open"
              /\ balance' = [balance EXCEPT ![u] = work[s][u]]
           \/ balance' = balance
    BY <1>1 DEF WriteEntity
  <1>4. u \in SaveTarget /\ u \in User /\ account[u] # "none"
    BY <1>0, <1>1, <1>2, SaveTargetAssumption DEF SavesWhatWasRead
  <1>5. work[s][u] \in Int
    BY <1>0, <1>4 DEF TxTypeOK
  <1>6. /\ account' \in [User -> {"none", "open", "deleted"}] /\ balance' \in [User -> Int]
        /\ \A v \in User : v # u => account'[v] = account[v] /\ balance'[v] = balance[v]
        /\ account'[u] # "none"
    <2>1. account \in [User -> {"none", "open", "deleted"}] /\ balance \in [User -> Int]
      BY <1>0 DEF TxTypeOK, LedgerTypeOK
    <2> QED BY <1>3, <1>4, <1>5, <2>1
  <1>7. pc'[s] = "idle" /\ \A t \in Session : t # s =>
          pc'[t] = pc[t] /\ target'[t] = target[t] /\ work'[t] = work[t]
    BY <1>0, <1>2 DEF TxTypeOK
  <1>8. \A v \in User : s \notin holders[v]
    BY <1>0, <1>2 DEF TxTypeOK
  <1>9. TxTypeOK'
    <2>1. LedgerTypeOK'
      BY <1>0, <1>2, <1>6 DEF TxTypeOK, LedgerTypeOK
    <2>2. /\ pc' \in [Session -> {"idle", "paying", "read", "reloaded"}]
          /\ target' \in [Session -> SaveTarget \cup {Nobody}]
          /\ seen' \in [Session -> Int \cup {NoAccount}]
      BY <1>0, <1>2 DEF TxTypeOK
    <2>3. work' \in [Session -> [User -> Int]]
      BY <1>0, <1>2 DEF TxTypeOK
    <2>4. \A v \in User : \A t \in holders'[v] : pc'[t] = "paying"
      <3> SUFFICES ASSUME NEW v \in User, NEW t \in holders'[v] PROVE pc'[t] = "paying"
        OBVIOUS
      <3>1. t \in holders[v] /\ t \in Session /\ t # s
        BY <1>0, <1>2, <1>8 DEF TxTypeOK
      <3> QED BY <1>0, <1>7, <3>1 DEF TxTypeOK
    <2> QED BY <1>0, <1>2, <2>1, <2>2, <2>3, <2>4 DEF TxTypeOK
  <1>10. LegsAllowed' /\ OneHolder' /\ DoneIsHeld'
    BY <1>0, <1>2 DEF LegsAllowed, OneHolder, DoneIsHeld
  <1>11. HeldIsOpen'
    BY <1>0, <1>2, <1>6 DEF HeldIsOpen
  <1>12. SavesWhatWasRead'
    <2> SUFFICES ASSUME NEW t \in Session, pc'[t] \in {"read", "reloaded"}
                 PROVE  target'[t] \in SaveTarget /\ account'[target'[t]] # "none"
      BY DEF SavesWhatWasRead
    <2>1. t # s
      BY <1>7
    <2>2. target'[t] = target[t] /\ target[t] \in SaveTarget /\ account[target[t]] # "none"
      BY <1>0, <1>7, <2>1 DEF SavesWhatWasRead
    <2>3. target[t] \in User
      BY <2>2, SaveTargetAssumption
    <2> QED BY <1>6, <2>2, <2>3
  <1>13. LockedRowIsCurrent'
    BY <1>0, <1>2, <1>6, <1>7, <1>8 DEF LockedRowIsCurrent
  <1>14. NobodyOwnsBeforeJoining'
    BY <1>0, <1>6 DEF NobodyOwnsBeforeJoining
  <1>15. UnsavedBalanceIsLedgerSum'
    BY <1>0, <1>2, <1>4, <1>6 DEF UnsavedBalanceIsLedgerSum, BalanceFromLedger
  <1> QED BY <1>9, <1>10, <1>11, <1>12, <1>13, <1>14, <1>15 DEF LocksInv

(* A member's row appears with the seed and its record, or goes, when nobody locks it.  *)
LEMMA JoinTxKeepsLocks == ASSUME LocksInv, NEW u \in User, JoinTx(u) PROVE LocksInv'
  <1>0. TxTypeOK /\ LegsAllowed /\ OneHolder /\ HeldIsOpen /\ DoneIsHeld /\ SavesWhatWasRead
        /\ LockedRowIsCurrent /\ NobodyOwnsBeforeJoining /\ UnsavedBalanceIsLedgerSum
        /\ LedgerTypeOK
    BY DEF LocksInv, TxTypeOK
  <1>1. /\ Join(u) /\ UNCHANGED <<pc, legs, done, work, target, seen, holders, begun>>
    BY DEF JoinTx, txVars
  <1>2. Balanced /\ LedgerTypeOK'
    BY <1>0, <1>1, JoinBalanced
  <1>3. account[u] = "none" /\ account' = [account EXCEPT ![u] = "open"]
        /\ balance' = [balance EXCEPT ![u] = SeedPoints]
    BY <1>1 DEF Join
  <1>4. /\ account'[u] = "open"
        /\ \A v \in User : v # u => account'[v] = account[v] /\ balance'[v] = balance[v]
    BY <1>0, <1>3 DEF LedgerTypeOK
  <1>5. TxTypeOK'
    BY <1>0, <1>1, <1>2 DEF TxTypeOK
  <1>6. LegsAllowed' /\ OneHolder' /\ DoneIsHeld'
    BY <1>0, <1>1 DEF LegsAllowed, OneHolder, DoneIsHeld
  <1>7. HeldIsOpen'
    BY <1>0, <1>1, <1>4 DEF HeldIsOpen
  <1>8. SavesWhatWasRead'
    <2> SUFFICES ASSUME NEW t \in Session, pc'[t] \in {"read", "reloaded"}
                 PROVE  target'[t] \in SaveTarget /\ account'[target'[t]] # "none"
      BY DEF SavesWhatWasRead
    <2>1. target'[t] = target[t] /\ target[t] \in SaveTarget /\ account[target[t]] # "none"
      BY <1>0, <1>1 DEF SavesWhatWasRead
    <2>2. target[t] \in User
      BY <2>1, SaveTargetAssumption
    <2> QED BY <1>4, <2>1, <2>2
  <1>9. holders[u] = {}
    BY <1>0, <1>3 DEF HeldIsOpen
  <1>10. LockedRowIsCurrent'
    BY <1>0, <1>1, <1>4, <1>9 DEF LockedRowIsCurrent
  <1>11. NobodyOwnsBeforeJoining'
    BY <1>0, <1>4 DEF NobodyOwnsBeforeJoining
  <1>12. UnsavedBalanceIsLedgerSum'
    <2> SUFFICES ASSUME NEW v \in User \ SaveTarget PROVE balance'[v] = inflow'[v] - outflow'[v]
      BY DEF UnsavedBalanceIsLedgerSum, BalanceFromLedger
    <2>1. balance[v] = inflow[v] - outflow[v]
      BY <1>0 DEF UnsavedBalanceIsLedgerSum, BalanceFromLedger
    <2>2. balance[v] \in Int /\ balance'[v] \in Int /\ inflow[v] \in Nat /\ outflow[v] \in Nat
          /\ inflow'[v] \in Nat /\ outflow'[v] \in Nat
      BY <1>0, <1>2 DEF LedgerTypeOK, Account
    <2>3. balance'[v] - balance[v] = (inflow'[v] - inflow[v]) - (outflow'[v] - outflow[v])
      BY <1>2 DEF Balanced
    <2> QED BY <2>1, <2>2, <2>3
  <1> QED BY <1>5, <1>6, <1>7, <1>8, <1>10, <1>11, <1>12 DEF LocksInv

(* So does the removal of a user. *)
LEMMA RemoveTxKeepsLocks == ASSUME LocksInv, NEW u \in Leaver, RemoveTx(u) PROVE LocksInv'
  <1>0. TxTypeOK /\ LegsAllowed /\ OneHolder /\ HeldIsOpen /\ DoneIsHeld /\ SavesWhatWasRead
        /\ LockedRowIsCurrent /\ NobodyOwnsBeforeJoining /\ UnsavedBalanceIsLedgerSum
        /\ LedgerTypeOK
    BY DEF LocksInv, TxTypeOK
  <1>1. /\ holders[u] = {} /\ account' = [account EXCEPT ![u] = "deleted"]
        /\ UNCHANGED <<balance, inflow, outflow>>
        /\ UNCHANGED <<pc, legs, done, work, target, seen, holders, begun>>
    BY DEF RemoveTx, RemoveUser, txVars
  <1>2. u \in User
    BY LeaverAssumption
  <1>3. /\ account' \in [User -> {"none", "open", "deleted"}] /\ account'[u] = "deleted"
        /\ \A v \in User : v # u => account'[v] = account[v]
    BY <1>0, <1>1, <1>2 DEF LedgerTypeOK
  <1>4. TxTypeOK'
    <2>1. LedgerTypeOK'
      BY <1>0, <1>1, <1>3 DEF LedgerTypeOK
    <2> QED BY <1>0, <1>1, <2>1 DEF TxTypeOK
  <1>5. LegsAllowed' /\ OneHolder' /\ DoneIsHeld' /\ LockedRowIsCurrent' /\ UnsavedBalanceIsLedgerSum'
    BY <1>0, <1>1 DEF LegsAllowed, OneHolder, DoneIsHeld, LockedRowIsCurrent,
                      UnsavedBalanceIsLedgerSum, BalanceFromLedger
  <1>6. HeldIsOpen'
    BY <1>0, <1>1, <1>3 DEF HeldIsOpen
  <1>7. SavesWhatWasRead'
    <2> SUFFICES ASSUME NEW t \in Session, pc'[t] \in {"read", "reloaded"}
                 PROVE  target'[t] \in SaveTarget /\ account'[target'[t]] # "none"
      BY DEF SavesWhatWasRead
    <2>1. target'[t] = target[t] /\ target[t] \in SaveTarget /\ account[target[t]] # "none"
      BY <1>0, <1>1 DEF SavesWhatWasRead
    <2>2. target[t] \in User
      BY <2>1, SaveTargetAssumption
    <2> QED BY <1>3, <2>1, <2>2
  <1>8. NobodyOwnsBeforeJoining'
    BY <1>0, <1>1, <1>3 DEF NobodyOwnsBeforeJoining
  <1> QED BY <1>4, <1>5, <1>6, <1>7, <1>8 DEF LocksInv

(* Every step of the sessions keeps the inductive invariant.                             *)
LEMMA LocksNextInv == LocksInv /\ [Next]_vars => LocksInv'
  <1> SUFFICES ASSUME LocksInv, [Next]_vars PROVE LocksInv'
    OBVIOUS
  <1>1. ASSUME NEW s \in Session, SessionStep(s) \/ Crash(s) PROVE LocksInv'
    BY <1>1, LockRowKeepsLocks, ApplyKeepsLocks, CommitKeepsLocks, RollBackKeepsLocks,
       ReloadKeepsLocks, WriteEntityKeepsLocks
       DEF SessionStep, Refuse, DeadlockVictim, Crash
  <1>2. ASSUME NEW s \in Session, NEW prog \in Program, Begin(s, prog) PROVE LocksInv'
    BY <1>2, BeginKeepsLocks
  <1>3. ASSUME NEW s \in Session, NEW u \in SaveTarget, ReadEntity(s, u) PROVE LocksInv'
    BY <1>3, ReadEntityKeepsLocks
  <1>4. ASSUME NEW u \in User, JoinTx(u) PROVE LocksInv'
    BY <1>4, JoinTxKeepsLocks
  <1>5. ASSUME NEW u \in Leaver, RemoveTx(u) PROVE LocksInv'
    BY <1>5, RemoveTxKeepsLocks
  <1>6. CASE UNCHANGED vars
    <2>1. /\ UNCHANGED <<pc, legs, done, work, target, seen, holders, begun>>
          /\ UNCHANGED <<account, balance, inflow, outflow>>
      BY <1>6 DEF vars, txVars, ledgerVars
    <2> QED BY <2>1 DEF LocksInv, TxTypeOK, LedgerTypeOK, LegsAllowed, OneHolder, HeldIsOpen,
              DoneIsHeld, SavesWhatWasRead, LockedRowIsCurrent, NobodyOwnsBeforeJoining,
              UnsavedBalanceIsLedgerSum, BalanceFromLedger
  <1> QED BY <1>1, <1>2, <1>3, <1>4, <1>5, <1>6 DEF Next

(* Whatever the sessions do, a balance that no request saves stays what the ledger rows   *)
(* of its user add up to: no update is lost (LedgerService.transfer locks what it reads).  *)
THEOREM UnsavedBalancesReconcile == Spec => []UnsavedBalanceIsLedgerSum
  <1>1. LocksInv => UnsavedBalanceIsLedgerSum
    BY DEF LocksInv
  <1> QED BY <1>1, LocksInitInv, LocksNextInv, PTL DEF Spec

(* What a session holds locked is the committed value plus what it has done since.         *)
THEOREM LockedRowsStayCurrent == Spec => []LockedRowIsCurrent
  <1>1. LocksInv => LockedRowIsCurrent
    BY DEF LocksInv
  <1> QED BY <1>1, LocksInitInv, LocksNextInv, PTL DEF Spec

-----------------------------------------------------------------------------
(* Nobody saves entities: the sessions run serial transactions.                         *)

(* A transaction that has done nothing issues what it gives.                             *)
LEMMA EmptyAddsUp ==
  MovedFrom(<< >>, SINK) = SumFunctionOnSet([u \in User |-> MovedTo(<< >>, u)], User)
  <1> DEFINE zero == [u \in User |-> MovedTo(<< >>, u)]
  <1>1. \A u \in User : zero[u] = 0
    BY MovedEmpty
  <1>2. IsFiniteSet(User)
    BY UserAssumption
  <1> HIDE DEF zero
  <1>3. SumFunctionOnSet(zero, User) = 0
    BY <1>1, <1>2, SumOfZeros
  <1> QED BY <1>3, MovedEmpty DEF zero

(* One more mint adds the same to both sides.                                            *)
LEMMA AppendAddsUp ==
  ASSUME NEW L \in Seq(Leg), NEW leg \in Leg, LegAllowed(leg), leg.from = SINK,
         MovedFrom(L, SINK) = SumFunctionOnSet([u \in User |-> MovedTo(L, u)], User)
  PROVE  MovedFrom(Append(L, leg), SINK)
           = SumFunctionOnSet([u \in User |-> MovedTo(Append(L, leg), u)], User)
  <1> DEFINE f == [u \in User |-> MovedTo(L, u)]
             g == [u \in User |-> MovedTo(Append(L, leg), u)]
  <1>1. leg.amt \in Int
    BY LegAmount
  <1>2. leg.to \in User
    <2>1. leg.to \in Account
      BY DEF Leg
    <2>2. leg.to # SINK
      BY DEF LegAllowed, TransferAllowed, IsRealUserAccount
    <2> QED BY <2>1, <2>2 DEF Account
  <1>3. \A u \in User : f[u] \in Int
    BY MovedType
  <1>4. \A u \in User : g[u] = f[u] + (IF u = leg.to THEN leg.amt ELSE 0)
    <2> SUFFICES ASSUME NEW u \in User PROVE g[u] = f[u] + (IF u = leg.to THEN leg.amt ELSE 0)
      OBVIOUS
    <2>1. MovedTo(Append(L, leg), u) = MovedTo(L, u) + (IF leg.to = u THEN leg.amt ELSE 0)
      BY MovedAppend
    <2> QED BY <2>1
  <1>5. MovedFrom(Append(L, leg), SINK) = MovedFrom(L, SINK) + leg.amt
    BY MovedAppend
  <1> HIDE DEF f, g
  <1>6. SumFunctionOnSet(g, User)
          = SumFunctionOnSet(f, User) + (IF leg.to \in User THEN leg.amt ELSE 0)
    BY <1>1, <1>3, <1>4, SumShift
  <1> QED BY <1>2, <1>5, <1>6 DEF f, g

(* One leg moves its amount once.                                                        *)
LEMMA OneLeg ==
  ASSUME NEW L \in Seq(Leg), Len(L) = 1, NEW a
  PROVE  /\ L[1] \in Leg /\ 1 \in DOMAIN L
         /\ MovedTo(L, a) = IF L[1].to = a THEN L[1].amt ELSE 0
         /\ MovedFrom(L, a) = IF L[1].from = a THEN L[1].amt ELSE 0
  <1>1. L[1] \in Leg /\ 1 \in DOMAIN L /\ L = Append(<< >>, L[1]) /\ << >> \in Seq(Leg)
    OBVIOUS
  <1>2. L[1].amt \in Int
    BY <1>1, LegAmount
  <1>3. /\ MovedTo(L, a) = MovedTo(<< >>, a) + (IF L[1].to = a THEN L[1].amt ELSE 0)
        /\ MovedFrom(L, a) = MovedFrom(<< >>, a) + (IF L[1].from = a THEN L[1].amt ELSE 0)
    <2>1. PICK leg : leg = L[1]
      OBVIOUS
    <2>2. L = Append(<< >>, leg) /\ leg \in Leg
      BY <1>1, <2>1
    <2>3. /\ MovedTo(Append(<< >>, leg), a) = MovedTo(<< >>, a) + (IF leg.to = a THEN leg.amt ELSE 0)
          /\ MovedFrom(Append(<< >>, leg), a) = MovedFrom(<< >>, a) + (IF leg.from = a THEN leg.amt ELSE 0)
      <3> DEFINE none == << >>
      <3>1. none \in Seq(Leg)
        BY <1>1
      <3> HIDE DEF none
      <3>2. /\ MovedTo(Append(none, leg), a) = MovedTo(none, a) + (IF leg.to = a THEN leg.amt ELSE 0)
            /\ MovedFrom(Append(none, leg), a) = MovedFrom(none, a) + (IF leg.from = a THEN leg.amt ELSE 0)
        BY <2>2, <3>1, MovedAppend
      <3> QED BY <3>2 DEF none
    <2> QED BY <2>1, <2>2, <2>3, Zenon
  <1> QED BY <1>1, <1>2, <1>3, MovedEmpty

(* A function that differs from another at one account only.                              *)
LEMMA AddedAt ==
  ASSUME NEW f \in [Account -> Nat], NEW g, NEW a \in Account, NEW d,
         g = [b \in Account |-> g[b]], g[a] = f[a] + d, \A b \in Account : b # a => g[b] = f[b]
  PROVE  g = [f EXCEPT ![a] = @ + d]
  OBVIOUS

(* A commit after one leg is one transfer of the serial ledger.                           *)
LEMMA CommitOneLeg ==
  ASSUME LocksInv, WorkCovered, NEW s \in Session, Commit(s), Len(done[s]) = 1
  PROVE  AnyTransfer
  <1>0. TxTypeOK /\ LegsAllowed /\ HeldIsOpen /\ DoneIsHeld /\ LockedRowIsCurrent /\ LedgerTypeOK
    BY DEF LocksInv, TxTypeOK
  <1>1. done[s] \in Seq(Leg)
    BY <1>0, TxTypes
  <1>2. PICK leg : leg = done[s][1]
    OBVIOUS
  <1>3. leg \in Leg /\ LegAllowed(leg) /\ 1 \in DOMAIN done[s]
    BY <1>0, <1>1, <1>2, OneLeg DEF LegsAllowed
  <1>4. \A a : /\ MovedTo(done[s], a) = IF leg.to = a THEN leg.amt ELSE 0
               /\ MovedFrom(done[s], a) = IF leg.from = a THEN leg.amt ELSE 0
    BY <1>1, <1>2, OneLeg
  <1>5. leg.from \in Account /\ leg.to \in Account /\ leg.amt \in Amount /\ leg.amt \in Int
    BY <1>3, LegAmount DEF Leg
  <1>6. \A u \in User : ~ (leg.to = u /\ leg.from = u)
    BY <1>3, UserAssumption DEF LegAllowed, TransferAllowed, IsRealUserAccount
  <1>7. \A u \in {leg.from, leg.to} \cap User : s \in holders[u]
    BY <1>0, <1>2, <1>3 DEF DoneIsHeld, RowsOf
  <1>8. \A u \in {leg.from, leg.to} \cap User : account[u] = "open"
    BY <1>0, <1>7 DEF HeldIsOpen
  <1>9. IsRealUserAccount(leg.from) => balance[leg.from] >= leg.amt
    <2> SUFFICES ASSUME IsRealUserAccount(leg.from) PROVE balance[leg.from] >= leg.amt
      OBVIOUS
    <2>1. leg.from \in User
      BY <1>5 DEF IsRealUserAccount, Account
    <2>2. s \in holders[leg.from]
      BY <1>7, <2>1
    <2>3. work[s][leg.from] = balance[leg.from] + MovedTo(done[s], leg.from) - MovedFrom(done[s], leg.from)
          /\ work[s][leg.from] >= 0
      BY <1>0, <2>1, <2>2 DEF LockedRowIsCurrent, WorkCovered
    <2>4. MovedTo(done[s], leg.from) = 0 /\ MovedFrom(done[s], leg.from) = leg.amt
      BY <1>4, <1>6, <2>1
    <2>5. balance[leg.from] \in Int
      BY <1>0, <2>1 DEF LedgerTypeOK
    <2> QED BY <1>5, <2>3, <2>4, <2>5
  <1>10. balance' = Moved(leg.from, leg.to, leg.amt)
    <2>1. \A u \in User : balance[u] \in Int
      BY <1>0 DEF LedgerTypeOK
    <2>2. \A u \in User : balance'[u] = balance[u] + MovedTo(done[s], u) - MovedFrom(done[s], u)
      BY CommitEffect
    <2>3. \A u \in User : balance'[u] = CASE u = leg.to -> balance[u] + leg.amt
                                          [] u = leg.from /\ u # leg.to -> balance[u] - leg.amt
                                          [] OTHER -> balance[u]
      BY <1>4, <1>5, <1>6, <2>1, <2>2
    <2>4. balance' = [u \in User |-> balance'[u]]
      BY DEF Commit
    <2> QED BY <2>3, <2>4 DEF Moved
  <1>11. RecordTx(leg.from, leg.to, leg.amt)
    <2>1. NormalizeAccount(leg.to) = leg.to /\ NormalizeAccount(leg.from) = leg.from
      BY <1>5, UserAssumption DEF NormalizeAccount, Account
    <2>2. inflow \in [Account -> Nat] /\ outflow \in [Account -> Nat]
      BY <1>0 DEF LedgerTypeOK
    <2>3. /\ inflow' = [a \in Account |-> inflow[a] + MovedTo(done[s], a)]
          /\ outflow' = [a \in Account |-> outflow[a] + MovedFrom(done[s], a)]
      BY DEF Commit
    <2>4. inflow' = [inflow EXCEPT ![leg.to] = @ + leg.amt]
      <3>1. \A b \in Account : inflow[b] \in Nat /\ inflow'[b] = inflow[b] + (IF leg.to = b THEN leg.amt ELSE 0)
        BY <1>4, <2>2, <2>3
      <3>2. inflow'[leg.to] = inflow[leg.to] + leg.amt
            /\ \A b \in Account : b # leg.to => inflow'[b] = inflow[b]
        BY <1>5, <3>1
      <3>3. inflow' = [b \in Account |-> inflow'[b]]
        BY <2>3
      <3> QED BY <1>5, <2>2, <3>2, <3>3, AddedAt
    <2>5. outflow' = [outflow EXCEPT ![leg.from] = @ + leg.amt]
      <3>1. \A b \in Account : outflow[b] \in Nat /\ outflow'[b] = outflow[b] + (IF leg.from = b THEN leg.amt ELSE 0)
        BY <1>4, <2>2, <2>3
      <3>2. outflow'[leg.from] = outflow[leg.from] + leg.amt
            /\ \A b \in Account : b # leg.from => outflow'[b] = outflow[b]
        BY <1>5, <3>1
      <3>3. outflow' = [b \in Account |-> outflow'[b]]
        BY <2>3
      <3> QED BY <1>5, <2>2, <3>2, <3>3, AddedAt
    <2> QED BY <2>1, <2>4, <2>5 DEF RecordTx
  <1>12. Transfer(leg.from, leg.to, leg.amt)
    BY <1>3, <1>8, <1>9, <1>10, <1>11 DEF Transfer, LegAllowed, Commit
  <1> QED BY <1>5, <1>12 DEF AnyTransfer

(* A commit after mints, or after nothing, is one payment of the serial ledger to many.    *)
LEMMA CommitMints ==
  ASSUME LocksInv, MintsAddUp, NEW s \in Session, Commit(s), MintsOnly(done[s])
  PROVE  AnyMintAll
  <1>0. TxTypeOK /\ LegsAllowed /\ HeldIsOpen /\ DoneIsHeld /\ LedgerTypeOK
    BY DEF LocksInv, TxTypeOK
  <1>1. done[s] \in Seq(Leg) /\ \A i \in DOMAIN done[s] : done[s][i] \in Leg /\ LegAllowed(done[s][i])
    <2>1. done[s] \in Seq(Leg)
      BY <1>0, TxTypes
    <2> QED BY <1>0, <2>1 DEF LegsAllowed
  <1> DEFINE pay == [u \in User |-> balance'[u] - balance[u]]
             given == [u \in User |-> MovedTo(done[s], u)]
  <1>2. \A i \in DOMAIN done[s] : done[s][i].from = SINK /\ done[s][i].to # SINK
    BY <1>1 DEF MintsOnly, LegAllowed, TransferAllowed, IsRealUserAccount
  <1>3. MovedTo(done[s], SINK) = 0
    BY <1>1, <1>2, MovedNothing
  <1>4. \A u \in User : MovedFrom(done[s], u) = 0
    <2> SUFFICES ASSUME NEW u \in User PROVE MovedFrom(done[s], u) = 0
      OBVIOUS
    <2>1. \A i \in DOMAIN done[s] : done[s][i].from # u
      BY <1>2, UserAssumption
    <2> QED BY <1>1, <2>1, MovedNothing
  <1>5. \A u \in User : MovedTo(done[s], u) \in Nat /\ balance[u] \in Int
    BY <1>0, <1>1, MovedNonNegative DEF LedgerTypeOK
  <1>6. \A u \in User : balance'[u] = balance[u] + MovedTo(done[s], u)
    BY <1>4, <1>5, CommitEffect
  <1>7. \A u \in User : pay[u] = MovedTo(done[s], u)
    BY <1>5, <1>6
  <1>8. pay = given
    BY <1>7
  <1>9. pay \in [User -> Nat]
    BY <1>5, <1>8
  <1>10. \A u \in User : pay[u] > 0 => account[u] = "open"
    <2> SUFFICES ASSUME NEW u \in User, pay[u] > 0 PROVE account[u] = "open"
      OBVIOUS
    <2>1. s \in holders[u]
      <3> SUFFICES ASSUME s \notin holders[u] PROVE FALSE
        OBVIOUS
      <3>1. \A i \in DOMAIN done[s] : done[s][i].to # u
        BY <1>0 DEF DoneIsHeld, RowsOf
      <3>2. MovedTo(done[s], u) = 0
        BY <1>1, <3>1, MovedNothing
      <3> QED BY <1>7, <3>2
    <2> QED BY <1>0, <2>1 DEF HeldIsOpen
  <1>11. balance' = [u \in User |-> balance[u] + pay[u]]
    <2>1. balance' = [u \in User |-> balance'[u]]
      BY DEF Commit
    <2>2. \A u \in User : balance'[u] = balance[u] + pay[u]
      BY <1>6, <1>7
    <2> HIDE DEF pay
    <2> QED BY <2>1, <2>2
  <1>12. inflow' = [a \in Account |-> IF a = SINK THEN inflow[a] ELSE inflow[a] + pay[a]]
    <2>1. inflow' = [a \in Account |-> inflow[a] + MovedTo(done[s], a)]
      BY DEF Commit
    <2>2. \A a \in Account : inflow[a] \in Nat
      BY <1>0 DEF LedgerTypeOK
    <2>3. \A a \in Account : a # SINK => pay[a] = MovedTo(done[s], a)
      BY <1>7 DEF Account
    <2> HIDE DEF pay
    <2> QED BY <1>3, <2>1, <2>2, <2>3
  <1>13. outflow' = [outflow EXCEPT ![SINK] = @ + SumFunctionOnSet(pay, User)]
    <2>1. outflow' = [a \in Account |-> outflow[a] + MovedFrom(done[s], a)]
      BY DEF Commit
    <2>2. outflow \in [Account -> Nat] /\ SINK \in Account
      BY <1>0 DEF LedgerTypeOK, Account
    <2>3. MovedFrom(done[s], SINK) = SumFunctionOnSet(pay, User)
      BY <1>8 DEF MintsAddUp
    <2>4. \A a \in Account : a # SINK => MovedFrom(done[s], a) = 0
      BY <1>4 DEF Account
    <2>5. \A a \in Account : outflow[a] \in Nat /\ outflow'[a] = outflow[a] + MovedFrom(done[s], a)
      BY <2>1, <2>2
    <2>6. outflow' = [a \in Account |-> outflow'[a]]
      BY <2>1
    <2> HIDE DEF pay
    <2>7. outflow'[SINK] = outflow[SINK] + SumFunctionOnSet(pay, User)
      BY <2>2, <2>3, <2>5
    <2>8. \A a \in Account : a # SINK => outflow'[a] = outflow[a]
      BY <2>4, <2>5
    <2> QED BY <2>2, <2>6, <2>7, <2>8, AddedAt
  <1>14. MintAll(pay)
    <2>1. account' = account
      BY DEF Commit
    <2> HIDE DEF pay
    <2> QED BY <1>10, <1>11, <1>12, <1>13, <2>1 DEF MintAll
  <1> QED BY <1>9, <1>14 DEF AnyMintAll

(* Every step of the sessions is a transaction of the serial ledger, or none.               *)
LEMMA StepIsSerial ==
  ASSUME SaveTarget = {}, SerialInv, [Next]_vars
  PROVE  [LedgerNext]_ledgerVars
  <1>0. LocksInv /\ RunsServices /\ MintsAddUp /\ WorkCovered /\ TxTypeOK /\ SavesWhatWasRead
    BY DEF SerialInv, LocksInv
  <1>1. ASSUME NEW s \in Session, Commit(s) PROVE LedgerNext
    <2>1. done[s] \in Seq(Leg) /\ legs[s] = << >> /\ Len(legs[s]) = 0 /\ Len(done[s]) \in Nat
      BY <1>0, <1>1, TxTypes DEF Commit
    <2>2. CASE MintsOnly(done[s])
      BY <1>0, <1>1, <2>2, CommitMints DEF LedgerNext, OneRequest
    <2>3. CASE Len(done[s]) = 1
      BY <1>0, <1>1, <2>3, CommitOneLeg DEF LedgerNext, OneRequest
    <2>4. CASE Len(done[s]) = 0
      <3>1. DOMAIN done[s] = {}
        BY <2>1, <2>4
      <3> QED BY <2>2, <3>1 DEF MintsOnly
    <2>5. Len(done[s]) + Len(legs[s]) <= 1 \/ MintsOnly(done[s])
      BY <1>0 DEF RunsServices
    <2>6. \A n \in Nat : n + 0 <= 1 => n = 0 \/ n = 1
      OBVIOUS
    <2>7. Len(done[s]) = 0 \/ Len(done[s]) = 1 \/ MintsOnly(done[s])
      BY <2>1, <2>5, <2>6
    <2> QED BY <2>2, <2>3, <2>4, <2>7
  <1>2. ASSUME NEW s \in Session, SessionStep(s) \/ Crash(s) PROVE [LedgerNext]_ledgerVars
    <2>1. ~ WriteEntity(s)
      BY <1>0 DEF WriteEntity, SavesWhatWasRead
    <2>2. CASE Commit(s)
      BY <1>1, <2>2
    <2>3. CASE \E u \in User : LockRow(s, u)
      BY <2>3 DEF LockRow
    <2>4. CASE Apply(s)
      BY <2>4 DEF Apply
    <2>5. CASE Refuse(s) \/ DeadlockVictim(s) \/ Crash(s)
      BY <2>5 DEF Refuse, DeadlockVictim, Crash, RollBack
    <2>6. CASE Reload(s)
      BY <2>6 DEF Reload
    <2> QED BY <1>2, <2>1, <2>2, <2>3, <2>4, <2>5, <2>6 DEF SessionStep
  <1>3. ASSUME NEW s \in Session, NEW prog \in Program, Begin(s, prog) PROVE UNCHANGED ledgerVars
    BY <1>3 DEF Begin
  <1>4. ASSUME NEW u \in User, JoinTx(u) PROVE LedgerNext
    BY <1>4 DEF JoinTx, LedgerNext, OneRequest
  <1>5. ASSUME NEW u \in Leaver, RemoveTx(u) PROVE LedgerNext
    BY <1>5 DEF RemoveTx, LedgerNext, OneRequest
  <1>6. CASE UNCHANGED vars
    BY <1>6 DEF vars
  <1> QED BY <1>2, <1>3, <1>4, <1>5, <1>6 DEF Next

(* A session that starts anew or ends has done nothing; the others go on.                   *)
LEMMA FreshSession ==
  ASSUME SerialInv, NEW s \in Session,
         done' = [done EXCEPT ![s] = << >>], legs'[s] \in Seq(Leg),
         \/ Len(legs'[s]) <= 1
         \/ MintsOnly(legs'[s]),
         \A t \in Session : t # s => legs'[t] = legs[t]
  PROVE  RunsServices' /\ MintsAddUp'
  <1>0. RunsServices /\ MintsAddUp /\ done \in [Session -> Seq(Leg)]
    BY DEF SerialInv, LocksInv, TxTypeOK
  <1>1. done'[s] = << >> /\ \A t \in Session : t # s => done'[t] = done[t]
    BY <1>0
  <1>2. Len(<< >>) = 0 /\ DOMAIN << >> = {}
    OBVIOUS
  <1>3. RunsServices'
    <2> SUFFICES ASSUME NEW t \in Session
                 PROVE  (\/ Len(done[t]) + Len(legs[t]) <= 1
                         \/ MintsOnly(done[t]) /\ MintsOnly(legs[t]))'
      BY DEF RunsServices
    <2>1. CASE t = s
      <3>1. CASE MintsOnly(legs'[s])
        BY <1>1, <1>2, <2>1, <3>1 DEF MintsOnly
      <3>2. CASE Len(legs'[s]) <= 1
        <4>1. Len(legs'[s]) \in Nat
          OBVIOUS
        <4>2. Len(<< >>) + Len(legs'[s]) <= 1
          BY <1>2, <3>2, <4>1
        <4> QED BY <1>1, <2>1, <4>2, Zenon
      <3> QED BY <3>1, <3>2
    <2>2. CASE t # s
      BY <1>0, <1>1, <2>2 DEF RunsServices, MintsOnly
    <2> QED BY <2>1, <2>2
  <1>4. MintsAddUp'
    <2> SUFFICES ASSUME NEW t \in Session, MintsOnly(done'[t])
                 PROVE  MovedFrom(done'[t], SINK)
                          = SumFunctionOnSet([u \in User |-> MovedTo(done'[t], u)], User)
      BY DEF MintsAddUp, MintsOnly, MovedFrom, MovedTo
    <2>1. CASE t = s
      <3>1. done'[t] = << >>
        BY <1>1, <2>1
      <3> QED BY <3>1, EmptyAddsUp
    <2>2. CASE t # s
      BY <1>0, <1>1, <2>2 DEF MintsAddUp
    <2> QED BY <2>1, <2>2
  <1> QED BY <1>3, <1>4

(* The steps of the sessions keep each transaction one of a service and its rows covered.    *)
LEMMA ServicesNext ==
  ASSUME SaveTarget = {}, ServicePrograms, SerialInv, [Next]_vars
  PROVE  RunsServices' /\ MintsAddUp' /\ WorkCovered'
  <1>0. /\ LocksInv /\ LedgerInv /\ RunsServices /\ MintsAddUp /\ WorkCovered
        /\ TxTypeOK /\ LegsAllowed /\ SavesWhatWasRead /\ NoOverdraft
    BY DEF SerialInv, LocksInv, LedgerInv
  <1>1. ASSUME UNCHANGED <<done, legs>> PROVE RunsServices' /\ MintsAddUp'
    BY <1>0, <1>1 DEF RunsServices, MintsAddUp, MintsOnly, MovedFrom, MovedTo
  <1>2. ASSUME UNCHANGED <<work, holders>> PROVE WorkCovered'
    BY <1>0, <1>2 DEF WorkCovered
  <1>3. ASSUME NEW s \in Session, NEW prog \in Program, Begin(s, prog)
        PROVE  RunsServices' /\ MintsAddUp' /\ WorkCovered'
    <2>1. /\ done' = [done EXCEPT ![s] = << >>] /\ legs' = [legs EXCEPT ![s] = prog]
          /\ UNCHANGED <<work, holders>>
      BY <1>3 DEF Begin
    <2>2. legs'[s] = prog /\ \A t \in Session : t # s => legs'[t] = legs[t]
      BY <1>0, <2>1 DEF TxTypeOK
    <2>3. Len(prog) <= 1 \/ MintsOnly(prog)
      BY DEF ServicePrograms, MintsOnly
    <2>4. (Len(legs'[s]) <= 1 \/ MintsOnly(legs'[s])) /\ legs'[s] \in Seq(Leg)
      BY <2>2, <2>3, ProgramAssumption DEF MintsOnly
    <2> QED BY <1>2, <2>1, <2>2, <2>4, FreshSession
  <1>4. ASSUME NEW s \in Session, NEW u \in User, LockRow(s, u)
        PROVE  RunsServices' /\ MintsAddUp' /\ WorkCovered'
    <2>1. /\ holders[u] = {} /\ holders' = [holders EXCEPT ![u] = @ \cup {s}]
          /\ work' = [work EXCEPT ![s][u] = balance[u]] /\ UNCHANGED <<done, legs>>
      BY <1>4 DEF LockRow
    <2>2. /\ holders'[u] = {s} /\ \A v \in User : v # u => holders'[v] = holders[v]
          /\ work'[s][u] = balance[u]
          /\ \A t \in Session, v \in User : t # s \/ v # u => work'[t][v] = work[t][v]
      BY <1>0, <2>1 DEF TxTypeOK
    <2>3. WorkCovered'
      BY <1>0, <2>2 DEF WorkCovered, NoOverdraft
    <2> QED BY <1>1, <2>1, <2>3
  <1>5. ASSUME NEW s \in Session, Apply(s)
        PROVE  RunsServices' /\ MintsAddUp' /\ WorkCovered'
    <2>1. PICK leg : leg = Current(s)
      OBVIOUS
    <2>2. /\ leg \in Leg /\ LegAllowed(leg)
          /\ IsRealUserAccount(leg.from) => work[s][leg.from] >= leg.amt
          /\ \A u \in User : work'[s][u] = work[s][u] + (IF leg.to = u THEN leg.amt ELSE 0)
                                                      - (IF leg.from = u THEN leg.amt ELSE 0)
          /\ legs'[s] = Tail(legs[s]) /\ done'[s] = Append(done[s], leg)
          /\ \A t \in Session : t # s =>
               legs'[t] = legs[t] /\ done'[t] = done[t] /\ work'[t] = work[t]
      BY <1>0, <1>5, <2>1, ApplyEffect
    <2>3. /\ legs[s] \in Seq(Leg) /\ done[s] \in Seq(Leg) /\ legs[s] # << >> /\ holders' = holders
          /\ \A i \in DOMAIN legs[s] : LegAllowed(legs[s][i])
      BY <1>0, <1>5, TxTypes DEF Apply, LegsAllowed
    <2>4. /\ Tail(legs[s]) \in Seq(Leg) /\ Len(legs[s]) = Len(Tail(legs[s])) + 1
          /\ MintsOnly(legs[s]) => leg.from = SINK /\ MintsOnly(Tail(legs[s]))
      BY <2>1, <2>3, FirstLeg DEF Current
    <2>5. /\ Append(done[s], leg) \in Seq(Leg) /\ Len(Append(done[s], leg)) = Len(done[s]) + 1
          /\ \A i \in DOMAIN Append(done[s], leg) :
               \/ i \in DOMAIN done[s] /\ Append(done[s], leg)[i] = done[s][i]
               \/ Append(done[s], leg)[i] = leg
          /\ \A i \in DOMAIN done[s] :
               i \in DOMAIN Append(done[s], leg) /\ Append(done[s], leg)[i] = done[s][i]
          /\ \E i \in DOMAIN Append(done[s], leg) : Append(done[s], leg)[i] = leg
      BY <2>2, <2>3, LegsOfAppend
    <2>6. MintsOnly(Append(done[s], leg)) <=> MintsOnly(done[s]) /\ leg.from = SINK
      BY <2>5 DEF MintsOnly
    <2>7. Len(Append(done[s], leg)) + Len(Tail(legs[s])) = Len(done[s]) + Len(legs[s])
      <3>1. Len(done[s]) \in Nat /\ Len(Tail(legs[s])) \in Nat
        BY <2>3, <2>4
      <3>2. \A m, n \in Nat : (m + 1) + n = m + (n + 1)
        OBVIOUS
      <3> QED BY <2>4, <2>5, <3>1, <3>2
    <2>8. RunsServices'
      <3> SUFFICES ASSUME NEW t \in Session
                   PROVE  (\/ Len(done[t]) + Len(legs[t]) <= 1
                           \/ MintsOnly(done[t]) /\ MintsOnly(legs[t]))'
        BY DEF RunsServices
      <3>1. CASE t = s
        <4>1. \/ Len(done[s]) + Len(legs[s]) <= 1
              \/ MintsOnly(done[s]) /\ MintsOnly(legs[s])
          BY <1>0 DEF RunsServices
        <4>2. \/ Len(Append(done[s], leg)) + Len(Tail(legs[s])) <= 1
              \/ MintsOnly(Append(done[s], leg)) /\ MintsOnly(Tail(legs[s]))
          BY <2>4, <2>6, <2>7, <4>1
        <4>3. done'[t] = Append(done[s], leg) /\ legs'[t] = Tail(legs[s])
          BY <2>2, <3>1
        <4>4. CASE Len(Append(done[s], leg)) + Len(Tail(legs[s])) <= 1
          BY <4>3, <4>4, Zenon
        <4>5. CASE MintsOnly(Append(done[s], leg)) /\ MintsOnly(Tail(legs[s]))
          <5>1. MintsOnly(done'[t]) /\ MintsOnly(legs'[t])
            BY <4>3, <4>5, Zenon
          <5> QED BY <5>1 DEF MintsOnly
        <4> QED BY <4>2, <4>4, <4>5
      <3>2. CASE t # s
        <4>1. done'[t] = done[t] /\ legs'[t] = legs[t]
          BY <2>2, <3>2
        <4>2. \/ Len(done[t]) + Len(legs[t]) <= 1
              \/ MintsOnly(done[t]) /\ MintsOnly(legs[t])
          BY <1>0 DEF RunsServices
        <4>3. CASE Len(done[t]) + Len(legs[t]) <= 1
          BY <4>1, <4>3, Zenon
        <4>4. CASE MintsOnly(done[t]) /\ MintsOnly(legs[t])
          BY <4>1, <4>4 DEF MintsOnly
        <4> QED BY <4>2, <4>3, <4>4
      <3> QED BY <3>1, <3>2
    <2>9. MintsAddUp'
      <3> SUFFICES ASSUME NEW t \in Session, MintsOnly(done'[t])
                   PROVE  MovedFrom(done'[t], SINK)
                            = SumFunctionOnSet([u \in User |-> MovedTo(done'[t], u)], User)
        BY DEF MintsAddUp, MintsOnly, MovedFrom, MovedTo
      <3>1. CASE t = s
        <4>1. MintsOnly(Append(done[s], leg))
          BY <2>2, <3>1
        <4>2. MovedFrom(done[s], SINK) = SumFunctionOnSet([u \in User |-> MovedTo(done[s], u)], User)
          BY <1>0, <2>6, <4>1 DEF MintsAddUp
        <4>3. MovedFrom(Append(done[s], leg), SINK)
                = SumFunctionOnSet([u \in User |-> MovedTo(Append(done[s], leg), u)], User)
          BY <2>2, <2>3, <2>6, <4>1, <4>2, AppendAddsUp
        <4>4. done'[t] = Append(done[s], leg)
          BY <2>2, <3>1
        <4> QED BY <4>3, <4>4
      <3>2. CASE t # s
        BY <1>0, <2>2, <3>2 DEF MintsAddUp
      <3> QED BY <3>1, <3>2
    <2>10. WorkCovered'
      <3> SUFFICES ASSUME NEW t \in Session, NEW u \in User, t \in holders'[u] PROVE work'[t][u] >= 0
        BY DEF WorkCovered
      <3>1. CASE t = s
        <4>1. work[s][u] \in Int /\ work[s][u] >= 0 /\ leg.amt \in Int /\ leg.amt > 0
          BY <1>0, <2>2, <2>3, <3>1, LegAmount DEF TxTypeOK, WorkCovered, LegAllowed, TransferAllowed
        <4>2. leg.from = u => work[s][u] >= leg.amt
          BY <2>2, UserAssumption DEF IsRealUserAccount
        <4> QED BY <2>2, <3>1, <4>1, <4>2
      <3>2. CASE t # s
        BY <1>0, <2>2, <2>3, <3>2 DEF WorkCovered
      <3> QED BY <3>1, <3>2
    <2> QED BY <2>8, <2>9, <2>10
  <1>6. ASSUME NEW s \in Session, Commit(s) \/ RollBack(s)
        PROVE  RunsServices' /\ MintsAddUp' /\ WorkCovered'
    <2>1. /\ done' = [done EXCEPT ![s] = << >>]
          /\ holders' = [u \in User |-> holders[u] \ {s}]
          /\ work' = [work EXCEPT ![s] = [u \in User |-> 0]]
      BY <1>6 DEF Commit, RollBack, Released
    <2>2. legs'[s] = << >> /\ \A t \in Session : t # s => legs'[t] = legs[t]
      BY <1>0, <1>6 DEF Commit, RollBack, TxTypeOK
    <2>3. Len(legs'[s]) <= 1 /\ legs'[s] \in Seq(Leg)
      BY <2>2
    <2>4. WorkCovered'
      <3> SUFFICES ASSUME NEW t \in Session, NEW u \in User, t \in holders'[u] PROVE work'[t][u] >= 0
        BY DEF WorkCovered
      <3>1. t # s /\ t \in holders[u]
        BY <2>1
      <3>2. work'[t] = work[t]
        BY <1>0, <2>1, <3>1 DEF TxTypeOK
      <3> QED BY <1>0, <3>1, <3>2 DEF WorkCovered
    <2> QED BY <2>1, <2>2, <2>3, <2>4, FreshSession
  <1>7. ASSUME NEW s \in Session, SessionStep(s) \/ Crash(s)
        PROVE  RunsServices' /\ MintsAddUp' /\ WorkCovered'
    <2>1. ~ WriteEntity(s) /\ ~ Reload(s)
      BY <1>0 DEF WriteEntity, Reload, SavesWhatWasRead
    <2> QED BY <1>4, <1>5, <1>6, <1>7, <2>1 DEF SessionStep, Refuse, DeadlockVictim, Crash
  <1>8. ASSUME NEW u \in User, JoinTx(u) \/ RemoveTx(u)
        PROVE  RunsServices' /\ MintsAddUp' /\ WorkCovered'
    <2>1. UNCHANGED <<done, legs>> /\ UNCHANGED <<work, holders>>
      BY <1>8 DEF JoinTx, RemoveTx, txVars
    <2> QED BY <1>1, <1>2, <2>1
  <1>9. CASE UNCHANGED vars
    <2>1. UNCHANGED <<done, legs>> /\ UNCHANGED <<work, holders>>
      BY <1>9 DEF vars, txVars
    <2> QED BY <1>1, <1>2, <2>1
  <1> QED BY <1>3, <1>7, <1>8, <1>9, LeaverAssumption DEF Next

(* The whole invariant holds from the start and is kept.                                     *)
LEMMA SerialInitInv == Init => SerialInv
  <1> SUFFICES ASSUME Init PROVE SerialInv
    OBVIOUS
  <1>1. LocksInv /\ LedgerInv
    BY LocksInitInv, LedgerInitInv DEF Init
  <1>2. \A s \in Session : done[s] = << >> /\ legs[s] = << >>
    BY DEF Init
  <1>3. RunsServices
    <2>1. Len(<< >>) + Len(<< >>) <= 1
      OBVIOUS
    <2> QED BY <1>2, <2>1, Zenon DEF RunsServices
  <1>4. MintsAddUp
    BY <1>2, EmptyAddsUp DEF MintsAddUp
  <1>5. WorkCovered
    BY DEF Init, WorkCovered
  <1> QED BY <1>1, <1>3, <1>4, <1>5 DEF SerialInv

(* Where nobody saves a stale balance, every step keeps transactions serial. *)
LEMMA SerialNextInv ==
  ASSUME SaveTarget = {}, ServicePrograms
  PROVE  SerialInv /\ [Next]_vars => SerialInv'
  <1> SUFFICES ASSUME SerialInv, [Next]_vars PROVE SerialInv'
    OBVIOUS
  <1>1. LocksInv' /\ [LedgerNext]_ledgerVars
    BY LocksNextInv, StepIsSerial DEF SerialInv
  <1>2. LedgerInv'
    BY <1>1, LedgerNextInv DEF SerialInv
  <1>3. RunsServices' /\ MintsAddUp' /\ WorkCovered'
    BY ServicesNext
  <1> QED BY <1>1, <1>2, <1>3 DEF SerialInv

-----------------------------------------------------------------------------
(* When no request saves an entity, concurrent transactions, each a single transfer or mints  *)
(* to anybody, amount to transactions made one after the other (LedgerService.transfer).       *)
THEOREM SessionsAreSerial ==
  ASSUME SaveTarget = {}, ServicePrograms
  PROVE  Spec => SerialSpec
  <1>1. Init => SerialInv /\ LedgerInit
    BY SerialInitInv DEF Init
  <1>2. SerialInv /\ [Next]_vars => SerialInv' /\ [LedgerNext]_ledgerVars
    BY SerialNextInv, StepIsSerial
  <1> QED BY <1>1, <1>2, PTL DEF Spec, SerialSpec, LedgerSpec

(* So nobody is overdrawn by transactions that interleave, and supply and rows agree.          *)
THEOREM SessionsKeepLedger ==
  ASSUME SaveTarget = {}, ServicePrograms
  PROVE  Spec => []LedgerInv /\ OnlyRecordedMoves
  <1> QED BY SessionsAreSerial, LedgerInvariant, LedgerOnlyRecordedMoves, PTL DEF SerialSpec
=============================================================================
