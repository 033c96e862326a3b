---------------------------- MODULE LedgerProofs ----------------------------
(***************************************************************************)
(* The point ledger keeps its promises for any set of users and any        *)
(* history of transfers.  The inductive invariant LedgerInv joins the      *)
(* properties of module Ledger with one fact they need: a user who has not  *)
(* joined has no points, so that the seed a member is created with can      *)
(* overwrite the balance without losing anything.                           *)
(***************************************************************************)
EXTENDS Ledger, PointSums

NobodyOwnsBeforeJoining == \A u \in User : account[u] = "none" => balance[u] = 0

LedgerInv ==
  /\ LedgerTypeOK
  /\ BalanceIsLedgerSum
  /\ NoOverdraft
  /\ CirculatingSupply
  /\ NobodyOwnsBeforeJoining

(* What a step does to the balances and to the rows of point_tx: each user's  *)
(* balance follows the rows of that user, and the supply the rows of SINK.      *)
Balanced ==
  /\ \A a \in Account : inflow'[a] \in Nat /\ outflow'[a] \in Nat
  /\ \A u \in User : balance'[u] - balance[u]
       = (inflow'[u] - inflow[u]) - (outflow'[u] - outflow[u])
  /\ SumFunctionOnSet(balance', User) - SumFunctionOnSet(balance, User)
       = (outflow'[SINK] - outflow[SINK]) - (inflow'[SINK] - inflow[SINK])

-----------------------------------------------------------------------------
(* The rows a transfer touches: SINK stands for a null account.                *)
LEMMA NormalizedInAccount ==
  ASSUME NEW a \in Account \cup {NoAccount}
  PROVE  /\ NormalizeAccount(a) \in Account
         /\ NormalizeAccount(a) = IF a \in User THEN a ELSE SINK
         /\ IsRealUserAccount(a) <=> a \in User
  BY UserAssumption DEF NormalizeAccount, Account, IsRealUserAccount

(* A transfer writes one row: its amount is added to the inflow of the         *)
(* receiver and to the outflow of the giver and to nothing else.               *)
LEMMA TransferEffect ==
  ASSUME LedgerTypeOK,
         NEW from \in Account \cup {NoAccount}, NEW to \in Account \cup {NoAccount},
         NEW amt \in Int, Transfer(from, to, amt)
  PROVE  /\ amt \in Nat /\ amt > 0
         /\ from \in User \/ to \in User
         /\ from \in User /\ to \in User => from # to
         /\ from \in User => balance[from] >= amt
         /\ balance' \in [User -> Int]
         /\ \A u \in User : balance'[u] = balance[u] + (IF u = to THEN amt ELSE 0)
                                            - (IF u = from THEN amt ELSE 0)
         /\ inflow' \in [Account -> Nat] /\ outflow' \in [Account -> Nat]
         /\ \A a \in Account : inflow'[a] = inflow[a]
                                 + (IF a = NormalizeAccount(to) THEN amt ELSE 0)
         /\ \A a \in Account : outflow'[a] = outflow[a]
                                 + (IF a = NormalizeAccount(from) THEN amt ELSE 0)
         /\ account' = account
  <1>1. TransferAllowed(from, to, amt) /\ balance' = Moved(from, to, amt)
        /\ RecordTx(from, to, amt) /\ account' = account
        /\ (IsRealUserAccount(from) => balance[from] >= amt)
    BY DEF Transfer
  <1>2. amt \in Nat /\ amt > 0
    BY <1>1 DEF TransferAllowed
  <1>3. (from \in User \/ to \in User) /\ (from \in User /\ to \in User => from # to)
        /\ (from \in User => balance[from] >= amt)
    BY <1>1, NormalizedInAccount DEF TransferAllowed
  <1>4. /\ balance' \in [User -> Int]
        /\ \A u \in User : balance'[u] = balance[u] + (IF u = to THEN amt ELSE 0)
                                           - (IF u = from THEN amt ELSE 0)
    <2>1. balance \in [User -> Int]
      BY DEF LedgerTypeOK
    <2>2. \A u \in User : ~ (u = from /\ u = to)
      BY <1>3
    <2> QED BY <1>1, <1>2, <2>1, <2>2 DEF Moved
  <1>5. /\ inflow' \in [Account -> Nat]
        /\ \A a \in Account : inflow'[a] = inflow[a]
                                + (IF a = NormalizeAccount(to) THEN amt ELSE 0)
    BY <1>1, <1>2, NormalizedInAccount DEF RecordTx, LedgerTypeOK
  <1>6. /\ outflow' \in [Account -> Nat]
        /\ \A a \in Account : outflow'[a] = outflow[a]
                                + (IF a = NormalizeAccount(from) THEN amt ELSE 0)
    BY <1>1, <1>2, NormalizedInAccount DEF RecordTx, LedgerTypeOK
  <1> QED BY <1>1, <1>2, <1>3, <1>4, <1>5, <1>6

(* Adding an amount to one user's balance, or taking it away, changes the sum  *)
(* of the balances by that amount; no user, no change.                         *)
LEMMA SumShift ==
  ASSUME NEW f, NEW g, NEW x, NEW d \in Int,
         \A u \in User : f[u] \in Int,
         \A u \in User : g[u] = f[u] + (IF u = x THEN d ELSE 0)
  PROVE  SumFunctionOnSet(g, User)
           = SumFunctionOnSet(f, User) + (IF x \in User THEN d ELSE 0)
  <1>1. CASE x \in User
    <2>1. SumFunctionOnSet(g, User) = SumFunctionOnSet(f, User) + (g[x] - f[x])
      <3>1. (\A y \in User : f[y] \in Int) /\ (\A y \in User : g[y] \in Int)
        OBVIOUS
      <3>2. \A y \in User \ {x} : g[y] = f[y]
        OBVIOUS
      <3>3. IsFiniteSet(User)
        BY UserAssumption
      <3> QED BY <1>1, <3>1, <3>2, <3>3, SumUpdate
    <2>2. SumFunctionOnSet(f, User) \in Int
      BY UserAssumption, SumType
    <2> QED BY <1>1, <2>1, <2>2
  <1>2. CASE x \notin User
    <2>1. SumFunctionOnSet(g, User) = SumFunctionOnSet(f, User)
      BY <1>2, UserAssumption, SumCong
    <2>2. SumFunctionOnSet(f, User) \in Int
      BY UserAssumption, SumType
    <2> QED BY <1>2, <2>1, <2>2
  <1> QED BY <1>1, <1>2

-----------------------------------------------------------------------------
(* Each transaction of the ledger keeps its rows and its balances in step.      *)

(* A transfer takes from one account what it adds to the other. *)
LEMMA TransferBalanced ==
  ASSUME LedgerTypeOK,
         NEW from \in Account \cup {NoAccount}, NEW to \in Account \cup {NoAccount},
         NEW amt \in Int, Transfer(from, to, amt)
  PROVE  Balanced /\ LedgerTypeOK'
  <1> DEFINE mid == [u \in User |-> balance[u] + (IF u = to THEN amt ELSE 0)]
  <1>1. TransferAllowed(from, to, amt)
    BY DEF Transfer
  <1>2. LedgerTypeOK'
    BY TransferEffect DEF LedgerTypeOK
  <1>3. \A a \in Account : inflow'[a] \in Nat /\ outflow'[a] \in Nat
    BY <1>2 DEF LedgerTypeOK
  <1>4. ASSUME NEW u \in User
        PROVE  balance'[u] - balance[u]
                 = (inflow'[u] - inflow[u]) - (outflow'[u] - outflow[u])
    <2>1. u \in Account /\ u # SINK /\ balance[u] \in Int /\ inflow[u] \in Nat
          /\ outflow[u] \in Nat
      BY UserAssumption DEF Account, LedgerTypeOK
    <2>2. balance'[u] = balance[u] + (IF u = to THEN amt ELSE 0) - (IF u = from THEN amt ELSE 0)
      BY TransferEffect
    <2>3. inflow'[u] = inflow[u] + (IF u = to THEN amt ELSE 0)
      BY <2>1, TransferEffect, NormalizedInAccount
    <2>4. outflow'[u] = outflow[u] + (IF u = from THEN amt ELSE 0)
      BY <2>1, TransferEffect, NormalizedInAccount
    <2> QED BY <2>1, <2>2, <2>3, <2>4
  <1>5. SumFunctionOnSet(balance', User)
          = SumFunctionOnSet(balance, User) + (IF to \in User THEN amt ELSE 0)
              - (IF from \in User THEN amt ELSE 0)
    <2>1. \A u \in User : balance[u] \in Int /\ balance'[u] \in Int /\ mid[u] \in Int
      BY <1>2 DEF LedgerTypeOK
    <2>2. \A u \in User : mid[u] = balance[u] + (IF u = to THEN amt ELSE 0)
      OBVIOUS
    <2>3. \A u \in User : balance'[u] = mid[u] + (IF u = from THEN -amt ELSE 0)
      <3>1. \A u \in User : balance'[u] = balance[u] + (IF u = to THEN amt ELSE 0)
                                           - (IF u = from THEN amt ELSE 0)
        BY TransferEffect
      <3> HIDE DEF mid
      <3> QED BY <2>1, <2>2, <3>1
    <2> HIDE DEF mid
    <2>4. SumFunctionOnSet(mid, User)
            = SumFunctionOnSet(balance, User) + (IF to \in User THEN amt ELSE 0)
      BY <2>1, <2>2, SumShift
    <2>5. -amt \in Int
      OBVIOUS
    <2>6. SumFunctionOnSet(balance', User)
            = SumFunctionOnSet(mid, User) + (IF from \in User THEN -amt ELSE 0)
      BY <2>1, <2>3, <2>5, SumShift
    <2>7. SumFunctionOnSet(balance, User) \in Int
      BY <2>1, UserAssumption, SumType
    <2> QED BY <2>4, <2>6, <2>7
  <1>6. SumFunctionOnSet(balance', User) - SumFunctionOnSet(balance, User)
          = (outflow'[SINK] - outflow[SINK]) - (inflow'[SINK] - inflow[SINK])
    <2>1. SINK \in Account /\ SINK \notin User
      BY UserAssumption DEF Account
    <2>2. inflow'[SINK] = inflow[SINK] + (IF to \in User THEN 0 ELSE amt)
      BY <2>1, TransferEffect, NormalizedInAccount
    <2>3. outflow'[SINK] = outflow[SINK] + (IF from \in User THEN 0 ELSE amt)
      BY <2>1, TransferEffect, NormalizedInAccount
    <2>4. SumFunctionOnSet(balance, User) \in Int /\ inflow[SINK] \in Nat /\ outflow[SINK] \in Nat
      BY <2>1, UserAssumption, SumType DEF LedgerTypeOK
    <2>5. amt \in Int
      OBVIOUS
    <2> QED BY <1>5, <2>2, <2>3, <2>4, <2>5
  <1> QED BY <1>2, <1>3, <1>4, <1>6 DEF Balanced

(* The seed of a new member is a mint into a balance that was empty.            *)
LEMMA JoinBalanced ==
  ASSUME LedgerTypeOK, NobodyOwnsBeforeJoining, NEW u \in User, Join(u)
  PROVE  Balanced /\ LedgerTypeOK'
  <1> DEFINE seed == [a \in Account |-> IF a = u THEN SeedPoints ELSE 0]
             issued == [a \in Account |-> IF a = SINK THEN SeedPoints ELSE 0]
  <1>1. balance[u] = 0 /\ balance' = [balance EXCEPT ![u] = SeedPoints]
        /\ account' = [account EXCEPT ![u] = "open"]
    BY DEF Join, NobodyOwnsBeforeJoining
  <1>2. u \in Account /\ u # SINK /\ SINK \in Account /\ SeedPoints \in Nat
        /\ NormalizeAccount(u) = u /\ NormalizeAccount(SINK) = SINK
    BY UserAssumption, SeedPointsAssumption DEF Account, NormalizeAccount
  <1>3. /\ inflow' \in [Account -> Nat]
        /\ outflow' \in [Account -> Nat]
        /\ \A a \in Account : inflow'[a] = inflow[a] + (IF a = u THEN SeedPoints ELSE 0)
        /\ \A a \in Account : outflow'[a] = outflow[a] + (IF a = SINK THEN SeedPoints ELSE 0)
    <2>1. CASE SeedPoints > 0
      <3>1. inflow' = [inflow EXCEPT ![u] = @ + SeedPoints]
            /\ outflow' = [outflow EXCEPT ![SINK] = @ + SeedPoints]
        BY <1>2, <2>1 DEF Join, RecordTx
      <3> QED BY <1>2, <3>1 DEF LedgerTypeOK
    <2>2. CASE SeedPoints = 0
      <3>1. inflow' = inflow /\ outflow' = outflow
        BY <2>2 DEF Join
      <3> QED BY <2>2, <3>1 DEF LedgerTypeOK
    <2> QED BY <1>2, <2>1, <2>2
  <1>4. LedgerTypeOK'
    BY <1>1, <1>2, <1>3 DEF LedgerTypeOK
  <1>5. \A v \in User : balance'[v] = balance[v] + (IF v = u THEN SeedPoints ELSE 0)
    BY <1>1, <1>2 DEF LedgerTypeOK
  <1>6. \A v \in User : balance'[v] - balance[v]
           = (inflow'[v] - inflow[v]) - (outflow'[v] - outflow[v])
    <2> SUFFICES ASSUME NEW v \in User
                 PROVE  balance'[v] - balance[v]
                          = (inflow'[v] - inflow[v]) - (outflow'[v] - outflow[v])
      OBVIOUS
    <2>1. v \in Account /\ v # SINK /\ balance[v] \in Int /\ inflow[v] \in Nat /\ outflow[v] \in Nat
      BY UserAssumption DEF Account, LedgerTypeOK
    <2> QED BY <1>2, <1>3, <1>5, <2>1
  <1>7. SumFunctionOnSet(balance', User) = SumFunctionOnSet(balance, User) + SeedPoints
    <2>1. \A v \in User : balance[v] \in Int
      BY DEF LedgerTypeOK
    <2>2. SeedPoints \in Int
      BY <1>2
    <2> QED BY <1>5, <2>1, <2>2, SumShift
  <1>8. SumFunctionOnSet(balance', User) - SumFunctionOnSet(balance, User)
          = (outflow'[SINK] - outflow[SINK]) - (inflow'[SINK] - inflow[SINK])
    <2>1. SumFunctionOnSet(balance, User) \in Int /\ inflow[SINK] \in Nat /\ outflow[SINK] \in Nat
      BY <1>2, UserAssumption, SumType DEF LedgerTypeOK
    <2> QED BY <1>2, <1>3, <1>7, <2>1
  <1>9. \A a \in Account : inflow'[a] \in Nat /\ outflow'[a] \in Nat
    BY <1>3
  <1> QED BY <1>4, <1>6, <1>8, <1>9 DEF Balanced

(* Deleting a row moves no points.                                               *)
LEMMA RemoveUserBalanced ==
  ASSUME LedgerTypeOK, NEW u \in User, RemoveUser(u)
  PROVE  Balanced /\ LedgerTypeOK'
  <1>1. balance' = balance /\ inflow' = inflow /\ outflow' = outflow
        /\ account' = [account EXCEPT ![u] = "deleted"]
    BY DEF RemoveUser
  <1>2. LedgerTypeOK'
    BY <1>1 DEF LedgerTypeOK
  <1>3. \A a \in Account : inflow[a] \in Nat /\ outflow[a] \in Nat
    BY DEF LedgerTypeOK
  <1>4. SINK \in Account /\ \A v \in User : v \in Account /\ balance[v] \in Int
    BY DEF Account, LedgerTypeOK
  <1>5. SumFunctionOnSet(balance, User) \in Int
    BY <1>4, UserAssumption, SumType
  <1> QED BY <1>1, <1>2, <1>3, <1>4, <1>5 DEF Balanced

(* One transaction that mints to many users issues the sum of what they get.     *)
LEMMA MintAllBalanced ==
  ASSUME LedgerTypeOK, NEW pay \in [User -> Nat], MintAll(pay)
  PROVE  Balanced /\ LedgerTypeOK'
  <1>1. /\ balance' = [u \in User |-> balance[u] + pay[u]]
        /\ inflow' = [a \in Account |-> IF a = SINK THEN inflow[a] ELSE inflow[a] + pay[a]]
        /\ outflow' = [outflow EXCEPT ![SINK] = @ + SumFunctionOnSet(pay, User)]
        /\ account' = account
    BY DEF MintAll
  <1>2. IsFiniteSet(User) /\ SINK \in Account /\ SINK \notin User
    BY UserAssumption DEF Account
  <1>3. \A u \in User : u \in Account /\ balance[u] \in Int /\ inflow[u] \in Nat /\ outflow[u] \in Nat
    BY DEF Account, LedgerTypeOK
  <1>4. SumFunctionOnSet(pay, User) \in Nat
    BY <1>2, SumNonNegative
  <1>5. SumFunctionOnSet(balance', User)
          = SumFunctionOnSet(balance, User) + SumFunctionOnSet(pay, User)
    <2>1. \A u \in User : balance[u] \in Int /\ pay[u] \in Int /\ balance'[u] = balance[u] + pay[u]
      BY <1>1, <1>3
    <2> QED BY <1>2, <2>1, SumAdd
  <1>6. SumFunctionOnSet(balance, User) \in Int
    BY <1>2, <1>3, SumType
  <1>7. LedgerTypeOK'
    BY <1>1, <1>2, <1>3, <1>4 DEF LedgerTypeOK, Account
  <1>8. \A a \in Account : inflow'[a] \in Nat /\ outflow'[a] \in Nat
    BY <1>7 DEF LedgerTypeOK
  <1>9. \A u \in User : balance'[u] - balance[u]
          = (inflow'[u] - inflow[u]) - (outflow'[u] - outflow[u])
    <2> SUFFICES ASSUME NEW u \in User
                 PROVE  balance'[u] - balance[u]
                          = (inflow'[u] - inflow[u]) - (outflow'[u] - outflow[u])
      OBVIOUS
    <2>1. balance'[u] = balance[u] + pay[u] /\ inflow'[u] = inflow[u] + pay[u]
      BY <1>1, <1>2, <1>3
    <2>2. outflow'[u] = outflow[u]
      BY <1>1, <1>2, <1>3 DEF LedgerTypeOK
    <2> QED BY <1>3, <2>1, <2>2
  <1>10. inflow'[SINK] = inflow[SINK]
         /\ outflow'[SINK] = outflow[SINK] + SumFunctionOnSet(pay, User)
    BY <1>1, <1>2 DEF LedgerTypeOK
  <1>11. inflow[SINK] \in Nat /\ outflow[SINK] \in Nat
    BY <1>2 DEF LedgerTypeOK
  <1>12. SumFunctionOnSet(balance', User) - SumFunctionOnSet(balance, User)
           = (outflow'[SINK] - outflow[SINK]) - (inflow'[SINK] - inflow[SINK])
    BY <1>4, <1>5, <1>6, <1>10, <1>11
  <1> QED BY <1>7, <1>8, <1>9, <1>12 DEF Balanced

-----------------------------------------------------------------------------
(* A balanced step keeps the two sums of the ledger right.                        *)
LEMMA BalancedKeepsSums ==
  ASSUME LedgerTypeOK, LedgerTypeOK', Balanced, BalanceIsLedgerSum, CirculatingSupply
  PROVE  BalanceIsLedgerSum' /\ CirculatingSupply'
  <1>1. SINK \in Account /\ IsFiniteSet(User)
        /\ \A u \in User : u \in Account
    BY UserAssumption DEF Account
  <1>2. BalanceIsLedgerSum'
    <2> SUFFICES ASSUME NEW u \in User PROVE balance'[u] = inflow'[u] - outflow'[u]
      BY DEF BalanceIsLedgerSum, BalanceFromLedger
    <2>1. balance[u] = inflow[u] - outflow[u]
      BY DEF BalanceIsLedgerSum, BalanceFromLedger
    <2>2. balance[u] \in Int /\ balance'[u] \in Int /\ inflow[u] \in Nat /\ outflow[u] \in Nat
          /\ inflow'[u] \in Nat /\ outflow'[u] \in Nat
      BY <1>1 DEF LedgerTypeOK
    <2> QED BY <2>1, <2>2 DEF Balanced
  <1>3. CirculatingSupply'
    <2>1. SumFunctionOnSet(balance, User) \in Int /\ SumFunctionOnSet(balance', User) \in Int
      <3>1. \A u \in User : balance[u] \in Int /\ balance'[u] \in Int
        BY DEF LedgerTypeOK
      <3> QED BY <1>1, <3>1, SumType
    <2>2. inflow[SINK] \in Nat /\ outflow[SINK] \in Nat
          /\ inflow'[SINK] \in Nat /\ outflow'[SINK] \in Nat
      BY <1>1 DEF LedgerTypeOK
    <2>3. SumFunctionOnSet(balance, User) = outflow[SINK] - inflow[SINK]
      BY DEF CirculatingSupply
    <2>4. SumFunctionOnSet(balance', User) = outflow'[SINK] - inflow'[SINK]
      BY <2>1, <2>2, <2>3 DEF Balanced
    <2> QED BY <2>4 DEF CirculatingSupply
  <1> QED BY <1>2, <1>3

-----------------------------------------------------------------------------
(* The inductive invariant.                                                        *)

(* The invariant holds at the start. *)
LEMMA LedgerInitInv == LedgerInit => LedgerInv
  <1> SUFFICES ASSUME LedgerInit PROVE LedgerInv
    OBVIOUS
  <1>1. LedgerTypeOK
    BY DEF LedgerInit, LedgerTypeOK
  <1>2. BalanceIsLedgerSum
    BY DEF LedgerInit, BalanceIsLedgerSum, BalanceFromLedger, Account
  <1>3. NoOverdraft /\ NobodyOwnsBeforeJoining
    BY DEF LedgerInit, NoOverdraft, NobodyOwnsBeforeJoining
  <1>4. CirculatingSupply
    <2> DEFINE zero == [u \in User |-> 0]
    <2>1. balance = zero /\ inflow[SINK] = 0 /\ outflow[SINK] = 0
      BY DEF LedgerInit, Account
    <2>2. SumFunctionOnSet(zero, User) \in Int
      BY UserAssumption, SumType
    <2>3. SumFunctionOnSet(zero, User) = SumFunctionOnSet(zero, User) + SumFunctionOnSet(zero, User)
      <3>1. \A u \in User : zero[u] \in Int /\ zero[u] \in Int /\ zero[u] = zero[u] + zero[u]
        OBVIOUS
      <3> HIDE DEF zero
      <3> QED BY <3>1, UserAssumption, SumAdd
    <2> HIDE DEF zero
    <2>4. SumFunctionOnSet(zero, User) = 0
      <3>1. \A x \in Int : x = x + x => x = 0
        OBVIOUS
      <3> QED BY <2>2, <2>3, <3>1, Zenon
    <2>5. SumFunctionOnSet(balance, User) = 0
      BY <2>1, <2>4
    <2> QED BY <2>1, <2>5 DEF CirculatingSupply
  <1> QED BY <1>1, <1>2, <1>3, <1>4 DEF LedgerInv

(* A transfer keeps the invariant: the balance that gives is checked under the      *)
(* same transaction that lowers it.                                                  *)
LEMMA TransferKeepsInv ==
  ASSUME LedgerInv,
         NEW from \in Account \cup {NoAccount}, NEW to \in Account \cup {NoAccount},
         NEW amt \in Int, Transfer(from, to, amt)
  PROVE  LedgerInv'
  <1>0. LedgerTypeOK /\ BalanceIsLedgerSum /\ NoOverdraft /\ CirculatingSupply
        /\ NobodyOwnsBeforeJoining
    BY DEF LedgerInv
  <1>1. Balanced /\ LedgerTypeOK'
    BY <1>0, TransferBalanced
  <1>2. BalanceIsLedgerSum' /\ CirculatingSupply'
    BY <1>0, <1>1, BalancedKeepsSums
  <1>5. \A u \in User : balance'[u] = balance[u] + (IF u = to THEN amt ELSE 0)
                                         - (IF u = from THEN amt ELSE 0)
    <2>1. LedgerTypeOK
      BY <1>0
    <2>2. balance' \in [User -> Int]
      BY <2>1, TransferEffect
    <2> QED BY <2>1, <2>2, TransferEffect
  <1>3. \A u \in User : balance'[u] >= 0
    <2> SUFFICES ASSUME NEW u \in User PROVE balance'[u] >= 0
      OBVIOUS
    <2>1. balance[u] \in Int /\ balance[u] >= 0
      BY <1>0 DEF LedgerTypeOK, NoOverdraft
    <2>2. amt > 0 /\ (from \in User => balance[from] >= amt)
      BY <1>0, TransferEffect
    <2> QED BY <1>5, <2>1, <2>2
  <1>4. \A u \in User : account'[u] = "none" => balance'[u] = 0
    <2> SUFFICES ASSUME NEW u \in User, account'[u] = "none" PROVE balance'[u] = 0
      OBVIOUS
    <2>1. account' = account /\ account[u] = "none" /\ balance[u] = 0
      BY <1>0 DEF Transfer, NobodyOwnsBeforeJoining
    <2>2. u # from /\ u # to
      <3>1. \A v \in {from, to} \cap User : account[v] = "open"
        BY DEF Transfer
      <3> QED BY <2>1, <3>1
    <2> QED BY <1>5, <2>1, <2>2
  <1> QED BY <1>1, <1>2, <1>3, <1>4 DEF LedgerInv, NoOverdraft, NobodyOwnsBeforeJoining

(* A payment to many users keeps the invariant.                                       *)
LEMMA MintAllKeepsInv ==
  ASSUME LedgerInv, NEW pay \in [User -> Nat], MintAll(pay)
  PROVE  LedgerInv'
  <1>0. LedgerTypeOK /\ BalanceIsLedgerSum /\ NoOverdraft /\ CirculatingSupply
        /\ NobodyOwnsBeforeJoining
    BY DEF LedgerInv
  <1>1. Balanced /\ LedgerTypeOK'
    BY <1>0, MintAllBalanced
  <1>2. BalanceIsLedgerSum' /\ CirculatingSupply'
    BY <1>0, <1>1, BalancedKeepsSums
  <1>3. \A u \in User : balance[u] \in Int /\ balance'[u] = balance[u] + pay[u]
                        /\ account'[u] = account[u]
    BY <1>0 DEF MintAll, LedgerTypeOK
  <1>4. NoOverdraft'
    BY <1>0, <1>3 DEF NoOverdraft
  <1>5. NobodyOwnsBeforeJoining'
    <2> SUFFICES ASSUME NEW u \in User, account'[u] = "none" PROVE balance'[u] = 0
      BY DEF NobodyOwnsBeforeJoining
    <2>1. ~ (pay[u] > 0)
      BY <1>3 DEF MintAll
    <2> QED BY <1>0, <1>3, <2>1 DEF NobodyOwnsBeforeJoining
  <1> QED BY <1>1, <1>2, <1>4, <1>5 DEF LedgerInv

(* A member who joins is given the seed, which a row records.                          *)
LEMMA JoinKeepsInv == ASSUME LedgerInv, NEW u \in User, Join(u) PROVE LedgerInv'
  <1>0. LedgerTypeOK /\ BalanceIsLedgerSum /\ NoOverdraft /\ CirculatingSupply
        /\ NobodyOwnsBeforeJoining
    BY DEF LedgerInv
  <1>1. Balanced /\ LedgerTypeOK'
    BY <1>0, JoinBalanced
  <1>2. BalanceIsLedgerSum' /\ CirculatingSupply'
    BY <1>0, <1>1, BalancedKeepsSums
  <1>3. balance' = [balance EXCEPT ![u] = SeedPoints] /\ account' = [account EXCEPT ![u] = "open"]
    BY DEF Join
  <1>4. NoOverdraft'
    BY <1>0, <1>3, SeedPointsAssumption DEF NoOverdraft, LedgerTypeOK
  <1>5. NobodyOwnsBeforeJoining'
    BY <1>0, <1>3 DEF NobodyOwnsBeforeJoining, LedgerTypeOK
  <1> QED BY <1>1, <1>2, <1>4, <1>5 DEF LedgerInv

(* What a deleted row held stays counted.                                              *)
LEMMA RemoveUserKeepsInv ==
  ASSUME LedgerInv, NEW u \in User, RemoveUser(u)
  PROVE  LedgerInv'
  <1>0. LedgerTypeOK /\ BalanceIsLedgerSum /\ NoOverdraft /\ CirculatingSupply
        /\ NobodyOwnsBeforeJoining
    BY DEF LedgerInv
  <1>1. Balanced /\ LedgerTypeOK'
    BY <1>0, RemoveUserBalanced
  <1>2. BalanceIsLedgerSum' /\ CirculatingSupply'
    BY <1>0, <1>1, BalancedKeepsSums
  <1>3. balance' = balance /\ account' = [account EXCEPT ![u] = "deleted"]
    BY DEF RemoveUser
  <1>4. NoOverdraft' /\ NobodyOwnsBeforeJoining'
    BY <1>0, <1>3 DEF NoOverdraft, NobodyOwnsBeforeJoining, LedgerTypeOK
  <1> QED BY <1>1, <1>2, <1>4 DEF LedgerInv

(* A step that leaves the ledger alone keeps its invariant.                            *)
LEMMA SameLedgerKeepsInv == ASSUME LedgerInv, UNCHANGED ledgerVars PROVE LedgerInv'
  BY DEF ledgerVars, LedgerInv, LedgerTypeOK, BalanceIsLedgerSum, BalanceFromLedger,
         NoOverdraft, CirculatingSupply, NobodyOwnsBeforeJoining

(* The steps of the ledger keep the inductive invariant.                               *)
LEMMA LedgerNextInv == LedgerInv /\ [LedgerNext]_ledgerVars => LedgerInv'
  <1> SUFFICES ASSUME LedgerInv, [LedgerNext]_ledgerVars PROVE LedgerInv'
    OBVIOUS
  <1>1. CASE \E u \in User : Join(u)
    BY <1>1, JoinKeepsInv
  <1>2. CASE \E u \in Leaver : RemoveUser(u)
    BY <1>2, RemoveUserKeepsInv, LeaverAssumption
  <1>3. CASE AnyTransfer
    <2>1. PICK from \in Account \cup {NoAccount}, to \in Account \cup {NoAccount}, amt \in Amount :
            Transfer(from, to, amt)
      BY <1>3 DEF AnyTransfer
    <2>2. amt \in Int
      BY AmountAssumption
    <2> QED BY <2>1, <2>2, TransferKeepsInv
  <1>4. CASE AnyMintAll
    BY <1>4, MintAllKeepsInv DEF AnyMintAll
  <1>5. CASE UNCHANGED ledgerVars
    BY <1>5, SameLedgerKeepsInv
  <1> QED BY <1>1, <1>2, <1>3, <1>4, <1>5 DEF LedgerNext, OneRequest

-----------------------------------------------------------------------------
(* Each step of the ledger is a recorded move.                                         *)
LEMMA JoinIsRecorded ==
  ASSUME LedgerTypeOK, NobodyOwnsBeforeJoining, NEW u \in User, Join(u)
  PROVE  RecordedMove
  <1>0. SINK \in Account /\ \A a \in Account : inflow[a] \in Nat /\ outflow[a] \in Nat
    BY DEF LedgerTypeOK, Account
  <1>1. \A v \in User : balance'[v] - balance[v]
          = (inflow'[v] - inflow[v]) - (outflow'[v] - outflow[v])
    BY JoinBalanced DEF Balanced
  <1>2. NormalizeAccount(u) = u /\ NormalizeAccount(SINK) = SINK /\ u # SINK
        /\ u \in Account /\ SeedPoints \in Nat
    BY UserAssumption, SeedPointsAssumption DEF NormalizeAccount, Account
  <1>3. \/ inflow' = inflow /\ outflow' = outflow
        \/ /\ inflow' = [inflow EXCEPT ![u] = @ + SeedPoints]
           /\ outflow' = [outflow EXCEPT ![SINK] = @ + SeedPoints]
    BY <1>2 DEF Join, RecordTx
  <1>4. /\ \A a \in Account : inflow'[a] >= inflow[a] /\ outflow'[a] >= outflow[a]
        /\ inflow'[SINK] = inflow[SINK]
    <2>1. inflow \in [Account -> Nat] /\ outflow \in [Account -> Nat]
      BY DEF LedgerTypeOK
    <2>2. CASE inflow' = inflow /\ outflow' = outflow
      BY <1>0, <2>2
    <2>3. CASE /\ inflow' = [inflow EXCEPT ![u] = @ + SeedPoints]
               /\ outflow' = [outflow EXCEPT ![SINK] = @ + SeedPoints]
      BY <1>0, <1>2, <2>1, <2>3
    <2> QED BY <1>3, <2>2, <2>3
  <1> QED BY <1>0, <1>1, <1>4 DEF RecordedMove

(* Deleting a user's row moves nothing.                                                *)
LEMMA RemoveUserIsRecorded ==
  ASSUME LedgerTypeOK, NEW u \in User, RemoveUser(u)
  PROVE  RecordedMove
  <1>0. SINK \in Account /\ \A a \in Account : inflow[a] \in Nat /\ outflow[a] \in Nat
    BY DEF LedgerTypeOK, Account
  <1>1. \A v \in User : balance'[v] - balance[v]
          = (inflow'[v] - inflow[v]) - (outflow'[v] - outflow[v])
    BY RemoveUserBalanced DEF Balanced
  <1>2. inflow' = inflow /\ outflow' = outflow
    BY DEF RemoveUser
  <1> QED BY <1>0, <1>1, <1>2 DEF RecordedMove

(* A transfer is recorded by one row, which touches SINK on one side at most.          *)
LEMMA TransferIsRecorded ==
  ASSUME LedgerTypeOK,
         NEW from \in Account \cup {NoAccount}, NEW to \in Account \cup {NoAccount},
         NEW amt \in Int, Transfer(from, to, amt)
  PROVE  RecordedMove
  <1>0. SINK \in Account /\ \A a \in Account : inflow[a] \in Nat /\ outflow[a] \in Nat
    BY DEF LedgerTypeOK, Account
  <1>1. \A v \in User : balance'[v] - balance[v]
          = (inflow'[v] - inflow[v]) - (outflow'[v] - outflow[v])
    BY TransferBalanced DEF Balanced
  <1>2. /\ amt > 0
        /\ from \in User \/ to \in User
        /\ inflow' \in [Account -> Nat] /\ outflow' \in [Account -> Nat]
    BY TransferEffect
  <1>3. /\ \A a \in Account : inflow'[a] = inflow[a]
                                + (IF a = NormalizeAccount(to) THEN amt ELSE 0)
        /\ \A a \in Account : outflow'[a] = outflow[a]
                                + (IF a = NormalizeAccount(from) THEN amt ELSE 0)
    <2>1. inflow \in [Account -> Nat] /\ outflow \in [Account -> Nat]
      BY DEF LedgerTypeOK
    <2>2. NormalizeAccount(to) \in Account /\ NormalizeAccount(from) \in Account
      BY NormalizedInAccount
    <2>3. RecordTx(from, to, amt)
      BY DEF Transfer
    <2> QED BY <1>2, <2>1, <2>2, <2>3 DEF RecordTx
  <1>4. \A a \in Account : inflow'[a] >= inflow[a] /\ outflow'[a] >= outflow[a]
    BY <1>0, <1>2, <1>3
  <1>5. inflow'[SINK] = inflow[SINK] \/ outflow'[SINK] = outflow[SINK]
    <2>1. NormalizeAccount(from) # SINK \/ NormalizeAccount(to) # SINK
      BY <1>2, NormalizedInAccount, UserAssumption
    <2> QED BY <1>0, <1>3, <2>1
  <1> QED BY <1>0, <1>1, <1>2, <1>4, <1>5 DEF RecordedMove

(* Mints to several users issue points and destroy none.                               *)
LEMMA MintAllIsRecorded ==
  ASSUME LedgerTypeOK, NEW pay \in [User -> Nat], MintAll(pay)
  PROVE  RecordedMove
  <1>0. SINK \in Account /\ SINK \notin User /\ \A a \in Account : inflow[a] \in Nat /\ outflow[a] \in Nat
    BY UserAssumption DEF LedgerTypeOK, Account
  <1>1. \A v \in User : balance'[v] - balance[v]
          = (inflow'[v] - inflow[v]) - (outflow'[v] - outflow[v])
    BY MintAllBalanced DEF Balanced
  <1>2. \A a \in Account : inflow'[a] = IF a = SINK THEN inflow[a] ELSE inflow[a] + pay[a]
    BY DEF MintAll
  <1>3. \A a \in Account : outflow'[a] >= outflow[a]
    <2>1. SumFunctionOnSet(pay, User) \in Nat
      BY UserAssumption, SumNonNegative
    <2>2. outflow' = [outflow EXCEPT ![SINK] = @ + SumFunctionOnSet(pay, User)]
          /\ outflow \in [Account -> Nat]
      BY DEF MintAll, LedgerTypeOK
    <2> QED BY <1>0, <2>1, <2>2
  <1>4. \A a \in Account : a # SINK => pay[a] \in Nat
    BY DEF Account
  <1> QED BY <1>0, <1>1, <1>2, <1>3, <1>4 DEF RecordedMove

(* A step that leaves the ledger alone is one, too.                                    *)
LEMMA SameLedgerIsRecorded == ASSUME LedgerTypeOK, UNCHANGED ledgerVars PROVE RecordedMove
  <1>1. SINK \in Account /\ \A a \in Account : inflow[a] \in Nat /\ outflow[a] \in Nat
    BY DEF LedgerTypeOK, Account
  <1>2. \A u \in User : balance[u] \in Int /\ u \in Account
    BY DEF LedgerTypeOK, Account
  <1> QED BY <1>1, <1>2 DEF ledgerVars, RecordedMove

-----------------------------------------------------------------------------
(* Every reachable state of the ledger satisfies the inductive invariant.               *)
THEOREM LedgerInvariant == LedgerSpec => []LedgerInv
  BY LedgerInitInv, LedgerNextInv, PTL DEF LedgerSpec

(* The rows and balances of the ledger keep their types.                                *)
THEOREM LedgerTypeCorrect == LedgerSpec => []LedgerTypeOK
  <1>1. LedgerInv => LedgerTypeOK
    BY DEF LedgerInv
  <1> QED BY <1>1, LedgerInvariant, PTL

(* The cached balance of every user is what the user's ledger rows add up to.           *)
THEOREM LedgerReconciles == LedgerSpec => []BalanceIsLedgerSum
  <1>1. LedgerInv => BalanceIsLedgerSum
    BY DEF LedgerInv
  <1> QED BY <1>1, LedgerInvariant, PTL

(* No user is ever overdrawn.                                                            *)
THEOREM LedgerNoOverdraft == LedgerSpec => []NoOverdraft
  <1>1. LedgerInv => NoOverdraft
    BY DEF LedgerInv
  <1> QED BY <1>1, LedgerInvariant, PTL

(* The points in circulation are those issued and not destroyed.                         *)
THEOREM LedgerSupply == LedgerSpec => []CirculatingSupply
  <1>1. LedgerInv => CirculatingSupply
    BY DEF LedgerInv
  <1> QED BY <1>1, LedgerInvariant, PTL

(* Points are only moved, never rewritten: every step of the ledger appends rows     *)
(* that account for what it does to each balance, and does not issue and destroy      *)
(* points at once.                                                                    *)
THEOREM LedgerOnlyRecordedMoves == LedgerSpec => OnlyRecordedMoves
  <1>1. LedgerInv /\ LedgerNext => RecordedMove
    <2> SUFFICES ASSUME LedgerInv, LedgerNext PROVE RecordedMove
      OBVIOUS
    <2>0. LedgerTypeOK /\ NobodyOwnsBeforeJoining
      BY DEF LedgerInv
    <2>1. CASE \E u \in User : Join(u)
      BY <2>0, <2>1, JoinIsRecorded
    <2>2. CASE \E u \in Leaver : RemoveUser(u)
      BY <2>0, <2>2, RemoveUserIsRecorded, LeaverAssumption
    <2>3. CASE AnyTransfer
      <3>1. PICK from \in Account \cup {NoAccount}, to \in Account \cup {NoAccount}, amt \in Amount :
              Transfer(from, to, amt)
        BY <2>3 DEF AnyTransfer
      <3>2. amt \in Int
        BY AmountAssumption
      <3> QED BY <2>0, <3>1, <3>2, TransferIsRecorded
    <2>4. CASE AnyMintAll
      BY <2>0, <2>4, MintAllIsRecorded DEF AnyMintAll
    <2> QED BY <2>1, <2>2, <2>3, <2>4 DEF LedgerNext, OneRequest
  <1> QED BY <1>1, LedgerInvariant, PTL DEF LedgerSpec, OnlyRecordedMoves
=============================================================================
