------------------------------- MODULE Ledger -------------------------------
(***************************************************************************)
(* The point ledger (modules/ledger/ledger.service.ts).                    *)
(*                                                                         *)
(* Every point a user owns is held twice: in the cached column             *)
(* users.points_balance and in the append-only table point_tx, whose rows *)
(* move an amount between two accounts.  The reserved account SINK issues  *)
(* and destroys points.  A row of point_tx is kept here only through what *)
(* the service computes from the table: for each account the sum of the    *)
(* amounts it received and the sum of the amounts it gave.                 *)
(*                                                                         *)
(* One action is one committed database transaction.  LedgerTx refines it  *)
(* into the row locks, reads and writes of concurrent sessions.            *)
(***************************************************************************)
EXTENDS Integers, FiniteSets, Functions

CONSTANTS
  User,           \* ids rows of table users have, had or will have
  SINK,           \* SINK_ACCOUNT_ID, the account of issue and destruction
  NoAccount,      \* a null account id in the parameters of a transfer
  Amount,         \* amounts callers ask to move (the service rejects some)
  SeedPoints,     \* SEED_AMOUNT, minted to a member who joins
  Leaver          \* users whose row may be deleted

ASSUME UserAssumption ==
  IsFiniteSet(User) /\ SINK \notin User /\ NoAccount \notin User /\ SINK # NoAccount
ASSUME AmountAssumption == Amount \subseteq Int
ASSUME SeedPointsAssumption == SeedPoints \in Nat
ASSUME LeaverAssumption == Leaver \subseteq User

Account == User \cup {SINK}

VARIABLES
  account,  \* whether the row of a user exists: "none", "open" or "deleted"
  balance,  \* users.points_balance (of a deleted row: what it last held)
  inflow,   \* SUM(amount) of the point_tx rows with to_account = a
  outflow   \* SUM(amount) of the point_tx rows with from_account = a

ledgerVars == <<account, balance, inflow, outflow>>

LedgerTypeOK ==
  /\ account \in [User -> {"none", "open", "deleted"}]
  /\ balance \in [User -> Int]
  /\ inflow \in [Account -> Nat]
  /\ outflow \in [Account -> Nat]

LedgerInit ==
  /\ account = [u \in User |-> "none"]
  /\ balance = [u \in User |-> 0]
  /\ inflow = [a \in Account |-> 0]
  /\ outflow = [a \in Account |-> 0]

-----------------------------------------------------------------------------

IsRealUserAccount(a) == a # NoAccount /\ a # SINK

NormalizeAccount(a) == IF a = NoAccount THEN SINK ELSE a

(* The row written to point_tx. *)
RecordTx(from, to, amt) ==
  /\ inflow' = [inflow EXCEPT ![NormalizeAccount(to)] = @ + amt]
  /\ outflow' = [outflow EXCEPT ![NormalizeAccount(from)] = @ + amt]

(* Mutant: the sign of the amount is not checked.                            *)
TransferAllowedAnySign(from, to, amt) ==
  /\ amt # 0
  /\ IsRealUserAccount(from) \/ IsRealUserAccount(to)
  /\ from # to

(* Mutant: a transfer to oneself is let through.                             *)
TransferAllowedToSelf(from, to, amt) ==
  amt > 0 /\ (IsRealUserAccount(from) \/ IsRealUserAccount(to))

(* What the service demands of the parameters before it opens a transaction. *)
TransferAllowed(from, to, amt) ==
  /\ amt > 0
  /\ IsRealUserAccount(from) \/ IsRealUserAccount(to)
  /\ ~ (IsRealUserAccount(from) /\ IsRealUserAccount(to) /\ from = to)

(* Both balances are computed from the rows as they were read, and the      *)
(* credit is written last.                                                  *)
Moved(from, to, amt) ==
  [u \in User |-> CASE u = to -> balance[u] + amt
                    [] u = from /\ u # to -> balance[u] - amt
                    [] OTHER -> balance[u]]

(* Mutant: the balance is not compared with the amount.                      *)
TransferOverdrawing(from, to, amt) ==
  /\ TransferAllowed(from, to, amt)
  /\ \A u \in {from, to} \cap User : account[u] = "open"
  /\ balance' = Moved(from, to, amt)
  /\ RecordTx(from, to, amt)
  /\ UNCHANGED account

Transfer(from, to, amt) ==
  /\ TransferAllowed(from, to, amt)
  /\ \A u \in {from, to} \cap User : account[u] = "open"
  /\ IsRealUserAccount(from) => balance[from] >= amt
  /\ balance' = Moved(from, to, amt)
  /\ RecordTx(from, to, amt)
  /\ UNCHANGED account

Mint(u, amt) == Transfer(SINK, u, amt)

Burn(u, amt) == Transfer(u, SINK, amt)

(* One transaction that mints to several users: pay[u] is the total of its    *)
(* mints to u.  A mint of nothing is not attempted, and one to a user whose    *)
(* row is gone fails and takes the whole transaction with it.                  *)
MintAll(pay) ==
  /\ \A u \in User : pay[u] > 0 => account[u] = "open"
  /\ balance' = [u \in User |-> balance[u] + pay[u]]
  /\ inflow' = [a \in Account |-> IF a = SINK THEN inflow[a] ELSE inflow[a] + pay[a]]
  /\ outflow' = [outflow EXCEPT ![SINK] = @ + SumFunctionOnSet(pay, User)]
  /\ UNCHANGED account

-----------------------------------------------------------------------------
(* Mutant: the seed is the column's default and no row records it.             *)
JoinUnrecorded(u) ==
  /\ account[u] = "none"
  /\ account' = [account EXCEPT ![u] = "open"]
  /\ balance' = [balance EXCEPT ![u] = SeedPoints]
  /\ UNCHANGED <<inflow, outflow>>

(* A member's first command: the row is inserted with no points and the seed   *)
(* is minted to it in the same transaction.                                    *)
Join(u) ==
  /\ account[u] = "none"
  /\ account' = [account EXCEPT ![u] = "open"]
  /\ balance' = [balance EXCEPT ![u] = SeedPoints]
  /\ IF SeedPoints > 0 THEN RecordTx(SINK, u, SeedPoints) ELSE UNCHANGED <<inflow, outflow>>

(* Mutant: the user's ledger rows are deleted with the user.                   *)
RemoveUserCascading(u) ==
  /\ account[u] = "open"
  /\ account' = [account EXCEPT ![u] = "deleted"]
  /\ inflow' = [inflow EXCEPT ![u] = 0]
  /\ outflow' = [outflow EXCEPT ![u] = 0]
  /\ UNCHANGED balance

(* Deleting the row leaves the ledger rows of the user where they are.         *)
RemoveUser(u) ==
  /\ account[u] = "open"
  /\ account' = [account EXCEPT ![u] = "deleted"]
  /\ UNCHANGED <<balance, inflow, outflow>>

(* Any other caller of the service: gifts between users, attendance rewards,   *)
(* admin corrections, purchases.                                               *)
AnyTransfer ==
  \E from, to \in Account \cup {NoAccount}, amt \in Amount : Transfer(from, to, amt)

(* Any caller that mints to many at once: a settlement, a refund, a payout.  It   *)
(* adds something to each balance, and that is what it has minted.               *)
AnyMintAll ==
  LET pay == [u \in User |-> balance'[u] - balance[u]]
  IN pay \in [User -> Nat] /\ MintAll(pay)

(* What one request does, other than to mint to many. *)
OneRequest ==
  \/ \E u \in User : Join(u)
  \/ \E u \in Leaver : RemoveUser(u)
  \/ AnyTransfer

LedgerNext == OneRequest \/ AnyMintAll

LedgerSpec == LedgerInit /\ [][LedgerNext]_ledgerVars

-----------------------------------------------------------------------------
(* What computeBalanceFromLedger returns for a user. *)
BalanceFromLedger(u) == inflow[u] - outflow[u]

(* The cached balance of every user is what the ledger rows add up to, the   *)
(* invariant the table's comment states (entities/point-tx.entity.ts:17).    *)
BalanceIsLedgerSum == \A u \in User : balance[u] = BalanceFromLedger(u)

(* No sequence of transfers leaves a user with less than nothing.            *)
NoOverdraft == \A u \in User : balance[u] >= 0

(* The points users hold are exactly those issued and not yet destroyed       *)
(* (adminSummary: circulating = minted - burned).  What a deleted row held is  *)
(* still counted as circulating, here as there.                                *)
CirculatingSupply ==
  SumFunctionOnSet(balance, User) = outflow[SINK] - inflow[SINK]

(* Points are only moved: a step changes what users hold together by exactly   *)
(* what it issues less what it destroys, never issues and destroys at once,    *)
(* and rewrites no past row (the table is append-only).                        *)
RecordedMove ==
  /\ \A a \in Account : inflow'[a] >= inflow[a] /\ outflow'[a] >= outflow[a]
  /\ \A u \in User : balance'[u] - balance[u]
       = (inflow'[u] - inflow[u]) - (outflow'[u] - outflow[u])
  /\ ~ (outflow'[SINK] > outflow[SINK] /\ inflow'[SINK] > inflow[SINK])

OnlyRecordedMoves == [][RecordedMove]_ledgerVars
=============================================================================
