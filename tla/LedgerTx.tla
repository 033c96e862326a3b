------------------------------ MODULE LedgerTx ------------------------------
(***************************************************************************)
(* The ledger under concurrency: what LedgerService.transfer and the code   *)
(* that saves whole User entities do to the rows of table users, statement  *)
(* by statement, in PostgreSQL transactions at READ COMMITTED.              *)
(*                                                                         *)
(* A session runs one transaction at a time.  A paying transaction is a     *)
(* sequence of transfers ("legs": one for a gift or a stake, one per winner *)
(* in a settlement).  Each leg locks the rows of its users (SELECT ... FOR  *)
(* UPDATE), computes the new balances from the rows it read and updates     *)
(* them; the writes reach the other sessions when the transaction commits,  *)
(* and the locks are held until then.  A saving session is TypeORM's        *)
(* save(user) of an entity read earlier without a lock.                     *)
(***************************************************************************)
EXTENDS Ledger, Sequences

CONSTANTS
  Session,     \* database connections
  Nobody,      \* the target of a session that saves no entity
  Program,     \* the transactions the services run: sequences of legs
  SaveTarget,  \* users whose entity some request saves
  MaxTx        \* bound: transactions begun in all

Leg == [from : Account, to : Account, amt : Amount]

ASSUME ProgramAssumption == Program \subseteq Seq(Leg)
ASSUME SaveTargetAssumption == SaveTarget \subseteq User
ASSUME NobodyAssumption == Nobody \notin User
ASSUME MaxTxAssumption == MaxTx \in Nat

VARIABLES
  pc,      \* "idle", "paying", "read" (entity loaded) or "reloaded" (save begun)
  legs,    \* the transfers a paying session has still to make
  done,    \* those it has made and not committed
  work,    \* the balances a session has read or computed for the rows it uses
  target,  \* the user a saving session saves
  seen,    \* the balance the SELECT inside save() returned, NoAccount if no row
  holders, \* the sessions that hold the lock of a user's row
  begun    \* transactions begun so far

txVars == <<pc, legs, done, work, target, seen, holders, begun>>
vars == <<ledgerVars, txVars>>

TxTypeOK ==
  /\ LedgerTypeOK
  /\ pc \in [Session -> {"idle", "paying", "read", "reloaded"}]
  /\ legs \in [Session -> Seq(Leg)]
  /\ done \in [Session -> Seq(Leg)]
  /\ work \in [Session -> [User -> Int]]
  /\ target \in [Session -> SaveTarget \cup {Nobody}]
  /\ seen \in [Session -> Int \cup {NoAccount}]
  /\ holders \in [User -> SUBSET Session]
  /\ \A u \in User : \A s \in holders[u] : pc[s] = "paying"
  /\ begun \in 0..MaxTx

Init ==
  /\ LedgerInit
  /\ pc = [s \in Session |-> "idle"]
  /\ legs = [s \in Session |-> << >>]
  /\ done = [s \in Session |-> << >>]
  /\ work = [s \in Session |-> [u \in User |-> 0]]
  /\ target = [s \in Session |-> Nobody]
  /\ seen = [s \in Session |-> 0]
  /\ holders = [u \in User |-> {}]
  /\ begun = 0

-----------------------------------------------------------------------------
(* A paying transaction.                                                     *)

Current(s) == Head(legs[s])

RowsOf(leg) == {leg.from, leg.to} \cap User

Held(s) == {u \in User : s \in holders[u]}

(* The rows the current leg has still to lock: SELECT ... WHERE id IN (...)   *)
(* returns the rows that exist.                                               *)
Wanted(s) ==
  IF pc[s] = "paying" /\ legs[s] # << >>
  THEN {u \in RowsOf(Current(s)) : account[u] = "open"} \ Held(s)
  ELSE {}

Begin(s, prog) ==
  /\ pc[s] = "idle" /\ begun < MaxTx
  /\ \A i \in DOMAIN prog : TransferAllowed(prog[i].from, prog[i].to, prog[i].amt)
  /\ pc' = [pc EXCEPT ![s] = "paying"]
  /\ legs' = [legs EXCEPT ![s] = prog]
  /\ done' = [done EXCEPT ![s] = << >>]
  /\ begun' = begun + 1
  /\ UNCHANGED <<ledgerVars, work, target, seen, holders>>

(* Mutant: the rows are read without FOR UPDATE and stay free for others.      *)
LockRowShared(s, u) ==
  /\ u \in Wanted(s)
  /\ holders' = [holders EXCEPT ![u] = @ \cup {s}]
  /\ work' = [work EXCEPT ![s][u] = balance[u]]
  /\ UNCHANGED <<ledgerVars, pc, legs, done, target, seen, begun>>

(* The ids are sorted but the query has no ORDER BY, so PostgreSQL locks the   *)
(* rows in the order its plan finds them.  A row is read, at its last          *)
(* committed value, when its lock is granted.                                  *)
LockRow(s, u) ==
  /\ u \in Wanted(s)
  /\ holders[u] = {}
  /\ holders' = [holders EXCEPT ![u] = @ \cup {s}]
  /\ work' = [work EXCEPT ![s][u] = balance[u]]
  /\ UNCHANGED <<ledgerVars, pc, legs, done, target, seen, begun>>

(* Mutant: the balance is not compared with the amount.                        *)
LegPayableOverdrawing(s, leg) == RowsOf(leg) \subseteq Held(s)

LegPayable(s, leg) ==
  /\ RowsOf(leg) \subseteq Held(s)
  /\ IsRealUserAccount(leg.from) => work[s][leg.from] >= leg.amt

(* Both new balances are computed from the rows as they were read.             *)
Apply(s) ==
  /\ pc[s] = "paying" /\ legs[s] # << >> /\ Wanted(s) = {}
  /\ LegPayable(s, Current(s))
  /\ work' = [work EXCEPT ![s] =
       [u \in User |-> CASE u = Current(s).to -> work[s][u] + Current(s).amt
                         [] u = Current(s).from /\ u # Current(s).to
                              -> work[s][u] - Current(s).amt
                         [] OTHER -> work[s][u]]]
  /\ legs' = [legs EXCEPT ![s] = Tail(@)]
  /\ done' = [done EXCEPT ![s] = Append(@, Current(s))]
  /\ UNCHANGED <<ledgerVars, pc, target, seen, holders, begun>>

Released(s) == [u \in User |-> holders[u] \ {s}]

(* What a sequence of legs moves to an account and from it. *)
MovedTo(L, a) ==
  SumFunctionOnSet([i \in DOMAIN L |-> IF L[i].to = a THEN L[i].amt ELSE 0], DOMAIN L)
MovedFrom(L, a) ==
  SumFunctionOnSet([i \in DOMAIN L |-> IF L[i].from = a THEN L[i].amt ELSE 0], DOMAIN L)

Commit(s) ==
  /\ pc[s] = "paying" /\ legs[s] = << >>
  /\ balance' = [u \in User |-> IF u \in Held(s) THEN work[s][u] ELSE balance[u]]
  /\ inflow' = [a \in Account |-> inflow[a] + MovedTo(done[s], a)]
  /\ outflow' = [a \in Account |-> outflow[a] + MovedFrom(done[s], a)]
  /\ pc' = [pc EXCEPT ![s] = "idle"]
  /\ done' = [done EXCEPT ![s] = << >>]
  /\ work' = [work EXCEPT ![s] = [u \in User |-> 0]]
  /\ holders' = Released(s)
  /\ UNCHANGED <<account, legs, target, seen, begun>>

(* The transaction ends and nothing it wrote was ever visible.                 *)
RollBack(s) ==
  /\ pc' = [pc EXCEPT ![s] = "idle"]
  /\ legs' = [legs EXCEPT ![s] = << >>]
  /\ done' = [done EXCEPT ![s] = << >>]
  /\ work' = [work EXCEPT ![s] = [u \in User |-> 0]]
  /\ holders' = Released(s)
  /\ UNCHANGED <<ledgerVars, target, seen, begun>>

(* Mutant: the refusal does not end the transaction.                           *)
RefuseLeaking(s) ==
  /\ pc[s] = "paying" /\ legs[s] # << >> /\ Wanted(s) = {}
  /\ ~ LegPayable(s, Current(s))
  /\ pc' = [pc EXCEPT ![s] = "idle"]
  /\ legs' = [legs EXCEPT ![s] = << >>]
  /\ done' = [done EXCEPT ![s] = << >>]
  /\ work' = [work EXCEPT ![s] = [u \in User |-> 0]]
  /\ UNCHANGED <<ledgerVars, target, seen, holders, begun>>

(* A row is missing or the balance does not cover the amount.                  *)
Refuse(s) ==
  /\ pc[s] = "paying" /\ legs[s] # << >> /\ Wanted(s) = {}
  /\ ~ LegPayable(s, Current(s))
  /\ RollBack(s)

(* The process or its connection dies before the commit.                       *)
Crash(s) == pc[s] = "paying" /\ RollBack(s)

-----------------------------------------------------------------------------
(* Waiting.                                                                    *)

Blocked(s) == Wanted(s) # {} /\ \A u \in Wanted(s) : holders[u] # {}

(* Sessions of S that each wait for rows held by others of S.                  *)
WaitCycle(S) ==
  /\ S # {}
  /\ \A s \in S : Blocked(s) /\ \A u \in Wanted(s) : holders[u] \cap S # {}

(* PostgreSQL's deadlock detector aborts one of the transactions.              *)
DeadlockVictim(s) ==
  /\ \E S \in SUBSET Session : s \in S /\ WaitCycle(S)
  /\ RollBack(s)

-----------------------------------------------------------------------------
(* Saving an entity that was read before: DiscordMemberService.findOrCreate    *)
(* when the Discord name or avatar changed, UsersService.adminUpdateRole.       *)

ReadEntity(s, u) ==
  /\ pc[s] = "idle" /\ begun < MaxTx
  /\ account[u] = "open"
  /\ pc' = [pc EXCEPT ![s] = "read"]
  /\ target' = [target EXCEPT ![s] = u]
  /\ work' = [work EXCEPT ![s][u] = balance[u]]
  /\ begun' = begun + 1
  /\ UNCHANGED <<ledgerVars, legs, done, seen, holders>>

(* save() selects the row again, without a lock, to find the changed columns.   *)
Reload(s) ==
  /\ pc[s] = "read"
  /\ pc' = [pc EXCEPT ![s] = "reloaded"]
  /\ seen' = [seen EXCEPT ![s] =
       IF account[target[s]] = "open" THEN balance[target[s]] ELSE NoAccount]
  /\ UNCHANGED <<ledgerVars, legs, done, work, target, holders, begun>>

(* It inserts a row it did not find, else updates the columns in which the       *)
(* entity differs from the row it found, and waits for the row's lock to do so:  *)
(* points_balance is among them when a transfer committed between the two reads. *)
WriteEntity(s) ==
  LET u == target[s] IN
  /\ pc[s] = "reloaded" /\ holders[u] = {}
  /\ IF seen[s] = NoAccount
     THEN account' = [account EXCEPT ![u] = "open"]
     ELSE UNCHANGED account
  /\ balance' = IF \/ seen[s] = NoAccount /\ account[u] # "open"
                   \/ seen[s] \notin {NoAccount, work[s][u]} /\ account[u] = "open"
                THEN [balance EXCEPT ![u] = work[s][u]]
                ELSE balance
  /\ pc' = [pc EXCEPT ![s] = "idle"]
  /\ target' = [target EXCEPT ![s] = Nobody]
  /\ seen' = [seen EXCEPT ![s] = 0]
  /\ work' = [work EXCEPT ![s] = [v \in User |-> 0]]
  /\ UNCHANGED <<inflow, outflow, legs, done, holders, begun>>

-----------------------------------------------------------------------------
(* Joins and deletions are single transactions on one row.                      *)
JoinTx(u) == Join(u) /\ UNCHANGED txVars

RemoveTx(u) == holders[u] = {} /\ RemoveUser(u) /\ UNCHANGED txVars

SessionStep(s) ==
  \/ \E u \in User : LockRow(s, u)
  \/ Apply(s) \/ Commit(s) \/ Refuse(s) \/ DeadlockVictim(s)
  \/ Reload(s) \/ WriteEntity(s)

Next ==
  \/ \E s \in Session : SessionStep(s) \/ Crash(s)
  \/ \E s \in Session, prog \in Program : Begin(s, prog)
  \/ \E s \in Session, u \in SaveTarget : ReadEntity(s, u)
  \/ \E u \in User : JoinTx(u)
  \/ \E u \in Leaver : RemoveTx(u)

Spec == Init /\ [][Next]_vars

(* The node process runs every begun statement on, PostgreSQL grants a row       *)
(* lock to its waiters in turn, and its deadlock detector does not sleep.        *)
Fairness ==
  \A s \in Session :
    /\ WF_vars(Apply(s) \/ Commit(s) \/ Refuse(s) \/ DeadlockVictim(s))
    /\ WF_vars(Reload(s))
    /\ SF_vars(\E u \in User : LockRow(s, u))
    /\ SF_vars(WriteEntity(s))

FairSpec == Spec /\ Fairness

-----------------------------------------------------------------------------
(* A balance computed from a locked row is never overwritten: as long as no     *)
(* request saves the entity of u, the cached balance of u stays what the ledger *)
(* rows add up to, whatever transactions interleave, fail or deadlock.          *)
UnsavedBalanceIsLedgerSum ==
  \A u \in User \ SaveTarget : balance[u] = BalanceFromLedger(u)

(* What a session holds locked is the committed value it started from plus what  *)
(* it has itself done since: nobody else's write is lost under it.               *)
LockedRowIsCurrent ==
  \A s \in Session, u \in User :
    s \in holders[u] =>
      work[s][u] = balance[u] + MovedTo(done[s], u) - MovedFrom(done[s], u)

(* No set of transactions ever waits for itself (transfer locks its two rows     *)
(* in sorted order to avoid deadlocks, ledger.service.ts:53 and :83).             *)
NoWaitCycle == \A S \in SUBSET Session : ~ WaitCycle(S)

(* Every transaction that begins comes to an end.                                *)
EveryTxEnds == \A s \in Session : pc[s] # "idle" ~> pc[s] = "idle"

(* The concurrent ledger behaves as the serial one: every commit is one transfer   *)
(* or one payment to many of module Ledger, and nothing else moves a point.        *)
SerialSpec == LedgerSpec
=============================================================================
