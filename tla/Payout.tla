------------------------------- MODULE Payout -------------------------------
(***************************************************************************)
(* The callers that give points by hand: the payout of a completed auction  *)
(* (auctions/services/auctions-admin.service.ts), the admin's corrections,  *)
(* gifts between members and the wallet's rewards.                          *)
(*                                                                         *)
(* A payout is one transaction that reads the auction, then for each of its *)
(* participants looks for a point_tx row with the key of this auction and   *)
(* user, and mints if there is none.  The key is unique in the table, so a  *)
(* transaction that mints what another has just committed is rolled back.   *)
(* The auction is read without a lock and may be reset, reopened or given   *)
(* other participants at any time (module Auction and AuctionRoster).       *)
(***************************************************************************)
EXTENDS Ledger, FiniteSetsExt

CONSTANTS
  Row,            \* ids of auction_participants rows
  Call,           \* payout requests that may be in progress together
  EntryRole,      \* bound: the roles participants are given
  Reward,         \* amounts per user an admin asks for
  Delta,          \* corrections an admin asks for, of either sign or zero
  MaxFlow         \* bound: OneTransfer lets no account give more than this in all

ASSUME RowAssumption == IsFiniteSet(Row)
ASSUME RewardAssumption == Reward \subseteq Nat \ {0} /\ Delta \subseteq Int

AuctionRole == {"CAPTAIN", "PLAYER", "SPECTATOR"}
REWARD_ROLES == {"PLAYER", "CAPTAIN"}

ASSUME EntryRoleAssumption == EntryRole \subseteq AuctionRole

VARIABLES
  completed,   \* the auction is COMPLETED
  roster,      \* its participants
  paid,        \* number of point_tx rows with the payout key of a user
  payout       \* the payout transactions in progress

rewardVars == <<completed, roster, paid, payout>>
payoutVars == <<ledgerVars, rewardVars>>

Participant == [row : Row, user : User, role : AuctionRole]

(* left: participants whose key is still to be looked for; next: the one about   *)
(* to be paid; minted: users whose row the transaction has locked and credited.  *)
NoPayout == [step |-> "idle", amount |-> 0, rows |-> {}, left |-> {}, minted |-> {}, next |-> NoAccount]

PayoutCall ==
  [step : {"idle", "checking", "minting"}, amount : Reward \cup {0}, rows : SUBSET Participant,
   left : SUBSET Participant, minted : SUBSET User, next : User \cup {NoAccount}]

PayoutTypeOK ==
  /\ completed \in BOOLEAN
  /\ roster \in SUBSET Participant
  /\ paid \in [User -> Nat]
  /\ payout \in [Call -> PayoutCall]

PayoutInit ==
  /\ LedgerInit
  /\ completed = FALSE
  /\ roster = {}
  /\ paid = [u \in User |-> 0]
  /\ payout = [k \in Call |-> NoPayout]

-----------------------------------------------------------------------------
(* The auction, as its own modules change it. *)

AddParticipant(r, u, role) ==
  /\ \A p \in roster : p.row # r
  /\ account[u] = "open"
  /\ roster' = roster \cup {[row |-> r, user |-> u, role |-> role]}
  /\ UNCHANGED <<ledgerVars, completed, paid, payout>>

RemoveParticipant(p) ==
  /\ ~ completed
  /\ roster' = roster \ {p}
  /\ UNCHANGED <<ledgerVars, completed, paid, payout>>

CompleteOrReopen ==
  /\ completed' = ~ completed
  /\ UNCHANGED <<ledgerVars, roster, paid, payout>>

-----------------------------------------------------------------------------
(* The payout.                                                              *)

(* A user whose row is locked by a payout that has credited it. *)
Locked(u) == \E k \in Call : u \in payout[k].minted

Recipients(rows) == {p \in rows : p.role \in REWARD_ROLES}

(* What the admin's page shows of a participant, and of them all. *)
Rewarded(p) == paid[p.user] > 0
PaidCount == Cardinality({p \in Recipients(roster) : Rewarded(p)})

ReadAuction(k, amt) ==
  /\ payout[k] = NoPayout
  /\ completed
  /\ payout' = [payout EXCEPT ![k] =
       [step |-> "checking", amount |-> amt, rows |-> Recipients(roster),
        left |-> Recipients(roster), minted |-> {}, next |-> NoAccount]]
  /\ UNCHANGED <<ledgerVars, completed, roster, paid>>

(* Mutant: the key of every participant is looked for before anything is minted, *)
(* so two rows of one user both pass.                                            *)
CheckKeyIgnoringOwn(k, p) ==
  /\ payout[k].step = "checking"
  /\ p \in payout[k].left
  /\ payout' = [payout EXCEPT
       ![k].left = @ \ {p},
       ![k].step = IF Rewarded(p) THEN "checking" ELSE "minting",
       ![k].next = IF Rewarded(p) THEN NoAccount ELSE p.user]
  /\ UNCHANGED <<ledgerVars, completed, roster, paid>>

(* The row with the key may be committed, or the transaction's own. *)
CheckKey(k, p) ==
  LET exists == Rewarded(p) \/ p.user \in payout[k].minted
  IN /\ payout[k].step = "checking"
     /\ p \in payout[k].left
     /\ payout' = [payout EXCEPT
          ![k].left = @ \ {p},
          ![k].step = IF exists THEN "checking" ELSE "minting",
          ![k].next = IF exists THEN NoAccount ELSE p.user]
     /\ UNCHANGED <<ledgerVars, completed, roster, paid>>

(* Mutant: there is no unique index on the key.                                   *)
MintNextAgain(k) ==
  LET u == payout[k].next
  IN /\ payout[k].step = "minting"
     /\ ~ Locked(u)
     /\ account[u] = "open"
     /\ payout' = [payout EXCEPT ![k].step = "checking", ![k].next = NoAccount,
                                 ![k].minted = @ \cup {u}]
     /\ UNCHANGED <<ledgerVars, completed, roster, paid>>

(* ledger.mint waits for the lock of the user's row and inserts the row with the   *)
(* key, which another payout may have committed since it was looked for.           *)
MintNext(k) ==
  LET u == payout[k].next
  IN /\ payout[k].step = "minting"
     /\ ~ Locked(u)
     /\ account[u] = "open"
     /\ paid[u] = 0
     /\ payout' = [payout EXCEPT ![k].step = "checking", ![k].next = NoAccount,
                                 ![k].minted = @ \cup {u}]
     /\ UNCHANGED <<ledgerVars, completed, roster, paid>>

(* Mutant: a participant who cannot be paid is left out and the rest committed.     *)
RollBackLeavingOut(k) ==
  /\ payout[k].step = "minting"
  /\ \/ Locked(payout[k].next)
     \/ paid[payout[k].next] > 0
     \/ account[payout[k].next] = "deleted"
  /\ payout' = [payout EXCEPT ![k].step = "checking", ![k].next = NoAccount]
  /\ UNCHANGED <<ledgerVars, completed, roster, paid>>

(* Mutant: the credited rows stay locked when the transaction is rolled back.          *)
RollBackForgetting(k) ==
  /\ payout[k].step = "minting"
  /\ Locked(payout[k].next) \/ paid[payout[k].next] > 0 \/ account[payout[k].next] = "deleted"
  /\ payout' = [payout EXCEPT ![k].step = "idle", ![k].rows = {}]
  /\ UNCHANGED <<ledgerVars, completed, roster, paid>>

(* The key exists by now, the user's row is gone, or PostgreSQL breaks a deadlock    *)
(* of two payouts that credited the same users in different orders.                   *)
RollBack(k) ==
  /\ payout[k].step = "minting"
  /\ \/ Locked(payout[k].next)
     \/ paid[payout[k].next] > 0
     \/ account[payout[k].next] = "deleted"
  /\ payout' = [payout EXCEPT ![k] = NoPayout]
  /\ UNCHANGED <<ledgerVars, completed, roster, paid>>

CommitPayout(k) ==
  /\ payout[k].step = "checking"
  /\ payout[k].left = {}
  /\ MintAll([u \in User |-> IF u \in payout[k].minted THEN payout[k].amount ELSE 0])
  /\ paid' = [u \in User |-> IF u \in payout[k].minted THEN paid[u] + 1 ELSE paid[u]]
  /\ payout' = [payout EXCEPT ![k] = NoPayout]
  /\ UNCHANGED <<completed, roster>>

-----------------------------------------------------------------------------
(* The other callers.  Each is one transfer of its own transaction.         *)

(* POST admin/members/:id/adjust. *)
AdminAdjust(u, delta) ==
  /\ delta # 0
  /\ IF delta > 0 THEN Mint(u, delta) ELSE Burn(u, -delta)

(* The same by the command of the bot. *)
AdminPointsCommand(u, delta) == AdminAdjust(u, delta)

(* The /transfer command: both members have been found or created. *)
Gift(from, to, amt) ==
  /\ from # to
  /\ Transfer(from, to, amt)

(* Mutant: the activity reward comes out of nowhere.                          *)
AddPointsUnrecorded(u, amt) ==
  /\ amt > 0 /\ account[u] = "open"
  /\ balance' = [balance EXCEPT ![u] = @ + amt]
  /\ UNCHANGED <<account, inflow, outflow>>

AddPoints(u, amt) == amt > 0 /\ Mint(u, amt)

(* A transfer waits while a payout holds the row of one of its users. *)
OneTransfer ==
  /\ \/ \E u \in User :
          \/ Join(u)
          \/ \E d \in Delta : AdminAdjust(u, d) \/ AdminPointsCommand(u, d)
          \/ \E amt \in Amount : AddPoints(u, amt)
          \/ \E v \in User, amt \in Amount : Gift(u, v, amt)
     \/ \E u \in Leaver : RemoveUser(u)
  /\ \A a \in Account : outflow'[a] <= MaxFlow
  /\ \A u \in User : Locked(u) => account'[u] = account[u] /\ balance'[u] = balance[u]
  /\ UNCHANGED rewardVars

PayoutStep(k) ==
  \/ \E amt \in Reward : ReadAuction(k, amt)
  \/ \E p \in payout[k].left : CheckKey(k, p)
  \/ MintNext(k)
  \/ RollBack(k)
  \/ CommitPayout(k)

AuctionStep ==
  \/ \E r \in Row, u \in User, role \in EntryRole : AddParticipant(r, u, role)
  \/ \E p \in roster : RemoveParticipant(p)
  \/ CompleteOrReopen

PayoutNext == OneTransfer \/ AuctionStep \/ \E k \in Call : PayoutStep(k)

PayoutSpec == PayoutInit /\ [][PayoutNext]_payoutVars

-----------------------------------------------------------------------------
(* A retried or concurrent payout rewards no one a second time.                    *)
PaidOnce == \A u \in User : paid[u] <= 1

(* A payout that is committed has rewarded every participant it read: it never     *)
(* commits for some of them only.                                                  *)
AllOrNothing ==
  [][\A k \in Call :
       payout[k].step # "idle" /\ payout'[k] = NoPayout /\ paid' # paid
         => \A p \in payout[k].rows : paid'[p.user] > 0]_payoutVars

(* "Only a completed auction can be paid out" (auctions-admin.service.ts:143).      *)
PaidWhileCompleted == [][paid' # paid => completed]_payoutVars
=============================================================================
