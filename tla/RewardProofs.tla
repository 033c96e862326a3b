---------------------------- MODULE RewardProofs ----------------------------
(***************************************************************************)
(* Theorems about rewards. Payouts (module Payout): the payout requests in   *)
(* progress, corrections and gifts keep what the ledger promises; nobody is   *)
(* rewarded twice for an auction, and a payout is never committed for some of *)
(* its participants only. Attendance (module Attendance): a day is rewarded   *)
(* once, a milestone once per run of days, every milestone was earned, and a  *)
(* stay marked as paid was paid.                                              *)
(***************************************************************************)
EXTENDS Payout, Attendance, LedgerProofs

(* A payout that has been checked or paid in part accounts for every participant  *)
(* it read: the participant is still to be looked for, has been rewarded, has been *)
(* credited by this payout, or is the one it is about to credit.                   *)
ReadIsAccountedFor ==
  \A k \in Call : \A p \in payout[k].rows :
    \/ p \in payout[k].left
    \/ paid[p.user] > 0
    \/ p.user \in payout[k].minted
    \/ (payout[k].step = "minting" /\ payout[k].next = p.user)

(* A user credited by a payout in progress has no committed reward and is credited *)
(* by no other: the lock of the user's row excludes the others until the commit.   *)
CreditedByOne ==
  \A k \in Call : \A u \in payout[k].minted :
    paid[u] = 0 /\ \A j \in Call : u \in payout[j].minted => j = k

NextIsMember == \A k \in Call : payout[k].step = "minting" => payout[k].next \in User

(* The inductive invariant of payouts, without that of the ledger.                  *)
PayoutInv ==
  PayoutTypeOK /\ NextIsMember /\ PaidOnce /\ CreditedByOne /\ ReadIsAccountedFor

-----------------------------------------------------------------------------
(* The ledger under the callers of module Payout.                                   *)

(* A correction by an administrator is a mint or a burn.                             *)
LEMMA AdjustIsTransfer ==
  ASSUME NEW u \in User, NEW d \in Delta, AdminAdjust(u, d)
  PROVE  \E from, to \in Account \cup {NoAccount}, amt \in Int : Transfer(from, to, amt)
  <1>1. d \in Int /\ -d \in Int /\ u \in Account /\ SINK \in Account
    BY RewardAssumption DEF Account
  <1>2. Transfer(SINK, u, d) \/ Transfer(u, SINK, -d)
    BY DEF AdminAdjust, Mint, Burn
  <1> QED BY <1>1, <1>2

(* A request of another caller joins or deletes a member or transfers.               *)
LEMMA OneTransferIs ==
  ASSUME OneTransfer
  PROVE  \/ \E u \in User : Join(u)
         \/ \E u \in User : RemoveUser(u)
         \/ \E from, to \in Account \cup {NoAccount}, amt \in Int : Transfer(from, to, amt)
  <1>1. CASE \E u \in User, d \in Delta : AdminAdjust(u, d) \/ AdminPointsCommand(u, d)
    BY <1>1, AdjustIsTransfer DEF AdminPointsCommand
  <1>2. CASE \E u \in User, amt \in Amount : AddPoints(u, amt)
    BY <1>2, AmountAssumption DEF AddPoints, Mint, Account
  <1>3. CASE \E u, v \in User, amt \in Amount : Gift(u, v, amt)
    BY <1>3, AmountAssumption DEF Gift, Account
  <1> QED BY <1>1, <1>2, <1>3, LeaverAssumption DEF OneTransfer

(* What a payout mints: its amount to each user it has credited.                      *)
Credit(k) == [u \in User |-> IF u \in payout[k].minted THEN payout[k].amount ELSE 0]

(* The commit of a payout mints what the payout collected for each recipient. *)
LEMMA CommitMintsCredit ==
  ASSUME PayoutTypeOK, NEW k \in Call, CommitPayout(k)
  PROVE  Credit(k) \in [User -> Nat] /\ MintAll(Credit(k))
  <1>1. payout[k].amount \in Nat
    <2>1. payout[k] \in PayoutCall
      BY DEF PayoutTypeOK
    <2>2. payout[k].amount \in Reward \cup {0}
      BY <2>1 DEF PayoutCall
    <2>3. \A x \in Reward : x \in Nat
      BY RewardAssumption
    <2> QED BY <2>2, <2>3
  <1> QED BY <1>1 DEF CommitPayout, Credit

(* Every step of the callers is one of the ledger's transactions, or none.            *)
LEMMA PayoutStepOnLedger ==
  ASSUME PayoutTypeOK, [PayoutNext]_payoutVars
  PROVE  \/ \E u \in User : Join(u)
         \/ \E u \in User : RemoveUser(u)
         \/ \E from, to \in Account \cup {NoAccount}, amt \in Int : Transfer(from, to, amt)
         \/ \E pay \in [User -> Nat] : MintAll(pay)
         \/ UNCHANGED ledgerVars
  <1>1. CASE OneTransfer
    BY <1>1, OneTransferIs
  <1>2. CASE AuctionStep
    BY <1>2 DEF AuctionStep, AddParticipant, RemoveParticipant, CompleteOrReopen
  <1>3. ASSUME NEW k \in Call, PayoutStep(k), ~ CommitPayout(k) PROVE UNCHANGED ledgerVars
    <2>1. ASSUME NEW amt \in Reward, ReadAuction(k, amt) PROVE UNCHANGED ledgerVars
      BY <2>1 DEF ReadAuction
    <2>2. ASSUME NEW p \in payout[k].left, CheckKey(k, p) PROVE UNCHANGED ledgerVars
      BY <2>2 DEF CheckKey
    <2>3. CASE MintNext(k)
      BY <2>3 DEF MintNext
    <2>4. CASE RollBack(k)
      BY <2>4 DEF RollBack
    <2> QED BY <1>3, <2>1, <2>2, <2>3, <2>4 DEF PayoutStep
  <1>4. CASE \E k \in Call : CommitPayout(k)
    BY <1>4, CommitMintsCredit
  <1>5. CASE UNCHANGED payoutVars
    BY <1>5 DEF payoutVars
  <1> QED BY <1>1, <1>2, <1>3, <1>4, <1>5 DEF PayoutNext
-----------------------------------------------------------------------------
(* The payouts.                                                                       *)

(* The invariant holds at the start. *)
LEMMA PayoutInitInv == PayoutInit => PayoutInv
  <1> SUFFICES ASSUME PayoutInit PROVE PayoutInv
    OBVIOUS
  <1>1. NoPayout \in PayoutCall
    BY DEF NoPayout, PayoutCall
  <1>2. PayoutTypeOK
    BY <1>1 DEF PayoutInit, PayoutTypeOK
  <1>3. \A k \in Call : payout[k].rows = {} /\ payout[k].minted = {} /\ payout[k].step = "idle"
    BY DEF PayoutInit, NoPayout
  <1> QED BY <1>2, <1>3 DEF PayoutInit, PayoutInv, NextIsMember, PaidOnce, CreditedByOne,
                            ReadIsAccountedFor

(* What only touches the auction and the ledger leaves payouts as they are.            *)
LEMMA SamePayouts ==
  ASSUME PayoutInv, UNCHANGED <<paid, payout>>, completed' \in BOOLEAN,
         roster' \in SUBSET Participant
  PROVE  PayoutInv'
  BY DEF PayoutInv, PayoutTypeOK, NextIsMember, PaidOnce, CreditedByOne, ReadIsAccountedFor

(* Recipients are participants. *)
LEMMA RecipientsRead ==
  ASSUME PayoutTypeOK
  PROVE  Recipients(roster) \in SUBSET Participant
  BY DEF PayoutTypeOK, Recipients

(* What the invariant asks of one payout that has come to be c.                         *)
Accounted(c) ==
  \A p \in c.rows : \/ p \in c.left
                   \/ paid[p.user] > 0
                   \/ p.user \in c.minted
                   \/ (c.step = "minting" /\ c.next = p.user)

CreditsAlone(k, c) ==
  \A u \in c.minted : paid[u] = 0 /\ \A j \in Call : j # k => u \notin payout[j].minted

Fits(k, c) ==
  c \in PayoutCall /\ (c.step = "minting" => c.next \in User) /\ CreditsAlone(k, c) /\ Accounted(c)

(* A step that only makes one payout c keeps the invariant if c is accounted for and    *)
(* credits nobody another payout credits.                                               *)
LEMMA OneCallKeeps ==
  ASSUME PayoutInv, NEW k \in Call, NEW c, Fits(k, c),
         payout' = [payout EXCEPT ![k] = c], UNCHANGED <<completed, roster, paid>>
  PROVE  PayoutInv'
  <1> USE DEF Fits, CreditsAlone, Accounted
  <1>1. payout' \in [Call -> PayoutCall] /\ payout'[k] = c
        /\ \A j \in Call : j # k => payout'[j] = payout[j]
    BY DEF PayoutInv, PayoutTypeOK
  <1>2. PayoutTypeOK' /\ PaidOnce'
    BY <1>1 DEF PayoutInv, PayoutTypeOK, PaidOnce
  <1>3. NextIsMember'
    BY <1>1 DEF PayoutInv, NextIsMember
  <1>4. ASSUME NEW j \in Call, NEW u \in payout'[j].minted
        PROVE  paid'[u] = 0 /\ \A i \in Call : u \in payout'[i].minted => i = j
    <2>1. CASE j = k
      BY <1>1, <1>4, <2>1
    <2>2. CASE j # k
      <3>1. u \in payout[j].minted /\ u \notin c.minted
        BY <1>1, <1>4, <2>2
      <3>2. paid[u] = 0 /\ \A i \in Call : u \in payout[i].minted => i = j
        BY <3>1 DEF PayoutInv, CreditedByOne
      <3> QED BY <1>1, <3>1, <3>2
    <2> QED BY <2>1, <2>2
  <1>5. CreditedByOne'
    BY <1>4 DEF CreditedByOne
  <1>6. ReadIsAccountedFor'
    <2> SUFFICES ASSUME NEW j \in Call, NEW p \in payout'[j].rows
                 PROVE  \/ p \in payout'[j].left
                        \/ paid'[p.user] > 0
                        \/ p.user \in payout'[j].minted
                        \/ (payout'[j].step = "minting" /\ payout'[j].next = p.user)
      BY DEF ReadIsAccountedFor
    <2>1. CASE j = k
      BY <1>1, <2>1
    <2>2. CASE j # k
      BY <1>1, <2>2 DEF PayoutInv, ReadIsAccountedFor
    <2> QED BY <2>1, <2>2
  <1> QED BY <1>2, <1>3, <1>5, <1>6 DEF PayoutInv

(* Reading auction and roster keeps the invariant. *)
LEMMA ReadAuctionKeeps ==
  ASSUME PayoutInv, NEW k \in Call, NEW amt \in Reward, ReadAuction(k, amt)
  PROVE  PayoutInv'
  <1> DEFINE c == [step |-> "checking", amount |-> amt, rows |-> Recipients(roster),
                   left |-> Recipients(roster), minted |-> {}, next |-> NoAccount]
  <1>1. c \in PayoutCall
    BY RecipientsRead DEF PayoutCall, PayoutInv
  <1>2. payout' = [payout EXCEPT ![k] = c] /\ UNCHANGED <<completed, roster, paid>>
    BY DEF ReadAuction
  <1>3. c.step # "minting" /\ c.minted = {} /\ c.rows = c.left
    OBVIOUS
  <1>4. PICK d : d = c
    OBVIOUS
  <1> HIDE DEF c
  <1>5. Fits(k, c)
    BY <1>1, <1>3 DEF Fits, CreditsAlone, Accounted
  <1> QED BY <1>2, <1>4, <1>5, OneCallKeeps

(* Looking up one key keeps it. *)
LEMMA CheckKeyKeeps ==
  ASSUME PayoutInv, NEW k \in Call, NEW p \in payout[k].left, CheckKey(k, p)
  PROVE  PayoutInv'
  <1> DEFINE exists == Rewarded(p) \/ p.user \in payout[k].minted
             old == payout[k]
             c == [old EXCEPT !.left = @ \ {p}, !.step = IF exists THEN "checking" ELSE "minting",
                              !.next = IF exists THEN NoAccount ELSE p.user]
  <1>1. old \in PayoutCall
    BY DEF PayoutInv, PayoutTypeOK
  <1>2. p \in Participant /\ p.user \in User
    BY <1>1 DEF PayoutCall, Participant
  <1>3. /\ c \in PayoutCall
        /\ c.left = old.left \ {p} /\ c.minted = old.minted /\ c.rows = old.rows
        /\ exists => c.step = "checking"
        /\ ~ exists => c.step = "minting" /\ c.next = p.user
    BY <1>1, <1>2 DEF PayoutCall
  <1>4. payout' = [payout EXCEPT ![k] = c] /\ UNCHANGED <<completed, roster, paid>>
    BY <1>1 DEF CheckKey, PayoutInv, PayoutTypeOK, PayoutCall
  <1>5. c.step = "minting" => c.next \in User
    BY <1>2, <1>3
  <1>6. \A u \in c.minted : paid[u] = 0 /\ \A j \in Call : j # k => u \notin payout[j].minted
    BY <1>3 DEF PayoutInv, CreditedByOne
  <1>7. ASSUME NEW q \in c.rows
        PROVE  \/ q \in c.left
               \/ paid[q.user] > 0
               \/ q.user \in c.minted
               \/ (c.step = "minting" /\ c.next = q.user)
    <2>1. old.step = "checking"
      BY DEF CheckKey
    <2>2. q \in old.left \/ paid[q.user] > 0 \/ q.user \in old.minted
      BY <1>3, <2>1 DEF PayoutInv, ReadIsAccountedFor
    <2>3. CASE q = p
      BY <1>3, <2>3 DEF Rewarded
    <2>4. CASE q # p
      BY <1>3, <2>2, <2>4
    <2> QED BY <2>3, <2>4
  <1>8. PICK d : d = c
    OBVIOUS
  <1> HIDE DEF c
  <1>9. Fits(k, c)
    BY <1>3, <1>4, <1>5, <1>6, <1>7 DEF Fits, CreditsAlone, Accounted
  <1> QED BY <1>4, <1>8, <1>9, OneCallKeeps

(* Inserting one row keeps it. *)
LEMMA MintNextKeeps ==
  ASSUME PayoutInv, NEW k \in Call, MintNext(k)
  PROVE  PayoutInv'
  <1> DEFINE old == payout[k]
             u == old.next
             c == [old EXCEPT !.step = "checking", !.next = NoAccount, !.minted = @ \cup {u}]
  <1>1. old \in PayoutCall /\ old.step = "minting" /\ u \in User
        /\ paid[u] = 0 /\ \A j \in Call : u \notin payout[j].minted
    BY DEF PayoutInv, PayoutTypeOK, MintNext, NextIsMember, Locked
  <1>2. /\ c \in PayoutCall /\ c.step = "checking" /\ c.minted = old.minted \cup {u}
        /\ c.rows = old.rows /\ c.left = old.left
    BY <1>1 DEF PayoutCall
  <1>3. payout' = [payout EXCEPT ![k] = c] /\ UNCHANGED <<completed, roster, paid>>
    BY <1>1 DEF MintNext, PayoutInv, PayoutTypeOK, PayoutCall
  <1>4. \A v \in c.minted : paid[v] = 0 /\ \A j \in Call : j # k => v \notin payout[j].minted
    BY <1>1, <1>2 DEF PayoutInv, CreditedByOne
  <1>5. \A q \in c.rows : q \in c.left \/ paid[q.user] > 0 \/ q.user \in c.minted
    BY <1>1, <1>2 DEF PayoutInv, ReadIsAccountedFor
  <1>6. PICK d : d = c
    OBVIOUS
  <1> HIDE DEF c
  <1>7. Fits(k, c)
    BY <1>2, <1>3, <1>4, <1>5 DEF Fits, CreditsAlone, Accounted
  <1> QED BY <1>3, <1>6, <1>7, OneCallKeeps

(* A payout that is rolled back keeps it. *)
LEMMA RollBackKeeps ==
  ASSUME PayoutInv, NEW k \in Call, RollBack(k)
  PROVE  PayoutInv'
  <1>1. NoPayout \in PayoutCall
    BY DEF NoPayout, PayoutCall
  <1>2. NoPayout.rows = {} /\ NoPayout.minted = {} /\ NoPayout.step = "idle"
    BY DEF NoPayout
  <1>3. Fits(k, NoPayout)
    BY <1>1, <1>2 DEF Fits, CreditsAlone, Accounted
  <1> QED BY <1>3, OneCallKeeps DEF RollBack

(* A commit rewards those the payout has credited, once, and credits nobody any more.    *)
LEMMA CommitPayoutKeeps ==
  ASSUME PayoutInv, NEW k \in Call, CommitPayout(k)
  PROVE  PayoutInv'
  <1>1. NoPayout \in PayoutCall /\ NoPayout.rows = {} /\ NoPayout.minted = {}
        /\ NoPayout.step = "idle"
    BY DEF NoPayout, PayoutCall
  <1>2. /\ payout' = [payout EXCEPT ![k] = NoPayout]
        /\ paid' = [u \in User |-> IF u \in payout[k].minted THEN paid[u] + 1 ELSE paid[u]]
        /\ UNCHANGED <<completed, roster>>
    BY DEF CommitPayout
  <1>3. payout' \in [Call -> PayoutCall] /\ payout'[k] = NoPayout
        /\ \A j \in Call : j # k => payout'[j] = payout[j]
    BY <1>1, <1>2 DEF PayoutInv, PayoutTypeOK
  <1>4. \A u \in User : paid[u] \in Nat /\ paid[u] <= 1
    BY DEF PayoutInv, PayoutTypeOK, PaidOnce
  <1>5. PayoutTypeOK'
    BY <1>2, <1>3, <1>4 DEF PayoutInv, PayoutTypeOK
  <1>6. PaidOnce'
    BY <1>2, <1>4 DEF PayoutInv, PaidOnce, CreditedByOne
  <1>7. NextIsMember'
    BY <1>1, <1>3 DEF PayoutInv, NextIsMember
  <1>8. ASSUME NEW j \in Call, NEW u \in payout'[j].minted
        PROVE  paid'[u] = 0 /\ \A i \in Call : u \in payout'[i].minted => i = j
    <2>1. j # k /\ u \in payout[j].minted
      BY <1>1, <1>3, <1>8
    <2>2. u \in User
      BY <2>1 DEF PayoutInv, PayoutTypeOK, PayoutCall
    <2>3. paid[u] = 0 /\ u \notin payout[k].minted
          /\ \A i \in Call : u \in payout[i].minted => i = j
      BY <2>1 DEF PayoutInv, CreditedByOne
    <2> QED BY <1>1, <1>2, <1>3, <2>2, <2>3
  <1>9. CreditedByOne'
    BY <1>8 DEF CreditedByOne
  <1>10. ReadIsAccountedFor'
    <2> SUFFICES ASSUME NEW j \in Call, NEW p \in payout'[j].rows
                 PROVE  \/ p \in payout'[j].left
                        \/ paid'[p.user] > 0
                        \/ p.user \in payout'[j].minted
                        \/ (payout'[j].step = "minting" /\ payout'[j].next = p.user)
      BY DEF ReadIsAccountedFor
    <2>1. j # k /\ payout'[j] = payout[j]
      BY <1>1, <1>3
    <2>2. \/ p \in payout[j].left
          \/ paid[p.user] > 0
          \/ p.user \in payout[j].minted
          \/ (payout[j].step = "minting" /\ payout[j].next = p.user)
      BY <2>1 DEF PayoutInv, ReadIsAccountedFor
    <2>3. payout[j] \in PayoutCall
      BY DEF PayoutInv, PayoutTypeOK
    <2>4. p.user \in User
      BY <2>1, <2>3 DEF PayoutCall, Participant
    <2>5. paid[p.user] > 0 => paid'[p.user] > 0
      BY <1>2, <1>4, <2>4
    <2> QED BY <2>1, <2>2, <2>5
  <1> QED BY <1>5, <1>6, <1>7, <1>9, <1>10 DEF PayoutInv

(* Every step keeps the invariant. *)
LEMMA PayoutNextInv == PayoutInv /\ [PayoutNext]_payoutVars => PayoutInv'
  <1> SUFFICES ASSUME PayoutInv, [PayoutNext]_payoutVars PROVE PayoutInv'
    OBVIOUS
  <1>1. completed \in BOOLEAN /\ roster \in SUBSET Participant
    BY DEF PayoutInv, PayoutTypeOK
  <1>2. CASE OneTransfer
    BY <1>1, <1>2, SamePayouts DEF OneTransfer, rewardVars
  <1>3. ASSUME NEW r \in Row, NEW u \in User, NEW role \in EntryRole, AddParticipant(r, u, role)
        PROVE  PayoutInv'
    <2>1. [row |-> r, user |-> u, role |-> role] \in Participant
      BY EntryRoleAssumption DEF Participant
    <2> QED BY <1>1, <1>3, <2>1, SamePayouts DEF AddParticipant
  <1>4. ASSUME NEW p \in roster, RemoveParticipant(p) PROVE PayoutInv'
    BY <1>1, <1>4, SamePayouts DEF RemoveParticipant
  <1>5. CASE CompleteOrReopen
    BY <1>1, <1>5, SamePayouts DEF CompleteOrReopen
  <1>6. ASSUME NEW k \in Call, PayoutStep(k) PROVE PayoutInv'
    BY <1>6, ReadAuctionKeeps, CheckKeyKeeps, MintNextKeeps, RollBackKeeps, CommitPayoutKeeps
       DEF PayoutStep
  <1>7. CASE UNCHANGED payoutVars
    BY <1>1, <1>7, SamePayouts DEF payoutVars, rewardVars
  <1> QED BY <1>2, <1>3, <1>4, <1>5, <1>6, <1>7 DEF PayoutNext, AuctionStep
-----------------------------------------------------------------------------

(* The ledger starts right. *)
LEMMA PayoutLedgerInit == PayoutInit => LedgerInv
  BY LedgerInitInv DEF PayoutInit

(* Every step keeps the ledger right and moves points only with a row. *)
LEMMA PayoutLedgerNext ==
  LedgerInv /\ PayoutInv /\ [PayoutNext]_payoutVars => LedgerInv' /\ RecordedMove
  <1> SUFFICES ASSUME LedgerInv, PayoutInv, [PayoutNext]_payoutVars
               PROVE  LedgerInv' /\ RecordedMove
    OBVIOUS
  <1>0. LedgerTypeOK /\ NobodyOwnsBeforeJoining /\ PayoutTypeOK
    BY DEF LedgerInv, PayoutInv
  <1>1. ASSUME NEW u \in User, Join(u) PROVE LedgerInv' /\ RecordedMove
    BY <1>0, <1>1, JoinKeepsInv, JoinIsRecorded
  <1>2. ASSUME NEW u \in User, RemoveUser(u) PROVE LedgerInv' /\ RecordedMove
    BY <1>0, <1>2, RemoveUserKeepsInv, RemoveUserIsRecorded
  <1>3. ASSUME NEW from \in Account \cup {NoAccount}, NEW to \in Account \cup {NoAccount},
               NEW amt \in Int, Transfer(from, to, amt)
        PROVE  LedgerInv' /\ RecordedMove
    BY <1>0, <1>3, TransferKeepsInv, TransferIsRecorded
  <1>4. ASSUME NEW pay \in [User -> Nat], MintAll(pay) PROVE LedgerInv' /\ RecordedMove
    BY <1>0, <1>4, MintAllKeepsInv, MintAllIsRecorded
  <1>5. CASE UNCHANGED ledgerVars
    BY <1>0, <1>5, SameLedgerKeepsInv, SameLedgerIsRecorded
  <1> QED BY <1>0, <1>1, <1>2, <1>3, <1>4, <1>5, PayoutStepOnLedger

(* Every reachable state of the payouts satisfies the inductive invariant.              *)
THEOREM PayoutInvariant == PayoutSpec => [](LedgerInv /\ PayoutInv)
  <1>1. PayoutInit => LedgerInv /\ PayoutInv
    BY PayoutInitInv, PayoutLedgerInit
  <1>2. (LedgerInv /\ PayoutInv) /\ [PayoutNext]_payoutVars => (LedgerInv /\ PayoutInv)'
    BY PayoutNextInv, PayoutLedgerNext
  <1> QED BY <1>1, <1>2, PTL DEF PayoutSpec

(* However many payouts of one auction are requested, retried and interleaved, and       *)
(* whatever rows its participants have, no user is rewarded twice                        *)
(* (auctions-admin.service.ts, payoutAuction).                                           *)
THEOREM NobodyPaidTwice == PayoutSpec => []PaidOnce
  <1>1. PayoutInv => PaidOnce
    BY DEF PayoutInv
  <1> QED BY <1>1, PayoutInvariant, PTL

(* A payout that is committed has rewarded all participants it read: those it found        *)
(* rewarded and those it credited; a payout that cannot credit one is rolled back whole.   *)
THEOREM PaidAllOrNone == PayoutSpec => AllOrNothing
  <1> DEFINE Whole == \A k \in Call :
       payout[k].step # "idle" /\ payout'[k] = NoPayout /\ paid' # paid
         => \A p \in payout[k].rows : paid'[p.user] > 0
  <1>1. PayoutInv /\ PayoutNext => Whole
    <2> SUFFICES ASSUME PayoutInv, PayoutNext, NEW k \in Call,
                        payout[k].step # "idle", payout'[k] = NoPayout, paid' # paid,
                        NEW p \in payout[k].rows
                 PROVE  paid'[p.user] > 0
      OBVIOUS
    <2>1. PICK j \in Call : CommitPayout(j)
      <3>1. ~ OneTransfer
        BY DEF OneTransfer, rewardVars
      <3>2. ~ AuctionStep
        BY DEF AuctionStep, AddParticipant, RemoveParticipant, CompleteOrReopen
      <3>3. \A j \in Call : PayoutStep(j) => CommitPayout(j)
        BY DEF PayoutStep, ReadAuction, CheckKey, MintNext, RollBack
      <3> QED BY <3>1, <3>2, <3>3 DEF PayoutNext
    <2>2. NoPayout.step = "idle"
      BY DEF NoPayout
    <2>3. j = k
      BY <2>1, <2>2 DEF CommitPayout, PayoutInv, PayoutTypeOK
    <2>4. payout[k] \in PayoutCall
      BY DEF PayoutInv, PayoutTypeOK
    <2>5. p.user \in User
      BY <2>4 DEF PayoutCall, Participant
    <2>6. paid[p.user] > 0 \/ p.user \in payout[k].minted
      BY <2>1, <2>3 DEF CommitPayout, PayoutInv, ReadIsAccountedFor
    <2>7. paid[p.user] \in Nat
      BY <2>5 DEF PayoutInv, PayoutTypeOK
    <2>8. paid'[p.user] = IF p.user \in payout[k].minted THEN paid[p.user] + 1 ELSE paid[p.user]
      BY <2>1, <2>3, <2>5 DEF CommitPayout
    <2> QED BY <2>6, <2>7, <2>8
  <1>2. UNCHANGED payoutVars => Whole \/ UNCHANGED payoutVars
    OBVIOUS
  <1>3. PayoutInv /\ [PayoutNext]_payoutVars => [Whole]_payoutVars
    BY <1>1
  <1> QED BY <1>3, PayoutInvariant, PTL DEF PayoutSpec, AllOrNothing

(* Payouts, corrections, gifts and rewards together keep what the ledger promises:          *)
(* cached balances are the sums of the rows, nobody is overdrawn, the points in circulation *)
(* are those issued less those destroyed, and no row is rewritten.                          *)
THEOREM PayoutsKeepLedger ==
  PayoutSpec => [](BalanceIsLedgerSum /\ NoOverdraft /\ CirculatingSupply) /\ OnlyRecordedMoves
  <1>1. LedgerInv => BalanceIsLedgerSum /\ NoOverdraft /\ CirculatingSupply
    BY DEF LedgerInv
  <1>2. LedgerInv /\ PayoutInv /\ [PayoutNext]_payoutVars => [RecordedMove]_ledgerVars
    BY PayoutLedgerNext
  <1> QED BY <1>1, <1>2, PayoutInvariant, PTL DEF PayoutSpec, OnlyRecordedMoves

-----------------------------------------------------------------------------
(* Attendance.                                                                            *)

(* A transaction that is still open was begun today or, over midnight, yesterday.          *)
ClaimsAreOfToday ==
  \A c \in Claim : claim[c].step \in {"begun", "checked"} =>
    claim[c].begun <= day /\ day <= claim[c].begun + 1

ClaimsHaveUser == \A c \in Claim : claim[c].step # "idle" => claim[c].user \in User

(* The lock of the user's row: between its check and its commit a claim is alone.          *)
OneClaimHoldsTheRow ==
  \A c, d \in Claim :
    claim[c].step = "checked" /\ claim[d].step = "checked" /\ claim[c].user = claim[d].user
      => c = d

(* Rows are dated in the order they were written, never later than they were paid.          *)
RowsInOrder ==
  \A u \in User : \A i, j \in AttendanceRows(u) :
    /\ attended[u][i].dated <= attended[u][i].paid /\ attended[u][i].paid <= day
    /\ i <= j => attended[u][i].dated <= attended[u][j].dated

(* What the check found still holds when the claim is paid: no row of the user is dated     *)
(* later than the claim began, and none on that day unless midnight has passed since.        *)
NothingSinceTheCheck ==
  \A c \in Claim : claim[c].step = "checked" =>
    \A i \in AttendanceRows(claim[c].user) :
      /\ attended[claim[c].user][i].dated <= claim[c].begun
      /\ claim[c].begun = day => attended[claim[c].user][i].dated < claim[c].begun

(* A milestone was found by looking at the whole run before it: each of its days is dated    *)
(* by a row up to that one, and the day before the run by none, then or since.                *)
StreaksAreComplete ==
  \A u \in User : \A j \in AttendanceRows(u) :
    attended[u][j].streak \in Milestone =>
      /\ attended[u][j].dated = attended[u][j].paid
      /\ (attended[u][j].dated - attended[u][j].streak + 1) .. attended[u][j].dated
           \subseteq {attended[u][i].dated : i \in 1 .. j}
      /\ attended[u][j].dated - attended[u][j].streak \notin DatedDays(attended[u])

(* The inductive invariant of attendance, without that of the ledger.                         *)
ClaimsInv == ClaimsAreOfToday /\ ClaimsHaveUser /\ OneClaimHoldsTheRow /\ NothingSinceTheCheck
RowsInv == RowsInOrder /\ OnceADay /\ StreaksAreComplete
AttendanceInv == AttendanceTypeOK /\ ClaimsInv /\ RowsInv

(* The rows of a user after an award.                                                         *)
Awarded(rows, begun, today) ==
  LET more == Append(rows, [dated |-> begun, paid |-> today, streak |-> 0])
  IN [more EXCEPT ![Len(more)].streak = StreakDays(more, today)]

(* The highest day of a set is in it and above the others. *)
LEMMA HighestOf ==
  ASSUME NEW S, IsFiniteSet(S), S \subseteq Int, S # {}
  PROVE  Max(S) \in S /\ \A y \in S : Max(S) >= y
  BY HighestExists DEF Max

(* The streak is a number the service can find, its days are dated, and it is the longest.     *)
LEMMA StreakIsLongest ==
  ASSUME NEW rows, NEW today \in Int
  PROVE  /\ StreakDays(rows, today) \in 0 .. Window
         /\ (today - StreakDays(rows, today) + 1) .. today \subseteq DatedDays(rows)
         /\ \A n \in 0 .. Window :
              (today - n + 1) .. today \subseteq DatedDays(rows) => n <= StreakDays(rows, today)
  <1> DEFINE S == {n \in 0 .. Window : (today - n + 1) .. today \subseteq DatedDays(rows)}
  <1>1. Window \in Nat
    BY MilestoneAssumption
  <1>2. IsFiniteSet(0 .. Window)
    <2>1. 0 \in Int /\ Window \in Int
      BY <1>1
    <2> QED BY <2>1, FS_Interval
  <1>3. IsFiniteSet(S)
    BY <1>2, FS_Subset
  <1>4. 0 \in S
    <2>1. (today - 0 + 1) .. today = {}
      OBVIOUS
    <2> QED BY <1>1, <2>1
  <1>5. S \subseteq Int
    BY <1>1
  <1>6. StreakDays(rows, today) = Max(S)
    BY DEF StreakDays
  <1>7. \A n \in S : n \in 0 .. Window /\ (today - n + 1) .. today \subseteq DatedDays(rows)
    OBVIOUS
  <1>8. \A n \in 0 .. Window : (today - n + 1) .. today \subseteq DatedDays(rows) => n \in S
    OBVIOUS
  <1> HIDE DEF S
  <1>9. Max(S) \in S /\ \A n \in S : Max(S) >= n
    BY <1>3, <1>4, <1>5, HighestOf
  <1>10. \A n \in S : n <= Max(S)
    BY <1>1, <1>7, <1>9
  <1> QED BY <1>6, <1>7, <1>8, <1>9, <1>10

(* A milestone that ends today: the run is dated by the rows, and the day before it is not.    *)
LEMMA MilestoneStreak ==
  ASSUME NEW rows, NEW today \in Int, StreakDays(rows, today) \in Milestone
  PROVE  /\ StreakDays(rows, today) \in Nat \ {0}
         /\ today \in DatedDays(rows)
         /\ today - StreakDays(rows, today) \notin DatedDays(rows)
  <1> DEFINE s == StreakDays(rows, today)
  <1>1. s \in Nat \ {0} /\ s < Window /\ Window \in Nat
    BY MilestoneAssumption
  <1>2. (today - s + 1) .. today \subseteq DatedDays(rows)
    BY StreakIsLongest
  <1>3. \A n \in 0 .. Window : (today - n + 1) .. today \subseteq DatedDays(rows) => n <= s
    BY StreakIsLongest
  <1> HIDE DEF s
  <1>4. today \in (today - s + 1) .. today
    BY <1>1
  <1>5. ASSUME today - s \in DatedDays(rows) PROVE FALSE
    <2>1. (today - (s + 1) + 1) .. today \subseteq DatedDays(rows)
      <3> SUFFICES ASSUME NEW d \in (today - (s + 1) + 1) .. today PROVE d \in DatedDays(rows)
        OBVIOUS
      <3>1. d = today - s \/ d \in (today - s + 1) .. today
        BY <1>1
      <3> QED BY <1>2, <1>5, <3>1
    <2>2. s + 1 \in 0 .. Window
      BY <1>1
    <2>3. s + 1 <= s
      BY <1>3, <2>1, <2>2
    <2> QED BY <1>1, <2>3
  <1>6. s \in Nat \ {0} /\ today \in DatedDays(rows) /\ today - s \notin DatedDays(rows)
    BY <1>1, <1>2, <1>4, <1>5
  <1> QED BY <1>6 DEF s

(* An award adds one row after the others.                                                      *)
LEMMA AwardedRows ==
  ASSUME NEW rows \in Seq(Award), NEW begun \in Day, NEW today \in Day
  PROVE  LET more == Append(rows, [dated |-> begun, paid |-> today, streak |-> 0])
             s == StreakDays(more, today)
             n == Len(rows) + 1
             new == Awarded(rows, begun, today)
         IN /\ new \in Seq(Award) /\ DOMAIN new = 1 .. n /\ DOMAIN more = 1 .. n /\ DOMAIN rows = 1 .. (n - 1)
            /\ n \in Nat \ {0}
            /\ new[n] = [dated |-> begun, paid |-> today, streak |-> s]
            /\ more[n].dated = begun
            /\ \A i \in 1 .. (n - 1) : new[i] = rows[i] /\ more[i] = rows[i]
  <1> DEFINE blank == [dated |-> begun, paid |-> today, streak |-> 0]
             more == Append(rows, blank)
             s == StreakDays(more, today)
             n == Len(rows) + 1
             new == Awarded(rows, begun, today)
             row == [dated |-> begun, paid |-> today, streak |-> s]
  <1>1. today \in Int
    BY DEF Day
  <1>2. s \in 0 .. Window
    BY <1>1, StreakIsLongest
  <1>3. row \in Award
    BY <1>2 DEF Award
  <1>4. blank \in Award
    BY MilestoneAssumption DEF Award
  <1>5. blank.dated = begun /\ [blank EXCEPT !.streak = s] = row
    OBVIOUS
  <1>6. new = [more EXCEPT ![Len(more)].streak = s]
    BY DEF Awarded
  <1> HIDE DEF blank, s, row, new
  <1>7. more \in Seq(Award) /\ Len(more) = n /\ more[n] = blank /\ n \in Nat \ {0}
        /\ \A i \in 1 .. (n - 1) : more[i] = rows[i]
    BY <1>4
  <1>8. DOMAIN more = 1 .. n /\ DOMAIN rows = 1 .. (n - 1)
    BY <1>7
  <1> HIDE DEF more, n
  <1>9. new = [more EXCEPT ![n] = row]
    BY <1>5, <1>6, <1>7
  <1>10. new \in Seq(Award) /\ DOMAIN new = 1 .. n /\ new[n] = row
         /\ \A i \in 1 .. (n - 1) : new[i] = more[i]
    BY <1>3, <1>7, <1>8, <1>9
  <1>11. /\ new \in Seq(Award) /\ DOMAIN new = 1 .. n /\ DOMAIN more = 1 .. n /\ DOMAIN rows = 1 .. (n - 1)
         /\ n \in Nat \ {0} /\ new[n] = row /\ more[n].dated = begun
         /\ \A i \in 1 .. (n - 1) : new[i] = rows[i] /\ more[i] = rows[i]
    BY <1>5, <1>7, <1>8, <1>10
  <1> QED BY <1>11 DEF blank, more, s, n, row, new

(* The invariant holds at the start. *)
LEMMA AttendanceInitInv == Init => AttendanceInv
  <1> SUFFICES ASSUME Init PROVE AttendanceInv
    OBVIOUS
  <1>1. LastDay \in Nat /\ LastDay >= 1 /\ MaxAttachRetries \in Nat
    BY ClockAssumption
  <1>2. 1 \in Day
    BY <1>1 DEF Day
  <1>3. Idle \in ClaimRow /\ Idle.step = "idle"
    BY <1>2 DEF Idle, ClaimRow
  <1>4. \A c \in Claim : claim[c].step = "idle"
    BY <1>3 DEF Init
  <1>5. attended \in [User -> Seq(Award)]
    BY DEF Init
  <1>6. \A u \in User : AttendanceRows(u) = {}
    BY DEF Init, AttendanceRows
  <1>7. claim \in [Claim -> ClaimRow]
    BY <1>3 DEF Init
  <1>8. AttendanceTypeOK
    BY <1>1, <1>2, <1>5, <1>7 DEF Init, AttendanceTypeOK
  <1>9. ClaimsInv
    BY <1>4 DEF ClaimsInv, ClaimsAreOfToday, ClaimsHaveUser, OneClaimHoldsTheRow, NothingSinceTheCheck
  <1>10. RowsInv
    BY <1>6 DEF RowsInv, RowsInOrder, OnceADay, StreaksAreComplete
  <1> QED BY <1>8, <1>9, <1>10 DEF AttendanceInv

(* Days are numbers.                                                                               *)
LEMMA DaysAreIntegers == \A d \in Day : d \in Int
  BY ClockAssumption DEF Day

(* What a row of a member holds.                                                                    *)
LEMMA RowsAreAwards ==
  ASSUME AttendanceTypeOK, NEW u \in User, NEW i \in AttendanceRows(u)
  PROVE  /\ attended[u][i] \in Award /\ i \in Nat \ {0}
         /\ attended[u][i].dated \in Int /\ attended[u][i].paid \in Int
         /\ attended[u][i].dated \in DatedDays(attended[u])
  <1>1. attended[u] \in Seq(Award)
    BY DEF AttendanceTypeOK
  <1>2. i \in DOMAIN attended[u] /\ DOMAIN attended[u] = 1 .. Len(attended[u])
    BY <1>1 DEF AttendanceRows
  <1>3. attended[u][i] \in Award /\ i \in Nat \ {0}
    BY <1>1, <1>2
  <1>4. attended[u][i].dated \in Int /\ attended[u][i].paid \in Int
    BY <1>3, DaysAreIntegers DEF Award
  <1> QED BY <1>2, <1>3, <1>4 DEF DatedDays

(* The rows alone: a day that goes on takes nothing back.                                         *)
LEMMA SameRowsKeep ==
  ASSUME AttendanceTypeOK, RowsInv, attended' = attended, day' \in Day, day <= day'
  PROVE  RowsInv'
  <1>1. /\ \A u : AttendanceRows(u)' = AttendanceRows(u)
        /\ \A u : DatedDays(attended[u])' = DatedDays(attended[u])
    BY DEF AttendanceRows, DatedDays
  <1>2. OnceADay' /\ StreaksAreComplete'
    BY <1>1 DEF RowsInv, OnceADay, StreaksAreComplete, AttendanceRows
  <1>3. ASSUME NEW u \in User, NEW i \in AttendanceRows(u)
        PROVE  attended[u][i].paid <= day'
    <2>1. attended[u][i].paid \in Int /\ day \in Int /\ day' \in Int
      BY <1>3, RowsAreAwards, DaysAreIntegers DEF AttendanceTypeOK
    <2>2. attended[u][i].paid <= day
      BY <1>3 DEF RowsInv, RowsInOrder
    <2> QED BY <2>1, <2>2
  <1>4. RowsInOrder'
    BY <1>1, <1>3 DEF RowsInv, RowsInOrder, AttendanceRows
  <1> QED BY <1>2, <1>4 DEF RowsInv

(* What begins no claim, checks none and pays none keeps the invariant.                            *)
LEMMA QuietKeeps ==
  ASSUME AttendanceInv, AttendanceTypeOK', attended' = attended, day' = day,
         \A c \in Claim : claim'[c].step \in {"begun", "checked"} =>
           /\ claim'[c].step = claim[c].step /\ claim'[c].user = claim[c].user
           /\ claim'[c].begun = claim[c].begun,
         ClaimsHaveUser'
  PROVE  AttendanceInv'
  <1>1. day \in Int /\ day <= day' /\ day' \in Day
    <2>1. day \in Day
      BY DEF AttendanceInv, AttendanceTypeOK
    <2>2. day \in Int
      BY <2>1, DaysAreIntegers
    <2> QED BY <2>1, <2>2
  <1>2. RowsInv'
    BY <1>1, SameRowsKeep DEF AttendanceInv
  <1>3. ClaimsAreOfToday' /\ OneClaimHoldsTheRow'
    BY DEF AttendanceInv, ClaimsInv, ClaimsAreOfToday, OneClaimHoldsTheRow
  <1>4. NothingSinceTheCheck'
    <2> SUFFICES ASSUME NEW c \in Claim, claim'[c].step = "checked",
                        NEW i \in AttendanceRows(claim[c].user)
                 PROVE  /\ attended[claim[c].user][i].dated <= claim[c].begun
                        /\ claim[c].begun = day => attended[claim[c].user][i].dated < claim[c].begun
      BY DEF NothingSinceTheCheck, AttendanceRows
    <2>1. claim[c].step = "checked"
      OBVIOUS
    <2> QED BY <2>1 DEF AttendanceInv, ClaimsInv, NothingSinceTheCheck
  <1> QED BY <1>2, <1>3, <1>4 DEF AttendanceInv, ClaimsInv

(* A call that is put in an idle place or made idle.                                                *)
LEMMA FoundIsClaim ==
  ASSUME NEW u \in User, NEW h \in BOOLEAN
  PROVE  /\ Found(u, h) \in ClaimRow /\ Found(u, h).step = "found" /\ Found(u, h).user = u
         /\ Idle \in ClaimRow /\ Idle.step = "idle" /\ Idle.user = NoUser
  <1>1. 1 \in Day
    BY ClockAssumption DEF Day
  <1> QED BY <1>1 DEF Found, Idle, ClaimRow

(* The calls after one that is found or idle takes a place.                                          *)
LEMMA PlacedKeeps ==
  ASSUME AttendanceInv, NEW c \in Claim, NEW r \in ClaimRow, r.step \in {"idle", "found"},
         r.step = "found" => r.user \in User,
         claim' = [claim EXCEPT ![c] = r], attended' = attended, day' = day, daily' \in Daily,
         inVoice' \in [User -> BOOLEAN],
         presence' \in [User -> {"none", "waiting", "due", "claimed"}],
         listener' \in {"waiting", "attached", "given up"}, retries' \in 0 .. MaxAttachRetries
  PROVE  AttendanceInv'
  <1>1. claim \in [Claim -> ClaimRow]
    BY DEF AttendanceInv, AttendanceTypeOK
  <1>2. claim' \in [Claim -> ClaimRow] /\ claim'[c] = r
        /\ \A d \in Claim : d # c => claim'[d] = claim[d]
    BY <1>1
  <1>3. AttendanceTypeOK'
    BY <1>2 DEF AttendanceInv, AttendanceTypeOK
  <1>4. ClaimsHaveUser'
    BY <1>2 DEF AttendanceInv, ClaimsInv, ClaimsHaveUser
  <1>5. \A d \in Claim : claim'[d].step \in {"begun", "checked"} => claim'[d] = claim[d]
    BY <1>2
  <1> QED BY <1>3, <1>4, <1>5, QuietKeeps

(* Leaving the channel clears the mark on the calls of the member, and no more.                        *)
LEMMA ForgottenCalls ==
  ASSUME NEW calls \in [Claim -> ClaimRow], NEW u
  PROVE  /\ Forgotten(calls, u) \in [Claim -> ClaimRow]
         /\ \A c \in Claim : /\ Forgotten(calls, u)[c].step = calls[c].step
                             /\ Forgotten(calls, u)[c].user = calls[c].user
                             /\ Forgotten(calls, u)[c].begun = calls[c].begun
  <1>1. ASSUME NEW r \in ClaimRow
        PROVE  /\ [r EXCEPT !.holds = FALSE] \in ClaimRow
               /\ [r EXCEPT !.holds = FALSE].step = r.step
               /\ [r EXCEPT !.holds = FALSE].user = r.user
               /\ [r EXCEPT !.holds = FALSE].begun = r.begun
    BY DEF ClaimRow
  <1>2. \A c \in Claim : calls[c] \in ClaimRow
    OBVIOUS
  <1>3. \A c \in Claim : Forgotten(calls, u)[c]
          = IF calls[c].user = u THEN [calls[c] EXCEPT !.holds = FALSE] ELSE calls[c]
    BY DEF Forgotten
  <1>4. \A c \in Claim : Forgotten(calls, u)[c] \in ClaimRow
    BY <1>1, <1>2, <1>3
  <1>5. Forgotten(calls, u) \in [Claim -> ClaimRow]
    BY <1>2, <1>4 DEF Forgotten
  <1> QED BY <1>1, <1>2, <1>3, <1>5

(* What a claim marks is a state of a stay. *)
LEMMA MarkedType ==
  ASSUME AttendanceTypeOK, NEW c \in Claim
  PROVE  Marked(c) \in [User -> {"none", "waiting", "due", "claimed"}]
  BY DEF AttendanceTypeOK, Marked

-----------------------------------------------------------------------------
(* The steps that look at the day or write a row.                                                     *)

(* Beginning a claim keeps the invariant. *)
LEMMA BeginClaimKeeps ==
  ASSUME AttendanceInv, NEW c \in Claim, BeginClaim(c)
  PROVE  AttendanceInv'
  <1>1. claim \in [Claim -> ClaimRow] /\ day \in Day /\ claim[c].user \in User
    BY DEF AttendanceInv, AttendanceTypeOK, ClaimsInv, ClaimsHaveUser, BeginClaim
  <1>2. day \in Int /\ day <= day /\ day <= day + 1
    BY <1>1, DaysAreIntegers
  <1>3. /\ claim' \in [Claim -> ClaimRow] /\ claim'[c].step = "begun" /\ claim'[c].begun = day
        /\ claim'[c].user = claim[c].user
        /\ \A d \in Claim : d # c => claim'[d] = claim[d]
    BY <1>1 DEF BeginClaim, ClaimRow
  <1>4. UNCHANGED <<day, daily, attended, voiceVars>>
    BY DEF BeginClaim
  <1>5. AttendanceTypeOK'
    BY <1>3, <1>4 DEF AttendanceInv, AttendanceTypeOK, voiceVars
  <1>6. RowsInv'
    BY <1>1, <1>2, <1>4, SameRowsKeep DEF AttendanceInv
  <1>7. ClaimsAreOfToday'
    BY <1>2, <1>3, <1>4 DEF AttendanceInv, ClaimsInv, ClaimsAreOfToday
  <1>8. ClaimsHaveUser'
    BY <1>1, <1>3 DEF AttendanceInv, ClaimsInv, ClaimsHaveUser
  <1>9. \A d \in Claim : claim'[d].step = "checked" => claim'[d] = claim[d]
    BY <1>3
  <1>10. OneClaimHoldsTheRow' /\ NothingSinceTheCheck'
    BY <1>4, <1>9 DEF AttendanceInv, ClaimsInv, OneClaimHoldsTheRow, NothingSinceTheCheck,
                      AttendanceRows
  <1> QED BY <1>5, <1>6, <1>7, <1>8, <1>10 DEF AttendanceInv, ClaimsInv

(* A claim that has found no row of today holds the lock alone, and what it found is so.               *)
LEMMA CheckedKeeps ==
  ASSUME AttendanceInv, NEW c \in Claim, claim[c].step = "begun", ~ RowLocked(claim[c].user),
         ~ AttendedSince(claim[c].user, day), claim' = [claim EXCEPT ![c].step = "checked"],
         UNCHANGED <<day, daily, attended, inVoice, presence, listener, retries>>
  PROVE  AttendanceInv'
  <1> DEFINE u == claim[c].user
  <1>1. claim \in [Claim -> ClaimRow] /\ day \in Day /\ u \in User /\ claim[c].begun \in Day
    BY DEF AttendanceInv, AttendanceTypeOK, ClaimsInv, ClaimsHaveUser, ClaimRow
  <1>2. day \in Int /\ claim[c].begun \in Int /\ day <= day
    BY <1>1, DaysAreIntegers
  <1>3. /\ claim' \in [Claim -> ClaimRow] /\ claim'[c].step = "checked"
        /\ claim'[c].begun = claim[c].begun /\ claim'[c].user = u
        /\ \A d \in Claim : d # c => claim'[d] = claim[d]
    BY <1>1 DEF ClaimRow
  <1>4. AttendanceTypeOK'
    BY <1>3 DEF AttendanceInv, AttendanceTypeOK
  <1>5. RowsInv'
    BY <1>1, <1>2, SameRowsKeep DEF AttendanceInv
  <1>6. ClaimsAreOfToday' /\ ClaimsHaveUser'
    BY <1>1, <1>3 DEF AttendanceInv, ClaimsInv, ClaimsAreOfToday, ClaimsHaveUser
  <1>7. \A d \in Claim : claim[d].step = "checked" => claim[d].user # u
    BY DEF RowLocked
  <1>8. OneClaimHoldsTheRow'
    BY <1>3, <1>7 DEF AttendanceInv, ClaimsInv, OneClaimHoldsTheRow
  <1>9. ASSUME NEW d \in Claim, claim'[d].step = "checked", NEW i \in AttendanceRows(claim'[d].user)
        PROVE  /\ attended[claim'[d].user][i].dated <= claim'[d].begun
               /\ claim'[d].begun = day => attended[claim'[d].user][i].dated < claim'[d].begun
    <2>1. CASE d = c
      <3>1. i \in AttendanceRows(u)
        BY <1>3, <1>9, <2>1
      <3>2. attended[u][i].dated \in Int
        BY <1>1, <3>1, RowsAreAwards DEF AttendanceInv
      <3>3. ~ (attended[u][i].dated >= day)
        BY <3>1 DEF AttendedSince, AttendanceRows
      <3>4. claim[c].begun <= day /\ day <= claim[c].begun + 1
        BY DEF AttendanceInv, ClaimsInv, ClaimsAreOfToday
      <3>5. attended[u][i].dated <= claim[c].begun
            /\ (claim[c].begun = day => attended[u][i].dated < claim[c].begun)
        BY <1>2, <3>2, <3>3, <3>4
      <3> QED BY <1>3, <2>1, <3>5
    <2>2. CASE d # c
      BY <1>3, <1>9, <2>2 DEF AttendanceInv, ClaimsInv, NothingSinceTheCheck
    <2> QED BY <2>1, <2>2
  <1>10. NothingSinceTheCheck'
    BY <1>9 DEF NothingSinceTheCheck, AttendanceRows
  <1> QED BY <1>4, <1>5, <1>6, <1>8, <1>10 DEF AttendanceInv, ClaimsInv

(* Every open transaction has begun today when the clock strikes midnight.                              *)
LEMMA MidnightKeeps ==
  ASSUME AttendanceInv, Midnight
  PROVE  AttendanceInv'
  <1>1. /\ day \in Day /\ day < LastDay /\ day' = day + 1
        /\ UNCHANGED <<daily, attended, claim, voiceVars>>
    BY DEF AttendanceInv, AttendanceTypeOK, Midnight
  <1>2. day \in Int /\ day' \in Day /\ day <= day'
    BY <1>1, ClockAssumption DEF Day
  <1>3. AttendanceTypeOK'
    BY <1>1, <1>2 DEF AttendanceInv, AttendanceTypeOK, voiceVars
  <1>4. RowsInv'
    BY <1>1, <1>2, SameRowsKeep DEF AttendanceInv
  <1>5. \A c \in Claim : claim[c].step \in {"begun", "checked"} => claim[c].begun = day
    BY DEF Midnight
  <1>6. \A c \in Claim : claim[c].step \in {"begun", "checked"} => claim[c].begun # day'
    BY <1>1, <1>2, <1>5
  <1>7. day <= day' /\ day' <= day + 1
    BY <1>1, <1>2
  <1>8. ClaimsAreOfToday'
    BY <1>1, <1>5, <1>7 DEF ClaimsAreOfToday
  <1>9. ClaimsHaveUser' /\ OneClaimHoldsTheRow'
    BY <1>1 DEF AttendanceInv, ClaimsInv, ClaimsHaveUser, OneClaimHoldsTheRow
  <1>10. NothingSinceTheCheck'
    BY <1>1, <1>6 DEF AttendanceInv, ClaimsInv, NothingSinceTheCheck, AttendanceRows
  <1> QED BY <1>3, <1>4, <1>8, <1>9, <1>10 DEF AttendanceInv, ClaimsInv

(* Looking for today's row keeps it. *)
LEMMA CheckTodayKeeps ==
  ASSUME AttendanceInv, NEW c \in Claim, CheckToday(c)
  PROVE  AttendanceInv'
  <1>1. AttendanceTypeOK
    BY DEF AttendanceInv
  <1>2. CASE claim' = [claim EXCEPT ![c] = Idle] /\ presence' = Marked(c)
    <2>1. UNCHANGED <<day, daily, attended, inVoice, listener, retries>>
      BY DEF CheckToday
    <2>2. presence' \in [User -> {"none", "waiting", "due", "claimed"}]
      BY <1>1, <1>2, MarkedType
    <2>3. Idle \in ClaimRow /\ Idle.step = "idle"
      BY ClockAssumption DEF Idle, ClaimRow, Day
    <2> QED BY <1>1, <1>2, <2>1, <2>2, <2>3, PlacedKeeps DEF AttendanceTypeOK
  <1>3. CASE ~ AttendedSince(claim[c].user, day) /\ UNCHANGED presence
             /\ claim' = [claim EXCEPT ![c].step = "checked"]
    BY <1>3, CheckedKeeps DEF CheckToday
  <1> QED BY <1>2, <1>3 DEF CheckToday

(* The days that are dated after an award.                                                               *)
LEMMA AwardedDays ==
  ASSUME NEW rows \in Seq(Award), NEW begun \in Day, NEW today \in Day
  PROVE  /\ DatedDays(Awarded(rows, begun, today)) = DatedDays(rows) \cup {begun}
         /\ DatedDays(Append(rows, [dated |-> begun, paid |-> today, streak |-> 0]))
              = DatedDays(Awarded(rows, begun, today))
  <1> DEFINE more == Append(rows, [dated |-> begun, paid |-> today, streak |-> 0])
             s == StreakDays(more, today)
             n == Len(rows) + 1
             new == Awarded(rows, begun, today)
             row == [dated |-> begun, paid |-> today, streak |-> s]
  <1>1. /\ DOMAIN new = 1 .. n /\ DOMAIN more = 1 .. n /\ DOMAIN rows = 1 .. (n - 1)
        /\ n \in Nat \ {0} /\ new[n] = row /\ more[n].dated = begun
        /\ \A i \in 1 .. (n - 1) : new[i] = rows[i] /\ more[i] = rows[i]
    BY AwardedRows
  <1>2. row.dated = begun
    OBVIOUS
  <1> HIDE DEF more, s, n, new, row
  <1>3. new[n].dated = begun
    BY <1>1, <1>2
  <1>4. 1 .. n = (1 .. (n - 1)) \cup {n}
    BY <1>1
  <1>5. DatedDays(new) = DatedDays(rows) \cup {begun}
    BY <1>1, <1>3, <1>4 DEF DatedDays
  <1>6. DatedDays(more) = DatedDays(rows) \cup {begun}
    BY <1>1, <1>4 DEF DatedDays
  <1> QED BY <1>5, <1>6 DEF more, new

(* An award, seen from the rows: one is added, dated when the claim began and paid today; no row   *)
(* before it is dated later, nor on the same day if the claim began today; and a streak that earns  *)
(* a bonus ends today, when the claim began.                                                         *)
LEMMA AwardIsLast ==
  ASSUME AttendanceInv, NEW c \in Claim, Pay(c)
  PROVE  \E s \in 0 .. Window, n \in Nat \ {0}, new \in Seq(Award) :
           /\ attended' = [attended EXCEPT ![claim[c].user] = new]
           /\ DOMAIN new = 1 .. n /\ DOMAIN attended[claim[c].user] = 1 .. (n - 1)
           /\ \A i \in 1 .. (n - 1) : new[i] = attended[claim[c].user][i]
           /\ new[n].dated = claim[c].begun /\ new[n].paid = day /\ new[n].streak = s
           /\ DatedDays(new) = DatedDays(attended[claim[c].user]) \cup {claim[c].begun}
           /\ s \in Milestone => /\ s > 0
                                 /\ claim[c].begun = day
                                 /\ (day - s + 1) .. day \subseteq DatedDays(new)
                                 /\ day - s \notin DatedDays(new)
  <1> DEFINE u == claim[c].user
             begun == claim[c].begun
             rows == attended[u]
             more == Append(rows, [dated |-> begun, paid |-> day, streak |-> 0])
             s == StreakDays(more, day)
             n == Len(rows) + 1
             new == Awarded(rows, begun, day)
  <1>1. claim[c] \in ClaimRow /\ claim[c].step = "checked" /\ day \in Day /\ u \in User
    BY DEF AttendanceInv, AttendanceTypeOK, Pay, ClaimsInv, ClaimsHaveUser
  <1>2. begun \in Day /\ rows \in Seq(Award)
    BY <1>1 DEF AttendanceInv, AttendanceTypeOK, ClaimRow
  <1>3. begun \in Int /\ day \in Int
    BY <1>1, <1>2, DaysAreIntegers
  <1>4. attended' = [attended EXCEPT ![u] = new]
    BY DEF Pay, Awarded
  <1>5. /\ new \in Seq(Award) /\ DOMAIN new = 1 .. n /\ DOMAIN rows = 1 .. (n - 1)
        /\ n \in Nat \ {0}
        /\ new[n] = [dated |-> begun, paid |-> day, streak |-> s]
        /\ \A i \in 1 .. (n - 1) : new[i] = rows[i]
    BY <1>1, <1>2, AwardedRows
  <1>6. DatedDays(new) = DatedDays(rows) \cup {begun} /\ DatedDays(more) = DatedDays(new)
    BY <1>1, <1>2, AwardedDays
  <1>7. s \in 0 .. Window /\ (day - s + 1) .. day \subseteq DatedDays(more)
    BY <1>3, StreakIsLongest
  <1>8. s \in Milestone => /\ s \in Nat \ {0}
                           /\ day \in DatedDays(more)
                           /\ day - s \notin DatedDays(more)
    BY <1>3, MilestoneStreak
  <1>9. /\ begun <= day
        /\ \A i \in DOMAIN rows : rows[i].dated <= begun
    BY <1>1 DEF AttendanceInv, ClaimsInv, ClaimsAreOfToday, NothingSinceTheCheck, AttendanceRows
  <1>10. \A i \in DOMAIN rows : rows[i].dated \in Int
    BY <1>1, RowsAreAwards DEF AttendanceInv, AttendanceRows
  <1>11. day \in DatedDays(rows) => begun = day
    <2> SUFFICES ASSUME NEW i \in DOMAIN rows, rows[i].dated = day PROVE begun = day
      BY DEF DatedDays
    <2>1. day <= begun
      BY <1>9
    <2> QED BY <1>3, <1>9, <2>1
  <1>12. PICK N, S, R, T : N = n /\ S = s /\ R = new /\ T = rows
    OBVIOUS
  <1>13. R[N].dated = begun /\ R[N].paid = day /\ R[N].streak = S
    BY <1>5, <1>12
  <1> HIDE DEF more, s, n, new, rows
  <1>14. S \in Milestone => /\ S > 0 /\ begun = day
                            /\ (day - S + 1) .. day \subseteq DatedDays(R)
                            /\ day - S \notin DatedDays(R)
    BY <1>6, <1>7, <1>8, <1>11, <1>12
  <1>15. /\ S \in 0 .. Window /\ N \in Nat \ {0} /\ R \in Seq(Award)
         /\ attended' = [attended EXCEPT ![u] = R]
         /\ DOMAIN R = 1 .. N /\ DOMAIN T = 1 .. (N - 1)
         /\ \A i \in 1 .. (N - 1) : R[i] = T[i]
         /\ DatedDays(R) = DatedDays(T) \cup {begun}
    BY <1>4, <1>5, <1>6, <1>7, <1>12
  <1>16. T = attended[u]
    BY <1>12 DEF rows
  <1> QED BY <1>13, <1>14, <1>15, <1>16

(* Paying the day, and the milestone it completes, keeps it. *)
LEMMA PayKeeps ==
  ASSUME AttendanceInv, NEW c \in Claim, Pay(c)
  PROVE  AttendanceInv'
  <1> DEFINE u == claim[c].user
             begun == claim[c].begun
  <1>1. /\ attended \in [User -> Seq(Award)] /\ claim \in [Claim -> ClaimRow]
        /\ claim[c].step = "checked" /\ day \in Day /\ u \in User
    BY DEF AttendanceInv, AttendanceTypeOK, Pay, ClaimsInv, ClaimsHaveUser
  <1>2. begun \in Int /\ day \in Int
    BY <1>1, DaysAreIntegers DEF ClaimRow
  <1>3. begun <= day /\ \A i \in AttendanceRows(u) : attended[u][i].dated <= begun
                                               /\ (begun = day => attended[u][i].dated < begun)
    BY <1>1 DEF AttendanceInv, ClaimsInv, ClaimsAreOfToday, NothingSinceTheCheck
  <1>4. PICK s \in 0 .. Window, n \in Nat \ {0}, new \in Seq(Award) :
          /\ attended' = [attended EXCEPT ![u] = new]
          /\ DOMAIN new = 1 .. n /\ DOMAIN attended[u] = 1 .. (n - 1)
          /\ \A i \in 1 .. (n - 1) : new[i] = attended[u][i]
          /\ new[n].dated = begun /\ new[n].paid = day /\ new[n].streak = s
          /\ DatedDays(new) = DatedDays(attended[u]) \cup {begun}
          /\ s \in Milestone => /\ s > 0
                                /\ begun = day
                                /\ (day - s + 1) .. day \subseteq DatedDays(new)
                                /\ day - s \notin DatedDays(new)
    BY AwardIsLast
  <1>5. /\ claim' = [claim EXCEPT ![c] = Idle] /\ presence' = Marked(c)
        /\ UNCHANGED <<day, daily, inVoice, listener, retries>>
    BY DEF Pay
  <1>6. Idle \in ClaimRow /\ Idle.step = "idle"
    BY ClockAssumption DEF Idle, ClaimRow, Day
  <1>7. /\ claim' \in [Claim -> ClaimRow] /\ claim'[c] = Idle
        /\ \A d \in Claim : d # c => claim'[d] = claim[d]
    BY <1>1, <1>5, <1>6
  <1>8. /\ attended' \in [User -> Seq(Award)] /\ attended'[u] = new
        /\ \A v \in User : v # u => attended'[v] = attended[v]
    BY <1>1, <1>4
  <1>9. AttendanceTypeOK'
    BY <1>5, <1>7, <1>8, MarkedType DEF AttendanceInv, AttendanceTypeOK
  <1>10. ClaimsAreOfToday' /\ ClaimsHaveUser' /\ OneClaimHoldsTheRow'
    BY <1>5, <1>6, <1>7 DEF AttendanceInv, ClaimsInv, ClaimsAreOfToday, ClaimsHaveUser,
                            OneClaimHoldsTheRow
  <1>11. NothingSinceTheCheck'
    <2> SUFFICES ASSUME NEW d \in Claim, claim'[d].step = "checked",
                        NEW i \in DOMAIN attended'[claim'[d].user]
                 PROVE  /\ attended'[claim'[d].user][i].dated <= claim'[d].begun
                        /\ claim'[d].begun = day'
                             => attended'[claim'[d].user][i].dated < claim'[d].begun
      BY DEF NothingSinceTheCheck, AttendanceRows
    <2>1. d # c /\ claim'[d] = claim[d]
      BY <1>6, <1>7
    <2>2. claim[d].user \in User /\ claim[d].user # u
      BY <1>1, <2>1 DEF AttendanceInv, ClaimsInv, ClaimsHaveUser, OneClaimHoldsTheRow
    <2>3. attended'[claim[d].user] = attended[claim[d].user]
      BY <1>8, <2>2
    <2>4. i \in AttendanceRows(claim[d].user)
      BY <2>1, <2>3 DEF AttendanceRows
    <2> QED BY <1>5, <2>1, <2>3, <2>4 DEF AttendanceInv, ClaimsInv, NothingSinceTheCheck
  (* The rows of the user: one more, after the others. *)
  <1>12. \A i \in 1 .. n : i = n \/ (i \in AttendanceRows(u) /\ new[i] = attended[u][i] /\ i < n)
    BY <1>4 DEF AttendanceRows
  <1>13. \A i \in AttendanceRows(u) :
           /\ attended[u][i].dated <= attended[u][i].paid /\ attended[u][i].paid <= day
           /\ attended[u][i].dated \in Int /\ attended[u][i].paid \in Int
    BY RowsAreAwards, <1>1 DEF AttendanceInv, RowsInv, RowsInOrder
  <1>14. RowsInOrder'
    <2> SUFFICES ASSUME NEW v \in User, NEW i \in AttendanceRows(v)', NEW j \in AttendanceRows(v)'
                 PROVE  /\ attended'[v][i].dated <= attended'[v][i].paid
                        /\ attended'[v][i].paid <= day'
                        /\ i <= j => attended'[v][i].dated <= attended'[v][j].dated
      BY DEF RowsInOrder
    <2>1. CASE v # u
      <3>1. attended'[v] = attended[v] /\ i \in AttendanceRows(v) /\ j \in AttendanceRows(v)
        BY <1>8, <2>1 DEF AttendanceRows
      <3> QED BY <1>5, <3>1 DEF AttendanceInv, RowsInv, RowsInOrder
    <2>2. CASE v = u
      <3>1. i \in 1 .. n /\ j \in 1 .. n /\ attended'[v] = new
        BY <1>4, <1>8, <2>2 DEF AttendanceRows
      <3>2. new[i].dated <= new[i].paid /\ new[i].paid <= day
        BY <1>2, <1>3, <1>4, <1>12, <1>13, <3>1
      <3>3. ASSUME i <= j PROVE new[i].dated <= new[j].dated
        <4>1. CASE j = n
          BY <1>2, <1>3, <1>4, <1>12, <3>1, <4>1
        <4>2. CASE j # n
          <5>1. i # n /\ i \in AttendanceRows(u) /\ j \in AttendanceRows(u)
            BY <1>4, <1>12, <3>1, <3>3, <4>2
          <5>2. attended[u][i].dated <= attended[u][j].dated
            BY <1>1, <3>3, <5>1 DEF AttendanceInv, RowsInv, RowsInOrder
          <5> QED BY <1>12, <3>1, <4>2, <5>1, <5>2
        <4> QED BY <4>1, <4>2
      <3> QED BY <1>5, <3>1, <3>2, <3>3
    <2> QED BY <2>1, <2>2
  <1>15. OnceADay'
    <2> SUFFICES ASSUME NEW v \in User, NEW i \in AttendanceRows(v)', NEW j \in AttendanceRows(v)',
                        i # j, attended'[v][i].dated = attended'[v][j].dated,
                        attended'[v][i].paid = attended'[v][i].dated,
                        attended'[v][j].paid = attended'[v][j].dated
                 PROVE  FALSE
      BY DEF OnceADay
    <2>1. CASE v # u
      <3>1. attended'[v] = attended[v] /\ i \in AttendanceRows(v) /\ j \in AttendanceRows(v)
        BY <1>8, <2>1 DEF AttendanceRows
      <3> QED BY <3>1 DEF AttendanceInv, RowsInv, OnceADay
    <2>2. CASE v = u
      <3>1. i \in 1 .. n /\ j \in 1 .. n /\ attended'[v] = new
        BY <1>4, <1>8, <2>2 DEF AttendanceRows
      <3>2. CASE i # n /\ j # n
        <4>1. i \in AttendanceRows(u) /\ new[i] = attended[u][i]
              /\ j \in AttendanceRows(u) /\ new[j] = attended[u][j]
          BY <1>12, <3>1, <3>2
        <4> QED BY <1>1, <3>1, <4>1 DEF AttendanceInv, RowsInv, OnceADay
      <3>3. ASSUME NEW k \in 1 .. n, k # n, new[k].dated = new[n].dated, new[n].paid = new[n].dated
            PROVE  FALSE
        <4>1. k \in AttendanceRows(u) /\ new[k] = attended[u][k]
          BY <1>12, <3>3
        <4>2. begun = day
          BY <1>4, <3>3
        <4>3. attended[u][k].dated < begun
          BY <1>3, <4>1, <4>2
        <4>4. attended[u][k].dated \in Int
          BY <1>13, <4>1
        <4> QED BY <1>2, <1>4, <3>3, <4>1, <4>3, <4>4
      <3> QED BY <3>1, <3>2, <3>3
    <2> QED BY <2>1, <2>2
  <1>16. StreaksAreComplete'
    <2> SUFFICES ASSUME NEW v \in User, NEW j \in AttendanceRows(v)',
                        attended'[v][j].streak \in Milestone
                 PROVE  /\ attended'[v][j].dated = attended'[v][j].paid
                        /\ (attended'[v][j].dated - attended'[v][j].streak + 1) .. attended'[v][j].dated
                             \subseteq {attended'[v][i].dated : i \in 1 .. j}
                        /\ attended'[v][j].dated - attended'[v][j].streak
                             \notin DatedDays(attended'[v])
      BY DEF StreaksAreComplete, DatedDays
    <2>1. CASE v # u
      <3>1. attended'[v] = attended[v] /\ j \in AttendanceRows(v)
        BY <1>8, <2>1 DEF AttendanceRows
      <3> QED BY <3>1 DEF AttendanceInv, RowsInv, StreaksAreComplete
    <2>2. CASE v = u
      <3>1. j \in 1 .. n /\ attended'[v] = new
        BY <1>4, <1>8, <2>2 DEF AttendanceRows
      <3>2. CASE j = n
        <4>1. s > 0 /\ begun = day /\ (day - s + 1) .. day \subseteq DatedDays(new)
              /\ day - s \notin DatedDays(new)
          BY <1>4, <3>1, <3>2
        <4>2. DatedDays(new) = {new[i].dated : i \in 1 .. n}
          BY <1>4 DEF DatedDays
        <4> QED BY <1>4, <3>1, <3>2, <4>1, <4>2
      <3>3. CASE j # n
        <4>1. j \in AttendanceRows(u) /\ new[j] = attended[u][j] /\ j \in 1 .. (n - 1)
          BY <1>12, <1>4, <3>1, <3>3
        <4>2. attended[u][j].streak \in Milestone
          BY <3>1, <4>1
        <4>3. /\ attended[u][j].dated = attended[u][j].paid
              /\ (attended[u][j].dated - attended[u][j].streak + 1) .. attended[u][j].dated
                   \subseteq {attended[u][i].dated : i \in 1 .. j}
              /\ attended[u][j].dated - attended[u][j].streak \notin DatedDays(attended[u])
          BY <1>1, <4>1, <4>2 DEF AttendanceInv, RowsInv, StreaksAreComplete
        <4>4. \A i \in 1 .. j : new[i] = attended[u][i]
          BY <1>4, <4>1
        <4>5. {new[i].dated : i \in 1 .. j} = {attended[u][i].dated : i \in 1 .. j}
          BY <4>4
        <4>6. attended[u][j].streak \in Nat \ {0}
          BY <4>2, MilestoneAssumption
        <4>7. attended[u][j].dated \in Int /\ attended[u][j].dated <= begun
          BY <1>3, <1>13, <4>1
        <4>8. attended[u][j].dated - attended[u][j].streak # begun
          BY <1>2, <4>6, <4>7
        <4>9. attended[u][j].dated - attended[u][j].streak \notin DatedDays(new)
          BY <1>4, <4>3, <4>8
        <4>10. /\ new[j].dated = new[j].paid
               /\ (new[j].dated - new[j].streak + 1) .. new[j].dated
                    \subseteq {new[i].dated : i \in 1 .. j}
               /\ new[j].dated - new[j].streak \notin DatedDays(new)
          BY <4>1, <4>3, <4>5, <4>9
        <4> QED BY <3>1, <4>10
      <3> QED BY <3>2, <3>3
    <2> QED BY <2>1, <2>2
  <1> QED BY <1>9, <1>10, <1>11, <1>14, <1>15, <1>16 DEF AttendanceInv, ClaimsInv, RowsInv

(* Every step of members, calls, the voice service, the clock and the admin keeps the invariant.          *)
LEMMA AttendanceNextInv == AttendanceInv /\ [Next]_vars => AttendanceInv'
  <1> SUFFICES ASSUME AttendanceInv, [Next]_vars PROVE AttendanceInv'
    OBVIOUS
  <1> DEFINE Presence == [User -> {"none", "waiting", "due", "claimed"}]
  <1>0. /\ AttendanceTypeOK /\ day \in Day /\ daily \in Daily /\ claim \in [Claim -> ClaimRow]
        /\ attended \in [User -> Seq(Award)]
        /\ inVoice \in [User -> BOOLEAN] /\ presence \in Presence
        /\ listener \in {"waiting", "attached", "given up"} /\ retries \in 0 .. MaxAttachRetries
        /\ ClaimsHaveUser /\ \A u \in Attender : u \in User
    BY AttenderAssumption DEF AttendanceInv, AttendanceTypeOK, ClaimsInv
  <1>1. ASSUME UNCHANGED <<day, attended, claim>>, daily' \in Daily,
               inVoice' \in [User -> BOOLEAN], presence' \in Presence,
               listener' \in {"waiting", "attached", "given up"}, retries' \in 0 .. MaxAttachRetries
        PROVE  AttendanceInv'
    <2>1. AttendanceTypeOK'
      BY <1>0, <1>1 DEF AttendanceTypeOK
    <2>2. ClaimsHaveUser'
      BY <1>0, <1>1 DEF ClaimsHaveUser
    <2> QED BY <1>1, <2>1, <2>2, QuietKeeps
  <1>2. CASE OtherTransaction
    BY <1>0, <1>1, <1>2 DEF OtherTransaction, attendanceVars
  <1>3. CASE Midnight
    BY <1>3, MidnightKeeps
  <1>4. ASSUME NEW n \in Daily, SetDaily(n) PROVE AttendanceInv'
    BY <1>0, <1>1, <1>4 DEF SetDaily, voiceVars
  <1>5. ASSUME NEW c \in Claim, NEW u \in Attender, SlashClaim(c, u) \/ Poll(c, u)
        PROVE  AttendanceInv'
    <2>1. PICK h \in BOOLEAN : claim' = [claim EXCEPT ![c] = Found(u, h)]
      BY <1>5 DEF SlashClaim, Poll
    <2>2. UNCHANGED <<day, daily, attended, voiceVars>>
      BY <1>5 DEF SlashClaim, Poll
    <2>3. u \in User
      BY <1>0
    <2>4. Found(u, h) \in ClaimRow /\ Found(u, h).step = "found" /\ Found(u, h).user \in User
      BY <2>3, FoundIsClaim
    <2> QED BY <1>0, <2>1, <2>2, <2>4, PlacedKeeps DEF voiceVars
  <1>6. ASSUME NEW u \in User,
               UNCHANGED <<day, daily, attended, listener, retries>>,
               inVoice' = [inVoice EXCEPT ![u] = FALSE], presence' = [presence EXCEPT ![u] = "none"],
               \/ claim' = Forgotten(claim, u)
               \/ \E c \in Claim : claim' = [Forgotten(claim, u) EXCEPT ![c] = Found(u, FALSE)]
        PROVE  AttendanceInv'
    <2> DEFINE f == Forgotten(claim, u)
               r == Found(u, FALSE)
    <2>1. /\ f \in [Claim -> ClaimRow]
          /\ \A c \in Claim : /\ f[c].step = claim[c].step
                              /\ f[c].user = claim[c].user
                              /\ f[c].begun = claim[c].begun
      BY <1>0, ForgottenCalls
    <2>2. r \in ClaimRow /\ r.step = "found" /\ r.user = u
      BY <1>0, FoundIsClaim
    <2> HIDE DEF f, r
    <2>3. claim' = f \/ \E c \in Claim : claim' = [f EXCEPT ![c] = r]
      BY <1>6 DEF f, r
    <2>4. /\ claim' \in [Claim -> ClaimRow]
          /\ \A c \in Claim : claim'[c] = f[c] \/ claim'[c] = r
      BY <2>1, <2>2, <2>3
    <2>5. inVoice' \in [User -> BOOLEAN] /\ presence' \in Presence
      BY <1>0, <1>6
    <2>6. AttendanceTypeOK'
      BY <1>0, <1>6, <2>4, <2>5 DEF AttendanceTypeOK
    <2>7. ClaimsHaveUser'
      BY <1>0, <2>1, <2>2, <2>4 DEF ClaimsHaveUser
    <2>8. \A c \in Claim : claim'[c].step \in {"begun", "checked"} =>
            /\ claim'[c].step = claim[c].step /\ claim'[c].user = claim[c].user
            /\ claim'[c].begun = claim[c].begun
      BY <2>1, <2>2, <2>4
    <2> QED BY <1>6, <2>6, <2>7, <2>8, QuietKeeps
  <1>7. ASSUME NEW c \in Claim, NEW u \in Attender, LeaveDue(c, u) PROVE AttendanceInv'
    BY <1>0, <1>6, <1>7 DEF LeaveDue
  <1>8. ASSUME NEW u \in Attender, VoiceLeave(u) PROVE AttendanceInv'
    BY <1>0, <1>6, <1>8 DEF VoiceLeave
  <1>9. ASSUME NEW c \in Claim, ClaimFails(c) PROVE AttendanceInv'
    <2>1. Idle \in ClaimRow /\ Idle.step = "idle"
      BY ClockAssumption DEF Idle, ClaimRow, Day
    <2> QED BY <1>0, <1>9, <2>1, PlacedKeeps DEF ClaimFails, voiceVars
  <1>10. ASSUME NEW c \in Claim, ClaimStep(c) PROVE AttendanceInv'
    BY <1>9, <1>10, BeginClaimKeeps, CheckTodayKeeps, PayKeeps DEF ClaimStep
  <1>11. ASSUME NEW u \in Attender, VoiceJoin(u) \/ StayedLongEnough(u) PROVE AttendanceInv'
    BY <1>0, <1>1, <1>11 DEF VoiceJoin, StayedLongEnough
  <1>12. CASE Attach \/ RetryAttach \/ GiveUpAttach
    <2>1. MaxAttachRetries \in Nat /\ retries \in 0 .. MaxAttachRetries
      BY <1>0, ClockAssumption
    <2>2. retries' \in 0 .. MaxAttachRetries
      <3>1. retries' = retries \/ (retries < MaxAttachRetries /\ retries' = retries + 1)
        BY <1>12 DEF Attach, RetryAttach, GiveUpAttach
      <3> QED BY <2>1, <3>1
    <2>3. listener' \in {"waiting", "attached", "given up"}
      BY <1>0, <1>12 DEF Attach, RetryAttach, GiveUpAttach
    <2>4. UNCHANGED <<day, daily, attended, claim, inVoice, presence>>
      BY <1>12 DEF Attach, RetryAttach, GiveUpAttach
    <2> QED BY <1>0, <1>1, <2>2, <2>3, <2>4
  <1>13. CASE Restart
    <2>1. Idle \in ClaimRow /\ Idle.step = "idle"
      BY ClockAssumption DEF Idle, ClaimRow, Day
    <2>2. claim' \in [Claim -> ClaimRow] /\ \A c \in Claim : claim'[c].step = "idle"
      BY <1>13, <2>1 DEF Restart
    <2>3. AttendanceTypeOK'
      <3>1. 0 \in 0 .. MaxAttachRetries
        BY ClockAssumption
      <3>2. retries' = 0 /\ listener' = "waiting" /\ presence' \in Presence
        BY <1>13 DEF Restart
      <3>3. UNCHANGED <<day, daily, attended, inVoice>>
        BY <1>13 DEF Restart
      <3> QED BY <1>0, <2>2, <3>1, <3>2, <3>3 DEF AttendanceTypeOK
    <2>4. ClaimsHaveUser'
      BY <2>2 DEF ClaimsHaveUser
    <2> QED BY <1>13, <2>2, <2>3, <2>4, QuietKeeps DEF Restart
  <1>14. CASE UNCHANGED vars
    BY <1>0, <1>1, <1>14 DEF vars, attendanceVars
  <1> QED BY <1>2, <1>3, <1>4, <1>5, <1>7, <1>8, <1>10, <1>11, <1>12, <1>13, <1>14 DEF Next
-----------------------------------------------------------------------------
(* A mint to many is one of the requests the ledger knows.                                                 *)
LEMMA MintIsRequest ==
  ASSUME LedgerTypeOK, NEW pay \in [User -> Nat], MintAll(pay)
  PROVE  AnyMintAll
  <1>1. \A u \in User : balance[u] \in Int /\ pay[u] \in Nat
    BY DEF LedgerTypeOK
  <1>2. \A u \in User : balance'[u] - balance[u] = pay[u]
    BY <1>1 DEF MintAll
  <1>3. pay = [u \in User |-> balance'[u] - balance[u]]
    BY <1>2
  <1> QED BY <1>3 DEF AnyMintAll

(* Each step of attendance is a transaction of the ledger, or leaves it alone.                              *)
LEMMA AttendanceOnLedger ==
  ASSUME LedgerTypeOK, AttendanceInv, [Next]_vars
  PROVE  [LedgerNext]_ledgerVars
  <1>0. \A u \in Attender : u \in User
    BY AttenderAssumption
  <1>1. ASSUME NEW u \in Attender, Member(u) PROVE [LedgerNext]_ledgerVars
    BY <1>0, <1>1 DEF Member, LedgerNext, OneRequest
  <1>2. ASSUME NEW c \in Claim, Pay(c) PROVE LedgerNext
    <2> DEFINE rows == Append(attended[claim[c].user],
                              [dated |-> claim[c].begun, paid |-> day, streak |-> 0])
               bonus == StreakBonus(StreakDays(rows, day))
               pay == [v \in User |-> IF v = claim[c].user THEN daily + bonus ELSE 0]
    <2>1. MintAll(pay)
      BY <1>2 DEF Pay
    <2>2. bonus \in Nat
      BY MilestoneAssumption DEF StreakBonus
    <2>3. daily \in Nat
      BY DailyAssumption DEF AttendanceInv, AttendanceTypeOK
    <2> HIDE DEF bonus
    <2>4. pay \in [User -> Nat]
      BY <2>2, <2>3
    <2> HIDE DEF pay
    <2> QED BY <2>1, <2>4, MintIsRequest DEF LedgerNext
  <1>3. CASE OtherTransaction
    BY <1>3 DEF OtherTransaction, LedgerNext
  <1>4. ASSUME NEW c \in Claim, ClaimStep(c) PROVE [LedgerNext]_ledgerVars
    BY <1>2, <1>4 DEF ClaimStep, BeginClaim, CheckToday, ClaimFails
  <1>5. CASE \E c \in Claim, u \in Attender : SlashClaim(c, u) \/ Poll(c, u) \/ LeaveDue(c, u)
    BY <1>1, <1>5 DEF SlashClaim, Poll, LeaveDue
  <1>6. CASE Midnight \/ \E n \in Daily : SetDaily(n)
    BY <1>6 DEF Midnight, SetDaily
  <1>7. CASE \E u \in Attender : VoiceJoin(u) \/ StayedLongEnough(u) \/ VoiceLeave(u)
    BY <1>7 DEF VoiceJoin, StayedLongEnough, VoiceLeave
  <1>8. CASE Attach \/ RetryAttach \/ GiveUpAttach \/ Restart
    BY <1>8 DEF Attach, RetryAttach, GiveUpAttach, Restart
  <1>9. CASE UNCHANGED vars
    BY <1>9 DEF vars
  <1> QED BY <1>3, <1>4, <1>5, <1>6, <1>7, <1>8, <1>9 DEF Next

(* Every reachable state of attendance satisfies both inductive invariants.                                  *)
THEOREM AttendanceInvariant == Spec => [](LedgerInv /\ AttendanceInv)
  <1>1. Init => LedgerInv /\ AttendanceInv
    BY AttendanceInitInv, LedgerInitInv DEF Init
  <1>2. LedgerInv /\ AttendanceInv /\ [Next]_vars => (LedgerInv /\ AttendanceInv)'
    <2>1. LedgerInv => LedgerTypeOK
      BY DEF LedgerInv
    <2> QED BY <2>1, AttendanceNextInv, AttendanceOnLedger, LedgerNextInv
  <1> QED BY <1>1, <1>2, PTL DEF Spec

(* Whatever claims of a member meet - a command, polls that overlap, the handler of the member's leaving,    *)
(* a restart, midnight between the check and the payment - no two transactions of one day reward the         *)
(* member (attendance-reward.service.ts, claimDaily).                                                        *)
THEOREM RewardedOnceADay == Spec => []OnceADay
  <1>1. AttendanceInv => OnceADay
    BY DEF AttendanceInv, RowsInv
  <1> QED BY <1>1, AttendanceInvariant, PTL

(* A run of days without a gap earns the bonus of each milestone once, however long it grows and whatever    *)
(* the service's window: a later streak of the same length would need a day before it without a row, and     *)
(* a run has none (attendance-reward.service.ts, calculateStreakDays).                                       *)
THEOREM MilestonesEarnedOnce == Spec => []MilestoneOncePerRun
  <1>1. AttendanceInv => MilestoneOncePerRun
    <2> SUFFICES ASSUME AttendanceInv, NEW u \in User,
                        NEW i \in AttendanceRows(u), NEW j \in AttendanceRows(u), i < j,
                        attended[u][i].streak = attended[u][j].streak,
                        attended[u][i].streak \in Milestone,
                        attended[u][i].dated .. attended[u][j].dated \subseteq DatedDays(attended[u])
                 PROVE  FALSE
      BY DEF MilestoneOncePerRun
    <2> DEFINE a == attended[u][i].dated
               b == attended[u][j].dated
               m == attended[u][i].streak
    <2>1. a \in Int /\ b \in Int /\ i \in Nat /\ j \in Nat
      BY RowsAreAwards DEF AttendanceInv
    <2>2. m \in Nat \ {0}
      BY MilestoneAssumption
    <2>3. a <= b
      BY <2>1 DEF AttendanceInv, RowsInv, RowsInOrder
    <2>4. attended[u][i].paid = a /\ attended[u][j].paid = b
      BY DEF AttendanceInv, RowsInv, StreaksAreComplete
    <2>5. a # b
      BY <2>1, <2>4 DEF AttendanceInv, RowsInv, OnceADay
    <2>6. (a - m + 1) .. a \subseteq DatedDays(attended[u])
      <3>1. (a - m + 1) .. a \subseteq {attended[u][k].dated : k \in 1 .. i}
        BY DEF AttendanceInv, RowsInv, StreaksAreComplete
      <3>2. 1 .. i \subseteq DOMAIN attended[u]
        <4>1. attended[u] \in Seq(Award)
          BY DEF AttendanceInv, AttendanceTypeOK
        <4> QED BY <4>1 DEF AttendanceRows
      <3> QED BY <3>1, <3>2 DEF DatedDays
    <2>7. b - m \notin DatedDays(attended[u])
      BY DEF AttendanceInv, RowsInv, StreaksAreComplete
    <2> HIDE DEF a, b, m
    <2>8. a .. b \subseteq DatedDays(attended[u])
      BY DEF a, b
    <2>9. b - m \in (a - m + 1) .. a \/ b - m \in a .. b
      BY <2>1, <2>2, <2>3, <2>5
    <2> QED BY <2>6, <2>7, <2>8, <2>9
  <1> QED BY <1>1, AttendanceInvariant, PTL

(* The voice service marks a stay as paid only when a row of today exists: a claim that failed or was rolled  *)
(* back leaves the stay for the next poll (voice-attendance.service.ts, tryAward).                            *)
THEOREM MarkedStaysArePaid == Spec => StopsOnlyWhenPaid
  <1> DEFINE Paid == \A u \in User :
       presence[u] # "claimed" /\ presence'[u] = "claimed"
         => \E i \in DOMAIN attended'[u] : attended'[u][i].paid = day
  <1>1. AttendanceInv /\ Next => Paid
    <2> SUFFICES ASSUME AttendanceInv, Next, NEW u \in User,
                        presence[u] # "claimed", presence'[u] = "claimed"
                 PROVE  \E i \in DOMAIN attended'[u] : attended'[u][i].paid = day
      OBVIOUS
    <2>0. presence \in [User -> {"none", "waiting", "due", "claimed"}]
      BY DEF AttendanceInv, AttendanceTypeOK
    <2>1. PICK c \in Claim : (CheckToday(c) \/ Pay(c)) /\ presence' # presence
      <3>1. presence' # presence
        OBVIOUS
      <3>2. ~ OtherTransaction /\ ~ Midnight /\ ~ \E n \in Daily : SetDaily(n)
        BY <3>1 DEF OtherTransaction, attendanceVars, Midnight, SetDaily, voiceVars
      <3>3. ~ \E c \in Claim, v \in Attender : SlashClaim(c, v) \/ Poll(c, v)
        BY <3>1 DEF SlashClaim, Poll, voiceVars
      <3>4. ~ \E c \in Claim, v \in Attender : LeaveDue(c, v)
        BY <2>0 DEF LeaveDue
      <3>5. ~ \E v \in Attender : VoiceJoin(v) \/ StayedLongEnough(v) \/ VoiceLeave(v)
        BY <2>0, <3>1 DEF VoiceJoin, StayedLongEnough, VoiceLeave
      <3>6. ~ Attach /\ ~ RetryAttach /\ ~ GiveUpAttach /\ ~ Restart
        BY <3>1 DEF Attach, RetryAttach, GiveUpAttach, Restart
      <3>7. \A c \in Claim : ClaimStep(c) => CheckToday(c) \/ Pay(c)
        BY <3>1 DEF ClaimStep, BeginClaim, ClaimFails, voiceVars
      <3> QED BY <3>1, <3>2, <3>3, <3>4, <3>5, <3>6, <3>7 DEF Next
    <2>2. presence' = Marked(c) /\ u = claim[c].user
      BY <2>0, <2>1 DEF CheckToday, Pay, Marked
    <2>3. CASE CheckToday(c)
      <3>1. AttendedSince(u, day) /\ attended' = attended
        BY <2>1, <2>2, <2>3 DEF CheckToday
      <3>2. PICK i \in DOMAIN attended[u] : attended[u][i].dated >= day
        BY <3>1 DEF AttendedSince
      <3>3. attended[u][i].dated \in Int /\ attended[u][i].paid \in Int
        BY RowsAreAwards DEF AttendanceInv, AttendanceRows
      <3>4. day \in Int
        BY DaysAreIntegers DEF AttendanceInv, AttendanceTypeOK
      <3>5. attended[u][i].dated <= attended[u][i].paid /\ attended[u][i].paid <= day
        BY DEF AttendanceInv, RowsInv, RowsInOrder, AttendanceRows
      <3>6. attended[u][i].paid = day
        BY <3>2, <3>3, <3>4, <3>5
      <3> QED BY <3>1, <3>6
    <2>4. CASE Pay(c)
      <3>1. PICK n \in Nat \ {0}, new \in Seq(Award) :
              attended' = [attended EXCEPT ![u] = new] /\ DOMAIN new = 1 .. n /\ new[n].paid = day
        BY <2>2, <2>4, AwardIsLast
      <3>2. attended'[u] = new
        BY <3>1 DEF AttendanceInv, AttendanceTypeOK
      <3> QED BY <3>1, <3>2
    <2> QED BY <2>1, <2>3, <2>4
  <1>2. AttendanceInv /\ [Next]_vars => [Paid]_vars
    BY <1>1
  <1> QED BY <1>2, AttendanceInvariant, PTL DEF Spec, StopsOnlyWhenPaid

(* Attendance uses the ledger as the ledger's specification says, so cached balances stay the sums of the     *)
(* rows, nobody is overdrawn, and what is issued is accounted for.                                            *)
THEOREM AttendanceKeepsLedger ==
  Spec => LedgerSpec /\ [](BalanceIsLedgerSum /\ NoOverdraft /\ CirculatingSupply)
  <1>1. LedgerInv => LedgerTypeOK /\ BalanceIsLedgerSum /\ NoOverdraft /\ CirculatingSupply
    BY DEF LedgerInv
  <1>2. LedgerInv /\ AttendanceInv /\ [Next]_vars => [LedgerNext]_ledgerVars
    BY <1>1, AttendanceOnLedger
  <1>3. Init => LedgerInit
    BY DEF Init
  <1> QED BY <1>1, <1>2, <1>3, AttendanceInvariant, PTL DEF Spec, LedgerSpec
=============================================================================
