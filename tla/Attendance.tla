----------------------------- MODULE Attendance -----------------------------
(***************************************************************************)
(* Daily attendance and its rewards.                                        *)
(*                                                                         *)
(* discord-bot/attendance-reward.service.ts pays a member once a day, from  *)
(* the /attendance command or because the member stayed in a voice channel  *)
(* (discord-bot/voice-attendance.service.ts), and adds a bonus when the day *)
(* completes 3, 5 or 10 days in a row.  The day is the Korean one.  A claim *)
(* is a transaction: PostgreSQL dates its rows at the transaction's BEGIN,  *)
(* while the service asks its own clock for today after it got the lock of  *)
(* the user's row, and again when it counts the streak.                     *)
(*                                                                         *)
(* The voice service remembers in memory who is in a channel.  A poll every *)
(* minute, and the member's leaving, start the claims of members who have   *)
(* stayed long enough.                                                      *)
(***************************************************************************)
EXTENDS Ledger, Sequences, FiniteSetsExt

CONSTANTS
  Attender,       \* users who use the command or a voice channel
  Claim,          \* calls of claimDaily that may be in progress together
  NoUser,         \* the user of a call that is not in progress
  Daily,          \* values the admin gives DAILY_ATTENDANCE_AMOUNT
  Milestone,      \* lengths of a streak that earn a bonus: 3, 5 and 10
  Bonus,          \* STREAK_N_BONUS of each milestone
  Window,         \* days calculateStreakDays looks back: 11
  MaxAttachRetries, \* CLIENT_ATTACH_MAX_RETRIES
  LastDay         \* bound: the clock stops on this day

ASSUME AttenderAssumption == Attender \subseteq User /\ NoUser \notin User
ASSUME DailyAssumption == Daily \subseteq Nat /\ Daily # {}
ASSUME MilestoneAssumption ==
  /\ Milestone \subseteq Nat \ {0} /\ Bonus \in [Milestone -> Nat]
  /\ Window \in Nat /\ \A m \in Milestone : m < Window
ASSUME ClockAssumption == LastDay \in Nat \ {0} /\ MaxAttachRetries \in Nat

Day == 1 .. LastDay

VARIABLES
  day,        \* the Korean date now
  daily,      \* the configured reward of a day
  attended,   \* the ATTENDANCE rows of a user: the day they are dated, the day
              \* of the award, and the streak that was found (0 if none)
  claim,      \* the calls of claimDaily in progress
  inVoice,    \* the member is in a voice channel
  presence,   \* the entry of the voice service's map for a user
  listener,   \* of the voice service: "waiting" for the Discord client,
              \* "attached" with its poll running, or "given up"
  retries     \* attachRetries

attendanceVars == <<day, daily, attended, claim, inVoice, presence, listener, retries>>
voiceVars == <<inVoice, presence, listener, retries>>
vars == <<ledgerVars, attendanceVars>>

Award == [dated : Day, paid : Day, streak : 0 .. Window]

(* holds: the call was made for the presence entry that is still in the map,   *)
(* and marks that entry when it ends.                                          *)
Idle == [step |-> "idle", user |-> NoUser, begun |-> 1, holds |-> FALSE]
ClaimRow ==
  [step : {"idle", "found", "begun", "checked"}, user : User \cup {NoUser},
   begun : Day, holds : BOOLEAN]

AttendanceTypeOK ==
  /\ day \in Day
  /\ daily \in Daily
  /\ attended \in [User -> Seq(Award)]
  /\ claim \in [Claim -> ClaimRow]
  /\ inVoice \in [User -> BOOLEAN]
  /\ presence \in [User -> {"none", "waiting", "due", "claimed"}]
  /\ listener \in {"waiting", "attached", "given up"}
  /\ retries \in 0 .. MaxAttachRetries

Init ==
  /\ LedgerInit
  /\ day = 1
  /\ daily \in Daily
  /\ attended = [u \in User |-> << >>]
  /\ claim = [c \in Claim |-> Idle]
  /\ inVoice = [u \in User |-> FALSE]
  /\ presence = [u \in User |-> "none"]
  /\ listener = "waiting"
  /\ retries = 0

-----------------------------------------------------------------------------
(* The claim of a day.                                                      *)

DatedDays(rows) == {rows[i].dated : i \in DOMAIN rows}

(* Mutant: the service looks back no further than the longest milestone.       *)
StreakDaysShort(rows, today) ==
  Max({n \in 0 .. Window - 1 : (today - n + 1) .. today \subseteq DatedDays(rows)})

(* The largest number of consecutive days up to today on which a row is dated, *)
(* as far back as the service looks.                                           *)
StreakDays(rows, today) ==
  Max({n \in 0 .. Window : (today - n + 1) .. today \subseteq DatedDays(rows)})

StreakBonus(streak) == IF streak \in Milestone THEN Bonus[streak] ELSE 0

(* The lock of the user's row, held from the check to the commit. *)
RowLocked(u) == \E c \in Claim : claim[c].user = u /\ claim[c].step = "checked"

AttendedSince(u, today) == \E i \in DOMAIN attended[u] : attended[u][i].dated >= today

(* Mutant: only a claim that paid is remembered, not one that found the day paid. *)
MarkedWhenPaid(c) ==
  IF claim[c].holds /\ claim[c].step = "checked"
    THEN [presence EXCEPT ![claim[c].user] = "claimed"] ELSE presence

(* tryAward marks its entry when claimDaily returns, whether or not it paid.  *)
Marked(c) ==
  IF claim[c].holds THEN [presence EXCEPT ![claim[c].user] = "claimed"] ELSE presence

(* findOrCreate: a transaction of its own, before that of the claim. *)
Member(u) ==
  \/ account[u] = "none" /\ Join(u)
  \/ account[u] = "open" /\ UNCHANGED ledgerVars

Found(u, h) == [step |-> "found", user |-> u, begun |-> 1, holds |-> h]

SlashClaim(c, u) ==
  /\ claim[c] = Idle
  /\ Member(u)
  /\ claim' = [claim EXCEPT ![c] = Found(u, FALSE)]
  /\ UNCHANGED <<day, daily, attended, voiceVars>>

BeginClaim(c) ==
  /\ claim[c].step = "found"
  /\ claim' = [claim EXCEPT ![c].step = "begun", ![c].begun = day]
  /\ UNCHANGED <<ledgerVars, day, daily, attended, voiceVars>>

(* Mutant: a failed claim marks the entry too (tryAward sets the flag first).  *)
CheckTodayMarking(c) ==
  /\ claim[c].step = "begun"
  /\ ~ RowLocked(claim[c].user)
  /\ IF AttendedSince(claim[c].user, day)
       THEN claim' = [claim EXCEPT ![c] = Idle]
       ELSE claim' = [claim EXCEPT ![c].step = "checked"]
  /\ presence' = Marked(c)
  /\ UNCHANGED <<ledgerVars, day, daily, attended, inVoice, listener, retries>>

(* Mutant: the rows of today are looked for without the lock.                  *)
CheckTodayUnlocked(c) ==
  /\ claim[c].step = "begun"
  /\ \/ /\ AttendedSince(claim[c].user, day)
        /\ claim' = [claim EXCEPT ![c] = Idle]
        /\ presence' = Marked(c)
     \/ /\ ~ AttendedSince(claim[c].user, day)
        /\ claim' = [claim EXCEPT ![c].step = "checked"]
        /\ UNCHANGED presence
  /\ UNCHANGED <<ledgerVars, day, daily, attended, inVoice, listener, retries>>

(* The lock is taken and the rows of today are looked for. *)
CheckToday(c) ==
  /\ claim[c].step = "begun"
  /\ ~ RowLocked(claim[c].user)
  /\ \/ /\ AttendedSince(claim[c].user, day)
        /\ claim' = [claim EXCEPT ![c] = Idle]
        /\ presence' = Marked(c)
     \/ /\ ~ AttendedSince(claim[c].user, day)
        /\ claim' = [claim EXCEPT ![c].step = "checked"]
        /\ UNCHANGED presence
  /\ UNCHANGED <<ledgerVars, day, daily, attended, inVoice, listener, retries>>

(* The reward and the bonus are minted in the claim's transaction; its own row  *)
(* is among those the streak is counted from.                                   *)
Pay(c) ==
  LET u == claim[c].user
      rows == Append(attended[u], [dated |-> claim[c].begun, paid |-> day, streak |-> 0])
      streak == StreakDays(rows, day)
  IN /\ claim[c].step = "checked"
     /\ daily > 0
     /\ account[u] = "open"
     /\ MintAll([v \in User |-> IF v = u THEN daily + StreakBonus(streak) ELSE 0])
     /\ attended' = [attended EXCEPT ![u] = [rows EXCEPT ![Len(rows)].streak = streak]]
     /\ claim' = [claim EXCEPT ![c] = Idle]
     /\ presence' = Marked(c)
     /\ UNCHANGED <<day, daily, inVoice, listener, retries>>

(* The reward is set to nothing or the user's row is gone: the transaction is   *)
(* rolled back and a presence entry stays due.                                   *)
ClaimFails(c) ==
  /\ claim[c].step = "checked"
  /\ daily = 0 \/ account[claim[c].user] = "deleted"
  /\ claim' = [claim EXCEPT ![c] = Idle]
  /\ UNCHANGED <<ledgerVars, day, daily, attended, voiceVars>>

-----------------------------------------------------------------------------
(* The voice service.                                                       *)

(* onApplicationBootstrap waits for the Discord client and gives up in the end. *)
Attach ==
  /\ listener = "waiting"
  /\ listener' = "attached"
  /\ UNCHANGED <<ledgerVars, day, daily, attended, claim, inVoice, presence, retries>>

(* Mutant: the attempts are not limited.                                         *)
RetryAttachForever ==
  /\ listener = "waiting"
  /\ retries' = retries + 1
  /\ UNCHANGED <<ledgerVars, day, daily, attended, claim, inVoice, presence, listener>>

RetryAttach ==
  /\ listener = "waiting"
  /\ retries < MaxAttachRetries
  /\ retries' = retries + 1
  /\ UNCHANGED <<ledgerVars, day, daily, attended, claim, inVoice, presence, listener>>

GiveUpAttach ==
  /\ listener = "waiting"
  /\ retries = MaxAttachRetries
  /\ listener' = "given up"
  /\ UNCHANGED <<ledgerVars, day, daily, attended, claim, inVoice, presence, retries>>

VoiceJoin(u) ==
  /\ ~ inVoice[u]
  /\ inVoice' = [inVoice EXCEPT ![u] = TRUE]
  /\ presence' = IF listener = "attached" THEN [presence EXCEPT ![u] = "waiting"] ELSE presence
  /\ UNCHANGED <<ledgerVars, day, daily, attended, claim, listener, retries>>

(* The minimum stay has passed since the entry was made. *)
StayedLongEnough(u) ==
  /\ presence[u] = "waiting"
  /\ presence' = [presence EXCEPT ![u] = "due"]
  /\ UNCHANGED <<ledgerVars, day, daily, attended, claim, inVoice, listener, retries>>

(* checkAccumulated: polls overlap when the claims of one take a minute. *)
Poll(c, u) ==
  /\ listener = "attached"
  /\ presence[u] = "due"
  /\ claim[c] = Idle
  /\ Member(u)
  /\ claim' = [claim EXCEPT ![c] = Found(u, TRUE)]
  /\ UNCHANGED <<day, daily, attended, voiceVars>>

Forgotten(calls, u) ==
  [c \in Claim |-> IF calls[c].user = u THEN [calls[c] EXCEPT !.holds = FALSE] ELSE calls[c]]

(* The entry goes; calls made for it still mark the object, which nobody reads. *)
VoiceLeave(u) ==
  /\ inVoice[u]
  /\ presence[u] # "due"
  /\ inVoice' = [inVoice EXCEPT ![u] = FALSE]
  /\ presence' = [presence EXCEPT ![u] = "none"]
  /\ claim' = Forgotten(claim, u)
  /\ UNCHANGED <<ledgerVars, day, daily, attended, listener, retries>>

(* A member who leaves before a poll has seen that the stay was long enough.     *)
LeaveDue(c, u) ==
  /\ inVoice[u]
  /\ presence[u] = "due"
  /\ inVoice' = [inVoice EXCEPT ![u] = FALSE]
  /\ presence' = [presence EXCEPT ![u] = "none"]
  /\ Member(u)
  /\ claim[c] = Idle
  /\ claim' = [Forgotten(claim, u) EXCEPT ![c] = Found(u, FALSE)]
  /\ UNCHANGED <<day, daily, attended, listener, retries>>

(* The process is stopped and started: the map and the open transactions are    *)
(* gone; the members stay in their channels.                                    *)
Restart ==
  /\ listener # "waiting" \/ retries > 0
  /\ claim' = [c \in Claim |-> Idle]
  /\ presence' = [u \in User |-> "none"]
  /\ listener' = "waiting"
  /\ retries' = 0
  /\ UNCHANGED <<ledgerVars, day, daily, attended, inVoice>>

-----------------------------------------------------------------------------
(* No transaction lasts a whole day: each sees at most one midnight.              *)
Midnight ==
  /\ day < LastDay
  /\ \A c \in Claim : claim[c].step \in {"begun", "checked"} => claim[c].begun = day
  /\ day' = day + 1
  /\ UNCHANGED <<ledgerVars, daily, attended, claim, voiceVars>>

SetDaily(n) ==
  /\ n # daily
  /\ daily' = n
  /\ UNCHANGED <<ledgerVars, day, attended, claim, voiceVars>>

(* What other callers do to the points of members whose row is not locked. *)
OtherTransaction ==
  /\ OneRequest
  /\ \A u \in User : RowLocked(u) => account'[u] = account[u] /\ balance'[u] = balance[u]
  /\ UNCHANGED attendanceVars

ClaimStep(c) == BeginClaim(c) \/ CheckToday(c) \/ Pay(c) \/ ClaimFails(c)

Next ==
  \/ OtherTransaction
  \/ Midnight
  \/ \E n \in Daily : SetDaily(n)
  \/ \E c \in Claim, u \in Attender : SlashClaim(c, u) \/ Poll(c, u) \/ LeaveDue(c, u)
  \/ \E c \in Claim : ClaimStep(c)
  \/ \E u \in Attender : VoiceJoin(u) \/ StayedLongEnough(u) \/ VoiceLeave(u)
  \/ Attach \/ RetryAttach \/ GiveUpAttach \/ Restart

Spec == Init /\ [][Next]_vars

(* Calls in progress go on and the poll keeps running; members, the admin and    *)
(* the clock are free to do nothing.                                             *)
Fairness ==
  /\ \A c \in Claim : WF_vars(ClaimStep(c))
  /\ \A u \in Attender : SF_vars(\E c \in Claim : Poll(c, u))

FairSpec == Spec /\ Fairness
-----------------------------------------------------------------------------
AttendanceRows(u) == DOMAIN attended[u]

(* Whatever command, poll and leave handler meet, a member is not paid twice in  *)
(* transactions of one day (the comment of attendance-reward.service.ts:43).     *)
OnceADay ==
  \A u \in User : \A i, j \in AttendanceRows(u) :
    LET a == attended[u][i]
        b == attended[u][j]
    IN i # j => ~ (a.dated = b.dated /\ a.paid = a.dated /\ b.paid = b.dated)

(* A member who never misses a day gets the bonus of each milestone once: the     *)
(* streak of a longer run is never taken for a milestone again (:51).             *)
MilestoneOncePerRun ==
  \A u \in User : \A i, j \in AttendanceRows(u) :
    LET a == attended[u][i]
        b == attended[u][j]
    IN i < j /\ a.streak = b.streak /\ a.streak \in Milestone
         => ~ (a.dated .. b.dated \subseteq DatedDays(attended[u]))

(* The service stops looking at a stay only when the member has been paid that    *)
(* day: a claim that failed is made again by the next poll.                       *)
StopsOnlyWhenPaid ==
  [][\A u \in User :
       presence[u] # "claimed" /\ presence'[u] = "claimed"
         => \E i \in DOMAIN attended'[u] : attended'[u][i].paid = day]_vars

(* A stay that has been long enough is paid, or found paid, while it lasts.        *)
LongStayIsPaid ==
  \A u \in Attender :
    presence[u] = "due" ~> (presence[u] # "due" \/ daily = 0 \/ account[u] = "deleted")

(* What voice-attendance.service.ts:35 says of a restart: members who are in a     *)
(* channel are counted from then on.                                               *)
PresentIsTracked ==
  \A u \in Attender : listener = "attached" /\ inVoice[u] => presence[u] # "none"

(* One award on a calendar day, the sense of "already attended today".             *)
PaidOnceADay ==
  \A u \in User : \A i, j \in AttendanceRows(u) :
    i # j => attended[u][i].paid # attended[u][j].paid
=============================================================================
