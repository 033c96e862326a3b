----------------------------- MODULE MatchPages -----------------------------
(***************************************************************************)
(* The administrators' pages of a match (app/admin/matches/[id]), beside    *)
(* the bot's commands.  A page shows the match as it was when it was read,   *)
(* and reads it again only after a change of its own or a break of the       *)
(* connection: not when it regains the focus, and not when a request is      *)
(* refused.  Its buttons follow the status it shows.                         *)
(***************************************************************************)
EXTENDS BettingFlows

CONSTANT MaxRank   \* bound: places an admin types into the form of results

ASSUME MaxRankAssumption == MaxRank \in Nat

Ask == {"open", "lock", "cancel"}

(* A page takes the place of a conversation.  "page" is the detail page, "form"   *)
(* the page of results, "refused" the same with the error of the last request.    *)
Page ==
  [at : {"page", "form", "refused"}, cmd : {"page"}, item : Match,
   seen : MatchStatus, teams : [Team -> Match \cup {None}],  \* as read
   reload : BOOLEAN,               \* a new answer is on its way
   ask : Ask \cup {"nothing"},     \* the dialog that is open, and what it shows
   screen : [menu : {"page"}] \cup [menu : {"confirm"}, item : Match, side : {None}]]

PagesTypeOK ==
  /\ BettingTypeOK
  /\ flow \in [Session -> Flow \cup Page]
  /\ told \in [Market -> [User -> [Side -> StakeStatus]]]

NoDialog == [menu |-> "page"]

OnPage(s, ats) == flow[s] # Idle /\ flow[s].cmd = "page" /\ flow[s].at \in ats

OpenPage(s, m) ==
  /\ flow[s] = Idle /\ MatchExists(m)
  /\ flow' = [flow EXCEPT ![s] =
       [at |-> "page", cmd |-> "page", item |-> m, seen |-> matchStatus[m], teams |-> teamMatch,
        reload |-> FALSE, ask |-> "nothing", screen |-> NoDialog]]
  /\ UNCHANGED <<vars, told>>

LeavePage(s) ==
  /\ OnPage(s, {"page", "form", "refused"})
  /\ Ends(s) /\ UNCHANGED <<vars, told>>

(* The answer to the page's query.  The page of results sends the admin back      *)
(* unless the match is locked.                                                    *)
Reload(s) ==
  /\ OnPage(s, {"page", "form", "refused"}) /\ flow[s].reload
  /\ LET status == matchStatus[flow[s].item] IN
       flow' = [flow EXCEPT ![s] =
         [flow[s] EXCEPT !.seen = status, !.teams = teamMatch, !.reload = FALSE,
                   !.at = IF status = "LOCKED" THEN @ ELSE "page"]]
  /\ UNCHANGED <<vars, told>>

(* The query library asks again when the connection is back.                        *)
Reconnect(s) ==
  /\ OnPage(s, {"page", "form", "refused"})
  /\ flow' = [flow EXCEPT ![s].reload = TRUE]
  /\ UNCHANGED <<vars, told>>

Finished(status) == status \in {"SETTLED", "CANCELLED"}

Buttons(status) ==
  {a \in Ask : \/ a = "open" /\ status = "DRAFT"
               \/ a = "lock" /\ status = "BETTING_OPEN"
               \/ a = "cancel" /\ ~ Finished(status)}

(* A button opens a dialog, which is answered or dismissed.                        *)
Press(s, a) ==
  /\ OnPage(s, {"page"}) /\ flow[s].ask = "nothing"
  /\ a \in Buttons(flow[s].seen)
  /\ flow' = [flow EXCEPT ![s].ask = a,
       ![s].screen = [menu |-> "confirm", item |-> flow[s].item, side |-> None]]
  /\ UNCHANGED <<vars, told>>

Closes(s, reload) ==
  flow' = [flow EXCEPT ![s] =
    [flow[s] EXCEPT !.ask = "nothing", !.screen = NoDialog, !.reload = @ \/ reload]]

Dismiss(s) ==
  /\ OnPage(s, {"page"}) /\ flow[s].ask # "nothing"
  /\ Closes(s, FALSE) /\ UNCHANGED <<vars, told>>

(* The request is made whatever became of the match, and may be refused.            *)
HandleTransition(s) ==
  /\ OnPage(s, {"page"}) /\ flow[s].ask # "nothing"
  /\ LET m == flow[s].item IN
       \/ /\ \/ flow[s].ask = "open" /\ OpenBetting(m)
             \/ flow[s].ask = "lock" /\ LockMatch(m)
             \/ flow[s].ask = "cancel" /\ CancelMatch(m)
          /\ Closes(s, TRUE)
       \/ UNCHANGED vars /\ Closes(s, FALSE)
  /\ UNCHANGED told

(* A team may be added to a match of any state the page does not know to be final.  *)
HandleAddTeam(s, t) ==
  /\ OnPage(s, {"page"}) /\ ~ Finished(flow[s].seen)
  /\ CreateTeam(flow[s].item, t)
  /\ flow' = [flow EXCEPT ![s].reload = TRUE]
  /\ UNCHANGED told

(* What was read less than a minute ago is not read again.                          *)
EnterResults(s) ==
  /\ OnPage(s, {"page"}) /\ flow[s].ask = "nothing" /\ flow[s].seen = "LOCKED"
  /\ \E old \in BOOLEAN :
       flow' = [flow EXCEPT ![s].at = "form", ![s].reload = @ \/ old]
  /\ UNCHANGED <<vars, told>>

TeamsShown(s) == {t \in Team : flow[s].teams[t] = flow[s].item}

(* What the inputs of the form may hold.                                             *)
Ranks(s) == [TeamsShown(s) -> 0..MaxRank]

(* The winner and the places are chosen independently of each other.                *)
ValidatePlacements(ranks) == (\A t \in DOMAIN ranks : ranks[t] >= 1) /\ IsInjective(ranks)

(* The page sends the places as an array, the route takes an object or nothing       *)
(* (IsObject of class-validator): the request is always refused, and the form stays.  *)
HandleSubmit(s, w, ranks) ==
  /\ OnPage(s, {"form", "refused"}) /\ w \in TeamsShown(s)
  /\ ValidatePlacements(ranks)
  /\ flow' = [flow EXCEPT ![s].at = "refused"]
  /\ UNCHANGED <<vars, told>>

OnPages(s) ==
  \/ \E m \in Match : OpenPage(s, m)
  \/ LeavePage(s) \/ Reload(s) \/ Reconnect(s)
  \/ \E a \in Ask : Press(s, a)
  \/ Dismiss(s) \/ HandleTransition(s) \/ EnterResults(s)
  \/ \E t \in Team : HandleAddTeam(s, t)
  \/ OnPage(s, {"form", "refused"}) /\
       \E w \in TeamsShown(s), ranks \in Ranks(s) : HandleSubmit(s, w, ranks)

PagesNext ==
  \/ FlowsNext
  \/ \E s \in Session : OnPages(s)
  \/ (\E m \in Match : CreateMatch(m)) /\ UNCHANGED flowVars

PagesSpec == FlowsInit /\ [][PagesNext]_allVars

(* Nobody has to leave a page.                                                        *)
FairPagesSpec == PagesSpec /\ \A s \in Session : WF_allVars(Bot(s))

-----------------------------------------------------------------------------
(* A page may show a match as it was long ago.  Still it opens or locks the betting of *)
(* a match only if that is in the state the page shows.                                *)
PagesChangeWhatTheyShow ==
  [][\A s \in Session :
       /\ OnPage(s, {"page"}) /\ flow[s].ask \in {"open", "lock"}
       /\ flow'[s] # flow[s] /\ matchStatus' # matchStatus
       => flow[s].seen = matchStatus[flow[s].item]]_allVars
=============================================================================
