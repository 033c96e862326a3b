---------------------------- MODULE BettingFlows ----------------------------
(***************************************************************************)
(* The bot's betting commands (discord-bot/commands): /bet and /rank for    *)
(* members, /admin lock and /admin settle.  Each is a conversation of some  *)
(* minutes: the lists it offers are read once when it begins, the member    *)
(* clicks through menus that the bot redraws, and the transaction of module *)
(* Betting comes at the end, whatever has happened to match and market.     *)
(*                                                                         *)
(* A click travels from the member to the bot.  It may be made on a menu    *)
(* the bot has redrawn when it arrives, and it is lost when no collector    *)
(* waits.  The bot does not ask which menu a selection comes from: it reads *)
(* any selection as an answer to what it waits for.                         *)
(***************************************************************************)
EXTENDS Betting, Sequences

CONSTANTS
  Session,    \* conversations that may be going on at once
  MaxClicks,  \* bound: clicks a member makes in one conversation
  MaxWaiting, \* bound: clicks of a conversation the bot has not received yet
  MaxPlace    \* bound: places a member chooses among

ASSUME ClicksAssumption == MaxClicks \in Nat /\ MaxWaiting \in Nat /\ MaxPlace \in Place
ASSUME MarketIdAssumption == Market \subseteq Foreign   \* a market's id is a uuid too

VARIABLES
  flow,   \* the conversations
  told    \* the result of each stake its owner was sent, "NONE" before

flowVars == <<flow, told>>
allVars == <<vars, flowVars>>

Command == {"bet", "rank", "lock", "settle"}
Button == {"cancel", "back", "back2", "confirm"}

(* Where the command waits, or what it does next.                             *)
Point == {"step1", "step2", "step3", "modal", "lock", "settle", "notify"}

Item == Market \cup Match

(* What the message shows: a list of items, the sides of an item, or the       *)
(* question whether to do what was chosen.                                     *)
Screen ==
  {[menu |-> "items"]}
  \cup [menu : {"sides"}, item : Item]
  \cup [menu : {"confirm"}, item : Item, side : Side \cup {None}]

Click == [on : {"button"}, id : Button] \cup [on : {"select"}, id : Item \cup Side]

Idle == [at |-> "idle"]

Chat ==
  [at : Point, cmd : Command, user : User \cup {None},
   list : SUBSET Item, teams : [Team -> Match \cup {None}],  \* as read at the beginning
   item : Item \cup {None}, side : Side \cup {None}, \* what was chosen
   screen : Screen, clicks : Seq(Click), made : 0..MaxClicks]

(* A settlement on the web whose bettors are to be told.                        *)
Notice == [at : {"notify"}, cmd : {"web"}, item : Match]

Flow == {Idle} \cup Notice \cup Chat

FlowsTypeOK ==
  /\ BettingTypeOK
  /\ flow \in [Session -> Flow]
  /\ told \in [Market -> [User -> [Side -> StakeStatus]]]

FlowsInit ==
  /\ BettingInit
  /\ flow = [s \in Session |-> Idle]
  /\ told = [k \in Market |-> [u \in User |-> [x \in Side |-> "NONE"]]]

-----------------------------------------------------------------------------
(* The beginning of a conversation: what it offers is read once.  findOrCreate    *)
(* has entered the member before, by Join of module Ledger.                      *)

OpenMarkets ==
  {k \in Market : marketStatus[k] = "OPEN" /\ matchStatus[MatchOf[k]] = "BETTING_OPEN"}

MatchesIn(status) == {m \in Match : matchStatus[m] = status}

(* /rank and /lock do not use the teams they have read.                           *)
TeamsRead(cmd) == IF cmd \in {"bet", "settle"} THEN teamMatch ELSE [t \in Team |-> None]

Begin(s, cmd, u, list) ==
  /\ flow[s] = Idle
  /\ u # None => account[u] = "open"
  /\ list # {}
  /\ flow' = [flow EXCEPT ![s] =
       [at |-> "step1", cmd |-> cmd, user |-> u, list |-> list, teams |-> TeamsRead(cmd),
        item |-> None, side |-> None, screen |-> [menu |-> "items"],
        clicks |-> <<>>, made |-> 0]]
  /\ UNCHANGED <<vars, told>>

(* Markets of both types are offered.                                           *)
Bet(s, u) == Begin(s, "bet", u, OpenMarkets)
RankPredict(s, u) == Begin(s, "rank", u, OpenMarkets \ WinMarket)
AdminBettingLock(s) == Begin(s, "lock", None, MatchesIn("BETTING_OPEN"))
AdminBettingSettle(s) == Begin(s, "settle", None, MatchesIn("LOCKED"))

-----------------------------------------------------------------------------
(* Clicks.                                                                      *)

MatchOfItem(x) == IF x \in Market THEN MatchOf[x] ELSE x

TeamsOf(f, x) == {t \in Team : f.teams[t] = MatchOfItem(x)}

Options(f, x) == IF f.cmd = "rank" THEN 1..MaxPlace ELSE TeamsOf(f, x)

OnSelect(ids) == [on : {"select"}, id : ids]
OnButton(ids) == [on : {"button"}, id : ids]

Offered(f) ==
  CASE f.screen.menu = "items" -> OnSelect(f.list) \cup OnButton({"cancel"})
    [] f.screen.menu = "sides" ->
         OnSelect(Options(f, f.screen.item)) \cup OnButton({"back", "cancel"})
    [] f.screen.menu = "confirm" ->
         OnButton({"confirm", "cancel", IF f.cmd = "lock" THEN "back" ELSE "back2"})

Dialogue(s, cmd) == flow[s] # Idle /\ flow[s].cmd = cmd

InChat(s) == flow[s] # Idle /\ flow[s].cmd \in Command

(* The member clicks on what is shown to him at that time.                       *)
Clicks(s) ==
  /\ InChat(s) /\ flow[s].made < MaxClicks /\ Len(flow[s].clicks) < MaxWaiting
  /\ \E c \in Offered(flow[s]) :
       flow' = [flow EXCEPT ![s].clicks = Append(@, c), ![s].made = @ + 1]
  /\ UNCHANGED <<vars, told>>

(* A click that arrives while the bot is busy with the one before.               *)
LoseClick(s) ==
  /\ InChat(s) /\ flow[s].clicks # <<>>
  /\ flow' = [flow EXCEPT ![s].clicks = Tail(@)]
  /\ UNCHANGED <<vars, told>>

(* The collector of step `at` receives a click.                                  *)
Receives(s, at) == InChat(s) /\ flow[s].at = at /\ flow[s].clicks # <<>>
Clicked(s) == Head(flow[s].clicks)

(* The command waits at another step, and redraws the message.                   *)
Goes(s, at, item, side, screen) ==
  flow' = [flow EXCEPT ![s] =
    [flow[s] EXCEPT !.at = at, !.item = item, !.side = side, !.screen = screen, !.clicks = Tail(@)]]

Ends(s) == flow' = [flow EXCEPT ![s] = Idle]

Items == [menu |-> "items"]
Sides(x) == [menu |-> "sides", item |-> x]
Confirmation(x, t) == [menu |-> "confirm", item |-> x, side |-> t]

(* "continue": the command waits for the first step again, whatever is shown.    *)
Ignored(s) == Goes(s, "step1", None, None, flow[s].screen)

BackToItems(s) == Goes(s, "step1", None, None, Items)

(* Step 1: an item of the list is chosen.                                        *)
Step1(s, screen(_)) ==
  LET f == flow[s]  c == Clicked(s) IN
  /\ Receives(s, "step1")
  /\ CASE c = [on |-> "button", id |-> "cancel"] -> Ends(s)
       [] c.on = "button" /\ c.id # "cancel" -> Ignored(s)
       [] c.on = "select" /\ c.id \notin f.list -> Ends(s)
       [] c.on = "select" /\ c.id \in f.list -> Goes(s, "step2", c.id, None, screen(c.id))
  /\ UNCHANGED <<vars, told>>

BetStep1(s) == Dialogue(s, "bet") /\ Step1(s, Sides)
RankStep1(s) == Dialogue(s, "rank") /\ Step1(s, Sides)
SettleStep1(s) == Dialogue(s, "settle") /\ Step1(s, Sides)
LockStep1(s) == Dialogue(s, "lock") /\ Step1(s, LAMBDA m : Confirmation(m, None))

(* Mutant: the team is not looked up in the match.                               *)
SideAcceptedAny(f, id) == TRUE

(* /bet and /settle look for the team in the match; /rank takes any value.       *)
SideAccepted(f, id) == f.cmd = "rank" \/ id \in TeamsOf(f, f.item)

(* Step 2 of all commands but lock: a side of the item is chosen.                 *)
Step2(s, at, screen(_)) ==
  LET f == flow[s]  c == Clicked(s) IN
  /\ Receives(s, "step2")
  /\ CASE c = [on |-> "button", id |-> "cancel"] -> Ends(s)
       [] c = [on |-> "button", id |-> "back"] -> BackToItems(s)
       [] c.on = "button" /\ c.id \notin {"cancel", "back"} -> Ignored(s)
       [] c.on = "select" /\ ~ SideAccepted(f, c.id) -> Ends(s)
       [] c.on = "select" /\ SideAccepted(f, c.id) ->
            Goes(s, at, f.item, c.id, screen(c.id))
  /\ UNCHANGED <<vars, told>>

(* The modal leaves the message as it is.                                         *)
BetStep2(s) == Dialogue(s, "bet") /\ Step2(s, "modal", LAMBDA x : flow[s].screen)
RankStep2(s) == Dialogue(s, "rank") /\ Step2(s, "modal", LAMBDA x : flow[s].screen)
SettleStep2(s) ==
  Dialogue(s, "settle") /\ Step2(s, "step3", LAMBDA x : Confirmation(flow[s].item, x))

LockStep2(s) ==
  LET f == flow[s]  c == Clicked(s) IN
  /\ Receives(s, "step2") /\ Dialogue(s, "lock")
  /\ CASE c = [on |-> "button", id |-> "cancel"] -> Ends(s)
       [] c = [on |-> "button", id |-> "back"] -> BackToItems(s)
       [] c = [on |-> "button", id |-> "confirm"] -> Goes(s, "lock", f.item, None, f.screen)
       [] OTHER -> Ignored(s)
  /\ UNCHANGED <<vars, told>>

(* Mutant: a stale click is taken for the next step's, and what it names is used. *)
SettleStep3Any(s) ==
  LET c == Clicked(s) IN
  /\ Receives(s, "step3")
  /\ CASE c.on = "select" -> Goes(s, "settle", flow[s].item, c.id, flow[s].screen)
       [] c = [on |-> "button", id |-> "cancel"] -> Ends(s)
       [] c = [on |-> "button", id |-> "confirm"] ->
            Goes(s, "settle", flow[s].item, flow[s].side, flow[s].screen)
       [] OTHER -> Ignored(s)
  /\ UNCHANGED <<vars, told>>

(* Back shows the teams of the match again and waits for a match.                 *)
SettleStep3(s) ==
  LET f == flow[s]  c == Clicked(s) IN
  /\ Receives(s, "step3")
  /\ CASE c = [on |-> "button", id |-> "cancel"] -> Ends(s)
       [] c = [on |-> "button", id |-> "back2"] ->
            Goes(s, "step1", None, None, Sides(f.item))
       [] c = [on |-> "button", id |-> "confirm"] ->
            Goes(s, "settle", f.item, f.side, f.screen)
       [] OTHER -> Ignored(s)
  /\ UNCHANGED <<vars, told>>

(* Mutant: nobody waits for the end of the modal.                                  *)
TimesOutNotModal(s) ==
  /\ flow[s] # Idle /\ flow[s].at \in {"step1", "step2", "step3"}
  /\ Ends(s)
  /\ UNCHANGED <<vars, told>>

(* The fifteen minutes of a menu, or the five of the modal, are over.                  *)
TimesOut(s) ==
  /\ flow[s] # Idle /\ flow[s].at \in {"step1", "step2", "step3", "modal"}
  /\ Ends(s)
  /\ UNCHANGED <<vars, told>>

-----------------------------------------------------------------------------
(* The end of a conversation.  A transaction that throws changes nothing.          *)

(* The member types an amount; one that is no positive integer ends the command.    *)
SubmitAmount(s, amt) ==
  /\ flow[s] # Idle /\ flow[s].at = "modal"
  /\ \/ PlaceStake(flow[s].item, flow[s].user, flow[s].side, amt)
     \/ UNCHANGED vars
  /\ Ends(s)
  /\ UNCHANGED told

SubmitBet(s, amt) == Dialogue(s, "bet") /\ SubmitAmount(s, amt)
SubmitRank(s, amt) == Dialogue(s, "rank") /\ SubmitAmount(s, amt)

LockConfirmed(s) ==
  /\ flow[s] # Idle /\ flow[s].at = "lock"
  /\ LockMatch(flow[s].item) \/ UNCHANGED vars
  /\ Ends(s)
  /\ UNCHANGED told

(* No placements are passed.  Nobody is told if no market was settled.              *)
SettleConfirmed(s) ==
  /\ flow[s] # Idle /\ flow[s].at = "settle"
  /\ \/ /\ SettleMatch(flow[s].item, flow[s].side, None)
        /\ IF MarketsIn(flow[s].item, {"LOCKED"}) # {}
           THEN flow' = [flow EXCEPT ![s].at = "notify"]
           ELSE Ends(s)
     \/ UNCHANGED vars /\ Ends(s)
  /\ UNCHANGED told

(* A settlement by the web's route tells the bettors in the same way.               *)
WebSettle(s, m, w, p) ==
  /\ flow[s] = Idle
  /\ SettleMatch(m, w, p)
  /\ flow' = IF MarketsIn(m, {"LOCKED"}) = {} THEN flow ELSE
       [flow EXCEPT ![s] = [at |-> "notify", cmd |-> "web", item |-> m]]
  /\ UNCHANGED told

(* Mutant: whoever is paid nothing is told that he lost.                              *)
ResultByPayout(k, u, x) ==
  CASE stakeStatus[k][u][x] \in {"NONE", "PLACED", "REFUNDED"} -> stakeStatus[k][u][x]
    [] OTHER -> IF payout[k][u][x] > 0 THEN "WON" ELSE "LOST"

(* The skip of a placed stake is "theoretically" never needed.                        *)
Result(k, u, x) == stakeStatus[k][u][x]

(* Every stake of the match; a member who cannot be reached is left out.              *)
NotifyBettors(s, reached) ==
  /\ flow[s] # Idle /\ flow[s].at = "notify"
  /\ told' = [k \in Market |-> [u \in User |-> [x \in Side |->
       IF MatchOf[k] = flow[s].item /\ u \in reached /\ stakeStatus[k][u][x] # "PLACED"
       THEN Result(k, u, x) ELSE told[k][u][x]]]]
  /\ Ends(s)
  /\ UNCHANGED vars

(* The process dies, and every conversation with it.                                  *)
Restart ==
  /\ \E s \in Session : flow[s] # Idle
  /\ flow' = [s \in Session |-> Idle]
  /\ UNCHANGED <<vars, told>>

-----------------------------------------------------------------------------
(* The rest of the program, meanwhile: /admin start, the web's routes (a settlement    *)
(* of which nobody is told, because Discord does not answer, among them), and members  *)
(* who join.  Stakes made on the web are in module Betting; teams are added on the     *)
(* pages of module MatchPages only.                                                    *)
AdminBettingStart(m, T, k) == CreateBettingScenario(m, T, k)

Elsewhere ==
  \/ \E m \in Match, T \in SUBSET Team, k \in Market : AdminBettingStart(m, T, k)
  \/ \E m \in Match : LockMatch(m) \/ CancelMatch(m)
  \/ \E m \in Match, w \in Team, p \in Placements \cup {None} : SettleMatch(m, w, p)
  \/ \E k \in Market : CheckNoMarket(k) \/ InsertMarket(k) \/ LockMarket(k) \/ CancelMarket(k)
  \/ \E u \in User : Join(u) /\ UNCHANGED bettingVars

(* The command is given, or the member does something.                                *)
Member(s) ==
  \/ \E u \in User : Bet(s, u) \/ RankPredict(s, u)
  \/ AdminBettingLock(s) \/ AdminBettingSettle(s)
  \/ Clicks(s) \/ LoseClick(s)
  \/ \E amt \in StakeAmount : SubmitBet(s, amt) \/ SubmitRank(s, amt)

Bot(s) ==
  \/ BetStep1(s) \/ BetStep2(s)
  \/ RankStep1(s) \/ RankStep2(s)
  \/ LockStep1(s) \/ LockStep2(s)
  \/ SettleStep1(s) \/ SettleStep2(s) \/ SettleStep3(s)
  \/ TimesOut(s)
  \/ LockConfirmed(s) \/ SettleConfirmed(s)
  \/ \E reached \in SUBSET User : NotifyBettors(s, reached)

FlowsNext ==
  \/ \E s \in Session : Member(s) \/ Bot(s)
  \/ \E s \in Session, m \in Match, w \in Team, p \in Placements \cup {None} :
       WebSettle(s, m, w, p)
  \/ Restart
  \/ Elsewhere /\ UNCHANGED flowVars

FlowsSpec == FlowsInit /\ [][FlowsNext]_allVars

(* The bot goes on with what it has begun, and its collectors time out; nobody has to *)
(* click or to type anything.                                                         *)
FairFlowsSpec == FlowsSpec /\ \A s \in Session : WF_allVars(Bot(s))

-----------------------------------------------------------------------------
(* Whatever is clicked, late or twice, a command stakes points only on a team of the  *)
(* match or on a place; the service itself takes any uuid for a team.                  *)
CommandsStakeOnSides ==
  [][\A k \in Market, u \in User, x \in Side :
       flow' # flow /\ stake'[k][u][x] # stake[k][u][x] =>
         IF k \in WinMarket THEN x \in Team /\ teamMatch[x] = MatchOf[k] ELSE x \in Place]_allVars

(* A command changes the match, and names the winner, that the question on the admin's  *)
(* screen was about.                                                                     *)
AsConfirmed ==
  [][\A s \in Session, m \in Match :
       /\ flow[s] # Idle /\ flow'[s] # flow[s]
       /\ matchStatus'[m] # matchStatus[m]
       => /\ flow[s].screen.menu = "confirm" /\ flow[s].screen.item = m
          /\ matchStatus'[m] = "SETTLED" => flow[s].screen.side = winnerTeam'[m]]_allVars

(* What a member was told of a stake is and stays its result.                           *)
ToldTheResult ==
  \A k \in Market, u \in User, x \in Side :
    told[k][u][x] # "NONE" => told[k][u][x] = stakeStatus[k][u][x]

(* When the bettors of a match are told their results no stake of it is still waiting    *)
(* for one (betting-notify.service.ts:115).                                              *)
NobodySkipped ==
  \A s \in Session : flow[s] # Idle /\ flow[s].at = "notify" =>
    \A k \in Market, u \in User, x \in Side :
      MatchOf[k] = flow[s].item => stakeStatus[k][u][x] # "PLACED"

(* A conversation ends when the member stops clicking.                                   *)
ChatsEnd == \A s \in Session : InChat(s) ~> ~ InChat(s)

-----------------------------------------------------------------------------
(* Claims of the documentation that the code does not keep.                               *)

(* "Back to step 2: the teams of the match are shown again ... works as it should"        *)
(* (admin-betting-settle.command.ts:228, 242): the teams that are shown can be chosen.     *)
ShownTeamsCanBeChosen ==
  [][\A s \in Session :
       SettleStep1(s) /\ Clicked(s).on = "select" /\ Clicked(s).id \in Team =>
         flow'[s] # Idle]_allVars
=============================================================================
