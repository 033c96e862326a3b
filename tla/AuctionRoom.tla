---------------------------- MODULE AuctionRoom ----------------------------
(***************************************************************************)
(* The room of an auction: the gateway's handlers, which commit a change,   *)
(* read the auction and tell every socket in the room                      *)
(* (modules/auctions/auction.gateway.ts), and the auction pages in the      *)
(* browsers (frontend/src/app/auction, modules/auction), which show what    *)
(* they were told last and offer their buttons accordingly.                 *)
(*                                                                         *)
(* A page hears from the gateway only.  What it shows is behind the row by   *)
(* whatever is still on the way to it, by what was told before it joined,   *)
(* and by what is never told.  The countdown of module AuctionTimers is      *)
(* here a step that may happen while a player is up.                        *)
(***************************************************************************)
EXTENDS Auction, Sequences

CONSTANTS
  Client,     \* browsers with the auction page
  Master,     \* the creator of the auction
  UserOf,     \* who is logged in
  Task,       \* tasks of the process: handlers that can be in progress at once
  Direct,     \* events that other programs of the master send
  Flaky,      \* bound: pages that are closed or lose their connection
  MaxInbox    \* bound: messages on their way to one page

ASSUME UserOfAssumption == UserOf \in [Client -> User \cup {Master}]
ASSUME MasterAssumption == Master \notin User \cup {None}
ASSUME FlakyAssumption == Flaky \subseteq Client
ASSUME MaxInboxAssumption == MaxInbox \in Nat \ {0}

VARIABLES
  online,   \* the page has a connection
  joined,   \* its socket is in the room
  view,     \* roomState of the page, None for null or undefined
  inbox,    \* messages on their way to the page
  task,     \* what the handler of each task does next
  latest    \* what the last broadcast with a state the pages listen to has told,
            \* and whether that was the state of the auction

roomVars == <<online, joined, view, inbox, task, latest>>
allRoomVars == <<auctionVars, roomVars>>

(* The event that tells of an event that was handled.                         *)
Told ==
  [startAuction |-> "auctionStarted", selectPlayer |-> "playerSelected",
   placeBid |-> "bidPlaced", confirmBid |-> "bidConfirmed", autoConfirm |-> "bidConfirmed",
   passPlayer |-> "playerPassed", nextPlayer |-> "readyForNextPlayer",
   completeAuction |-> "auctionCompleted", resetAuction |-> "auctionReset",
   pauseAuction |-> "auctionPaused", resumeAuction |-> "auctionResumed",
   undoSoldPlayer |-> "playerUndone", enterAssignmentPhase |-> "assignmentPhaseStarted",
   manualAssignPlayer |-> "playerManuallyAssigned", timerExpired |-> "playerPassed"]

RoomEvent == DOMAIN Told

(* Those programs are the master's, who does not bid.                          *)
ASSUME DirectAssumption == Direct \subseteq RoomEvent \ {"placeBid"}

(* The page has no listener for it (nor for those of the pause of the timer, which  *)
(* nothing of the page depends on: they are left to AuctionTimers) ...              *)
Unheard == {"playerUndone"}

(* ... and this one carries the state itself, where the page's listener expects  *)
(* a payload with a field roomState.                                            *)
Bare == "roomState"

-----------------------------------------------------------------------------
(* getRoomState: what the pages use of it.                                      *)

CurrentBid ==
  IF auction.current = None \/ HighestBid(auction.current) = 0 THEN None
  ELSE [bidder |-> CHOOSE u \in User : u \in HighestBidders(auction.current),
        amount |-> HighestBid(auction.current)]

RoomState ==
  [status |-> auction.status, phase |-> auction.phase, current |-> auction.current,
   teams |-> auction.teams, participants |-> entry, currentBid |-> CurrentBid]

RoomRequest ==
  [event : RoomEvent, player : User \cup {None}, captain : User \cup {None}, amount : Int]

Req(e) == [event |-> e, player |-> None, captain |-> None, amount |-> 0]
ReqFor(e, p) == [Req(e) EXCEPT !.player = p]

-----------------------------------------------------------------------------
(* The page.                                                                    *)

Of(s, role) == {r \in Row : s.participants[r] # None /\ s.participants[r].role = role}
OpenPlayers(s) == {r \in Of(s, "PLAYER") : s.participants[r].team = None}
Unattempted(s) == {r \in OpenPlayers(s) : ~ s.participants[r].unsold}

(* Players already passed are offered when no other is left.                     *)
SelectablePool(s) == IF Unattempted(s) # {} THEN Unattempted(s) ELSE OpenPlayers(s)

UsersAt(s, R) == {s.participants[r].user : r \in R}

CanStart(s) == Cardinality(Of(s, "CAPTAIN")) = s.teams /\ Of(s, "PLAYER") # {}

AuctionPendingMaster(s) == {q \in {Req("startAuction")} : CanStart(s)}

CompleteButton(s) == {q \in {Req("completeAuction")} : OpenPlayers(s) = {}}

AssignmentPanel(s) ==
  {[event |-> "manualAssignPlayer", player |-> p, captain |-> c, amount |-> 0] :
     p \in UsersAt(s, OpenPlayers(s)), c \in UsersAt(s, Of(s, "CAPTAIN"))}

EnterAssignmentButton(s) ==
  {q \in {Req("enterAssignmentPhase")} :
     Unattempted(s) = {} /\ OpenPlayers(s) # {} /\ s.phase = "WAITING"}

(* The questions asked before a reset and the like are answered at once.           *)
AuctionOngoingMaster(s) ==
  CompleteButton(s) \cup
  IF s.status = "ASSIGNING" THEN AssignmentPanel(s) ELSE
    {Req("resetAuction")} \cup EnterAssignmentButton(s)
    \cup {q \in {ReqFor("selectPlayer", p) : p \in UsersAt(s, SelectablePool(s))} :
            s.phase = "WAITING"}
    \cup {q \in {Req("confirmBid")} : s.phase = "BIDDING" /\ s.currentBid # None}
    \cup {q \in {Req("passPlayer")} : s.phase = "BIDDING"}
    \cup {q \in {Req("nextPlayer")} : s.phase = "SOLD"}

HighestAmount(s) == IF s.currentBid = None THEN 0 ELSE s.currentBid.amount

(* From one more than the highest bid up to the captain's points.                  *)
AuctionOngoingCaptain(s, u) ==
  {[event |-> "placeBid", player |-> s.current, captain |-> u, amount |-> amt] :
     amt \in {a \in BidAmount :
       /\ s.phase = "BIDDING" /\ s.current # None
       /\ s.currentBid # None => s.currentBid.bidder # u
       /\ a > HighestAmount(s)
       /\ \E r \in Of(s, "CAPTAIN") :
            s.participants[r].user = u /\ a <= s.participants[r].points}}

(* getAuctionRole and the branches of AuctionBody; a page without a state shows a   *)
(* skeleton, or a waiting room that cannot be started.                              *)
Offered(c) ==
  LET s == view[c]  u == UserOf[c] IN
  CASE s = None -> {}
    [] s # None /\ s.status \in {"COMPLETED", "CANCELLED"} -> {}
    [] s # None /\ s.status = "PENDING" -> IF u = Master THEN AuctionPendingMaster(s) ELSE {}
    [] OTHER -> IF u = Master THEN AuctionOngoingMaster(s)
                ELSE IF u \in UsersAt(s, Of(s, "CAPTAIN")) THEN AuctionOngoingCaptain(s, u)
                ELSE {}

-----------------------------------------------------------------------------
(* Types and the beginning.                                                         *)

RoomMessage == {Told[e] : e \in RoomEvent} \cup {Bare}

Resting == [at |-> "idle"]

RoomTypeOK ==
  /\ AuctionTypeOK
  /\ online \in [Client -> BOOLEAN] /\ joined \in [Client -> BOOLEAN]
  /\ \A c \in Client : joined[c] => online[c]
  /\ \A c \in Client : Len(inbox[c]) <= MaxInbox /\ (inbox[c] # <<>> => joined[c])
       /\ \A i \in DOMAIN inbox[c] : inbox[c][i].event \in RoomMessage
  /\ \A h \in Task :
       \/ task[h] = Resting
       \/ task[h].at = "call" /\ task[h].request \in RoomRequest
       \/ task[h].at \in {"read", "tell"} /\ task[h].event \in RoomMessage
       \/ task[h].at = "check"
       \/ task[h].at \in {"join", "answer"} /\ task[h].by \in Client

RoomInit ==
  /\ AuctionInit
  /\ online = [c \in Client |-> FALSE]
  /\ joined = [c \in Client |-> FALSE]
  /\ view = [c \in Client |-> None]
  /\ inbox = [c \in Client |-> <<>>]
  /\ task = [h \in Task |-> Resting]
  /\ latest = [state |-> None, current |-> TRUE]

-----------------------------------------------------------------------------
(* Connections.                                                                      *)

Does(h, todo) == task' = [task EXCEPT ![h] = todo]
Ends(h) == Does(h, Resting)

(* A page that is opened, or whose connection is back, asks to join.                  *)
Connect(h, c) ==
  /\ ~ online[c] /\ task[h] = Resting
  /\ online' = [online EXCEPT ![c] = TRUE]
  /\ Does(h, [at |-> "join", by |-> c])
  /\ UNCHANGED <<auctionVars, joined, view, inbox, latest>>

JoinRoom(h) ==
  /\ task[h].at = "join"
  /\ joined' = [joined EXCEPT ![task[h].by] = TRUE]
  /\ Does(h, [at |-> "answer", by |-> task[h].by])
  /\ UNCHANGED <<auctionVars, online, view, inbox, latest>>

(* The state is sent bare, to the one who joined.                                      *)
AnswerJoin(h) ==
  LET c == task[h].by IN
  /\ task[h].at = "answer" /\ Len(inbox[c]) < MaxInbox
  /\ inbox' = [inbox EXCEPT ![c] = Append(@, [event |-> Bare, state |-> None])]
  /\ Ends(h)
  /\ UNCHANGED <<auctionVars, online, joined, view, latest>>

(* Mutant: the socket that is gone stays in the room.                                  *)
GoneStillJoined(c) ==
  /\ c \in Flaky /\ online[c]
  /\ online' = [online EXCEPT ![c] = FALSE]
  /\ inbox' = [inbox EXCEPT ![c] = <<>>]
  /\ task' = [h \in Task |->
       IF task[h].at \in {"join", "answer"} /\ task[h].by = c THEN Resting ELSE task[h]]
  /\ UNCHANGED <<auctionVars, joined, latest>>

(* What is on its way is lost, and a join in progress has no effect any more.          *)
Gone(c) ==
  /\ c \in Flaky /\ online[c]
  /\ online' = [online EXCEPT ![c] = FALSE]
  /\ joined' = [joined EXCEPT ![c] = FALSE]
  /\ inbox' = [inbox EXCEPT ![c] = <<>>]
  /\ task' = [h \in Task |->
       IF task[h].at \in {"join", "answer"} /\ task[h].by = c THEN Resting ELSE task[h]]
  /\ UNCHANGED <<auctionVars, latest>>

(* The page keeps showing what it showed.                                              *)
Disconnect(c) == Gone(c) /\ UNCHANGED view

(* The page is left, or shows another auction: leaveRoom, and all listeners go.        *)
ClosePage(c) == Gone(c) /\ view' = [view EXCEPT ![c] = None]

(* Mutant: the page has no listener for the reset.                                     *)
HearNoReset(c) ==
  /\ inbox[c] # <<>>
  /\ inbox' = [inbox EXCEPT ![c] = Tail(@)]
  /\ view' = [view EXCEPT ![c] =
       IF Head(inbox[c]).event \in Unheard \cup {"auctionReset"} THEN @ ELSE Head(inbox[c]).state]
  /\ UNCHANGED <<auctionVars, online, joined, task, latest>>

(* handleRoomState takes payload.roomState of any message it listens to.               *)
Hear(c) ==
  /\ inbox[c] # <<>>
  /\ inbox' = [inbox EXCEPT ![c] = Tail(@)]
  /\ view' = [view EXCEPT ![c] =
       IF Head(inbox[c]).event \in Unheard THEN @ ELSE Head(inbox[c]).state]
  /\ UNCHANGED <<auctionVars, online, joined, task, latest>>

-----------------------------------------------------------------------------
(* Requests.                                                                            *)

(* shown is the player on the screen of who clicked.                                     *)
Receives(h, r, shown) ==
  /\ task[h] = Resting
  /\ Does(h, [at |-> "call", request |-> r, shown |-> shown])
  /\ UNCHANGED <<auctionVars, online, joined, view, inbox, latest>>

(* What was clicked without a connection is sent when it is back, before the page       *)
(* joins again: a click on the old view at that time.                                   *)
PageClick(h, c) == online[c] /\ \E r \in Offered(c) : Receives(h, r, view[c].current)

DirectEvent(h) ==
  \E e \in Direct :
    \E r \in IF e = "undoSoldPlayer" THEN {ReqFor(e, p) : p \in User} ELSE {Req(e)} :
      Receives(h, r, None)

TimerExpires(h) == auction.current # None /\ Receives(h, Req("timerExpired"), None)

ServiceCall(r) ==
  \/ r.event = "startAuction" /\ Start
  \/ r.event = "selectPlayer" /\ SelectPlayer(r.player)
  \/ r.event = "placeBid" /\ PlaceBid(r.captain, r.player, r.amount)
  \/ r.event \in {"confirmBid", "autoConfirm"} /\ ConfirmCurrentBid
  \/ r.event = "passPlayer" /\ PassCurrentPlayer
  \/ r.event = "nextPlayer" /\ NextPlayer
  \/ r.event = "completeAuction" /\ Complete
  \/ r.event = "resetAuction" /\ Reset
  \/ r.event = "pauseAuction" /\ PauseAuction
  \/ r.event = "resumeAuction" /\ ResumeAuction
  \/ r.event = "undoSoldPlayer" /\ UndoSoldPlayer(r.player)
  \/ r.event = "enterAssignmentPhase" /\ EnterAssignmentPhase
  \/ r.event = "manualAssignPlayer" /\ ManualAssignPlayer(r.player, r.captain)
  \/ r.event = "timerExpired" /\ AutoConfirmOnTimeout

(* The answer { confirmed: false }                                                       *)
NotConfirmed ==
  \/ auction.phase = "SOLD" \/ auction.current = None
  \/ HighestBidders(auction.current) # {} /\ AlreadySold

WithoutCall(r) == UNCHANGED auctionVars /\ ~ ENABLED ServiceCall(r)

ReadFor(h, r, event) == Does(h, [at |-> "read", event |-> event])

(* Mutant: the room is told of a sale only when the timer or the master made it.         *)
CallServiceQuietly(h) ==
  LET r == task[h].request IN
  /\ task[h].at = "call"
  /\ \/ ServiceCall(r)
        /\ IF r.event = "autoConfirm" THEN Ends(h) ELSE ReadFor(h, r, Told[r.event])
     \/ /\ WithoutCall(r)
        /\ CASE r.event = "confirmBid" /\ NotConfirmed -> ReadFor(h, r, Bare)
             [] r.event = "timerExpired" -> ReadFor(h, r, Told[r.event])
             [] OTHER -> Ends(h)
  /\ UNCHANGED <<online, joined, view, inbox, latest>>

(* The service's transaction.  A confirmation that comes too late is told with the bare   *)
(* state, the end of the countdown always with a whole one (a sale by it as bidConfirmed,  *)
(* which the pages treat alike); an error goes to the sender only.                         *)
CallService(h) ==
  LET r == task[h].request IN
  /\ task[h].at = "call"
  /\ \/ ServiceCall(r) /\ ReadFor(h, r, Told[r.event])
     \/ /\ WithoutCall(r)
        /\ CASE r.event = "confirmBid" /\ NotConfirmed -> ReadFor(h, r, Bare)
             [] r.event = "timerExpired" -> ReadFor(h, r, Told[r.event])
             [] OTHER -> Ends(h)
  /\ UNCHANGED <<online, joined, view, inbox, latest>>

ReadState(h) ==
  /\ task[h].at = "read"
  /\ Does(h, [at |-> "tell", event |-> task[h].event,
              state |-> IF task[h].event \in Unheard \cup {Bare} THEN None ELSE RoomState])
  /\ UNCHANGED <<auctionVars, online, joined, view, inbox, latest>>

Broadcast(msg) ==
  /\ \A c \in Client : joined[c] => Len(inbox[c]) < MaxInbox
  /\ inbox' = [c \in Client |-> IF joined[c] THEN Append(inbox[c], msg) ELSE inbox[c]]

(* A bid that was told is checked for rivals.                                              *)
Tell(h) ==
  LET event == task[h].event  state == task[h].state IN
  /\ task[h].at = "tell"
  /\ Broadcast([event |-> event, state |-> state])
  /\ latest' = CASE event \in Unheard -> [latest EXCEPT !.current = FALSE]
                 [] event = Bare -> [state |-> None, current |-> TRUE]
                 [] OTHER -> [state |-> state, current |-> state = RoomState]
  /\ Does(h, IF event = "bidPlaced" THEN [at |-> "check"] ELSE Resting)
  /\ UNCHANGED <<auctionVars, online, joined, view>>

CheckRivals(h) ==
  /\ task[h].at = "check"
  /\ IF NoRivalCanBid
     THEN Does(h, [at |-> "call", request |-> Req("autoConfirm"), shown |-> None])
     ELSE Ends(h)
  /\ UNCHANGED <<auctionVars, online, joined, view, inbox, latest>>

-----------------------------------------------------------------------------
TaskStep(h) ==
  \/ JoinRoom(h) \/ AnswerJoin(h)
  \/ CallService(h) \/ ReadState(h) \/ Tell(h) \/ CheckRivals(h)

RoomNext ==
  \/ \E h \in Task : TaskStep(h) \/ DirectEvent(h) \/ TimerExpires(h)
  \/ \E h \in Task, c \in Client : Connect(h, c) \/ PageClick(h, c)
  \/ \E c \in Client : Hear(c) \/ Disconnect(c) \/ ClosePage(c)

RoomSpec == RoomInit /\ [][RoomNext]_allRoomVars

-----------------------------------------------------------------------------
(* Whoever joins or leaves in between, however often the connection is lost: a page that   *)
(* has heard all that was sent to it shows what was told last, or nothing since it joined.   *)
PagesFollowBroadcasts ==
  \A c \in Client :
    /\ joined[c] /\ inbox[c] = <<>>
    /\ \A h \in Task : task[h].at \in {"join", "answer"} => task[h].by # c
    => view[c] \in {None, latest.state}

(* No change goes untold: when no handler is at work the last broadcast is the state of the  *)
(* auction, unless it was sent with a state read before another handler's change, or the     *)
(* change is one the pages do not listen for.                                                *)
ChangesAreTold ==
  (\A h \in Task : task[h] = Resting) /\ latest.current => latest.state \in {None, RoomState}

(* A captain's bid counts for the player who was on the screen it was made on, or not at all, *)
(* whoever is up when it arrives.                                                             *)
BidsOnThePlayerShown ==
  [][\A h \in Task :
       task[h].at = "call" /\ task[h].request.event = "placeBid" /\ task'[h] # task[h]
       /\ bid' # bid =>
         /\ auction.current = task[h].shown
         /\ bid'[task[h].request.captain][task[h].shown]
              > bid[task[h].request.captain][task[h].shown]]_allRoomVars

-----------------------------------------------------------------------------
(* Claims of the documentation that the code does not keep.                                 *)

(* A page that has joined, or joined again, has the state of the room                       *)
(* (docs/auction/PROCESS.md:134, use-auction-socket.ts:68).                                  *)
JoinedPageShowsRoom ==
  \A c \in Client :
    joined[c] /\ inbox[c] = <<>> /\ (\A h \in Task : task[h] = Resting) => view[c] # None

(* After a player is passed or the time is up the master can put up another                   *)
(* (docs/auction/PROCESS.md:97): the phase stays BIDDING, and no button fits it.               *)
MasterCanGoOn ==
  \A s \in {RoomState} :
    s.status = "ONGOING" /\ s.current = None /\ OpenPlayers(s) # {} =>
      \E q \in AuctionOngoingMaster(s) : q.event \in {"selectPlayer", "enterAssignmentPhase"}
=============================================================================
