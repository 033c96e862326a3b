--------------------------- MODULE AuctionTimers ---------------------------
(***************************************************************************)
(* The gateway of an auction (modules/auctions/auction.gateway.ts): socket  *)
(* handlers that call the service and wait for it, and the countdown it     *)
(* keeps in the memory of the process, which ends the bidding when it runs  *)
(* out.                                                                    *)
(*                                                                         *)
(* The process runs one handler at a time, but handlers meet at every       *)
(* await.  A step is what happens between two awaits: one transaction or    *)
(* one read of the database, or the synchronous code that follows it.       *)
(* Handlers that only call the service, and the REST routes, which know     *)
(* nothing of the timer, are the steps of module Auction themselves.        *)
(***************************************************************************)
EXTENDS Auction

CONSTANTS
  Handler,    \* handlers that can be in progress at once
  Message,    \* the events clients send
  MaxRestarts \* bound: restarts of the process

ASSUME MaxRestartsAssumption == MaxRestarts \in Nat

VARIABLES
  timer,     \* seconds left of the countdown, None if no timer is set
  job,       \* what each handler does next, and the seconds it has read
  expiring,  \* the countdown has run out and its transaction is still to come
  restarts,  \* restarts so far
  dropped    \* history: open bidding has lost its countdown in a way the code lets it

gatewayVars == <<timer, job, expiring, restarts, dropped>>
vars == <<auctionVars, gatewayVars>>

(* Events whose handler stops the timer before it calls the service.          *)
StopFirst == {"confirmBid", "passPlayer", "resetAuction", "pauseAuction", "pauseTimer"}

Todo == StopFirst \cup
  {"idle", "checkAutoConfirm", "autoConfirm", "resetTimer", "confirmChecked",
   "startTimer", "readRoomState", "resumeTimer"}

TimersTypeOK ==
  /\ AuctionTypeOK
  /\ timer \in 1..Turn \cup {None}
  /\ job \in [Handler -> [todo : Todo, secs : 0..Turn]]
  /\ expiring \in BOOLEAN
  /\ restarts \in 0..MaxRestarts
  /\ dropped \in BOOLEAN

Idle == [todo |-> "idle", secs |-> 0]

Init ==
  /\ AuctionInit
  /\ timer = None
  /\ job = [h \in Handler |-> Idle]
  /\ expiring = FALSE
  /\ restarts = 0
  /\ dropped = FALSE

-----------------------------------------------------------------------------
(* The countdown.                                                             *)

StartTimer(secs) == timer' = secs /\ dropped' = FALSE
StopTimer == timer' = None /\ UNCHANGED dropped

BiddingOpen(p) ==
  IsOngoing /\ ~ auction.timerPaused /\ auction.phase = "BIDDING" /\ auction.current = p

(* History: a step that leaves bidding open without a countdown is remembered, until a  *)
(* countdown is started.  Only refused calls, restarts and REST selections do so.        *)
NoteDrop ==
  dropped' = ((\E p \in User : BiddingOpen(p)') /\ timer' = None /\ ~ expiring')

ThenDo(h, todo) == job' = [job EXCEPT ![h] = [todo |-> todo, secs |-> 0]]
ThenDoWith(h, todo, secs) == job' = [job EXCEPT ![h] = [todo |-> todo, secs |-> secs]]
Done(h) == job' = [job EXCEPT ![h] = Idle]

Arrives(h, msg) == msg \in Message /\ job[h].todo = "idle"

(* Mutant: only null gives the full turn.                                      *)
OrTurnNullish(x) == IF x = None THEN Turn ELSE x

(* x || turnTimeLimit: null and 0 give the full turn.                          *)
OrTurn(x) == IF x \in {None, 0} THEN Turn ELSE x

(* Time passes for the row and for the timer alike.  A callback that is due is   *)
(* called before the countdown can run out again.                              *)
Second ==
  /\ timer # None \/ auction.left \notin {None, 0}
  /\ auction' = [auction EXCEPT !.left = IF @ \in {None, 0} THEN @ ELSE @ - 1]
  /\ timer' = IF timer \in {None, 1} THEN None ELSE timer - 1
  /\ expiring' = (expiring \/ timer = 1)
  /\ UNCHANGED <<entry, bid, job, restarts, dropped>>

(* Mutant: nothing is done when the time is up and nobody has bid.             *)
HandleTimerExpiredSold ==
  /\ expiring /\ expiring' = FALSE
  /\ IF Confirmable /\ IsOngoing /\ HighestBidders(auction.current) # {}
     THEN AutoConfirmOnTimeout ELSE UNCHANGED auctionVars
  /\ UNCHANGED <<timer, job, restarts, dropped>>

HandleTimerExpired ==
  /\ expiring /\ expiring' = FALSE
  /\ \/ AutoConfirmOnTimeout
     \/ ~ (Confirmable /\ IsOngoing /\ (HighestBidders(auction.current) # {} => ~ AlreadySold))
        /\ UNCHANGED auctionVars
  /\ UNCHANGED <<timer, job, restarts, dropped>>

-----------------------------------------------------------------------------
(* Bids.                                                                       *)

HandlePlaceBid(h, u, t, amt) ==
  /\ Arrives(h, "placeBid") /\ PlaceBid(u, t, amt)
  /\ ThenDo(h, "checkAutoConfirm")
  /\ UNCHANGED <<timer, expiring, restarts, dropped>>

CheckAutoConfirm(h) ==
  /\ job[h].todo = "checkAutoConfirm"
  /\ ThenDo(h, IF NoRivalCanBid THEN "autoConfirm" ELSE "resetTimer")
  /\ UNCHANGED <<auctionVars, timer, expiring, restarts, dropped>>

(* The answer of the check has arrived.                                        *)
ActOnCheck(h) ==
  /\ \/ job[h].todo = "autoConfirm" /\ StopTimer /\ ThenDo(h, "confirmChecked")
     \/ job[h].todo = "resetTimer" /\ StartTimer(Turn) /\ Done(h)
  /\ UNCHANGED <<auctionVars, expiring, restarts>>

ReadyToConfirm == Confirmable /\ HighestBidders(auction.current) # {} /\ ~ AlreadySold

(* Whichever player is the current one by now; the error for one without bids  *)
(* goes to the bidder.                                                         *)
ConfirmChecked(h) ==
  /\ job[h].todo = "confirmChecked" /\ Done(h)
  /\ UNCHANGED <<timer, expiring, restarts>>
  /\ \/ ConfirmCurrentBid /\ UNCHANGED dropped
     \/ ~ ReadyToConfirm /\ UNCHANGED auctionVars /\ NoteDrop

-----------------------------------------------------------------------------
(* The master's events.                                                        *)

HandleSelectPlayer(h, p) ==
  /\ Arrives(h, "selectPlayer") /\ SelectPlayer(p)
  /\ ThenDoWith(h, "startTimer", Turn)
  /\ UNCHANGED <<timer, expiring, restarts, dropped>>

StartTimerAfterRead(h) ==
  /\ job[h].todo = "startTimer"
  /\ StartTimer(job[h].secs)
  /\ Done(h)
  /\ UNCHANGED <<auctionVars, expiring, restarts>>

(* The event of anybody who is signed in.                                               *)
HandleStopFirst(h, msg) ==
  /\ Arrives(h, msg) /\ msg \in StopFirst
  /\ StopTimer
  /\ ThenDo(h, msg)
  /\ UNCHANGED <<auctionVars, expiring, restarts>>

Call(msg) ==
  \/ msg = "confirmBid" /\ ConfirmCurrentBid
  \/ msg = "passPlayer" /\ PassCurrentPlayer
  \/ msg = "resetAuction" /\ Reset
  \/ msg = "pauseAuction" /\ PauseAuction
  \/ msg = "pauseTimer" /\ PauseTimer

(* The service refuses the call, or does nothing, also when the state is right for it:  *)
(* the creator of the auction is told from others only now (auctions.service.ts:90), and  *)
(* the timer they have stopped stays so.                                                 *)
CallStopped(h) ==
  /\ job[h].todo \in StopFirst /\ Done(h)
  /\ UNCHANGED <<timer, expiring, restarts>>
  /\ \/ Call(job[h].todo) /\ UNCHANGED dropped
     \/ UNCHANGED auctionVars /\ NoteDrop

HandleResumeAuction(h) ==
  /\ Arrives(h, "resumeAuction") /\ ResumeAuction
  /\ ThenDo(h, "readRoomState")
  /\ UNCHANGED <<timer, expiring, restarts, dropped>>

(* Mutant: the timer is started again only if time was saved.                  *)
ReadRoomStateStrict(h) ==
  /\ job[h].todo = "readRoomState"
  /\ IF auction.current # None /\ ~ auction.timerPaused /\ auction.pausedLeft # None
     THEN ThenDoWith(h, "startTimer", OrTurn(auction.pausedLeft))
     ELSE Done(h)
  /\ UNCHANGED <<auctionVars, timer, expiring, restarts, dropped>>

(* resumeAuction has already set the saved time to null.                       *)
ReadRoomState(h) ==
  /\ job[h].todo = "readRoomState"
  /\ IF auction.current # None /\ ~ auction.timerPaused
     THEN ThenDoWith(h, "startTimer", OrTurn(auction.pausedLeft))
     ELSE Done(h)
  /\ UNCHANGED <<auctionVars, timer, expiring, restarts, dropped>>

HandleResumeTimer(h) ==
  /\ Arrives(h, "resumeTimer")
  /\ ThenDoWith(h, "resumeTimer", OrTurn(auction.pausedLeft))
  /\ UNCHANGED <<auctionVars, timer, expiring, restarts, dropped>>

(* Refused to others than the creator, and while the timer runs.                         *)
CallResumeTimer(h) ==
  /\ job[h].todo = "resumeTimer"
  /\ \/ ResumeTimer /\ ThenDoWith(h, "startTimer", job[h].secs)
     \/ Done(h) /\ UNCHANGED auctionVars
  /\ UNCHANGED <<timer, expiring, restarts, dropped>>

(* Events that are passed to the service and touch no timer.                   *)
HandlePlain ==
  /\ \/ "startAuction" \in Message /\ Start
     \/ "completeAuction" \in Message /\ Complete
     \/ "nextPlayer" \in Message /\ NextPlayer
     \/ "enterAssignmentPhase" \in Message /\ EnterAssignmentPhase
     \/ "undoSoldPlayer" \in Message /\ \E p \in User : UndoSoldPlayer(p)
     \/ "manualAssignPlayer" \in Message /\ \E p, c \in User : ManualAssignPlayer(p, c)
  /\ UNCHANGED gatewayVars

(* POST /auctions/:id/bid and PATCH /auctions/:id/select-player                 *)
RestCall ==
  /\ UNCHANGED <<timer, job, expiring, restarts>>
  /\ \/ /\ "restBid" \in Message /\ \E u, t \in User, amt \in BidAmount : PlaceBid(u, t, amt)
        /\ UNCHANGED dropped
     \/ "restSelect" \in Message /\ (\E p \in User : SelectPlayer(p)) /\ NoteDrop

(* Timers and handlers die with the process.                                    *)
Restart ==
  /\ restarts < MaxRestarts /\ restarts' = restarts + 1
  /\ timer' = None /\ expiring' = FALSE
  /\ job' = [h \in Handler |-> Idle]
  /\ UNCHANGED auctionVars
  /\ NoteDrop

HandlerStep(h) ==
  \/ CheckAutoConfirm(h) \/ ActOnCheck(h) \/ ConfirmChecked(h) \/ StartTimerAfterRead(h)
  \/ CallStopped(h) \/ ReadRoomState(h) \/ CallResumeTimer(h)

Event(h) ==
  \/ \E u, t \in User, amt \in BidAmount : HandlePlaceBid(h, u, t, amt)
  \/ \E p \in User : HandleSelectPlayer(h, p)
  \/ \E msg \in StopFirst : HandleStopFirst(h, msg)
  \/ HandleResumeAuction(h) \/ HandleResumeTimer(h)

Next ==
  \/ \E h \in Handler : HandlerStep(h) \/ Event(h)
  \/ HandlePlain \/ RestCall
  \/ Second \/ HandleTimerExpired
  \/ Restart

Spec == Init /\ [][Next]_vars

(* The process continues what it has begun, the clock runs, and a callback that   *)
(* is due is called.  Nobody has to send anything.                                 *)
Fairness ==
  /\ \A h \in Handler : WF_vars(HandlerStep(h))
  /\ WF_vars(Second)
  /\ WF_vars(HandleTimerExpired)

FairSpec == Spec /\ Fairness

-----------------------------------------------------------------------------
(* While bidding is open and nothing is under way, a countdown is running, unless it was *)
(* lost in one of the ways NoteDrop names.                                               *)
OpenBiddingHasTimer ==
  /\ \E p \in User : BiddingOpen(p)
  /\ ~ expiring /\ \A h \in Handler : job[h] = Idle
  /\ ~ dropped
  => timer # None

(* Bidding that is open comes to an end by itself, or its player gets a new turn, unless  *)
(* the countdown was lost in one of the ways NoteDrop names.                             *)
BiddingEnds ==
  \A p \in User :
    BiddingOpen(p) ~>
      ~ BiddingOpen(p) \/ dropped \/ \E h \in Handler : job[h].todo = "startTimer"

(* When the time of a player is up the backend sells the player or passes on              *)
(* (docs/handoff.md:94): bidding that is open comes to an end, or its player gets a new    *)
(* turn, whatever else happens.                                                           *)
TimeUpDecides ==
  \A p \in User :
    BiddingOpen(p) ~> ~ BiddingOpen(p) \/ \E h \in Handler : job[h].todo = "startTimer"

(* A countdown that runs out decides on the player it was started for, who has had   *)
(* the whole turn: "30 to 60 seconds per player" (docs/handoff.md:93), extended by   *)
(* every bid (auctions-bidding.service.ts:25).                                       *)
DecidedOnlyAtEndTime ==
  [][HandleTimerExpired /\ auction' # auction => auction.left = 0]_vars

(* A resumed auction runs for the time that was left: "Restore timer if we have       *)
(* remaining time" (auctions.service.ts:519).                                         *)
ResumedTimerRunsTheRest ==
  [][\A h \in Handler :
       job[h].todo = "readRoomState" /\ job'[h].todo = "startTimer" =>
         job'[h].secs = auction.left]_vars

(* A bid is confirmed by the gateway only when no rival can outbid it                  *)
(* (auctions-bidding.service.ts:29).                                                   *)
AutoConfirmedOnlyUnrivalled ==
  [][\A h \in Handler : ConfirmChecked(h) /\ entry' # entry => NoRivalCanBid]_vars
=============================================================================
