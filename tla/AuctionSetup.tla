---------------------------- MODULE AuctionSetup ----------------------------
(***************************************************************************)
(* The master's page before the auction begins (frontend modules/auction:   *)
(* auction-no-active, create-auction-dialog, auction-pending-master and its *)
(* user-picker-dialog) over module AuctionRoster.  The page shows the       *)
(* auction the list had when it was last read.  It knows the participants   *)
(* only from a broadcast (module AuctionRoom), of a pending auction that is *)
(* the one of a reset, and the set-up requests broadcast nothing: until     *)
(* then it offers to add players and to cancel, afterwards everything, on   *)
(* the participants of that time.  Others call the same server.             *)
(***************************************************************************)
EXTENDS AuctionRoster

VARIABLES
  current,  \* the status of the auction the page shows, "none" without one
  room,     \* the participants the pending page knows, None if it has not been told
  dialog,   \* what is open on the page
  chosen,   \* the users chosen in the picker
  waiting,  \* what the picker waits for; "other" if only the list is to be read again
            \* after a request of the page, "none" if there is no request
  calls     \* the captains whose requests are still to be served

pageVars == <<current, room, dialog, chosen, waiting, calls>>
setupVars == <<rosterVars, pageVars>>

Picker == {"captains", "players"}
Dialog == {"none", "create", "cancel", "start"} \cup Picker

SetupTypeOK ==
  /\ RosterTypeOK
  /\ current \in {"none"} \cup AuctionStatus
  /\ room # None =>
       /\ current = "PENDING"
       /\ room.captains \cup room.players \subseteq User /\ room.teams \in Nat
  /\ dialog \in Dialog
  /\ chosen \subseteq User /\ (chosen # {} => dialog \in Picker)
  /\ waiting \in {"none", "other"} \cup Picker /\ (waiting \in Picker => dialog = waiting)
  /\ calls \subseteq User

SetupInit ==
  /\ RosterInit
  /\ current = "PENDING" /\ room = None
  /\ dialog = "none" /\ chosen = {}
  /\ waiting = "none" /\ calls = {}

(* What the list has; a cancelled auction is not shown. *)
CurrentAuction ==
  IF auction.status \in {"GONE", "CANCELLED"} THEN "none" ELSE auction.status

ShownUsers(R) == {entry[r].user : r \in R}

RoomShown ==
  [captains |-> ShownUsers(Captains), players |-> ShownUsers(Players), teams |-> auction.teams]

(* Counts and buttons of a page that knows nobody are those of no captain, no       *)
(* player and no team.                                                               *)
Known == IF room = None THEN [captains |-> {}, players |-> {}, teams |-> 0] ELSE room

CanAddCaptain == Cardinality(Known.captains) < Known.teams
StartOffered == Cardinality(Known.captains) = Known.teams /\ Known.players # {}

Shuts == dialog' = "none" /\ chosen' = {}

(* Another page, or nobody's, takes the place of this one with all that is open.     *)
Leaves == Shuts /\ waiting' = (IF waiting = "none" THEN "none" ELSE "other")

-----------------------------------------------------------------------------
(* The list is read again when the window gets the focus.  A page that has been told  *)
(* of the participants goes by what it was told, until the auction is gone.           *)
Focus ==
  /\ CurrentAuction # current
  /\ room # None => CurrentAuction = "none"
  /\ current' = CurrentAuction /\ room' = None
  /\ Leaves
  /\ UNCHANGED <<rosterVars, calls>>

Opens(d) ==
  /\ dialog = "none"
  /\ current = IF d = "create" THEN "none" ELSE "PENDING"
  /\ d = "captains" => CanAddCaptain
  /\ d = "start" => StartOffered
  /\ dialog' = d
  /\ UNCHANGED <<rosterVars, current, room, chosen, waiting, calls>>

(* A picker cannot be closed while it waits. *)
Closes ==
  /\ dialog # "none" /\ waiting # dialog
  /\ dialog' = "none" /\ chosen' = {}
  /\ UNCHANGED <<rosterVars, current, room, waiting, calls>>

(* The users the page knows to take part are not listed. *)
Toggle(u) ==
  /\ dialog \in Picker /\ waiting # dialog
  /\ u \notin Known.captains \cup Known.players
  /\ chosen' = IF u \in chosen THEN chosen \ {u} ELSE chosen \cup {u}
  /\ UNCHANGED <<rosterVars, current, room, dialog, waiting, calls>>

(* Bound: no second auction beside one there is.                                    *)
CreateAuction(start, teams) ==
  /\ dialog = "create" /\ auction.status = "GONE"
  /\ auction' = [NewAuction EXCEPT !.start = start, !.teams = teams]
  /\ current' = "PENDING" /\ dialog' = "none"
  /\ UNCHANGED <<entry, bid, requests, crashes, room, chosen, waiting, calls>>

-----------------------------------------------------------------------------
(* The requests of the pending page, one at a time unless several captains are       *)
(* added; its dialogs close whether the server does what is asked or refuses.         *)
Asks == waiting = "none" /\ requests = {} /\ UNCHANGED <<current, room>>

HandleAddPlayers ==
  /\ Asks /\ dialog = "players" /\ chosen # {} /\ UNCHANGED calls
  /\ \/ AddPlayers(chosen) /\ waiting' = "players" /\ UNCHANGED <<dialog, chosen>>
     \/ ~ IsPending /\ dialog' = "none" /\ chosen' = {} /\ UNCHANGED <<rosterVars, waiting>>

(* One request for each.                                                              *)
HandleAddCaptains ==
  /\ Asks /\ dialog = "captains" /\ chosen # {}
  /\ calls' = chosen /\ waiting' = "captains"
  /\ UNCHANGED <<rosterVars, dialog, chosen>>

(* The first that is refused closes the picker and the others go on; if it was the     *)
(* last there is nothing more to wait for.                                              *)
CaptainCall(u) ==
  /\ u \in calls /\ requests = {} /\ calls' = calls \ {u}
  /\ \/ AddCaptain(u) /\ UNCHANGED <<dialog, chosen, waiting>>
     \/ /\ ~ CaptainAllowed(u) /\ Shuts /\ UNCHANGED rosterVars
        /\ waiting' = IF calls' = {} THEN "none" ELSE "other"
  /\ UNCHANGED <<current, room>>

HandleRemove(u) ==
  /\ Asks /\ current = "PENDING" /\ dialog = "none"
  /\ \/ u \in Known.captains /\ RemoveCaptain(u)
     \/ u \in Known.players /\ RemoveParticipant(u)
  /\ waiting' = "other" /\ UNCHANGED <<dialog, chosen, calls>>

HandleCancel ==
  /\ Asks /\ dialog = "cancel"
  /\ \/ DeleteAuction /\ waiting' = "other"
     \/ ~ Deletable /\ UNCHANGED <<rosterVars, waiting>>
  /\ dialog' = "none" /\ UNCHANGED <<chosen, calls>>

(* An event of the gateway; when it succeeds the page is told, see Told.               *)
HandleStart ==
  /\ dialog = "start" /\ requests = {}
  /\ Start /\ current' = auction'.status /\ room' = None
  /\ Leaves
  /\ UNCHANGED <<requests, crashes, calls>>

(* The last write of a request of the page: the answer arrives, the list is read       *)
(* again and the picker that waits closes.                                              *)
Answered ==
  IF waiting # "none" /\ requests' = {} /\ calls = {}
  THEN /\ waiting' = "none"
       /\ current' = IF room = None \/ CurrentAuction' = "none" THEN CurrentAuction' ELSE current
       /\ room' = IF current' = "PENDING" THEN room ELSE None
       /\ IF waiting \in Picker \/ current' # current
          THEN dialog' = "none" /\ chosen' = {}
          ELSE UNCHANGED <<dialog, chosen>>
       /\ UNCHANGED calls
  ELSE UNCHANGED pageVars

(* A broadcast of what the master does elsewhere reaches the page or does not.          *)
Hears ==
  \/ UNCHANGED pageVars
  \/ /\ current # "none"
     /\ current' = auction'.status
     /\ room' = IF current' = "PENDING" THEN RoomShown' ELSE None
     /\ IF current' # current THEN Leaves ELSE UNCHANGED <<dialog, chosen, waiting>>
     /\ UNCHANGED calls

-----------------------------------------------------------------------------
PageStep ==
  \/ Focus \/ Closes
  \/ \E d \in Dialog \ {"none"} : Opens(d)
  \/ \E u \in Candidate : Toggle(u) \/ CaptainCall(u) \/ HandleRemove(u)
  \/ HandleAddPlayers \/ HandleAddCaptains \/ HandleCancel \/ HandleStart
  \/ \E start \in NewStart, teams \in NewTeams : CreateAuction(start, teams)

(* One request after the other, those of the page and those of others.                  *)
SetupNext ==
  \/ PageStep
  \/ requests = {} /\ Receive /\ UNCHANGED pageVars
  \/ requests = {} /\ MasterStep /\ Hears /\ UNCHANGED <<requests, crashes>>
  \/ \E q \in requests : Write(q) /\ Answered

SetupSpec == SetupInit /\ [][SetupNext]_setupVars

-----------------------------------------------------------------------------
(* When the page says that players were added, all who were chosen take part, also      *)
(* if some did before (auction-pending-master.tsx:71 and the list of the service,        *)
(* auctions.service.ts:153).                                                             *)
PickedTakePart ==
  [][waiting = "players" /\ waiting' = "none"
       => \A u \in chosen : \E r \in Row : entry'[r] # None /\ entry'[r].user = u]_setupVars

(* "It goes on with N captains and M players" (auction-pending-master.tsx:117): the       *)
(* auction starts with those the page showed.                                            *)
StartsAsShown ==
  [][dialog = "start" /\ auction.status = "PENDING" /\ auction'.status = "ONGOING"
       => RoomShown = room]_setupVars
=============================================================================
