--------------------------- MODULE AuctionRoster ---------------------------
(***************************************************************************)
(* Setting an auction up (the first half of auctions.service.ts): joining, *)
(* enrolling captains and players, changing the settings, deleting.  These *)
(* operations use no transaction and lock nothing: each reads the auction  *)
(* and the participants and writes later, statement by statement, and saves *)
(* back whole entities it has read.  They meet each other and the locked    *)
(* transactions of the master; bids are left out, there is nobody to sell   *)
(* before the set-up is over.                                               *)
(***************************************************************************)
EXTENDS Auction

CONSTANTS
  Candidate,    \* users who join or are enrolled
  NewStart,     \* starting points a settings request may carry
  NewTeams,     \* team counts it may carry
  MaxRequests,  \* bound: requests in progress at once
  MaxCrashes    \* bound: requests whose process dies half way

ASSUME BoundsAssumption == MaxRequests \in Nat /\ MaxCrashes \in Nat
ASSUME InputAssumption == Candidate \subseteq User /\ NewStart \subseteq Nat /\ NewTeams \subseteq Nat

VARIABLES
  requests,  \* what each request in progress has read and still has to write
  crashes

rosterVars == <<auctionVars, requests, crashes>>

Request ==
       [op : {"insert"}, user : User, role : Role, points : Nat, rest : SUBSET User]
  \cup [op : {"save", "remove"}, row : Row, entity : Entry]
  \cup [op : {"bulk"}, users : SUBSET User]
  \cup [op : {"updateCaptains", "saveAuction"}, entity : AuctionRow, loaded : SUBSET Row]
  \cup [op : {"deleteBids", "removeAuction", "deleteParticipants"}]

RosterTypeOK ==
  /\ AuctionTypeOK
  /\ requests \subseteq Request
  /\ crashes \in 0..MaxCrashes

RosterInit ==
  /\ AuctionInit
  /\ requests = {}
  /\ crashes = 0

-----------------------------------------------------------------------------
Used == {r \in Row : entry[r] # None}
FreeRow == CHOOSE r \in Row : entry[r] = None

(* Mutant: the price of a new row is not set.                                  *)
NewEntryUnpriced(u, role, points) ==
  [user |-> u, role |-> role, points |-> points, team |-> None, price |-> None, unsold |-> FALSE]

NewEntry(u, role, points) ==
  [user |-> u, role |-> role, points |-> points, team |-> None, price |-> 0, unsold |-> FALSE]

(* A request reads what it needs and goes on with q.                           *)
Begin(q) ==
  /\ Cardinality(requests) < MaxRequests
  /\ requests' = requests \cup {q}
  /\ UNCHANGED <<auctionVars, crashes>>

(* Request q has written all it had to.                                        *)
End(q) == requests' = requests \ {q}

Continue(q, next) == requests' = (requests \ {q}) \cup {next}

(* The players of a list that are still to be added.                           *)
Bulk(U) == IF U = {} THEN {} ELSE {[op |-> "bulk", users |-> U]}

InsertOf(u, role, points, rest) ==
  [op |-> "insert", user |-> u, role |-> role, points |-> points, rest |-> rest]

IsPending == auction.status = "PENDING"

PointsAs(role) == IF role = "CAPTAIN" THEN auction.start ELSE 0

(* Mutant: nobody looks whether the user has joined already.                   *)
JoinAgain(u, role) == Loaded /\ Begin(InsertOf(u, role, PointsAs(role), {}))

(* In any state of the auction, and as a captain of any number.                *)
Join(u, role) == Loaded /\ Find(u) = {} /\ Begin(InsertOf(u, role, PointsAs(role), {}))

AddPlayer(u) == IsPending /\ Find(u) = {} /\ Begin(InsertOf(u, "PLAYER", 0, {}))

(* The status is read once for all players of a list.                          *)
AddPlayers(U) == IsPending /\ Begin([op |-> "bulk", users |-> U])

(* Mutant: the loop ends at the first of the list who takes part already.       *)
AddNextStopping(q, u) ==
  /\ q.op = "bulk" /\ u \in q.users
  /\ requests' = (requests \ {q}) \cup
       (IF Find(u) = {} THEN {InsertOf(u, "PLAYER", 0, q.users \ {u})} ELSE {})
  /\ UNCHANGED <<auctionVars, crashes>>

AddNext(q, u) ==
  /\ q.op = "bulk" /\ u \in q.users
  /\ requests' = (requests \ {q}) \cup
       (IF Find(u) = {} THEN {InsertOf(u, "PLAYER", 0, q.users \ {u})} ELSE Bulk(q.users \ {u}))
  /\ UNCHANGED <<auctionVars, crashes>>

CaptainAllowed(u) ==
  /\ IsPending /\ Cardinality(Captains) < auction.teams
  /\ Find(u) = {} \/ FindRole(u, "PLAYER") # {}

(* Someone who is a player becomes a captain.                                  *)
AddCaptain(u) ==
  /\ CaptainAllowed(u)
  /\ \/ /\ Find(u) = {}
        /\ Begin(InsertOf(u, "CAPTAIN", auction.start, {}))
     \/ \E r \in FindRole(u, "PLAYER") :
          Begin([op |-> "save", row |-> r,
                 entity |-> [entry[r] EXCEPT !.role = "CAPTAIN", !.points = auction.start]])

RemoveParticipant(u) ==
  IsPending /\ \E r \in Find(u) : Begin([op |-> "remove", row |-> r, entity |-> entry[r]])

RemoveCaptain(u) ==
  /\ IsPending
  /\ \E r \in FindRole(u, "CAPTAIN") : Begin([op |-> "remove", row |-> r, entity |-> entry[r]])

(* The points of the captains are touched only if the settings name new ones.   *)
UpdateAuctionSettings(start, teams) ==
  /\ IsPending
  /\ \/ Begin([op |-> "updateCaptains", loaded |-> Used,
               entity |-> [auction EXCEPT !.start = start, !.teams = teams]])
     \/ Begin([op |-> "saveAuction", loaded |-> Used,
               entity |-> [auction EXCEPT !.teams = teams]])

Deletable == auction.status \in {"PENDING", "CANCELLED", "COMPLETED"}

DeleteAuction ==
  /\ Deletable
  /\ Begin([op |-> "deleteParticipants"])

-----------------------------------------------------------------------------
(* The writes.                                                                  *)

(* The foreign key refuses a participant of an auction that is gone.            *)
Insert(q) ==
  /\ q.op = "insert" /\ Row # Used
  /\ entry' = IF Loaded THEN [entry EXCEPT ![FreeRow] = NewEntry(q.user, q.role, q.points)]
              ELSE entry
  /\ requests' = (requests \ {q}) \cup (IF Loaded THEN Bulk(q.rest) ELSE {})
  /\ UNCHANGED <<auction, bid, crashes>>

(* save() writes every column that differs, and inserts the row if it is gone.  *)
Save(q) ==
  /\ q.op = "save" /\ End(q)
  /\ entry' = IF Loaded THEN [entry EXCEPT ![q.row] = q.entity] ELSE entry
  /\ UNCHANGED <<auction, bid, crashes>>

Remove(q) ==
  /\ q.op = "remove" /\ End(q)
  /\ entry' = [entry EXCEPT ![q.row] = None]
  /\ UNCHANGED <<auction, bid, crashes>>

(* Mutant: only the auction gets the new starting points.                       *)
CaptainsUntouched(q) == entry

CaptainsUpdated(q) ==
  [r \in Row |-> IF r \in Captains THEN [entry[r] EXCEPT !.points = q.entity.start]
                 ELSE entry[r]]

UpdateCaptains(q) ==
  /\ q.op = "updateCaptains" /\ Continue(q, [q EXCEPT !.op = "saveAuction"])
  /\ entry' = CaptainsUpdated(q)
  /\ UNCHANGED <<auction, bid, crashes>>

(* The entity was loaded with its participants: TypeORM would detach the rows    *)
(* that were added since, which their NOT NULL foreign key refuses; else it      *)
(* writes every column as it was loaded or changed, the status included, and     *)
(* inserts the auction if it is gone.                                            *)
SaveAuction(q) ==
  /\ q.op = "saveAuction" /\ End(q)
  /\ auction' = IF Used \subseteq q.loaded THEN q.entity ELSE auction
  /\ UNCHANGED <<entry, bid, crashes>>

DeleteParticipants(q) ==
  /\ q.op = "deleteParticipants" /\ Continue(q, [op |-> "deleteBids"])
  /\ entry' = [r \in Row |-> None]
  /\ UNCHANGED <<auction, bid, crashes>>

DeleteBids(q) ==
  /\ q.op = "deleteBids" /\ Continue(q, [op |-> "removeAuction"])
  /\ bid' = [u \in User |-> [t \in User |-> 0]]
  /\ UNCHANGED <<auction, entry, crashes>>

(* ON DELETE CASCADE takes what was added in the meantime.                        *)
RemoveAuction(q) ==
  /\ q.op = "removeAuction" /\ End(q)
  /\ auction' = [NewAuction EXCEPT !.status = "GONE"]
  /\ entry' = [r \in Row |-> None]
  /\ bid' = [u \in User |-> [t \in User |-> 0]]
  /\ UNCHANGED crashes

Crash(q) ==
  /\ crashes < MaxCrashes /\ crashes' = crashes + 1
  /\ End(q) /\ UNCHANGED auctionVars

Write(q) ==
  \/ \E u \in User : AddNext(q, u)
  \/ Insert(q) \/ Save(q) \/ Remove(q)
  \/ UpdateCaptains(q) \/ SaveAuction(q)
  \/ DeleteParticipants(q) \/ DeleteBids(q) \/ RemoveAuction(q)

Receive ==
  \/ \E u \in Candidate :
       \/ \E role \in Role : Join(u, role)
       \/ AddPlayer(u) \/ AddCaptain(u) \/ RemoveParticipant(u) \/ RemoveCaptain(u)
  \/ \E U \in (SUBSET Candidate) \ {{}} : AddPlayers(U)
  \/ \E start \in NewStart, teams \in NewTeams : UpdateAuctionSettings(start, teams)
  \/ DeleteAuction

(* One call after the other, none cut short.                                      *)
SerialNext ==
  \/ requests = {} /\ Receive
  \/ \E q \in requests : Write(q)
  \/ requests = {} /\ MasterStep /\ UNCHANGED <<requests, crashes>>

SerialSpec == RosterInit /\ [][SerialNext]_rosterVars

(* What the server does.                                                          *)
RosterNext ==
  \/ Receive
  \/ \E q \in requests : Write(q) \/ Crash(q)
  \/ MasterStep /\ UNCHANGED <<requests, crashes>>

RosterSpec == RosterInit /\ [][RosterNext]_rosterVars

-----------------------------------------------------------------------------
(* A user takes part at most once ("Already joined", auctions.service.ts:102).     *)
OneRowPerUser == \A u \in User : Cardinality(Find(u)) <= 1

(* Between requests every captain who has bought nobody has the starting points    *)
(* of the auction ("Update all captains' points", auctions.service.ts:291).        *)
CaptainsHaveStart ==
  requests = {} /\ Loaded => \A c \in Captains : entry[c].points = auction.start

(* Nobody takes part twice, at any time, and an auction that waits to be started, with *)
(* no request in progress, is one that the bidding may begin with: nobody in a team or  *)
(* paid for yet, and every captain with the starting points, whatever was joined,       *)
(* removed, made a captain, reset or deleted and created again before                   *)
(* (auctions.service.ts:102, :291, :332).                                               *)
SetUpIsOrderly ==
  /\ OneRowPerUser
  /\ IsPending /\ requests = {} =>
       \A r \in Used :
         /\ entry[r].team = None /\ entry[r].price = 0 /\ ~ entry[r].unsold
         /\ entry[r].role = "CAPTAIN" => entry[r].points = auction.start

(* An auction that has started never waits to be started again                      *)
(* (docs/auction/PROCESS.md:69).                                                    *)
StartedStaysStarted == [][auction.status # "PENDING" => auction'.status # "PENDING"]_rosterVars

(* "At most teamCount teams" (auctions.service.ts:215).                             *)
TeamLimit == Cardinality(Captains) <= auction.teams
=============================================================================
