-------------------------------- MODULE Clans --------------------------------
(***************************************************************************)
(* Clans (modules/clans/clans.service.ts): their members and roles, the     *)
(* requests to join, announcements and hall-of-fame entries.                 *)
(*                                                                         *)
(* Only the creation of a clan and addMember are transactions.  Every other *)
(* operation reads rows without a lock, decides, and saves or removes the   *)
(* entities it read: TypeORM writes the values of the entity to the row with *)
(* its id, inserts it if that row is gone, and removes by id.  A request is  *)
(* therefore two steps here, its reads and its write; another request may    *)
(* come in between.                                                          *)
(*                                                                         *)
(* No key makes a user's membership unique, and neither requests nor         *)
(* announcements name a clan: a check "the member" reads any row of a user.  *)
(***************************************************************************)
EXTENDS Naturals, FiniteSets, FiniteSetsExt

CONSTANTS
  User, Clan,
  Row,        \* ids of rows of clan_members
  Request,    \* ids of rows of clan_join_requests
  Item,       \* ids of announcements and hall-of-fame entries
  Session,    \* HTTP requests that may be in progress together
  None        \* no row, no user

ASSUME NoneAssumption == None \notin User \cup Clan

VARIABLES
  founder,    \* the user who created a clan (None: it does not exist)
  member,     \* clan_members
  request,    \* clan_join_requests
  item,       \* announcements and hall-of-fame entries
  call,       \* the requests in progress, between their reads and their write
  mishap      \* history: a save undid a change it had not read, or a master
              \* handed the clan to himself

vars == <<founder, member, request, item, call, mishap>>

ClanRole == {"MASTER", "MANAGER", "MEMBER"}
RequestStatus == {"PENDING", "APPROVED", "REJECTED"}

MemberRow == [clan : Clan, user : User, role : ClanRole]
RequestRow == [user : User, status : RequestStatus]
ItemRow == [kind : {"announcement", "hall"}, author : User, active : BOOLEAN]

ASSUME NoRowAssumption == None \notin MemberRow \cup RequestRow \cup ItemRow

(* A row to be saved with a value (or removed: None) that was computed from what  *)
(* was read of it.                                                                *)
Write == [row : Row, seen : MemberRow, value : MemberRow \cup {None}]

Idle == [op |-> "idle"]

(* The requests in progress: one that will save members, send a join request,      *)
(* answer one, enter a member it has approved, or save an item.                    *)
CallRow ==
  {Idle}
  \cup [op : {"members"}, writes : SUBSET Write]
  \cup [op : {"join"}, user : User]
  \cup [op : {"approve", "reject", "add"}, request : Request, user : User, clan : Clan]
  \cup [op : {"item"}, item : Item, seen : ItemRow, value : ItemRow]

ClansTypeOK ==
  /\ founder \in [Clan -> User \cup {None}]
  /\ member \in [Row -> MemberRow \cup {None}]
  /\ request \in [Request -> RequestRow \cup {None}]
  /\ item \in [Item -> ItemRow \cup {None}]
  /\ call \in [Session -> CallRow]
  /\ mishap \in BOOLEAN

Init ==
  /\ founder = [c \in Clan |-> None]
  /\ member = [r \in Row |-> None]
  /\ request = [q \in Request |-> None]
  /\ item = [i \in Item |-> None]
  /\ call = [s \in Session |-> Idle]
  /\ mishap = FALSE

-----------------------------------------------------------------------------
(* What findOne may return: some row of a user, or of a user in a clan.          *)
RowsOf(u) == {r \in Row : member[r] # None /\ member[r].user = u}
RowsIn(c, u) == {r \in RowsOf(u) : member[r].clan = c}

IsOfficer(r) == member[r].role # "MEMBER"
IsMaster(r) == member[r].role = "MASTER"

(* A generated id: not of a row, nor of one that a request has read and may save. *)
FreeRow(r) ==
  /\ member[r] = None
  /\ \A s \in Session : call[s].op = "members" => \A w \in call[s].writes : w.row # r

Starts(s, c) == call[s] = Idle /\ call' = [call EXCEPT ![s] = c]
Ends(s) == call' = [call EXCEPT ![s] = Idle]

WillSave(s, writes) ==
  /\ Starts(s, [op |-> "members", writes |-> writes])
  /\ UNCHANGED <<founder, member, request, item, mishap>>

Saved(r, value) == [row |-> r, seen |-> member[r], value |-> value]

InRole(r, role) == [member[r] EXCEPT !.role = role]

-----------------------------------------------------------------------------
(* Membership.                                                              *)

(* One transaction; whether the user is in a clan already is not asked. *)
Create(c, u, r) ==
  /\ founder[c] = None
  /\ FreeRow(r)
  /\ founder' = [founder EXCEPT ![c] = u]
  /\ member' = [member EXCEPT ![r] = [clan |-> c, user |-> u, role |-> "MASTER"]]
  /\ UNCHANGED <<request, item, call, mishap>>

RequestJoin(s, u) ==
  /\ RowsOf(u) = {}
  /\ \A q \in Request : request[q] # [user |-> u, status |-> "PENDING"]
  /\ Starts(s, [op |-> "join", user |-> u])
  /\ UNCHANGED <<founder, member, request, item, mishap>>

InsertRequest(s, q) ==
  /\ call[s].op = "join"
  /\ request[q] = None
  /\ request' = [request EXCEPT ![q] = [user |-> call[s].user, status |-> "PENDING"]]
  /\ Ends(s)
  /\ UNCHANGED <<founder, member, item, mishap>>

(* approveRequest and rejectRequest: the officer may be one of any clan, and the  *)
(* request one that has been answered before.                                     *)
Answer(s, q, r, op) ==
  /\ request[q] # None
  /\ member[r] # None /\ IsOfficer(r)
  /\ Starts(s, [op |-> op, request |-> q, user |-> request[q].user, clan |-> member[r].clan])
  /\ UNCHANGED <<founder, member, request, item, mishap>>

ApproveRequest(s, q, r) == Answer(s, q, r, "approve")
RejectRequest(s, q, r) == Answer(s, q, r, "reject")

(* Mutant: the member is entered before the answer is saved.                       *)
SaveAnswerLast(s) ==
  /\ call[s].op \in {"approve", "reject"}
  /\ IF call[s].op = "approve"
       THEN call' = [call EXCEPT ![s].op = "add"] /\ UNCHANGED request
       ELSE Ends(s) /\ request' = [request EXCEPT ![call[s].request].status = "REJECTED"]
  /\ UNCHANGED <<founder, member, item, mishap>>

SaveAnswer(s) ==
  LET q == call[s].request
  IN /\ \/ /\ call[s].op = "approve"
           /\ request' = [request EXCEPT ![q].status = "APPROVED"]
           /\ call' = [call EXCEPT ![s].op = "add"]
        \/ /\ call[s].op = "reject"
           /\ request' = [request EXCEPT ![q].status = "REJECTED"]
           /\ Ends(s)
     /\ UNCHANGED <<founder, member, item, mishap>>

(* A transaction: refused when the user has a row in that clan. *)
AddMember(s, r) ==
  /\ call[s].op = "add"
  /\ RowsIn(call[s].clan, call[s].user) = {}
  /\ FreeRow(r)
  /\ member' = [member EXCEPT ![r] =
       [clan |-> call[s].clan, user |-> call[s].user, role |-> "MEMBER"]]
  /\ Ends(s)
  /\ UNCHANGED <<founder, request, item, mishap>>

AddRefused(s) ==
  /\ call[s].op = "add"
  /\ RowsIn(call[s].clan, call[s].user) # {}
  /\ Ends(s)
  /\ UNCHANGED <<founder, member, request, item, mishap>>

(* Mutant: a master may leave.                                                     *)
LeaveClanAsMaster(s, r) == member[r] # None /\ WillSave(s, {Saved(r, None)})

LeaveClan(s, r) ==
  /\ member[r] # None
  /\ ~ IsMaster(r)
  /\ WillSave(s, {Saved(r, None)})

UpdateMemberRole(s, by, r, role) ==
  /\ member[by] # None /\ member[r] # None
  /\ IsMaster(by)
  /\ member[by].clan = member[r].clan
  /\ role # "MASTER"
  /\ member[by].user # member[r].user
  /\ WillSave(s, {Saved(r, InRole(r, role))})

(* Two entities are saved.  They are the same row when the master names himself:   *)
(* only the first differs from the row that is there.                              *)
TransferMaster(s, by, r) ==
  /\ member[by] # None /\ member[r] # None
  /\ IsMaster(by)
  /\ member[by].clan = member[r].clan
  /\ WillSave(s, {Saved(by, InRole(by, "MANAGER"))}
                   \cup (IF r = by THEN {} ELSE {Saved(r, InRole(r, "MASTER"))}))

(* Mutant: the row of a kicked member is kept under a role nobody else knows.       *)
KickMemberSoftly(s, by, r) ==
  /\ member[by] # None /\ member[r] # None
  /\ member[by].clan = member[r].clan
  /\ IsOfficer(by)
  /\ ~ IsMaster(r)
  /\ WillSave(s, {Saved(r, InRole(r, "KICKED"))})

KickMember(s, by, r) ==
  /\ member[by] # None /\ member[r] # None
  /\ member[by].clan = member[r].clan
  /\ IsOfficer(by)
  /\ ~ IsMaster(r)
  /\ member[by].role = "MANAGER" => member[r].role # "MANAGER"
  /\ WillSave(s, {Saved(r, None)})

(* The values go to the rows with those ids, whatever they are by now; a row that  *)
(* is gone is inserted again.                                                      *)
SaveMembers(s) ==
  /\ call[s].op = "members"
  /\ LET writes == call[s].writes
     IN /\ member' = [r \in Row |->
             IF \E w \in writes : w.row = r
               THEN (CHOOSE w \in writes : w.row = r).value ELSE member[r]]
        /\ mishap' = \/ mishap
                     \/ \E w \in writes : member[w.row] # w.seen
                     \/ \E w \in writes : /\ w.value # None
                                          /\ w.seen.role = "MASTER"
                                          /\ writes = {w}
  /\ Ends(s)
  /\ UNCHANGED <<founder, request, item>>

-----------------------------------------------------------------------------
(* Announcements and hall-of-fame entries.                                  *)

(* ClanRolesGuard: some row of the user has one of the roles. *)
HasClanRole(u, roles) == \E r \in RowsOf(u) : member[r].role \in roles

Insert(i, u, kind) ==
  /\ item[i] = None
  /\ item' = [item EXCEPT ![i] = [kind |-> kind, author |-> u, active |-> TRUE]]
  /\ UNCHANGED <<founder, member, request, call, mishap>>

CreateAnnouncement(i, u) == HasClanRole(u, {"MASTER", "MANAGER"}) /\ Insert(i, u, "announcement")

CreateHallOfFameEntry(i, u) == HasClanRole(u, {"MASTER", "MANAGER"}) /\ Insert(i, u, "hall")

WillSaveItem(s, i, active) ==
  /\ Starts(s, [op |-> "item", item |-> i, seen |-> item[i],
                value |-> [item[i] EXCEPT !.active = active]])
  /\ UNCHANGED <<founder, member, request, item, mishap>>

MayEditAnnouncement(i, u) ==
  /\ item[i] # None
  /\ item[i].kind = "announcement"
  /\ item[i].author = u \/ HasClanRole(u, {"MASTER"})

MayEditEntry(i, u) ==
  /\ item[i] # None
  /\ item[i].kind = "hall"
  /\ HasClanRole(u, {"MASTER", "MANAGER"})

(* Mutant: an edit publishes the announcement.                                *)
UpdateAnnouncementActive(s, i, u) == MayEditAnnouncement(i, u) /\ WillSaveItem(s, i, TRUE)

(* An edit leaves isActive as it was read. *)
UpdateAnnouncement(s, i, u) == MayEditAnnouncement(i, u) /\ WillSaveItem(s, i, item[i].active)

DeleteAnnouncement(s, i, u) == MayEditAnnouncement(i, u) /\ WillSaveItem(s, i, FALSE)

UpdateHallOfFameEntry(s, i, u) == MayEditEntry(i, u) /\ WillSaveItem(s, i, item[i].active)

DeleteHallOfFameEntry(s, i, u) == MayEditEntry(i, u) /\ WillSaveItem(s, i, FALSE)

SaveItem(s) ==
  /\ call[s].op = "item"
  /\ item' = [item EXCEPT ![call[s].item] = call[s].value]
  /\ mishap' = (mishap \/ item[call[s].item] # call[s].seen)
  /\ Ends(s)
  /\ UNCHANGED <<founder, member, request>>

-----------------------------------------------------------------------------
MemberCall(s) ==
  \/ \E u \in User : RequestJoin(s, u)
  \/ \E q \in Request : InsertRequest(s, q)
  \/ \E q \in Request, r \in Row : ApproveRequest(s, q, r) \/ RejectRequest(s, q, r)
  \/ SaveAnswer(s)
  \/ \E r \in Row : AddMember(s, r) \/ LeaveClan(s, r)
  \/ AddRefused(s)
  \/ \E by, r \in Row :
       \/ \E role \in ClanRole : UpdateMemberRole(s, by, r, role)
       \/ TransferMaster(s, by, r)
       \/ KickMember(s, by, r)
  \/ SaveMembers(s)

ItemCall(s) ==
  \/ \E i \in Item, u \in User :
       \/ UpdateAnnouncement(s, i, u) \/ DeleteAnnouncement(s, i, u)
       \/ UpdateHallOfFameEntry(s, i, u) \/ DeleteHallOfFameEntry(s, i, u)
  \/ SaveItem(s)

Next ==
  \/ \E c \in Clan, u \in User, r \in Row : Create(c, u, r)
  \/ \E i \in Item, u \in User : CreateAnnouncement(i, u) \/ CreateHallOfFameEntry(i, u)
  \/ \E s \in Session : MemberCall(s) \/ ItemCall(s)

Spec == Init /\ [][Next]_vars

-----------------------------------------------------------------------------
Masters(c) == {r \in Row : member[r] # None /\ member[r].clan = c /\ IsMaster(r)}

(* A clan has one master, as long as no save has undone a change it had not read   *)
(* and no master has transferred the clan to himself.                              *)
OneMasterUnlessMishap ==
  ~ mishap => \A c \in Clan : founder[c] # None => Cardinality(Masters(c)) = 1

(* The user has asked to join, and somebody answered. *)
Asked(u) == \E q \in Request :
  request[q] # None /\ request[q].user = u /\ request[q].status # "PENDING"

(* Nobody is made a member who neither founded the clan nor asked and was answered, *)
(* whatever stale rows the requests in progress save.                              *)
MembersAsked ==
  \A r \in Row : member[r] # None => founder[member[r].clan] = member[r].user \/ Asked(member[r].user)

(* What was deleted reappears only through a save that had not read the deletion.   *)
DeletedStaysDeleted ==
  [][\A i \in Item :
       item[i] # None /\ ~ item[i].active /\ item'[i].active
         => \E s \in Session : call[s].op = "item" /\ call[s].item = i /\ call[s].seen.active]_vars

(* clans.service.ts:218: a master cannot leave, so that a clan keeps its master.    *)
ClanHasMaster == \A c \in Clan : founder[c] # None => Masters(c) # {}

(* clans.service.ts:67: a user who is in a clan does not get into another.          *)
OneClanPerUser == \A u \in User : Cardinality({member[r].clan : r \in RowsOf(u)}) <= 1

(* clans.service.ts:73: a user has one request pending.                            *)
OnePendingRequest ==
  \A p, q \in Request :
    /\ p # q
    /\ request[p] # None /\ request[p].status = "PENDING"
    => request[q] # request[p]
=============================================================================
