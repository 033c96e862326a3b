----------------------------- MODULE ClansProofs -----------------------------
(***************************************************************************)
(* Nobody becomes a member unasked, and a clan has one master unless the    *)
(* two saves of a transfer were torn apart, for any number of users, clans, *)
(* rows and concurrent requests: the inductive invariants say of every row  *)
(* that a request in progress may still save what they say of the rows      *)
(* there are, and of every answer in progress that its request is there.    *)
(***************************************************************************)
EXTENDS Clans, FiniteSetTheorems, TLAPS

(* The user of a membership founded its clan or asked and was answered. *)
Welcome(m) == founder[m.clan] = m.user \/ Asked(m.user)

MembersWelcome == \A r \in Row : member[r] # None => Welcome(member[r])

(* What a request in progress will put into the table. *)
SavesWelcome ==
  \A s \in Session : call[s].op = "members" =>
    \A w \in call[s].writes : w.value # None => Welcome(w.value)

(* The answer in progress concerns a request of that user. *)
AnswersKnown ==
  \A s \in Session : call[s].op \in {"approve", "reject"} =>
    /\ request[call[s].request] # None
    /\ request[call[s].request].user = call[s].user

AddsAnswered == \A s \in Session : call[s].op = "add" => Asked(call[s].user)

ClansInv ==
  /\ ClansTypeOK
  /\ MembersWelcome
  /\ SavesWelcome
  /\ AnswersKnown
  /\ AddsAnswered

-----------------------------------------------------------------------------
(* What a call in progress holds, by its kind. *)
LEMMA CallTypes ==
  ASSUME ClansTypeOK, NEW s \in Session
  PROVE  /\ call[s].op = "members" => call[s].writes \subseteq Write
         /\ call[s].op = "join" => call[s].user \in User
         /\ call[s].op \in {"approve", "reject", "add"} =>
              /\ call[s].request \in Request
              /\ call[s].user \in User
              /\ call[s].clan \in Clan
              /\ call[s] = [op |-> call[s].op, request |-> call[s].request,
                            user |-> call[s].user, clan |-> call[s].clan]
         /\ call[s].op = "item" =>
              call[s].item \in Item /\ call[s].value \in ItemRow
  <1>1. call[s] \in CallRow
    BY DEF ClansTypeOK
  <1>2. CASE call[s] = Idle
    BY <1>2 DEF Idle
  <1>3. CASE call[s] \in [op : {"members"}, writes : SUBSET Write]
    BY <1>3
  <1>4. CASE call[s] \in [op : {"join"}, user : User]
    BY <1>4
  <1>5. CASE call[s] \in [op : {"approve", "reject", "add"}, request : Request,
                          user : User, clan : Clan]
    BY <1>5
  <1>6. CASE call[s] \in [op : {"item"}, item : Item, seen : ItemRow, value : ItemRow]
    BY <1>6
  <1> QED BY <1>1, <1>2, <1>3, <1>4, <1>5, <1>6 DEF CallRow

(* A step in which no founder is replaced and every answered request stays an       *)
(* answered request of its user keeps every welcome.                                *)
LEMMA WelcomeKept ==
  ASSUME ClansTypeOK, NEW m \in MemberRow, Welcome(m),
         \A c \in Clan : founder[c] # None => founder'[c] = founder[c],
         \A q \in Request :
           request[q] # None /\ request[q].status # "PENDING" =>
             /\ request'[q] # None
             /\ request'[q].user = request[q].user
             /\ request'[q].status # "PENDING"
  PROVE  Welcome(m)'
  <1>1. m.user \in User /\ m.clan \in Clan
    BY DEF MemberRow
  <1>2. CASE founder[m.clan] = m.user
    <2>1. founder[m.clan] # None
      BY <1>1, <1>2, NoneAssumption
    <2> QED BY <1>1, <1>2, <2>1 DEF Welcome
  <1>3. CASE Asked(m.user)
    BY <1>3 DEF Asked, Welcome
  <1> QED BY <1>2, <1>3 DEF Welcome

-----------------------------------------------------------------------------
(* A request that ends, or starts and will save nothing of a member, on its own.    *)
LEMMA CallOnly ==
  ASSUME ClansInv, NEW s \in Session, NEW c \in CallRow,
         call' = [call EXCEPT ![s] = c],
         UNCHANGED <<founder, member, request>>,
         item' \in [Item -> ItemRow \cup {None}], mishap' \in BOOLEAN,
         c.op = "members" => \A w \in c.writes : w.value # None => Welcome(w.value),
         c.op \in {"approve", "reject"} =>
           request[c.request] # None /\ request[c.request].user = c.user,
         c.op = "add" => Asked(c.user)
  PROVE  ClansInv'
  <1> USE DEF ClansInv
  <1>1. ClansTypeOK'
    BY DEF ClansTypeOK
  <1>2. \A t \in Session : call'[t] = IF t = s THEN c ELSE call[t]
    BY DEF ClansTypeOK
  <1>3. \A u : Asked(u)' = Asked(u)
    BY DEF Asked
  <1>4. \A m : Welcome(m)' = Welcome(m)
    BY <1>3 DEF Welcome
  <1>5. MembersWelcome'
    BY <1>4 DEF MembersWelcome
  <1>6. SavesWelcome'
    BY <1>2, <1>4 DEF SavesWelcome
  <1>7. AnswersKnown'
    BY <1>2 DEF AnswersKnown
  <1>8. AddsAnswered'
    BY <1>2, <1>3 DEF AddsAnswered
  <1> QED BY <1>1, <1>5, <1>6, <1>7, <1>8

(* An idle session has no call. *)
LEMMA IdleCall == Idle \in CallRow /\ Idle.op = "idle"
  BY DEF CallRow, Idle

(* Reads that end in saves of rows of members. *)
LEMMA WillSaveKeeps ==
  ASSUME ClansInv, NEW s \in Session, NEW writes \in SUBSET Write,
         \A w \in writes : w.value # None => Welcome(w.value),
         WillSave(s, writes)
  PROVE  ClansInv'
  <1> DEFINE c == [op |-> "members", writes |-> writes]
  <1>1. c \in CallRow /\ c.op = "members" /\ c.writes = writes
    BY DEF CallRow
  <1>2. call' = [call EXCEPT ![s] = c] /\ UNCHANGED <<founder, member, request, item, mishap>>
    BY DEF WillSave, Starts
  <1>3. item' \in [Item -> ItemRow \cup {None}] /\ mishap' \in BOOLEAN
    BY <1>2 DEF ClansInv, ClansTypeOK
  <1> HIDE DEF c
  <1> QED BY <1>1, <1>2, <1>3, CallOnly

(* A row that is saved with another role is as welcome as it was. *)
LEMMA InRoleKeeps ==
  ASSUME ClansInv, NEW r \in Row, member[r] # None, NEW role \in ClanRole
  PROVE  /\ Saved(r, InRole(r, role)) \in Write
         /\ Saved(r, InRole(r, role)).value = InRole(r, role)
         /\ Welcome(InRole(r, role))
  <1>1. member[r] \in MemberRow /\ Welcome(member[r])
    BY DEF ClansInv, ClansTypeOK, MembersWelcome
  <1>2. InRole(r, role) \in MemberRow
    BY <1>1 DEF InRole, MemberRow
  <1>3. InRole(r, role).clan = member[r].clan /\ InRole(r, role).user = member[r].user
    BY <1>1 DEF InRole, MemberRow
  <1>4. Welcome(InRole(r, role))
    BY <1>1, <1>3 DEF Welcome
  <1> QED BY <1>1, <1>2, <1>4 DEF Saved, Write

(* The save of a removed row is a write. *)
LEMMA RemovalWrite ==
  ASSUME ClansInv, NEW r \in Row, member[r] # None
  PROVE  Saved(r, None) \in Write /\ Saved(r, None).value = None
  <1>1. member[r] \in MemberRow
    BY DEF ClansInv, ClansTypeOK
  <1> QED BY <1>1 DEF Saved, Write

(* Beginning to remove a member keeps the invariant. *)
LEMMA LeaveOrKickKeeps ==
  ASSUME ClansInv, NEW s \in Session, NEW r \in Row, member[r] # None,
         WillSave(s, {Saved(r, None)})
  PROVE  ClansInv'
  <1>1. {Saved(r, None)} \in SUBSET Write /\ \A w \in {Saved(r, None)} : w.value = None
    BY RemovalWrite
  <1> QED BY <1>1, WillSaveKeeps

(* Beginning to change a role keeps it. *)
LEMMA RoleKeeps ==
  ASSUME ClansInv, NEW s \in Session, NEW by \in Row, NEW r \in Row, NEW role \in ClanRole,
         UpdateMemberRole(s, by, r, role)
  PROVE  ClansInv'
  <1>1. member[r] # None /\ WillSave(s, {Saved(r, InRole(r, role))})
    BY DEF UpdateMemberRole
  <1>2. /\ {Saved(r, InRole(r, role))} \in SUBSET Write
        /\ \A w \in {Saved(r, InRole(r, role))} : Welcome(w.value)
    BY <1>1, InRoleKeeps
  <1> QED BY <1>1, <1>2, WillSaveKeeps

(* Beginning to hand the clan over keeps it. *)
LEMMA TransferKeeps ==
  ASSUME ClansInv, NEW s \in Session, NEW by \in Row, NEW r \in Row, TransferMaster(s, by, r)
  PROVE  ClansInv'
  <1> DEFINE writes == {Saved(by, InRole(by, "MANAGER"))}
                         \cup (IF r = by THEN {} ELSE {Saved(r, InRole(r, "MASTER"))})
  <1>1. member[by] # None /\ member[r] # None /\ WillSave(s, writes)
    BY DEF TransferMaster
  <1>2. "MANAGER" \in ClanRole /\ "MASTER" \in ClanRole
    BY DEF ClanRole
  <1>3. /\ Saved(by, InRole(by, "MANAGER")) \in Write
        /\ Welcome(Saved(by, InRole(by, "MANAGER")).value)
    BY <1>1, <1>2, InRoleKeeps
  <1>4. /\ Saved(r, InRole(r, "MASTER")) \in Write
        /\ Welcome(Saved(r, InRole(r, "MASTER")).value)
    BY <1>1, <1>2, InRoleKeeps
  <1>5. writes \in SUBSET Write /\ \A w \in writes : Welcome(w.value)
    BY <1>3, <1>4
  <1> HIDE DEF writes
  <1> QED BY <1>1, <1>5, WillSaveKeeps

-----------------------------------------------------------------------------
(* Founding a clan: founders are never replaced, so every welcome stays.             *)
LEMMA CreateKeeps ==
  ASSUME ClansInv, NEW c \in Clan, NEW u \in User, NEW r \in Row, Create(c, u, r)
  PROVE  ClansInv'
  <1> USE DEF ClansInv
  <1> DEFINE m == [clan |-> c, user |-> u, role |-> "MASTER"]
  <1>1. m \in MemberRow /\ m.clan = c /\ m.user = u
    BY DEF MemberRow, ClanRole
  <1>2. /\ founder' = [founder EXCEPT ![c] = u]
        /\ member' = [member EXCEPT ![r] = m]
        /\ founder[c] = None
        /\ UNCHANGED <<request, item, call, mishap>>
    BY DEF Create
  <1> HIDE DEF m
  <1>3. ClansTypeOK'
    BY <1>1, <1>2 DEF ClansTypeOK
  <1>4. \A n \in MemberRow : Welcome(n) => Welcome(n)'
    <2>1. \A d \in Clan : founder[d] # None => founder'[d] = founder[d]
      BY <1>2 DEF ClansTypeOK
    <2> QED BY <1>2, <2>1, WelcomeKept
  <1>5. Welcome(m)'
    BY <1>1, <1>2 DEF Welcome, ClansTypeOK
  <1>6. MembersWelcome'
    BY <1>2, <1>4, <1>5 DEF MembersWelcome, ClansTypeOK
  <1>7. SavesWelcome'
    <2> SUFFICES ASSUME NEW t \in Session, call[t].op = "members",
                        NEW w \in call[t].writes, w.value # None
                 PROVE  Welcome(w.value)'
      BY <1>2 DEF SavesWelcome
    <2>1. w.value \in MemberRow
      BY CallTypes DEF Write
    <2> QED BY <1>4, <2>1 DEF SavesWelcome
  <1>8. AnswersKnown'
    BY <1>2 DEF AnswersKnown
  <1>9. AddsAnswered'
    BY <1>2 DEF AddsAnswered, Asked
  <1> QED BY <1>3, <1>6, <1>7, <1>8, <1>9

(* The table of join requests changes: answered requests stay answered, and the call *)
(* that changes it goes on as an entry that was answered, or ends.                    *)
LEMMA RequestsKeep ==
  ASSUME ClansInv, NEW s \in Session, NEW q \in Request, NEW v \in RequestRow, NEW c \in CallRow,
         request' = [request EXCEPT ![q] = v],
         request[q] # None => v.user = request[q].user /\ v.status # "PENDING",
         call' = [call EXCEPT ![s] = c],
         UNCHANGED <<founder, member, item, mishap>>,
         c.op \notin {"members", "approve", "reject"},
         c.op = "add" => v.user = c.user /\ v.status # "PENDING"
  PROVE  ClansInv'
  <1> USE DEF ClansInv
  <1>1. ClansTypeOK'
    BY DEF ClansTypeOK
  <1>2. \A t \in Session : call'[t] = IF t = s THEN c ELSE call[t]
    BY DEF ClansTypeOK
  <1>3. /\ \A p \in Request : request'[p] = IF p = q THEN v ELSE request[p]
        /\ v # None
    BY NoRowAssumption DEF ClansTypeOK
  <1>4. \A u : Asked(u) => Asked(u)'
    BY <1>3 DEF Asked
  <1>5. \A m : Welcome(m) => Welcome(m)'
    BY <1>4 DEF Welcome
  <1>6. MembersWelcome'
    BY <1>5 DEF MembersWelcome
  <1>7. SavesWelcome'
    BY <1>2, <1>5 DEF SavesWelcome
  <1>8. AnswersKnown'
    <2> SUFFICES ASSUME NEW t \in Session, t # s, call[t].op \in {"approve", "reject"}
                 PROVE  /\ request'[call[t].request] # None
                        /\ request'[call[t].request].user = call[t].user
      BY <1>2 DEF AnswersKnown
    <2>1. call[t].request \in Request
      BY CallTypes
    <2>2. request[call[t].request] # None /\ request[call[t].request].user = call[t].user
      BY DEF AnswersKnown
    <2> QED BY <1>3, <2>1, <2>2
  <1>9. AddsAnswered'
    <2> DEFINE AnsweredNext(u) == \E p \in Request :
                 request'[p] # None /\ request'[p].user = u /\ request'[p].status # "PENDING"
    <2>1. \A u : Asked(u)' = AnsweredNext(u)
      BY DEF Asked
    <2>2. ASSUME NEW t \in Session, call'[t].op = "add"
          PROVE  AnsweredNext(call'[t].user)
      <3>1. CASE t = s
        BY <1>2, <1>3, <2>2, <3>1
      <3>2. CASE t # s
        <4>1. call'[t] = call[t]
          BY <1>2, <3>2
        <4>2. Asked(call[t].user)
          BY <2>2, <4>1 DEF AddsAnswered
        <4> QED BY <1>4, <2>1, <4>1, <4>2
      <3> QED BY <3>1, <3>2
    <2> QED BY <2>2 DEF AddsAnswered, Asked
  <1> QED BY <1>1, <1>6, <1>7, <1>8, <1>9

(* Inserting a request to join keeps it. *)
LEMMA InsertRequestKeeps ==
  ASSUME ClansInv, NEW s \in Session, NEW q \in Request, InsertRequest(s, q)
  PROVE  ClansInv'
  <1> DEFINE v == [user |-> call[s].user, status |-> "PENDING"]
  <1>1. v \in RequestRow
    BY CallTypes DEF InsertRequest, ClansInv, RequestRow, RequestStatus
  <1>2. /\ request' = [request EXCEPT ![q] = v] /\ request[q] = None
        /\ call' = [call EXCEPT ![s] = Idle]
        /\ UNCHANGED <<founder, member, item, mishap>>
    BY DEF InsertRequest, Ends
  <1> HIDE DEF v
  <1> QED BY <1>1, <1>2, IdleCall, RequestsKeep

(* Saving the answer to a request keeps it. *)
LEMMA SaveAnswerKeeps ==
  ASSUME ClansInv, NEW s \in Session, SaveAnswer(s)
  PROVE  ClansInv'
  <1> DEFINE q == call[s].request
             d == [op |-> "add", request |-> q, user |-> call[s].user, clan |-> call[s].clan]
             Answered(x) == [user |-> request[q].user, status |-> x]
  <1>1. /\ call[s].op \in {"approve", "reject"}
        /\ UNCHANGED <<founder, member, item, mishap>>
    BY DEF SaveAnswer
  <1>2. /\ q \in Request /\ call[s].user \in User /\ call[s].clan \in Clan
        /\ call[s] = [op |-> call[s].op, request |-> q,
                      user |-> call[s].user, clan |-> call[s].clan]
    BY <1>1, CallTypes DEF ClansInv
  <1>3. request[q] \in RequestRow /\ request[q].user = call[s].user
    BY <1>1, <1>2 DEF ClansInv, AnswersKnown, ClansTypeOK
  <1>4. \A x \in RequestStatus :
          /\ [request[q] EXCEPT !.status = x] = Answered(x)
          /\ Answered(x) \in RequestRow
          /\ Answered(x).user = request[q].user /\ Answered(x).status = x
    BY <1>3 DEF RequestRow
  <1>5. CASE call[s].op = "approve"
    <2>1. request' = [request EXCEPT ![q] = Answered("APPROVED")]
      BY <1>4, <1>5 DEF SaveAnswer, RequestStatus
    <2>2. call' = [call EXCEPT ![s] = d]
      <3>1. call' = [call EXCEPT ![s].op = "add"]
        BY <1>5 DEF SaveAnswer
      <3>2. [call[s] EXCEPT !.op = "add"] = d
        BY <1>2
      <3> QED BY <3>1, <3>2
    <2>3. d \in CallRow /\ d.op = "add" /\ d.user = call[s].user
      BY <1>2 DEF CallRow
    <2>4. "APPROVED" \in RequestStatus
      BY DEF RequestStatus
    <2>5. /\ Answered("APPROVED") \in RequestRow
          /\ Answered("APPROVED").user = request[q].user
          /\ Answered("APPROVED").status = "APPROVED"
      BY <1>4, <2>4
    <2> HIDE DEF d, Answered, q
    <2> QED BY <1>1, <1>2, <1>3, <2>1, <2>2, <2>3, <2>5, RequestsKeep
  <1>6. CASE call[s].op = "reject"
    <2>1. request' = [request EXCEPT ![q] = Answered("REJECTED")]
      BY <1>4, <1>6 DEF SaveAnswer, RequestStatus
    <2>2. call' = [call EXCEPT ![s] = Idle]
      BY <1>6 DEF SaveAnswer, Ends
    <2>3. "REJECTED" \in RequestStatus
      BY DEF RequestStatus
    <2>4. /\ Answered("REJECTED") \in RequestRow
          /\ Answered("REJECTED").user = request[q].user
          /\ Answered("REJECTED").status = "REJECTED"
      BY <1>4, <2>3
    <2> HIDE DEF Answered, q
    <2> QED BY <1>1, <1>2, <1>3, <2>1, <2>2, <2>4, IdleCall, RequestsKeep
  <1> QED BY <1>1, <1>5, <1>6

(* The table of members changes: what is put into it is welcome. *)
LEMMA MembersKeep ==
  ASSUME ClansInv, NEW s \in Session,
         member' \in [Row -> MemberRow \cup {None}], mishap' \in BOOLEAN,
         \A r \in Row : member'[r] # None => Welcome(member'[r]),
         call' = [call EXCEPT ![s] = Idle],
         UNCHANGED <<founder, request, item>>
  PROVE  ClansInv'
  <1> USE DEF ClansInv
  <1>1. ClansTypeOK'
    BY IdleCall DEF ClansTypeOK
  <1>2. \A t \in Session : call'[t] = IF t = s THEN Idle ELSE call[t]
    BY DEF ClansTypeOK
  <1>3. \A m : Welcome(m)' = Welcome(m)
    BY DEF Asked, Welcome
  <1>4. MembersWelcome'
    BY <1>3 DEF MembersWelcome
  <1>5. SavesWelcome'
    BY <1>2, <1>3, IdleCall DEF SavesWelcome
  <1>6. AnswersKnown'
    BY <1>2, IdleCall DEF AnswersKnown
  <1>7. AddsAnswered'
    BY <1>2, IdleCall DEF AddsAnswered, Asked
  <1> QED BY <1>1, <1>4, <1>5, <1>6, <1>7

(* Inserting the member a request was approved for keeps it. *)
LEMMA AddMemberKeeps ==
  ASSUME ClansInv, NEW s \in Session, NEW r \in Row, AddMember(s, r)
  PROVE  ClansInv'
  <1> DEFINE m == [clan |-> call[s].clan, user |-> call[s].user, role |-> "MEMBER"]
  <1>1. m \in MemberRow
    BY CallTypes DEF AddMember, ClansInv, MemberRow, ClanRole
  <1>2. Welcome(m)
    BY DEF AddMember, ClansInv, AddsAnswered, Welcome
  <1>3. /\ member' = [member EXCEPT ![r] = m] /\ call' = [call EXCEPT ![s] = Idle]
        /\ UNCHANGED <<founder, request, item, mishap>>
    BY DEF AddMember, Ends
  <1> HIDE DEF m
  <1>4. member' \in [Row -> MemberRow \cup {None}] /\ mishap' \in BOOLEAN
    BY <1>1, <1>3 DEF ClansInv, ClansTypeOK
  <1>5. \A x \in Row : member'[x] # None => Welcome(member'[x])
    BY <1>2, <1>3 DEF ClansInv, ClansTypeOK, MembersWelcome
  <1> QED BY <1>3, <1>4, <1>5, MembersKeep

(* Saving the members that were read keeps it. *)
LEMMA SaveMembersKeeps ==
  ASSUME ClansInv, NEW s \in Session, SaveMembers(s)
  PROVE  ClansInv'
  <1> DEFINE writes == call[s].writes
             value(r) == (CHOOSE w \in writes : w.row = r).value
  <1>1. /\ call[s].op = "members" /\ call' = [call EXCEPT ![s] = Idle]
        /\ UNCHANGED <<founder, request, item>> /\ mishap' \in BOOLEAN
        /\ member' = [r \in Row |-> IF \E w \in writes : w.row = r THEN value(r) ELSE member[r]]
    BY DEF SaveMembers, Ends, ClansInv, ClansTypeOK
  <1>2. writes \subseteq Write /\ \A w \in writes : w.value # None => Welcome(w.value)
    BY <1>1, CallTypes DEF ClansInv, SavesWelcome
  <1>3. ASSUME NEW r \in Row, \E w \in writes : w.row = r
        PROVE  value(r) \in MemberRow \cup {None} /\ (value(r) # None => Welcome(value(r)))
    <2>1. PICK w \in writes : w = CHOOSE x \in writes : x.row = r
      BY <1>3
    <2> QED BY <1>2, <2>1 DEF Write
  <1> HIDE DEF value, writes
  <1>4. member' \in [Row -> MemberRow \cup {None}]
    BY <1>1, <1>3 DEF ClansInv, ClansTypeOK
  <1>5. \A r \in Row : member'[r] # None => Welcome(member'[r])
    BY <1>1, <1>3 DEF ClansInv, MembersWelcome
  <1> QED BY <1>1, <1>4, <1>5, MembersKeep

(* A request that does not concern members: it starts and will save an item, or saves. *)
LEMMA WillSaveItemKeeps ==
  ASSUME ClansInv, NEW s \in Session, NEW i \in Item, item[i] # None,
         NEW active \in BOOLEAN, WillSaveItem(s, i, active)
  PROVE  ClansInv'
  <1> DEFINE c == [op |-> "item", item |-> i, seen |-> item[i],
                   value |-> [item[i] EXCEPT !.active = active]]
  <1>1. item[i] \in ItemRow
    BY DEF ClansInv, ClansTypeOK
  <1>2. [item[i] EXCEPT !.active = active] \in ItemRow
    BY <1>1 DEF ItemRow
  <1>3. c \in CallRow /\ c.op = "item"
    BY <1>1, <1>2 DEF CallRow
  <1>4. call' = [call EXCEPT ![s] = c] /\ UNCHANGED <<founder, member, request, item, mishap>>
    BY DEF WillSaveItem, Starts
  <1>5. item' \in [Item -> ItemRow \cup {None}] /\ mishap' \in BOOLEAN
    BY <1>4 DEF ClansInv, ClansTypeOK
  <1> HIDE DEF c
  <1> QED BY <1>3, <1>4, <1>5, CallOnly

(* Every step on announcements and the hall of fame keeps it. *)
LEMMA ItemsKeep ==
  ASSUME ClansInv, NEW s \in Session, ItemCall(s)
  PROVE  ClansInv'
  <1>1. ASSUME NEW i \in Item, NEW u \in User,
               \/ UpdateAnnouncement(s, i, u) \/ DeleteAnnouncement(s, i, u)
               \/ UpdateHallOfFameEntry(s, i, u) \/ DeleteHallOfFameEntry(s, i, u)
        PROVE  ClansInv'
    <2>1. item[i] # None
      BY <1>1 DEF UpdateAnnouncement, DeleteAnnouncement, UpdateHallOfFameEntry,
                  DeleteHallOfFameEntry, MayEditAnnouncement, MayEditEntry
    <2>2. item[i].active \in BOOLEAN
      BY <2>1 DEF ClansInv, ClansTypeOK, ItemRow
    <2>3. \E active \in BOOLEAN : WillSaveItem(s, i, active)
      BY <1>1, <2>2 DEF UpdateAnnouncement, DeleteAnnouncement, UpdateHallOfFameEntry,
                        DeleteHallOfFameEntry
    <2> QED BY <2>1, <2>3, WillSaveItemKeeps
  <1>2. CASE SaveItem(s)
    <2>1. /\ call[s].op = "item" /\ call' = [call EXCEPT ![s] = Idle]
          /\ item' = [item EXCEPT ![call[s].item] = call[s].value]
          /\ mishap' = (mishap \/ item[call[s].item] # call[s].seen)
          /\ UNCHANGED <<founder, member, request>>
      BY <1>2 DEF SaveItem, Ends
    <2>2. call[s].item \in Item /\ call[s].value \in ItemRow
      BY <2>1, CallTypes DEF ClansInv
    <2>3. item' \in [Item -> ItemRow \cup {None}] /\ mishap' \in BOOLEAN
      BY <2>1, <2>2 DEF ClansInv, ClansTypeOK
    <2> QED BY <2>1, <2>3, IdleCall, CallOnly
  <1> QED BY <1>1, <1>2 DEF ItemCall

(* So does inserting one. *)
LEMMA InsertItemKeeps ==
  ASSUME ClansInv, NEW i \in Item, NEW u \in User, NEW kind \in {"announcement", "hall"},
         Insert(i, u, kind)
  PROVE  ClansInv'
  <1>1. [kind |-> kind, author |-> u, active |-> TRUE] \in ItemRow
    BY DEF ItemRow
  <1>2. ClansTypeOK'
    BY <1>1 DEF Insert, ClansInv, ClansTypeOK
  <1>3. UNCHANGED <<founder, member, request, call>>
    BY DEF Insert
  <1> QED BY <1>2, <1>3 DEF ClansInv, MembersWelcome, SavesWelcome, AnswersKnown, AddsAnswered,
                            Welcome, Asked

(* Every step on members and requests keeps it. *)
LEMMA CallsKeep ==
  ASSUME ClansInv, NEW s \in Session, MemberCall(s)
  PROVE  ClansInv'
  <1>1. ASSUME NEW u \in User, RequestJoin(s, u) PROVE ClansInv'
    <2>1. [op |-> "join", user |-> u] \in CallRow
      BY DEF CallRow
    <2>2. item' \in [Item -> ItemRow \cup {None}] /\ mishap' \in BOOLEAN
      BY <1>1 DEF RequestJoin, ClansInv, ClansTypeOK
    <2>3. /\ call' = [call EXCEPT ![s] = [op |-> "join", user |-> u]]
          /\ UNCHANGED <<founder, member, request>>
      BY <1>1 DEF RequestJoin, Starts
    <2> QED BY <2>1, <2>2, <2>3, CallOnly
  <1>2. ASSUME NEW q \in Request, NEW r \in Row,
               ApproveRequest(s, q, r) \/ RejectRequest(s, q, r)
        PROVE  ClansInv'
    <2>1. PICK op \in {"approve", "reject"} : Answer(s, q, r, op)
      BY <1>2 DEF ApproveRequest, RejectRequest
    <2> DEFINE c == [op |-> op, request |-> q, user |-> request[q].user, clan |-> member[r].clan]
    <2>2. request[q] \in RequestRow /\ member[r] \in MemberRow
      BY <2>1 DEF Answer, ClansInv, ClansTypeOK
    <2>3. c \in CallRow /\ c.op = op /\ c.request = q /\ c.user = request[q].user
      BY <2>1, <2>2 DEF CallRow, RequestRow, MemberRow
    <2>4. /\ call' = [call EXCEPT ![s] = c] /\ request[q] # None
          /\ UNCHANGED <<founder, member, request, item, mishap>>
      BY <2>1 DEF Answer, Starts
    <2>5. item' \in [Item -> ItemRow \cup {None}] /\ mishap' \in BOOLEAN
      BY <2>4 DEF ClansInv, ClansTypeOK
    <2> HIDE DEF c
    <2> QED BY <2>3, <2>4, <2>5, CallOnly
  <1>3. CASE AddRefused(s)
    <2>1. call' = [call EXCEPT ![s] = Idle] /\ UNCHANGED <<founder, member, request, item, mishap>>
      BY <1>3 DEF AddRefused, Ends
    <2>2. item' \in [Item -> ItemRow \cup {None}] /\ mishap' \in BOOLEAN
      BY <2>1 DEF ClansInv, ClansTypeOK
    <2> QED BY <2>1, <2>2, IdleCall, CallOnly
  <1>4. ASSUME NEW by \in Row, NEW r \in Row, KickMember(s, by, r) PROVE ClansInv'
    BY <1>4, LeaveOrKickKeeps DEF KickMember
  <1>5. ASSUME NEW r \in Row, LeaveClan(s, r) PROVE ClansInv'
    BY <1>5, LeaveOrKickKeeps DEF LeaveClan
  <1> QED BY <1>1, <1>2, <1>3, <1>4, <1>5, InsertRequestKeeps, SaveAnswerKeeps,
             AddMemberKeeps, RoleKeeps, TransferKeeps, SaveMembersKeeps DEF MemberCall

(* The invariant holds at the start. *)
LEMMA ClansInitInv == Init => ClansInv
  <1> SUFFICES ASSUME Init PROVE ClansInv
    OBVIOUS
  <1>1. ClansTypeOK
    BY IdleCall DEF Init, ClansTypeOK
  <1>2. MembersWelcome
    BY DEF Init, MembersWelcome
  <1>3. SavesWelcome /\ AnswersKnown /\ AddsAnswered
    BY IdleCall DEF Init, SavesWelcome, AnswersKnown, AddsAnswered
  <1> QED BY <1>1, <1>2, <1>3 DEF ClansInv

(* Every step keeps the invariant. *)
LEMMA ClansNextInv == ClansInv /\ [Next]_vars => ClansInv'
  <1> SUFFICES ASSUME ClansInv, [Next]_vars PROVE ClansInv'
    OBVIOUS
  <1>1. ASSUME NEW c \in Clan, NEW u \in User, NEW r \in Row, Create(c, u, r) PROVE ClansInv'
    BY <1>1, CreateKeeps
  <1>2. ASSUME NEW i \in Item, NEW u \in User,
               CreateAnnouncement(i, u) \/ CreateHallOfFameEntry(i, u)
        PROVE  ClansInv'
    BY <1>2, InsertItemKeeps DEF CreateAnnouncement, CreateHallOfFameEntry
  <1>3. ASSUME NEW s \in Session, MemberCall(s) \/ ItemCall(s) PROVE ClansInv'
    BY <1>3, CallsKeep, ItemsKeep
  <1>4. CASE UNCHANGED vars
    BY <1>4 DEF vars, ClansInv, ClansTypeOK, MembersWelcome, SavesWelcome, AnswersKnown,
                AddsAnswered, Welcome, Asked
  <1> QED BY <1>1, <1>2, <1>3, <1>4 DEF Next

(* The types of the clans' state, for any number of users, rows and requests.         *)
THEOREM ClansTypeCorrect == Spec => []ClansTypeOK
  <1>1. ClansInv => ClansTypeOK
    BY DEF ClansInv
  <1> QED BY <1>1, ClansInitInv, ClansNextInv, PTL DEF Spec

(* Nobody is a member who neither founded the clan nor asked and was answered, in      *)
(* whatever order concurrent requests of clans.service.ts read and save their rows.    *)
THEOREM ClansMembersAsked == Spec => []MembersAsked
  <1>1. ClansInv => MembersAsked
    BY DEF ClansInv, MembersWelcome, Welcome, MembersAsked
  <1> QED BY <1>1, ClansInitInv, ClansNextInv, PTL DEF Spec

-----------------------------------------------------------------------------
(* No request publishes what it read as deleted. *)
EditsKeepActive ==
  \A s \in Session : call[s].op = "item" => (call[s].value.active => call[s].seen.active)

(* Every step keeps edits of active items active. *)
LEMMA EditsKeepActiveNext == ClansInv /\ EditsKeepActive /\ [Next]_vars => EditsKeepActive'
  <1> SUFFICES ASSUME ClansInv, EditsKeepActive, [Next]_vars PROVE EditsKeepActive'
    OBVIOUS
  <1>1. ASSUME NEW s \in Session, NEW c, call' = [call EXCEPT ![s] = c],
               c.op = "item" => (c.value.active => c.seen.active)
        PROVE  EditsKeepActive'
    BY <1>1 DEF EditsKeepActive, ClansInv, ClansTypeOK
  <1>2. CASE UNCHANGED call
    BY <1>2 DEF EditsKeepActive
  <1>3. ASSUME NEW s \in Session, NEW i \in Item, item[i] # None, NEW active \in BOOLEAN,
               active => item[i].active, WillSaveItem(s, i, active)
        PROVE  EditsKeepActive'
    <2> DEFINE c == [op |-> "item", item |-> i, seen |-> item[i],
                     value |-> [item[i] EXCEPT !.active = active]]
    <2>1. item[i] \in ItemRow
      BY <1>3 DEF ClansInv, ClansTypeOK
    <2>2. c.value.active = active /\ c.seen = item[i]
      BY <2>1 DEF ItemRow
    <2>3. call' = [call EXCEPT ![s] = c]
      BY <1>3 DEF WillSaveItem, Starts
    <2> HIDE DEF c
    <2> QED BY <1>1, <1>3, <2>2, <2>3
  <1>4. ASSUME NEW s \in Session, ItemCall(s) PROVE EditsKeepActive'
    <2>1. ASSUME NEW i \in Item, NEW u \in User,
                 \/ UpdateAnnouncement(s, i, u) \/ DeleteAnnouncement(s, i, u)
                 \/ UpdateHallOfFameEntry(s, i, u) \/ DeleteHallOfFameEntry(s, i, u)
          PROVE  EditsKeepActive'
      <3>1. item[i] # None
        BY <2>1 DEF UpdateAnnouncement, DeleteAnnouncement, UpdateHallOfFameEntry,
                    DeleteHallOfFameEntry, MayEditAnnouncement, MayEditEntry
      <3>2. item[i].active \in BOOLEAN
        BY <3>1 DEF ClansInv, ClansTypeOK, ItemRow
      <3>3. \E active \in BOOLEAN : (active => item[i].active) /\ WillSaveItem(s, i, active)
        BY <2>1, <3>2 DEF UpdateAnnouncement, DeleteAnnouncement, UpdateHallOfFameEntry,
                          DeleteHallOfFameEntry
      <3> QED BY <1>3, <3>1, <3>3
    <2>2. CASE SaveItem(s)
      BY <1>1, <2>2, IdleCall DEF SaveItem, Ends
    <2> QED BY <1>4, <2>1, <2>2 DEF ItemCall
  <1>5. ASSUME NEW s \in Session, MemberCall(s) PROVE EditsKeepActive'
    <2>1. \E c : call' = [call EXCEPT ![s] = c] /\ c.op # "item"
      <3>0. ASSUME NEW c, call' = [call EXCEPT ![s] = c], c.op # "item"
            PROVE  \E d : call' = [call EXCEPT ![s] = d] /\ d.op # "item"
        BY <3>0
      <3>1. ASSUME NEW writes, WillSave(s, writes)
            PROVE  \E c : call' = [call EXCEPT ![s] = c] /\ c.op # "item"
        <4> DEFINE c == [op |-> "members", writes |-> writes]
        <4>1. call' = [call EXCEPT ![s] = c]
          BY <3>1 DEF WillSave, Starts
        <4>2. c.op # "item"
          OBVIOUS
        <4> HIDE DEF c
        <4> QED BY <3>0, <4>1, <4>2
      <3>2. CASE SaveAnswer(s)
        <4>1. CASE call[s].op = "approve"
          <5>1. call' = [call EXCEPT ![s].op = "add"]
            BY <3>2, <4>1 DEF SaveAnswer
          <5>2. [call[s] EXCEPT !.op = "add"].op = "add"
            BY <4>1, CallTypes DEF ClansInv
          <5> QED BY <5>1, <5>2
        <4>2. CASE call[s].op # "approve"
          BY <3>2, <4>2, IdleCall DEF SaveAnswer, Ends
        <4> QED BY <4>1, <4>2
      <3>3. ASSUME NEW u \in User, RequestJoin(s, u)
            PROVE  \E c : call' = [call EXCEPT ![s] = c] /\ c.op # "item"
        <4> DEFINE c == [op |-> "join", user |-> u]
        <4>1. call' = [call EXCEPT ![s] = c]
          BY <3>3 DEF RequestJoin, Starts
        <4>2. c.op # "item"
          OBVIOUS
        <4> HIDE DEF c
        <4> QED BY <3>0, <4>1, <4>2
      <3>4. ASSUME NEW q \in Request, NEW r \in Row,
                   ApproveRequest(s, q, r) \/ RejectRequest(s, q, r)
            PROVE  \E c : call' = [call EXCEPT ![s] = c] /\ c.op # "item"
        <4> DEFINE c(op) == [op |-> op, request |-> q, user |-> request[q].user,
                             clan |-> member[r].clan]
        <4>1. PICK op \in {"approve", "reject"} : call' = [call EXCEPT ![s] = c(op)]
          BY <3>4 DEF ApproveRequest, RejectRequest, Answer, Starts
        <4>2. c(op).op # "item"
          OBVIOUS
        <4> HIDE DEF c
        <4> QED BY <3>0, <4>1, <4>2
      <3>5. CASE \/ \E q \in Request : InsertRequest(s, q)
                 \/ \E r \in Row : AddMember(s, r)
                 \/ AddRefused(s) \/ SaveMembers(s)
        <4>1. call' = [call EXCEPT ![s] = Idle]
          BY <3>5 DEF InsertRequest, AddMember, AddRefused, SaveMembers, Ends
        <4> QED BY <4>1, IdleCall
      <3>6. CASE \/ \E r \in Row : LeaveClan(s, r)
                 \/ \E by, r \in Row : KickMember(s, by, r) \/ TransferMaster(s, by, r)
                 \/ \E by, r \in Row, role \in ClanRole : UpdateMemberRole(s, by, r, role)
        BY <3>1, <3>6 DEF LeaveClan, KickMember, TransferMaster, UpdateMemberRole
      <3> QED BY <1>5, <3>2, <3>3, <3>4, <3>5, <3>6 DEF MemberCall
    <2> QED BY <1>1, <2>1
  <1>6. CASE \/ \E c \in Clan, u \in User, r \in Row : Create(c, u, r)
             \/ \E i \in Item, u \in User : CreateAnnouncement(i, u) \/ CreateHallOfFameEntry(i, u)
             \/ UNCHANGED vars
    BY <1>2, <1>6 DEF Create, CreateAnnouncement, CreateHallOfFameEntry, Insert, vars
  <1> QED BY <1>4, <1>5, <1>6 DEF Next

(* A step that publishes a deleted item saves one that was read before the deletion.    *)
LEMMA PublishedFromOldRead ==
  ASSUME ClansInv, EditsKeepActive, Next, NEW i \in Item,
         item[i] # None, ~ item[i].active, item'[i].active
  PROVE  \E s \in Session : call[s].op = "item" /\ call[s].item = i /\ call[s].seen.active
  <1>1. item'[i] # item[i]
    OBVIOUS
  <1>2. ASSUME NEW j \in Item, NEW u \in User, NEW kind, Insert(j, u, kind) PROVE FALSE
    BY <1>1, <1>2 DEF Insert, ClansInv, ClansTypeOK
  <1>3. PICK s \in Session : SaveItem(s)
    <2>1. ASSUME NEW s \in Session, MemberCall(s) PROVE UNCHANGED item
      BY <2>1 DEF MemberCall, RequestJoin, InsertRequest, ApproveRequest, RejectRequest, Answer,
                  SaveAnswer, AddMember, AddRefused, LeaveClan, UpdateMemberRole, TransferMaster,
                  KickMember, WillSave, SaveMembers
    <2>2. ASSUME NEW c \in Clan, NEW u \in User, NEW r \in Row, Create(c, u, r) PROVE UNCHANGED item
      BY <2>2 DEF Create
    <2>3. ASSUME NEW s \in Session, ItemCall(s), ~ SaveItem(s) PROVE UNCHANGED item
      BY <2>3 DEF ItemCall, UpdateAnnouncement, DeleteAnnouncement, UpdateHallOfFameEntry,
                  DeleteHallOfFameEntry, WillSaveItem
    <2> QED BY <1>1, <1>2, <2>1, <2>2, <2>3 DEF Next, CreateAnnouncement, CreateHallOfFameEntry
  <1>4. call[s].op = "item" /\ item' = [item EXCEPT ![call[s].item] = call[s].value]
    BY <1>3 DEF SaveItem
  <1>5. call[s].item = i /\ item'[i] = call[s].value
    BY <1>1, <1>4 DEF ClansInv, ClansTypeOK
  <1>6. call[s].seen.active
    BY <1>4, <1>5 DEF EditsKeepActive
  <1> QED BY <1>4, <1>5, <1>6

(* What was deleted reappears only through a save that had not read the deletion, for    *)
(* any number of announcements, entries and requests.                                     *)
THEOREM ClansDeletedStaysDeleted == Spec => DeletedStaysDeleted
  <1>1. Init => EditsKeepActive
    BY IdleCall DEF Init, EditsKeepActive
  <1>2. ClansInv /\ EditsKeepActive /\ [Next]_vars =>
          [\A i \in Item :
             item[i] # None /\ ~ item[i].active /\ item'[i].active
               => \E s \in Session :
                    call[s].op = "item" /\ call[s].item = i /\ call[s].seen.active]_vars
    BY PublishedFromOldRead
  <1> QED BY <1>1, <1>2, ClansInitInv, ClansNextInv, EditsKeepActiveNext, PTL
          DEF Spec, DeletedStaysDeleted

-----------------------------------------------------------------------------
(* One master.                                                                            *)

(* Rows, and what requests in progress may put into them, are of clans that exist.         *)
ClansFounded ==
  /\ \A r \in Row : member[r] # None => founder[member[r].clan] # None
  /\ \A s \in Session :
       /\ call[s].op = "members" =>
            \A w \in call[s].writes : w.value # None => founder[w.value.clan] # None
       /\ call[s].op \in {"approve", "reject", "add"} => founder[call[s].clan] # None

(* The writes of a request, by what they do to the masters of a clan: a save of what was   *)
(* read as a master's row on its own, a save or removal that concerns no master, and the    *)
(* two saves that hand the clan over.                                                       *)
SavesMaster(w) == w.value # None /\ w.seen.role = "MASTER"

SparesMaster(w) ==
  /\ w.seen.role # "MASTER"
  /\ w.value # None => w.value.clan = w.seen.clan /\ w.value.role # "MASTER"

HandsOver(v, w) ==
  /\ v.row # w.row
  /\ v.value # None /\ w.value # None
  /\ v.seen.role = "MASTER" /\ v.value.role # "MASTER" /\ w.value.role = "MASTER"
  /\ v.value.clan = v.seen.clan /\ w.value.clan = v.seen.clan /\ w.seen.clan = v.seen.clan

Orderly(writes) ==
  \/ \E w \in writes : writes = {w} /\ (SavesMaster(w) \/ SparesMaster(w))
  \/ \E v, w \in writes : writes = {v, w} /\ HandsOver(v, w)

SavesOrderly == \A s \in Session : call[s].op = "members" => Orderly(call[s].writes)

OneMaster ==
  ~ mishap => \A c \in Clan : founder[c] # None => \E x \in Row : Masters(c) = {x}

MastersInv == ClansFounded /\ SavesOrderly /\ OneMaster

(* A request that starts or goes on, or an item that is saved.                               *)
LEMMA CallKeepsMasters ==
  ASSUME ClansInv, MastersInv, NEW s \in Session, NEW c, call' = [call EXCEPT ![s] = c],
         UNCHANGED <<founder, member>>, mishap => mishap',
         c.op = "members" => /\ Orderly(c.writes)
                             /\ \A w \in c.writes : w.value # None => founder[w.value.clan] # None,
         c.op \in {"approve", "reject", "add"} => founder[c.clan] # None
  PROVE  MastersInv'
  <1>1. \A t \in Session : call'[t] = IF t = s THEN c ELSE call[t]
    BY DEF ClansInv, ClansTypeOK
  <1>2. ClansFounded'
    BY <1>1 DEF MastersInv, ClansFounded
  <1>3. SavesOrderly'
    BY <1>1 DEF MastersInv, SavesOrderly, Orderly, SavesMaster, SparesMaster, HandsOver
  <1>4. \A d : Masters(d)' = Masters(d)
    BY DEF Masters, IsMaster
  <1>5. OneMaster'
    BY <1>4 DEF MastersInv, OneMaster
  <1> QED BY <1>2, <1>3, <1>5 DEF MastersInv

(* A request that has read rows of members and will save them.                               *)
LEMMA WillSaveKeepsMasters ==
  ASSUME ClansInv, MastersInv, NEW s \in Session, NEW writes, WillSave(s, writes),
         Orderly(writes), \A w \in writes : w.value # None => founder[w.value.clan] # None
  PROVE  MastersInv'
  <1> DEFINE c == [op |-> "members", writes |-> writes]
  <1>1. c.op = "members" /\ c.writes = writes
    OBVIOUS
  <1>2. call' = [call EXCEPT ![s] = c] /\ UNCHANGED <<founder, member, mishap>>
    BY DEF WillSave, Starts
  <1> HIDE DEF c
  <1> QED BY <1>1, <1>2, CallKeepsMasters

(* A row as it was read, and what is to be made of it.                                       *)
LEMMA SavedRow ==
  ASSUME ClansInv, MastersInv, NEW r \in Row, member[r] # None, NEW role \in ClanRole
  PROVE  /\ Saved(r, InRole(r, role)).row = r
         /\ Saved(r, InRole(r, role)).seen = member[r]
         /\ Saved(r, InRole(r, role)).value # None
         /\ Saved(r, InRole(r, role)).value.clan = member[r].clan
         /\ Saved(r, InRole(r, role)).value.role = role
         /\ founder[member[r].clan] # None
  <1>1. member[r] \in MemberRow
    BY DEF ClansInv, ClansTypeOK
  <1>2. /\ InRole(r, role) \in MemberRow /\ InRole(r, role).clan = member[r].clan
        /\ InRole(r, role).role = role
    BY <1>1 DEF InRole, MemberRow
  <1>3. InRole(r, role) # None
    BY <1>2, NoRowAssumption
  <1>4. founder[member[r].clan] # None
    BY DEF MastersInv, ClansFounded
  <1> QED BY <1>2, <1>3, <1>4 DEF Saved

(* Nobody leaves or is kicked who is read as a master.                                       *)
LEMMA RemovalKeepsMasters ==
  ASSUME ClansInv, MastersInv, NEW s \in Session, NEW r \in Row, ~ IsMaster(r),
         WillSave(s, {Saved(r, None)})
  PROVE  MastersInv'
  <1>1. PICK w : w = Saved(r, None)
    OBVIOUS
  <1>2. w.seen = member[r] /\ w.value = None
    BY <1>1 DEF Saved
  <1>3. SparesMaster(w)
    BY <1>2 DEF SparesMaster, IsMaster
  <1>4. Orderly({w})
    BY <1>3 DEF Orderly
  <1> QED BY <1>1, <1>2, <1>4, WillSaveKeepsMasters

(* A role that is given is not the master's.                                                  *)
LEMMA RoleKeepsMasters ==
  ASSUME ClansInv, MastersInv, NEW s \in Session, NEW by \in Row, NEW r \in Row,
         NEW role \in ClanRole, UpdateMemberRole(s, by, r, role)
  PROVE  MastersInv'
  <1>1. PICK w : w = Saved(r, InRole(r, role))
    OBVIOUS
  <1>2. member[r] # None /\ role # "MASTER" /\ WillSave(s, {w})
    BY <1>1 DEF UpdateMemberRole
  <1>3. /\ w.seen = member[r] /\ w.value # None /\ w.value.clan = member[r].clan
        /\ w.value.role = role /\ founder[w.value.clan] # None
    BY <1>1, <1>2, SavedRow
  <1>4. SavesMaster(w) \/ SparesMaster(w)
    BY <1>2, <1>3 DEF SavesMaster, SparesMaster
  <1>5. Orderly({w})
    BY <1>4 DEF Orderly
  <1> QED BY <1>2, <1>3, <1>5, WillSaveKeepsMasters

(* The master hands the clan to another row of it, or saves his own.                           *)
LEMMA TransferKeepsMasters ==
  ASSUME ClansInv, MastersInv, NEW s \in Session, NEW by \in Row, NEW r \in Row,
         TransferMaster(s, by, r)
  PROVE  MastersInv'
  <1>1. PICK v, w : v = Saved(by, InRole(by, "MANAGER")) /\ w = Saved(r, InRole(r, "MASTER"))
    OBVIOUS
  <1>2. /\ member[by] # None /\ member[r] # None /\ member[by].role = "MASTER"
        /\ member[by].clan = member[r].clan
        /\ WillSave(s, {v} \cup (IF r = by THEN {} ELSE {w}))
    BY <1>1 DEF TransferMaster, IsMaster
  <1>3. "MANAGER" \in ClanRole /\ "MASTER" \in ClanRole
    BY DEF ClanRole
  <1>4. /\ v.row = by /\ v.seen = member[by] /\ v.value # None /\ v.value.clan = member[by].clan
        /\ v.value.role = "MANAGER" /\ founder[v.value.clan] # None
    BY <1>1, <1>2, <1>3, SavedRow
  <1>5. /\ w.row = r /\ w.seen = member[r] /\ w.value # None /\ w.value.clan = member[r].clan
        /\ w.value.role = "MASTER" /\ founder[w.value.clan] # None
    BY <1>1, <1>2, <1>3, SavedRow
  <1>6. CASE r = by
    <2>1. {v} \cup (IF r = by THEN {} ELSE {w}) = {v}
      BY <1>6
    <2>2. SavesMaster(v)
      BY <1>2, <1>4 DEF SavesMaster
    <2>3. Orderly({v})
      BY <2>2 DEF Orderly
    <2>4. WillSave(s, {v})
      BY <1>2, <2>1
    <2> QED BY <1>4, <2>3, <2>4, WillSaveKeepsMasters
  <1>7. CASE r # by
    <2>1. {v} \cup (IF r = by THEN {} ELSE {w}) = {v, w}
      BY <1>7
    <2>2. HandsOver(v, w)
      BY <1>2, <1>4, <1>5, <1>7 DEF HandsOver
    <2>3. Orderly({v, w})
      BY <2>2 DEF Orderly
    <2>4. WillSave(s, {v, w})
      BY <1>2, <2>1
    <2>5. \A x \in {v, w} : founder[x.value.clan] # None
      BY <1>4, <1>5
    <2> QED BY <2>3, <2>4, <2>5, WillSaveKeepsMasters
  <1> QED BY <1>6, <1>7

(* A row that is written where there was none, in a clan that exists from then on: as the      *)
(* master of a clan that is created, or as a member of no rank.                                *)
LEMMA NewRowKeepsMasters ==
  ASSUME ClansInv, MastersInv, NEW r \in Row, member[r] = None, NEW m \in MemberRow,
         member' = [member EXCEPT ![r] = m], founder' \in [Clan -> User \cup {None}],
         founder'[m.clan] # None, UNCHANGED mishap,
         \A d \in Clan : founder[d] # None => founder'[d] # None,
         \A d \in Clan : d # m.clan => founder'[d] = founder[d],
         IF m.role = "MASTER" THEN founder[m.clan] = None ELSE founder[m.clan] # None
  PROVE  OneMaster' /\ \A q \in Row : member'[q] # None => founder'[member'[q].clan] # None
  <1>1. /\ \A q \in Row : member'[q] = IF q = r THEN m ELSE member[q]
        /\ \A q \in Row : member[q] # None => member[q] \in MemberRow
        /\ m # None /\ m.clan \in Clan
    BY NoRowAssumption DEF ClansInv, ClansTypeOK, MemberRow
  <1>2. \A q \in Row : member[q] # None => founder[member[q].clan] # None /\ member[q].clan \in Clan
    BY <1>1 DEF MastersInv, ClansFounded, MemberRow
  <1>3. \A q \in Row : member'[q] # None => founder'[member'[q].clan] # None
    BY <1>1, <1>2
  <1>4. ASSUME NEW d \in Clan
        PROVE  Masters(d)' = IF m.clan = d /\ m.role = "MASTER" THEN Masters(d) \cup {r} ELSE Masters(d)
    <2>1. Masters(d)' = {q \in Row : member'[q] # None /\ member'[q].clan = d
                                     /\ member'[q].role = "MASTER"}
      BY DEF Masters, IsMaster
    <2>2. Masters(d) = {q \in Row : member[q] # None /\ member[q].clan = d
                                    /\ member[q].role = "MASTER"}
      BY DEF Masters, IsMaster
    <2> QED BY <1>1, <2>1, <2>2
  <1>5. ASSUME ~ mishap, NEW d \in Clan, founder'[d] # None
        PROVE  \E x \in Row : Masters(d)' = {x}
    <2>1. CASE m.clan = d /\ m.role = "MASTER"
      <3>1. Masters(d) = {}
        BY <1>2, <2>1 DEF Masters
      <3>2. Masters(d)' = {r}
        BY <1>4, <2>1, <3>1
      <3> QED BY <3>2
    <2>2. CASE ~ (m.clan = d /\ m.role = "MASTER")
      <3>1. founder[d] # None
        BY <1>5, <2>2
      <3>2. PICK x \in Row : Masters(d) = {x}
        BY <1>5, <3>1 DEF MastersInv, OneMaster
      <3>3. Masters(d)' = {x}
        BY <1>4, <2>2, <3>2
      <3> QED BY <3>3
    <2> QED BY <2>1, <2>2
  <1>6. OneMaster'
    <2> SUFFICES ASSUME ~ mishap', NEW d \in Clan, founder'[d] # None
                 PROVE  \E x \in Row : Masters(d)' = {x}
      BY DEF OneMaster
    <2> QED BY <1>5
  <1> QED BY <1>3, <1>6

(* The founder is the first master.                                                            *)
LEMMA CreateKeepsMasters ==
  ASSUME ClansInv, MastersInv, NEW c \in Clan, NEW u \in User, NEW r \in Row, Create(c, u, r)
  PROVE  MastersInv'
  <1>1. PICK m : m = [clan |-> c, user |-> u, role |-> "MASTER"]
    OBVIOUS
  <1>2. m \in MemberRow /\ m.clan = c /\ m.role = "MASTER"
    BY <1>1 DEF MemberRow, ClanRole
  <1>3. /\ founder[c] = None /\ member[r] = None
        /\ founder' = [founder EXCEPT ![c] = u] /\ member' = [member EXCEPT ![r] = m]
        /\ UNCHANGED <<call, mishap>>
    BY <1>1 DEF Create, FreeRow
  <1>4. /\ founder' \in [Clan -> User \cup {None}] /\ founder'[c] = u /\ u # None
        /\ \A d \in Clan : d # c => founder'[d] = founder[d]
    BY <1>3, NoneAssumption DEF ClansInv, ClansTypeOK
  <1>5. \A d \in Clan : founder[d] # None => founder'[d] # None
    BY <1>4
  <1>6. OneMaster' /\ \A q \in Row : member'[q] # None => founder'[member'[q].clan] # None
    BY <1>2, <1>3, <1>4, <1>5, NewRowKeepsMasters
  <1>7. ASSUME NEW s \in Session
        PROVE  /\ call[s].op = "members" =>
                    \A w \in call[s].writes : w.value # None => founder'[w.value.clan] # None
               /\ call[s].op \in {"approve", "reject", "add"} => founder'[call[s].clan] # None
    <2>1. ASSUME call[s].op = "members", NEW w \in call[s].writes, w.value # None
          PROVE  founder'[w.value.clan] # None
      <3>1. w.value \in MemberRow
        BY <2>1, CallTypes DEF ClansInv, Write
      <3>2. founder[w.value.clan] # None /\ w.value.clan \in Clan
        BY <2>1, <3>1 DEF MastersInv, ClansFounded, MemberRow
      <3> QED BY <1>5, <3>2
    <2>2. ASSUME call[s].op \in {"approve", "reject", "add"} PROVE founder'[call[s].clan] # None
      <3>1. founder[call[s].clan] # None /\ call[s].clan \in Clan
        BY <2>2, CallTypes DEF ClansInv, MastersInv, ClansFounded
      <3> QED BY <1>5, <3>1
    <2> QED BY <2>1, <2>2
  <1>8. ClansFounded'
    BY <1>3, <1>6, <1>7 DEF ClansFounded
  <1>9. SavesOrderly'
    BY <1>3 DEF MastersInv, SavesOrderly, Orderly, SavesMaster, SparesMaster, HandsOver
  <1> QED BY <1>6, <1>8, <1>9 DEF MastersInv

(* Who is let in has no rank.                                                                   *)
LEMMA AddMemberKeepsMasters ==
  ASSUME ClansInv, MastersInv, NEW s \in Session, NEW r \in Row, AddMember(s, r)
  PROVE  MastersInv'
  <1>1. PICK m : m = [clan |-> call[s].clan, user |-> call[s].user, role |-> "MEMBER"]
    OBVIOUS
  <1>2. call[s].op = "add" /\ call[s].clan \in Clan /\ call[s].user \in User
    BY CallTypes DEF AddMember, ClansInv
  <1>3. m \in MemberRow /\ m.clan = call[s].clan /\ m.role # "MASTER"
    BY <1>1, <1>2 DEF MemberRow, ClanRole
  <1>4. founder[m.clan] # None
    BY <1>2, <1>3 DEF MastersInv, ClansFounded
  <1>5. /\ member[r] = None /\ member' = [member EXCEPT ![r] = m]
        /\ UNCHANGED <<founder, mishap>> /\ call' = [call EXCEPT ![s] = Idle]
    BY <1>1 DEF AddMember, FreeRow, Ends
  <1>6. founder' \in [Clan -> User \cup {None}] /\ founder'[m.clan] # None
    BY <1>4, <1>5 DEF ClansInv, ClansTypeOK
  <1>7. OneMaster' /\ \A q \in Row : member'[q] # None => founder'[member'[q].clan] # None
    BY <1>3, <1>4, <1>5, <1>6, NewRowKeepsMasters
  <1>8. \A t \in Session : call'[t] = IF t = s THEN Idle ELSE call[t]
    BY <1>5 DEF ClansInv, ClansTypeOK
  <1>9. ClansFounded'
    BY <1>5, <1>7, <1>8, IdleCall DEF MastersInv, ClansFounded
  <1>10. SavesOrderly'
    BY <1>8, IdleCall DEF MastersInv, SavesOrderly, Orderly, SavesMaster, SparesMaster, HandsOver
  <1> QED BY <1>7, <1>9, <1>10 DEF MastersInv

(* Saves that find the rows as they were read and save no master's row on its own leave a clan  *)
(* the one master it had, or the one it was handed to.                                          *)
LEMMA SaveKeepsOneMaster ==
  ASSUME ClansInv, MastersInv, NEW s \in Session, SaveMembers(s), ~ mishap'
  PROVE  OneMaster'
  <1> DEFINE writes == call[s].writes
  <1>1. /\ call[s].op = "members" /\ UNCHANGED founder /\ ~ mishap
        /\ \A w \in writes : member[w.row] = w.seen
        /\ \A w \in writes : writes = {w} => ~ SavesMaster(w)
        /\ member' = [r \in Row |-> IF \E w \in writes : w.row = r
                                      THEN (CHOOSE w \in writes : w.row = r).value ELSE member[r]]
    BY DEF SaveMembers, SavesMaster
  <1>2. Orderly(writes) /\ \A w \in writes : w \in Write /\ w.row \in Row
    BY <1>1, CallTypes DEF ClansInv, MastersInv, SavesOrderly, Write
  <1>3. \A c \in Clan : founder[c] # None => \E x \in Row : Masters(c) = {x}
    BY <1>1 DEF MastersInv, OneMaster
  <1> HIDE DEF writes
  <1>4. ASSUME NEW c PROVE
          /\ Masters(c) = {q \in Row : member[q] # None /\ member[q].clan = c
                                       /\ member[q].role = "MASTER"}
          /\ Masters(c)' = {q \in Row : member'[q] # None /\ member'[q].clan = c
                                        /\ member'[q].role = "MASTER"}
    BY DEF Masters, IsMaster
  <1>5. ASSUME NEW w \in writes, writes = {w}, SparesMaster(w)
        PROVE  \A c : Masters(c)' = Masters(c)
    <2>1. \A r \in Row : member'[r] = IF w.row = r THEN w.value ELSE member[r]
      BY <1>1, <1>5
    <2>2. w.seen.role # "MASTER" /\ w.seen = member[w.row]
          /\ (w.value # None => w.value.role # "MASTER")
      BY <1>1, <1>5 DEF SparesMaster
    <2>3. ASSUME NEW c, NEW r \in Row PROVE r \in Masters(c)' <=> r \in Masters(c)
      <3>1. CASE w.row = r
        <4>1. r \notin Masters(c)' /\ r \notin Masters(c)
          BY <1>4, <2>1, <2>2, <3>1
        <4> QED BY <4>1
      <3>2. CASE w.row # r
        BY <1>4, <2>1, <3>2
      <3> QED BY <3>1, <3>2
    <2> SUFFICES ASSUME NEW c PROVE Masters(c)' = Masters(c)
      OBVIOUS
    <2>4. Masters(c) \subseteq Row /\ Masters(c)' \subseteq Row
      BY <1>4
    <2> QED BY <2>3, <2>4
  <1>6. ASSUME NEW v \in writes, NEW w \in writes, writes = {v, w}, HandsOver(v, w),
               NEW c \in Clan, founder[c] # None
        PROVE  \E x \in Row : Masters(c)' = {x}
    <2>1. \A r \in Row : member'[r] = CASE r = v.row -> v.value
                                        [] r = w.row -> w.value
                                        [] OTHER -> member[r]
      <3>1. v.row # w.row
        BY <1>6 DEF HandsOver
      <3>2. \A r \in Row : r = v.row => (CHOOSE x \in writes : x.row = r) = v
        BY <1>6, <3>1
      <3>3. \A r \in Row : r = w.row => (CHOOSE x \in writes : x.row = r) = w
        BY <1>6, <3>1
      <3>4. \A r \in Row : (\E x \in writes : x.row = r) <=> (r = v.row \/ r = w.row)
        BY <1>6
      <3>5. \A r \in Row : r # v.row /\ r # w.row => member'[r] = member[r]
        BY <1>1, <3>4
      <3>6. \A r \in Row : r = v.row => member'[r] = v.value
        BY <1>1, <3>2, <3>4
      <3>7. \A r \in Row : r = w.row => member'[r] = w.value
        BY <1>1, <3>3, <3>4
      <3> QED BY <3>5, <3>6, <3>7
    <2>2. /\ v.row \in Row /\ w.row \in Row /\ v.row # w.row
          /\ member[v.row] = v.seen /\ member[w.row] = w.seen
          /\ member[v.row] # None
      BY <1>1, <1>2, <1>6, NoRowAssumption DEF HandsOver, Write
    <2>3. /\ v.value # None /\ w.value # None
          /\ v.seen.role = "MASTER" /\ v.value.role # "MASTER" /\ w.value.role = "MASTER"
          /\ v.value.clan = v.seen.clan /\ w.value.clan = v.seen.clan /\ w.seen.clan = v.seen.clan
      BY <1>6 DEF HandsOver
    <2>4. PICK x \in Row : Masters(c) = {x}
      BY <1>3, <1>6
    <2>5. CASE c = v.seen.clan
      <3>1. v.row \in Masters(c)
        BY <1>4, <2>2, <2>3, <2>5
      <3>2. Masters(c) = {v.row}
        BY <2>4, <3>1
      <3>3. ASSUME NEW q \in Row, q # v.row, q # w.row PROVE q \notin Masters(c)'
        <4>1. member'[q] = member[q] /\ q \notin Masters(c)
          BY <2>1, <3>2, <3>3
        <4> QED BY <1>4, <4>1
      <3>4. v.row \notin Masters(c)' /\ w.row \in Masters(c)'
        BY <1>4, <2>1, <2>2, <2>3, <2>5
      <3>5. Masters(c)' \subseteq Row
        BY <1>4
      <3>6. Masters(c)' = {w.row}
        BY <3>3, <3>4, <3>5
      <3> QED BY <2>2, <3>6
    <2>6. CASE c # v.seen.clan
      <3>1. \A q \in Row : q \in Masters(c)' <=> q \in Masters(c)
        BY <1>4, <2>1, <2>2, <2>3, <2>6
      <3>2. Masters(c)' = Masters(c)
        BY <1>4, <3>1
      <3> QED BY <2>4, <3>2
    <2> QED BY <2>5, <2>6
  <1>7. ASSUME NEW c \in Clan, founder[c] # None PROVE \E x \in Row : Masters(c)' = {x}
    BY <1>1, <1>2, <1>3, <1>5, <1>6, <1>7 DEF Orderly
  <1>8. OneMaster'
    <2> SUFFICES ASSUME NEW d \in Clan, founder'[d] # None
                 PROVE  \E x \in Row : Masters(d)' = {x}
      BY DEF OneMaster
    <2> QED BY <1>1, <1>7
  <1> QED BY <1>8

(* Saving the members that were read keeps one master, or leaves a mishap on record. *)
LEMMA SaveMembersKeepsMasters ==
  ASSUME ClansInv, MastersInv, NEW s \in Session, SaveMembers(s)
  PROVE  MastersInv'
  <1>1. /\ call[s].op = "members" /\ UNCHANGED founder /\ call' = [call EXCEPT ![s] = Idle]
        /\ member' = [r \in Row |->
             IF \E w \in call[s].writes : w.row = r
               THEN (CHOOSE w \in call[s].writes : w.row = r).value ELSE member[r]]
    BY DEF SaveMembers, Ends
  <1>2. \A t \in Session : call'[t] = IF t = s THEN Idle ELSE call[t]
    BY <1>1 DEF ClansInv, ClansTypeOK
  <1>3. ASSUME NEW r \in Row, member'[r] # None PROVE founder[member'[r].clan] # None
    <2>1. member'[r] = member[r] \/ \E w \in call[s].writes : member'[r] = w.value
      BY <1>1
    <2> QED BY <1>1, <1>3, <2>1 DEF MastersInv, ClansFounded
  <1>4. ClansFounded'
    BY <1>1, <1>2, <1>3, IdleCall DEF MastersInv, ClansFounded
  <1>5. SavesOrderly'
    BY <1>2, IdleCall DEF MastersInv, SavesOrderly, Orderly, SavesMaster, SparesMaster, HandsOver
  <1>6. OneMaster'
    <2>1. CASE mishap'
      BY <2>1 DEF OneMaster
    <2>2. CASE ~ mishap'
      BY <2>2, SaveKeepsOneMaster
    <2> QED BY <2>1, <2>2
  <1> QED BY <1>4, <1>5, <1>6 DEF MastersInv

(* Answering a request touches no master. *)
LEMMA AnswerKeepsMasters ==
  ASSUME ClansInv, MastersInv, NEW s \in Session, SaveAnswer(s)
  PROVE  MastersInv'
  <1>1. call[s].op \in {"approve", "reject"} /\ UNCHANGED <<founder, member, mishap>>
    BY DEF SaveAnswer
  <1>2. founder[call[s].clan] # None
    BY <1>1 DEF MastersInv, ClansFounded
  <1>3. CASE call[s].op = "approve"
    <2> DEFINE c == [call[s] EXCEPT !.op = "add"]
    <2>1. call' = [call EXCEPT ![s] = c]
      BY <1>3 DEF SaveAnswer
    <2>2. c.op = "add" /\ c.clan = call[s].clan
      BY <1>1, CallTypes DEF ClansInv
    <2> HIDE DEF c
    <2> QED BY <1>1, <1>2, <2>1, <2>2, CallKeepsMasters
  <1>4. CASE call[s].op = "reject"
    <2>1. call' = [call EXCEPT ![s] = Idle]
      BY <1>4 DEF SaveAnswer, Ends
    <2> QED BY <1>1, <2>1, IdleCall, CallKeepsMasters
  <1> QED BY <1>1, <1>3, <1>4

(* Every step on members and requests keeps the masters right. *)
LEMMA MemberCallKeepsMasters ==
  ASSUME ClansInv, MastersInv, NEW s \in Session, MemberCall(s)
  PROVE  MastersInv'
  <1>1. ASSUME NEW u \in User, RequestJoin(s, u) PROVE MastersInv'
    <2>1. PICK c : c = [op |-> "join", user |-> u]
      OBVIOUS
    <2>2. c.op = "join"
      BY <2>1
    <2>3. call' = [call EXCEPT ![s] = c] /\ UNCHANGED <<founder, member, mishap>>
      BY <1>1, <2>1 DEF RequestJoin, Starts
    <2> QED BY <2>2, <2>3, CallKeepsMasters
  <1>2. ASSUME NEW q \in Request, NEW r \in Row, NEW op \in {"approve", "reject"}, Answer(s, q, r, op)
        PROVE  MastersInv'
    <2>1. PICK c : c = [op |-> op, request |-> q, user |-> request[q].user, clan |-> member[r].clan]
      OBVIOUS
    <2>2. c.op = op /\ c.clan = member[r].clan
      BY <2>1
    <2>3. call' = [call EXCEPT ![s] = c] /\ UNCHANGED <<founder, member, mishap>> /\ member[r] # None
      BY <1>2, <2>1 DEF Answer, Starts
    <2>4. founder[c.clan] # None
      BY <2>2, <2>3 DEF MastersInv, ClansFounded
    <2> QED BY <2>2, <2>3, <2>4, CallKeepsMasters
  <1>3. ASSUME NEW q \in Request, NEW r \in Row, ApproveRequest(s, q, r) \/ RejectRequest(s, q, r)
        PROVE  MastersInv'
    BY <1>2, <1>3 DEF ApproveRequest, RejectRequest
  <1>4. CASE AddRefused(s) \/ \E q \in Request : InsertRequest(s, q)
    <2>1. call' = [call EXCEPT ![s] = Idle] /\ UNCHANGED <<founder, member, mishap>>
      BY <1>4 DEF AddRefused, InsertRequest, Ends
    <2> QED BY <2>1, IdleCall, CallKeepsMasters
  <1>5. ASSUME NEW r \in Row, LeaveClan(s, r) PROVE MastersInv'
    BY <1>5, RemovalKeepsMasters DEF LeaveClan
  <1>6. ASSUME NEW by \in Row, NEW r \in Row, KickMember(s, by, r) PROVE MastersInv'
    BY <1>6, RemovalKeepsMasters DEF KickMember
  <1> QED BY <1>1, <1>3, <1>4, <1>5, <1>6, AnswerKeepsMasters, AddMemberKeepsMasters,
             RoleKeepsMasters, TransferKeepsMasters, SaveMembersKeepsMasters DEF MemberCall

(* Announcements and the hall of fame have no masters. *)
LEMMA ItemCallKeepsMasters ==
  ASSUME ClansInv, MastersInv, NEW s \in Session, ItemCall(s)
  PROVE  MastersInv'
  <1>1. ASSUME NEW i \in Item, NEW active, WillSaveItem(s, i, active) PROVE MastersInv'
    <2>1. PICK c : c = [op |-> "item", item |-> i, seen |-> item[i],
                        value |-> [item[i] EXCEPT !.active = active]]
      OBVIOUS
    <2>2. c.op = "item"
      BY <2>1
    <2>3. call' = [call EXCEPT ![s] = c] /\ UNCHANGED <<founder, member, mishap>>
      BY <1>1, <2>1 DEF WillSaveItem, Starts
    <2> QED BY <2>2, <2>3, CallKeepsMasters
  <1>2. CASE SaveItem(s)
    <2>1. call' = [call EXCEPT ![s] = Idle] /\ UNCHANGED <<founder, member>> /\ (mishap => mishap')
      BY <1>2 DEF SaveItem, Ends
    <2> QED BY <2>1, IdleCall, CallKeepsMasters
  <1> QED BY <1>1, <1>2 DEF ItemCall, UpdateAnnouncement, DeleteAnnouncement,
             UpdateHallOfFameEntry, DeleteHallOfFameEntry

(* Every step keeps the masters right. *)
LEMMA MastersNextInv == ClansInv /\ MastersInv /\ [Next]_vars => MastersInv'
  <1> SUFFICES ASSUME ClansInv, MastersInv, [Next]_vars PROVE MastersInv'
    OBVIOUS
  <1>1. CASE UNCHANGED <<founder, member, call, mishap>>
    <2>1. \A c : Masters(c)' = Masters(c)
      BY <1>1 DEF Masters, IsMaster
    <2>2. ClansFounded' /\ OneMaster'
      BY <1>1, <2>1 DEF MastersInv, ClansFounded, OneMaster
    <2>3. SavesOrderly'
      BY <1>1 DEF MastersInv, SavesOrderly, Orderly, SavesMaster, SparesMaster, HandsOver
    <2> QED BY <2>2, <2>3 DEF MastersInv
  <1>2. CASE UNCHANGED vars
    BY <1>1, <1>2 DEF vars
  <1>3. ASSUME NEW i \in Item, NEW u \in User, CreateAnnouncement(i, u) \/ CreateHallOfFameEntry(i, u)
        PROVE  MastersInv'
    BY <1>1, <1>3 DEF CreateAnnouncement, CreateHallOfFameEntry, Insert
  <1> QED BY <1>2, <1>3, CreateKeepsMasters, MemberCallKeepsMasters, ItemCallKeepsMasters DEF Next

(* A clan that was created has one master, however many requests read and save at a time, as     *)
(* long as no save has undone a change it had not read and no master's row was saved on its own  *)
(* (clans.service.ts, transferMaster, updateMemberRole, kickMember, leaveClan).                   *)
THEOREM ClansHaveOneMaster == Spec => []OneMasterUnlessMishap
  <1>1. Init => MastersInv
    BY IdleCall DEF Init, MastersInv, ClansFounded, SavesOrderly, OneMaster
  <1>2. MastersInv => OneMasterUnlessMishap
    <2> SUFFICES ASSUME MastersInv, ~ mishap, NEW c \in Clan, founder[c] # None
                 PROVE  Cardinality(Masters(c)) = 1
      BY DEF OneMasterUnlessMishap
    <2>1. PICK x \in Row : Masters(c) = {x}
      BY DEF MastersInv, OneMaster
    <2> QED BY <2>1, FS_Singleton
  <1> QED BY <1>1, <1>2, ClansInitInv, ClansNextInv, MastersNextInv, PTL DEF Spec
=============================================================================
