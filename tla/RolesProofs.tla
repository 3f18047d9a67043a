---------------------------- MODULE RolesProofs -----------------------------
(***************************************************************************)
(* For any number of roles, names, permissions, members and handlers:      *)
(* names of roles are unique unless two creations of one name overlap, and *)
(* what a member may do follows from the roles the screens show.           *)
(***************************************************************************)
EXTENDS Roles, FiniteSetTheorems, TLAPS

(* The rows, without the bound on their number.                            *)
TablesOK ==
  /\ role \in [RoleRows -> [name : Names \cup {None}, status : Status]]
  /\ rolePermission \in [RoleRows -> [Permissions -> Status]]
  /\ membershipRole \in [RoleRows -> [Members -> Seq({"ACTIVE", "DELETED"})]]
  /\ membership \in [Members -> {"ACTIVE", "DELETED"}]

(* A role row has a name from the time it is inserted.                     *)
NamedOK ==
  \A r \in RoleRows : role[r].name = None <=> role[r].status = "absent"

(* What a handler has looked up is what its save needs.  The row it is     *)
(* going to insert is nobody else's.                                       *)
HandlersOK ==
  /\ handler = [h \in Handlers |-> handler[h]]
  /\ \A h \in Handlers :
       /\ handler[h].op = "create" =>
            /\ handler[h].role \in RoleRows
            /\ role[handler[h].role] = NoRole
            /\ handler[h].on.name \in Names
       /\ handler[h].op = "delete" =>
            /\ handler[h].role \in RoleRows
            /\ role[handler[h].role] # NoRole
       /\ handler[h].op \in {"add", "remove"} =>
            /\ handler[h].role \in RoleRows
            /\ handler[h].on \subseteq Members
  /\ \A h, k \in Handlers :
       /\ handler[h].op = "create" /\ handler[k].op = "create"
       /\ handler[h].role = handler[k].role
       => h = k

LateOK == late \subseteq [op : {"add", "remove"}, role : RoleRows, member : Members]

RolesShape == TablesOK /\ NamedOK /\ HandlersOK /\ LateOK

-----------------------------------------------------------------------------
(* deActivateMember marks one row of one member, or none.                  *)
LEMMA DeActivateMemberShape ==
  ASSUME TablesOK, NEW r \in RoleRows, NEW M \in SUBSET Members, DeActivateMember(r, M)
  PROVE  /\ membershipRole' \in [RoleRows -> [Members -> Seq({"ACTIVE", "DELETED"})]]
         /\ \A q \in RoleRows, m \in Members :
              DOMAIN membershipRole'[q][m] = DOMAIN membershipRole[q][m]
<1>1. CASE UNCHANGED membershipRole
  BY <1>1 DEF TablesOK
<1>2. ASSUME NEW p \in RowsOf(r, M),
             membershipRole' = [membershipRole EXCEPT ![r][p[1]][p[2]] = "DELETED"]
      PROVE  /\ membershipRole' \in [RoleRows -> [Members -> Seq({"ACTIVE", "DELETED"})]]
             /\ \A q \in RoleRows, m \in Members :
                  DOMAIN membershipRole'[q][m] = DOMAIN membershipRole[q][m]
  <2> DEFINE rows == membershipRole[r][p[1]]
             marked == [rows EXCEPT ![p[2]] = "DELETED"]
  <2>1. p[1] \in Members /\ p[2] \in DOMAIN rows
    BY DEF RowsOf
  <2>2. rows \in Seq({"ACTIVE", "DELETED"})
    BY <2>1 DEF TablesOK
  <2>3. marked \in Seq({"ACTIVE", "DELETED"}) /\ DOMAIN marked = DOMAIN rows
    BY <2>1, <2>2
  <2>4. membershipRole' =
          [membershipRole EXCEPT ![r] = [membershipRole[r] EXCEPT ![p[1]] = marked]]
    BY <1>2
  <2> HIDE DEF marked, rows
  <2>5. /\ membershipRole[r] \in [Members -> Seq({"ACTIVE", "DELETED"})]
        /\ [membershipRole[r] EXCEPT ![p[1]] = marked]
             \in [Members -> Seq({"ACTIVE", "DELETED"})]
    BY <2>1, <2>3 DEF TablesOK
  <2>6. membershipRole' \in [RoleRows -> [Members -> Seq({"ACTIVE", "DELETED"})]]
    BY <2>4, <2>5 DEF TablesOK
  <2>7. ASSUME NEW q \in RoleRows, NEW m \in Members
        PROVE  DOMAIN membershipRole'[q][m] = DOMAIN membershipRole[q][m]
    BY <2>1, <2>3, <2>4, <2>5 DEF TablesOK, rows
  <2>8. QED
    BY <2>6, <2>7
<1>3. QED
  BY <1>1, <1>2 DEF DeActivateMember

(* A row is appended for a member.                                         *)
LEMMA AppendedShape ==
  ASSUME TablesOK, NEW r \in RoleRows, NEW M \in SUBSET Members,
         membershipRole' = [membershipRole EXCEPT ![r] =
           [m \in Members |-> IF m \in M THEN Append(@[m], "ACTIVE") ELSE @[m]]]
  PROVE  membershipRole' \in [RoleRows -> [Members -> Seq({"ACTIVE", "DELETED"})]]
<1>1. \A m \in Members : membershipRole[r][m] \in Seq({"ACTIVE", "DELETED"})
  BY DEF TablesOK
<1>2. \A m \in Members : Append(membershipRole[r][m], "ACTIVE") \in Seq({"ACTIVE", "DELETED"})
  BY <1>1
<1>3. QED
  BY <1>1, <1>2 DEF TablesOK

(* A save of an answered PATCH appends a row for one member.               *)
LEMMA LateAppendedShape ==
  ASSUME TablesOK, NEW r \in RoleRows, NEW m \in Members,
         membershipRole' = [membershipRole EXCEPT ![r][m] = Append(@, "ACTIVE")]
  PROVE  membershipRole' \in [RoleRows -> [Members -> Seq({"ACTIVE", "DELETED"})]]
<1>1. membershipRole[r][m] \in Seq({"ACTIVE", "DELETED"})
  BY DEF TablesOK
<1>2. Append(membershipRole[r][m], "ACTIVE") \in Seq({"ACTIVE", "DELETED"})
  BY <1>1
<1>3. QED
  BY <1>1, <1>2 DEF TablesOK

-----------------------------------------------------------------------------
(* One lemma per group of actions: requests, saves, and what happens       *)
(* beside the handlers.                                                    *)

(* The row a creation is given exists for nobody else.                     *)
LEMMA FreeRolesAreFree ==
  ASSUME FreeRoles # {}
  PROVE  LET r == CHOOSE r \in FreeRoles : TRUE IN
         /\ r \in RoleRows
         /\ role[r] = NoRole
         /\ \A h \in Handlers : handler[h].role # r
BY DEF FreeRoles

(* A request that begins leaves tables and handlers well formed.           *)
LEMMA RequestShape ==
  ASSUME RolesShape, NEW h \in Handlers, Request(h)
  PROVE  RolesShape'
<1> USE DEF RolesShape
<1>1. ASSUME NEW n \in Names, NEW codes \in SUBSET Permissions, BeginRole(h, n, codes)
      PROVE  RolesShape'
  <2> DEFINE r == CHOOSE r \in FreeRoles : TRUE
  <2>1. /\ r \in RoleRows /\ role[r] = NoRole
        /\ \A k \in Handlers : handler[k].role # r
    BY <1>1, FreeRolesAreFree DEF BeginRole
  <2> HIDE DEF r
  <2>2. /\ UNCHANGED roleTables /\ UNCHANGED late
        /\ handler' = [handler EXCEPT ![h] =
             [op |-> "create", role |-> r,
              on |-> [name |-> n, permissions |-> FindByCode(codes)]]]
    BY <1>1 DEF BeginRole, Begin, r
  <2>3. HandlersOK'
    BY <2>1, <2>2 DEF HandlersOK, roleTables
  <2>4. QED
    BY <2>2, <2>3 DEF TablesOK, NamedOK, LateOK, roleTables
<1>2. ASSUME NEW r \in RoleRows, FindRole(h, r)
      PROVE  RolesShape'
  <2>1. role[r] # NoRole
    BY <1>2 DEF FindRole, NoRole
  <2>2. HandlersOK'
    BY <1>2, <2>1 DEF FindRole, Begin, HandlersOK, roleTables
  <2>3. QED
    BY <1>2, <2>2 DEF FindRole, Begin, TablesOK, NamedOK, LateOK, roleTables
<1>3. ASSUME NEW r \in RoleRows, NEW M \in SUBSET Members, AddMembership(h, r, M)
      PROVE  RolesShape'
  <2>1. HandlersOK'
    BY <1>3 DEF AddMembership, Begin, Found, HandlersOK, roleTables
  <2>2. QED
    BY <1>3, <2>1 DEF AddMembership, Begin, TablesOK, NamedOK, LateOK, roleTables
<1>4. ASSUME NEW r \in RoleRows, NEW m \in Members, RemoveMembership(h, r, m)
      PROVE  RolesShape'
  <2>1. HandlersOK'
    BY <1>4 DEF RemoveMembership, Begin, Found, HandlersOK, roleTables
  <2>2. QED
    BY <1>4, <2>1 DEF RemoveMembership, Begin, TablesOK, NamedOK, LateOK, roleTables
<1>5. QED
  BY <1>1, <1>2, <1>3, <1>4 DEF Request

(* A handler that ends leaves the others what they had.                    *)
LEMMA EndShape ==
  ASSUME RolesShape, NEW h \in Handlers, End(h), UNCHANGED role
  PROVE  HandlersOK'
BY DEF RolesShape, HandlersOK, End, NoRequest

(* So does each save.                                                      *)
LEMMA SaveShape ==
  ASSUME RolesAssumption, RolesShape, NEW h \in Handlers, Save(h)
  PROVE  RolesShape'
<1> USE DEF RolesShape
<1>1. CASE CreateRole(h)
  <2> DEFINE r == handler[h].role
             n == handler[h].on.name
  <2>1. /\ handler[h].op = "create"
        /\ r \in RoleRows /\ n \in Names /\ role[r] = NoRole
    BY <1>1 DEF CreateRole, HandlersOK
  <2>2. /\ role' = [role EXCEPT ![r] = [name |-> n, status |-> "ACTIVE"]]
        /\ handler' = [handler EXCEPT ![h] = NoRequest]
        /\ UNCHANGED <<membershipRole, membership, late>>
    BY <1>1 DEF CreateRole, End
  <2>3. TablesOK'
    <3>1. rolePermission' \in [RoleRows -> [Permissions -> Status]]
      BY <1>1, <2>1 DEF CreateRole, TablesOK, Status
    <3>2. QED
      BY <2>1, <2>2, <3>1 DEF TablesOK, Status
  <2>4. NamedOK'
    BY <2>1, <2>2, None \notin Names DEF NamedOK, TablesOK, RolesAssumption
  <2>5. HandlersOK'
    BY <2>1, <2>2 DEF HandlersOK, TablesOK, NoRequest, NoRole
  <2>6. QED
    BY <2>2, <2>3, <2>4, <2>5 DEF LateOK
<1>2. CASE DeleteRole(h)
  <2> DEFINE r == handler[h].role
  <2>1. handler[h].op = "delete" /\ r \in RoleRows /\ role[r] # NoRole
    BY <1>2 DEF DeleteRole, HandlersOK
  <2>2. /\ role' = [role EXCEPT ![r].status = "IN_ACTIVE"]
        /\ handler' = [handler EXCEPT ![h] = NoRequest]
        /\ UNCHANGED <<membershipRole, membership, late>>
    BY <1>2 DEF DeleteRole, End
  <2>3. role[r].name # None
    BY <2>1 DEF TablesOK, NamedOK, NoRole
  <2>4. TablesOK'
    <3>1. rolePermission' \in [RoleRows -> [Permissions -> Status]]
      BY <1>2, <2>1 DEF DeleteRole, TablesOK, Status
    <3>2. QED
      BY <2>1, <2>2, <3>1 DEF TablesOK, Status
  <2>5. NamedOK'
    BY <2>1, <2>2, <2>3 DEF NamedOK, TablesOK
  <2>6. HandlersOK'
    BY <2>1, <2>2 DEF HandlersOK, TablesOK, NoRequest, NoRole
  <2>7. QED
    BY <2>2, <2>4, <2>5, <2>6 DEF LateOK
<1>3. CASE AssignMemberships(h)
  <2>1. handler[h].role \in RoleRows /\ handler[h].on \in SUBSET Members
    BY <1>3 DEF AssignMemberships, HandlersOK
  <2>2. membershipRole' \in [RoleRows -> [Members -> Seq({"ACTIVE", "DELETED"})]]
    BY <1>3, <2>1, AppendedShape DEF AssignMemberships
  <2>3. HandlersOK'
    BY <1>3, EndShape DEF AssignMemberships
  <2>4. QED
    BY <1>3, <2>2, <2>3 DEF AssignMemberships, TablesOK, NamedOK, LateOK
<1>4. CASE RemoveMember(h)
  <2>1. handler[h].role \in RoleRows /\ handler[h].on \in SUBSET Members
    BY <1>4 DEF RemoveMember, HandlersOK
  <2>2. membershipRole' \in [RoleRows -> [Members -> Seq({"ACTIVE", "DELETED"})]]
    BY <1>4, <2>1, DeActivateMemberShape DEF RemoveMember
  <2>3. HandlersOK'
    BY <1>4, EndShape DEF RemoveMember
  <2>4. QED
    BY <1>4, <2>2, <2>3 DEF RemoveMember, TablesOK, NamedOK, LateOK
<1>5. QED
  BY <1>1, <1>2, <1>3, <1>4 DEF Save

(* So does what happens beside the handlers: failures, a PATCH and its     *)
(* late saves, a member that is deleted.                                   *)
LEMMA BesideShape ==
  ASSUME RolesShape,
         \/ \E h \in Handlers : Fail(h)
         \/ \E r \in RoleRows, add \in SUBSET Members, remove \in SUBSET Members :
              UpdateRole(r, add, remove)
         \/ \E s \in late : SaveLate(s) \/ LoseLate(s)
         \/ \E m \in Members : DeleteMembership(m)
         \/ UNCHANGED roleVars
  PROVE  RolesShape'
<1> USE DEF RolesShape
<1>1. ASSUME NEW h \in Handlers, Fail(h)
      PROVE  RolesShape'
  <2>1. HandlersOK'
    BY <1>1, EndShape DEF Fail, roleTables
  <2>2. QED
    BY <1>1, <2>1 DEF Fail, TablesOK, NamedOK, LateOK, roleTables
<1>2. ASSUME NEW r \in RoleRows, NEW add \in SUBSET Members, NEW remove \in SUBSET Members,
             UpdateRole(r, add, remove)
      PROVE  RolesShape'
  <2>1. LateOK'
    BY <1>2 DEF UpdateRole, Found, LateOK
  <2>2. QED
    BY <1>2, <2>1 DEF UpdateRole, TablesOK, NamedOK, HandlersOK, roleTables
<1>3. ASSUME NEW s \in late, SaveLate(s)
      PROVE  RolesShape'
  <2>1. s.role \in RoleRows /\ s.member \in Members
    BY DEF LateOK
  <2>2. membershipRole' \in [RoleRows -> [Members -> Seq({"ACTIVE", "DELETED"})]]
    <3>1. CASE s.op = "add"
      BY <1>3, <2>1, <3>1, LateAppendedShape DEF SaveLate
    <3>2. CASE DeActivateMember(s.role, {s.member})
      BY <2>1, <3>2, DeActivateMemberShape
    <3>3. QED
      BY <1>3, <3>1, <3>2 DEF SaveLate
  <2>3. QED
    BY <1>3, <2>2 DEF SaveLate, TablesOK, NamedOK, HandlersOK, LateOK
<1>4. ASSUME NEW s \in late, LoseLate(s)
      PROVE  RolesShape'
  BY <1>4 DEF LoseLate, TablesOK, NamedOK, HandlersOK, LateOK, roleTables
<1>5. ASSUME NEW m \in Members, DeleteMembership(m)
      PROVE  RolesShape'
  BY <1>5 DEF DeleteMembership, TablesOK, NamedOK, HandlersOK, LateOK
<1>6. CASE UNCHANGED roleVars
  BY <1>6 DEF roleVars, roleTables, TablesOK, NamedOK, HandlersOK, LateOK
<1>7. QED
  BY <1>1, <1>2, <1>3, <1>4, <1>5, <1>6

(* The shape of the tables, of what handlers hold and of late saves holds  *)
(* in every state of Roles.                                                *)
THEOREM RolesShapeHolds ==
  ASSUME RolesAssumption
  PROVE  RolesSpec => []RolesShape
<1>1. RolesInit => RolesShape
  <2> SUFFICES ASSUME RolesInit PROVE RolesShape
    OBVIOUS
  <2>1. TablesOK
    BY DEF RolesInit, TablesOK, NoRole, Status
  <2>2. QED
    BY <2>1 DEF RolesInit, RolesShape, NamedOK, HandlersOK, LateOK, NoRole, NoRequest
<1>2. RolesShape /\ [RolesNext]_roleVars => RolesShape'
  <2> SUFFICES ASSUME RolesShape, [RolesNext]_roleVars PROVE RolesShape'
    OBVIOUS
  <2>1. ASSUME NEW h \in Handlers, Request(h) PROVE RolesShape'
    BY <2>1, RequestShape
  <2>2. ASSUME NEW h \in Handlers, Save(h) PROVE RolesShape'
    BY <2>2, SaveShape
  <2>3. QED
    BY <2>1, <2>2, BesideShape DEF RolesNext, AtRest
<1>3. QED
  BY <1>1, <1>2, PTL DEF RolesSpec

-----------------------------------------------------------------------------
(* OneRolePerName is not inductive: a creation that has looked the name up *)
(* inserts it later.  As long as no other creation of the name overlaps it,*)
(* the name stays free, because only a creation takes one.                 *)
NamesInv ==
  /\ OneRolePerName
  /\ \A h \in Handlers :
       handler[h].op = "create" =>
         \/ handler[h].on.name \in conflicts
         \/ \A r \in RoleRows : role[r].name # handler[h].on.name
  /\ \A h, k \in Handlers :
       /\ handler[h].op = "create" /\ handler[k].op = "create"
       /\ handler[h].on.name = handler[k].on.name
       /\ h # k
       => handler[h].on.name \in conflicts

(* Neither names nor what is about to be created change.                   *)
LEMMA NamesUndisturbed ==
  ASSUME RolesShape, NamesInv, UNCHANGED <<role, conflicts>>,
         handler' = [h \in Handlers |-> handler'[h]],
         \A h \in Handlers : handler'[h].op = "create" => handler'[h] = handler[h]
  PROVE  NamesInv'
BY DEF NamesInv, OneRolePerName

(* A name that was found free stays free until its role is inserted,       *)
(* unless two creations overlap.                                           *)
LEMMA NamesStep ==
  ASSUME RolesAssumption, RolesShape, NamesInv, [RolesNext]_roleVars
  PROVE  NamesInv'
<1>0. handler = [h \in Handlers |-> handler[h]]
  BY DEF RolesShape, HandlersOK
<1>1. ASSUME NEW h \in Handlers, NEW n \in Names, NEW codes \in SUBSET Permissions,
             BeginRole(h, n, codes)
      PROVE  NamesInv'
  <2> DEFINE r == CHOOSE r \in FreeRoles : TRUE
             on == [name |-> n, permissions |-> FindByCode(codes)]
             overlapping == {k \in Handlers : handler[k].op = "create" /\ handler[k].on.name = n}
  <2>1. /\ ~NameTaken(n)
        /\ UNCHANGED role
        /\ handler[h] = NoRequest
        /\ handler' = [handler EXCEPT ![h] = [op |-> "create", role |-> r, on |-> on]]
        /\ conflicts' = conflicts \cup {n : k \in overlapping}
    BY <1>1 DEF BeginRole, Begin, roleTables
  <2>2. /\ conflicts \subseteq conflicts'
        /\ \A k \in Handlers :
             handler[k].op = "create" /\ handler[k].on.name = n => n \in conflicts'
    BY <2>1
  <2>3. /\ handler'[h].on.name = n
        /\ \A k \in Handlers \ {h} : handler'[k] = handler[k]
    BY <1>0, <2>1
  <2> HIDE DEF r, on
  <2>4. OneRolePerName'
    BY <2>1, <2>2 DEF NamesInv, OneRolePerName
  <2>5. \A k \in Handlers :
          handler'[k].op = "create" =>
            \/ handler'[k].on.name \in conflicts'
            \/ \A q \in RoleRows : role'[q].name # handler'[k].on.name
    BY <2>1, <2>2, <2>3 DEF NamesInv, NameTaken
  <2>6. \A k, g \in Handlers :
          /\ handler'[k].op = "create" /\ handler'[g].op = "create"
          /\ handler'[k].on.name = handler'[g].on.name
          /\ k # g
          => handler'[k].on.name \in conflicts'
    BY <2>2, <2>3 DEF NamesInv
  <2>7. QED
    BY <2>4, <2>5, <2>6 DEF NamesInv
<1>2. ASSUME NEW h \in Handlers, CreateRole(h)
      PROVE  NamesInv'
  <2> DEFINE r == handler[h].role
             n == handler[h].on.name
  <2>1. /\ handler[h].op = "create"
        /\ r \in RoleRows /\ n \in Names /\ role[r] = NoRole
    BY <1>2 DEF CreateRole, RolesShape, HandlersOK
  <2>2. /\ role' = [role EXCEPT ![r] = [name |-> n, status |-> "ACTIVE"]]
        /\ handler' = [handler EXCEPT ![h] = NoRequest]
        /\ UNCHANGED conflicts
    BY <1>2 DEF CreateRole, End
  <2>3. /\ role'[r].name = n
        /\ \A q \in RoleRows \ {r} : role'[q] = role[q]
    BY <2>1, <2>2 DEF RolesShape, TablesOK
  <2>4. /\ handler'[h].op # "create"
        /\ \A k \in Handlers \ {h} : handler'[k] = handler[k]
    BY <1>0, <2>2 DEF NoRequest
  <2> HIDE DEF r, n
  <2>5. n \in conflicts \/ \A q \in RoleRows : role[q].name # n
    BY <2>1 DEF NamesInv, n
  <2>6. OneRolePerName'
    BY <2>1, <2>2, <2>3, <2>5 DEF NamesInv, OneRolePerName
  <2>7. ASSUME NEW k \in Handlers, handler'[k].op = "create"
        PROVE  \/ handler'[k].on.name \in conflicts'
               \/ \A q \in RoleRows : role'[q].name # handler'[k].on.name
    <3>1. k # h /\ handler'[k] = handler[k]
      BY <2>4, <2>7
    <3>2. CASE handler[k].on.name = n
      BY <2>1, <2>2, <2>7, <3>1, <3>2 DEF NamesInv, n
    <3>3. CASE handler[k].on.name # n
      BY <2>2, <2>3, <2>7, <3>1, <3>3 DEF NamesInv
    <3>4. QED
      BY <3>2, <3>3
  <2>8. \A k, g \in Handlers :
          /\ handler'[k].op = "create" /\ handler'[g].op = "create"
          /\ handler'[k].on.name = handler'[g].on.name
          /\ k # g
          => handler'[k].on.name \in conflicts'
    BY <2>2, <2>4 DEF NamesInv
  <2>9. QED
    BY <2>6, <2>7, <2>8 DEF NamesInv
<1>3. ASSUME NEW h \in Handlers, DeleteRole(h)
      PROVE  NamesInv'
  <2>1. \A r \in RoleRows : role'[r].name = role[r].name
    BY <1>3 DEF DeleteRole, RolesShape, TablesOK
  <2>2. /\ handler'[h].op # "create"
        /\ \A k \in Handlers \ {h} : handler'[k] = handler[k]
        /\ UNCHANGED conflicts
    BY <1>0, <1>3 DEF DeleteRole, End, NoRequest
  <2>3. QED
    BY <2>1, <2>2 DEF NamesInv, OneRolePerName
<1>4. ASSUME NEW h \in Handlers, NEW op \in {"delete", "add", "remove"}, NEW r, NEW on,
             Begin(h, op, r, on), UNCHANGED conflicts
      PROVE  NamesInv'
  <2>1. /\ UNCHANGED role
        /\ handler' = [handler EXCEPT ![h] = [op |-> op, role |-> r, on |-> on]]
    BY <1>4 DEF Begin, roleTables
  <2>2. QED
    BY <1>0, <1>4, <2>1, NamesUndisturbed
<1>5. ASSUME NEW h \in Handlers, End(h), UNCHANGED <<role, conflicts>>
      PROVE  NamesInv'
  BY <1>0, <1>5, NamesUndisturbed DEF End, NoRequest
<1>6. CASE UNCHANGED <<role, handler, conflicts>>
  BY <1>0, <1>6, NamesUndisturbed
<1>7. ASSUME NEW h \in Handlers, Request(h) \/ Save(h) \/ Fail(h)
      PROVE  NamesInv'
  <2>1. CASE Request(h)
    BY <1>1, <1>4, <2>1 DEF Request, FindRole, AddMembership, RemoveMembership
  <2>2. CASE Save(h)
    BY <1>2, <1>3, <1>5, <2>2 DEF Save, AssignMemberships, RemoveMember
  <2>3. CASE Fail(h)
    BY <1>5, <2>3 DEF Fail, roleTables
  <2>4. QED
    BY <1>7, <2>1, <2>2, <2>3
<1>8. QED
  BY <1>6, <1>7 DEF RolesNext, AtRest, UpdateRole, SaveLate, LoseLate, DeleteMembership,
                    roleTables, roleVars

(* A name belongs to one role for ever, however many handlers create and   *)
(* delete roles, unless two creations of that name overlap.                *)
THEOREM NamesAreUnique ==
  ASSUME RolesAssumption
  PROVE  RolesSpec => []OneRolePerName
<1>1. RolesInit => NamesInv
  BY DEF RolesInit, NamesInv, OneRolePerName, NoRole, NoRequest
<1>2. RolesShape /\ NamesInv /\ [RolesNext]_roleVars => NamesInv'
  BY NamesStep
<1>3. NamesInv => OneRolePerName
  BY DEF NamesInv
<1>4. QED
  BY <1>1, <1>2, <1>3, RolesShapeHolds, PTL DEF RolesSpec

-----------------------------------------------------------------------------
(* A role that is not active gives no permission: it got its permissions   *)
(* in the statement that made it active and loses them with its status.    *)
PermissionsInv ==
  \A r \in RoleRows, p \in Permissions :
    rolePermission[r][p] = "ACTIVE" => role[r].status = "ACTIVE"

(* No step gives a permission to a role that is deleted, or deletes a      *)
(* role without its permissions.                                           *)
LEMMA PermissionsStep ==
  ASSUME RolesShape, PermissionsInv, [RolesNext]_roleVars
  PROVE  PermissionsInv'
<1>1. ASSUME NEW h \in Handlers, CreateRole(h)
      PROVE  PermissionsInv'
  <2> DEFINE r == handler[h].role
  <2>1. r \in RoleRows
    BY <1>1 DEF CreateRole, RolesShape, HandlersOK
  <2>2. /\ role'[r].status = "ACTIVE"
        /\ \A q \in RoleRows \ {r} :
             role'[q] = role[q] /\ rolePermission'[q] = rolePermission[q]
    BY <1>1, <2>1 DEF CreateRole, RolesShape, TablesOK
  <2> HIDE DEF r
  <2>3. QED
    BY <2>2 DEF PermissionsInv
<1>2. ASSUME NEW h \in Handlers, DeleteRole(h)
      PROVE  PermissionsInv'
  <2> DEFINE r == handler[h].role
  <2>1. r \in RoleRows
    BY <1>2 DEF DeleteRole, RolesShape, HandlersOK
  <2>2. /\ \A p \in Permissions : rolePermission'[r][p] # "ACTIVE"
        /\ \A q \in RoleRows \ {r} :
             role'[q] = role[q] /\ rolePermission'[q] = rolePermission[q]
    BY <1>2, <2>1 DEF DeleteRole, RolesShape, TablesOK
  <2> HIDE DEF r
  <2>3. QED
    BY <2>2 DEF PermissionsInv
<1>3. CASE UNCHANGED <<role, rolePermission>>
  BY <1>3 DEF PermissionsInv
<1>4. ASSUME NEW h \in Handlers, Request(h) \/ Save(h) \/ Fail(h)
      PROVE  PermissionsInv'
  BY <1>1, <1>2, <1>3, <1>4
     DEF Request, BeginRole, FindRole, AddMembership, RemoveMembership, Begin, Save,
         AssignMemberships, RemoveMember, Fail, roleTables
<1>5. QED
  BY <1>3, <1>4 DEF RolesNext, AtRest, UpdateRole, SaveLate, LoseLate, DeleteMembership,
                    roleTables, roleVars

(* What the permission query grants is what the roles of the member show.  *)
LEMMA GrantedByRoles ==
  ASSUME RolesShape, PermissionsInv, NEW m \in Members, NEW p \in Permissions
  PROVE  Intercept(m, {p}) <=> \E r \in RoleRows : Holds(m, r) /\ rolePermission[r][p] = "ACTIVE"
BY DEF Intercept, HasPermission, PermissionsInv

(* What a member may do is what every screen says, in every state.         *)
THEOREM ScreensTellPermissions ==
  ASSUME RolesAssumption
  PROVE  RolesSpec => []PermissionsFollowRoles
<1>1. RolesInit => PermissionsInv
  BY DEF RolesInit, PermissionsInv
<1>2. RolesShape /\ PermissionsInv /\ [RolesNext]_roleVars => PermissionsInv'
  BY PermissionsStep
<1>3. RolesShape /\ PermissionsInv => PermissionsFollowRoles
  <2> SUFFICES ASSUME RolesShape, PermissionsInv, NEW m \in Members
               PROVE  LET granted == {p \in Permissions : Intercept(m, {p})} IN
                      /\ granted = {p \in Permissions :
                            \E entry \in GetRoles : entry.exist[p] /\ m \in GetMember(entry.role)}
                      /\ {[name |-> p] : p \in granted}
                           = UNION {GetRole(r) : r \in FindByMembershipInfo(m)}
                      /\ granted = FindByPortalUser(m)
                      /\ granted = UNION {PermissionsOf(r) : r \in {r \in RoleRows : Holds(m, r)}}
                      /\ FindByMembershipInfo(m) # {} =>
                           \E entry \in GetMembershipRoles :
                             entry.member = m /\ FindByMembershipInfo(m) \subseteq entry.roles
    BY DEF PermissionsFollowRoles
  <2> DEFINE granted == {p \in Permissions : Intercept(m, {p})}
             exists(r) == [p \in Permissions |->
                             <<r, p>> \in FindByRoles({q \in RoleRows : role[q].status = "ACTIVE"})]
  <2>1. granted = {p \in Permissions :
                     \E r \in RoleRows : Holds(m, r) /\ rolePermission[r][p] = "ACTIVE"}
    BY GrantedByRoles
  <2>2. \A r \in RoleRows, p \in Permissions :
          rolePermission[r][p] = "ACTIVE" => role[r].status = "ACTIVE"
    BY DEF PermissionsInv
  <2>3. granted = {p \in Permissions :
                     \E entry \in GetRoles : entry.exist[p] /\ m \in GetMember(entry.role)}
    <3>1. GetRoles = {[role |-> r, exist |-> exists(r)] :
                        r \in {q \in RoleRows : role[q].status = "ACTIVE"}}
      BY DEF GetRoles, TransformRoles
    <3>2. ASSUME NEW p \in Permissions
          PROVE  (\E entry \in GetRoles : entry.exist[p] /\ m \in GetMember(entry.role))
                   <=> \E r \in RoleRows : Holds(m, r) /\ rolePermission[r][p] = "ACTIVE"
      <4>1. \A r \in RoleRows : role[r].status = "ACTIVE" =>
              (exists(r)[p] <=> rolePermission[r][p] = "ACTIVE")
        BY DEF FindByRoles
      <4>2. \A r \in RoleRows : role[r].status = "ACTIVE" =>
              (m \in GetMember(r) <=> Holds(m, r))
        BY DEF GetMember, FindByRole
      <4> DEFINE line(r) == [role |-> r, exist |-> exists(r)]
      <4>3. ASSUME NEW entry \in GetRoles, entry.exist[p], m \in GetMember(entry.role)
            PROVE  \E r \in RoleRows : Holds(m, r) /\ rolePermission[r][p] = "ACTIVE"
        <5>1. PICK r \in RoleRows : role[r].status = "ACTIVE" /\ entry = line(r)
          BY <3>1, <4>3
        <5>2. entry.role = r /\ entry.exist = exists(r)
          BY <5>1
        <5> HIDE DEF exists
        <5>3. QED
          BY <4>1, <4>2, <4>3, <5>1, <5>2
      <4>4. ASSUME NEW r \in RoleRows, Holds(m, r), rolePermission[r][p] = "ACTIVE"
            PROVE  \E entry \in GetRoles : entry.exist[p] /\ m \in GetMember(entry.role)
        <5>1. role[r].status = "ACTIVE"
          BY <2>2, <4>4
        <5>2. line(r) \in GetRoles
          BY <3>1, <5>1
        <5>3. line(r).role = r /\ line(r).exist = exists(r)
          OBVIOUS
        <5> HIDE DEF exists, line
        <5>4. line(r).exist[p] /\ m \in GetMember(line(r).role)
          BY <4>1, <4>2, <4>4, <5>1, <5>3
        <5>5. QED
          BY <5>2, <5>4
      <4>5. QED
        BY <4>3, <4>4
    <3> HIDE DEF exists
    <3>3. QED
      BY <2>1, <3>2
  <2>4. {[name |-> p] : p \in granted} = UNION {GetRole(r) : r \in FindByMembershipInfo(m)}
    <3>1. \A r \in FindByMembershipInfo(m) :
            GetRole(r) = {[name |-> p] : p \in PermissionsOf(r)}
      BY DEF GetRole, TransformRole, FindByMembershipInfo
    <3>2. granted = UNION {PermissionsOf(r) : r \in FindByMembershipInfo(m)}
      BY <2>1, <2>2 DEF PermissionsOf, FindByMembershipInfo
    <3> HIDE DEF granted
    <3>3. QED
      BY <3>1, <3>2
  <2>5. granted = FindByPortalUser(m)
    BY <2>1, <2>2 DEF FindByPortalUser
  <2>6. granted = UNION {PermissionsOf(r) : r \in {r \in RoleRows : Holds(m, r)}}
    BY <2>1 DEF PermissionsOf
  <2>7. ASSUME FindByMembershipInfo(m) # {}
        PROVE  \E entry \in GetMembershipRoles :
                 entry.member = m /\ FindByMembershipInfo(m) \subseteq entry.roles
    <3> DEFINE rolesOf(k) == {r \in RoleRows : <<r, k>> \in FindByAssociation}
    <3>1. FindByMembershipInfo(m) \subseteq rolesOf(m)
      BY DEF FindByMembershipInfo, FindByAssociation, Holds
    <3>2. m \in {rm[2] : rm \in FindByAssociation}
      <4>1. PICK r \in RoleRows : <<r, m>> \in FindByAssociation
        BY <2>7, <3>1
      <4>2. <<r, m>>[2] = m
        OBVIOUS
      <4>3. QED
        BY <4>1, <4>2
    <3>3. GetMembershipRoles = {[member |-> k, roles |-> rolesOf(k)] :
                                  k \in {rm[2] : rm \in FindByAssociation}}
      BY DEF GetMembershipRoles, TransformMemberships
    <3>4. [member |-> m, roles |-> rolesOf(m)] \in GetMembershipRoles
      BY <3>2, <3>3
    <3> HIDE DEF rolesOf
    <3>5. QED
      BY <3>1, <3>4
  <2>8. QED
    BY <2>3, <2>4, <2>5, <2>6, <2>7
<1>4. QED
  BY <1>1, <1>2, <1>3, RolesShapeHolds, PTL DEF RolesSpec

-----------------------------------------------------------------------------
(* The rows of a role stay within the bound of the model.                  *)
RowsFit == \A r \in RoleRows : Cardinality(RowsOf(r, Members)) <= MaxRows

(* A role has finitely many rows of members.                               *)
LEMMA RowsFinite ==
  ASSUME RolesAssumption, NEW r \in RoleRows
  PROVE  IsFiniteSet(RowsOf(r, Members))
<1>1. IsFiniteSet(1 .. MaxRows)
  BY FS_Interval DEF RolesAssumption
<1>2. IsFiniteSet(Members \X (1 .. MaxRows))
  BY <1>1, FS_Product DEF RolesAssumption
<1>3. RowsOf(r, Members) \in SUBSET (Members \X (1 .. MaxRows))
  BY DEF RowsOf
<1>4. QED
  BY <1>2, <1>3, FS_Subset

(* Rows that keep their places keep their number.                          *)
LEMMA SameRowsFit ==
  ASSUME RowsFit,
         \A r \in RoleRows, m \in Members :
           DOMAIN membershipRole'[r][m] = DOMAIN membershipRole[r][m]
  PROVE  RowsFit'
<1>1. \A r \in RoleRows : RowsOf(r, Members)' = RowsOf(r, Members)
  BY DEF RowsOf
<1>2. QED
  BY <1>1 DEF RowsFit

(* A row is inserted for each member of a set: a new place for each, where *)
(* the guard of the action has counted the place 0.                        *)
LEMMA InsertedRowsFit ==
  ASSUME RolesAssumption, TablesOK, RowsFit,
         NEW r \in RoleRows, NEW M \in SUBSET Members,
         Cardinality(RowsOf(r, Members) \cup (M \X {0})) <= MaxRows,
         membershipRole' = [membershipRole EXCEPT ![r] =
           [m \in Members |-> IF m \in M THEN Append(@[m], "ACTIVE") ELSE @[m]]]
  PROVE  RowsFit'
<1> DEFINE before == RowsOf(r, Members) \cup (M \X {0})
           place == [p \in before |->
                       IF p[2] = 0 THEN <<p[1], Len(membershipRole[r][p[1]]) + 1>> ELSE p]
           after == {place[p] : p \in before}
<1>1. IsFiniteSet(before)
  <2>1. IsFiniteSet(Members \X {0})
    BY FS_Singleton, FS_Product DEF RolesAssumption
  <2>2. IsFiniteSet(M \X {0})
    BY <2>1, FS_Subset
  <2>3. QED
    BY <2>2, RowsFinite, FS_Union
<1>2. IsFiniteSet(after) /\ Cardinality(after) <= Cardinality(before)
  <2>1. place \in Surjection(before, after)
    BY DEF Surjection
  <2> HIDE DEF before, place, after
  <2>2. QED
    BY <1>1, <2>1, FS_Surjection
<1>3. \A m \in Members : membershipRole[r][m] \in Seq({"ACTIVE", "DELETED"})
  BY DEF TablesOK
<1>4. RowsOf(r, Members)' \subseteq after
  <2>0. SUFFICES ASSUME NEW m \in Members, NEW i \in 1 .. MaxRows,
                        i \in DOMAIN membershipRole'[r][m]
                 PROVE  <<m, i>> \in after
    <3>1. RowsOf(r, Members)' =
            {p \in Members \X (1 .. MaxRows) : p[2] \in DOMAIN membershipRole'[r][p[1]]}
      BY DEF RowsOf
    <3>2. \A p \in Members \X (1 .. MaxRows) :
            p[1] \in Members /\ p[2] \in 1 .. MaxRows /\ p = <<p[1], p[2]>>
      OBVIOUS
    <3> HIDE DEF after
    <3>3. QED
      BY <3>1, <3>2
  <2>1. CASE i \in DOMAIN membershipRole[r][m]
    <3>1. <<m, i>> \in before
      BY <2>1 DEF RowsOf
    <3>2. place[<<m, i>>] = <<m, i>>
      BY <3>1
    <3> HIDE DEF before, place
    <3>3. QED
      BY <3>1, <3>2
  <2>2. CASE i \notin DOMAIN membershipRole[r][m]
    <3>1. m \in M /\ i = Len(membershipRole[r][m]) + 1
      BY <1>3, <2>0, <2>2 DEF TablesOK
    <3>2. <<m, 0>> \in before
      BY <3>1
    <3>3. place[<<m, 0>>] = <<m, i>>
      BY <3>1, <3>2
    <3> HIDE DEF before, place
    <3>4. QED
      BY <3>2, <3>3
  <2>3. QED
    BY <2>1, <2>2
<1> HIDE DEF before, after
<1>5. Cardinality(RowsOf(r, Members)') <= Cardinality(after)
  BY <1>2, <1>4, FS_Subset
<1>6. Cardinality(RowsOf(r, Members)') <= MaxRows
  <2>1. /\ Cardinality(before) \in Nat /\ Cardinality(after) \in Nat
        /\ Cardinality(RowsOf(r, Members)') \in Nat
    BY <1>1, <1>2, <1>4, FS_Subset, FS_CardinalityType
  <2>2. QED
    BY <1>2, <1>5, <2>1 DEF before, RolesAssumption
<1>7. \A q \in RoleRows \ {r} : RowsOf(q, Members)' = RowsOf(q, Members)
  BY DEF RowsOf, TablesOK
<1>8. QED
  BY <1>6, <1>7 DEF RowsFit

(* A late save inserts one row, if there is room for it.                   *)
LEMMA LateRowFits ==
  ASSUME RolesAssumption, TablesOK, RowsFit, NEW r \in RoleRows, NEW m \in Members,
         Cardinality(RowsOf(r, Members)) < MaxRows,
         membershipRole' = [membershipRole EXCEPT ![r][m] = Append(@, "ACTIVE")]
  PROVE  RowsFit'
<1> DEFINE before == RowsOf(r, Members)
           new == <<m, Len(membershipRole[r][m]) + 1>>
<1>1. /\ IsFiniteSet(before)
      /\ IsFiniteSet(before \cup {new})
      /\ Cardinality(before \cup {new}) <= Cardinality(before) + 1
  <2>1. IsFiniteSet(before)
    BY RowsFinite
  <2> HIDE DEF before, new
  <2>2. Cardinality(before) \in Nat
    BY <2>1, FS_CardinalityType
  <2>3. /\ IsFiniteSet(before \cup {new})
        /\ Cardinality(before \cup {new}) =
             IF new \in before THEN Cardinality(before) ELSE Cardinality(before) + 1
    BY <2>1, FS_AddElement
  <2>4. QED
    BY <2>1, <2>2, <2>3
<1>2. membershipRole[r][m] \in Seq({"ACTIVE", "DELETED"})
  BY DEF TablesOK
<1>3. RowsOf(r, Members)' \in SUBSET (before \cup {new})
  BY <1>2 DEF RowsOf, TablesOK
<1> HIDE DEF new
<1>4. Cardinality(RowsOf(r, Members)') <= MaxRows
  <2>1. Cardinality(RowsOf(r, Members)') <= Cardinality(before \cup {new})
    BY <1>1, <1>3, FS_Subset
  <2>2. /\ Cardinality(RowsOf(r, Members)') \in Nat
        /\ Cardinality(before \cup {new}) \in Nat
        /\ Cardinality(before) \in Nat
    BY <1>1, <1>3, FS_Subset, FS_CardinalityType
  <2>3. QED
    BY <1>1, <2>1, <2>2 DEF RolesAssumption
<1>5. \A q \in RoleRows \ {r} : RowsOf(q, Members)' = RowsOf(q, Members)
  BY DEF RowsOf, TablesOK
<1>6. QED
  BY <1>4, <1>5 DEF RowsFit

(* Only two actions insert rows, and both ask for room first.              *)
LEMMA RowsFitStep ==
  ASSUME RolesAssumption, RolesShape, RowsFit, [RolesNext]_roleVars
  PROVE  RowsFit'
<1>1. CASE UNCHANGED membershipRole
  BY <1>1, SameRowsFit
<1>2. ASSUME NEW h \in Handlers, AssignMemberships(h)
      PROVE  RowsFit'
  <2>1. handler[h].role \in RoleRows /\ handler[h].on \in SUBSET Members
    BY <1>2 DEF AssignMemberships, RolesShape, HandlersOK
  <2>2. QED
    BY <1>2, <2>1, InsertedRowsFit DEF AssignMemberships, RolesShape
<1>3. ASSUME NEW r \in RoleRows, NEW M \in SUBSET Members, DeActivateMember(r, M)
      PROVE  RowsFit'
  BY <1>3, DeActivateMemberShape, SameRowsFit DEF RolesShape
<1>4. ASSUME NEW h \in Handlers, RemoveMember(h)
      PROVE  RowsFit'
  <2>1. handler[h].role \in RoleRows /\ handler[h].on \in SUBSET Members
    BY <1>4 DEF RemoveMember, RolesShape, HandlersOK
  <2>2. QED
    BY <1>3, <1>4, <2>1 DEF RemoveMember
<1>5. ASSUME NEW s \in late, SaveLate(s)
      PROVE  RowsFit'
  <2>1. s.role \in RoleRows /\ s.member \in Members
    BY DEF RolesShape, LateOK
  <2>2. CASE s.op = "add"
    BY <1>5, <2>1, <2>2, LateRowFits DEF SaveLate, RolesShape
  <2>3. CASE DeActivateMember(s.role, {s.member})
    BY <1>3, <2>1, <2>3
  <2>4. QED
    BY <1>5, <2>2, <2>3 DEF SaveLate
<1>6. ASSUME NEW h \in Handlers, Request(h) \/ Save(h) \/ Fail(h)
      PROVE  RowsFit'
  BY <1>1, <1>2, <1>4, <1>6
     DEF Request, BeginRole, FindRole, AddMembership, RemoveMembership, Begin, Save,
         CreateRole, DeleteRole, Fail, roleTables
<1>7. QED
  BY <1>1, <1>5, <1>6 DEF RolesNext, AtRest, UpdateRole, LoseLate, DeleteMembership,
                          roleTables, roleVars

(* The tables of roles keep their types and bounds.                        *)
THEOREM RolesTypeCorrect ==
  ASSUME RolesAssumption
  PROVE  RolesSpec => []RolesTypeOK
<1>1. RolesInit => RowsFit
  <2> SUFFICES ASSUME RolesInit PROVE RowsFit
    OBVIOUS
  <2>1. \A r \in RoleRows : RowsOf(r, Members) = {}
    BY DEF RolesInit, RowsOf
  <2>2. QED
    BY <2>1, FS_EmptySet DEF RowsFit, RolesAssumption
<1>2. RolesShape /\ RowsFit /\ [RolesNext]_roleVars => RowsFit'
  BY RowsFitStep
<1>3. RolesShape /\ RowsFit => RolesTypeOK
  BY DEF RolesShape, TablesOK, NamedOK, RowsFit, RolesTypeOK
<1>4. QED
  BY <1>1, <1>2, <1>3, RolesShapeHolds, PTL DEF RolesSpec
=============================================================================
