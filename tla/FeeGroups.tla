----------------------------- MODULE FeeGroups ------------------------------
(***************************************************************************)
(* Service fees and the group of members each of them is billed to.  A     *)
(* handler of the API reads the fee, the members and the rows of the group *)
(* that are there, and saves in a later statement what follows from them:  *)
(* neither locks what it has read, and no unique index forbids two rows    *)
(* for one member.                                                         *)
(***************************************************************************)
EXTENDS Integers, FiniteSets, Sequences

CONSTANTS
  Desk,      (* handlers of the API                                        *)
  Fees,
  Members,   (* memberships with a member account of the association       *)
  Requests,  (* lists of members a request may name                       *)
  MaxRows,   (* bound: rows each member may get in one group             *)
  MaxNotice, (* bound: days a fee is created ahead of its start            *)
  None

ServiceType == {"RE_OCCURRING", "ONE_TIME"}

ASSUME FeeGroupsAssumption ==
  /\ Requests \subseteq SUBSET Members
  /\ MaxRows \in [Members -> Nat \ {0}]
  /\ MaxNotice \in Nat
  /\ None \notin Members

VARIABLES
  fee,        (* service_fee rows: status, type, and the date the jobs     *)
              (* look at: nextBillingEndDate of a recurring fee,           *)
              (* billingStartDate of a one-time fee                        *)
  row,        (* row[f][m]: statuses of the group_membership rows of m     *)
  member,     (* membership rows: status                                   *)
  today,      (* the day                                                   *)
  desk,       (* desk[d]: what a handler is about to save                  *)
  conflicts   (* history: pairs of executions that have overlapped         *)

groupVars == <<fee, row, member, desk, conflicts>>

NoFee == [status |-> "absent", type |-> "ONE_TIME", due |-> 0]

(* createGroup: a group starts with nobody in it.                          *)
NewGroup == [m \in Members |-> <<>>]

Idle == [op |-> "idle", on |-> None, read |-> None]

GroupsInit ==
  /\ fee = [f \in Fees |-> NoFee]
  /\ row = [f \in Fees |-> NewGroup]
  /\ member = [m \in Members |-> "ACTIVE"]
  /\ today = 0
  /\ desk = [d \in Desk |-> Idle]
  /\ conflicts = {}

RowIds == UNION {1 .. MaxRows[m] : m \in Members}

(* findByGroupAndStatusInMembership: the active rows of a group.           *)
ActiveRows(f) ==
  {p \in Members \X RowIds :
     /\ p[2] \in DOMAIN row[f][p[1]]
     /\ row[f][p[1]][p[2]] = "ACTIVE"}

(* Memberships are found by identifier, if active.                         *)
Found(M) == {m \in M : member[m] = "ACTIVE"}

AddRows(group, M) ==
  [m \in Members |-> IF m \in M THEN Append(group[m], "ACTIVE") ELSE group[m]]

(* A fee is found by code while it is active, and its group through the    *)
(* link that was saved with it, whose status is not looked at.             *)
FindByCode(f) == {g \in {f} : fee[g].status = "ACTIVE"}

FindByServiceFee(f) == {g \in {f} : fee[g] # NoFee}

FeeAndGroupFound(f) == FindByCode(f) # {} /\ FindByServiceFee(f) # {}

(* What a new fee is asked for with, as far as billing depends on it.      *)
ServiceFeeRequest ==
  [type : ServiceType, notice : 0 .. MaxNotice, recipients : Requests]

(* createGroupForService links the group to the fee: row[f] is its group.  *)
LinkedGroup(f, recipients) ==
  [row EXCEPT ![f] = AddRows(NewGroup, Found(recipients))]

(* POST /service-fees.  Fee, group, their link and the recipients are      *)
(* inserted in one transaction.  (With addAllMembers the recipients are    *)
(* still the named ones, and with none named the handler throws.)          *)
CreateService_reuses(f, q, due) ==
  /\ fee[f].status # "ACTIVE"
  /\ fee' = [fee EXCEPT ![f] = [status |-> "ACTIVE", type |-> q.type, due |-> due]]
  /\ row' = LinkedGroup(f, q.recipients)
  /\ UNCHANGED <<member, desk>>

CreateService(f, q, due) ==
  /\ fee[f] = NoFee
  /\ fee' = [fee EXCEPT ![f] = [status |-> "ACTIVE", type |-> q.type, due |-> due]]
  /\ row' = LinkedGroup(f, q.recipients)
  /\ UNCHANGED <<member, desk>>

(* PATCH /service-fees/:code/members: looks up who already has an active   *)
(* row of the group, and inserts one for each of the others.               *)
AddMember_blind(d, f, M) ==
  /\ desk[d] = Idle
  /\ FeeAndGroupFound(f)
  /\ Found(M) # {}
  /\ desk' = [desk EXCEPT ![d] = [op |-> "add", on |-> f, read |-> Found(M)]]
  /\ UNCHANGED <<fee, row, member>>

AddMember(d, f, M) ==
  /\ desk[d] = Idle
  /\ FeeAndGroupFound(f)
  /\ Found(M) # {}
  /\ desk' = [desk EXCEPT ![d] =
                [op |-> "add", on |-> f,
                 read |-> {m \in Found(M) : \A p \in ActiveRows(f) : p[1] # m}]]
  /\ UNCHANGED <<fee, row, member>>

InsertMembers(d) ==
  /\ desk[d].op = "add"
  /\ \A m \in desk[d].read : Len(row[desk[d].on][m]) < MaxRows[m]
  /\ row' = [row EXCEPT ![desk[d].on] = AddRows(@, desk[d].read)]
  /\ desk' = [desk EXCEPT ![d] = Idle]
  /\ UNCHANGED <<fee, member>>

(* DELETE /service-fees/:code/members: the active rows found are saved as  *)
(* inactive, each by its id.                                               *)
RemoveMember(d, f, M) ==
  /\ desk[d] = Idle
  /\ FeeAndGroupFound(f)
  /\ Found(M) # {}
  /\ desk' = [desk EXCEPT ![d] =
                [op |-> "remove", on |-> f,
                 read |-> {p \in ActiveRows(f) : p[1] \in Found(M)}]]
  /\ UNCHANGED <<fee, row, member>>

SaveRemoved(d) ==
  /\ desk[d].op = "remove"
  /\ row' = [row EXCEPT ![desk[d].on] =
               [m \in Members |->
                  [i \in DOMAIN @[m] |->
                     IF <<m, i>> \in desk[d].read THEN "IN_ACTIVE" ELSE @[m][i]]]]
  /\ desk' = [desk EXCEPT ![d] = Idle]
  /\ UNCHANGED <<fee, member>>

(* DELETE /service-fees/:code.                                             *)
DeActivateFee(d, f) ==
  /\ desk[d] = Idle
  /\ FindByCode(f) # {}
  /\ desk' = [desk EXCEPT ![d] = [op |-> "removeFee", on |-> f, read |-> fee[f]]]
  /\ UNCHANGED <<fee, row, member>>

(* removeServiceFee saves the whole row as it was read, but inactive.      *)
RemoveServiceFee(d) ==
  /\ desk[d].op = "removeFee"
  /\ fee' = [fee EXCEPT ![desk[d].on] = [desk[d].read EXCEPT !.status = "IN_ACTIVE"]]
  /\ desk' = [desk EXCEPT ![d] = Idle]
  /\ UNCHANGED <<row, member>>

(* A statement of a handler fails before anything is committed.            *)
FailDesk(d) ==
  /\ desk[d].op \in {"add", "remove", "removeFee"}
  /\ desk' = [desk EXCEPT ![d] = Idle]
  /\ UNCHANGED <<fee, row, member>>

(* The member is deleted (Accounts has the whole handler).                 *)
LeaveAssociation(m) ==
  /\ member[m] = "ACTIVE"
  /\ member' = [member EXCEPT ![m] = "DELETED"]
  /\ UNCHANGED <<fee, row, desk>>

DeskStep(d) ==
  InsertMembers(d) \/ SaveRemoved(d) \/ RemoveServiceFee(d) \/ FailDesk(d)
=============================================================================
