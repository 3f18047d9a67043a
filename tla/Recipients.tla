----------------------------- MODULE Recipients -----------------------------
(***************************************************************************)
(* What the executives of an association see of its service fees and of    *)
(* the members each of them is billed to: the list of fees, one fee, and   *)
(* the list of members that says of each whether he has the fee.  They     *)
(* read the rows the jobs of Billing read, by queries of their own.        *)
(*                                                                         *)
(* Lists are cut, those of the screens to 100 items and the rows that tell *)
(* who has a fee to 10, and always start at the first of them, in no order *)
(* their queries name; the total beside a list counts all.                 *)
(***************************************************************************)
EXTENDS Billing

CONSTANTS
  ListLimit,     (* query.limit: at most 100                               *)
  HoldersLimit   (* the default `limit` of findByServiceFeeAndStatus: 10   *)

ASSUME RecipientsAssumption ==
  /\ ListLimit \in Nat
  /\ HoldersLimit \in Nat

(* What a list of S that is cut to n items may hold.                       *)
Cut(S, n) == IF Cardinality(S) <= n THEN {S} ELSE {P \in SUBSET S : Cardinality(P) = n}

(* ServiceFeeQueryDto.  An absent filter is one that lets everything       *)
(* through; those on dates and names select any of the fees: `others`.     *)
ServiceFeeQuery ==
  [type : SUBSET ServiceType, status : SUBSET {"ACTIVE", "IN_ACTIVE"},
   minAmount : Nat, maxAmount : Nat, others : SUBSET Fees]

FindByQueryAndAssociation(q) ==
  {f \in q.others : /\ fee[f] # NoFee
                    /\ fee[f].type \in q.type
                    /\ fee[f].status \in q.status
                    /\ Cost[f] \in q.minAmount .. q.maxAmount}

(* ServiceFeeHandler.transform.                                            *)
FeeLine(f) == [code |-> f, amount |-> Cost[f], type |-> fee[f].type,
               status |-> fee[f].status]

AllFees(q) ==
  LET found == FindByQueryAndAssociation(q) IN
  {[items |-> {FeeLine(f) : f \in listed}, total |-> Cardinality(found)] :
     listed \in Cut(found, ListLimit)}

(* The screen of one fee: not found once it is removed.                    *)
GetServiceByCode(f) == {FeeLine(g) : g \in FindByCode(f)}

(* The users with an active row in the group of a fee.  A member who is    *)
(* deleted stays in the group, but is no active user any more.  The rows   *)
(* are cut, not the users: two rows of one user count as two.              *)
HolderRows(f) == {p \in ActiveRows(f) : member[p[1]] = "ACTIVE"}

FindByServiceFeeAndStatus(f) ==
  {{p[1] : p \in rows} : rows \in Cut(HolderRows(f), HoldersLimit)}

(* GET /service-fees/:code/members, for all members or some of them: the   *)
(* lists it may answer with.                                               *)
GetMembers(f, among) ==
  {{[member |-> m, hasServiceFee |-> m \in holders] : m \in listed} :
     listed \in Cut(Found(among), ListLimit),
     holders \in UNION {FindByServiceFeeAndStatus(g) : g \in FindByCode(f)}}

-----------------------------------------------------------------------------
(* Properties.                                                             *)

(* A bill without a member, which nobody can be asked to pay, is made only *)
(* for one who left between the two reads of a bill job.                   *)
BillsHaveAMember ==
  "left" \notin conflicts => \A s \in Sub : bills[s][None] = 0

(* Whomever the screen of an active fee that has an open subscription      *)
(* shows as having it, a bill job would bill; and it shows so of everybody *)
(* the job would bill, as long as the rows that tell are not cut: beyond,  *)
(* it shows some of those that are billed as having no fee.                *)
JobsBillWhomScreensShow ==
  \A s \in DOMAIN subscription :
    ~Billed(s) /\ GetServiceByCode(subscription[s].fee) # {} =>
      LET f == subscription[s].fee
          billed == {p[2] : p \in {p \in PendingPairs : p[1] = s}} IN
      /\ billed \subseteq Found(Members)
      /\ \A screen \in GetMembers(f, Members) : \A line \in screen :
           /\ line.hasServiceFee => line.member \in billed
           /\ Cardinality(HolderRows(f)) <= HoldersLimit =>
                (line.member \in billed => line.hasServiceFee)

(* A fee that is due can be opened, and is on the list of active fees of   *)
(* its type, unless there are more than the list shows.                    *)
DueFeesAreListed ==
  \A type \in ServiceType :
    LET active == [type |-> {type}, status |-> {"ACTIVE"}, minAmount |-> 0,
                   maxAmount |-> MaxAmount, others |-> Fees]
        due == DueToday(type) IN
    /\ \A f \in due : GetServiceByCode(f) # {}
    /\ \A listed \in AllFees(active) :
         /\ Cardinality(due) <= listed.total
         /\ listed.total <= ListLimit =>
              \A f \in due : FeeLine(f) \in listed.items

(* Bills go to the members executives see: none is without one, unless he  *)
(* left meanwhile, and what jobs are about to do is what the screens tell, *)
(* as far as their lists reach, although each asks another query, with     *)
(* other joins and other statuses.                                         *)
BillsMatchScreens ==
  BillsHaveAMember /\ JobsBillWhomScreensShow /\ DueFeesAreListed
=============================================================================
