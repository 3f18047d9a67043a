--------------------------- MODULE BillingProofs ----------------------------
(***************************************************************************)
(* Theorems about Billing and Recipients, for every set of fees, members,  *)
(* handlers and workers, every pool and every bound.                       *)
(*                                                                         *)
(* The argument has the same form each time.  A job or a handler reads,    *)
(* and acts later on what it has read; an invariant says that what it has  *)
(* read still holds, as long as no execution that may change just that     *)
(* has overlapped with it, and that an overlap is recorded whichever of    *)
(* the two began first: Subscribing for the fees a subscription job has    *)
(* found without a subscription, Removing for those it has found active,   *)
(* OneRow for the members a handler has found without a row, OneBill for   *)
(* the pairs a bill job has found without a bill, Left for the members of  *)
(* those pairs.  Shape, the type invariant with what it rests on, comes    *)
(* first, with lemmas that say what each action leaves of a job.           *)
(*                                                                         *)
(* What a subscription asks for is bounded by an invariant of another kind *)
(* (Totals): a total that is saved, or counted and not yet saved, counts a *)
(* bill at least and, if nothing failed, none that was not raised.         *)
(***************************************************************************)
EXTENDS Recipients, Sums, SequenceTheorems

FeeRow == [status : {"absent", "ACTIVE", "IN_ACTIVE"}, type : ServiceType, due : Nat]

RowStatus == {"ACTIVE", "IN_ACTIVE"}

(* What a handler is about to save.                                        *)
DeskState ==
  {Idle}
    \cup [op : {"add"}, on : Fees, read : SUBSET Members]
    \cup [op : {"remove"}, on : Fees, read : SUBSET (Members \X RowIds)]
    \cup [op : {"removeFee"}, on : Fees, read : FeeRow]
    \cup [op : {"settle"}, on : Sub, read : Nat]

(* Functions from a part of S to T.                                        *)
Partial(S, T) == UNION {[D -> T] : D \in SUBSET S}

Subscription == [fee : Fees, payable : Nat]
Generating == [at : {"queued", "begun"}, row : FeeRow]
Transaction == [at : {"queued", "begun", "inserted", "saving"}, payable : Nat]

GroupShape ==
  /\ fee \in [Fees -> FeeRow]
  /\ row \in [Fees -> [Members -> Seq(RowStatus)]]
  /\ \A f \in Fees, m \in Members : Len(row[f][m]) <= MaxRows[m]
  /\ member \in [Members -> {"ACTIVE", "DELETED"}]
  /\ today \in Nat
  /\ desk \in [Desk -> DeskState]

BillShape ==
  /\ subscription \in Seq(Subscription)
  /\ Len(subscription) <= MaxSubscriptions
  /\ bills \in [Sub -> [Members \cup {None} -> Nat]]

JobShape ==
  /\ generating \in [Workers -> Partial(Fees, Generating)]
  /\ picked \in [Workers -> SUBSET Pairs]
  /\ billing \in [Workers -> Partial(Pairs, Transaction)]
  /\ loaded \in [Workers -> [fees : SUBSET Fees, members : SUBSET Members]]
  /\ total \in [Workers -> [Sub -> Nat]]

(* A job has picked pairs or bills some, and they name subscriptions.      *)
PairsNamed ==
  \A w \in Workers :
    /\ picked[w] = {} \/ DOMAIN billing[w] = {}
    /\ \A p \in picked[w] \cup DOMAIN billing[w] : p[1] \in DOMAIN subscription

(* Transactions that hold a connection are as many as connections at most. *)
PoolKept ==
  \A w \in Workers : /\ IsFiniteSet(Holders(w))
                     /\ Cardinality(Holders(w)) <= PoolSize

Shape == GroupShape /\ BillShape /\ JobShape /\ PairsNamed /\ PoolKept

-----------------------------------------------------------------------------
(* Functions from a part of a set.                                         *)

(* A function from a part of S to T is in Partial(S, T).                   *)
LEMMA PartialIntro ==
  ASSUME NEW S, NEW T, NEW D, D \subseteq S, NEW f \in [D -> T]
  PROVE  f \in Partial(S, T)
<1>1. D \in SUBSET S OBVIOUS
<1> QED BY <1>1, Zenon DEF Partial

(* And the other way round.                                                *)
LEMMA PartialElim ==
  ASSUME NEW S, NEW T, NEW f \in Partial(S, T)
  PROVE  /\ DOMAIN f \subseteq S
         /\ f \in [DOMAIN f -> T]
         /\ \A x \in DOMAIN f : f[x] \in T
<1>1. PICK D \in SUBSET S : f \in [D -> T] BY Zenon DEF Partial
<1>2. DOMAIN f = D BY <1>1
<1> QED BY <1>1, <1>2

(* Leaving out an argument.                                                *)
LEMMA PartialWithout ==
  ASSUME NEW S, NEW T, NEW f \in Partial(S, T), NEW x
  PROVE  /\ Without(f, x) \in Partial(S, T)
         /\ DOMAIN Without(f, x) = (DOMAIN f) \ {x}
         /\ \A y \in (DOMAIN f) \ {x} : Without(f, x)[y] = f[y]
<1>1. DOMAIN f \subseteq S /\ f \in [DOMAIN f -> T] BY PartialElim
<1>2. Without(f, x) \in [(DOMAIN f) \ {x} -> T] BY <1>1 DEF Without
<1>3. (DOMAIN f) \ {x} \subseteq S BY <1>1
<1>4. Without(f, x) \in Partial(S, T) BY <1>2, <1>3, PartialIntro
<1> QED BY <1>4 DEF Without

(* Giving an argument another value.                                       *)
LEMMA PartialExcept ==
  ASSUME NEW S, NEW T, NEW f \in Partial(S, T), NEW x \in DOMAIN f, NEW v \in T
  PROVE  /\ [f EXCEPT ![x] = v] \in Partial(S, T)
         /\ DOMAIN [f EXCEPT ![x] = v] = DOMAIN f
<1>1. DOMAIN f \subseteq S /\ f \in [DOMAIN f -> T] BY PartialElim
<1>2. [f EXCEPT ![x] = v] \in [DOMAIN f -> T] BY <1>1
<1>3. [f EXCEPT ![x] = v] \in Partial(S, T) BY <1>1, <1>2, PartialIntro
<1> QED BY <1>1, <1>3

(* Nothing is the function without arguments.                              *)
LEMMA NothingIsEmpty ==
  /\ DOMAIN Nothing = {}
  /\ \A S, T : Nothing \in Partial(S, T)
  /\ \A S, T : \A f \in Partial(S, T) : f = Nothing <=> DOMAIN f = {}
<1>1. DOMAIN Nothing = {} BY DEF Nothing
<1>2. ASSUME NEW S, NEW T PROVE Nothing \in Partial(S, T)
  <2>1. Nothing \in [{} -> T] BY DEF Nothing
  <2> QED BY <2>1, PartialIntro
<1>3. ASSUME NEW S, NEW T, NEW f \in Partial(S, T), DOMAIN f = {}
      PROVE  f = Nothing
  <2>1. f \in [{} -> T] BY <1>3, PartialElim
  <2> QED BY <2>1 DEF Nothing
<1> QED BY <1>1, <1>2, <1>3

(* The elements of a sequence, and the places they have.                   *)
LEMMA Places ==
  ASSUME NEW S, NEW q \in Seq(S)
  PROVE  /\ Len(q) \in Nat
         /\ DOMAIN q = 1 .. Len(q)
         /\ \A i \in DOMAIN q : q[i] \in S
BY LenProperties, ElementOfSeq

(* Changing an element of a sequence.                                      *)
LEMMA SeqExcept ==
  ASSUME NEW S, NEW q \in Seq(S), NEW i \in DOMAIN q, NEW v \in S
  PROVE  /\ [q EXCEPT ![i] = v] \in Seq(S)
         /\ DOMAIN [q EXCEPT ![i] = v] = DOMAIN q
         /\ Len([q EXCEPT ![i] = v]) = Len(q)
BY Places

-----------------------------------------------------------------------------
(* The rows of groups.                                                     *)

(* Adding a row to some members of a group.                                *)
LEMMA AddRowsType ==
  ASSUME NEW group \in [Members -> Seq(RowStatus)], NEW M
  PROVE  /\ AddRows(group, M) \in [Members -> Seq(RowStatus)]
         /\ \A m \in Members :
              Len(AddRows(group, M)[m]) =
                IF m \in M THEN Len(group[m]) + 1 ELSE Len(group[m])
<1>1. "ACTIVE" \in RowStatus BY DEF RowStatus
<1>2. ASSUME NEW m \in Members
      PROVE  /\ Append(group[m], "ACTIVE") \in Seq(RowStatus)
             /\ Len(Append(group[m], "ACTIVE")) = Len(group[m]) + 1
  <2>1. group[m] \in Seq(RowStatus) OBVIOUS
  <2> QED BY <1>1, <2>1, AppendProperties
<1> QED BY <1>2 DEF AddRows

(* The group of a new fee has one row for each of its recipients.          *)
LEMMA LinkedGroupType ==
  ASSUME GroupShape, FeeGroupsAssumption, NEW f \in Fees, NEW M
  PROVE  /\ LinkedGroup(f, M) \in [Fees -> [Members -> Seq(RowStatus)]]
         /\ \A g \in Fees, m \in Members : Len(LinkedGroup(f, M)[g][m]) <= MaxRows[m]
<1>1. NewGroup \in [Members -> Seq(RowStatus)] /\ \A m \in Members : Len(NewGroup[m]) = 0
  BY EmptySeq DEF NewGroup
<1> DEFINE group == AddRows(NewGroup, Found(M))
<1>2. /\ group \in [Members -> Seq(RowStatus)]
      /\ \A m \in Members : Len(group[m]) <= 1
  <2>1. /\ group \in [Members -> Seq(RowStatus)]
        /\ \A m \in Members :
             Len(group[m]) = IF m \in Found(M) THEN Len(NewGroup[m]) + 1 ELSE Len(NewGroup[m])
    BY <1>1, AddRowsType
  <2> HIDE DEF group
  <2> QED BY <1>1, <2>1
<1>3. LinkedGroup(f, M) = [row EXCEPT ![f] = group] BY DEF LinkedGroup
<1> HIDE DEF group
<1>4. row \in [Fees -> [Members -> Seq(RowStatus)]] BY DEF GroupShape
<1>5. LinkedGroup(f, M) \in [Fees -> [Members -> Seq(RowStatus)]]
  BY <1>2, <1>3, <1>4
<1>6. ASSUME NEW g \in Fees, NEW m \in Members
      PROVE  Len(LinkedGroup(f, M)[g][m]) <= MaxRows[m]
  <2>1. MaxRows[m] \in Nat \ {0} BY DEF FeeGroupsAssumption
  <2>2. CASE g = f
    <3>1. LinkedGroup(f, M)[g] = group BY <1>3, <1>4, <2>2
    <3>2. Len(group[m]) <= 1 /\ Len(group[m]) \in Nat BY <1>2, LenProperties
    <3> QED BY <2>1, <3>1, <3>2
  <2>3. CASE g # f
    <3>1. LinkedGroup(f, M)[g] = row[g] BY <1>3, <1>4, <2>3
    <3> QED BY <3>1 DEF GroupShape
  <2> QED BY <2>2, <2>3
<1> QED BY <1>5, <1>6

(* What a handler of the API holds.                                        *)
LEMMA DeskHolds ==
  ASSUME GroupShape, NEW d \in Desk
  PROVE  /\ desk[d].op = "idle" <=> desk[d] = Idle
         /\ desk[d].op = "add" => desk[d].on \in Fees /\ desk[d].read \in SUBSET Members
         /\ desk[d].op = "remove" => desk[d].on \in Fees
         /\ desk[d].op = "removeFee" => desk[d].on \in Fees /\ desk[d].read \in FeeRow
         /\ desk[d].op = "settle" => desk[d].on \in Sub /\ desk[d].read \in Nat
<1>1. desk[d] \in DeskState BY DEF GroupShape
<1> QED BY <1>1 DEF DeskState, Idle

(* Setting what a handler holds.                                           *)
LEMMA DeskSet ==
  ASSUME GroupShape, NEW d \in Desk, NEW v, v \in DeskState,
         desk' = [desk EXCEPT ![d] = v]
  PROVE  desk' \in [Desk -> DeskState]
BY DEF GroupShape

(* A handler may hold nothing.                                             *)
LEMMA IdleIsHeld == Idle \in DeskState
BY DEF DeskState

(* The handlers that do one thing at a desk keep the shape of the groups.  *)
LEMMA DeskStepShape ==
  ASSUME GroupShape, FeeGroupsAssumption, NEW d \in Desk, DeskStep(d), today' = today
  PROVE  GroupShape'
<1>0. desk' = [desk EXCEPT ![d] = Idle] /\ member' = member
  BY DEF DeskStep, InsertMembers, SaveRemoved, RemoveServiceFee, FailDesk
<1>1. /\ member' \in [Members -> {"ACTIVE", "DELETED"}]
      /\ today' \in Nat
      /\ desk' \in [Desk -> DeskState]
  BY <1>0, DeskSet, IdleIsHeld DEF GroupShape
<1>2. CASE InsertMembers(d)
  <2>1. /\ desk[d].op = "add"
        /\ \A m \in desk[d].read : Len(row[desk[d].on][m]) < MaxRows[m]
        /\ row' = [row EXCEPT ![desk[d].on] = AddRows(@, desk[d].read)]
        /\ fee' = fee
    BY <1>2 DEF InsertMembers
  <2>2. PICK f \in Fees : f = desk[d].on BY <2>1, DeskHolds
  <2>3. PICK M \in SUBSET Members : M = desk[d].read BY <2>1, DeskHolds
  <2>4. row \in [Fees -> [Members -> Seq(RowStatus)]] BY DEF GroupShape
  <2>5. row' = [row EXCEPT ![f] = AddRows(row[f], M)] BY <2>1, <2>2, <2>3
  <2>6. /\ AddRows(row[f], M) \in [Members -> Seq(RowStatus)]
        /\ \A m \in Members :
             Len(AddRows(row[f], M)[m]) =
               IF m \in M THEN Len(row[f][m]) + 1 ELSE Len(row[f][m])
    <3>1. row[f] \in [Members -> Seq(RowStatus)] BY <2>4
    <3>2. PICK group \in [Members -> Seq(RowStatus)] : group = row[f] BY <3>1
    <3>3. /\ AddRows(group, M) \in [Members -> Seq(RowStatus)]
          /\ \A m \in Members :
               Len(AddRows(group, M)[m]) =
                 IF m \in M THEN Len(group[m]) + 1 ELSE Len(group[m])
      BY AddRowsType
    <3> QED BY <3>2, <3>3
  <2>7. row' \in [Fees -> [Members -> Seq(RowStatus)]] BY <2>4, <2>5, <2>6
  <2>8. ASSUME NEW g \in Fees, NEW m \in Members
        PROVE  Len(row'[g][m]) <= MaxRows[m]
    <3>1. Len(row[f][m]) \in Nat BY <2>4, LenProperties
    <3>2. MaxRows[m] \in Nat BY DEF FeeGroupsAssumption
    <3>3. Len(row[g][m]) <= MaxRows[m] /\ Len(row[f][m]) <= MaxRows[m] BY DEF GroupShape
    <3>4. m \in M => Len(row[f][m]) < MaxRows[m] BY <2>1, <2>2, <2>3
    <3>5. row'[g][m] = IF g = f THEN AddRows(row[f], M)[m] ELSE row[g][m]
      BY <2>4, <2>5
    <3>6. Len(AddRows(row[f], M)[m]) <= MaxRows[m] BY <2>6, <3>1, <3>2, <3>3, <3>4
    <3> QED BY <3>3, <3>5, <3>6
  <2> QED BY <1>1, <2>1, <2>7, <2>8 DEF GroupShape
<1>3. CASE SaveRemoved(d)
  <2>1. /\ desk[d].op = "remove"
        /\ row' = [row EXCEPT ![desk[d].on] =
                     [m \in Members |->
                        [i \in DOMAIN @[m] |->
                           IF <<m, i>> \in desk[d].read THEN "IN_ACTIVE" ELSE @[m][i]]]]
        /\ fee' = fee
    BY <1>3 DEF SaveRemoved
  <2>2. PICK f \in Fees : f = desk[d].on BY <2>1, DeskHolds
  <2>3. PICK R : R = desk[d].read OBVIOUS
  <2>4. row \in [Fees -> [Members -> Seq(RowStatus)]] BY DEF GroupShape
  <2> DEFINE Left(m) == [i \in DOMAIN row[f][m] |->
                           IF <<m, i>> \in R THEN "IN_ACTIVE" ELSE row[f][m][i]]
             group == [m \in Members |-> Left(m)]
  <2>5. row' = [row EXCEPT ![f] = group] BY <2>1, <2>2, <2>3
  <2>6. ASSUME NEW m \in Members
        PROVE  Left(m) \in Seq(RowStatus) /\ Len(Left(m)) = Len(row[f][m])
    <3>1. row[f][m] \in Seq(RowStatus) BY <2>4
    <3>2. /\ Len(row[f][m]) \in Nat
          /\ DOMAIN row[f][m] = 1 .. Len(row[f][m])
          /\ \A i \in DOMAIN row[f][m] : row[f][m][i] \in RowStatus
      BY <3>1, Places
    <3>3. Left(m) \in [1 .. Len(row[f][m]) -> RowStatus] BY <3>2 DEF RowStatus
    <3> QED BY <3>2, <3>3
  <2> HIDE DEF Left
  <2>7. group \in [Members -> Seq(RowStatus)] BY <2>6
  <2>8. \A m \in Members : group[m] = Left(m) OBVIOUS
  <2> HIDE DEF group
  <2>9. row' \in [Fees -> [Members -> Seq(RowStatus)]] BY <2>4, <2>5, <2>7
  <2>10. ASSUME NEW g \in Fees, NEW m \in Members
         PROVE  Len(row'[g][m]) <= MaxRows[m]
    <3>1. Len(row[g][m]) <= MaxRows[m] /\ Len(row[f][m]) <= MaxRows[m] BY DEF GroupShape
    <3>2. row'[g][m] = IF g = f THEN group[m] ELSE row[g][m] BY <2>4, <2>5
    <3> QED BY <2>6, <2>8, <3>1, <3>2
  <2> QED BY <1>1, <2>1, <2>9, <2>10 DEF GroupShape
<1>4. CASE RemoveServiceFee(d)
  <2>1. /\ desk[d].op = "removeFee"
        /\ fee' = [fee EXCEPT ![desk[d].on] = [desk[d].read EXCEPT !.status = "IN_ACTIVE"]]
        /\ row' = row
    BY <1>4 DEF RemoveServiceFee
  <2>2. PICK f \in Fees : f = desk[d].on BY <2>1, DeskHolds
  <2>3. PICK r \in FeeRow : r = desk[d].read BY <2>1, DeskHolds
  <2>4. PICK s \in FeeRow : s = [r EXCEPT !.status = "IN_ACTIVE"] BY DEF FeeRow
  <2>5. fee' = [fee EXCEPT ![f] = s] BY <2>1, <2>2, <2>3, <2>4
  <2>6. fee' \in [Fees -> FeeRow] BY <2>5 DEF GroupShape
  <2> QED BY <1>1, <2>1, <2>6 DEF GroupShape
<1>5. CASE FailDesk(d)
  BY <1>1, <1>5 DEF FailDesk, GroupShape
<1> QED BY <1>2, <1>3, <1>4, <1>5 DEF DeskStep

(* A new fee.                                                              *)
LEMMA CreateServiceShape ==
  ASSUME GroupShape, FeeGroupsAssumption, NEW f \in Fees, NEW q \in ServiceFeeRequest,
         NEW due \in Nat, CreateService(f, q, due), today' = today
  PROVE  GroupShape'
<1>1. q.type \in ServiceType BY DEF ServiceFeeRequest
<1>2. PICK new \in FeeRow : new = [status |-> "ACTIVE", type |-> q.type, due |-> due]
  BY <1>1 DEF FeeRow
<1>3. fee' = [fee EXCEPT ![f] = new] BY <1>2 DEF CreateService
<1>4. fee' \in [Fees -> FeeRow] BY <1>3 DEF GroupShape
<1>5. row' = LinkedGroup(f, q.recipients) /\ UNCHANGED <<member, desk>>
  BY DEF CreateService
<1>6. /\ row' \in [Fees -> [Members -> Seq(RowStatus)]]
      /\ \A g \in Fees, m \in Members : Len(row'[g][m]) <= MaxRows[m]
  BY <1>5, LinkedGroupType
<1> QED BY <1>4, <1>5, <1>6 DEF GroupShape

(* What the handlers of the API read.                                      *)
LEMMA DeskReadsShape ==
  ASSUME GroupShape, NEW d \in Desk, NEW f \in Fees, today' = today,
         \/ \E M \in SUBSET Members : AddMember(d, f, M) \/ RemoveMember(d, f, M)
         \/ DeActivateFee(d, f)
  PROVE  GroupShape'
<1>0. UNCHANGED <<fee, row, member>> BY DEF AddMember, RemoveMember, DeActivateFee
<1>1. PICK v \in DeskState : desk' = [desk EXCEPT ![d] = v]
  <2>1. CASE \E M \in SUBSET Members : AddMember(d, f, M)
    <3>1. PICK M \in SUBSET Members : AddMember(d, f, M) BY <2>1
    <3>2. PICK R \in SUBSET Members :
            R = {m \in Found(M) : \A p \in ActiveRows(f) : p[1] # m}
      BY DEF Found
    <3>3. desk' = [desk EXCEPT ![d] = [op |-> "add", on |-> f, read |-> R]]
      BY <3>1, <3>2 DEF AddMember
    <3>4. [op |-> "add", on |-> f, read |-> R] \in DeskState BY DEF DeskState
    <3> QED BY <3>3, <3>4
  <2>2. CASE \E M \in SUBSET Members : RemoveMember(d, f, M)
    <3>1. PICK M \in SUBSET Members : RemoveMember(d, f, M) BY <2>2
    <3>2. PICK R \in SUBSET (Members \X RowIds) :
            R = {p \in ActiveRows(f) : p[1] \in Found(M)}
      BY DEF ActiveRows
    <3>3. desk' = [desk EXCEPT ![d] = [op |-> "remove", on |-> f, read |-> R]]
      BY <3>1, <3>2 DEF RemoveMember
    <3>4. [op |-> "remove", on |-> f, read |-> R] \in DeskState BY DEF DeskState
    <3> QED BY <3>3, <3>4
  <2>3. CASE DeActivateFee(d, f)
    <3>1. PICK r \in FeeRow : r = fee[f] BY DEF GroupShape
    <3>2. desk' = [desk EXCEPT ![d] = [op |-> "removeFee", on |-> f, read |-> r]]
      BY <2>3, <3>1 DEF DeActivateFee
    <3>3. [op |-> "removeFee", on |-> f, read |-> r] \in DeskState BY DEF DeskState
    <3> QED BY <3>2, <3>3
  <2> QED BY <2>1, <2>2, <2>3
<1>2. desk' \in [Desk -> DeskState] BY <1>1, DeskSet
<1> QED BY <1>0, <1>2 DEF GroupShape

(* What executives do keeps the shape of the groups.                       *)
LEMMA ExecutiveShape ==
  ASSUME GroupShape, FeeGroupsAssumption, BillingAssumption, Executive
  PROVE  GroupShape'
<1>0. today' = today BY DEF Executive
<1>1. CASE \E d \in Desk : DeskStep(d)
  BY <1>0, <1>1, DeskStepShape
<1>2. CASE \E f \in Fees, q \in ServiceFeeRequest :
             CreateService(f, q, FirstDue(q.type, today + q.notice))
  <2>1. PICK f \in Fees, q \in ServiceFeeRequest :
               CreateService(f, q, FirstDue(q.type, today + q.notice))
    BY <1>2
  <2>2. q.notice \in Nat /\ today \in Nat /\ Cycle \in Nat
    BY DEF ServiceFeeRequest, FeeGroupsAssumption, BillingAssumption, GroupShape
  <2>3. FirstDue(q.type, today + q.notice) \in Nat BY <2>2 DEF FirstDue
  <2> QED BY <1>0, <2>1, <2>3, CreateServiceShape
<1>3. CASE \E d \in Desk, f \in Fees :
             \/ \E M \in Requests : AddMember(d, f, M) \/ RemoveMember(d, f, M)
             \/ DeActivateFee(d, f)
  <2>1. PICK d \in Desk, f \in Fees :
             \/ \E M \in Requests : AddMember(d, f, M) \/ RemoveMember(d, f, M)
             \/ DeActivateFee(d, f)
    BY <1>3
  <2>2. Requests \subseteq SUBSET Members BY DEF FeeGroupsAssumption
  <2>3. \/ \E M \in SUBSET Members : AddMember(d, f, M) \/ RemoveMember(d, f, M)
        \/ DeActivateFee(d, f)
    BY <2>1, <2>2
  <2> QED BY <1>0, <2>3, DeskReadsShape
<1>4. CASE \E m \in Members : LeaveAssociation(m)
  BY <1>0, <1>4 DEF LeaveAssociation, GroupShape
<1> QED BY <1>1, <1>2, <1>3, <1>4 DEF Executive

-----------------------------------------------------------------------------
(* The pool.                                                               *)

(* One more transaction fits where a connection is free.                   *)
LEMMA PoolStep ==
  ASSUME PoolKept, BillingAssumption,
         NEW w \in Workers, NEW x,
         Holders(w)' \subseteq Holders(w)
           \/ (Holders(w)' \subseteq Holders(w) \cup {x} /\ ConnectionFree(w)),
         \A k \in Workers \ {w} : Holders(k)' \subseteq Holders(k)
  PROVE  PoolKept'
<1>0. PoolSize \in Nat BY DEF BillingAssumption
<1>1. ASSUME NEW k \in Workers, Holders(k)' \subseteq Holders(k)
      PROVE  IsFiniteSet(Holders(k)') /\ Cardinality(Holders(k)') <= PoolSize
  <2>1. IsFiniteSet(Holders(k)) /\ Cardinality(Holders(k)) <= PoolSize
    BY DEF PoolKept
  <2>2. PICK S : S = Holders(k) OBVIOUS
  <2>3. PICK T : T = Holders(k)' OBVIOUS
  <2>4. IsFiniteSet(T) /\ Cardinality(T) <= Cardinality(S)
    BY <1>1, <2>1, <2>2, <2>3, FS_Subset
  <2>5. Cardinality(T) \in Nat /\ Cardinality(S) \in Nat
    BY <2>1, <2>2, <2>4, FS_CardinalityType
  <2> QED BY <1>0, <2>1, <2>2, <2>3, <2>4, <2>5
<1>2. ASSUME Holders(w)' \subseteq Holders(w) \cup {x}, ConnectionFree(w)
      PROVE  IsFiniteSet(Holders(w)') /\ Cardinality(Holders(w)') <= PoolSize
  <2>1. IsFiniteSet(Holders(w)) /\ Cardinality(Holders(w)) < PoolSize
    BY <1>2 DEF PoolKept, ConnectionFree
  <2>2. PICK S : S = Holders(w) OBVIOUS
  <2>3. PICK T : T = Holders(w)' OBVIOUS
  <2>4. /\ IsFiniteSet(S \cup {x})
        /\ Cardinality(S \cup {x}) = Cardinality(S)
             \/ Cardinality(S \cup {x}) = Cardinality(S) + 1
    BY <2>1, <2>2, FS_AddElement
  <2>5. T \subseteq S \cup {x} BY <1>2, <2>2, <2>3
  <2>6. IsFiniteSet(T) /\ Cardinality(T) <= Cardinality(S \cup {x})
    BY <2>4, <2>5, FS_Subset
  <2>7. Cardinality(T) \in Nat /\ Cardinality(S) \in Nat
    BY <2>1, <2>2, <2>6, FS_CardinalityType
  <2>8. Cardinality(S) < PoolSize BY <2>1, <2>2
  <2>9. Cardinality(T) <= PoolSize BY <1>0, <2>4, <2>6, <2>7, <2>8
  <2> QED BY <2>3, <2>6, <2>9
<1> QED BY <1>1, <1>2 DEF PoolKept

(* Where nobody begins, the pool is kept.                                  *)
LEMMA PoolRest ==
  ASSUME PoolKept, BillingAssumption,
         \A k \in Workers : Holders(k)' \subseteq Holders(k)
  PROVE  PoolKept'
<1>1. CASE Workers = {} BY <1>1 DEF PoolKept
<1>2. CASE Workers # {}
  <2>1. PICK w \in Workers : TRUE BY <1>2
  <2> QED BY PoolStep
<1> QED BY <1>1, <1>2

-----------------------------------------------------------------------------
(* The jobs of a worker.                                                   *)

(* What a worker's jobs hold.                                              *)
LEMMA JobsHold ==
  ASSUME JobShape, NEW w \in Workers
  PROVE  /\ generating[w] \in Partial(Fees, Generating)
         /\ DOMAIN generating[w] \subseteq Fees
         /\ \A f \in DOMAIN generating[w] : generating[w][f] \in Generating
         /\ picked[w] \in SUBSET Pairs
         /\ billing[w] \in Partial(Pairs, Transaction)
         /\ DOMAIN billing[w] \subseteq Pairs
         /\ \A p \in DOMAIN billing[w] : billing[w][p] \in Transaction
         /\ loaded[w] \in [fees : SUBSET Fees, members : SUBSET Members]
         /\ total[w] \in [Sub -> Nat]
<1>1. /\ generating[w] \in Partial(Fees, Generating)
      /\ picked[w] \in SUBSET Pairs
      /\ billing[w] \in Partial(Pairs, Transaction)
      /\ loaded[w] \in [fees : SUBSET Fees, members : SUBSET Members]
      /\ total[w] \in [Sub -> Nat]
  BY DEF JobShape
<1>2. /\ DOMAIN generating[w] \subseteq Fees
      /\ \A f \in DOMAIN generating[w] : generating[w][f] \in Generating
  BY <1>1, PartialElim
<1>3. /\ DOMAIN billing[w] \subseteq Pairs
      /\ \A p \in DOMAIN billing[w] : billing[w][p] \in Transaction
  BY <1>1, PartialElim
<1> QED BY <1>1, <1>2, <1>3

(* The jobs of a worker hold connections for what they have begun.         *)
LEMMA HoldersOf ==
  ASSUME NEW w \in Workers, NEW x
  PROVE  x \in Holders(w) <=>
           \/ x \in DOMAIN generating[w] /\ generating[w][x].at # "queued"
           \/ x \in DOMAIN billing[w] /\ billing[w][x].at # "queued"
BY DEF Holders

(* A transaction that opens a subscription moves: no fee is added to what  *)
(* its job still has, and the rows it read stay.                           *)
Proceeds(w, G) ==
  /\ generating' = [generating EXCEPT ![w] = G]
  /\ DOMAIN G \subseteq DOMAIN generating[w]
  /\ \A f \in DOMAIN G : G[f].row = generating[w][f].row

(* What is left of a subscription job after one of its transactions moved. *)
LEMMA SubscriptionProceeds ==
  ASSUME JobShape, NEW w \in Workers, NEW f \in Fees,
         \/ BeginSubscription(w, f) \/ CreateSubscription(w, f)
         \/ FailSubscription(w, f)
  PROVE  /\ f \in DOMAIN generating[w]
         /\ \E G \in Partial(Fees, Generating) :
              /\ Proceeds(w, G)
              /\ \A g \in DOMAIN G \ {f} : G[g] = generating[w][g]
              /\ ~BeginSubscription(w, f) => f \notin DOMAIN G
         /\ UNCHANGED <<row, member, desk, conflicts, today, picked, billing, loaded,
                        total, bills, failed>>
<1>0. /\ f \in DOMAIN generating[w]
      /\ UNCHANGED <<row, member, desk, conflicts, today, picked, billing, loaded,
                     total, bills, failed>>
  BY DEF BeginSubscription, CreateSubscription, FailSubscription, groupVars, billVars
<1>1. PICK old \in Partial(Fees, Generating) : old = generating[w] BY JobsHold
<1>2. f \in DOMAIN old /\ old[f] \in Generating BY <1>0, <1>1, JobsHold
<1>3. CASE BeginSubscription(w, f)
  <2>1. PICK g \in Generating : g = [old[f] EXCEPT !.at = "begun"]
    BY <1>2 DEF Generating
  <2>2. g.row = old[f].row BY <1>2, <2>1 DEF Generating
  <2>3. PICK G \in Partial(Fees, Generating) : G = [old EXCEPT ![f] = g]
    BY <1>2, <2>1, PartialExcept
  <2>4. DOMAIN G = DOMAIN old BY <2>3
  <2>5. generating' = [generating EXCEPT ![w] = G]
    BY <1>1, <1>3, <2>1, <2>3 DEF BeginSubscription
  <2>6. \A k \in DOMAIN old : G[k] = IF k = f THEN g ELSE old[k] BY <2>3
  <2>7. \A k \in DOMAIN G \ {f} : G[k] = generating[w][k] BY <1>1, <2>4, <2>6
  <2>8. \A k \in DOMAIN G : G[k].row = generating[w][k].row
    BY <1>1, <2>2, <2>4, <2>6
  <2> QED BY <1>0, <1>1, <1>3, <2>4, <2>5, <2>7, <2>8 DEF Proceeds
<1>4. CASE ~BeginSubscription(w, f)
  <2>1. generating' = [generating EXCEPT ![w] = Without(old, f)]
    BY <1>1, <1>4 DEF CreateSubscription, FailSubscription
  <2>2. PICK G \in Partial(Fees, Generating) : G = Without(old, f)
    BY PartialWithout
  <2>3. /\ DOMAIN G = (DOMAIN old) \ {f}
        /\ \A k \in (DOMAIN old) \ {f} : G[k] = old[k]
    <3>1. /\ DOMAIN Without(old, f) = (DOMAIN old) \ {f}
          /\ \A k \in (DOMAIN old) \ {f} : Without(old, f)[k] = old[k]
      BY DEF Without
    <3> QED BY <2>2, <3>1
  <2>4. generating' = [generating EXCEPT ![w] = G] BY <2>1, <2>2
  <2> QED BY <1>0, <1>1, <2>3, <2>4 DEF Proceeds
<1> QED BY <1>3, <1>4

(* The subscription table, by what jobs and settlements do to it.          *)
LEMMA SubscriptionIsAppended ==
  ASSUME BillShape, NEW f \in Fees,
         Len(subscription) < MaxSubscriptions,
         subscription' = Append(subscription, [fee |-> f, payable |-> 0])
  PROVE  /\ subscription' \in Seq(Subscription)
         /\ Len(subscription') <= MaxSubscriptions
         /\ DOMAIN subscription' = DOMAIN subscription \cup {Len(subscription) + 1}
         /\ \A s \in DOMAIN subscription : subscription'[s] = subscription[s]
         /\ Len(subscription) + 1 \notin DOMAIN subscription
         /\ subscription'[Len(subscription) + 1].fee = f
<1>1. subscription \in Seq(Subscription) BY DEF BillShape
<1>2. PICK new \in Subscription : new = [fee |-> f, payable |-> 0]
  BY DEF Subscription
<1>3. /\ subscription' \in Seq(Subscription)
      /\ Len(subscription') = Len(subscription) + 1
      /\ \A s \in 1 .. Len(subscription) : subscription'[s] = subscription[s]
      /\ subscription'[Len(subscription) + 1] = new
  BY <1>1, <1>2, AppendProperties
<1>4. /\ Len(subscription) \in Nat
      /\ DOMAIN subscription = 1 .. Len(subscription)
      /\ DOMAIN subscription' = 1 .. Len(subscription')
  BY <1>1, <1>3, Places
<1>5. Len(subscription') <= MaxSubscriptions
  <2>1. Len(subscription) < MaxSubscriptions OBVIOUS
  <2> QED BY <1>3, <1>4, <2>1, BillingAssumption DEF BillingAssumption
<1>6. new.fee = f BY <1>2
<1> QED BY <1>3, <1>4, <1>5, <1>6

(* A total that is saved leaves the rows and their fees.                   *)
TotalSaved ==
  /\ subscription' \in Seq(Subscription)
  /\ Len(subscription') = Len(subscription)
  /\ DOMAIN subscription' = DOMAIN subscription
  /\ \A s \in DOMAIN subscription : subscription'[s].fee = subscription[s].fee

(* Saving a total changes no subscription otherwise.                       *)
LEMMA SavingATotal ==
  ASSUME BillShape, NEW s, NEW n \in Nat,
         subscription' = [subscription EXCEPT ![s].payable = n]
  PROVE  TotalSaved
<1>1. subscription \in Seq(Subscription) BY DEF BillShape
<1>2. CASE s \in DOMAIN subscription
  <2>1. subscription[s] \in Subscription BY <1>1, <1>2, Places
  <2>2. PICK new \in Subscription : new = [subscription[s] EXCEPT !.payable = n]
    BY <2>1 DEF Subscription
  <2>3. new.fee = subscription[s].fee BY <2>1, <2>2 DEF Subscription
  <2>4. subscription' = [subscription EXCEPT ![s] = new] BY <2>2
  <2>5. /\ subscription' \in Seq(Subscription)
        /\ DOMAIN subscription' = DOMAIN subscription
        /\ Len(subscription') = Len(subscription)
    BY <1>1, <1>2, <2>4, SeqExcept
  <2>6. \A k \in DOMAIN subscription :
          subscription'[k] = IF k = s THEN new ELSE subscription[k]
    BY <2>4
  <2> QED BY <2>3, <2>5, <2>6 DEF TotalSaved
<1>3. CASE s \notin DOMAIN subscription
  <2>1. subscription \in [1 .. Len(subscription) -> Subscription]
    BY <1>1, LenProperties
  <2>2. subscription' = subscription BY <1>3, <2>1
  <2> QED BY <1>1, <2>2 DEF TotalSaved
<1> QED BY <1>2, <1>3

(* No total is saved when the subscriptions stay as they are.              *)
LEMMA TotalKept ==
  ASSUME BillShape, subscription' = subscription PROVE TotalSaved
BY DEF BillShape, TotalSaved

(* A transaction that bills a pair moves: it ends, or goes on; the bill of *)
(* a pair is inserted when it ends.                                        *)
BillingStep(w, p) ==
  \/ BeginBill(w, p) \/ InsertBill(w, p) \/ MissFee(w, p)
  \/ SaveSubscription(w, p) \/ CommitBill(w, p) \/ FailBill(w, p)

BillOf(w, p) == IF p[2] \in loaded[w].members THEN p[2] ELSE None

Bills(w, p, B) ==
  /\ billing' = [billing EXCEPT ![w] = B]
  /\ DOMAIN B \subseteq DOMAIN billing[w]
  /\ \A q \in DOMAIN B \ {p} : B[q] = billing[w][q]
  /\ loaded' = loaded \/ (DOMAIN B = {} /\ loaded' = [loaded EXCEPT ![w] = NotLoaded])
  /\ \/ bills' = bills
     \/ /\ p \notin DOMAIN B
        /\ bills' = [bills EXCEPT ![p[1]][BillOf(w, p)] = @ + 1]

(* A transaction ends.                                                     *)
LEMMA Ending ==
  ASSUME JobShape, NEW w \in Workers, NEW p \in DOMAIN billing[w], EndBill(w, p)
  PROVE  /\ \E B \in Partial(Pairs, Transaction) :
              /\ billing' = [billing EXCEPT ![w] = B]
              /\ DOMAIN B = (DOMAIN billing[w]) \ {p}
              /\ \A q \in DOMAIN B \ {p} : B[q] = billing[w][q]
              /\ \/ loaded' = loaded
                 \/ DOMAIN B = {} /\ loaded' = [loaded EXCEPT ![w] = NotLoaded]
         /\ loaded' \in [Workers -> [fees : SUBSET Fees, members : SUBSET Members]]
         /\ total' \in [Workers -> [Sub -> Nat]]
         /\ UNCHANGED <<generating, picked>>
<1>1. PICK old \in Partial(Pairs, Transaction) : old = billing[w] BY JobsHold
<1>2. PICK B : B = Without(old, p) OBVIOUS
<1>3. /\ B \in Partial(Pairs, Transaction)
      /\ DOMAIN B = (DOMAIN old) \ {p}
      /\ \A q \in (DOMAIN old) \ {p} : B[q] = old[q]
  <2>1. /\ Without(old, p) \in Partial(Pairs, Transaction)
        /\ DOMAIN Without(old, p) = (DOMAIN old) \ {p}
        /\ \A q \in (DOMAIN old) \ {p} : Without(old, p)[q] = old[q]
    <3>1. Without(old, p) \in Partial(Pairs, Transaction) BY PartialWithout
    <3> QED BY <3>1 DEF Without
  <2> QED BY <1>2, <2>1
<1>4. billing' = [billing EXCEPT ![w] = B] BY <1>1, <1>2 DEF EndBill
<1>5. UNCHANGED <<generating, picked>> BY DEF EndBill
<1>6. /\ loaded \in [Workers -> [fees : SUBSET Fees, members : SUBSET Members]]
      /\ total \in [Workers -> [Sub -> Nat]]
  BY DEF JobShape
<1>7. CASE DOMAIN billing[w] = {p}
  <2>1. /\ loaded' = [loaded EXCEPT ![w] = NotLoaded]
        /\ total' = [total EXCEPT ![w] = NoTotals]
    BY <1>7 DEF EndBill
  <2>2. NotLoaded \in [fees : SUBSET Fees, members : SUBSET Members] BY DEF NotLoaded
  <2>3. NoTotals \in [Sub -> Nat] BY DEF NoTotals
  <2>4. DOMAIN B = {} BY <1>1, <1>3, <1>7
  <2>5. loaded' \in [Workers -> [fees : SUBSET Fees, members : SUBSET Members]]
    BY <1>6, <2>1, <2>2
  <2>6. total' \in [Workers -> [Sub -> Nat]] BY <1>6, <2>1, <2>3
  <2> QED BY <1>1, <1>3, <1>4, <1>5, <2>1, <2>4, <2>5, <2>6
<1>8. CASE DOMAIN billing[w] # {p}
  <2>1. loaded' = loaded /\ total' = total BY <1>8 DEF EndBill
  <2> QED BY <1>1, <1>3, <1>4, <1>5, <1>6, <2>1
<1> QED BY <1>7, <1>8

(* A transaction goes on with another record.                              *)
LEMMA GoingOn ==
  ASSUME JobShape, NEW w \in Workers, NEW p \in DOMAIN billing[w],
         NEW t \in Transaction, billing' = [billing EXCEPT ![w][p] = t]
  PROVE  \E B \in Partial(Pairs, Transaction) :
           /\ billing' = [billing EXCEPT ![w] = B]
           /\ DOMAIN B = DOMAIN billing[w]
           /\ \A q \in DOMAIN B \ {p} : B[q] = billing[w][q]
<1>1. PICK old \in Partial(Pairs, Transaction) : old = billing[w] BY JobsHold
<1>2. PICK B \in Partial(Pairs, Transaction) : B = [old EXCEPT ![p] = t]
  BY <1>1, PartialExcept
<1>3. /\ DOMAIN B = DOMAIN old
      /\ \A q \in DOMAIN B \ {p} : B[q] = old[q]
  BY <1>2
<1>4. billing' = [billing EXCEPT ![w] = B] BY <1>1, <1>2
<1> QED BY <1>1, <1>3, <1>4

(* What a transaction that bills a pair may do.                            *)
LEMMA BillingProceeds ==
  ASSUME BillShape, JobShape, PairsNamed, BillingAssumption, NEW w \in Workers,
         NEW p \in DOMAIN billing[w], BillingStep(w, p)
  PROVE  /\ \E B \in Partial(Pairs, Transaction) :
              /\ Bills(w, p, B)
              /\ ~BeginBill(w, p) /\ At(w, p, "queued") => p \notin DOMAIN B
         /\ TotalSaved
         /\ loaded' \in [Workers -> [fees : SUBSET Fees, members : SUBSET Members]]
         /\ total' \in [Workers -> [Sub -> Nat]]
         /\ UNCHANGED <<groupVars, today, generating, picked>>
<1>1. /\ p \in Pairs /\ billing[w][p] \in Transaction
      /\ p[1] \in Sub /\ p[1] \in DOMAIN subscription
  BY JobsHold DEF PairsNamed, Pairs
<1>2. /\ loaded \in [Workers -> [fees : SUBSET Fees, members : SUBSET Members]]
      /\ total \in [Workers -> [Sub -> Nat]]
  BY DEF JobShape
<1>3. CASE BeginBill(w, p) \/ InsertBill(w, p) \/ SaveSubscription(w, p)
  <2>1. PICK t \in Transaction : billing' = [billing EXCEPT ![w][p] = t]
    <3>1. CASE BeginBill(w, p)
      <4>1. PICK t \in Transaction : t = [billing[w][p] EXCEPT !.at = "begun"]
        BY <1>1 DEF Transaction
      <4> QED BY <3>1, <4>1 DEF BeginBill
    <3>2. CASE InsertBill(w, p)
      <4>1. PICK t \in Transaction : t = [billing[w][p] EXCEPT !.at = "inserted"]
        BY <1>1 DEF Transaction
      <4> QED BY <3>2, <4>1 DEF InsertBill
    <3>3. CASE SaveSubscription(w, p)
      <4>1. total[w][p[1]] \in Nat BY <1>1, <1>2
      <4>2. [at |-> "saving", payable |-> total[w][p[1]]] \in Transaction
        BY <4>1 DEF Transaction
      <4> QED BY <3>3, <4>2 DEF SaveSubscription
    <3> QED BY <1>3, <3>1, <3>2, <3>3
  <2>2. PICK B \in Partial(Pairs, Transaction) :
           /\ billing' = [billing EXCEPT ![w] = B]
           /\ DOMAIN B = DOMAIN billing[w]
           /\ \A q \in DOMAIN B \ {p} : B[q] = billing[w][q]
    BY <2>1, GoingOn
  <2>3. /\ loaded' = loaded /\ bills' = bills /\ subscription' = subscription
        /\ UNCHANGED <<groupVars, today, generating, picked>>
    BY <1>3 DEF BeginBill, InsertBill, SaveSubscription, billVars
  <2>4. total' \in [Workers -> [Sub -> Nat]]
    <3>1. CASE InsertBill(w, p)
      <4>1. subscription[p[1]] \in Subscription BY <1>1, Places DEF BillShape
      <4>2. FeeOf(p) \in Fees BY <4>1 DEF FeeOf, Subscription
      <4>3. Cost[FeeOf(p)] \in Nat BY <4>2 DEF BillingAssumption
      <4>4. PICK n \in Nat : n = total[w][p[1]] + Cost[FeeOf(p)]
        BY <1>1, <1>2, <4>3
      <4>5. total' = [total EXCEPT ![w][p[1]] = n] BY <3>1, <4>4 DEF InsertBill
      <4> QED BY <1>1, <1>2, <4>5
    <3>2. CASE ~InsertBill(w, p)
      <4>1. total' = total BY <1>3, <3>2 DEF BeginBill, SaveSubscription
      <4> QED BY <1>2, <4>1
    <3> QED BY <3>1, <3>2
  <2>5. ~BeginBill(w, p) => ~At(w, p, "queued")
    BY <1>3 DEF InsertBill, SaveSubscription, At
  <2>6. TotalSaved BY <2>3, TotalKept
  <2>7. Bills(w, p, B) BY <2>2, <2>3 DEF Bills
  <2> QED BY <1>2, <2>3, <2>4, <2>5, <2>6, <2>7
<1>4. CASE MissFee(w, p) \/ CommitBill(w, p) \/ FailBill(w, p)
  <2>1. EndBill(w, p) /\ UNCHANGED <<groupVars, today>>
    BY <1>4 DEF MissFee, CommitBill, FailBill
  <2>2. PICK B \in Partial(Pairs, Transaction) :
              /\ billing' = [billing EXCEPT ![w] = B]
              /\ DOMAIN B = (DOMAIN billing[w]) \ {p}
              /\ \A q \in DOMAIN B \ {p} : B[q] = billing[w][q]
              /\ \/ loaded' = loaded
                 \/ DOMAIN B = {} /\ loaded' = [loaded EXCEPT ![w] = NotLoaded]
    BY <2>1, Ending
  <2>3. /\ loaded' \in [Workers -> [fees : SUBSET Fees, members : SUBSET Members]]
        /\ total' \in [Workers -> [Sub -> Nat]]
        /\ UNCHANGED <<generating, picked>>
    BY <2>1, Ending
  <2>4. \/ bills' = bills
        \/ bills' = [bills EXCEPT ![p[1]][BillOf(w, p)] = @ + 1]
    BY <1>4 DEF MissFee, CommitBill, FailBill, billVars, BillOf
  <2>5. TotalSaved
    <3>1. CASE CommitBill(w, p)
      <4>1. PICK n \in Nat : n = billing[w][p].payable BY <1>1 DEF Transaction
      <4>2. subscription' = [subscription EXCEPT ![p[1]].payable = n]
        BY <3>1, <4>1 DEF CommitBill
      <4> QED BY <4>2, SavingATotal
    <3>2. CASE ~CommitBill(w, p)
      BY <1>4, <3>2, TotalKept DEF MissFee, FailBill, billVars
    <3> QED BY <3>1, <3>2
  <2>6. Bills(w, p, B) BY <2>2, <2>4 DEF Bills
  <2> QED BY <2>1, <2>2, <2>3, <2>5, <2>6
<1> QED BY <1>3, <1>4 DEF BillingStep

-----------------------------------------------------------------------------
(* The shape of the state is inductive.                                    *)

SubscriptionStep(w, f) ==
  BeginSubscription(w, f) \/ CreateSubscription(w, f) \/ FailSubscription(w, f)

Rest == UNCHANGED <<fee, row, member, desk, conflicts, generating, picked, billing,
                    loaded, total, subscription, bills, failed>>

(* What a step may be.                                                     *)
LEMMA Steps ==
  ASSUME [BillingNext]_vars
  PROVE  \/ Executive
         \/ \E d \in Desk : SaveTotals(d) \/ \E s \in Sub : ReadTotals(d, s)
         \/ \E w \in Workers, type \in ServiceType : TakeSubscriptionJob(w, type)
         \/ \E w \in Workers, f \in Fees : SubscriptionStep(w, f)
         \/ \E w \in Workers : TakeBillJob(w)
         \/ \E w \in Workers : LoadPairs(w)
         \/ \E w \in Workers : \E p \in DOMAIN billing[w] : BillingStep(w, p)
         \/ \E w \in Workers : Crash(w)
         \/ Rest /\ (today' = today \/ NextDay)
<1>1. CASE UNCHANGED vars
  BY <1>1 DEF vars, groupVars, jobVars, billVars, Rest
<1>2. CASE NextDay
  BY <1>2 DEF NextDay, groupVars, jobVars, billVars, Rest
<1>3. CASE AtRest
  BY <1>3 DEF AtRest, vars, groupVars, jobVars, billVars, Rest
<1>4. ASSUME NEW w \in Workers, JobStep(w) \/ JobFault(w)
      PROVE  \/ \E f \in Fees : SubscriptionStep(w, f)
             \/ LoadPairs(w)
             \/ \E p \in DOMAIN billing[w] : BillingStep(w, p)
             \/ Crash(w)
  BY <1>4 DEF JobStep, JobFault, SubscriptionStep, BillingStep
<1> QED BY <1>1, <1>2, <1>3, <1>4 DEF BillingNext

(* Nothing is there and nobody is at work.                                 *)
LEMMA InitShape == BillingInit => Shape
<1> SUFFICES ASSUME BillingInit PROVE Shape OBVIOUS
<1> USE DEF BillingInit, GroupsInit
<1>1. GroupShape
  <2>1. NoFee \in FeeRow BY DEF NoFee, FeeRow, ServiceType
  <2>2. NewGroup \in [Members -> Seq(RowStatus)] /\ \A m \in Members : Len(NewGroup[m]) = 0
    BY EmptySeq DEF NewGroup
  <2>3. \A m \in Members : MaxRows[m] \in Nat
    BY FeeGroupsAssumption DEF FeeGroupsAssumption
  <2>4. /\ fee \in [Fees -> FeeRow]
        /\ row \in [Fees -> [Members -> Seq(RowStatus)]]
        /\ desk \in [Desk -> DeskState]
    BY <2>1, <2>2, IdleIsHeld
  <2>5. ASSUME NEW f \in Fees, NEW m \in Members PROVE Len(row[f][m]) <= MaxRows[m]
    BY <2>2, <2>3
  <2> QED BY <2>4, <2>5 DEF GroupShape
<1>2. BillShape
  <2>1. subscription \in Seq(Subscription) /\ Len(subscription) = 0 BY EmptySeq
  <2>2. Len(subscription) <= MaxSubscriptions
    BY <2>1, BillingAssumption DEF BillingAssumption
  <2> QED BY <2>1, <2>2 DEF BillShape
<1>3. JobShape
  BY NothingIsEmpty DEF JobShape, NotLoaded, NoTotals
<1>4. PairsNamed BY NothingIsEmpty DEF PairsNamed
<1>5. PoolKept
  <2>1. PoolSize \in Nat BY BillingAssumption DEF BillingAssumption
  <2>2. ASSUME NEW w \in Workers PROVE Holders(w) = {}
    BY NothingIsEmpty DEF Holders
  <2>3. IsFiniteSet({}) /\ Cardinality({}) = 0 BY FS_EmptySet
  <2>4. ASSUME NEW w \in Workers
        PROVE  IsFiniteSet(Holders(w)) /\ Cardinality(Holders(w)) <= PoolSize
    <3>1. Holders(w) = {} BY <2>2
    <3>2. 0 <= PoolSize BY <2>1
    <3> QED BY <2>3, <3>1, <3>2
  <2> QED BY <2>4 DEF PoolKept
<1> QED BY <1>1, <1>2, <1>3, <1>4, <1>5 DEF Shape

(* Where the jobs are not touched.                                         *)
LEMMA JobsRest ==
  ASSUME JobShape, PairsNamed, PoolKept, BillingAssumption,
         UNCHANGED <<generating, picked, billing, loaded, total>>,
         DOMAIN subscription \subseteq DOMAIN subscription'
  PROVE  JobShape' /\ PairsNamed' /\ PoolKept'
<1>1. JobShape' BY DEF JobShape
<1>2. PairsNamed' BY DEF PairsNamed
<1>3. \A k \in Workers : Holders(k)' = Holders(k) BY DEF Holders
<1>4. PoolKept' BY <1>3 DEF PoolKept
<1> QED BY <1>1, <1>2, <1>4

(* Where fees, groups, members and handlers are not touched.               *)
LEMMA GroupsRest ==
  ASSUME GroupShape, UNCHANGED <<fee, row, member, desk>>, today' \in Nat
  PROVE  GroupShape'
BY DEF GroupShape

(* A job of the subscription queue is taken.                               *)
LEMMA TakeSubscriptionShape ==
  ASSUME Shape, BillingAssumption,
         NEW w \in Workers, NEW type, TakeSubscriptionJob(w, type)
  PROVE  Shape'
<1>1. UNCHANGED <<fee, row, member, desk, today, picked, billing, loaded, total,
                  subscription, bills, failed>>
  BY DEF TakeSubscriptionJob, billVars
<1>2. GroupShape' /\ BillShape'
  <2>1. today' \in Nat BY <1>1 DEF Shape, GroupShape
  <2> QED BY <1>1, <2>1, GroupsRest DEF Shape, BillShape
<1>3. PICK G \in Partial(Fees, Generating) :
        /\ generating' = [generating EXCEPT ![w] = G]
        /\ \A f \in DOMAIN G : G[f].at = "queued"
  <2> DEFINE G == [f \in DueToday(type) |-> [at |-> "queued", row |-> fee[f]]]
  <2>1. DueToday(type) \subseteq Fees BY DEF DueToday
  <2>2. \A f \in Fees : [at |-> "queued", row |-> fee[f]] \in Generating
    BY DEF Shape, GroupShape, Generating
  <2>3. G \in [DueToday(type) -> Generating] BY <2>1, <2>2
  <2>4. G \in Partial(Fees, Generating) BY <2>1, <2>3, PartialIntro
  <2>5. \A f \in DOMAIN G : G[f].at = "queued" OBVIOUS
  <2>6. generating' = [generating EXCEPT ![w] = G] BY DEF TakeSubscriptionJob
  <2> QED BY <2>4, <2>5, <2>6
<1>4. JobShape' BY <1>1, <1>3 DEF Shape, JobShape
<1>5. PairsNamed' BY <1>1 DEF Shape, PairsNamed
<1>6. PoolKept'
  <2>1. ASSUME NEW k \in Workers PROVE Holders(k)' \subseteq Holders(k)
    <3>1. generating'[k] = IF k = w THEN G ELSE generating[k]
      BY <1>3 DEF Shape, JobShape
    <3> QED BY <1>1, <1>3, <3>1 DEF Holders
  <2> QED BY <2>1, PoolRest DEF Shape
<1> QED BY <1>2, <1>4, <1>5, <1>6 DEF Shape

(* A subscription is opened.                                               *)
LEMMA SubscriptionStepShape ==
  ASSUME Shape, BillingAssumption,
         NEW w \in Workers, NEW f \in Fees, SubscriptionStep(w, f)
  PROVE  Shape'
<1>1. /\ f \in DOMAIN generating[w]
      /\ UNCHANGED <<row, member, desk, conflicts, today, picked, billing, loaded,
                     total, bills, failed>>
  BY SubscriptionProceeds DEF Shape, SubscriptionStep
<1>2. PICK G \in Partial(Fees, Generating) :
              /\ Proceeds(w, G)
              /\ \A g \in DOMAIN G \ {f} : G[g] = generating[w][g]
              /\ ~BeginSubscription(w, f) => f \notin DOMAIN G
  BY SubscriptionProceeds DEF Shape, SubscriptionStep
<1>3. /\ generating' = [generating EXCEPT ![w] = G]
      /\ DOMAIN G \subseteq DOMAIN generating[w]
  BY <1>2 DEF Proceeds
<1>4. fee' \in [Fees -> FeeRow]
  <2>1. CASE CreateSubscription(w, f)
    <3>1. PICK r \in FeeRow : r = generating[w][f].row
      BY <1>1, JobsHold DEF Shape, Generating
    <3>2. r.due + Cycle \in Nat BY BillingAssumption DEF BillingAssumption, FeeRow
    <3>3. PICK new \in FeeRow : new = [r EXCEPT !.due = @ + Cycle]
      BY <3>2 DEF FeeRow
    <3>4. fee' = fee \/ fee' = [fee EXCEPT ![f] = new]
      BY <2>1, <3>1, <3>3 DEF CreateSubscription, SavedFee
    <3> QED BY <3>4 DEF Shape, GroupShape
  <2>2. CASE ~CreateSubscription(w, f)
    <3>1. fee' = fee
      BY <2>2 DEF SubscriptionStep, BeginSubscription, FailSubscription, groupVars
    <3> QED BY <3>1 DEF Shape, GroupShape
  <2> QED BY <2>1, <2>2
<1>5. GroupShape' BY <1>1, <1>4 DEF Shape, GroupShape
<1>6. BillShape' /\ DOMAIN subscription \subseteq DOMAIN subscription'
  <2>1. CASE CreateSubscription(w, f)
    <3>1. /\ Len(subscription) < MaxSubscriptions
          /\ subscription' = Append(subscription, [fee |-> f, payable |-> 0])
      BY <2>1 DEF CreateSubscription
    <3>2. /\ subscription' \in Seq(Subscription)
          /\ Len(subscription') <= MaxSubscriptions
          /\ DOMAIN subscription' = DOMAIN subscription \cup {Len(subscription) + 1}
      BY <3>1, SubscriptionIsAppended DEF Shape
    <3> QED BY <1>1, <3>2 DEF Shape, BillShape
  <2>2. CASE ~CreateSubscription(w, f)
    <3>1. subscription' = subscription
      BY <2>2 DEF SubscriptionStep, BeginSubscription, FailSubscription, billVars
    <3> QED BY <1>1, <3>1 DEF Shape, BillShape
  <2> QED BY <2>1, <2>2
<1>7. JobShape' BY <1>1, <1>3 DEF Shape, JobShape
<1>8. PairsNamed' BY <1>1, <1>6 DEF Shape, PairsNamed
<1>9. PoolKept'
  <2>1. \A k \in Workers : generating'[k] = IF k = w THEN G ELSE generating[k]
    BY <1>3 DEF Shape, JobShape
  <2>2. \A k \in Workers \ {w} : Holders(k)' \subseteq Holders(k)
    BY <1>1, <2>1 DEF Holders
  <2>3. Holders(w)' \subseteq Holders(w) \cup {f}
    BY <1>1, <1>2, <1>3, <2>1 DEF Holders
  <2>4. ~BeginSubscription(w, f) => Holders(w)' \subseteq Holders(w)
    BY <1>1, <1>2, <1>3, <2>1 DEF Holders
  <2>5. BeginSubscription(w, f) => ConnectionFree(w) BY DEF BeginSubscription
  <2> QED BY <2>2, <2>3, <2>4, <2>5, PoolStep DEF Shape
<1> QED BY <1>5, <1>6, <1>7, <1>8, <1>9 DEF Shape

(* A job of the bill queue is taken.                                       *)
LEMMA TakeBillShape ==
  ASSUME Shape, NEW w \in Workers, TakeBillJob(w)
  PROVE  Shape'
<1>1. /\ picked' = [picked EXCEPT ![w] = PendingPairs]
      /\ UNCHANGED <<fee, row, member, desk, today, generating, billing, loaded,
                     total, subscription, bills, failed>>
  BY DEF TakeBillJob, billVars
<1>2. GroupShape' /\ BillShape'
  <2>1. today' \in Nat BY <1>1 DEF Shape, GroupShape
  <2> QED BY <1>1, <2>1, GroupsRest DEF Shape, BillShape
<1>3. PendingPairs \in SUBSET Pairs /\ \A p \in PendingPairs : p[1] \in DOMAIN subscription
  BY DEF PendingPairs
<1>4. JobShape' BY <1>1, <1>3 DEF Shape, JobShape
<1>5. PairsNamed'
  <2>1. \A k \in Workers : picked'[k] = IF k = w THEN PendingPairs ELSE picked[k]
    BY <1>1 DEF Shape, JobShape
  <2>2. DOMAIN billing[w] = {}
    BY NothingIsEmpty DEF TakeBillJob, BillJobBusy
  <2> QED BY <1>1, <1>3, <2>1, <2>2 DEF Shape, PairsNamed
<1>6. PoolKept' BY <1>1 DEF Shape, PoolKept, Holders
<1> QED BY <1>2, <1>4, <1>5, <1>6 DEF Shape

(* The rows a job has picked are loaded.                                   *)
Loads(w, B, n, l) ==
  /\ billing' = [billing EXCEPT ![w] = B]
  /\ DOMAIN B = picked[w]
  /\ \A p \in DOMAIN B : B[p].at = "queued"
  /\ total' = [total EXCEPT ![w] = n]
  /\ loaded' = [loaded EXCEPT ![w] = l]
  /\ l.members = {m \in {p[2] : p \in picked[w]} : member[m] = "ACTIVE"}
  /\ picked' = [picked EXCEPT ![w] = {}]
  /\ UNCHANGED <<fee, row, member, desk, conflicts, today, generating, subscription,
                 bills, failed>>

(* What a bill job has loaded.                                             *)
LEMMA Loading ==
  ASSUME BillShape, JobShape, PairsNamed, NEW w \in Workers, LoadPairs(w)
  PROVE  \E B \in Partial(Pairs, Transaction), n \in [Sub -> Nat],
            l \in [fees : SUBSET Fees, members : SUBSET Members] : Loads(w, B, n, l)
<1>1. picked[w] \in SUBSET Pairs BY JobsHold
<1>2. PICK B \in Partial(Pairs, Transaction) :
        /\ B = [p \in picked[w] |-> [at |-> "queued", payable |-> 0]]
        /\ DOMAIN B = picked[w]
        /\ \A p \in DOMAIN B : B[p].at = "queued"
  <2> DEFINE B == [p \in picked[w] |-> [at |-> "queued", payable |-> 0]]
  <2>1. [at |-> "queued", payable |-> 0] \in Transaction BY DEF Transaction
  <2>2. B \in [picked[w] -> Transaction] BY <2>1
  <2>3. B \in Partial(Pairs, Transaction) BY <1>1, <2>2, PartialIntro
  <2> QED BY <2>3
<1>3. PICK n \in [Sub -> Nat] :
        n = [s \in Sub |-> IF \E p \in picked[w] : p[1] = s
                             THEN subscription[s].payable ELSE 0]
  <2>1. ASSUME NEW s \in Sub, \E p \in picked[w] : p[1] = s
        PROVE  subscription[s].payable \in Nat
    <3>1. s \in DOMAIN subscription BY <2>1 DEF PairsNamed
    <3>2. subscription[s] \in Subscription BY <3>1, Places DEF BillShape
    <3> QED BY <3>2 DEF Subscription
  <2> QED BY <2>1
<1>4. PICK l \in [fees : SUBSET Fees, members : SUBSET Members] :
        l = [fees    |-> {f \in Fees : fee[f].status = "ACTIVE"},
             members |-> {m \in {p[2] : p \in picked[w]} : member[m] = "ACTIVE"}]
  <2>1. {m \in {p[2] : p \in picked[w]} : member[m] = "ACTIVE"} \subseteq Members
    BY <1>1 DEF Pairs
  <2> QED BY <2>1
<1>5. l.members = {m \in {p[2] : p \in picked[w]} : member[m] = "ACTIVE"} BY <1>4
<1>6. /\ billing' = [billing EXCEPT ![w] = B]
      /\ total' = [total EXCEPT ![w] = n]
      /\ loaded' = [loaded EXCEPT ![w] = l]
      /\ picked' = [picked EXCEPT ![w] = {}]
      /\ UNCHANGED <<fee, row, member, desk, conflicts, today, generating, subscription,
                     bills, failed>>
  BY <1>2, <1>3, <1>4 DEF LoadPairs, groupVars, billVars
<1>7. Loads(w, B, n, l) BY <1>2, <1>5, <1>6 DEF Loads
<1> QED BY <1>7

(* The pairs of a bill job are loaded.                                     *)
LEMMA LoadShape ==
  ASSUME Shape, BillingAssumption, NEW w \in Workers, LoadPairs(w)
  PROVE  Shape'
<1>1. PICK B \in Partial(Pairs, Transaction), n \in [Sub -> Nat],
            l \in [fees : SUBSET Fees, members : SUBSET Members] : Loads(w, B, n, l)
  BY Loading DEF Shape
<1> USE <1>1 DEF Loads
<1>2. GroupShape' /\ BillShape'
  <2>1. today' \in Nat BY DEF Shape, GroupShape
  <2> QED BY <2>1, GroupsRest DEF Shape, BillShape
<1>3. JobShape' BY DEF Shape, JobShape
<1>4. \A k \in Workers : /\ picked'[k] = IF k = w THEN {} ELSE picked[k]
                         /\ billing'[k] = IF k = w THEN B ELSE billing[k]
  BY DEF Shape, JobShape
<1>5. PairsNamed' BY <1>4 DEF Shape, PairsNamed
<1>6. \A k \in Workers : Holders(k)' \subseteq Holders(k) BY <1>4 DEF Holders
<1>7. PoolKept' BY <1>6, PoolRest DEF Shape
<1> QED BY <1>2, <1>3, <1>5, <1>7 DEF Shape

(* A bill is added for a pair.                                             *)
LEMMA BillAdded ==
  ASSUME BillShape, JobShape, NEW w \in Workers, NEW p \in Pairs,
         bills' = [bills EXCEPT ![p[1]][BillOf(w, p)] = @ + 1]
  PROVE  /\ p[1] \in Sub
         /\ BillOf(w, p) \in Members \cup {None}
         /\ bills' \in [Sub -> [Members \cup {None} -> Nat]]
         /\ \A s \in Sub, m \in Members \cup {None} :
              bills'[s][m] = IF s = p[1] /\ m = BillOf(w, p)
                               THEN bills[s][m] + 1 ELSE bills[s][m]
<1>1. p[1] \in Sub /\ p[2] \in Members BY DEF Pairs
<1>2. PICK b \in Members \cup {None} : b = BillOf(w, p) BY <1>1 DEF BillOf
<1>3. bills \in [Sub -> [Members \cup {None} -> Nat]] BY DEF BillShape
<1>4. PICK s0 \in Sub : s0 = p[1] BY <1>1
<1>5. bills' = [bills EXCEPT ![s0][b] = bills[s0][b] + 1] BY <1>2, <1>4
<1>6. bills[s0][b] + 1 \in Nat BY <1>3
<1>7. bills' \in [Sub -> [Members \cup {None} -> Nat]]
  <2>1. bills[s0] \in [Members \cup {None} -> Nat] BY <1>3
  <2>2. PICK n \in Nat : n = bills[s0][b] + 1 BY <1>6
  <2>3. PICK r \in [Members \cup {None} -> Nat] : r = [bills[s0] EXCEPT ![b] = n]
    BY <2>1
  <2>4. bills' = [bills EXCEPT ![s0] = r] BY <1>5, <2>2, <2>3
  <2> QED BY <1>3, <2>4
<1>8. \A s \in Sub, m \in Members \cup {None} :
              bills'[s][m] = IF s = s0 /\ m = b
                               THEN bills[s][m] + 1 ELSE bills[s][m]
  BY <1>3, <1>5
<1> QED BY <1>2, <1>4, <1>7, <1>8

(* A transaction that bills a pair moves.                                  *)
LEMMA BillingStepShape ==
  ASSUME Shape, BillingAssumption,
         NEW w \in Workers, NEW p \in DOMAIN billing[w], BillingStep(w, p)
  PROVE  Shape'
<1>1. PICK B \in Partial(Pairs, Transaction) :
              /\ Bills(w, p, B)
              /\ ~BeginBill(w, p) /\ At(w, p, "queued") => p \notin DOMAIN B
  BY BillingProceeds DEF Shape
<1>2. /\ TotalSaved
      /\ loaded' \in [Workers -> [fees : SUBSET Fees, members : SUBSET Members]]
      /\ total' \in [Workers -> [Sub -> Nat]]
      /\ UNCHANGED <<groupVars, today, generating, picked>>
  BY BillingProceeds DEF Shape
<1>3. /\ billing' = [billing EXCEPT ![w] = B]
      /\ DOMAIN B \subseteq DOMAIN billing[w]
      /\ \A q \in DOMAIN B \ {p} : B[q] = billing[w][q]
  BY <1>1 DEF Bills
<1>4. p \in Pairs BY JobsHold DEF Shape
<1>5. GroupShape'
  <2>1. today' \in Nat BY <1>2 DEF Shape, GroupShape
  <2> QED BY <1>2, <2>1, GroupsRest DEF Shape, groupVars
<1>6. BillShape'
  <2>1. bills' \in [Sub -> [Members \cup {None} -> Nat]]
    BY <1>1, <1>4, BillAdded DEF Shape, BillShape, Bills
  <2>2. Len(subscription') <= MaxSubscriptions BY <1>2 DEF TotalSaved, Shape, BillShape
  <2> QED BY <1>2, <2>1, <2>2 DEF TotalSaved, BillShape
<1>7. JobShape' BY <1>2, <1>3 DEF Shape, JobShape
<1>8. \A k \in Workers : billing'[k] = IF k = w THEN B ELSE billing[k]
  BY <1>3 DEF Shape, JobShape
<1>9. PairsNamed' BY <1>2, <1>3, <1>8 DEF Shape, PairsNamed, TotalSaved
<1>10. PoolKept'
  <2>1. \A k \in Workers \ {w} : Holders(k)' \subseteq Holders(k)
    BY <1>2, <1>8 DEF Holders
  <2>2. Holders(w)' \subseteq Holders(w) \cup {p}
    BY <1>2, <1>3, <1>8 DEF Holders
  <2>3. ~BeginBill(w, p) => Holders(w)' \subseteq Holders(w)
    BY <1>1, <1>2, <1>3, <1>8 DEF Holders, At
  <2>4. BeginBill(w, p) => ConnectionFree(w) BY DEF BeginBill
  <2> QED BY <2>1, <2>2, <2>3, <2>4, PoolStep DEF Shape
<1> QED BY <1>5, <1>6, <1>7, <1>9, <1>10 DEF Shape

(* A worker dies.                                                          *)
LEMMA CrashShape ==
  ASSUME Shape, BillingAssumption, NEW w \in Workers, Crash(w)
  PROVE  Shape'
<1>1. /\ generating' = [generating EXCEPT ![w] = Nothing]
      /\ picked' = [picked EXCEPT ![w] = {}]
      /\ billing' = [billing EXCEPT ![w] = Nothing]
      /\ loaded' = [loaded EXCEPT ![w] = NotLoaded]
      /\ total' = [total EXCEPT ![w] = NoTotals]
      /\ UNCHANGED <<groupVars, today, subscription, bills>>
  BY DEF Crash
<1>2. GroupShape' /\ BillShape'
  <2>1. today' \in Nat BY <1>1 DEF Shape, GroupShape
  <2> QED BY <1>1, <2>1, GroupsRest DEF Shape, BillShape, groupVars
<1>3. JobShape'
  <2>1. /\ Nothing \in Partial(Fees, Generating)
        /\ Nothing \in Partial(Pairs, Transaction)
    BY NothingIsEmpty
  <2>2. NotLoaded \in [fees : SUBSET Fees, members : SUBSET Members] BY DEF NotLoaded
  <2>3. NoTotals \in [Sub -> Nat] BY DEF NoTotals
  <2> QED BY <1>1, <2>1, <2>2, <2>3 DEF Shape, JobShape
<1>4. \A k \in Workers :
        /\ picked'[k] = IF k = w THEN {} ELSE picked[k]
        /\ billing'[k] = IF k = w THEN Nothing ELSE billing[k]
        /\ generating'[k] = IF k = w THEN Nothing ELSE generating[k]
  BY <1>1 DEF Shape, JobShape
<1>5. PairsNamed' BY <1>1, <1>4, NothingIsEmpty DEF Shape, PairsNamed
<1>6. \A k \in Workers : Holders(k)' \subseteq Holders(k)
  BY <1>4, NothingIsEmpty DEF Holders
<1>7. PoolKept' BY <1>6, PoolRest DEF Shape
<1> QED BY <1>2, <1>3, <1>5, <1>7 DEF Shape

(* A settlement reads a total, or saves one it had read.                   *)
LEMMA TotalsShape ==
  ASSUME Shape, BillingAssumption, NEW d \in Desk,
         SaveTotals(d) \/ \E s \in Sub : ReadTotals(d, s)
  PROVE  Shape' /\ TotalSaved
<1>1. UNCHANGED <<fee, row, member, conflicts, today, jobVars, bills, failed>>
  BY DEF SaveTotals, ReadTotals, billVars
<1>2. PICK v \in DeskState : desk' = [desk EXCEPT ![d] = v]
  <2>1. CASE SaveTotals(d) BY <2>1, IdleIsHeld DEF SaveTotals
  <2>2. CASE \E s \in Sub : ReadTotals(d, s)
    <3>1. PICK s \in Sub : ReadTotals(d, s) BY <2>2
    <3>2. s \in DOMAIN subscription BY <3>1 DEF ReadTotals
    <3>3. subscription[s] \in Subscription BY <3>2, Places DEF Shape, BillShape
    <3>4. PICK n \in Nat : n = subscription[s].payable BY <3>3 DEF Subscription
    <3>5. [op |-> "settle", on |-> s, read |-> n] \in DeskState BY DEF DeskState
    <3> QED BY <3>1, <3>4, <3>5 DEF ReadTotals
  <2> QED BY <2>1, <2>2
<1>3. desk' \in [Desk -> DeskState] BY <1>2, DeskSet DEF Shape
<1>4. GroupShape' BY <1>1, <1>3 DEF Shape, GroupShape
<1>5. TotalSaved
  <2>1. CASE SaveTotals(d)
    <3>1. PICK n \in Nat : n = desk[d].read
      BY <2>1, DeskHolds DEF Shape, SaveTotals
    <3>2. PICK s : s = desk[d].on OBVIOUS
    <3>3. subscription' = [subscription EXCEPT ![s].payable = n]
      BY <2>1, <3>1, <3>2 DEF SaveTotals
    <3> QED BY <3>3, SavingATotal DEF Shape
  <2>2. CASE \E s \in Sub : ReadTotals(d, s)
    <3>1. subscription' = subscription BY <2>2 DEF ReadTotals, billVars
    <3> QED BY <3>1, TotalKept DEF Shape
  <2> QED BY <2>1, <2>2
<1>6. BillShape' BY <1>1, <1>5 DEF Shape, BillShape, TotalSaved
<1>7. JobShape' /\ PairsNamed' /\ PoolKept'
  BY <1>1, <1>5, JobsRest DEF Shape, TotalSaved, jobVars
<1> QED BY <1>4, <1>5, <1>6, <1>7 DEF Shape

(* Every step keeps the shape of the state.                                *)
LEMMA NextShape == Shape /\ [BillingNext]_vars => Shape'
<1> SUFFICES ASSUME Shape, [BillingNext]_vars PROVE Shape' OBVIOUS
<1> USE BillingAssumption, FeeGroupsAssumption
<1>1. CASE Executive
  <2>1. GroupShape' BY <1>1, ExecutiveShape DEF Shape
  <2>2. UNCHANGED <<generating, picked, billing, loaded, total, subscription, bills>>
    BY <1>1 DEF Executive, jobVars, billVars
  <2>3. BillShape' BY <2>2 DEF Shape, BillShape
  <2>4. JobShape' /\ PairsNamed' /\ PoolKept' BY <2>2, JobsRest DEF Shape
  <2> QED BY <2>1, <2>3, <2>4 DEF Shape
<1>2. CASE \E d \in Desk : SaveTotals(d) \/ \E s \in Sub : ReadTotals(d, s)
  BY <1>2, TotalsShape
<1>3. CASE \E w \in Workers, type \in ServiceType : TakeSubscriptionJob(w, type)
  BY <1>3, TakeSubscriptionShape
<1>4. CASE \E w \in Workers, f \in Fees : SubscriptionStep(w, f)
  BY <1>4, SubscriptionStepShape
<1>5. CASE \E w \in Workers : TakeBillJob(w)
  BY <1>5, TakeBillShape
<1>6. CASE \E w \in Workers : LoadPairs(w)
  BY <1>6, LoadShape
<1>7. CASE \E w \in Workers : \E p \in DOMAIN billing[w] : BillingStep(w, p)
  BY <1>7, BillingStepShape
<1>8. CASE \E w \in Workers : Crash(w)
  BY <1>8, CrashShape
<1>9. CASE Rest /\ (today' = today \/ NextDay)
  <2>1. UNCHANGED <<fee, row, member, desk, generating, picked, billing, loaded, total,
                    subscription, bills>>
    BY <1>9 DEF Rest
  <2>2. today' \in Nat BY <1>9 DEF NextDay, Shape, GroupShape
  <2>3. GroupShape' BY <2>1, <2>2, GroupsRest DEF Shape
  <2>4. BillShape' BY <2>1 DEF Shape, BillShape
  <2>5. JobShape' /\ PairsNamed' /\ PoolKept' BY <2>1, JobsRest DEF Shape
  <2> QED BY <2>3, <2>4, <2>5 DEF Shape
<1> QED BY <1>1, <1>2, <1>3, <1>4, <1>5, <1>6, <1>7, <1>8, <1>9, Steps

(* Fees, groups, members, subscriptions, bills and what jobs and handlers  *)
(* hold always have the shape above.                                       *)
THEOREM ShapeHolds == BillingSpec => []Shape
BY InitShape, NextShape, PTL DEF BillingSpec

(* Hence the values are what BillingTypeOK says, and no worker has more    *)
(* transactions under way than its pool has connections.                   *)
THEOREM TypeCorrect == BillingSpec => []BillingTypeOK
<1>1. ASSUME Shape PROVE BillingTypeOK
  <2>1. ASSUME NEW w \in Workers
        PROVE  /\ DOMAIN generating[w] \subseteq Fees
               /\ picked[w] \subseteq Pairs
               /\ DOMAIN billing[w] \subseteq Pairs
               /\ \A p \in DOMAIN billing[w] :
                    billing[w][p] \in [at : {"queued", "begun", "inserted", "saving"},
                                       payable : Nat]
               /\ Cardinality(Holders(w)) <= PoolSize
    BY <1>1, JobsHold DEF Shape, PoolKept, Transaction
  <2> QED BY <1>1, <2>1 DEF BillingTypeOK, Shape, GroupShape, BillShape, JobShape,
             FeeRow, RowStatus, Subscription
<1> QED BY <1>1, ShapeHolds, PTL

-----------------------------------------------------------------------------
(* What executives do, one by one.                                         *)

Edits == {"add", "remove"}

(* What executives do, and what it records.                                *)
LEMMA ExecutiveSteps ==
  ASSUME Shape, Executive
  PROVE  /\ UNCHANGED <<today, generating, picked, billing, loaded, total,
                        subscription, bills, failed>>
         /\ \/ \E d \in Desk : DeskStep(d) /\ conflicts' = conflicts
            \/ \E f \in Fees, q \in ServiceFeeRequest, due \in Nat :
                 CreateService(f, q, due) /\ conflicts' = conflicts
            \/ \E d \in Desk, f \in Fees, M \in SUBSET Members :
                 /\ AddMember(d, f, M) \/ RemoveMember(d, f, M)
                 /\ conflicts' = conflicts \cup
                      {"group" : e \in {e \in Desk : desk[e].op \in Edits}}
            \/ \E d \in Desk, f \in Fees :
                 /\ DeActivateFee(d, f)
                 /\ conflicts' = conflicts \cup
                      {"removed fee" : w \in {w \in Workers : generating[w] # Nothing}}
            \/ \E m \in Members :
                 /\ LeaveAssociation(m)
                 /\ conflicts' = conflicts \cup
                      {"left" : w \in {w \in Workers : picked[w] # {}}}
<1>0. UNCHANGED <<today, generating, picked, billing, loaded, total,
                  subscription, bills, failed>>
  BY DEF Executive, jobVars, billVars
<1>1. CASE \E d \in Desk : DeskStep(d) /\ UNCHANGED conflicts
  BY <1>0, <1>1
<1>2. CASE \E f \in Fees, q \in ServiceFeeRequest :
          /\ CreateService(f, q, FirstDue(q.type, today + q.notice))
          /\ UNCHANGED conflicts
  <2>1. PICK f \in Fees, q \in ServiceFeeRequest :
          /\ CreateService(f, q, FirstDue(q.type, today + q.notice))
          /\ UNCHANGED conflicts
    BY <1>2
  <2>2. q.notice \in Nat /\ today \in Nat /\ Cycle \in Nat
    BY FeeGroupsAssumption, BillingAssumption
    DEF ServiceFeeRequest, FeeGroupsAssumption, BillingAssumption, Shape, GroupShape
  <2>3. FirstDue(q.type, today + q.notice) \in Nat BY <2>2 DEF FirstDue
  <2> QED BY <1>0, <2>1, <2>3
<1>3. CASE \E d \in Desk, f \in Fees :
             /\ \E M \in Requests : AddMember(d, f, M) \/ RemoveMember(d, f, M)
             /\ conflicts' = conflicts \cup
                  {"group" : e \in {e \in Desk : desk[e].op \in {"add", "remove"}}}
  <2>1. PICK d \in Desk, f \in Fees :
             /\ \E M \in Requests : AddMember(d, f, M) \/ RemoveMember(d, f, M)
             /\ conflicts' = conflicts \cup
                  {"group" : e \in {e \in Desk : desk[e].op \in {"add", "remove"}}}
    BY <1>3
  <2>2. PICK M \in Requests : AddMember(d, f, M) \/ RemoveMember(d, f, M) BY <2>1
  <2>3. M \in SUBSET Members BY FeeGroupsAssumption DEF FeeGroupsAssumption
  <2> QED BY <1>0, <2>1, <2>2, <2>3 DEF Edits
<1>4. CASE \E d \in Desk, f \in Fees :
             /\ DeActivateFee(d, f)
             /\ conflicts' = conflicts \cup
                  {"removed fee" : w \in {w \in Workers : generating[w] # Nothing}}
  BY <1>0, <1>4
<1>5. CASE \E m \in Members :
             /\ LeaveAssociation(m)
             /\ conflicts' = conflicts \cup
                  {"left" : w \in {w \in Workers : picked[w] # {}}}
  BY <1>0, <1>5
<1> QED BY <1>1, <1>2, <1>3, <1>4, <1>5 DEF Executive

(* Overlaps stay recorded.                                                 *)
LEMMA ConflictsGrow ==
  ASSUME Shape, [BillingNext]_vars
  PROVE  conflicts \subseteq conflicts'
<1>1. CASE Executive BY <1>1, ExecutiveSteps
<1>2. CASE \E w \in Workers, f \in Fees : SubscriptionStep(w, f)
  BY <1>2, SubscriptionProceeds DEF SubscriptionStep, Shape
<1>3. CASE \E w \in Workers : LoadPairs(w)
  BY <1>3 DEF LoadPairs, groupVars
<1>4. CASE \E w \in Workers : \E p \in DOMAIN billing[w] : BillingStep(w, p)
  BY <1>4, BillingProceeds, BillingAssumption DEF Shape, groupVars
<1> QED BY <1>1, <1>2, <1>3, <1>4, Steps
    DEF SaveTotals, ReadTotals, TakeSubscriptionJob, TakeBillJob, Crash, groupVars, Rest

-----------------------------------------------------------------------------
(* One subscription for a fee.                                             *)

(* As long as no two jobs of the subscription queue overlapped, one worker *)
(* generates at most, the fees it still has are without a subscription, and *)
(* those that have one have one.                                           *)
Subscribing ==
  "subscription jobs" \notin conflicts =>
    /\ \A w, k \in Workers : generating[w] # Nothing /\ generating[k] # Nothing => w = k
    /\ \A w \in Workers : \A f \in DOMAIN generating[w] :
         \A s \in DOMAIN subscription : subscription[s].fee # f
    /\ \A s, t \in DOMAIN subscription :
         subscription[s].fee = subscription[t].fee => s = t

(* Steps that open no subscription and take no job of that queue.          *)
LEMMA SubscribingRest ==
  ASSUME Shape, Shape', Subscribing, TotalSaved, conflicts \subseteq conflicts',
         \A k \in Workers : DOMAIN generating'[k] \subseteq DOMAIN generating[k]
  PROVE  Subscribing'
<1>1. \A k \in Workers : /\ generating[k] \in Partial(Fees, Generating)
                         /\ generating'[k] \in Partial(Fees, Generating)
  BY DEF Shape, JobShape
<1>2. \A k \in Workers : generating'[k] # Nothing => generating[k] # Nothing
  BY <1>1, NothingIsEmpty
<1> QED BY <1>2 DEF Subscribing, TotalSaved

(* Every step keeps fees to one subscription.                              *)
LEMMA NextSubscribing ==
  ASSUME Shape, Shape', Subscribing, [BillingNext]_vars
  PROVE  Subscribing'
<1>0. conflicts \subseteq conflicts' BY ConflictsGrow
<1>1. ASSUME NEW w \in Workers, NEW type \in ServiceType, TakeSubscriptionJob(w, type)
      PROVE  Subscribing'
  <2> SUFFICES ASSUME "subscription jobs" \notin conflicts'
               PROVE  /\ \A j, k \in Workers :
                           generating'[j] # Nothing /\ generating'[k] # Nothing => j = k
                      /\ \A k \in Workers : \A f \in DOMAIN generating'[k] :
                           \A s \in DOMAIN subscription' : subscription'[s].fee # f
                      /\ \A s, t \in DOMAIN subscription' :
                           subscription'[s].fee = subscription'[t].fee => s = t
    BY DEF Subscribing
  <2>1. subscription' = subscription BY <1>1 DEF TakeSubscriptionJob, billVars
  <2>2. \A k \in Workers : generating[k] = Nothing
    BY <1>1 DEF TakeSubscriptionJob
  <2>3. \A k \in Workers \ {w} : generating'[k] = Nothing
    BY <1>1, <2>2 DEF TakeSubscriptionJob, Shape, JobShape
  <2>4. DOMAIN generating'[w] = DueToday(type)
    BY <1>1 DEF TakeSubscriptionJob, Shape, JobShape
  <2>5. \A f \in DueToday(type) : \A s \in DOMAIN subscription : subscription[s].fee # f
    BY DEF DueToday
  <2>6. \A s, t \in DOMAIN subscription : subscription[s].fee = subscription[t].fee => s = t
    BY <1>0 DEF Subscribing
  <2>7. ASSUME NEW k \in Workers, NEW f \in DOMAIN generating'[k]
        PROVE  \A s \in DOMAIN subscription : subscription[s].fee # f
    <3>1. k = w BY <2>3, NothingIsEmpty
    <3> QED BY <2>4, <2>5, <3>1
  <2> QED BY <2>1, <2>3, <2>6, <2>7
<1>2. ASSUME NEW w \in Workers, NEW f \in Fees, SubscriptionStep(w, f)
      PROVE  Subscribing'
  <2>1. /\ f \in DOMAIN generating[w]
        /\ UNCHANGED <<row, member, desk, conflicts, today, picked, billing, loaded,
                       total, bills, failed>>
    BY <1>2, SubscriptionProceeds DEF Shape, SubscriptionStep
  <2>2. PICK G \in Partial(Fees, Generating) :
              /\ Proceeds(w, G)
              /\ ~BeginSubscription(w, f) => f \notin DOMAIN G
    BY <1>2, SubscriptionProceeds DEF Shape, SubscriptionStep
  <2>3. \A k \in Workers : generating'[k] = IF k = w THEN G ELSE generating[k]
    BY <2>2 DEF Proceeds, Shape, JobShape
  <2>4. \A k \in Workers : DOMAIN generating'[k] \subseteq DOMAIN generating[k]
    BY <2>2, <2>3 DEF Proceeds
  <2>5. CASE ~CreateSubscription(w, f)
    <3>1. subscription' = subscription
      BY <1>2, <2>5 DEF SubscriptionStep, BeginSubscription, FailSubscription, billVars
    <3> QED BY <1>0, <2>4, <3>1, SubscribingRest, TotalKept DEF Shape
  <2>6. CASE CreateSubscription(w, f)
    <3>1. /\ Len(subscription) < MaxSubscriptions
          /\ subscription' = Append(subscription, [fee |-> f, payable |-> 0])
          /\ generating' = [generating EXCEPT ![w] = Without(@, f)]
      BY <2>6 DEF CreateSubscription
    <3>2. PICK new : new = Len(subscription) + 1 OBVIOUS
    <3>3. /\ DOMAIN subscription' = DOMAIN subscription \cup {new}
          /\ \A s \in DOMAIN subscription : subscription'[s] = subscription[s]
          /\ new \notin DOMAIN subscription
          /\ subscription'[new].fee = f
      BY <3>1, <3>2, SubscriptionIsAppended DEF Shape
    <3>4. DOMAIN generating'[w] = (DOMAIN generating[w]) \ {f}
      BY <3>1 DEF Without, Shape, JobShape
    <3> SUFFICES ASSUME "subscription jobs" \notin conflicts'
                 PROVE  /\ \A j, k \in Workers :
                             generating'[j] # Nothing /\ generating'[k] # Nothing => j = k
                        /\ \A k \in Workers : \A g \in DOMAIN generating'[k] :
                             \A s \in DOMAIN subscription' : subscription'[s].fee # g
                        /\ \A s, t \in DOMAIN subscription' :
                             subscription'[s].fee = subscription'[t].fee => s = t
      BY DEF Subscribing
    <3>5. /\ \A j, k \in Workers : generating[j] # Nothing /\ generating[k] # Nothing => j = k
          /\ \A k \in Workers : \A g \in DOMAIN generating[k] :
               \A s \in DOMAIN subscription : subscription[s].fee # g
          /\ \A s, t \in DOMAIN subscription :
               subscription[s].fee = subscription[t].fee => s = t
      BY <1>0 DEF Subscribing
    <3>6. generating[w] # Nothing BY <2>1, NothingIsEmpty
    <3>7. \A k \in Workers \ {w} : generating[k] = Nothing /\ generating'[k] = Nothing
      BY <2>3, <3>5, <3>6
    <3>8. \A j, k \in Workers : generating'[j] # Nothing /\ generating'[k] # Nothing => j = k
      BY <3>7
    <3>9. ASSUME NEW k \in Workers, NEW g \in DOMAIN generating'[k],
                 NEW s \in DOMAIN subscription'
          PROVE  subscription'[s].fee # g
      <4>1. k = w BY <3>7, NothingIsEmpty
      <4>2. g \in DOMAIN generating[w] /\ g # f BY <3>4, <4>1
      <4> QED BY <3>3, <3>5, <4>2
    <3>10. ASSUME NEW s \in DOMAIN subscription', NEW t \in DOMAIN subscription',
                  subscription'[s].fee = subscription'[t].fee
           PROVE  s = t
      <4>1. \A r \in DOMAIN subscription : subscription[r].fee # f BY <2>1, <3>5
      <4> QED BY <3>3, <3>5, <3>10, <4>1
    <3> QED BY <3>8, <3>9, <3>10
  <2> QED BY <2>5, <2>6
<1>3. CASE Executive
  <2>1. generating' = generating /\ subscription' = subscription
    BY <1>3, ExecutiveSteps
  <2> QED BY <1>0, <2>1, SubscribingRest, TotalKept DEF Shape
<1>4. CASE \E d \in Desk : SaveTotals(d) \/ \E s \in Sub : ReadTotals(d, s)
  <2>1. generating' = generating
    BY <1>4 DEF SaveTotals, ReadTotals, jobVars
  <2>2. TotalSaved BY <1>4, TotalsShape, BillingAssumption
  <2> QED BY <1>0, <2>1, <2>2, SubscribingRest
<1>5. CASE (\E w \in Workers : TakeBillJob(w) \/ LoadPairs(w)) \/ Rest
  <2>1. generating' = generating /\ subscription' = subscription
    BY <1>5 DEF TakeBillJob, LoadPairs, billVars, Rest
  <2> QED BY <1>0, <2>1, SubscribingRest, TotalKept DEF Shape
<1>6. CASE \E w \in Workers : \E p \in DOMAIN billing[w] : BillingStep(w, p)
  <2>1. generating' = generating /\ TotalSaved
    BY <1>6, BillingProceeds, BillingAssumption DEF Shape
  <2> QED BY <1>0, <2>1, SubscribingRest
<1>7. CASE \E w \in Workers : Crash(w)
  <2>1. PICK w \in Workers : Crash(w) BY <1>7
  <2>2. \A k \in Workers : generating'[k] = IF k = w THEN Nothing ELSE generating[k]
    BY <2>1 DEF Crash, Shape, JobShape
  <2>3. \A k \in Workers : DOMAIN generating'[k] \subseteq DOMAIN generating[k]
    BY <2>2, NothingIsEmpty
  <2>4. subscription' = subscription BY <2>1 DEF Crash
  <2> QED BY <1>0, <2>3, <2>4, SubscribingRest, TotalKept DEF Shape
<1> QED BY <1>1, <1>2, <1>3, <1>4, <1>5, <1>6, <1>7, Steps

(* Subscribing holds from the first step on.                               *)
LEMMA SubscribingHolds == BillingSpec => []Subscribing
<1>1. BillingInit => Subscribing
  <2>1. DOMAIN << >> = {} OBVIOUS
  <2>2. ASSUME BillingInit
        PROVE  subscription = << >> /\ \A w \in Workers : generating[w] = Nothing
    BY <2>2 DEF BillingInit
  <2> QED BY <2>1, <2>2, NothingIsEmpty DEF Subscribing
<1> QED BY <1>1, NextSubscribing, ShapeHolds, PTL DEF BillingSpec

(* A fee gets one subscription, a recurring one too, unless two jobs of    *)
(* the subscription queue overlap: whatever transactions fail, workers die *)
(* and jobs run again.                                                     *)
THEOREM FeesAreSubscribedOnce == BillingSpec => []OneSubscriptionPerFee
<1>1. Subscribing => OneSubscriptionPerFee
  BY DEF Subscribing, OneSubscriptionPerFee
<1> QED BY <1>1, SubscribingHolds, PTL

-----------------------------------------------------------------------------
(* What handlers and jobs know of the fees they are at.                    *)

(* A handler that is at a fee has found it, and the rows that subscription *)
(* jobs have read are of active fees.                                      *)
FeesKnown ==
  /\ \A d \in Desk : desk[d].op \in {"add", "remove", "removeFee"} =>
       fee[desk[d].on].status # "absent"
  /\ \A w \in Workers : \A f \in DOMAIN generating[w] :
       generating[w][f].row.status = "ACTIVE"

(* Steps that neither create fees nor read them.                           *)
LEMMA FeesKnownRest ==
  ASSUME Shape, FeesKnown,
         \A d \in Desk : desk'[d] = desk[d]
                           \/ desk'[d].op \notin {"add", "remove", "removeFee"},
         \A f \in Fees : fee[f].status # "absent" => fee'[f].status # "absent",
         \A k \in Workers : \A f \in DOMAIN generating'[k] :
           f \in DOMAIN generating[k] /\ generating'[k][f].row = generating[k][f].row
  PROVE  FeesKnown'
<1>1. ASSUME NEW d \in Desk, desk'[d].op \in {"add", "remove", "removeFee"}
      PROVE  fee'[desk'[d].on].status # "absent"
  <2>1. desk'[d] = desk[d] BY <1>1
  <2>2. desk[d].on \in Fees BY <1>1, <2>1, DeskHolds DEF Shape
  <2> QED BY <1>1, <2>1, <2>2 DEF FeesKnown
<1>2. ASSUME NEW k \in Workers, NEW f \in DOMAIN generating'[k]
      PROVE  generating'[k][f].row.status = "ACTIVE"
  BY DEF FeesKnown
<1> QED BY <1>1, <1>2 DEF FeesKnown

(* One fee at most is saved by a job, as active as it was read.            *)
LEMMA SavedFees ==
  ASSUME Shape, FeesKnown, NEW w \in Workers, NEW f \in Fees, SubscriptionStep(w, f)
  PROVE  /\ \A g \in Fees \ {f} : fee'[g] = fee[g]
         /\ fee'[f].status = fee[f].status \/ fee'[f].status = "ACTIVE"
<1>1. fee \in [Fees -> FeeRow] BY DEF Shape, GroupShape
<1>2. CASE CreateSubscription(w, f)
  <2>1. PICK r \in FeeRow : r = generating[w][f].row
    BY <1>2, JobsHold DEF Shape, CreateSubscription, Generating
  <2>2. r.status = "ACTIVE" BY <1>2, <2>1 DEF FeesKnown, CreateSubscription
  <2>3. PICK new : new = [r EXCEPT !.due = @ + Cycle] OBVIOUS
  <2>4. new.status = "ACTIVE" BY <2>2, <2>3 DEF FeeRow
  <2>5. fee' = fee \/ fee' = [fee EXCEPT ![f] = new]
    BY <1>2, <2>1, <2>3 DEF CreateSubscription, SavedFee
  <2> QED BY <1>1, <2>4, <2>5
<1>3. CASE ~CreateSubscription(w, f)
  BY <1>3 DEF SubscriptionStep, BeginSubscription, FailSubscription, groupVars
<1> QED BY <1>2, <1>3

(* The handlers that save.                                                 *)
LEMMA DeskStepFees ==
  ASSUME Shape, NEW d \in Desk, DeskStep(d)
  PROVE  /\ desk' = [desk EXCEPT ![d] = Idle]
         /\ desk[d].op \in {"add", "remove", "removeFee"}
         /\ \/ fee' = fee
            \/ /\ desk[d].op = "removeFee"
               /\ desk[d].on \in Fees
               /\ \A f \in Fees \ {desk[d].on} : fee'[f] = fee[f]
               /\ fee'[desk[d].on].status = "IN_ACTIVE"
<1>1. CASE RemoveServiceFee(d)
  <2>1. PICK f \in Fees : f = desk[d].on
    BY <1>1, DeskHolds DEF Shape, RemoveServiceFee
  <2>2. PICK r \in FeeRow : r = desk[d].read
    BY <1>1, DeskHolds DEF Shape, RemoveServiceFee
  <2>3. PICK new : new = [r EXCEPT !.status = "IN_ACTIVE"] OBVIOUS
  <2>4. new.status = "IN_ACTIVE" BY <2>3 DEF FeeRow
  <2>5. fee' = [fee EXCEPT ![f] = new]
    BY <1>1, <2>1, <2>2, <2>3 DEF RemoveServiceFee
  <2>6. \A g \in Fees : fee'[g] = IF g = f THEN new ELSE fee[g]
    BY <2>5 DEF Shape, GroupShape
  <2> QED BY <1>1, <2>1, <2>4, <2>6 DEF RemoveServiceFee
<1> QED BY <1>1 DEF DeskStep, InsertMembers, SaveRemoved, FailDesk

(* A new fee was not there, and is active.                                 *)
LEMMA NewFee ==
  ASSUME Shape, NEW f \in Fees, NEW q \in ServiceFeeRequest, NEW due \in Nat,
         CreateService(f, q, due)
  PROVE  /\ fee[f].status = "absent" /\ fee'[f].status = "ACTIVE"
         /\ \A g \in Fees \ {f} : fee'[g] = fee[g]
         /\ row' = LinkedGroup(f, q.recipients)
         /\ UNCHANGED <<member, desk>>
<1>1. PICK new : new = [status |-> "ACTIVE", type |-> q.type, due |-> due] OBVIOUS
<1>2. fee' = [fee EXCEPT ![f] = new] BY <1>1 DEF CreateService
<1>3. \A g \in Fees : fee'[g] = IF g = f THEN new ELSE fee[g]
  BY <1>2 DEF Shape, GroupShape
<1>4. fee[f].status = "absent" BY DEF CreateService, NoFee
<1> QED BY <1>1, <1>3, <1>4 DEF CreateService

(* A handler that reads a fee has found it.                                *)
LEMMA Reading ==
  ASSUME Shape, NEW d \in Desk, NEW f \in Fees, NEW M \in SUBSET Members,
         AddMember(d, f, M) \/ RemoveMember(d, f, M) \/ DeActivateFee(d, f)
  PROVE  /\ UNCHANGED <<fee, row, member>>
         /\ desk[d] = Idle
         /\ fee[f].status = "ACTIVE"
         /\ desk'[d].on = f
         /\ \A e \in Desk \ {d} : desk'[e] = desk[e]
         /\ AddMember(d, f, M) => desk'[d].op = "add"
         /\ RemoveMember(d, f, M) => desk'[d].op = "remove"
         /\ DeActivateFee(d, f) => desk'[d].op = "removeFee"
<1>1. /\ UNCHANGED <<fee, row, member>>
      /\ desk[d] = Idle
      /\ FindByCode(f) # {}
  BY DEF AddMember, RemoveMember, DeActivateFee, FeeAndGroupFound
<1>2. fee[f].status = "ACTIVE" BY <1>1 DEF FindByCode
<1>3. \E v : /\ desk' = [desk EXCEPT ![d] = v]
             /\ v.on = f
             /\ AddMember(d, f, M) => v.op = "add"
             /\ RemoveMember(d, f, M) => v.op = "remove"
             /\ DeActivateFee(d, f) => v.op = "removeFee"
  <2>1. CASE AddMember(d, f, M)
    <3>1. PICK v : v = [op |-> "add", on |-> f,
                 read |-> {m \in Found(M) : \A p \in ActiveRows(f) : p[1] # m}]
      OBVIOUS
    <3>2. desk' = [desk EXCEPT ![d] = v] BY <2>1, <3>1 DEF AddMember
    <3>3. v.on = f /\ v.op = "add" BY <3>1
    <3>4. desk'[d] = v BY <3>2 DEF Shape, GroupShape
    <3>5. ~RemoveMember(d, f, M) /\ ~DeActivateFee(d, f)
      <4>1. desk'[d].op = "add" BY <3>3, <3>4
      <4> QED BY <4>1 DEF RemoveMember, DeActivateFee, Shape, GroupShape
    <3> QED BY <3>2, <3>3, <3>5
  <2>2. CASE RemoveMember(d, f, M) /\ ~AddMember(d, f, M)
    <3>1. PICK v : v = [op |-> "remove", on |-> f,
                        read |-> {p \in ActiveRows(f) : p[1] \in Found(M)}]
      OBVIOUS
    <3>2. desk' = [desk EXCEPT ![d] = v] BY <2>2, <3>1 DEF RemoveMember
    <3>3. v.on = f /\ v.op = "remove" BY <3>1
    <3>4. desk'[d] = v BY <3>2 DEF Shape, GroupShape
    <3>5. ~DeActivateFee(d, f)
      <4>1. desk'[d].op = "remove" BY <3>3, <3>4
      <4> QED BY <4>1 DEF DeActivateFee, Shape, GroupShape
    <3> QED BY <2>2, <3>2, <3>3, <3>5
  <2>3. CASE DeActivateFee(d, f) /\ ~AddMember(d, f, M) /\ ~RemoveMember(d, f, M)
    <3>1. PICK v : v = [op |-> "removeFee", on |-> f, read |-> fee[f]]
      OBVIOUS
    <3>2. desk' = [desk EXCEPT ![d] = v] BY <2>3, <3>1 DEF DeActivateFee
    <3>3. v.on = f /\ v.op = "removeFee" BY <3>1
    <3> QED BY <2>3, <3>2, <3>3
  <2> QED BY <2>1, <2>2, <2>3
<1>4. PICK v : /\ desk' = [desk EXCEPT ![d] = v]
               /\ v.on = f
               /\ AddMember(d, f, M) => v.op = "add"
               /\ RemoveMember(d, f, M) => v.op = "remove"
               /\ DeActivateFee(d, f) => v.op = "removeFee"
  BY <1>3
<1>5. \A e \in Desk : desk'[e] = IF e = d THEN v ELSE desk[e]
  BY <1>4 DEF Shape, GroupShape
<1> QED BY <1>1, <1>2, <1>4, <1>5

(* Every step keeps what is read of fees to fees that exist.               *)
LEMMA NextFeesKnown ==
  ASSUME Shape, FeesKnown, [BillingNext]_vars
  PROVE  FeesKnown'
<1>1. CASE Executive
  <2>0. generating' = generating BY <1>1, ExecutiveSteps
  <2>1. CASE \E d \in Desk : DeskStep(d)
    <3>1. PICK d \in Desk : DeskStep(d) BY <2>1
    <3>2. \A e \in Desk : desk'[e] = IF e = d THEN Idle ELSE desk[e]
      BY <3>1, DeskStepFees DEF Shape, GroupShape
    <3>3. \A f \in Fees : fee[f].status # "absent" => fee'[f].status # "absent"
      BY <3>1, DeskStepFees
    <3> QED BY <2>0, <3>2, <3>3, FeesKnownRest DEF Idle
  <2>2. CASE \E f \in Fees, q \in ServiceFeeRequest, due \in Nat : CreateService(f, q, due)
    <3>1. PICK f \in Fees, q \in ServiceFeeRequest, due \in Nat : CreateService(f, q, due)
      BY <2>2
    <3>2. \A g \in Fees : fee[g].status # "absent" => fee'[g].status # "absent"
      BY <3>1, NewFee
    <3>3. desk' = desk BY <3>1, NewFee
    <3> QED BY <2>0, <3>2, <3>3, FeesKnownRest
  <2>3. CASE \E d \in Desk, f \in Fees, M \in SUBSET Members :
               AddMember(d, f, M) \/ RemoveMember(d, f, M) \/ DeActivateFee(d, f)
    <3>1. PICK d \in Desk, f \in Fees, M \in SUBSET Members :
               AddMember(d, f, M) \/ RemoveMember(d, f, M) \/ DeActivateFee(d, f)
      BY <2>3
    <3>2. /\ fee' = fee /\ fee[f].status = "ACTIVE" /\ desk'[d].on = f
          /\ \A e \in Desk \ {d} : desk'[e] = desk[e]
      BY <3>1, Reading
    <3> QED BY <2>0, <3>2 DEF FeesKnown
  <2>4. CASE \E m \in Members : LeaveAssociation(m)
    <3>1. fee' = fee /\ desk' = desk BY <2>4 DEF LeaveAssociation
    <3> QED BY <2>0, <3>1 DEF FeesKnown
  <2> QED BY <1>1, <2>1, <2>2, <2>3, <2>4, ExecutiveSteps
<1>2. CASE \E d \in Desk : SaveTotals(d) \/ \E s \in Sub : ReadTotals(d, s)
  <2>1. PICK d \in Desk : SaveTotals(d) \/ \E s \in Sub : ReadTotals(d, s) BY <1>2
  <2>2. fee' = fee /\ generating' = generating
    BY <2>1 DEF SaveTotals, ReadTotals, jobVars
  <2>3. \A e \in Desk : e # d => desk'[e] = desk[e]
    BY <2>1 DEF SaveTotals, ReadTotals, Shape, GroupShape
  <2>4. desk'[d].op \in {"idle", "settle"}
    BY <2>1 DEF SaveTotals, ReadTotals, Shape, GroupShape, Idle
  <2> QED BY <2>2, <2>3, <2>4 DEF FeesKnown
<1>3. CASE \E w \in Workers, type \in ServiceType : TakeSubscriptionJob(w, type)
  <2>1. PICK w \in Workers, type \in ServiceType : TakeSubscriptionJob(w, type) BY <1>3
  <2>2. fee' = fee /\ desk' = desk BY <2>1 DEF TakeSubscriptionJob
  <2>3. PICK G : /\ generating' = [generating EXCEPT ![w] = G]
                 /\ \A f \in DOMAIN G : G[f].row.status = "ACTIVE"
    <3> DEFINE G == [f \in DueToday(type) |-> [at |-> "queued", row |-> fee[f]]]
    <3>1. \A f \in DueToday(type) : fee[f].status = "ACTIVE" BY DEF DueToday
    <3>2. \A f \in DOMAIN G : G[f].row.status = "ACTIVE" BY <3>1
    <3>3. generating' = [generating EXCEPT ![w] = G] BY <2>1 DEF TakeSubscriptionJob
    <3> QED BY <3>2, <3>3
  <2>4. \A k \in Workers : generating'[k] = IF k = w THEN G ELSE generating[k]
    BY <2>3 DEF Shape, JobShape
  <2> QED BY <2>2, <2>3, <2>4 DEF FeesKnown
<1>4. CASE \E w \in Workers, f \in Fees : SubscriptionStep(w, f)
  <2>1. PICK w \in Workers, f \in Fees : SubscriptionStep(w, f) BY <1>4
  <2>2. PICK G \in Partial(Fees, Generating) : Proceeds(w, G)
    BY <2>1, SubscriptionProceeds DEF Shape, SubscriptionStep
  <2>3. \A k \in Workers : \A g \in DOMAIN generating'[k] :
          g \in DOMAIN generating[k] /\ generating'[k][g].row = generating[k][g].row
    <3>1. \A k \in Workers : generating'[k] = IF k = w THEN G ELSE generating[k]
      BY <2>2 DEF Proceeds, Shape, JobShape
    <3> QED BY <2>2, <3>1 DEF Proceeds
  <2>4. \A g \in Fees : fee[g].status # "absent" => fee'[g].status # "absent"
    BY <2>1, SavedFees
  <2>5. desk' = desk
    BY <2>1, SubscriptionProceeds DEF Shape, SubscriptionStep
  <2> QED BY <2>3, <2>4, <2>5, FeesKnownRest
<1>5. CASE (\E w \in Workers : TakeBillJob(w) \/ LoadPairs(w)) \/ Rest
  BY <1>5 DEF TakeBillJob, LoadPairs, groupVars, Rest, FeesKnown
<1>6. CASE \E w \in Workers : \E p \in DOMAIN billing[w] : BillingStep(w, p)
  <2>1. UNCHANGED <<groupVars, generating>>
    BY <1>6, BillingProceeds, BillingAssumption DEF Shape
  <2> QED BY <2>1 DEF FeesKnown, groupVars
<1>7. CASE \E w \in Workers : Crash(w)
  <2>1. PICK w \in Workers : Crash(w) BY <1>7
  <2>2. \A k \in Workers : generating'[k] = IF k = w THEN Nothing ELSE generating[k]
    BY <2>1 DEF Crash, Shape, JobShape
  <2>3. \A k \in Workers : \A g \in DOMAIN generating'[k] :
          g \in DOMAIN generating[k] /\ generating'[k] = generating[k]
    BY <2>2, NothingIsEmpty
  <2>4. fee' = fee /\ desk' = desk BY <2>1 DEF Crash, groupVars
  <2> QED BY <2>3, <2>4 DEF FeesKnown
<1> QED BY <1>1, <1>2, <1>3, <1>4, <1>5, <1>6, <1>7, Steps

-----------------------------------------------------------------------------
(* A removed fee stays removed.                                            *)

(* As long as no removal overlapped a subscription job: while such a job   *)
(* has fees, they are active and nobody is about to remove one.            *)
Removing ==
  "removed fee" \notin conflicts =>
    \A w \in Workers : generating[w] # Nothing =>
      /\ \A d \in Desk : desk[d].op # "removeFee"
      /\ \A f \in DOMAIN generating[w] : fee[f].status = "ACTIVE"

(* Steps that take no job of the subscription queue.                       *)
LEMMA RemovingRest ==
  ASSUME Shape, Shape', Removing, conflicts \subseteq conflicts',
         \A k \in Workers : DOMAIN generating'[k] \subseteq DOMAIN generating[k],
         \A d \in Desk : desk'[d].op = "removeFee" => desk[d].op = "removeFee",
         \A f \in Fees : fee[f].status = "ACTIVE" => fee'[f].status = "ACTIVE"
  PROVE  Removing'
<1>1. ASSUME NEW k \in Workers, generating'[k] # Nothing
      PROVE  generating[k] # Nothing
  <2>1. /\ generating[k] \in Partial(Fees, Generating)
        /\ generating'[k] \in Partial(Fees, Generating)
    BY DEF Shape, JobShape
  <2> QED BY <1>1, <2>1, NothingIsEmpty
<1>2. \A k \in Workers : DOMAIN generating[k] \subseteq Fees BY JobsHold DEF Shape
<1> QED BY <1>1, <1>2 DEF Removing

(* Every step keeps removed fees from those that may write them back.      *)
LEMMA NextRemoving ==
  ASSUME Shape, Shape', FeesKnown, Removing, [BillingNext]_vars
  PROVE  Removing'
<1>0. conflicts \subseteq conflicts' BY ConflictsGrow
<1>1. CASE Executive
  <2>0. generating' = generating BY <1>1, ExecutiveSteps
  <2>1. CASE \E d \in Desk : DeskStep(d) /\ conflicts' = conflicts
    <3>1. PICK d \in Desk : DeskStep(d) /\ conflicts' = conflicts BY <2>1
    <3>2. \A e \in Desk : desk'[e].op = "removeFee" => desk[e].op = "removeFee"
      <4>1. \A e \in Desk : desk'[e] = IF e = d THEN Idle ELSE desk[e]
        BY <3>1, DeskStepFees DEF Shape, GroupShape
      <4>2. Idle.op # "removeFee" BY DEF Idle
      <4> QED BY <4>1, <4>2
    <3>3. CASE fee' = fee
      BY <1>0, <2>0, <3>2, <3>3, RemovingRest
    <3>4. CASE fee' # fee
      <4>1. desk[d].op = "removeFee" BY <3>1, <3>4, DeskStepFees
      <4> QED BY <2>0, <3>1, <4>1 DEF Removing
    <3> QED BY <3>3, <3>4
  <2>2. CASE \E f \in Fees, q \in ServiceFeeRequest, due \in Nat : CreateService(f, q, due)
    <3>1. PICK f \in Fees, q \in ServiceFeeRequest, due \in Nat : CreateService(f, q, due)
      BY <2>2
    <3>2. \A g \in Fees : fee[g].status = "ACTIVE" => fee'[g].status = "ACTIVE"
      BY <3>1, NewFee
    <3>3. desk' = desk BY <3>1, NewFee
    <3> QED BY <1>0, <2>0, <3>2, <3>3, RemovingRest
  <2>3. CASE \E d \in Desk, f \in Fees, M \in SUBSET Members :
               AddMember(d, f, M) \/ RemoveMember(d, f, M)
    <3>1. PICK d \in Desk, f \in Fees, M \in SUBSET Members :
               AddMember(d, f, M) \/ RemoveMember(d, f, M)
      BY <2>3
    <3>2. /\ fee' = fee /\ desk'[d].op \in {"add", "remove"}
          /\ \A e \in Desk \ {d} : desk'[e] = desk[e]
      BY <3>1, Reading
    <3> QED BY <1>0, <2>0, <3>2, RemovingRest
  <2>4. CASE \E d \in Desk, f \in Fees :
                 /\ DeActivateFee(d, f)
                 /\ conflicts' = conflicts \cup
                      {"removed fee" : w \in {w \in Workers : generating[w] # Nothing}}
    BY <2>0, <2>4 DEF Removing
  <2>5. CASE \E m \in Members : LeaveAssociation(m)
    <3>1. fee' = fee /\ desk' = desk BY <2>5 DEF LeaveAssociation
    <3> QED BY <1>0, <2>0, <3>1, RemovingRest
  <2> QED BY <1>1, <2>1, <2>2, <2>3, <2>4, <2>5, ExecutiveSteps
<1>2. CASE \E d \in Desk : SaveTotals(d) \/ \E s \in Sub : ReadTotals(d, s)
  <2>1. PICK d \in Desk : SaveTotals(d) \/ \E s \in Sub : ReadTotals(d, s) BY <1>2
  <2>2. fee' = fee /\ generating' = generating
    BY <2>1 DEF SaveTotals, ReadTotals, jobVars
  <2>3. \A e \in Desk : e # d => desk'[e] = desk[e]
    BY <2>1 DEF SaveTotals, ReadTotals, Shape, GroupShape
  <2>4. desk'[d].op \in {"idle", "settle"}
    BY <2>1 DEF SaveTotals, ReadTotals, Shape, GroupShape, Idle
  <2>5. \A e \in Desk : desk'[e].op = "removeFee" => desk[e].op = "removeFee"
    BY <2>3, <2>4
  <2> QED BY <1>0, <2>2, <2>5, RemovingRest
<1>3. CASE \E w \in Workers, type \in ServiceType : TakeSubscriptionJob(w, type)
  <2>1. PICK w \in Workers, type \in ServiceType : TakeSubscriptionJob(w, type) BY <1>3
  <2>2. fee' = fee /\ desk' = desk BY <2>1 DEF TakeSubscriptionJob
  <2>3. "removed fee" \notin conflicts' => \A d \in Desk : desk[d].op # "removeFee"
    BY <2>1 DEF TakeSubscriptionJob
  <2>4. \A k \in Workers \ {w} : generating'[k] = generating[k]
    BY <2>1 DEF TakeSubscriptionJob, Shape, JobShape
  <2>5. DOMAIN generating'[w] = DueToday(type)
    BY <2>1 DEF TakeSubscriptionJob, Shape, JobShape
  <2>6. \A f \in DueToday(type) : fee[f].status = "ACTIVE" BY DEF DueToday
  <2> QED BY <1>0, <2>2, <2>3, <2>4, <2>5, <2>6 DEF Removing
<1>4. CASE \E w \in Workers, f \in Fees : SubscriptionStep(w, f)
  <2>1. PICK w \in Workers, f \in Fees : SubscriptionStep(w, f) BY <1>4
  <2>2. PICK G \in Partial(Fees, Generating) : Proceeds(w, G)
    BY <2>1, SubscriptionProceeds DEF Shape, SubscriptionStep
  <2>3. \A k \in Workers : DOMAIN generating'[k] \subseteq DOMAIN generating[k]
    <3>1. \A k \in Workers : generating'[k] = IF k = w THEN G ELSE generating[k]
      BY <2>2 DEF Proceeds, Shape, JobShape
    <3> QED BY <2>2, <3>1 DEF Proceeds
  <2>4. \A g \in Fees : fee[g].status = "ACTIVE" => fee'[g].status = "ACTIVE"
    BY <2>1, SavedFees
  <2>5. desk' = desk
    BY <2>1, SubscriptionProceeds DEF Shape, SubscriptionStep
  <2> QED BY <1>0, <2>3, <2>4, <2>5, RemovingRest
<1>5. CASE (\E w \in Workers : TakeBillJob(w) \/ LoadPairs(w)) \/ Rest
  <2>1. fee' = fee /\ desk' = desk /\ generating' = generating
    BY <1>5 DEF TakeBillJob, LoadPairs, groupVars, Rest
  <2> QED BY <1>0, <2>1, RemovingRest
<1>6. CASE \E w \in Workers : \E p \in DOMAIN billing[w] : BillingStep(w, p)
  <2>1. UNCHANGED <<groupVars, generating>>
    BY <1>6, BillingProceeds, BillingAssumption DEF Shape
  <2> QED BY <1>0, <2>1, RemovingRest DEF groupVars
<1>7. CASE \E w \in Workers : Crash(w)
  <2>1. PICK w \in Workers : Crash(w) BY <1>7
  <2>2. \A k \in Workers : generating'[k] = IF k = w THEN Nothing ELSE generating[k]
    BY <2>1 DEF Crash, Shape, JobShape
  <2>3. \A k \in Workers : DOMAIN generating'[k] \subseteq DOMAIN generating[k]
    BY <2>2, NothingIsEmpty
  <2>4. fee' = fee /\ desk' = desk BY <2>1 DEF Crash, groupVars
  <2> QED BY <1>0, <2>3, <2>4, RemovingRest
<1> QED BY <1>1, <1>2, <1>3, <1>4, <1>5, <1>6, <1>7, Steps

(* Nobody is at work at first.                                             *)
LEMMA InitKnown == BillingInit => FeesKnown /\ Removing
<1> SUFFICES ASSUME BillingInit PROVE FeesKnown /\ Removing OBVIOUS
<1>1. /\ \A d \in Desk : desk[d] = Idle
      /\ \A w \in Workers : generating[w] = Nothing
  BY DEF BillingInit, GroupsInit
<1>2. FeesKnown BY <1>1, NothingIsEmpty DEF FeesKnown, Idle
<1> QED BY <1>1, <1>2 DEF Removing

(* Only a subscription job that had read a fee before makes it active      *)
(* again after it was removed.                                             *)
THEOREM RemovedFeesStay == BillingSpec => RemovedFeeStaysRemoved
<1> DEFINE Step == \A f \in Fees :
                     /\ fee[f].status = "IN_ACTIVE"
                     /\ "removed fee" \notin conflicts
                     => fee'[f].status = "IN_ACTIVE"
<1>1. Shape /\ Shape' /\ FeesKnown /\ Removing /\ [BillingNext]_vars => Step
  <2> SUFFICES ASSUME Shape, Shape', FeesKnown, Removing, [BillingNext]_vars,
                      NEW f \in Fees, fee[f].status = "IN_ACTIVE",
                      "removed fee" \notin conflicts
               PROVE  fee'[f].status = "IN_ACTIVE"
    OBVIOUS
  <2>1. CASE Executive
    <3>1. CASE \E d \in Desk : DeskStep(d)
      BY <3>1, DeskStepFees
    <3>2. CASE \E g \in Fees, q \in ServiceFeeRequest, due \in Nat : CreateService(g, q, due)
      BY <3>2, NewFee
    <3>3. CASE ~(\E d \in Desk : DeskStep(d)) /\
               ~(\E g \in Fees, q \in ServiceFeeRequest, due \in Nat : CreateService(g, q, due))
      <4>1. fee' = fee
        BY <2>1, <3>3, ExecutiveSteps
        DEF AddMember, RemoveMember, DeActivateFee, LeaveAssociation
      <4> QED BY <4>1
    <3> QED BY <3>1, <3>2, <3>3
  <2>2. CASE \E w \in Workers, g \in Fees : SubscriptionStep(w, g)
    <3>1. PICK w \in Workers, g \in Fees : SubscriptionStep(w, g) BY <2>2
    <3>2. g \in DOMAIN generating[w]
      BY <3>1, SubscriptionProceeds DEF Shape, SubscriptionStep
    <3>3. generating[w] # Nothing BY <3>2, NothingIsEmpty
    <3>4. fee[g].status = "ACTIVE" BY <3>2, <3>3 DEF Removing
    <3>5. f # g BY <3>4
    <3> QED BY <3>1, <3>5, SavedFees
  <2>3. CASE \E w \in Workers : \E p \in DOMAIN billing[w] : BillingStep(w, p)
    BY <2>3, BillingProceeds, BillingAssumption DEF Shape, groupVars
  <2>4. CASE (\E w \in Workers : LoadPairs(w) \/ Crash(w))
    BY <2>4 DEF LoadPairs, Crash, groupVars
  <2> QED BY <2>1, <2>2, <2>3, <2>4, Steps
      DEF SaveTotals, ReadTotals, TakeSubscriptionJob, TakeBillJob, Rest
<1>2. RemovedFeeStaysRemoved <=> [][Step]_vars BY PTL DEF RemovedFeeStaysRemoved
<1>3. BillingSpec => [](FeesKnown /\ Removing)
  BY InitKnown, NextFeesKnown, NextRemoving, ShapeHolds, PTL DEF BillingSpec
<1> HIDE DEF Step
<1> QED BY <1>1, <1>2, <1>3, ShapeHolds, PTL DEF BillingSpec

-----------------------------------------------------------------------------
(* One active row for a member of a group.                                 *)

ActiveAt(f, m) == {i \in DOMAIN row[f][m] : row[f][m][i] = "ACTIVE"}

(* As long as no two edits of groups overlapped: one handler edits at most, *)
(* a member has one active row of a group at most, and none where a        *)
(* handler is about to add one.                                            *)
OneRow ==
  "group" \notin conflicts =>
    /\ \A d, e \in Desk : desk[d].op \in Edits /\ desk[e].op \in Edits => d = e
    /\ \A f \in Fees, m \in Members : \A i, j \in ActiveAt(f, m) : i = j
    /\ \A d \in Desk : desk[d].op = "add" =>
         \A m \in desk[d].read : ActiveAt(desk[d].on, m) = {}

(* The rows the jobs and the handlers look at are all the active ones.     *)
LEMMA ActiveRowsAre ==
  ASSUME Shape, NEW f \in Fees
  PROVE  \A p : p \in ActiveRows(f) <=>
           /\ p \in Members \X RowIds
           /\ p[2] \in ActiveAt(f, p[1])
BY DEF ActiveRows, ActiveAt

(* The rows of a member in a group have row numbers.                       *)
LEMMA RowsHaveIds ==
  ASSUME Shape, NEW f \in Fees, NEW m \in Members, NEW i \in DOMAIN row[f][m]
  PROVE  i \in RowIds
<1>1. row[f][m] \in Seq(RowStatus) /\ Len(row[f][m]) <= MaxRows[m]
  BY DEF Shape, GroupShape
<1>2. i \in 1 .. Len(row[f][m]) /\ Len(row[f][m]) \in Nat BY <1>1, Places
<1>3. MaxRows[m] \in Nat BY FeeGroupsAssumption DEF FeeGroupsAssumption
<1>4. i \in 1 .. MaxRows[m] BY <1>1, <1>2, <1>3
<1> QED BY <1>4 DEF RowIds

(* A row is added where there was no active one.                           *)
LEMMA RowAdded ==
  ASSUME NEW q \in Seq(RowStatus), \A i \in DOMAIN q : q[i] # "ACTIVE"
  PROVE  \A i \in DOMAIN Append(q, "ACTIVE") :
           Append(q, "ACTIVE")[i] = "ACTIVE" => i = Len(q) + 1
<1>1. "ACTIVE" \in RowStatus BY DEF RowStatus
<1>2. /\ Append(q, "ACTIVE") \in Seq(RowStatus)
      /\ Len(Append(q, "ACTIVE")) = Len(q) + 1
      /\ \A i \in 1 .. Len(q) : Append(q, "ACTIVE")[i] = q[i]
  BY <1>1, AppendProperties
<1>3. /\ DOMAIN q = 1 .. Len(q) /\ Len(q) \in Nat
      /\ DOMAIN Append(q, "ACTIVE") = 1 .. Len(q) + 1
  BY <1>2, Places
<1> QED BY <1>2, <1>3

(* Steps that leave the rows, and whose handlers go on or stop.            *)
LEMMA OneRowRest ==
  ASSUME Shape, OneRow, conflicts \subseteq conflicts', row' = row,
         \A d \in Desk : desk'[d] = desk[d] \/ desk'[d].op \notin Edits
  PROVE  OneRow'
BY DEF OneRow, ActiveAt, Edits

(* Every step keeps members to one active row.                             *)
LEMMA NextOneRow ==
  ASSUME Shape, Shape', FeesKnown, OneRow, [BillingNext]_vars
  PROVE  OneRow'
<1>0. conflicts \subseteq conflicts' BY ConflictsGrow
<1>1. ASSUME NEW d \in Desk, InsertMembers(d)
      PROVE  OneRow'
  <2>1. /\ desk[d].op = "add"
        /\ row' = [row EXCEPT ![desk[d].on] = AddRows(@, desk[d].read)]
        /\ desk' = [desk EXCEPT ![d] = Idle]
    BY <1>1 DEF InsertMembers
  <2>2. PICK f \in Fees : f = desk[d].on BY <2>1, DeskHolds DEF Shape
  <2>3. PICK M \in SUBSET Members : M = desk[d].read BY <2>1, DeskHolds DEF Shape
  <2>4. \A g \in Fees : row'[g] = IF g = f THEN AddRows(row[f], M) ELSE row[g]
    BY <2>1, <2>2, <2>3 DEF Shape, GroupShape
  <2>5. \A m \in Members :
          row'[f][m] = IF m \in M THEN Append(row[f][m], "ACTIVE") ELSE row[f][m]
    BY <2>4 DEF AddRows
  <2>6. \A e \in Desk : desk'[e] = IF e = d THEN Idle ELSE desk[e]
    BY <2>1 DEF Shape, GroupShape
  <2>7. Idle.op \notin Edits BY DEF Idle, Edits
  <2> SUFFICES ASSUME "group" \notin conflicts'
               PROVE  /\ \A e, g \in Desk : desk'[e].op \in Edits /\ desk'[g].op \in Edits => e = g
                      /\ \A g \in Fees, m \in Members : \A i, j \in ActiveAt(g, m)' : i = j
                      /\ \A e \in Desk : desk'[e].op = "add" =>
                           \A m \in desk'[e].read : ActiveAt(desk[e].on, m)' = {}
    BY <2>6, <2>7 DEF OneRow, Edits
  <2>8. /\ \A e, g \in Desk : desk[e].op \in Edits /\ desk[g].op \in Edits => e = g
        /\ \A g \in Fees, m \in Members : \A i, j \in ActiveAt(g, m) : i = j
        /\ \A m \in M : ActiveAt(f, m) = {}
    BY <1>0, <2>1, <2>2, <2>3 DEF OneRow
  <2>9. desk[d].op \in Edits BY <2>1 DEF Edits
  <2>10. \A e \in Desk : desk'[e].op \notin Edits BY <2>6, <2>7, <2>8, <2>9
  <2>11. ASSUME NEW g \in Fees, NEW m \in Members,
                NEW i \in ActiveAt(g, m)', NEW j \in ActiveAt(g, m)'
         PROVE  i = j
    <3>1. CASE g = f /\ m \in M
      <4>1. row'[g][m] = Append(row[f][m], "ACTIVE") BY <2>5, <3>1
      <4>2. \A k \in DOMAIN row[f][m] : row[f][m][k] # "ACTIVE"
        BY <2>8, <3>1 DEF ActiveAt
      <4>3. row[f][m] \in Seq(RowStatus) BY DEF Shape, GroupShape
      <4>4. \A k \in DOMAIN Append(row[f][m], "ACTIVE") :
              Append(row[f][m], "ACTIVE")[k] = "ACTIVE" => k = Len(row[f][m]) + 1
        BY <4>2, <4>3, RowAdded
      <4> QED BY <4>1, <4>4 DEF ActiveAt
    <3>2. CASE ~(g = f /\ m \in M)
      <4>1. row'[g][m] = row[g][m] BY <2>4, <2>5, <3>2
      <4>2. i \in ActiveAt(g, m) /\ j \in ActiveAt(g, m) BY <4>1 DEF ActiveAt
      <4> QED BY <2>8, <4>2
    <3> QED BY <3>1, <3>2
  <2> QED BY <2>10, <2>11 DEF Edits
<1>2. ASSUME NEW d \in Desk, SaveRemoved(d)
      PROVE  OneRow'
  <2>1. /\ desk[d].op = "remove"
        /\ row' = [row EXCEPT ![desk[d].on] =
                     [m \in Members |->
                        [i \in DOMAIN @[m] |->
                           IF <<m, i>> \in desk[d].read THEN "IN_ACTIVE" ELSE @[m][i]]]]
        /\ desk' = [desk EXCEPT ![d] = Idle]
    BY <1>2 DEF SaveRemoved
  <2>2. PICK f \in Fees : f = desk[d].on BY <2>1, DeskHolds DEF Shape
  <2>3. PICK R : R = desk[d].read OBVIOUS
  <2>4. PICK group : group = [m \in Members |->
                       [i \in DOMAIN row[f][m] |->
                          IF <<m, i>> \in R THEN "IN_ACTIVE" ELSE row[f][m][i]]]
    OBVIOUS
  <2>5. row' = [row EXCEPT ![f] = group] BY <2>1, <2>2, <2>3, <2>4
  <2>6. \A g \in Fees : row'[g] = IF g = f THEN group ELSE row[g]
    BY <2>5 DEF Shape, GroupShape
  <2>7. ASSUME NEW g \in Fees, NEW m \in Members
        PROVE  ActiveAt(g, m)' \subseteq ActiveAt(g, m)
    <3>1. CASE g = f
      <4>1. row'[g][m] = [i \in DOMAIN row[f][m] |->
                            IF <<m, i>> \in R THEN "IN_ACTIVE" ELSE row[f][m][i]]
        BY <2>4, <2>6, <3>1
      <4> QED BY <3>1, <4>1 DEF ActiveAt
    <3>2. CASE g # f
      BY <2>6, <3>2 DEF ActiveAt
    <3> QED BY <3>1, <3>2
  <2>8. \A e \in Desk : desk'[e] = IF e = d THEN Idle ELSE desk[e]
    BY <2>1 DEF Shape, GroupShape
  <2>9. Idle.op \notin Edits BY DEF Idle, Edits
  <2> SUFFICES ASSUME "group" \notin conflicts'
               PROVE  /\ \A e, g \in Desk : desk'[e].op \in Edits /\ desk'[g].op \in Edits => e = g
                      /\ \A g \in Fees, m \in Members : \A i, j \in ActiveAt(g, m)' : i = j
                      /\ \A e \in Desk : desk'[e].op \notin Edits
    BY DEF OneRow, Edits
  <2>10. /\ \A e, g \in Desk : desk[e].op \in Edits /\ desk[g].op \in Edits => e = g
         /\ \A g \in Fees, m \in Members : \A i, j \in ActiveAt(g, m) : i = j
    BY <1>0 DEF OneRow
  <2>11. desk[d].op \in Edits BY <2>1 DEF Edits
  <2>12. \A e \in Desk : desk'[e].op \notin Edits BY <2>8, <2>9, <2>10, <2>11
  <2> QED BY <2>7, <2>10, <2>12
<1>3. CASE Executive
  <2>1. CASE \E d \in Desk : DeskStep(d)
    <3>1. PICK d \in Desk : DeskStep(d) BY <2>1
    <3>2. CASE InsertMembers(d) \/ SaveRemoved(d) BY <1>1, <1>2, <3>2
    <3>3. CASE RemoveServiceFee(d) \/ FailDesk(d)
      <4>1. row' = row /\ desk' = [desk EXCEPT ![d] = Idle]
        BY <3>3 DEF RemoveServiceFee, FailDesk
      <4>2. \A e \in Desk : desk'[e] = IF e = d THEN Idle ELSE desk[e]
        BY <4>1 DEF Shape, GroupShape
      <4>3. Idle.op \notin Edits BY DEF Idle, Edits
      <4> QED BY <1>0, <4>1, <4>2, <4>3, OneRowRest
    <3> QED BY <3>1, <3>2, <3>3 DEF DeskStep
  <2>2. CASE \E f \in Fees, q \in ServiceFeeRequest, due \in Nat : CreateService(f, q, due)
    <3>1. PICK f \in Fees, q \in ServiceFeeRequest, due \in Nat : CreateService(f, q, due)
      BY <2>2
    <3>2. /\ fee[f].status = "absent" /\ desk' = desk
          /\ row' = LinkedGroup(f, q.recipients)
      BY <3>1, NewFee
    <3>3. PICK M : M = Found(q.recipients) OBVIOUS
    <3>4. \A g \in Fees : row'[g] = IF g = f THEN AddRows(NewGroup, M) ELSE row[g]
      BY <3>2, <3>3 DEF LinkedGroup, Shape, GroupShape
    <3>5. ASSUME NEW m \in Members, NEW i \in ActiveAt(f, m)'
          PROVE  i = 1
      <4>1. row'[f][m] = IF m \in M THEN Append(<< >>, "ACTIVE") ELSE << >>
        BY <3>4 DEF AddRows, NewGroup
      <4>2. << >> \in Seq(RowStatus) /\ Len(<< >>) = 0 BY EmptySeq
      <4>3. DOMAIN << >> = {} OBVIOUS
      <4>4. \A k \in DOMAIN Append(<< >>, "ACTIVE") :
              Append(<< >>, "ACTIVE")[k] = "ACTIVE" => k = 1
        <5>1. \A k \in DOMAIN Append(<< >>, "ACTIVE") :
                Append(<< >>, "ACTIVE")[k] = "ACTIVE" => k = Len(<< >>) + 1
          BY <4>2, <4>3, RowAdded
        <5> QED BY <4>2, <5>1
      <4> QED BY <4>1, <4>3, <4>4 DEF ActiveAt
    <3>6. \A g \in Fees \ {f}, m \in Members : ActiveAt(g, m)' = ActiveAt(g, m)
      BY <3>4 DEF ActiveAt
    <3>7. ASSUME NEW d \in Desk, desk[d].op = "add"
          PROVE  /\ desk[d].on \in Fees \ {f}
                 /\ desk[d].read \in SUBSET Members
      BY <3>2, <3>7, DeskHolds DEF FeesKnown, Shape
    <3> SUFFICES ASSUME "group" \notin conflicts'
                 PROVE  /\ \A e, g \in Desk : desk[e].op \in Edits /\ desk[g].op \in Edits => e = g
                        /\ \A g \in Fees, m \in Members : \A i, j \in ActiveAt(g, m)' : i = j
                        /\ \A e \in Desk : desk[e].op = "add" =>
                             \A m \in desk[e].read : ActiveAt(desk[e].on, m)' = {}
      BY <3>2 DEF OneRow
    <3>8. /\ \A e, g \in Desk : desk[e].op \in Edits /\ desk[g].op \in Edits => e = g
          /\ \A g \in Fees, m \in Members : \A i, j \in ActiveAt(g, m) : i = j
          /\ \A d \in Desk : desk[d].op = "add" =>
               \A m \in desk[d].read : ActiveAt(desk[d].on, m) = {}
      BY <1>0 DEF OneRow
    <3>9. ASSUME NEW g \in Fees, NEW m \in Members,
                 NEW i \in ActiveAt(g, m)', NEW j \in ActiveAt(g, m)'
          PROVE  i = j
      <4>1. CASE g = f BY <3>5, <4>1
      <4>2. CASE g # f BY <3>6, <3>8, <4>2
      <4> QED BY <4>1, <4>2
    <3>10. ASSUME NEW e \in Desk, desk[e].op = "add", NEW m \in desk[e].read
           PROVE  ActiveAt(desk[e].on, m)' = {}
      <4>1. PICK g \in Fees \ {f} : g = desk[e].on BY <3>7, <3>10
      <4>2. m \in Members BY <3>7, <3>10
      <4>3. ActiveAt(g, m) = {} BY <3>8, <3>10, <4>1
      <4>4. ActiveAt(g, m)' = {} BY <3>6, <4>1, <4>2, <4>3
      <4>5. desk'[e].on = g BY <3>2, <4>1
      <4> QED BY <4>4, <4>5, <4>1, <3>2 DEF ActiveAt
    <3> QED BY <3>8, <3>9, <3>10
  <2>3. CASE \E d \in Desk, f \in Fees, M \in SUBSET Members :
                 /\ AddMember(d, f, M) \/ RemoveMember(d, f, M)
                 /\ conflicts' = conflicts \cup
                      {"group" : e \in {e \in Desk : desk[e].op \in Edits}}
    <3>1. PICK d \in Desk, f \in Fees, M \in SUBSET Members :
                 /\ AddMember(d, f, M) \/ RemoveMember(d, f, M)
                 /\ conflicts' = conflicts \cup
                      {"group" : e \in {e \in Desk : desk[e].op \in Edits}}
      BY <2>3
    <3>2. /\ row' = row /\ desk'[d].on = f
          /\ \A e \in Desk \ {d} : desk'[e] = desk[e]
          /\ RemoveMember(d, f, M) => desk'[d].op = "remove"
      BY <3>1, Reading
    <3> SUFFICES ASSUME "group" \notin conflicts' PROVE OneRow'
      BY DEF OneRow
    <3>3. \A e \in Desk : desk[e].op \notin Edits BY <3>1
    <3>4. \A e \in Desk : desk'[e].op \in Edits => e = d BY <3>2, <3>3
    <3>5. \A g \in Fees, m \in Members : ActiveAt(g, m)' = ActiveAt(g, m)
      BY <3>2 DEF ActiveAt
    <3>6. \A g \in Fees, m \in Members : \A i, j \in ActiveAt(g, m)' : i = j
      BY <1>0, <3>5 DEF OneRow
    <3>7. ASSUME desk'[d].op = "add", NEW m \in desk'[d].read
          PROVE  ActiveAt(f, m) = {}
      <4>1. AddMember(d, f, M) BY <3>1, <3>2, <3>7
      <4>2. desk'[d].read = {k \in Found(M) : \A p \in ActiveRows(f) : p[1] # k}
        BY <4>1 DEF AddMember, Shape, GroupShape
      <4>3. m \in Members /\ \A p \in ActiveRows(f) : p[1] # m
        BY <3>7, <4>2 DEF Found
      <4>4. ASSUME NEW i \in ActiveAt(f, m) PROVE FALSE
        <5>1. i \in DOMAIN row[f][m] BY DEF ActiveAt
        <5>2. i \in RowIds BY <4>3, <5>1, RowsHaveIds
        <5>3. PICK p : p = <<m, i>> OBVIOUS
        <5>4. p \in Members \X RowIds /\ p[1] = m /\ p[2] = i BY <4>3, <5>2, <5>3
        <5>5. p \in ActiveRows(f) BY <5>4, ActiveRowsAre
        <5> QED BY <4>3, <5>4, <5>5
      <4> QED BY <4>4
    <3>8. ASSUME NEW e \in Desk, desk'[e].op = "add", NEW m \in desk'[e].read
          PROVE  ActiveAt(desk[e].on, m)' = {}
      <4>1. e = d BY <3>4, <3>8 DEF Edits
      <4>2. ActiveAt(f, m) = {} BY <3>7, <3>8, <4>1
      <4> QED BY <3>2, <4>1, <4>2 DEF ActiveAt
    <3> QED BY <3>4, <3>6, <3>8 DEF OneRow
  <2>4. CASE \E d \in Desk, f \in Fees : DeActivateFee(d, f)
    <3>1. PICK d \in Desk, f \in Fees : DeActivateFee(d, f) BY <2>4
    <3>2. {} \in SUBSET Members OBVIOUS
    <3>3. /\ row' = row /\ desk'[d].op = "removeFee"
          /\ \A e \in Desk \ {d} : desk'[e] = desk[e]
      BY <3>1, <3>2, Reading
    <3> QED BY <1>0, <3>3, OneRowRest DEF Edits
  <2>5. CASE \E m \in Members : LeaveAssociation(m)
    <3>1. row' = row /\ desk' = desk BY <2>5 DEF LeaveAssociation
    <3> QED BY <1>0, <3>1, OneRowRest
  <2> QED BY <1>3, <2>1, <2>2, <2>3, <2>4, <2>5, ExecutiveSteps
<1>4. CASE \E d \in Desk : SaveTotals(d) \/ \E s \in Sub : ReadTotals(d, s)
  <2>1. PICK d \in Desk : SaveTotals(d) \/ \E s \in Sub : ReadTotals(d, s) BY <1>4
  <2>2. row' = row BY <2>1 DEF SaveTotals, ReadTotals
  <2>3. \A e \in Desk : e # d => desk'[e] = desk[e]
    BY <2>1 DEF SaveTotals, ReadTotals, Shape, GroupShape
  <2>4. desk'[d].op \in {"idle", "settle"}
    BY <2>1 DEF SaveTotals, ReadTotals, Shape, GroupShape, Idle
  <2> QED BY <1>0, <2>2, <2>3, <2>4, OneRowRest DEF Edits
<1>5. CASE \E w \in Workers, f \in Fees : SubscriptionStep(w, f)
  <2>1. row' = row /\ desk' = desk
    BY <1>5, SubscriptionProceeds DEF Shape, SubscriptionStep
  <2> QED BY <1>0, <2>1, OneRowRest
<1>6. CASE \E w \in Workers : \E p \in DOMAIN billing[w] : BillingStep(w, p)
  <2>1. row' = row /\ desk' = desk
    BY <1>6, BillingProceeds, BillingAssumption DEF Shape, groupVars
  <2> QED BY <1>0, <2>1, OneRowRest
<1>7. CASE \/ \E w \in Workers : TakeBillJob(w) \/ LoadPairs(w) \/ Crash(w)
           \/ \E w \in Workers, type \in ServiceType : TakeSubscriptionJob(w, type)
           \/ Rest
  <2>1. row' = row /\ desk' = desk
    BY <1>7 DEF TakeBillJob, LoadPairs, Crash, TakeSubscriptionJob, groupVars, Rest
  <2> QED BY <1>0, <2>1, OneRowRest
<1> QED BY <1>3, <1>4, <1>5, <1>6, <1>7, Steps

-----------------------------------------------------------------------------
(* One bill for a member of a subscription.                                *)

(* As long as neither two bill jobs nor two edits of groups overlapped: one *)
(* worker bills at most, each member of a subscription once, and only      *)
(* those who have no bill of it.                                           *)
OneBill ==
  "bill jobs" \notin conflicts /\ "group" \notin conflicts =>
    /\ \A w, k \in Workers : BillJobBusy(w) /\ BillJobBusy(k) => w = k
    /\ \A w \in Workers : \A p, q \in picked[w] \cup DOMAIN billing[w] :
         p[1] = q[1] /\ p[2] = q[2] => p = q
    /\ \A w \in Workers : \A p \in picked[w] \cup DOMAIN billing[w] :
         bills[p[1]][p[2]] = 0
    /\ \A s \in Sub, m \in Members : bills[s][m] <= 1

(* Busy workers have pairs, before and after a step.                       *)
LEMMA BusyHasPairs ==
  ASSUME Shape, Shape', NEW w \in Workers
  PROVE  /\ BillJobBusy(w) <=> picked[w] \cup DOMAIN billing[w] # {}
         /\ BillJobBusy(w)' <=> picked'[w] \cup DOMAIN billing'[w] # {}
<1>1. ASSUME NEW b \in Partial(Pairs, Transaction)
      PROVE  b = Nothing <=> DOMAIN b = {}
  BY NothingIsEmpty
<1>2. PICK b \in Partial(Pairs, Transaction) : b = billing[w]
  BY DEF Shape, JobShape
<1>3. PICK c \in Partial(Pairs, Transaction) : c = billing'[w]
  BY DEF Shape, JobShape
<1>4. billing[w] = Nothing <=> DOMAIN billing[w] = {} BY <1>1, <1>2
<1>5. billing'[w] = Nothing <=> DOMAIN billing'[w] = {} BY <1>1, <1>3
<1> QED BY <1>4, <1>5 DEF BillJobBusy

(* Pairs are told apart by what they name.                                 *)
LEMMA PairsEqual ==
  ASSUME NEW p \in Pairs, NEW q \in Pairs, p[1] = q[1], p[2] = q[2], p[3] = q[3]
  PROVE  p = q
BY DEF Pairs

(* Counting to one.                                                        *)
LEMMA NoneOrOne ==
  /\ 0 + 1 <= 1
  /\ \A n \in Nat : ~(n > 0) => n = 0
OBVIOUS

(* Steps that take no pairs and add no bill.                               *)
LEMMA OneBillRest ==
  ASSUME Shape, Shape', OneBill, conflicts \subseteq conflicts', bills' = bills,
         \A k \in Workers : picked'[k] \cup DOMAIN billing'[k]
                              \subseteq picked[k] \cup DOMAIN billing[k]
  PROVE  OneBill'
<1>1. ASSUME NEW k \in Workers, BillJobBusy(k)' PROVE BillJobBusy(k)
  <2>1. picked'[k] \cup DOMAIN billing'[k] # {} BY <1>1, BusyHasPairs
  <2>2. picked[k] \cup DOMAIN billing[k] # {} BY <2>1
  <2> QED BY <2>2, BusyHasPairs
<1> QED BY <1>1 DEF OneBill

(* Every step keeps members to one bill.                                   *)
LEMMA NextOneBill ==
  ASSUME Shape, Shape', OneRow, OneBill, [BillingNext]_vars
  PROVE  OneBill'
<1>0. conflicts \subseteq conflicts' BY ConflictsGrow
<1>1. ASSUME NEW w \in Workers, TakeBillJob(w)
      PROVE  OneBill'
  <2>1. /\ ~BillJobBusy(w)
        /\ picked' = [picked EXCEPT ![w] = PendingPairs]
        /\ conflicts' = conflicts \cup {"bill jobs" : k \in {k \in Workers : BillJobBusy(k)}}
        /\ billing' = billing /\ bills' = bills
    BY <1>1 DEF TakeBillJob, billVars
  <2>2. \A k \in Workers : picked'[k] = IF k = w THEN PendingPairs ELSE picked[k]
    BY <2>1 DEF Shape, JobShape
  <2> SUFFICES ASSUME "bill jobs" \notin conflicts', "group" \notin conflicts'
               PROVE  /\ \A j, k \in Workers : BillJobBusy(j)' /\ BillJobBusy(k)' => j = k
                      /\ \A k \in Workers : \A p, q \in picked'[k] \cup DOMAIN billing'[k] :
                           p[1] = q[1] /\ p[2] = q[2] => p = q
                      /\ \A k \in Workers : \A p \in picked'[k] \cup DOMAIN billing'[k] :
                           bills'[p[1]][p[2]] = 0
                      /\ \A s \in Sub, m \in Members : bills'[s][m] <= 1
    BY DEF OneBill
  <2>3. \A k \in Workers : ~BillJobBusy(k) BY <2>1
  <2>4. \A k \in Workers : picked[k] = {} /\ DOMAIN billing[k] = {}
    BY <2>3, BusyHasPairs
  <2>5. \A k \in Workers : picked'[k] \cup DOMAIN billing'[k]
                             = IF k = w THEN PendingPairs ELSE {}
    BY <2>1, <2>2, <2>4
  <2>6. ASSUME NEW k \in Workers, BillJobBusy(k)' PROVE k = w
    <3>1. picked'[k] \cup DOMAIN billing'[k] # {} BY <2>6, BusyHasPairs
    <3> QED BY <2>5, <3>1
  <2>7. ASSUME NEW p \in PendingPairs, NEW q \in PendingPairs, p[1] = q[1], p[2] = q[2]
        PROVE  p = q
    <3>1. /\ p \in Pairs /\ q \in Pairs
          /\ p[1] \in DOMAIN subscription
          /\ <<p[2], p[3]>> \in ActiveRows(subscription[p[1]].fee)
          /\ <<q[2], q[3]>> \in ActiveRows(subscription[q[1]].fee)
      BY DEF PendingPairs
    <3>2. subscription[p[1]] \in Subscription BY <3>1, Places DEF Shape, BillShape
    <3>3. PICK f \in Fees : f = subscription[p[1]].fee BY <3>2 DEF Subscription
    <3>4. PICK m \in Members : m = p[2] BY <3>1 DEF Pairs
    <3>5. <<m, p[3]>> \in ActiveRows(f) /\ <<m, q[3]>> \in ActiveRows(f)
      BY <2>7, <3>1, <3>3, <3>4
    <3>6. p[3] \in ActiveAt(f, m) /\ q[3] \in ActiveAt(f, m)
      BY <3>5 DEF ActiveRows, ActiveAt
    <3>7. p[3] = q[3] BY <1>0, <3>6 DEF OneRow
    <3> QED BY <2>7, <3>1, <3>7, PairsEqual
  <2>8. ASSUME NEW p \in PendingPairs PROVE bills[p[1]][p[2]] = 0
    <3>1. p[1] \in Sub /\ p[2] \in Members /\ ~Billed(p[1])
      BY DEF PendingPairs, Pairs
    <3>2. bills[p[1]][p[2]] \in Nat BY <3>1 DEF Shape, BillShape
    <3>3. PICK n \in Nat : n = bills[p[1]][p[2]] BY <3>2
    <3>4. ~(n > 0) BY <3>1, <3>3 DEF Billed
    <3>5. n = 0 BY <3>3, <3>4, NoneOrOne, Zenon
    <3> QED BY <3>3, <3>5, Zenon
  <2>9. \A s \in Sub, m \in Members : bills[s][m] <= 1 BY <1>0 DEF OneBill
  <2>10. \A j, k \in Workers : BillJobBusy(j)' /\ BillJobBusy(k)' => j = k
    BY <2>6
  <2>11. \A k \in Workers : \A p, q \in picked'[k] \cup DOMAIN billing'[k] :
           p[1] = q[1] /\ p[2] = q[2] => p = q
    <3>1. ASSUME NEW k \in Workers, NEW p \in picked'[k] \cup DOMAIN billing'[k],
                 NEW q \in picked'[k] \cup DOMAIN billing'[k], p[1] = q[1], p[2] = q[2]
          PROVE  p = q
      <4>1. p \in PendingPairs /\ q \in PendingPairs BY <2>5
      <4> QED BY <2>7, <3>1, <4>1
    <3> QED BY <3>1
  <2>12. \A k \in Workers : \A p \in picked'[k] \cup DOMAIN billing'[k] :
           bills'[p[1]][p[2]] = 0
    <3>1. ASSUME NEW k \in Workers, NEW p \in picked'[k] \cup DOMAIN billing'[k]
          PROVE  bills[p[1]][p[2]] = 0
      <4>1. p \in PendingPairs BY <2>5
      <4> QED BY <2>8, <4>1
    <3> QED BY <2>1, <3>1
  <2> QED BY <2>1, <2>9, <2>10, <2>11, <2>12
<1>2. ASSUME NEW w \in Workers, LoadPairs(w)
      PROVE  OneBill'
  <2>1. PICK B \in Partial(Pairs, Transaction), n \in [Sub -> Nat],
              l \in [fees : SUBSET Fees, members : SUBSET Members] : Loads(w, B, n, l)
    BY <1>2, Loading DEF Shape
  <2>2. \A k \in Workers : /\ picked'[k] = IF k = w THEN {} ELSE picked[k]
                           /\ billing'[k] = IF k = w THEN B ELSE billing[k]
    BY <2>1 DEF Loads, Shape, JobShape
  <2>3. \A k \in Workers : picked'[k] \cup DOMAIN billing'[k]
                              \subseteq picked[k] \cup DOMAIN billing[k]
    BY <2>1, <2>2 DEF Loads
  <2>4. bills' = bills BY <2>1 DEF Loads
  <2> QED BY <1>0, <2>3, <2>4, OneBillRest
<1>3. ASSUME NEW w \in Workers, NEW p \in DOMAIN billing[w], BillingStep(w, p)
      PROVE  OneBill'
  <2>1. PICK B \in Partial(Pairs, Transaction) : Bills(w, p, B)
    BY <1>3, BillingProceeds, BillingAssumption DEF Shape
  <2>2. picked' = picked
    BY <1>3, BillingProceeds, BillingAssumption DEF Shape
  <2>3. \A k \in Workers : billing'[k] = IF k = w THEN B ELSE billing[k]
    BY <2>1 DEF Bills, Shape, JobShape
  <2>4. \A k \in Workers : picked'[k] \cup DOMAIN billing'[k]
                              \subseteq picked[k] \cup DOMAIN billing[k]
    BY <2>1, <2>2, <2>3 DEF Bills
  <2>5. CASE bills' = bills
    BY <1>0, <2>4, <2>5, OneBillRest
  <2>6. CASE bills' # bills
    <3>1. /\ p \notin DOMAIN B
          /\ bills' = [bills EXCEPT ![p[1]][BillOf(w, p)] = @ + 1]
      BY <2>1, <2>6 DEF Bills
    <3>2. p \in Pairs BY JobsHold DEF Shape
    <3>3. /\ p[1] \in Sub
          /\ \A s \in Sub, m \in Members \cup {None} :
               bills'[s][m] = IF s = p[1] /\ m = BillOf(w, p)
                                THEN bills[s][m] + 1 ELSE bills[s][m]
      BY <3>1, <3>2, BillAdded DEF Shape
    <3> SUFFICES ASSUME "bill jobs" \notin conflicts', "group" \notin conflicts'
                 PROVE  /\ \A j, k \in Workers : BillJobBusy(j)' /\ BillJobBusy(k)' => j = k
                        /\ \A k \in Workers : \A a, b \in picked'[k] \cup DOMAIN billing'[k] :
                             a[1] = b[1] /\ a[2] = b[2] => a = b
                        /\ \A k \in Workers : \A a \in picked'[k] \cup DOMAIN billing'[k] :
                             bills'[a[1]][a[2]] = 0
                        /\ \A s \in Sub, m \in Members : bills'[s][m] <= 1
      BY DEF OneBill
    <3>4. /\ \A j, k \in Workers : BillJobBusy(j) /\ BillJobBusy(k) => j = k
          /\ \A k \in Workers : \A a, b \in picked[k] \cup DOMAIN billing[k] :
               a[1] = b[1] /\ a[2] = b[2] => a = b
          /\ \A k \in Workers : \A a \in picked[k] \cup DOMAIN billing[k] :
               bills[a[1]][a[2]] = 0
          /\ \A s \in Sub, m \in Members : bills[s][m] <= 1
      BY <1>0 DEF OneBill
    <3>5. BillJobBusy(w)
      <4>1. picked[w] \cup DOMAIN billing[w] # {} OBVIOUS
      <4> QED BY <4>1, BusyHasPairs
    <3>6. ASSUME NEW k \in Workers, BillJobBusy(k)' PROVE k = w
      <4>1. picked'[k] \cup DOMAIN billing'[k] # {} BY <3>6, BusyHasPairs
      <4>2. picked[k] \cup DOMAIN billing[k] # {} BY <2>4, <4>1
      <4>3. BillJobBusy(k) BY <4>2, BusyHasPairs
      <4> QED BY <3>4, <3>5, <4>3
    <3>7. BillOf(w, p) = p[2] \/ BillOf(w, p) = None BY DEF BillOf
    <3>8. p[2] \in Members /\ None \notin Members
      BY <3>2, FeeGroupsAssumption DEF Pairs, FeeGroupsAssumption
    <3>9. bills[p[1]][p[2]] = 0 BY <3>4
    <3>10. ASSUME NEW k \in Workers, NEW a \in picked'[k] \cup DOMAIN billing'[k]
           PROVE  bills'[a[1]][a[2]] = 0
      <4>1. picked'[k] \cup DOMAIN billing'[k] # {} OBVIOUS
      <4>2. k = w BY <3>6, <4>1, BusyHasPairs
      <4>3. a \in picked[w] \cup DOMAIN billing[w] BY <2>4, <4>2
      <4>4. bills[a[1]][a[2]] = 0 BY <3>4, <4>3
      <4>5. a \in Pairs BY <4>3, JobsHold DEF Shape
      <4>6. a[1] \in Sub /\ a[2] \in Members BY <4>5 DEF Pairs
      <4>7. CASE a[1] = p[1] /\ a[2] = BillOf(w, p)
        <5>1. a[2] = p[2] BY <3>7, <3>8, <4>6, <4>7
        <5>2. a = p BY <3>4, <4>3, <4>7, <5>1
        <5>3. p \in picked[w] BY <2>2, <2>3, <3>1, <4>2, <5>2
        <5> QED BY <5>3 DEF Shape, PairsNamed
      <4>8. CASE ~(a[1] = p[1] /\ a[2] = BillOf(w, p))
        <5>1. PICK s \in Sub, m \in Members : s = a[1] /\ m = a[2] BY <4>6
        <5>2. bills'[s][m] = bills[s][m] BY <3>3, <4>8, <5>1
        <5> QED BY <4>4, <5>1, <5>2
      <4> QED BY <4>7, <4>8
    <3>11. ASSUME NEW s \in Sub, NEW m \in Members PROVE bills'[s][m] <= 1
      <4>1. bills[s][m] <= 1 BY <3>4
      <4>2. CASE s = p[1] /\ m = BillOf(w, p)
        <5>1. m = p[2] BY <3>7, <3>8, <4>2
        <5>2. bills[s][m] = 0 BY <3>9, <4>2, <5>1
        <5>3. bills'[s][m] = 0 + 1 BY <3>3, <4>2, <5>2
        <5> QED BY <5>3, NoneOrOne, Zenon
      <4>3. CASE ~(s = p[1] /\ m = BillOf(w, p))
        <5>1. bills'[s][m] = bills[s][m] BY <3>3, <4>3
        <5> QED BY <4>1, <5>1
      <4> QED BY <4>2, <4>3
    <3>12. \A j, k \in Workers : BillJobBusy(j)' /\ BillJobBusy(k)' => j = k
      BY <3>6
    <3>13. \A k \in Workers : \A a, b \in picked'[k] \cup DOMAIN billing'[k] :
             a[1] = b[1] /\ a[2] = b[2] => a = b
      BY <2>4, <3>4
    <3> QED BY <3>10, <3>11, <3>12, <3>13
  <2> QED BY <2>5, <2>6
<1>4. CASE \E w \in Workers : Crash(w)
  <2>1. PICK w \in Workers : Crash(w) BY <1>4
  <2>2. \A k \in Workers : /\ picked'[k] = IF k = w THEN {} ELSE picked[k]
                           /\ billing'[k] = IF k = w THEN Nothing ELSE billing[k]
    BY <2>1 DEF Crash, Shape, JobShape
  <2>3. \A k \in Workers : picked'[k] \cup DOMAIN billing'[k]
                              \subseteq picked[k] \cup DOMAIN billing[k]
    BY <2>2, NothingIsEmpty
  <2>4. bills' = bills BY <2>1 DEF Crash
  <2> QED BY <1>0, <2>3, <2>4, OneBillRest
<1>5. CASE \E w \in Workers, f \in Fees : SubscriptionStep(w, f)
  <2>1. UNCHANGED <<picked, billing, bills>>
    BY <1>5, SubscriptionProceeds DEF Shape, SubscriptionStep
  <2> QED BY <1>0, <2>1, OneBillRest
<1>6. CASE \/ \E d \in Desk : SaveTotals(d) \/ \E s \in Sub : ReadTotals(d, s)
           \/ \E w \in Workers, type \in ServiceType : TakeSubscriptionJob(w, type)
           \/ Executive
           \/ Rest
  <2>1. UNCHANGED <<picked, billing, bills>>
    BY <1>6
    DEF SaveTotals, ReadTotals, TakeSubscriptionJob, Executive, billVars, jobVars, Rest
  <2> QED BY <1>0, <2>1, OneBillRest
<1> QED BY <1>1, <1>2, <1>3, <1>4, <1>5, <1>6, Steps

(* Nobody bills and nothing is billed at first.                            *)
LEMMA InitOneBill == BillingInit => OneRow /\ OneBill
<1> SUFFICES ASSUME BillingInit PROVE OneRow /\ OneBill OBVIOUS
<1>0. DOMAIN << >> = {} OBVIOUS
<1>1. /\ \A d \in Desk : desk[d] = Idle
      /\ \A f \in Fees, m \in Members : row[f][m] = << >>
      /\ \A w \in Workers : picked[w] = {} /\ billing[w] = Nothing
      /\ \A s \in Sub, m \in Members : bills[s][m] = 0
  BY DEF BillingInit, GroupsInit, NewGroup
<1>2. Idle.op \notin Edits BY DEF Idle, Edits
<1>3. OneRow
  <2>1. \A f \in Fees, m \in Members : ActiveAt(f, m) = {} BY <1>0, <1>1 DEF ActiveAt
  <2>2. \A d \in Desk : desk[d].op \notin Edits BY <1>1, <1>2
  <2> QED BY <2>1, <2>2 DEF OneRow, Edits
<1>4. OneBill
  <2>1. \A w \in Workers : ~BillJobBusy(w) BY <1>1 DEF BillJobBusy
  <2>2. \A w \in Workers : picked[w] \cup DOMAIN billing[w] = {} BY <1>1, NothingIsEmpty
  <2>3. \A s \in Sub, m \in Members : bills[s][m] <= 1
    <3>1. 0 <= 1 OBVIOUS
    <3> QED BY <1>1, <3>1
  <2> QED BY <2>1, <2>2, <2>3 DEF OneBill
<1> QED BY <1>3, <1>4

(* And so do OneBill and what it rests on.                                 *)
LEMMA OneBillHolds == BillingSpec => [](FeesKnown /\ OneRow /\ OneBill)
BY InitKnown, InitOneBill, NextFeesKnown, NextOneRow, NextOneBill, ShapeHolds, PTL
DEF BillingSpec

(* A member is billed once for a subscription, unless two bill jobs or two *)
(* edits of a group overlap.                                               *)
THEOREM MembersAreBilledOnce == BillingSpec => []OneBillPerMember
<1>1. OneBill => OneBillPerMember
  <2>1. {"bill jobs", "group"} \cap conflicts = {}
          => "bill jobs" \notin conflicts /\ "group" \notin conflicts
    OBVIOUS
  <2> QED BY <2>1 DEF OneBill, OneBillPerMember
<1> QED BY <1>1, OneBillHolds, PTL

-----------------------------------------------------------------------------
(* Bills go to the members executives see.                                 *)

(* As long as nobody left while a bill job was between its two reads: the  *)
(* members it has picked are active, those it bills are loaded, and no     *)
(* bill is without a member.                                               *)
Left ==
  "left" \notin conflicts =>
    /\ \A w \in Workers : \A p \in picked[w] : member[p[2]] = "ACTIVE"
    /\ \A w \in Workers : \A p \in DOMAIN billing[w] : p[2] \in loaded[w].members
    /\ \A s \in Sub : bills[s][None] = 0

(* Steps at which nobody leaves, nothing is picked and nothing is billed.  *)
LEMMA LeftRest ==
  ASSUME Left, conflicts \subseteq conflicts', member' = member, bills' = bills,
         \A k \in Workers :
           /\ picked'[k] \subseteq picked[k]
           /\ DOMAIN billing'[k] \subseteq DOMAIN billing[k]
           /\ loaded'[k] = loaded[k] \/ DOMAIN billing'[k] = {}
  PROVE  Left'
<1>1. CASE "left" \in conflicts' BY <1>1 DEF Left
<1>2. CASE "left" \notin conflicts'
  <2>1. /\ \A w \in Workers : \A p \in picked[w] : member[p[2]] = "ACTIVE"
        /\ \A w \in Workers : \A p \in DOMAIN billing[w] : p[2] \in loaded[w].members
        /\ \A s \in Sub : bills[s][None] = 0
    BY <1>2 DEF Left
  <2>2. ASSUME NEW w \in Workers, NEW p \in DOMAIN billing'[w]
        PROVE  p[2] \in loaded'[w].members
    <3>1. p \in DOMAIN billing[w] /\ loaded'[w] = loaded[w] OBVIOUS
    <3> QED BY <2>1, <3>1
  <2> QED BY <2>1, <2>2 DEF Left
<1> QED BY <1>1, <1>2

(* Every step keeps bills to members who are there.                        *)
LEMMA NextLeft ==
  ASSUME Shape, Left, [BillingNext]_vars
  PROVE  Left'
<1>0. conflicts \subseteq conflicts' BY ConflictsGrow
<1>1. CASE Executive
  <2>1. UNCHANGED <<picked, billing, loaded, bills>> BY <1>1, ExecutiveSteps
  <2>2. CASE member' = member BY <1>0, <2>1, <2>2, LeftRest
  <2>3. CASE member' # member
    <3>1. PICK m \in Members :
            /\ LeaveAssociation(m)
            /\ conflicts' = conflicts \cup {"left" : w \in {w \in Workers : picked[w] # {}}}
      BY <1>1, <2>3, ExecutiveSteps
      DEF DeskStep, InsertMembers, SaveRemoved, RemoveServiceFee, FailDesk, CreateService,
          AddMember, RemoveMember, DeActivateFee
    <3>2. CASE \E w \in Workers : picked[w] # {}
      <4>1. "left" \in conflicts' BY <3>1, <3>2
      <4> QED BY <4>1 DEF Left
    <3>3. CASE \A w \in Workers : picked[w] = {}
      <4>1. \A w \in Workers : picked'[w] = {} BY <2>1, <3>3
      <4> QED BY <1>0, <2>1, <4>1 DEF Left
    <3> QED BY <3>2, <3>3
  <2> QED BY <2>2, <2>3
<1>2. ASSUME NEW w \in Workers, TakeBillJob(w)
      PROVE  Left'
  <2>1. /\ picked' = [picked EXCEPT ![w] = PendingPairs]
        /\ UNCHANGED <<member, billing, loaded, bills>>
    BY <1>2 DEF TakeBillJob, billVars
  <2>2. \A k \in Workers : picked'[k] = IF k = w THEN PendingPairs ELSE picked[k]
    BY <2>1 DEF Shape, JobShape
  <2>3. \A p \in PendingPairs : member[p[2]] = "ACTIVE" BY DEF PendingPairs
  <2> QED BY <1>0, <2>1, <2>2, <2>3 DEF Left
<1>3. ASSUME NEW w \in Workers, LoadPairs(w)
      PROVE  Left'
  <2>1. PICK B \in Partial(Pairs, Transaction), n \in [Sub -> Nat],
              l \in [fees : SUBSET Fees, members : SUBSET Members] : Loads(w, B, n, l)
    BY <1>3, Loading DEF Shape
  <2>2. \A k \in Workers : /\ picked'[k] = IF k = w THEN {} ELSE picked[k]
                           /\ billing'[k] = IF k = w THEN B ELSE billing[k]
                           /\ loaded'[k] = IF k = w THEN l ELSE loaded[k]
    BY <2>1 DEF Loads, Shape, JobShape
  <2>3. UNCHANGED <<member, bills>> BY <2>1 DEF Loads
  <2>4. ASSUME \A p \in picked[w] : member[p[2]] = "ACTIVE", NEW p \in DOMAIN B
        PROVE  p[2] \in l.members
    BY <2>1, <2>4 DEF Loads
  <2> QED BY <1>0, <2>2, <2>3, <2>4 DEF Left
<1>4. ASSUME NEW w \in Workers, NEW p \in DOMAIN billing[w], BillingStep(w, p)
      PROVE  Left'
  <2>1. PICK B \in Partial(Pairs, Transaction) : Bills(w, p, B)
    BY <1>4, BillingProceeds, BillingAssumption DEF Shape
  <2>2. picked' = picked /\ member' = member
    BY <1>4, BillingProceeds, BillingAssumption DEF Shape, groupVars
  <2>3. \A k \in Workers : billing'[k] = IF k = w THEN B ELSE billing[k]
    BY <2>1 DEF Bills, Shape, JobShape
  <2>4. \A k \in Workers : loaded'[k] = loaded[k] \/ DOMAIN billing'[k] = {}
    <3>1. loaded' = loaded \/ (DOMAIN B = {} /\ loaded' = [loaded EXCEPT ![w] = NotLoaded])
      BY <2>1 DEF Bills
    <3>2. CASE loaded' = loaded BY <3>2
    <3>3. CASE DOMAIN B = {} /\ loaded' = [loaded EXCEPT ![w] = NotLoaded]
      BY <2>3, <3>3 DEF Shape, JobShape
    <3> QED BY <3>1, <3>2, <3>3
  <2>5. \A k \in Workers : DOMAIN billing'[k] \subseteq DOMAIN billing[k]
    BY <2>1, <2>3 DEF Bills
  <2>6. CASE bills' = bills BY <1>0, <2>2, <2>4, <2>5, <2>6, LeftRest
  <2>7. CASE bills' # bills
    <3>1. bills' = [bills EXCEPT ![p[1]][BillOf(w, p)] = @ + 1]
      BY <2>1, <2>7 DEF Bills
    <3>2. p \in Pairs BY JobsHold DEF Shape
    <3>3. \A s \in Sub, m \in Members \cup {None} :
            bills'[s][m] = IF s = p[1] /\ m = BillOf(w, p) THEN bills[s][m] + 1 ELSE bills[s][m]
      BY <3>1, <3>2, BillAdded DEF Shape
    <3>4. CASE "left" \in conflicts' BY <3>4 DEF Left
    <3>5. CASE "left" \notin conflicts'
      <4>1. /\ \A k \in Workers : \A q \in picked[k] : member[q[2]] = "ACTIVE"
            /\ \A k \in Workers : \A q \in DOMAIN billing[k] : q[2] \in loaded[k].members
            /\ \A s \in Sub : bills[s][None] = 0
        BY <1>0, <3>5 DEF Left
      <4>2. BillOf(w, p) # None
        <5>1. BillOf(w, p) = p[2] BY <4>1 DEF BillOf
        <5>2. p[2] \in Members /\ None \notin Members
          BY <3>2, FeeGroupsAssumption DEF Pairs, FeeGroupsAssumption
        <5> QED BY <5>1, <5>2
      <4>3. \A s \in Sub : bills'[s][None] = 0 BY <3>3, <4>1, <4>2
      <4>4. ASSUME NEW k \in Workers, NEW q \in DOMAIN billing'[k]
            PROVE  q[2] \in loaded'[k].members
        <5>1. q \in DOMAIN billing[k] /\ loaded'[k] = loaded[k] BY <2>4, <2>5
        <5> QED BY <4>1, <5>1
      <4> QED BY <2>2, <4>1, <4>3, <4>4 DEF Left
    <3> QED BY <3>4, <3>5
  <2> QED BY <2>6, <2>7
<1>5. CASE \E w \in Workers : Crash(w)
  <2>1. PICK w \in Workers : Crash(w) BY <1>5
  <2>2. \A k \in Workers :
          /\ picked'[k] = IF k = w THEN {} ELSE picked[k]
          /\ billing'[k] = IF k = w THEN Nothing ELSE billing[k]
          /\ loaded'[k] = IF k = w THEN NotLoaded ELSE loaded[k]
    BY <2>1 DEF Crash, Shape, JobShape
  <2>3. \A k \in Workers : /\ picked'[k] \subseteq picked[k]
                           /\ DOMAIN billing'[k] \subseteq DOMAIN billing[k]
                           /\ loaded'[k] = loaded[k] \/ DOMAIN billing'[k] = {}
    BY <2>2, NothingIsEmpty
  <2>4. bills' = bills /\ member' = member BY <2>1 DEF Crash, groupVars
  <2> QED BY <1>0, <2>3, <2>4, LeftRest
<1>6. CASE \E w \in Workers, f \in Fees : SubscriptionStep(w, f)
  <2>1. UNCHANGED <<picked, billing, loaded, bills, member>>
    BY <1>6, SubscriptionProceeds DEF Shape, SubscriptionStep
  <2> QED BY <1>0, <2>1, LeftRest
<1>7. CASE \/ \E d \in Desk : SaveTotals(d) \/ \E s \in Sub : ReadTotals(d, s)
           \/ \E w \in Workers, type \in ServiceType : TakeSubscriptionJob(w, type)
           \/ Rest
  <2>1. UNCHANGED <<picked, billing, loaded, bills, member>>
    BY <1>7 DEF SaveTotals, ReadTotals, TakeSubscriptionJob, billVars, jobVars, Rest
  <2> QED BY <1>0, <2>1, LeftRest
<1> QED BY <1>1, <1>2, <1>3, <1>4, <1>5, <1>6, <1>7, Steps

(* Nothing is picked, and no bill is there, at first.                      *)
LEMMA InitLeft == BillingInit => Left
BY NothingIsEmpty DEF BillingInit, Left

(* The recipients a bill job would pick for a subscription, by the row.    *)
LEMMA Picks ==
  ASSUME Shape, NEW s \in DOMAIN subscription, ~Billed(s)
  PROVE  /\ subscription[s].fee \in Fees
         /\ \A m : m \in {p[2] : p \in {p \in PendingPairs : p[1] = s}} <=>
                   \E r \in HolderRows(subscription[s].fee) : r[1] = m
<1>1. subscription[s] \in Subscription BY Places DEF Shape, BillShape
<1>2. PICK f \in Fees : f = subscription[s].fee BY <1>1 DEF Subscription
<1>3. s \in Sub
  <2>1. PICK n \in Nat : n = Len(subscription) /\ s \in 1 .. n
    BY Places DEF Shape, BillShape
  <2>2. n <= MaxSubscriptions /\ MaxSubscriptions \in Nat
    BY <2>1, BillingAssumption DEF Shape, BillShape, BillingAssumption
  <2> QED BY <2>1, <2>2 DEF Sub
<1>4. ASSUME NEW p \in PendingPairs, p[1] = s
      PROVE  \E r \in HolderRows(f) : r[1] = p[2]
  <2>1. <<p[2], p[3]>> \in ActiveRows(f) /\ member[p[2]] = "ACTIVE"
    BY <1>2, <1>4 DEF PendingPairs
  <2>2. PICK r \in ActiveRows(f) : r[1] = p[2] /\ member[r[1]] = "ACTIVE" BY <2>1
  <2> QED BY <2>2 DEF HolderRows
<1>5. ASSUME NEW r \in HolderRows(f)
      PROVE  \E p \in PendingPairs : p[1] = s /\ p[2] = r[1]
  <2>1. r \in ActiveRows(f) /\ member[r[1]] = "ACTIVE" BY DEF HolderRows
  <2>2. r \in Members \X RowIds BY <2>1 DEF ActiveRows
  <2>3. PICK m \in Members, i \in RowIds : r = <<m, i>> BY <2>2
  <2>4. PICK p : p = <<s, m, i>> OBVIOUS
  <2>5. p \in Pairs /\ p[1] = s /\ p[2] = m /\ p[3] = i
    BY <1>3, <2>3, <2>4 DEF Pairs
  <2>6. <<p[2], p[3]>> \in ActiveRows(subscription[p[1]].fee)
    BY <1>2, <2>1, <2>3, <2>5
  <2>7. p \in PendingPairs BY <2>1, <2>3, <2>5, <2>6 DEF PendingPairs
  <2> QED BY <2>3, <2>5, <2>7
<1>6. \A m : m \in {p[2] : p \in {p \in PendingPairs : p[1] = s}} <=>
             \E r \in HolderRows(f) : r[1] = m
  BY <1>4, <1>5
<1> QED BY <1>2, <1>6

(* A list holds nothing but what it is cut from, and without a cut all.    *)
LEMMA CutOff ==
  ASSUME NEW S, NEW n, NEW P \in Cut(S, n)
  PROVE  /\ P \subseteq S
         /\ Cardinality(S) <= n => P = S
BY DEF Cut

(* What a screen says of a member on it: with a fee only if a row tells,   *)
(* and without one, unless the rows were cut, only if none does.           *)
LEMMA Shows ==
  ASSUME NEW f, NEW screen \in GetMembers(f, Members), NEW line \in screen
  PROVE  /\ line.hasServiceFee => \E r \in HolderRows(f) : r[1] = line.member
         /\ Cardinality(HolderRows(f)) <= HoldersLimit =>
              ((\E r \in HolderRows(f) : r[1] = line.member) => line.hasServiceFee)
<1>1. PICK listed \in Cut(Found(Members), ListLimit),
           holders \in UNION {FindByServiceFeeAndStatus(g) : g \in FindByCode(f)} :
             screen = {[member |-> m, hasServiceFee |-> m \in holders] : m \in listed}
  BY DEF GetMembers
<1>2. holders \in FindByServiceFeeAndStatus(f)
  BY <1>1 DEF FindByCode
<1>3. PICK rows \in Cut(HolderRows(f), HoldersLimit) : holders = {p[1] : p \in rows}
  BY <1>2 DEF FindByServiceFeeAndStatus
<1>4. PICK m \in listed : line = [member |-> m, hasServiceFee |-> m \in holders]
  BY <1>1
<1>5. line.member = m /\ (line.hasServiceFee <=> m \in holders)
  BY <1>4, Zenon
<1>6. rows \subseteq HolderRows(f)
  BY <1>3, CutOff
<1>7. Cardinality(HolderRows(f)) <= HoldersLimit => rows = HolderRows(f)
  BY <1>3, CutOff
<1> QED BY <1>3, <1>5, <1>6, <1>7

(* A fee that is due is listed, as far as the list reaches.                *)
LEMMA Lists ==
  ASSUME BillingAssumption
  PROVE  DueFeesAreListed
<1> SUFFICES ASSUME NEW type \in ServiceType,
                    NEW active, active = [type |-> {type}, status |-> {"ACTIVE"},
                                          minAmount |-> 0, maxAmount |-> MaxAmount,
                                          others |-> Fees]
             PROVE  /\ \A f \in DueToday(type) : GetServiceByCode(f) # {}
                    /\ \A listed \in AllFees(active) :
                         /\ Cardinality(DueToday(type)) <= listed.total
                         /\ listed.total <= ListLimit =>
                              \A f \in DueToday(type) : FeeLine(f) \in listed.items
  BY DEF DueFeesAreListed
<1> DEFINE found == FindByQueryAndAssociation(active)
<1>1. /\ active.type = {type} /\ active.status = {"ACTIVE"} /\ active.others = Fees
      /\ active.minAmount = 0 /\ active.maxAmount = MaxAmount
  OBVIOUS
<1>2. ASSUME NEW f \in DueToday(type)
      PROVE  f \in Fees /\ fee[f].status = "ACTIVE" /\ fee[f].type = type
  BY DEF DueToday
<1>3. DueToday(type) \subseteq found
  <2>1. ASSUME NEW f \in DueToday(type)
        PROVE  f \in found
    <3>1. fee[f] # NoFee BY <1>2 DEF NoFee
    <3>2. Cost[f] \in 0 .. MaxAmount BY <1>2 DEF BillingAssumption
    <3>3. Cost[f] \in active.minAmount .. active.maxAmount BY <1>1, <3>2
    <3> QED BY <1>1, <1>2, <3>1, <3>3 DEF FindByQueryAndAssociation
  <2> QED BY <2>1
<1>4. found \subseteq Fees
  BY <1>1 DEF FindByQueryAndAssociation
<1>5. ASSUME NEW f \in DueToday(type) PROVE GetServiceByCode(f) # {}
  <2>1. f \in FindByCode(f) BY <1>2 DEF FindByCode
  <2> QED BY <2>1 DEF GetServiceByCode
<1>6. Cardinality(DueToday(type)) <= Cardinality(found)
  <2>1. IsFiniteSet(found)
    BY <1>4, FS_Subset DEF BillingAssumption
  <2> QED BY <1>3, <2>1, FS_Subset
<1>7. ASSUME NEW listed \in AllFees(active)
      PROVE  /\ listed.total = Cardinality(found)
             /\ listed.total <= ListLimit =>
                  \A f \in DueToday(type) : FeeLine(f) \in listed.items
  <2>1. PICK page \in Cut(found, ListLimit) :
               listed = [items |-> {FeeLine(f) : f \in page}, total |-> Cardinality(found)]
    BY <1>7 DEF AllFees
  <2>2. listed.total = Cardinality(found) /\ listed.items = {FeeLine(f) : f \in page}
    BY <2>1
  <2>3. Cardinality(found) <= ListLimit => page = found
    BY <2>1, CutOff
  <2> QED BY <1>3, <2>2, <2>3
<1> QED BY <1>5, <1>6, <1>7

(* Every bill has a member, or somebody left between the reads of a bill   *)
(* job.  Jobs bill whomever the screens show as having the fee, for fees   *)
(* that the screens list; and whom the jobs bill the screens show, as far  *)
(* as their lists reach.                                                   *)
THEOREM BillsMatchTheScreens == BillingSpec => []BillsMatchScreens
<1>1. Shape /\ Left => BillsMatchScreens
  <2> SUFFICES ASSUME Shape, Left PROVE BillsMatchScreens OBVIOUS
  <2>1. BillsHaveAMember BY DEF Left, BillsHaveAMember
  <2> DEFINE Pending(s) == {p[2] : p \in {p \in PendingPairs : p[1] = s}}
             Tells(f, line, billed) ==
               /\ line.hasServiceFee => line.member \in billed
               /\ Cardinality(HolderRows(f)) <= HoldersLimit =>
                    (line.member \in billed => line.hasServiceFee)
  <2>2. ASSUME NEW s \in DOMAIN subscription, ~Billed(s),
               GetServiceByCode(subscription[s].fee) # {}
        PROVE  /\ Pending(s) \subseteq Found(Members)
               /\ \A screen \in GetMembers(subscription[s].fee, Members) :
                    \A line \in screen : Tells(subscription[s].fee, line, Pending(s))
    <3>1. PICK f \in Fees : f = subscription[s].fee BY <2>2, Picks
    <3>2. \A m : m \in Pending(s) <=> \E r \in HolderRows(f) : r[1] = m
      BY <2>2, <3>1, Picks, Zenon
    <3>3. ASSUME NEW m \in Pending(s) PROVE m \in Found(Members)
      <4>1. PICK r \in HolderRows(f) : r[1] = m BY <3>2, <3>3
      <4>2. r \in Members \X RowIds /\ member[m] = "ACTIVE"
        BY <4>1 DEF HolderRows, ActiveRows
      <4> QED BY <4>1, <4>2 DEF Found
    <3>4. ASSUME NEW screen \in GetMembers(f, Members), NEW line \in screen
          PROVE  Tells(f, line, Pending(s))
      <4> HIDE DEF Pending
      <4> QED BY <3>2, <3>4, Shows
    <3> QED BY <3>1, <3>3, <3>4
  <2>3. JobsBillWhomScreensShow BY <2>2, Zenon DEF JobsBillWhomScreensShow
  <2> QED BY <2>1, <2>3, Lists, BillingAssumption DEF BillsMatchScreens
<1> QED BY <1>1, InitLeft, NextLeft, ShapeHolds, PTL DEF BillingSpec

-----------------------------------------------------------------------------
(* What is billed and done with stays as it is.                            *)

Stays(s) == Billed(s) /\ ~AtWork(s) => ~AtWork(s)' /\ bills'[s] = bills[s]

(* Steps that take no pairs and bill nothing for a subscription.           *)
LEMMA StaysRest ==
  ASSUME NEW s \in Sub, bills'[s] = bills[s],
         \A k \in Workers : picked'[k] \cup DOMAIN billing'[k]
                              \subseteq picked[k] \cup DOMAIN billing[k]
  PROVE  Stays(s)
BY DEF Stays, AtWork

(* No step adds a bill to what is closed.                                  *)
LEMMA NextStays ==
  ASSUME Shape, [BillingNext]_vars, NEW s \in Sub
  PROVE  Stays(s)
<1>1. ASSUME NEW w \in Workers, TakeBillJob(w)
      PROVE  Stays(s)
  <2>1. picked' = [picked EXCEPT ![w] = PendingPairs] /\ UNCHANGED <<billing, bills>>
    BY <1>1 DEF TakeBillJob, billVars
  <2>2. \A k \in Workers : picked'[k] = IF k = w THEN PendingPairs ELSE picked[k]
    BY <2>1 DEF Shape, JobShape
  <2>3. Billed(s) => \A p \in PendingPairs : p[1] # s BY DEF PendingPairs
  <2> QED BY <2>1, <2>2, <2>3 DEF Stays, AtWork
<1>2. ASSUME NEW w \in Workers, LoadPairs(w)
      PROVE  Stays(s)
  <2>1. PICK B \in Partial(Pairs, Transaction), n \in [Sub -> Nat],
              l \in [fees : SUBSET Fees, members : SUBSET Members] : Loads(w, B, n, l)
    BY <1>2, Loading DEF Shape
  <2>2. \A k \in Workers : /\ picked'[k] = IF k = w THEN {} ELSE picked[k]
                           /\ billing'[k] = IF k = w THEN B ELSE billing[k]
    BY <2>1 DEF Loads, Shape, JobShape
  <2>3. \A k \in Workers : picked'[k] \cup DOMAIN billing'[k]
                              \subseteq picked[k] \cup DOMAIN billing[k]
    BY <2>1, <2>2 DEF Loads
  <2>4. bills' = bills BY <2>1 DEF Loads
  <2> QED BY <2>3, <2>4, StaysRest
<1>3. ASSUME NEW w \in Workers, NEW p \in DOMAIN billing[w], BillingStep(w, p)
      PROVE  Stays(s)
  <2>1. PICK B \in Partial(Pairs, Transaction) : Bills(w, p, B)
    BY <1>3, BillingProceeds, BillingAssumption DEF Shape
  <2>2. picked' = picked
    BY <1>3, BillingProceeds, BillingAssumption DEF Shape
  <2>3. \A k \in Workers : billing'[k] = IF k = w THEN B ELSE billing[k]
    BY <2>1 DEF Bills, Shape, JobShape
  <2>4. \A k \in Workers : picked'[k] \cup DOMAIN billing'[k]
                              \subseteq picked[k] \cup DOMAIN billing[k]
    BY <2>1, <2>2, <2>3 DEF Bills
  <2>5. CASE p[1] = s
    <3>1. AtWork(s) BY <2>5 DEF AtWork
    <3> QED BY <3>1 DEF Stays
  <2>6. CASE p[1] # s
    <3>1. bills' = bills \/ bills' = [bills EXCEPT ![p[1]][BillOf(w, p)] = @ + 1]
      BY <2>1 DEF Bills
    <3>2. bills'[s] = bills[s] BY <2>6, <3>1 DEF Shape, BillShape
    <3> QED BY <2>4, <3>2, StaysRest
  <2> QED BY <2>5, <2>6
<1>4. CASE \E w \in Workers : Crash(w)
  <2>1. PICK w \in Workers : Crash(w) BY <1>4
  <2>2. \A k \in Workers : /\ picked'[k] = IF k = w THEN {} ELSE picked[k]
                           /\ billing'[k] = IF k = w THEN Nothing ELSE billing[k]
    BY <2>1 DEF Crash, Shape, JobShape
  <2>3. \A k \in Workers : picked'[k] \cup DOMAIN billing'[k]
                              \subseteq picked[k] \cup DOMAIN billing[k]
    BY <2>2, NothingIsEmpty
  <2>4. bills' = bills BY <2>1 DEF Crash
  <2> QED BY <2>3, <2>4, StaysRest
<1>5. CASE \E w \in Workers, f \in Fees : SubscriptionStep(w, f)
  <2>1. UNCHANGED <<picked, billing, bills>>
    BY <1>5, SubscriptionProceeds DEF Shape, SubscriptionStep
  <2> QED BY <2>1, StaysRest
<1>6. CASE \/ \E d \in Desk : SaveTotals(d) \/ \E t \in Sub : ReadTotals(d, t)
           \/ \E w \in Workers, type \in ServiceType : TakeSubscriptionJob(w, type)
           \/ Executive
           \/ Rest
  <2>1. UNCHANGED <<picked, billing, bills>>
    BY <1>6
    DEF SaveTotals, ReadTotals, TakeSubscriptionJob, Executive, billVars, jobVars, Rest
  <2> QED BY <2>1, StaysRest
<1> QED BY <1>1, <1>2, <1>3, <1>4, <1>5, <1>6, Steps

(* A subscription that has a bill and that no job is at is closed: no job  *)
(* picks it again, and its bills stay what they are.                       *)
THEOREM BilledSubscriptionsAreClosed == BillingSpec => BilledOnceAndForAll
<1> DEFINE Closed == \A s \in Sub :
                       Billed(s) /\ ~AtWork(s) => ~AtWork(s)' /\ bills'[s] = bills[s]
<1>1. Shape /\ [BillingNext]_vars => Closed
  BY NextStays DEF Stays
<1> HIDE DEF Closed
<1>2. BillingSpec => [][Closed]_vars BY <1>1, ShapeHolds, PTL DEF BillingSpec
<1> QED BY <1>2, Zenon DEF BilledOnceAndForAll, Closed

-----------------------------------------------------------------------------
(* What a subscription asks for.                                           *)

(* The bills of a subscription, with those that have been added to a total *)
(* by transactions that are still under way.                               *)
Making(w) == {p \in DOMAIN billing[w] : billing[w][p].at \in {"inserted", "saving"}}

UnderWay(s) == {x \in Workers \X Pairs : x[2] \in Making(x[1]) /\ x[2][1] = s}

Raised(s) == BillCount(s) + Cardinality(UnderWay(s))

CostOf(s) == Cost[subscription[s].fee]

(* An update of the total of s to v waits, or a settlement has read it;    *)
(* then a worker's object may also say v, and may have counted a bill.     *)
Saves(s, v) ==
  \/ \E w \in Workers : \E p \in DOMAIN billing[w] :
       /\ p[1] = s
       /\ billing[w][p].at = "saving"
       /\ billing[w][p].payable = v
  \/ \E d \in Desk : desk[d].op = "settle" /\ desk[d].on = s /\ desk[d].read = v

Says(s, v) == Saves(s, v) \/ \E w \in Workers : total[w][s] = v

Inserted(w, s) ==
  \E p \in DOMAIN billing[w] : p[1] = s /\ billing[w][p].at = "inserted"

Counts(s, v) ==
  Saves(s, v) \/ \E w \in Workers : total[w][s] = v /\ Inserted(w, s)

(* No total, saved or about to be, exceeds the bills raised so far unless  *)
(* a transaction failed; one that is saved for a billed subscription has   *)
(* counted a bill; and a row that is not there yet has no bill and no      *)
(* total.                                                                  *)
Totals ==
  /\ \A s \in Sub \ DOMAIN subscription :
       ~Billed(s) /\ (\A v : ~Saves(s, v)) /\ \A w \in Workers : total[w][s] = 0
  /\ \A s \in DOMAIN subscription :
       /\ Billed(s) => subscription[s].payable >= CostOf(s)
       /\ \A v : Counts(s, v) => v >= CostOf(s)
  /\ ~failed =>
       \A s \in DOMAIN subscription :
         /\ subscription[s].payable <= CostOf(s) * Raised(s)
         /\ \A v : Says(s, v) => v <= CostOf(s) * Raised(s)

(* What the steps of a transaction do to it, to the other ones and to the  *)
(* totals of the workers.                                                  *)
Ends(w, p) == MissFee(w, p) \/ CommitBill(w, p) \/ FailBill(w, p)

(* Which transactions of a worker a step of one of them moves, and where.  *)
LEMMA Moves ==
  ASSUME Shape, NEW w \in Workers, NEW p \in DOMAIN billing[w], BillingStep(w, p)
  PROVE  /\ \A k \in Workers \ {w} : billing'[k] = billing[k]
         /\ \A q : q # p => (q \in DOMAIN billing'[w] <=> q \in DOMAIN billing[w])
         /\ \A q \in DOMAIN billing'[w] \ {p} : billing'[w][q] = billing[w][q]
         /\ p \in DOMAIN billing'[w] <=> ~Ends(w, p)
         /\ BeginBill(w, p) => billing'[w][p].at = "begun"
         /\ InsertBill(w, p) => billing'[w][p].at = "inserted"
         /\ SaveSubscription(w, p) =>
              /\ billing'[w][p].at = "saving"
              /\ billing'[w][p].payable = total[w][p[1]]
<1>1. /\ \A k \in Workers : billing[k] \in Partial(Pairs, Transaction)
      /\ billing \in [Workers -> Partial(Pairs, Transaction)]
  BY DEF Shape, JobShape
<1>2. PICK b : b = billing[w] OBVIOUS
<1>3. DOMAIN b \subseteq Pairs /\ b \in [DOMAIN b -> Transaction]
  BY <1>1, <1>2, PartialElim
<1>4. b[p] \in Transaction BY <1>2, <1>3
<1>5. ASSUME Ends(w, p) PROVE billing' = [billing EXCEPT ![w] = Without(b, p)]
  BY <1>2, <1>5 DEF Ends, MissFee, CommitBill, FailBill, EndBill
<1>6. CASE Ends(w, p)
  <2>1. billing'[w] = Without(b, p) /\ \A k \in Workers \ {w} : billing'[k] = billing[k]
    BY <1>1, <1>5, <1>6
  <2>2. /\ DOMAIN Without(b, p) = (DOMAIN b) \ {p}
        /\ \A q \in (DOMAIN b) \ {p} : Without(b, p)[q] = b[q]
    BY DEF Without
  <2>3. ~BeginBill(w, p) /\ ~InsertBill(w, p) /\ ~SaveSubscription(w, p)
    <3>1. \A t : billing' # [billing EXCEPT ![w][p] = t]
      <4> SUFFICES ASSUME NEW t, billing' = [billing EXCEPT ![w][p] = t] PROVE FALSE
        OBVIOUS
      <4>1. billing'[w] = [b EXCEPT ![p] = t] BY <1>1, <1>2
      <4>2. p \in DOMAIN billing'[w] BY <1>2, <4>1
      <4> QED BY <2>1, <2>2, <4>2
    <3> QED BY <3>1 DEF BeginBill, InsertBill, SaveSubscription
  <2> QED BY <1>2, <1>6, <2>1, <2>2, <2>3
<1>7. CASE ~Ends(w, p)
  <2>1. PICK t :
          /\ billing' = [billing EXCEPT ![w][p] = t]
          /\ BeginBill(w, p) => t.at = "begun"
          /\ InsertBill(w, p) => t.at = "inserted"
          /\ SaveSubscription(w, p) => t.at = "saving" /\ t.payable = total[w][p[1]]
    <3>1. CASE BeginBill(w, p)
      <4>1. PICK t : t = [billing[w][p] EXCEPT !.at = "begun"] OBVIOUS
      <4>2. billing' = [billing EXCEPT ![w][p] = t] BY <3>1, <4>1 DEF BeginBill
      <4>3. t.at = "begun" BY <1>2, <1>4, <4>1 DEF Transaction
      <4>4. ~InsertBill(w, p) /\ ~SaveSubscription(w, p)
        BY <3>1 DEF BeginBill, InsertBill, SaveSubscription, At
      <4> QED BY <4>2, <4>3, <4>4
    <3>2. CASE InsertBill(w, p)
      <4>1. PICK t : t = [billing[w][p] EXCEPT !.at = "inserted"] OBVIOUS
      <4>2. billing' = [billing EXCEPT ![w][p] = t] BY <3>2, <4>1 DEF InsertBill
      <4>3. t.at = "inserted" BY <1>2, <1>4, <4>1 DEF Transaction
      <4>4. ~BeginBill(w, p) /\ ~SaveSubscription(w, p)
        BY <3>2 DEF BeginBill, InsertBill, SaveSubscription, At
      <4> QED BY <4>2, <4>3, <4>4
    <3>3. CASE SaveSubscription(w, p)
      <4>1. PICK t : t = [at |-> "saving", payable |-> total[w][p[1]]] OBVIOUS
      <4>2. billing' = [billing EXCEPT ![w][p] = t] BY <3>3, <4>1 DEF SaveSubscription
      <4>3. ~BeginBill(w, p) /\ ~InsertBill(w, p)
        BY <3>3 DEF BeginBill, InsertBill, SaveSubscription, At
      <4>4. t.at = "saving" /\ t.payable = total[w][p[1]] BY <4>1
      <4> QED BY <4>2, <4>3, <4>4
    <3> QED BY <1>7, <3>1, <3>2, <3>3 DEF BillingStep, Ends
  <2>2. billing'[w] = [b EXCEPT ![p] = t] /\ \A k \in Workers \ {w} : billing'[k] = billing[k]
    BY <1>1, <1>2, <2>1
  <2>3. /\ DOMAIN billing'[w] = DOMAIN b
        /\ billing'[w][p] = t
        /\ \A q \in DOMAIN b \ {p} : billing'[w][q] = b[q]
    BY <1>2, <2>2
  <2> QED BY <1>2, <1>7, <2>1, <2>2, <2>3
<1> QED BY <1>6, <1>7

(* The totals of the workers after that.                                   *)
LEMMA MovesTotals ==
  ASSUME Shape, NEW w \in Workers, NEW p \in DOMAIN billing[w], BillingStep(w, p),
         NEW k \in Workers, NEW s \in Sub
  PROVE  \/ total'[k][s] = total[k][s]
         \/ total'[k][s] = 0 /\ (k = w => DOMAIN billing'[k] = {})
         \/ /\ InsertBill(w, p) /\ k = w /\ s = p[1]
            /\ total'[k][s] = total[k][s] + CostOf(s)
<1>1. total \in [Workers -> [Sub -> Nat]] BY DEF Shape, JobShape
<1>2. p[1] \in Sub BY JobsHold DEF Shape, Pairs
<1>3. CASE InsertBill(w, p)
  <2>1. total' = [total EXCEPT ![w][p[1]] = @ + Cost[FeeOf(p)]] BY <1>3 DEF InsertBill
  <2>2. CASE k = w /\ s = p[1]
    BY <1>1, <1>2, <1>3, <2>1, <2>2 DEF CostOf, FeeOf
  <2>3. CASE ~(k = w /\ s = p[1])
    BY <1>1, <1>2, <2>1, <2>3
  <2> QED BY <2>2, <2>3
<1>4. CASE BeginBill(w, p) \/ SaveSubscription(w, p)
  BY <1>4 DEF BeginBill, SaveSubscription
<1>5. CASE Ends(w, p)
  <2>1. EndBill(w, p) BY <1>5 DEF Ends, MissFee, CommitBill, FailBill
  <2>2. CASE DOMAIN billing[w] = {p}
    <3>1. total' = [total EXCEPT ![w] = NoTotals] BY <2>1, <2>2 DEF EndBill
    <3>2. DOMAIN billing'[w] = {}
      <4>1. \A q : q \in DOMAIN billing'[w] => q # p /\ q \in DOMAIN billing[w]
        BY <1>5, Moves
      <4> QED BY <2>2, <4>1
    <3>3. total'[k] = IF k = w THEN NoTotals ELSE total[k] BY <1>1, <3>1
    <3>4. NoTotals[s] = 0 BY DEF NoTotals
    <3> QED BY <3>2, <3>3, <3>4
  <2>3. CASE DOMAIN billing[w] # {p}
    <3>1. total' = total BY <2>1, <2>3 DEF EndBill
    <3> QED BY <3>1
  <2> QED BY <2>2, <2>3
<1> QED BY <1>3, <1>4, <1>5 DEF BillingStep, Ends

(* The other steps, as far as totals are concerned.                        *)
Quiet ==
  /\ UNCHANGED <<billing, total, subscription, bills, failed>>
  /\ \A d \in Desk : desk'[d].op = "settle" => desk'[d] = desk[d]

(* Executives and members change no total, and start to read none.         *)
LEMMA QuietExecutive ==
  ASSUME Shape, Executive
  PROVE  Quiet
<1>0. UNCHANGED <<billing, total, subscription, bills, failed>>
  <2>1. UNCHANGED <<jobVars, billVars>> BY Zenon DEF Executive
  <2> QED BY <2>1 DEF jobVars, billVars
<1>1. CASE \E d \in Desk : DeskStep(d)
  <2>1. PICK d \in Desk : DeskStep(d) BY <1>1
  <2>2. \A e \in Desk : desk'[e] = IF e = d THEN Idle ELSE desk[e]
    BY <2>1, DeskStepFees DEF Shape, GroupShape
  <2>3. Idle.op # "settle" BY DEF Idle
  <2> QED BY <1>0, <2>2, <2>3 DEF Quiet
<1>2. CASE \E f \in Fees, q \in ServiceFeeRequest, due \in Nat : CreateService(f, q, due)
  <2>1. desk' = desk BY <1>2, NewFee
  <2> QED BY <1>0, <2>1 DEF Quiet
<1>3. CASE \E d \in Desk, f \in Fees, M \in SUBSET Members :
             AddMember(d, f, M) \/ RemoveMember(d, f, M) \/ DeActivateFee(d, f)
  <2>1. PICK d \in Desk, f \in Fees, M \in SUBSET Members :
             AddMember(d, f, M) \/ RemoveMember(d, f, M) \/ DeActivateFee(d, f)
    BY <1>3
  <2>2. /\ \A e \in Desk \ {d} : desk'[e] = desk[e]
        /\ desk'[d].op # "settle"
    BY <2>1, Reading
  <2> QED BY <1>0, <2>2 DEF Quiet
<1>4. CASE \E m \in Members : LeaveAssociation(m)
  BY <1>0, <1>4 DEF LeaveAssociation, Quiet
<1>5. {} \in SUBSET Members OBVIOUS
<1>6. \/ \E d \in Desk : DeskStep(d)
      \/ \E f \in Fees, q \in ServiceFeeRequest, due \in Nat : CreateService(f, q, due)
      \/ \E d \in Desk, f \in Fees, M \in SUBSET Members :
           AddMember(d, f, M) \/ RemoveMember(d, f, M)
      \/ \E d \in Desk, f \in Fees : DeActivateFee(d, f)
      \/ \E m \in Members : LeaveAssociation(m)
  BY ExecutiveSteps, Zenon
<1> QED BY <1>1, <1>2, <1>3, <1>4, <1>5, <1>6

(* The steps that may change a total, and the others.                      *)
LEMMA TotalsSteps ==
  ASSUME Shape, [BillingNext]_vars
  PROVE  \/ Quiet
         \/ \E d \in Desk : SaveTotals(d)
         \/ \E d \in Desk, s \in Sub : ReadTotals(d, s)
         \/ \E w \in Workers, f \in Fees : CreateSubscription(w, f)
         \/ \E w \in Workers : LoadPairs(w)
         \/ \E w \in Workers : \E p \in DOMAIN billing[w] : BillingStep(w, p)
         \/ \E w \in Workers : Crash(w)
<1>1. ASSUME NEW w \in Workers, NEW f \in Fees,
             BeginSubscription(w, f) \/ FailSubscription(w, f)
      PROVE  Quiet
  BY <1>1 DEF BeginSubscription, FailSubscription, groupVars, billVars, Quiet
<1>2. CASE \/ \E w \in Workers, type \in ServiceType : TakeSubscriptionJob(w, type)
           \/ \E w \in Workers : TakeBillJob(w)
           \/ Rest
  <2>1. UNCHANGED <<desk, billing, total, subscription, bills, failed>>
    BY <1>2, Zenon DEF TakeSubscriptionJob, TakeBillJob, Rest, billVars
  <2> QED BY <2>1 DEF Quiet
<1> QED BY <1>1, <1>2, QuietExecutive, Steps DEF SubscriptionStep

(* What a job says of totals when it has loaded its pairs.                 *)
LEMMA LoadedTotals ==
  ASSUME Shape, NEW w \in Workers, LoadPairs(w)
  PROVE  /\ UNCHANGED <<desk, subscription, bills, failed>>
         /\ DOMAIN billing[w] = {}
         /\ \A p \in DOMAIN billing'[w] : billing'[w][p].at = "queued"
         /\ \A k \in Workers \ {w} : billing'[k] = billing[k] /\ total'[k] = total[k]
         /\ \A s \in Sub :
              \/ total'[w][s] = 0
              \/ s \in DOMAIN subscription /\ total'[w][s] = subscription[s].payable
<1>1. PICK B \in Partial(Pairs, Transaction), n \in [Sub -> Nat],
            l \in [fees : SUBSET Fees, members : SUBSET Members] : Loads(w, B, n, l)
  BY Loading DEF Shape
<1>2. UNCHANGED <<desk, subscription, bills, failed>> BY <1>1 DEF Loads
<1>3. \A k \in Workers : /\ billing'[k] = IF k = w THEN B ELSE billing[k]
                         /\ total'[k] = IF k = w THEN n ELSE total[k]
  BY <1>1 DEF Loads, Shape, JobShape
<1>4. \A p \in DOMAIN billing'[w] : billing'[w][p].at = "queued"
  BY <1>1, <1>3 DEF Loads
<1>5. DOMAIN billing[w] = {} BY DEF LoadPairs, Shape, PairsNamed
<1>6. ASSUME NEW s \in Sub
      PROVE  \/ total'[w][s] = 0
             \/ s \in DOMAIN subscription /\ total'[w][s] = subscription[s].payable
  <2>1. total'[w][s] = IF \E p \in picked[w] : p[1] = s
                         THEN subscription[s].payable ELSE 0
    BY DEF LoadPairs, Shape, JobShape
  <2> QED BY <2>1 DEF Shape, PairsNamed
<1> QED BY <1>2, <1>3, <1>4, <1>5, <1>6

(* And what is left of them when its worker dies.                          *)
LEMMA CrashedTotals ==
  ASSUME Shape, NEW w \in Workers, Crash(w)
  PROVE  /\ UNCHANGED <<desk, subscription, bills>> /\ failed' = TRUE
         /\ DOMAIN billing'[w] = {}
         /\ \A k \in Workers \ {w} : billing'[k] = billing[k] /\ total'[k] = total[k]
         /\ \A s \in Sub : total'[w][s] = 0
<1>1. UNCHANGED <<desk, subscription, bills>> /\ failed' = TRUE
  BY DEF Crash, groupVars
<1>2. \A k \in Workers : /\ billing'[k] = IF k = w THEN Nothing ELSE billing[k]
                         /\ total'[k] = IF k = w THEN NoTotals ELSE total[k]
  BY DEF Crash, Shape, JobShape
<1> QED BY <1>1, <1>2, NothingIsEmpty DEF NoTotals

(* What the settlements do.                                                *)
LEMMA SettlementTotals ==
  ASSUME Shape, NEW d \in Desk, SaveTotals(d) \/ \E s \in Sub : ReadTotals(d, s)
  PROVE  /\ UNCHANGED <<billing, total, bills, failed>>
         /\ \A e \in Desk \ {d} : desk'[e] = desk[e]
         /\ SaveTotals(d) =>
              /\ desk'[d].op # "settle"
              /\ subscription' = [subscription EXCEPT ![desk[d].on].payable = desk[d].read]
         /\ \A s \in Sub : ReadTotals(d, s) =>
              /\ s \in DOMAIN subscription /\ Billed(s)
              /\ subscription' = subscription
              /\ desk'[d] = [op |-> "settle", on |-> s, read |-> subscription[s].payable]
<1>1. UNCHANGED <<billing, total, bills, failed>>
  BY DEF SaveTotals, ReadTotals, jobVars, billVars
<1>2. PICK v : desk' = [desk EXCEPT ![d] = v] BY DEF SaveTotals, ReadTotals
<1>3. \A e \in Desk : desk'[e] = IF e = d THEN v ELSE desk[e]
  BY <1>2 DEF Shape, GroupShape
<1>4. ASSUME SaveTotals(d)
      PROVE  /\ desk'[d].op # "settle"
             /\ subscription' = [subscription EXCEPT ![desk[d].on].payable = desk[d].read]
  <2>1. desk'[d] = Idle BY <1>4 DEF SaveTotals, Shape, GroupShape
  <2> QED BY <1>4, <2>1 DEF SaveTotals, Idle
<1>5. ASSUME NEW s \in Sub, ReadTotals(d, s)
      PROVE  /\ s \in DOMAIN subscription /\ Billed(s)
             /\ subscription' = subscription
             /\ desk'[d] = [op |-> "settle", on |-> s, read |-> subscription[s].payable]
  BY <1>5 DEF ReadTotals, Shape, GroupShape, billVars
<1> QED BY <1>1, <1>3, <1>4, <1>5

(* Where a total comes from that a step is about to save.                  *)
LEMMA SavesStep ==
  ASSUME Shape, [BillingNext]_vars, NEW s \in Sub, NEW v, Saves(s, v)'
  PROVE  \/ Counts(s, v)
         \/ s \in DOMAIN subscription /\ Billed(s) /\ v = subscription[s].payable
<1>0. SUFFICES ASSUME ~Saves(s, v)
               PROVE  \/ Counts(s, v)
                      \/ s \in DOMAIN subscription /\ Billed(s) /\ v = subscription[s].payable
  BY DEF Counts
<1>1. \/ \E w \in Workers : \E p \in DOMAIN billing'[w] :
           /\ p[1] = s
           /\ billing'[w][p].at = "saving"
           /\ billing'[w][p].payable = v
      \/ \E d \in Desk : desk'[d].op = "settle" /\ desk'[d].on = s /\ desk'[d].read = v
  BY DEF Saves
<1>2. CASE Quiet
  <2>1. Saves(s, v) BY <1>1, <1>2 DEF Quiet, Saves
  <2> QED BY <1>0, <2>1
<1>3. CASE \E d \in Desk : SaveTotals(d)
  <2>1. PICK d \in Desk : SaveTotals(d) BY <1>3
  <2>2. billing' = billing /\ \A e \in Desk : desk'[e] = desk[e] \/ desk'[e].op # "settle"
    BY <2>1, SettlementTotals
  <2>3. Saves(s, v) BY <1>1, <2>2 DEF Saves
  <2> QED BY <1>0, <2>3
<1>4. CASE \E d \in Desk, t \in Sub : ReadTotals(d, t)
  <2>1. PICK d \in Desk, t \in Sub : ReadTotals(d, t) BY <1>4
  <2>2. /\ billing' = billing
        /\ \A e \in Desk \ {d} : desk'[e] = desk[e]
        /\ t \in DOMAIN subscription /\ Billed(t)
        /\ desk'[d] = [op |-> "settle", on |-> t, read |-> subscription[t].payable]
    BY <2>1, SettlementTotals
  <2>3. CASE desk'[d].on = s /\ desk'[d].read = v
    BY <2>2, <2>3
  <2>4. CASE ~(desk'[d].on = s /\ desk'[d].read = v)
    <3>1. Saves(s, v) BY <1>1, <2>2, <2>4 DEF Saves
    <3> QED BY <1>0, <3>1
  <2> QED BY <2>3, <2>4
<1>5. CASE \E w \in Workers, f \in Fees : CreateSubscription(w, f)
  <2>1. UNCHANGED <<desk, billing>> BY <1>5 DEF CreateSubscription
  <2>2. Saves(s, v) BY <1>1, <2>1 DEF Saves
  <2> QED BY <1>0, <2>2
<1>6. CASE \E w \in Workers : LoadPairs(w)
  <2>1. PICK w \in Workers : LoadPairs(w) BY <1>6
  <2>2. /\ desk' = desk
        /\ \A p \in DOMAIN billing'[w] : billing'[w][p].at = "queued"
        /\ \A k \in Workers \ {w} : billing'[k] = billing[k]
    BY <2>1, LoadedTotals
  <2>3. Saves(s, v) BY <1>1, <2>2 DEF Saves
  <2> QED BY <1>0, <2>3
<1>7. CASE \E w \in Workers : \E p \in DOMAIN billing[w] : BillingStep(w, p)
  <2>0. PICK w \in Workers : \E p \in DOMAIN billing[w] : BillingStep(w, p) BY <1>7
  <2>1. PICK p \in DOMAIN billing[w] : BillingStep(w, p) BY <2>0
  <2>2. desk' = desk
    BY <2>1, BillingProceeds, BillingAssumption DEF Shape, groupVars
  <2>3. /\ \A k \in Workers \ {w} : billing'[k] = billing[k]
        /\ \A q \in DOMAIN billing'[w] \ {p} :
             q \in DOMAIN billing[w] /\ billing'[w][q] = billing[w][q]
    BY <2>1, Moves
  <2>4. PICK q \in DOMAIN billing'[w] : /\ q = p /\ p[1] = s
                                        /\ billing'[w][p].at = "saving"
                                        /\ billing'[w][p].payable = v
    <3> SUFFICES ASSUME ~ \E q \in DOMAIN billing'[w] :
                            /\ q = p /\ p[1] = s
                            /\ billing'[w][p].at = "saving"
                            /\ billing'[w][p].payable = v
                 PROVE  FALSE
      OBVIOUS
    <3>1. Saves(s, v) BY <1>1, <2>2, <2>3 DEF Saves
    <3> QED BY <1>0, <3>1
  <2>5. SaveSubscription(w, p)
    BY <2>1, <2>4, Moves DEF BillingStep, Ends
  <2>6. billing[w][p].at = "inserted" /\ total[w][s] = v
    BY <2>1, <2>4, <2>5, Moves DEF SaveSubscription, At
  <2> QED BY <2>4, <2>6 DEF Counts, Inserted
<1>8. CASE \E w \in Workers : Crash(w)
  <2>1. PICK w \in Workers : Crash(w) BY <1>8
  <2>2. /\ desk' = desk
        /\ DOMAIN billing'[w] = {}
        /\ \A k \in Workers \ {w} : billing'[k] = billing[k]
    BY <2>1, CrashedTotals
  <2>3. Saves(s, v) BY <1>1, <2>2 DEF Saves
  <2> QED BY <1>0, <2>3
<1> QED BY <1>2, <1>3, <1>4, <1>5, <1>6, <1>7, <1>8, TotalsSteps

(* Where a total comes from that a worker's object has.                    *)
LEMMA TotalStep ==
  ASSUME Shape, [BillingNext]_vars, NEW k \in Workers, NEW s \in Sub
  PROVE  \/ total'[k][s] = total[k][s] /\ (Inserted(k, s)' => Inserted(k, s))
         \/ total'[k][s] = 0 /\ ~Inserted(k, s)'
         \/ /\ s \in DOMAIN subscription /\ total'[k][s] = subscription[s].payable
            /\ ~Inserted(k, s)'
         \/ /\ s \in DOMAIN subscription
            /\ \E p \in DOMAIN billing[k] : InsertBill(k, p) /\ p[1] = s
            /\ total'[k][s] = total[k][s] + CostOf(s)
<1>1. CASE \/ Quiet
           \/ \E d \in Desk : SaveTotals(d)
           \/ \E d \in Desk, t \in Sub : ReadTotals(d, t)
           \/ \E w \in Workers, f \in Fees : CreateSubscription(w, f)
  <2>1. UNCHANGED <<billing, total>>
    BY <1>1 DEF Quiet, SaveTotals, ReadTotals, CreateSubscription, jobVars
  <2> QED BY <2>1 DEF Inserted
<1>2. CASE \E w \in Workers : LoadPairs(w)
  <2>1. PICK w \in Workers : LoadPairs(w) BY <1>2
  <2>2. CASE k = w
    <3>1. ~Inserted(k, s)' BY <2>1, <2>2, LoadedTotals DEF Inserted
    <3>2. \/ total'[k][s] = 0
          \/ s \in DOMAIN subscription /\ total'[k][s] = subscription[s].payable
      BY <2>1, <2>2, LoadedTotals
    <3> QED BY <3>1, <3>2
  <2>3. CASE k # w
    <3>1. billing'[k] = billing[k] /\ total'[k] = total[k] BY <2>1, <2>3, LoadedTotals
    <3> QED BY <3>1 DEF Inserted
  <2> QED BY <2>2, <2>3
<1>3. CASE \E w \in Workers : \E p \in DOMAIN billing[w] : BillingStep(w, p)
  <2>0. PICK w \in Workers : \E p \in DOMAIN billing[w] : BillingStep(w, p) BY <1>3
  <2>1. PICK p \in DOMAIN billing[w] : BillingStep(w, p) BY <2>0
  <2>2. p[1] \in DOMAIN subscription BY DEF Shape, PairsNamed
  <2>3. \/ total'[k][s] = total[k][s]
        \/ total'[k][s] = 0 /\ (k = w => DOMAIN billing'[k] = {})
        \/ /\ InsertBill(w, p) /\ k = w /\ s = p[1]
           /\ total'[k][s] = total[k][s] + CostOf(s)
    BY <2>1, MovesTotals
  <2>4. CASE k # w
    <3>1. total'[k][s] = total[k][s]
      <4>1. CASE Ends(w, p)
        <5>1. EndBill(w, p) BY <4>1 DEF Ends, MissFee, CommitBill, FailBill
        <5> QED BY <2>4, <5>1 DEF EndBill, Shape, JobShape
      <4>2. CASE InsertBill(w, p)
        BY <2>4, <4>2 DEF InsertBill, Shape, JobShape
      <4> QED BY <2>1, <4>1, <4>2 DEF BillingStep, Ends, BeginBill, SaveSubscription
    <3>2. billing'[k] = billing[k] BY <2>1, <2>4, Moves
    <3> QED BY <3>1, <3>2 DEF Inserted
  <2>5. CASE k = w
    <3>1. CASE InsertBill(w, p) /\ s = p[1]
      <4>1. total'[k][s] = total[k][s] + CostOf(s)
        <5>1. total \in [Workers -> [Sub -> Nat]] BY DEF Shape, JobShape
        <5> QED BY <2>5, <3>1, <5>1 DEF InsertBill, CostOf, FeeOf
      <4> QED BY <2>2, <2>5, <3>1, <4>1
    <3>2. CASE ~(InsertBill(w, p) /\ s = p[1])
      <4>1. /\ \A q \in DOMAIN billing'[w] \ {p} :
                 q \in DOMAIN billing[w] /\ billing'[w][q] = billing[w][q]
            /\ p \in DOMAIN billing'[w] /\ p[1] = s => billing'[w][p].at # "inserted"
        BY <2>1, <3>2, Moves DEF BillingStep, Ends
      <4>2. Inserted(k, s)' => Inserted(k, s) BY <2>5, <4>1 DEF Inserted
      <4>3. DOMAIN billing'[k] = {} => ~Inserted(k, s)' BY DEF Inserted
      <4> QED BY <2>3, <2>5, <3>2, <4>2, <4>3
    <3> QED BY <3>1, <3>2
  <2> QED BY <2>4, <2>5
<1>4. CASE \E w \in Workers : Crash(w)
  <2>1. PICK w \in Workers : Crash(w) BY <1>4
  <2>2. CASE k = w
    <3>1. ~Inserted(k, s)' BY <2>1, <2>2, CrashedTotals DEF Inserted
    <3> QED BY <2>1, <2>2, <3>1, CrashedTotals
  <2>3. CASE k # w
    <3>1. billing'[k] = billing[k] /\ total'[k] = total[k] BY <2>1, <2>3, CrashedTotals
    <3> QED BY <3>1 DEF Inserted
  <2> QED BY <2>2, <2>3
<1> QED BY <1>1, <1>2, <1>3, <1>4, TotalsSteps

(* What becomes of a row and of its bills.                                 *)
LEMMA RowStep ==
  ASSUME Shape, [BillingNext]_vars, NEW s \in Sub
  PROVE  /\ s \in DOMAIN subscription =>
              /\ s \in DOMAIN subscription' /\ CostOf(s)' = CostOf(s)
              /\ \/ subscription'[s].payable = subscription[s].payable
                 \/ Saves(s, subscription'[s].payable)
         /\ s \in DOMAIN subscription' \ DOMAIN subscription =>
              subscription'[s].payable = 0 /\ bills' = bills
         /\ Billed(s)' => \/ Billed(s)
                          \/ /\ s \in DOMAIN subscription
                             /\ Saves(s, subscription'[s].payable)
<1>0. subscription \in Seq(Subscription) /\ s \in Nat BY DEF Shape, BillShape, Sub
<1>1. CASE /\ UNCHANGED <<subscription, bills>>
  BY <1>1 DEF CostOf, Billed
<1>2. CASE \E d \in Desk : SaveTotals(d)
  <2>1. PICK d \in Desk : SaveTotals(d) BY <1>2
  <2>2. /\ bills' = bills
        /\ subscription' = [subscription EXCEPT ![desk[d].on].payable = desk[d].read]
    BY <2>1, SettlementTotals
  <2>3. TotalSaved BY <2>1, TotalsShape, BillingAssumption
  <2>4. s \in DOMAIN subscription =>
          subscription'[s] = IF s = desk[d].on
                               THEN [subscription[s] EXCEPT !.payable = desk[d].read]
                               ELSE subscription[s]
    BY <2>2
  <2>5. s \in DOMAIN subscription => subscription[s] \in Subscription BY <1>0, Places
  <2>6. s \in DOMAIN subscription =>
          \/ subscription'[s].payable = subscription[s].payable
          \/ s = desk[d].on /\ subscription'[s].payable = desk[d].read
    BY <2>4, <2>5 DEF Subscription
  <2>7. s \in DOMAIN subscription =>
          \/ subscription'[s].payable = subscription[s].payable
          \/ Saves(s, subscription'[s].payable)
    BY <2>1, <2>6 DEF Saves, SaveTotals
  <2> QED BY <2>2, <2>3, <2>7 DEF TotalSaved, CostOf, Billed
<1>3. CASE \E w \in Workers, f \in Fees : CreateSubscription(w, f)
  <2>1. PICK w \in Workers, f \in Fees : CreateSubscription(w, f) BY <1>3
  <2>2. /\ DOMAIN subscription' = DOMAIN subscription \cup {Len(subscription) + 1}
        /\ \A t \in DOMAIN subscription : subscription'[t] = subscription[t]
    BY <2>1, SubscriptionIsAppended DEF CreateSubscription, Shape
  <2>3. bills' = bills BY <2>1 DEF CreateSubscription
  <2>4. s \in DOMAIN subscription' \ DOMAIN subscription => subscription'[s].payable = 0
    <3>1. subscription' = Append(subscription, [fee |-> f, payable |-> 0])
      BY <2>1 DEF CreateSubscription
    <3>2. subscription'[Len(subscription) + 1] = [fee |-> f, payable |-> 0]
      BY <1>0, <3>1
    <3> QED BY <2>2, <3>2
  <2> QED BY <2>2, <2>3, <2>4 DEF CostOf, Billed
<1>4. CASE \E w \in Workers : \E p \in DOMAIN billing[w] : BillingStep(w, p)
  <2>0. PICK w \in Workers : \E p \in DOMAIN billing[w] : BillingStep(w, p) BY <1>4
  <2>1. PICK p \in DOMAIN billing[w] : BillingStep(w, p) BY <2>0
  <2>2. CASE CommitBill(w, p)
    <3>1. TotalSaved
      BY <2>1, BillingProceeds, BillingAssumption DEF Shape
    <3>2. /\ subscription' = [subscription EXCEPT ![p[1]].payable = billing[w][p].payable]
          /\ bills' = [bills EXCEPT ![p[1]][BillOf(w, p)] = @ + 1]
          /\ billing[w][p].at = "saving"
      BY <2>2 DEF CommitBill, BillOf, At
    <3>3. p[1] \in DOMAIN subscription BY DEF Shape, PairsNamed
    <3>4. CASE s = p[1]
      <4>1. subscription[s] \in Subscription BY <1>0, <3>3, <3>4, Places
      <4>2. subscription'[s].payable = billing[w][p].payable
        BY <3>2, <3>3, <3>4, <4>1 DEF Subscription
      <4>3. Saves(s, subscription'[s].payable) BY <3>2, <3>4, <4>2 DEF Saves
      <4> QED BY <3>1, <3>3, <3>4, <4>3 DEF TotalSaved, CostOf
    <3>5. CASE s # p[1]
      <4>1. s \in DOMAIN subscription => subscription'[s] = subscription[s]
        BY <3>2, <3>5
      <4>2. bills'[s] = bills[s] BY <3>2, <3>5 DEF Shape, BillShape
      <4> QED BY <3>1, <4>1, <4>2 DEF TotalSaved, CostOf, Billed
    <3> QED BY <3>4, <3>5
  <2>3. CASE ~CommitBill(w, p)
    BY <1>1, <2>1, <2>3 DEF BillingStep, BeginBill, InsertBill, MissFee,
                       SaveSubscription, FailBill, billVars
  <2> QED BY <2>2, <2>3
<1>5. CASE \/ Quiet
           \/ \E d \in Desk, t \in Sub : ReadTotals(d, t)
           \/ \E w \in Workers : LoadPairs(w) \/ Crash(w)
  BY <1>1, <1>5 DEF Quiet, ReadTotals, LoadPairs, Crash, billVars
<1> QED BY <1>2, <1>3, <1>4, <1>5, TotalsSteps

(* Bills and transactions can be counted.                                  *)
LEMMA RaisedType ==
  ASSUME Shape, BillingAssumption, NEW s \in Sub
  PROVE  /\ IsFiniteSet(UnderWay(s))
         /\ BillCount(s) \in Nat /\ Cardinality(UnderWay(s)) \in Nat
         /\ Raised(s) \in Nat
<1>1. IsFiniteSet(UnderWay(s))
  <2> DEFINE All == UNION {Holders(w) : w \in Workers}
  <2>1. IsFiniteSet({Holders(w) : w \in Workers})
    <3> DEFINE T == {Holders(w) : w \in Workers}
               f == [w \in Workers |-> Holders(w)]
    <3>1. f \in [Workers -> T] /\ \A t \in T : \E w \in Workers : f[w] = t OBVIOUS
    <3> HIDE DEF f, T
    <3>2. f \in Surjection(Workers, T) BY <3>1 DEF Surjection
    <3>3. IsFiniteSet(T) BY <3>2, FS_Surjection DEF BillingAssumption
    <3> QED BY <3>3 DEF T
  <2>2. IsFiniteSet(All) BY <2>1, FS_UNION DEF Shape, PoolKept
  <2>3. IsFiniteSet(Workers \X All) BY <2>2, FS_Product DEF BillingAssumption
  <2>4. UnderWay(s) \subseteq Workers \X All BY DEF UnderWay, Making, Holders
  <2> QED BY <2>3, <2>4, FS_Subset
<1>2. Cardinality(UnderWay(s)) \in Nat BY <1>1, FS_CardinalityType
<1>3. BillCount(s) \in Nat
  <2>1. IsFiniteSet(Members \cup {None}) BY FS_AddElement DEF BillingAssumption
  <2>2. \A m \in Members \cup {None} : bills[s][m] \in Nat BY DEF Shape, BillShape
  <2> QED BY <2>1, <2>2, SumNat DEF BillCount
<1> QED BY <1>1, <1>2, <1>3 DEF Raised

(* The transactions under way, when they move in one worker only.          *)
LEMMA UnderWayStep ==
  ASSUME NEW w \in Workers, NEW p \in Pairs, NEW s \in Sub,
         \A k \in Workers \ {w} : Making(k)' = Making(k),
         Making(w)' \ {p} = Making(w) \ {p}
  PROVE  /\ p[1] # s \/ (p \in Making(w)' <=> p \in Making(w))
              => UnderWay(s)' = UnderWay(s)
         /\ p[1] = s /\ p \in Making(w)' /\ p \notin Making(w)
              => UnderWay(s)' = UnderWay(s) \cup {<<w, p>>} /\ <<w, p>> \notin UnderWay(s)
         /\ p[1] = s /\ p \notin Making(w)' /\ p \in Making(w)
              => UnderWay(s)' = UnderWay(s) \ {<<w, p>>} /\ <<w, p>> \in UnderWay(s)
<1>1. ASSUME NEW k \in Workers, NEW q \in Pairs, k # w \/ q # p
      PROVE  q \in Making(k)' <=> q \in Making(k)
  BY <1>1
<1>2. ASSUME NEW k \in Workers, NEW q \in Pairs, <<k, q>> # <<w, p>>
      PROVE  <<k, q>> \in UnderWay(s)' <=> <<k, q>> \in UnderWay(s)
  BY <1>1, <1>2 DEF UnderWay
<1>3. /\ <<w, p>> \in UnderWay(s) <=> p \in Making(w) /\ p[1] = s
      /\ <<w, p>> \in UnderWay(s)' <=> p \in Making(w)' /\ p[1] = s
  BY DEF UnderWay
<1>4. UnderWay(s) \subseteq Workers \X Pairs /\ UnderWay(s)' \subseteq Workers \X Pairs
  BY DEF UnderWay
<1> QED BY <1>2, <1>3, <1>4

(* A bill that is inserted is one bill more.                               *)
LEMMA RaisedByInsert ==
  ASSUME Shape, BillingAssumption, NEW w \in Workers, NEW p \in DOMAIN billing[w],
         InsertBill(w, p), NEW s \in Sub
  PROVE  Raised(s)' = IF p[1] = s THEN Raised(s) + 1 ELSE Raised(s)
<1>1. BillingStep(w, p) BY DEF BillingStep
<1>2. p \in Pairs BY JobsHold DEF Shape
<1>3. /\ \A k \in Workers \ {w} : Making(k)' = Making(k)
      /\ Making(w)' \ {p} = Making(w) \ {p}
  BY <1>1, Moves DEF Making
<1>4. p \in DOMAIN billing'[w] /\ billing'[w][p].at = "inserted"
  <2>1. billing'[w][p].at = "inserted" BY <1>1, Moves
  <2>2. billing[w] \in Partial(Pairs, Transaction) BY JobsHold DEF Shape
  <2>3. PICK t : billing' = [billing EXCEPT ![w][p] = t] BY DEF InsertBill
  <2>4. DOMAIN billing'[w] = DOMAIN billing[w] BY <2>3 DEF Shape, JobShape
  <2> QED BY <2>1, <2>4
<1>5. p \in Making(w)' /\ p \notin Making(w)
  BY <1>4 DEF Making, InsertBill, At
<1>6. BillCount(s)' = BillCount(s) BY DEF InsertBill, billVars, BillCount
<1>7. CASE p[1] = s
  <2>1. UnderWay(s)' = UnderWay(s) \cup {<<w, p>>} /\ <<w, p>> \notin UnderWay(s)
    BY <1>2, <1>3, <1>5, <1>7, UnderWayStep
  <2>2. PICK U : U = UnderWay(s) OBVIOUS
  <2>3. IsFiniteSet(U) /\ Cardinality(U) \in Nat /\ BillCount(s) \in Nat
    BY <2>2, RaisedType
  <2>4. Cardinality(U \cup {<<w, p>>}) = Cardinality(U) + 1
    BY <2>1, <2>2, <2>3, FS_AddElement
  <2>5. Raised(s)' = BillCount(s) + (Cardinality(U) + 1)
    BY <1>6, <2>1, <2>2, <2>4 DEF Raised
  <2>6. Raised(s) = BillCount(s) + Cardinality(U) BY <2>2 DEF Raised
  <2> QED BY <1>7, <2>3, <2>5, <2>6
<1>8. CASE p[1] # s
  <2>1. UnderWay(s)' = UnderWay(s) BY <1>2, <1>3, <1>8, UnderWayStep
  <2> QED BY <1>6, <1>8, <2>1 DEF Raised
<1> QED BY <1>7, <1>8

(* A bill that is committed was raised before.                             *)
LEMMA RaisedByCommit ==
  ASSUME Shape, BillingAssumption, NEW w \in Workers, NEW p \in DOMAIN billing[w],
         CommitBill(w, p), NEW s \in Sub
  PROVE  Raised(s)' = Raised(s)
<1>1. BillingStep(w, p) BY DEF BillingStep
<1>2. p \in Pairs BY JobsHold DEF Shape
<1>3. /\ \A k \in Workers \ {w} : Making(k)' = Making(k)
      /\ Making(w)' \ {p} = Making(w) \ {p}
  BY <1>1, Moves DEF Making
<1>4. p \in Making(w) /\ p \notin Making(w)'
  BY <1>1, Moves DEF Making, CommitBill, At, Ends
<1>5. bills' = [bills EXCEPT ![p[1]][BillOf(w, p)] = @ + 1]
  BY DEF CommitBill, BillOf
<1>6. /\ BillOf(w, p) \in Members \cup {None}
      /\ \A t \in Sub, m \in Members \cup {None} :
           bills'[t][m] = IF t = p[1] /\ m = BillOf(w, p)
                            THEN bills[t][m] + 1 ELSE bills[t][m]
  BY <1>2, <1>5, BillAdded DEF Shape
<1>7. CASE p[1] = s
  <2>1. UnderWay(s)' = UnderWay(s) \ {<<w, p>>} /\ <<w, p>> \in UnderWay(s)
    BY <1>2, <1>3, <1>4, <1>7, UnderWayStep
  <2>2. PICK U : U = UnderWay(s) OBVIOUS
  <2>3. IsFiniteSet(U) /\ Cardinality(U) \in Nat /\ BillCount(s) \in Nat
    BY <2>2, RaisedType
  <2>4. Cardinality(U \ {<<w, p>>}) = Cardinality(U) - 1
    BY <2>1, <2>2, <2>3, FS_RemoveElement
  <2>5. BillCount(s)' = BillCount(s) + 1
    <3> DEFINE All == Members \cup {None}
    <3>1. IsFiniteSet(All) BY FS_AddElement DEF BillingAssumption
    <3>2. PICK f : f = bills[s] OBVIOUS
    <3>3. PICK g : g = bills'[s] OBVIOUS
    <3>4. PICK m \in All : m = BillOf(w, p) BY <1>6
    <3>5. \A x \in All : f[x] \in Int BY <3>2 DEF Shape, BillShape
    <3>6. g[m] = f[m] + 1 /\ \A x \in All \ {m} : g[x] = f[x]
      BY <1>6, <1>7, <3>2, <3>3, <3>4
    <3> HIDE DEF All
    <3>7. SumFunctionOnSet(g, All) = SumFunctionOnSet(f, All) + 1
      BY <3>1, <3>5, <3>6, SumRaise
    <3> QED BY <3>2, <3>3, <3>7 DEF BillCount, All
  <2>6. Raised(s)' = (BillCount(s) + 1) + (Cardinality(U) - 1)
    BY <2>1, <2>2, <2>4, <2>5 DEF Raised
  <2>7. Raised(s) = BillCount(s) + Cardinality(U) BY <2>2 DEF Raised
  <2> QED BY <2>3, <2>6, <2>7
<1>8. CASE p[1] # s
  <2>1. UnderWay(s)' = UnderWay(s) BY <1>2, <1>3, <1>8, UnderWayStep
  <2>2. bills'[s] = bills[s] BY <1>5, <1>8 DEF Shape, BillShape
  <2> QED BY <2>1, <2>2 DEF Raised, BillCount
<1> QED BY <1>7, <1>8

(* As long as nothing fails, a bill once raised stays counted, first with  *)
(* its transaction and then as a row; and one is raised at a time.         *)
LEMMA RaisedStep ==
  ASSUME Shape, BillingAssumption, [BillingNext]_vars, ~failed', NEW s \in Sub
  PROVE  Raised(s)' = Raised(s) \/ Raised(s)' = Raised(s) + 1
<1>1. ASSUME \A k \in Workers : Making(k)' = Making(k), bills' = bills
      PROVE  Raised(s)' = Raised(s)
  <2>1. UnderWay(s)' = UnderWay(s) BY <1>1 DEF UnderWay
  <2> QED BY <1>1, <2>1 DEF Raised, BillCount
<1>2. CASE \/ Quiet
           \/ \E d \in Desk : SaveTotals(d)
           \/ \E d \in Desk, t \in Sub : ReadTotals(d, t)
           \/ \E w \in Workers, f \in Fees : CreateSubscription(w, f)
  <2>1. UNCHANGED <<billing, bills>>
    BY <1>2 DEF Quiet, SaveTotals, ReadTotals, CreateSubscription, jobVars, billVars
  <2> QED BY <1>1, <2>1 DEF Making
<1>3. CASE \E w \in Workers : LoadPairs(w)
  <2>1. PICK w \in Workers : LoadPairs(w) BY <1>3
  <2>2. /\ bills' = bills /\ DOMAIN billing[w] = {}
        /\ \A p \in DOMAIN billing'[w] : billing'[w][p].at = "queued"
        /\ \A k \in Workers \ {w} : billing'[k] = billing[k]
    BY <2>1, LoadedTotals
  <2>3. \A k \in Workers : Making(k)' = Making(k) BY <2>2 DEF Making
  <2> QED BY <1>1, <2>2, <2>3
<1>4. CASE \E w \in Workers : \E p \in DOMAIN billing[w] : BillingStep(w, p)
  <2>0. PICK w \in Workers : \E p \in DOMAIN billing[w] : BillingStep(w, p) BY <1>4
  <2>1. PICK p \in DOMAIN billing[w] : BillingStep(w, p) BY <2>0
  <2>2. CASE BeginBill(w, p) \/ MissFee(w, p) \/ SaveSubscription(w, p)
    <3>1. /\ \A k \in Workers \ {w} : Making(k)' = Making(k)
          /\ Making(w)' \ {p} = Making(w) \ {p}
      BY <2>1, Moves DEF Making
    <3>2. p \in Making(w)' <=> p \in Making(w)
      <4>1. p \in DOMAIN billing'[w] <=> ~Ends(w, p) BY <2>1, Moves
      <4>2. CASE BeginBill(w, p)
        <5>1. billing'[w][p].at = "begun" BY <2>1, <4>2, Moves
        <5>2. billing[w][p].at = "queued" BY <4>2 DEF BeginBill, At
        <5> QED BY <5>1, <5>2 DEF Making
      <4>3. CASE MissFee(w, p)
        <5>1. billing[w][p].at = "begun" BY <4>3 DEF MissFee, At
        <5> QED BY <4>1, <4>3, <5>1 DEF Making, Ends
      <4>4. CASE SaveSubscription(w, p)
        <5>1. billing'[w][p].at = "saving" BY <2>1, <4>4, Moves
        <5>2. billing[w][p].at = "inserted" BY <4>4 DEF SaveSubscription, At
        <5>3. ~Ends(w, p)
          BY <5>1, <5>2, <4>4 DEF SaveSubscription, Ends, MissFee, CommitBill, At,
             FailBill, EndBill
        <5> QED BY <4>1, <5>1, <5>2, <5>3 DEF Making
      <4> QED BY <2>2, <4>2, <4>3, <4>4
    <3>3. \A k \in Workers : Making(k)' = Making(k) BY <3>1, <3>2
    <3>4. bills' = bills BY <2>2 DEF BeginBill, MissFee, SaveSubscription, billVars
    <3> QED BY <1>1, <3>3, <3>4
  <2>3. ~FailBill(w, p) BY DEF FailBill
  <2> QED BY <2>1, <2>2, <2>3, RaisedByInsert, RaisedByCommit DEF BillingStep
<1>5. ~ \E w \in Workers : Crash(w) BY DEF Crash
<1> QED BY <1>2, <1>3, <1>4, <1>5, TotalsSteps

(* A total that waits, or that a worker's object has counted a bill in,    *)
(* was one before, or is the saved one, or has counted one bill more.      *)
LEMMA CountsStep ==
  ASSUME Shape, [BillingNext]_vars, NEW s \in Sub, NEW v, Counts(s, v)'
  PROVE  \/ Counts(s, v)
         \/ s \in DOMAIN subscription /\ Billed(s) /\ v = subscription[s].payable
         \/ s \in DOMAIN subscription /\ \E n \in Nat : v = n + CostOf(s)
<1>1. CASE Saves(s, v)' BY <1>1, SavesStep
<1>2. CASE ~Saves(s, v)'
  <2>1. PICK k \in Workers : total'[k][s] = v /\ Inserted(k, s)' BY <1>2 DEF Counts
  <2>2. total[k][s] \in Nat BY DEF Shape, JobShape
  <2>3. \/ total'[k][s] = total[k][s] /\ Inserted(k, s)
        \/ s \in DOMAIN subscription /\ total'[k][s] = total[k][s] + CostOf(s)
    BY <2>1, TotalStep
  <2> QED BY <2>1, <2>2, <2>3 DEF Counts
<1> QED BY <1>1, <1>2

(* And one that a worker's object has at all may also be zero.             *)
LEMMA SaysStep ==
  ASSUME Shape, [BillingNext]_vars, NEW s \in Sub, NEW v, Says(s, v)'
  PROVE  \/ Says(s, v)
         \/ v = 0
         \/ s \in DOMAIN subscription /\ v = subscription[s].payable
         \/ /\ s \in DOMAIN subscription
            /\ \E k \in Workers : \E p \in DOMAIN billing[k] :
                 InsertBill(k, p) /\ p[1] = s
            /\ \E n \in Nat : Says(s, n) /\ v = n + CostOf(s)
<1>1. CASE Saves(s, v)' BY <1>1, SavesStep DEF Says, Counts
<1>2. CASE ~Saves(s, v)'
  <2>1. PICK k \in Workers : total'[k][s] = v BY <1>2 DEF Says
  <2>2. total[k][s] \in Nat /\ Says(s, total[k][s]) BY DEF Shape, JobShape, Says
  <2>3. \/ v = total[k][s]
        \/ v = 0
        \/ s \in DOMAIN subscription /\ v = subscription[s].payable
        \/ /\ s \in DOMAIN subscription
           /\ \E p \in DOMAIN billing[k] : InsertBill(k, p) /\ p[1] = s
           /\ v = total[k][s] + CostOf(s)
    BY <2>1, TotalStep
  <2> QED BY <2>2, <2>3
<1> QED BY <1>1, <1>2

(* Totals are numbers.                                                     *)
LEMMA TotalsAreNumbers ==
  ASSUME Shape, NEW s \in Sub
  PROVE  /\ s \in DOMAIN subscription =>
              subscription[s].payable \in Nat /\ CostOf(s) \in Nat
         /\ \A v : Says(s, v) => v \in Nat
<1>1. s \in DOMAIN subscription => subscription[s] \in Subscription
  BY Places DEF Shape, BillShape
<1>2. s \in DOMAIN subscription =>
        subscription[s].payable \in Nat /\ CostOf(s) \in Nat
  BY <1>1, BillingAssumption DEF Subscription, CostOf
<1>3. ASSUME NEW w \in Workers, NEW p \in DOMAIN billing[w]
      PROVE  billing[w][p].payable \in Nat
  <2>1. PICK b : b = billing[w] OBVIOUS
  <2>2. b \in [DOMAIN b -> Transaction]
    BY <2>1, PartialElim DEF Shape, JobShape
  <2>3. b[p] \in Transaction BY <2>1, <2>2
  <2> QED BY <2>1, <2>3 DEF Transaction
<1>4. ASSUME NEW d \in Desk, desk[d].op = "settle" PROVE desk[d].read \in Nat
  <2>1. desk[d] \in DeskState BY DEF Shape, GroupShape
  <2> QED BY <1>4, <2>1 DEF DeskState, Idle
<1>5. \A w \in Workers : total[w][s] \in Nat BY DEF Shape, JobShape
<1> QED BY <1>2, <1>3, <1>4, <1>5 DEF Says, Saves

(* So they are after each step.                                            *)
Numbers(s) ==
  /\ Raised(s) \in Nat
  /\ BillCount(s) \in Nat
  /\ s \in DOMAIN subscription =>
       subscription[s].payable \in Nat /\ CostOf(s) \in Nat
  /\ \A v : Says(s, v) => v \in Nat

(* Where the shape is right these are numbers, before a step and after it. *)
LEMMA NumbersNext ==
  ASSUME NEW s \in Sub PROVE (Shape => Numbers(s)) /\ (Shape' => Numbers(s)')
<1>1. Shape => Numbers(s)
  BY BillingAssumption, RaisedType, TotalsAreNumbers DEF Numbers
<1>2. Shape' => Numbers(s)' BY <1>1, PTL
<1> QED BY <1>1, <1>2

(* A row there is has the place of a subscription.                         *)
Placed == DOMAIN subscription \subseteq Sub

(* The shape says so, before a step and after it.                          *)
LEMMA RowsAreSubscriptions == (Shape => Placed) /\ (Shape' => Placed')
<1>1. ASSUME Shape PROVE Placed
  <2>1. Len(subscription) \in Nat /\ DOMAIN subscription = 1 .. Len(subscription)
    BY DEF Shape, BillShape
  <2> QED BY <1>1, <2>1, BillingAssumption DEF Shape, BillShape, Sub, Placed
<1>2. Shape => Placed BY <1>1
<1>3. Shape' => Placed' BY <1>2, PTL
<1> QED BY <1>2, <1>3

(* A failure is never forgotten.                                           *)
LEMMA FailedStays ==
  ASSUME Shape, [BillingNext]_vars, ~failed' PROVE ~failed
<1>1. CASE \/ Quiet
           \/ \E d \in Desk : SaveTotals(d)
           \/ \E d \in Desk, t \in Sub : ReadTotals(d, t)
           \/ \E w \in Workers, f \in Fees : CreateSubscription(w, f)
           \/ \E w \in Workers : LoadPairs(w)
  BY <1>1 DEF Quiet, SaveTotals, ReadTotals, CreateSubscription, LoadPairs, billVars
<1>2. CASE \E w \in Workers : \E p \in DOMAIN billing[w] : BillingStep(w, p)
  BY <1>2 DEF BillingStep, BeginBill, InsertBill, MissFee, SaveSubscription,
     CommitBill, FailBill, billVars
<1>3. ~ \E w \in Workers : Crash(w) BY DEF Crash
<1> QED BY <1>1, <1>2, <1>3, TotalsSteps

(* More bills cost more.                                                   *)
LEMMA Costs ==
  ASSUME NEW c \in Nat, NEW n \in Nat
  PROVE  /\ c * n \in Nat
         /\ c * (n + 1) = c * n + c
         /\ n > 0 => c <= c * n
<1>1. c * n \in Nat /\ c * (n + 1) = c * n + c OBVIOUS
<1>2. ASSUME n > 0 PROVE c <= c * n
  <2>1. n - 1 \in Nat /\ n = (n - 1) + 1 BY <1>2
  <2>2. c * (n - 1) \in Nat /\ c * ((n - 1) + 1) = c * (n - 1) + c BY <2>1
  <2> QED BY <2>1, <2>2
<1> QED BY <1>1, <1>2

(* Before the first subscription there is nothing to count.                *)
LEMMA InitTotals == BillingInit => Totals
<1> SUFFICES ASSUME BillingInit PROVE Totals
  OBVIOUS
<1>1. DOMAIN subscription = {} BY DEF BillingInit
<1>2. \A s \in Sub : ~Billed(s) BY DEF BillingInit, Billed
<1>3. \A w \in Workers : DOMAIN billing[w] = {} BY DEF BillingInit, Nothing
<1>4. \A w \in Workers, s \in Sub : total[w][s] = 0 BY DEF BillingInit, NoTotals
<1>5. \A d \in Desk : desk[d].op # "settle" BY DEF BillingInit, GroupsInit, Idle
<1>6. \A s \in Sub : \A v : ~Saves(s, v) BY <1>3, <1>5 DEF Saves
<1> QED BY <1>1, <1>2, <1>4, <1>6 DEF Totals

(* A bill raises the cost of the bills by what it adds to a total that is  *)
(* saved later; a save writes a total that counted no more than there are. *)
LEMMA TotalsKept ==
  ASSUME Shape, Shape', Totals, [BillingNext]_vars PROVE Totals'
<1>1. ASSUME NEW s \in Sub, s \notin DOMAIN subscription
      PROVE  /\ ~Billed(s)'
             /\ \A v : ~Counts(s, v)'
             /\ \A v : Says(s, v)' => v = 0
             /\ s \in DOMAIN subscription' => subscription'[s].payable = 0
  <2>1. ~Billed(s) /\ (\A v : ~Saves(s, v)) /\ \A w \in Workers : total[w][s] = 0
    BY <1>1 DEF Totals
  <2>2. \A w \in Workers : ~Inserted(w, s)
    BY <1>1 DEF Shape, PairsNamed, Inserted
  <2>3. \A v : ~Counts(s, v) /\ (Says(s, v) => v = 0)
    BY <2>1, <2>2 DEF Counts, Says
  <2>4. \A v : ~Counts(s, v)' BY <1>1, <2>3, CountsStep
  <2>5. \A v : Says(s, v)' => v = 0 BY <1>1, <2>3, SaysStep
  <2> QED BY <1>1, <2>1, <2>4, <2>5, RowStep
<1>2. ASSUME NEW s \in Sub \ DOMAIN subscription'
      PROVE  ~Billed(s)' /\ (\A v : ~Saves(s, v)') /\ \A w \in Workers : total'[w][s] = 0
  <2>1. s \notin DOMAIN subscription BY <1>2, RowStep
  <2> QED BY <1>1, <2>1 DEF Counts, Says
<1>3. ASSUME NEW s \in DOMAIN subscription'
      PROVE  /\ s \in Sub
             /\ Billed(s)' => subscription'[s].payable >= CostOf(s)'
             /\ \A v : Counts(s, v)' => v >= CostOf(s)'
             /\ ~failed' =>
                  /\ subscription'[s].payable <= CostOf(s)' * Raised(s)'
                  /\ \A v : Says(s, v)' => v <= CostOf(s)' * Raised(s)'
  <2>1. s \in Sub BY RowsAreSubscriptions DEF Placed
  <2>2. /\ subscription'[s].payable \in Nat /\ CostOf(s)' \in Nat
        /\ \A v : Says(s, v)' => v \in Nat
    BY <2>1, NumbersNext DEF Numbers
  <2>3. Raised(s)' \in Nat BY <2>1, NumbersNext DEF Numbers
  <2>4. CASE s \notin DOMAIN subscription
    <3>1. 0 <= CostOf(s)' * Raised(s)' BY <2>2, <2>3, Costs
    <3> QED BY <1>1, <2>1, <2>4, <3>1
  <2>5. CASE s \in DOMAIN subscription
    <3>1. /\ subscription[s].payable \in Nat /\ CostOf(s) \in Nat
          /\ \A v : Says(s, v) => v \in Nat
      BY <2>1, <2>5, TotalsAreNumbers
    <3>2. /\ CostOf(s)' = CostOf(s)
          /\ \/ subscription'[s].payable = subscription[s].payable
             \/ Saves(s, subscription'[s].payable)
          /\ Billed(s)' => Billed(s) \/ Saves(s, subscription'[s].payable)
      BY <2>1, <2>5, RowStep
    <3>3. /\ Billed(s) => subscription[s].payable >= CostOf(s)
          /\ \A v : Counts(s, v) => v >= CostOf(s)
      BY <2>5 DEF Totals
    <3>4. Billed(s)' => subscription'[s].payable >= CostOf(s)'
      BY <3>2, <3>3 DEF Counts
    <3>5. ASSUME NEW v, Counts(s, v)' PROVE v >= CostOf(s)'
      <4>1. \/ Counts(s, v)
            \/ Billed(s) /\ v = subscription[s].payable
            \/ \E n \in Nat : v = n + CostOf(s)
        BY <2>1, <3>5, CountsStep
      <4> QED BY <3>1, <3>2, <3>3, <4>1
    <3>6. ASSUME ~failed'
          PROVE  /\ subscription'[s].payable <= CostOf(s)' * Raised(s)'
                 /\ \A v : Says(s, v)' => v <= CostOf(s)' * Raised(s)'
      <4> DEFINE limit == CostOf(s) * Raised(s)
      <4>1. /\ subscription[s].payable <= limit
            /\ \A v : Says(s, v) => v <= limit
        BY <2>5, <3>6, FailedStays DEF Totals
      <4>2. Raised(s) \in Nat BY <2>1, BillingAssumption, RaisedType
      <4>3. limit \in Nat /\ CostOf(s) * (Raised(s) + 1) = limit + CostOf(s)
        BY <3>1, <4>2, Costs
      <4>4. CASE \E k \in Workers : \E p \in DOMAIN billing[k] :
                   InsertBill(k, p) /\ p[1] = s
        <5>0. PICK k \in Workers : \E p \in DOMAIN billing[k] :
                     InsertBill(k, p) /\ p[1] = s
          BY <4>4
        <5>1. PICK p \in DOMAIN billing[k] : InsertBill(k, p) /\ p[1] = s BY <5>0
        <5>2. Raised(s)' = Raised(s) + 1
          BY <2>1, <5>1, BillingAssumption, RaisedByInsert
        <5>3. CostOf(s)' * Raised(s)' = limit + CostOf(s) BY <3>2, <4>3, <5>2
        <5>4. subscription'[s].payable <= limit BY <3>2, <4>1 DEF Says
        <5>5. \A v : Says(s, v)' => v <= limit + CostOf(s)
          <6> HIDE DEF limit
          <6> QED BY <2>1, <3>1, <4>1, <4>3, SaysStep
        <5> HIDE DEF limit
        <5> QED BY <2>2, <3>1, <4>3, <5>3, <5>4, <5>5
      <4>5. CASE ~ \E k \in Workers : \E p \in DOMAIN billing[k] :
                     InsertBill(k, p) /\ p[1] = s
        <5>1. Raised(s)' = Raised(s) \/ Raised(s)' = Raised(s) + 1
          BY <2>1, <3>6, BillingAssumption, RaisedStep
        <5>2. CostOf(s)' * Raised(s)' = limit \/ CostOf(s)' * Raised(s)' = limit + CostOf(s)
          BY <3>2, <4>3, <5>1
        <5>3. subscription'[s].payable <= limit BY <3>2, <4>1 DEF Says
        <5>4. \A v : Says(s, v)' => v <= limit
          <6> HIDE DEF limit
          <6> QED BY <2>1, <3>1, <4>1, <4>3, <4>5, SaysStep
        <5> HIDE DEF limit
        <5> QED BY <2>2, <3>1, <4>3, <5>2, <5>3, <5>4
      <4> QED BY <4>4, <4>5
    <3> QED BY <2>1, <3>4, <3>5, <3>6
  <2> QED BY <2>4, <2>5
<1> QED BY <1>2, <1>3 DEF Totals

(* Unless a transaction failed, once the jobs of a billed subscription are *)
(* over its total counts one of its bills at least, and never more than it *)
(* has.                                                                    *)
THEOREM TotalsStayWithinBills == BillingSpec => []TotalWithinBills
<1>1. ASSUME Shape, Totals PROVE TotalWithinBills
  <2>1. ASSUME ~failed, NEW s \in DOMAIN subscription,
               \A w \in Workers : \A p \in DOMAIN billing[w] : p[1] # s
        PROVE  /\ subscription[s].payable <= CostOf(s) * BillCount(s)
               /\ Billed(s) => subscription[s].payable >= CostOf(s)
    <3>1. UnderWay(s) = {} BY <2>1 DEF UnderWay, Making
    <3>2. Cardinality(UnderWay(s)) = 0 BY <3>1, FS_EmptySet
    <3>3. s \in Sub BY <1>1, RowsAreSubscriptions DEF Placed
    <3>4. BillCount(s) \in Nat BY <1>1, <3>3, NumbersNext DEF Numbers
    <3>5. Raised(s) = BillCount(s) BY <3>2, <3>4 DEF Raised
    <3>6. Totals BY <1>1
    <3> QED BY <2>1, <3>5, <3>6 DEF Totals, Says
  <2> QED BY <2>1 DEF TotalWithinBills, CostOf
<1>2. Shape /\ Shape' /\ Totals /\ [BillingNext]_vars => Totals' BY TotalsKept
<1> QED BY <1>1, <1>2, InitTotals, ShapeHolds, PTL DEF BillingSpec

-----------------------------------------------------------------------------
(* A pool that is large enough.                                            *)

(* More connections than there are bills, if every fee is billed to every  *)
(* member.                                                                 *)
PoolSuffices ==
  /\ Members # {}
  /\ Cardinality(Fees) * Cardinality(Members) < PoolSize

(* No jobs of one queue overlap, and no two edits of a group.              *)
NothingTwice == {"subscription jobs", "bill jobs", "group"} \cap conflicts = {}

(* Whoever holds a connection stands for a fee and a member, and for no    *)
(* fee and member but one: a fee that is being given a subscription has    *)
(* none, so no bill of it is being made.                                   *)
LEMMA HoldersAreFew ==
  ASSUME BillingAssumption, Shape, Subscribing, OneBill, PoolSuffices,
         NothingTwice, NEW w \in Workers
  PROVE  Cardinality(Holders(w)) <= Cardinality(Fees) * Cardinality(Members)
<1>m. PICK one : one \in Members BY DEF PoolSuffices
<1>c. /\ "subscription jobs" \notin conflicts
      /\ "bill jobs" \notin conflicts /\ "group" \notin conflicts
  BY DEF NothingTwice
<1> DEFINE G == DOMAIN generating[w]
           B == DOMAIN billing[w]
           f == [h \in Holders(w) |->
                   IF h \in G THEN <<h, one>> ELSE <<subscription[h[1]].fee, h[2]>>]
<1>1. Holders(w) \subseteq G \cup B BY DEF Holders
<1>2. G \subseteq Fees
  <2>1. PICK g \in Partial(Fees, Generating) : g = generating[w] BY DEF Shape, JobShape
  <2>2. DOMAIN g \subseteq Fees BY PartialElim
  <2> QED BY <2>1, <2>2
<1>3. /\ B \subseteq Pairs
      /\ \A p \in B : p[1] \in DOMAIN subscription
  <2>1. PICK b \in Partial(Pairs, Transaction) : b = billing[w] BY DEF Shape, JobShape
  <2>2. DOMAIN b \subseteq Pairs BY PartialElim
  <2>3. \A p \in B : p[1] \in DOMAIN subscription BY DEF Shape, PairsNamed
  <2> QED BY <2>1, <2>2, <2>3
<1>4. \A s \in DOMAIN subscription : subscription[s].fee \in Fees
  <2>1. subscription \in Seq(Subscription) BY DEF Shape, BillShape
  <2>2. \A s \in DOMAIN subscription : subscription[s] \in Subscription BY <2>1
  <2> QED BY <2>2 DEF Subscription
<1>5. \A h \in G, s \in DOMAIN subscription : subscription[s].fee # h
  BY <1>c DEF Subscribing
<1>6. \A p, q \in B : subscription[p[1]].fee = subscription[q[1]].fee /\ p[2] = q[2] => p = q
  <2>1. \A s, t \in DOMAIN subscription : subscription[s].fee = subscription[t].fee => s = t
    BY <1>c DEF Subscribing
  <2>2. \A p, q \in B : p[1] = q[1] /\ p[2] = q[2] => p = q
    BY <1>c DEF OneBill
  <2> QED BY <1>3, <2>1, <2>2
<1>7. \A p \in B : p[2] \in Members BY <1>3 DEF Pairs
<1>8. f \in Injection(Holders(w), Fees \X Members)
  <2>1. f \in [Holders(w) -> Fees \X Members]
    BY <1>m, <1>1, <1>2, <1>3, <1>4, <1>7
  <2>2. ASSUME NEW h \in Holders(w), NEW k \in Holders(w), f[h] = f[k] PROVE h = k
    <3>1. CASE h \in G /\ k \in G BY <2>2, <3>1
    <3>2. CASE h \in G /\ k \notin G BY <1>1, <1>3, <1>5, <2>2, <3>2
    <3>3. CASE h \notin G /\ k \in G BY <1>1, <1>3, <1>5, <2>2, <3>3
    <3>4. CASE h \notin G /\ k \notin G BY <1>1, <1>6, <2>2, <3>4
    <3> QED BY <3>1, <3>2, <3>3, <3>4
  <2> HIDE DEF f
  <2>3. \A h, k \in Holders(w) : f[h] = f[k] => h = k BY <2>2
  <2> QED BY <2>1, <2>3, SMT DEF Injection, IsInjective
<1>9. /\ IsFiniteSet(Fees \X Members)
      /\ Cardinality(Fees \X Members) = Cardinality(Fees) * Cardinality(Members)
  BY FS_Product DEF BillingAssumption, PoolSuffices
<1> DEFINE H == Holders(w)
           T == Fees \X Members
<1>10. ASSUME NEW g \in Injection(H, T) PROVE Cardinality(H) <= Cardinality(T)
  <2> HIDE DEF f, H, T
  <2>1. IsFiniteSet(T) BY <1>9 DEF T
  <2> QED BY <2>1, FS_Injection
<1> HIDE DEF f
<1> QED BY <1>8, <1>9, <1>10, Zenon

(* With such a pool no bill job starves, unless two jobs of one queue or   *)
(* two edits of a group overlap: a connection is always free for the       *)
(* second query of those who hold one.                                     *)
THEOREM LargePoolsDoNotStarve ==
  PoolSuffices /\ BillingSpec => [](NothingTwice => PoolNeverStarves)
<1>1. PoolSuffices /\ Shape /\ Subscribing /\ OneBill => (NothingTwice => PoolNeverStarves)
  <2> SUFFICES ASSUME PoolSuffices, Shape, Subscribing, OneBill, NothingTwice,
                      NEW w \in Workers
               PROVE  ConnectionFree(w)
    BY DEF PoolNeverStarves
  <2>1. Cardinality(Holders(w)) <= Cardinality(Fees) * Cardinality(Members)
    BY BillingAssumption, HoldersAreFew
  <2>2. /\ Cardinality(Holders(w)) \in Nat /\ Cardinality(Fees) \in Nat
        /\ Cardinality(Members) \in Nat
    BY FS_CardinalityType, BillingAssumption
    DEF BillingAssumption, PoolSuffices, Shape, PoolKept
  <2>3. Cardinality(Fees) * Cardinality(Members) \in Nat BY <2>2
  <2>4. PoolSize \in Nat /\ Cardinality(Fees) * Cardinality(Members) < PoolSize
    BY BillingAssumption DEF BillingAssumption, PoolSuffices
  <2> QED BY <2>1, <2>2, <2>3, <2>4 DEF ConnectionFree
<1>2. CASE PoolSuffices
  <2>1. Shape /\ Subscribing /\ OneBill => (NothingTwice => PoolNeverStarves)
    BY <1>1, <1>2
  <2> QED BY <2>1, SubscribingHolds, OneBillHolds, ShapeHolds, PTL
<1> QED BY <1>2
=============================================================================
