------------------------------ MODULE Billing -------------------------------
(***************************************************************************)
(* From a service fee to the bills of its recipients.  Executives create   *)
(* fees and choose who is billed for them (FeeGroups); a job of the        *)
(* subscription queue opens a subscription for each fee that is due today, *)
(* and a job of the bill queue bills every recipient of each subscription  *)
(* that has no bill yet, in transactions of their own that all run at once *)
(* on the connections of one worker's pool.  Every such transaction holds  *)
(* a connection and needs a second one for the code of its row.            *)
(***************************************************************************)
EXTENDS FeeGroups, Functions

CONSTANTS
  Workers,           (* worker processes, with a pool of connections each  *)
  PoolSize,          (* connections of a pool                              *)
  Cycle,             (* days in the billing cycle of a recurring fee       *)
  MaxAmount,         (* the largest amount the column of a fee can hold    *)
  Cost,              (* Cost[f]: amountInMinorUnit of the fee              *)
  MaxDay,            (* bound: last day                                    *)
  MaxSubscriptions   (* bound: subscriptions that may be created           *)

ASSUME BillingAssumption ==
  /\ PoolSize \in Nat \ {0}
  /\ Cycle \in Nat \ {0}
  /\ IsFiniteSet(Fees) /\ IsFiniteSet(Members) /\ IsFiniteSet(Workers)
  /\ MaxAmount \in Nat
  /\ Cost \in [Fees -> 0 .. MaxAmount]
  /\ MaxDay \in Nat
  /\ MaxSubscriptions \in Nat

VARIABLES
  subscription,  (* subscription rows: the fee and totalPayableAmount      *)
  bills,         (* bills[s][m]: bill rows of subscription s for member m  *)
  generating,    (* generating[w]: fee rows a subscription job still has   *)
  picked,        (* picked[w]: subscription and group row, not yet loaded  *)
  billing,       (* billing[w]: transactions of a bill job, by such pairs  *)
  loaded,        (* loaded[w]: fees and members the bill job has loaded    *)
  total,         (* total[w][s]: the payable total in its shared object    *)
  failed         (* some transaction of a bill job was rolled back         *)

jobVars == <<generating, picked, billing, loaded, total>>
billVars == <<subscription, bills, failed>>
vars == <<groupVars, today, jobVars, billVars>>

Sub == 1 .. MaxSubscriptions
Pairs == Sub \X Members \X RowIds

Nothing == [x \in {} |-> None]
NotLoaded == [fees |-> {}, members |-> {}]
NoTotals == [s \in Sub |-> 0]

BillingInit ==
  /\ GroupsInit
  /\ subscription = <<>>
  /\ bills = [s \in Sub |-> [m \in Members \cup {None} |-> 0]]
  /\ generating = [w \in Workers |-> Nothing]
  /\ picked = [w \in Workers |-> {}]
  /\ billing = [w \in Workers |-> Nothing]
  /\ loaded = [w \in Workers |-> NotLoaded]
  /\ total = [w \in Workers |-> NoTotals]
  /\ failed = FALSE

Without(f, x) == [y \in (DOMAIN f) \ {x} |-> f[y]]

-----------------------------------------------------------------------------
(* The pool.  A transaction keeps its connection until it ends; the        *)
(* nextval of its code runs on another one, given back at once.            *)
Holders(w) ==
  {f \in DOMAIN generating[w] : generating[w][f].at # "queued"} \cup
  {p \in DOMAIN billing[w] : billing[w][p].at # "queued"}

ConnectionFree_reserves(w) == Cardinality(Holders(w)) < PoolSize - 1

ConnectionFree(w) == Cardinality(Holders(w)) < PoolSize

-----------------------------------------------------------------------------
(* The subscription queue.  Fees of a type that are active, dated today    *)
(* and have no subscription at all, of whatever period.                    *)
DueToday_again(type) ==
  {f \in Fees : /\ fee[f].status = "ACTIVE"
                /\ fee[f].type = type
                /\ fee[f].due = today}

DueToday(type) ==
  {f \in Fees : /\ fee[f].status = "ACTIVE"
                /\ fee[f].type = type
                /\ fee[f].due = today
                /\ \A s \in DOMAIN subscription : subscription[s].fee # f}

TakeSubscriptionJob(w, type) ==
  /\ generating[w] = Nothing
  /\ DueToday(type) # {}
  /\ generating' = [generating EXCEPT ![w] =
                      [f \in DueToday(type) |-> [at |-> "queued", row |-> fee[f]]]]
  /\ conflicts' = conflicts \cup
       {"subscription jobs" : k \in {k \in Workers : generating[k] # Nothing}} \cup
       {"removed fee" : d \in {d \in Desk : desk[d].op = "removeFee"}}
  /\ UNCHANGED <<fee, row, member, desk, today, picked, billing, loaded, total,
                 billVars>>

BeginSubscription(w, f) ==
  /\ f \in DOMAIN generating[w]
  /\ generating[w][f].at = "queued"
  /\ ConnectionFree(w)
  /\ generating' = [generating EXCEPT ![w][f].at = "begun"]
  /\ UNCHANGED <<groupVars, today, picked, billing, loaded, total, billVars>>

(* createSubscription: the code, the row, and for a recurring fee the save *)
(* of the fee as the job read it, with the dates of its next period.       *)
SavedFee(f, read) ==
  IF read.type = "RE_OCCURRING"
    THEN [fee EXCEPT ![f] = [read EXCEPT !.due = @ + Cycle]]
    ELSE fee

CreateSubscription_noFee(w, f) ==
  /\ f \in DOMAIN generating[w]
  /\ generating[w][f].at = "begun"
  /\ ConnectionFree(w)
  /\ Len(subscription) < MaxSubscriptions
  /\ subscription' = Append(subscription, [fee |-> None, payable |-> 0])
  /\ fee' = SavedFee(f, generating[w][f].row)
  /\ generating' = [generating EXCEPT ![w] = Without(@, f)]
  /\ UNCHANGED <<row, member, desk, conflicts, today, picked, billing, loaded,
                 total, bills, failed>>

CreateSubscription(w, f) ==
  /\ f \in DOMAIN generating[w]
  /\ generating[w][f].at = "begun"
  /\ ConnectionFree(w)
  /\ Len(subscription) < MaxSubscriptions
  /\ subscription' = Append(subscription, [fee |-> f, payable |-> 0])
  /\ fee' = SavedFee(f, generating[w][f].row)
  /\ generating' = [generating EXCEPT ![w] = Without(@, f)]
  /\ UNCHANGED <<row, member, desk, conflicts, today, picked, billing, loaded,
                 total, bills, failed>>

FailSubscription(w, f) ==
  /\ f \in DOMAIN generating[w]
  /\ generating[w][f].at = "begun"
  /\ generating' = [generating EXCEPT ![w] = Without(@, f)]
  /\ UNCHANGED <<groupVars, today, picked, billing, loaded, total, billVars>>

-----------------------------------------------------------------------------
(* The bill queue.  One query pairs each subscription that has no bill     *)
(* with the active rows of its fee's group, a member once for each row.    *)
Billed(s) == \E m \in Members \cup {None} : bills[s][m] > 0

PendingPairs_anyMember ==
  {p \in Pairs :
     /\ p[1] \in DOMAIN subscription
     /\ ~Billed(p[1])
     /\ <<p[2], p[3]>> \in ActiveRows(subscription[p[1]].fee)}

PendingPairs_perMember ==
  {p \in Pairs :
     /\ p[1] \in DOMAIN subscription
     /\ bills[p[1]][p[2]] = 0
     /\ <<p[2], p[3]>> \in ActiveRows(subscription[p[1]].fee)
     /\ member[p[2]] = "ACTIVE"}

PendingPairs ==
  {p \in Pairs :
     /\ p[1] \in DOMAIN subscription
     /\ ~Billed(p[1])
     /\ <<p[2], p[3]>> \in ActiveRows(subscription[p[1]].fee)
     /\ member[p[2]] = "ACTIVE"}

BillJobBusy(w) == picked[w] # {} \/ billing[w] # Nothing

TakeBillJob(w) ==
  /\ ~BillJobBusy(w)
  /\ PendingPairs # {}
  /\ picked' = [picked EXCEPT ![w] = PendingPairs]
  /\ conflicts' = conflicts \cup {"bill jobs" : k \in {k \in Workers : BillJobBusy(k)}}
  /\ UNCHANGED <<fee, row, member, desk, today, generating, billing, loaded,
                 total, billVars>>

(* The rows the pairs name are loaded, each table filtered by ACTIVE, and  *)
(* a transaction is asked for each pair, all of them at once.              *)
LoadPairs(w) ==
  /\ picked[w] # {}
  /\ billing' = [billing EXCEPT ![w] =
                   [p \in picked[w] |-> [at |-> "queued", payable |-> 0]]]
  /\ loaded' = [loaded EXCEPT ![w] =
                  [fees    |-> {f \in Fees : fee[f].status = "ACTIVE"},
                   members |-> {m \in {p[2] : p \in picked[w]} : member[m] = "ACTIVE"}]]
  /\ total' = [total EXCEPT ![w] =
                 [s \in Sub |-> IF \E p \in picked[w] : p[1] = s
                                  THEN subscription[s].payable ELSE 0]]
  /\ picked' = [picked EXCEPT ![w] = {}]
  /\ UNCHANGED <<groupVars, today, generating, billVars>>

At(w, p, at) == p \in DOMAIN billing[w] /\ billing[w][p].at = at

(* A transaction ends; the last one leaves nothing of the job behind.      *)
EndBill(w, p) ==
  /\ billing' = [billing EXCEPT ![w] = Without(@, p)]
  /\ IF DOMAIN billing[w] = {p}
       THEN /\ loaded' = [loaded EXCEPT ![w] = NotLoaded]
            /\ total' = [total EXCEPT ![w] = NoTotals]
       ELSE UNCHANGED <<loaded, total>>
  /\ UNCHANGED <<generating, picked>>

BeginBill(w, p) ==
  /\ At(w, p, "queued")
  /\ ConnectionFree(w)
  /\ billing' = [billing EXCEPT ![w][p].at = "begun"]
  /\ UNCHANGED <<groupVars, today, generating, picked, loaded, total, billVars>>

FeeOf(p) == subscription[p[1]].fee

(* createSubscriptionBill: the code, the bill, and its amount added to the *)
(* total of the subscription, an object all transactions of the job share. *)
InsertBill(w, p) ==
  /\ At(w, p, "begun")
  /\ ConnectionFree(w)
  /\ FeeOf(p) \in loaded[w].fees
  /\ billing' = [billing EXCEPT ![w][p].at = "inserted"]
  /\ total' = [total EXCEPT ![w][p[1]] = @ + Cost[FeeOf(p)]]
  /\ UNCHANGED <<groupVars, today, generating, picked, loaded, billVars>>

(* The fee was not loaded: reading its name throws.                        *)
MissFee(w, p) ==
  /\ At(w, p, "begun")
  /\ ConnectionFree(w)
  /\ FeeOf(p) \notin loaded[w].fees
  /\ EndBill(w, p)
  /\ UNCHANGED <<groupVars, today, billVars>>

(* save(subscription) compares the shared object with the row: what it     *)
(* will write is what the total is by then.                                *)
SaveSubscription(w, p) ==
  /\ At(w, p, "inserted")
  /\ billing' = [billing EXCEPT ![w][p] =
                   [at |-> "saving", payable |-> total[w][p[1]]]]
  /\ UNCHANGED <<groupVars, today, generating, picked, loaded, total, billVars>>

(* The update waits for those of other transactions to commit, is done and *)
(* committed.  A member who was not loaded leaves the bill without one.    *)
CommitBill_adds(w, p) ==
  /\ At(w, p, "saving")
  /\ LET m == IF p[2] \in loaded[w].members THEN p[2] ELSE None
     IN bills' = [bills EXCEPT ![p[1]][m] = @ + 1]
  /\ subscription' = [subscription EXCEPT ![p[1]].payable = @ + billing[w][p].payable]
  /\ EndBill(w, p)
  /\ UNCHANGED <<groupVars, today, failed>>

CommitBill(w, p) ==
  /\ At(w, p, "saving")
  /\ LET m == IF p[2] \in loaded[w].members THEN p[2] ELSE None
     IN bills' = [bills EXCEPT ![p[1]][m] = @ + 1]
  /\ subscription' = [subscription EXCEPT ![p[1]].payable = billing[w][p].payable]
  /\ EndBill(w, p)
  /\ UNCHANGED <<groupVars, today, failed>>

(* A statement fails: the transaction is rolled back, the total is not.    *)
FailBill(w, p) ==
  /\ \E at \in {"begun", "inserted", "saving"} : At(w, p, at)
  /\ EndBill(w, p)
  /\ failed' = TRUE
  /\ UNCHANGED <<groupVars, today, subscription, bills>>

(* The worker dies; what its jobs had begun is rolled back.  A job that    *)
(* Bull runs again reads everything anew, like any later job.              *)
Crash(w) ==
  /\ BillJobBusy(w) \/ generating[w] # Nothing
  /\ generating' = [generating EXCEPT ![w] = Nothing]
  /\ picked' = [picked EXCEPT ![w] = {}]
  /\ billing' = [billing EXCEPT ![w] = Nothing]
  /\ loaded' = [loaded EXCEPT ![w] = NotLoaded]
  /\ total' = [total EXCEPT ![w] = NoTotals]
  /\ failed' = TRUE
  /\ UNCHANGED <<groupVars, today, subscription, bills>>

-----------------------------------------------------------------------------
(* A settled invoice reads the subscriptions of its bills and saves them   *)
(* with its share, which is zero, added: the total goes back to what it    *)
(* was when it was read (Settlement has the rest of that handler).         *)
ReadTotals(d, s) ==
  /\ desk[d] = Idle
  /\ s \in DOMAIN subscription
  /\ Billed(s)
  /\ desk' = [desk EXCEPT ![d] =
                [op |-> "settle", on |-> s, read |-> subscription[s].payable]]
  /\ UNCHANGED <<fee, row, member, conflicts, today, jobVars, billVars>>

SaveTotals(d) ==
  /\ desk[d].op = "settle"
  /\ subscription' = [subscription EXCEPT ![desk[d].on].payable = desk[d].read]
  /\ desk' = [desk EXCEPT ![d] = Idle]
  /\ UNCHANGED <<fee, row, member, conflicts, today, jobVars, bills, failed>>

(* The first date of a fee that is billed from a day on, today or later.   *)
FirstDue(type, day) == IF type = "RE_OCCURRING" THEN day + Cycle ELSE day

(* What executives do, and whether a job is in the way of it.              *)
Executive ==
  /\ \/ \E d \in Desk : DeskStep(d) /\ UNCHANGED conflicts
     \/ \E f \in Fees, q \in ServiceFeeRequest :
          /\ CreateService(f, q, FirstDue(q.type, today + q.notice))
          /\ UNCHANGED conflicts
     \/ \E d \in Desk, f \in Fees :
          \/ /\ \E M \in Requests : AddMember(d, f, M) \/ RemoveMember(d, f, M)
             /\ conflicts' = conflicts \cup
                  {"group" : e \in {e \in Desk : desk[e].op \in {"add", "remove"}}}
          \/ /\ DeActivateFee(d, f)
             /\ conflicts' = conflicts \cup
                  {"removed fee" : w \in {w \in Workers : generating[w] # Nothing}}
     \/ \E m \in Members :
          /\ LeaveAssociation(m)
          /\ conflicts' = conflicts \cup
               {"left" : w \in {w \in Workers : picked[w] # {}}}
  /\ UNCHANGED <<today, jobVars, billVars>>

NextDay ==
  /\ today < MaxDay
  /\ today' = today + 1
  /\ UNCHANGED <<groupVars, jobVars, billVars>>

JobStep(w) ==
  \/ \E f \in Fees : BeginSubscription(w, f) \/ CreateSubscription(w, f)
  \/ LoadPairs(w)
  \/ \E p \in DOMAIN billing[w] : \/ BeginBill(w, p)
                      \/ InsertBill(w, p)
                      \/ MissFee(w, p)
                      \/ SaveSubscription(w, p)
                      \/ CommitBill(w, p)

JobFault(w) ==
  \/ \E f \in Fees : FailSubscription(w, f)
  \/ \E p \in DOMAIN billing[w] : FailBill(w, p)
  \/ Crash(w)

(* No handler and no job is under way: the system waits.                   *)
AtRest ==
  /\ \A d \in Desk : desk[d] = Idle
  /\ \A w \in Workers : generating[w] = Nothing /\ ~BillJobBusy(w)
  /\ UNCHANGED vars

BillingNext ==
  \/ Executive
  \/ NextDay
  \/ \E d \in Desk : SaveTotals(d) \/ \E s \in Sub : ReadTotals(d, s)
  \/ \E w \in Workers :
       \/ \E type \in ServiceType : TakeSubscriptionJob(w, type)
       \/ TakeBillJob(w)
       \/ JobStep(w)
       \/ JobFault(w)
  \/ AtRest

BillingSpec == BillingInit /\ [][BillingNext]_vars

(* Promises run, and the pool hands a free connection to whoever waits.    *)
FairBillingSpec == BillingSpec /\ \A w \in Workers : WF_vars(JobStep(w))

-----------------------------------------------------------------------------
(* Properties.                                                             *)

BillingTypeOK ==
  /\ fee \in [Fees -> [status : {"absent", "ACTIVE", "IN_ACTIVE"},
                   type : ServiceType, due : Nat]]
  /\ row \in [Fees -> [Members -> Seq({"ACTIVE", "IN_ACTIVE"})]]
  /\ \A f \in Fees, m \in Members : Len(row[f][m]) <= MaxRows[m]
  /\ member \in [Members -> {"ACTIVE", "DELETED"}]
  /\ subscription \in Seq([fee : Fees, payable : Nat])
  /\ Len(subscription) <= MaxSubscriptions
  /\ bills \in [Sub -> [Members \cup {None} -> Nat]]
  /\ \A w \in Workers :
       /\ DOMAIN generating[w] \subseteq Fees
       /\ picked[w] \subseteq Pairs
       /\ DOMAIN billing[w] \subseteq Pairs
       /\ \A p \in DOMAIN billing[w] :
            billing[w][p] \in [at : {"queued", "begun", "inserted", "saving"},
                              payable : Nat]
       /\ Cardinality(Holders(w)) <= PoolSize
  /\ total \in [Workers -> [Sub -> Nat]]

(* A fee gets one subscription, a recurring one too: unless two jobs of    *)
(* the subscription queue overlap, the look-up of one sees what the other  *)
(* created, however transactions fail, workers die and jobs run again.     *)
OneSubscriptionPerFee ==
  "subscription jobs" \notin conflicts =>
    \A s, t \in DOMAIN subscription :
      subscription[s].fee = subscription[t].fee => s = t

(* A member is billed once for a subscription: unless two bill jobs, or    *)
(* two edits of a group, overlap.  A bill job may run beside edits of the  *)
(* group, beside subscription jobs and after a bill job that died.         *)
OneBillPerMember ==
  {"bill jobs", "group"} \cap conflicts = {} =>
    \A s \in Sub, m \in Members : bills[s][m] <= 1

BillCount(s) == SumFunctionOnSet(bills[s], Members \cup {None})

(* Once its jobs are over, the payable total of a billed subscription      *)
(* counts at least one of its bills and never more than there are, unless  *)
(* a transaction failed: although transactions write totals other ones     *)
(* have raised, and settlements write totals they had read before, in any  *)
(* order.                                                                  *)
TotalWithinBills ==
  ~failed =>
    \A s \in DOMAIN subscription :
      LET cost == Cost[subscription[s].fee] IN
      (\A w \in Workers : \A p \in DOMAIN billing[w] : p[1] # s) =>
        /\ subscription[s].payable <= cost * BillCount(s)
        /\ Billed(s) => subscription[s].payable >= cost

(* A fee that was removed is never active again, unless a subscription job *)
(* had read it before and saves it after.                                  *)
RemovedFeeStaysRemoved ==
  [][\A f \in Fees :
       /\ fee[f].status = "IN_ACTIVE"
       /\ "removed fee" \notin conflicts
       => fee'[f].status = "IN_ACTIVE"]_vars

(* A subscription with a bill that no job is at is closed: no job adds a   *)
(* bill to it, so members added later, and those whose bill failed, stay   *)
(* without one.                                                            *)
AtWork(s) ==
  \E w \in Workers : \E p \in picked[w] \cup DOMAIN billing[w] : p[1] = s

BilledOnceAndForAll ==
  [][\A s \in Sub : Billed(s) /\ ~AtWork(s) => ~AtWork(s)' /\ bills'[s] = bills[s]]_vars

(* A worker is never left with transactions that all hold a connection and *)
(* wait for another one, as long as its pool has more connections than the *)
(* worker ever has transactions.                                           *)
PoolNeverStarves ==
  \A w \in Workers :
    Holders(w) # {} =>
      \/ ConnectionFree(w)
      \/ \E p \in DOMAIN billing[w] : billing[w][p].at \in {"inserted", "saving"}

(* "That that a bill can can be created for members for a subscription"    *)
(* (test/bill-generator-processor.e2e-spec.ts:47): awaiting the handler of *)
(* the job, the test expects the bills of all members.  A job that has     *)
(* begun comes to an end.                                                  *)
BillJobEnds ==
  \A w \in Workers : BillJobBusy(w) ~> ~BillJobBusy(w)
=============================================================================
