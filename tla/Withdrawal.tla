----------------------------- MODULE Withdrawal -----------------------------
(***************************************************************************)
(* Money that goes out.  An executive asks for a withdrawal: the API saves *)
(* it and adds a job to the wallet queue inside one database transaction,  *)
(* so the job is out before the row is.  A worker takes the job, asks the  *)
(* gateway to transfer the money in the middle of a second transaction,    *)
(* and books the payment to the wallet (Posting) in the same one.  Nothing *)
(* ties the gateway and the queue to that transaction: answers get lost,   *)
(* statements fail, some of them each time, and workers die, after the     *)
(* money has left.                                                         *)
(***************************************************************************)
EXTENDS Posting, FiniteSets

CONSTANTS
  Desk,            (* handlers that serve POST /wallets                    *)
  Workers,         (* worker processes; Bull runs one wallet job in each   *)
  Withdrawals,
  Amount,          (* Amount[w]: amountInMinorUnit of the withdrawal       *)
  Bankless,        (* withdrawals asked for while the wallet names no bank *)
  MaxStalled,      (* times Bull restarts the job of a worker that died    *)
  GatewayDedupes,  (* whether the gateway refuses a reference it has seen  *)
  Faults           (* which of PossibleFaults may occur                    *)

Debits == {r \in Requests : TypeOf[r] = "DEBIT"}

PossibleFaults == {"answer", "read", "database", "crash"}

ASSUME WithdrawalAssumption ==
  /\ Desk \subseteq Handlers
  /\ Workers \subseteq Handlers
  /\ Desk \cap Workers = {}
  /\ None \notin Withdrawals
  /\ Amount \in [Withdrawals -> Amounts]
  /\ Bankless \subseteq Withdrawals
  /\ MaxStalled \in Nat
  /\ GatewayDedupes \in BOOLEAN
  /\ Faults \subseteq PossibleFaults

VARIABLES
  withdrawal,      (* wallet_withdrawal rows: withdrawalStatus             *)
  requestFor,      (* requestFor[r]: withdrawal of a committed request     *)
  withdrawalLock,  (* whose uncommitted update of the row                  *)
  queue,           (* ids waiting in the wallet queue, next one first      *)
  failedJobs,      (* ids Bull has moved to its failed set                 *)
  stalled,         (* stalled[w]: times its job was restarted              *)
  job,             (* job[h]: the withdrawal a handler works on            *)
  funds,           (* funds[h]: balance loaded together with it            *)
  transfers        (* transfers[w]: times the gateway moved its money      *)

jobVars == <<queue, failedJobs, stalled>>
payoutVars == <<withdrawal, requestFor, withdrawalLock, job, funds, transfers>>
withdrawalVars == <<postingVars, jobVars, payoutVars>>

(* "absent" is a row not yet inserted, "void" one whose insert was rolled  *)
(* back: its id is never used again.                                       *)
WithdrawalStatus ==
  {"absent", "void", "PENDING", "INSUFFICIENT_FUNDS",
   "WAITING_CONFIRMATION", "FAILED"}

WithdrawalStates ==
  {"idle", "enqueue", "commitWithdrawal",
   "payout", "refuse", "noBank", "transfer", "saveWithdrawal", "reject",
   "ack"}
  \cup PostingStates

WithdrawalInit ==
  /\ PostingInit
  /\ withdrawal = [w \in Withdrawals |-> "absent"]
  /\ requestFor = [r \in Debits |-> None]
  /\ withdrawalLock = [w \in Withdrawals |-> None]
  /\ queue = <<>>
  /\ failedJobs = {}
  /\ stalled = [w \in Withdrawals |-> 0]
  /\ job = [h \in Handlers |-> None]
  /\ funds = [h \in Handlers |-> 0]
  /\ transfers = [w \in Withdrawals |-> 0]

ReleaseWithdrawal(h) ==
  withdrawalLock' = [w \in Withdrawals |->
                       IF withdrawalLock[w] = h THEN None ELSE withdrawalLock[w]]

Drop(h) ==
  /\ job' = [job EXCEPT ![h] = None]
  /\ funds' = [funds EXCEPT ![h] = 0]

-----------------------------------------------------------------------------
(* initiateWithdrawal in the API process.                                  *)

(* The balance is read without a lock and the row inserted.  A smaller     *)
(* balance is answered with an exception and changes nothing.              *)
InitiateWithdrawal(h, w) ==
  /\ h \in Desk
  /\ withdrawal[w] = "absent"
  /\ \A other \in Handlers : job[other] # w
  /\ Amount[w] <= balance
  /\ Goto(h, "idle", "enqueue")
  /\ job' = [job EXCEPT ![h] = w]
  /\ UNCHANGED <<doing, answer, inserted, entries, lockVars, ledgerVars,
                 request, jobVars, withdrawal, requestFor, withdrawalLock,
                 funds, transfers>>

(* walletWithDrawlQueue.add, before the transaction commits.               *)
Enqueue_forgotten(h) ==
  /\ Goto(h, "enqueue", "commitWithdrawal")
  /\ UNCHANGED <<doing, answer, inserted, entries, lockVars, ledgerVars,
                 request, jobVars, payoutVars>>

Enqueue(h) ==
  /\ Goto(h, "enqueue", "commitWithdrawal")
  /\ queue' = Append(queue, job[h])
  /\ UNCHANGED <<doing, answer, inserted, entries, lockVars, ledgerVars,
                 request, failedJobs, stalled, payoutVars>>

CommitWithdrawal(h) ==
  /\ Goto(h, "commitWithdrawal", "idle")
  /\ withdrawal' = [withdrawal EXCEPT ![job[h]] = "PENDING"]
  /\ Drop(h)
  /\ UNCHANGED <<doing, answer, inserted, entries, lockVars, ledgerVars,
                 request, jobVars, requestFor, withdrawalLock, transfers>>

(* Redis or the database rejects, or the process dies, before the commit.  *)
FailInitiate(h) ==
  /\ "database" \in Faults
  /\ \E from \in {"enqueue", "commitWithdrawal"} : Goto(h, from, "idle")
  /\ withdrawal' = [withdrawal EXCEPT ![job[h]] = "void"]
  /\ Drop(h)
  /\ UNCHANGED <<doing, answer, inserted, entries, lockVars, ledgerVars,
                 request, jobVars, requestFor, withdrawalLock, transfers>>

-----------------------------------------------------------------------------
(* WalletWithdrawalProcessor.process and PaymentRequestService.payout.     *)

(* The row is not there (yet): payout(undefined) throws and the job fails. *)
LoseJob(h) ==
  /\ h \in Workers
  /\ pc[h] = "idle"
  /\ queue # <<>>
  /\ withdrawal[Head(queue)] \in {"absent", "void"}
  /\ failedJobs' = failedJobs \cup {Head(queue)}
  /\ queue' = Tail(queue)
  /\ UNCHANGED <<postingVars, stalled, payoutVars>>

(* One query loads the withdrawal, its wallet and the bank.                *)
TakeJob_peeks(h) ==
  /\ h \in Workers
  /\ queue # <<>>
  /\ withdrawal[Head(queue)] \notin {"absent", "void"}
  /\ Goto(h, "idle", "payout")
  /\ job' = [job EXCEPT ![h] = Head(queue)]
  /\ funds' = [funds EXCEPT ![h] = balance]
  /\ UNCHANGED <<doing, answer, inserted, entries, lockVars, ledgerVars,
                 request, jobVars, withdrawal, requestFor,
                 withdrawalLock, transfers>>

TakeJob(h) ==
  /\ h \in Workers
  /\ queue # <<>>
  /\ withdrawal[Head(queue)] \notin {"absent", "void"}
  /\ Goto(h, "idle", "payout")
  /\ job' = [job EXCEPT ![h] = Head(queue)]
  /\ funds' = [funds EXCEPT ![h] = balance]
  /\ queue' = Tail(queue)
  /\ UNCHANGED <<doing, answer, inserted, entries, lockVars, ledgerVars,
                 request, failedJobs, stalled, withdrawal, requestFor,
                 withdrawalLock, transfers>>

(* The transaction begins.  The balance that was loaded is compared, not   *)
(* the one the wallet has now, and the status of the withdrawal is not     *)
(* looked at; then a payment request of its own is inserted for this run,  *)
(* and the account to transfer to is looked up: onboarding asks for none,  *)
(* and without one that throws outside the inner catch.                    *)
Fresh(r) ==
  /\ request[r].status = "absent"
  /\ \A h \in Handlers : doing[h] # r

(* Which of the unused ones makes no difference.                           *)
NewRequest == CHOOSE r \in Debits : Fresh(r)

Payout_unchecked(h) ==
  /\ pc[h] = "payout"
  /\ \E r \in {r \in Debits : Fresh(r)} :
       /\ Goto(h, "payout", "transfer")
       /\ doing' = [doing EXCEPT ![h] = r]
  /\ UNCHANGED <<answer, inserted, entries, lockVars, ledgerVars, request,
                 jobVars, payoutVars>>

Payout(h) ==
  /\ pc[h] = "payout"
  /\ \/ /\ funds[h] < Amount[job[h]]
        /\ Goto(h, "payout", "refuse")
        /\ UNCHANGED doing
     \/ /\ funds[h] >= Amount[job[h]]
        /\ \E r \in {r \in Debits : Fresh(r)} :
             /\ r = NewRequest
             /\ Goto(h, "payout", IF job[h] \in Bankless THEN "noBank" ELSE "transfer")
             /\ doing' = [doing EXCEPT ![h] = r]
  /\ UNCHANGED <<answer, inserted, entries, lockVars, ledgerVars, request,
                 jobVars, payoutVars>>

Refuse_unsaved(h) ==
  /\ Goto(h, "refuse", "ack")
  /\ UNCHANGED <<doing, answer, inserted, entries, lockVars, ledgerVars,
                 request, jobVars, payoutVars>>

Refuse(h) ==
  /\ Goto(h, "refuse", "ack")
  /\ withdrawalLock[job[h]] = None
  /\ withdrawal' = [withdrawal EXCEPT ![job[h]] = "INSUFFICIENT_FUNDS"]
  /\ UNCHANGED <<doing, answer, inserted, entries, lockVars, ledgerVars,
                 request, jobVars, requestFor, withdrawalLock, job, funds,
                 transfers>>

(* The gateway knows a transfer by the reference of the withdrawal.        *)
GatewayAccepts(w) == GatewayDedupes => transfers[w] = 0

TransferDone(h) ==
  /\ Goto(h, "transfer", "saveWithdrawal")
  /\ GatewayAccepts(job[h])
  /\ transfers' = [transfers EXCEPT ![job[h]] = @ + 1]
  /\ answer' = [answer EXCEPT ![h] =
                  [amount |-> Amount[job[h]], status |-> "successful"]]
  /\ UNCHANGED <<doing, inserted, entries, lockVars, ledgerVars, request,
                 jobVars, withdrawal, requestFor, withdrawalLock, job, funds>>

(* The money moves and the answer does not arrive.                         *)
TransferUnanswered(h) ==
  /\ "answer" \in Faults
  /\ Goto(h, "transfer", "reject")
  /\ GatewayAccepts(job[h])
  /\ transfers' = [transfers EXCEPT ![job[h]] = @ + 1]
  /\ UNCHANGED <<doing, answer, inserted, entries, lockVars, ledgerVars,
                 request, jobVars, withdrawal, requestFor, withdrawalLock,
                 job, funds>>

TransferRefused_ignored(h) ==
  /\ Goto(h, "transfer", "saveWithdrawal")
  /\ answer' = [answer EXCEPT ![h] =
                  [amount |-> Amount[job[h]], status |-> "failed"]]
  /\ UNCHANGED <<doing, inserted, entries, lockVars, ledgerVars, request,
                 jobVars, payoutVars>>

TransferRefused(h) ==
  /\ Goto(h, "transfer", "reject")
  /\ UNCHANGED <<doing, answer, inserted, entries, lockVars, ledgerVars,
                 request, jobVars, payoutVars>>

(* entityManager.save(walletWithdrawal), then createPaymentTransaction.    *)
SaveWithdrawal(h) ==
  /\ Goto(h, "saveWithdrawal", "check")
  /\ withdrawalLock[job[h]] = None
  /\ withdrawalLock' = [withdrawalLock EXCEPT ![job[h]] = h]
  /\ UNCHANGED <<doing, answer, inserted, entries, lockVars, ledgerVars,
                 request, jobVars, withdrawal, requestFor, job, funds,
                 transfers>>

(* What a run that reaches its commit writes besides the wallet.           *)
WritePayout(h, requestStatus, withdrawalStatus) ==
  /\ request' = [request EXCEPT ![doing[h]] =
                   [status |-> requestStatus, paid |-> 0]]
  /\ requestFor' = [requestFor EXCEPT ![doing[h]] = job[h]]
  /\ withdrawal' = [withdrawal EXCEPT ![job[h]] = withdrawalStatus]
  /\ ReleaseWithdrawal(h)
  /\ UNCHANGED <<jobVars, job, funds, transfers>>

CommitPayout(h) ==
  /\ h \in Workers
  /\ Goto(h, "posted", "ack")
  /\ WritePayout(h, "AWAITING_CONFIRMATION", "WAITING_CONFIRMATION")
  /\ CommitPosting(h)

(* The catch block: whatever was rejected, before or after the money left, *)
(* both rows are saved as FAILED and the transaction commits, with what    *)
(* had been inserted by then.                                              *)
Reject(h) ==
  /\ h \in Workers
  /\ \E from \in {"reject", "threw"} : Goto(h, from, "ack")
  /\ withdrawalLock[job[h]] \in {None, h}
  /\ WritePayout(h, "FAILED", "FAILED")
  /\ CommitPosting(h)

(* Bull is told the job is done.                                           *)
Ack(h) ==
  /\ Goto(h, "ack", "idle")
  /\ Drop(h)
  /\ UNCHANGED <<doing, answer, inserted, entries, lockVars, ledgerVars,
                 request, jobVars, withdrawal, requestFor, withdrawalLock,
                 transfers>>

(* A rejected job goes to the failed set: it has one attempt.              *)
GiveUp(h) ==
  /\ failedJobs' = failedJobs \cup {job[h]}
  /\ UNCHANGED <<queue, stalled>>

EndRun(h) ==
  /\ RollbackPosting(h)
  /\ ReleaseWithdrawal(h)
  /\ Drop(h)
  /\ UNCHANGED <<request, withdrawal, requestFor, transfers>>

(* There is no bank, or a statement of the transaction failed and with it  *)
(* the saves of the catch block: everything is rolled back but the         *)
(* transfer, and the withdrawal stays as it was.                           *)
RollbackPayout(h) ==
  /\ h \in Workers
  /\ \E from \in {"noBank", "aborted"} : Goto(h, from, "idle")
  /\ EndRun(h)
  /\ GiveUp(h)

(* A statement fails, or the connection is lost.                           *)
FailPayout(h) ==
  /\ h \in Workers
  /\ "database" \in Faults
  /\ \E from \in {"payout", "refuse", "transfer", "saveWithdrawal",
                  "saveWallet", "posted", "reject"} :
       Goto(h, from, "idle")
  /\ EndRun(h)
  /\ GiveUp(h)

(* The worker dies; Bull finds the job stalled and puts it back as next.   *)
Restart(h) ==
  IF stalled[job[h]] < MaxStalled
    THEN /\ queue' = <<job[h]>> \o queue
         /\ stalled' = [stalled EXCEPT ![job[h]] = @ + 1]
         /\ UNCHANGED failedJobs
    ELSE GiveUp(h)

Crash(h) ==
  /\ h \in Workers
  /\ "crash" \in Faults
  /\ \E from \in WithdrawalStates \ {"idle"} : Goto(h, from, "idle")
  /\ EndRun(h)
  /\ Restart(h)

-----------------------------------------------------------------------------

DeskStep(h) == Enqueue(h) \/ CommitWithdrawal(h)

WorkerStep(h) ==
  /\ h \in Workers
  /\ \/ LoseJob(h)
     \/ TakeJob(h)
     \/ Payout(h)
     \/ Refuse(h)
     \/ TransferDone(h)
     \/ TransferRefused(h)
     \/ SaveWithdrawal(h)
     \/ PostingStep(h) /\ UNCHANGED <<jobVars, payoutVars>>
     \/ CommitPayout(h)
     \/ Reject(h)
     \/ RollbackPayout(h)
     \/ Ack(h)

WithdrawalFault(h) ==
  \/ FailInitiate(h)
  \/ TransferUnanswered(h)
  \/ /\ h \in Workers
     /\ "read" \in Faults
     /\ ReadFails(h)
     /\ UNCHANGED <<jobVars, payoutVars>>
  \/ FailPayout(h)
  \/ Crash(h)

(* Nothing is asked of the service and no job is left: it waits.           *)
AtRest ==
  /\ \A h \in Handlers : pc[h] = "idle"
  /\ queue = <<>>
  /\ UNCHANGED withdrawalVars

WithdrawalNext ==
  \/ \E h \in Handlers :
       \/ \E w \in Withdrawals : InitiateWithdrawal(h, w)
       \/ DeskStep(h)
       \/ WorkerStep(h)
       \/ WithdrawalFault(h)
  \/ AtRest

WithdrawalSpec == WithdrawalInit /\ [][WithdrawalNext]_withdrawalVars

(* Promises run, the gateway answers, Bull hands out waiting jobs, and     *)
(* Postgres grants a row to the waiting updates in their order.            *)
WithdrawalFairness ==
  \A h \in Handlers :
    /\ WF_withdrawalVars(DeskStep(h))
    /\ WF_withdrawalVars(WorkerStep(h))

FairWithdrawalSpec == WithdrawalSpec /\ WithdrawalFairness

-----------------------------------------------------------------------------
(* Properties.                                                             *)

WithdrawalTypeOK ==
  /\ PostingTypeOK(WithdrawalStates)
  /\ withdrawal \in [Withdrawals -> WithdrawalStatus]
  /\ requestFor \in [Debits -> Withdrawals \cup {None}]
  /\ withdrawalLock \in [Withdrawals -> Handlers \cup {None}]
  /\ queue \in Seq(Withdrawals)
  /\ failedJobs \subseteq Withdrawals
  /\ stalled \in [Withdrawals -> 0 .. MaxStalled]
  /\ job \in [Handlers -> Withdrawals \cup {None}]
  /\ funds \in [Handlers -> Int]
  /\ transfers \in [Withdrawals -> Nat]

(* The wallet transactions that a withdrawal led to.                       *)
LinesOf(w) ==
  {i \in DOMAIN walletTransactions :
     /\ walletTransactions[i].request \in Debits
     /\ requestFor[walletTransactions[i].request] = w}

(* The wallet is never debited for money that did not leave: each debit of *)
(* a withdrawal has a transfer of its own behind it, for its amount,       *)
(* whatever fails and however often the job is run.                        *)
DebitIsBacked ==
  \A w \in Withdrawals :
    /\ Cardinality(LinesOf(w)) <= transfers[w]
    /\ \A i \in LinesOf(w) : walletTransactions[i].amount = Amount[w]

(* A withdrawal that waits for confirmation has been transferred and       *)
(* debited: the three writes are in one transaction behind the transfer.   *)
WaitingIsDebited ==
  \A w \in Withdrawals :
    withdrawal[w] = "WAITING_CONFIRMATION" =>
      /\ transfers[w] > 0
      /\ LinesOf(w) # {}

(* A pending withdrawal is never forgotten without a trace: its job waits, *)
(* is at a worker, or lies in the failed set of the queue, where one that  *)
(* overtook the commit of its withdrawal ends.                             *)
PendingHasAJob ==
  \A w \in Withdrawals :
    withdrawal[w] = "PENDING" =>
      \/ \E i \in DOMAIN queue : queue[i] = w
      \/ \E h \in Workers : job[h] = w
      \/ w \in failedJobs

(* When nothing fails and no worker is at it, the wallet was debited for a *)
(* withdrawal, once, exactly when it says that it waits for confirmation.  *)
(* Its money left exactly then, and once, without relying on the gateway   *)
(* to refuse what it has already done: but for the withdrawals whose       *)
(* amount comes back with a fraction.  Their money leaves just as often,   *)
(* and what tells of it is a pending withdrawal whose job has failed.      *)
Debited(w) == withdrawal[w] = "WAITING_CONFIRMATION"

SentUnrecorded(w) ==
  /\ Amount[w] \in Inexact
  /\ withdrawal[w] = "PENDING"
  /\ w \in failedJobs

TransferMatchesStatus ==
  \A w \in Withdrawals :
    (\A h \in Workers : job[h] # w) =>
      /\ Cardinality(LinesOf(w)) = IF Debited(w) THEN 1 ELSE 0
      /\ transfers[w] <= 1
      /\ Debited(w) => transfers[w] = 1
      /\ transfers[w] = 1 => Debited(w) \/ SentUnrecorded(w)

(* Unless a worker died with its job and it was run again, the outcome of  *)
(* a withdrawal is final, a rolled back one included: no other job, and no *)
(* run that failed half-way, gives it another.                             *)
OutcomeIsFinal ==
  [][\A w \in Withdrawals :
       /\ stalled[w] = 0
       /\ withdrawal[w] \in {"INSUFFICIENT_FUNDS", "WAITING_CONFIRMATION",
                            "FAILED", "void"}
       => withdrawal'[w] = withdrawal[w]]_withdrawalVars

(* A withdrawal a worker has begun to pay gets an outcome.  One whose      *)
(* wallet named no bank, or whose amount comes back with a fraction, gets  *)
(* one only if it is refused before that matters; else its job ends in the *)
(* failed set, and it stays pending for ever.                              *)
HasOutcome(w) ==
  withdrawal[w] \in {"INSUFFICIENT_FUNDS", "WAITING_CONFIRMATION", "FAILED"}

BegunPayoutsEnd ==
  \A w \in Withdrawals :
    (\E h \in Workers : pc[h] = "payout" /\ job[h] = w)
      ~> \/ HasOutcome(w)
         \/ /\ w \in Bankless \/ Amount[w] \in Inexact
            /\ withdrawal[w] = "PENDING" /\ w \in failedJobs
=============================================================================
