-------------------------- MODULE WithdrawalProofs --------------------------
(***************************************************************************)
(* Theorems about Withdrawal, for every set of handlers, withdrawals,      *)
(* requests and amounts and every set of faults; the last theorem is about *)
(* the empty one.                                                          *)
(*                                                                         *)
(* The argument: every run of a job inserts a payment request of its own,  *)
(* which nobody else touches until the transaction ends.  So a run whose   *)
(* transfer was answered, and later the line its commit adds, are counted  *)
(* by that request: the requests that stand for a transfer of a withdrawal *)
(* are never more than its transfers.  Where the job of a withdrawal is    *)
(* does not depend on the gateway or the database, only on the queue, and  *)
(* as long as no worker died with it, it is in one place.                  *)
(***************************************************************************)
EXTENDS Withdrawal, TLAPS, SequenceTheorems, FiniteSetTheorems

AtDesk == {"enqueue", "commitWithdrawal"}

(* A worker in one of these states has inserted its payment request.       *)
Paying ==
  {"noBank", "transfer", "saveWithdrawal", "reject"} \cup PostingStates

(* The gateway answered that the money left, and the run may still commit. *)
Transferred ==
  {"saveWithdrawal", "check", "insert", "wallet", "saveWallet", "posted"}

(* The wallet_transaction is built.                                        *)
Entered == {"saveWallet", "posted"}

(* What a handler holds, by where it is.                                   *)
LocalsAt(h) ==
  /\ job[h] = None <=> pc[h] = "idle"
  /\ pc[h] \in AtDesk => /\ h \in Desk
                         /\ withdrawal[job[h]] = "absent"
                         /\ \A k \in Handlers \ {h} : job[k] # job[h]
  /\ pc[h] \notin AtDesk \cup {"idle"} =>
       /\ h \in Workers
       /\ withdrawal[job[h]] \notin {"absent", "void"}
  /\ IF pc[h] \in Paying
       THEN doing[h] \in Debits
       ELSE doing[h] = None /\ inserted[h] = <<>>
  /\ pc[h] \in Transferred => /\ answer[h] \in Answers
                              /\ answer[h].amount = Amount[job[h]]
  /\ \A i \in DOMAIN inserted[h] : inserted[h][i].request = doing[h]
  /\ IF pc[h] \in Entered
       THEN \E before \in Int : entries[h] = <<WalletRow(h, before)>>
       ELSE entries[h] = <<>>
  /\ walletLock = h => pc[h] = "posted"

(* The payment request of a run is not committed and nobody else's.        *)
OwnRequest(h) ==
  doing[h] # None =>
    /\ request[doing[h]].status = "absent"
    /\ \A k \in Handlers \ {h} : doing[k] # doing[h]

(* The books name committed requests, the wallet's at most once and with   *)
(* the amount of the withdrawal the request was made for.                  *)
Named(r) ==
  /\ r \in Debits
  /\ request[r].status # "absent"
  /\ requestFor[r] \in Withdrawals

LineOK(i) ==
  /\ Named(walletTransactions[i].request)
  /\ walletTransactions[i].amount =
       Amount[requestFor[walletTransactions[i].request]]

BooksOK ==
  /\ \A i \in DOMAIN transactions :
       request[transactions[i].request].status # "absent"
  /\ \A i \in DOMAIN walletTransactions : LineOK(i)
  /\ \A i, j \in DOMAIN walletTransactions :
       walletTransactions[i].request = walletTransactions[j].request => i = j

HandlersOK == \A h \in Handlers : LocalsAt(h) /\ OwnRequest(h)

Shape == WithdrawalTypeOK /\ HandlersOK /\ BooksOK

-----------------------------------------------------------------------------

USE DEF PostingStates, WithdrawalStates, WithdrawalStatus, PaymentStatus,
        AtDesk, Paying, Transferred, Entered

(* Nothing is under way and nothing is booked.                             *)
LEMMA InitShape == WithdrawalInit => Shape
<1> SUFFICES ASSUME WithdrawalInit PROVE Shape
  OBVIOUS
<1> USE PostingAssumption, WithdrawalAssumption
    DEF WithdrawalInit, PostingInit, PostingAssumption, WithdrawalAssumption
<1>1. WithdrawalTypeOK
  <2>1. PostingTypeOK(WithdrawalStates)
    BY DEF PostingTypeOK, Absent, TransactionRows, WalletRows
  <2>2. QED
    BY <2>1 DEF WithdrawalTypeOK, Debits
<1>2. ASSUME NEW h \in Handlers PROVE LocalsAt(h) /\ OwnRequest(h)
  BY DEF LocalsAt, OwnRequest
<1>3. BooksOK
  BY DEF BooksOK
<1>4. QED
  BY <1>1, <1>2, <1>3 DEF Shape, HandlersOK

(* A handler that does not take part keeps what it holds: enough of what   *)
(* it refers to is left alone by every step of another.                    *)
LEMMA Bystander ==
  ASSUME Shape, NEW k \in Handlers,
         pc'[k] = pc[k], job'[k] = job[k], doing'[k] = doing[k],
         answer'[k] = answer[k], inserted'[k] = inserted[k],
         entries'[k] = entries[k],
         walletLock' = k => walletLock = k,
         pc[k] \in AtDesk => withdrawal'[job[k]] = withdrawal[job[k]],
         pc[k] \in AtDesk =>
           \A h \in Handlers \ {k} : job'[h] # job[k],
         pc[k] \notin AtDesk \cup {"idle"} =>
           withdrawal'[job[k]] \notin {"absent", "void"},
         doing[k] # None => request'[doing[k]] = request[doing[k]],
         doing[k] # None => \A h \in Handlers \ {k} : doing'[h] # doing[k]
  PROVE  LocalsAt(k)' /\ OwnRequest(k)'
<1>1. LocalsAt(k) /\ OwnRequest(k)
  BY DEF Shape, HandlersOK
<1>2. LocalsAt(k)'
  BY <1>1 DEF LocalsAt, WalletRow
<1>3. OwnRequest(k)'
  BY <1>1 DEF OwnRequest
<1>4. QED
  BY <1>2, <1>3
(* The books of a step that writes none of their tables.                   *)
LEMMA BooksKept ==
  ASSUME Shape, UNCHANGED <<ledgerVars, request, requestFor>>
  PROVE  BooksOK'
BY DEF Shape, BooksOK, LineOK, Named, ledgerVars

(* A handler that is not idle has a withdrawal in hand.                    *)
LEMMA HasJob ==
  ASSUME Shape, NEW h \in Handlers, pc[h] # "idle"
  PROVE  job[h] \in Withdrawals
<1>1. LocalsAt(h) /\ job[h] \in Withdrawals \cup {None}
  BY DEF Shape, HandlersOK, WithdrawalTypeOK
<1>2. job[h] # None
  BY <1>1 DEF LocalsAt
<1>3. QED
  BY <1>1, <1>2

-----------------------------------------------------------------------------
(* The desk.                                                               *)

(* A withdrawal nobody has in hand is taken up by one handler.             *)
LEMMA InitiateShape ==
  ASSUME Shape, NEW h \in Handlers, NEW w \in Withdrawals,
         InitiateWithdrawal(h, w)
  PROVE  Shape'
<1> USE PostingAssumption, WithdrawalAssumption
    DEF InitiateWithdrawal, Goto, PostingAssumption, WithdrawalAssumption
<1>1. WithdrawalTypeOK'
  BY DEF Shape, WithdrawalTypeOK, PostingTypeOK, lockVars, ledgerVars, jobVars
<1>2. ASSUME NEW k \in Handlers, k # h PROVE (LocalsAt(k) /\ OwnRequest(k))'
  <2>1. LocalsAt(k) /\ OwnRequest(k)
    BY DEF Shape, HandlersOK
  <2>2. pc[k] \in AtDesk => \A g \in Handlers \ {k} : job'[g] # job[k]
    BY <1>2, <2>1 DEF LocalsAt, Shape, WithdrawalTypeOK
  <2>3. doing[k] # None => \A g \in Handlers \ {k} : doing'[g] # doing[k]
    BY <2>1 DEF OwnRequest
  <2>4. pc[k] \notin AtDesk \cup {"idle"} =>
          withdrawal'[job[k]] \notin {"absent", "void"}
    BY <2>1 DEF LocalsAt
  <2>5. /\ pc'[k] = pc[k] /\ job'[k] = job[k]
        /\ walletLock' = walletLock
    BY <1>2 DEF Shape, WithdrawalTypeOK, PostingTypeOK, lockVars
  <2>6. QED
    BY <2>2, <2>3, <2>4, <2>5, Bystander
<1>3. LocalsAt(h)' /\ OwnRequest(h)'
  <2>1. LocalsAt(h) /\ OwnRequest(h) /\ pc'[h] = "enqueue" /\ job'[h] = w
    BY DEF Shape, HandlersOK, WithdrawalTypeOK, PostingTypeOK
  <2>2. \A k \in Handlers \ {h} : job'[k] # w
    BY DEF Shape, WithdrawalTypeOK
  <2>3. QED
    BY <2>1, <2>2 DEF LocalsAt, OwnRequest, lockVars
<1>4. BooksOK'
  BY BooksKept
<1>5. QED
  BY <1>1, <1>2, <1>3, <1>4 DEF Shape, HandlersOK

(* A step of h that changes at most its own locals, withdrawal, request    *)
(* and locks leaves the other handlers what they hold.                     *)
LEMMA OthersKeep ==
  ASSUME Shape, NEW h \in Handlers,
         \A k \in Handlers \ {h} :
           /\ pc'[k] = pc[k] /\ job'[k] = job[k] /\ doing'[k] = doing[k]
           /\ answer'[k] = answer[k] /\ inserted'[k] = inserted[k]
           /\ entries'[k] = entries[k],
         walletLock' \in {walletLock, h, None},
         job'[h] \in {job[h], None},
         doing'[h] \in {doing[h], None},
         \A w \in Withdrawals \ {job[h]} : withdrawal'[w] = withdrawal[w],
         \/ withdrawal'[job[h]] = withdrawal[job[h]]
         \/ pc[h] \in AtDesk
         \/ withdrawal'[job[h]] \notin {"absent", "void"},
         pc[h] # "idle",
         \A r \in Requests \ {doing[h]} : request'[r] = request[r]
  PROVE  \A k \in Handlers \ {h} : (LocalsAt(k) /\ OwnRequest(k))'
<1> SUFFICES ASSUME NEW k \in Handlers \ {h}
             PROVE  (LocalsAt(k) /\ OwnRequest(k))'
  OBVIOUS
<1> USE PostingAssumption, WithdrawalAssumption
    DEF PostingAssumption, WithdrawalAssumption
<1>1. /\ LocalsAt(k) /\ OwnRequest(k) /\ LocalsAt(h) /\ OwnRequest(h)
      /\ job[k] \in Withdrawals \cup {None}
      /\ doing[k] \in Requests \cup {None}
  BY DEF Shape, HandlersOK, WithdrawalTypeOK, PostingTypeOK
<1>2. pc[k] \in AtDesk =>
        /\ withdrawal'[job[k]] = withdrawal[job[k]]
        /\ \A g \in Handlers \ {k} : job'[g] # job[k]
  <2>1. SUFFICES ASSUME pc[k] \in AtDesk
                 PROVE  /\ withdrawal'[job[k]] = withdrawal[job[k]]
                        /\ \A g \in Handlers \ {k} : job'[g] # job[k]
    OBVIOUS
  <2>2. /\ job[k] \in Withdrawals
        /\ \A g \in Handlers \ {k} : job[g] # job[k]
    BY <1>1, <2>1 DEF LocalsAt
  <2>3. job[h] # job[k]
    BY <2>2
  <2>4. withdrawal'[job[k]] = withdrawal[job[k]]
    BY <2>2, <2>3
  <2>5. ASSUME NEW g \in Handlers \ {k} PROVE job'[g] # job[k]
    BY <2>2
  <2>6. QED
    BY <2>4, <2>5
<1>3. pc[k] \notin AtDesk \cup {"idle"} =>
        withdrawal'[job[k]] \notin {"absent", "void"}
  <2>1. SUFFICES ASSUME pc[k] \notin AtDesk \cup {"idle"}
                 PROVE  withdrawal'[job[k]] \notin {"absent", "void"}
    OBVIOUS
  <2>2. job[k] \in Withdrawals /\ withdrawal[job[k]] \notin {"absent", "void"}
    BY <1>1, <2>1 DEF LocalsAt
  <2>3. CASE job[k] = job[h]
    <3>1. pc[h] \notin AtDesk
      BY <1>1, <2>2, <2>3 DEF LocalsAt
    <3>2. QED
      BY <2>2, <2>3, <3>1
  <2>4. CASE job[k] # job[h]
    BY <2>2, <2>4
  <2>5. QED
    BY <2>3, <2>4
<1>4. doing[k] # None =>
        /\ request'[doing[k]] = request[doing[k]]
        /\ \A g \in Handlers \ {k} : doing'[g] # doing[k]
  <2>1. SUFFICES ASSUME doing[k] # None
                 PROVE  /\ request'[doing[k]] = request[doing[k]]
                        /\ \A g \in Handlers \ {k} : doing'[g] # doing[k]
    OBVIOUS
  <2>2. \A g \in Handlers \ {k} : doing[g] # doing[k]
    BY <1>1, <2>1 DEF OwnRequest
  <2>3. QED
    BY <1>1, <2>1, <2>2
<1>5. walletLock' = k => walletLock = k
  OBVIOUS
<1>6. QED
  BY <1>2, <1>3, <1>4, <1>5, Bystander

(* The job goes out before the row.                                        *)
LEMMA EnqueueShape ==
  ASSUME Shape, NEW h \in Handlers, Enqueue(h)
  PROVE  Shape'
<1>1. /\ pc[h] = "enqueue"
      /\ pc' = [pc EXCEPT ![h] = "commitWithdrawal"]
      /\ queue' = Append(queue, job[h])
      /\ UNCHANGED <<doing, answer, inserted, entries, lockVars, ledgerVars,
                     request, failedJobs, stalled, payoutVars>>
  BY DEF Enqueue, Goto
<1>2. LocalsAt(h) /\ OwnRequest(h) /\ job[h] \in Withdrawals
  BY <1>1, HasJob DEF Shape, HandlersOK
<1>3. WithdrawalTypeOK'
  <2>1. queue' \in Seq(Withdrawals)
    <3>1. queue \in Seq(Withdrawals)
      BY DEF Shape, WithdrawalTypeOK
    <3>2. QED
      BY <1>1, <1>2, <3>1
  <2>2. PostingTypeOK(WithdrawalStates)'
    BY <1>1 DEF Shape, WithdrawalTypeOK, PostingTypeOK, lockVars, ledgerVars
  <2>3. QED
    BY <1>1, <2>1, <2>2 DEF Shape, WithdrawalTypeOK, payoutVars
<1>4. \A k \in Handlers \ {h} : (LocalsAt(k) /\ OwnRequest(k))'
  BY <1>1, OthersKeep
  DEF Shape, WithdrawalTypeOK, PostingTypeOK, lockVars, payoutVars
<1>5. LocalsAt(h)' /\ OwnRequest(h)'
  <2>1. pc'[h] = "commitWithdrawal"
    BY <1>1 DEF Shape, WithdrawalTypeOK, PostingTypeOK
  <2>2. UNCHANGED <<doing, answer, inserted, entries, walletLock, request,
                    withdrawal, job>>
    BY <1>1 DEF lockVars, payoutVars
  <2>3. LocalsAt(h)'
    BY <1>1, <1>2, <2>1, <2>2 DEF LocalsAt
  <2>4. OwnRequest(h)'
    BY <1>2, <2>2 DEF OwnRequest
  <2>5. QED
    BY <2>3, <2>4
<1>6. BooksOK'
  BY <1>1, BooksKept DEF payoutVars
<1>7. QED
  BY <1>3, <1>4, <1>5, <1>6 DEF Shape, HandlersOK

(* The row is committed or rolled back, and the request answered.          *)
LEMMA CloseShape ==
  ASSUME Shape, NEW h \in Handlers, CommitWithdrawal(h) \/ FailInitiate(h)
  PROVE  Shape'
<1>1. /\ pc[h] \in AtDesk
      /\ pc' = [pc EXCEPT ![h] = "idle"]
      /\ job' = [job EXCEPT ![h] = None]
      /\ funds' = [funds EXCEPT ![h] = 0]
      /\ UNCHANGED <<doing, answer, inserted, entries, lockVars, ledgerVars,
                     request, jobVars, requestFor, withdrawalLock, transfers>>
  BY DEF CommitWithdrawal, FailInitiate, Drop, Goto
<1>2. PICK s \in {"PENDING", "void"} :
        withdrawal' = [withdrawal EXCEPT ![job[h]] = s]
  BY DEF CommitWithdrawal, FailInitiate
<1>3. LocalsAt(h) /\ OwnRequest(h) /\ job[h] \in Withdrawals
  BY <1>1 DEF Shape, HandlersOK, LocalsAt, WithdrawalTypeOK
<1>4. WithdrawalTypeOK'
  <2>1. withdrawal' \in [Withdrawals -> WithdrawalStatus]
    BY <1>2 DEF Shape, WithdrawalTypeOK
  <2>2. PostingTypeOK(WithdrawalStates)'
    BY <1>1 DEF Shape, WithdrawalTypeOK, PostingTypeOK, lockVars, ledgerVars
  <2>3. QED
    BY <1>1, <2>1, <2>2 DEF Shape, WithdrawalTypeOK, jobVars
<1>5. \A k \in Handlers \ {h} : (LocalsAt(k) /\ OwnRequest(k))'
  BY <1>1, <1>2, OthersKeep
  DEF Shape, WithdrawalTypeOK, PostingTypeOK, lockVars
<1>6. LocalsAt(h)' /\ OwnRequest(h)'
  BY <1>1, <1>3 DEF LocalsAt, OwnRequest, lockVars, Shape, WithdrawalTypeOK,
     PostingTypeOK
<1>7. BooksOK'
  BY <1>1, BooksKept
<1>8. QED
  BY <1>4, <1>5, <1>6, <1>7 DEF Shape, HandlersOK

-----------------------------------------------------------------------------
(* The worker.                                                             *)

(* The queue loses its head, its rest is still a queue.                    *)
LEMMA QueueTail ==
  ASSUME Shape, queue # <<>>
  PROVE  /\ Head(queue) \in Withdrawals
         /\ Tail(queue) \in Seq(Withdrawals)
         /\ Len(queue) \in Nat /\ 1 \in DOMAIN queue
         /\ Head(queue) = queue[1]
         /\ \A i \in DOMAIN Tail(queue) :
              i + 1 \in DOMAIN queue /\ Tail(queue)[i] = queue[i + 1]
         /\ \A i \in DOMAIN queue :
              \/ i = 1
              \/ i - 1 \in DOMAIN Tail(queue) /\ queue[i] = Tail(queue)[i - 1]
BY DEF Shape, WithdrawalTypeOK

(* A job whose row is not there fails.                                     *)
LEMMA LoseShape ==
  ASSUME Shape, NEW h \in Handlers, LoseJob(h)
  PROVE  Shape'
<1>1. /\ queue # <<>>
      /\ failedJobs' = failedJobs \cup {Head(queue)}
      /\ queue' = Tail(queue)
      /\ UNCHANGED <<postingVars, stalled, payoutVars>>
  BY DEF LoseJob
<1> USE <1>1 DEF postingVars, localVars, lockVars, ledgerVars, payoutVars
<1>2. WithdrawalTypeOK'
  BY QueueTail DEF Shape, WithdrawalTypeOK, PostingTypeOK
<1>3. HandlersOK'
  BY DEF Shape, HandlersOK, LocalsAt, OwnRequest, WalletRow
<1>4. BooksOK'
  BY BooksKept
<1>5. QED
  BY <1>2, <1>3, <1>4 DEF Shape

(* A worker takes a job whose row is there.                                *)
LEMMA TakeShape ==
  ASSUME Shape, NEW h \in Handlers, h \in Workers, TakeJob(h)
  PROVE  Shape'
<1> DEFINE w == Head(queue)
<1>1. /\ queue # <<>>
      /\ pc[h] = "idle"
      /\ pc' = [pc EXCEPT ![h] = "payout"]
      /\ withdrawal[w] \notin {"absent", "void"}
      /\ job' = [job EXCEPT ![h] = w]
      /\ funds' = [funds EXCEPT ![h] = balance]
      /\ queue' = Tail(queue)
      /\ UNCHANGED <<doing, answer, inserted, entries, lockVars, ledgerVars,
                     request, failedJobs, stalled, withdrawal, requestFor,
                     withdrawalLock, transfers>>
  BY DEF TakeJob, Goto
<1>2. w \in Withdrawals /\ Tail(queue) \in Seq(Withdrawals)
  BY <1>1, QueueTail
<1> HIDE DEF w
<1>3. WithdrawalTypeOK'
  <2>1. PostingTypeOK(WithdrawalStates)'
    BY <1>1 DEF Shape, WithdrawalTypeOK, PostingTypeOK, lockVars, ledgerVars
  <2>2. funds' \in [Handlers -> Int]
    BY <1>1 DEF Shape, WithdrawalTypeOK, PostingTypeOK
  <2>3. job' \in [Handlers -> Withdrawals \cup {None}]
    BY <1>1, <1>2 DEF Shape, WithdrawalTypeOK
  <2>4. QED
    BY <1>1, <1>2, <2>1, <2>2, <2>3 DEF Shape, WithdrawalTypeOK
<1>4. ASSUME NEW k \in Handlers \ {h} PROVE (LocalsAt(k) /\ OwnRequest(k))'
  <2>1. LocalsAt(k) /\ OwnRequest(k)
    BY DEF Shape, HandlersOK
  <2>2. ASSUME pc[k] \in AtDesk
        PROVE  \A g \in Handlers \ {k} : job'[g] # job[k]
    <3>1. /\ withdrawal[job[k]] = "absent"
          /\ \A g \in Handlers \ {k} : job[g] # job[k]
      BY <2>1, <2>2 DEF LocalsAt
    <3>2. w # job[k]
      BY <1>1, <3>1
    <3>3. QED
      BY <1>1, <3>1, <3>2 DEF Shape, WithdrawalTypeOK
  <2>3. doing[k] # None => \A g \in Handlers \ {k} : doing'[g] # doing[k]
    BY <1>1, <2>1 DEF OwnRequest
  <2>4. pc[k] \notin AtDesk \cup {"idle"} =>
          withdrawal'[job[k]] \notin {"absent", "void"}
    BY <1>1, <2>1 DEF LocalsAt
  <2>5. pc'[k] = pc[k] /\ job'[k] = job[k]
    BY <1>1 DEF Shape, WithdrawalTypeOK, PostingTypeOK
  <2>6. QED
    BY <1>1, <2>2, <2>3, <2>4, <2>5, Bystander DEF lockVars
<1>5. LocalsAt(h)' /\ OwnRequest(h)'
  <2>1. LocalsAt(h) /\ OwnRequest(h)
    BY DEF Shape, HandlersOK
  <2>2. pc'[h] = "payout" /\ job'[h] = w /\ w # None
    BY <1>1, <1>2, WithdrawalAssumption DEF Shape, WithdrawalTypeOK,
       PostingTypeOK, WithdrawalAssumption
  <2>3. UNCHANGED <<doing, answer, inserted, entries, walletLock, request,
                    withdrawal>>
    BY <1>1 DEF lockVars
  <2>4. QED
    BY <1>1, <2>1, <2>2, <2>3 DEF LocalsAt, OwnRequest
<1>6. BooksOK'
  BY <1>1, BooksKept
<1>7. QED
  BY <1>3, <1>4, <1>5, <1>6 DEF Shape, HandlersOK

(* The run inserts a payment request of its own, or refuses.               *)
LEMMA PayoutShape ==
  ASSUME Shape, NEW h \in Handlers, Payout(h)
  PROVE  Shape'
<1>1. /\ pc[h] = "payout"
      /\ UNCHANGED <<answer, inserted, entries, lockVars, ledgerVars, request,
                     jobVars, payoutVars>>
  BY DEF Payout
<1>2. PICK to \in {"refuse", "noBank", "transfer"}, r \in Debits \cup {None} :
        /\ pc' = [pc EXCEPT ![h] = to]
        /\ doing' = [doing EXCEPT ![h] = r]
        /\ to = "refuse" => r = None
        /\ to # "refuse" => r \in Debits /\ Fresh(r)
  <2>1. doing[h] = None /\ doing = [doing EXCEPT ![h] = doing[h]]
    BY <1>1 DEF Shape, HandlersOK, LocalsAt, WithdrawalTypeOK, PostingTypeOK
  <2>2. CASE Goto(h, "payout", "refuse") /\ UNCHANGED doing
    BY <2>1, <2>2 DEF Goto
  <2>3. ASSUME NEW r \in {r \in Debits : Fresh(r)}, NEW to \in {"noBank", "transfer"},
               Goto(h, "payout", to), doing' = [doing EXCEPT ![h] = r]
        PROVE  \E state \in {"refuse", "noBank", "transfer"}, s \in Debits \cup {None} :
                 /\ pc' = [pc EXCEPT ![h] = state]
                 /\ doing' = [doing EXCEPT ![h] = s]
                 /\ state = "refuse" => s = None
                 /\ state # "refuse" => s \in Debits /\ Fresh(s)
    BY <2>3 DEF Goto
  <2>4. QED
    BY <2>2, <2>3 DEF Payout
<1>3. LocalsAt(h) /\ OwnRequest(h)
  BY DEF Shape, HandlersOK
<1>4. WithdrawalTypeOK'
  <2>1. PostingTypeOK(WithdrawalStates)'
    BY <1>1, <1>2
    DEF Shape, WithdrawalTypeOK, PostingTypeOK, lockVars, ledgerVars, Debits
  <2>2. QED
    BY <1>1, <2>1 DEF Shape, WithdrawalTypeOK, jobVars, payoutVars
<1>5. ASSUME NEW k \in Handlers \ {h} PROVE (LocalsAt(k) /\ OwnRequest(k))'
  <2>1. LocalsAt(k) /\ OwnRequest(k)
    BY DEF Shape, HandlersOK
  <2>2. ASSUME doing[k] # None
        PROVE  \A g \in Handlers \ {k} : doing'[g] # doing[k]
    <3>1. r # doing[k]
      BY <1>2, <2>2 DEF Fresh
    <3>2. QED
      BY <1>2, <2>1, <2>2, <3>1 DEF OwnRequest, Shape, WithdrawalTypeOK,
         PostingTypeOK
  <2>3. /\ pc[k] \in AtDesk => \A g \in Handlers \ {k} : job'[g] # job[k]
        /\ pc[k] \notin AtDesk \cup {"idle"} =>
             withdrawal'[job[k]] \notin {"absent", "void"}
    BY <1>1, <2>1 DEF LocalsAt, payoutVars
  <2>4. pc'[k] = pc[k] /\ doing'[k] = doing[k]
    BY <1>2 DEF Shape, WithdrawalTypeOK, PostingTypeOK
  <2>5. QED
    BY <1>1, <2>2, <2>3, <2>4, Bystander DEF lockVars, payoutVars
<1>6. LocalsAt(h)' /\ OwnRequest(h)'
  <2>1. /\ pc'[h] = to /\ doing'[h] = r
        /\ \A k \in Handlers \ {h} : doing'[k] = doing[k]
    BY <1>2 DEF Shape, WithdrawalTypeOK, PostingTypeOK
  <2>2. UNCHANGED <<answer, inserted, entries, walletLock, request,
                    withdrawal, job>>
    BY <1>1 DEF lockVars, payoutVars
  <2>3. LocalsAt(h)'
    BY <1>1, <1>2, <1>3, <2>1, <2>2 DEF LocalsAt
  <2>4. OwnRequest(h)'
    BY <1>2, <2>1, <2>2 DEF OwnRequest, Fresh
  <2>5. QED
    BY <2>3, <2>4
<1>7. BooksOK'
  BY <1>1, BooksKept DEF payoutVars
<1>8. QED
  BY <1>4, <1>5, <1>6, <1>7 DEF Shape, HandlersOK

(* A step that moves h, leaves its withdrawal in a status a job may have   *)
(* and lets go of nothing.                                                 *)
LEMMA MoveShape ==
  ASSUME Shape, NEW h \in Handlers,
         pc' \in [Handlers -> WithdrawalStates],
         answer' \in [Handlers -> Answers \cup {None}],
         withdrawal' \in [Withdrawals -> WithdrawalStatus],
         withdrawalLock' \in [Withdrawals -> Handlers \cup {None}],
         transfers' \in [Withdrawals -> Nat],
         \A k \in Handlers \ {h} : pc'[k] = pc[k] /\ answer'[k] = answer[k],
         \A w \in Withdrawals \ {job[h]} : withdrawal'[w] = withdrawal[w],
         \/ withdrawal'[job[h]] = withdrawal[job[h]]
         \/ withdrawal'[job[h]] \notin {"absent", "void"},
         pc[h] \notin AtDesk \cup {"idle", "posted"},
         pc'[h] \notin AtDesk \cup {"idle"},
         pc'[h] \in Paying <=> pc[h] \in Paying,
         pc'[h] \in Entered <=> pc[h] \in Entered,
         pc[h] \in Transferred => answer'[h] = answer[h],
         pc'[h] \in Transferred =>
           answer'[h] \in Answers /\ answer'[h].amount = Amount[job[h]],
         walletLock' # walletLock => walletLock' = h /\ pc'[h] = "posted",
         UNCHANGED <<doing, inserted, entries, transactions,
                     walletTransactions, balance, request, requestLock,
                     requestFor, queue, failedJobs, stalled, job, funds>>
  PROVE  Shape'
<1>1. LocalsAt(h) /\ OwnRequest(h)
  BY DEF Shape, HandlersOK
<1>2. WithdrawalTypeOK'
  <2>1. PostingTypeOK(WithdrawalStates)'
    BY DEF Shape, WithdrawalTypeOK, PostingTypeOK
  <2>2. QED
    BY <2>1 DEF Shape, WithdrawalTypeOK
<1>3. \A k \in Handlers \ {h} : (LocalsAt(k) /\ OwnRequest(k))'
  BY OthersKeep
<1>4. LocalsAt(h)'
  <2>1. /\ job[h] # None
        /\ h \in Workers
        /\ withdrawal'[job[h]] \notin {"absent", "void"}
    BY <1>1 DEF LocalsAt
  <2>2. IF pc'[h] \in Entered
          THEN \E before \in Int : entries[h] = <<WalletRow(h, before)'>>
          ELSE entries[h] = <<>>
    BY <1>1 DEF LocalsAt, WalletRow
  <2>3. walletLock' = h => pc'[h] = "posted"
    BY <1>1 DEF LocalsAt
  <2>4. QED
    BY <1>1, <2>1, <2>2, <2>3 DEF LocalsAt
<1>5. OwnRequest(h)'
  BY <1>1 DEF OwnRequest
<1>6. BooksOK'
  BY BooksKept DEF ledgerVars
<1>7. QED
  BY <1>2, <1>3, <1>4, <1>5, <1>6 DEF Shape, HandlersOK

(* A counter that goes up by one is still a counter.                       *)
LEMMA CountUp ==
  ASSUME NEW S, NEW f \in [S -> Nat], NEW x \in S
  PROVE  [f EXCEPT ![x] = @ + 1] \in [S -> Nat]
OBVIOUS

(* Refusing, asking the gateway and saving the withdrawal.                 *)
LEMMA GatewayShape ==
  ASSUME Shape, NEW h \in Handlers,
         \/ Refuse(h) \/ TransferDone(h) \/ TransferUnanswered(h)
         \/ TransferRefused(h) \/ SaveWithdrawal(h)
  PROVE  Shape'
<1>1. /\ pc \in [Handlers -> WithdrawalStates]
      /\ answer \in [Handlers -> Answers \cup {None}]
      /\ withdrawal \in [Withdrawals -> WithdrawalStatus]
      /\ withdrawalLock \in [Withdrawals -> Handlers \cup {None}]
      /\ transfers \in [Withdrawals -> Nat]
      /\ LocalsAt(h)
  BY DEF Shape, HandlersOK, WithdrawalTypeOK, PostingTypeOK
<1>2. PICK to \in WithdrawalStates : pc' = [pc EXCEPT ![h] = to]
  BY DEF Refuse, TransferDone, TransferUnanswered, TransferRefused,
     SaveWithdrawal, Goto
<1>3. /\ pc' \in [Handlers -> WithdrawalStates]
      /\ pc'[h] = to
      /\ \A k \in Handlers \ {h} : pc'[k] = pc[k]
  BY <1>1, <1>2
<1>4. pc[h] \in {"refuse", "transfer", "saveWithdrawal"}
  BY DEF Refuse, TransferDone, TransferUnanswered, TransferRefused,
     SaveWithdrawal, Goto
<1>5. job[h] \in Withdrawals
  BY <1>4, HasJob
<1>6. CASE Refuse(h)
  <2>1. /\ pc[h] = "refuse" /\ pc'[h] = "ack"
        /\ withdrawal' = [withdrawal EXCEPT ![job[h]] = "INSUFFICIENT_FUNDS"]
        /\ UNCHANGED <<doing, answer, inserted, entries, lockVars, ledgerVars,
                       request, jobVars, requestFor, withdrawalLock, job,
                       funds, transfers>>
    BY <1>1, <1>6 DEF Refuse, Goto
  <2>2. /\ withdrawal' \in [Withdrawals -> WithdrawalStatus]
        /\ withdrawal'[job[h]] = "INSUFFICIENT_FUNDS"
        /\ \A w \in Withdrawals \ {job[h]} : withdrawal'[w] = withdrawal[w]
    BY <1>1, <1>5, <2>1
  <2>3. QED
    BY <1>1, <1>3, <2>1, <2>2, MoveShape DEF lockVars, ledgerVars, jobVars
<1>7. CASE TransferDone(h)
  <2> DEFINE a == [amount |-> Amount[job[h]], status |-> "successful"]
  <2>1. /\ pc[h] = "transfer" /\ pc'[h] = "saveWithdrawal"
        /\ transfers' = [transfers EXCEPT ![job[h]] = @ + 1]
        /\ answer' = [answer EXCEPT ![h] = a]
        /\ UNCHANGED <<doing, inserted, entries, lockVars, ledgerVars,
                       request, jobVars, withdrawal, requestFor,
                       withdrawalLock, job, funds>>
    BY <1>1, <1>7 DEF TransferDone, Goto
  <2>2. transfers' \in [Withdrawals -> Nat]
    BY <1>1, <1>5, <2>1, CountUp
  <2>3. a \in Answers /\ a.amount = Amount[job[h]]
    BY <1>5, PostingAssumption, WithdrawalAssumption
    DEF PostingAssumption, WithdrawalAssumption, Answers
  <2> HIDE DEF a
  <2>4. /\ answer' \in [Handlers -> Answers \cup {None}]
        /\ answer'[h] \in Answers /\ answer'[h].amount = Amount[job[h]]
        /\ \A k \in Handlers \ {h} : answer'[k] = answer[k]
    BY <1>1, <2>1, <2>3
  <2>5. QED
    BY <1>1, <1>3, <2>1, <2>2, <2>4, MoveShape
    DEF lockVars, ledgerVars, jobVars
<1>8. CASE TransferUnanswered(h) \/ TransferRefused(h)
  <2>1. /\ pc[h] = "transfer" /\ pc'[h] = "reject"
        /\ UNCHANGED <<doing, answer, inserted, entries, lockVars, ledgerVars,
                       request, jobVars, withdrawal, requestFor,
                       withdrawalLock, job, funds>>
        /\ \/ transfers' = [transfers EXCEPT ![job[h]] = @ + 1]
           \/ UNCHANGED transfers
    BY <1>1, <1>8 DEF TransferUnanswered, TransferRefused, Goto, payoutVars
  <2>2. transfers' \in [Withdrawals -> Nat]
    BY <1>1, <2>1
  <2>3. QED
    BY <1>1, <1>3, <2>1, <2>2, MoveShape DEF lockVars, ledgerVars, jobVars
<1>9. CASE SaveWithdrawal(h)
  <2>1. /\ pc[h] = "saveWithdrawal" /\ pc'[h] = "check"
        /\ withdrawalLock' = [withdrawalLock EXCEPT ![job[h]] = h]
        /\ UNCHANGED <<doing, answer, inserted, entries, lockVars, ledgerVars,
                       request, jobVars, withdrawal, requestFor, job, funds,
                       transfers>>
    BY <1>1, <1>9 DEF SaveWithdrawal, Goto
  <2>2. withdrawalLock' \in [Withdrawals -> Handlers \cup {None}]
    BY <1>1, <2>1
  <2>3. answer[h] \in Answers /\ answer[h].amount = Amount[job[h]]
    BY <1>1, <2>1 DEF LocalsAt
  <2>4. QED
    BY <1>1, <1>3, <2>1, <2>2, <2>3, MoveShape
    DEF lockVars, ledgerVars, jobVars
<1>10. QED
  BY <1>6, <1>7, <1>8, <1>9

(* Looking for a transaction and taking the wallet; a rejected read.       *)
LEMMA PostingMoveShape ==
  ASSUME Shape, NEW h \in Handlers,
         CheckNoTransaction(h) \/ SaveWallet(h) \/ ReadFails(h),
         UNCHANGED <<jobVars, payoutVars>>
  PROVE  Shape'
<1>1. /\ pc \in [Handlers -> WithdrawalStates]
      /\ answer \in [Handlers -> Answers \cup {None}]
      /\ withdrawal \in [Withdrawals -> WithdrawalStatus]
      /\ withdrawalLock \in [Withdrawals -> Handlers \cup {None}]
      /\ transfers \in [Withdrawals -> Nat]
      /\ LocalsAt(h)
  BY DEF Shape, HandlersOK, WithdrawalTypeOK, PostingTypeOK
<1>2. PICK to \in {"threw", "insert", "posted"} :
        /\ pc' = [pc EXCEPT ![h] = to]
        /\ pc[h] \in {"check", "insert", "wallet", "saveWallet"}
        /\ to = "posted" <=> pc[h] = "saveWallet"
        /\ walletLock' # walletLock => walletLock' = h /\ to = "posted"
  BY DEF CheckNoTransaction, SaveWallet, ReadFails, Goto, lockVars
<1>3. /\ pc' \in [Handlers -> WithdrawalStates]
      /\ pc'[h] = to
      /\ \A k \in Handlers \ {h} : pc'[k] = pc[k]
  BY <1>1, <1>2
<1>4. /\ UNCHANGED <<doing, answer, inserted, entries, ledgerVars, request,
                     requestLock>>
      /\ UNCHANGED <<withdrawal, requestFor, withdrawalLock, job, funds,
                     transfers>>
  BY DEF CheckNoTransaction, SaveWallet, ReadFails, lockVars, payoutVars
<1>5. answer[h] \in Answers /\ answer[h].amount = Amount[job[h]]
  BY <1>1, <1>2 DEF LocalsAt
<1>6. QED
  BY <1>1, <1>2, <1>3, <1>4, <1>5, MoveShape DEF ledgerVars, jobVars

(* The rows a run builds are rows.                                         *)
LEMMA RowTypes ==
  ASSUME Shape, NEW h \in Handlers, pc[h] \in Transferred, NEW before \in Int
  PROVE  /\ <<TransactionRow(h)>> \in Seq(TransactionRows)
         /\ TransactionRow(h).request = doing[h]
         /\ <<WalletRow(h, before)>> \in Seq(WalletRows)
         /\ WalletRow(h, before) \in WalletRows
         /\ WalletRow(h, before).request = doing[h]
         /\ WalletRow(h, before).amount = answer[h].amount
         /\ WalletRow(h, before).after \in Int
<1>1. doing[h] \in Requests /\ answer[h] \in Answers
  BY DEF Shape, HandlersOK, LocalsAt, Debits
<1>2. answer[h].amount \in Amounts
  BY <1>1 DEF Answers
<1>3. answer[h].amount \in Int
  <2>1. Amounts \subseteq Nat
    BY PostingAssumption DEF PostingAssumption
  <2>2. \A a \in Amounts : a \in Int
    BY <2>1
  <2>3. QED
    BY <1>2, <2>2
<1>4. BalanceAfter(TypeOf[doing[h]], before, answer[h].amount) \in Int
  BY <1>3 DEF BalanceAfter
<1>5. TransactionRow(h) \in TransactionRows
  BY <1>1, <1>2 DEF TransactionRow, TransactionRows
<1>6. WalletRow(h, before) \in WalletRows
  BY <1>1, <1>2, <1>4 DEF WalletRow, WalletRows
<1>7. QED
  BY <1>4, <1>5, <1>6 DEF TransactionRow, WalletRow

(* The payment transaction is inserted, or its index refuses it.           *)
LEMMA InsertShape ==
  ASSUME Shape, NEW h \in Handlers, InsertTransaction(h),
         UNCHANGED <<jobVars, payoutVars>>
  PROVE  Shape'
<1>1. /\ pc[h] = "insert"
      /\ UNCHANGED <<doing, answer, entries, lockVars, ledgerVars, request>>
      /\ UNCHANGED <<withdrawal, requestFor, withdrawalLock, job, funds,
                     transfers>>
  BY DEF InsertTransaction, Goto, payoutVars
<1>2. /\ LocalsAt(h) /\ OwnRequest(h)
      /\ pc \in [Handlers -> WithdrawalStates]
      /\ inserted \in [Handlers -> Seq(TransactionRows)]
  BY DEF Shape, HandlersOK, WithdrawalTypeOK, PostingTypeOK
<1>3. PICK to \in {"aborted", "wallet"}, rows \in Seq(TransactionRows) :
        /\ pc' = [pc EXCEPT ![h] = to]
        /\ inserted' = [inserted EXCEPT ![h] = rows]
        /\ \A i \in DOMAIN rows : rows[i].request = doing[h]
  <2>1. CASE Goto(h, "insert", "aborted") /\ UNCHANGED inserted
    <3>1. inserted' = [inserted EXCEPT ![h] = inserted[h]]
      BY <1>2, <2>1
    <3>2. \A i \in DOMAIN inserted[h] : inserted[h][i].request = doing[h]
      BY <1>2 DEF LocalsAt
    <3>3. inserted[h] \in Seq(TransactionRows)
      BY <1>2
    <3>4. QED
      BY <2>1, <3>1, <3>2, <3>3 DEF Goto
  <2>2. CASE /\ Goto(h, "insert", "wallet")
             /\ inserted' = [inserted EXCEPT ![h] = <<TransactionRow(h)>>]
    <3>1. /\ <<TransactionRow(h)>> \in Seq(TransactionRows)
          /\ \A i \in DOMAIN <<TransactionRow(h)>> :
               <<TransactionRow(h)>>[i].request = doing[h]
      BY <1>1, RowTypes
    <3>2. QED
      BY <2>2, <3>1 DEF Goto
  <2>3. QED
    BY <2>1, <2>2 DEF InsertTransaction
<1>4. /\ pc' \in [Handlers -> WithdrawalStates] /\ pc'[h] = to
      /\ inserted' \in [Handlers -> Seq(TransactionRows)]
      /\ inserted'[h] = rows
      /\ \A k \in Handlers \ {h} : pc'[k] = pc[k] /\ inserted'[k] = inserted[k]
  BY <1>2, <1>3
<1>5. WithdrawalTypeOK'
  <2>1. PostingTypeOK(WithdrawalStates)'
    BY <1>1, <1>4 DEF Shape, WithdrawalTypeOK, PostingTypeOK, lockVars,
       ledgerVars
  <2>2. QED
    BY <1>1, <2>1 DEF Shape, WithdrawalTypeOK, jobVars
<1>6. \A k \in Handlers \ {h} : (LocalsAt(k) /\ OwnRequest(k))'
  BY <1>1, <1>4, OthersKeep DEF lockVars
<1>7. LocalsAt(h)' /\ OwnRequest(h)'
  <2>1. LocalsAt(h)'
    BY <1>1, <1>2, <1>3, <1>4 DEF LocalsAt, lockVars
  <2>2. OwnRequest(h)'
    BY <1>1, <1>2 DEF OwnRequest
  <2>3. QED
    BY <2>1, <2>2
<1>8. BooksOK'
  BY <1>1, BooksKept
<1>9. QED
  BY <1>5, <1>6, <1>7, <1>8 DEF Shape, HandlersOK

(* The wallet row is built from the balance read in the same step.         *)
LEMMA CreateShape ==
  ASSUME Shape, NEW h \in Handlers, CreateWalletTransaction(h),
         UNCHANGED <<jobVars, payoutVars>>
  PROVE  Shape'
<1> DEFINE rows == <<WalletRow(h, balance)>>
<1>1. /\ pc[h] = "wallet"
      /\ pc' = [pc EXCEPT ![h] = "saveWallet"]
      /\ entries' = [entries EXCEPT ![h] = rows]
      /\ UNCHANGED <<doing, answer, inserted, lockVars, ledgerVars, request>>
      /\ UNCHANGED <<withdrawal, requestFor, withdrawalLock, job, funds,
                     transfers>>
  BY DEF CreateWalletTransaction, Goto, payoutVars
<1>2. /\ LocalsAt(h) /\ OwnRequest(h)
      /\ pc \in [Handlers -> WithdrawalStates]
      /\ entries \in [Handlers -> Seq(WalletRows)]
      /\ balance \in Int
  BY DEF Shape, HandlersOK, WithdrawalTypeOK, PostingTypeOK
<1>3. rows \in Seq(WalletRows)
  BY <1>1, <1>2, RowTypes
<1>4. \E before \in Int : rows = <<WalletRow(h, before)'>>
  BY <1>1, <1>2 DEF WalletRow
<1> HIDE DEF rows
<1>5. /\ pc' \in [Handlers -> WithdrawalStates] /\ pc'[h] = "saveWallet"
      /\ entries' \in [Handlers -> Seq(WalletRows)] /\ entries'[h] = rows
      /\ \A k \in Handlers \ {h} : pc'[k] = pc[k] /\ entries'[k] = entries[k]
  BY <1>1, <1>2, <1>3
<1>6. WithdrawalTypeOK'
  <2>1. PostingTypeOK(WithdrawalStates)'
    BY <1>1, <1>5 DEF Shape, WithdrawalTypeOK, PostingTypeOK, lockVars,
       ledgerVars
  <2>2. QED
    BY <1>1, <2>1 DEF Shape, WithdrawalTypeOK, jobVars
<1>7. \A k \in Handlers \ {h} : (LocalsAt(k) /\ OwnRequest(k))'
  BY <1>1, <1>5, OthersKeep DEF lockVars
<1>8. LocalsAt(h)' /\ OwnRequest(h)'
  <2>1. LocalsAt(h)'
    BY <1>1, <1>2, <1>4, <1>5 DEF LocalsAt, lockVars
  <2>2. OwnRequest(h)'
    BY <1>1, <1>2 DEF OwnRequest
  <2>3. QED
    BY <2>1, <2>2
<1>9. BooksOK'
  BY <1>1, BooksKept
<1>10. QED
  BY <1>6, <1>7, <1>8, <1>9 DEF Shape, HandlersOK

-----------------------------------------------------------------------------
(* The end of a transaction.                                               *)

(* What forgetting and releasing leave.                                    *)
LEMMA EndTypes ==
  ASSUME Shape, NEW h \in Handlers, Forget(h), Release(h)
  PROVE  /\ doing' \in [Handlers -> Requests \cup {None}]
         /\ answer' \in [Handlers -> Answers \cup {None}]
         /\ inserted' \in [Handlers -> Seq(TransactionRows)]
         /\ entries' \in [Handlers -> Seq(WalletRows)]
         /\ requestLock' \in [Requests -> Handlers \cup {None}]
         /\ walletLock' \in {None, walletLock}
         /\ walletLock' # h
         /\ doing'[h] = None /\ inserted'[h] = <<>> /\ entries'[h] = <<>>
         /\ \A k \in Handlers \ {h} :
              /\ doing'[k] = doing[k] /\ answer'[k] = answer[k]
              /\ inserted'[k] = inserted[k] /\ entries'[k] = entries[k]
<1>1. <<>> \in Seq(TransactionRows) /\ <<>> \in Seq(WalletRows)
  OBVIOUS
<1>2. None # h
  BY PostingAssumption DEF PostingAssumption
<1>3. QED
  BY <1>1, <1>2 DEF Shape, WithdrawalTypeOK, PostingTypeOK, Forget, Release

(* A rollback: an exception, a failed statement or a death.                *)
LEMMA EndRunShape ==
  ASSUME Shape, NEW h \in Handlers, pc[h] # "idle",
         pc' = [pc EXCEPT ![h] = "idle"], EndRun(h),
         queue' \in Seq(Withdrawals), failedJobs' \subseteq Withdrawals,
         stalled' \in [Withdrawals -> 0 .. MaxStalled]
  PROVE  Shape'
<1>1. /\ Forget(h) /\ Release(h)
      /\ UNCHANGED <<ledgerVars, request, withdrawal, requestFor, transfers>>
      /\ withdrawalLock' = [w \in Withdrawals |->
                       IF withdrawalLock[w] = h THEN None ELSE withdrawalLock[w]]
      /\ job' = [job EXCEPT ![h] = None]
      /\ funds' = [funds EXCEPT ![h] = 0]
  BY DEF EndRun, RollbackPosting, ReleaseWithdrawal, Drop
<1>2. WithdrawalTypeOK'
  <2>1. PostingTypeOK(WithdrawalStates)'
    BY <1>1, EndTypes DEF Shape, WithdrawalTypeOK, PostingTypeOK, ledgerVars
  <2>2. withdrawalLock' \in [Withdrawals -> Handlers \cup {None}]
    BY <1>1 DEF Shape, WithdrawalTypeOK
  <2>3. job' \in [Handlers -> Withdrawals \cup {None}]
    BY <1>1 DEF Shape, WithdrawalTypeOK
  <2>4. funds' \in [Handlers -> Int]
    BY <1>1 DEF Shape, WithdrawalTypeOK
  <2>5. QED
    BY <1>1, <2>1, <2>2, <2>3, <2>4 DEF Shape, WithdrawalTypeOK
<1>3. /\ pc'[h] = "idle" /\ job'[h] = None
      /\ \A k \in Handlers \ {h} : pc'[k] = pc[k] /\ job'[k] = job[k]
  BY <1>1 DEF Shape, WithdrawalTypeOK, PostingTypeOK
<1>4. \A k \in Handlers \ {h} : (LocalsAt(k) /\ OwnRequest(k))'
  <2>1. /\ walletLock' \in {walletLock, h, None}
        /\ doing'[h] \in {doing[h], None}
        /\ \A k \in Handlers \ {h} :
             /\ pc'[k] = pc[k] /\ job'[k] = job[k] /\ doing'[k] = doing[k]
             /\ answer'[k] = answer[k] /\ inserted'[k] = inserted[k]
             /\ entries'[k] = entries[k]
    BY <1>1, <1>3, EndTypes
  <2>2. QED
    BY <1>1, <1>3, <2>1, OthersKeep
<1>5. LocalsAt(h)' /\ OwnRequest(h)'
  <2>1. /\ doing'[h] = None /\ inserted'[h] = <<>> /\ entries'[h] = <<>>
        /\ walletLock' # h
    BY <1>1, EndTypes
  <2>2. QED
    BY <1>3, <2>1 DEF LocalsAt, OwnRequest
<1>6. BooksOK'
  BY <1>1, BooksKept
<1>7. QED
  BY <1>2, <1>4, <1>5, <1>6 DEF Shape, HandlersOK

(* The elements of two sequences put together.                             *)
LEMMA Joined ==
  ASSUME NEW S, NEW s \in Seq(S), NEW t \in Seq(S)
  PROVE  /\ s \o t \in Seq(S)
         /\ Len(s) \in Nat
         /\ DOMAIN s = 1 .. Len(s) /\ DOMAIN t = 1 .. Len(t)
         /\ \A i \in DOMAIN s : i \in DOMAIN (s \o t) /\ (s \o t)[i] = s[i]
         /\ \A i \in DOMAIN (s \o t) :
              \/ i \in DOMAIN s
              \/ i - Len(s) \in DOMAIN t /\ (s \o t)[i] = t[i - Len(s)]
         /\ \A i \in DOMAIN t :
              /\ i + Len(s) \in DOMAIN (s \o t)
              /\ (s \o t)[i + Len(s)] = t[i]
OBVIOUS

(* What the commit of a run writes.                                        *)
Concludes(h, requestStatus, withdrawalStatus) ==
  /\ pc' = [pc EXCEPT ![h] = "ack"]
  /\ WritePayout(h, requestStatus, withdrawalStatus)
  /\ CommitPosting(h)

(* The line a commit adds, if there is one.                                *)
LEMMA CommittedLine ==
  ASSUME Shape, NEW h \in Handlers, pc[h] \in Paying,
         walletTransactions' = walletTransactions \o entries[h]
  PROVE  /\ walletTransactions' \in Seq(WalletRows)
         /\ Len(walletTransactions) \in Nat
         /\ DOMAIN walletTransactions = 1 .. Len(walletTransactions)
         /\ \A i \in DOMAIN walletTransactions :
              /\ i \in DOMAIN walletTransactions'
              /\ walletTransactions'[i] = walletTransactions[i]
         /\ pc[h] \notin Entered =>
              DOMAIN walletTransactions' = DOMAIN walletTransactions
         /\ pc[h] \in Entered =>
              /\ DOMAIN walletTransactions' = 1 .. Len(walletTransactions) + 1
              /\ walletTransactions'[Len(walletTransactions) + 1].request =
                   doing[h]
              /\ walletTransactions'[Len(walletTransactions) + 1].amount =
                   Amount[job[h]]
              /\ entries[h][1].after \in Int
<1>1. /\ LocalsAt(h)
      /\ walletTransactions \in Seq(WalletRows)
      /\ entries[h] \in Seq(WalletRows)
  BY DEF Shape, HandlersOK, WithdrawalTypeOK, PostingTypeOK
<1>2. /\ walletTransactions' \in Seq(WalletRows)
      /\ Len(walletTransactions) \in Nat
      /\ DOMAIN walletTransactions = 1 .. Len(walletTransactions)
      /\ \A i \in DOMAIN walletTransactions :
           /\ i \in DOMAIN walletTransactions'
           /\ walletTransactions'[i] = walletTransactions[i]
  BY <1>1, Joined
<1>3. CASE pc[h] \notin Entered
  <2>1. entries[h] = <<>>
    BY <1>1, <1>3 DEF LocalsAt
  <2>2. walletTransactions' = walletTransactions
    BY <1>1, <2>1
  <2>3. QED
    BY <1>2, <1>3, <2>2
<1>4. CASE pc[h] \in Entered
  <2>1. PICK before \in Int : entries[h] = <<WalletRow(h, before)>>
    BY <1>1, <1>4 DEF LocalsAt
  <2>2. /\ WalletRow(h, before) \in WalletRows
        /\ WalletRow(h, before).request = doing[h]
        /\ WalletRow(h, before).amount = answer[h].amount
        /\ WalletRow(h, before).after \in Int
        /\ answer[h].amount = Amount[job[h]]
    BY <1>1, <1>4, RowTypes DEF LocalsAt
  <2>3. /\ entries[h][1] = WalletRow(h, before)
        /\ DOMAIN walletTransactions' = 1 .. Len(walletTransactions) + 1
        /\ walletTransactions'[Len(walletTransactions) + 1] =
             WalletRow(h, before)
    BY <1>1, <2>1, <2>2
  <2>4. QED
    BY <1>2, <1>4, <2>2, <2>3
<1>5. QED
  BY <1>3, <1>4

(* The commit of a run, whatever outcome it saves.                         *)
LEMMA ConcludeShape ==
  ASSUME Shape, NEW h \in Handlers, h \in Workers, pc[h] \in Paying,
         NEW rs \in PaymentStatus \ {"absent"},
         NEW ws \in WithdrawalStatus \ {"absent", "void"},
         Concludes(h, rs, ws)
  PROVE  Shape'
<1>1. /\ pc' = [pc EXCEPT ![h] = "ack"]
      /\ request' = [request EXCEPT ![doing[h]] = [status |-> rs, paid |-> 0]]
      /\ requestFor' = [requestFor EXCEPT ![doing[h]] = job[h]]
      /\ withdrawal' = [withdrawal EXCEPT ![job[h]] = ws]
      /\ withdrawalLock' = [w \in Withdrawals |->
                       IF withdrawalLock[w] = h THEN None ELSE withdrawalLock[w]]
      /\ UNCHANGED <<jobVars, job, funds, transfers>>
      /\ transactions' = transactions \o inserted[h]
      /\ walletTransactions' = walletTransactions \o entries[h]
      /\ balance' = IF walletLock = h THEN entries[h][1].after ELSE balance
      /\ Forget(h) /\ Release(h)
  BY DEF Concludes, WritePayout, ReleaseWithdrawal, CommitPosting
<1>2. /\ LocalsAt(h) /\ OwnRequest(h)
      /\ job[h] \in Withdrawals /\ doing[h] \in Debits
      /\ doing[h] \in Requests /\ doing[h] # None
      /\ request[doing[h]].status = "absent"
  <2>1. LocalsAt(h) /\ OwnRequest(h) /\ job[h] \in Withdrawals
    BY HasJob DEF Shape, HandlersOK
  <2>2. doing[h] \in Debits /\ doing[h] \in Requests /\ doing[h] # None
    BY <2>1, PostingAssumption DEF LocalsAt, Debits, PostingAssumption
  <2>3. QED
    BY <2>1, <2>2 DEF OwnRequest
<1>3. /\ request' \in [Requests -> [status : PaymentStatus,
                                    paid : Amounts \cup {0}]]
      /\ request'[doing[h]].status # "absent"
      /\ \A r \in Requests \ {doing[h]} : request'[r] = request[r]
  <2>1. request \in [Requests -> [status : PaymentStatus,
                                  paid : Amounts \cup {0}]]
    BY DEF Shape, WithdrawalTypeOK, PostingTypeOK
  <2>2. QED
    BY <1>1, <1>2, <2>1
<1>4. /\ requestFor' \in [Debits -> Withdrawals \cup {None}]
      /\ requestFor'[doing[h]] = job[h]
      /\ \A r \in Debits \ {doing[h]} : requestFor'[r] = requestFor[r]
  BY <1>1, <1>2 DEF Shape, WithdrawalTypeOK
<1>5. WithdrawalTypeOK'
  <2>1. transactions' \in Seq(TransactionRows)
    <3>1. /\ transactions \in Seq(TransactionRows)
          /\ inserted[h] \in Seq(TransactionRows)
      BY DEF Shape, WithdrawalTypeOK, PostingTypeOK
    <3>2. QED
      BY <1>1, <3>1, Joined
  <2>2. balance' \in Int /\ walletTransactions' \in Seq(WalletRows)
    <3>1. balance \in Int
      BY DEF Shape, WithdrawalTypeOK, PostingTypeOK
    <3>2. walletLock = h => entries[h][1].after \in Int
      BY <1>1, <1>2, CommittedLine DEF LocalsAt
    <3>3. QED
      BY <1>1, <3>1, <3>2, CommittedLine
  <2>3. pc' \in [Handlers -> WithdrawalStates]
    BY <1>1 DEF Shape, WithdrawalTypeOK, PostingTypeOK
  <2>4. walletLock' \in Handlers \cup {None}
    BY <1>1, EndTypes DEF Shape, WithdrawalTypeOK, PostingTypeOK
  <2>5. PostingTypeOK(WithdrawalStates)'
    BY <1>1, <1>3, <2>1, <2>2, <2>3, <2>4, EndTypes DEF PostingTypeOK
  <2>6. withdrawal' \in [Withdrawals -> WithdrawalStatus]
    BY <1>1 DEF Shape, WithdrawalTypeOK
  <2>7. withdrawalLock' \in [Withdrawals -> Handlers \cup {None}]
    BY <1>1 DEF Shape, WithdrawalTypeOK
  <2>8. QED
    BY <1>1, <1>4, <2>5, <2>6, <2>7 DEF Shape, WithdrawalTypeOK, jobVars
<1>6. \A k \in Handlers \ {h} : (LocalsAt(k) /\ OwnRequest(k))'
  <2>1. /\ walletLock' \in {walletLock, h, None}
        /\ doing'[h] \in {doing[h], None}
        /\ \A k \in Handlers \ {h} :
             /\ doing'[k] = doing[k]
             /\ answer'[k] = answer[k] /\ inserted'[k] = inserted[k]
             /\ entries'[k] = entries[k]
    BY <1>1, EndTypes
  <2>2. \A k \in Handlers \ {h} : pc'[k] = pc[k]
    BY <1>1 DEF Shape, WithdrawalTypeOK, PostingTypeOK
  <2>3. /\ withdrawal'[job[h]] = ws
        /\ \A w \in Withdrawals \ {job[h]} : withdrawal'[w] = withdrawal[w]
    BY <1>1, <1>2 DEF Shape, WithdrawalTypeOK
  <2>4. QED
    BY <1>1, <1>3, <2>1, <2>2, <2>3, OthersKeep
<1>7. LocalsAt(h)' /\ OwnRequest(h)'
  <2>1. /\ doing'[h] = None /\ inserted'[h] = <<>> /\ entries'[h] = <<>>
        /\ walletLock' # h
    BY <1>1, EndTypes
  <2>2. pc'[h] = "ack" /\ job'[h] = job[h] /\ job[h] # None
    BY <1>1, <1>2 DEF LocalsAt, Shape, WithdrawalTypeOK, PostingTypeOK
  <2>3. withdrawal'[job[h]] = ws
    BY <1>1, <1>2 DEF Shape, WithdrawalTypeOK
  <2>4. QED
    BY <2>1, <2>2, <2>3 DEF LocalsAt, OwnRequest
<1>8. BooksOK'
  <2>1. ASSUME NEW r, Named(r)
        PROVE  /\ r # doing[h] /\ Named(r)'
               /\ requestFor'[r] = requestFor[r]
    <3>1. /\ r \in Debits /\ r \in Requests /\ r # doing[h]
          /\ request[r].status # "absent" /\ requestFor[r] \in Withdrawals
      BY <1>2, <2>1 DEF Named, Debits
    <3>2. request'[r] = request[r] /\ requestFor'[r] = requestFor[r]
      BY <1>3, <1>4, <3>1
    <3>3. QED
      BY <3>1, <3>2 DEF Named
  <2>2. /\ doing[h] \in Debits /\ request'[doing[h]].status # "absent"
        /\ requestFor'[doing[h]] \in Withdrawals
    BY <1>2, <1>3, <1>4
  <2>3. ASSUME NEW i \in DOMAIN transactions'
        PROVE  request'[transactions'[i].request].status # "absent"
    <3>1. /\ transactions \in Seq(TransactionRows)
          /\ inserted[h] \in Seq(TransactionRows)
      BY DEF Shape, WithdrawalTypeOK, PostingTypeOK
    <3>2. CASE i \in DOMAIN transactions
      <4>1. transactions'[i] = transactions[i]
        BY <1>1, <3>1, <3>2, Joined
      <4>2. transactions[i] \in TransactionRows
        BY <3>1, <3>2
      <4>3. transactions[i].request \in Requests
        BY <4>2 DEF TransactionRows
      <4>4. request[transactions[i].request].status # "absent"
        BY <3>2 DEF Shape, BooksOK
      <4>5. QED
        BY <1>2, <1>3, <4>1, <4>3, <4>4
    <3>3. CASE i \notin DOMAIN transactions
      <4>1. /\ i - Len(transactions) \in DOMAIN inserted[h]
            /\ transactions'[i] = inserted[h][i - Len(transactions)]
        BY <1>1, <3>1, <3>3, Joined
      <4>2. transactions'[i].request = doing[h]
        BY <1>2, <4>1 DEF LocalsAt
      <4>3. QED
        BY <1>3, <4>2
    <3>4. QED
      BY <3>2, <3>3
  <2>4. ASSUME NEW i \in DOMAIN walletTransactions'
        PROVE  /\ LineOK(i)'
               /\ i \notin DOMAIN walletTransactions =>
                    /\ i = Len(walletTransactions) + 1
                    /\ walletTransactions'[i].request = doing[h]
    <3>1. CASE i \in DOMAIN walletTransactions
      <4>1. walletTransactions'[i] = walletTransactions[i]
        BY <1>1, <3>1, CommittedLine
      <4>2. LineOK(i)
        BY <3>1 DEF Shape, BooksOK
      <4>3. QED
        <5>1. Named(walletTransactions[i].request)
          BY <4>2 DEF LineOK
        <5>2. /\ Named(walletTransactions[i].request)'
              /\ requestFor'[walletTransactions[i].request] =
                   requestFor[walletTransactions[i].request]
          BY <2>1, <5>1, <4>1
        <5>3. QED
          BY <3>1, <4>1, <4>2, <5>2 DEF LineOK
    <3>2. CASE i \notin DOMAIN walletTransactions
      <4>1. /\ i = Len(walletTransactions) + 1
            /\ walletTransactions'[i].request = doing[h]
            /\ walletTransactions'[i].amount = Amount[job[h]]
        <5>1. pc[h] \in Entered BY <1>1, <3>2, CommittedLine
        <5>2. /\ DOMAIN walletTransactions = 1 .. Len(walletTransactions)
              /\ DOMAIN walletTransactions' = 1 .. Len(walletTransactions) + 1
              /\ Len(walletTransactions) \in Nat
          BY <1>1, <5>1, CommittedLine
        <5>3. i = Len(walletTransactions) + 1 BY <3>2, <5>2
        <5> QED BY <1>1, <5>1, <5>3, CommittedLine
      <4>2. Named(walletTransactions[i].request)'
        <5>1. doing[h] \in Debits /\ job[h] \in Withdrawals BY <1>2
        <5>2. requestFor'[doing[h]] = job[h] BY <1>4
        <5>3. request'[doing[h]].status # "absent" BY <1>3
        <5> QED BY <4>1, <5>1, <5>2, <5>3 DEF Named
      <4>3. QED
        BY <1>4, <4>1, <4>2 DEF LineOK
    <3>3. QED
      BY <3>1, <3>2
  <2>5. ASSUME NEW i \in DOMAIN walletTransactions',
               NEW j \in DOMAIN walletTransactions',
               walletTransactions'[i].request = walletTransactions'[j].request
        PROVE  i = j
    <3>1. ASSUME NEW n \in DOMAIN walletTransactions
          PROVE  /\ walletTransactions'[n] = walletTransactions[n]
                 /\ walletTransactions[n].request # doing[h]
      <4>1. LineOK(n)
        BY DEF Shape, BooksOK
      <4>2. QED
        BY <1>1, <2>1, <4>1, CommittedLine DEF LineOK
    <3>2. CASE i \in DOMAIN walletTransactions /\ j \in DOMAIN walletTransactions
      BY <2>5, <3>1, <3>2 DEF Shape, BooksOK
    <3>3. QED
      BY <2>4, <2>5, <3>1, <3>2
  <2>6. QED
    BY <2>3, <2>4, <2>5 DEF BooksOK
<1>9. QED
  BY <1>5, <1>6, <1>7, <1>8 DEF Shape, HandlersOK

(* Both ways a run commits, by the states they start from.                 *)
LEMMA CommitsConclude ==
  ASSUME NEW h \in Handlers
  PROVE  /\ CommitPayout(h) =>
              /\ pc[h] = "posted" /\ h \in Workers
              /\ Concludes(h, "AWAITING_CONFIRMATION", "WAITING_CONFIRMATION")
         /\ Reject(h) =>
              /\ pc[h] \in {"reject", "threw"} /\ h \in Workers
              /\ Concludes(h, "FAILED", "FAILED")
BY DEF CommitPayout, Reject, Goto, Concludes

(* Bull is told.                                                           *)
LEMMA AckShape ==
  ASSUME Shape, NEW h \in Handlers, Ack(h)
  PROVE  Shape'
<1>1. /\ pc[h] = "ack" /\ pc' = [pc EXCEPT ![h] = "idle"]
      /\ job' = [job EXCEPT ![h] = None]
      /\ funds' = [funds EXCEPT ![h] = 0]
      /\ UNCHANGED <<doing, answer, inserted, entries, lockVars, ledgerVars,
                     request, jobVars, withdrawal, requestFor, withdrawalLock,
                     transfers>>
  BY DEF Ack, Goto, Drop
<1>2. LocalsAt(h) /\ OwnRequest(h)
  BY DEF Shape, HandlersOK
<1>3. /\ pc'[h] = "idle" /\ job'[h] = None
      /\ \A k \in Handlers \ {h} : pc'[k] = pc[k] /\ job'[k] = job[k]
  BY <1>1 DEF Shape, WithdrawalTypeOK, PostingTypeOK
<1>4. WithdrawalTypeOK'
  <2>1. PostingTypeOK(WithdrawalStates)'
    BY <1>1 DEF Shape, WithdrawalTypeOK, PostingTypeOK, lockVars, ledgerVars
  <2>2. QED
    BY <1>1, <2>1 DEF Shape, WithdrawalTypeOK, jobVars
<1>5. \A k \in Handlers \ {h} : (LocalsAt(k) /\ OwnRequest(k))'
  BY <1>1, <1>3, OthersKeep DEF lockVars
<1>6. LocalsAt(h)' /\ OwnRequest(h)'
  BY <1>1, <1>2, <1>3 DEF LocalsAt, OwnRequest, lockVars
<1>7. BooksOK'
  BY <1>1, BooksKept
<1>8. QED
  BY <1>4, <1>5, <1>6, <1>7 DEF Shape, HandlersOK

(* A failed statement or a dead worker, and where its job goes.            *)
LEMMA EndShape ==
  ASSUME Shape, NEW h \in Handlers, RollbackPayout(h) \/ FailPayout(h) \/ Crash(h)
  PROVE  /\ Shape'
         /\ pc[h] # "idle" /\ h \in Workers /\ job[h] \in Withdrawals
         /\ pc' = [pc EXCEPT ![h] = "idle"] /\ EndRun(h)
<1>1. /\ pc[h] # "idle" /\ h \in Workers
      /\ pc' = [pc EXCEPT ![h] = "idle"] /\ EndRun(h)
      /\ GiveUp(h) \/ Restart(h)
  BY DEF RollbackPayout, FailPayout, Crash, Goto
<1>2. job[h] \in Withdrawals
  BY <1>1, HasJob
<1>3. /\ queue \in Seq(Withdrawals) /\ failedJobs \subseteq Withdrawals
      /\ stalled \in [Withdrawals -> 0 .. MaxStalled]
      /\ MaxStalled \in Nat
  BY WithdrawalAssumption DEF Shape, WithdrawalTypeOK, WithdrawalAssumption
<1>4. CASE GiveUp(h)
  BY <1>1, <1>2, <1>3, <1>4, EndRunShape DEF GiveUp
<1>5. CASE Restart(h) /\ stalled[job[h]] < MaxStalled
  <2>1. /\ queue' = <<job[h]>> \o queue
        /\ stalled' = [stalled EXCEPT ![job[h]] = @ + 1]
        /\ UNCHANGED failedJobs
    BY <1>5 DEF Restart
  <2>2. stalled' \in [Withdrawals -> 0 .. MaxStalled]
    BY <1>2, <1>3, <1>5, <2>1
  <2>3. queue' \in Seq(Withdrawals)
    BY <1>2, <1>3, <2>1, Joined
  <2>4. QED
    BY <1>1, <1>2, <1>3, <2>1, <2>2, <2>3, EndRunShape
<1>6. QED
  BY <1>1, <1>4, <1>5 DEF Restart

(* Every step keeps the shape.                                             *)
LEMMA NextShape == Shape /\ [WithdrawalNext]_withdrawalVars => Shape'
<1> SUFFICES ASSUME Shape, [WithdrawalNext]_withdrawalVars PROVE Shape'
  OBVIOUS
<1>1. CASE UNCHANGED withdrawalVars
  <2>1. UNCHANGED <<pc, doing, answer, inserted, entries, requestLock,
           walletLock, transactions, walletTransactions, balance, request,
           queue, failedJobs, stalled, withdrawal, requestFor,
           withdrawalLock, job, funds, transfers>>
    BY <1>1 DEF withdrawalVars, postingVars, localVars, lockVars, ledgerVars,
       jobVars, payoutVars
  <2>2. WithdrawalTypeOK'
    BY <2>1 DEF Shape, WithdrawalTypeOK, PostingTypeOK
  <2>3. HandlersOK'
    BY <2>1 DEF Shape, HandlersOK, LocalsAt, OwnRequest, WalletRow
  <2>4. BooksOK'
    BY <2>1, BooksKept DEF ledgerVars
  <2>5. QED
    BY <2>2, <2>3, <2>4 DEF Shape
<1>2. ASSUME NEW h \in Handlers, NEW w \in Withdrawals, InitiateWithdrawal(h, w)
      PROVE  Shape'
  BY <1>2, InitiateShape
<1>3. ASSUME NEW h \in Handlers, DeskStep(h)
      PROVE  Shape'
  BY <1>3, EnqueueShape, CloseShape DEF DeskStep
<1>4. ASSUME NEW h \in Handlers, WorkerStep(h)
      PROVE  Shape'
  <2>1. CASE PostingStep(h) /\ UNCHANGED <<jobVars, payoutVars>>
    BY <2>1, PostingMoveShape, InsertShape, CreateShape DEF PostingStep
  <2>2. CASE CommitPayout(h) \/ Reject(h)
    BY <2>2, CommitsConclude, ConcludeShape
  <2>3. QED
    BY <1>4, <2>1, <2>2, LoseShape, TakeShape, PayoutShape, GatewayShape,
       AckShape, EndShape DEF WorkerStep
<1>5. ASSUME NEW h \in Handlers, WithdrawalFault(h)
      PROVE  Shape'
  BY <1>5, CloseShape, GatewayShape, PostingMoveShape, EndShape
  DEF WithdrawalFault
<1>6. QED
  BY <1>1, <1>2, <1>3, <1>4, <1>5 DEF WithdrawalNext, AtRest

(* Type correctness, and what handlers and books refer to.                 *)
THEOREM ShapeHolds == WithdrawalSpec => []Shape
<1>1. QED
  BY InitShape, NextShape, PTL DEF WithdrawalSpec

(* The type invariant of the model.                                        *)
THEOREM TypeCorrect == WithdrawalSpec => []WithdrawalTypeOK
<1>1. Shape => WithdrawalTypeOK
  BY DEF Shape
<1>2. QED
  BY <1>1, ShapeHolds, PTL

-----------------------------------------------------------------------------
(* What stands behind a debit.                                             *)

(* Request r led to a line of the wallet on behalf of w.                   *)
Lined(r, w) ==
  /\ requestFor[r] = w
  /\ \E i \in DOMAIN walletTransactions : walletTransactions[i].request = r

(* Request r is the one of a run for w that may still add its line.        *)
UnderWay(r, w) ==
  \E h \in Handlers : job[h] = w /\ pc[h] \in Transferred /\ doing[h] = r

Claims(w) == {r \in Debits : Lined(r, w) \/ UnderWay(r, w)}

ClaimsBacked ==
  \A w \in Withdrawals :
    /\ IsFiniteSet(Claims(w))
    /\ Cardinality(Claims(w)) <= transfers[w]

(* One more element, at most one more.                                     *)
LEMMA OneMore ==
  ASSUME NEW S, NEW T, NEW x, IsFiniteSet(S), T \subseteq S \cup {x}
  PROVE  /\ IsFiniteSet(T)
         /\ Cardinality(S) \in Nat /\ Cardinality(T) \in Nat
         /\ Cardinality(T) <= Cardinality(S) + 1
<1>1. /\ IsFiniteSet(S \cup {x})
      /\ Cardinality(S \cup {x}) \in Nat /\ Cardinality(S) \in Nat
      /\ Cardinality(S \cup {x}) <= Cardinality(S) + 1
  BY FS_AddElement, FS_CardinalityType
<1>2. /\ IsFiniteSet(T)
      /\ Cardinality(T) <= Cardinality(S \cup {x})
      /\ Cardinality(T) \in Nat
  BY <1>1, FS_Subset, FS_CardinalityType
<1>3. QED
  BY <1>1, <1>2

(* A step that makes no new claim.                                         *)
LEMMA NoNewClaim ==
  ASSUME Shape, ClaimsBacked,
         \A w \in Withdrawals : Claims(w)' \subseteq Claims(w),
         \A w \in Withdrawals :
           transfers'[w] = transfers[w] \/ transfers'[w] = transfers[w] + 1
  PROVE  ClaimsBacked'
<1> SUFFICES ASSUME NEW w \in Withdrawals
             PROVE  /\ IsFiniteSet(Claims(w)')
                    /\ Cardinality(Claims(w)') <= transfers'[w]
  BY DEF ClaimsBacked
<1>1. IsFiniteSet(Claims(w)) /\ Cardinality(Claims(w)) <= transfers[w]
  BY DEF ClaimsBacked
<1>2. Claims(w)' \subseteq Claims(w)
  OBVIOUS
<1>3. /\ IsFiniteSet(Claims(w)')
      /\ Cardinality(Claims(w)') <= Cardinality(Claims(w))
      /\ Cardinality(Claims(w)') \in Nat /\ Cardinality(Claims(w)) \in Nat
  BY <1>1, <1>2, FS_Subset, FS_CardinalityType
<1>4. transfers[w] \in Nat
  BY DEF Shape, WithdrawalTypeOK
<1>5. QED
  BY <1>1, <1>3, <1>4

(* Where the books and what the run of h stands for are left alone, no     *)
(* claim is made unless h enters the states that make one.                 *)
LEMMA StillClaims ==
  ASSUME NEW h \in Handlers,
         UNCHANGED <<walletTransactions, requestFor>>,
         \A k \in Handlers \ {h} :
           /\ pc'[k] = pc[k] /\ job'[k] = job[k] /\ doing'[k] = doing[k],
         pc'[h] \in Transferred =>
           pc[h] \in Transferred /\ job'[h] = job[h] /\ doing'[h] = doing[h]
  PROVE  \A w \in Withdrawals : Claims(w)' \subseteq Claims(w)
BY DEF Claims, Lined, UnderWay

(* The gateway's answer makes one claim, and moved the money once more.    *)
LEMMA TransferClaims ==
  ASSUME Shape, ClaimsBacked, NEW h \in Handlers, TransferDone(h)
  PROVE  ClaimsBacked'
<1>1. /\ pc[h] = "transfer" /\ pc' = [pc EXCEPT ![h] = "saveWithdrawal"]
      /\ transfers' = [transfers EXCEPT ![job[h]] = @ + 1]
      /\ UNCHANGED <<doing, walletTransactions, requestFor, job>>
  BY DEF TransferDone, Goto, ledgerVars
<1>2. transfers \in [Withdrawals -> Nat] /\ pc \in [Handlers -> WithdrawalStates]
  BY DEF Shape, WithdrawalTypeOK, PostingTypeOK
<1>3. \A k \in Handlers \ {h} : pc'[k] = pc[k]
  BY <1>1, <1>2
<1> SUFFICES ASSUME NEW w \in Withdrawals
             PROVE  /\ IsFiniteSet(Claims(w)')
                    /\ Cardinality(Claims(w)') <= transfers'[w]
  BY DEF ClaimsBacked
<1>4. /\ IsFiniteSet(Claims(w)) /\ Cardinality(Claims(w)) <= transfers[w]
      /\ transfers[w] \in Nat
  BY <1>2 DEF ClaimsBacked
<1>5. CASE w = job[h]
  <2>1. Claims(w)' \subseteq Claims(w) \cup {doing[h]}
    BY <1>1, <1>3 DEF Claims, Lined, UnderWay
  <2>2. transfers'[w] = transfers[w] + 1
    BY <1>1, <1>2, <1>5
  <2>3. QED
    BY <1>4, <2>1, <2>2, OneMore
<1>6. CASE w # job[h]
  <2>1. Claims(w)' \subseteq Claims(w)
    BY <1>1, <1>3, <1>6 DEF Claims, Lined, UnderWay
  <2>2. transfers'[w] = transfers[w]
    BY <1>1, <1>2, <1>6
  <2>3. /\ IsFiniteSet(Claims(w)')
        /\ Cardinality(Claims(w)') <= Cardinality(Claims(w))
        /\ Cardinality(Claims(w)') \in Nat /\ Cardinality(Claims(w)) \in Nat
    BY <1>4, <2>1, FS_Subset, FS_CardinalityType
  <2>4. QED
    BY <1>4, <2>2, <2>3
<1>7. QED
  BY <1>5, <1>6

(* The commit of a run turns its claim into a line, or drops it.           *)
LEMMA ConcludeClaims ==
  ASSUME Shape, ClaimsBacked, NEW h \in Handlers, pc[h] \in Paying,
         pc[h] \in Transferred => pc[h] = "posted",
         NEW rs, NEW ws, Concludes(h, rs, ws)
  PROVE  ClaimsBacked'
<1>1. /\ pc' = [pc EXCEPT ![h] = "ack"]
      /\ requestFor' = [requestFor EXCEPT ![doing[h]] = job[h]]
      /\ UNCHANGED <<job, transfers>>
      /\ walletTransactions' = walletTransactions \o entries[h]
      /\ Forget(h) /\ Release(h)
  BY DEF Concludes, WritePayout, CommitPosting
<1>2. /\ doing[h] \in Debits
      /\ pc \in [Handlers -> WithdrawalStates]
      /\ requestFor \in [Debits -> Withdrawals \cup {None}]
      /\ \A k \in Handlers \ {h} : doing'[k] = doing[k]
      /\ OwnRequest(h) /\ doing[h] # None
  BY <1>1, EndTypes, PostingAssumption DEF Shape, HandlersOK, LocalsAt, Debits,
     WithdrawalTypeOK, PostingTypeOK, PostingAssumption
<1>3. ASSUME NEW w \in Withdrawals, NEW r \in Debits, UnderWay(r, w)'
      PROVE  UnderWay(r, w)
  BY <1>1, <1>2, <1>3 DEF UnderWay
<1>4. ASSUME NEW w \in Withdrawals, NEW r \in Debits, Lined(r, w)'
      PROVE  Lined(r, w) \/ UnderWay(r, w)
  <2>1. PICK i \in DOMAIN walletTransactions' :
          walletTransactions'[i].request = r
    BY <1>4 DEF Lined
  <2>2. CASE i \in DOMAIN walletTransactions
    <3>1. walletTransactions[i].request = r /\ LineOK(i)
      BY <1>1, <2>1, <2>2, CommittedLine DEF Shape, BooksOK
    <3>2. r # doing[h]
      BY <1>2, <3>1 DEF LineOK, Named, OwnRequest
    <3>3. requestFor'[r] = requestFor[r]
      BY <1>1, <1>2, <3>2
    <3>4. QED
      BY <1>4, <2>2, <3>1, <3>3 DEF Lined
  <2>3. CASE i \notin DOMAIN walletTransactions
    <3>1. pc[h] \in Entered /\ r = doing[h]
      <4>1. pc[h] \in Entered
        BY <1>1, <2>3, CommittedLine
      <4>2. /\ DOMAIN walletTransactions = 1 .. Len(walletTransactions)
            /\ DOMAIN walletTransactions' = 1 .. Len(walletTransactions) + 1
            /\ Len(walletTransactions) \in Nat
            /\ walletTransactions'[Len(walletTransactions) + 1].request =
                 doing[h]
        BY <1>1, <4>1, CommittedLine
      <4>3. i = Len(walletTransactions) + 1
        BY <2>3, <4>2
      <4>4. QED
        BY <2>1, <4>1, <4>2, <4>3
    <3>2. requestFor'[r] = job[h]
      BY <1>1, <1>2, <3>1
    <3>3. QED
      BY <1>4, <3>1, <3>2 DEF Lined, UnderWay
  <2>4. QED
    BY <2>2, <2>3
<1>5. \A w \in Withdrawals : Claims(w)' \subseteq Claims(w)
  BY <1>3, <1>4 DEF Claims
<1>6. QED
  BY <1>1, <1>5, NoNewClaim

(* Every step keeps the claims backed.                                     *)
LEMMA NextClaims ==
  Shape /\ ClaimsBacked /\ [WithdrawalNext]_withdrawalVars => ClaimsBacked'
<1> SUFFICES ASSUME Shape, ClaimsBacked, [WithdrawalNext]_withdrawalVars
             PROVE  ClaimsBacked'
  OBVIOUS
<1>1. pc \in [Handlers -> WithdrawalStates]
      /\ doing \in [Handlers -> Requests \cup {None}]
      /\ job \in [Handlers -> Withdrawals \cup {None}]
      /\ transfers \in [Withdrawals -> Nat]
  BY DEF Shape, WithdrawalTypeOK, PostingTypeOK
<1>2. CASE UNCHANGED withdrawalVars
  <2>1. UNCHANGED <<pc, doing, job, walletTransactions, requestFor, transfers>>
    BY <1>2 DEF withdrawalVars, postingVars, localVars, ledgerVars, payoutVars
  <2>2. \A w \in Withdrawals : Claims(w)' \subseteq Claims(w)
    BY <2>1 DEF Claims, Lined, UnderWay
  <2>3. QED
    BY <2>1, <2>2, NoNewClaim
<1>3. ASSUME NEW h \in Handlers, NEW w \in Withdrawals, InitiateWithdrawal(h, w)
      PROVE  ClaimsBacked'
  <2>1. /\ UNCHANGED <<walletTransactions, requestFor, transfers, doing>>
        /\ pc' = [pc EXCEPT ![h] = "enqueue"] /\ job' = [job EXCEPT ![h] = w]
    BY <1>3 DEF InitiateWithdrawal, Goto, ledgerVars
  <2>2. QED
    BY <1>1, <2>1, StillClaims, NoNewClaim
<1>4. ASSUME NEW h \in Handlers,
             \/ DeskStep(h) \/ FailInitiate(h) \/ TakeJob(h) \/ Ack(h)
      PROVE  ClaimsBacked'
  <2>1. UNCHANGED <<walletTransactions, requestFor, transfers, doing>>
    BY <1>4 DEF DeskStep, Enqueue, CommitWithdrawal, FailInitiate, TakeJob,
       Ack, ledgerVars, payoutVars
  <2>2. PICK to \in {"idle", "commitWithdrawal", "payout"},
             w \in Withdrawals \cup {None, Head(queue)} :
          pc' = [pc EXCEPT ![h] = to] /\ job' = [job EXCEPT ![h] = w]
    <3>1. job = [job EXCEPT ![h] = job[h]]
      BY <1>1
    <3>2. CASE Enqueue(h)
      <4>1. job[h] \in Withdrawals \cup {None}
        BY <1>1
      <4>2. /\ pc' = [pc EXCEPT ![h] = "commitWithdrawal"]
            /\ job' = [job EXCEPT ![h] = job[h]]
        BY <3>1, <3>2 DEF Enqueue, Goto, payoutVars
      <4>3. QED
        BY <4>1, <4>2
    <3>3. CASE CommitWithdrawal(h) \/ FailInitiate(h) \/ Ack(h)
      BY <3>3 DEF CommitWithdrawal, FailInitiate, Ack, Drop, Goto
    <3>4. CASE TakeJob(h)
      BY <3>4 DEF TakeJob, Goto
    <3>5. QED
      BY <1>4, <3>2, <3>3, <3>4 DEF DeskStep
  <2>3. QED
    BY <1>1, <2>1, <2>2, StillClaims, NoNewClaim
<1>5. ASSUME NEW h \in Handlers, LoseJob(h)
      PROVE  ClaimsBacked'
  <2>1. UNCHANGED <<pc, doing, job, walletTransactions, requestFor, transfers>>
    BY <1>5 DEF LoseJob, postingVars, localVars, ledgerVars, payoutVars
  <2>2. QED
    BY <2>1, StillClaims, NoNewClaim
<1>6. ASSUME NEW h \in Handlers, Payout(h)
      PROVE  ClaimsBacked'
  <2>1. /\ UNCHANGED <<walletTransactions, requestFor, transfers, job>>
        /\ pc[h] = "payout"
        /\ \E to \in {"refuse", "noBank", "transfer"} : pc' = [pc EXCEPT ![h] = to]
        /\ \/ UNCHANGED doing
           \/ \E r \in Debits : doing' = [doing EXCEPT ![h] = r]
    BY <1>6 DEF Payout, Goto, ledgerVars, payoutVars
  <2>2. QED
    BY <1>1, <2>1, StillClaims, NoNewClaim
<1>7. ASSUME NEW h \in Handlers,
             \/ Refuse(h) \/ TransferUnanswered(h) \/ TransferRefused(h)
      PROVE  ClaimsBacked'
  <2>1. /\ UNCHANGED <<walletTransactions, requestFor, job, doing>>
        /\ \E to \in {"ack", "reject"} : pc' = [pc EXCEPT ![h] = to]
    BY <1>7 DEF Refuse, TransferUnanswered, TransferRefused, Goto, ledgerVars,
       payoutVars
  <2>2. \/ UNCHANGED transfers
        \/ transfers' = [transfers EXCEPT ![job[h]] = @ + 1]
    BY <1>7 DEF Refuse, TransferUnanswered, TransferRefused, payoutVars
  <2>3. \A w \in Withdrawals :
          transfers'[w] = transfers[w] \/ transfers'[w] = transfers[w] + 1
    BY <1>1, <2>2
  <2>4. QED
    BY <1>1, <2>1, <2>3, StillClaims, NoNewClaim
<1>8. ASSUME NEW h \in Handlers,
             \/ SaveWithdrawal(h)
             \/ /\ PostingStep(h) \/ ReadFails(h)
                /\ UNCHANGED <<jobVars, payoutVars>>
      PROVE  ClaimsBacked'
  <2>1. UNCHANGED <<walletTransactions, requestFor, transfers, job, doing>>
    BY <1>8 DEF SaveWithdrawal, PostingStep, CheckNoTransaction,
       InsertTransaction, CreateWalletTransaction, SaveWallet, ReadFails,
       ledgerVars, payoutVars
  <2>2. /\ pc[h] \in Transferred
        /\ \E to \in WithdrawalStates : pc' = [pc EXCEPT ![h] = to]
    BY <1>8 DEF SaveWithdrawal, PostingStep, CheckNoTransaction,
       InsertTransaction, CreateWalletTransaction, SaveWallet, ReadFails, Goto
  <2>3. QED
    BY <1>1, <2>1, <2>2, StillClaims, NoNewClaim
<1>9. ASSUME NEW h \in Handlers, CommitPayout(h) \/ Reject(h)
      PROVE  ClaimsBacked'
  BY <1>9, CommitsConclude, ConcludeClaims
<1>10. ASSUME NEW h \in Handlers, RollbackPayout(h) \/ FailPayout(h) \/ Crash(h)
       PROVE  ClaimsBacked'
  <2>1. pc' = [pc EXCEPT ![h] = "idle"] /\ EndRun(h)
    BY <1>10, EndShape
  <2>2. /\ UNCHANGED <<walletTransactions, requestFor, transfers>>
        /\ job' = [job EXCEPT ![h] = None]
        /\ doing' = [doing EXCEPT ![h] = None]
    BY <2>1 DEF EndRun, RollbackPosting, Forget, Drop, ledgerVars
  <2>3. QED
    BY <1>1, <2>1, <2>2, StillClaims, NoNewClaim
<1>11. ASSUME NEW h \in Handlers, WorkerStep(h) PROVE ClaimsBacked'
  BY <1>11, <1>4, <1>5, <1>6, <1>7, <1>8, <1>9, <1>10, TransferClaims DEF WorkerStep
<1>12. ASSUME NEW h \in Handlers, WithdrawalFault(h) PROVE ClaimsBacked'
  BY <1>12, <1>4, <1>7, <1>8, <1>10 DEF WithdrawalFault
<1>13. QED
  BY <1>2, <1>3, <1>4, <1>11, <1>12 DEF WithdrawalNext, AtRest

(* Before anything runs there is no claim.                                 *)
LEMMA InitClaims == WithdrawalInit => ClaimsBacked
<1> SUFFICES ASSUME WithdrawalInit, NEW w \in Withdrawals
             PROVE  /\ IsFiniteSet(Claims(w))
                    /\ Cardinality(Claims(w)) <= transfers[w]
  BY DEF ClaimsBacked
<1>1. Claims(w) = {}
  BY DEF WithdrawalInit, PostingInit, Claims, Lined, UnderWay
<1>2. transfers[w] = 0
  BY DEF WithdrawalInit
<1>3. QED
  BY <1>1, <1>2, FS_EmptySet

(* What is counted by request is counted by line: each line has its own    *)
(* request.                                                                *)
LEMMA LinesWithinClaims ==
  ASSUME Shape, NEW w \in Withdrawals, IsFiniteSet(Claims(w))
  PROVE  /\ IsFiniteSet(LinesOf(w))
         /\ Cardinality(LinesOf(w)) \in Nat
         /\ Cardinality(LinesOf(w)) <= Cardinality(Claims(w))
<1> DEFINE of == [i \in LinesOf(w) |-> walletTransactions[i].request]
<1>1. of \in [LinesOf(w) -> Claims(w)]
  BY DEF LinesOf, Claims, Lined
<1>2. IsInjective(of)
  BY DEF IsInjective, LinesOf, Shape, BooksOK
<1>3. of \in Injection(LinesOf(w), Claims(w))
  BY <1>1, <1>2 DEF Injection
<1> HIDE DEF of
<1>4. QED
  BY <1>3, FS_Injection, FS_CardinalityType

(* The wallet is debited for a withdrawal at most as often as its money    *)
(* left, and for its amount: whatever fails between the gateway and the    *)
(* commit, and however often Bull runs the job.                            *)
THEOREM DebitsAreBacked == WithdrawalSpec => []DebitIsBacked
<1>1. Shape /\ ClaimsBacked => DebitIsBacked
  <2> SUFFICES ASSUME Shape, ClaimsBacked, NEW w \in Withdrawals
               PROVE  /\ Cardinality(LinesOf(w)) <= transfers[w]
                      /\ \A i \in LinesOf(w) :
                           walletTransactions[i].amount = Amount[w]
    BY DEF DebitIsBacked
  <2>1. /\ IsFiniteSet(Claims(w)) /\ Cardinality(Claims(w)) <= transfers[w]
        /\ transfers[w] \in Nat
    BY DEF ClaimsBacked, Shape, WithdrawalTypeOK
  <2>2. /\ Cardinality(LinesOf(w)) \in Nat
        /\ Cardinality(LinesOf(w)) <= Cardinality(Claims(w))
    BY <2>1, LinesWithinClaims
  <2>3. Cardinality(Claims(w)) \in Nat
    BY <2>1, FS_CardinalityType
  <2>4. \A i \in LinesOf(w) : walletTransactions[i].amount = Amount[w]
    BY DEF Shape, BooksOK, LineOK, LinesOf
  <2>5. QED
    BY <2>1, <2>2, <2>3, <2>4
<1>2. QED
  BY <1>1, InitClaims, NextClaims, ShapeHolds, PTL DEF WithdrawalSpec

-----------------------------------------------------------------------------
(* What a waiting withdrawal has behind it.                                *)

(* Which steps write the withdrawals and the books.                        *)
LEMMA Writers ==
  ASSUME Shape, [WithdrawalNext]_withdrawalVars
  PROVE  \/ UNCHANGED <<withdrawal, walletTransactions, requestFor>>
         \/ \E h \in Handlers :
              /\ CommitWithdrawal(h) \/ FailInitiate(h) \/ Refuse(h)
              /\ UNCHANGED <<walletTransactions, requestFor>>
         \/ \E h \in Handlers : CommitPayout(h) \/ Reject(h)
<1>1. CASE UNCHANGED withdrawalVars
  BY <1>1 DEF withdrawalVars, postingVars, ledgerVars, payoutVars
<1>2. ASSUME NEW h \in Handlers, NEW w \in Withdrawals, InitiateWithdrawal(h, w)
      PROVE  UNCHANGED <<withdrawal, walletTransactions, requestFor>>
  BY <1>2 DEF InitiateWithdrawal, ledgerVars
<1>3. ASSUME NEW h \in Handlers,
             CommitWithdrawal(h) \/ FailInitiate(h) \/ Refuse(h)
      PROVE  UNCHANGED <<walletTransactions, requestFor>>
  BY <1>3 DEF CommitWithdrawal, FailInitiate, Refuse, ledgerVars
<1>4. ASSUME NEW h \in Handlers,
             \/ Enqueue(h) \/ LoseJob(h) \/ TakeJob(h) \/ Payout(h)
             \/ TransferDone(h) \/ TransferRefused(h) \/ TransferUnanswered(h)
             \/ SaveWithdrawal(h) \/ Ack(h)
      PROVE  UNCHANGED <<withdrawal, walletTransactions, requestFor>>
  BY <1>4 DEF Enqueue, LoseJob, TakeJob, Payout, TransferDone,
     TransferRefused, TransferUnanswered, SaveWithdrawal, Ack, postingVars,
     ledgerVars, payoutVars
<1>5. ASSUME NEW h \in Handlers, PostingStep(h) \/ ReadFails(h),
             UNCHANGED <<jobVars, payoutVars>>
      PROVE  UNCHANGED <<withdrawal, walletTransactions, requestFor>>
  BY <1>5 DEF PostingStep, CheckNoTransaction, InsertTransaction,
     CreateWalletTransaction, SaveWallet, ReadFails, ledgerVars, payoutVars
<1>6. ASSUME NEW h \in Handlers, RollbackPayout(h) \/ FailPayout(h) \/ Crash(h)
      PROVE  UNCHANGED <<withdrawal, walletTransactions, requestFor>>
  BY <1>6, EndShape DEF EndRun, RollbackPosting, ledgerVars
<1>7. QED
  BY <1>1, <1>2, <1>3, <1>4, <1>5, <1>6
  DEF WithdrawalNext, DeskStep, WorkerStep, WithdrawalFault, AtRest

(* What a commit leaves of the lines and statuses there were.              *)
LEMMA CommitWrites ==
  ASSUME Shape, NEW h \in Handlers, pc[h] \in Paying,
         NEW rs, NEW ws, Concludes(h, rs, ws)
  PROVE  /\ \A w \in Withdrawals : LinesOf(w) \subseteq LinesOf(w)'
         /\ \A w \in Withdrawals \ {job[h]} :
              /\ withdrawal'[w] = withdrawal[w]
              /\ LinesOf(w)' = LinesOf(w)
         /\ job[h] \in Withdrawals
         /\ withdrawal'[job[h]] = ws
         /\ \A w \in Withdrawals :
              w = job[h] =>
                LinesOf(w)' = IF pc[h] \in Entered
                                THEN LinesOf(w) \cup
                                       {Len(walletTransactions) + 1}
                                ELSE LinesOf(w)
         /\ Len(walletTransactions) + 1 \notin DOMAIN walletTransactions
<1>1. /\ requestFor' = [requestFor EXCEPT ![doing[h]] = job[h]]
      /\ withdrawal' = [withdrawal EXCEPT ![job[h]] = ws]
      /\ walletTransactions' = walletTransactions \o entries[h]
  BY DEF Concludes, WritePayout, CommitPosting
<1>2. /\ doing[h] \in Debits /\ doing[h] # None
      /\ requestFor \in [Debits -> Withdrawals \cup {None}]
      /\ withdrawal \in [Withdrawals -> WithdrawalStatus]
      /\ OwnRequest(h) /\ job[h] \in Withdrawals
  BY PostingAssumption, HasJob DEF Shape, HandlersOK, LocalsAt, Debits,
     WithdrawalTypeOK, PostingTypeOK, PostingAssumption
<1> DEFINE n == Len(walletTransactions) + 1
<1>3. /\ n \notin DOMAIN walletTransactions
      /\ \A i \in DOMAIN walletTransactions :
           /\ i \in DOMAIN walletTransactions'
           /\ walletTransactions'[i] = walletTransactions[i]
      /\ DOMAIN walletTransactions' =
           IF pc[h] \in Entered THEN DOMAIN walletTransactions \cup {n}
                                ELSE DOMAIN walletTransactions
      /\ pc[h] \in Entered => walletTransactions'[n].request = doing[h]
  <2>1. /\ Len(walletTransactions) \in Nat
        /\ DOMAIN walletTransactions = 1 .. Len(walletTransactions)
        /\ \A i \in DOMAIN walletTransactions :
             /\ i \in DOMAIN walletTransactions'
             /\ walletTransactions'[i] = walletTransactions[i]
    BY <1>1, CommittedLine
  <2>2. CASE pc[h] \in Entered
    <3>1. /\ DOMAIN walletTransactions' = 1 .. n
          /\ walletTransactions'[n].request = doing[h]
      BY <1>1, <2>2, CommittedLine
    <3>2. DOMAIN walletTransactions' = DOMAIN walletTransactions \cup {n}
      BY <2>1, <3>1
    <3>3. QED
      BY <2>1, <2>2, <3>1, <3>2
  <2>3. CASE pc[h] \notin Entered
    <3>1. DOMAIN walletTransactions' = DOMAIN walletTransactions
      BY <1>1, <2>3, CommittedLine
    <3>2. n \notin DOMAIN walletTransactions
      BY <2>1
    <3>3. QED
      BY <2>1, <2>3, <3>1, <3>2
  <2>4. QED
    BY <2>2, <2>3
<1> HIDE DEF n
<1>4. ASSUME NEW i \in DOMAIN walletTransactions
      PROVE  /\ walletTransactions'[i].request = walletTransactions[i].request
             /\ walletTransactions[i].request \in Debits
             /\ requestFor'[walletTransactions[i].request] =
                  requestFor[walletTransactions[i].request]
  <2>1. LineOK(i)
    BY DEF Shape, BooksOK
  <2>2. walletTransactions[i].request # doing[h]
    BY <1>2, <2>1 DEF LineOK, Named, OwnRequest
  <2>3. QED
    BY <1>1, <1>2, <1>3, <2>1, <2>2 DEF LineOK, Named
<1>5. requestFor'[doing[h]] = job[h]
  BY <1>1, <1>2
<1>6. ASSUME NEW w \in Withdrawals, NEW i
      PROVE  i \in LinesOf(w)' <=>
               \/ i \in LinesOf(w)
               \/ pc[h] \in Entered /\ i = n /\ w = job[h]
  <2>1. CASE i \in DOMAIN walletTransactions
    BY <1>3, <1>4, <2>1 DEF LinesOf
  <2>2. CASE i \notin DOMAIN walletTransactions
    BY <1>2, <1>3, <1>5, <2>2 DEF LinesOf
  <2>3. QED
    BY <2>1, <2>2
<1>7. \A w \in Withdrawals : LinesOf(w) \subseteq LinesOf(w)'
  BY <1>6
<1>8. \A w \in Withdrawals \ {job[h]} : LinesOf(w)' = LinesOf(w)
  BY <1>6
<1>9. \A w \in Withdrawals :
        w = job[h] => LinesOf(w)' = IF pc[h] \in Entered
                                      THEN LinesOf(w) \cup {n}
                                      ELSE LinesOf(w)
  BY <1>6
<1>10. /\ withdrawal'[job[h]] = ws
       /\ \A w \in Withdrawals \ {job[h]} : withdrawal'[w] = withdrawal[w]
  BY <1>1, <1>2
<1>11. QED
  BY <1>2, <1>3, <1>7, <1>8, <1>9, <1>10 DEF n

(* The status that says so is written together with the line.              *)
WaitingHasLine ==
  \A w \in Withdrawals :
    withdrawal[w] = "WAITING_CONFIRMATION" => LinesOf(w) # {}

(* No step writes the status without the line.                             *)
LEMMA NextWaiting ==
  Shape /\ WaitingHasLine /\ [WithdrawalNext]_withdrawalVars => WaitingHasLine'
<1> SUFFICES ASSUME Shape, WaitingHasLine, [WithdrawalNext]_withdrawalVars,
                    NEW w \in Withdrawals,
                    withdrawal'[w] = "WAITING_CONFIRMATION"
             PROVE  LinesOf(w)' # {}
  BY DEF WaitingHasLine
<1>1. withdrawal \in [Withdrawals -> WithdrawalStatus]
  BY DEF Shape, WithdrawalTypeOK
<1>2. CASE UNCHANGED <<withdrawal, walletTransactions, requestFor>>
  BY <1>2 DEF WaitingHasLine, LinesOf
<1>3. ASSUME NEW h \in Handlers,
             CommitWithdrawal(h) \/ FailInitiate(h) \/ Refuse(h),
             UNCHANGED <<walletTransactions, requestFor>>
      PROVE  LinesOf(w)' # {}
  <2>1. \E s \in {"PENDING", "void", "INSUFFICIENT_FUNDS"} :
          withdrawal' = [withdrawal EXCEPT ![job[h]] = s]
    BY <1>3 DEF CommitWithdrawal, FailInitiate, Refuse
  <2>2. withdrawal[w] = "WAITING_CONFIRMATION"
    BY <1>1, <2>1
  <2>3. QED
    BY <1>3, <2>2 DEF WaitingHasLine, LinesOf
<1>4. ASSUME NEW h \in Handlers, CommitPayout(h) \/ Reject(h)
      PROVE  LinesOf(w)' # {}
  <2>1. PICK ws \in {"WAITING_CONFIRMATION", "FAILED"}, rs \in PaymentStatus :
          /\ Concludes(h, rs, ws) /\ pc[h] \in Paying
          /\ ws = "WAITING_CONFIRMATION" => pc[h] = "posted"
    BY <1>4, CommitsConclude
  <2>2. CASE w = job[h]
    <3>1. withdrawal'[job[h]] = ws
      BY <2>1, CommitWrites
    <3>2. pc[h] \in Entered
      BY <2>1, <2>2, <3>1
    <3>3. LinesOf(w)' = LinesOf(w) \cup {Len(walletTransactions) + 1}
      BY <2>1, <2>2, <3>2, CommitWrites
    <3>4. QED
      BY <3>3
  <2>3. CASE w # job[h]
    <3>1. withdrawal'[w] = withdrawal[w] /\ LinesOf(w)' = LinesOf(w)
      BY <2>1, <2>3, CommitWrites
    <3>2. QED
      BY <3>1 DEF WaitingHasLine
  <2>4. QED
    BY <2>2, <2>3
<1>5. QED
  BY <1>2, <1>3, <1>4, Writers

(* A withdrawal that waits for confirmation was transferred and debited.   *)
THEOREM WaitingMeansDebited == WithdrawalSpec => []WaitingIsDebited
<1>1. WithdrawalInit => WaitingHasLine
  BY DEF WithdrawalInit, WaitingHasLine
<1>2. Shape /\ ClaimsBacked /\ WaitingHasLine => WaitingIsDebited
  <2> SUFFICES ASSUME Shape, ClaimsBacked, WaitingHasLine,
                      NEW w \in Withdrawals,
                      withdrawal[w] = "WAITING_CONFIRMATION"
               PROVE  transfers[w] > 0 /\ LinesOf(w) # {}
    BY DEF WaitingIsDebited
  <2>1. LinesOf(w) # {}
    BY DEF WaitingHasLine
  <2>2. Claims(w) # {}
    BY <2>1 DEF Claims, LinesOf, Lined
  <2>3. /\ IsFiniteSet(Claims(w)) /\ Cardinality(Claims(w)) <= transfers[w]
        /\ transfers[w] \in Nat
    BY DEF ClaimsBacked, Shape, WithdrawalTypeOK
  <2>4. Cardinality(Claims(w)) \in Nat /\ Cardinality(Claims(w)) # 0
    BY <2>2, <2>3, FS_CardinalityType, FS_EmptySet
  <2>5. QED
    BY <2>1, <2>3, <2>4
<1>3. QED
  BY <1>1, <1>2, InitClaims, NextClaims, NextWaiting, ShapeHolds, PTL
  DEF WithdrawalSpec

-----------------------------------------------------------------------------
(* Where the job of a withdrawal is.                                       *)

Queued(w) == \E i \in DOMAIN queue : queue[i] = w

Once(w) == \A i, j \in DOMAIN queue : queue[i] = w /\ queue[j] = w => i = j

(* A job is added at the end.                                              *)
LEMMA QueueAppend ==
  ASSUME Shape, NEW x \in Withdrawals, queue' = Append(queue, x)
  PROVE  \A w \in Withdrawals :
           /\ Queued(w)' <=> Queued(w) \/ w = x
           /\ Once(w) /\ ~ (Queued(w) /\ w = x) => Once(w)'
<1>1. /\ Len(queue) \in Nat /\ DOMAIN queue = 1 .. Len(queue)
      /\ DOMAIN queue' = 1 .. Len(queue) + 1
      /\ queue'[Len(queue) + 1] = x
      /\ \A i \in DOMAIN queue : queue'[i] = queue[i]
  BY DEF Shape, WithdrawalTypeOK
<1>2. \A i \in DOMAIN queue' : i \in DOMAIN queue \/ i = Len(queue) + 1
  BY <1>1
<1>3. \A i \in DOMAIN queue : i \in DOMAIN queue'
  BY <1>1
<1>4. Len(queue) + 1 \in DOMAIN queue'
  BY <1>1
<1>5. QED
  BY <1>1, <1>2, <1>3, <1>4 DEF Queued, Once

(* The first job leaves.                                                   *)
LEMMA QueueHead ==
  ASSUME Shape, queue # <<>>, queue' = Tail(queue)
  PROVE  /\ Head(queue) \in Withdrawals /\ Queued(Head(queue))
         /\ \A w \in Withdrawals :
              /\ Queued(w) <=> Queued(w)' \/ w = Head(queue)
              /\ Once(w) => Once(w)'
              /\ Once(w) /\ w = Head(queue) => ~ Queued(w)'
<1>1. /\ Len(queue) \in Nat /\ DOMAIN queue = 1 .. Len(queue)
      /\ 1 \in DOMAIN queue /\ Head(queue) = queue[1]
      /\ Head(queue) \in Withdrawals
      /\ DOMAIN queue' = 1 .. Len(queue) - 1
      /\ \A i \in DOMAIN queue' : queue'[i] = queue[i + 1]
  <2>1. queue \in Seq(Withdrawals) /\ Len(queue) # 0
    BY DEF Shape, WithdrawalTypeOK
  <2>2. QED
    BY <2>1
<1>2. \A i \in DOMAIN queue' :
        /\ i \in Nat /\ i + 1 \in DOMAIN queue /\ i + 1 # 1
        /\ queue'[i] = queue[i + 1]
  BY <1>1
<1>3. \A i \in DOMAIN queue :
        i = 1 \/ (i - 1 \in DOMAIN queue' /\ queue'[i - 1] = queue[i])
  BY <1>1
<1>4. Queued(Head(queue))
  BY <1>1 DEF Queued
<1>5. ASSUME NEW w \in Withdrawals
      PROVE  Queued(w) <=> Queued(w)' \/ w = Head(queue)
  <2>1. Queued(w)' => Queued(w)
    BY <1>2 DEF Queued
  <2>2. Queued(w) => Queued(w)' \/ w = Head(queue)
    BY <1>1, <1>3 DEF Queued
  <2>3. QED
    BY <1>4, <2>1, <2>2
<1>6. ASSUME NEW w \in Withdrawals, Once(w)
      PROVE  Once(w)' /\ (w = Head(queue) => ~ Queued(w)')
  <2>1. ASSUME NEW i \in DOMAIN queue', NEW j \in DOMAIN queue',
               queue'[i] = w, queue'[j] = w
        PROVE  i = j
    <3>1. i + 1 = j + 1
      BY <1>2, <1>6, <2>1 DEF Once
    <3>2. QED
      BY <1>2, <3>1
  <2>2. ASSUME NEW i \in DOMAIN queue', queue'[i] = w, w = Head(queue)
        PROVE  FALSE
    BY <1>1, <1>2, <1>6, <2>2 DEF Once
  <2>3. QED
    BY <2>1, <2>2 DEF Once, Queued
<1>7. QED
  BY <1>1, <1>4, <1>5, <1>6

(* A job is put back in front.                                             *)
LEMMA QueuePush ==
  ASSUME Shape, NEW x \in Withdrawals, queue' = <<x>> \o queue
  PROVE  \A w \in Withdrawals :
           /\ Queued(w)' <=> Queued(w) \/ w = x
           /\ Once(w) /\ w # x => Once(w)'
<1>1. /\ Len(queue) \in Nat /\ DOMAIN queue = 1 .. Len(queue)
      /\ DOMAIN queue' = 1 .. Len(queue) + 1
      /\ queue'[1] = x
      /\ \A i \in DOMAIN queue : queue'[i + 1] = queue[i]
  <2>1. queue \in Seq(Withdrawals) /\ <<x>> \in Seq(Withdrawals)
    BY DEF Shape, WithdrawalTypeOK
  <2>2. Len(<<x>>) = 1 /\ <<x>>[1] = x
    OBVIOUS
  <2>3. /\ Len(queue) \in Nat /\ DOMAIN queue = 1 .. Len(queue)
        /\ DOMAIN queue' = 1 .. Len(queue) + 1
    BY <2>1
  <2>4. queue'[1] = x
    BY <2>1
  <2>5. \A i \in DOMAIN queue : queue'[i + 1] = queue[i]
    BY <2>1, <2>2, Joined
  <2>6. QED
    BY <2>3, <2>4, <2>5
<1>2. \A i \in DOMAIN queue' :
        \/ i = 1
        \/ i - 1 \in DOMAIN queue /\ queue'[i] = queue[i - 1] /\ i \in Int
  <2>1. ASSUME NEW i \in DOMAIN queue', i # 1
        PROVE  i - 1 \in DOMAIN queue /\ i \in Int
    BY <1>1, <2>1
  <2>2. ASSUME NEW i \in DOMAIN queue', i # 1
        PROVE  queue'[i] = queue[i - 1]
    <3>1. queue'[(i - 1) + 1] = queue[i - 1]
      BY <1>1, <2>1, <2>2
    <3>2. QED
      BY <2>1, <2>2, <3>1
  <2>3. QED
    BY <2>1, <2>2
<1>3. 1 \in DOMAIN queue' /\ \A i \in DOMAIN queue : i + 1 \in DOMAIN queue'
  BY <1>1
<1>4. ASSUME NEW w \in Withdrawals
      PROVE  Queued(w)' <=> Queued(w) \/ w = x
  BY <1>1, <1>2, <1>3 DEF Queued
<1>5. ASSUME NEW w \in Withdrawals, Once(w), w # x
      PROVE  Once(w)'
  <2>1. ASSUME NEW i \in DOMAIN queue', NEW j \in DOMAIN queue',
               queue'[i] = w, queue'[j] = w
        PROVE  i = j
    <3>1. i - 1 = j - 1 /\ i \in Int /\ j \in Int
      BY <1>1, <1>2, <1>5, <2>1 DEF Once
    <3>2. QED
      BY <3>1
  <2>2. QED
    BY <2>1 DEF Once
<1>6. QED
  BY <1>4, <1>5

(* What the steps do to jobs.                                              *)
JobMoves(h) ==
  \/ \E w \in Withdrawals : InitiateWithdrawal(h, w)
  \/ Enqueue(h)
  \/ CommitWithdrawal(h) \/ FailInitiate(h)
  \/ h \in Workers /\ LoseJob(h)
  \/ h \in Workers /\ TakeJob(h)
  \/ Refuse(h) \/ CommitPayout(h) \/ Reject(h)
  \/ Ack(h)
  \/ RollbackPayout(h) \/ FailPayout(h) \/ Crash(h)

(* The other steps of a run leave them where they are.                     *)
Carries(h) ==
  /\ pc[h] \notin AtDesk \cup {"idle", "ack"}
  /\ pc'[h] \notin AtDesk \cup {"idle", "ack"}
  /\ \A k \in Handlers \ {h} : pc'[k] = pc[k]
  /\ UNCHANGED <<withdrawal, job, queue, failedJobs, stalled>>

(* How jobs, and the statuses they work on, can change.                    *)
LEMMA JobSteps ==
  ASSUME Shape, [WithdrawalNext]_withdrawalVars
  PROVE  \/ UNCHANGED <<pc, withdrawal, job, queue, failedJobs, stalled>>
         \/ \E h \in Handlers : JobMoves(h) \/ Carries(h)
<1>1. pc \in [Handlers -> WithdrawalStates]
  BY DEF Shape, WithdrawalTypeOK, PostingTypeOK
<1>2. CASE UNCHANGED withdrawalVars
  BY <1>2 DEF withdrawalVars, postingVars, localVars, jobVars, payoutVars
<1>3. ASSUME NEW h \in Handlers,
             \/ Payout(h) \/ TransferDone(h) \/ TransferUnanswered(h)
             \/ TransferRefused(h) \/ SaveWithdrawal(h)
      PROVE  Carries(h)
  BY <1>1, <1>3 DEF Payout, TransferDone, TransferUnanswered,
     TransferRefused, SaveWithdrawal, Goto, Carries, jobVars, payoutVars
<1>4. ASSUME NEW h \in Handlers, PostingStep(h) \/ ReadFails(h),
             UNCHANGED <<jobVars, payoutVars>>
      PROVE  Carries(h)
  BY <1>1, <1>4 DEF PostingStep, CheckNoTransaction, InsertTransaction,
     CreateWalletTransaction, SaveWallet, ReadFails, Goto, Carries, jobVars,
     payoutVars
<1>5. QED
  BY <1>2, <1>3, <1>4 DEF WithdrawalNext, DeskStep, WorkerStep,
     WithdrawalFault, AtRest, JobMoves

(* A pending withdrawal has its job somewhere; a run that is about to end  *)
(* has written an outcome, a row about to be committed has its job out.    *)
Tracked ==
  /\ PendingHasAJob
  /\ \A h \in Handlers :
       /\ pc[h] = "ack" => withdrawal[job[h]] # "PENDING"
       /\ pc[h] = "commitWithdrawal" => Queued(job[h]) \/ job[h] \in failedJobs

(* No step loses the job of a pending withdrawal.                          *)
LEMMA NextTracked ==
  Shape /\ Tracked /\ [WithdrawalNext]_withdrawalVars => Tracked'
<1> SUFFICES ASSUME Shape, Tracked, [WithdrawalNext]_withdrawalVars
             PROVE  Tracked'
  OBVIOUS
<1> USE DEF Tracked, PendingHasAJob
<1> DEFINE AtWorker(w) == \E h \in Workers : job[h] = w
           Found(w) == Queued(w) \/ AtWorker(w) \/ w \in failedJobs
<1>1. /\ pc \in [Handlers -> WithdrawalStates]
      /\ withdrawal \in [Withdrawals -> WithdrawalStatus]
      /\ job \in [Handlers -> Withdrawals \cup {None}]
      /\ Workers \subseteq Handlers
      /\ \A h \in Handlers : LocalsAt(h)
  BY WithdrawalAssumption DEF Shape, HandlersOK, WithdrawalTypeOK,
     PostingTypeOK, WithdrawalAssumption
<1>2. /\ \A w \in Withdrawals : withdrawal[w] = "PENDING" => Found(w)
      /\ \A h \in Handlers : pc[h] # "idle" => job[h] \in Withdrawals
  BY HasJob DEF Queued
<1>3. ASSUME \A w \in Withdrawals : withdrawal'[w] = "PENDING" => Found(w)',
             \A h \in Handlers :
               /\ pc'[h] = "ack" => withdrawal'[job'[h]] # "PENDING"
               /\ pc'[h] = "commitWithdrawal" =>
                    Queued(job[h])' \/ job'[h] \in failedJobs'
      PROVE  Tracked'
  BY <1>3 DEF Queued
<1>4. CASE UNCHANGED <<pc, withdrawal, job, queue, failedJobs, stalled>>
  BY <1>4 DEF Queued
<1>5. ASSUME NEW h \in Handlers, Carries(h) PROVE Tracked'
  <2>1. \A w : (Queued(w)' <=> Queued(w)) /\ (AtWorker(w)' <=> AtWorker(w))
    BY <1>5 DEF Carries, Queued
  <2>2. \A k \in Handlers : Queued(job[k])' <=> Queued(job[k])
    BY <1>5 DEF Carries, Queued
  <2>3. QED
    BY <1>2, <1>3, <1>5, <2>1, <2>2 DEF Carries
<1>6. ASSUME NEW h \in Handlers, NEW w \in Withdrawals, InitiateWithdrawal(h, w)
      PROVE  Tracked'
  <2>1. /\ pc[h] = "idle" /\ h \in Desk /\ withdrawal[w] = "absent"
        /\ pc' = [pc EXCEPT ![h] = "enqueue"] /\ job' = [job EXCEPT ![h] = w]
        /\ UNCHANGED <<withdrawal, queue, failedJobs>>
    BY <1>6 DEF InitiateWithdrawal, Goto, jobVars
  <2>2. job[h] = None /\ h \notin Workers
    BY <1>1, <2>1, WithdrawalAssumption DEF LocalsAt, WithdrawalAssumption
  <2>3. \A v \in Withdrawals : Found(v) => Found(v)'
    BY <1>1, <2>1, <2>2 DEF Queued
  <2>4. \A k \in Handlers \ {h} : pc'[k] = pc[k] /\ job'[k] = job[k]
    BY <1>1, <2>1
  <2>5. pc'[h] = "enqueue"
    BY <1>1, <2>1
  <2>6. \A k \in Handlers \ {h} : Queued(job[k])' <=> Queued(job[k])
    BY <2>1, <2>4 DEF Queued
  <2>7. QED
    BY <1>2, <1>3, <2>1, <2>3, <2>4, <2>5, <2>6
<1>7. ASSUME NEW h \in Handlers, Enqueue(h) PROVE Tracked'
  <2>1. /\ pc[h] = "enqueue" /\ pc' = [pc EXCEPT ![h] = "commitWithdrawal"]
        /\ queue' = Append(queue, job[h])
        /\ UNCHANGED <<withdrawal, job, failedJobs>>
    BY <1>7 DEF Enqueue, Goto, payoutVars
  <2>2. /\ job[h] \in Withdrawals
        /\ \A w \in Withdrawals : Queued(w)' <=> Queued(w) \/ w = job[h]
    BY <1>2, <2>1, QueueAppend
  <2>3. \A w \in Withdrawals : Found(w) => Found(w)'
    BY <2>1, <2>2
  <2>4. \A k \in Handlers : job[k] \in Withdrawals =>
                             (Queued(job[k])' <=> Queued(job[k]) \/ job[k] = job[h])
    <3>1. ASSUME NEW k \in Handlers, job[k] \in Withdrawals
          PROVE  Queued(job[k])' <=> Queued(job[k]) \/ job[k] = job[h]
      <4>1. PICK w \in Withdrawals : w = job[k]
        BY <3>1
      <4>2. Queued(w)' <=> Queued(job[k])'
        BY <2>1, <4>1 DEF Queued
      <4>3. Queued(w) <=> Queued(job[k])
        BY <4>1
      <4>4. QED
        BY <2>2, <4>1, <4>2, <4>3
    <3>2. QED
      BY <3>1
  <2>5. \A k \in Handlers \ {h} : pc'[k] = pc[k]
    BY <1>1, <2>1
  <2>6. pc'[h] = "commitWithdrawal"
    BY <1>1, <2>1
  <2>7. QED
    BY <1>2, <1>3, <2>1, <2>2, <2>3, <2>4, <2>5, <2>6
<1>8. ASSUME NEW h \in Handlers, CommitWithdrawal(h) \/ FailInitiate(h)
      PROVE  Tracked'
  <2>1. /\ pc' = [pc EXCEPT ![h] = "idle"] /\ job' = [job EXCEPT ![h] = None]
        /\ pc[h] \in AtDesk /\ h \notin Workers
        /\ job[h] \in Withdrawals /\ withdrawal[job[h]] = "absent"
        /\ UNCHANGED <<queue, failedJobs>>
    <3>1. /\ pc' = [pc EXCEPT ![h] = "idle"] /\ pc[h] \in AtDesk
          /\ job' = [job EXCEPT ![h] = None]
          /\ UNCHANGED <<queue, failedJobs>>
      BY <1>8 DEF CommitWithdrawal, FailInitiate, Goto, Drop, jobVars
    <3>2. h \in Desk /\ withdrawal[job[h]] = "absent"
      BY <1>1, <3>1 DEF LocalsAt
    <3>3. QED
      BY <1>2, <3>1, <3>2, WithdrawalAssumption DEF WithdrawalAssumption
  <2>2. /\ \A w \in Withdrawals \ {job[h]} : withdrawal'[w] = withdrawal[w]
        /\ withdrawal'[job[h]] = "PENDING" => pc[h] = "commitWithdrawal"
    BY <1>1, <1>8, <2>1 DEF CommitWithdrawal, FailInitiate, Goto
  <2>3. \A w \in Withdrawals : Found(w) => Found(w)'
    BY <1>1, <2>1 DEF Queued
  <2>4. /\ pc'[h] = "idle"
        /\ \A k \in Handlers \ {h} : pc'[k] = pc[k] /\ job'[k] = job[k]
    BY <1>1, <2>1
  <2>5. \A k \in Handlers \ {h} : Queued(job[k])' <=> Queued(job[k])
    BY <2>1, <2>4 DEF Queued
  <2>6. ASSUME NEW w \in Withdrawals, withdrawal'[w] = "PENDING"
        PROVE  Found(w)'
    <3>1. CASE w = job[h]
      <4>1. pc[h] = "commitWithdrawal"
        BY <2>2, <2>6, <3>1
      <4>2. Queued(job[h]) \/ job[h] \in failedJobs
        BY <4>1
      <4>3. QED
        BY <2>3, <3>1, <4>2
    <3>2. CASE w # job[h]
      BY <1>2, <2>2, <2>3, <2>6, <3>2
    <3>3. QED
      BY <3>1, <3>2
  <2>7. ASSUME NEW k \in Handlers, pc'[k] = "ack"
        PROVE  withdrawal'[job'[k]] # "PENDING"
    <3>1. /\ k # h /\ pc[k] = "ack" /\ job'[k] = job[k]
          /\ job[k] \in Withdrawals /\ withdrawal[job[k]] # "absent"
      BY <1>1, <1>2, <2>4, <2>7 DEF LocalsAt
    <3>2. job[k] # job[h]
      BY <2>1, <3>1
    <3>3. QED
      BY <2>2, <3>1, <3>2
  <2>8. QED
    BY <1>3, <2>1, <2>4, <2>5, <2>6, <2>7
<1>9. ASSUME NEW h \in Handlers, h \in Workers, LoseJob(h) \/ TakeJob(h)
      PROVE  Tracked'
  <2>1. /\ pc[h] = "idle" /\ queue # <<>> /\ queue' = Tail(queue)
        /\ UNCHANGED withdrawal
        /\ \/ /\ failedJobs' = failedJobs \cup {Head(queue)}
              /\ UNCHANGED <<pc, job>>
           \/ /\ withdrawal[Head(queue)] # "absent"
              /\ pc' = [pc EXCEPT ![h] = "payout"]
              /\ job' = [job EXCEPT ![h] = Head(queue)]
              /\ UNCHANGED failedJobs
    BY <1>9 DEF LoseJob, TakeJob, Goto, postingVars, localVars, payoutVars
  <2>2. /\ Head(queue) \in Withdrawals
        /\ \A w \in Withdrawals : Queued(w) <=> Queued(w)' \/ w = Head(queue)
    BY <2>1, QueueHead
  <2>3. job[h] = None
    BY <1>1, <2>1 DEF LocalsAt
  <2>4. \A k \in Handlers \ {h} : pc'[k] = pc[k] /\ job'[k] = job[k]
    BY <1>1, <2>1
  <2>5. ASSUME NEW w \in Withdrawals, Found(w)
        PROVE  Found(w)'
    <3>1. CASE w = Head(queue)
      BY <1>1, <1>9, <2>1, <3>1
    <3>2. CASE Queued(w) /\ w # Head(queue)
      BY <2>2, <3>2
    <3>3. CASE w \in failedJobs
      BY <2>1, <3>3
    <3>4. CASE AtWorker(w)
      <4>1. PICK k \in Workers : job[k] = w
        BY <3>4
      <4>2. k # h
        BY <2>3, <4>1, WithdrawalAssumption DEF WithdrawalAssumption
      <4>3. job'[k] = w
        BY <1>1, <2>4, <4>1, <4>2
      <4>4. QED
        BY <4>3
    <3>5. QED
      BY <2>5, <3>1, <3>2, <3>3, <3>4
  <2>6. pc'[h] \in {"idle", "payout"}
    BY <1>1, <2>1
  <2>7. ASSUME NEW k \in Handlers, pc'[k] = "commitWithdrawal"
        PROVE  Queued(job[k])' \/ job'[k] \in failedJobs'
    <3>1. /\ k # h /\ pc[k] = "commitWithdrawal" /\ job'[k] = job[k]
          /\ job[k] \in Withdrawals
          /\ withdrawal[job[k]] = "absent"
      BY <1>1, <1>2, <2>4, <2>6, <2>7 DEF LocalsAt
    <3>2. PICK w \in Withdrawals : w = job[k]
      BY <3>1
    <3>3. Queued(w) \/ w \in failedJobs
      BY <3>1, <3>2
    <3>4. Queued(w)' \/ w \in failedJobs'
      BY <2>1, <2>2, <3>1, <3>2, <3>3
    <3>5. Queued(w)' <=> Queued(job[k])'
      BY <3>1, <3>2 DEF Queued
    <3>6. QED
      BY <3>1, <3>2, <3>4, <3>5
  <2>8. QED
    BY <1>2, <1>3, <2>1, <2>4, <2>5, <2>6, <2>7
<1>10. ASSUME NEW h \in Handlers, Refuse(h) \/ CommitPayout(h) \/ Reject(h)
       PROVE  Tracked'
  <2>1. PICK ws \in {"INSUFFICIENT_FUNDS", "WAITING_CONFIRMATION", "FAILED"} :
          /\ pc' = [pc EXCEPT ![h] = "ack"]
          /\ withdrawal' = [withdrawal EXCEPT ![job[h]] = ws]
          /\ UNCHANGED <<job, queue, failedJobs>>
    BY <1>10, CommitsConclude DEF Refuse, Concludes, WritePayout, Goto, jobVars
  <2>2. \A w \in Withdrawals : Found(w)' <=> Found(w)
    BY <2>1 DEF Queued
  <2>3. \A k \in Handlers : Queued(job[k])' <=> Queued(job[k])
    BY <2>1 DEF Queued
  <2>4. \A w \in Withdrawals : withdrawal'[w] = "PENDING" =>
                                 withdrawal[w] = "PENDING"
    BY <1>1, <2>1
  <2>5. /\ \A k \in Handlers \ {h} : pc'[k] = pc[k]
        /\ pc'[h] = "ack" /\ pc[h] # "idle"
    BY <1>1, <1>10, <2>1 DEF Refuse, CommitPayout, Reject, Goto
  <2>6. withdrawal'[job[h]] # "PENDING"
    BY <1>1, <1>2, <2>1, <2>5
  <2>7. QED
    BY <1>2, <1>3, <2>1, <2>2, <2>3, <2>4, <2>5, <2>6
<1>11. ASSUME NEW h \in Handlers, Ack(h) \/ RollbackPayout(h) \/ FailPayout(h) \/ Crash(h)
       PROVE  Tracked'
  <2>1. /\ pc[h] # "idle" /\ pc' = [pc EXCEPT ![h] = "idle"]
        /\ job' = [job EXCEPT ![h] = None] /\ UNCHANGED withdrawal
    BY <1>11, EndShape DEF Ack, Goto, Drop, EndRun
  <2>2. job[h] \in Withdrawals
    BY <1>2, <2>1
  <2>3. /\ \A w \in Withdrawals : Queued(w) => Queued(w)'
        /\ failedJobs \subseteq failedJobs'
        /\ \A w \in Withdrawals :
             w = job[h] /\ withdrawal[w] = "PENDING" =>
               Queued(w)' \/ w \in failedJobs'
    <3>1. CASE Ack(h)
      <4>1. pc[h] = "ack" /\ UNCHANGED <<queue, failedJobs>>
        BY <3>1 DEF Ack, Goto, jobVars
      <4>2. QED
        BY <4>1 DEF Queued
    <3>2. CASE GiveUp(h)
      BY <2>2, <3>2 DEF GiveUp, Queued
    <3>3. CASE /\ queue' = <<job[h]>> \o queue
               /\ UNCHANGED failedJobs
      BY <2>2, <3>3, QueuePush
    <3>4. QED
      BY <1>11, <3>1, <3>2, <3>3 DEF RollbackPayout, FailPayout, Crash, Restart
  <2>4. /\ pc'[h] = "idle"
        /\ \A k \in Handlers \ {h} : pc'[k] = pc[k] /\ job'[k] = job[k]
    BY <1>1, <2>1
  <2>5. ASSUME NEW w \in Withdrawals, withdrawal'[w] = "PENDING"
        PROVE  Found(w)'
    <3>1. Found(w) /\ withdrawal[w] = "PENDING"
      BY <1>2, <2>1, <2>5
    <3>2. CASE w = job[h]
      BY <2>3, <3>1, <3>2
    <3>3. CASE w # job[h]
      BY <1>1, <2>3, <2>4, <3>1, <3>3
    <3>4. QED
      BY <3>2, <3>3
  <2>6. ASSUME NEW k \in Handlers, pc'[k] = "commitWithdrawal"
        PROVE  Queued(job[k])' \/ job'[k] \in failedJobs'
    <3>1. /\ k # h /\ pc[k] = "commitWithdrawal" /\ job'[k] = job[k]
          /\ job[k] \in Withdrawals
      BY <1>1, <1>2, <2>4, <2>6
    <3>2. PICK w \in Withdrawals : w = job[k]
      BY <3>1
    <3>3. Queued(w) \/ w \in failedJobs
      BY <3>1, <3>2
    <3>4. Queued(w)' <=> Queued(job[k])'
      BY <3>1, <3>2 DEF Queued
    <3>5. QED
      BY <2>3, <3>1, <3>2, <3>3, <3>4
  <2>7. QED
    BY <1>3, <2>1, <2>4, <2>5, <2>6
<1>12. QED
  BY <1>4, <1>5, <1>6, <1>7, <1>8, <1>9, <1>10, <1>11, JobSteps DEF JobMoves

(* A pending withdrawal is never forgotten without a trace.                *)
THEOREM PendingIsTracked == WithdrawalSpec => []PendingHasAJob
<1>1. WithdrawalInit => Tracked
  BY DEF WithdrawalInit, PostingInit, Tracked, PendingHasAJob
<1>2. Tracked => PendingHasAJob
  BY DEF Tracked
<1>3. QED
  BY <1>1, <1>2, NextTracked, ShapeHolds, PTL DEF WithdrawalSpec

-----------------------------------------------------------------------------
(* As long as no worker died with it, the job of a withdrawal is run once. *)

(* An uncommitted withdrawal whose job is out is about to be committed.    *)
Announced(w) ==
  withdrawal[w] = "absent" /\ Queued(w) =>
    \E h \in Handlers : pc[h] = "commitWithdrawal" /\ job[h] = w

(* The job waits at most once, not while it is run, and not after.         *)
OneRun(w) ==
  /\ Once(w)
  /\ Queued(w) => /\ withdrawal[w] \in {"absent", "void", "PENDING"}
                  /\ \A h \in Workers : job[h] # w
  /\ \A h \in Workers :
       job[h] = w => /\ pc[h] # "ack" => withdrawal[w] = "PENDING"
                     /\ \A k \in Workers : job[k] = w => k = h

SingleRun ==
  \A w \in Withdrawals : Announced(w) /\ (stalled[w] = 0 => OneRun(w))

(* What a handler that is done with a withdrawal, or never had it, leaves. *)
LEMMA UntouchedRun ==
  ASSUME SingleRun, NEW w \in Withdrawals, NEW h \in Handlers,
         withdrawal'[w] = withdrawal[w],
         Queued(w)' <=> Queued(w),
         Once(w) => Once(w)',
         stalled'[w] = stalled[w],
         \A k \in Handlers \ {h} : pc'[k] = pc[k] /\ job'[k] = job[k],
         job'[h] = w => job[h] = w /\ pc[h] # "ack",
         job[h] = w /\ pc[h] = "commitWithdrawal" =>
           job'[h] = w /\ pc'[h] = "commitWithdrawal"
  PROVE  (Announced(w) /\ (stalled[w] = 0 => OneRun(w)))'
<1>1. Workers \subseteq Handlers
  BY WithdrawalAssumption DEF WithdrawalAssumption
<1>2. Announced(w) /\ (stalled[w] = 0 => OneRun(w))
  BY DEF SingleRun
<1>3. Announced(w)'
  BY <1>2 DEF Announced
<1>4. ASSUME stalled'[w] = 0 PROVE OneRun(w)'
  <2>1. OneRun(w)
    BY <1>2, <1>4
  <2>2. \A k \in Workers : job'[k] = w =>
           /\ job[k] = w
           /\ pc'[k] = pc[k] \/ pc[k] # "ack"
    BY <1>1
  <2>3. Once(w)'
    BY <2>1 DEF OneRun
  <2>4. Queued(w)' => /\ withdrawal'[w] \in {"absent", "void", "PENDING"}
                      /\ \A k \in Workers : job'[k] # w
    BY <2>1, <2>2 DEF OneRun
  <2>5. ASSUME NEW k \in Workers, job'[k] = w
        PROVE  /\ pc'[k] # "ack" => withdrawal'[w] = "PENDING"
               /\ \A g \in Workers : job'[g] = w => g = k
    BY <2>1, <2>2, <2>5 DEF OneRun
  <2>6. QED
    BY <2>3, <2>4, <2>5 DEF OneRun
<1>5. QED
  BY <1>3, <1>4

(* No step starts a second run of a job.                                   *)
LEMMA NextSingleRun ==
  Shape /\ SingleRun /\ [WithdrawalNext]_withdrawalVars => SingleRun'
<1> SUFFICES ASSUME Shape, SingleRun, [WithdrawalNext]_withdrawalVars
             PROVE  SingleRun'
  OBVIOUS
<1>1. /\ pc \in [Handlers -> WithdrawalStates]
      /\ withdrawal \in [Withdrawals -> WithdrawalStatus]
      /\ job \in [Handlers -> Withdrawals \cup {None}]
      /\ stalled \in [Withdrawals -> 0 .. MaxStalled]
      /\ \A h \in Handlers : LocalsAt(h)
      /\ Workers \subseteq Handlers /\ Desk \cap Workers = {}
      /\ None \notin Withdrawals /\ MaxStalled \in Nat
  BY WithdrawalAssumption DEF Shape, HandlersOK, WithdrawalTypeOK,
     PostingTypeOK, WithdrawalAssumption
<1>2. \A h \in Handlers : pc[h] # "idle" => job[h] \in Withdrawals
  BY HasJob
<1>3. ASSUME NEW w \in Withdrawals
      PROVE  UNCHANGED queue =>
               (Queued(w)' <=> Queued(w)) /\ (Once(w)' <=> Once(w))
  BY DEF Queued, Once
<1>4. CASE UNCHANGED <<pc, withdrawal, job, queue, failedJobs, stalled>>
  BY <1>4 DEF SingleRun, Announced, OneRun, Queued, Once
<1>5. ASSUME NEW h \in Handlers, Carries(h) PROVE SingleRun'
  BY <1>3, <1>5, UntouchedRun DEF Carries, SingleRun
<1>6. ASSUME NEW h \in Handlers, NEW v \in Withdrawals, InitiateWithdrawal(h, v)
      PROVE  SingleRun'
  <2>1. /\ pc[h] = "idle" /\ h \in Desk /\ withdrawal[v] = "absent"
        /\ \A k \in Handlers : job[k] # v
        /\ pc' = [pc EXCEPT ![h] = "enqueue"] /\ job' = [job EXCEPT ![h] = v]
        /\ UNCHANGED <<withdrawal, queue, stalled>>
    BY <1>6 DEF InitiateWithdrawal, Goto, jobVars
  <2>2. \A k \in Handlers \ {h} : pc'[k] = pc[k] /\ job'[k] = job[k]
    BY <1>1, <2>1
  <2>3. ASSUME NEW w \in Withdrawals, w # v
        PROVE  (Announced(w) /\ (stalled[w] = 0 => OneRun(w)))'
    BY <1>1, <1>3, <2>1, <2>2, <2>3, UntouchedRun
  <2>4. (Announced(v) /\ (stalled[v] = 0 => OneRun(v)))'
    <3>1. ~ Queued(v)
      BY <2>1 DEF SingleRun, Announced
    <3>2. h \notin Workers /\ \A k \in Workers : job'[k] # v
      BY <1>1, <2>1, <2>2
    <3>3. ~ Queued(v)' /\ Once(v)'
      BY <2>1, <3>1 DEF Queued, Once
    <3>4. QED
      BY <3>2, <3>3 DEF Announced, OneRun
  <2>5. QED
    BY <2>3, <2>4 DEF SingleRun
<1>7. ASSUME NEW h \in Handlers, Enqueue(h) PROVE SingleRun'
  <2>1. /\ pc[h] = "enqueue" /\ pc' = [pc EXCEPT ![h] = "commitWithdrawal"]
        /\ queue' = Append(queue, job[h])
        /\ UNCHANGED <<withdrawal, job, stalled>>
    BY <1>7 DEF Enqueue, Goto, payoutVars
  <2>2. /\ job[h] \in Withdrawals
        /\ withdrawal[job[h]] = "absent"
        /\ \A k \in Handlers \ {h} : job[k] # job[h]
        /\ h \notin Workers
    BY <1>1, <1>2, <2>1 DEF LocalsAt
  <2>3. \A w \in Withdrawals :
           /\ Queued(w)' <=> Queued(w) \/ w = job[h]
           /\ Once(w) /\ ~ (Queued(w) /\ w = job[h]) => Once(w)'
    BY <2>1, <2>2, QueueAppend
  <2>4. pc'[h] = "commitWithdrawal" /\ \A k \in Handlers \ {h} : pc'[k] = pc[k]
    BY <1>1, <2>1
  <2>5. ASSUME NEW w \in Withdrawals, w # job[h]
        PROVE  (Announced(w) /\ (stalled[w] = 0 => OneRun(w)))'
    BY <2>1, <2>3, <2>4, <2>5, UntouchedRun
  <2>6. ASSUME NEW w \in Withdrawals, w = job[h]
        PROVE  (Announced(w) /\ (stalled[w] = 0 => OneRun(w)))'
    <3>1. ~ Queued(w)
      BY <2>1, <2>2, <2>6 DEF SingleRun, Announced
    <3>2. Announced(w)'
      BY <2>1, <2>4, <2>6 DEF Announced
    <3>3. \A k \in Workers : job'[k] # w
      BY <1>1, <2>1, <2>2, <2>6
    <3>4. stalled[w] = 0 => Once(w)'
      BY <2>3, <3>1 DEF SingleRun, OneRun
    <3>5. QED
      BY <2>1, <2>2, <2>6, <3>2, <3>3, <3>4 DEF OneRun
  <2>7. QED
    BY <2>5, <2>6 DEF SingleRun
<1>8. ASSUME NEW h \in Handlers, CommitWithdrawal(h) \/ FailInitiate(h)
      PROVE  SingleRun'
  <2>1. /\ pc' = [pc EXCEPT ![h] = "idle"] /\ pc[h] \in AtDesk
        /\ job' = [job EXCEPT ![h] = None]
        /\ UNCHANGED <<queue, stalled>>
        /\ \E s \in {"PENDING", "void"} :
             withdrawal' = [withdrawal EXCEPT ![job[h]] = s]
    BY <1>8 DEF CommitWithdrawal, FailInitiate, Goto, Drop, jobVars
  <2>2. /\ job[h] \in Withdrawals /\ withdrawal[job[h]] = "absent"
        /\ \A k \in Handlers \ {h} : job[k] # job[h]
        /\ h \notin Workers
    BY <1>1, <1>2, <2>1 DEF LocalsAt
  <2>3. /\ withdrawal'[job[h]] \in {"PENDING", "void"}
        /\ \A w \in Withdrawals \ {job[h]} : withdrawal'[w] = withdrawal[w]
    BY <1>1, <2>1, <2>2
  <2>4. /\ pc'[h] = "idle" /\ job'[h] = None
        /\ \A k \in Handlers \ {h} : pc'[k] = pc[k] /\ job'[k] = job[k]
    BY <1>1, <2>1
  <2>5. ASSUME NEW w \in Withdrawals, w # job[h]
        PROVE  (Announced(w) /\ (stalled[w] = 0 => OneRun(w)))'
    BY <1>1, <1>3, <2>1, <2>3, <2>4, <2>5, UntouchedRun
  <2>6. ASSUME NEW w \in Withdrawals, w = job[h]
        PROVE  (Announced(w) /\ (stalled[w] = 0 => OneRun(w)))'
    <3>1. \A k \in Workers : job'[k] # w
      BY <1>1, <2>2, <2>4, <2>6
    <3>2. stalled'[w] = 0 => Once(w)'
      BY <1>3, <2>1 DEF SingleRun, OneRun
    <3>3. QED
      BY <2>3, <2>6, <3>1, <3>2 DEF Announced, OneRun
  <2>7. QED
    BY <2>5, <2>6 DEF SingleRun
<1>9. ASSUME NEW h \in Handlers, h \in Workers, LoseJob(h) PROVE SingleRun'
  <2>1. /\ queue # <<>> /\ queue' = Tail(queue)
        /\ UNCHANGED <<pc, job, withdrawal, stalled>>
    BY <1>9 DEF LoseJob, postingVars, localVars, payoutVars
  <2>2. \A w \in Withdrawals :
          (Queued(w)' => Queued(w)) /\ (Once(w) => Once(w)')
    BY <2>1, QueueHead
  <2>3. QED
    BY <2>1, <2>2 DEF SingleRun, Announced, OneRun
<1>10. ASSUME NEW h \in Handlers, h \in Workers, TakeJob(h) PROVE SingleRun'
  <2> DEFINE v == Head(queue)
  <2>1. /\ pc[h] = "idle" /\ queue # <<>> /\ queue' = Tail(queue)
        /\ UNCHANGED <<withdrawal, stalled>>
        /\ withdrawal[v] \notin {"absent", "void"}
        /\ pc' = [pc EXCEPT ![h] = "payout"]
        /\ job' = [job EXCEPT ![h] = v]
    BY <1>10 DEF TakeJob, Goto
  <2>2. /\ v \in Withdrawals /\ Queued(v)
        /\ \A w \in Withdrawals :
             /\ Queued(w) <=> Queued(w)' \/ w = v
             /\ Once(w) => Once(w)'
             /\ Once(w) /\ w = v => ~ Queued(w)'
    BY <2>1, QueueHead
  <2> HIDE DEF v
  <2>3. /\ pc'[h] = "payout" /\ job'[h] = v /\ job[h] = None
        /\ \A k \in Handlers \ {h} : pc'[k] = pc[k] /\ job'[k] = job[k]
    BY <1>1, <2>1 DEF LocalsAt
  <2>4. ASSUME NEW w \in Withdrawals, w # v
        PROVE  (Announced(w) /\ (stalled[w] = 0 => OneRun(w)))'
    BY <1>1, <2>1, <2>2, <2>3, <2>4, UntouchedRun
  <2>5. ASSUME NEW w \in Withdrawals, w = v
        PROVE  (Announced(w) /\ (stalled[w] = 0 => OneRun(w)))'
    <3>1. Announced(w)'
      BY <2>1, <2>5 DEF Announced
    <3>2. ASSUME stalled[w] = 0 PROVE OneRun(w)'
      <4>1. OneRun(w) /\ Queued(w)
        BY <2>2, <2>5, <3>2 DEF SingleRun
      <4>2. Once(w)' /\ ~ Queued(w)' /\ withdrawal'[w] = "PENDING"
        BY <2>1, <2>2, <2>5, <4>1 DEF OneRun
      <4>3. \A k \in Workers : job'[k] = w => k = h
        BY <1>1, <2>3, <4>1 DEF OneRun
      <4>4. QED
        BY <4>2, <4>3 DEF OneRun
    <3>3. QED
      BY <2>1, <3>1, <3>2
  <2>6. QED
    BY <2>4, <2>5 DEF SingleRun
<1>11. ASSUME NEW h \in Handlers, Refuse(h) \/ CommitPayout(h) \/ Reject(h)
       PROVE  SingleRun'
  <2>1. /\ pc' = [pc EXCEPT ![h] = "ack"]
        /\ UNCHANGED <<job, queue, stalled>>
        /\ pc[h] \in {"refuse", "posted", "reject", "threw"}
        /\ \E ws \in {"INSUFFICIENT_FUNDS", "WAITING_CONFIRMATION", "FAILED"} :
             withdrawal' = [withdrawal EXCEPT ![job[h]] = ws]
    BY <1>11, CommitsConclude
    DEF Refuse, Concludes, WritePayout, Goto, jobVars
  <2>2. /\ job[h] \in Withdrawals /\ h \in Workers
        /\ withdrawal[job[h]] \notin {"absent", "void"}
    BY <1>1, <1>2, <2>1 DEF LocalsAt
  <2>3. /\ withdrawal'[job[h]] # "absent"
        /\ \A w \in Withdrawals \ {job[h]} : withdrawal'[w] = withdrawal[w]
        /\ pc'[h] = "ack"
        /\ \A k \in Handlers \ {h} : pc'[k] = pc[k]
    BY <1>1, <2>1, <2>2
  <2>4. ASSUME NEW w \in Withdrawals, w # job[h]
        PROVE  (Announced(w) /\ (stalled[w] = 0 => OneRun(w)))'
    BY <1>3, <2>1, <2>3, <2>4, UntouchedRun
  <2>5. ASSUME NEW w \in Withdrawals, w = job[h]
        PROVE  (Announced(w) /\ (stalled[w] = 0 => OneRun(w)))'
    <3>1. Announced(w)'
      BY <2>3, <2>5 DEF Announced
    <3>2. ASSUME stalled[w] = 0 PROVE OneRun(w)'
      <4>1. OneRun(w)
        BY <3>2 DEF SingleRun
      <4>2. Once(w)' /\ ~ Queued(w)'
        BY <1>3, <2>1, <2>2, <2>5, <4>1 DEF OneRun
      <4>3. \A k \in Workers : job'[k] = w => k = h
        BY <2>1, <2>2, <2>5, <4>1 DEF OneRun
      <4>4. QED
        BY <2>3, <4>2, <4>3 DEF OneRun
    <3>3. QED
      BY <2>1, <3>1, <3>2
  <2>6. QED
    BY <2>4, <2>5 DEF SingleRun
<1>12. ASSUME NEW h \in Handlers,
              \/ h \in Workers /\ Ack(h)
              \/ RollbackPayout(h) \/ FailPayout(h) \/ Crash(h)
       PROVE  SingleRun'
  <2>1. /\ pc[h] # "idle" /\ h \in Workers
        /\ pc' = [pc EXCEPT ![h] = "idle"]
        /\ job' = [job EXCEPT ![h] = None] /\ UNCHANGED withdrawal
    BY <1>12, EndShape DEF Ack, Goto, Drop, EndRun
  <2>2. /\ job[h] \in Withdrawals
        /\ withdrawal[job[h]] \notin {"absent", "void"}
        /\ pc[h] # "commitWithdrawal"
    <3>1. h \notin Desk
      BY <1>1, <2>1
    <3>2. pc[h] \notin AtDesk
      BY <1>1, <3>1 DEF LocalsAt
    <3>3. QED
      BY <1>1, <1>2, <2>1, <3>2 DEF LocalsAt
  <2>3. /\ pc'[h] = "idle" /\ job'[h] = None
        /\ \A k \in Handlers \ {h} : pc'[k] = pc[k] /\ job'[k] = job[k]
    BY <1>1, <2>1
  <2>4. \/ UNCHANGED <<queue, stalled>>
        \/ /\ queue' = <<job[h]>> \o queue
           /\ stalled' = [stalled EXCEPT ![job[h]] = @ + 1]
    BY <1>12 DEF Ack, RollbackPayout, FailPayout, Crash, GiveUp, Restart, jobVars
  <2>5. CASE UNCHANGED <<queue, stalled>>
    BY <1>1, <1>3, <2>1, <2>2, <2>3, <2>5, UntouchedRun DEF SingleRun
  <2>6. CASE /\ queue' = <<job[h]>> \o queue
             /\ stalled' = [stalled EXCEPT ![job[h]] = @ + 1]
    <3>1. /\ \A w \in Withdrawals : Queued(w)' <=> Queued(w) \/ w = job[h]
          /\ \A w \in Withdrawals : Once(w) /\ w # job[h] => Once(w)'
      BY <2>2, <2>6, QueuePush
    <3>2. /\ stalled'[job[h]] # 0
          /\ \A w \in Withdrawals \ {job[h]} : stalled'[w] = stalled[w]
      BY <1>1, <2>2, <2>6
    <3>3. ASSUME NEW w \in Withdrawals, w # job[h]
          PROVE  (Announced(w) /\ (stalled[w] = 0 => OneRun(w)))'
      BY <1>1, <2>1, <2>3, <3>1, <3>2, <3>3, UntouchedRun
    <3>4. ASSUME NEW w \in Withdrawals, w = job[h]
          PROVE  (Announced(w) /\ (stalled[w] = 0 => OneRun(w)))'
      BY <2>1, <2>2, <3>2, <3>4 DEF Announced
    <3>5. QED
      BY <3>3, <3>4 DEF SingleRun
  <2>7. QED
    BY <2>4, <2>5, <2>6
<1>13. ASSUME NEW h \in Handlers, Ack(h) PROVE h \in Workers
  BY <1>1, <1>13 DEF Ack, Goto, LocalsAt
<1>14. QED
  BY <1>4, <1>5, <1>6, <1>7, <1>8, <1>9, <1>10, <1>11, <1>12, <1>13, JobSteps
  DEF JobMoves

(* A step that would give a withdrawal another outcome belongs to a run    *)
(* that found it pending.                                                  *)
LEMMA OutcomeStep ==
  ASSUME Shape, SingleRun, WithdrawalNext, NEW w \in Withdrawals,
         stalled[w] = 0,
         withdrawal[w] \in {"INSUFFICIENT_FUNDS", "WAITING_CONFIRMATION",
                            "FAILED", "void"}
  PROVE  withdrawal'[w] = withdrawal[w]
<1>1. /\ withdrawal \in [Withdrawals -> WithdrawalStatus]
      /\ \A h \in Handlers : LocalsAt(h)
  BY DEF Shape, HandlersOK, WithdrawalTypeOK
<1>2. ASSUME NEW h \in Handlers, CommitWithdrawal(h) \/ FailInitiate(h)
      PROVE  withdrawal'[w] = withdrawal[w]
  <2>1. /\ pc[h] \in AtDesk
        /\ \E s \in {"PENDING", "void"} :
             withdrawal' = [withdrawal EXCEPT ![job[h]] = s]
    BY <1>2 DEF CommitWithdrawal, FailInitiate, Goto
  <2>2. withdrawal[job[h]] = "absent"
    BY <1>1, <2>1 DEF LocalsAt
  <2>3. w # job[h]
    BY <2>2
  <2>4. QED
    BY <1>1, <2>1, <2>3
<1>3. ASSUME NEW h \in Handlers, Refuse(h) \/ CommitPayout(h) \/ Reject(h)
      PROVE  withdrawal'[w] = withdrawal[w]
  <2>1. /\ pc[h] \in {"refuse", "posted", "reject", "threw"}
        /\ \E s \in {"INSUFFICIENT_FUNDS", "WAITING_CONFIRMATION", "FAILED"} :
             withdrawal' = [withdrawal EXCEPT ![job[h]] = s]
    BY <1>3, CommitsConclude DEF Refuse, Concludes, WritePayout, Goto
  <2>2. h \in Workers
    BY <1>1, <2>1 DEF LocalsAt
  <2>3. w # job[h]
    BY <2>1, <2>2 DEF SingleRun, OneRun
  <2>4. QED
    BY <1>1, <2>1, <2>3
<1>4. QED
  BY <1>2, <1>3, Writers

(* No job has been run.                                                    *)
LEMMA InitSingleRun == WithdrawalInit => SingleRun
<1> SUFFICES ASSUME WithdrawalInit PROVE SingleRun
  OBVIOUS
<1>1. queue = <<>> /\ \A h \in Workers : job[h] = None
  BY WithdrawalAssumption DEF WithdrawalInit, WithdrawalAssumption
<1>2. None \notin Withdrawals
  BY WithdrawalAssumption DEF WithdrawalAssumption
<1>3. QED
  BY <1>1, <1>2 DEF SingleRun, Announced, OneRun, Queued, Once

(* Unless a worker died with its job, the outcome of a withdrawal is final.*)
THEOREM OutcomesAreFinal == WithdrawalSpec => OutcomeIsFinal
<1>1. WithdrawalInit => SingleRun
  BY InitSingleRun
<1>2. Shape /\ SingleRun /\ [WithdrawalNext]_withdrawalVars
        => [\A w \in Withdrawals :
              /\ stalled[w] = 0
              /\ withdrawal[w] \in {"INSUFFICIENT_FUNDS",
                                   "WAITING_CONFIRMATION", "FAILED", "void"}
              => withdrawal'[w] = withdrawal[w]]_withdrawalVars
  BY OutcomeStep
<1>3. QED
  BY <1>1, <1>2, NextSingleRun, ShapeHolds, PTL
  DEF WithdrawalSpec, OutcomeIsFinal

-----------------------------------------------------------------------------
(* When nothing fails, the status, the money and the book agree.           *)

(* A withdrawal nobody is at.                                              *)
Settled(w) ==
  IF Debited(w)
    THEN transfers[w] = 1 /\ \E n : LinesOf(w) = {n}
    ELSE /\ LinesOf(w) = {}
         /\ transfers[w] = 0 \/ (transfers[w] = 1 /\ SentUnrecorded(w))

(* The money left, whether or not the run may still commit.                *)
Sent == Transferred \cup {"aborted"}

(* A withdrawal, at a worker or not; once its money left it is not queued. *)
Exact(w) ==
  /\ (\A h \in Workers : job[h] # w) => Settled(w)
  /\ Queued(w) => transfers[w] = 0
  /\ \A h \in Workers :
       job[h] = w =>
         /\ pc[h] # "threw"
         /\ pc[h] = "aborted" => Amount[w] \in Inexact
         /\ pc[h] = "ack" => Settled(w)
         /\ pc[h] # "ack" =>
              /\ LinesOf(w) = {}
              /\ transfers[w] = IF pc[h] \in Sent THEN 1 ELSE 0

Exactly == \A w \in Withdrawals : stalled[w] = 0 /\ Exact(w)

(* A withdrawal h has nothing to do with.                                  *)
LEMMA ExactElsewhere ==
  ASSUME NEW w \in Withdrawals, Exact(w), NEW h \in Handlers,
         withdrawal'[w] = withdrawal[w], transfers'[w] = transfers[w],
         LinesOf(w)' = LinesOf(w),
         Queued(w)' => Queued(w), w \in failedJobs => w \in failedJobs',
         \A k \in Handlers \ {h} : pc'[k] = pc[k] /\ job'[k] = job[k],
         job[h] # w, job'[h] # w
  PROVE  Exact(w)'
<1>1. Settled(w) => Settled(w)'
  BY DEF Settled, Debited, SentUnrecorded
<1>2. \A k \in Workers : job'[k] = w \/ job[k] = w => pc'[k] = pc[k] /\ job'[k] = job[k]
  BY WithdrawalAssumption DEF WithdrawalAssumption
<1> QED BY <1>1, <1>2 DEF Exact

(* A withdrawal h alone is at, before or after its step.                   *)
LEMMA ExactHere ==
  ASSUME NEW w \in Withdrawals, NEW h \in Workers,
         \A k \in Handlers \ {h} : job'[k] = job[k],
         \A k \in Workers : job[k] = w => k = h,
         job'[h] = w,
         Queued(w)' => transfers'[w] = 0,
         pc'[h] # "threw", pc'[h] = "aborted" => Amount[w] \in Inexact,
         pc'[h] = "ack" => Settled(w)',
         pc'[h] # "ack" =>
           /\ LinesOf(w)' = {}
           /\ transfers'[w] = IF pc'[h] \in Sent THEN 1 ELSE 0
  PROVE  Exact(w)'
<1>1. \A k \in Workers : job'[k] = w => k = h
  BY WithdrawalAssumption DEF WithdrawalAssumption
<1>2. QED
  BY <1>1 DEF Exact

(* The steps of a desk are no business of a withdrawal at a worker.        *)
LEMMA ExactDesk ==
  ASSUME Shape, Exactly, NEW h \in Handlers \ Workers,
         \A k \in Handlers \ {h} : pc'[k] = pc[k] /\ job'[k] = job[k],
         \A w \in Withdrawals :
           \/ withdrawal'[w] = withdrawal[w]
           \/ withdrawal[w] = "absent" /\ withdrawal'[w] # "WAITING_CONFIRMATION",
         \A w \in Withdrawals : Queued(w)' => Queued(w) \/ withdrawal[w] = "absent",
         UNCHANGED <<walletTransactions, requestFor, transfers, stalled,
                     failedJobs>>
  PROVE  Exactly'
<1>1. \A k \in Workers : pc'[k] = pc[k] /\ job'[k] = job[k]
  BY WithdrawalAssumption DEF WithdrawalAssumption
<1>2. \A w \in Withdrawals : LinesOf(w)' = LinesOf(w)
  BY DEF LinesOf
<1>3. ASSUME NEW w \in Withdrawals PROVE Exact(w)'
  <2>1. Exact(w)
    BY DEF Exactly
  <2>2. Settled(w) => Settled(w)'
    BY <1>2 DEF Settled, Debited, SentUnrecorded
  <2>3. ASSUME withdrawal[w] = "absent" PROVE transfers[w] = 0
    <3>1. \A k \in Workers : job[k] # w
      BY <2>3, WithdrawalAssumption
      DEF Shape, HandlersOK, LocalsAt, WithdrawalAssumption
    <3> QED BY <2>1, <2>3, <3>1 DEF Exact, Settled, Debited, SentUnrecorded
  <2>4. Queued(w)' => transfers'[w] = 0
    BY <2>1, <2>3 DEF Exact
  <2>5. QED
    BY <1>1, <1>2, <2>1, <2>2, <2>4 DEF Exact
<1>4. QED
  BY <1>3 DEF Exactly

(* The look-up of a payout finds nothing: its request is new.              *)
LEMMA NothingFound ==
  ASSUME Shape, NEW h \in Handlers, pc[h] \in Paying
  PROVE  ~ HasTransaction(doing[h])
<1>1. /\ doing[h] # None /\ OwnRequest(h)
      /\ \A i \in DOMAIN transactions :
           request[transactions[i].request].status # "absent"
  BY PostingAssumption DEF Shape, HandlersOK, LocalsAt, BooksOK, Debits,
     PostingAssumption
<1>2. QED
  BY <1>1 DEF OwnRequest, HasTransaction

(* No step without a fault breaks the agreement.                           *)
LEMMA NextExactly ==
  ASSUME Faults = {}, Shape, SingleRun, Exactly, [WithdrawalNext]_withdrawalVars
  PROVE  Exactly'
<1>1. /\ pc \in [Handlers -> WithdrawalStates]
      /\ withdrawal \in [Withdrawals -> WithdrawalStatus]
      /\ job \in [Handlers -> Withdrawals \cup {None}]
      /\ transfers \in [Withdrawals -> Nat]
      /\ Workers \subseteq Handlers /\ Desk \cap Workers = {}
      /\ None \notin Withdrawals
      /\ \A h \in Handlers : LocalsAt(h)
  BY WithdrawalAssumption DEF Shape, HandlersOK, WithdrawalTypeOK,
     PostingTypeOK, WithdrawalAssumption
<1>2. /\ \A w \in Withdrawals : stalled[w] = 0 /\ Exact(w) /\ OneRun(w)
      /\ \A h \in Handlers : pc[h] # "idle" => job[h] \in Withdrawals
  BY HasJob DEF Exactly, SingleRun
<1>3. ASSUME UNCHANGED <<pc, job, withdrawal, walletTransactions, requestFor,
                         transfers, stalled>>,
             \A w \in Withdrawals : /\ Queued(w)' => Queued(w)
                                    /\ w \in failedJobs => w \in failedJobs'
      PROVE  Exactly'
  <2>1. \A w : LinesOf(w)' = LinesOf(w)
    BY <1>3 DEF LinesOf
  <2>2. \A w \in Withdrawals : Settled(w) => Settled(w)'
    BY <1>3, <2>1 DEF Settled, Debited, SentUnrecorded
  <2>3. ASSUME NEW w \in Withdrawals PROVE Exact(w)'
    BY <1>2, <1>3, <2>1, <2>2 DEF Exact
  <2>4. QED
    BY <1>2, <1>3, <2>3 DEF Exactly
(* A step of worker h with its withdrawal, which no other worker is at.    *)
<1>4. ASSUME NEW h \in Workers, job[h] \in Withdrawals, job' = job,
             \A k \in Handlers \ {h} : pc'[k] = pc[k],
             UNCHANGED <<stalled, queue, failedJobs>>, pc[h] # "ack",
             \A w \in Withdrawals \ {job[h]} :
               /\ withdrawal'[w] = withdrawal[w] /\ transfers'[w] = transfers[w]
               /\ LinesOf(w)' = LinesOf(w),
             pc'[h] # "threw", pc'[h] = "aborted" => Amount[job[h]] \in Inexact,
             \A w \in Withdrawals :
               w = job[h] =>
                 /\ pc'[h] = "ack" => Settled(w)'
                 /\ pc'[h] # "ack" =>
                      /\ LinesOf(w)' = {}
                      /\ transfers'[w] = IF pc'[h] \in Sent THEN 1 ELSE 0
      PROVE  Exactly'
  <2>0. \A w : Queued(w)' <=> Queued(w)
    BY <1>4 DEF Queued
  <2>1. ASSUME NEW w \in Withdrawals, w # job[h] PROVE Exact(w)'
    BY <1>1, <1>2, <1>4, <2>0, <2>1, ExactElsewhere
  <2>2. ASSUME NEW w \in Withdrawals, w = job[h] PROVE Exact(w)'
    <3>1. (\A k \in Workers : job[k] = w => k = h) /\ ~ Queued(w)
      BY <1>2, <1>4, <2>2 DEF OneRun
    <3>2. QED
      BY <1>4, <2>0, <2>2, <3>1, ExactHere
  <2>3. QED
    BY <1>2, <1>4, <2>1, <2>2 DEF Exactly
<1>5. ASSUME NEW h \in Workers, pc[h] # "idle", pc[h] # "ack"
      PROVE  /\ job[h] \in Withdrawals
             /\ withdrawal[job[h]] = "PENDING" /\ ~ Queued(job[h])
             /\ pc[h] # "threw"
             /\ pc[h] = "aborted" => Amount[job[h]] \in Inexact
             /\ LinesOf(job[h]) = {}
             /\ transfers[job[h]] = IF pc[h] \in Sent THEN 1 ELSE 0
             /\ \A k \in Workers : job[k] = job[h] => k = h
  BY <1>1, <1>2, <1>5 DEF Exact, OneRun
<1>6. ASSUME NEW h \in Handlers, NEW w \in Withdrawals, InitiateWithdrawal(h, w)
      PROVE  Exactly'
  <2>1. /\ h \in Desk /\ pc' = [pc EXCEPT ![h] = "enqueue"]
        /\ job' = [job EXCEPT ![h] = w]
        /\ UNCHANGED <<withdrawal, walletTransactions, requestFor, transfers,
                       stalled, queue, failedJobs>>
    BY <1>6 DEF InitiateWithdrawal, Goto, ledgerVars, jobVars
  <2>2. \A v : Queued(v)' <=> Queued(v) BY <2>1 DEF Queued
  <2>3. QED
    BY <1>1, <2>1, <2>2, ExactDesk
<1>7. ASSUME NEW h \in Handlers, DeskStep(h) PROVE Exactly'
  <2>1. /\ pc[h] \in AtDesk
        /\ \E to \in {"idle", "commitWithdrawal"} : pc' = [pc EXCEPT ![h] = to]
        /\ job' = job \/ job' = [job EXCEPT ![h] = None]
        /\ \/ withdrawal' = withdrawal
           \/ withdrawal' = [withdrawal EXCEPT ![job[h]] = "PENDING"]
        /\ queue' = queue \/ queue' = Append(queue, job[h])
        /\ UNCHANGED <<walletTransactions, requestFor, transfers, stalled,
                       failedJobs>>
    BY <1>7 DEF DeskStep, Enqueue, CommitWithdrawal, Drop, Goto, ledgerVars,
       jobVars, payoutVars
  <2>2. h \notin Workers /\ withdrawal[job[h]] = "absent"
    BY <1>1, <2>1 DEF LocalsAt
  <2>3. \A k \in Handlers \ {h} : pc'[k] = pc[k] /\ job'[k] = job[k]
    BY <1>1, <2>1
  <2>4. \A w \in Withdrawals :
          \/ withdrawal'[w] = withdrawal[w]
          \/ withdrawal[w] = "absent" /\ withdrawal'[w] # "WAITING_CONFIRMATION"
    BY <1>1, <2>1, <2>2
  <2>5. \A w \in Withdrawals : Queued(w)' => Queued(w) \/ withdrawal[w] = "absent"
    <3>1. CASE queue' = queue BY <3>1 DEF Queued
    <3>2. CASE queue' = Append(queue, job[h])
      <4>1. job[h] \in Withdrawals BY <1>2, <2>1 DEF AtDesk
      <4> QED BY <2>2, <3>2, <4>1, QueueAppend
    <3> QED BY <2>1, <3>1, <3>2
  <2>6. QED
    BY <2>1, <2>2, <2>3, <2>4, <2>5, ExactDesk
<1>8. ASSUME NEW h \in Workers, LoseJob(h) PROVE Exactly'
  <2>1. /\ UNCHANGED <<pc, job, withdrawal, walletTransactions, requestFor,
                       transfers, stalled>>
        /\ failedJobs \subseteq failedJobs'
        /\ queue # <<>> /\ queue' = Tail(queue)
    BY <1>8 DEF LoseJob, postingVars, localVars, ledgerVars, payoutVars
  <2>2. \A w \in Withdrawals : Queued(w)' => Queued(w) BY <2>1, QueueHead
  <2> QED BY <1>3, <2>1, <2>2
<1>9. ASSUME NEW h \in Workers, TakeJob(h) PROVE Exactly'
  <2>1. PICK v : v = Head(queue)
    OBVIOUS
  <2>2. /\ pc[h] = "idle" /\ queue # <<>> /\ queue' = Tail(queue)
        /\ withdrawal[v] \notin {"absent", "void"}
        /\ pc' = [pc EXCEPT ![h] = "payout"] /\ job' = [job EXCEPT ![h] = v]
        /\ UNCHANGED <<withdrawal, walletTransactions, requestFor, transfers,
                       stalled, failedJobs>>
    BY <1>9, <2>1 DEF TakeJob, Goto, ledgerVars
  <2>3. /\ v \in Withdrawals /\ Queued(v)
        /\ \A w \in Withdrawals : Queued(w)' => Queued(w)
    BY <2>1, <2>2, QueueHead
  <2>4. /\ withdrawal[v] = "PENDING" /\ \A k \in Workers : job[k] # v
        /\ transfers[v] = 0 /\ LinesOf(v) = {}
    BY <1>2, <2>2, <2>3 DEF OneRun, Exact, Settled, Debited
  <2>5. /\ pc'[h] = "payout" /\ job'[h] = v /\ job[h] = None
        /\ \A k \in Handlers \ {h} : pc'[k] = pc[k] /\ job'[k] = job[k]
        /\ \A w \in Withdrawals : LinesOf(w)' = LinesOf(w)
    BY <1>1, <2>2 DEF LocalsAt, LinesOf
  <2>6. ASSUME NEW w \in Withdrawals, w # v PROVE Exact(w)'
    BY <1>1, <1>2, <2>2, <2>3, <2>5, <2>6, ExactElsewhere
  <2>7. Exact(v)'
    BY <2>2, <2>3, <2>4, <2>5, ExactHere DEF Sent
  <2>8. QED
    BY <1>2, <2>2, <2>6, <2>7 DEF Exactly
<1>10. ASSUME NEW h \in Workers,
              \/ Payout(h) \/ TransferRefused(h) \/ SaveWithdrawal(h)
              \/ PostingStep(h) /\ UNCHANGED <<jobVars, payoutVars>>
       PROVE  Exactly'
  <2>1. UNCHANGED <<withdrawal, job, walletTransactions, requestFor, transfers,
                    stalled, queue, failedJobs>>
    BY <1>10 DEF Payout, TransferRefused, SaveWithdrawal, PostingStep,
       CheckNoTransaction, InsertTransaction, CreateWalletTransaction,
       SaveWallet, ledgerVars, jobVars, payoutVars
  <2>2. pc[h] \in {"check", "insert"} =>
          ~ HasTransaction(doing[h]) /\ answer[h].amount = Amount[job[h]]
    BY <1>1, NothingFound DEF LocalsAt
  <2>3. PICK to \in WithdrawalStates \ {"ack", "threw"} :
          /\ pc[h] \notin {"idle", "ack"} /\ pc' = [pc EXCEPT ![h] = to]
          /\ to \in Sent <=> pc[h] \in Sent
          /\ to = "aborted" => Amount[job[h]] \in Inexact
    <3>1. CASE Payout(h)
      <4>1. pc[h] = "payout" /\ \E to \in {"refuse", "noBank", "transfer"} :
                                  pc' = [pc EXCEPT ![h] = to]
        BY <3>1 DEF Payout, Goto
      <4> QED BY <4>1 DEF Sent
    <3>2. CASE InsertTransaction(h)
      <4>1. CASE Goto(h, "insert", "aborted") /\ ~ IsWhole(h)
        <5>1. pc[h] = "insert" /\ pc' = [pc EXCEPT ![h] = "aborted"]
          BY <4>1 DEF Goto
        <5>2. Amount[job[h]] \in Inexact BY <2>2, <4>1, <5>1 DEF IsWhole
        <5>3. /\ "aborted" \in WithdrawalStates \ {"ack", "threw"}
              /\ "aborted" \in Sent /\ "insert" \in Sent
          BY DEF Sent
        <5> QED BY <5>1, <5>2, <5>3
      <4>2. CASE Goto(h, "insert", "wallet")
        <5>1. pc[h] = "insert" /\ pc' = [pc EXCEPT ![h] = "wallet"]
          BY <4>2 DEF Goto
        <5>2. /\ "wallet" \in WithdrawalStates \ {"ack", "threw"}
              /\ "wallet" \in Sent /\ "insert" \in Sent
          BY DEF Sent
        <5> QED BY <5>1, <5>2
      <4>3. pc[h] = "insert" => ~ HasTransaction(doing[h])
        BY <2>2
      <4> QED BY <3>2, <4>1, <4>2, <4>3 DEF InsertTransaction, Goto
    <3>3. CASE \/ TransferRefused(h) \/ SaveWithdrawal(h) \/ CheckNoTransaction(h)
               \/ CreateWalletTransaction(h) \/ SaveWallet(h)
      BY <2>2, <3>3 DEF TransferRefused, SaveWithdrawal, CheckNoTransaction,
         CreateWalletTransaction, SaveWallet, Goto, Sent
    <3> QED BY <1>10, <3>1, <3>2, <3>3 DEF PostingStep
  <2>4. \A w \in Withdrawals : LinesOf(w)' = LinesOf(w)
    BY <2>1 DEF LinesOf
  <2>5. pc'[h] = to /\ \A k \in Handlers \ {h} : pc'[k] = pc[k]
    BY <1>1, <2>3
  <2>6. QED
    BY <1>4, <1>5, <2>1, <2>3, <2>4, <2>5
<1>11. ASSUME NEW h \in Workers, TransferDone(h) PROVE Exactly'
  <2>1. /\ pc[h] = "transfer" /\ pc' = [pc EXCEPT ![h] = "saveWithdrawal"]
        /\ transfers' = [transfers EXCEPT ![job[h]] = @ + 1]
        /\ UNCHANGED <<withdrawal, job, walletTransactions, requestFor, stalled,
                       queue, failedJobs>>
    BY <1>11 DEF TransferDone, Goto, ledgerVars, jobVars
  <2>2. \A w \in Withdrawals : LinesOf(w)' = LinesOf(w)
    BY <2>1 DEF LinesOf
  <2>3. /\ pc'[h] = "saveWithdrawal" /\ \A k \in Handlers \ {h} : pc'[k] = pc[k]
        /\ job[h] \in Withdrawals /\ transfers[job[h]] = 0
        /\ LinesOf(job[h]) = {}
    BY <1>1, <1>5, <2>1 DEF Sent
  <2>4. /\ transfers'[job[h]] = 1
        /\ \A w \in Withdrawals \ {job[h]} : transfers'[w] = transfers[w]
    BY <1>1, <2>1, <2>3
  <2>5. QED
    BY <1>4, <2>1, <2>2, <2>3, <2>4 DEF Sent
<1>12. ASSUME NEW h \in Workers, Refuse(h) PROVE Exactly'
  <2>1. /\ pc[h] = "refuse" /\ pc' = [pc EXCEPT ![h] = "ack"]
        /\ withdrawal' = [withdrawal EXCEPT ![job[h]] = "INSUFFICIENT_FUNDS"]
        /\ UNCHANGED <<job, walletTransactions, requestFor, transfers, stalled,
                       queue, failedJobs>>
    BY <1>12 DEF Refuse, Goto, ledgerVars, jobVars
  <2>2. \A w \in Withdrawals : LinesOf(w)' = LinesOf(w)
    BY <2>1 DEF LinesOf
  <2>3. /\ pc'[h] = "ack" /\ \A k \in Handlers \ {h} : pc'[k] = pc[k]
        /\ job[h] \in Withdrawals /\ transfers[job[h]] = 0
        /\ LinesOf(job[h]) = {}
    BY <1>1, <1>5, <2>1 DEF Sent
  <2>4. /\ withdrawal'[job[h]] = "INSUFFICIENT_FUNDS"
        /\ \A w \in Withdrawals \ {job[h]} : withdrawal'[w] = withdrawal[w]
    BY <1>1, <2>1, <2>3
  <2>5. ASSUME NEW w \in Withdrawals, w = job[h] PROVE Settled(w)'
    <3>1. withdrawal'[w] = "INSUFFICIENT_FUNDS" /\ transfers'[w] = 0 /\ LinesOf(w)' = {}
      BY <2>1, <2>2, <2>3, <2>4, <2>5
    <3> QED BY <3>1 DEF Settled, Debited
  <2>6. QED
    BY <1>4, <2>1, <2>2, <2>3, <2>4, <2>5
<1>13. ASSUME NEW h \in Workers, CommitPayout(h) \/ Reject(h) PROVE Exactly'
  <2>1. PICK ws \in {"WAITING_CONFIRMATION", "FAILED"}, rs \in PaymentStatus :
          /\ Concludes(h, rs, ws) /\ pc[h] \in Paying
          /\ ws = "WAITING_CONFIRMATION" => pc[h] = "posted"
          /\ ws = "FAILED" => pc[h] \in {"reject", "threw"}
    BY <1>13 DEF CommitPayout, Reject, Concludes, Goto
  <2>2. /\ pc' = [pc EXCEPT ![h] = "ack"]
        /\ UNCHANGED <<job, transfers, stalled, queue, failedJobs>>
    BY <2>1 DEF Concludes, WritePayout, jobVars
  <2>3. /\ pc'[h] = "ack" /\ \A k \in Handlers \ {h} : pc'[k] = pc[k]
        /\ job[h] \in Withdrawals /\ LinesOf(job[h]) = {}
        /\ transfers[job[h]] = IF ws = "WAITING_CONFIRMATION" THEN 1 ELSE 0
        /\ ws = "FAILED" => pc[h] = "reject"
    BY <1>1, <1>5, <2>1, <2>2 DEF Sent
  <2>4. /\ \A w \in Withdrawals \ {job[h]} :
             withdrawal'[w] = withdrawal[w] /\ LinesOf(w)' = LinesOf(w)
        /\ withdrawal'[job[h]] = ws
        /\ \A w \in Withdrawals :
             w = job[h] => LinesOf(w)' = IF ws = "WAITING_CONFIRMATION"
                                           THEN {Len(walletTransactions) + 1}
                                           ELSE {}
    BY <1>1, <2>1, <2>3, CommitWrites
  <2>5. ASSUME NEW w \in Withdrawals, w = job[h] PROVE Settled(w)'
    <3>1. /\ withdrawal'[w] = ws
          /\ transfers'[w] = IF ws = "WAITING_CONFIRMATION" THEN 1 ELSE 0
          /\ LinesOf(w)' = IF ws = "WAITING_CONFIRMATION"
                             THEN {Len(walletTransactions) + 1}
                             ELSE {}
      BY <2>2, <2>3, <2>4, <2>5
    <3> QED BY <2>1, <3>1 DEF Settled, Debited
  <2>6. QED
    BY <1>4, <2>1, <2>2, <2>3, <2>4, <2>5
<1>14. ASSUME NEW h \in Workers, Ack(h) PROVE Exactly'
  <2>1. /\ pc[h] = "ack" /\ pc' = [pc EXCEPT ![h] = "idle"]
        /\ job' = [job EXCEPT ![h] = None]
        /\ UNCHANGED <<withdrawal, walletTransactions, requestFor, transfers,
                       stalled, queue, failedJobs>>
    BY <1>14 DEF Ack, Goto, Drop, ledgerVars, jobVars
  <2>2. /\ job'[h] = None /\ job[h] \in Withdrawals
        /\ \A k \in Handlers \ {h} : pc'[k] = pc[k] /\ job'[k] = job[k]
        /\ \A w \in Withdrawals :
             LinesOf(w)' = LinesOf(w) /\ (Queued(w)' <=> Queued(w))
    BY <1>1, <1>2, <2>1 DEF LinesOf, Queued
  <2>3. ASSUME NEW w \in Withdrawals, w # job[h] PROVE Exact(w)'
    BY <1>1, <1>2, <2>1, <2>2, <2>3, ExactElsewhere
  <2>4. ASSUME NEW w \in Withdrawals, w = job[h] PROVE Exact(w)'
    <3>1. Settled(w) /\ \A k \in Workers : job[k] = w => k = h
      BY <1>2, <2>1, <2>4 DEF Exact, OneRun
    <3>2. Settled(w)' /\ (Queued(w)' => transfers'[w] = 0)
      BY <1>2, <2>1, <2>2, <3>1 DEF Settled, Debited, SentUnrecorded, Exact
    <3>3. \A k \in Workers : job'[k] # w
      BY <1>1, <2>2, <2>4, <3>1
    <3>4. QED
      BY <3>2, <3>3 DEF Exact
  <2>5. QED
    BY <1>2, <2>1, <2>3, <2>4 DEF Exactly
<1>15. ASSUME NEW h \in Workers, RollbackPayout(h) PROVE Exactly'
  <2>1. /\ pc[h] \in {"noBank", "aborted"} /\ pc' = [pc EXCEPT ![h] = "idle"]
        /\ job' = [job EXCEPT ![h] = None]
        /\ failedJobs' = failedJobs \cup {job[h]}
        /\ UNCHANGED <<withdrawal, walletTransactions, requestFor, transfers,
                       stalled, queue>>
    BY <1>15 DEF RollbackPayout, EndRun, RollbackPosting, Drop, GiveUp, Goto, ledgerVars
  <2>2. /\ job'[h] = None /\ job[h] \in Withdrawals
        /\ \A k \in Handlers \ {h} : pc'[k] = pc[k] /\ job'[k] = job[k]
        /\ \A w \in Withdrawals :
             LinesOf(w)' = LinesOf(w) /\ (Queued(w)' <=> Queued(w))
    BY <1>1, <1>2, <2>1 DEF LinesOf, Queued
  <2>3. ASSUME NEW w \in Withdrawals, w # job[h] PROVE Exact(w)'
    BY <1>1, <1>2, <2>1, <2>2, <2>3, ExactElsewhere
  <2>4. ASSUME NEW w \in Withdrawals, w = job[h] PROVE Exact(w)'
    <3>1. /\ withdrawal[w] = "PENDING" /\ ~ Queued(w) /\ LinesOf(w) = {}
          /\ transfers[w] = 0 \/ (transfers[w] = 1 /\ Amount[w] \in Inexact)
          /\ \A k \in Workers : job[k] = w => k = h
      BY <1>5, <2>1, <2>4 DEF Sent
    <3>2. Settled(w)' /\ ~ Queued(w)'
      <4>1. /\ withdrawal'[w] = "PENDING" /\ LinesOf(w)' = {} /\ w \in failedJobs'
            /\ transfers'[w] = 0 \/ (transfers'[w] = 1 /\ Amount[w] \in Inexact)
            /\ ~ Queued(w)'
        BY <2>1, <2>2, <2>4, <3>1
      <4> QED BY <4>1 DEF Settled, Debited, SentUnrecorded
    <3>3. \A k \in Workers : job'[k] # w
      BY <1>1, <2>2, <2>4, <3>1
    <3>4. QED
      BY <3>2, <3>3 DEF Exact
  <2>5. QED
    BY <1>2, <2>1, <2>3, <2>4 DEF Exactly
<1>16. CASE UNCHANGED withdrawalVars
  BY <1>3, <1>16 DEF withdrawalVars, postingVars, localVars, ledgerVars,
     jobVars, payoutVars, Queued
<1>17. ASSUME NEW h \in Handlers, WorkerStep(h) PROVE Exactly'
  BY <1>8, <1>9, <1>10, <1>11, <1>12, <1>13, <1>14, <1>15, <1>17 DEF WorkerStep
<1>18. \A h \in Handlers : ~ WithdrawalFault(h)
  BY DEF WithdrawalFault, FailInitiate, TransferUnanswered, FailPayout, Crash
<1>19. QED
  BY <1>6, <1>7, <1>16, <1>17, <1>18 DEF WithdrawalNext, AtRest

(* If no fault happens, a withdrawal no worker is at was debited once if it*)
(* says that it waits for confirmation and else not at all, its money left *)
(* at most once, and if it left, the withdrawal says so, or its amount is  *)
(* one that comes back with a fraction, it is pending and its job failed:  *)
(* with any number of workers and withdrawals, refused transfers, wallets  *)
(* without a bank and inexact amounts among them, and whether or not the   *)
(* gateway knows a transfer again.                                         *)
THEOREM TransfersMatchStatus ==
  ASSUME Faults = {}
  PROVE  WithdrawalSpec => []TransferMatchesStatus
<1>1. WithdrawalInit => SingleRun
  BY InitSingleRun
<1>2. WithdrawalInit => Exactly
  <2> SUFFICES ASSUME WithdrawalInit, NEW w \in Withdrawals
               PROVE  stalled[w] = 0 /\ Exact(w)
    BY DEF Exactly
  <2>1. /\ stalled[w] = 0 /\ transfers[w] = 0 /\ withdrawal[w] = "absent"
        /\ LinesOf(w) = {} /\ ~ Queued(w)
    BY DEF WithdrawalInit, PostingInit, LinesOf, Queued
  <2>2. \A h \in Workers : job[h] # w
    BY WithdrawalAssumption DEF WithdrawalInit, WithdrawalAssumption
  <2>3. QED
    BY <2>1, <2>2 DEF Exact, Settled, Debited
<1>3. Exactly => TransferMatchesStatus
  <2> SUFFICES ASSUME Exactly, NEW w \in Withdrawals, \A h \in Workers : job[h] # w
               PROVE  /\ Cardinality(LinesOf(w)) = IF Debited(w) THEN 1 ELSE 0
                      /\ transfers[w] <= 1
                      /\ Debited(w) => transfers[w] = 1
                      /\ transfers[w] = 1 => Debited(w) \/ SentUnrecorded(w)
    BY DEF TransferMatchesStatus
  <2>1. Settled(w)
    BY DEF Exactly, Exact
  <2>2. Cardinality({}) = 0 /\ \A n : Cardinality({n}) = 1
    BY FS_EmptySet, FS_Singleton
  <2>3. CASE Debited(w)
    <3>1. transfers[w] = 1 /\ \E n : LinesOf(w) = {n}
      BY <2>1, <2>3 DEF Settled
    <3>2. Cardinality(LinesOf(w)) = 1 BY <2>2, <3>1, Zenon
    <3> QED BY <2>3, <3>1, <3>2
  <2>4. CASE ~ Debited(w)
    BY <2>1, <2>2, <2>4 DEF Settled
  <2> QED BY <2>3, <2>4
<1>4. Shape /\ SingleRun /\ Exactly /\ [WithdrawalNext]_withdrawalVars => Exactly'
  BY NextExactly
<1>5. QED
  BY <1>1, <1>2, <1>3, <1>4, NextSingleRun, ShapeHolds, PTL DEF WithdrawalSpec
=============================================================================
