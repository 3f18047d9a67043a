# Formal models of the Asobooks API

Asobooks is the back end (NestJS, TypeORM on PostgreSQL, Bull on Redis) with which
associations bill their members, collect the payments through a payment gateway
(Flutterwave) into a wallet, and withdraw from that wallet. These are TLA+ models
of it, checked with TLC and, where marked, proved with TLAPS.

Paths below are relative to the repository root. The application is `src/`, the
gateway library `libs/payment/src/`.

## 1. The system

Two kinds of process share one database and one Redis: the API (`src/main.ts`) and
the worker (`src/worker.ts`), which runs the Bull processors for mails,
subscriptions, bills and wallet withdrawals. docker-compose starts one of each;
nothing in the code enforces that. Inside a process handlers interleave at every
`await`. Writes that belong together go through the entity manager of
`connection.transaction(...)`; most reads in those transactions go through
`this.connection`, that is, through *another* pooled session at READ COMMITTED: they
see committed rows only and take no lock. Much of what is hard here follows from
that one habit.

### Components

| component | state | operations | talks to | what makes it correct |
|---|---|---|---|---|
| Payment settlement (`payment-request`, `payment-transaction`, `wallet`, `wallet-transaction`, `invoice`, `bill` services) | payment_request, payment_transaction, wallet, wallet_transaction, invoice, bill, subscription rows | initiate, validatePayment, confirmPayment and the pipeline below it, create invoice | browser callback, gateway, database | one transaction per request; request, transaction, wallet line and invoice agree; the balance moves by what was paid |
| Wallet withdrawal (`wallet-withdrawal`, `payment-request` services, the processor) | wallet_withdrawal rows, the queue, the gateway's transfers | initiateWithdrawal, process, payout | API to queue to worker to gateway | a debit for each transfer, no overdraft, an outcome for each withdrawal, final once given |
| Payments of one wallet | the wallet row both sides write, and its bank account | the two above, updateAssociation | | the wallet is what its lines say |
| Payment gateway library (`libs/payment`) | none | initiate, verify, withdraw | Flutterwave | answers carry amount and status |
| Reports (bill, subscription, wallet-transaction queries, dashboard) | none: functions of the rows above | searches, lists, sums | | every screen tells the same of one payment |
| Billing (`subscription`, `bill`, `service-fee` services and two processors) | service_fee, subscription, bill rows, two queues | create fee, subscription job, bill job | scheduler, queues | one subscription per fee, one bill per member and subscription, totals within the bills |
| Groups (`group`, `group-service-fee`) | group, group_membership, group_service_fee | create, add and remove members, who is billed for a fee | bill job | a member once per group, the screens show whom the jobs bill |
| Roles and permissions | role, role_permission, membership_role rows | create, delete, assign, remove, update; who may do what | | one role per name, all screens and the permission query agree |
| Members and accounts (`user-management`, `authentication`, `bearer-token`, `membership`) | portal_user, membership_info, portal_account, membership rows, tokens | sign-up, verify, reset, change password, profile, add, edit and delete members, login, member lists | mail events | a status only moves forward, a token is good for the state it was made for |
| Association onboarding | association, wallet, bank_info | create, update | | one wallet per association |
| Connection pool | pooled sessions | transaction, query | everything | no wait for ever |
| Sequences | database sequences | next | | unique by `nextval` |
| Files, mails, start-up | none, or seed data | | | |

### What is hard

- **Reads outside the transaction that writes.** `topUpWallet` (`wallet.service.ts:40`)
  reads the wallet in another session, computes the new balance in JavaScript and
  saves it as an absolute value. Groups, roles, users and associations are changed the
  same way: looked up, then saved as they were read.
- **Races on one request.** The browser comes back to `/payments/confirm` as often as
  it likes. What keeps a request from being booked twice is a combination of three
  things: the row lock of a save, a look-up after it, a unique index.
- **Effects no transaction covers.** The transfer at the gateway is made in the middle
  of a transaction, the job is queued before the row it names is committed, the
  catch block of `payout` commits a failure whatever it was that failed, and one handler
  answers before its saves have begun.
- **Workers that die.** Bull runs a stalled job again, and `payout` does not look at
  the status of the withdrawal it is given.
- **Objects and connections shared by parallel transactions.** All bills of a job are
  created at once, add to one total, and each needs two connections of one pool.
- **Statuses in several tables.** User, info, membership, account, role and permission have a
  status each; every query asks some of them, every handler sets some of them.

The full list, each at its line, is `hazards` in `PROJECT.json`.

## 2. Modules

```
WalletLedger            what a wallet promises (abstract), and its theorem
   ^ implemented by
Posting                 createPaymentTransaction -> topUpWallet -> createWalletTransaction
   ^ extended by
Settlement, Withdrawal  money in, money out
   ^ both extended by
Payments                the two, and changes of the bank account, on the wallet they share
Reports                 (extends Settlement) what the screens tell of payments

FeeGroups               service fees and the groups they are billed to
   ^ extended by
Billing                 subscription and bill jobs on the connections of a worker
   ^ extended by
Recipients              what the screens tell of fees and of who is billed

Accounts                users, memberships, accounts, associations
   ^ extended by
Directory               what the login and the member screens tell of them

Roles                   roles, permissions and who has them

MC*                     instances for TLC

Sums                    lemmas about sums over finite sets
SettlementProofs, WithdrawalProofs, PaymentsProofs   theorems about money
BillingProofs, AccountsProofs, RolesProofs           theorems about the rest
                        (SettlementProofs extends Reports, BillingProofs Recipients,
                        AccountsProofs Directory; the first two also extend Sums)
```

`MCSettlement` extends `Reports`, `MCBilling` extends `Recipients` and `MCAccounts` extends
`Directory`: the queries are checked in the states the handlers produce.

### Payments

| module | models | correspondence |
|---|---|---|
| `WalletLedger` | the promise of `topUpWallet`: each request posted at most once, the balance moving by the amount of the line | `book` is wallet_transaction, `balance` is `wallet.availableBalanceInMinorUnits`, `Post` is the whole pipeline in one step |
| `Posting` | the pipeline itself | a *handler* is one run of it. `pc[h]` names the await it stands at; `inserted`, `entries`, `answer` are its uncommitted rows and locals; `requestLock`, `walletLock` are row locks of uncommitted UPDATEs. `CheckNoTransaction` is the look-up, `InsertTransaction` waits on and fails on the unique index of `paymentRequestId`, and fails on an amount with a fraction (`IsWhole`), `CreateWalletTransaction` reads the wallet and builds its row from what it read, `SaveWallet` takes the wallet row. `CommitPosting`/`RollbackPosting` end the transaction |
| `Settlement` | `PaymentRequestController.confirmPayment`, `validatePayment`, `confirmPayment`, `initiate`, `createInvoice`, `updateInvoice`, `updateBill` | one action per await, `SaveRequest` with the comparison of the amounts and the UPDATE an amount with a fraction is refused for, `CommitSettlement` for the updates of invoice, bills and subscriptions with the commit: every other confirmation that could touch those tables waits for the wallet row by then. The gateway answers each call with any amount of `Amounts` and any status of `Verdicts`. Invoices are created at any moment (`CreateInvoice`): they group all bills named, paid or not, and ask for the amounts of those not paid at that moment (`Price` is the amount of a fee, which its bills copy) and a surcharge |
| `Withdrawal` | `initiateWithdrawal`, the queue, `WalletWithdrawalProcessor.process`, `payout` | `queue`, `failedJobs`, `stalled` are Bull's; `transfers[w]` is what really left the account at the gateway; `funds[h]` is the balance loaded together with the withdrawal. `Reject` is the catch block, `RollbackPayout` the two failures that get past it without any fault (no bank account, one of `Bankless`; an INSERT that is refused, after which the saves of the catch block are as well), `Crash`/`Restart` the death of a worker and Bull's stalled check. A run takes `NewRequest`, some unused request: which one nothing tells apart |
| `Payments` | both at once, and `updateAssociation` where it writes the wallet | `MoneyIn`, `MoneyOut` and `ChangeBank` interleave; the wallet row, its lock and its lines are the state they share. `change` is the change of the bank account: `CompareWallet` is the SELECT by which `save` finds out which columns differ, `SaveBank` its UPDATE |
| `Reports` | the bill searches (`BillRows` is their LEFT JOIN), subscriptions with their summaries, the contribution graph, dashboard, wallet screens, bills of a member | operators over the rows of `Settlement`. `BillSearchQuery` is the WHERE clause, `ExtractBillPaymentTransaction` the map from a bill to the transaction of its first row. `FindByWalletAndQuery` gets a wallet in the code and does not use it: it selects from `OwnLines` and the lines of all other wallets |

### Billing

| module | models | correspondence |
|---|---|---|
| `FeeGroups` | `ServiceFeeController`, `GroupServiceFeeController`, `GroupService`, `GroupServiceFeeService` | `fee` are service_fee rows, with the one date the jobs look at; `row[f][m]` the statuses of the group_membership rows of a member in the group of a fee. `AddMember`/`InsertMembers` and `RemoveMember`/`SaveRemoved` are look-up and save of one handler `d`, `desk[d]` what it has looked up |
| `Billing` | the two processors, `createSubscription`, `createSubscriptionBill`, the save of a settled subscription | `DueToday` and `PendingPairs` are the queries of the jobs, `generating[w]` and `billing[w]` the transactions a job has asked for and not ended. `total[w]` is the object all of them share; `Holders` counts connections. `SaveSubscription` fixes what the update will write, `CommitBill` writes it |
| `Recipients` | lists of fees, the screen of one, the members with and without it | operators over the same rows; each asks other statuses than the jobs do. `HoldersLimit` cuts the rows from which `hasServiceFee` is told (10, which no caller overrides), `ListLimit` the lists |

### Accounts and roles

| module | models | correspondence |
|---|---|---|
| `Accounts` | `UserManagementService`, `AuthenticationService`, `BearerTokenService`, `AssociationService.createAssociation`, their controllers | `user`, `membership`, `account`, `association`, `wallets` are the rows. A request is two or three actions: `Begin` with what it has read, then the save. `mail` holds the links a user was sent: a token is the kind of link, `Signed` the statuses it embeds and `VerifyBearerToken` compares |
| `Directory` | login, associations of a user, member search, member screen, counts | operators over the same rows |
| `Roles` | `RoleService`, `RoleController`, `RoleMembershipController`, the permission and membership-role queries, `PermissionsInterceptor` (`Intercept`) | `role`, `rolePermission`, `membershipRole` are the rows; `late` are the saves of a PATCH nobody waits for (`SaveLate`, `LoseLate`) |

### Abstractions, the same everywhere

One association per wallet and per set of roles and fees (handlers of different associations
write no row of each other; the one query that reads rows of all of them, that of the wallet
screen, is given the rows of the others as `elsewhere`, any of `OtherLines`); references, codes
and ids are the identities of model values; of the gateway's answer only amount and status are kept; names, addresses, passwords, mails,
activity logs and the mapping of fields are left out. Requests, withdrawals, invoices, bills,
fees, users and roles are fixed sets whose members start "absent" instead of rows created
for ever. A filter on a date or a name is the set of rows it selects, any set; a list is
the set of its items with their number beside it. Where a list is cut, `Recipients` has the set of
all lists there may be (`Cut`, with the limits 100 and 10 as constants), because what jobs do is
compared with what the screens say of a single member; in `Reports` and `Directory` the cut to 100
rows is left to the reader of the items.

Amounts are integers of minor units. On their way to the gateway and back they are divided by
100 and multiplied by 100 in floating point; most come back as they were, some with a fraction
(110 as 110.00000000000001), which the INSERT into a `bigint` column is refused for. Which ones do
is the constant `Inexact`, any subset of the amounts.

What the environment is taken to do, marked external in the map: an UPDATE waits
until the row it wants is free and holds it to the end of its transaction; reads see
committed rows; a failed statement leaves a transaction that can only be rolled back,
while a failed read *in the other session* leaves it usable; Bull hands a waiting job
to one worker, and restarts the job of a dead one at most `MaxStalled` times; the pool hands
a free connection to one of those who wait.

**Histories.** Handlers that look up and save later do not survive every overlap, and where they
do not, no property of the code can say so. `conflicts` (and `overtaken` in `Payments`) records
which kinds of overlap a behaviour has had, and a property names the ones it exempts. What it
claims is thus twofold: everything else may overlap, fail and die, and nothing but the
named overlap breaks it. Each exemption is needed: without it TLC finds a counterexample, for
the overlaps "group", "subscription jobs" and "bill jobs" in instances with two desks or two
workers, for "edit" with a third membership row, which are too large to be searched to the end
on every run.

## 3. Runs

| run | instance | shows |
|---|---|---|
| `SettlementConcurrent` | 2 handlers, 3 requests (two for one invoice), 2 invoices sharing a bill, amounts below and at what is due, one line of each direction another association may have | whatever overlaps and fails: one transaction per request, requests match transactions, the books agree, a settled request is frozen, statuses of invoices and bills have a source; the bill lists tell of the same payments as the wallet screen, which lists them among what came in to all other wallets, and the balance is that after the last own payment (`ScreensAgree`), what a screen says was raised has been received (`ReceivedIsCovered`); confirmations that wait for each other's rows end (`ConfirmationsEnd`) |
| `SettlementLostUpdate` (2 handlers), `SettlementGatewayVerdict`, `SettlementPaidTwice` (1 handler each) | 2 requests for one invoice | findings, section 6 |
| `WithdrawalFaults` | 2 workers, 2 withdrawals, 4 requests, every fault, 1 restart | a debit always has a transfer behind it, a waiting withdrawal is debited, a pending one has a job or lies in the failed set, and an outcome is final unless the job was run again |
| `WithdrawalFaultFree` | 2 workers, 4 withdrawals, one of a wallet without a bank account and one of an amount that comes back with a fraction, no fault | a withdrawal is debited, once, exactly when it waits for confirmation; its money left then, and else only unrecorded, for the inexact amount (`TransferMatchesStatus`); a begun payout gets an outcome but for those two (`BegunPayoutsEnd`) |
| `PaymentsSerial` | 1 confirmation handler, the desk, 1 worker, 1 credit, 2 withdrawals, every fault, an amount that comes back with a fraction, restarts, a gateway that refuses a repeated reference, 1 change of the bank account; no two of them overlap | confirmations, payouts and changes implement `WalletLedger`, and the lines are a chain that ends in the balance |
| `PaymentsOneConfirmation` | 1 confirmation handler, 2 credits, 2 withdrawals, the desk, 1 worker, faults answer, read, database, 1 change of the bank account | what survives lost updates between the two processes: the balance is the last line's, and no overdraft |
| `Billing` | 1 fee of either type, 2 members of whom one may have two rows, 1 worker with 3 connections, days 0 to 2, lists cut to 1 row | one subscription per fee, one bill per member, totals within the bills, a removed fee stays removed, a billed subscription is closed, the screens show whom the jobs bill, the pool does not starve |
| `BillingStarved` | the same with 2 connections and fairness | finding, section 6 |
| `Accounts` | 2 users (founder and member or two founders), 2 e-mails, 2 handlers, at most one kind of conflicting overlap per behaviour | one user per e-mail, pending users can be verified, memberships follow the user, onboarded once, the life cycle is one-way, two accounts are for good, all lists and the login agree |
| `Roles` | 2 roles, 2 names, 1 permission, 1 member, 2 handlers, 1 late save | one role per name, and every screen agrees with the permission query |

**Why the bounds are enough.** *Payments.* Two handlers produce every pairwise conflict of the
pipeline; a third adds no new lock to wait for, since a confirmation holds one request
row and one wallet row. Three requests over two invoices that share a bill give each
sharing the code allows: two requests for one invoice, two invoices for one bill.
A bill costs 1. The first invoice asks for 2, or for 1 when the bill it shares has been paid
before; the second, with a surcharge of 1, for 2 or 1 in the same way. So amounts 1 and 2 pay an
invoice in part, in full and by too much, and invoices are created before and after a payment
of their bills. `Verdicts` is one
status except in `SettlementGatewayVerdict`: no other property reads it. Withdrawals of 2
and 3 against an opening balance of 4 fit one by one and not together, so both refusals
occur; in `WithdrawalFaultFree` 3 is inexact, so its money leaves, nothing is debited, and a withdrawal of 2 still fits; the one without a bank account may come
before, between and after the others. In `PaymentsSerial` confirmations may get an inexact amount, payouts do not. A worker death with one restart gives the job that runs twice and the one that is given
up; four requests are one for each run of two withdrawals. `MaxBankChanges` = 1: a change is
the same handler every time.

*Billing.* `MaxDay` = 2 with `Cycle` = 1 lets a recurring fee be due, get its next dates, and
be due again; `MaxSubscriptions` = 2 leaves room for the second subscription that must not
come. `MaxAmount` = 2, the largest amount of a fee, is what it costs. `MaxRows` gives one member
a second row of the group, so that somebody is removed and added again; everybody has room for
one, since a group begins with its members. Two rows, two members: at most two bills in a job,
one connection less than the pool; `BillingStarved` has as many bills as connections. `MaxNotice` = 0: a fee created ahead is due
on a later day like any other. `ListLimit` = `HoldersLimit` = 1 cut the lists of two members with a
fee, and leave those of one alone. The instance has one desk and one worker, so the overlaps
called "group", "subscription jobs" and "bill jobs" do not occur in it; removal of a fee, of a
member and the save of a settlement beside a job do, and so do jobs that run again after a crash.

*Accounts.* `MaxConflicts` = 1: a property that exempts a kind of overlap must hold under
each of the others alone. `MaxWallets` = 2 lets an association be onboarded twice, `MaxLinks` = 2 are the verification
link and one for a reset, `MaxRows` = 2 is the two types a user can have: with less, a registration
with both could not be modelled at all, so the module assumes no less. *Roles.* A second name and a second role let a name
be created, deleted and tried again while the other role exists; `MaxRows` = 2 gives the second
assignment after a removal, `MaxLate` = 1 a save that takes effect after anything else.

Symmetry is used where the sets it permutes are not told apart by any property, and never in a
run that checks liveness.

Two limits are part of what the runs say. `PaymentsOneConfirmation` has *one*
confirmation in flight beside the payouts; with more, updates among the confirmations
are lost as well (`SettlementLostUpdate`) and its `NoOverdraft` says nothing about
them. Both `Payments` runs have one worker, which is what the deployment has and not what
the code enforces: with two, payouts lose updates as confirmations do. And a
confirmation that read the wallet before a payout committed puts the debited money back,
so what leaves the account at the gateway can exceed what came in: no property says
otherwise.

**Fairness.** `SettlementFairness` is weak fairness of what a begun confirmation does
by itself: the event loop runs ready promises, and a gateway call ends with an answer or
an error. Strong fairness of the two saves that wait for a row stands for the queue in which
PostgreSQL grants a row lock. Nothing is assumed of browsers: `ValidatePayment`,
`Initiate` and every failure stay unfair. `WithdrawalFairness` is weak fairness of the
steps of the desk and of each worker, including taking a waiting job; faults and new
withdrawals are not fair. `FairBillingSpec` is weak fairness of the steps a worker does by
itself (`JobStep`): the event loop again, and a pool that hands out what is free; taking a job,
faults and executives are not fair.

Deadlock is checked in every run. `AnswerPaid` and `AtRest` are the states in which the service
waits for somebody to ask.

## 4. Theorems

Proved for every value of the constants, whatever the number of handlers, workers,
requests, withdrawals, fees, members, users and roles and whatever the amounts, faults and bounds,
from the assumptions the modules name and nothing else (those about the ledger from
`LedgerAssumption`, which the settlement's assumptions imply). Bills, subscriptions, fees, members and
workers are finite sets of any size: the tables and the processes are, and a sum over rows means
nothing otherwise. Three theorems have a hypothesis of
their own, which is what the property itself is about: `TransfersMatchStatus` that no fault is
possible, `NeverOverdrawn` that there is at most one confirmation handler and one worker,
`LargePoolsDoNotStarve` that the pool has more connections than there are fees times members
(the instance of the run `Billing` has 3 for 1 times 2). The two about
serial payments and the two about serial confirmations are about the specifications in which
handlers do not overlap.

| theorem | states |
|---|---|
| `SettlementProofs!SettlementTypeCorrect` | type correctness |
| `SettlementProofs!InvoicesComeFirst` | requests, confirmations and transactions are for invoices that exist |
| `SettlementProofs!OneTransaction` | at most one payment transaction per request |
| `SettlementProofs!SettledMatches` | a credit request is settled exactly when its transaction is committed, with its amount and status |
| `SettlementProofs!SettledFrozen` | a settled request never changes again |
| `SettlementProofs!BooksAlwaysAgree` | payment and wallet transactions are the same payments in the same order |
| `SettlementProofs!StatusesAreSourced` | an invoice has the status of a settled request for it, a bill that of an invoice that groups it |
| `SettlementProofs!StartsFromPast` | a wallet line starts from a balance the wallet had |
| `SettlementProofs!SerialImplementsLedger` | confirmations that do not overlap implement `WalletLedger` |
| `SettlementProofs!SerialLedgerChained` | and the wallet's lines are a chain that ends in its balance |
| `SettlementProofs!ScreensTellTheSame` | a bill has a receipt exactly when it counts as paid, in whole or in part; searched for what came in, the wallet screen lists those receipts and what came in to all other wallets; the balance is that after the last own line |
| `SettlementProofs!ReceivedIsAlwaysCovered` | the bills shown as paid, what subscriptions and fees are said to have raised, and what a new invoice leaves out, add up to no more than was received |
| `WalletLedger!BookChained` | the ledger is a chain: conservation of money without a sum |
| `WithdrawalProofs!TypeCorrect` | type correctness of withdrawals, queue and payouts |
| `WithdrawalProofs!DebitsAreBacked` | no more debits of a withdrawal than transfers made for it, each of its amount |
| `WithdrawalProofs!WaitingMeansDebited` | one that waits for confirmation has been transferred and debited |
| `WithdrawalProofs!PendingIsTracked` | a pending one has a job, or lies in the failed set |
| `WithdrawalProofs!OutcomesAreFinal` | an outcome is final unless a worker died with the job |
| `WithdrawalProofs!TransfersMatchStatus` | without faults a withdrawal no worker is at was debited once if it waits for confirmation and never else; its money left once in the first case, and in the other only if its amount comes back with a fraction: then its job failed and it is pending |
| `PaymentsProofs!BalanceFollowsTheLines` | the balance is what the last line left, unless a payment overtook a change of the bank account; for any number of confirmations and workers |
| `PaymentsProofs!NeverOverdrawn` | one confirmation beside one worker does not overdraw the wallet, with the same exemption |
| `PaymentsProofs!SerialPaymentsImplementLedger` | payments in and out and changes of the bank account that do not overlap implement `WalletLedger`, faults and restarts included |
| `PaymentsProofs!SerialPaymentsChained` | and their lines are a chain that ends in the balance |
| `PaymentsProofs!WaitsNeverCircle` | confirmations and payouts never wait for rows of each other in a circle: who is waited for waits for nobody, or for one that does not wait |
| `BillingProofs!TypeCorrect` | type correctness of fees, groups, subscriptions, bills, jobs; no worker holds more connections than its pool has |
| `BillingProofs!FeesAreSubscribedOnce` | one subscription per fee unless two subscription jobs overlap |
| `BillingProofs!MembersAreBilledOnce` | one bill per member and subscription unless two bill jobs or two edits of a group overlap |
| `BillingProofs!TotalsStayWithinBills` | the payable total of a billed subscription counts at least one of its bills and, unless a transaction failed, none that was not raised |
| `BillingProofs!RemovedFeesStay` | a removed fee stays removed unless a subscription job had read it |
| `BillingProofs!BilledSubscriptionsAreClosed` | a subscription with a bill and no job at it gets no job and no bill again |
| `BillingProofs!BillsMatchTheScreens` | bills have a member, unless one left between the two reads of a bill job; whom a screen shows as having an active fee the jobs bill, and it shows all they bill as long as its rows are not cut; due fees are listed as long as the list is not cut; for any limits |
| `BillingProofs!LargePoolsDoNotStarve` | with more connections than fees times members no bill job starves, unless two jobs of one queue or two edits of a group overlap |
| `AccountsProofs!TypeCorrect` | type correctness of users, memberships, accounts, associations, mails |
| `AccountsProofs!OnboardedAtMostOnce` | an association is active exactly with its wallet, has one unless two onboardings overlap, and members only then |
| `AccountsProofs!PendingUsersCanBeVerified` | user, account and membership are pending together unless a reset overlaps a verification |
| `AccountsProofs!UsersFollowMemberships` | a user is deleted exactly when no membership is left, unless something overlaps a deletion |
| `AccountsProofs!EmailsAreUnique` | an e-mail has one user that is not deleted, unless two registrations overlap, or something a deletion |
| `AccountsProofs!LifecycleHolds` | nobody verified is pending again, nobody deleted comes back, with the same exemptions |
| `AccountsProofs!BothAccountsStay` | a member with two memberships keeps them until it is deleted, unless two edits overlap |
| `AccountsProofs!DirectoryMatches` | login and all lists agree on who is a member, unless something overlaps a deletion |
| `RolesProofs!RolesTypeCorrect` | type correctness of the tables of roles |
| `RolesProofs!NamesAreUnique` | a name belongs to one role unless two creations of it overlap |
| `RolesProofs!ScreensTellPermissions` | every screen tells what the permission query grants, and a deleted role grants nothing |

**Argument.** *Settlement.* `OneTransactionPerRequest` is not inductive: nothing in it says why the
second of two confirmations stops. The code takes the row of the request with
its first save and looks for a payment transaction *after* it, so the strengthening
`SettlementInv` says of every handler past that save that it holds the lock of
its request, and of every handler past the look-up that its request has no transaction
yet. A handler whose statement failed has nothing left to commit, and the claim leaves it out.
Two handlers cannot hold one lock, so nobody can commit a transaction for that
request between the look-up and the commit. The other conjuncts describe the uncommitted
rows by the place of the handler (`inserted` and `entries` are there exactly from the
insert and the wallet read on, for the amount the gateway gave) and who holds the
wallet row. From it:

- `SettledMatches`: the only step that changes a request is the commit that appends
  its transaction, and no transaction existed before;
- `BooksAlwaysAgree`: a handler that commits has exactly one row of each kind, for the
  same request and amount;
- `StatusesAreSourced`: a commit leaves no invoice with a status of a request that
  still can change, since a request with a transaction is settled for good;
- `SettledFrozen`: an action property from `SettlementInv` and the same lock argument;
- `StartsFromPast`: what a handler has read is a past balance, and stays one since lines
  are only added;
- `SerialImplementsLedger`: under `OneAtATime` (at most one handler) what a handler
  has read *is* the current balance, so its commit is a `Post`, and every other step
  stutters; `SerialLedgerChained` then carries `BookChained` over to the wallet.

The unique index is not needed for safety in the settlement, which the proof shows:
no handler that passed the look-up meets a committed row. It stays in the model
because the code has it.

*Reports.* A receipt number reaches a bill list through the joins exactly when a request for an
invoice that groups the bill has a payment transaction (`ShownReceipts`, `ReceiptIsShown`). The
commit of that transaction gives all these bills a status that is not "NOT_PAID", and no commit
takes a bill back there (`PaidInv`, the part `StatusesAreSourced` does not say); in the other direction
the status of a bill has a source that was paid. That every invoice groups a bill is an
assumption of `Reports`: the controller refuses one without (`invoice.controller.ts:50`), and without
it a payment could be on the wallet screen and on no bill list. The balance on the wallet screen is
the last line's because whoever saved the wallet holds its row up to the commit (`WalletHeld`). The
lines of the wallet are of its own requests (`ReceiptsAreOwn`), so what the wallet screen lists as
money in is their receipts and, untouched by them, what the others have (`WalletListsIncoming`);
`OtherLines` may be any set of lines for other requests.

`ReceivedIsCovered` compares sums over bills with the sum of what was received. That the bills paid
*now* are covered is not inductive: an invoice created after a part of its bills was paid asks only
for the others, and a later payment in part for another invoice takes a bill from the paid ones
again. `CoverInv` says that there is a set of bills, in which all paid ones are, that the payments
cover, and that each invoice asks for enough to pay for its bills outside this set. The bills that
ever were paid are one. A commit that pays an invoice in full adds the bills of that invoice and
what it asked for; one that pays it in part adds money and takes bills from the paid ones; a new
invoice asks for all its bills but paid ones, which are in the set. The sums on the screens
are then sums of parts of that set.

*Sums.* `SumFunctionOnSet` is a fold, and the induction theorems of the library take an operator as
a parameter, which the provers cannot instantiate. `Sums` goes around that: a strict subset of
a finite set is less in a well-founded order, so among the subsets for which something fails
there is one without a smaller one (`MinimalSubset`), and induction is stated with the *set* of subsets
for which it holds in the place of the property (`StrongInduction`). From it: the function the
fold iterates exists, and a sum is what it is without one member and that member
(`SumRemove`), grows with its terms and its set, splits over a union and over the parts of a
partition.

*Withdrawals.* `Shape` says what a handler holds by the place it is at, and that every run of a job
inserts a payment request of its own, which nobody else touches until its transaction ends.
So debits can be counted by request instead of by line: `Claims(w)` are the requests with a
committed line for `w` and those of runs the gateway has answered and that may still commit.
`ClaimsBacked` (no more claims than transfers) is inductive, `DebitIsBacked` is not: a run stands
between its transfer and its commit. A transfer whose answer is lost adds no claim, and a run that
dies takes one away. `PendingHasAJob` needs `Tracked`, which follows the job from queue to worker to
failed set, none of which ask what gateway or database answered. `OutcomeIsFinal` needs
`SingleRun`: as long as no worker died with it (`stalled[w] = 0`), a job is in one place of the queue
or at one worker and not both, and its withdrawal is pending until that run concludes.
`Exactly` is `SingleRun` without faults, with the count of transfers for each place of a run. Without faults
a run fails in two ways only: before its transfer (`noBank`), which leaves nothing behind, or at the
INSERT (`aborted`), and then its amount is inexact (`Exact`, `Sent`); its job is in the failed set
from then on, where nothing takes it from, so `SentUnrecorded` stays true.

*Payments.* Both sides, and every failure of either, do one of five things to the wallet:
move on, read the balance into a line, take the row to save it, drop their line, book it
(`Acts`). That is shown once, action by action; the theorems then only look at the five
and at the steps of a change of the bank account. `LastOK` holds because `Books` writes balance and line
together under the row lock, and a change writes back what it has read only if it is still what the
balance is. In `FundsOK` the two sides lean opposite ways: a confirmation starts from no less than the
balance, so that its lost update can only raise it, a payout relies on no more than the
balance, so that it can cover what it debits. With two confirmations one could *lower* the balance below what a payout counted on,
which is why `OneOfEach` is needed, and what the bound in the run stands for. Under
`Alone` what a payment has read is the balance and its request has no line yet (`SerialInv`), so
booking is a `Post` of `WalletLedger` and everything else stutters.

`WaitsNeverCircle` rests on who has which row (`Owns`): a handler has rows only while it posts, those
of its own request or withdrawal, and takes them before that of the wallet. So whoever waits for a
request or a withdrawal has nothing yet that another one wants, and whoever waits for the wallet waits for one that is about
to commit. The wait for the unique index never happens: two confirmations of one request cannot
both have its row, and no two payouts have one request (`Fresh`).

*Billing and recipients.* Jobs and handlers read, and act later on what they have read. One invariant for
each such pair says that it still holds unless an execution that may change just that has overlapped,
whichever of the two began first: `Subscribing` (the fees a job found have no subscription), `Removing` (they are still
active), `OneRow` (the members an edit found have no row), `OneBill` (the pairs a bill job found have
no bill, and no other job has them), `Left` (their members are still there). `Shape` is the type
invariant with what it rests on, among that the accounting of the pool: a transaction begins only with a
connection free. `BilledOnceAndForAll` is an action property from the query, which excludes
subscriptions that have a bill.

`TotalWithinBills` speaks of times at which no job is at work on a subscription, and is kept by what is
true in between: `Totals` looks at each value that is or may get into the total, in the row, in
the object of a worker, or in the hands of a handler or a transaction that has yet to write it. Each
value counts no more bills than there are together with those that running transactions have
inserted (`Raised`), as long as none failed; each one that is saved once a bill is there counts a
bill at least, because a transaction adds its own before it saves. So it does not matter who
writes last.

`LargePoolsDoNotStarve` is a count: what holds a connection is a fee that is being given its first subscription or a pair without a bill, so while nothing of a kind overlaps each holder
stands for a fee and a member of its own (`HoldersAreFew`), and one connection is left.

*Accounts and directory.* The same form, with one addition. `Apart` says that two handlers at one user or
e-mail have left the conflict their kinds have, in either order; so while a kind of overlap is
not in `conflicts`, a handler that saves is alone with what it has looked up. `Onboarding`,
`Verification`, `Deletion`, `Registration` and `Editing` say what that is for each kind. A handler's
step is first reduced to its effect on one user (`SaveEffects`: registers, activates, sets a status,
deletes, edits, onboards, fails), and the invariants are proved of those effects.
`DirectoryMatches` follows from `Deletion` and the types: every query asks a status, and on
users that follow their memberships all the statuses it might ask agree.

*Roles.* All three rest on `RolesShape`: the tables have their types, a role row is named from
its insertion on, and a handler that is about to create a role has a row nobody else has.
`OneRolePerName` is not inductive, because a creation inserts a name some time after it found it
free; `NamesInv` adds that it stays free, since whoever could take it in between would overlap.
`PermissionsFollowRoles` needs `PermissionsInv`: no permission row is active without its role, so
the queries that ask the status of both and those that ask one of them give the same answer. The bound on the
rows in `RolesTypeOK` is the guard of the inserting action, carried over by a map from the rows
it counts onto those there are after it.

**Only model-checked.**

- Liveness (`ConfirmationsEnd`, `BegunPayoutsEnd`, and `BillJobEnds`, which fails): beyond the
  prover. What is proved of it is its safety half, `WaitsNeverCircle`; that every wait then ends
  rests on fairness.
- `PoolNeverStarves` for a pool that is smaller than fees times members but large enough for
  the pairs that happen to be due; for one that is not it is false, which is finding 4.

## 5. What is not modelled

*Whole components*: sequences (`nextval` is unique by construction; that it needs a connection
of its own is part of `Billing`); files, mails, activity logs, banks, countries, seed data,
validators; the pool of the API, which all handlers share (that of the worker is modelled).

*Inside modelled parts*: the calendar of billing dates, of which a cycle is a number of days; the password check
of a withdrawal and of a login (a wrong one changes nothing); a confirmation called with the
reference of a withdrawal's request, which has no invoice and always ends in a roll-back; the
mapping of payment channels, whose exception is one more of the failures in `ReadFails`; the rows of the
general group, which are written on registration and never read; a request that
names one account type twice (`Types` are sets); the cut of a list after 100 rows in `Reports` and
`Directory` (lists always begin with the first row, so who is counted as the 101st is on no list
without a narrower search); balances that have a fraction, since no amount with one is ever
written. Sums stay far below the width of a `bigint` and of a JavaScript
number, so integers are unbounded.

*Code nothing reaches*: queries of the repositories without a caller, the dashboard of a
membership workspace, which no module registers. No handler carries `@HasPermission` at this
commit, so `Intercept` is what the interceptor would answer.

Where a reading of the code leaves something to a library, the model keeps the larger set of
outcomes: `innerJoinAndSelect` with an entity leaves `membershipInfo` undefined, so PATCH of a role
may throw before its saves begin, which is `LoseLate`.

## 6. Findings

1. **Lost credit** (`SettlementLostUpdate`, `wallet.service.ts:51`). Two confirmations of
   different requests overlap, both read the same balance, both save an absolute value:
   both payments are settled, one is missing from the balance.
2. **Verdict of the gateway ignored** (`SettlementGatewayVerdict`,
   `payment-request.service.ts:134`). Only the amount of the answer is compared; a charge
   reported as failed settles the request.
3. **Invoice paid twice** (`SettlementPaidTwice`, `payment-request.service.ts:159`). The test
   for a paid invoice is made when a request is created and never again, so two requests
   created before either is paid can both be paid. No concurrency is needed.
4. **Starved bill job** (`BillingStarved`, `bill-generator.processor.ts:73`). The job starts a
   transaction for each bill at once; each holds a connection of the pool and needs a second one
   for the code of its row. As many bills as connections wait for each other for ever. With one
   connection more they go on one by one, which is `PoolNeverStarves` of `Billing`.

Smaller things the models show, which nothing in the repository contradicts: a recurring fee gets
one subscription in its life (`OneSubscriptionPerFee`: the query excludes fees that have any);
a member whose bill failed, or who is added later, is never billed for that period
(`BilledOnceAndForAll`); a member with two accounts cannot be edited any more
(`BothAccountsAreForGood`); removing a member from a role may leave an active row behind when there
were several (`DeActivateMember`); the dashboard's total received adds up what is *not* paid
(`SumTotalAmount`); the wallet screen lists the lines of every association's wallet
(`FindByWalletAndQuery`, `wallet-transaction.repository.ts:16` does not use its `wallet`); an amount that
comes back from the gateway with a fraction is never recorded, so a confirmation of it fails each time
and a withdrawal of it leaves the account, stays pending and debits nothing (`SentUnrecorded`,
`flutter-wave-withdrawal.ts:11` and `:23`); a withdrawal from a wallet without a bank account, which
onboarding does not ask for, stays pending for ever (`RollbackPayout`, `payment-request.service.ts:63`);
the screen of a fee's members says "no fee" of everybody beyond the first ten rows, whom the jobs
bill all the same (`FindByServiceFeeAndStatus`, `portal-user.repository.ts:43`).

## 7. Plan

| step | modules | state | next |
|---|---|---|---|
| A | `WalletLedger`, `Posting`, `Settlement`, `Reports` | modelled, checked, proved but for liveness | |
| B | `Withdrawal`, `Payments` | modelled, checked, proved but for liveness | |
| C | `FeeGroups`, `Billing`, `Recipients` | modelled, checked, proved but for small pools | an instance with two desks or two workers, small enough for every run |
| D | `Roles` | modelled, checked, proved | |
| E | `Accounts`, `Directory` | modelled, checked, proved | |
| F | `BillingDates` | not begun | the calendar as functions: next date after the last, day of the month kept |

Where a module is to be proved about it has no `RECURSIVE` operator. The order is by what a failure
would cost: money first, then what is billed, then who may do it.
