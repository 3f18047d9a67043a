---------------------------- MODULE WalletLedger ----------------------------
(***************************************************************************)
(* What the wallet of an association promises: every payment request is    *)
(* posted at most once, in one indivisible step that adds a line to the    *)
(* book and moves the balance by the amount of that line.  The services    *)
(* reach this through several database statements and reads; Settlement    *)
(* says when they implement it.                                            *)
(***************************************************************************)
EXTENDS Integers, Sequences, SequenceTheorems, TLAPS

CONSTANTS
  Requests,   (* payment requests of the association                       *)
  TypeOf,     (* TypeOf[r]: the paymentType of request r                   *)
  Amounts,    (* amounts, in minor units, the payment gateway can report   *)
  Opening     (* balance of the wallet before the first line of the book   *)

PaymentType == {"CREDIT", "DEBIT"}

(* What the theorems about the ledger suppose of the constants.            *)
LedgerAssumption ==
  /\ TypeOf \in [Requests -> PaymentType]
  /\ Amounts \subseteq Nat
  /\ Opening \in Int

VARIABLES
  book,       (* the lines posted so far, oldest first                     *)
  balance     (* what the wallet says is available                         *)

vars == <<book, balance>>

(* A credit adds to the balance; a debit takes from it.                    *)
BalanceAfter(type, before, amount) ==
  IF type = "CREDIT" THEN before + amount ELSE before - amount

(* The row walletTransactionService.createWalletTransaction builds from    *)
(* the request, the amount and the balance it was given.                   *)
Line(r, amount, before) ==
  [request  |-> r,
   amount   |-> amount,
   previous |-> before,
   after    |-> BalanceAfter(TypeOf[r], before, amount)]

Lines == [request : Requests, amount : Amounts, previous : Int, after : Int]

Posted(r) == \E i \in DOMAIN book : book[i].request = r

Init ==
  /\ book = <<>>
  /\ balance = Opening

Post(r, amount) ==
  /\ ~ Posted(r)
  /\ book' = Append(book, Line(r, amount, balance))
  /\ balance' = Line(r, amount, balance).after

(* Nothing is left to post when every request has its line.                *)
Next == \E r \in Requests, amount \in Amounts : Post(r, amount)

Spec == Init /\ [][Next]_vars

-----------------------------------------------------------------------------

TypeOK ==
  /\ book \in Seq(Lines)
  /\ balance \in Int

(* The balance before the first i lines have been added up.                *)
RunningBalance(i) == IF i = 0 THEN Opening ELSE book[i].after

(* The book is a chain: each line starts from the balance the line before  *)
(* it left, moves it by its own amount, and the wallet shows what the last *)
(* line left.  It is conservation of money without a sum.                  *)
Chained ==
  /\ \A i \in DOMAIN book :
       /\ book[i].previous = RunningBalance(i - 1)
       /\ book[i].after =
            BalanceAfter(TypeOf[book[i].request], book[i].previous,
                         book[i].amount)
  /\ balance = RunningBalance(Len(book))

-----------------------------------------------------------------------------
(* Theorems: the ledger conserves money, for all requests and amounts.     *)

(* A posted line is a line.                                                *)
LEMMA LineType ==
  ASSUME LedgerAssumption,
         NEW r \in Requests, NEW amount \in Amounts, NEW before \in Int
  PROVE  /\ Line(r, amount, before) \in Lines
         /\ Line(r, amount, before).request = r
         /\ Line(r, amount, before).amount = amount
         /\ Line(r, amount, before).previous = before
         /\ Line(r, amount, before).after = BalanceAfter(TypeOf[r], before, amount)
<1>1. amount \in Int
  BY DEF LedgerAssumption
<1>2. BalanceAfter(TypeOf[r], before, amount) \in Int
  BY <1>1 DEF BalanceAfter
<1>3. QED
  BY <1>2 DEF Line, Lines

(* The book holds lines and the balance is a number.                       *)
THEOREM LedgerTypeCorrect ==
  ASSUME LedgerAssumption
  PROVE  Spec => []TypeOK
<1>1. Init => TypeOK
  BY DEF Init, TypeOK, LedgerAssumption
<1>2. ASSUME TypeOK, [Next]_vars PROVE TypeOK'
  <2>1. ASSUME NEW r \in Requests, NEW amount \in Amounts, Post(r, amount)
        PROVE  TypeOK'
    <3>1. Line(r, amount, balance) \in Lines
      BY <1>2, LineType DEF TypeOK
    <3>2. Line(r, amount, balance).after \in Int
      BY <3>1 DEF Lines
    <3>3. QED
      BY <1>2, <2>1, <3>1, <3>2 DEF Post, TypeOK
  <2>2. CASE UNCHANGED vars
    BY <2>2, <1>2 DEF TypeOK, vars
  <2>3. QED
    BY <1>2, <2>1, <2>2 DEF Next
<1>3. QED
  BY <1>1, <1>2, PTL DEF Spec

(* Each line of the book starts from the balance the line before it left   *)
(* and the wallet shows what the last one left: no posting is ever lost.   *)
THEOREM BookChained ==
  ASSUME LedgerAssumption
  PROVE  Spec => []Chained
<1>1. Init => Chained
  BY DEF Init, Chained, RunningBalance
<1>2. ASSUME TypeOK, Chained, [Next]_vars PROVE Chained'
  <2>1. ASSUME NEW r \in Requests, NEW amount \in Amounts, Post(r, amount)
        PROVE  Chained'
    <3> DEFINE line == Line(r, amount, balance)
    <3>1. /\ line \in Lines
          /\ line.request = r
          /\ line.amount = amount
          /\ line.previous = balance
          /\ line.after = BalanceAfter(TypeOf[r], balance, amount)
      BY <1>2, LineType DEF TypeOK
    <3> HIDE DEF line
    <3>2. /\ book' = Append(book, line)
          /\ balance' = line.after
      BY <2>1 DEF Post, line
    <3>3. /\ Len(book) \in Nat
          /\ DOMAIN book = 1 .. Len(book)
          /\ DOMAIN book' = 1 .. Len(book) + 1
          /\ Len(book') = Len(book) + 1
          /\ \A i \in 1 .. Len(book) : book'[i] = book[i]
          /\ book'[Len(book) + 1] = line
      BY <1>2, <3>1, <3>2 DEF TypeOK
    <3>4. \A i \in 0 .. Len(book) : RunningBalance(i)' = RunningBalance(i)
      BY <3>3 DEF RunningBalance
    <3>5. ASSUME NEW i \in DOMAIN book
          PROVE  /\ book'[i].previous = RunningBalance(i - 1)'
                 /\ book'[i].after =
                      BalanceAfter(TypeOf[book'[i].request],
                                   book'[i].previous, book'[i].amount)
      BY <1>2, <3>3, <3>4 DEF Chained
    <3>6. ASSUME NEW i \in Nat, i = Len(book) + 1
          PROVE  book'[i].previous = RunningBalance(i - 1)'
      <4>1. i - 1 = Len(book) /\ i - 1 \in 0 .. Len(book)
        BY <3>3, <3>6
      <4>2. RunningBalance(i - 1)' = RunningBalance(i - 1)
        BY <3>4, <4>1
      <4>3. RunningBalance(i - 1) = balance
        BY <1>2, <4>1 DEF Chained
      <4>4. book'[i] = line
        BY <3>3, <3>6
      <4>5. QED
        BY <3>1, <4>2, <4>3, <4>4
    <3>7. \A i \in Nat :
            i = Len(book) + 1 => RunningBalance(i)' = line.after
      BY <3>3 DEF RunningBalance
    <3>8. \A i \in DOMAIN book' : i \in DOMAIN book \/ i = Len(book) + 1
      BY <3>3
    <3>9. QED
      <4>1. ASSUME NEW i \in DOMAIN book'
            PROVE  /\ book'[i].previous = RunningBalance(i - 1)'
                   /\ book'[i].after =
                        BalanceAfter(TypeOf[book'[i].request],
                                     book'[i].previous, book'[i].amount)
        <5>1. CASE i \in DOMAIN book
          BY <3>5, <5>1
        <5>2. CASE i = Len(book) + 1
          <6>1. i \in Nat
            BY <3>3, <5>2
          <6>2. book'[i].previous = RunningBalance(i - 1)'
            BY <3>6, <5>2, <6>1
          <6>3. book'[i] = line
            BY <3>3, <5>2
          <6>4. QED
            BY <3>1, <6>2, <6>3, Zenon
        <5>3. QED
          BY <3>8, <5>1, <5>2
      <4>2. balance' = RunningBalance(Len(book))'
        BY <3>2, <3>3, <3>7
      <4>3. QED
        BY <4>1, <4>2 DEF Chained
  <2>2. CASE UNCHANGED vars
    BY <2>2, <1>2 DEF Chained, RunningBalance, vars
  <2>3. QED
    BY <1>2, <2>1, <2>2 DEF Next
<1>3. QED
  BY <1>1, <1>2, LedgerTypeCorrect, PTL DEF Spec
=============================================================================
