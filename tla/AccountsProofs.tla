--------------------------- MODULE AccountsProofs ---------------------------
(***************************************************************************)
(* Theorems about Accounts and Directory, for any number of users, e-mails *)
(* and handlers, and with no bound on the overlaps of executions.          *)
(*                                                                         *)
(* The argument: what a handler has looked up and saves later is still     *)
(* true when it saves, unless a handler that changes just this has         *)
(* overlapped with it; and that an overlap of either order is recorded is  *)
(* an invariant of its own (Apart).                                        *)
(***************************************************************************)
EXTENDS Directory, FiniteSetTheorems, TLAPS

-----------------------------------------------------------------------------
(* What handlers carry.                                                    *)
Reading == [status : UserStatus \ {"absent"}, info : {"ACTIVE"}]

(* Operations on a user that exists.                                       *)
OnUser == {"verify", "change password", "save user", "onboard", "reset",
           "delete", "edit", "save edit"}

UserRow ==
  [status : UserStatus, info : {"absent", "ACTIVE", "DELETED"},
   email : Emails \cup {None}, home : Users \cup {None}]

MembershipRow == [type : AccountType, status : {Pending, "ACTIVE", "DELETED"}]

TablesOK ==
  /\ user \in [Users -> UserRow]
  /\ membership \in [Users -> Seq(MembershipRow)]
  /\ \A u \in Users : Len(membership[u]) <= MaxRows
  /\ account \in [Users -> {"absent", Pending, "ACTIVE"}]
  /\ association \in [Users -> {"absent", Pending, "ACTIVE"}]
  /\ wallets \in [Users -> 0 .. MaxWallets]
  /\ mail \in [Users -> SUBSET Link]

RequestOK(q) ==
  /\ q = [op |-> q.op, on |-> q.on, by |-> q.by, read |-> q.read]
  /\ q.op \in {"idle"} \cup Registering \cup OnUser
  /\ q.op = "idle" => q = NoRequest
  /\ q.op \in Registering => q.on \in Emails /\ q.read \in Users
  /\ q.op = "add member" => q.by.home \in Users /\ q.by.types \in Types
  /\ q.op \in OnUser => q.on \in Users
  /\ q.op = "reset" => q.read \in {"ACTIVE", "IN_ACTIVE", Pending}
  /\ q.op = "delete" => q.by \in Users
  /\ q.op = "edit" => q.by \in Types /\ q.read \in Reading
  /\ q.op = "save edit" => /\ q.by \in Types
                           /\ q.read.restored \in BOOLEAN
                           /\ q.read.user \in Reading

RequestsOK ==
  /\ handler = [h \in Handlers |-> handler[h]]
  /\ \A h \in Handlers : RequestOK(handler[h])

(* A user, with the association of that user if the user founded one.  As  *)
(* long as the executive account is pending, so is all else.               *)
UserOK(u) ==
  /\ IF user[u].status = "absent"
       THEN user[u] = NoUser /\ membership[u] = <<>> /\ account[u] = "absent"
       ELSE /\ user[u].home \in Users
            /\ user[u].email \in Emails
            /\ user[u].info \in {"ACTIVE", "DELETED"}
            /\ membership[u] # <<>>
            /\ user[u].home # u => association[user[u].home] = "ACTIVE"
  /\ user[u].home = u <=> account[u] # "absent"
  /\ account[u] = "absent" <=> association[u] = "absent"
  /\ account[u] = Pending => /\ user[u].status = Pending
                             /\ RowsWith(u, Pending) = DOMAIN membership[u]
  /\ RowsWith(u, Pending) # {} => account[u] = Pending
  /\ association[u] = "ACTIVE" => account[u] = "ACTIVE"
  /\ association[u] = "ACTIVE" <=> wallets[u] > 0

(* What a handler has looked up, as far as nothing can change it.          *)
Holds(q) ==
  /\ q.op \in Registering => user[q.read] = NoUser
  /\ q.op = "add member" => association[q.by.home] = "ACTIVE"
  /\ q.op \in OnUser => user[q.on].status # "absent"
  /\ q.op = "reset" => (account[q.on] = Pending => q.read = Pending)
  /\ q.op = "save user" => account[q.on] # Pending
  /\ q.op = "onboard" => account[q.on] = "ACTIVE"
  /\ q.op = "delete" => association[q.by] = "ACTIVE"
  /\ q.op \in {"edit", "save edit"} => association[user[q.on].home] = "ACTIVE"
  /\ q.op = "save edit" => /\ q.read.found \subseteq DOMAIN membership[q.on]
                           /\ \A i, j \in q.read.found : i = j

HandlerOK(h) == Holds(handler[h])

(* Two handlers at the same user or e-mail have left their conflicts.      *)
Apart ==
  \A h, k \in Handlers :
    h # k /\ handler[h].on = handler[k].on /\ handler[h].on # None =>
      Conflict(handler[h].op, handler[k].op) \subseteq conflicts

(* Two registrations insert different rows.                                *)
OwnRows ==
  \A h, k \in Handlers :
    h # k /\ handler[h].op \in Registering /\ handler[k].op \in Registering =>
      handler[h].read # handler[k].read

Shape ==
  /\ TablesOK
  /\ RequestsOK
  /\ \A u \in Users : UserOK(u)
  /\ \A h \in Handlers : HandlerOK(h)
  /\ Apart
  /\ OwnRows

-----------------------------------------------------------------------------
USE DEF Pending, AccountType, UserStatus, Link, Registering, Verifying,
        OnUser, NoUser, NoRequest

(* Nobody is registered and nothing is under way.                          *)
LEMMA InitShape == AccountsInit => Shape
<1> SUFFICES ASSUME AccountsInit PROVE Shape
  OBVIOUS
<1> USE AccountsAssumption DEF AccountsInit, AccountsAssumption
<1>1. TablesOK
  <2>1. user \in [Users -> UserRow]
    BY DEF UserRow
  <2>2. /\ membership \in [Users -> Seq(MembershipRow)]
        /\ \A u \in Users : Len(membership[u]) <= MaxRows
    OBVIOUS
  <2>3. /\ account \in [Users -> {"absent", Pending, "ACTIVE"}]
        /\ association \in [Users -> {"absent", Pending, "ACTIVE"}]
        /\ wallets \in [Users -> 0 .. MaxWallets]
        /\ mail \in [Users -> SUBSET Link]
    OBVIOUS
  <2>4. QED
    BY <2>1, <2>2, <2>3 DEF TablesOK
<1>2. RequestsOK
  BY DEF RequestsOK, RequestOK
<1>3. ASSUME NEW u \in Users PROVE UserOK(u)
  BY DEF UserOK, RowsWith
<1>4. ASSUME NEW h \in Handlers PROVE HandlerOK(h)
  BY DEF HandlerOK, Holds
<1>5. Apart /\ OwnRows
  BY DEF Apart, OwnRows
<1>6. QED
  BY <1>1, <1>2, <1>3, <1>4, <1>5 DEF Shape

(* One membership row is added for each type.                              *)
LEMMA NewRowsFacts ==
  ASSUME NEW T \in SUBSET AccountType, NEW s \in {Pending, "ACTIVE", "DELETED"}
  PROVE  /\ NewRows(T, s) \in Seq(MembershipRow)
         /\ Len(NewRows(T, s)) = Cardinality(T)
         /\ T # {} => NewRows(T, s) # <<>>
         /\ Cardinality(T) \in 0 .. 2
         /\ \A i \in DOMAIN NewRows(T, s) : NewRows(T, s)[i].status = s
<1> DEFINE S == {[type |-> t, status |-> s] : t \in T}
<1>1. IsFiniteSet(T) /\ Cardinality(T) \in Nat /\ Cardinality(T) <= 2
  <2>1. IsFiniteSet({"EXECUTIVE_ACCOUNT"}) /\ Cardinality({"EXECUTIVE_ACCOUNT"}) = 1
    BY FS_Singleton
  <2>2. AccountType = {"EXECUTIVE_ACCOUNT"} \cup {"MEMBER_ACCOUNT"}
    OBVIOUS
  <2>3. IsFiniteSet(AccountType) /\ Cardinality(AccountType) = 2
    BY <2>1, <2>2, FS_AddElement
  <2> DEFINE A == AccountType
  <2>4. IsFiniteSet(A) /\ Cardinality(A) = 2 /\ T \in SUBSET A
    BY <2>3
  <2> HIDE DEF A
  <2>5. QED
    BY <2>4, FS_Subset, FS_CardinalityType
<1>2. \E f : f \in Bijection(T, S)
  <2>1. [t \in T |-> [type |-> t, status |-> s]] \in Bijection(T, S)
    BY DEF Bijection, Injection, Surjection, IsInjective
  <2>2. QED
    BY <2>1
<1>3. IsFiniteSet(S) /\ Cardinality(S) = Cardinality(T)
  BY <1>1, <1>2, FS_Bijection DEF ExistsBijection
<1> HIDE DEF S
<1>4. \E f \in [1 .. Cardinality(S) -> S] : IsInjective(f)
  BY <1>3, FS_CardinalityType DEF ExistsBijection, Bijection, Injection
<1>5. NewRows(T, s) \in [1 .. Cardinality(S) -> S]
  <2>1. NewRows(T, s) = SetToSeq(S)
    BY DEF NewRows, S
  <2>2. SetToSeq(S) \in [1 .. Cardinality(S) -> S]
    BY <1>4 DEF SetToSeq
  <2>3. QED
    BY <2>1, <2>2
<1>6. S \subseteq MembershipRow /\ \A row \in S : row.status = s
  <2>1. \A row \in S : row \in MembershipRow /\ row.status = s
    BY DEF MembershipRow, S
  <2>2. QED
    BY <2>1
<1>7. NewRows(T, s) \in Seq(S) /\ Len(NewRows(T, s)) = Cardinality(T)
  BY <1>1, <1>3, <1>5
<1>8. NewRows(T, s) \in Seq(MembershipRow)
  BY <1>6, <1>7
<1>9. \A i \in DOMAIN NewRows(T, s) : NewRows(T, s)[i].status = s
  BY <1>5, <1>6
<1>10. T # {} => NewRows(T, s) # <<>>
  BY <1>1, <1>7, FS_EmptySet
<1>11. QED
  BY <1>1, <1>7, <1>8, <1>9, <1>10

(* The kinds of conflict the proofs tell apart; the order does not matter, *)
(* and a handler that goes on to its save gains none.                      *)
LEMMA Conflicts ==
  ASSUME NEW a, NEW b
  PROVE  /\ Conflict(a, b) = Conflict(b, a)
         /\ a \in Registering /\ b \in Registering => "registration" \in Conflict(a, b)
         /\ a = "reset" /\ b \in Verifying => "verification" \in Conflict(a, b)
         /\ a = "onboard" /\ b = "onboard" => "onboarding" \in Conflict(a, b)
         /\ a \in {"edit", "save edit"} /\ b \in {"edit", "save edit"} =>
              "edit" \in Conflict(a, b)
         /\ a = "delete" => "deletion" \in Conflict(a, b)
         /\ Conflict("save user", b) \subseteq Conflict("change password", b)
         /\ Conflict("save edit", b) \subseteq Conflict("edit", b)
<1>1. Conflict(a, b) = Conflict(b, a)
  <2>1. {a, b} = {b, a}
    OBVIOUS
  <2>2. QED
    BY <2>1 DEF Conflict
<1>2. /\ a \in Registering /\ b \in Registering => "registration" \in Conflict(a, b)
      /\ a = "reset" /\ b \in Verifying => "verification" \in Conflict(a, b)
      /\ a = "onboard" /\ b = "onboard" => "onboarding" \in Conflict(a, b)
  BY DEF Conflict
<1>3. /\ a \in {"edit", "save edit"} /\ b \in {"edit", "save edit"} =>
           "edit" \in Conflict(a, b)
      /\ a = "delete" => "deletion" \in Conflict(a, b)
  BY DEF Conflict
<1>4. Conflict("save user", b) \subseteq Conflict("change password", b)
  <2> SUFFICES ASSUME NEW c \in Conflict("save user", b)
               PROVE  c \in Conflict("change password", b)
    OBVIOUS
  <2>1. c # "verification"
    <3> SUFFICES ASSUME c = "verification" PROVE FALSE
      OBVIOUS
    <3>1. "reset" \in {"save user", b} /\ {"save user", b} \cap Verifying # {}
      BY DEF Conflict
    <3>2. QED
      BY <3>1
  <2>2. c # "onboarding"
    <3> SUFFICES ASSUME c = "onboarding" PROVE FALSE
      OBVIOUS
    <3>1. {"save user", b} = {"onboard"}
      BY DEF Conflict
    <3>2. "save user" \in {"onboard"}
      BY <3>1
    <3>3. QED
      BY <3>2
  <2>3. c = "deletion" /\ b = "delete"
    BY <2>1, <2>2 DEF Conflict
  <2>4. QED
    BY <2>3 DEF Conflict
<1>5. Conflict("save edit", b) \subseteq Conflict("edit", b)
  BY DEF Conflict
<1>6. QED
  BY <1>1, <1>2, <1>3, <1>4, <1>5

(* What no step undoes: who is registered, and where, and what is active.  *)
Onward ==
  \A u \in Users :
    /\ user[u].status # "absent" =>
         /\ user'[u].status # "absent"
         /\ user'[u].home = user[u].home
         /\ account'[u] = Pending => account[u] = Pending
    /\ account[u] = "ACTIVE" => account'[u] = "ACTIVE"
    /\ association[u] = "ACTIVE" => association'[u] = "ACTIVE"
    /\ DOMAIN membership[u] \subseteq DOMAIN membership'[u]

(* A handler that does not take part can rely on what it has looked up.    *)
LEMMA OthersKeep ==
  ASSUME Shape, Onward, NEW k \in Handlers, handler'[k] = handler[k],
         handler[k].op \in Registering =>
           user'[handler[k].read] = user[handler[k].read]
  PROVE  HandlerOK(k)'
<1>1. HandlerOK(k) /\ RequestsOK
  BY DEF Shape
<1> DEFINE q == handler[k]
<1>2. q.op \in OnUser => q.on \in Users
  BY <1>1 DEF RequestsOK, RequestOK
<1>3. q.op \in {"edit", "save edit"} => user[q.on].home \in Users
  BY <1>1, <1>2 DEF HandlerOK, Holds, Shape, UserOK
<1>4. /\ q.op = "add member" => q.by.home \in Users
      /\ q.op = "delete" => q.by \in Users
  BY <1>1 DEF RequestsOK, RequestOK
<1> HIDE DEF q
<1>5. /\ q.op \in Registering => user'[q.read] = NoUser
      /\ q.op = "add member" => association'[q.by.home] = "ACTIVE"
      /\ q.op \in OnUser => user'[q.on].status # "absent"
  BY <1>1, <1>2, <1>4 DEF HandlerOK, Holds, Onward, q
<1>6. /\ q.op = "reset" => (account'[q.on] = Pending => q.read = Pending)
      /\ q.op = "save user" => account'[q.on] # Pending
      /\ q.op = "onboard" => account'[q.on] = "ACTIVE"
      /\ q.op = "delete" => association'[q.by] = "ACTIVE"
  BY <1>1, <1>2, <1>4 DEF HandlerOK, Holds, Onward, q
<1>7. /\ q.op \in {"edit", "save edit"} => association'[user'[q.on].home] = "ACTIVE"
      /\ q.op = "save edit" => /\ q.read.found \subseteq DOMAIN membership'[q.on]
                               /\ \A i, j \in q.read.found : i = j
  BY <1>1, <1>2, <1>3 DEF HandlerOK, Holds, Onward, q
<1>8. QED
  BY <1>5, <1>6, <1>7 DEF HandlerOK, Holds, q

(* A step that writes no row.                                              *)
LEMMA RowsKept ==
  ASSUME Shape, UNCHANGED <<rows, mail>>
  PROVE  TablesOK' /\ Onward /\ \A u \in Users : UserOK(u)'
<1> USE DEF rows
<1>1. TablesOK'
  BY DEF Shape, TablesOK
<1>2. Onward
  BY DEF Onward
<1>3. ASSUME NEW u \in Users PROVE UserOK(u)'
  BY <1>3 DEF Shape, UserOK, RowsWith
<1>4. QED
  BY <1>1, <1>2, <1>3

(* A request begins: what it conflicts with is recorded, and nothing else  *)
(* changes.                                                                *)
LEMMA BeginRecords ==
  ASSUME RequestsOK, NEW h \in Handlers,
         NEW op, NEW on, NEW by, NEW read, Begin(h, op, on, by, read)
  PROVE  /\ handler'[h] = [op |-> op, on |-> on, by |-> by, read |-> read]
         /\ \A k \in Handlers \ {h} : handler'[k] = handler[k]
         /\ conflicts \subseteq conflicts'
         /\ \A k \in Handlers :
              handler[k].on = on => Conflict(op, handler[k].op) \subseteq conflicts'
<1>1. /\ handler'[h] = [op |-> op, on |-> on, by |-> by, read |-> read]
      /\ \A k \in Handlers \ {h} : handler'[k] = handler[k]
  BY DEF Begin, RequestsOK
<1>2. conflicts \subseteq conflicts'
  BY DEF Begin
<1>3. ASSUME NEW k \in Handlers, handler[k].on = on
      PROVE  Conflict(op, handler[k].op) \subseteq conflicts'
  BY <1>3 DEF Begin
<1>4. QED
  BY <1>1, <1>2, <1>3

(* A handler begins: the shape holds if what it has looked up does.        *)
LEMMA BeginShape ==
  ASSUME Shape, NEW h \in Handlers, UNCHANGED <<rows, mail>>,
         NEW op, NEW on, NEW by, NEW read, Begin(h, op, on, by, read),
         on # None,
         RequestOK([op |-> op, on |-> on, by |-> by, read |-> read]),
         Holds([op |-> op, on |-> on, by |-> by, read |-> read]),
         op \in Registering => \A k \in Handlers : handler[k].read # read
  PROVE  Shape'
<1>1. RequestsOK /\ Apart /\ OwnRows
  BY DEF Shape
<1>2. TablesOK' /\ Onward /\ \A u \in Users : UserOK(u)'
  BY RowsKept
<1> DEFINE q == [op |-> op, on |-> on, by |-> by, read |-> read]
<1>0. handler'[h] = q
  BY <1>1 DEF Begin, RequestsOK
<1>3. /\ handler'[h].op = op /\ handler'[h].on = on /\ handler'[h].read = read
      /\ \A k \in Handlers \ {h} : handler'[k] = handler[k]
      /\ conflicts \subseteq conflicts'
      /\ \A k \in Handlers :
           handler[k].on = on => Conflict(op, handler[k].op) \subseteq conflicts'
  <2>1. /\ handler'[h] = q
        /\ \A k \in Handlers \ {h} : handler'[k] = handler[k]
        /\ conflicts \subseteq conflicts'
        /\ \A k \in Handlers :
             handler[k].on = on => Conflict(op, handler[k].op) \subseteq conflicts'
    BY <1>1, BeginRecords
  <2>2. handler'[h].op = op /\ handler'[h].on = on /\ handler'[h].read = read
    BY ONLY <1>0
  <2>3. QED
    BY <2>1, <2>2, Zenon
<1>4. RequestsOK'
  <2>1. \A k \in Handlers : RequestOK(handler'[k])
    BY <1>0, <1>1, <1>3 DEF RequestsOK
  <2>2. handler' = [k \in Handlers |-> handler'[k]]
    BY <1>1 DEF Begin, RequestsOK
  <2>3. QED
    BY <2>1, <2>2 DEF RequestsOK
<1>4a. Holds(q)
  OBVIOUS
<1> HIDE DEF q
<1>5. ASSUME NEW k \in Handlers PROVE HandlerOK(k)'
  <2>1. CASE k = h
    <3>1. Holds(q)'
      BY <1>4a DEF Holds, rows
    <3>2. QED
      BY <1>0, <2>1, <3>1 DEF HandlerOK
  <2>2. CASE k # h
    <3>1. handler'[k] = handler[k]
      BY <1>3, <2>2
    <3>2. user' = user
      BY DEF rows
    <3>3. QED
      BY <1>2, <3>1, <3>2, OthersKeep
  <2>3. QED
    BY <2>1, <2>2
<1>6. Apart'
  <2> SUFFICES ASSUME NEW j \in Handlers, NEW k \in Handlers, j # k,
                      handler'[j].on = handler'[k].on, handler'[j].on # None
               PROVE  Conflict(handler'[j].op, handler'[k].op) \subseteq conflicts'
    BY DEF Apart
  <2>1. CASE j = h
    BY <1>3, <2>1
  <2>2. CASE k = h
    <3>1. Conflict(handler'[k].op, handler'[j].op) \subseteq conflicts'
      BY <1>3, <2>2
    <3>2. QED
      BY <3>1, Conflicts
  <2>3. CASE j # h /\ k # h
    <3>1. Conflict(handler[j].op, handler[k].op) \subseteq conflicts
      BY <1>1, <1>3, <2>3 DEF Apart
    <3>2. QED
      BY <1>3, <2>3, <3>1
  <2>4. QED
    BY <2>1, <2>2, <2>3
<1>7. OwnRows'
  <2> SUFFICES ASSUME NEW j \in Handlers, NEW k \in Handlers, j # k,
                      handler'[j].op \in Registering, handler'[k].op \in Registering
               PROVE  handler'[j].read # handler'[k].read
    BY DEF OwnRows
  <2>1. CASE j = h
    BY <1>3, <2>1
  <2>2. CASE k = h
    BY <1>3, <2>2
  <2>3. CASE j # h /\ k # h
    BY <1>1, <1>3, <2>3 DEF OwnRows
  <2>4. QED
    BY <2>1, <2>2, <2>3
<1>8. QED
  BY <1>2, <1>4, <1>5, <1>6, <1>7 DEF Shape

(* Nothing but the rows of one user, and those of an association of the    *)
(* user's, is written.                                                     *)
OnlyAt(u) ==
  \A v \in Users \ {u} :
    /\ user'[v] = user[v] /\ membership'[v] = membership[v]
    /\ account'[v] = account[v] /\ association'[v] = association[v]
    /\ wallets'[v] = wallets[v]

(* Then the rows of all other users are as consistent as they were.        *)
LEMMA OthersOK ==
  ASSUME Shape, NEW u \in Users, OnlyAt(u), Onward, UserOK(u)'
  PROVE  \A v \in Users : UserOK(v)'
<1> SUFFICES ASSUME NEW v \in Users, v # u PROVE UserOK(v)'
  OBVIOUS
<1>1. UserOK(v) /\ user[v].home \in Users \cup {None}
  BY DEF Shape, TablesOK, UserRow
<1>2. association[user[v].home] = "ACTIVE" /\ user[v].home # None =>
        association'[user[v].home] = "ACTIVE"
  BY <1>1 DEF Onward
<1>3. user[v].status # "absent" => user[v].home \in Users
  BY <1>1 DEF UserOK
<1>4. /\ user'[v] = user[v] /\ membership'[v] = membership[v]
      /\ account'[v] = account[v] /\ association'[v] = association[v]
      /\ wallets'[v] = wallets[v]
  BY DEF OnlyAt
<1>5. RowsWith(v, Pending)' = RowsWith(v, Pending)
  BY <1>4 DEF RowsWith
<1>6. user[v].status # "absent" /\ user[v].home # v =>
        association'[user[v].home] = "ACTIVE"
  BY <1>1, <1>2, <1>3, AccountsAssumption DEF UserOK, AccountsAssumption
<1>7. (IF user[v].status = "absent"
         THEN user[v] = NoUser /\ membership[v] = <<>> /\ account[v] = "absent"
         ELSE /\ user[v].home \in Users
              /\ user[v].email \in Emails
              /\ user[v].info \in {"ACTIVE", "DELETED"}
              /\ membership[v] # <<>>
              /\ user[v].home # v => association'[user[v].home] = "ACTIVE")
  BY <1>1, <1>6 DEF UserOK
<1>8. QED
  BY <1>1, <1>4, <1>5, <1>7 DEF UserOK

(* A handler goes on to its next step, or ends, and has written rows.      *)
LEMMA MoveShape ==
  ASSUME Shape, NEW h \in Handlers,
         handler' = [handler EXCEPT ![h] = handler'[h]], conflicts' = conflicts,
         TablesOK', Onward, \A u \in Users : UserOK(u)',
         RequestOK(handler'[h]), HandlerOK(h)',
         handler'[h].op \notin Registering,
         handler'[h].on # None =>
           /\ handler'[h].on = handler[h].on
           /\ \A b : Conflict(handler'[h].op, b) \subseteq Conflict(handler[h].op, b),
         \A k \in Handlers \ {h} :
           handler[k].op \in Registering =>
             user'[handler[k].read] = user[handler[k].read]
  PROVE  Shape'
<1>1. RequestsOK /\ Apart /\ OwnRows
  BY DEF Shape
<1>2. \A k \in Handlers \ {h} : handler'[k] = handler[k]
  BY <1>1 DEF RequestsOK
<1>3. RequestsOK'
  <2>1. \A k \in Handlers : RequestOK(handler'[k])
    BY <1>1, <1>2 DEF RequestsOK
  <2>2. handler' = [k \in Handlers |-> handler'[k]]
    BY <1>1 DEF RequestsOK
  <2>3. QED
    BY <2>1, <2>2 DEF RequestsOK
<1>4. ASSUME NEW k \in Handlers PROVE HandlerOK(k)'
  <2>1. CASE k = h
    BY <2>1
  <2>2. CASE k # h
    BY <1>2, <2>2, OthersKeep
  <2>3. QED
    BY <2>1, <2>2
<1>5. Apart'
  <2> SUFFICES ASSUME NEW j \in Handlers, NEW k \in Handlers, j # k,
                      handler'[j].on = handler'[k].on, handler'[j].on # None
               PROVE  Conflict(handler'[j].op, handler'[k].op) \subseteq conflicts
    BY DEF Apart
  <2>1. handler[j].on = handler[k].on /\ handler[j].on # None
    BY <1>2
  <2>2. Conflict(handler[j].op, handler[k].op) \subseteq conflicts
    BY <1>1, <2>1 DEF Apart
  <2>3. CASE j = h
    BY <1>2, <2>2, <2>3
  <2>4. CASE k = h
    <3>1. Conflict(handler'[h].op, handler[j].op)
            \subseteq Conflict(handler[h].op, handler[j].op)
      BY <2>4
    <3>2. /\ Conflict(handler[h].op, handler[j].op) = Conflict(handler[j].op, handler[h].op)
          /\ Conflict(handler'[h].op, handler[j].op) = Conflict(handler[j].op, handler'[h].op)
      BY Conflicts
    <3>3. QED
      BY <1>2, <2>2, <2>4, <3>1, <3>2
  <2>5. CASE j # h /\ k # h
    BY <1>2, <2>2, <2>5
  <2>6. QED
    BY <2>3, <2>4, <2>5
<1>6. OwnRows'
  BY <1>1, <1>2 DEF OwnRows
<1>7. QED
  BY <1>3, <1>4, <1>5, <1>6 DEF Shape

(* An idle handler has looked up nothing.                                  *)
LEMMA Idle ==
  /\ NoRequest.op = "idle" /\ NoRequest.on = None
  /\ RequestOK(NoRequest) /\ Holds(NoRequest)
BY DEF RequestOK, Holds

(* A row nobody has been inserted in.                                      *)
LEMMA Absent ==
  NoUser.status = "absent" /\ NoUser.info = "absent" /\ NoUser.home = None
OBVIOUS

HIDE DEF NoRequest, NoUser

(* A handler ends and has written the rows of a user.                      *)
LEMMA SaveShape ==
  ASSUME Shape, NEW h \in Handlers, NEW u \in Users, End(h),
         TablesOK', OnlyAt(u), Onward, UserOK(u)',
         \A k \in Handlers \ {h} : handler[k].op \in Registering => handler[k].read # u
  PROVE  Shape'
<1>1. RequestsOK
  BY DEF Shape
<1>0. handler' = [handler EXCEPT ![h] = handler'[h]]
  BY <1>1 DEF End, RequestsOK
<1>2. handler'[h] = NoRequest
  BY <1>1 DEF End, RequestsOK
<1>3. RequestOK(handler'[h]) /\ HandlerOK(h)'
  <2>1. Holds(NoRequest)'
    BY Idle DEF Holds
  <2>2. QED
    BY <1>2, <2>1, Idle DEF HandlerOK
<1>4. handler'[h].op \notin Registering /\ handler'[h].on = None
  BY <1>2, Idle
<1>5. \A v \in Users : UserOK(v)'
  BY OthersOK
<1>6. ASSUME NEW k \in Handlers \ {h}, handler[k].op \in Registering
      PROVE  user'[handler[k].read] = user[handler[k].read]
  BY <1>1, <1>6 DEF RequestsOK, RequestOK, OnlyAt
<1>7. conflicts' = conflicts
  BY DEF End
<1>8. QED
  BY <1>0, <1>3, <1>4, <1>5, <1>6, <1>7, MoveShape

(* What a token says about the user who follows it.                        *)
LEMMA Tokens ==
  ASSUME NEW u \in Users
  PROVE  /\ LoggedIn(u) => user[u].status = "ACTIVE"
         /\ VerifyBearerToken(u, "verify") => user[u].status = Pending
         /\ \A link \in Link \ {"verify"} :
              VerifyBearerToken(u, link) =>
                IF Signed(link).user = Pending THEN user[u].status = Pending
                                               ELSE user[u].status = "IN_ACTIVE"
BY DEF LoggedIn, VerifyBearerToken, FindByIdAndStatus, Signed

(* Whoever acts for an association is one of its active users.             *)
LEMMA Principals ==
  ASSUME Shape, NEW p \in Users, Principal(p)
  PROVE  user[p].home \in Users /\ association[user[p].home] = "ACTIVE"
<1>1. user[p].status = "ACTIVE"
  BY Tokens DEF Principal
<1>2. QED
  BY <1>1 DEF Principal, Shape, UserOK

(* The row a registration is going to insert.                              *)
LEMMA Vacant ==
  ASSUME NEW u \in Users, FreeRow(u)
  PROVE  user[u] = NoUser /\ \A h \in Handlers : handler[h].read # u
BY DEF FreeRow, FreeRows

(* The one active account of a founder whose association is pending is the *)
(* executive account.                                                      *)
LEMMA OnlyAccount ==
  ASSUME Shape, NEW u \in Users, user[u].home = u, association[u] = Pending,
         Cardinality(AccountsWith(u, "ACTIVE")) = 1
  PROVE  account[u] = "ACTIVE"
<1>1. PICK t \in AccountType : AccountStatus(u, t) = "ACTIVE"
  <2>1. AccountsWith(u, "ACTIVE") # {}
    BY FS_EmptySet
  <2>2. QED
    BY <2>1 DEF AccountsWith, AccountsOf
<1>2. ~(wallets[u] > 0)
  BY DEF Shape, UserOK
<1>3. QED
  BY <1>1, <1>2 DEF AccountStatus

-----------------------------------------------------------------------------
(* Every request that begins is one that can rely on what it has read.     *)
LEMMA RequestShape ==
  ASSUME Shape, NEW h \in Handlers, Request(h)
  PROVE  Shape'
<1> USE AccountsAssumption DEF AccountsAssumption
<1>0. PICK u \in Users :
        \/ \E e \in Emails :
             \/ SignUp(h, u, e)
             \/ \E p \in Users, T \in Types : AddMember(h, p, u, e, T)
        \/ Verify(h, u)
        \/ RequestReset(h, u)
        \/ ChangePassword(h, u)
        \/ UpdateProfile(h, u)
        \/ Onboard(h, u)
        \/ \E p \in Users :
             \/ DeleteMember(h, p, u)
             \/ \E T \in Types : EditMember(h, p, u, T)
  BY DEF Request
<1>u. UserOK(u) /\ user[u] \in UserRow
  BY DEF Shape, TablesOK
<1>1. ASSUME NEW e \in Emails, SignUp(h, u, e)
      PROVE  Shape'
  <2>1. user[u] = NoUser /\ \A k \in Handlers : handler[k].read # u
    BY <1>1, Vacant DEF SignUp
  <2>2. RequestOK([op |-> "sign up", on |-> e, by |-> None, read |-> u])
    BY DEF RequestOK
  <2>3. Holds([op |-> "sign up", on |-> e, by |-> None, read |-> u])
    BY <2>1 DEF Holds
  <2>4. QED
    BY <1>1, <2>1, <2>2, <2>3, BeginShape DEF SignUp
<1>2. ASSUME NEW e \in Emails, NEW p \in Users, NEW T \in Types, AddMember(h, p, u, e, T)
      PROVE  Shape'
  <2> DEFINE by == [home |-> user[p].home, types |-> T]
  <2>1. user[u] = NoUser /\ \A k \in Handlers : handler[k].read # u
    BY <1>2, Vacant DEF AddMember
  <2>2. user[p].home \in Users /\ association[user[p].home] = "ACTIVE"
    BY <1>2, Principals DEF AddMember
  <2>3. RequestOK([op |-> "add member", on |-> e, by |-> by, read |-> u])
    BY <2>2 DEF RequestOK
  <2>4. Holds([op |-> "add member", on |-> e, by |-> by, read |-> u])
    BY <2>1, <2>2 DEF Holds
  <2>5. Begin(h, "add member", e, by, u) /\ UNCHANGED <<rows, mail>>
    BY <1>2 DEF AddMember
  <2>6. e # None
    OBVIOUS
  <2> HIDE DEF by
  <2>7. QED
    BY <2>1, <2>3, <2>4, <2>5, <2>6, BeginShape
<1>3. CASE Verify(h, u)
  <2>1. user[u].status = Pending
    BY <1>3, Tokens DEF Verify
  <2>2. RequestOK([op |-> "verify", on |-> u, by |-> None, read |-> Pending])
    BY DEF RequestOK
  <2>3. Holds([op |-> "verify", on |-> u, by |-> None, read |-> Pending])
    BY <2>1 DEF Holds
  <2>4. QED
    BY <1>3, <2>2, <2>3, BeginShape DEF Verify
<1>4. CASE RequestReset(h, u)
  <2> DEFINE status == user[u].status
  <2>1. status \in {"ACTIVE", "IN_ACTIVE", Pending}
    BY <1>4 DEF RequestReset
  <2>2. RequestOK([op |-> "reset", on |-> u, by |-> None, read |-> status])
    BY <2>1 DEF RequestOK
  <2>3. Holds([op |-> "reset", on |-> u, by |-> None, read |-> status])
    BY <1>u, <2>1 DEF Holds, UserOK
  <2>4. Begin(h, "reset", u, None, status) /\ UNCHANGED <<rows, mail>> /\ u # None
    BY <1>4 DEF RequestReset
  <2> HIDE DEF status
  <2>5. QED
    BY <2>2, <2>3, <2>4, BeginShape
<1>5. CASE ChangePassword(h, u)
  <2>1. PICK link \in mail[u] \ {"verify"} :
          /\ VerifyBearerToken(u, link)
          /\ Begin(h, IF Signed(link).user = Pending THEN "change password" ELSE "save user",
                   u, None, "ACTIVE")
    BY <1>5 DEF ChangePassword
  <2>2. link \in Link \ {"verify"}
    BY <2>1 DEF Shape, TablesOK
  <2>3. CASE Signed(link).user = Pending
    <3>1. user[u].status = Pending
      BY <2>1, <2>2, <2>3, Tokens
    <3>2. RequestOK([op |-> "change password", on |-> u, by |-> None, read |-> "ACTIVE"])
      BY DEF RequestOK
    <3>3. Holds([op |-> "change password", on |-> u, by |-> None, read |-> "ACTIVE"])
      BY <3>1 DEF Holds
    <3>4. Begin(h, "change password", u, None, "ACTIVE")
      BY <2>1, <2>3
    <3>5. QED
      BY <1>5, <3>2, <3>3, <3>4, BeginShape DEF ChangePassword
  <2>4. CASE Signed(link).user # Pending
    <3>1. user[u].status = "IN_ACTIVE"
      BY <2>1, <2>2, <2>4, Tokens
    <3>2. RequestOK([op |-> "save user", on |-> u, by |-> None, read |-> "ACTIVE"])
      BY DEF RequestOK
    <3>3. Holds([op |-> "save user", on |-> u, by |-> None, read |-> "ACTIVE"])
      BY <1>u, <3>1 DEF Holds, UserOK
    <3>4. Begin(h, "save user", u, None, "ACTIVE")
      BY <2>1, <2>4
    <3>5. QED
      BY <1>5, <3>2, <3>3, <3>4, BeginShape DEF ChangePassword
  <2>5. QED
    BY <2>3, <2>4
<1>6. CASE UpdateProfile(h, u)
  <2>1. user[u].status = "ACTIVE"
    BY <1>6, Tokens DEF UpdateProfile
  <2>2. RequestOK([op |-> "save user", on |-> u, by |-> None, read |-> "ACTIVE"])
    BY DEF RequestOK
  <2>3. Holds([op |-> "save user", on |-> u, by |-> None, read |-> "ACTIVE"])
    BY <1>u, <2>1 DEF Holds, UserOK
  <2>4. QED
    BY <1>6, <2>2, <2>3, BeginShape DEF UpdateProfile
<1>7. CASE Onboard(h, u)
  <2>1. user[u].status = "ACTIVE" /\ account[u] = "ACTIVE"
    BY <1>7, Tokens, OnlyAccount DEF Onboard
  <2>2. RequestOK([op |-> "onboard", on |-> u, by |-> None, read |-> Pending])
    BY DEF RequestOK
  <2>3. Holds([op |-> "onboard", on |-> u, by |-> None, read |-> Pending])
    BY <2>1 DEF Holds
  <2>4. QED
    BY <1>7, <2>2, <2>3, BeginShape DEF Onboard
<1>8. ASSUME NEW p \in Users, DeleteMember(h, p, u)
      PROVE  Shape'
  <2>1. user[u].status # "absent"
    BY <1>u, <1>8, Absent DEF DeleteMember, UserOK
  <2>2. user[p].home \in Users /\ association[user[p].home] = "ACTIVE"
    BY <1>8, Principals DEF DeleteMember
  <2>3. RequestOK([op |-> "delete", on |-> u, by |-> user[p].home, read |-> "ACTIVE"])
    BY <2>2 DEF RequestOK
  <2>4. Holds([op |-> "delete", on |-> u, by |-> user[p].home, read |-> "ACTIVE"])
    BY <2>1, <2>2 DEF Holds
  <2>5. QED
    BY <1>8, <2>3, <2>4, BeginShape DEF DeleteMember
<1>9. ASSUME NEW p \in Users, NEW T \in Types, EditMember(h, p, u, T)
      PROVE  Shape'
  <2> DEFINE read == [status |-> user[u].status, info |-> user[u].info]
  <2>1. user[u].status # "absent" /\ read \in Reading
    BY <1>u, <1>9, Absent DEF EditMember, UserOK, UserRow, Reading
  <2>2. user[u].home = user[p].home /\ association[user[p].home] = "ACTIVE"
    BY <1>9, Principals DEF EditMember
  <2>3. RequestOK([op |-> "edit", on |-> u, by |-> T, read |-> read])
    BY <2>1 DEF RequestOK
  <2>4. Holds([op |-> "edit", on |-> u, by |-> T, read |-> read])
    BY <2>1, <2>2 DEF Holds
  <2>5. Begin(h, "edit", u, T, read) /\ UNCHANGED <<rows, mail>>
    BY <1>9 DEF EditMember
  <2> HIDE DEF read
  <2>6. QED
    BY <2>3, <2>4, <2>5, BeginShape
<1>10. QED
  BY <1>0, <1>1, <1>2, <1>3, <1>4, <1>5, <1>6, <1>7, <1>8, <1>9

-----------------------------------------------------------------------------
(* Saves.  Setting the status of some membership rows keeps all else.      *)
LEMMA SetRowsFacts ==
  ASSUME NEW u \in Users, membership[u] \in Seq(MembershipRow),
         NEW I, NEW s \in {Pending, "ACTIVE", "DELETED"}
  PROVE  /\ SetRows(u, I, s) \in Seq(MembershipRow)
         /\ Len(SetRows(u, I, s)) = Len(membership[u])
         /\ DOMAIN SetRows(u, I, s) = DOMAIN membership[u]
         /\ \A i \in DOMAIN membership[u] :
              /\ SetRows(u, I, s)[i].type = membership[u][i].type
              /\ SetRows(u, I, s)[i].status =
                   IF i \in I THEN s ELSE membership[u][i].status
<1> DEFINE old == membership[u]
           new == SetRows(u, I, s)
<1>1. DOMAIN old = 1 .. Len(old) /\ \A i \in DOMAIN old : old[i] \in MembershipRow
  OBVIOUS
<1>2. DOMAIN new = DOMAIN old
  BY DEF SetRows
<1>3. \A i \in DOMAIN old :
        new[i] = IF i \in I THEN [old[i] EXCEPT !.status = s] ELSE old[i]
  BY DEF SetRows
<1>4. \A i \in DOMAIN old :
        /\ [old[i] EXCEPT !.status = s] \in MembershipRow
        /\ [old[i] EXCEPT !.status = s].type = old[i].type
        /\ [old[i] EXCEPT !.status = s].status = s
  BY <1>1 DEF MembershipRow
<1>5. new \in [DOMAIN old -> MembershipRow]
  BY <1>1, <1>4 DEF SetRows
<1> HIDE DEF new
<1>7. new \in [1 .. Len(old) -> MembershipRow] /\ Len(old) \in Nat
  BY <1>1, <1>5
<1>8. new \in Seq(MembershipRow) /\ Len(new) = Len(old)
  BY <1>7
<1>9. QED
  BY <1>2, <1>3, <1>4, <1>8 DEF new

(* The row a handler is at.                                                *)
LEMMA AtUser ==
  ASSUME Shape, NEW h \in Handlers, handler[h].op \in OnUser
  PROVE  LET u == handler[h].on IN
         /\ u \in Users
         /\ user[u] \in UserRow /\ user[u].status # "absent"
         /\ membership[u] \in Seq(MembershipRow) /\ membership[u] # <<>>
         /\ \A k \in Handlers : handler[k].op \in Registering => handler[k].read # u
<1> DEFINE u == handler[h].on
<1>1. RequestsOK /\ Holds(handler[h])
  BY DEF Shape, HandlerOK
<1>2. u \in Users /\ user[u].status # "absent"
  BY <1>1 DEF RequestsOK, RequestOK, Holds
<1>3. user[u] \in UserRow /\ membership[u] \in Seq(MembershipRow) /\ membership[u] # <<>>
  <2>1. TablesOK /\ UserOK(u)
    BY <1>2 DEF Shape
  <2>2. membership[u] # <<>>
    BY <1>2, <2>1 DEF UserOK
  <2>3. QED
    BY <1>2, <2>1, <2>2 DEF TablesOK
<1>4. ASSUME NEW k \in Handlers, handler[k].op \in Registering
      PROVE  handler[k].read # u
  <2>1. user[handler[k].read] = NoUser
    BY <1>4 DEF Shape, HandlerOK, Holds
  <2>2. QED
    BY <1>2, <2>1, Absent
<1>5. QED
  BY <1>2, <1>3, <1>4

(* A user whose account is not pending has no pending rows, and one of an  *)
(* active association has no pending account.                              *)
LEMMA NoPending ==
  ASSUME Shape, NEW u \in Users
  PROVE  /\ account[u] # Pending => RowsWith(u, Pending) = {}
         /\ user[u].home \in Users /\ association[user[u].home] = "ACTIVE" =>
              account[u] # Pending
BY DEF Shape, UserOK

(* A password reset.                                                       *)
LEMMA ResetPasswordShape ==
  ASSUME Shape, NEW h \in Handlers, ResetPassword(h)
  PROVE  Shape'
<1>1. handler[h].op = "reset" /\ Holds(handler[h])
  BY DEF ResetPassword, Shape, HandlerOK
<1>u. PICK u \in Users : u = handler[h].on
  BY <1>1, AtUser
<1>s. PICK s : s = ResetStatus(handler[h].read)
  OBVIOUS
<1>2. /\ user[u] \in UserRow /\ user[u].status # "absent"
      /\ \A k \in Handlers : handler[k].op \in Registering => handler[k].read # u
      /\ membership[u] # <<>>
  BY <1>1, <1>u, AtUser
<1>3. /\ user' = [user EXCEPT ![u].status = s]
      /\ mail' = [mail EXCEPT ![u] = @ \cup {ResetLink(s)}]
      /\ End(h) /\ UNCHANGED <<membership, account, association, wallets>>
  BY <1>u, <1>s DEF ResetPassword, Send
<1>4. s \in {Pending, "IN_ACTIVE"} /\ (account[u] = Pending => s = Pending)
  BY <1>1, <1>u, <1>s DEF Holds, ResetStatus
<1>5. ResetLink(s) \in Link
  BY DEF ResetLink
<1>6. TablesOK /\ UserOK(u)
  BY <1>2 DEF Shape
<1>7. user' \in [Users -> UserRow] /\ \A v \in Users \ {u} : user'[v] = user[v]
  BY <1>2, <1>3, <1>4, <1>6 DEF TablesOK, UserRow
<1>8. /\ user'[u].status = s /\ user'[u].home = user[u].home
      /\ user'[u].email = user[u].email /\ user'[u].info = user[u].info
  BY <1>2, <1>3, <1>6 DEF TablesOK, UserRow
<1>9. TablesOK'
  <2>1. mail' \in [Users -> SUBSET Link]
    BY <1>2, <1>3, <1>5, <1>6 DEF TablesOK
  <2>2. QED
    BY <1>3, <1>6, <1>7, <2>1 DEF TablesOK
<1>10. OnlyAt(u) /\ Onward
  BY <1>2, <1>3, <1>4, <1>7, <1>8 DEF OnlyAt, Onward
<1>11. UserOK(u)'
  <2>1. RowsWith(u, Pending)' = RowsWith(u, Pending)
    BY <1>3 DEF RowsWith
  <2>2. user'[u].status # "absent"
    BY <1>4, <1>8
  <2>3. QED
    BY <1>2, <1>3, <1>4, <1>6, <1>8, <2>1, <2>2 DEF UserOK
<1>12. QED
  BY <1>2, <1>3, <1>9, <1>10, <1>11, SaveShape

(* The save of a user who was read ACTIVE.                                 *)
LEMMA SaveActiveUserShape ==
  ASSUME Shape, NEW h \in Handlers, SaveActiveUser(h)
  PROVE  Shape'
<1>1. handler[h].op = "save user" /\ Holds(handler[h])
  BY DEF SaveActiveUser, Shape, HandlerOK
<1>u. PICK u \in Users : u = handler[h].on
  BY <1>1, AtUser
<1>2. /\ user[u] \in UserRow /\ user[u].status # "absent"
      /\ \A k \in Handlers : handler[k].op \in Registering => handler[k].read # u
      /\ membership[u] # <<>>
  BY <1>1, <1>u, AtUser
<1>3. /\ user' = [user EXCEPT ![u].status = "ACTIVE"]
      /\ End(h) /\ UNCHANGED <<membership, account, association, wallets, mail>>
  BY <1>u DEF SaveActiveUser
<1>4. account[u] # Pending
  BY <1>1, <1>u DEF Holds
<1>6. TablesOK /\ UserOK(u)
  BY DEF Shape
<1>7. user' \in [Users -> UserRow] /\ \A v \in Users \ {u} : user'[v] = user[v]
  BY <1>2, <1>3, <1>6 DEF TablesOK, UserRow
<1>8. /\ user'[u].status = "ACTIVE" /\ user'[u].home = user[u].home
      /\ user'[u].email = user[u].email /\ user'[u].info = user[u].info
  BY <1>2, <1>3, <1>6 DEF TablesOK, UserRow
<1>9. TablesOK'
  BY <1>3, <1>6, <1>7 DEF TablesOK
<1>10. OnlyAt(u) /\ Onward
  BY <1>2, <1>3, <1>7, <1>8 DEF OnlyAt, Onward
<1>11. UserOK(u)'
  <2>1. RowsWith(u, Pending)' = RowsWith(u, Pending)
    BY <1>3 DEF RowsWith
  <2>2. QED
    BY <1>2, <1>3, <1>4, <1>6, <1>8, <2>1 DEF UserOK
<1>12. QED
  BY <1>2, <1>3, <1>9, <1>10, <1>11, SaveShape

(* An onboarding.                                                          *)
LEMMA CreateAssociationShape ==
  ASSUME Shape, NEW h \in Handlers, CreateAssociation(h)
  PROVE  Shape'
<1>1. handler[h].op = "onboard" /\ Holds(handler[h])
  BY DEF CreateAssociation, Shape, HandlerOK
<1>u. PICK u \in Users : u = handler[h].on
  BY <1>1, AtUser
<1>2. /\ user[u].status # "absent"
      /\ \A k \in Handlers : handler[k].op \in Registering => handler[k].read # u
  BY <1>1, <1>u, AtUser
<1>3. /\ wallets[u] < MaxWallets
      /\ wallets' = [wallets EXCEPT ![u] = @ + 1]
      /\ association' = [association EXCEPT ![u] = "ACTIVE"]
      /\ End(h) /\ UNCHANGED <<user, membership, account, mail>>
  BY <1>u DEF CreateAssociation
<1>4. account[u] = "ACTIVE"
  BY <1>1, <1>u DEF Holds
<1>5. TablesOK /\ UserOK(u)
  BY DEF Shape
<1>6. /\ wallets'[u] \in Nat /\ wallets'[u] > 0 /\ wallets'[u] <= MaxWallets
      /\ association'[u] = "ACTIVE"
  <2>1. MaxWallets \in Nat /\ wallets \in [Users -> 0 .. MaxWallets]
    BY <1>5, AccountsAssumption DEF TablesOK, AccountsAssumption
  <2>2. wallets'[u] = wallets[u] + 1 /\ wallets[u] \in 0 .. MaxWallets
    BY <1>3, <2>1
  <2>3. association'[u] = "ACTIVE"
    BY <1>3, <1>5 DEF TablesOK
  <2>4. QED
    BY <1>3, <2>1, <2>2, <2>3
<1>7. \A v \in Users \ {u} : wallets'[v] = wallets[v] /\ association'[v] = association[v]
  BY <1>3, <1>5 DEF TablesOK
<1>8. TablesOK'
  <2>1. wallets' \in [Users -> 0 .. MaxWallets]
    <3>1. MaxWallets \in Nat /\ wallets \in [Users -> 0 .. MaxWallets]
      BY <1>5, AccountsAssumption DEF TablesOK, AccountsAssumption
    <3>2. wallets[u] + 1 \in 0 .. MaxWallets
      BY <1>3, <3>1
    <3>3. QED
      BY <1>3, <3>1, <3>2
  <2>2. association' \in [Users -> {"absent", Pending, "ACTIVE"}]
    BY <1>3, <1>5 DEF TablesOK
  <2>3. QED
    BY <1>3, <1>5, <2>1, <2>2 DEF TablesOK
<1>9. OnlyAt(u) /\ Onward
  BY <1>3, <1>6, <1>7 DEF OnlyAt, Onward
<1>10. UserOK(u)'
  <2>1. RowsWith(u, Pending)' = RowsWith(u, Pending)
    BY <1>3 DEF RowsWith
  <2>2. QED
    BY <1>2, <1>3, <1>4, <1>5, <1>6, <2>1 DEF UserOK
<1>11. QED
  BY <1>2, <1>3, <1>8, <1>9, <1>10, SaveShape

(* The sign-up of a founder.                                               *)
LEMMA SignPrincipalUserShape ==
  ASSUME Shape, NEW h \in Handlers, SignPrincipalUser(h)
  PROVE  Shape'
<1>1. handler[h].op = "sign up" /\ Holds(handler[h]) /\ RequestOK(handler[h])
  BY DEF SignPrincipalUser, Shape, HandlerOK, RequestsOK
<1>u. PICK u \in Users : u = handler[h].read
  BY <1>1 DEF RequestOK
<1>e. PICK e \in Emails : e = handler[h].on
  BY <1>1 DEF RequestOK
<1>r. PICK r : r = NewRows({"EXECUTIVE_ACCOUNT"}, Pending)
  OBVIOUS
<1>2. /\ user[u] = NoUser
      /\ \A k \in Handlers \ {h} : handler[k].op \in Registering => handler[k].read # u
  BY <1>1, <1>u DEF Holds, Shape, OwnRows
<1>3. /\ user' = [user EXCEPT ![u] = NewUser(e, u, Pending)]
      /\ membership' = [membership EXCEPT ![u] = r]
      /\ account' = [account EXCEPT ![u] = Pending]
      /\ association' = [association EXCEPT ![u] = Pending]
      /\ mail' = [mail EXCEPT ![u] = @ \cup {"verify"}]
      /\ End(h) /\ UNCHANGED wallets
  BY <1>u, <1>e, <1>r DEF SignPrincipalUser, Send
<1>4. TablesOK /\ UserOK(u)
  BY DEF Shape
<1>5. /\ membership[u] = <<>> /\ account[u] = "absent" /\ association[u] = "absent"
      /\ ~(wallets[u] > 0)
  BY <1>2, <1>4, Absent DEF UserOK
<1>6. /\ NewUser(e, u, Pending) \in UserRow
      /\ NewUser(e, u, Pending).status = Pending /\ NewUser(e, u, Pending).home = u
      /\ NewUser(e, u, Pending).email = e /\ NewUser(e, u, Pending).info = "ACTIVE"
  BY DEF NewUser, NewInfo, UserRow
<1>7. /\ r \in Seq(MembershipRow) /\ Len(r) <= MaxRows /\ r # <<>>
      /\ \A i \in DOMAIN r : r[i].status = Pending
  BY <1>r, NewRowsFacts, AccountsAssumption DEF AccountsAssumption
<1>8. /\ user'[u] = NewUser(e, u, Pending) /\ membership'[u] = r
      /\ account'[u] = Pending /\ association'[u] = Pending
      /\ \A v \in Users \ {u} :
           /\ user'[v] = user[v] /\ membership'[v] = membership[v]
           /\ account'[v] = account[v] /\ association'[v] = association[v]
  BY <1>3, <1>4 DEF TablesOK
<1>9. TablesOK'
  <2>1. user' \in [Users -> UserRow]
    BY <1>3, <1>4, <1>6 DEF TablesOK
  <2>2. /\ membership' \in [Users -> Seq(MembershipRow)]
        /\ \A v \in Users : Len(membership'[v]) <= MaxRows
    BY <1>3, <1>4, <1>7 DEF TablesOK
  <2>3. mail' \in [Users -> SUBSET Link]
    BY <1>3, <1>4 DEF TablesOK
  <2>4. QED
    BY <1>3, <1>4, <2>1, <2>2, <2>3 DEF TablesOK
<1>10. OnlyAt(u)
  BY <1>3, <1>8 DEF OnlyAt
<1>11. Onward
  <2>1. user[u].status = "absent" /\ DOMAIN membership[u] = {}
    <3>1. DOMAIN << >> = {}
      OBVIOUS
    <3>2. QED
      BY <1>2, <1>5, <3>1, Absent
  <2>2. QED
    BY <1>5, <1>8, <2>1 DEF Onward
<1>12. UserOK(u)'
  <2>1. RowsWith(u, Pending)' = DOMAIN membership'[u]
    BY <1>7, <1>8 DEF RowsWith
  <2>2. user'[u].status = Pending /\ user'[u].home = u /\ user'[u].email = e
        /\ user'[u].info = "ACTIVE"
    BY <1>6, <1>8
  <2>3. QED
    BY <1>3, <1>5, <1>7, <1>8, <2>1, <2>2 DEF UserOK
<1>13. QED
  BY <1>2, <1>3, <1>9, <1>10, <1>11, <1>12, SaveShape

(* The registration of a member.                                           *)
LEMMA CreateAssociationMemberShape ==
  ASSUME Shape, NEW h \in Handlers, CreateAssociationMember(h)
  PROVE  Shape'
<1>1. handler[h].op = "add member" /\ Holds(handler[h]) /\ RequestOK(handler[h])
  BY DEF CreateAssociationMember, Shape, HandlerOK, RequestsOK
<1>u. PICK u \in Users : u = handler[h].read
  BY <1>1 DEF RequestOK
<1>e. PICK e \in Emails : e = handler[h].on
  BY <1>1 DEF RequestOK
<1>a. PICK a \in Users : a = handler[h].by.home
  BY <1>1 DEF RequestOK
<1>t. PICK T \in Types : T = handler[h].by.types
  BY <1>1 DEF RequestOK
<1>r. PICK r : r = NewRows(T, "ACTIVE")
  OBVIOUS
<1>2. /\ user[u] = NoUser /\ association[a] = "ACTIVE"
      /\ \A k \in Handlers \ {h} : handler[k].op \in Registering => handler[k].read # u
  BY <1>1, <1>u, <1>a DEF Holds, Shape, OwnRows
<1>3. /\ user' = [user EXCEPT ![u] = NewUser(e, a, "ACTIVE")]
      /\ membership' = [membership EXCEPT ![u] = r]
      /\ End(h) /\ UNCHANGED <<account, association, wallets, mail>>
  BY <1>u, <1>e, <1>a, <1>t, <1>r DEF CreateAssociationMember
<1>4. TablesOK /\ UserOK(u)
  BY DEF Shape
<1>5. membership[u] = <<>> /\ account[u] = "absent" /\ association[u] = "absent" /\ a # u
  BY <1>2, <1>4, Absent DEF UserOK
<1>6. /\ NewUser(e, a, "ACTIVE") \in UserRow
      /\ NewUser(e, a, "ACTIVE").status = "ACTIVE" /\ NewUser(e, a, "ACTIVE").home = a
      /\ NewUser(e, a, "ACTIVE").email = e /\ NewUser(e, a, "ACTIVE").info = "ACTIVE"
  BY DEF NewUser, NewInfo, UserRow
<1>7. /\ r \in Seq(MembershipRow) /\ Len(r) <= MaxRows /\ r # <<>>
      /\ \A i \in DOMAIN r : r[i].status = "ACTIVE"
  <2>1. T \in SUBSET AccountType /\ T # {} /\ MaxRows \in Nat /\ MaxRows >= 2
    BY AccountsAssumption DEF AccountsAssumption
  <2>2. QED
    BY <1>r, <2>1, NewRowsFacts
<1>8. /\ user'[u] = NewUser(e, a, "ACTIVE") /\ membership'[u] = r
      /\ \A v \in Users \ {u} : user'[v] = user[v] /\ membership'[v] = membership[v]
  BY <1>3, <1>4 DEF TablesOK
<1>9. TablesOK'
  <2>1. user' \in [Users -> UserRow]
    BY <1>3, <1>4, <1>6 DEF TablesOK
  <2>2. /\ membership' \in [Users -> Seq(MembershipRow)]
        /\ \A v \in Users : Len(membership'[v]) <= MaxRows
    BY <1>3, <1>4, <1>7 DEF TablesOK
  <2>3. QED
    BY <1>3, <1>4, <2>1, <2>2 DEF TablesOK
<1>10. OnlyAt(u)
  BY <1>3, <1>8 DEF OnlyAt
<1>11. Onward
  <2>1. DOMAIN << >> = {}
    OBVIOUS
  <2>2. user[u].status = "absent" /\ DOMAIN membership[u] = {}
    BY <1>2, <1>5, <2>1, Absent
  <2>3. QED
    BY <1>3, <1>5, <1>8, <2>2 DEF Onward
<1>12. UserOK(u)'
  <2>1. RowsWith(u, Pending)' = {}
    BY <1>7, <1>8 DEF RowsWith
  <2>2. user'[u].status = "ACTIVE" /\ user'[u].home = a /\ user'[u].email = e
        /\ user'[u].info = "ACTIVE"
    BY <1>6, <1>8
  <2>3. QED
    BY <1>2, <1>3, <1>4, <1>5, <1>7, <1>8, <2>1, <2>2 DEF UserOK
<1>13. QED
  BY <1>2, <1>3, <1>9, <1>10, <1>11, <1>12, SaveShape

(* The rows of a user whose pending account is activated.                  *)
LEMMA ActivateRows ==
  ASSUME Shape, NEW u \in Users, user[u].status # "absent", Activate(u)
  PROVE  /\ TablesOK' /\ OnlyAt(u) /\ Onward /\ UserOK(u)'
         /\ account[u] = Pending /\ account'[u] = "ACTIVE"
<1>r. PICK r : r = SetRows(u, RowsWith(u, Pending), "ACTIVE")
  OBVIOUS
<1>1. /\ RowsWith(u, Pending) # {}
      /\ user' = [user EXCEPT ![u].status = "ACTIVE"]
      /\ account' = [account EXCEPT ![u] = "ACTIVE"]
      /\ membership' = [membership EXCEPT ![u] = r]
      /\ UNCHANGED <<association, wallets, mail>>
  BY <1>r DEF Activate
<1>2. TablesOK /\ UserOK(u) /\ user[u] \in UserRow /\ membership[u] \in Seq(MembershipRow)
  BY DEF Shape, TablesOK
<1>3. account[u] = Pending
  BY <1>1, <1>2 DEF UserOK
<1>4. /\ r \in Seq(MembershipRow) /\ Len(r) = Len(membership[u])
      /\ DOMAIN r = DOMAIN membership[u]
      /\ \A i \in DOMAIN r : r[i].status # Pending
  <2>1. \A i \in DOMAIN membership[u] : i \notin RowsWith(u, Pending) =>
          membership[u][i].status # Pending
    BY DEF RowsWith
  <2>2. QED
    BY <1>r, <1>2, <2>1, SetRowsFacts
<1>5. /\ membership'[u] = r /\ account'[u] = "ACTIVE"
      /\ \A v \in Users \ {u} : /\ user'[v] = user[v] /\ membership'[v] = membership[v]
                               /\ account'[v] = account[v]
  BY <1>1, <1>2 DEF TablesOK
<1>6. /\ user'[u].status = "ACTIVE" /\ user'[u].home = user[u].home
      /\ user'[u].email = user[u].email /\ user'[u].info = user[u].info
      /\ user' \in [Users -> UserRow]
  BY <1>1, <1>2 DEF TablesOK, UserRow
<1>7. TablesOK'
  <2>1. /\ membership' \in [Users -> Seq(MembershipRow)]
        /\ \A v \in Users : Len(membership'[v]) <= MaxRows
    BY <1>1, <1>2, <1>4 DEF TablesOK
  <2>2. account' \in [Users -> {"absent", Pending, "ACTIVE"}]
    BY <1>1, <1>2 DEF TablesOK
  <2>3. QED
    BY <1>1, <1>2, <1>6, <2>1, <2>2 DEF TablesOK
<1>8. OnlyAt(u)
  BY <1>1, <1>5 DEF OnlyAt
<1>9. Onward
  BY <1>1, <1>4, <1>5, <1>6 DEF Onward
<1>10. UserOK(u)'
  <2>1. RowsWith(u, Pending)' = {}
    BY <1>4, <1>5 DEF RowsWith
  <2>2. membership'[u] # <<>>
    <3>1. DOMAIN r # {}
      BY <1>1, <1>4 DEF RowsWith
    <3>2. DOMAIN << >> = {}
      OBVIOUS
    <3>3. QED
      BY <1>5, <3>1, <3>2
  <2>3. QED
    BY <1>1, <1>2, <1>3, <1>5, <1>6, <2>1, <2>2 DEF UserOK
<1>11. QED
  BY <1>3, <1>5, <1>7, <1>8, <1>9, <1>10

(* A verification.                                                         *)
LEMMA ValidatePrincipalUserShape ==
  ASSUME Shape, NEW h \in Handlers, ValidatePrincipalUser(h)
  PROVE  Shape'
<1>1. handler[h].op = "verify"
  BY DEF ValidatePrincipalUser
<1>u. PICK u \in Users : u = handler[h].on
  BY <1>1, AtUser
<1>2. /\ user[u].status # "absent"
      /\ \A k \in Handlers : handler[k].op \in Registering => handler[k].read # u
  BY <1>1, <1>u, AtUser
<1>3. Activate(u) /\ End(h)
  BY <1>u DEF ValidatePrincipalUser
<1>4. TablesOK' /\ OnlyAt(u) /\ Onward /\ UserOK(u)'
  BY <1>2, <1>3, ActivateRows
<1>5. QED
  BY <1>2, <1>3, <1>4, SaveShape

(* A change of password that activates a pending user first.               *)
LEMMA ValidateForChangeShape ==
  ASSUME Shape, NEW h \in Handlers, ValidateForChange(h)
  PROVE  Shape'
<1>1. /\ handler[h].op = "change password" /\ RequestOK(handler[h]) /\ RequestsOK
      /\ handler' = [handler EXCEPT ![h].op = "save user"] /\ conflicts' = conflicts
  BY DEF ValidateForChange, Shape, RequestsOK
<1>u. PICK u \in Users : u = handler[h].on
  BY <1>1, AtUser
<1>2. /\ user[u].status # "absent"
      /\ \A k \in Handlers : handler[k].op \in Registering => handler[k].read # u
  BY <1>1, <1>u, AtUser
<1>3. Activate(u)
  BY <1>u DEF ValidateForChange
<1>4. TablesOK' /\ OnlyAt(u) /\ Onward /\ UserOK(u)' /\ account'[u] = "ACTIVE"
  BY <1>2, <1>3, ActivateRows
<1>5. \A v \in Users : UserOK(v)'
  BY <1>4, OthersOK
<1>q. PICK q : q = handler'[h]
  OBVIOUS
<1>6. /\ q = [handler[h] EXCEPT !.op = "save user"]
      /\ handler' = [handler EXCEPT ![h] = q]
  BY <1>1, <1>q DEF RequestsOK
<1>7. /\ q.op = "save user" /\ q.on = u
      /\ q = [op |-> q.op, on |-> q.on, by |-> q.by, read |-> q.read]
  BY <1>1, <1>u, <1>6 DEF RequestOK
<1>8. RequestOK(q)
  BY <1>7 DEF RequestOK
<1>9. HandlerOK(h)'
  <2>1. user'[u].status # "absent"
    BY <1>2, <1>4 DEF Onward
  <2>2. Holds(q)'
    BY <1>4, <1>7, <2>1 DEF Holds
  <2>3. QED
    BY <1>q, <2>2 DEF HandlerOK
<1>10. \A b : Conflict(q.op, b) \subseteq Conflict(handler[h].op, b)
  BY <1>1, <1>7, Conflicts
<1>11. ASSUME NEW k \in Handlers \ {h}, handler[k].op \in Registering
       PROVE  user'[handler[k].read] = user[handler[k].read]
  BY <1>1, <1>2, <1>4, <1>11 DEF RequestsOK, RequestOK, OnlyAt
<1>12. QED
  BY <1>1, <1>q, <1>u, <1>4, <1>5, <1>6, <1>7, <1>8, <1>9, <1>10, <1>11, MoveShape

(* Rows that are not pending do not become pending when some are deleted.  *)
LEMMA StillNotPending ==
  ASSUME NEW u \in Users, membership[u] \in Seq(MembershipRow), NEW I,
         \A i \in DOMAIN membership[u] : membership[u][i].status # Pending
  PROVE  /\ SetRows(u, I, "DELETED") \in Seq(MembershipRow)
         /\ Len(SetRows(u, I, "DELETED")) = Len(membership[u])
         /\ DOMAIN SetRows(u, I, "DELETED") = DOMAIN membership[u]
         /\ \A i \in DOMAIN SetRows(u, I, "DELETED") :
              SetRows(u, I, "DELETED")[i].status # Pending
BY SetRowsFacts

(* A deletion.                                                             *)
LEMMA DeActivateUserShape ==
  ASSUME Shape, NEW h \in Handlers, DeActivateUser(h)
  PROVE  Shape'
<1>1. handler[h].op = "delete" /\ Holds(handler[h])
  BY DEF DeActivateUser, Shape, HandlerOK
<1>u. PICK u \in Users : u = handler[h].on
  BY <1>1, AtUser
<1>r. PICK r : r = SetRows(u, Deactivated(u), "DELETED")
  OBVIOUS
<1>2. /\ user[u] \in UserRow /\ user[u].status # "absent"
      /\ \A k \in Handlers : handler[k].op \in Registering => handler[k].read # u
      /\ membership[u] \in Seq(MembershipRow)
  BY <1>1, <1>u, AtUser
<1>3. /\ user[u].home = handler[h].by
      /\ Deactivated(u) # {}
      /\ user' = [user EXCEPT ![u].status = "DELETED", ![u].info = "DELETED"]
      /\ membership' = [membership EXCEPT ![u] = r]
      /\ End(h) /\ UNCHANGED <<account, association, wallets, mail>>
  BY <1>u, <1>r DEF DeActivateUser
<1>4. TablesOK /\ UserOK(u)
  BY DEF Shape
<1>5. user[u].home \in Users /\ association[user[u].home] = "ACTIVE" /\ account[u] # Pending
  BY <1>1, <1>2, <1>3, <1>4, NoPending DEF Holds, UserOK
<1>6. RowsWith(u, Pending) = {}
  BY <1>5, NoPending
<1>7. /\ r \in Seq(MembershipRow) /\ Len(r) = Len(membership[u])
      /\ DOMAIN r = DOMAIN membership[u]
      /\ \A i \in DOMAIN r : r[i].status # Pending
  <2>1. \A i \in DOMAIN membership[u] : membership[u][i].status # Pending
    BY <1>6 DEF RowsWith
  <2>2. QED
    BY <1>r, <1>2, <2>1, StillNotPending
<1>8. /\ membership'[u] = r
      /\ \A v \in Users \ {u} : user'[v] = user[v] /\ membership'[v] = membership[v]
  BY <1>3, <1>4 DEF TablesOK
<1>9. /\ user'[u].status = "DELETED" /\ user'[u].home = user[u].home
      /\ user'[u].email = user[u].email /\ user'[u].info = "DELETED"
      /\ user' \in [Users -> UserRow]
  BY <1>2, <1>3, <1>4 DEF TablesOK, UserRow
<1>10. TablesOK'
  <2>1. /\ membership' \in [Users -> Seq(MembershipRow)]
        /\ \A v \in Users : Len(membership'[v]) <= MaxRows
    BY <1>3, <1>4, <1>7 DEF TablesOK
  <2>2. QED
    BY <1>3, <1>4, <1>9, <2>1 DEF TablesOK
<1>11. OnlyAt(u) /\ Onward
  BY <1>3, <1>7, <1>8, <1>9 DEF OnlyAt, Onward
<1>12. UserOK(u)'
  <2>1. RowsWith(u, Pending)' = {}
    BY <1>7, <1>8 DEF RowsWith
  <2>2. membership'[u] # <<>>
    <3>1. DOMAIN r # {}
      BY <1>3, <1>7 DEF Deactivated, RowsWith
    <3>2. DOMAIN << >> = {}
      OBVIOUS
    <3>3. QED
      BY <1>8, <3>1, <3>2
  <2>3. QED
    BY <1>2, <1>3, <1>4, <1>5, <1>9, <2>1, <2>2 DEF UserOK
<1>13. QED
  BY <1>2, <1>3, <1>10, <1>11, <1>12, SaveShape

(* A set with one element at most.                                         *)
LEMMA AtMostOne ==
  ASSUME NEW S, IsFiniteSet(S), Cardinality(S) <= 1
  PROVE  \A x, y \in S : x = y
<1> SUFFICES ASSUME NEW x \in S, NEW y \in S, x # y PROVE FALSE
  OBVIOUS
<1>1. IsFiniteSet({x}) /\ Cardinality({x}) = 1
  BY FS_Singleton
<1>2. IsFiniteSet({x} \cup {y}) /\ Cardinality({x} \cup {y}) = 2
  <2>1. y \notin {x}
    OBVIOUS
  <2>2. PICK X : X = {x}
    OBVIOUS
  <2>3. IsFiniteSet(X \cup {y}) /\ Cardinality(X \cup {y}) = Cardinality(X) + 1
    BY <1>1, <2>1, <2>2, FS_AddElement
  <2>4. QED
    BY <1>1, <2>2, <2>3
<1>3. Cardinality({x} \cup {y}) <= Cardinality(S) /\ Cardinality(S) \in Nat
  BY <1>2, FS_Subset, FS_CardinalityType
<1>4. QED
  BY <1>2, <1>3

(* The rows of a user are finitely many.                                   *)
LEMMA RowsFinite ==
  ASSUME NEW u \in Users, membership[u] \in Seq(MembershipRow), NEW s
  PROVE  IsFiniteSet(RowsWith(u, s))
<1>1. RowsWith(u, s) \in SUBSET (1 .. Len(membership[u])) /\ Len(membership[u]) \in Nat
  BY DEF RowsWith
<1>2. IsFiniteSet(1 .. Len(membership[u]))
  BY <1>1, FS_Interval
<1>3. QED
  BY <1>1, <1>2, FS_Subset

(* An edit that has read the memberships.                                  *)
LEMMA LoadMembershipsShape ==
  ASSUME Shape, NEW h \in Handlers, LoadMemberships(h)
  PROVE  Shape'
<1>1. /\ handler[h].op = "edit" /\ RequestOK(handler[h]) /\ RequestsOK
      /\ Holds(handler[h])
  BY DEF LoadMemberships, Shape, RequestsOK, HandlerOK
<1>u. PICK u \in Users : u = handler[h].on
  BY <1>1, AtUser
<1>2. /\ user[u].status # "absent" /\ membership[u] \in Seq(MembershipRow)
      /\ handler[h].by \in Types /\ handler[h].read \in Reading
      /\ association[user[u].home] = "ACTIVE"
  BY <1>1, <1>u, AtUser DEF RequestOK, Holds
<1>r. PICK read : read = [restored |-> handler[h].read #
                                        [status |-> user[u].status, info |-> user[u].info],
                          user |-> handler[h].read, found |-> RowsWith(u, "ACTIVE")]
  OBVIOUS
<1>3. /\ Editable(u)
      /\ handler' = [handler EXCEPT ![h].op = "save edit", ![h].read = read]
      /\ UNCHANGED <<rows, mail, conflicts>>
  BY <1>u, <1>r DEF LoadMemberships
<1>4. /\ read.restored \in BOOLEAN /\ read.user \in Reading
      /\ read.found = RowsWith(u, "ACTIVE")
  BY <1>2, <1>r
<1>q. PICK q : q = handler'[h]
  OBVIOUS
<1>5. /\ q = [[handler[h] EXCEPT !.op = "save edit"] EXCEPT !.read = read]
      /\ handler' = [handler EXCEPT ![h] = q]
  BY <1>1, <1>3, <1>q DEF RequestsOK
<1>6. /\ q.op = "save edit" /\ q.on = u /\ q.by = handler[h].by /\ q.read = read
      /\ q = [op |-> q.op, on |-> q.on, by |-> q.by, read |-> q.read]
  BY <1>1, <1>u, <1>5 DEF RequestOK
<1>7. RequestOK(q)
  BY <1>2, <1>4, <1>6 DEF RequestOK
<1>8. \A i, j \in RowsWith(u, "ACTIVE") : i = j
  BY <1>2, <1>3, RowsFinite, AtMostOne DEF Editable
<1>9. HandlerOK(h)'
  <2>1. RowsWith(u, "ACTIVE") \subseteq DOMAIN membership[u]
    BY DEF RowsWith
  <2>2. Holds(q)'
    BY <1>2, <1>3, <1>4, <1>6, <1>8, <2>1 DEF Holds, rows
  <2>3. QED
    BY <1>q, <2>2 DEF HandlerOK
<1>10. \A b : Conflict(q.op, b) \subseteq Conflict(handler[h].op, b)
  BY <1>1, <1>6, Conflicts
<1>11. TablesOK' /\ Onward /\ (\A v \in Users : UserOK(v)') /\ user' = user
  BY <1>3, RowsKept DEF rows
<1>12. QED
  BY <1>1, <1>3, <1>q, <1>u, <1>5, <1>6, <1>7, <1>9, <1>10, <1>11, MoveShape

(* The indices of a sequence.                                              *)
LEMMA Domains ==
  ASSUME NEW S, NEW s \in Seq(S)
  PROVE  /\ DOMAIN s = 1 .. Len(s) /\ Len(s) \in Nat /\ (s # << >> => 1 \in DOMAIN s)
         /\ \A i \in DOMAIN s : s[i] \in S
OBVIOUS

(* An edit that writes user, membership_info and memberships.              *)
LEMMA UpdateMembershipRows ==
  ASSUME Shape, NEW h \in Handlers, UpdateMembership(h),
         NEW u \in Users, u = handler[h].on
  PROVE  LET q == handler[h]
             had == {membership[u][i].type : i \in q.read.found}
             dropped == {i \in q.read.found : membership[u][i].type \notin q.by}
             marked == SetRows(u, dropped, "DELETED")
             new == NewRows(q.by \ had, "ACTIVE") IN
         /\ marked \in Seq(MembershipRow) /\ new \in Seq(MembershipRow)
         /\ Len(marked) = Len(membership[u]) /\ Len(marked) + Len(new) <= MaxRows
         /\ membership'[u] = marked \o new
         /\ q.by \ had # {} => new # <<>>
         /\ \A i \in DOMAIN new : new[i].status = "ACTIVE"
         /\ user'[u].status = IF q.read.restored THEN q.read.user.status ELSE user[u].status
         /\ user'[u].info = IF q.read.restored THEN q.read.user.info ELSE user[u].info
         /\ user'[u].home = user[u].home /\ user'[u].email = user[u].email
         /\ user'[u] \in UserRow /\ user'[u].status # "absent"
<1> DEFINE q == handler[h]
           had == {membership[u][i].type : i \in q.read.found}
           dropped == {i \in q.read.found : membership[u][i].type \notin q.by}
           marked == SetRows(u, dropped, "DELETED")
           new == NewRows(q.by \ had, "ACTIVE")
<1>1. q.op = "save edit" /\ RequestOK(q) /\ Holds(q) /\ TablesOK
  BY DEF UpdateMembership, Shape, RequestsOK, HandlerOK
<1>2. /\ user[u] \in UserRow /\ user[u].status # "absent"
      /\ membership[u] \in Seq(MembershipRow)
  BY <1>1, AtUser
<1>3. /\ Len(membership[u]) + Cardinality(q.by \ had) <= MaxRows
      /\ user' = IF q.read.restored
                   THEN [user EXCEPT ![u].status = q.read.user.status,
                                     ![u].info = q.read.user.info]
                   ELSE user
      /\ membership' = [membership EXCEPT ![u] = marked \o new]
  BY DEF UpdateMembership
<1>4. q.by \in SUBSET AccountType /\ q.read.user \in Reading
  BY <1>1, AccountsAssumption DEF RequestOK, AccountsAssumption
<1>5. marked \in Seq(MembershipRow) /\ Len(marked) = Len(membership[u])
  BY <1>2, SetRowsFacts
<1>6. /\ new \in Seq(MembershipRow) /\ Len(new) = Cardinality(q.by \ had)
      /\ q.by \ had # {} => new # <<>>
      /\ \A i \in DOMAIN new : new[i].status = "ACTIVE"
  <2>1. q.by \ had \in SUBSET AccountType
    BY <1>4
  <2> HIDE DEF had
  <2>2. QED
    BY <2>1, NewRowsFacts
<1> HIDE DEF marked, new, had, dropped
<1>7. membership'[u] = marked \o new
  BY <1>1, <1>3 DEF TablesOK
<1>8. /\ user'[u].status = IF q.read.restored THEN q.read.user.status ELSE user[u].status
      /\ user'[u].info = IF q.read.restored THEN q.read.user.info ELSE user[u].info
      /\ user'[u].home = user[u].home /\ user'[u].email = user[u].email
      /\ user'[u] \in UserRow /\ user'[u].status # "absent"
  <2>1. CASE q.read.restored
    BY <1>1, <1>2, <1>3, <1>4, <2>1 DEF TablesOK, UserRow, Reading
  <2>2. CASE ~q.read.restored
    BY <1>1, <1>2, <1>3, <2>2 DEF TablesOK
  <2>3. QED
    BY <2>1, <2>2
<1>9. Len(marked) + Len(new) <= MaxRows
  BY <1>3, <1>5, <1>6
<1>10. QED
  BY <1>5, <1>6, <1>7, <1>8, <1>9 DEF marked, new, had, dropped

(* Such an edit keeps the shape.                                           *)
LEMMA UpdateMembershipShape ==
  ASSUME Shape, NEW h \in Handlers, UpdateMembership(h)
  PROVE  Shape'
<1>1. handler[h].op = "save edit" /\ Holds(handler[h])
  BY DEF UpdateMembership, Shape, HandlerOK
<1>u. PICK u \in Users : u = handler[h].on
  BY <1>1, AtUser
<1>2. /\ user[u] \in UserRow /\ user[u].status # "absent"
      /\ membership[u] \in Seq(MembershipRow) /\ membership[u] # <<>>
      /\ \A k \in Handlers : handler[k].op \in Registering => handler[k].read # u
  BY <1>1, <1>u, AtUser
<1>3. TablesOK /\ UserOK(u)
  BY DEF Shape
<1>4. user[u].home \in Users /\ association[user[u].home] = "ACTIVE" /\ account[u] # Pending
  BY <1>1, <1>u, <1>2, <1>3, NoPending DEF Holds, UserOK
<1>5. \A i \in DOMAIN membership[u] : membership[u][i].status # Pending
  BY <1>4, NoPending DEF RowsWith
<1>r. PICK I, T :
        /\ I = {i \in handler[h].read.found : membership[u][i].type \notin handler[h].by}
        /\ T = handler[h].by \ {membership[u][i].type : i \in handler[h].read.found}
  OBVIOUS
<1>m. PICK marked, new : marked = SetRows(u, I, "DELETED") /\ new = NewRows(T, "ACTIVE")
  OBVIOUS
<1>6. /\ marked \in Seq(MembershipRow) /\ Len(marked) = Len(membership[u])
      /\ DOMAIN marked = DOMAIN membership[u]
      /\ \A i \in DOMAIN marked : marked[i].status # Pending
  BY <1>m, <1>2, <1>5, StillNotPending
<1>7. /\ new \in Seq(MembershipRow) /\ Len(marked) + Len(new) <= MaxRows
      /\ membership'[u] = marked \o new
      /\ \A i \in DOMAIN new : new[i].status = "ACTIVE"
      /\ user'[u].home = user[u].home /\ user'[u].email = user[u].email
      /\ user'[u].info \in {"ACTIVE", "DELETED"}
      /\ user'[u] \in UserRow /\ user'[u].status # "absent"
  <2>1. /\ new \in Seq(MembershipRow) /\ Len(marked) + Len(new) <= MaxRows
        /\ membership'[u] = marked \o new
        /\ \A i \in DOMAIN new : new[i].status = "ACTIVE"
        /\ user'[u].info = IF handler[h].read.restored THEN handler[h].read.user.info
                                                       ELSE user[u].info
        /\ user'[u].home = user[u].home /\ user'[u].email = user[u].email
        /\ user'[u] \in UserRow /\ user'[u].status # "absent"
    BY <1>u, <1>r, <1>m, UpdateMembershipRows
  <2>2. user[u].info \in {"ACTIVE", "DELETED"}
    BY <1>2, <1>3 DEF UserOK
  <2>3. handler[h].read.user.info = "ACTIVE"
    <3>1. RequestOK(handler[h])
      BY DEF Shape, RequestsOK
    <3>2. QED
      BY <1>1, <3>1 DEF RequestOK, Reading
  <2>4. QED
    BY <2>1, <2>2, <2>3
<1>n. PICK both : both = marked \o new
  OBVIOUS
<1>8. /\ membership' = [membership EXCEPT ![u] = both] /\ membership'[u] = both
      /\ End(h) /\ UNCHANGED <<account, association, wallets, mail>>
      /\ \A v \in Users \ {u} : user'[v] = user[v] /\ membership'[v] = membership[v]
  <2>1. /\ membership' = [membership EXCEPT ![u] = both]
        /\ End(h) /\ UNCHANGED <<account, association, wallets, mail>>
    BY <1>u, <1>r, <1>m, <1>n DEF UpdateMembership
  <2>2. ASSUME NEW v \in Users \ {u} PROVE user'[v] = user[v]
    BY <1>u, <1>3 DEF UpdateMembership, TablesOK
  <2>3. QED
    BY <1>3, <2>1, <2>2 DEF TablesOK
<1>9. /\ both \in Seq(MembershipRow) /\ Len(both) <= MaxRows
      /\ DOMAIN membership[u] \subseteq DOMAIN both
      /\ \A i \in DOMAIN both : both[i].status # Pending
  <2>1. both \in Seq(MembershipRow) /\ Len(both) = Len(marked) + Len(new)
    BY <1>6, <1>7, <1>n
  <2>2. MaxRows \in Nat /\ Len(marked) \in Nat /\ Len(new) \in Nat
    BY <1>6, <1>7, AccountsAssumption DEF AccountsAssumption
  <2>3. DOMAIN membership[u] \subseteq DOMAIN both
    <3>1. DOMAIN membership[u] = 1 .. Len(membership[u]) /\ DOMAIN both = 1 .. Len(both)
      BY <1>2, <2>1, Domains
    <3>2. Len(both) = Len(membership[u]) + Len(new) /\ Len(membership[u]) \in Nat
      BY <1>6, <2>1, <2>2
    <3>3. QED
      BY <2>2, <3>1, <3>2
  <2>4. ASSUME NEW i \in DOMAIN both PROVE both[i].status # Pending
    <3>1. CASE i <= Len(marked)
      <4>1. both[i] = marked[i] /\ i \in DOMAIN marked
        BY <1>6, <1>7, <1>n, <2>1, <3>1
      <4>2. QED
        BY <1>6, <4>1
    <3>2. CASE i > Len(marked)
      <4>1. both[i] = new[i - Len(marked)] /\ i - Len(marked) \in DOMAIN new
        BY <1>6, <1>7, <1>n, <2>1, <3>2
      <4>2. QED
        BY <1>7, <4>1
    <3>3. QED
      BY <2>1, <2>2, <3>1, <3>2
  <2>5. QED
    BY <1>7, <2>1, <2>2, <2>3, <2>4
<1>10. TablesOK'
  <2>1. /\ membership' \in [Users -> Seq(MembershipRow)]
        /\ \A v \in Users : Len(membership'[v]) <= MaxRows
    BY <1>3, <1>8, <1>9 DEF TablesOK
  <2>2. user' \in [Users -> UserRow]
    <3>1. DOMAIN user' = Users /\ user' = [v \in Users |-> user'[v]]
      BY <1>3 DEF UpdateMembership, TablesOK
    <3>2. \A v \in Users : user'[v] \in UserRow
      BY <1>3, <1>7, <1>8 DEF TablesOK
    <3>3. QED
      BY <3>1, <3>2
  <2>3. QED
    BY <1>3, <1>8, <2>1, <2>2 DEF TablesOK
<1>11. OnlyAt(u) /\ Onward
  BY <1>7, <1>8, <1>9 DEF OnlyAt, Onward
<1>12. UserOK(u)'
  <2>1. RowsWith(u, Pending)' = {}
    BY <1>8, <1>9 DEF RowsWith
  <2>2. membership'[u] # <<>>
    <3>1. 1 \in DOMAIN membership[u]
      BY <1>2, Domains
    <3>2. DOMAIN << >> = {}
      OBVIOUS
    <3>3. QED
      BY <1>8, <1>9, <3>1, <3>2
  <2>3. user'[u].email \in Emails
    BY <1>2, <1>3, <1>7 DEF UserOK
  <2>4. QED
    BY <1>2, <1>3, <1>4, <1>7, <1>8, <2>1, <2>2, <2>3 DEF UserOK
<1>13. QED
  BY <1>2, <1>8, <1>10, <1>11, <1>12, SaveShape

(* A handler that fails leaves its rows as they were.                      *)
LEMMA FailShape ==
  ASSUME Shape, NEW h \in Handlers, Fail(h)
  PROVE  Shape'
<1>1. End(h) /\ UNCHANGED <<rows, mail>> /\ RequestsOK
  BY DEF Fail, Shape
<1>2. TablesOK' /\ Onward /\ \A v \in Users : UserOK(v)'
  BY <1>1, RowsKept
<1>3. handler'[h] = NoRequest
  BY <1>1 DEF End, RequestsOK
<1>4. handler' = [handler EXCEPT ![h] = handler'[h]] /\ conflicts' = conflicts
  BY <1>1 DEF End, RequestsOK
<1>5. RequestOK(handler'[h]) /\ HandlerOK(h)'
  <2>1. Holds(NoRequest)'
    BY Idle DEF Holds
  <2>2. QED
    BY <1>3, <2>1, Idle DEF HandlerOK
<1>6. handler'[h].op \notin Registering /\ handler'[h].on = None
  BY <1>3, Idle
<1>7. user' = user
  BY <1>1 DEF rows
<1>8. QED
  BY <1>2, <1>4, <1>5, <1>6, <1>7, MoveShape

(* A step in which no handler takes part.                                  *)
LEMMA ApartFromMail ==
  ASSUME Shape, UNCHANGED <<rows, handler, conflicts>>, mail' \in [Users -> SUBSET Link]
  PROVE  Shape'
<1>0. UNCHANGED <<user, membership, account, association, wallets>>
  BY DEF rows
<1>1. TablesOK' /\ RequestsOK' /\ Apart' /\ OwnRows'
  BY <1>0 DEF Shape, TablesOK, RequestsOK, Apart, OwnRows
<1>2. ASSUME NEW u \in Users PROVE UserOK(u)'
  <2>1. UserOK(u) /\ RowsWith(u, Pending)' = RowsWith(u, Pending)
    BY <1>0 DEF Shape, RowsWith
  <2>2. QED
    BY <1>0, <2>1 DEF UserOK
<1>3. ASSUME NEW h \in Handlers PROVE HandlerOK(h)'
  BY <1>0, <1>3 DEF Shape, HandlerOK, Holds
<1>4. QED
  BY <1>1, <1>2, <1>3 DEF Shape

(* So does every save.                                                     *)
LEMMA SaveStepShape ==
  ASSUME Shape, NEW h \in Handlers, Save(h)
  PROVE  Shape'
BY SignPrincipalUserShape, CreateAssociationMemberShape, ValidatePrincipalUserShape,
   ResetPasswordShape, ValidateForChangeShape, SaveActiveUserShape,
   CreateAssociationShape, DeActivateUserShape, LoadMembershipsShape,
   UpdateMembershipShape DEF Save

(* The shape is inductive.                                                 *)
LEMMA NextShape == Shape /\ [AccountsNext]_accountVars => Shape'
<1> SUFFICES ASSUME Shape, [AccountsNext]_accountVars PROVE Shape'
  OBVIOUS
<1>1. ASSUME NEW h \in Handlers, Request(h) \/ Save(h) \/ Fail(h) PROVE Shape'
  BY <1>1, RequestShape, SaveStepShape, FailShape
<1>2. ASSUME NEW u \in Users, ResendVerification(u) PROVE Shape'
  <2>1. /\ mail' = [mail EXCEPT ![u] = @ \cup {"verify"}]
        /\ UNCHANGED <<rows, handler, conflicts>>
    BY <1>2 DEF ResendVerification, SendPrincipalVerificationEmail, Send
  <2>2. mail \in [Users -> SUBSET Link]
    BY DEF Shape, TablesOK
  <2>3. mail' \in [Users -> SUBSET Link]
    BY <2>1, <2>2
  <2>4. QED
    BY <2>1, <2>3, ApartFromMail
<1>3. CASE UNCHANGED accountVars
  <2>1. mail' \in [Users -> SUBSET Link]
    BY <1>3 DEF Shape, TablesOK, accountVars
  <2>2. QED
    BY <1>3, <2>1, ApartFromMail DEF accountVars
<1>4. QED
  BY <1>1, <1>2, <1>3 DEF AccountsNext, AtRest

(* In every reachable state: what the tables hold together, whatever       *)
(* handlers are half way, and what each of these can rely on.              *)
THEOREM ShapeHolds == AccountsSpec => []Shape
BY InitShape, NextShape, PTL DEF AccountsSpec

(* The tables hold rows of the expected types, and within the bounds.      *)
THEOREM TypeCorrect == AccountsSpec => []AccountsTypeOK
<1>1. Shape => AccountsTypeOK
  BY DEF Shape, TablesOK, AccountsTypeOK, UserRow, MembershipRow
<1>2. QED
  BY <1>1, ShapeHolds, PTL

-----------------------------------------------------------------------------
(* What a handler has found when it begins.                                *)
Fresh(q) ==
  /\ q.op \in Registering \cup (OnUser \ {"save edit"})
  /\ q.op \in Registering => ~Taken(q.on)
  /\ q.op \in Verifying => user[q.on].status = Pending
  /\ q.op = "save user" => user[q.on].status \in {"ACTIVE", "IN_ACTIVE"}
  /\ q.op = "onboard" => user[q.on].status = "ACTIVE" /\ association[q.on] = Pending
  /\ q.op = "reset" => q.read = user[q.on].status
  /\ q.op = "edit" => q.read.status = user[q.on].status
  /\ q.op \in {"delete", "edit"} => user[q.on].info = "ACTIVE"

Begins(h) ==
  /\ UNCHANGED <<rows, mail>>
  /\ Fresh(handler'[h])
  /\ \A k \in Handlers \ {h} : handler'[k] = handler[k]
  /\ conflicts \subseteq conflicts'
  /\ \A k \in Handlers : handler[k].on = handler'[h].on =>
       Conflict(handler'[h].op, handler[k].op) \subseteq conflicts'

(* A request that has just been recorded.                                  *)
LEMMA BeginFresh ==
  ASSUME Shape, NEW h \in Handlers, UNCHANGED <<rows, mail>>,
         NEW op, NEW on, NEW by, NEW read, Begin(h, op, on, by, read),
         Fresh([op |-> op, on |-> on, by |-> by, read |-> read])
  PROVE  Begins(h)
<1>1. RequestsOK
  BY DEF Shape
<1> DEFINE q == [op |-> op, on |-> on, by |-> by, read |-> read]
<1>2. q.op = op /\ q.on = on /\ Fresh(q)
  OBVIOUS
<1>3. /\ handler'[h] = q
      /\ \A k \in Handlers \ {h} : handler'[k] = handler[k]
      /\ conflicts \subseteq conflicts'
      /\ \A k \in Handlers :
           handler[k].on = on => Conflict(op, handler[k].op) \subseteq conflicts'
  BY <1>1, BeginRecords
<1> HIDE DEF q
<1>4. QED
  BY <1>2, <1>3 DEF Begins

(* Every request is recorded with what it has just found.                  *)
LEMMA RequestBegins ==
  ASSUME Shape, NEW h \in Handlers, Request(h)
  PROVE  Begins(h)
<1>0. PICK u \in Users :
        \/ \E e \in Emails :
             \/ SignUp(h, u, e)
             \/ \E p \in Users, T \in Types : AddMember(h, p, u, e, T)
        \/ Verify(h, u)
        \/ RequestReset(h, u)
        \/ ChangePassword(h, u)
        \/ UpdateProfile(h, u)
        \/ Onboard(h, u)
        \/ \E p \in Users :
             \/ DeleteMember(h, p, u)
             \/ \E T \in Types : EditMember(h, p, u, T)
  BY DEF Request
<1>1. ASSUME NEW e \in Emails, SignUp(h, u, e)
      PROVE  Begins(h)
  <2>1. Fresh([op |-> "sign up", on |-> e, by |-> None, read |-> u])
    BY <1>1 DEF SignUp, Fresh
  <2>2. QED
    BY <1>1, <2>1, BeginFresh DEF SignUp
<1>2. ASSUME NEW e \in Emails, NEW p \in Users, NEW T \in Types, AddMember(h, p, u, e, T)
      PROVE  Begins(h)
  <2> DEFINE by == [home |-> user[p].home, types |-> T]
  <2>1. Fresh([op |-> "add member", on |-> e, by |-> by, read |-> u])
    BY <1>2 DEF AddMember, Fresh
  <2>2. Begin(h, "add member", e, by, u) /\ UNCHANGED <<rows, mail>>
    BY <1>2 DEF AddMember
  <2> HIDE DEF by
  <2>3. QED
    BY <2>1, <2>2, BeginFresh
<1>3. CASE Verify(h, u)
  <2>1. Fresh([op |-> "verify", on |-> u, by |-> None, read |-> Pending])
    BY <1>3, Tokens DEF Verify, Fresh
  <2>2. QED
    BY <1>3, <2>1, BeginFresh DEF Verify
<1>4. CASE RequestReset(h, u)
  <2> DEFINE status == user[u].status
  <2>1. Fresh([op |-> "reset", on |-> u, by |-> None, read |-> status])
    BY DEF Fresh
  <2>2. Begin(h, "reset", u, None, status) /\ UNCHANGED <<rows, mail>>
    BY <1>4 DEF RequestReset
  <2> HIDE DEF status
  <2>3. QED
    BY <2>1, <2>2, BeginFresh
<1>5. CASE ChangePassword(h, u)
  <2>1. PICK link \in mail[u] \ {"verify"} :
          /\ VerifyBearerToken(u, link)
          /\ Begin(h, IF Signed(link).user = Pending THEN "change password" ELSE "save user",
                   u, None, "ACTIVE")
    BY <1>5 DEF ChangePassword
  <2>2. link \in Link \ {"verify"}
    BY <2>1 DEF Shape, TablesOK
  <2>3. CASE Signed(link).user = Pending
    <3>1. Fresh([op |-> "change password", on |-> u, by |-> None, read |-> "ACTIVE"])
      BY <2>1, <2>2, <2>3, Tokens DEF Fresh
    <3>2. Begin(h, "change password", u, None, "ACTIVE")
      BY <2>1, <2>3
    <3>3. QED
      BY <1>5, <3>1, <3>2, BeginFresh DEF ChangePassword
  <2>4. CASE Signed(link).user # Pending
    <3>1. Fresh([op |-> "save user", on |-> u, by |-> None, read |-> "ACTIVE"])
      BY <2>1, <2>2, <2>4, Tokens DEF Fresh
    <3>2. Begin(h, "save user", u, None, "ACTIVE")
      BY <2>1, <2>4
    <3>3. QED
      BY <1>5, <3>1, <3>2, BeginFresh DEF ChangePassword
  <2>5. QED
    BY <2>3, <2>4
<1>6. CASE UpdateProfile(h, u)
  <2>1. Fresh([op |-> "save user", on |-> u, by |-> None, read |-> "ACTIVE"])
    BY <1>6, Tokens DEF UpdateProfile, Fresh
  <2>2. QED
    BY <1>6, <2>1, BeginFresh DEF UpdateProfile
<1>7. CASE Onboard(h, u)
  <2>1. Fresh([op |-> "onboard", on |-> u, by |-> None, read |-> Pending])
    BY <1>7, Tokens DEF Onboard, Fresh
  <2>2. QED
    BY <1>7, <2>1, BeginFresh DEF Onboard
<1>8. ASSUME NEW p \in Users, DeleteMember(h, p, u)
      PROVE  Begins(h)
  <2>1. Fresh([op |-> "delete", on |-> u, by |-> user[p].home, read |-> "ACTIVE"])
    BY <1>8 DEF DeleteMember, Fresh
  <2>2. QED
    BY <1>8, <2>1, BeginFresh DEF DeleteMember
<1>9. ASSUME NEW p \in Users, NEW T \in Types, EditMember(h, p, u, T)
      PROVE  Begins(h)
  <2> DEFINE read == [status |-> user[u].status, info |-> user[u].info]
  <2>1. Fresh([op |-> "edit", on |-> u, by |-> T, read |-> read])
    BY <1>9 DEF EditMember, Fresh
  <2>2. Begin(h, "edit", u, T, read) /\ UNCHANGED <<rows, mail>>
    BY <1>9 DEF EditMember
  <2> HIDE DEF read
  <2>3. QED
    BY <2>1, <2>2, BeginFresh
<1>10. QED
  BY <1>0, <1>1, <1>2, <1>3, <1>4, <1>5, <1>6, <1>7, <1>8, <1>9

(* A handler that ends leaves nothing behind.                              *)
LEMMA Ends ==
  ASSUME Shape, NEW h \in Handlers, End(h)
  PROVE  /\ handler'[h] = NoRequest /\ handler'[h].op = "idle"
         /\ \A k \in Handlers \ {h} : handler'[k] = handler[k]
         /\ conflicts' = conflicts
BY Idle DEF Shape, RequestsOK, End

-----------------------------------------------------------------------------
(* What each save does to the user it is at.                               *)
Live(u) == RowsWith(u, "ACTIVE") \cup RowsWith(u, Pending)

(* The user's row gets a status, and keeps who the user is.                *)
Becomes(u, status) ==
  /\ user'[u].status = status
  /\ user'[u].email = user[u].email /\ user'[u].home = user[u].home
  /\ \A v \in Users \ {u} : user'[v] = user[v]

Registers(h, u) ==
  /\ handler[h].op \in Registering /\ handler[h].read = u
  /\ user[u] = NoUser /\ membership[u] = <<>>
  /\ user'[u].email = handler[h].on /\ user'[u].info = "ACTIVE"
  /\ user'[u].status \in {Pending, "ACTIVE"}
  /\ user'[u].status = Pending <=> account'[u] = Pending
  /\ Live(u)' # {}
  /\ association'[u] # "ACTIVE" \/ association'[u] = association[u]
  /\ \A v \in Users \ {u} :
       /\ user'[v] = user[v] /\ membership'[v] = membership[v]
       /\ account'[v] = account[v] /\ association'[v] = association[v]
  /\ End(h) /\ UNCHANGED wallets

(* What a registration writes.                                             *)
LEMMA RegisterEffect ==
  ASSUME Shape, Shape', NEW h \in Handlers,
         SignPrincipalUser(h) \/ CreateAssociationMember(h)
  PROVE  \E u \in Users : Registers(h, u)
<1>1. /\ handler[h].op \in Registering /\ Holds(handler[h]) /\ RequestOK(handler[h])
      /\ TablesOK
  BY DEF SignPrincipalUser, CreateAssociationMember, Shape, HandlerOK, RequestsOK
<1>u. PICK u \in Users : u = handler[h].read
  BY <1>1 DEF RequestOK
<1>2. user[u] = NoUser
  BY <1>1, <1>u DEF Holds
<1>3. membership[u] = <<>> /\ account[u] = "absent"
  BY <1>2, Absent DEF Shape, UserOK
<1>4. UserOK(u)' /\ membership'[u] \in Seq(MembershipRow)
  BY DEF Shape, TablesOK
<1>5. CASE SignPrincipalUser(h)
  <2>1. /\ user' = [user EXCEPT ![u] = NewUser(handler[h].on, u, Pending)]
        /\ membership' = [membership EXCEPT ![u] = NewRows({"EXECUTIVE_ACCOUNT"}, Pending)]
        /\ account' = [account EXCEPT ![u] = Pending]
        /\ association' = [association EXCEPT ![u] = Pending]
        /\ End(h) /\ UNCHANGED wallets
    BY <1>5, <1>u DEF SignPrincipalUser
  <2>2. /\ user'[u] = NewUser(handler[h].on, u, Pending)
        /\ account'[u] = Pending /\ association'[u] = Pending
        /\ \A v \in Users \ {u} :
             /\ user'[v] = user[v] /\ membership'[v] = membership[v]
             /\ account'[v] = account[v] /\ association'[v] = association[v]
    BY <1>1, <2>1 DEF TablesOK
  <2>3. /\ user'[u].status = Pending /\ user'[u].info = "ACTIVE"
        /\ user'[u].email = handler[h].on
    BY <2>2 DEF NewUser, NewInfo
  <2>4. Live(u)' # {}
    <3>1. membership'[u] # <<>> /\ membership'[u] \in Seq(MembershipRow)
      BY <1>4, <2>3 DEF UserOK
    <3>2. RowsWith(u, Pending)' = DOMAIN membership'[u]
      BY <1>4, <2>2 DEF UserOK
    <3>3. QED
      BY <3>1, <3>2, Domains DEF Live
  <2>5. QED
    BY <1>1, <1>2, <1>3, <1>u, <2>1, <2>2, <2>3, <2>4 DEF Registers
<1>6. CASE CreateAssociationMember(h)
  <2>1. PICK a, T : a = handler[h].by.home /\ T = handler[h].by.types
    OBVIOUS
  <2>2. /\ user' = [user EXCEPT ![u] = NewUser(handler[h].on, a, "ACTIVE")]
        /\ membership' = [membership EXCEPT ![u] = NewRows(T, "ACTIVE")]
        /\ End(h) /\ UNCHANGED <<account, association, wallets>>
    BY <1>6, <1>u, <2>1 DEF CreateAssociationMember
  <2>3. /\ user'[u] = NewUser(handler[h].on, a, "ACTIVE")
        /\ membership'[u] = NewRows(T, "ACTIVE")
        /\ \A v \in Users \ {u} : user'[v] = user[v] /\ membership'[v] = membership[v]
    BY <1>1, <2>2 DEF TablesOK
  <2>4. /\ user'[u].status = "ACTIVE" /\ user'[u].info = "ACTIVE"
        /\ user'[u].email = handler[h].on
    BY <2>3 DEF NewUser, NewInfo
  <2>5. Live(u)' # {}
    <3>1. membership'[u] # <<>> /\ membership'[u] \in Seq(MembershipRow)
      BY <1>4, <2>4 DEF UserOK
    <3>2. handler[h].op = "add member"
      BY <1>6 DEF CreateAssociationMember
    <3>3. T \in SUBSET AccountType
      BY <1>1, <2>1, <3>2, AccountsAssumption DEF RequestOK, AccountsAssumption
    <3>4. \A i \in DOMAIN membership'[u] : membership'[u][i].status = "ACTIVE"
      <4>1. \A i \in DOMAIN NewRows(T, "ACTIVE") : NewRows(T, "ACTIVE")[i].status = "ACTIVE"
        BY <3>3, NewRowsFacts
      <4>2. QED
        BY <2>3, <4>1
    <3>5. 1 \in DOMAIN membership'[u]
      BY <3>1, Domains
    <3>6. QED
      BY <3>4, <3>5 DEF Live, RowsWith
  <2>6. QED
    BY <1>1, <1>2, <1>3, <1>u, <2>2, <2>3, <2>4, <2>5 DEF Registers
<1>7. QED
  BY <1>5, <1>6

(* The activation of a user: all rows wait for it.                         *)
Activates(u) ==
  /\ account[u] = Pending /\ account'[u] = "ACTIVE" /\ user[u].status = Pending
  /\ RowsWith(u, Pending) = DOMAIN membership[u] /\ RowsWith(u, "ACTIVE") = {}
  /\ Becomes(u, "ACTIVE") /\ user'[u].info = user[u].info
  /\ Live(u)' # {}
  /\ \A v \in Users \ {u} : membership'[v] = membership[v] /\ account'[v] = account[v]
  /\ UNCHANGED <<association, wallets>>

(* What an activation writes, whoever asks for it.                         *)
LEMMA ActivateEffect ==
  ASSUME Shape, NEW u \in Users, user[u].status # "absent", Activate(u)
  PROVE  Activates(u)
<1>1. /\ account[u] = Pending /\ account'[u] = "ACTIVE" /\ OnlyAt(u)
      /\ UserOK(u)' /\ TablesOK' /\ TablesOK /\ user[u] \in UserRow
  BY ActivateRows DEF Shape, TablesOK
<1>2. /\ user[u].status = Pending /\ RowsWith(u, Pending) = DOMAIN membership[u]
  BY <1>1 DEF Shape, UserOK
<1>3. RowsWith(u, "ACTIVE") = {}
  BY <1>2 DEF RowsWith
<1>4. /\ user' = [user EXCEPT ![u].status = "ACTIVE"]
      /\ membership' = [membership EXCEPT ![u] = SetRows(u, RowsWith(u, Pending), "ACTIVE")]
      /\ UNCHANGED <<association, wallets>>
  BY DEF Activate
<1>5. /\ user'[u].status = "ACTIVE" /\ user'[u].info = user[u].info
      /\ user'[u].email = user[u].email /\ user'[u].home = user[u].home
  BY <1>1, <1>4 DEF TablesOK, UserRow
<1>6. Live(u)' # {}
  <2>1. membership[u] \in Seq(MembershipRow) /\ membership[u] # <<>>
    BY <1>1, <1>2 DEF Shape, TablesOK, UserOK
  <2>2. PICK r, I : r = SetRows(u, I, "ACTIVE") /\ I = RowsWith(u, Pending)
    OBVIOUS
  <2>3. membership'[u] = r
    BY <1>1, <1>4, <2>2 DEF TablesOK
  <2>4. 1 \in DOMAIN membership[u]
    BY <2>1, Domains
  <2>5. 1 \in DOMAIN r /\ r[1].status = "ACTIVE"
    BY <1>2, <2>1, <2>2, <2>4, SetRowsFacts
  <2>6. QED
    BY <2>3, <2>5 DEF Live, RowsWith
<1>7. QED
  BY <1>1, <1>2, <1>3, <1>4, <1>5, <1>6 DEF Activates, Becomes, OnlyAt

(* The save of a status alone.                                             *)
SetsStatus(h, u, status) ==
  /\ Becomes(u, status) /\ user'[u].info = user[u].info
  /\ End(h) /\ UNCHANGED <<membership, account, association, wallets>>

(* What a reset, and a save of an active user, write.                      *)
LEMMA StatusEffect ==
  ASSUME Shape, NEW h \in Handlers, NEW u \in Users, u = handler[h].on,
         ResetPassword(h) \/ SaveActiveUser(h)
  PROVE  SetsStatus(h, u, IF handler[h].op = "reset" THEN ResetStatus(handler[h].read)
                                                     ELSE "ACTIVE")
<1>s. PICK s : s = IF handler[h].op = "reset" THEN ResetStatus(handler[h].read) ELSE "ACTIVE"
  OBVIOUS
<1>1. user \in [Users -> UserRow]
  BY DEF Shape, TablesOK
<1>2. /\ user' = [user EXCEPT ![u].status = s]
      /\ End(h) /\ UNCHANGED <<membership, account, association, wallets>>
  BY <1>s DEF ResetPassword, SaveActiveUser
<1>3. /\ user'[u].status = s /\ user'[u].info = user[u].info
      /\ user'[u].email = user[u].email /\ user'[u].home = user[u].home
      /\ \A v \in Users \ {u} : user'[v] = user[v]
  BY <1>1, <1>2 DEF UserRow
<1>4. QED
  BY <1>s, <1>2, <1>3 DEF SetsStatus, Becomes

(* A deletion leaves no live membership.                                   *)
Deletes(h, u) ==
  /\ account[u] # Pending
  /\ Becomes(u, "DELETED") /\ user'[u].info = "DELETED" /\ Live(u)' = {}
  /\ \A v \in Users \ {u} : membership'[v] = membership[v]
  /\ End(h) /\ UNCHANGED <<account, association, wallets>>

(* What a deletion writes.                                                 *)
LEMMA DeleteEffect ==
  ASSUME Shape, NEW h \in Handlers, NEW u \in Users, u = handler[h].on, DeActivateUser(h)
  PROVE  Deletes(h, u)
<1>r. PICK r, I : r = SetRows(u, I, "DELETED") /\ I = Deactivated(u)
  OBVIOUS
<1>1. /\ handler[h].op = "delete" /\ Holds(handler[h])
      /\ user[u].home = handler[h].by
      /\ user' = [user EXCEPT ![u].status = "DELETED", ![u].info = "DELETED"]
      /\ membership' = [membership EXCEPT ![u] = r]
      /\ End(h) /\ UNCHANGED <<account, association, wallets>>
  BY <1>r DEF DeActivateUser, Shape, HandlerOK
<1>2. user[u].status # "absent" /\ TablesOK /\ user[u] \in UserRow
  BY <1>1, AtUser DEF Shape
<1>3. account[u] # Pending
  BY <1>1, <1>2, NoPending DEF Holds, Shape, UserOK
<1>4. /\ user'[u].status = "DELETED" /\ user'[u].info = "DELETED"
      /\ user'[u].email = user[u].email /\ user'[u].home = user[u].home
      /\ membership'[u] = r
      /\ \A v \in Users \ {u} : user'[v] = user[v] /\ membership'[v] = membership[v]
  BY <1>1, <1>2 DEF TablesOK, UserRow
<1>5. Live(u)' = {}
  <2>1. RowsWith(u, Pending) = {} /\ membership[u] \in Seq(MembershipRow)
    BY <1>2, <1>3, NoPending DEF TablesOK
  <2>2. /\ DOMAIN r = DOMAIN membership[u]
        /\ \A i \in DOMAIN membership[u] :
             r[i].status = IF i \in I THEN "DELETED" ELSE membership[u][i].status
    BY <1>r, <2>1, SetRowsFacts
  <2>3. \A i \in DOMAIN r : r[i].status \notin {Pending, "ACTIVE"}
    BY <1>r, <2>1, <2>2 DEF Deactivated, RowsWith
  <2>4. QED
    BY <1>4, <2>3 DEF Live, RowsWith
<1>6. QED
  BY <1>1, <1>3, <1>4, <1>5 DEF Deletes, Becomes

(* An edit never leaves a member without live memberships.                 *)
Edits(h, u) ==
  /\ account[u] # Pending
  /\ Becomes(u, IF handler[h].read.restored THEN handler[h].read.user.status
                                            ELSE user[u].status)
  /\ user'[u].info = IF handler[h].read.restored THEN handler[h].read.user.info
                                                 ELSE user[u].info
  /\ Live(u) # {} => Live(u)' # {}
  /\ \A v \in Users \ {u} : membership'[v] = membership[v]
  /\ End(h) /\ UNCHANGED <<account, association, wallets>>

(* What an edit writes.                                                    *)
LEMMA EditEffect ==
  ASSUME Shape, NEW h \in Handlers, NEW u \in Users, u = handler[h].on, UpdateMembership(h)
  PROVE  Edits(h, u)
<1>1. handler[h].op = "save edit" /\ Holds(handler[h]) /\ RequestOK(handler[h])
  BY DEF UpdateMembership, Shape, HandlerOK, RequestsOK
<1>2. /\ user[u].status # "absent" /\ TablesOK /\ membership[u] \in Seq(MembershipRow)
      /\ UserOK(u)
  BY <1>1, AtUser DEF Shape
<1>3. account[u] # Pending
  BY <1>1, <1>2, NoPending DEF Holds, UserOK
<1>r. PICK had, I, T :
        /\ had = {membership[u][i].type : i \in handler[h].read.found}
        /\ I = {i \in handler[h].read.found : membership[u][i].type \notin handler[h].by}
        /\ T = handler[h].by \ {membership[u][i].type : i \in handler[h].read.found}
  OBVIOUS
<1>m. PICK marked, new : marked = SetRows(u, I, "DELETED") /\ new = NewRows(T, "ACTIVE")
  OBVIOUS
<1>4. /\ marked \in Seq(MembershipRow) /\ new \in Seq(MembershipRow)
      /\ membership'[u] = marked \o new
      /\ T # {} => new # <<>>
      /\ \A i \in DOMAIN new : new[i].status = "ACTIVE"
      /\ user'[u].status = IF handler[h].read.restored THEN handler[h].read.user.status
                                                       ELSE user[u].status
      /\ user'[u].info = IF handler[h].read.restored THEN handler[h].read.user.info
                                                     ELSE user[u].info
      /\ user'[u].home = user[u].home /\ user'[u].email = user[u].email
  BY <1>r, <1>m, UpdateMembershipRows
<1>5. /\ \A v \in Users \ {u} : membership'[v] = membership[v] /\ user'[v] = user[v]
      /\ End(h) /\ UNCHANGED <<account, association, wallets>>
  <2>1. ASSUME NEW v \in Users \ {u} PROVE user'[v] = user[v]
    BY <1>2 DEF UpdateMembership, TablesOK
  <2>2. ASSUME NEW v \in Users \ {u} PROVE membership'[v] = membership[v]
    BY <1>2 DEF UpdateMembership, TablesOK
  <2>3. End(h) /\ UNCHANGED <<account, association, wallets>>
    BY DEF UpdateMembership
  <2>4. QED
    BY <2>1, <2>2, <2>3
<1>6. /\ DOMAIN marked = DOMAIN membership[u]
      /\ \A i \in DOMAIN membership[u] :
           marked[i].status = IF i \in I THEN "DELETED" ELSE membership[u][i].status
  BY <1>m, <1>2, SetRowsFacts
<1>n. PICK both : both = marked \o new
  OBVIOUS
<1>7. ASSUME Live(u) # {} PROVE Live(u)' # {}
  <2>1. CASE T # {}
    <3>1. 1 \in DOMAIN new /\ new[1].status = "ACTIVE"
      BY <1>4, <2>1, Domains
    <3>2. PICK i : i \in DOMAIN both /\ both[i] = new[1]
      <4>1. Len(marked) + 1 \in DOMAIN both /\ both[Len(marked) + 1] = new[1]
        BY <1>4, <1>n, <3>1
      <4>2. QED
        BY <4>1
    <3>3. QED
      BY <1>4, <1>n, <3>1, <3>2 DEF Live, RowsWith
  <2>2. CASE T = {}
    <3>1. I = {}
      <4>1. handler[h].by # {}
        BY <1>1, AccountsAssumption DEF RequestOK, AccountsAssumption
      <4>2. PICK j \in handler[h].read.found : membership[u][j].type \in handler[h].by
        BY <1>r, <2>2, <4>1
      <4>3. \A i \in handler[h].read.found : i = j
        BY <1>1 DEF Holds
      <4>4. QED
        BY <1>r, <4>2, <4>3
    <3>2. PICK i \in Live(u) : TRUE
      BY <1>7
    <3>3. /\ i \in DOMAIN marked
          /\ marked[i].status = membership[u][i].status
          /\ membership[u][i].status \in {Pending, "ACTIVE"}
      BY <1>6, <3>1, <3>2 DEF Live, RowsWith
    <3>4. i \in DOMAIN both /\ both[i] = marked[i]
      BY <1>4, <1>n, <3>3
    <3>5. QED
      BY <1>4, <1>n, <3>3, <3>4 DEF Live, RowsWith
  <2>3. QED
    BY <2>1, <2>2
<1>8. QED
  BY <1>3, <1>4, <1>5, <1>7 DEF Edits, Becomes

(* An onboarding, and the first half of an edit.                           *)
Onboards(h, u) ==
  /\ wallets'[u] = wallets[u] + 1 /\ association'[u] = "ACTIVE"
  /\ \A v \in Users \ {u} : wallets'[v] = wallets[v] /\ association'[v] = association[v]
  /\ End(h) /\ UNCHANGED <<user, membership, account>>

Loads(h, u) ==
  /\ handler'[h].op = "save edit" /\ handler'[h].on = u
  /\ handler'[h].read.user = handler[h].read
  /\ handler'[h].read.found = RowsWith(u, "ACTIVE")
  /\ \A k \in Handlers \ {h} : handler'[k] = handler[k]
  /\ UNCHANGED <<user, membership, account, association, wallets, conflicts>>

Verifies(h, u) ==
  /\ Activates(u)
  /\ handler'[h].op = "idle" \/ (handler'[h].op = "save user" /\ handler'[h].on = u)
  /\ \A k \in Handlers \ {h} : handler'[k] = handler[k]
  /\ conflicts' = conflicts

(* What a handler that has begun can do to its user.                       *)
SavesAt(h, u) ==
  /\ u = handler[h].on /\ user[u].status # "absent"
  /\ \/ handler[h].op \in Verifying /\ Verifies(h, u)
     \/ handler[h].op = "reset" /\ SetsStatus(h, u, ResetStatus(handler[h].read))
     \/ handler[h].op = "save user" /\ SetsStatus(h, u, "ACTIVE")
     \/ handler[h].op = "onboard" /\ Onboards(h, u)
     \/ handler[h].op = "delete" /\ Deletes(h, u)
     \/ handler[h].op = "edit" /\ Loads(h, u)
     \/ handler[h].op = "save edit" /\ Edits(h, u)

Fails(h) == End(h) /\ UNCHANGED <<user, membership, account, association, wallets>>

Still == UNCHANGED <<user, membership, account, association, wallets, handler, conflicts>>

(* Every save is a registration or one of these, at one user.              *)
LEMMA SaveEffects ==
  ASSUME Shape, Shape', NEW h \in Handlers, Save(h)
  PROVE  \E u \in Users : Registers(h, u) \/ SavesAt(h, u)
<1>1. CASE SignPrincipalUser(h) \/ CreateAssociationMember(h)
  BY <1>1, RegisterEffect
<1>2. ASSUME ~(SignPrincipalUser(h) \/ CreateAssociationMember(h))
      PROVE  \E u \in Users : SavesAt(h, u)
  <2>1. handler[h].op \in OnUser
    BY <1>2 DEF Save, ValidatePrincipalUser, ResetPassword, ValidateForChange,
                SaveActiveUser, CreateAssociation, DeActivateUser, LoadMemberships,
                UpdateMembership
  <2>u. PICK u \in Users : u = handler[h].on
    BY <2>1, AtUser
  <2>2. user[u].status # "absent" /\ RequestsOK /\ TablesOK
    BY <2>1, <2>u, AtUser DEF Shape
  <2>q. PICK op, by, was : handler[h] = [op |-> op, on |-> u, by |-> by, read |-> was]
    <3>1. RequestOK(handler[h])
      BY <2>2 DEF RequestsOK
    <3>2. QED
      BY <2>u, <3>1 DEF RequestOK
  <2>3. CASE ValidatePrincipalUser(h)
    <3>1. handler[h].op = "verify" /\ Activate(u) /\ End(h)
      BY <2>3, <2>u DEF ValidatePrincipalUser
    <3>2. Verifies(h, u)
      BY <2>2, <3>1, ActivateEffect, Ends DEF Verifies
    <3>3. QED
      BY <2>u, <2>2, <3>1, <3>2 DEF SavesAt
  <2>4. CASE ValidateForChange(h)
    <3>1. /\ handler[h].op = "change password" /\ Activate(u)
          /\ handler' = [handler EXCEPT ![h].op = "save user"] /\ conflicts' = conflicts
      BY <2>4, <2>u DEF ValidateForChange
    <3>2. /\ handler'[h].op = "save user" /\ handler'[h].on = u
          /\ \A k \in Handlers \ {h} : handler'[k] = handler[k]
      <4>1. /\ handler'[h] = [handler[h] EXCEPT !.op = "save user"]
            /\ \A k \in Handlers \ {h} : handler'[k] = handler[k]
        BY <2>2, <3>1 DEF RequestsOK
      <4>2. [handler[h] EXCEPT !.op = "save user"].op = "save user"
            /\ [handler[h] EXCEPT !.op = "save user"].on = u
        BY <2>q
      <4>3. QED
        BY ONLY <4>1, <4>2, Zenon
    <3>3. Verifies(h, u)
      BY <2>2, <3>1, <3>2, ActivateEffect DEF Verifies
    <3>4. QED
      BY <2>u, <2>2, <3>1, <3>3 DEF SavesAt
  <2>5. CASE ResetPassword(h)
    <3>1. handler[h].op = "reset"
      BY <2>5 DEF ResetPassword
    <3>2. QED
      BY <2>u, <2>2, <2>5, <3>1, StatusEffect DEF SavesAt
  <2>6. CASE SaveActiveUser(h)
    <3>1. handler[h].op = "save user"
      BY <2>6 DEF SaveActiveUser
    <3>2. QED
      BY <2>u, <2>2, <2>6, <3>1, StatusEffect DEF SavesAt
  <2>7. CASE CreateAssociation(h)
    <3>1. /\ handler[h].op = "onboard"
          /\ wallets' = [wallets EXCEPT ![u] = @ + 1]
          /\ association' = [association EXCEPT ![u] = "ACTIVE"]
          /\ End(h) /\ UNCHANGED <<user, membership, account>>
      BY <2>7, <2>u DEF CreateAssociation
    <3>2. Onboards(h, u)
      BY <2>2, <3>1 DEF TablesOK, Onboards
    <3>3. QED
      BY <2>u, <2>2, <3>1, <3>2 DEF SavesAt
  <2>8. CASE DeActivateUser(h)
    <3>1. handler[h].op = "delete"
      BY <2>8 DEF DeActivateUser
    <3>2. QED
      BY <2>u, <2>2, <2>8, <3>1, DeleteEffect DEF SavesAt
  <2>9. CASE LoadMemberships(h)
    <3>r. PICK read : read = [restored |-> handler[h].read #
                                            [status |-> user[u].status, info |-> user[u].info],
                              user |-> handler[h].read, found |-> RowsWith(u, "ACTIVE")]
      OBVIOUS
    <3>1. /\ handler[h].op = "edit"
          /\ handler' = [handler EXCEPT ![h].op = "save edit", ![h].read = read]
          /\ UNCHANGED <<rows, mail, conflicts>>
      BY <2>9, <2>u, <3>r DEF LoadMemberships
    <3>2. read.user = handler[h].read /\ read.found = RowsWith(u, "ACTIVE")
      BY <3>r
    <3>3. /\ handler'[h].op = "save edit" /\ handler'[h].on = u /\ handler'[h].read = read
          /\ \A k \in Handlers \ {h} : handler'[k] = handler[k]
      <4> DEFINE q == [[handler[h] EXCEPT !.op = "save edit"] EXCEPT !.read = read]
      <4>1. handler'[h] = q /\ \A k \in Handlers \ {h} : handler'[k] = handler[k]
        BY <2>2, <3>1 DEF RequestsOK
      <4>2. q.op = "save edit" /\ q.on = u /\ q.read = read
        BY <2>q
      <4> HIDE DEF q
      <4>3. QED
        BY ONLY <4>1, <4>2, Zenon
    <3>4. Loads(h, u)
      BY <3>1, <3>2, <3>3 DEF Loads, rows
    <3>5. QED
      BY <2>u, <2>2, <3>1, <3>4 DEF SavesAt
  <2>10. CASE UpdateMembership(h)
    <3>1. handler[h].op = "save edit"
      BY <2>10 DEF UpdateMembership
    <3>2. QED
      BY <2>u, <2>2, <2>10, <3>1, EditEffect DEF SavesAt
  <2>11. QED
    BY <1>2, <2>3, <2>4, <2>5, <2>6, <2>7, <2>8, <2>9, <2>10 DEF Save
<1>3. QED
  BY <1>1, <1>2

(* Every step is one of these.                                             *)
LEMMA Steps ==
  ASSUME Shape, Shape', [AccountsNext]_accountVars
  PROVE  \/ Still
         \/ \E h \in Handlers :
              Begins(h) \/ Fails(h) \/ \E u \in Users : Registers(h, u) \/ SavesAt(h, u)
<1>1. ASSUME NEW h \in Handlers, Request(h) \/ Save(h) \/ Fail(h)
      PROVE  Begins(h) \/ Fails(h) \/ \E u \in Users : Registers(h, u) \/ SavesAt(h, u)
  BY <1>1, RequestBegins, SaveEffects DEF Fail, Fails, rows
<1>2. ASSUME NEW u \in Users, ResendVerification(u) PROVE Still
  BY <1>2 DEF ResendVerification, Still, rows
<1>3. CASE UNCHANGED accountVars
  BY <1>3 DEF Still, accountVars, rows
<1>4. QED
  BY <1>1, <1>2, <1>3 DEF AccountsNext, AtRest

(* Two handlers at one user.                                               *)
LEMMA Meet ==
  ASSUME Shape, NEW h \in Handlers, NEW k \in Handlers, h # k,
         handler[h].on = handler[k].on, handler[h].on \in Users \cup Emails
  PROVE  Conflict(handler[h].op, handler[k].op) \subseteq conflicts
<1>1. handler[h].on # None
  BY AccountsAssumption DEF AccountsAssumption
<1>2. QED
  BY <1>1 DEF Shape, Apart

(* The steps, for a predicate about the tables and what a handler relies   *)
(* on: conflicts only grow.                                                *)
LEMMA ConflictsGrow ==
  ASSUME Shape, Shape', [AccountsNext]_accountVars
  PROVE  conflicts \subseteq conflicts'
<1>1. ASSUME NEW h \in Handlers, End(h) PROVE conflicts \subseteq conflicts'
  BY <1>1 DEF End
<1>2. ASSUME NEW h \in Handlers, NEW u \in Users, SavesAt(h, u)
      PROVE  End(h) \/ conflicts' = conflicts
  BY <1>2 DEF SavesAt, Verifies, SetsStatus, Onboards, Deletes, Loads, Edits
<1>3. ASSUME NEW h \in Handlers,
             Begins(h) \/ Fails(h) \/ \E u \in Users : Registers(h, u)
      PROVE  conflicts \subseteq conflicts'
  BY <1>1, <1>3 DEF Begins, Fails, Registers
<1>4. Still => conflicts' = conflicts
  BY DEF Still
<1>5. QED
  BY <1>1, <1>2, <1>3, <1>4, Steps

-----------------------------------------------------------------------------
(* Onboarding: unless two overlap, each finds the association pending and  *)
(* without a wallet, and leaves it with one.                               *)
Onboarding ==
  "onboarding" \notin conflicts =>
    /\ \A a \in Users : wallets[a] <= 1
    /\ \A h \in Handlers : handler[h].op = "onboard" => association[handler[h].on] = Pending

(* No step breaks this: an onboarding that has begun is alone.             *)
LEMMA NextOnboarding ==
  ASSUME Shape, Shape', Onboarding, [AccountsNext]_accountVars
  PROVE  Onboarding'
<1> SUFFICES ASSUME "onboarding" \notin conflicts'
             PROVE  /\ \A a \in Users : wallets'[a] <= 1
                    /\ \A h \in Handlers :
                         handler'[h].op = "onboard" => association'[handler'[h].on] = Pending
  BY DEF Onboarding
<1>1. /\ "onboarding" \notin conflicts
      /\ \A a \in Users : wallets[a] <= 1
      /\ \A h \in Handlers : handler[h].op = "onboard" => association[handler[h].on] = Pending
  BY ConflictsGrow DEF Onboarding
<1>2. \A h \in Handlers : handler[h].op = "onboard" =>
        handler[h].on \in Users /\ user[handler[h].on].status # "absent"
  BY AtUser
<1>3. CASE Still
  BY <1>1, <1>3 DEF Still
<1>4. ASSUME NEW h \in Handlers, Begins(h)
      PROVE  /\ \A a \in Users : wallets'[a] <= 1
             /\ \A k \in Handlers :
                  handler'[k].op = "onboard" => association'[handler'[k].on] = Pending
  <2>1. UNCHANGED <<association, wallets>>
    BY <1>4 DEF Begins, rows
  <2>2. ASSUME NEW k \in Handlers, handler'[k].op = "onboard"
        PROVE  association[handler'[k].on] = Pending
    <3>1. CASE k = h
      BY <1>4, <2>2, <3>1 DEF Begins, Fresh
    <3>2. CASE k # h
      <4>1. handler'[k] = handler[k]
        BY <1>4, <3>2 DEF Begins
      <4>2. QED
        BY <1>1, <2>2, <4>1
    <3>3. QED
      BY <3>1, <3>2
  <2>3. QED
    BY <1>1, <2>1, <2>2
<1>5. ASSUME NEW h \in Handlers, UNCHANGED <<association, wallets>>,
             handler'[h].op # "onboard",
             \A k \in Handlers \ {h} : handler'[k] = handler[k]
      PROVE  /\ \A a \in Users : wallets'[a] <= 1
             /\ \A k \in Handlers :
                  handler'[k].op = "onboard" => association'[handler'[k].on] = Pending
  BY <1>1, <1>5
<1>6. ASSUME NEW h \in Handlers, NEW u \in Users, Registers(h, u)
      PROVE  /\ \A a \in Users : wallets'[a] <= 1
             /\ \A k \in Handlers :
                  handler'[k].op = "onboard" => association'[handler'[k].on] = Pending
  <2>1. /\ user[u].status = "absent" /\ UNCHANGED wallets
        /\ \A v \in Users \ {u} : association'[v] = association[v]
    BY <1>6, Absent DEF Registers
  <2>2. /\ handler'[h].op = "idle" /\ \A k \in Handlers \ {h} : handler'[k] = handler[k]
    BY <1>6, Ends DEF Registers
  <2>3. QED
    BY <1>1, <1>2, <2>1, <2>2
<1>7. ASSUME NEW h \in Handlers, NEW u \in Users, handler[h].op = "onboard",
             u = handler[h].on, Onboards(h, u)
      PROVE  /\ \A a \in Users : wallets'[a] <= 1
             /\ \A k \in Handlers :
                  handler'[k].op = "onboard" => association'[handler'[k].on] = Pending
  <2>1. /\ handler'[h].op = "idle" /\ \A k \in Handlers \ {h} : handler'[k] = handler[k]
    BY <1>7, Ends DEF Onboards
  <2>2. wallets[u] = 0
    <3>1. ~(wallets[u] > 0) /\ wallets[u] \in 0 .. MaxWallets /\ MaxWallets \in Nat
      <4>1. UserOK(u) /\ wallets[u] \in 0 .. MaxWallets /\ MaxWallets \in Nat
        BY AccountsAssumption DEF Shape, TablesOK, AccountsAssumption
      <4>2. association[u] = Pending
        BY <1>1, <1>7
      <4>3. QED
        BY <4>1, <4>2 DEF UserOK
    <3>2. QED
      BY <3>1
  <2>3. ASSUME NEW k \in Handlers \ {h}, handler[k].op = "onboard" PROVE handler[k].on # u
    <3>1. "onboarding" \in Conflict(handler[h].op, handler[k].op)
      BY <1>7, <2>3, Conflicts
    <3>2. QED
      BY <1>1, <1>7, <3>1, Meet
  <2>4. QED
    BY <1>1, <1>2, <1>7, <2>1, <2>2, <2>3 DEF Onboards
<1>8. ASSUME NEW h \in Handlers, Fails(h)
      PROVE  /\ \A a \in Users : wallets'[a] <= 1
             /\ \A k \in Handlers :
                  handler'[k].op = "onboard" => association'[handler'[k].on] = Pending
  BY <1>5, <1>8, Ends DEF Fails
<1>9. ASSUME NEW h \in Handlers, NEW u \in Users, SavesAt(h, u)
      PROVE  /\ \A a \in Users : wallets'[a] <= 1
             /\ \A k \in Handlers :
                  handler'[k].op = "onboard" => association'[handler'[k].on] = Pending
  <2>1. CASE handler[h].op = "onboard" /\ Onboards(h, u)
    BY <1>7, <1>9, <2>1 DEF SavesAt
  <2>2. CASE Verifies(h, u) \/ Loads(h, u)
    BY <1>5, <2>2 DEF Verifies, Activates, Loads
  <2>3. ASSUME NEW s, SetsStatus(h, u, s) \/ Deletes(h, u) \/ Edits(h, u)
        PROVE  /\ \A a \in Users : wallets'[a] <= 1
               /\ \A k \in Handlers :
                    handler'[k].op = "onboard" => association'[handler'[k].on] = Pending
    BY <1>5, <2>3, Ends DEF SetsStatus, Deletes, Edits
  <2>4. QED
    BY <1>9, <2>1, <2>2, <2>3 DEF SavesAt
<1>10. QED
  BY <1>3, <1>4, <1>6, <1>8, <1>9, Steps

(* An active association has its wallet, member account and general group, *)
(* and has them once unless two onboardings overlap; it has members only   *)
(* then: for any number of users and requests.                             *)
THEOREM OnboardedAtMostOnce == AccountsSpec => []OnboardedOnce
<1>1. AccountsInit => Onboarding
  BY Idle DEF AccountsInit, Onboarding
<1>2. Shape /\ Onboarding /\ [AccountsNext]_accountVars => Onboarding'
  BY NextShape, NextOnboarding
<1>3. Shape /\ Onboarding => OnboardedOnce
  <2> SUFFICES ASSUME Shape, Onboarding, NEW a \in Users
               PROVE  /\ association[a] = "ACTIVE" <=> wallets[a] > 0
                      /\ "onboarding" \notin conflicts => wallets[a] <= 1
                      /\ (\E u \in Users \ {a} : user[u].home = a) => wallets[a] > 0
    BY DEF OnboardedOnce
  <2>1. ASSUME NEW u \in Users \ {a}, user[u].home = a PROVE wallets[a] > 0
    <3>1. user[u].status # "absent"
      <4>1. a # None
        BY AccountsAssumption DEF AccountsAssumption
      <4>2. QED
        BY <2>1, <4>1, Absent DEF Shape, UserOK
    <3>2. QED
      BY <2>1, <3>1 DEF Shape, UserOK
  <2>2. QED
    BY <2>1 DEF Shape, UserOK, Onboarding
<1>4. QED
  BY <1>1, <1>2, <1>3, ShapeHolds, PTL DEF AccountsSpec

-----------------------------------------------------------------------------
(* Verification: unless a reset overlaps with one, a handler that is going *)
(* to leave a user pending is at a user whose account is pending.          *)
KnowsPending(q) ==
  /\ q.op = "reset" => (q.read = Pending => account[q.on] = Pending)
  /\ q.op = "edit" => q.read.status # Pending
  /\ q.op = "save edit" => q.read.user.status # Pending

Verification ==
  "verification" \notin conflicts =>
    /\ \A u \in Users : user[u].status = Pending <=> account[u] = Pending
    /\ \A h \in Handlers : KnowsPending(handler[h])

(* A handler that begins an edit is at a user who is not pending.          *)
LEMMA EditedNotPending ==
  ASSUME Shape, Shape', NEW h \in Handlers, Begins(h), handler'[h].op = "edit"
  PROVE  handler'[h].on \in Users /\ account[handler'[h].on] # Pending
<1>1. RequestOK(handler'[h]) /\ HandlerOK(h)'
  BY DEF Shape, RequestsOK
<1>u. PICK u \in Users : u = handler'[h].on
  BY <1>1 DEF RequestOK
<1>2. UNCHANGED <<user, account, association>>
  BY DEF Begins, rows
<1>3. user[u].status # "absent" /\ association[user[u].home] = "ACTIVE"
  BY <1>1, <1>2, <1>u DEF HandlerOK, Holds
<1>4. user[u].home \in Users
  BY <1>3 DEF Shape, UserOK
<1>5. QED
  BY <1>3, <1>4, <1>u, NoPending

(* No step breaks this: a verification finds no reset under way.           *)
LEMMA NextVerification ==
  ASSUME Shape, Shape', Verification, [AccountsNext]_accountVars
  PROVE  Verification'
<1> DEFINE Goal == /\ \A u \in Users : user'[u].status = Pending <=> account'[u] = Pending
                   /\ \A h \in Handlers : KnowsPending(handler[h])'
<1> SUFFICES ASSUME "verification" \notin conflicts' PROVE Goal
  BY DEF Verification
<1>1. /\ "verification" \notin conflicts
      /\ \A u \in Users : user[u].status = Pending <=> account[u] = Pending
      /\ \A h \in Handlers : KnowsPending(handler[h])
  BY ConflictsGrow DEF Verification
<1>2. \A h \in Handlers : handler[h].op \in OnUser => handler[h].on \in Users
  BY AtUser
<1>3. CASE Still
  BY <1>1, <1>3 DEF Still, KnowsPending
<1>4. ASSUME NEW h \in Handlers, NEW u \in Users,
             user'[u].status = Pending <=> account'[u] = Pending,
             \A v \in Users \ {u} : user'[v] = user[v] /\ account'[v] = account[v],
             \A k \in Handlers \ {h} :
               handler'[k] = handler[k] /\ (handler[k].op = "reset" => handler[k].on # u
                                              \/ account'[u] = account[u]),
             KnowsPending(handler[h])'
      PROVE  Goal
  <2>1. \A v \in Users : user'[v].status = Pending <=> account'[v] = Pending
    BY <1>1, <1>4
  <2>2. ASSUME NEW k \in Handlers \ {h} PROVE KnowsPending(handler[k])'
    <3>1. handler'[k] = handler[k] /\ KnowsPending(handler[k])
      BY <1>1, <1>4
    <3>2. handler[k].op = "reset" => account'[handler[k].on] = account[handler[k].on]
      BY <1>2, <1>4
    <3>3. QED
      BY <3>1, <3>2 DEF KnowsPending
  <2>3. QED
    BY <1>4, <2>1, <2>2
<1>5. ASSUME NEW q, q.op \notin {"reset", "edit", "save edit"} PROVE KnowsPending(q)'
  BY <1>5 DEF KnowsPending
<1>i. KnowsPending(NoRequest)'
  BY Idle DEF KnowsPending
<1>6. ASSUME NEW h \in Handlers, Begins(h) PROVE Goal
  <2>1. UNCHANGED <<user, account>> /\ \A k \in Handlers \ {h} : handler'[k] = handler[k]
    BY <1>6 DEF Begins, rows
  <2>2. handler'[h].op = "reset" =>
          (handler'[h].read = Pending => account[handler'[h].on] = Pending)
    <3>1. handler'[h].op = "reset" =>
            handler'[h].on \in Users /\ handler'[h].read = user[handler'[h].on].status
      BY <1>6 DEF Begins, Fresh, Shape, RequestsOK, RequestOK
    <3>2. QED
      BY <1>1, <3>1
  <2>3. handler'[h].op = "edit" => handler'[h].read.status # Pending
    <3>1. handler'[h].op = "edit" => handler'[h].read.status = user[handler'[h].on].status
      BY <1>6 DEF Begins, Fresh
    <3>2. QED
      BY <1>1, <1>6, <3>1, EditedNotPending
  <2>4. handler'[h].op # "save edit"
    BY <1>6 DEF Begins, Fresh
  <2>5. KnowsPending(handler[h])'
    BY <2>1, <2>2, <2>3, <2>4 DEF KnowsPending
  <2>6. ASSUME NEW k \in Handlers \ {h} PROVE KnowsPending(handler[k])'
    BY <1>1, <2>1 DEF KnowsPending
  <2>7. QED
    BY <1>1, <2>1, <2>5, <2>6
<1>7. ASSUME NEW h \in Handlers, Fails(h) PROVE Goal
  <2>1. /\ UNCHANGED <<user, account>> /\ handler'[h] = NoRequest
        /\ \A k \in Handlers \ {h} : handler'[k] = handler[k]
    BY <1>7, Ends DEF Fails
  <2>2. ASSUME NEW k \in Handlers PROVE KnowsPending(handler[k])'
    BY <1>1, <1>i, <2>1 DEF KnowsPending
  <2>3. QED
    BY <1>1, <2>1, <2>2
<1>8. ASSUME NEW h \in Handlers, NEW u \in Users, Registers(h, u) PROVE Goal
  <2>1. /\ user'[u].status = Pending <=> account'[u] = Pending
        /\ \A v \in Users \ {u} : user'[v] = user[v] /\ account'[v] = account[v]
        /\ user[u].status = "absent"
    BY <1>8, Absent DEF Registers
  <2>2. KnowsPending(handler[h])' /\ \A k \in Handlers \ {h} : handler'[k] = handler[k]
    BY <1>8, <1>i, Ends DEF Registers
  <2>3. \A k \in Handlers : handler[k].op = "reset" => handler[k].on # u
    BY <2>1, AtUser
  <2>4. QED
    BY <1>4, <2>1, <2>2, <2>3
<1>9. ASSUME NEW h \in Handlers, NEW u \in Users, SavesAt(h, u) PROVE Goal
  <2>u. u = handler[h].on /\ user[u].status # "absent" /\ KnowsPending(handler[h])
    BY <1>1, <1>9 DEF SavesAt
  <2>1. CASE handler[h].op \in Verifying /\ Verifies(h, u)
    <3>1. /\ user'[u].status = "ACTIVE" /\ account'[u] = "ACTIVE"
          /\ \A v \in Users \ {u} : user'[v] = user[v] /\ account'[v] = account[v]
          /\ \A k \in Handlers \ {h} : handler'[k] = handler[k]
      BY <2>1 DEF Verifies, Activates, Becomes
    <3>2. KnowsPending(handler[h])'
      BY <1>5, <2>1 DEF Verifies
    <3>3. ASSUME NEW k \in Handlers \ {h}, handler[k].op = "reset" PROVE handler[k].on # u
      <4>1. "verification" \in Conflict(handler[k].op, handler[h].op)
        BY <2>1, <3>3, Conflicts
      <4>2. QED
        BY <1>1, <2>u, <4>1, Meet
    <3>4. QED
      BY <1>4, <3>1, <3>2, <3>3
  <2>2. ASSUME NEW s, SetsStatus(h, u, s), s = Pending => account[u] = Pending PROVE Goal
    <3>1. /\ user'[u].status = s /\ account' = account
          /\ \A v \in Users \ {u} : user'[v] = user[v]
      BY <2>2 DEF SetsStatus, Becomes
    <3>2. account'[u] = Pending => user'[u].status = Pending
      BY DEF Shape, UserOK
    <3>3. KnowsPending(handler[h])' /\ \A k \in Handlers \ {h} : handler'[k] = handler[k]
      BY <1>i, <2>2, Ends DEF SetsStatus
    <3>4. QED
      BY <1>4, <2>2, <3>1, <3>2, <3>3
  <2>3. CASE handler[h].op = "reset" /\ SetsStatus(h, u, ResetStatus(handler[h].read))
    <3>1. ResetStatus(handler[h].read) = Pending => account[u] = Pending
      BY <2>u, <2>3 DEF ResetStatus, KnowsPending
    <3>2. PICK s : s = ResetStatus(handler[h].read)
      OBVIOUS
    <3>3. QED
      BY <2>2, <2>3, <3>1, <3>2
  <2>4. CASE handler[h].op = "save user" /\ SetsStatus(h, u, "ACTIVE")
    BY <2>2, <2>4
  <2>5. CASE Onboards(h, u) \/ (handler[h].op = "edit" /\ Loads(h, u))
    <3>1. UNCHANGED <<user, account>> /\ \A k \in Handlers \ {h} : handler'[k] = handler[k]
      BY <2>5, Ends DEF Onboards, Loads
    <3>2. KnowsPending(handler[h])'
      <4>1. CASE Onboards(h, u)
        BY <1>i, <4>1, Ends DEF Onboards
      <4>2. CASE handler[h].op = "edit" /\ Loads(h, u)
        BY <2>u, <4>2 DEF Loads, KnowsPending
      <4>3. QED
        BY <2>5, <4>1, <4>2
    <3>3. QED
      BY <1>1, <1>4, <3>1, <3>2
  <2>6. CASE Deletes(h, u)
    <3>1. /\ user'[u].status = "DELETED" /\ account' = account /\ account[u] # Pending
          /\ \A v \in Users \ {u} : user'[v] = user[v]
      BY <2>6 DEF Deletes, Becomes
    <3>2. KnowsPending(handler[h])' /\ \A k \in Handlers \ {h} : handler'[k] = handler[k]
      BY <1>i, <2>6, Ends DEF Deletes
    <3>3. QED
      BY <1>4, <3>1, <3>2
  <2>7. CASE handler[h].op = "save edit" /\ Edits(h, u)
    <3>1. /\ account' = account /\ account[u] # Pending
          /\ \A v \in Users \ {u} : user'[v] = user[v]
      BY <2>7 DEF Edits, Becomes
    <3>2. user'[u].status # Pending
      BY <1>1, <2>u, <2>7, <3>1 DEF Edits, Becomes, KnowsPending
    <3>3. KnowsPending(handler[h])' /\ \A k \in Handlers \ {h} : handler'[k] = handler[k]
      BY <1>i, <2>7, Ends DEF Edits
    <3>4. QED
      BY <1>4, <3>1, <3>2, <3>3
  <2>8. QED
    BY <1>9, <2>1, <2>3, <2>4, <2>5, <2>6, <2>7 DEF SavesAt
<1>10. QED
  BY <1>3, <1>6, <1>7, <1>8, <1>9, Steps

(* Whoever is pending can still get in, unless a reset overlaps with a     *)
(* verification: for any number of users and requests.                     *)
THEOREM PendingUsersCanBeVerified == AccountsSpec => []PendingCanBeVerified
<1>1. AccountsInit => Verification
  BY Idle, Absent DEF AccountsInit, Verification, KnowsPending
<1>2. Shape /\ Verification /\ [AccountsNext]_accountVars => Verification'
  BY NextShape, NextVerification
<1>3. Shape /\ Verification => PendingCanBeVerified
  <2> SUFFICES ASSUME Shape, Verification, "verification" \notin conflicts, NEW u \in Users
               PROVE  /\ user[u].status = Pending <=> account[u] = Pending
                      /\ user[u].status = Pending <=> RowsWith(u, Pending) # {}
    BY DEF PendingCanBeVerified
  <2>1. user[u].status = Pending <=> account[u] = Pending
    BY DEF Verification
  <2>2. UserOK(u) /\ membership[u] \in Seq(MembershipRow)
    BY DEF Shape, TablesOK
  <2>3. ASSUME account[u] = Pending PROVE RowsWith(u, Pending) # {}
    <3>1. membership[u] # <<>> /\ RowsWith(u, Pending) = DOMAIN membership[u]
      BY <2>2, <2>3 DEF UserOK
    <3>2. QED
      BY <2>2, <3>1, Domains
  <2>4. RowsWith(u, Pending) # {} => account[u] = Pending
    BY <2>2 DEF UserOK
  <2>5. QED
    BY <2>1, <2>3, <2>4
<1>4. QED
  BY <1>1, <1>2, <1>3, ShapeHolds, PTL DEF AccountsSpec

-----------------------------------------------------------------------------
(* Deletion: unless one overlaps with another handler at its user, nobody  *)
(* is at a user who is deleted, or has read one.                           *)
Follows(u) ==
  user[u].status # "absent" =>
    /\ user[u].status = "DELETED" <=> Live(u) = {}
    /\ user[u].status = "DELETED" <=> user[u].info = "DELETED"

NotDeleted(q) ==
  /\ q.op \in OnUser => user[q.on].status # "DELETED"
  /\ q.op = "edit" => q.read.status # "DELETED"
  /\ q.op = "save edit" => q.read.user.status # "DELETED"

Deletion ==
  "deletion" \notin conflicts =>
    /\ \A u \in Users : Follows(u)
    /\ \A h \in Handlers : NotDeleted(handler[h])

(* How the row of a user can change.                                       *)
LEMMA StatusSteps ==
  ASSUME Shape, Shape', Deletion, [AccountsNext]_accountVars, "deletion" \notin conflicts,
         NEW u \in Users
  PROVE  /\ user[u].status = "DELETED" => user'[u].status = "DELETED"
         /\ user[u].status # "absent" =>
              user'[u].status # "absent" /\ user'[u].email = user[u].email
         /\ user[u].status = "absent" /\ user'[u].status # "absent" =>
              \E h \in Handlers : Registers(h, u)
<1> DEFINE Goal == /\ user[u].status = "DELETED" => user'[u].status = "DELETED"
                   /\ user[u].status # "absent" =>
                        user'[u].status # "absent" /\ user'[u].email = user[u].email
                   /\ user[u].status = "absent" /\ user'[u].status # "absent" =>
                        \E h \in Handlers : Registers(h, u)
<1>1. \A h \in Handlers : NotDeleted(handler[h])
  BY DEF Deletion
<1>2. ASSUME user'[u] = user[u] PROVE Goal
  BY <1>2
<1>3. ASSUME NEW h \in Handlers, NEW v \in Users, Registers(h, v) PROVE Goal
  <2>1. CASE v = u
    BY <1>3, <2>1, Absent DEF Registers
  <2>2. CASE v # u
    BY <1>2, <1>3, <2>2 DEF Registers
  <2>3. QED
    BY <2>1, <2>2
<1>4. ASSUME NEW h \in Handlers, NEW v \in Users, SavesAt(h, v) PROVE Goal
  <2>1. CASE user' = user
    BY <1>2, <2>1
  <2>2. ASSUME NEW s, Becomes(v, s) PROVE Goal
    <3>1. CASE v # u
      BY <1>2, <2>2, <3>1 DEF Becomes
    <3>2. CASE v = u
      <4>1. user[u].status \notin {"DELETED", "absent"}
        <5>1. NotDeleted(handler[h]) /\ u = handler[h].on /\ user[u].status # "absent"
          BY <1>1, <1>4, <3>2 DEF SavesAt
        <5>2. handler[h].op \in OnUser
          BY <1>4 DEF SavesAt
        <5>3. QED
          BY <5>1, <5>2 DEF NotDeleted
      <4>2. user'[u].status # "absent"
        <5>1. user[u].home \in Users
          BY <4>1 DEF Shape, UserOK
        <5>2. user'[u].home = user[u].home
          BY <2>2, <3>2 DEF Becomes
        <5>3. UserOK(u)'
          BY DEF Shape
        <5>4. None \notin Users
          BY AccountsAssumption DEF AccountsAssumption
        <5>5. QED
          BY <5>1, <5>2, <5>3, <5>4, Absent DEF UserOK
      <4>3. QED
        BY <2>2, <3>2, <4>1, <4>2 DEF Becomes
    <3>3. QED
      BY <3>1, <3>2
  <2>3. user' = user \/ \E s : Becomes(v, s)
    BY <1>4 DEF SavesAt, Verifies, Activates, SetsStatus, Onboards, Deletes, Loads, Edits
  <2>4. QED
    BY <2>1, <2>2, <2>3
<1>5. ASSUME Still \/ \E h \in Handlers : Begins(h) \/ Fails(h) PROVE Goal
  BY <1>2, <1>5 DEF Still, Begins, Fails, rows
<1>6. QED
  BY <1>3, <1>4, <1>5, Steps

(* No step breaks this: whoever is deleted is left alone.                  *)
LEMMA NextDeletion ==
  ASSUME Shape, Shape', Deletion, [AccountsNext]_accountVars
  PROVE  Deletion'
<1> DEFINE Goal == /\ \A u \in Users : Follows(u)'
                   /\ \A h \in Handlers : NotDeleted(handler[h])'
<1> SUFFICES ASSUME "deletion" \notin conflicts' PROVE Goal
  BY DEF Deletion
<1>1. /\ "deletion" \notin conflicts
      /\ \A u \in Users : Follows(u)
      /\ \A h \in Handlers : NotDeleted(handler[h])
  BY ConflictsGrow DEF Deletion
<1>2. \A h \in Handlers : handler[h].op \in OnUser =>
        handler[h].on \in Users /\ user[handler[h].on].status # "absent"
  BY AtUser
<1>3. ASSUME UNCHANGED <<user, membership>> PROVE \A u \in Users : Follows(u)'
  BY <1>1, <1>3 DEF Follows, Live, RowsWith
<1>4. ASSUME UNCHANGED <<user, membership>>, NEW h \in Handlers, NotDeleted(handler[h])',
             \A k \in Handlers \ {h} : handler'[k] = handler[k]
      PROVE  Goal
  <2>1. ASSUME NEW k \in Handlers \ {h} PROVE NotDeleted(handler[k])'
    BY <1>1, <1>4 DEF NotDeleted
  <2>2. QED
    BY <1>3, <1>4, <2>1
<1>5. ASSUME NEW h \in Handlers, NEW u \in Users, Follows(u)', NotDeleted(handler[h])',
             \A v \in Users \ {u} : user'[v] = user[v] /\ membership'[v] = membership[v],
             \A k \in Handlers \ {h} : handler'[k] = handler[k],
             \/ user'[u].status # "DELETED"
             \/ \A k \in Handlers \ {h} : handler[k].op \in OnUser => handler[k].on # u
      PROVE  Goal
  <2>1. ASSUME NEW v \in Users \ {u} PROVE Follows(v)'
    <3>1. /\ user'[v] = user[v] /\ Live(v)' = Live(v) /\ Follows(v)
      BY <1>1, <1>5 DEF Live, RowsWith
    <3>2. QED
      BY <3>1 DEF Follows
  <2>2. ASSUME NEW k \in Handlers \ {h} PROVE NotDeleted(handler[k])'
    <3>1. handler'[k] = handler[k] /\ NotDeleted(handler[k])
      BY <1>1, <1>5
    <3>2. handler[k].op \in OnUser => user'[handler[k].on].status # "DELETED"
      <4>1. CASE handler[k].on = u
        BY <1>5, <4>1
      <4>2. CASE handler[k].on # u
        BY <1>2, <1>5, <3>1, <4>2 DEF NotDeleted
      <4>3. QED
        BY <4>1, <4>2
    <3>3. QED
      BY <3>1, <3>2 DEF NotDeleted
  <2>3. QED
    BY <1>5, <2>1, <2>2
<1>6. ASSUME NEW u \in Users, user'[u].status # "DELETED", user'[u].info # "DELETED",
             Live(u)' # {}
      PROVE  Follows(u)'
  BY <1>6 DEF Follows
<1>i. NotDeleted(NoRequest)'
  BY Idle DEF NotDeleted
<1>7. CASE Still
  <2>1. ASSUME NEW k \in Handlers PROVE NotDeleted(handler[k])'
    BY <1>1, <1>7 DEF Still, NotDeleted
  <2>2. QED
    BY <1>3, <1>7, <2>1 DEF Still
<1>8. ASSUME NEW h \in Handlers, Begins(h) PROVE Goal
  <2>1. /\ UNCHANGED <<user, membership>> /\ Fresh(handler'[h])
        /\ \A k \in Handlers \ {h} : handler'[k] = handler[k]
    BY <1>8 DEF Begins, rows
  <2>2. ASSUME handler'[h].op \in OnUser
        PROVE  user[handler'[h].on].status # "DELETED"
    <3>1. RequestOK(handler'[h]) /\ HandlerOK(h)'
      BY DEF Shape, RequestsOK
    <3>u. PICK u \in Users : u = handler'[h].on
      BY <2>2, <3>1 DEF RequestOK
    <3>2. user[u].status # "absent" /\ Follows(u)
      BY <1>1, <2>1, <2>2, <3>1, <3>u DEF HandlerOK, Holds
    <3>3. CASE handler'[h].op \in {"delete", "edit"}
      BY <2>1, <3>2, <3>3, <3>u DEF Fresh, Follows
    <3>4. CASE handler'[h].op = "reset"
      BY <2>1, <3>1, <3>4, <3>u DEF Fresh, RequestOK
    <3>5. CASE handler'[h].op \in Verifying \cup {"save user", "onboard"}
      BY <2>1, <3>5, <3>u DEF Fresh
    <3>6. handler'[h].op # "save edit"
      BY <2>1 DEF Fresh
    <3>7. QED
      BY <2>2, <3>3, <3>4, <3>5, <3>6, <3>u
  <2>3. NotDeleted(handler[h])'
    BY <2>1, <2>2 DEF NotDeleted, Fresh
  <2>4. QED
    BY <1>4, <2>1, <2>3
<1>9. ASSUME NEW h \in Handlers, Fails(h) PROVE Goal
  BY <1>4, <1>9, <1>i, Ends DEF Fails
<1>10. ASSUME NEW h \in Handlers, NEW u \in Users, Registers(h, u) PROVE Goal
  <2>1. /\ user'[u].status # "DELETED" /\ Follows(u)'
        /\ \A v \in Users \ {u} : user'[v] = user[v] /\ membership'[v] = membership[v]
    BY <1>6, <1>10 DEF Registers
  <2>2. NotDeleted(handler[h])' /\ \A k \in Handlers \ {h} : handler'[k] = handler[k]
    BY <1>10, <1>i, Ends DEF Registers
  <2>3. QED
    BY <1>5, <2>1, <2>2
<1>11. ASSUME NEW h \in Handlers, NEW u \in Users, SavesAt(h, u) PROVE Goal
  <2>u. /\ u = handler[h].on /\ user[u].status \notin {"absent", "DELETED"}
        /\ user[u].info # "DELETED" /\ Live(u) # {} /\ NotDeleted(handler[h])
    <3>1. /\ u = handler[h].on /\ user[u].status # "absent" /\ Follows(u)
          /\ NotDeleted(handler[h]) /\ handler[h].op \in OnUser
      BY <1>1, <1>11 DEF SavesAt
    <3>2. QED
      BY <3>1 DEF NotDeleted, Follows
  <2>1. CASE Verifies(h, u)
    <3>1. /\ user'[u].status = "ACTIVE" /\ Follows(u)'
          /\ \A v \in Users \ {u} : user'[v] = user[v] /\ membership'[v] = membership[v]
          /\ \A k \in Handlers \ {h} : handler'[k] = handler[k]
      BY <1>6, <2>u, <2>1 DEF Verifies, Activates, Becomes
    <3>2. NotDeleted(handler[h])'
      BY <2>1, <3>1 DEF Verifies, NotDeleted
    <3>3. QED
      BY <1>5, <3>1, <3>2
  <2>2. ASSUME NEW s \in {"ACTIVE", Pending, "IN_ACTIVE"}, SetsStatus(h, u, s) PROVE Goal
    <3>1. /\ user'[u].status = s /\ user'[u].info = user[u].info /\ membership' = membership
          /\ \A v \in Users \ {u} : user'[v] = user[v]
      BY <2>2 DEF SetsStatus, Becomes
    <3>2. Live(u)' = Live(u)
      BY <3>1 DEF Live, RowsWith
    <3>3. Follows(u)'
      BY <1>6, <2>u, <3>1, <3>2
    <3>4. NotDeleted(handler[h])' /\ \A k \in Handlers \ {h} : handler'[k] = handler[k]
      BY <1>i, <2>2, Ends DEF SetsStatus
    <3>5. QED
      BY <1>5, <3>1, <3>3, <3>4
  <2>3. CASE handler[h].op = "reset" /\ SetsStatus(h, u, ResetStatus(handler[h].read))
    <3>1. PICK s : s = ResetStatus(handler[h].read)
      OBVIOUS
    <3>2. s \in {"ACTIVE", Pending, "IN_ACTIVE"}
      BY <3>1 DEF ResetStatus
    <3>3. QED
      BY <2>2, <2>3, <3>1, <3>2
  <2>4. CASE SetsStatus(h, u, "ACTIVE")
    BY <2>2, <2>4
  <2>5. CASE Onboards(h, u)
    BY <1>4, <1>i, <2>5, Ends DEF Onboards
  <2>6. CASE handler[h].op = "edit" /\ Loads(h, u)
    <3>1. UNCHANGED <<user, membership>> /\ \A k \in Handlers \ {h} : handler'[k] = handler[k]
      BY <2>6 DEF Loads
    <3>2. NotDeleted(handler[h])'
      BY <2>u, <2>6, <3>1 DEF Loads, NotDeleted
    <3>3. QED
      BY <1>4, <3>1, <3>2
  <2>7. CASE handler[h].op = "delete" /\ Deletes(h, u)
    <3>1. /\ user'[u].status = "DELETED" /\ user'[u].info = "DELETED" /\ Live(u)' = {}
          /\ \A v \in Users \ {u} : user'[v] = user[v] /\ membership'[v] = membership[v]
      BY <2>7 DEF Deletes, Becomes
    <3>2. Follows(u)'
      BY <3>1 DEF Follows
    <3>3. NotDeleted(handler[h])' /\ \A k \in Handlers \ {h} : handler'[k] = handler[k]
      BY <1>i, <2>7, Ends DEF Deletes
    <3>4. ASSUME NEW k \in Handlers \ {h}, handler[k].op \in OnUser PROVE handler[k].on # u
      <4>1. "deletion" \in Conflict(handler[h].op, handler[k].op)
        BY <2>7, Conflicts
      <4>2. QED
        BY <1>1, <2>u, <4>1, Meet
    <3>5. QED
      BY <1>5, <3>1, <3>2, <3>3, <3>4
  <2>8. CASE handler[h].op = "save edit" /\ Edits(h, u)
    <3>1. handler[h].read.user.status # "DELETED" /\ handler[h].read.user.info = "ACTIVE"
      <4>1. RequestOK(handler[h])
        BY DEF Shape, RequestsOK
      <4>2. QED
        BY <2>u, <2>8, <4>1 DEF NotDeleted, RequestOK, Reading
    <3>2. /\ user'[u].status # "DELETED" /\ user'[u].info # "DELETED" /\ Live(u)' # {}
          /\ \A v \in Users \ {u} : user'[v] = user[v] /\ membership'[v] = membership[v]
      BY <2>u, <2>8, <3>1 DEF Edits, Becomes
    <3>3. NotDeleted(handler[h])' /\ \A k \in Handlers \ {h} : handler'[k] = handler[k]
      BY <1>i, <2>8, Ends DEF Edits
    <3>4. Follows(u)'
      BY <1>6, <3>2
    <3>5. QED
      BY <1>5, <3>2, <3>3, <3>4
  <2>9. QED
    BY <1>11, <2>1, <2>3, <2>4, <2>5, <2>6, <2>7, <2>8 DEF SavesAt
<1>12. QED
  BY <1>7, <1>8, <1>9, <1>10, <1>11, Steps

(* So it is an invariant.                                                  *)
LEMMA DeletionHolds == AccountsSpec => []Deletion
<1>1. AccountsInit => Deletion
  BY Idle, Absent DEF AccountsInit, Deletion, Follows, NotDeleted
<1>2. Shape /\ Deletion /\ [AccountsNext]_accountVars => Deletion'
  BY NextShape, NextDeletion
<1>3. QED
  BY <1>1, <1>2, ShapeHolds, PTL DEF AccountsSpec

(* A user is deleted exactly when no membership is left, unless a deletion *)
(* overlaps with another handler at the user: for any number of users and  *)
(* requests.                                                               *)
THEOREM UsersFollowMemberships == AccountsSpec => []MembershipsFollowUser
<1>1. Deletion => MembershipsFollowUser
  BY DEF Deletion, Follows, Live, MembershipsFollowUser
<1>2. QED
  BY <1>1, DeletionHolds, PTL

-----------------------------------------------------------------------------
(* Registration: unless two of one e-mail overlap, the e-mail a handler    *)
(* has found free is free when it inserts the user.                        *)
Registration ==
  {"registration", "deletion"} \cap conflicts = {} =>
    /\ \A h \in Handlers : handler[h].op \in Registering => ~Taken(handler[h].on)
    /\ \A u, v \in Users :
         /\ user[u].email = user[v].email /\ user[u].email # None
         /\ {user[u].status, user[v].status} \cap {"absent", "DELETED"} = {}
         => u = v

(* A handler that is registering someone has been, or has just begun.      *)
LEMMA RegisteringSteps ==
  ASSUME Shape, Shape', [AccountsNext]_accountVars, NEW k \in Handlers,
         handler'[k].op \in Registering
  PROVE  \/ handler'[k] = handler[k]
         \/ UNCHANGED user /\ ~Taken(handler'[k].on)
<1> DEFINE Goal == handler'[k] = handler[k] \/ (UNCHANGED user /\ ~Taken(handler'[k].on))
<1>1. ASSUME NEW h \in Handlers, k # h => handler'[k] = handler[k],
             handler'[h].op \notin Registering
      PROVE  Goal
  BY <1>1
<1>2. ASSUME NEW h \in Handlers, End(h) PROVE Goal
  BY <1>1, <1>2, Ends
<1>3. ASSUME NEW h \in Handlers, Begins(h) PROVE Goal
  <2>1. CASE k = h
    BY <1>3, <2>1 DEF Begins, Fresh, rows
  <2>2. CASE k # h
    BY <1>3, <2>2 DEF Begins
  <2>3. QED
    BY <2>1, <2>2
<1>4. ASSUME NEW h \in Handlers, NEW u \in Users, SavesAt(h, u) PROVE Goal
  <2>1. CASE Verifies(h, u) \/ Loads(h, u)
    BY <1>1, <2>1 DEF Verifies, Loads
  <2>2. CASE End(h)
    BY <1>2, <2>2
  <2>3. QED
    BY <1>4, <2>1, <2>2 DEF SavesAt, SetsStatus, Onboards, Deletes, Edits
<1>5. CASE Still
  BY <1>5 DEF Still
<1>6. QED
  BY <1>2, <1>3, <1>4, <1>5, Steps DEF Fails, Registers

(* No step breaks this: nobody else registers the e-mail meanwhile.        *)
LEMMA NextRegistration ==
  ASSUME Shape, Shape', Deletion, Registration, [AccountsNext]_accountVars
  PROVE  Registration'
<1> SUFFICES ASSUME {"registration", "deletion"} \cap conflicts' = {}
             PROVE  /\ \A h \in Handlers :
                         handler'[h].op \in Registering => ~Taken(handler[h].on)'
                    /\ \A u, v \in Users :
                         /\ user'[u].email = user'[v].email /\ user'[u].email # None
                         /\ {user'[u].status, user'[v].status} \cap {"absent", "DELETED"} = {}
                         => u = v
  BY DEF Registration
<1>1. /\ "registration" \notin conflicts /\ "deletion" \notin conflicts
      /\ \A h \in Handlers : handler[h].op \in Registering => ~Taken(handler[h].on)
      /\ \A u, v \in Users :
           /\ user[u].email = user[v].email /\ user[u].email # None
           /\ {user[u].status, user[v].status} \cap {"absent", "DELETED"} = {}
           => u = v
  <2>1. "registration" \notin conflicts /\ "deletion" \notin conflicts
    BY ConflictsGrow
  <2>2. {"registration", "deletion"} \cap conflicts = {}
    BY <2>1
  <2>3. QED
    BY <2>1, <2>2 DEF Registration
<1>2. ASSUME NEW u \in Users, user'[u].status \notin {"absent", "DELETED"}
      PROVE  \/ /\ user[u].status \notin {"absent", "DELETED"}
                /\ user'[u].email = user[u].email
             \/ /\ user[u].status = "absent"
                /\ \E h \in Handlers : Registers(h, u)
  BY <1>1, <1>2, StatusSteps
<1>3. ASSUME NEW h \in Handlers, handler'[h].op \in Registering
      PROVE  ~Taken(handler[h].on)'
  <2>1. CASE UNCHANGED user /\ ~Taken(handler'[h].on)
    BY <2>1 DEF Taken, ByEmail
  <2>2. CASE handler'[h] = handler[h]
    <3> SUFFICES ASSUME NEW u \in Users, user'[u].email = handler[h].on,
                        user'[u].status # "DELETED"
                 PROVE  FALSE
      BY <2>2 DEF Taken, ByEmail
    <3>1. handler[h].on \in Emails /\ handler[h].on # None /\ handler[h].op \in Registering
      <4>1. RequestOK(handler[h])
        BY DEF Shape, RequestsOK
      <4>2. None \notin Emails
        BY AccountsAssumption DEF AccountsAssumption
      <4>3. QED
        BY <1>3, <2>2, <4>1, <4>2 DEF RequestOK
    <3>2. user'[u].status # "absent"
      <4>1. UserOK(u)' /\ NoUser.email = None
        BY DEF Shape, NoUser
      <4>2. QED
        BY <3>1, <4>1 DEF UserOK
    <3>3. CASE user[u].status \notin {"absent", "DELETED"} /\ user'[u].email = user[u].email
      BY <1>1, <3>1, <3>3 DEF Taken, ByEmail
    <3>4. ASSUME NEW k \in Handlers, Registers(k, u) PROVE FALSE
      <4>1. handler[k].on = handler[h].on /\ handler[k].op \in Registering
        BY <3>4 DEF Registers
      <4>2. k # h
        BY <1>3, <3>4, Ends DEF Registers
      <4>3. "registration" \in Conflict(handler[k].op, handler[h].op)
        BY <3>1, <4>1, Conflicts
      <4>4. QED
        BY <1>1, <3>1, <4>1, <4>2, <4>3, Meet
    <3>5. QED
      BY <1>2, <3>2, <3>3, <3>4
  <2>3. QED
    BY <1>3, <2>1, <2>2, RegisteringSteps
<1>4. ASSUME NEW u \in Users, NEW v \in Users, NEW h \in Handlers, Registers(h, u),
             user[v].status \notin {"absent", "DELETED"}, user'[v].email = user[v].email,
             user'[u].email = user'[v].email
      PROVE  FALSE
  <2>1. handler[h].op \in Registering /\ user[v].email = handler[h].on
    BY <1>4 DEF Registers
  <2>2. Taken(handler[h].on)
    BY <1>4, <2>1 DEF Taken, ByEmail
  <2>3. QED
    BY <1>1, <2>1, <2>2
<1>5. ASSUME NEW u \in Users, NEW v \in Users,
             user'[u].email = user'[v].email, user'[u].email # None,
             user'[u].status \notin {"absent", "DELETED"},
             user'[v].status \notin {"absent", "DELETED"}
      PROVE  u = v
  <2>1. CASE /\ user[u].status \notin {"absent", "DELETED"} /\ user'[u].email = user[u].email
             /\ user[v].status \notin {"absent", "DELETED"} /\ user'[v].email = user[v].email
    BY <1>1, <1>5, <2>1
  <2>2. ASSUME NEW h \in Handlers, Registers(h, u) PROVE u = v
    <3>1. CASE user[v].status \notin {"absent", "DELETED"} /\ user'[v].email = user[v].email
      BY <1>4, <1>5, <2>2, <3>1
    <3>2. CASE user[v].status = "absent"
      BY <1>5, <2>2, <3>2 DEF Registers
    <3>3. QED
      BY <1>2, <1>5, <3>1, <3>2
  <2>3. ASSUME NEW h \in Handlers, Registers(h, v) PROVE u = v
    <3>1. CASE user[u].status \notin {"absent", "DELETED"} /\ user'[u].email = user[u].email
      BY <1>4, <1>5, <2>3, <3>1
    <3>2. CASE user[u].status = "absent"
      BY <1>5, <2>3, <3>2 DEF Registers
    <3>3. QED
      BY <1>2, <1>5, <3>1, <3>2
  <2>4. QED
    BY <1>2, <1>5, <2>1, <2>2, <2>3
<1>6. QED
  BY <1>3, <1>5

(* No e-mail has two users that are not deleted, unless two registrations  *)
(* of it overlap, or a deletion does with another handler at its user: for *)
(* any number of users, e-mails and requests.                              *)
THEOREM EmailsAreUnique == AccountsSpec => []OneUserPerEmail
<1>1. AccountsInit => Registration
  <2>1. NoUser.email = None
    BY DEF NoUser
  <2>2. QED
    BY <2>1, Idle DEF AccountsInit, Registration
<1>2. Shape /\ Deletion /\ Registration /\ [AccountsNext]_accountVars => Registration'
  BY NextShape, NextRegistration
<1>3. Registration => OneUserPerEmail
  BY DEF Registration, OneUserPerEmail
<1>4. QED
  BY <1>1, <1>2, <1>3, ShapeHolds, DeletionHolds, PTL DEF AccountsSpec

-----------------------------------------------------------------------------
(* Statuses only go on.                                                    *)
LEMMA NotPendingAgain ==
  ASSUME Shape, Shape', Verification, Verification', [AccountsNext]_accountVars,
         "verification" \notin conflicts, NEW u \in Users,
         user[u].status \notin {"absent", Pending}
  PROVE  user'[u].status # Pending
<1>1. account[u] # Pending
  BY DEF Verification
<1>2. CASE conflicts' = conflicts
  <2>1. user'[u].status = Pending <=> account'[u] = Pending
    BY <1>2 DEF Verification
  <2>2. account'[u] # Pending
    <3>1. ASSUME NEW h \in Handlers, NEW v \in Users, Registers(h, v)
          PROVE  account'[u] # Pending
      BY <1>1, <3>1, Absent DEF Registers
    <3>2. ASSUME NEW h \in Handlers, NEW v \in Users, SavesAt(h, v)
          PROVE  account'[u] # Pending
      <4>1. CASE Verifies(h, v)
        <5>1. account'[v] = "ACTIVE" /\ \A w \in Users \ {v} : account'[w] = account[w]
          BY <4>1 DEF Verifies, Activates
        <5>2. QED
          BY <1>1, <5>1
      <4>2. CASE account' = account
        BY <1>1, <4>2
      <4>3. QED
        BY <3>2, <4>1, <4>2 DEF SavesAt, SetsStatus, Onboards, Deletes, Loads, Edits
    <3>3. QED
      BY <1>1, <3>1, <3>2, Steps DEF Still, Begins, Fails, rows
  <2>3. QED
    BY <2>1, <2>2
<1>3. CASE conflicts' # conflicts
  <2>1. ASSUME NEW h \in Handlers, End(h) PROVE FALSE
    BY <1>3, <2>1 DEF End
  <2>2. ASSUME NEW h \in Handlers, NEW v \in Users, SavesAt(h, v) PROVE FALSE
    BY <1>3, <2>1, <2>2
       DEF SavesAt, Verifies, SetsStatus, Onboards, Deletes, Loads, Edits
  <2>3. PICK h \in Handlers : Begins(h)
    BY <1>3, <2>1, <2>2, Steps DEF Still, Fails, Registers
  <2>4. QED
    BY <2>3 DEF Begins, rows
<1>4. QED
  BY <1>2, <1>3

(* Nobody who was verified is pending again, and nobody who was deleted    *)
(* comes back, but for the overlaps: for any number of users and requests. *)
THEOREM LifecycleHolds == AccountsSpec => LifecycleIsOneWay
<1>1. AccountsInit => Verification
  BY Idle, Absent DEF AccountsInit, Verification, KnowsPending
<1>2. Shape /\ Verification /\ [AccountsNext]_accountVars => Verification'
  BY NextShape, NextVerification
<1> DEFINE Step ==
      \A u \in Users :
        /\ "deletion" \notin conflicts /\ user[u].status = "DELETED"
             => user'[u].status = "DELETED"
        /\ "verification" \notin conflicts /\ user[u].status \notin {"absent", Pending}
             => user'[u].status # Pending
<1>3. Shape /\ Shape' /\ Deletion /\ Verification /\ Verification'
        /\ [AccountsNext]_accountVars => Step
  BY StatusSteps, NotPendingAgain
<1>4. LifecycleIsOneWay <=> [][Step]_accountVars
  BY PTL DEF LifecycleIsOneWay
<1> HIDE DEF Step
<1>5. QED
  BY <1>1, <1>2, <1>3, <1>4, ShapeHolds, DeletionHolds, PTL DEF AccountsSpec

-----------------------------------------------------------------------------
(* Editing: unless two edits of a user overlap, the one that is going to   *)
(* save has read all memberships that are active by now.                   *)
Editing ==
  "edit" \notin conflicts =>
    \A h \in Handlers : handler[h].op = "save edit" =>
      RowsWith(handler[h].on, "ACTIVE") \subseteq handler[h].read.found

(* No step breaks this: only the edit itself adds memberships.             *)
LEMMA NextEditing ==
  ASSUME Shape, Shape', Editing, [AccountsNext]_accountVars
  PROVE  Editing'
<1> SUFFICES ASSUME "edit" \notin conflicts', NEW k \in Handlers, handler'[k].op = "save edit"
             PROVE  RowsWith(handler[k].on, "ACTIVE")' \subseteq handler'[k].read.found
  BY DEF Editing
<1> DEFINE Goal == RowsWith(handler[k].on, "ACTIVE")' \subseteq handler'[k].read.found
<1>1. "edit" \notin conflicts
  BY ConflictsGrow
<1>2. ASSUME handler'[k] = handler[k]
      PROVE  /\ RowsWith(handler[k].on, "ACTIVE") \subseteq handler[k].read.found
             /\ handler[k].on \in Users /\ user[handler[k].on].status # "absent"
             /\ account[handler[k].on] # Pending
  <2>1. handler[k].op = "save edit" /\ HandlerOK(k)
    BY <1>2 DEF Shape
  <2>u. PICK u \in Users : u = handler[k].on
    BY <2>1, AtUser
  <2>2. user[u].status # "absent" /\ association[user[u].home] = "ACTIVE"
    BY <2>1, <2>u DEF HandlerOK, Holds
  <2>3. account[u] # Pending
    BY <2>2, NoPending DEF Shape, UserOK
  <2>4. RowsWith(u, "ACTIVE") \subseteq handler[k].read.found
    BY <1>1, <2>1, <2>u DEF Editing
  <2>5. QED
    BY <2>u, <2>2, <2>3, <2>4
<1>3. ASSUME handler'[k] = handler[k], membership'[handler[k].on] = membership[handler[k].on]
      PROVE  Goal
  <2>1. PICK u : u = handler[k].on
    OBVIOUS
  <2>2. RowsWith(u, "ACTIVE")' = RowsWith(u, "ACTIVE")
    BY <1>3, <2>1 DEF RowsWith
  <2>3. handler'[k].on = u /\ RowsWith(u, "ACTIVE") \subseteq handler'[k].read.found
    BY <1>2, <1>3, <2>1
  <2>4. QED
    BY <2>2, <2>3 DEF RowsWith
<1>4. ASSUME NEW h \in Handlers, End(h) PROVE handler'[k] = handler[k] /\ k # h
  BY <1>4, Ends
<1>5. CASE Still
  BY <1>3, <1>5 DEF Still
<1>6. ASSUME NEW h \in Handlers, Begins(h) PROVE Goal
  <2>1. k # h
    BY <1>6 DEF Begins, Fresh
  <2>2. QED
    BY <1>3, <1>6, <2>1 DEF Begins, rows
<1>7. ASSUME NEW h \in Handlers, Fails(h) PROVE Goal
  BY <1>3, <1>4, <1>7 DEF Fails
<1>8. ASSUME NEW h \in Handlers, NEW u \in Users, Registers(h, u) PROVE Goal
  <2>1. handler'[k] = handler[k] /\ user[u].status = "absent"
    BY <1>4, <1>8, Absent DEF Registers
  <2>2. handler[k].on \in Users \ {u}
    BY <1>2, <2>1
  <2>3. QED
    BY <1>3, <1>8, <2>1, <2>2 DEF Registers
<1>9. ASSUME NEW h \in Handlers, NEW u \in Users, SavesAt(h, u) PROVE Goal
  <2>1. CASE Verifies(h, u)
    <3>1. k # h /\ handler'[k] = handler[k] /\ account[u] = Pending
      BY <2>1 DEF Verifies, Activates
    <3>2. handler[k].on \in Users \ {u}
      BY <1>2, <3>1
    <3>3. QED
      BY <1>3, <2>1, <3>1, <3>2 DEF Verifies, Activates
  <2>2. CASE End(h) /\ UNCHANGED membership
    BY <1>3, <1>4, <2>2
  <2>3. CASE Loads(h, u)
    <3>1. CASE k = h
      BY <2>3, <3>1 DEF Loads, RowsWith
    <3>2. CASE k # h
      BY <1>3, <2>3, <3>2 DEF Loads
    <3>3. QED
      BY <3>1, <3>2
  <2>4. CASE Deletes(h, u)
    <3>1. handler'[k] = handler[k] /\ Live(u)' = {}
      BY <1>4, <2>4 DEF Deletes
    <3>2. CASE handler[k].on = u
      BY <3>1, <3>2 DEF Live, RowsWith
    <3>3. CASE handler[k].on # u
      <4>1. handler[k].on \in Users \ {u}
        BY <1>2, <3>1, <3>3
      <4>2. QED
        BY <1>3, <2>4, <3>1, <4>1 DEF Deletes
    <3>4. QED
      BY <3>2, <3>3
  <2>5. CASE handler[h].op = "save edit" /\ Edits(h, u)
    <3>1. handler'[k] = handler[k] /\ k # h
      BY <1>4, <2>5 DEF Edits
    <3>2. handler[k].on # u
      <4>1. "edit" \in Conflict(handler[h].op, handler[k].op)
        BY <2>5, <3>1, Conflicts
      <4>2. QED
        BY <1>1, <1>9, <3>1, <4>1, Meet DEF SavesAt
    <3>3. handler[k].on \in Users \ {u}
      BY <1>2, <3>1, <3>2
    <3>4. QED
      BY <1>3, <2>5, <3>1, <3>3 DEF Edits
  <2>6. QED
    BY <1>9, <2>1, <2>2, <2>3, <2>4, <2>5 DEF SavesAt, SetsStatus, Onboards
<1>10. QED
  BY <1>5, <1>6, <1>7, <1>8, <1>9, Steps

(* An edit that saves finds one active membership at most.                 *)
LEMMA EditsOne ==
  ASSUME Shape, Shape', Editing, [AccountsNext]_accountVars, "edit" \notin conflicts,
         NEW u \in Users, Cardinality(RowsWith(u, "ACTIVE")) > 1
  PROVE  membership'[u] = membership[u] \/ user'[u].status = "DELETED"
<1> DEFINE Goal == membership'[u] = membership[u] \/ user'[u].status = "DELETED"
<1>1. \E i, j \in RowsWith(u, "ACTIVE") : i # j
  <2> SUFFICES ASSUME \A i, j \in RowsWith(u, "ACTIVE") : i = j
               PROVE  ~(Cardinality(RowsWith(u, "ACTIVE")) > 1)
    OBVIOUS
  <2>1. CASE RowsWith(u, "ACTIVE") = {}
    BY <2>1, FS_EmptySet
  <2>2. ASSUME NEW i \in RowsWith(u, "ACTIVE") PROVE Cardinality(RowsWith(u, "ACTIVE")) = 1
    <3>1. RowsWith(u, "ACTIVE") = {i}
      BY <2>2
    <3>2. QED
      BY <3>1, FS_Singleton
  <2>3. QED
    BY <2>1, <2>2
<1>2. ASSUME NEW h \in Handlers, NEW v \in Users, Registers(h, v) PROVE Goal
  <2>1. membership[u] # <<>>
    BY <1>1 DEF RowsWith
  <2>2. QED
    BY <1>2, <2>1 DEF Registers
<1>3. ASSUME NEW h \in Handlers, NEW v \in Users, SavesAt(h, v) PROVE Goal
  <2>1. CASE Verifies(h, v)
    BY <1>1, <2>1 DEF Verifies, Activates
  <2>2. CASE UNCHANGED membership
    BY <2>2
  <2>3. CASE Deletes(h, v)
    BY <2>3 DEF Deletes, Becomes
  <2>4. CASE handler[h].op = "save edit" /\ Edits(h, v)
    <3>1. CASE v = u
      <4>1. RowsWith(u, "ACTIVE") \subseteq handler[h].read.found /\ Holds(handler[h])
        BY <1>3, <2>4, <3>1 DEF Editing, SavesAt, Shape, HandlerOK
      <4>2. \A i, j \in handler[h].read.found : i = j
        BY <2>4, <4>1 DEF Holds
      <4>3. QED
        BY <1>1, <4>1, <4>2
    <3>2. CASE v # u
      BY <2>4, <3>2 DEF Edits
    <3>3. QED
      BY <3>1, <3>2
  <2>5. QED
    BY <1>3, <2>1, <2>2, <2>3, <2>4 DEF SavesAt, SetsStatus, Onboards, Loads
<1>4. QED
  BY <1>2, <1>3, Steps DEF Still, Begins, Fails, rows

(* A member with two memberships keeps them until the member is deleted,   *)
(* unless two edits overlap: for any number of users and requests.         *)
THEOREM BothAccountsStay == AccountsSpec => BothAccountsAreForGood
<1>1. AccountsInit => Editing
  BY Idle DEF AccountsInit, Editing
<1>2. Shape /\ Editing /\ [AccountsNext]_accountVars => Editing'
  BY NextShape, NextEditing
<1> DEFINE Step ==
      \A u \in Users :
        /\ "edit" \notin conflicts
        /\ Cardinality(RowsWith(u, "ACTIVE")) > 1
        => membership'[u] = membership[u] \/ user'[u].status = "DELETED"
<1>3. Shape /\ Shape' /\ Editing /\ [AccountsNext]_accountVars => Step
  BY EditsOne
<1>4. BothAccountsAreForGood <=> [][Step]_accountVars
  BY PTL DEF BothAccountsAreForGood
<1> HIDE DEF Step
<1>5. QED
  BY <1>1, <1>2, <1>3, <1>4, ShapeHolds, PTL DEF AccountsSpec

-----------------------------------------------------------------------------
(* The directory.  A live membership is one of a user whose info is active.*)
LEMMA LiveIsListed ==
  ASSUME Shape, Deletion, "deletion" \notin conflicts,
         NEW u \in Users, user[u].home # None, Live(u) # {}
  PROVE  /\ user[u].status \notin {"absent", "DELETED"} /\ user[u].info = "ACTIVE"
         /\ user[u].home \in Users
<1>1. UserOK(u) /\ Follows(u)
  BY DEF Shape, Deletion
<1>2. user[u].status # "absent"
  BY <1>1, Absent DEF UserOK
<1>3. QED
  BY <1>1, <1>2 DEF UserOK, Follows

(* The rows of a query are places in memberships of members.               *)
LEMMA ManyRows ==
  ASSUME NEW F, IsFiniteSet(F), NEW R, R \subseteq F \X (1 .. MaxRows)
  PROVE  Cardinality(R) <= MaxRows * Cardinality(F)
<1>1. MaxRows \in Nat
  BY AccountsAssumption DEF AccountsAssumption
<1>2. IsFiniteSet(1 .. MaxRows) /\ Cardinality(1 .. MaxRows) = MaxRows
  BY <1>1, FS_Interval
<1> DEFINE I == 1 .. MaxRows
<1>3. IsFiniteSet(I) /\ Cardinality(I) = MaxRows
  BY <1>2
<1> HIDE DEF I
<1>4. IsFiniteSet(F \X I) /\ Cardinality(F \X I) = Cardinality(F) * Cardinality(I)
  BY <1>3, FS_Product
<1>5. Cardinality(R) <= Cardinality(F \X I)
  BY <1>4, FS_Subset DEF I
<1>6. Cardinality(F) \in Nat
  BY FS_CardinalityType
<1>7. Cardinality(F) * MaxRows = MaxRows * Cardinality(F)
  BY <1>1, <1>6
<1>8. QED
  BY <1>3, <1>4, <1>5, <1>7

(* The rows behind counts and bills are those of listed members.           *)
LEMMA CountedListed ==
  ASSUME Shape, Deletion, "deletion" \notin conflicts
  PROVE  CountedAreListed
<1> SUFFICES ASSUME NEW a \in {user[p].home : p \in {p \in Users : Principal(p)}},
                    NEW t \in AccountType
             PROVE  LET counted == FindByMemberships(FindByAssociationAndQuery(a, {t}))
                        listed == GetAssociationMembers(a, Everybody({t})) IN
                    /\ CountByAssociationAndAccountType(a, t) <= MaxRows * listed.total
                    /\ \A u \in counted :
                         /\ MemberLine(u) \in listed.items
                         /\ FindByIdentifier(a, u) = {u}
                         /\ \E info \in GetMember(a, u) : t \in info.accounts
  BY DEF CountedAreListed
<1> DEFINE found == FindByAssociationAndUserQuery(a, Everybody({t}))
           R == RowsOf(a, {t}, "ACTIVE")
<1>p. PICK p \in Users : Principal(p) /\ a = user[p].home
  OBVIOUS
<1>1. a \in Users /\ association[a] = "ACTIVE" /\ a # None
  BY <1>p, Principals, AccountsAssumption DEF AccountsAssumption
<1>2. AccountStatus(a, t) = "ACTIVE"
  <2>1. account[a] = "ACTIVE" /\ wallets[a] > 0
    BY <1>1 DEF Shape, UserOK
  <2>2. QED
    BY <2>1 DEF AccountStatus
<1>3. ASSUME NEW m \in R
      PROVE  /\ m[1] \in found /\ m[2] \in 1 .. MaxRows
             /\ m[1] \in Users /\ user[m[1]].home = a /\ user[m[1]].info = "ACTIVE"
             /\ t \in AccountsWith(m[1], "ACTIVE")
  <2>1. PICK u \in Users, i \in 1 .. MaxRows : m = <<u, i>>
    BY <1>3 DEF RowsOf
  <2>2. /\ user[u].home = a /\ i \in DOMAIN membership[u]
        /\ membership[u][i].status = "ACTIVE" /\ membership[u][i].type = t
    BY <1>3, <2>1 DEF RowsOf
  <2>3. user[u].info = "ACTIVE"
    <3>1. Live(u) # {}
      BY <2>2 DEF Live, RowsWith
    <3>2. QED
      BY <1>1, <2>2, <3>1, LiveIsListed
  <2>4. u \in found
    BY <2>2, <2>3 DEF FindByAssociationAndUserQuery, Everybody
  <2>5. t \in AccountsWith(u, "ACTIVE")
    BY <1>2, <2>2 DEF AccountsWith, AccountsOf
  <2>6. m[1] = u /\ m[2] = i
    BY <2>1
  <2> HIDE DEF found
  <2>7. QED
    BY <2>2, <2>3, <2>4, <2>5, <2>6
<1>4. CountByAssociationAndAccountType(a, t) <= MaxRows * Cardinality(found)
  <2>1. found \subseteq Users
    BY DEF FindByAssociationAndUserQuery, Everybody
  <2>2. R \subseteq found \X (1 .. MaxRows)
    <3> SUFFICES ASSUME NEW m \in R PROVE m \in found \X (1 .. MaxRows)
      OBVIOUS
    <3>1. m \in Users \X (1 .. MaxRows)
      BY DEF RowsOf
    <3>2. m = <<m[1], m[2]>>
      BY <3>1
    <3> HIDE DEF found, R
    <3>3. QED
      BY <1>3, <3>2
  <2> HIDE DEF found
  <2>3. IsFiniteSet(found)
    BY <2>1, FS_Subset, AccountsAssumption DEF AccountsAssumption
  <2>4. Cardinality(R) <= MaxRows * Cardinality(found)
    <3> HIDE DEF R
    <3>1. QED
      BY <2>2, <2>3, ManyRows
  <2>5. QED
    BY <2>4 DEF CountByAssociationAndAccountType
<1>5. ASSUME NEW u \in FindByMemberships(FindByAssociationAndQuery(a, {t}))
      PROVE  /\ MemberLine(u) \in {MemberLine(v) : v \in found}
             /\ FindByIdentifier(a, u) = {u}
             /\ \E info \in GetMember(a, u) : t \in info.accounts
  <2>1. PICK m \in R : u = m[1]
    BY <1>5 DEF FindByMemberships, FindByAssociationAndQuery
  <2> HIDE DEF found, R
  <2>2. /\ u \in found /\ u \in Users /\ user[u].home = a /\ user[u].info = "ACTIVE"
        /\ t \in AccountsWith(u, "ACTIVE")
    BY <1>3, <2>1
  <2>3. FindByIdentifier(a, u) = {u}
    BY <2>2 DEF FindByIdentifier
  <2>4. \E info \in GetMember(a, u) : t \in info.accounts
    <3>1. [user |-> u, accounts |-> AccountsWith(u, "ACTIVE")] \in GetMember(a, u)
      BY <2>2 DEF GetMember
    <3>2. t \in [user |-> u, accounts |-> AccountsWith(u, "ACTIVE")].accounts
      BY <2>2
    <3>3. QED
      BY <3>1, <3>2, Zenon
  <2>5. QED
    BY <2>2, <2>3, <2>4
<1>6. GetAssociationMembers(a, Everybody({t})) =
        [items |-> {MemberLine(v) : v \in found}, total |-> Cardinality(found)]
  BY DEF GetAssociationMembers
<1> HIDE DEF found, R
<1>7. /\ GetAssociationMembers(a, Everybody({t})).items = {MemberLine(v) : v \in found}
      /\ GetAssociationMembers(a, Everybody({t})).total = Cardinality(found)
  BY <1>6
<1>8. QED
  BY <1>4, <1>5, <1>7, Zenon

(* Whoever may log in finds the association.                               *)
LEMMA LoginFinds ==
  ASSUME Shape, Deletion, "deletion" \notin conflicts
  PROVE  LoginFindsItsAssociation
<1> SUFFICES ASSUME NEW e \in Emails, NEW info \in Login(e)
             PROVE  LET u == info.user
                        a == user[u].home IN
                    /\ LoggedIn(u)
                    /\ {shown.association : shown \in info.associations} = {a}
                    /\ association[a] = "ACTIVE" =>
                         /\ GetAssociation(u) # {}
                         /\ u \in FindByAssociationAndUserQuery(a, Everybody(AccountType))
                    /\ \E t \in AccountType :
                         FindByAssociationAndUserAndAccountType(a, u, t) # {}
  BY DEF LoginFindsItsAssociation
<1>u. PICK u \in LoginUser(e) : info = LoggedInUserInfo(u)
  BY DEF Login
<1>1. u \in Users /\ user[u].status = "ACTIVE"
  BY <1>u DEF LoginUser, ByEmailAndStatus, ByEmail
<1>a. PICK a : a = user[u].home
  OBVIOUS
<1>2. /\ a \in Users /\ UserOK(u) /\ TablesOK
      /\ membership[u] \in Seq(MembershipRow) /\ membership[u] # <<>>
  <2>1. UserOK(u) /\ TablesOK
    BY <1>1 DEF Shape
  <2>2. a \in Users /\ membership[u] # <<>>
    BY <1>1, <1>a, <2>1 DEF UserOK
  <2>3. membership[u] \in Seq(MembershipRow)
    BY <1>1, <2>1 DEF TablesOK
  <2>4. QED
    BY <2>1, <2>2, <2>3
<1>3. /\ 1 \in DOMAIN membership[u] /\ DOMAIN membership[u] = 1 .. Len(membership[u])
      /\ \A i \in DOMAIN membership[u] : membership[u][i].type \in AccountType
  <2>1. \A i \in DOMAIN membership[u] : membership[u][i] \in MembershipRow
    BY <1>2, Domains
  <2>2. \A row \in MembershipRow : row.type \in AccountType
    BY DEF MembershipRow
  <2>3. QED
    BY <1>2, <2>1, <2>2, Domains
<1>4. LoggedIn(u)
  BY <1>1 DEF LoggedIn, VerifyBearerToken, FindByIdAndStatus, Signed
<1>5. association[a] \in {"ACTIVE", Pending}
  <2>1. association[a] # "absent"
    <3>1. CASE a = u
      BY <1>2, <1>a, <3>1 DEF UserOK
    <3>2. CASE a # u
      BY <1>1, <1>2, <1>a, <3>2 DEF UserOK
    <3>3. QED
      BY <3>1, <3>2
  <2>2. QED
    BY <1>2, <2>1 DEF TablesOK
<1>6. {shown.association : shown \in info.associations} = {a}
  <2>1. AssociationsOf(u, {"ACTIVE", Pending}) = {a}
    BY <1>2, <1>3, <1>5, <1>a DEF AssociationsOf, OfAssociation
  <2> DEFINE A == AssociationsOf(u, {"ACTIVE", Pending})
             shows == {[association |-> b, status |-> association[b],
                        accounts |-> AccountsShown(A)] : b \in A}
  <2>2. LoggedInUserInfo(u) = [user |-> u, associations |-> shows]
    BY DEF LoggedInUserInfo
  <2>3. A = {a}
    BY <2>1
  <2> HIDE DEF A
  <2>4. \A x : x \in {shown.association : shown \in shows} <=> x \in A
    <3>1. ASSUME NEW x \in A PROVE x \in {shown.association : shown \in shows}
      <4>1. PICK y : y = [association |-> x, status |-> association[x],
                          accounts |-> AccountsShown(A)]
        OBVIOUS
      <4>2. y \in shows /\ y.association = x
        BY <4>1
      <4>3. QED
        BY <4>2
    <3>2. ASSUME NEW x \in {shown.association : shown \in shows} PROVE x \in A
      OBVIOUS
    <3>3. QED
      BY <3>1, <3>2
  <2> HIDE DEF shows
  <2>5. info.associations = shows
    BY <1>u, <2>2
  <2>6. QED
    BY <2>3, <2>4, <2>5
<1>7. user[u].info = "ACTIVE" /\ \E i \in DOMAIN membership[u] : membership[u][i].status = "ACTIVE"
  <2>1. Follows(u)
    BY <1>1 DEF Deletion
  <2>2. Live(u) # {} /\ user[u].info = "ACTIVE"
    BY <1>1, <1>2, <2>1 DEF Follows, UserOK
  <2>3. RowsWith(u, Pending) = {}
    BY <1>1, <1>2 DEF UserOK
  <2>4. QED
    BY <2>2, <2>3 DEF Live, RowsWith
<1>8. ASSUME association[a] = "ACTIVE"
      PROVE  /\ GetAssociation(u) # {}
             /\ u \in FindByAssociationAndUserQuery(a, Everybody(AccountType))
  <2>1. Principal(u)
    BY <1>3, <1>4, <1>8, <1>a DEF Principal, OfAssociation
  <2>2. AssociationInfo(a) # {}
    <3>1. wallets[a] \in Nat /\ wallets[a] > 0
      <4>1. wallets[a] > 0 /\ wallets[a] \in 0 .. MaxWallets
        BY <1>2, <1>8 DEF Shape, UserOK, TablesOK
      <4>2. QED
        BY <4>1
    <3>2. 1 \in 1 .. wallets[a]
      BY <3>1
    <3>3. QED
      BY <3>2 DEF AssociationInfo
  <2>3. GetAssociation(u) # {}
    BY <1>a, <2>1, <2>2 DEF GetAssociation
  <2>4. membership[u][1].type \in AccountType
    BY <1>3
  <2>5. u \in FindByAssociationAndUserQuery(a, Everybody(AccountType))
    BY <1>1, <1>3, <1>7, <1>a, <2>4 DEF FindByAssociationAndUserQuery, Everybody
  <2>6. QED
    BY <2>3, <2>5
<1>9. \E t \in AccountType : FindByAssociationAndUserAndAccountType(a, u, t) # {}
  <2>1. PICK i \in DOMAIN membership[u] : membership[u][i].status = "ACTIVE"
    BY <1>7
  <2>2. PICK t \in AccountType : t = membership[u][i].type
    BY <1>3, <2>1
  <2>3. i \in 1 .. MaxRows
    <3>1. Len(membership[u]) <= MaxRows /\ MaxRows \in Nat /\ Len(membership[u]) \in Nat
      BY <1>1, <1>2, Domains, AccountsAssumption DEF TablesOK, AccountsAssumption
    <3>2. QED
      BY <1>3, <3>1
  <2>4. PICK m : m = <<u, i>>
    OBVIOUS
  <2>5. m \in RowsOf(a, {t}, "ACTIVE") /\ m[1] = u
    BY <1>1, <1>a, <2>1, <2>2, <2>3, <2>4 DEF RowsOf
  <2>6. QED
    BY <2>5 DEF FindByAssociationAndUserAndAccountType
<1>10. info.user = u
  BY <1>u DEF LoggedInUserInfo
<1>11. QED
  BY <1>4, <1>6, <1>8, <1>9, <1>10, <1>a, Zenon

(* The directory and the rows behind it agree: whoever counts as a member  *)
(* is listed as one, and whoever logs in is told of the association, for   *)
(* any number of users and requests.                                       *)
THEOREM DirectoryMatches == AccountsSpec => []DirectoryMatchesMembers
<1>1. Shape /\ Deletion => DirectoryMatchesMembers
  BY CountedListed, LoginFinds DEF DirectoryMatchesMembers
<1>2. QED
  BY <1>1, ShapeHolds, DeletionHolds, PTL
=============================================================================
