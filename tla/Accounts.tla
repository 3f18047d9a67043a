------------------------------ MODULE Accounts ------------------------------
(***************************************************************************)
(* Users, the association each of them founds or belongs to, their         *)
(* memberships, and the handlers that change them.  A handler looks up     *)
(* what it needs, and saves whole rows as it has read them in a later      *)
(* transaction: it locks nothing in between, and the only unique columns   *)
(* are codes drawn from sequences.                                         *)
(*                                                                         *)
(* An association is named by the user who founded it.                     *)
(***************************************************************************)
EXTENDS Naturals, Sequences, FiniteSets, SequencesExt

CONSTANTS
  Users,     (* rows of portal_user that may be inserted                   *)
  Emails,
  Handlers,  (* requests under way                                         *)
  Types,     (* lists of account types a request may ask for               *)
  MaxRows,   (* bound: membership rows of a user                           *)
  MaxWallets,(* bound: wallets of an association                           *)
  MaxLinks,  (* bound: links one user is sent                              *)
  MaxConflicts, (* bound: kinds of overlap in one behaviour                *)
  None

Pending == "PENDING_ACTIVATION"
AccountType == {"EXECUTIVE_ACCOUNT", "MEMBER_ACCOUNT"}
UserStatus == {"absent", Pending, "ACTIVE", "IN_ACTIVE", "DELETED"}

(* Links in mails carry a token, with the status of its user, and of its   *)
(* account if it names one, when it was signed; so does a login.           *)
Link == {"verify", "reset pending", "reset inactive"}

Signed(token) ==
  CASE token = "login"          -> [user |-> "ACTIVE", account |-> None]
    [] token = "verify"         -> [user |-> Pending, account |-> Pending]
    [] token = "reset pending"  -> [user |-> Pending, account |-> None]
    [] token = "reset inactive" -> [user |-> "IN_ACTIVE", account |-> None]

ASSUME AccountsAssumption ==
  /\ None \notin Users \cup Emails
  /\ Users \cap Emails = {}
  /\ Types \subseteq (SUBSET AccountType) \ {{}}
  /\ IsFiniteSet(Users)
  /\ MaxRows \in Nat \ {0, 1} /\ MaxWallets \in Nat /\ MaxLinks \in Nat /\ MaxConflicts \in Nat

VARIABLES
  user,        (* portal_user rows; info: status of the membership_info    *)
               (* row, home: the founder of the user's association         *)
  membership,  (* membership[u]: membership rows of u, in order of their id*)
  account,     (* executive account of each association: its status        *)
  association, (* status                                                   *)
  wallets,     (* onboardings: each makes a wallet, the member account and *)
               (* the general group                                        *)
  mail,        (* links a user has been sent                               *)
  handler,     (* what each handler has looked up                          *)
  conflicts    (* history: kinds of executions that have overlapped        *)

rows == <<user, membership, account, association, wallets>>
accountVars == <<rows, mail, handler, conflicts>>

NoUser == [status |-> "absent", info |-> "absent", email |-> None, home |-> None]
NoRequest == [op |-> "idle", on |-> None, by |-> None, read |-> None]

AccountsInit ==
  /\ user = [u \in Users |-> NoUser]
  /\ membership = [u \in Users |-> <<>>]
  /\ account = [u \in Users |-> "absent"]
  /\ association = [u \in Users |-> "absent"]
  /\ wallets = [u \in Users |-> 0]
  /\ mail = [u \in Users |-> {}]
  /\ handler = [h \in Handlers |-> NoRequest]
  /\ conflicts = {}

-----------------------------------------------------------------------------
(* Handlers.  Two executions on one user, or that register one e-mail,     *)
(* conflict in the ways the properties tell apart.                         *)
Registering == {"sign up", "add member"}
Verifying == {"verify", "change password"}

Conflict(a, b) ==
  {c \in {"registration", "verification", "onboarding", "edit", "deletion"} :
     \/ c = "registration" /\ {a, b} \subseteq Registering
     \/ c = "verification" /\ "reset" \in {a, b} /\ {a, b} \cap Verifying # {}
     \/ c = "onboarding" /\ {a, b} = {"onboard"}
     \/ c = "edit" /\ {a, b} \subseteq {"edit", "save edit"}
     \/ c = "deletion" /\ "delete" \in {a, b}}

Begin(h, op, on, by, read) ==
  /\ handler' = [handler EXCEPT ![h] = [op |-> op, on |-> on, by |-> by, read |-> read]]
  /\ conflicts' = conflicts \cup
       UNION {Conflict(op, handler[k].op) : k \in {k \in Handlers : handler[k].on = on}}
  /\ Cardinality(conflicts') <= MaxConflicts

End(h) ==
  /\ handler' = [handler EXCEPT ![h] = NoRequest]
  /\ UNCHANGED conflicts

(* A statement of a handler fails, or finds nothing to work on: what its   *)
(* transaction did is rolled back.                                         *)
Fail(h) ==
  /\ handler[h] # NoRequest
  /\ End(h)
  /\ UNCHANGED <<rows, mail>>

(* A mail is sent by an event handler nobody waits for.  One that is lost  *)
(* is one whose link is never followed.                                    *)
Send(u, link) ==
  /\ mail' = [mail EXCEPT ![u] = @ \cup {link}]
  /\ Cardinality(mail'[u]) <= MaxLinks

RowsWith(u, status) == {i \in DOMAIN membership[u] : membership[u][i].status = status}

(* The rows with those of I set to a status.                               *)
SetRows(u, I, status) ==
  [i \in DOMAIN membership[u] |->
     IF i \in I THEN [membership[u][i] EXCEPT !.status = status] ELSE membership[u][i]]

NewRows(T, status) == SetToSeq({[type |-> t, status |-> status] : t \in T})

(* createPortalUser and createMembershipInfo: whatever status the user     *)
(* gets, the membership_info row gets the default one.                     *)
NewInfo == "ACTIVE"

NewUser(e, home, status) ==
  [status |-> status, email |-> e, info |-> NewInfo, home |-> home]

(* Portal accounts.  The executive account is created with the association,*)
(* the member account when it is onboarded.  A membership row is one of    *)
(* the account of its type in the association of its user.                 *)
AccountStatus(a, t) ==
  IF t = "EXECUTIVE_ACCOUNT" THEN account[a]
  ELSE IF wallets[a] > 0 THEN "ACTIVE" ELSE "absent"

(* The accounts of an association, and those of a user: the latter query   *)
(* asks for the status of the account, never for that of the membership.   *)
AccountsOf(a, status) == {t \in AccountType : AccountStatus(a, t) = status}

AccountsWith(u, status) ==
  {membership[u][i].type : i \in DOMAIN membership[u]} \cap AccountsOf(user[u].home, status)

(* A token holds as long as its user, and the executive account if it      *)
(* names that, have the status they had when it was signed.                *)
FindByIdAndStatus(u, status) == user[u].status = status

FindOneItemByStatus(a, t, status) == AccountStatus(a, t) = status

VerifyBearerToken(u, token) ==
  /\ FindByIdAndStatus(u, Signed(token).user)
  /\ Signed(token).account # None =>
       FindOneItemByStatus(user[u].home, "EXECUTIVE_ACCOUNT", Signed(token).account)

(* Whoever asks is logged in, which needs an ACTIVE user, and where the    *)
(* handler wants one, of an ACTIVE association by some membership.         *)
LoggedIn(p) == VerifyBearerToken(p, "login")

OfAssociation(p, a) == user[p].home = a /\ DOMAIN membership[p] # {}

Principal(p) ==
  /\ LoggedIn(p)
  /\ OfAssociation(p, user[p].home)
  /\ association[user[p].home] = "ACTIVE"

-----------------------------------------------------------------------------
(* Registration: createPortalUser looks for the e-mail among the users     *)
(* that are not deleted, on a connection outside the transaction.  Before  *)
(* it the validator of the request looks among those that are active.      *)
ByEmail(e) == {u \in Users : user[u].email = e}

IsEntityExist(e) == \E u \in ByEmail(e) : user[u].status = "ACTIVE"

Taken(e) == \E u \in ByEmail(e) : user[u].status # "DELETED"

(* The row that is inserted next.                                          *)
FreeRows == {u \in Users : user[u] = NoUser /\ \A h \in Handlers : handler[h].read # u}

FreeRow(u) == u \in FreeRows /\ u = CHOOSE v \in FreeRows : TRUE

SignUp(h, u, e) ==
  /\ FreeRow(u)
  /\ ~Taken(e)
  /\ Begin(h, "sign up", e, None, u)
  /\ UNCHANGED <<rows, mail>>

(* signPrincipalUser: everything in one transaction, the mail before it    *)
(* commits.                                                                *)
SignPrincipalUser_unset(h) ==
  /\ handler[h].op = "sign up"
  /\ LET u == handler[h].read IN
     /\ user' = [user EXCEPT ![u] = NewUser(handler[h].on, u, None)]
     /\ membership' = [membership EXCEPT ![u] = NewRows({"EXECUTIVE_ACCOUNT"}, Pending)]
     /\ account' = [account EXCEPT ![u] = Pending]
     /\ association' = [association EXCEPT ![u] = Pending]
     /\ Send(u, "verify")
  /\ End(h)
  /\ UNCHANGED wallets

SignPrincipalUser(h) ==
  /\ handler[h].op = "sign up"
  /\ LET u == handler[h].read IN
     /\ user' = [user EXCEPT ![u] = NewUser(handler[h].on, u, Pending)]
     /\ membership' = [membership EXCEPT ![u] = NewRows({"EXECUTIVE_ACCOUNT"}, Pending)]
     /\ account' = [account EXCEPT ![u] = Pending]
     /\ association' = [association EXCEPT ![u] = Pending]
     /\ Send(u, "verify")
  /\ End(h)
  /\ UNCHANGED wallets

AddMember(h, p, u, e, T) ==
  /\ FreeRow(u)
  /\ Principal(p)
  /\ ~IsEntityExist(e)
  /\ ~Taken(e)
  /\ Begin(h, "add member", e, [home |-> user[p].home, types |-> T], u)
  /\ UNCHANGED <<rows, mail>>

(* createAssociationMember: throws unless both accounts are ACTIVE.        *)
CreateAssociationMember(h) ==
  /\ handler[h].op = "add member"
  /\ LET u == handler[h].read
         a == handler[h].by.home IN
     /\ AccountsOf(a, "ACTIVE") = AccountType
     /\ user' = [user EXCEPT ![u] = NewUser(handler[h].on, a, "ACTIVE")]
     /\ membership' = [membership EXCEPT ![u] = NewRows(handler[h].by.types, "ACTIVE")]
  /\ End(h)
  /\ UNCHANGED <<account, association, wallets, mail>>

-----------------------------------------------------------------------------
(* Verification.  A user who is pending asks for the link again.           *)
SendPrincipalVerificationEmail(u) ==
  /\ AccountsWith(u, Pending) # {}
  /\ Send(u, "verify")

ResendVerification(u) ==
  /\ user[u].status = Pending
  /\ SendPrincipalVerificationEmail(u)
  /\ UNCHANGED <<rows, handler, conflicts>>

Verify(h, u) ==
  /\ "verify" \in mail[u]
  /\ VerifyBearerToken(u, "verify")
  /\ Begin(h, "verify", u, None, Pending)
  /\ UNCHANGED <<rows, mail>>

(* validatePrincipalUser: user, account and pending membership together;   *)
(* it throws when there is no pending membership.                          *)
Activate_userOnly(u) ==
  /\ RowsWith(u, Pending) # {}
  /\ user' = [user EXCEPT ![u].status = "ACTIVE"]
  /\ UNCHANGED <<membership, account, association, wallets, mail>>

Activate(u) ==
  /\ RowsWith(u, Pending) # {}
  /\ user' = [user EXCEPT ![u].status = "ACTIVE"]
  /\ account' = [account EXCEPT ![u] = "ACTIVE"]
  /\ membership' = [membership EXCEPT ![u] = SetRows(u, RowsWith(u, Pending), "ACTIVE")]
  /\ UNCHANGED <<association, wallets, mail>>

ValidatePrincipalUser(h) ==
  /\ handler[h].op = "verify"
  /\ Activate(handler[h].on)
  /\ End(h)

-----------------------------------------------------------------------------
(* Passwords.                                                              *)
RequestReset(h, u) ==
  /\ user[u].status \in {"ACTIVE", "IN_ACTIVE", Pending}
  /\ Begin(h, "reset", u, None, user[u].status)
  /\ UNCHANGED <<rows, mail>>

(* What resetPassword leaves a user of the status it has read.             *)
ResetStatus_pending(status) == Pending

ResetStatus(status) == IF status = Pending THEN Pending ELSE "IN_ACTIVE"

ResetLink(status) == IF status = Pending THEN "reset pending" ELSE "reset inactive"

ResetPassword(h) ==
  /\ handler[h].op = "reset"
  /\ LET u == handler[h].on
         status == ResetStatus(handler[h].read) IN
     /\ user' = [user EXCEPT ![u].status = status]
     /\ Send(u, ResetLink(status))
  /\ End(h)
  /\ UNCHANGED <<membership, account, association, wallets>>

ChangePassword(h, u) ==
  /\ \E link \in mail[u] \ {"verify"} :
       /\ VerifyBearerToken(u, link)
       /\ Begin(h, IF Signed(link).user = Pending THEN "change password" ELSE "save user",
                u, None, "ACTIVE")
  /\ UNCHANGED <<rows, mail>>

(* A pending user is validated first, in a transaction that commits on its *)
(* own; that fails when the user has no account that is pending.           *)
ValidateForChange(h) ==
  /\ handler[h].op = "change password"
  /\ AccountsWith(handler[h].on, Pending) # {}
  /\ Activate(handler[h].on)
  /\ handler' = [handler EXCEPT ![h].op = "save user"]
  /\ UNCHANGED conflicts

(* changePortalUserPassword saves the user as it was read, but ACTIVE;     *)
(* updateProfile saves an ACTIVE user as it was read.                      *)
SaveActiveUser(h) ==
  /\ handler[h].op = "save user"
  /\ user' = [user EXCEPT ![handler[h].on].status = "ACTIVE"]
  /\ End(h)
  /\ UNCHANGED <<membership, account, association, wallets, mail>>

UpdateProfile(h, u) ==
  /\ LoggedIn(u)
  /\ Begin(h, "save user", u, None, "ACTIVE")
  /\ UNCHANGED <<rows, mail>>

-----------------------------------------------------------------------------
(* Onboarding: the association is looked up among the pending ones, by the *)
(* only active account of the user.  It has no other members yet.          *)
Onboard_anyStatus(h, u) ==
  /\ LoggedIn(u) /\ user[u].home = u
  /\ AccountsWith(u, "ACTIVE") # {}
  /\ Begin(h, "onboard", u, None, Pending)
  /\ UNCHANGED <<rows, mail>>

Onboard(h, u) ==
  /\ LoggedIn(u) /\ user[u].home = u
  /\ Cardinality(AccountsWith(u, "ACTIVE")) = 1
  /\ association[u] = Pending
  /\ Begin(h, "onboard", u, None, Pending)
  /\ UNCHANGED <<rows, mail>>

CreateAssociation(h) ==
  /\ handler[h].op = "onboard"
  /\ wallets[handler[h].on] < MaxWallets
  /\ wallets' = [wallets EXCEPT ![handler[h].on] = @ + 1]
  /\ association' = [association EXCEPT ![handler[h].on] = "ACTIVE"]
  /\ End(h)
  /\ UNCHANGED <<user, membership, account, mail>>

-----------------------------------------------------------------------------
(* Members.  The one to delete is found by identifier, in any association. *)
DeleteMember(h, p, u) ==
  /\ Principal(p)
  /\ user[u].info = "ACTIVE"
  /\ Begin(h, "delete", u, user[p].home, "ACTIVE")
  /\ UNCHANGED <<rows, mail>>

(* Which memberships deactivateUserMemberships deletes.                    *)
Deactivated_first(u) == {i \in RowsWith(u, "ACTIVE") : \A j \in RowsWith(u, "ACTIVE") : i <= j}

Deactivated(u) == RowsWith(u, "ACTIVE")

(* deActivateUser is rolled back unless there are memberships to delete.   *)
DeActivateUser(h) ==
  /\ handler[h].op = "delete"
  /\ LET u == handler[h].on IN
     /\ user[u].home = handler[h].by
     /\ Deactivated(u) # {}
     /\ user' = [user EXCEPT ![u].status = "DELETED", ![u].info = "DELETED"]
     /\ membership' = [membership EXCEPT ![u] = SetRows(u, Deactivated(u), "DELETED")]
  /\ End(h)
  /\ UNCHANGED <<account, association, wallets, mail>>

EditMember(h, p, u, T) ==
  /\ Principal(p)
  /\ user[u].info = "ACTIVE" /\ user[u].home = user[p].home
  /\ Begin(h, "edit", u, T, [status |-> user[u].status, info |-> user[u].info])
  /\ UNCHANGED <<rows, mail>>

(* updateMembership saves user and info as it has read them: only columns  *)
(* that differ from the row by now are written.  Then it reads the active  *)
(* memberships; the callback of every() returns nothing, so only the first *)
(* gets its account, and the next one's type is read off undefined.        *)
Editable_each(u) == TRUE

Editable(u) == Cardinality(RowsWith(u, "ACTIVE")) <= 1

LoadMemberships(h) ==
  /\ handler[h].op = "edit"
  /\ LET u == handler[h].on
         read == handler[h].read IN
     /\ Editable(u)
     /\ handler' = [handler EXCEPT ![h].op = "save edit", ![h].read =
          [restored |-> read # [status |-> user[u].status, info |-> user[u].info],
           user |-> read, found |-> RowsWith(u, "ACTIVE")]]
  /\ UNCHANGED <<rows, mail, conflicts>>

UpdateMembership(h) ==
  /\ handler[h].op = "save edit"
  /\ LET u == handler[h].on
         read == handler[h].read
         had == {membership[u][i].type : i \in read.found}
         missing == handler[h].by \ had
         dropped == {i \in read.found : membership[u][i].type \notin handler[h].by} IN
     /\ Len(membership[u]) + Cardinality(missing) <= MaxRows
     /\ user' = IF read.restored
                  THEN [user EXCEPT ![u].status = read.user.status, ![u].info = read.user.info]
                  ELSE user
     /\ membership' = [membership EXCEPT ![u] =
                         SetRows(u, dropped, "DELETED") \o NewRows(missing, "ACTIVE")]
  /\ End(h)
  /\ UNCHANGED <<account, association, wallets, mail>>

-----------------------------------------------------------------------------
Request(h) ==
  /\ handler[h] = NoRequest
  /\ \E u \in Users :
       \/ \E e \in Emails :
            \/ SignUp(h, u, e)
            \/ \E p \in Users, T \in Types : AddMember(h, p, u, e, T)
       \/ Verify(h, u)
       \/ RequestReset(h, u)
       \/ ChangePassword(h, u)
       \/ UpdateProfile(h, u)
       \/ Onboard(h, u)
       \/ \E p \in Users :
            \/ DeleteMember(h, p, u)
            \/ \E T \in Types : EditMember(h, p, u, T)

Save(h) ==
  \/ SignPrincipalUser(h)
  \/ CreateAssociationMember(h)
  \/ ValidatePrincipalUser(h)
  \/ ResetPassword(h)
  \/ ValidateForChange(h)
  \/ SaveActiveUser(h)
  \/ CreateAssociation(h)
  \/ DeActivateUser(h)
  \/ LoadMemberships(h)
  \/ UpdateMembership(h)

(* No request is under way: the server waits.                              *)
AtRest ==
  /\ \A h \in Handlers : handler[h] = NoRequest
  /\ UNCHANGED accountVars

AccountsNext ==
  \/ \E h \in Handlers : Request(h) \/ Save(h) \/ Fail(h)
  \/ \E u \in Users : ResendVerification(u)
  \/ AtRest

AccountsSpec == AccountsInit /\ [][AccountsNext]_accountVars

-----------------------------------------------------------------------------
(* Properties.                                                             *)

AccountsTypeOK ==
  /\ \A u \in Users :
       /\ user[u].status \in UserStatus /\ user[u].info \in UserStatus
       /\ user[u].email \in Emails \cup {None}
       /\ user[u].home \in Users \cup {None}
       /\ membership[u] \in Seq([type : AccountType, status : {Pending, "ACTIVE", "DELETED"}])
       /\ Len(membership[u]) <= MaxRows
  /\ account \in [Users -> {"absent", Pending, "ACTIVE"}]
  /\ association \in [Users -> {"absent", Pending, "ACTIVE"}]
  /\ wallets \in [Users -> 0 .. MaxWallets]
  /\ mail \in [Users -> SUBSET Link]

(* "Test that principal user with an email that has not been been deleted  *)
(* cannot sign up" (test/signup.e2e-spec.ts:85): no e-mail has two users   *)
(* that are not deleted, unless two registrations of it overlap, or a      *)
(* handler that had read a user before the deletion saves it after.        *)
OneUserPerEmail ==
  {"registration", "deletion"} \cap conflicts = {} =>
    \A u, v \in Users :
      /\ user[u].email = user[v].email /\ user[u].email # None
      /\ {user[u].status, user[v].status} \cap {"absent", "DELETED"} = {}
      => u = v

(* Whoever is pending can still get in: user, account and membership wait  *)
(* for the same link, so that it works, can be sent again, and a reset of  *)
(* the password activates them too.  A reset that had read the user before *)
(* a verification, and saves it after, locks the user out for good.        *)
PendingCanBeVerified ==
  "verification" \notin conflicts =>
    \A u \in Users :
      /\ user[u].status = Pending <=> account[u] = Pending
      /\ user[u].status = Pending <=> RowsWith(u, Pending) # {}

(* A user is deleted exactly when no membership is left, whatever edits,   *)
(* resets and profile updates came before, unless one overlaps a deletion. *)
MembershipsFollowUser ==
  "deletion" \notin conflicts =>
    \A u \in Users :
      LET live == RowsWith(u, "ACTIVE") \cup RowsWith(u, Pending) IN
      user[u].status # "absent" =>
        /\ user[u].status = "DELETED" <=> live = {}
        /\ user[u].status = "DELETED" <=> user[u].info = "DELETED"

(* An active association has its wallet, member account and general group, *)
(* and has them once unless two onboardings overlap; it has members only   *)
(* then.                                                                   *)
OnboardedOnce ==
  \A a \in Users :
    /\ association[a] = "ACTIVE" <=> wallets[a] > 0
    /\ "onboarding" \notin conflicts => wallets[a] <= 1
    /\ (\E u \in Users \ {a} : user[u].home = a) => wallets[a] > 0

(* Nobody who was verified is pending again, and nobody who was deleted    *)
(* comes back, though every handler saves the status it has read.          *)
LifecycleIsOneWay ==
  [][\A u \in Users :
       /\ "deletion" \notin conflicts /\ user[u].status = "DELETED"
            => user'[u].status = "DELETED"
       /\ "verification" \notin conflicts /\ user[u].status \notin {"absent", Pending}
            => user'[u].status # Pending]_accountVars

(* A member with two memberships keeps them until the member is deleted:   *)
(* every edit of such a member fails, whatever types it asks for, unless   *)
(* it overlaps another edit.                                               *)
BothAccountsAreForGood ==
  [][\A u \in Users :
       /\ "edit" \notin conflicts
       /\ Cardinality(RowsWith(u, "ACTIVE")) > 1
       => membership'[u] = membership[u] \/ user'[u].status = "DELETED"]_accountVars
=============================================================================
