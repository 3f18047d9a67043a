----------------------------- MODULE Directory ------------------------------
(***************************************************************************)
(* What users are told of associations, accounts and members: the login    *)
(* and its answer, the screens of an association and of its members, and   *)
(* the memberships other handlers look up to act on.  All are functions of *)
(* the rows Accounts writes.                                               *)
(*                                                                         *)
(* Lists are cut to 100 items and start at the first; the total beside     *)
(* them counts all.                                                        *)
(***************************************************************************)
EXTENDS Accounts

(* Membership rows, named by user and place: those of an association, of   *)
(* some types, in a status.                                                *)
RowsOf(a, T, status) ==
  {m \in Users \X (1 .. MaxRows) :
     /\ user[m[1]].home = a
     /\ m[2] \in DOMAIN membership[m[1]]
     /\ membership[m[1]][m[2]].status = status
     /\ membership[m[1]][m[2]].type \in T}

-----------------------------------------------------------------------------
(* Login: any user of that name is looked up, and must not be pending.     *)
ByEmailAndStatus(e, S) == {u \in ByEmail(e) : user[u].status \in S}

LoginUser(e) ==
  {u \in ByEmailAndStatus(e, {"ACTIVE", Pending}) : user[u].status # Pending}

(* The associations of a user, by any of the memberships.                  *)
AssociationsOf(u, S) ==
  {a \in Users : OfAssociation(u, a) /\ association[a] \in S}

(* LoggedInUserInfoHandler.transform: every association is shown with all  *)
(* accounts of all of them, not only with those the user belongs to.       *)
AccountsShown(A) ==
  UNION {{[association |-> a, type |-> t] :
            t \in AccountsOf(a, "ACTIVE") \cup AccountsOf(a, Pending)} : a \in A}

LoggedInUserInfo(u) ==
  LET A == AssociationsOf(u, {"ACTIVE", Pending}) IN
  [user |-> u,
   associations |-> {[association |-> a, status |-> association[a],
                      accounts |-> AccountsShown(A)] : a \in A}]

Login(e) == {LoggedInUserInfo(u) : u \in LoginUser(e)}

-----------------------------------------------------------------------------
(* The screen of an association.  Without a wallet it cannot be shown.     *)
AssociationInfo(a) ==
  {[association |-> a, wallet |-> w] : w \in 1 .. wallets[a]}

GetAssociation(p) == IF Principal(p) THEN AssociationInfo(user[p].home) ELSE {}

-----------------------------------------------------------------------------
(* Members.  The search wants the membership_info active and a membership  *)
(* of the type, of whatever status.  What else it matches, names, e-mails  *)
(* and identifiers, selects any of the users: `among`.                     *)
PortalUserQuery == [types : SUBSET AccountType, among : SUBSET Users]

FindByAssociationAndUserQuery(a, q) ==
  {u \in q.among : /\ user[u].home = a
                   /\ user[u].info = "ACTIVE"
                   /\ \E i \in DOMAIN membership[u] : membership[u][i].type \in q.types}

(* MembershipInfoHandler.transform, without the roles (Roles).             *)
MemberLine(u) == [user |-> u, email |-> user[u].email]

GetAssociationMembers(a, q) ==
  LET found == FindByAssociationAndUserQuery(a, q) IN
  [items |-> {MemberLine(u) : u \in found}, total |-> Cardinality(found)]

(* One member, also one who was deleted, with the accounts of all          *)
(* memberships the member has ever had.                                    *)
GetMember(a, u) ==
  {[user |-> v, accounts |-> AccountsWith(v, "ACTIVE")] :
     v \in {v \in {u} : user[v].home = a}}

(* The member to edit, and the one to delete.                              *)
FindByIdentifier(a, u) == {v \in {u} : user[v].home = a /\ user[v].info = "ACTIVE"}

-----------------------------------------------------------------------------
(* Memberships others act on: those of a fee that names nobody, the one a  *)
(* user sees bills with, and those counted on the dashboard.               *)
FindByAssociationAndQuery(a, T) == RowsOf(a, T, "ACTIVE")

FindByAssociationAndUserAndAccountType(a, u, t) ==
  {m \in RowsOf(a, {t}, "ACTIVE") : m[1] = u}

CountByAssociationAndAccountType(a, t) == Cardinality(RowsOf(a, {t}, "ACTIVE"))

(* The users behind memberships: whom their bills are shown with.          *)
FindByMemberships(M) == {m[1] : m \in M}

-----------------------------------------------------------------------------
(* Properties.                                                             *)

Everybody(T) == [types |-> T, among |-> Users]

(* Whoever counts as a member is listed as one: an active membership of a  *)
(* type, counted on the dashboard, billed by a fee that names nobody, or   *)
(* used to show bills, is one of a member whom the search for that type    *)
(* lists, who can be found by identifier and is shown with that account,   *)
(* though each query asks other tables for other statuses.                 *)
CountedAreListed ==
  \A a \in {user[p].home : p \in {p \in Users : Principal(p)}} :
    \A t \in AccountType :
      LET counted == FindByMemberships(FindByAssociationAndQuery(a, {t}))
          listed == GetAssociationMembers(a, Everybody({t})) IN
      /\ CountByAssociationAndAccountType(a, t) <= MaxRows * listed.total
      /\ \A u \in counted :
           /\ MemberLine(u) \in listed.items
           /\ FindByIdentifier(a, u) = {u}
           /\ \E info \in GetMember(a, u) : t \in info.accounts

(* Whoever logs in is told of one association, is listed among its members *)
(* once it is active, and acts there by an active membership.              *)
LoginFindsItsAssociation ==
  \A e \in Emails : \A info \in Login(e) :
    LET u == info.user
        a == user[u].home IN
    /\ LoggedIn(u)
    /\ {shown.association : shown \in info.associations} = {a}
    /\ association[a] = "ACTIVE" =>
         /\ GetAssociation(u) # {}
         /\ u \in FindByAssociationAndUserQuery(a, Everybody(AccountType))
    /\ \E t \in AccountType : FindByAssociationAndUserAndAccountType(a, u, t) # {}

DirectoryMatchesMembers ==
  "deletion" \notin conflicts => CountedAreListed /\ LoginFindsItsAssociation
=============================================================================
