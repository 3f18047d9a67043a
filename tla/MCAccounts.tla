----------------------------- MODULE MCAccounts -----------------------------
(* Instances of Accounts for TLC: handlers and e-mails are interchangeable.*)
EXTENDS Directory

MCTypes == {{"MEMBER_ACCOUNT"}, AccountType}

MCSymmetry == Permutations(Handlers) \cup Permutations(Emails)
=============================================================================
