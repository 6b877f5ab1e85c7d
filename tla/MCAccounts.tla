----------------------------- MODULE MCAccounts -----------------------------
(* Accounts on a small instance; calls, names and e-mails are              *)
(* interchangeable, types are not: one is the default.                     *)
EXTENDS Accounts, TLC

Interchangeable ==
    Permutations(Calls) \union Permutations(Names) \union Permutations(Emails)
=============================================================================
