----------------------------- MODULE MCAccounts -----------------------------
(* Accounts for TLC: requests, addresses and passwords are alike. *)
EXTENDS Accounts, TLC

AccountSymmetry ==
    Permutations(Handlers) \cup Permutations(Addresses) \cup Permutations(Passwords)

=============================================================================
