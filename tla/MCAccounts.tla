----------------------------- MODULE MCAccounts -----------------------------
(* Accounts on small sets of users and requests.                           *)
EXTENDS Accounts, TLC
=============================================================================
