----------------------------- MODULE MCAccounts -----------------------------
(* Small instances of Accounts for TLC. *)
EXTENDS Accounts, TLC

CONSTANTS n1, n2, n3, p1

Row(n) == [name |-> n, password |-> p1, state |-> "offline"]
Two == <<Row(n1), Row(n2)>>
OnesGroup == <<1>>
=============================================================================
