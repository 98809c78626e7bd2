-------------------------- MODULE MCReconciliation --------------------------
(* Small instances of Reconciliation for TLC. *)
EXTENDS Reconciliation, TLC

CONSTANTS u1, a1, a2

OneOwner == [a \in Accounts |-> u1]

Input(kind, a, b, n) ==
  [kind |-> kind, user |-> u1, key |-> NoKey, account |-> a, to |-> b,
   amount |-> n, cost |-> 0]

(* An income of two, an expense of one.                                    *)
OneAccount == {Input("income", a1, a1, 2), Input("expense", a1, a1, 1)}

(* The same, and a transfer between two accounts.                          *)
TwoAccounts == {Input("income", a1, a1, 2), Input("transfer", a1, a2, 1)}

AnyDelete == [user : Users, txn : Creates]
AnyAsk    == [user : Users, fix : BOOLEAN]
Fixing    == [user : Users, fix : {TRUE}]

Symmetry == Permutations(Creates) \cup Permutations(Reconcilers)
=============================================================================
