----------------------- MODULE MCTransactionService -----------------------
(* Small instances of TransactionService for TLC. *)
EXTENDS TransactionService, TLC

CONSTANTS u1, u2, a1, a2, k1

(* Every account belongs to one user, or each to a user of its own.        *)
OneOwner  == [a \in Accounts |-> u1]
TwoOwners == [a \in Accounts |-> IF a = a1 THEN u1 ELSE u2]

Income(a, n, key) ==
  [kind |-> "income", user |-> Owner[a], key |-> key, account |-> a, to |-> a,
   amount |-> n, cost |-> 0]
Expense(a, n, cost, key) ==
  [kind |-> "expense", user |-> Owner[a], key |-> key, account |-> a, to |-> a,
   amount |-> n, cost |-> cost]
Transfer(a, b, n, cost, key) ==
  [kind |-> "transfer", user |-> Owner[a], key |-> key, account |-> a, to |-> b,
   amount |-> n, cost |-> cost]

(* Money coming in, going out with a cost, moving both ways; a key used by *)
(* two different inputs; an input that validation refuses.                 *)
MixedInputs ==
  {Income(a1, 1, k1), Expense(a1, 1, 1, NoKey), Transfer(a1, a2, 1, 0, k1),
   Transfer(a2, a1, 1, 0, NoKey), Transfer(a1, a1, 1, 0, NoKey)}

(* Transfers in opposite directions, and one key used twice.               *)
OppositeTransfers ==
  {Transfer(a1, a2, 1, 0, k1), Transfer(a2, a1, 1, 0, k1), Transfer(a2, a1, 1, 0, NoKey)}

(* Incomes of two users under the same key.                                *)
SharedKey == {Income(a1, 1, k1), Income(a2, 1, k1)}

(* An expense of half a cent, in tenths of a cent.                         *)
HalfCent == {Expense(a1, 5, 0, NoKey)}

AnyDelete == [user : Users, txn : Creates]

Symmetry == Permutations(Creates) \cup Permutations(Deletes)
=============================================================================
