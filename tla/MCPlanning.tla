----------------------------- MODULE MCPlanning -----------------------------
(* Small instances of Planning for TLC. *)
EXTENDS Planning, TLC

CONSTANTS u1, u2, food, rent

(* An expense of a cent on food in January and a budget for it; a goal of  *)
(* two cents.  The category is a default one, or the user's own.           *)
Start(owner) ==
  [category |-> [owner |-> owner, name |-> food, type |-> "expense"],
   txn |-> [user |-> u1, kind |-> "expense", month |-> 1, note |-> TRUE,
           amount |-> 10],
   budget |-> [user |-> u1, category |-> Seed, month |-> 1],
   goal |-> [user |-> u1, target |-> 20, current |-> 0, status |-> "active"]]

EitherFood == {Start(u1), Start(Global)}

Post1(u, kind, m, n, c) ==
  [op |-> "create", user |-> u, kind |-> kind, month |-> m, note |-> FALSE,
   amount |-> n, category |-> c]
EditSeed(m, note, c) ==
  [op |-> "edit", user |-> u1, txn |-> Seed, month |-> m, note |-> note, category |-> c]
SetBudget(c, m) == [op |-> "budget", user |-> u1, category |-> c, month |-> m]

(* Requests about transactions: creates, also of another user and under a  *)
(* category that does not exist yet, edits of each field, deletes, and the *)
(* summary.                                                                *)
TransactionInputs ==
  {Post1(u1, "income", 1, 15, rent), Post1(u1, "transfer", 1, 20, food),
   Post1(u2, "expense", 2, 20, rent),
   EditSeed(2, FALSE, rent), EditSeed(Keep, FALSE, food), EditSeed(Keep, TRUE, Keep)}
  \cup [op : {"edit"}, user : {u1}, txn : Requests, month : {Keep}, note : {FALSE},
        category : {rent}]
  \cup [op : {"delete"}, user : {u1}, txn : {Seed}]
  \cup [op : {"summary"}, user : {u1}, month : {1}]

(* Requests about budgets.                                                 *)
BudgetInputs ==
  {SetBudget(food, 2), SetBudget(rent, 2)}
  \cup [op : {"rebudget"}, user : {u1}, budget : {<<Seed, Seed>>}, category : {rent}, month : {2}]
  \cup [op : {"unbudget"}, user : {u1}, budget : {<<Seed, Seed>>}]
  \cup [op : {"copy"}, user : {u1}, month : {2}]

(* Requests about goals.                                                   *)
GoalInputs ==
  [op : {"goal"}, user : {u1}, target : {0, 4, 10}]
  \cup [op : {"retarget"}, user : {u1}, goal : {Seed}, target : {0, 50}]
  \cup [op : {"contribute"}, user : {u1}, goal : {Seed}, amount : {0, 15, 20}]
  \cup [op : {"dropGoal"}, user : {u1}, goal : {Seed}]

AllInputs == TransactionInputs \cup BudgetInputs \cup GoalInputs

Symmetry == Permutations(Requests)
=============================================================================
