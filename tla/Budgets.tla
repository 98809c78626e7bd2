------------------------------ MODULE Budgets ------------------------------
(***************************************************************************)
(* BudgetService: the budgets a user sets for a category in a month, their *)
(* copy from one month to the next, and what has been spent of them, which *)
(* is computed from the transactions filed under the category.             *)
(***************************************************************************)
EXTENDS Edits

CreateBudget == [op : {"budget"}, user : Users, category : Names, month : Months]
UpdateBudget ==
  [op : {"rebudget"}, user : Users, budget : Ids \X Ids, category : Names, month : Months]
DeleteBudget == [op : {"unbudget"}, user : Users, budget : Ids \X Ids]
CopyBudgets  == [op : {"copy"}, user : Users, month : Months]

(* The amount, the name and the colour of a budget are left out.           *)
Budget == [user : Users, category : Ids, month : Months]

(* The id of a budget is the request that inserted it and the category it  *)
(* was inserted for: a copy inserts one for each.                          *)
VARIABLE budgets

BudgetsTypeOK ==
  /\ DOMAIN budgets \subseteq Ids \X Ids
  /\ Range(budgets) \subseteq Budget
  /\ \A b \in DOMAIN budgets : budgets[b].category \in DOMAIN categories

(* A budget for the seeded category.                                       *)
BudgetsInit(row) == budgets = [id \in {<<Seed, Seed>>} |-> row]

HasBudget(r, b) == b \in DOMAIN budgets /\ budgets[b].user = User(r)

(* Mutant: UNIQUE (user_id, category_id), before migration 0011, is gone   *)
(* and nothing has come in its place.                                      *)
Unconstrained(u, c, m) == {}

(* The budgets that UNIQUE (user_id, category_id, month) sets against one  *)
(* of user u for category c in month m.                                    *)
Rivals(u, c, m) == {b \in DOMAIN budgets : budgets[b] = [user |-> u, category |-> c, month |-> m]}

(* Create and Update: validateBudgetInput, then FindOrCreate.              *)
BeginBudget(r) ==
  /\ Starts(r, "budget") \/ Starts(r, "rebudget")
  /\ \/ Respond(r, "invalid") /\ UNCHANGED categoryVars
     \/ Look(r, request[r].category, "expense")
  /\ WritesNothing
  /\ UNCHANGED <<editVars, budgets>>

(* BudgetRepository.Create: a second budget is a unique violation.         *)
AddBudget(r) ==
  /\ pc[r] = "addBudget"
  /\ \/ /\ Rivals(User(r), category[r], request[r].month) # {}
        /\ Respond(r, "error")
        /\ WritesNothing
        /\ UNCHANGED budgets
     \/ /\ Rivals(User(r), category[r], request[r].month) = {}
        /\ budgets' = [id \in DOMAIN budgets \cup {<<r, category[r]>>} |->
             IF id = <<r, category[r]>>
             THEN [user |-> User(r), category |-> category[r], month |-> request[r].month]
             ELSE budgets[id]]
        /\ Respond(r, "ok")
        /\ Writes(r)
  /\ UNCHANGED <<categoryVars, editVars>>

(* BudgetRepository.Update: no row is a 404, and a month or a category in  *)
(* which there is another budget a unique violation.                       *)
MoveBudget(r) ==
  /\ pc[r] = "moveBudget"
  /\ LET id == request[r].budget
     IN  \/ /\ ~HasBudget(r, id)
            /\ Respond(r, "notFound")
            /\ WritesNothing
            /\ UNCHANGED budgets
         \/ /\ HasBudget(r, id)
            /\ Rivals(User(r), category[r], request[r].month) \ {id} # {}
            /\ Respond(r, "error")
            /\ WritesNothing
            /\ UNCHANGED budgets
         \/ /\ HasBudget(r, id)
            /\ Rivals(User(r), category[r], request[r].month) \ {id} = {}
            /\ budgets' = [budgets EXCEPT ![id].category = category[r],
                                          ![id].month = request[r].month]
            /\ Respond(r, "ok")
            /\ Writes(r)
  /\ UNCHANGED <<categoryVars, editVars>>

DropBudget(r) ==
  /\ Starts(r, "unbudget")
  /\ \/ /\ HasBudget(r, request[r].budget)
        /\ budgets' = Restrict(budgets, DOMAIN budgets \ {request[r].budget})
        /\ Respond(r, "ok")
        /\ Writes(r)
     \/ /\ ~HasBudget(r, request[r].budget)
        /\ Respond(r, "notFound")
        /\ WritesNothing
        /\ UNCHANGED budgets
  /\ UNCHANGED <<categoryVars, editVars>>

(* The budgets of the month before, t.AddDate(0, -1, 0).                   *)
LastMonths(r) ==
  {b \in DOMAIN budgets : budgets[b].user = User(r) /\ budgets[b].month = request[r].month - 1}

(* The categories CopyBudgetsFromMonth inserts a budget for, the others    *)
(* being left out by ON CONFLICT (user_id, category_id, month) DO NOTHING. *)
Copied(r) ==
  {c \in {budgets[b].category : b \in LastMonths(r)} :
     Rivals(User(r), c, request[r].month) = {}}

(* CopyFromPreviousMonth: one INSERT ... SELECT, for a month that is one.  *)
Copy(r) ==
  /\ Starts(r, "copy")
  /\ \/ /\ Respond(r, "invalid")
        /\ WritesNothing
        /\ UNCHANGED budgets
     \/ /\ budgets' = [id \in DOMAIN budgets \cup ({r} \X Copied(r)) |->
             IF id[1] = r
             THEN [user |-> User(r), category |-> id[2], month |-> request[r].month]
             ELSE budgets[id]]
        /\ Respond(r, "ok")
        /\ Writes(r)
  /\ UNCHANGED <<categoryVars, editVars>>

BudgetStep(r) ==
  BeginBudget(r) \/ AddBudget(r) \/ MoveBudget(r) \/ DropBudget(r) \/ Copy(r)

-----------------------------------------------------------------------------
(* What the queries say *)

(* The expenses that the join of a budget with the transactions finds.     *)
Spending(b) ==
  {t \in DOMAIN txns :
     /\ txns[t].kind = "expense"
     /\ txns[t].user = budgets[b].user
     /\ txns[t].month = budgets[b].month
     /\ <<t, budgets[b].category>> \in links}

Amount(S) == MapThenSumSet(LAMBDA t : txns[t].amount, S)

Spent(b) == Amount(Spending(b))

(* No expense counts towards two budgets, as long as it has one category:  *)
(* categories are looked up by name in one request and budgets set, moved  *)
(* and copied in others.                                                   *)
CountedOnce ==
  \A b, c \in DOMAIN budgets : \A t \in Spending(b) \cap Spending(c) :
    Cardinality(CategoriesOf(t)) = 1 => b = c

(* A budget is set for a category of expenses that its user sees.          *)
BudgetsFiledRight ==
  \A b \in DOMAIN budgets :
    /\ budgets[b].category \in Visible(budgets[b].user)
    /\ categories[budgets[b].category].type = "expense"
=============================================================================
