------------------------------ MODULE Planning ------------------------------
(***************************************************************************)
(* Categories, edits of transactions, budgets and goals over one database, *)
(* and the summary that reads them: requests of every kind run together.   *)
(* SummaryService.Get executes three statements on the pool, so that the   *)
(* parts of one summary may be of different states.                        *)
(***************************************************************************)
EXTENDS Budgets, Goals

CONSTANTS
  SeedRows,  \* the rows there may be at the start, one in each table
  MaxPoints  \* the number of months the monthly data go back, 6

Summary == [op : {"summary"}, user : Users, month : Months]

ASSUME InputAssumption ==
  Inputs \subseteq CreateTransaction \cup Edit \cup DeleteTransaction \cup CreateBudget
                   \cup UpdateBudget \cup DeleteBudget \cup CopyBudgets \cup CreateGoal
                   \cup UpdateGoal \cup Contribution \cup DeleteGoal \cup Summary

ASSUME PointAssumption == MaxPoints \in Nat

(* The seeded rows are filed as the program files them.                    *)
ASSUME StartAssumption ==
  \A s \in SeedRows :
    /\ s.category \in Category /\ s.category.owner \in {s.txn.user, Global}
    /\ s.txn \in Transaction /\ s.txn.kind = s.category.type
    /\ s.category.type = "expense"
    /\ s.budget \in [user : {s.txn.user}, category : {Seed}, month : Months]
    /\ s.goal \in Goal /\ (s.goal.status = "completed" <=> s.goal.current >= s.goal.target)

VARIABLE figures  \* what each summary has read so far

planning == <<api, categoryVars, editVars, budgets, goals, figures>>

NoFigures == [income |-> 0, expense |-> 0, spent |-> 0, monthlyIncome |-> 0, monthlyExpense |-> 0]

PlanningTypeOK ==
  /\ CategoriesTypeOK /\ EditsTypeOK /\ BudgetsTypeOK /\ GoalsTypeOK
  /\ request \in [Requests -> Inputs]
  /\ result \in [Requests -> Results]
  /\ wrote \subseteq Requests
  /\ figures \in [Requests -> [DOMAIN NoFigures -> Nat]]

Init ==
  /\ ApiInit
  /\ \E s \in SeedRows :
       CategoriesInit(s.category) /\ EditsInit(s.txn) /\ BudgetsInit(s.budget) /\ GoalsInit(s.goal)
  /\ figures = [r \in Requests |-> NoFigures]

-----------------------------------------------------------------------------
(* The summary *)

Of(u, kind) == {t \in DOMAIN txns : txns[t].user = u /\ txns[t].kind = kind}

(* Mutant: whatever leaves an account is an expense.                       *)
Outgoing(u) == Of(u, "expense") \cup Of(u, "transfer")

Expenses(u) == Of(u, "expense")

(* Totals                                                                  *)
ReadTotals(r) ==
  /\ Starts(r, "summary")
  /\ figures' = [figures EXCEPT ![r].income = Amount(Of(User(r), "income")),
                                ![r].expense = Amount(Expenses(User(r)))]
  /\ Goto(r, "stats")

(* BudgetStats: what is spent of each budget of the month; their sum stands*)
(* for them.                                                               *)
ReadStats(r) ==
  /\ pc[r] = "stats"
  /\ figures' = [figures EXCEPT ![r].spent =
       MapThenSumSet(Spent, {b \in DOMAIN budgets :
                               budgets[b].user = User(r) /\ budgets[b].month = request[r].month})]
  /\ Goto(r, "monthly")

(* The months MonthlyData returns: the last MaxPoints with an income or an *)
(* expense.                                                                *)
Points(u) ==
  LET withData == {txns[t].month : t \in Of(u, "income") \cup Of(u, "expense")}
  IN  {m \in withData : Cardinality({n \in withData : n > m}) < MaxPoints}

(* MonthlyData; the sums over its points stand for them.                   *)
ReadMonthly(r) ==
  LET in(S) == {t \in S : txns[t].month \in Points(User(r))}
  IN  /\ pc[r] = "monthly"
      /\ figures' = [figures EXCEPT
           ![r].monthlyIncome = Amount(in(Of(User(r), "income"))),
           ![r].monthlyExpense = Amount(in(Of(User(r), "expense")))]
      /\ Respond(r, "ok")

SummaryStep(r) == ReadTotals(r) \/ ReadStats(r) \/ ReadMonthly(r)

-----------------------------------------------------------------------------

(* All the requests of the instance have been answered.                    *)
Quiescent == (\A r \in Requests : pc[r] = "done") /\ UNCHANGED planning

Next ==
  \/ \E r \in Requests :
       \/ CategoryStep(r) /\ UNCHANGED <<editVars, budgets, goals, figures>>
       \/ EditStep(r) /\ UNCHANGED <<budgets, goals, figures>>
       \/ BudgetStep(r) /\ UNCHANGED <<goals, figures>>
       \/ GoalStep(r) /\ UNCHANGED <<categoryVars, editVars, budgets, figures>>
       \/ SummaryStep(r) /\ WritesNothing
                         /\ UNCHANGED <<categoryVars, editVars, budgets, goals>>
       \/ Cancel(r) /\ UNCHANGED <<categoryVars, editVars, budgets, goals, figures>>
  \/ Quiescent

Spec == Init /\ [][Next]_planning

(* The parts of a summary during which nobody wrote agree with each other: *)
(* the totals are those of the monthly data, while these go back far       *)
(* enough, and no more is spent of the budgets of a month than there are   *)
(* expenses, while every expense has one category.                         *)
SummaryAgrees ==
  \A r \in Requests :
    Op(r) = "summary" /\ alone[r] =>
      LET f == figures[r]
      IN  /\ pc[r] = "monthly" /\ SingleCategory => f.spent <= f.expense
          /\ result[r] = "ok" /\ Cardinality(Months) <= MaxPoints =>
               f.income = f.monthlyIncome /\ f.expense = f.monthlyExpense
=============================================================================
