--------------------------- MODULE PlanningProofs ---------------------------
(***************************************************************************)
(* What requests about transactions, categories, budgets and goals that run*)
(* together keep true, for any users, requests and inputs.                 *)
(***************************************************************************)
EXTENDS Planning, FiniteSetTheorems, TLAPS

USE RowAssumption, OwnerAssumption

-----------------------------------------------------------------------------
(* Rounding *)

(* A later multiple of a cent is at least a cent later.                    *)
LEMMA CentsApart ==
  ASSUME NEW p \in Nat, NEW q \in Nat, p < q
  PROVE  Scale * p + Scale <= Scale * q
<1>1. \A a, b \in Nat : a <= b => Scale * a <= Scale * b
  BY ScaleAssumption
<1>2. Scale * (p + 1) <= Scale * q
  BY <1>1
<1>. QED
  BY <1>2, ScaleAssumption

(* Round gives the multiple of a cent that is at most half a cent away.    *)
LEMMA RoundIs ==
  ASSUME NEW n \in Nat
  PROVE  \E q \in Nat :
           /\ Round(n) = Scale * q
           /\ 2 * (Scale * q) <= 2 * n + Scale
           /\ 2 * n + Scale < 2 * (Scale * q) + 2 * Scale
<1> USE ScaleAssumption
<1> DEFINE a == 2 * n + Scale
           b == 2 * Scale
           q == a \div b
<1>1. a \in Nat /\ b \in Nat /\ b > 0
  OBVIOUS
<1>2. \A x, y \in Nat : y > 0 =>
        /\ x \div y \in Nat
        /\ y * (x \div y) <= x /\ x < y * (x \div y) + y
  OBVIOUS
<1>3. q \in Nat /\ b * q <= a /\ a < b * q + b
  BY <1>1, <1>2
<1>4. Round(n) = q * Scale
  BY DEF Round, RoundUp
<1> HIDE DEF q
<1>5. b * q = 2 * (Scale * q) /\ q * Scale = Scale * q
  BY <1>3
<1>. QED
  BY <1>3, <1>4, <1>5

(* A whole number of cents is stored as it is.                             *)
LEMMA RoundCents ==
  ASSUME NEW q \in Nat
  PROVE  Scale * q \in Nat /\ Round(Scale * q) = Scale * q
<1> USE ScaleAssumption
<1> DEFINE n == Scale * q
<1>1. n \in Nat
  OBVIOUS
<1>2. PICK p \in Nat : /\ Round(n) = Scale * p
                       /\ 2 * (Scale * p) <= 2 * n + Scale
                       /\ 2 * n + Scale < 2 * (Scale * p) + 2 * Scale
  BY <1>1, RoundIs
<1>3. ~(p < q) /\ ~(q < p)
  <2>1. Scale * p \in Nat
    OBVIOUS
  <2>2. p < q => Scale * p + Scale <= n
    BY CentsApart
  <2>3. q < p => n + Scale <= Scale * p
    BY CentsApart
  <2> HIDE DEF n
  <2>. QED
    BY <1>1, <1>2, <2>1, <2>2, <2>3
<1>4. p = q
  BY <1>3
<1>. QED
  BY <1>1, <1>2, <1>4

LEMMA RoundType ==
  ASSUME NEW n \in Nat
  PROVE  Round(n) \in Cents
  BY RoundIs, RoundCents DEF Cents

(* Rounding carries an amount up to a whole number of cents at most.       *)
LEMMA RoundBounds ==
  ASSUME NEW n \in Nat, NEW t \in Cents
  PROVE  /\ n >= t => Round(n) >= t
         /\ n < t => Round(n) <= t
<1> USE ScaleAssumption
<1>1. PICK q \in Nat : /\ Round(n) = Scale * q
                       /\ 2 * (Scale * q) <= 2 * n + Scale
                       /\ 2 * n + Scale < 2 * (Scale * q) + 2 * Scale
  BY RoundIs
<1>2. t \in Nat
  BY DEF Cents
<1>3. PICK k \in Nat : t = Scale * k
  BY <1>2, RoundIs DEF Cents
<1>4. Round(n) \in Nat
  BY RoundType DEF Cents
<1>5. q < k => Round(n) + Scale <= t
  BY <1>1, <1>3, CentsApart
<1>6. k < q => t + Scale <= Round(n)
  BY <1>1, <1>3, CentsApart
<1>7. q = k => Round(n) = t
  BY <1>1, <1>3
<1>8. 2 * Round(n) <= 2 * n + Scale /\ 2 * n + Scale < 2 * Round(n) + 2 * Scale
  BY <1>1
<1>. QED
  BY <1>2, <1>4, <1>5, <1>6, <1>7, <1>8

(* Whole numbers of cents add up to one.                                   *)
LEMMA CentsAdd ==
  ASSUME NEW m \in Cents, NEW n \in Cents
  PROVE  m + n \in Cents
<1> USE ScaleAssumption
<1>1. PICK p \in Nat : m = Scale * p
  BY RoundIs DEF Cents
<1>2. PICK q \in Nat : n = Scale * q
  BY RoundIs DEF Cents
<1>3. m + n = Scale * (p + q) /\ p + q \in Nat
  BY <1>1, <1>2
<1>. QED
  BY <1>3, RoundCents DEF Cents

-----------------------------------------------------------------------------
(* Requests *)

Steps ==
  {"idle", "find", "addCategory", "post", "update", "clear", "link", "enrich",
   "addBudget", "moveBudget", "stats", "monthly", "done"}

(* The statements of each method.                                          *)
MayBeAt(op, s) ==
  /\ s \in {"find", "addCategory"} => op \in {"create", "edit", "budget", "rebudget"}
  /\ s = "post" => op = "create"
  /\ s \in {"update", "clear", "link"} => op = "edit"
  /\ s = "enrich" => op \in {"create", "edit"}
  /\ s = "addBudget" => op = "budget"
  /\ s = "moveBudget" => op = "rebudget"
  /\ s \in {"stats", "monthly"} => op = "summary"

OnItsWay(r) == MayBeAt(Op(r), pc[r]) /\ (pc[r] # "done" => result[r] = "none")

(* The statements past which nothing is refused, and what may come of them;*)
(* a request that has written is past that.                                *)
Late(op, s) == s \in {"clear", "link", "enrich"} \/ (s \in {"find", "addCategory"} /\ op = "edit")

Unrefused == {"ok", "nil", "panic", "error"}

PastRefusal(r) == Late(Op(r), pc[r]) \/ (pc[r] = "done" /\ result[r] \in Unrefused)

RequestsInv ==
  /\ request \in [Requests -> Inputs]
  /\ pc \in [Requests -> Steps]
  /\ result \in [Requests -> Results]
  /\ wrote \subseteq Requests
  /\ alone \in [Requests -> BOOLEAN]
  /\ \A r \in Requests : OnItsWay(r)
  /\ \A r \in wrote : PastRefusal(r)

-----------------------------------------------------------------------------
(* Categories *)

(* The type of the category a request has to look for.                     *)
TypeSought(r) ==
  IF Op(r) = "create" THEN request[r].kind
  ELSE IF Op(r) = "edit" THEN read[r].kind ELSE "expense"

(* FindOrCreate is called with a name and the type of what is filed, and an*)
(* INSERT comes only where no default category would have done.            *)
Seeking(r) ==
  /\ wanted[r] \in [name : Names, type : {"income", "expense"}]
  /\ wanted[r].type = TypeSought(r)
  /\ pc[r] = "addCategory" =>
       \A c \in DOMAIN categories :
         ~ /\ categories[c].owner = Global
           /\ categories[c].name = wanted[r].name
           /\ categories[c].type = wanted[r].type

(* The category it has returned is one of that type that its user sees.    *)
HasCategory(r) ==
  /\ category[r] \in DOMAIN categories
  /\ categories[category[r]].owner \in {User(r), Global}
  /\ categories[category[r]].type = TypeSought(r)

CategoryAt(r) ==
  /\ category[r] \in DOMAIN categories \cup {None}
  /\ pc[r] = "idle" => category[r] = None
  /\ r \in DOMAIN categories => pc[r] \notin {"idle", "update", "find", "addCategory"}
  /\ pc[r] \in {"find", "addCategory"} => Seeking(r)
  /\ pc[r] \in {"clear", "link", "addBudget", "moveBudget"} => HasCategory(r)
  /\ pc[r] = "post" => IF request[r].kind = "transfer" THEN category[r] = None
                       ELSE HasCategory(r)

CategoriesInv ==
  /\ CategoriesTypeOK
  /\ category \in [Requests -> Ids \cup {None}]
  /\ NamedOnce
  /\ \A r \in Requests : CategoryAt(r)

-----------------------------------------------------------------------------
(* Transactions *)

(* A transaction that was there before, or that its request has inserted:  *)
(* it is not inserted again.                                               *)
Inserted(t) == t = Seed \/ (t \in Requests /\ Op(t) = "create" /\ pc[t] \in {"enrich", "done"})

(* An edit has loaded a transaction of its user, whose kind does not change*)
Loaded(r) ==
  LET t == request[r].txn
  IN  /\ read[r] \in Transaction /\ read[r].user = User(r)
      /\ Inserted(t)
      /\ t \in DOMAIN txns => txns[t].user = User(r) /\ txns[t].kind = read[r].kind

EditAt(r) ==
  Op(r) = "edit" =>
    /\ pc[r] \in {"update", "find", "addCategory", "clear", "link"} => Loaded(r)
    /\ pc[r] \in {"find", "addCategory", "clear", "link"} => read[r].kind # "transfer"

EditsInv ==
  /\ EditsTypeOK
  /\ \A t \in DOMAIN txns : Inserted(t)
  /\ FiledRight
  /\ IsFiniteSet(links)
  /\ \A r \in Requests : EditAt(r)

-----------------------------------------------------------------------------
(* Budgets *)

(* UNIQUE (user_id, category_id, month)                                    *)
OneBudgetEach == \A b, c \in DOMAIN budgets : budgets[b] = budgets[c] => b = c

BudgetsInv ==
  /\ BudgetsTypeOK
  /\ BudgetsFiledRight
  /\ OneBudgetEach
  /\ \A b \in DOMAIN budgets : b[1] # Seed => pc[b[1]] = "done"

-----------------------------------------------------------------------------
(* Goals *)

GoalsInv ==
  /\ GoalsTypeOK
  /\ StatusTellsTheTruth
  /\ \A g \in DOMAIN goals : g # Seed => pc[g] = "done"

-----------------------------------------------------------------------------
(* What the methods are asked *)

LEMMA InputTypes ==
  ASSUME NEW i \in Inputs
  PROVE  /\ i.user \in Users
         /\ i.op = "create" => i \in CreateTransaction
         /\ i.op = "edit" => i \in Edit
         /\ i.op = "delete" => i \in DeleteTransaction
         /\ i.op = "budget" => i \in CreateBudget
         /\ i.op = "rebudget" => i \in UpdateBudget
         /\ i.op = "unbudget" => i \in DeleteBudget
         /\ i.op = "copy" => i \in CopyBudgets
         /\ i.op = "goal" => i \in CreateGoal
         /\ i.op = "retarget" => i \in UpdateGoal
         /\ i.op = "contribute" => i \in Contribution
         /\ i.op = "dropGoal" => i \in DeleteGoal
         /\ i.op = "summary" => i \in Summary
  BY InputAssumption DEF CreateTransaction, Edit, DeleteTransaction, CreateBudget, UpdateBudget,
     DeleteBudget, CopyBudgets, CreateGoal, UpdateGoal, Contribution, DeleteGoal, Summary

-----------------------------------------------------------------------------
(* What has been written is not refused *)

LEMMA GotoKeeps ==
  ASSUME RequestsInv, NEW r \in Requests, NEW s \in Steps \ {"done"}, Goto(r, s),
         pc[r] # "done", MayBeAt(Op(r), s),
         \/ WritesNothing /\ (r \notin wrote \/ Late(Op(r), s))
         \/ Writes(r) /\ Late(Op(r), s)
  PROVE  RequestsInv'
<1> USE DEF RequestsInv, Goto, Op
<1>1. /\ request' \in [Requests -> Inputs]
      /\ pc' \in [Requests -> Steps]
      /\ result' \in [Requests -> Results]
      /\ wrote' \subseteq Requests
      /\ alone' \in [Requests -> BOOLEAN]
  <2>1. alone' \in [Requests -> BOOLEAN] /\ wrote' \subseteq Requests
    BY DEF Writes, WritesNothing
  <2>. QED
    BY <2>1
<1>2. ASSUME NEW q \in Requests
      PROVE  OnItsWay(q)'
  BY DEF OnItsWay
<1>3. ASSUME NEW q \in wrote'
      PROVE  PastRefusal(q)'
  BY DEF PastRefusal, Writes, WritesNothing
<1>. QED
  BY <1>1, <1>2, <1>3

LEMMA RespondKeeps ==
  ASSUME RequestsInv, NEW r \in Requests, NEW res \in Results, Respond(r, res),
         \/ WritesNothing /\ (r \notin wrote \/ res \in Unrefused)
         \/ Writes(r) /\ res \in Unrefused
  PROVE  RequestsInv'
<1> USE DEF RequestsInv, Respond, Op
<1>1. /\ request' \in [Requests -> Inputs]
      /\ pc' \in [Requests -> Steps]
      /\ result' \in [Requests -> Results]
      /\ wrote' \subseteq Requests
      /\ alone' \in [Requests -> BOOLEAN]
  <2>1. alone' \in [Requests -> BOOLEAN] /\ wrote' \subseteq Requests
    BY DEF Writes, WritesNothing
  <2>. QED
    BY <2>1 DEF Steps
<1>2. ASSUME NEW q \in Requests
      PROVE  OnItsWay(q)'
  BY DEF OnItsWay, MayBeAt
<1>3. ASSUME NEW q \in wrote'
      PROVE  PastRefusal(q)'
  BY DEF PastRefusal, Writes, WritesNothing
<1>. QED
  BY <1>1, <1>2, <1>3

LEMMA ThenIs ==
  /\ Then["create"] = "post" /\ Then["edit"] = "clear"
  /\ Then["budget"] = "addBudget" /\ Then["rebudget"] = "moveBudget"
  BY DEF Then

(* Where FindOrCreate is called from.                                      *)
LEMMA LookKeeps ==
  ASSUME RequestsInv, NEW r \in Requests, NEW name, NEW type, Look(r, name, type),
         pc[r] # "done", MayBeAt(Op(r), "find"),
         \/ WritesNothing /\ (r \notin wrote \/ Op(r) = "edit")
         \/ Writes(r) /\ Op(r) = "edit"
  PROVE  RequestsInv'
<1>1. Goto(r, "find")
  BY DEF Look
<1>. QED
  BY <1>1, GotoKeeps DEF Steps, Late

LEMMA StartsFresh ==
  ASSUME RequestsInv, NEW r \in Requests, pc[r] \in {"idle", "post", "addBudget", "moveBudget"}
  PROVE  r \notin wrote
  BY DEF RequestsInv, PastRefusal, Late

LEMMA RequestsCategory ==
  ASSUME RequestsInv, NEW r \in Requests, CategoryStep(r)
  PROVE  RequestsInv'
<1>1. OnItsWay(r) /\ (r \in wrote => PastRefusal(r))
  BY DEF RequestsInv
<1>2. ASSUME NEW c, Found(r, c), pc[r] \in {"find", "addCategory"}, WritesNothing
      PROVE  RequestsInv'
  <2>1. Goto(r, Then[Op(r)])
    BY <1>2 DEF Found
  <2>2. Op(r) \in {"create", "edit", "budget", "rebudget"}
    BY <1>1, <1>2 DEF OnItsWay, MayBeAt
  <2>3. r \notin wrote \/ Op(r) = "edit"
    BY <1>1, <1>2 DEF PastRefusal, Late
  <2>. QED
    BY <1>2, <2>1, <2>2, <2>3, ThenIs, GotoKeeps DEF Steps, Late, MayBeAt
<1>3. ASSUME FindCategory(r)
      PROVE  RequestsInv'
  <2>1. CASE Goto(r, "addCategory")
    <3>1. MayBeAt(Op(r), "addCategory") /\ (r \notin wrote \/ Late(Op(r), "addCategory"))
      BY <1>1, <1>3 DEF FindCategory, OnItsWay, MayBeAt, PastRefusal, Late
    <3>. QED
      BY <1>3, <2>1, <3>1, GotoKeeps DEF FindCategory, Steps
  <2>. QED
    BY <1>2, <1>3, <2>1 DEF FindCategory
<1>4. ASSUME AddCategory(r)
      PROVE  RequestsInv'
  <2>1. CASE Respond(r, "error")
    BY <1>4, <2>1, RespondKeeps DEF AddCategory, Results, Unrefused
  <2>. QED
    BY <1>2, <1>4, <2>1 DEF AddCategory
<1>. QED
  BY <1>3, <1>4 DEF CategoryStep

LEMMA RequestsEdit ==
  ASSUME RequestsInv, NEW r \in Requests, EditStep(r)
  PROVE  RequestsInv'
<1>1. OnItsWay(r) /\ (r \in wrote => PastRefusal(r))
  BY DEF RequestsInv
<1>2. CASE BeginCreate(r)
  <2>1. pc[r] = "idle" /\ r \notin wrote /\ Op(r) = "create" /\ WritesNothing
    BY <1>2, StartsFresh DEF BeginCreate, Starts
  <2>2. CASE \E res \in {"invalid", "notFound"} : Respond(r, res)
    BY <2>1, <2>2, RespondKeeps DEF Results
  <2>3. CASE Goto(r, "post")
    BY <2>1, <2>3, GotoKeeps DEF Steps, MayBeAt
  <2>4. CASE Look(r, request[r].category, request[r].kind)
    BY <2>1, <2>4, LookKeeps DEF MayBeAt
  <2>. QED
    BY <1>2, <2>2, <2>3, <2>4 DEF BeginCreate
<1>3. CASE Post(r)
  <2>1. pc[r] = "post" /\ r \notin wrote /\ Op(r) = "create"
    BY <1>1, <1>3, StartsFresh DEF Post, OnItsWay, MayBeAt
  <2>2. CASE Respond(r, "refused") /\ WritesNothing
    BY <2>1, <2>2, RespondKeeps DEF Results
  <2>3. CASE Goto(r, "enrich") /\ Writes(r)
    BY <2>1, <2>3, GotoKeeps DEF Steps, MayBeAt, Late
  <2>. QED
    BY <1>3, <2>2, <2>3 DEF Post
<1>4. CASE Delete(r)
  <2>1. r \notin wrote
    BY <1>4, StartsFresh DEF Delete, Starts
  <2>. QED
    BY <1>4, <2>1, RespondKeeps DEF Delete, Results, Unrefused
<1>5. CASE BeginEdit(r)
  <2>1. pc[r] = "idle" /\ r \notin wrote /\ Op(r) = "edit" /\ WritesNothing
    BY <1>5, StartsFresh DEF BeginEdit, Starts
  <2>2. CASE Respond(r, "notFound")
    BY <2>1, <2>2, RespondKeeps DEF Results
  <2>3. CASE Goto(r, IF AsksNothing(r) THEN "enrich" ELSE "update")
    BY <2>1, <2>3, GotoKeeps DEF Steps, MayBeAt
  <2>. QED
    BY <1>5, <2>2, <2>3 DEF BeginEdit
<1>6. CASE Update(r)
  <2>1. pc[r] = "update" /\ Op(r) = "edit" /\ (Writes(r) \/ WritesNothing)
    BY <1>1, <1>6 DEF Update, OnItsWay, MayBeAt
  <2>2. CASE Look(r, request[r].category, read[r].kind)
    BY <2>1, <2>2, LookKeeps DEF MayBeAt
  <2>3. CASE Goto(r, "enrich")
    BY <2>1, <2>3, GotoKeeps DEF Steps, MayBeAt, Late
  <2>. QED
    BY <1>6, <2>2, <2>3 DEF Update
<1>7. CASE ClearCategories(r)
  BY <1>1, <1>7, GotoKeeps DEF ClearCategories, OnItsWay, MayBeAt, Late, Steps
<1>8. CASE LinkCategory(r)
  <2>1. pc[r] = "link" /\ Op(r) = "edit"
    BY <1>1, <1>8 DEF LinkCategory, OnItsWay, MayBeAt
  <2>2. CASE Goto(r, "enrich") /\ Writes(r)
    BY <2>1, <2>2, GotoKeeps DEF Steps, MayBeAt, Late
  <2>3. CASE Respond(r, "error") /\ WritesNothing
    BY <2>1, <2>3, RespondKeeps DEF Results, Unrefused
  <2>. QED
    BY <1>8, <2>2, <2>3 DEF LinkCategory
<1>9. CASE Enrich(r)
  <2>1. PICK res \in {"ok", "panic", "nil"} : Respond(r, res)
    BY <1>9 DEF Enrich
  <2>. QED
    BY <1>9, <2>1, RespondKeeps DEF Enrich, Results, Unrefused
<1>. QED
  BY <1>2, <1>3, <1>4, <1>5, <1>6, <1>7, <1>8, <1>9 DEF EditStep

LEMMA RequestsBudget ==
  ASSUME RequestsInv, NEW r \in Requests, BudgetStep(r)
  PROVE  RequestsInv'
<1>1. ASSUME BeginBudget(r)
      PROVE  RequestsInv'
  <2>1. pc[r] = "idle" /\ r \notin wrote /\ Op(r) \in {"budget", "rebudget"} /\ WritesNothing
    BY <1>1, StartsFresh DEF BeginBudget, Starts
  <2>2. CASE Respond(r, "invalid")
    BY <2>1, <2>2, RespondKeeps DEF Results
  <2>3. CASE Look(r, request[r].category, "expense")
    BY <2>1, <2>3, LookKeeps DEF MayBeAt
  <2>. QED
    BY <1>1, <2>2, <2>3 DEF BeginBudget
<1>2. ASSUME AddBudget(r) \/ MoveBudget(r) \/ DropBudget(r) \/ Copy(r)
      PROVE  RequestsInv'
  <2>1. r \notin wrote
    BY <1>2, StartsFresh DEF AddBudget, MoveBudget, DropBudget, Copy, Starts
  <2>2. \/ \E res \in Results : Respond(r, res) /\ WritesNothing
        \/ Respond(r, "ok") /\ Writes(r)
    BY <1>2 DEF AddBudget, MoveBudget, DropBudget, Copy, Results
  <2>. QED
    BY <2>1, <2>2, RespondKeeps DEF Results, Unrefused
<1>. QED
  BY <1>1, <1>2 DEF BudgetStep

LEMMA RequestsGoal ==
  ASSUME RequestsInv, NEW r \in Requests, GoalStep(r)
  PROVE  RequestsInv'
<1>1. r \notin wrote
  BY StartsFresh DEF GoalStep, AddGoal, Retarget, Contribute, DropGoal, Starts
<1>2. \/ \E res \in Results : Respond(r, res) /\ WritesNothing
      \/ Respond(r, "ok") /\ Writes(r)
  BY DEF GoalStep, AddGoal, Retarget, Contribute, DropGoal, Results
<1>. QED
  BY <1>1, <1>2, RespondKeeps DEF Results, Unrefused

LEMMA RequestsSummary ==
  ASSUME RequestsInv, NEW r \in Requests, SummaryStep(r), WritesNothing
  PROVE  RequestsInv'
<1>1. OnItsWay(r) /\ (r \in wrote => PastRefusal(r))
  BY DEF RequestsInv
<1>2. r \notin wrote /\ Op(r) = "summary"
  BY <1>1 DEF SummaryStep, ReadTotals, ReadStats, ReadMonthly, Starts, OnItsWay, MayBeAt,
     PastRefusal, Late
<1>3. \/ Goto(r, "stats") /\ pc[r] = "idle"
      \/ Goto(r, "monthly") /\ pc[r] = "stats"
      \/ Respond(r, "ok")
  BY DEF SummaryStep, ReadTotals, ReadStats, ReadMonthly, Starts
<1>4. MayBeAt("summary", "stats") /\ MayBeAt("summary", "monthly")
  BY DEF MayBeAt
<1>. QED
  BY <1>2, <1>3, <1>4, GotoKeeps, RespondKeeps DEF Steps, Results, Unrefused

LEMMA RequestsNext == RequestsInv /\ [Next]_planning => RequestsInv'
<1> SUFFICES ASSUME RequestsInv, [Next]_planning PROVE RequestsInv'
  OBVIOUS
<1>1. ASSUME NEW r \in Requests, Cancel(r)
      PROVE  RequestsInv'
  BY <1>1, RespondKeeps DEF Cancel, Results, Unrefused
<1>2. ASSUME UNCHANGED planning
      PROVE  RequestsInv'
  BY <1>2 DEF planning, api, RequestsInv, OnItsWay, PastRefusal, Op
<1>. QED
  BY <1>1, <1>2, RequestsCategory, RequestsEdit, RequestsBudget, RequestsGoal, RequestsSummary
     DEF Next, Quiescent

LEMMA RequestsInit == Init => RequestsInv
  BY DEF Init, ApiInit, RequestsInv, OnItsWay, MayBeAt, PastRefusal, Late, Steps, Results

LEMMA RequestsAlways == Spec => []RequestsInv
  BY RequestsInit, RequestsNext, PTL DEF Spec

(* RefusalLeavesNothing: a request answered with a 4xx has not changed a   *)
(* transaction, a budget or a goal, at whichever statement it is refused:  *)
(* what it executes first refuses it or is past refusal.                   *)
THEOREM RefusalsLeaveNothing == Spec => []RefusalLeavesNothing
<1>1. \A res \in Unrefused : Status(res) \notin 400..499
  BY DEF Unrefused, Status
<1>2. RequestsInv => RefusalLeavesNothing
  <2> SUFFICES ASSUME RequestsInv, NEW r \in wrote, result[r] # "none"
               PROVE  Status(result[r]) \notin 400..499
    BY DEF RefusalLeavesNothing
  <2>1. PastRefusal(r) /\ OnItsWay(r)
    BY DEF RequestsInv
  <2>2. pc[r] = "done"
    BY <2>1 DEF OnItsWay
  <2>. QED
    BY <1>1, <2>1, <2>2 DEF PastRefusal, Late
<1>. QED
  BY <1>2, RequestsAlways, PTL

-----------------------------------------------------------------------------
(* A step is one request's                                                 *)

(* Request r, which has not been answered, moves on, and no other does.    *)
Moves(r) ==
  /\ pc[r] # "done"
  /\ request' = request
  /\ \A q \in Requests \ {r} : pc'[q] = pc[q] /\ result'[q] = result[q]

LEMMA GotoMoves ==
  ASSUME RequestsInv, NEW r \in Requests, pc[r] # "done",
         \/ \E s : Goto(r, s)
         \/ \E res : Respond(r, res)
         \/ \E name, type : Look(r, name, type)
         \/ \E c : Found(r, c)
  PROVE  Moves(r)
  BY DEF RequestsInv, Goto, Respond, Look, Found, Moves

LEMMA StepMoves ==
  ASSUME RequestsInv, NEW r \in Requests,
         \/ CategoryStep(r) \/ EditStep(r) \/ BudgetStep(r) \/ GoalStep(r) \/ SummaryStep(r)
         \/ Cancel(r)
  PROVE  Moves(r)
<1>1. CASE CategoryStep(r)
  BY <1>1, GotoMoves DEF CategoryStep, FindCategory, AddCategory
<1>2. CASE EditStep(r)
  BY <1>2, GotoMoves DEF EditStep, BeginCreate, Post, Delete, BeginEdit, Update, ClearCategories,
     LinkCategory, Enrich, Starts
<1>3. CASE BudgetStep(r)
  BY <1>3, GotoMoves DEF BudgetStep, BeginBudget, AddBudget, MoveBudget, DropBudget, Copy, Starts
<1>4. CASE GoalStep(r)
  BY <1>4, GotoMoves DEF GoalStep, AddGoal, Retarget, Contribute, DropGoal, Starts
<1>5. CASE SummaryStep(r)
  BY <1>5, GotoMoves DEF SummaryStep, ReadTotals, ReadStats, ReadMonthly, Starts
<1>6. CASE Cancel(r)
  BY <1>6, GotoMoves DEF Cancel, UnderWay
<1>. QED
  BY <1>1, <1>2, <1>3, <1>4, <1>5, <1>6

(* What has been answered stays as it is.                                  *)
LEMMA AnsweredStays ==
  ASSUME RequestsInv, NEW r \in Requests, Moves(r)
  PROVE  /\ request' = request
         /\ \A q \in Requests : pc[q] = "done" => pc'[q] = "done" /\ result'[q] = result[q]
         /\ \A q \in Requests : result[q] # "none" => result'[q] = result[q]
  BY DEF RequestsInv, Moves, OnItsWay

-----------------------------------------------------------------------------
(* Goals *)

(* The promise about one goal.                                             *)
Tells(v, fine) ==
  /\ v.status = "completed" => v.current >= v.target
  /\ v.status = "active" /\ v.current >= v.target => v.current = v.target /\ fine

LEMMA GoalsStart == Init => GoalsInv
<1> SUFFICES ASSUME Init PROVE GoalsInv
  OBVIOUS
<1>1. PICK s \in SeedRows : goals = [id \in {Seed} |-> s.goal]
  BY DEF Init, GoalsInit
<1>2. s.goal \in Goal /\ (s.goal.status = "completed" <=> s.goal.current >= s.goal.target)
  BY StartAssumption
<1>. QED
  BY <1>1, <1>2 DEF GoalsInv, GoalsTypeOK, StatusTellsTheTruth, Range, Ids

(* What was answered of a goal stays answered.                             *)
LEMMA AnswersOfGoals ==
  ASSUME RequestsInv, NEW r \in Requests, Moves(r), NEW g
  PROVE  (Retargeted(g) => Retargeted(g)') /\ (FinePaid(g) => FinePaid(g)')
<1>1. /\ request' = request
      /\ \A q \in Requests : result[q] = "ok" => result'[q] = "ok"
  BY AnsweredStays
<1>. QED
  BY <1>1 DEF Retargeted, FinePaid, Op

LEMMA GoalsKept ==
  ASSUME RequestsInv, GoalsInv, NEW r \in Requests, Moves(r), goals' = goals
  PROVE  GoalsInv'
<1>1. StatusTellsTheTruth'
  BY AnswersOfGoals DEF GoalsInv, StatusTellsTheTruth
<1>. QED
  BY <1>1, AnsweredStays DEF GoalsInv, GoalsTypeOK, Ids

(* Of a goal a step has set to what is true of it.                         *)
LEMMA GoalSet ==
  ASSUME RequestsInv, GoalsInv, NEW r \in Requests, Moves(r), pc'[r] = "done",
         NEW g \in Ids, g # Seed => g = r \/ pc[g] = "done",
         NEW v \in Goal,
         goals' = [id \in DOMAIN goals \cup {g} |-> IF id = g THEN v ELSE goals[id]],
         ~Retargeted(g)' => Tells(v, FinePaid(g)')
  PROVE  GoalsInv'
<1>1. GoalsTypeOK'
  BY DEF GoalsInv, GoalsTypeOK, Range
<1>2. StatusTellsTheTruth'
  <2> SUFFICES ASSUME NEW h \in DOMAIN goals', ~Retargeted(h)'
               PROVE  Tells(goals'[h], FinePaid(h)')
    BY DEF StatusTellsTheTruth, Tells
  <2>1. CASE h = g
    BY <2>1
  <2>2. CASE h # g
    <3>1. h \in DOMAIN goals /\ goals'[h] = goals[h] /\ ~Retargeted(h)
      BY <2>2, AnswersOfGoals
    <3>2. Tells(goals[h], FinePaid(h))
      BY <3>1 DEF GoalsInv, StatusTellsTheTruth, Tells
    <3>. QED
      BY <3>1, <3>2, AnswersOfGoals DEF Tells
  <2>. QED
    BY <2>1, <2>2
<1>3. \A h \in DOMAIN goals' : h # Seed => pc'[h] = "done"
  BY AnsweredStays DEF GoalsInv, GoalsTypeOK, Ids
<1>. QED
  BY <1>1, <1>2, <1>3 DEF GoalsInv

(* What a step on goals does: nothing, or to one goal.                     *)
LEMMA GoalStepIs ==
  ASSUME RequestsInv, GoalsInv, NEW r \in Requests, GoalStep(r)
  PROVE  \/ goals' = goals
         \/ /\ r \notin DOMAIN goals /\ Op(r) = "goal" /\ Respond(r, "ok")
            /\ \E v \in Goal :
                 /\ v.status # "completed" /\ v.current < v.target
                 /\ goals' = [id \in DOMAIN goals \cup {r} |-> IF id = r THEN v ELSE goals[id]]
         \/ \E g \in DOMAIN goals : \E v \in Goal :
              /\ Respond(r, "ok")
              /\ goals' = [id \in DOMAIN goals \cup {g} |-> IF id = g THEN v ELSE goals[id]]
              /\ request[r].goal = g
              /\ \/ /\ Op(r) = "retarget"
                    /\ v.status = goals[g].status
                 \/ /\ Op(r) = "contribute" /\ request[r].amount \in Nat \ {0}
                    /\ v.target = goals[g].target
                    /\ v.current = Round(goals[g].current + request[r].amount)
                    /\ v.status = NewStatus(goals[g], request[r].amount)
         \/ \E g \in DOMAIN goals : goals' = [id \in DOMAIN goals \ {g} |-> goals[id]]
<1>1. request[r] \in Inputs
  BY DEF RequestsInv
<1>2. pc[r] = "idle" => r \notin DOMAIN goals
  BY DEF GoalsInv
<1>3. \A g \in DOMAIN goals : goals[g] \in Goal
  BY DEF GoalsInv, GoalsTypeOK, Range
<1>4. CASE AddGoal(r) /\ goals' # goals
  <2>1. /\ NewTarget(r) > 0 /\ Op(r) = "goal" /\ pc[r] = "idle" /\ Respond(r, "ok")
        /\ goals' = [id \in DOMAIN goals \cup {r} |->
             IF id = r THEN NewGoal(User(r), NewTarget(r)) ELSE goals[id]]
    BY <1>4 DEF AddGoal, Starts
  <2>2. request[r] \in CreateGoal
    BY <1>1, <2>1, InputTypes DEF Op
  <2> DEFINE v == NewGoal(User(r), NewTarget(r))
  <2>3. NewTarget(r) \in Cents \ {0}
    BY <2>1, <2>2, RoundType DEF CreateGoal, NewTarget
  <2>4. 0 \in Cents
    BY RoundCents, ScaleAssumption DEF Cents
  <2>5. v \in Goal /\ v.status # "completed" /\ v.current < v.target
    BY <2>1, <2>2, <2>3, <2>4 DEF CreateGoal, NewGoal, Goal, User
  <2>. QED
    BY <1>2, <2>1, <2>5
<1>5. CASE Retarget(r) /\ goals' # goals
  <2> DEFINE g == request[r].goal
             v == [goals[g] EXCEPT !.target = NewTarget(r)]
  <2>1. /\ g \in DOMAIN goals /\ Op(r) = "retarget" /\ Respond(r, "ok") /\ NewTarget(r) > 0
        /\ goals' = [goals EXCEPT ![g].target = NewTarget(r)]
    BY <1>5 DEF Retarget, HasGoal, Starts
  <2>2. request[r] \in UpdateGoal
    BY <1>1, <2>1, InputTypes DEF Op
  <2>3. NewTarget(r) \in Cents \ {0}
    BY <2>1, <2>2, RoundType DEF UpdateGoal, NewTarget
  <2>4. v \in Goal /\ v.status = goals[g].status
    BY <1>3, <2>1, <2>3 DEF Goal
  <2>5. goals' = [id \in DOMAIN goals \cup {g} |-> IF id = g THEN v ELSE goals[id]]
    BY <2>1
  <2>. QED
    BY <2>1, <2>4, <2>5
<1>6. CASE Contribute(r) /\ goals' # goals
  <2> DEFINE g == request[r].goal
             n == request[r].amount
             v == [goals[g] EXCEPT !.current = Round(@ + n), !.status = NewStatus(goals[g], n)]
  <2>1. /\ g \in DOMAIN goals /\ Op(r) = "contribute" /\ Respond(r, "ok") /\ n > 0
        /\ goals' = [goals EXCEPT ![g].current = Round(@ + n),
                                  ![g].status = NewStatus(goals[g], n)]
    BY <1>6 DEF Contribute, HasGoal, Starts
  <2>2. request[r] \in Contribution
    BY <1>1, <2>1, InputTypes DEF Op
  <2>3. n \in Nat \ {0} /\ goals[g].current + n \in Nat
    BY <1>3, <2>1, <2>2 DEF Contribution, Goal, Cents
  <2>4. /\ v \in Goal /\ v.target = goals[g].target
        /\ v.current = Round(goals[g].current + n) /\ v.status = NewStatus(goals[g], n)
    BY <1>3, <2>1, <2>3, RoundType DEF Goal, NewStatus
  <2>5. goals' = [id \in DOMAIN goals \cup {g} |-> IF id = g THEN v ELSE goals[id]]
    BY <1>3, <2>1 DEF Goal
  <2>. QED
    BY <2>1, <2>3, <2>4, <2>5
<1>7. CASE DropGoal(r) /\ goals' # goals
  BY <1>7 DEF DropGoal, HasGoal, Restrict
<1>. QED
  BY <1>4, <1>5, <1>6, <1>7 DEF GoalStep

(* The status is decided on the sum, the amount is the sum rounded: the two*)
(* part only where the sum falls short of the target by less than a cent.  *)
LEMMA Contributed ==
  ASSUME NEW old \in Goal, NEW new \in Goal, NEW n \in Nat \ {0}, NEW fine,
         Tells(old, fine),
         new.target = old.target, new.current = Round(old.current + n),
         new.status = NewStatus(old, n)
  PROVE  Tells(new, n \notin Cents)
<1> DEFINE sum == old.current + n
           t == old.target
<1>1. /\ t \in Cents /\ t \in Nat /\ old.current \in Cents /\ old.current \in Nat
      /\ sum \in Nat /\ sum > old.current /\ new.current \in Nat
  BY DEF Goal, Cents
<1>2. (sum >= t => new.current >= t) /\ (sum < t => new.current <= t)
  BY <1>1, RoundBounds
<1>3. n \in Cents => new.current = sum
  BY <1>1, CentsAdd DEF Cents
<1>4. CASE sum >= t
  BY <1>1, <1>2, <1>4 DEF NewStatus, Tells
<1>5. CASE sum < t
  <2>1. new.status = old.status /\ old.current < t
    BY <1>1, <1>5 DEF NewStatus
  <2>2. new.status # "completed"
    BY <1>1, <2>1 DEF Tells
  <2>. QED
    BY <1>1, <1>2, <1>3, <1>5, <2>2 DEF Tells
<1>. QED
  BY <1>1, <1>4, <1>5

LEMMA GoalsStep ==
  ASSUME RequestsInv, GoalsInv, NEW r \in Requests, GoalStep(r)
  PROVE  GoalsInv'
<1>1. Moves(r)
  BY StepMoves
<1>2. pc'[r] = "done" /\ (Respond(r, "ok") => result'[r] = "ok")
  BY DEF GoalStep, AddGoal, Retarget, Contribute, DropGoal, Respond, RequestsInv
<1>3. CASE goals' = goals
  BY <1>1, <1>3, GoalsKept
<1>4. CASE /\ r \notin DOMAIN goals
           /\ \E v \in Goal :
                /\ v.status # "completed" /\ v.current < v.target
                /\ goals' = [id \in DOMAIN goals \cup {r} |-> IF id = r THEN v ELSE goals[id]]
  <2>1. PICK v \in Goal :
          /\ v.status # "completed" /\ v.current < v.target
          /\ goals' = [id \in DOMAIN goals \cup {r} |-> IF id = r THEN v ELSE goals[id]]
    BY <1>4
  <2>2. Tells(v, FinePaid(r)')
    BY <2>1 DEF Goal, Cents, Tells
  <2>. QED
    BY <1>1, <1>2, <2>1, <2>2, GoalSet DEF Ids
<1>5. ASSUME NEW g \in DOMAIN goals, Respond(r, "ok")
      PROVE  /\ g \in Ids /\ (g # Seed => pc[g] = "done") /\ goals[g] \in Goal
             /\ ~Retargeted(g) => Tells(goals[g], FinePaid(g))
             /\ result'[r] = "ok" /\ request' = request
  BY <1>1, <1>2, <1>5, AnsweredStays
     DEF GoalsInv, GoalsTypeOK, StatusTellsTheTruth, Tells, Range
<1>6. ASSUME NEW g \in DOMAIN goals, NEW v \in Goal, Respond(r, "ok"),
             goals' = [id \in DOMAIN goals \cup {g} |-> IF id = g THEN v ELSE goals[id]],
             Op(r) = "retarget" /\ request[r].goal = g
      PROVE  GoalsInv'
  <2>1. Retargeted(g)'
    BY <1>5, <1>6 DEF Retargeted, Op
  <2>. QED
    BY <1>1, <1>2, <1>5, <1>6, <2>1, GoalSet
<1>7. ASSUME NEW g \in DOMAIN goals, NEW v \in Goal, Respond(r, "ok"),
             goals' = [id \in DOMAIN goals \cup {g} |-> IF id = g THEN v ELSE goals[id]],
             Op(r) = "contribute" /\ request[r].goal = g /\ request[r].amount \in Nat \ {0},
             v.target = goals[g].target,
             v.current = Round(goals[g].current + request[r].amount),
             v.status = NewStatus(goals[g], request[r].amount)
      PROVE  GoalsInv'
  <2>1. ASSUME ~Retargeted(g)'
        PROVE  Tells(v, FinePaid(g)')
    <3>1. Tells(goals[g], FinePaid(g))
      BY <1>1, <1>5, <1>7, <2>1, AnswersOfGoals
    <3>2. Tells(v, request[r].amount \notin Cents)
      BY <1>5, <1>7, <3>1, Contributed
    <3>3. request[r].amount \notin Cents => FinePaid(g)'
      BY <1>5, <1>7 DEF FinePaid, Op
    <3>. QED
      BY <3>2, <3>3 DEF Tells
  <2>. QED
    BY <1>1, <1>2, <1>5, <1>7, <2>1, GoalSet
<1>8. ASSUME NEW g \in DOMAIN goals, goals' = [id \in DOMAIN goals \ {g} |-> goals[id]]
      PROVE  GoalsInv'
  <2>1. GoalsTypeOK' /\ \A h \in DOMAIN goals' : h # Seed => pc'[h] = "done"
    BY <1>1, <1>8, AnsweredStays DEF GoalsInv, GoalsTypeOK, Range, Ids
  <2>2. StatusTellsTheTruth'
    BY <1>1, <1>8, AnswersOfGoals DEF GoalsInv, StatusTellsTheTruth
  <2>. QED
    BY <2>1, <2>2 DEF GoalsInv
<1>. QED
  BY <1>3, <1>4, <1>6, <1>7, <1>8, GoalStepIs

LEMMA GoalsNext == RequestsInv /\ GoalsInv /\ [Next]_planning => GoalsInv'
<1> SUFFICES ASSUME RequestsInv, GoalsInv, [Next]_planning PROVE GoalsInv'
  OBVIOUS
<1>1. ASSUME NEW r \in Requests, CategoryStep(r) \/ EditStep(r) \/ BudgetStep(r) \/ SummaryStep(r)
                                 \/ Cancel(r),
             goals' = goals
      PROVE  GoalsInv'
  BY <1>1, StepMoves, GoalsKept
<1>2. CASE UNCHANGED planning
  BY <1>2 DEF planning, api, GoalsInv, GoalsTypeOK, StatusTellsTheTruth, Retargeted, FinePaid,
     Op, Ids
<1>. QED
  BY <1>1, <1>2, GoalsStep DEF Next, Quiescent

LEMMA GoalsAlways == Spec => [](RequestsInv /\ GoalsInv)
  BY RequestsInit, RequestsNext, GoalsStart, GoalsNext, PTL DEF Spec

(* StatusTellsTheTruth: contributions in whatever order, each from what the*)
(* row holds at its UPDATE and however fine, complete no goal that has not *)
(* its money, and leave none active that has it but where one of them that *)
(* was finer than a cent was rounded up to the target; an Update that moves*)
(* the target exempts its goal.                                            *)
THEOREM GoalsTellTheTruth == Spec => []StatusTellsTheTruth
<1>1. GoalsInv => StatusTellsTheTruth
  BY DEF GoalsInv
<1>. QED
  BY <1>1, GoalsAlways, PTL

(* CompletionSticks: no Contribute and no Update takes a goal's completion *)
(* back, and no request inserts a goal again that is there.                *)
THEOREM CompletionsStick == Spec => CompletionSticks
<1> DEFINE Sticks ==
      \A g \in DOMAIN goals \cap DOMAIN goals' :
        goals[g].status = "completed" => goals'[g].status = "completed"
<1>1. ASSUME RequestsInv, GoalsInv, NEW r \in Requests, GoalStep(r)
      PROVE  Sticks
  <2>1. \A g \in DOMAIN goals : goals[g] \in Goal
    BY <1>1 DEF GoalsInv, GoalsTypeOK, Range
  <2>2. ASSUME NEW g \in DOMAIN goals, NEW v \in Goal, goals[g].status = "completed",
               v.status = goals[g].status \/ v.status = NewStatus(goals[g], request[r].amount)
        PROVE  v.status = "completed"
    BY <2>2 DEF NewStatus
  <2>. QED
    BY <1>1, <2>1, <2>2, GoalStepIs
<1>2. ASSUME RequestsInv, GoalsInv, [Next]_planning
      PROVE  goals' = goals \/ Sticks
  BY <1>1, <1>2 DEF Next, Quiescent, planning
<1>3. RequestsInv /\ GoalsInv /\ [Next]_planning => [Sticks]_goals
  BY <1>2
<1>. QED
  BY <1>3, GoalsAlways, PTL DEF Spec, CompletionSticks

-----------------------------------------------------------------------------
(* Categories and the transactions filed under them *)

FilingInv == CategoriesInv /\ EditsInv

(* Rows of the table of categories stay.                                   *)
CategoriesGrow ==
  /\ DOMAIN categories \subseteq DOMAIN categories'
  /\ \A c \in DOMAIN categories : categories'[c] = categories[c]

(* What a request looks for, has found and has loaded is its own.          *)
OthersKeep(r) ==
  \A q \in Requests \ {r} :
    wanted'[q] = wanted[q] /\ category'[q] = category[q] /\ read'[q] = read[q]

LEMMA CategoriesKept ==
  ASSUME RequestsInv, CategoriesInv, NEW r \in Requests, Moves(r), OthersKeep(r),
         categories' = categories,
         wanted' \in [Requests -> [name : Names, type : {"income", "expense"}] \cup {None}],
         category' \in [Requests -> Ids \cup {None}],
         CategoryAt(r)'
  PROVE  CategoriesInv'
<1>1. \A q \in Requests : CategoryAt(q)'
  BY DEF CategoriesInv, CategoryAt, Seeking, HasCategory, TypeSought, Op, User, Moves, OthersKeep
<1>2. CategoriesTypeOK'
  BY <1>1 DEF CategoriesInv, CategoriesTypeOK, CategoryAt
<1>3. NamedOnce'
  BY DEF CategoriesInv, NamedOnce, Visible
<1>. QED
  BY <1>1, <1>2, <1>3 DEF CategoriesInv

(* The INSERT of a category: its user saw none like it, its own because of *)
(* the unique constraint, a default one because there is none.             *)
LEMMA CategoriesAdd ==
  ASSUME RequestsInv, CategoriesInv, NEW r \in Requests, Moves(r), OthersKeep(r),
         pc[r] = "addCategory", ~Taken(r), wanted' = wanted,
         categories' = [id \in DOMAIN categories \cup {r} |->
           IF id = r
           THEN [owner |-> User(r), name |-> wanted[r].name, type |-> wanted[r].type]
           ELSE categories[id]],
         category' \in [Requests -> Ids \cup {None}],
         CategoryAt(r)'
  PROVE  CategoriesInv'
<1>1. Seeking(r) /\ r \notin DOMAIN categories /\ User(r) \in Users
  BY InputTypes DEF CategoriesInv, CategoryAt, RequestsInv, User
<1>2. ASSUME NEW q \in Requests, q # r
      PROVE  CategoryAt(q)'
  <2>1. CategoryAt(q)
    BY DEF CategoriesInv
  <2>2. Seeking(q) => Seeking(q)'
    BY <1>1, <1>2 DEF Seeking, TypeSought, Op, Moves, OthersKeep
  <2>3. HasCategory(q) => HasCategory(q)'
    BY <1>1, <1>2 DEF HasCategory, TypeSought, Op, User, Moves, OthersKeep
  <2>. QED
    BY <1>2, <2>1, <2>2, <2>3 DEF CategoryAt, Moves, OthersKeep
<1>3. CategoriesTypeOK'
  <2>1. [owner |-> User(r), name |-> wanted[r].name, type |-> wanted[r].type] \in Category
    BY <1>1 DEF Seeking, Category
  <2>2. Range(categories') \subseteq Category
    BY <2>1 DEF CategoriesInv, CategoriesTypeOK, Range
  <2>3. DOMAIN categories' \subseteq Ids
    BY DEF CategoriesInv, CategoriesTypeOK, Ids
  <2>4. \A q \in Requests : category'[q] \in DOMAIN categories' \cup {None}
    BY <1>2 DEF CategoryAt
  <2>. QED
    BY <2>2, <2>3, <2>4 DEF CategoriesInv, CategoriesTypeOK
<1>4. NamedOnce'
  <2>1. ASSUME NEW u \in Users, NEW c \in DOMAIN categories,
               categories[c].owner \in {u, Global}, u = User(r)
        PROVE  ~(categories[c].name = wanted[r].name /\ categories[c].type = wanted[r].type)
    BY <1>1, <2>1 DEF Taken, Matching, Visible, Seeking
  <2>. QED
    BY <1>1, <2>1 DEF CategoriesInv, NamedOnce, Visible
<1>. QED
  BY <1>2, <1>3, <1>4 DEF CategoriesInv

(* A transaction that was inserted is not inserted again.                  *)
LEMMA InsertedStays ==
  ASSUME RequestsInv, NEW r \in Requests, Moves(r), pc[r] = "enrich" => pc'[r] = "done",
         NEW t, Inserted(t)
  PROVE  Inserted(t)'
  BY DEF Inserted, Moves, Op

(* What a step that changes no transaction's owner or kind, and inserts    *)
(* none, does to what edits have loaded.                                   *)
LEMMA LoadedKept ==
  ASSUME RequestsInv, NEW r \in Requests, Moves(r), pc[r] = "enrich" => pc'[r] = "done",
         \A t \in DOMAIN txns' :
           t \in DOMAIN txns /\ txns'[t].user = txns[t].user /\ txns'[t].kind = txns[t].kind,
         NEW q \in Requests, Loaded(q), read'[q] = read[q]
  PROVE  Loaded(q)'
  BY InsertedStays DEF Loaded, Moves, User

(* A step that inserts no transaction and no link but of what is there.    *)
LEMMA EditsKept ==
  ASSUME RequestsInv, EditsInv, NEW r \in Requests, Moves(r), OthersKeep(r), CategoriesGrow,
         pc[r] = "enrich" => pc'[r] = "done",
         EditsTypeOK',
         \A t \in DOMAIN txns' :
           t \in DOMAIN txns /\ txns'[t].user = txns[t].user /\ txns'[t].kind = txns[t].kind,
         links' \subseteq links,
         EditAt(r)'
  PROVE  EditsInv'
<1>1. \A t \in DOMAIN txns' : Inserted(t)'
  BY InsertedStays DEF EditsInv
<1>2. ASSUME NEW q \in Requests, q # r
      PROVE  EditAt(q)'
  <2>1. EditAt(q)
    BY DEF EditsInv
  <2>2. read'[q] = read[q] /\ pc'[q] = pc[q] /\ Op(q)' = Op(q)
    BY <1>2 DEF Moves, OthersKeep, Op
  <2>3. Loaded(q) => Loaded(q)'
    BY <2>2, LoadedKept
  <2>. QED
    BY <2>1, <2>2, <2>3 DEF EditAt
<1>3. IsFiniteSet(links')
  BY FS_Subset DEF EditsInv
<1>4. FiledRight'
  BY DEF EditsInv, FiledRight, EditsTypeOK, Visible, CategoriesGrow
<1>. QED
  BY <1>1, <1>2, <1>3, <1>4 DEF EditsInv

LEMMA EditsTypeKept ==
  ASSUME EditsTypeOK, CategoriesGrow, UNCHANGED editVars
  PROVE  EditsTypeOK'
  BY DEF EditsTypeOK, CategoriesGrow, editVars, Ids

(* What an edit that goes on to another statement still has loaded.        *)
LEMMA EditGoesOn ==
  ASSUME RequestsInv, EditsInv, NEW r \in Requests, Moves(r), UNCHANGED editVars,
         pc[r] = "enrich" => pc'[r] = "done",
         Op(r) = "edit" => pc[r] \in {"update", "find", "addCategory", "clear", "link"},
         pc[r] = "update" /\ pc'[r] # "enrich" => read[r].kind # "transfer"
  PROVE  EditAt(r)'
<1>1. EditAt(r) /\ MayBeAt(Op(r), pc[r]) /\ Op(r)' = Op(r)
  BY DEF EditsInv, RequestsInv, OnItsWay, Moves, Op
<1>2. Loaded(r) => Loaded(r)'
  BY LoadedKept DEF editVars
<1>. QED
  BY <1>1, <1>2 DEF EditAt, MayBeAt, editVars

(* FindOrCreate returns a category of the type that was sought.            *)
LEMMA FoundFits ==
  ASSUME RequestsInv, FilingInv, NEW r \in Requests, NEW c, Found(r, c),
         pc[r] \in {"find", "addCategory"},
         c \in DOMAIN categories', categories'[c].owner \in {User(r), Global},
         categories'[c].type = wanted[r].type,
         UNCHANGED <<wanted, read>>,
         r \in DOMAIN categories' => pc[r] = "addCategory"
  PROVE  /\ CategoryAt(r)'
         /\ \A q \in Requests \ {r} : category'[q] = category[q]
         /\ category' = [category EXCEPT ![r] = c]
<1>1. Seeking(r) /\ MayBeAt(Op(r), pc[r])
  BY DEF FilingInv, CategoriesInv, CategoryAt, RequestsInv, OnItsWay
<1>2. request' = request /\ pc'[r] = Then[Op(r)] /\ category'[r] = c
  BY DEF Found, Goto, RequestsInv, FilingInv, CategoriesInv
<1>3. HasCategory(r)'
  BY <1>1, <1>2 DEF HasCategory, Seeking, TypeSought, Op, User
<1>4. pc'[r] \in {"post", "clear", "addBudget", "moveBudget"}
  BY <1>1, <1>2, ThenIs DEF MayBeAt
<1>5. pc'[r] = "post" => request[r].kind # "transfer"
  <2>1. pc'[r] = "post" => Op(r) = "create"
    BY <1>1, <1>2, ThenIs DEF MayBeAt
  <2>. QED
    BY <1>1, <2>1 DEF Seeking, TypeSought
<1>6. CategoryAt(r)'
  BY <1>2, <1>3, <1>4, <1>5 DEF CategoryAt, HasCategory
<1>. QED
  BY <1>6 DEF Found, FilingInv, CategoriesInv

LEMMA FilingCategory ==
  ASSUME RequestsInv, FilingInv, NEW r \in Requests, CategoryStep(r), UNCHANGED editVars
  PROVE  FilingInv'
<1>1. Moves(r)
  BY StepMoves
<1>2. /\ pc[r] \in {"find", "addCategory"} /\ wanted' = wanted /\ Seeking(r)
      /\ r \notin DOMAIN categories /\ pc[r] # "enrich" /\ MayBeAt(Op(r), pc[r])
  BY DEF CategoryStep, FindCategory, AddCategory, FilingInv, CategoriesInv, CategoryAt,
     RequestsInv, OnItsWay
<1>3. ASSUME OthersKeep(r), CategoriesGrow
      PROVE  EditsInv'
  <2>1. EditAt(r)'
    BY <1>1, <1>2, EditGoesOn DEF FilingInv
  <2>2. EditsTypeOK'
    BY <1>3, EditsTypeKept DEF FilingInv, EditsInv
  <2>3. EditsInv
    BY DEF FilingInv
  <2>. QED
    BY <1>1, <1>2, <1>3, <2>1, <2>2, <2>3, EditsKept DEF editVars
<1>4. CASE FindCategory(r)
  <2>1. categories' = categories /\ CategoriesGrow
    BY <1>4 DEF FindCategory, CategoriesGrow
  <2>2. ASSUME NEW c \in Preferred(r), Found(r, c)
        PROVE  FilingInv'
    <3>1. /\ c \in DOMAIN categories /\ categories[c].owner \in {User(r), Global}
          /\ categories[c].type = wanted[r].type
      BY DEF Preferred, Matching, Visible
    <3>2. /\ CategoryAt(r)' /\ OthersKeep(r)
          /\ category' = [category EXCEPT ![r] = c]
      BY <1>2, <2>1, <2>2, <3>1, FoundFits DEF editVars, OthersKeep
    <3>3. category' \in [Requests -> Ids \cup {None}]
      BY <3>1, <3>2 DEF FilingInv, CategoriesInv, CategoriesTypeOK
    <3>4. CategoriesInv'
      BY <1>1, <1>2, <2>1, <3>2, <3>3, CategoriesKept
         DEF FilingInv, CategoriesInv, CategoriesTypeOK
    <3>. QED
      BY <1>3, <2>1, <3>2, <3>4 DEF FilingInv
  <2>3. CASE Matching(r) = {} /\ Goto(r, "addCategory") /\ UNCHANGED category
    <3>1. OthersKeep(r) /\ pc'[r] = "addCategory"
      BY <1>2, <2>3 DEF OthersKeep, editVars, Goto, RequestsInv
    <3>2. Seeking(r)'
      BY <1>1, <1>2, <2>1, <2>3 DEF Seeking, Matching, Visible, TypeSought, Op, Moves, editVars
    <3>3. CategoryAt(r)'
      BY <1>2, <2>1, <2>3, <3>1, <3>2 DEF CategoryAt, FilingInv, CategoriesInv
    <3>4. CategoriesInv'
      BY <1>1, <1>2, <2>1, <2>3, <3>1, <3>3, CategoriesKept
         DEF FilingInv, CategoriesInv, CategoriesTypeOK
    <3>. QED
      BY <1>3, <2>1, <3>1, <3>4 DEF FilingInv
  <2>. QED
    BY <1>4, <2>2, <2>3 DEF FindCategory
<1>5. CASE AddCategory(r)
  <2>1. CASE Respond(r, "error") /\ UNCHANGED <<categories, category>>
    <3>1. OthersKeep(r) /\ CategoriesGrow /\ pc'[r] = "done"
      BY <1>2, <2>1 DEF OthersKeep, CategoriesGrow, editVars, Respond, RequestsInv
    <3>2. CategoryAt(r)'
      BY <2>1, <3>1 DEF CategoryAt, FilingInv, CategoriesInv
    <3>3. CategoriesInv'
      BY <1>1, <1>2, <2>1, <3>1, <3>2, CategoriesKept
         DEF FilingInv, CategoriesInv, CategoriesTypeOK
    <3>. QED
      BY <1>3, <3>1, <3>3 DEF FilingInv
  <2>2. CASE /\ ~Taken(r) /\ Found(r, r) /\ pc[r] = "addCategory"
             /\ categories' = [id \in DOMAIN categories \cup {r} |->
                  IF id = r
                  THEN [owner |-> User(r), name |-> wanted[r].name, type |-> wanted[r].type]
                  ELSE categories[id]]
    <3>1. /\ r \in DOMAIN categories' /\ categories'[r].owner = User(r)
          /\ categories'[r].type = wanted[r].type
      BY <2>2
    <3>2. /\ CategoryAt(r)' /\ OthersKeep(r)
          /\ category' = [category EXCEPT ![r] = r]
      BY <1>2, <2>2, <3>1, FoundFits DEF editVars, OthersKeep
    <3>3. category' \in [Requests -> Ids \cup {None}]
      BY <3>2 DEF FilingInv, CategoriesInv, Ids
    <3>4. CategoriesInv'
      BY <1>1, <1>2, <2>2, <3>2, <3>3, CategoriesAdd DEF FilingInv
    <3>5. CategoriesGrow
      BY <1>2, <2>2 DEF CategoriesGrow
    <3>. QED
      BY <1>3, <3>2, <3>4, <3>5 DEF FilingInv
  <2>. QED
    BY <1>5, <2>1, <2>2 DEF AddCategory
<1>. QED
  BY <1>4, <1>5 DEF CategoryStep

LEMMA CategoriesStill ==
  ASSUME RequestsInv, CategoriesInv, NEW r \in Requests, Moves(r), UNCHANGED categoryVars,
         \A q \in Requests \ {r} : read'[q] = read[q], CategoryAt(r)'
  PROVE  CategoriesInv' /\ OthersKeep(r) /\ CategoriesGrow
<1>1. OthersKeep(r) /\ CategoriesGrow
  BY DEF OthersKeep, CategoriesGrow, categoryVars
<1>2. CategoriesInv'
  BY <1>1, CategoriesKept DEF categoryVars, CategoriesInv, CategoriesTypeOK
<1>. QED
  BY <1>1, <1>2

(* A request that leaves its category behind, or needs none.               *)
LEMMA CategoryBehind ==
  ASSUME RequestsInv, CategoriesInv, NEW r \in Requests, Moves(r), UNCHANGED categoryVars,
         \A q \in Requests \ {r} : read'[q] = read[q],
         \/ pc'[r] \in {"enrich", "stats", "monthly", "done"}
         \/ pc'[r] = "update" /\ pc[r] = "idle"
         \/ pc'[r] = "post" /\ pc[r] = "idle" /\ request[r].kind = "transfer"
         \/ pc'[r] = "link" /\ pc[r] = "clear" /\ read'[r] = read[r]
  PROVE  CategoriesInv' /\ OthersKeep(r) /\ CategoriesGrow
<1>1. CategoryAt(r) /\ request' = request
  BY DEF CategoriesInv, Moves
<1>2. CategoryAt(r)'
  BY <1>1 DEF CategoryAt, HasCategory, TypeSought, Op, User, categoryVars
<1>. QED
  BY <1>2, CategoriesStill

LEMMA LookFits ==
  ASSUME RequestsInv, CategoriesInv, NEW r \in Requests,
         NEW name \in Names, NEW type \in {"income", "expense"}, Look(r, name, type),
         UNCHANGED read, type = TypeSought(r), pc[r] \in {"idle", "update"}
  PROVE  CategoriesInv' /\ OthersKeep(r) /\ CategoriesGrow /\ pc'[r] = "find"
<1>1. Moves(r)
  BY GotoMoves
<1>2. /\ wanted' = [wanted EXCEPT ![r] = [name |-> name, type |-> type]]
      /\ pc'[r] = "find" /\ UNCHANGED <<categories, category, request>>
  BY DEF Look, Goto, RequestsInv
<1>3. OthersKeep(r) /\ CategoriesGrow
  BY <1>2 DEF OthersKeep, CategoriesGrow, CategoriesInv, CategoriesTypeOK
<1>4. Seeking(r)'
  BY <1>2 DEF Seeking, TypeSought, Op, CategoriesInv, CategoriesTypeOK
<1>5. CategoryAt(r)'
  BY <1>2, <1>4 DEF CategoriesInv, CategoryAt
<1>6. CategoriesInv'
  BY <1>1, <1>2, <1>3, <1>5, CategoriesKept DEF CategoriesInv, CategoriesTypeOK
<1>. QED
  BY <1>2, <1>3, <1>6

(* A step of a request that changes no transaction and ends its work on    *)
(* categories, or begins it.                                               *)
LEMMA FilingStill ==
  ASSUME RequestsInv, FilingInv, NEW r \in Requests, Moves(r), UNCHANGED editVars,
         CategoriesInv', OthersKeep(r), CategoriesGrow,
         pc[r] = "enrich" => pc'[r] = "done",
         Op(r) = "edit" => pc[r] # "idle",
         pc[r] = "update" /\ pc'[r] # "enrich" => read[r].kind # "transfer"
  PROVE  FilingInv'
<1>1. EditAt(r) /\ MayBeAt(Op(r), pc[r]) /\ Op(r)' = Op(r)
  BY DEF FilingInv, EditsInv, RequestsInv, OnItsWay, Moves, Op
<1>2. Loaded(r) => Loaded(r)'
  BY LoadedKept DEF editVars
<1>3. pc[r] \in {"enrich", "done"} => pc'[r] = "done"
  BY DEF Moves
<1>4. EditAt(r)'
  <2>1. CASE Op(r) = "edit" /\ pc[r] \in {"update", "find", "addCategory", "clear", "link"}
    BY <1>1, <1>2, <2>1 DEF EditAt, editVars
  <2>2. CASE Op(r) = "edit" /\ pc[r] \in {"enrich", "done"}
    BY <1>1, <1>3, <2>2 DEF EditAt
  <2>3. CASE Op(r) # "edit"
    BY <1>1, <2>3 DEF EditAt
  <2>4. Op(r) = "edit" => pc[r] \in {"update", "find", "addCategory", "clear", "link", "enrich", "done"}
    BY <1>1 DEF MayBeAt, RequestsInv, Steps
  <2>. QED
    BY <2>1, <2>2, <2>3, <2>4
<1>5. EditsTypeOK'
  BY EditsTypeKept DEF FilingInv, EditsInv
<1>6. EditsInv'
  BY <1>4, <1>5, EditsKept DEF FilingInv, editVars
<1>. QED
  BY <1>6 DEF FilingInv

LEMMA FilingCreate ==
  ASSUME RequestsInv, FilingInv, NEW r \in Requests, BeginCreate(r)
  PROVE  FilingInv'
<1>1. Moves(r)
  BY StepMoves DEF EditStep
<1>2. pc[r] = "idle" /\ Op(r) = "create" /\ UNCHANGED editVars /\ request[r] \in CreateTransaction
  BY InputTypes DEF BeginCreate, Starts, RequestsInv, Op
<1>3. CASE (\E res : Respond(r, res)) /\ UNCHANGED categoryVars
  <2>1. pc'[r] = "done"
    BY <1>3 DEF Respond, RequestsInv
  <2>. QED
    BY <1>1, <1>2, <1>3, <2>1, CategoryBehind, FilingStill DEF FilingInv, editVars
<1>4. CASE request[r].kind = "transfer" /\ Goto(r, "post") /\ UNCHANGED categoryVars
  <2>1. pc'[r] = "post"
    BY <1>4 DEF Goto, RequestsInv
  <2>. QED
    BY <1>1, <1>2, <1>4, <2>1, CategoryBehind, FilingStill DEF FilingInv, editVars
<1>5. CASE request[r].kind # "transfer" /\ Look(r, request[r].category, request[r].kind)
  <2>1. request[r].category \in Names /\ request[r].kind \in {"income", "expense"}
    BY <1>2, <1>5 DEF CreateTransaction
  <2>2. CategoriesInv' /\ OthersKeep(r) /\ CategoriesGrow
    BY <1>2, <1>5, <2>1, LookFits DEF FilingInv, TypeSought, editVars
  <2>. QED
    BY <1>1, <1>2, <2>2, FilingStill
<1>. QED
  BY <1>3, <1>4, <1>5 DEF BeginCreate

(* The new transaction has the kind its category was sought for.           *)
LEMMA FilingPost ==
  ASSUME RequestsInv, FilingInv, NEW r \in Requests, Post(r)
  PROVE  FilingInv'
<1>1. Moves(r) /\ pc[r] = "post" /\ Op(r) = "create" /\ UNCHANGED <<categoryVars, read>>
  BY StepMoves DEF EditStep, Post, RequestsInv, OnItsWay, MayBeAt
<1>2. CASE Respond(r, "refused") /\ UNCHANGED <<txns, links>>
  <2>1. pc'[r] = "done"
    BY <1>2 DEF Respond, RequestsInv
  <2>. QED
    BY <1>1, <1>2, <2>1, CategoryBehind, FilingStill DEF FilingInv, editVars
<1>3. CASE Goto(r, "enrich") /\ txns' # txns
  <2> DEFINE row == [user |-> User(r), kind |-> request[r].kind, month |-> request[r].month,
                     note |-> request[r].note, amount |-> Round(request[r].amount)]
  <2>1. /\ txns' = [id \in DOMAIN txns \cup {r} |-> IF id = r THEN row ELSE txns[id]]
        /\ links' = links \cup ({r} \X ({category[r]} \ {None}))
    BY <1>3 DEF Post
  <2>2. pc'[r] = "enrich" /\ request' = request
    BY <1>3 DEF Goto, RequestsInv
  <2>3. CategoriesInv' /\ OthersKeep(r) /\ CategoriesGrow
    BY <1>1, <2>2, CategoryBehind DEF FilingInv
  <2>4. request[r] \in CreateTransaction /\ r \in Ids /\ row \in Transaction
    <3>1. request[r] \in CreateTransaction /\ r \in Ids
      BY <1>1, InputTypes DEF RequestsInv, Op, Ids
    <3>2. Round(request[r].amount) \in Nat
      BY <3>1, RoundType DEF CreateTransaction, Cents
    <3>. QED
      BY <3>1, <3>2 DEF CreateTransaction, Transaction, User
  <2>5. r \notin DOMAIN txns /\ ~Inserted(r)
    BY <1>1 DEF FilingInv, EditsInv, Inserted
  <2>6. CategoryAt(r)
    BY DEF FilingInv, CategoriesInv
  <2>7. ASSUME NEW l \in links', l \notin links
        PROVE  /\ l = <<r, category[r]>> /\ l[1] = r /\ l[2] = category[r]
               /\ category[r] \in DOMAIN categories
               /\ categories[category[r]].owner \in {User(r), Global}
               /\ categories[category[r]].type = row.kind
    <3>1. l = <<r, category[r]>> /\ category[r] # None
      BY <2>1, <2>7
    <3>. QED
      BY <1>1, <2>6, <3>1 DEF CategoryAt, HasCategory, TypeSought
  <2>8. EditsTypeOK'
    <3>1. DOMAIN txns' \subseteq Ids /\ Range(txns') \subseteq Transaction
      BY <2>1, <2>4 DEF FilingInv, EditsInv, EditsTypeOK, Range
    <3>2. links' \subseteq (DOMAIN txns') \X (DOMAIN categories')
      BY <1>1, <2>1, <2>7 DEF FilingInv, EditsInv, EditsTypeOK, categoryVars
    <3>. QED
      BY <1>1, <3>1, <3>2 DEF FilingInv, EditsInv, EditsTypeOK
  <2>9. \A t \in DOMAIN txns' : Inserted(t)'
    <3>1. Inserted(r)'
      BY <1>1, <2>2 DEF Inserted, Op
    <3>. QED
      BY <1>1, <2>1, <3>1, InsertedStays DEF FilingInv, EditsInv
  <2>10. FiledRight'
    <3>1. ASSUME NEW l \in links
          PROVE  /\ l[1] \in DOMAIN txns' /\ txns'[l[1]] = txns[l[1]]
                 /\ l[2] \in Visible(txns[l[1]].user)
                 /\ categories[l[2]].type = txns[l[1]].kind
      BY <2>1, <2>5 DEF FilingInv, EditsInv, FiledRight
    <3>2. txns'[r] = row /\ r \in DOMAIN txns'
      BY <2>1
    <3>. QED
      BY <1>1, <2>7, <3>1, <3>2 DEF FiledRight, Visible, categoryVars
  <2>11. IsFiniteSet(links')
    <3>1. links' = links \/ links' = links \cup {<<r, category[r]>>}
      BY <2>1
    <3>. QED
      BY <3>1, FS_AddElement DEF FilingInv, EditsInv
  <2>12. ASSUME NEW q \in Requests
         PROVE  EditAt(q)'
    <3>1. CASE q = r
      BY <1>1, <2>2, <3>1 DEF EditAt, Op
    <3>2. CASE q # r
      <4>1. EditAt(q) /\ pc'[q] = pc[q] /\ read'[q] = read[q] /\ Op(q)' = Op(q)
        BY <1>1, <3>2 DEF FilingInv, EditsInv, Moves, Op
      <4>2. Loaded(q) => Loaded(q)'
        BY <1>1, <2>1, <2>2, <2>5, <4>1, InsertedStays DEF Loaded, User
      <4>. QED
        BY <4>1, <4>2 DEF EditAt
    <3>. QED
      BY <3>1, <3>2
  <2>. QED
    BY <2>3, <2>8, <2>9, <2>10, <2>11, <2>12 DEF FilingInv, EditsInv
<1>4. CASE Goto(r, "enrich") /\ txns' = txns
  <2>1. r \in DOMAIN txns
    BY <1>4 DEF Post, Respond, Goto, RequestsInv
  <2>2. ~Inserted(r)
    BY <1>1 DEF Inserted
  <2>. QED
    BY <2>1, <2>2 DEF FilingInv, EditsInv
<1>. QED
  BY <1>2, <1>3, <1>4 DEF Post

LEMMA FilingDelete ==
  ASSUME RequestsInv, FilingInv, NEW r \in Requests, Delete(r)
  PROVE  FilingInv'
<1>1. /\ Moves(r) /\ pc[r] = "idle" /\ Op(r) = "delete" /\ pc'[r] = "done"
      /\ UNCHANGED <<categoryVars, read>>
  BY StepMoves DEF EditStep, Delete, Starts, Respond, RequestsInv
<1>2. CategoriesInv' /\ OthersKeep(r) /\ CategoriesGrow
  BY <1>1, CategoryBehind DEF FilingInv
<1>3. CASE UNCHANGED <<txns, links>>
  BY <1>1, <1>2, <1>3, FilingStill DEF editVars
<1>4. CASE /\ txns' = Restrict(txns, DOMAIN txns \ {request[r].txn})
           /\ links' = {l \in links : l[1] # request[r].txn}
  <2>1. \A t \in DOMAIN txns' : t \in DOMAIN txns /\ txns'[t] = txns[t]
    BY <1>4 DEF Restrict
  <2>2. EditsTypeOK'
    BY <1>1, <1>4, <2>1 DEF FilingInv, EditsInv, EditsTypeOK, Range, Restrict, categoryVars, Ids
  <2>3. EditAt(r)'
    BY <1>1 DEF EditAt, Moves, Op
  <2>. QED
    BY <1>1, <1>2, <1>4, <2>1, <2>2, <2>3, EditsKept DEF FilingInv
<1>. QED
  BY <1>3, <1>4 DEF Delete

LEMMA FilingBeginEdit ==
  ASSUME RequestsInv, FilingInv, NEW r \in Requests, BeginEdit(r)
  PROVE  FilingInv'
<1>1. /\ Moves(r) /\ pc[r] = "idle" /\ Op(r) = "edit"
      /\ UNCHANGED <<categoryVars, txns, links>>
  BY StepMoves DEF EditStep, BeginEdit, Starts
<1>2. request[r] \in Edit /\ Op(r)' = Op(r)
  BY <1>1, InputTypes DEF RequestsInv, Op, Moves
<1>3. \A q \in Requests \ {r} : read'[q] = read[q]
  BY DEF BeginEdit, FilingInv, EditsInv, EditsTypeOK
<1>4. CASE Respond(r, "notFound") /\ UNCHANGED read
  <2>1. pc'[r] = "done"
    BY <1>4 DEF Respond, RequestsInv
  <2>2. CategoriesInv' /\ OthersKeep(r) /\ CategoriesGrow
    BY <1>1, <1>3, <2>1, CategoryBehind DEF FilingInv
  <2>3. EditAt(r)'
    BY <2>1 DEF EditAt
  <2>4. EditsTypeOK'
    BY <1>1, <1>4, <2>2, EditsTypeKept DEF FilingInv, EditsInv, editVars
  <2>. QED
    BY <1>1, <2>1, <2>2, <2>3, <2>4, EditsKept DEF FilingInv
<1>5. CASE /\ Owns(r, request[r].txn)
           /\ read' = [read EXCEPT ![r] = txns[request[r].txn]]
           /\ Goto(r, IF AsksNothing(r) THEN "enrich" ELSE "update")
  <2>1. pc'[r] \in {"enrich", "update"}
    BY <1>5 DEF Goto, RequestsInv
  <2>2. CategoriesInv' /\ OthersKeep(r) /\ CategoriesGrow
    BY <1>1, <1>3, <2>1, CategoryBehind DEF FilingInv
  <2>3. /\ request[r].txn \in DOMAIN txns /\ txns[request[r].txn] \in Transaction
        /\ txns[request[r].txn].user = User(r) /\ Inserted(request[r].txn)
    BY <1>5 DEF Owns, FilingInv, EditsInv, EditsTypeOK, Range
  <2>4. read'[r] = txns[request[r].txn]
    BY <1>5 DEF FilingInv, EditsInv, EditsTypeOK
  <2>5. Loaded(r)'
    BY <1>1, <2>1, <2>3, <2>4, InsertedStays DEF Loaded, Moves, User
  <2>6. EditAt(r)'
    BY <2>1, <2>5 DEF EditAt
  <2>7. EditsTypeOK'
    BY <1>1, <1>5, <2>3 DEF FilingInv, EditsInv, EditsTypeOK, categoryVars, Ids
  <2>. QED
    BY <1>1, <2>1, <2>2, <2>6, <2>7, EditsKept DEF FilingInv
<1>. QED
  BY <1>4, <1>5 DEF BeginEdit

(* What an edit writes has the types of what it has read and been asked.   *)
LEMMA FilingUpdate ==
  ASSUME RequestsInv, FilingInv, NEW r \in Requests, Update(r)
  PROVE  FilingInv'
<1> DEFINE t == request[r].txn
<1>1. /\ Moves(r) /\ pc[r] = "update" /\ Op(r) = "edit" /\ UNCHANGED <<links, read>>
  BY StepMoves DEF EditStep, Update, RequestsInv, OnItsWay, MayBeAt
<1>2. request[r] \in Edit /\ Op(r)' = Op(r)
  BY <1>1, InputTypes DEF RequestsInv, Op, Moves
<1>3. Loaded(r) /\ read[r] \in Transaction
  BY <1>1 DEF FilingInv, EditsInv, EditAt, Loaded
<1>4. NewMonth(r) \in Months /\ request[r].note \in BOOLEAN
  BY <1>2, <1>3 DEF NewMonth, Edit, Transaction
<1>5. /\ DOMAIN txns' = DOMAIN txns
      /\ \A u \in DOMAIN txns :
           txns'[u].user = txns[u].user /\ txns'[u].kind = txns[u].kind
           /\ txns'[u] \in Transaction
  <2>1. \A u \in DOMAIN txns : txns[u] \in Transaction
    BY DEF FilingInv, EditsInv, EditsTypeOK, Range
  <2>2. CASE txns' = txns
    BY <2>1, <2>2
  <2>3. CASE txns' = [txns EXCEPT ![t].month = NewMonth(r), ![t].note = request[r].note]
    BY <1>4, <2>1, <2>3 DEF Transaction
  <2>. QED
    BY <2>2, <2>3 DEF Update
<1>6. /\ CategoriesInv' /\ OthersKeep(r) /\ CategoriesGrow /\ categories' = categories
      /\ pc'[r] \in {"find", "enrich"}
      /\ pc'[r] = "find" => read[r].kind # "transfer"
  <2>1. CASE /\ request[r].category # Keep /\ read[r].kind # "transfer"
             /\ Look(r, request[r].category, read[r].kind)
    <3>1. request[r].category \in Names /\ read[r].kind \in {"income", "expense"}
      BY <1>2, <1>3, <2>1 DEF Edit, Transaction
    <3>2. read[r].kind = TypeSought(r)
      BY <1>1 DEF TypeSought
    <3>3. CategoriesInv' /\ OthersKeep(r) /\ CategoriesGrow /\ pc'[r] = "find"
      BY <1>1, <2>1, <3>1, <3>2, LookFits DEF FilingInv
    <3>. QED
      BY <2>1, <3>3 DEF Look
  <2>2. CASE Goto(r, "enrich") /\ UNCHANGED categoryVars
    <3>1. pc'[r] = "enrich"
      BY <2>2 DEF Goto, RequestsInv
    <3>. QED
      BY <1>1, <2>2, <3>1, CategoryBehind DEF FilingInv, categoryVars
  <2>. QED
    BY <2>1, <2>2 DEF Update
<1>7. EditsTypeOK'
  <2>1. Range(txns') \subseteq Transaction /\ DOMAIN txns' \subseteq Ids
    BY <1>5 DEF Range, FilingInv, EditsInv, EditsTypeOK
  <2>. QED
    BY <1>1, <1>5, <1>6, <2>1 DEF FilingInv, EditsInv, EditsTypeOK
<1>8. Loaded(r)'
  BY <1>1, <1>3, <1>5, LoadedKept
<1>9. EditAt(r)'
  BY <1>1, <1>6, <1>8 DEF EditAt
<1>. QED
  BY <1>1, <1>5, <1>6, <1>7, <1>9, EditsKept DEF FilingInv

LEMMA FilingClear ==
  ASSUME RequestsInv, FilingInv, NEW r \in Requests, ClearCategories(r)
  PROVE  FilingInv'
<1>1. /\ Moves(r) /\ pc[r] = "clear" /\ Op(r) = "edit" /\ pc'[r] = "link" /\ Op(r)' = Op(r)
      /\ UNCHANGED <<categoryVars, txns, read>>
      /\ links' = {l \in links : l[1] # request[r].txn}
  BY StepMoves DEF EditStep, ClearCategories, Goto, RequestsInv, OnItsWay, MayBeAt, Op
<1>2. CategoriesInv' /\ OthersKeep(r) /\ CategoriesGrow
  BY <1>1, CategoryBehind DEF FilingInv
<1>3. EditsTypeOK'
  BY <1>1 DEF FilingInv, EditsInv, EditsTypeOK, categoryVars, Ids
<1>4. EditAt(r) /\ (Loaded(r) => Loaded(r)')
  BY <1>1, LoadedKept DEF FilingInv, EditsInv
<1>5. EditAt(r)'
  BY <1>1, <1>4 DEF EditAt
<1>. QED
  BY <1>1, <1>2, <1>3, <1>5, EditsKept DEF FilingInv

(* The category an edit links was sought for the kind the transaction had  *)
(* when it was loaded, and still has.                                      *)
LEMMA FilingLink ==
  ASSUME RequestsInv, FilingInv, NEW r \in Requests, LinkCategory(r)
  PROVE  FilingInv'
<1> DEFINE t == request[r].txn
<1>1. /\ Moves(r) /\ pc[r] = "link" /\ Op(r) = "edit"
      /\ UNCHANGED <<categoryVars, txns, read>>
  BY StepMoves DEF EditStep, LinkCategory, RequestsInv, OnItsWay, MayBeAt
<1>2. pc'[r] \in {"enrich", "done"}
  BY DEF LinkCategory, Goto, Respond, RequestsInv
<1>3. CategoriesInv' /\ OthersKeep(r) /\ CategoriesGrow
  BY <1>1, <1>2, CategoryBehind DEF FilingInv
<1>4. CASE UNCHANGED links
  BY <1>1, <1>2, <1>3, <1>4, FilingStill DEF editVars
<1>5. CASE t \in DOMAIN txns /\ links' = links \cup {<<t, category[r]>>}
  <2>1. /\ category[r] \in DOMAIN categories
        /\ categories[category[r]].owner \in {User(r), Global}
        /\ categories[category[r]].type = read[r].kind
    BY <1>1 DEF FilingInv, CategoriesInv, CategoryAt, HasCategory, TypeSought
  <2>2. txns[t].user = User(r) /\ txns[t].kind = read[r].kind
    BY <1>1, <1>5 DEF FilingInv, EditsInv, EditAt, Loaded
  <2>3. EditsTypeOK'
    BY <1>1, <1>5, <2>1 DEF FilingInv, EditsInv, EditsTypeOK, categoryVars, Ids
  <2>4. FiledRight'
    BY <1>1, <1>5, <2>1, <2>2 DEF FilingInv, EditsInv, FiledRight, Visible, categoryVars
  <2>5. IsFiniteSet(links')
    BY <1>5, FS_AddElement DEF FilingInv, EditsInv
  <2>6. \A u \in DOMAIN txns' : Inserted(u)'
    BY <1>1, InsertedStays DEF FilingInv, EditsInv
  <2>7. ASSUME NEW q \in Requests
        PROVE  EditAt(q)'
    <3>1. CASE q = r
      BY <1>2, <3>1 DEF EditAt
    <3>2. CASE q # r
      <4>1. EditAt(q) /\ pc'[q] = pc[q] /\ read'[q] = read[q] /\ Op(q)' = Op(q)
        BY <1>1, <3>2 DEF FilingInv, EditsInv, Moves, Op
      <4>2. Loaded(q) => Loaded(q)'
        BY <1>1, <4>1, LoadedKept
      <4>. QED
        BY <4>1, <4>2 DEF EditAt
    <3>. QED
      BY <3>1, <3>2
  <2>. QED
    BY <1>3, <2>3, <2>4, <2>5, <2>6, <2>7 DEF FilingInv, EditsInv
<1>. QED
  BY <1>4, <1>5 DEF LinkCategory

LEMMA FilingEnd ==
  ASSUME RequestsInv, FilingInv, NEW r \in Requests, Moves(r), pc'[r] \in {"stats", "monthly", "done"},
         UNCHANGED <<categoryVars, editVars>>, pc[r] = "enrich" => pc'[r] = "done"
  PROVE  FilingInv'
<1>1. CategoriesInv' /\ OthersKeep(r) /\ CategoriesGrow
  BY CategoryBehind DEF FilingInv, editVars
<1>2. EditAt(r)'
  BY DEF EditAt
<1>3. EditsTypeOK'
  BY <1>1, EditsTypeKept DEF FilingInv, EditsInv
<1>. QED
  BY <1>1, <1>2, <1>3, EditsKept DEF FilingInv, editVars

LEMMA FilingEdit ==
  ASSUME RequestsInv, FilingInv, NEW r \in Requests, EditStep(r)
  PROVE  FilingInv'
<1>1. CASE Enrich(r)
  <2>1. Moves(r) /\ UNCHANGED <<categoryVars, editVars>> /\ pc'[r] = "done"
    BY <1>1, StepMoves DEF Enrich, Respond, RequestsInv
  <2>. QED
    BY <2>1, FilingEnd
<1>. QED
  BY <1>1, FilingCreate, FilingPost, FilingDelete, FilingBeginEdit, FilingUpdate, FilingClear,
     FilingLink DEF EditStep

LEMMA FilingBudget ==
  ASSUME RequestsInv, FilingInv, NEW r \in Requests, BudgetStep(r)
  PROVE  FilingInv'
<1>1. Moves(r) /\ UNCHANGED editVars /\ Op(r) \notin {"edit", "create"} /\ pc[r] # "enrich"
  <2>1. Moves(r) /\ MayBeAt(Op(r), pc[r])
    BY StepMoves DEF RequestsInv, OnItsWay
  <2>2. CASE BeginBudget(r) \/ DropBudget(r) \/ Copy(r)
    BY <2>1, <2>2 DEF BeginBudget, DropBudget, Copy, Starts
  <2>3. CASE AddBudget(r) \/ MoveBudget(r)
    <3>1. Op(r) \in {"budget", "rebudget"} /\ pc[r] # "enrich"
      BY <2>1, <2>3 DEF AddBudget, MoveBudget, MayBeAt
    <3>. QED
      BY <2>1, <2>3, <3>1 DEF AddBudget, MoveBudget
  <2>. QED
    BY <2>1, <2>2, <2>3 DEF BudgetStep
<1>2. CASE /\ Starts(r, "budget") \/ Starts(r, "rebudget")
           /\ Look(r, request[r].category, "expense")
  <2>1. request[r].category \in Names
    BY <1>2, InputTypes DEF Starts, RequestsInv, Op, CreateBudget, UpdateBudget
  <2>2. CategoriesInv' /\ OthersKeep(r) /\ CategoriesGrow
    BY <1>1, <1>2, <2>1, LookFits DEF FilingInv, TypeSought, Starts, editVars
  <2>. QED
    BY <1>1, <1>2, <2>2, FilingStill DEF Starts
<1>3. CASE (\E res : Respond(r, res)) /\ UNCHANGED categoryVars
  <2>1. pc'[r] = "done"
    BY <1>3 DEF Respond, RequestsInv
  <2>. QED
    BY <1>1, <1>3, <2>1, FilingEnd
<1>4. CASE BeginBudget(r)
  <2>1. Starts(r, "budget") \/ Starts(r, "rebudget")
    BY <1>4 DEF BeginBudget
  <2>2. CASE Respond(r, "invalid") /\ UNCHANGED categoryVars
    BY <1>3, <2>2
  <2>3. CASE Look(r, request[r].category, "expense")
    BY <1>2, <2>1, <2>3
  <2>. QED
    BY <1>4, <2>2, <2>3 DEF BeginBudget
<1>5. CASE AddBudget(r) \/ MoveBudget(r) \/ DropBudget(r) \/ Copy(r)
  <2>1. UNCHANGED categoryVars
    BY <1>5 DEF AddBudget, MoveBudget, DropBudget, Copy
  <2>2. \E res : Respond(r, res)
    BY <1>5 DEF AddBudget, MoveBudget, DropBudget, Copy
  <2>. QED
    BY <1>3, <2>1, <2>2
<1>. QED
  BY <1>4, <1>5 DEF BudgetStep

LEMMA FilingNext == RequestsInv /\ FilingInv /\ [Next]_planning => FilingInv'
<1> SUFFICES ASSUME RequestsInv, FilingInv, [Next]_planning PROVE FilingInv'
  OBVIOUS
<1>1. ASSUME NEW r \in Requests, GoalStep(r) \/ SummaryStep(r) \/ Cancel(r),
             UNCHANGED <<categoryVars, editVars>>
      PROVE  FilingInv'
  <2>1. Moves(r)
    BY <1>1, StepMoves
  <2>2. pc'[r] \in {"stats", "monthly", "done"} /\ (pc[r] = "enrich" => pc'[r] = "done")
    BY <1>1 DEF GoalStep, AddGoal, Retarget, Contribute, DropGoal, SummaryStep, ReadTotals,
       ReadStats, ReadMonthly, Cancel, Respond, Goto, Starts, RequestsInv
  <2>. QED
    BY <1>1, <2>1, <2>2, FilingEnd
<1>2. CASE UNCHANGED planning
  BY <1>2 DEF planning, api, categoryVars, editVars, FilingInv, CategoriesInv, CategoriesTypeOK,
     NamedOnce, Visible, CategoryAt, Seeking, HasCategory, TypeSought, Op, User,
     EditsInv, EditsTypeOK, Inserted, FiledRight, EditAt, Loaded, Ids
<1>. QED
  BY <1>1, <1>2, FilingCategory, FilingEdit, FilingBudget DEF Next, Quiescent

LEMMA FilingInit == Init => FilingInv
<1> SUFFICES ASSUME Init PROVE FilingInv
  OBVIOUS
<1>1. PICK s \in SeedRows : CategoriesInit(s.category) /\ EditsInit(s.txn)
  BY DEF Init
<1>2. /\ s.category \in Category /\ s.category.owner \in {s.txn.user, Global}
      /\ s.txn \in Transaction /\ s.txn.kind = s.category.type
  BY StartAssumption
<1>3. CategoriesInv
  BY <1>1, <1>2 DEF Init, ApiInit, CategoriesInit, CategoriesInv, CategoriesTypeOK, NamedOnce,
     Visible, CategoryAt, Ids, Range
<1>4. EditsTypeOK /\ FiledRight /\ \A t \in DOMAIN txns : Inserted(t)
  BY <1>1, <1>2 DEF CategoriesInit, EditsInit, EditsTypeOK, FiledRight, Visible, Inserted, Ids, Range
<1>5. IsFiniteSet(links)
  BY <1>1, FS_Singleton DEF EditsInit
<1>6. \A r \in Requests : EditAt(r)
  BY DEF Init, ApiInit, EditAt
<1>. QED
  BY <1>3, <1>4, <1>5, <1>6 DEF FilingInv, EditsInv

LEMMA FilingAlways == Spec => [](RequestsInv /\ FilingInv)
  BY RequestsInit, RequestsNext, FilingInit, FilingNext, PTL DEF Spec

(* NamedOnce: of requests that name a category for the first time at once, *)
(* one inserts it; the unique constraint stops the others, and no default  *)
(* category appears between their two statements.                          *)
THEOREM CategoriesAreOne == Spec => []NamedOnce
<1>1. FilingInv => NamedOnce
  BY DEF FilingInv, CategoriesInv
<1>. QED
  BY <1>1, FilingAlways, PTL

(* FiledRight: an edit links a category of the kind it has read, although  *)
(* others change, delete and file the transaction meanwhile: none of them  *)
(* changes its kind or its user, and a deleted id does not come back.      *)
THEOREM TransactionsFiledRight == Spec => []FiledRight
<1>1. FilingInv => FiledRight
  BY DEF FilingInv, EditsInv
<1>. QED
  BY <1>1, FilingAlways, PTL

-----------------------------------------------------------------------------
(* Budgets *)

LEMMA CategoriesOnlyGrow ==
  ASSUME RequestsInv, FilingInv, [Next]_planning
  PROVE  CategoriesGrow
<1>1. ASSUME NEW r \in Requests, CategoryStep(r)
      PROVE  CategoriesGrow
  <2>1. r \notin DOMAIN categories \/ pc[r] # "addCategory"
    BY DEF FilingInv, CategoriesInv, CategoryAt
  <2>. QED
    BY <1>1, <2>1 DEF CategoryStep, FindCategory, AddCategory, CategoriesGrow
<1>2. ASSUME NEW r \in Requests, EditStep(r) \/ BudgetStep(r)
      PROVE  categories' = categories
  <2>1. CASE EditStep(r)
    BY <2>1 DEF EditStep, BeginCreate, Post, Delete, BeginEdit, Update, ClearCategories,
       LinkCategory, Enrich, Look, categoryVars
  <2>2. CASE BudgetStep(r)
    BY <2>2 DEF BudgetStep, BeginBudget, AddBudget, MoveBudget, DropBudget, Copy, Look,
       categoryVars
  <2>. QED
    BY <1>2, <2>1, <2>2
<1>3. categories' = categories => CategoriesGrow
  BY DEF CategoriesGrow
<1>. QED
  BY <1>1, <1>2, <1>3 DEF Next, Quiescent, planning, categoryVars

(* The rows that a step leaves, moves or inserts: all filed under expense  *)
(* categories their users see, and no two of one user, category and month. *)
LEMMA BudgetsKept ==
  ASSUME RequestsInv, BudgetsInv, NEW r \in Requests, Moves(r), CategoriesGrow,
         DOMAIN budgets' \subseteq DOMAIN budgets, \A b \in DOMAIN budgets' : budgets'[b] = budgets[b]
  PROVE  BudgetsInv'
<1>1. BudgetsTypeOK'
  BY DEF BudgetsInv, BudgetsTypeOK, CategoriesGrow, Range, Ids
<1>2. BudgetsFiledRight'
  BY DEF BudgetsInv, BudgetsTypeOK, BudgetsFiledRight, CategoriesGrow, Visible
<1>3. \A b \in DOMAIN budgets' : b[1] # Seed => pc'[b[1]] = "done"
  BY AnsweredStays DEF BudgetsInv, BudgetsTypeOK, Ids
<1>. QED
  BY <1>1, <1>2, <1>3 DEF BudgetsInv, OneBudgetEach

(* Budgets, new or moved, that have no rival.                              *)
LEMMA BudgetsSet ==
  ASSUME RequestsInv, BudgetsInv, NEW r \in Requests, Moves(r), pc'[r] = "done",
         UNCHANGED categories, NEW N \in SUBSET (Ids \X Ids),
         DOMAIN budgets' = DOMAIN budgets \cup N,
         \A b \in DOMAIN budgets \ N : budgets'[b] = budgets[b],
         \A b \in N :
           /\ b \in DOMAIN budgets \/ b[1] = r
           /\ budgets'[b] \in Budget
           /\ budgets'[b].category \in Visible(budgets'[b].user)
           /\ categories[budgets'[b].category].type = "expense"
           /\ \A c \in DOMAIN budgets' : budgets'[c] = budgets'[b] => c = b
  PROVE  BudgetsInv'
<1>1. \A b \in DOMAIN budgets' : b \in Ids \X Ids /\ budgets'[b] \in Budget
  BY DEF BudgetsInv, BudgetsTypeOK, Range
<1>2. \A b \in DOMAIN budgets' :
        /\ budgets'[b].category \in Visible(budgets'[b].user)
        /\ categories[budgets'[b].category].type = "expense"
  BY DEF BudgetsInv, BudgetsFiledRight
<1>3. BudgetsTypeOK'
  BY <1>1, <1>2 DEF BudgetsTypeOK, Range, Visible
<1>4. BudgetsFiledRight'
  BY <1>2 DEF BudgetsFiledRight, Visible
<1>5. \A b \in DOMAIN budgets' : b[1] # Seed => pc'[b[1]] = "done"
  BY <1>1, AnsweredStays DEF BudgetsInv, Ids
<1>6. OneBudgetEach'
  BY DEF BudgetsInv, OneBudgetEach
<1>. QED
  BY <1>3, <1>4, <1>5, <1>6 DEF BudgetsInv

LEMMA BudgetsAdd ==
  ASSUME RequestsInv, FilingInv, BudgetsInv, NEW r \in Requests, AddBudget(r)
  PROVE  BudgetsInv'
<1> DEFINE c == category[r]
           m == request[r].month
           v == [user |-> User(r), category |-> c, month |-> m]
<1>1. Moves(r) /\ pc[r] = "addBudget" /\ Op(r) = "budget" /\ UNCHANGED categories
  BY StepMoves DEF BudgetStep, AddBudget, RequestsInv, OnItsWay, MayBeAt, categoryVars
<1>2. CASE UNCHANGED budgets
  BY <1>1, <1>2, BudgetsKept DEF CategoriesGrow
<1>3. CASE /\ Rivals(User(r), c, m) = {}
           /\ budgets' = [id \in DOMAIN budgets \cup {<<r, c>>} |->
                IF id = <<r, c>> THEN v ELSE budgets[id]]
           /\ Respond(r, "ok")
  <2>1. request[r] \in CreateBudget
    BY <1>1, InputTypes DEF RequestsInv, Op
  <2>2. c \in Visible(User(r)) /\ c \in Ids /\ categories[c].type = "expense"
    BY <1>1 DEF FilingInv, CategoriesInv, CategoriesTypeOK, CategoryAt, HasCategory, TypeSought,
       Visible
  <2>3. v \in Budget
    BY <2>1, <2>2 DEF CreateBudget, Budget, User
  <2>4. pc'[r] = "done"
    BY <1>3 DEF Respond, RequestsInv
  <2>5. \A b \in DOMAIN budgets : budgets[b] # v
    BY <1>3 DEF Rivals
  <2>6. <<r, c>> \notin DOMAIN budgets
    BY <1>1 DEF BudgetsInv
  <2>7. budgets'[<<r, c>>] = v /\ \A b \in DOMAIN budgets : budgets'[b] = budgets[b]
    BY <1>3, <2>6
  <2> HIDE DEF v
  <2>8. v.category = c /\ v.user = User(r)
    BY DEF v
  <2> DEFINE N == {<<r, c>>}
  <2>9. N \in SUBSET (Ids \X Ids)
    BY <2>2 DEF Ids
  <2>10. /\ DOMAIN budgets' = DOMAIN budgets \cup N
         /\ \A b \in DOMAIN budgets \ N : budgets'[b] = budgets[b]
         /\ \A b \in DOMAIN budgets' : budgets'[b] = v => b = <<r, c>>
    BY <1>3, <2>5, <2>7
  <2>11. \A b \in N :
           /\ b[1] = r /\ budgets'[b] \in Budget
           /\ budgets'[b].category \in Visible(budgets'[b].user)
           /\ categories[budgets'[b].category].type = "expense"
           /\ \A d \in DOMAIN budgets' : budgets'[d] = budgets'[b] => d = b
    BY <2>2, <2>3, <2>7, <2>8, <2>10
  <2> HIDE DEF N
  <2>. QED
    BY <1>1, <2>4, <2>9, <2>10, <2>11, BudgetsSet
<1>. QED
  BY <1>2, <1>3 DEF AddBudget

LEMMA BudgetsMove ==
  ASSUME RequestsInv, FilingInv, BudgetsInv, NEW r \in Requests, MoveBudget(r)
  PROVE  BudgetsInv'
<1> DEFINE c == category[r]
           m == request[r].month
           id == request[r].budget
           v == [user |-> User(r), category |-> c, month |-> m]
<1>1. Moves(r) /\ pc[r] = "moveBudget" /\ Op(r) = "rebudget" /\ UNCHANGED categories
  BY StepMoves DEF BudgetStep, MoveBudget, RequestsInv, OnItsWay, MayBeAt, categoryVars
<1>2. CASE UNCHANGED budgets
  BY <1>1, <1>2, BudgetsKept DEF CategoriesGrow
<1>3. CASE /\ HasBudget(r, id)
           /\ Rivals(User(r), c, m) \ {id} = {}
           /\ budgets' = [budgets EXCEPT ![id].category = c, ![id].month = m]
           /\ Respond(r, "ok")
  <2>1. request[r] \in UpdateBudget
    BY <1>1, InputTypes DEF RequestsInv, Op
  <2>2. c \in Visible(User(r)) /\ c \in Ids /\ categories[c].type = "expense"
    BY <1>1 DEF FilingInv, CategoriesInv, CategoriesTypeOK, CategoryAt, HasCategory, TypeSought,
       Visible
  <2>3. v \in Budget
    BY <2>1, <2>2 DEF UpdateBudget, Budget, User
  <2>4. pc'[r] = "done"
    BY <1>3 DEF Respond, RequestsInv
  <2>5. \A b \in DOMAIN budgets : b # id => budgets[b] # v
    BY <1>3 DEF Rivals
  <2>6. id \in DOMAIN budgets /\ id \in Ids \X Ids /\ budgets[id] \in Budget
        /\ budgets[id].user = User(r)
    BY <1>3 DEF HasBudget, BudgetsInv, BudgetsTypeOK, Range
  <2>7. budgets'[id] = v
    BY <1>3, <2>6 DEF Budget
  <2> HIDE DEF v
  <2>8. v.category = c /\ v.user = User(r)
    BY DEF v
  <2> DEFINE N == {id}
  <2>9. N \in SUBSET (Ids \X Ids)
    BY <2>6
  <2>10. /\ DOMAIN budgets' = DOMAIN budgets \cup N
         /\ \A b \in DOMAIN budgets \ N : budgets'[b] = budgets[b]
         /\ \A b \in DOMAIN budgets' : budgets'[b] = v => b = id
    BY <1>3, <2>5, <2>6
  <2>11. \A b \in N :
           /\ b \in DOMAIN budgets /\ budgets'[b] \in Budget
           /\ budgets'[b].category \in Visible(budgets'[b].user)
           /\ categories[budgets'[b].category].type = "expense"
           /\ \A d \in DOMAIN budgets' : budgets'[d] = budgets'[b] => d = b
    BY <2>2, <2>3, <2>6, <2>7, <2>8, <2>10
  <2> HIDE DEF N
  <2>. QED
    BY <1>1, <2>4, <2>9, <2>10, <2>11, BudgetsSet
<1>. QED
  BY <1>2, <1>3 DEF MoveBudget

(* A copy inserts one budget for each category that has none in the month. *)
LEMMA BudgetsCopy ==
  ASSUME RequestsInv, FilingInv, BudgetsInv, NEW r \in Requests, Copy(r), budgets' # budgets
  PROVE  BudgetsInv'
<1> DEFINE m == request[r].month
           v(c) == [user |-> User(r), category |-> c, month |-> m]
           N == {r} \X Copied(r)
<1>1. /\ Moves(r) /\ pc[r] = "idle" /\ Op(r) = "copy" /\ UNCHANGED categories
      /\ pc'[r] = "done"
      /\ budgets' = [id \in DOMAIN budgets \cup N |-> IF id[1] = r THEN v(id[2]) ELSE budgets[id]]
  BY StepMoves DEF BudgetStep, Copy, Starts, categoryVars, Respond, RequestsInv
<1>2. request[r] \in CopyBudgets
  BY <1>1, InputTypes DEF RequestsInv, Op
<1>3. \A b \in DOMAIN budgets : b[1] # r
  BY <1>1 DEF BudgetsInv
<1>4. ASSUME NEW c \in Copied(r)
      PROVE  /\ c \in Ids /\ c \in Visible(User(r)) /\ categories[c].type = "expense"
             /\ v(c) \in Budget
             /\ \A b \in DOMAIN budgets : budgets[b] # v(c)
  <2>1. PICK b \in DOMAIN budgets : budgets[b].user = User(r) /\ budgets[b].category = c
    BY DEF Copied, LastMonths
  <2>2. c \in Ids /\ c \in Visible(User(r)) /\ categories[c].type = "expense"
    BY <2>1 DEF BudgetsInv, BudgetsFiledRight, BudgetsTypeOK, Range, Budget
  <2>3. Rivals(User(r), c, m) = {}
    BY DEF Copied
  <2>4. v(c) \in Budget
    BY <1>2, <2>2 DEF CopyBudgets, Budget, User
  <2>. QED
    BY <2>2, <2>3, <2>4 DEF Rivals
<1>5. \A b \in N : b = <<r, b[2]>> /\ b[1] = r /\ b[2] \in Copied(r) /\ budgets'[b] = v(b[2])
  BY <1>1
<1>6. /\ DOMAIN budgets' = DOMAIN budgets \cup N
      /\ \A b \in DOMAIN budgets : budgets'[b] = budgets[b]
      /\ N \in SUBSET (Ids \X Ids)
  BY <1>1, <1>3, <1>4 DEF Ids
<1>7. \A c, d : v(c) = v(d) => c = d
  OBVIOUS
<1>8. \A c : v(c).user = User(r) /\ v(c).category = c
  OBVIOUS
<1> HIDE DEF v, N
<1>9. \A b \in N :
        /\ b[1] = r /\ budgets'[b] \in Budget
        /\ budgets'[b].category \in Visible(budgets'[b].user)
        /\ categories[budgets'[b].category].type = "expense"
        /\ \A d \in DOMAIN budgets' : budgets'[d] = budgets'[b] => d = b
  BY <1>4, <1>5, <1>6, <1>7, <1>8
<1>10. Moves(r) /\ pc'[r] = "done" /\ UNCHANGED categories
  BY <1>1
<1>. QED
  BY <1>6, <1>9, <1>10, BudgetsSet

LEMMA BudgetsNext == RequestsInv /\ FilingInv /\ BudgetsInv /\ [Next]_planning => BudgetsInv'
<1> SUFFICES ASSUME RequestsInv, FilingInv, BudgetsInv, [Next]_planning PROVE BudgetsInv'
  OBVIOUS
<1>1. CategoriesGrow
  BY CategoriesOnlyGrow
<1>2. ASSUME NEW r \in Requests, Moves(r), budgets' = budgets
      PROVE  BudgetsInv'
  BY <1>1, <1>2, BudgetsKept
<1>3. ASSUME NEW r \in Requests, BudgetStep(r)
      PROVE  BudgetsInv'
  <2>1. Moves(r)
    BY <1>3, StepMoves
  <2>2. CASE DropBudget(r)
    BY <1>1, <2>1, <2>2, BudgetsKept DEF DropBudget, HasBudget, Restrict
  <2>3. CASE BeginBudget(r)
    BY <1>2, <2>1, <2>3 DEF BeginBudget
  <2>4. CASE Copy(r) /\ budgets' = budgets
    BY <1>2, <2>1, <2>4
  <2>. QED
    BY <1>3, <2>2, <2>3, <2>4, BudgetsAdd, BudgetsMove, BudgetsCopy DEF BudgetStep
<1>4. ASSUME NEW r \in Requests, CategoryStep(r) \/ EditStep(r) \/ GoalStep(r) \/ SummaryStep(r)
                                 \/ Cancel(r),
             budgets' = budgets
      PROVE  BudgetsInv'
  BY <1>2, <1>4, StepMoves
<1>5. CASE UNCHANGED planning
  BY <1>5 DEF planning, api, categoryVars, BudgetsInv, BudgetsTypeOK, BudgetsFiledRight, Visible,
     OneBudgetEach, Ids
<1>. QED
  BY <1>3, <1>4, <1>5 DEF Next, Quiescent

LEMMA BudgetsStart == Init => BudgetsInv
<1> SUFFICES ASSUME Init PROVE BudgetsInv
  OBVIOUS
<1>1. PICK s \in SeedRows :
        CategoriesInit(s.category) /\ EditsInit(s.txn) /\ BudgetsInit(s.budget)
  BY DEF Init
<1>2. /\ s.category \in Category /\ s.category.owner \in {s.txn.user, Global}
      /\ s.category.type = "expense" /\ s.txn \in Transaction
      /\ s.budget \in [user : {s.txn.user}, category : {Seed}, month : Months]
  BY StartAssumption
<1>3. s.budget \in Budget /\ s.budget.user = s.txn.user /\ s.budget.category = Seed
  BY <1>2 DEF Budget, Transaction, Ids
<1>. QED
  BY <1>1, <1>2, <1>3 DEF CategoriesInit, BudgetsInit, BudgetsInv, BudgetsTypeOK,
     BudgetsFiledRight, Visible, OneBudgetEach, Ids, Range

LEMMA BudgetsAlways == Spec => [](FilingInv /\ BudgetsInv)
  BY RequestsInit, RequestsNext, FilingInit, FilingNext, BudgetsStart, BudgetsNext, PTL DEF Spec

(* BudgetsFiledRight: a budget is set for an expense category of its user, *)
(* also when the category is only found, or inserted, statements earlier,  *)
(* and when it is copied from one that was moved meanwhile.                *)
THEOREM BudgetsAreFiledRight == Spec => []BudgetsFiledRight
<1>1. BudgetsInv => BudgetsFiledRight
  BY DEF BudgetsInv
<1>. QED
  BY <1>1, BudgetsAlways, PTL

LEMMA CategoriesOfFinite ==
  ASSUME FilingInv, NEW t
  PROVE  IsFiniteSet(CategoriesOf(t))
<1> DEFINE own == {k \in links : k[1] = t}
           f == [l \in own |-> l[2]]
<1>1. IsFiniteSet(own)
  BY FS_Subset DEF FilingInv, EditsInv
<1>2. f \in Surjection(own, CategoriesOf(t))
  BY DEF Surjection, CategoriesOf
<1>. QED
  BY <1>1, <1>2, FS_Surjection

LEMMA CountOnce == FilingInv /\ BudgetsInv => CountedOnce
<1> SUFFICES ASSUME FilingInv, BudgetsInv, NEW b \in DOMAIN budgets, NEW c \in DOMAIN budgets,
                    NEW t \in Spending(b) \cap Spending(c), Cardinality(CategoriesOf(t)) = 1
             PROVE  b = c
  BY DEF CountedOnce
<1>1. PICK x : CategoriesOf(t) = {x}
  BY CategoriesOfFinite, FS_Singleton
<1>2. budgets[b].category \in CategoriesOf(t) /\ budgets[c].category \in CategoriesOf(t)
  BY DEF Spending, CategoriesOf
<1>3. budgets[b] \in Budget /\ budgets[c] \in Budget
  BY DEF BudgetsInv, BudgetsTypeOK, Range
<1>4. /\ budgets[b].category = budgets[c].category /\ budgets[b].user = budgets[c].user
      /\ budgets[b].month = budgets[c].month
  BY <1>1, <1>2 DEF Spending
<1>5. budgets[b] = budgets[c]
  BY <1>3, <1>4 DEF Budget
<1>. QED
  BY <1>5 DEF BudgetsInv, OneBudgetEach

(* CountedOnce: an expense with one category counts towards one budget,    *)
(* because no two budgets of a user are of one category and month.         *)
THEOREM ExpensesCountOnce == Spec => []CountedOnce
  BY CountOnce, BudgetsAlways, PTL
=============================================================================
