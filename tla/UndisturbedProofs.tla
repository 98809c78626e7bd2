-------------------------- MODULE UndisturbedProofs --------------------------
(***************************************************************************)
(* What a request of several statements achieves when no other request     *)
(* writes while it is under way: an edit does what it was asked, and the   *)
(* parts of a summary agree.  Other requests may run all the same: they    *)
(* read, are refused, and add categories.                                  *)
(***************************************************************************)
EXTENDS PlanningProofs, Totals

USE RowAssumption, OwnerAssumption

-----------------------------------------------------------------------------
(* A step, as another request sees it *)

StepOf(r) ==
  \/ CategoryStep(r) /\ UNCHANGED <<editVars, budgets, goals, figures>>
  \/ EditStep(r) /\ UNCHANGED <<budgets, goals, figures>>
  \/ BudgetStep(r) /\ UNCHANGED <<goals, figures>>
  \/ GoalStep(r) /\ UNCHANGED <<categoryVars, editVars, budgets, figures>>
  \/ SummaryStep(r) /\ WritesNothing /\ UNCHANGED <<categoryVars, editVars, budgets, goals>>
  \/ Cancel(r) /\ UNCHANGED <<categoryVars, editVars, budgets, goals, figures>>

LEMMA StepsAre == [Next]_planning <=> (\E r \in Requests : StepOf(r)) \/ UNCHANGED planning
  BY DEF Next, StepOf, Quiescent

(* The rows that edits and summaries read.                                 *)
rows == <<txns, links, budgets>>

LEMMA WritesTell ==
  ASSUME NEW r \in Requests, StepOf(r)
  PROVE  (WritesNothing /\ UNCHANGED rows) \/ Writes(r)
<1>1. CASE CategoryStep(r) /\ UNCHANGED <<editVars, budgets>>
  BY <1>1 DEF CategoryStep, FindCategory, AddCategory, editVars, rows
<1>2. CASE EditStep(r) /\ UNCHANGED budgets
  BY <1>2 DEF EditStep, BeginCreate, Post, Delete, BeginEdit, Update, ClearCategories,
     LinkCategory, Enrich, editVars, rows
<1>3. CASE BudgetStep(r)
  BY <1>3 DEF BudgetStep, BeginBudget, AddBudget, MoveBudget, DropBudget, Copy, editVars, rows
<1>4. CASE GoalStep(r) /\ UNCHANGED <<editVars, budgets>>
  BY <1>4 DEF GoalStep, AddGoal, Retarget, Contribute, DropGoal, editVars, rows
<1>5. CASE SummaryStep(r) /\ WritesNothing /\ UNCHANGED <<editVars, budgets>>
  BY <1>5 DEF editVars, rows
<1>6. CASE Cancel(r) /\ UNCHANGED <<editVars, budgets>>
  BY <1>6 DEF Cancel, editVars, rows
<1>. QED
  BY <1>1, <1>2, <1>3, <1>4, <1>5, <1>6 DEF StepOf

(* Who is still alone after somebody else's step has seen no row change.   *)
LEMMA AloneStill ==
  ASSUME RequestsInv, NEW r \in Requests, StepOf(r), NEW q \in Requests, alone'[q]
  PROVE  /\ alone[q]
         /\ q # r /\ UnderWay(q) => UNCHANGED rows
  BY WritesTell DEF RequestsInv, Writes, WritesNothing

LEMMA OthersUnmoved ==
  ASSUME RequestsInv, FilingInv, figures \in [Requests -> [DOMAIN NoFigures -> Nat]],
         NEW r \in Requests, StepOf(r)
  PROVE  /\ Moves(r) /\ OthersKeep(r) /\ CategoriesGrow
         /\ \A q \in Requests \ {r} : figures'[q] = figures[q]
<1>1. Moves(r) /\ CategoriesGrow
  BY StepMoves, CategoriesOnlyGrow, StepsAre DEF StepOf
<1> USE DEF FilingInv, CategoriesInv, CategoriesTypeOK, EditsInv, EditsTypeOK
<1>2. OthersKeep(r)
  <2>1. CASE CategoryStep(r) /\ UNCHANGED editVars
    BY <2>1 DEF CategoryStep, FindCategory, AddCategory, Found, editVars, OthersKeep
  <2>2. CASE EditStep(r)
    BY <2>2 DEF EditStep, BeginCreate, Post, Delete, BeginEdit, Update, ClearCategories,
       LinkCategory, Enrich, Look, editVars, categoryVars, OthersKeep
  <2>3. CASE BudgetStep(r)
    BY <2>3 DEF BudgetStep, BeginBudget, AddBudget, MoveBudget, DropBudget, Copy, Look, editVars,
       categoryVars, OthersKeep
  <2>4. CASE UNCHANGED <<categoryVars, editVars>>
    BY <2>4 DEF editVars, categoryVars, OthersKeep
  <2>. QED
    BY <2>1, <2>2, <2>3, <2>4 DEF StepOf
<1>3. \A q \in Requests \ {r} : figures'[q] = figures[q]
  BY DEF StepOf, SummaryStep, ReadTotals, ReadStats, ReadMonthly
<1>. QED
  BY <1>1, <1>2, <1>3

-----------------------------------------------------------------------------
(* An edit that is alone *)

(* It replaces the category of the transaction it has read.                *)
Refiles(r) == request[r].category # Keep /\ read[r].kind # "transfer"

(* How far it has come: the transaction is as it has read it until its     *)
(* UPDATE and as it was asked from there on; the category it seeks, finds  *)
(* and links is the one asked for.                                         *)
Undisturbed(r) ==
  LET t == request[r].txn
  IN  /\ read[r] \in Transaction
      /\ t \in DOMAIN txns /\ txns[t].user = User(r) /\ txns[t].kind = read[r].kind
      /\ pc[r] = "update" \/ AsksNothing(r) => txns[t] = read[r]
      /\ AsksNothing(r) => pc[r] = "enrich"
      /\ ~AsksNothing(r) /\ pc[r] # "update" =>
           txns[t].month = NewMonth(r) /\ txns[t].note = request[r].note
      /\ pc[r] \in {"find", "addCategory"} => wanted[r].name = request[r].category
      /\ pc[r] \in {"clear", "link"} => categories[category[r]].name = request[r].category
      /\ pc[r] = "link" => CategoriesOf(t) = {}
      /\ pc[r] = "enrich" /\ Refiles(r) =>
           \E c \in DOMAIN categories :
             CategoriesOf(t) = {c} /\ categories[c].name = request[r].category

AloneInv == \A r \in Requests : Op(r) = "edit" /\ UnderWay(r) /\ alone[r] => Undisturbed(r)

(* What others do does not touch it.                                       *)
LEMMA UndisturbedByOthers ==
  ASSUME RequestsInv, FilingInv, NEW r \in Requests, Moves(r), OthersKeep(r), CategoriesGrow,
         NEW q \in Requests \ {r}, UnderWay(q), Op(q) = "edit", Undisturbed(q), UNCHANGED rows
  PROVE  Undisturbed(q)'
<1>1. pc[q] \in {"clear", "link"} => category[q] \in DOMAIN categories
  BY DEF FilingInv, CategoriesInv, CategoryAt, HasCategory
<1>2. /\ pc'[q] = pc[q] /\ request'[q] = request[q] /\ read'[q] = read[q]
      /\ wanted'[q] = wanted[q] /\ category'[q] = category[q]
      /\ txns' = txns /\ links' = links
  BY DEF Moves, OthersKeep, rows
<1>3. \A c \in DOMAIN categories : c \in DOMAIN categories' /\ categories'[c] = categories[c]
  BY DEF CategoriesGrow
<1>. QED
  BY <1>1, <1>2, <1>3 DEF Undisturbed, Refiles, AsksNothing, NewMonth, User, CategoriesOf

LEMMA UndisturbedBegin ==
  ASSUME RequestsInv, FilingInv, NEW r \in Requests, BeginEdit(r), UnderWay(r)'
  PROVE  Undisturbed(r)'
<1>1. /\ Owns(r, request[r].txn) /\ request' = request
      /\ read'[r] = txns[request[r].txn] /\ UNCHANGED <<txns, links>>
      /\ pc'[r] = IF AsksNothing(r) THEN "enrich" ELSE "update"
  BY DEF BeginEdit, UnderWay, Respond, Goto, RequestsInv, FilingInv, EditsInv, EditsTypeOK
<1>2. txns[request[r].txn] \in Transaction
  BY <1>1 DEF Owns, FilingInv, EditsInv, EditsTypeOK, Range
<1>3. AsksNothing(r) => request[r].category = Keep
  BY DEF AsksNothing
<1>. QED
  BY <1>1, <1>2, <1>3 DEF Undisturbed, Refiles, AsksNothing, Owns, User

LEMMA UndisturbedUpdate ==
  ASSUME RequestsInv, FilingInv, NEW r \in Requests, Update(r), Undisturbed(r)
  PROVE  Undisturbed(r)'
<1> DEFINE t == request[r].txn
<1>1. /\ request' = request /\ read' = read /\ links' = links /\ pc[r] = "update"
      /\ pc'[r] = IF Refiles(r) THEN "find" ELSE "enrich"
      /\ Refiles(r) => wanted'[r].name = request[r].category
  BY DEF Update, Look, Goto, Refiles, RequestsInv, FilingInv, CategoriesInv, CategoriesTypeOK
<1>2. /\ t \in DOMAIN txns /\ Owns(r, t) /\ txns[t] = read[r] /\ read[r] \in Transaction
      /\ ~AsksNothing(r)
  BY <1>1 DEF Undisturbed, Owns
<1>3. txns' = [txns EXCEPT ![t].month = NewMonth(r), ![t].note = request[r].note]
  BY <1>2 DEF Update
<1>4. /\ t \in DOMAIN txns' /\ txns'[t].user = User(r) /\ txns'[t].kind = read[r].kind
      /\ txns'[t].month = NewMonth(r) /\ txns'[t].note = request[r].note
  BY <1>2, <1>3 DEF Undisturbed, Transaction
<1>. QED
  BY <1>1, <1>2, <1>4 DEF Undisturbed, Refiles, AsksNothing, NewMonth, User

(* FindOrCreate returns a category of the name it was called with.         *)
LEMMA UndisturbedCategory ==
  ASSUME RequestsInv, FilingInv, NEW r \in Requests, Op(r) = "edit", CategoryStep(r),
         UNCHANGED editVars, UnderWay(r)', Undisturbed(r)
  PROVE  Undisturbed(r)'
<1>1. /\ request' = request /\ UNCHANGED <<txns, links, read, wanted>>
      /\ pc[r] \in {"find", "addCategory"} /\ ~AsksNothing(r)
      /\ wanted[r].name = request[r].category
  BY DEF CategoryStep, FindCategory, AddCategory, Found, Goto, Respond, editVars, Undisturbed
<1>2. \/ pc'[r] = "addCategory"
      \/ pc'[r] = "clear" /\ categories'[category'[r]].name = wanted[r].name
  <2>1. CASE \E c \in Preferred(r) : Found(r, c) /\ categories' = categories
    BY <2>1, ThenIs DEF Preferred, Matching, Found, Goto, RequestsInv, FilingInv, CategoriesInv
  <2>2. CASE Goto(r, "addCategory")
    BY <2>2 DEF Goto, RequestsInv
  <2>3. CASE /\ Found(r, r) /\ r \in DOMAIN categories'
             /\ categories'[r].name = wanted[r].name
    BY <2>3, ThenIs DEF Found, Goto, RequestsInv, FilingInv, CategoriesInv
  <2>4. CASE Respond(r, "error")
    BY <2>4 DEF Respond, UnderWay, RequestsInv
  <2>. QED
    BY <2>1, <2>2, <2>3, <2>4 DEF CategoryStep, FindCategory, AddCategory
<1>. QED
  BY <1>1, <1>2 DEF Undisturbed, Refiles, AsksNothing, NewMonth, User

LEMMA UndisturbedClear ==
  ASSUME RequestsInv, NEW r \in Requests, ClearCategories(r), Undisturbed(r)
  PROVE  Undisturbed(r)'
<1>1. /\ request' = request /\ UNCHANGED <<txns, read, categories, category>>
      /\ pc[r] = "clear" /\ pc'[r] = "link" /\ ~AsksNothing(r)
      /\ links' = {l \in links : l[1] # request[r].txn}
  BY DEF ClearCategories, Goto, RequestsInv, categoryVars, Undisturbed
<1>2. CategoriesOf(request[r].txn)' = {}
  BY <1>1 DEF CategoriesOf
<1>. QED
  BY <1>1, <1>2 DEF Undisturbed, Refiles, AsksNothing, NewMonth, User

(* The category that is linked is the only one.                            *)
LEMMA Linked ==
  ASSUME RequestsInv, FilingInv, NEW r \in Requests, LinkCategory(r), Undisturbed(r)
  PROVE  /\ request' = request /\ UNCHANGED <<txns, read, categories, category>>
         /\ pc'[r] = "enrich" /\ category[r] \in DOMAIN categories
         /\ CategoriesOf(request[r].txn)' = {category[r]}
<1> DEFINE t == request[r].txn
<1>1. /\ request' = request /\ UNCHANGED <<txns, read, categories, category>>
      /\ pc'[r] = "enrich" /\ links' = links \cup {<<t, category[r]>>}
      /\ CategoriesOf(t) = {} /\ pc[r] = "link"
  BY DEF LinkCategory, Goto, RequestsInv, categoryVars, Undisturbed
<1>2. category[r] \in DOMAIN categories
  BY <1>1 DEF FilingInv, CategoriesInv, CategoryAt, HasCategory
<1>3. CategoriesOf(t)' = {category[r]}
  <2>1. \A l \in links : l[1] # t
    BY <1>1 DEF CategoriesOf
  <2>2. {k \in links' : k[1] = t} = {<<t, category[r]>>}
    BY <1>1, <2>1
  <2>3. CategoriesOf(t)' = {l[2] : l \in {<<t, category[r]>>}}
    BY <1>1, <2>2 DEF CategoriesOf
  <2>. QED
    BY <2>3
<1>. QED
  BY <1>1, <1>2, <1>3

LEMMA UndisturbedLink ==
  ASSUME RequestsInv, FilingInv, NEW r \in Requests, LinkCategory(r), Undisturbed(r)
  PROVE  Undisturbed(r)'
<1>1. pc[r] = "link" /\ ~AsksNothing(r) /\ categories[category[r]].name = request[r].category
  BY DEF LinkCategory, Undisturbed
<1>. QED
  BY <1>1, Linked DEF Undisturbed, Refiles, AsksNothing, NewMonth, User

LEMMA AloneStep ==
  ASSUME RequestsInv, FilingInv, AloneInv, figures \in [Requests -> [DOMAIN NoFigures -> Nat]],
         NEW r \in Requests, StepOf(r)
  PROVE  AloneInv'
<1>1. /\ Moves(r) /\ OthersKeep(r) /\ CategoriesGrow
  BY OthersUnmoved
<1>2. ASSUME NEW q \in Requests, q # r, Op(q)' = "edit", UnderWay(q)', alone'[q]
      PROVE  Undisturbed(q)'
  <2>1. Op(q) = "edit" /\ UnderWay(q)
    BY <1>1, <1>2 DEF Moves, Op, UnderWay
  <2>2. alone[q] /\ UNCHANGED rows
    BY <1>2, <2>1, AloneStill
  <2>. QED
    BY <1>1, <1>2, <2>1, <2>2, UndisturbedByOthers DEF AloneInv
<1>3. ASSUME Op(r)' = "edit", UnderWay(r)', alone'[r]
      PROVE  Undisturbed(r)'
  <2>1. Op(r) = "edit" /\ alone[r] /\ pc[r] # "done" /\ MayBeAt(Op(r), pc[r])
    BY <1>1, <1>3, AloneStill DEF Moves, Op, RequestsInv, OnItsWay
  <2>2. pc[r] # "idle" => Undisturbed(r)
    BY <2>1 DEF AloneInv, UnderWay
  <2>3. CASE CategoryStep(r) /\ UNCHANGED editVars
    <3>1. pc[r] # "idle"
      BY <2>3 DEF CategoryStep, FindCategory, AddCategory
    <3>. QED
      BY <1>3, <2>1, <2>2, <2>3, <3>1, UndisturbedCategory
  <2>4. CASE EditStep(r)
    <3>1. CASE BeginEdit(r)
      BY <1>3, <3>1, UndisturbedBegin
    <3>2. CASE Update(r) \/ ClearCategories(r) \/ LinkCategory(r)
      <4>1. pc[r] # "idle"
        BY <3>2 DEF Update, ClearCategories, LinkCategory
      <4>. QED
        BY <2>2, <3>2, <4>1, UndisturbedUpdate, UndisturbedClear, UndisturbedLink
    <3>3. CASE BeginCreate(r) \/ Post(r) \/ Delete(r)
      BY <2>1, <3>3 DEF BeginCreate, Post, Delete, Starts, MayBeAt
    <3>4. CASE Enrich(r)
      BY <1>3, <3>4 DEF Enrich, Respond, UnderWay, RequestsInv
    <3>. QED
      BY <2>4, <3>1, <3>2, <3>3, <3>4 DEF EditStep
  <2>5. CASE BudgetStep(r)
    BY <2>1, <2>5 DEF BudgetStep, BeginBudget, AddBudget, MoveBudget, DropBudget, Copy, Starts,
       MayBeAt
  <2>6. CASE GoalStep(r)
    BY <2>1, <2>6 DEF GoalStep, AddGoal, Retarget, Contribute, DropGoal, Starts
  <2>7. CASE SummaryStep(r)
    BY <2>1, <2>7 DEF SummaryStep, ReadTotals, ReadStats, ReadMonthly, Starts, MayBeAt
  <2>8. CASE Cancel(r)
    BY <1>3, <2>8 DEF Cancel, Respond, UnderWay, RequestsInv
  <2>. QED
    BY <2>3, <2>4, <2>5, <2>6, <2>7, <2>8 DEF StepOf
<1>. QED
  BY <1>2, <1>3 DEF AloneInv

-----------------------------------------------------------------------------
(* One category *)

(* An edit of transaction t is between its DELETE and its INSERT, failed,  *)
(* or was not alone.                                                       *)
Raced(t) == \E q \in Requests : EditOf(q, t) /\ (~alone[q] \/ pc[q] = "link" \/ result[q] = "error")

Filed(t) ==
  txns[t].kind = "transfer" \/ Raced(t) \/ \E c \in DOMAIN categories : CategoriesOf(t) = {c}

FiledInv == \A t \in DOMAIN txns : Filed(t)

(* Only the INSERT of an edit ends a race.                                 *)
LEMMA RacedStays ==
  ASSUME RequestsInv, FilingInv, AloneInv, NEW r \in Requests, StepOf(r),
         NEW t, Raced(t)
  PROVE  \/ Raced(t)'
         \/ LinkCategory(r) /\ request[r].txn = t /\ Undisturbed(r)
<1> SUFFICES ASSUME ~Raced(t)'
             PROVE  LinkCategory(r) /\ request[r].txn = t /\ Undisturbed(r)
  OBVIOUS
<1>1. Moves(r)
  BY StepMoves DEF StepOf
<1>2. PICK q \in Requests : EditOf(q, t) /\ (~alone[q] \/ pc[q] = "link" \/ result[q] = "error")
  BY DEF Raced
<1>3. EditOf(q, t)' /\ alone'[q] /\ pc'[q] # "link" /\ result'[q] # "error"
  BY <1>1, <1>2 DEF Raced, EditOf, Op, Moves
<1>4. alone[q]
  BY <1>3, AloneStill
<1>5. result[q] # "error"
  BY <1>1, <1>3, AnsweredStays
<1>6. pc[q] = "link" /\ q = r
  BY <1>1, <1>2, <1>3, <1>4, <1>5 DEF Moves
<1>7. Undisturbed(r) /\ request[r].txn = t
  BY <1>2, <1>4, <1>6 DEF AloneInv, EditOf, UnderWay
<1>8. CASE LinkCategory(r)
  BY <1>7, <1>8
<1>9. CASE Cancel(r)
  BY <1>3, <1>6, <1>9 DEF Cancel, Respond, RequestsInv
<1>10. CASE CategoryStep(r) \/ GoalStep(r) \/ BudgetStep(r) \/ SummaryStep(r)
  BY <1>6, <1>10 DEF CategoryStep, FindCategory, AddCategory, GoalStep, AddGoal, Retarget,
     Contribute, DropGoal, BudgetStep, BeginBudget, AddBudget, MoveBudget, DropBudget, Copy,
     SummaryStep, ReadTotals, ReadStats, ReadMonthly, Starts
<1>11. CASE EditStep(r)
  BY <1>6, <1>8, <1>11 DEF EditStep, BeginCreate, Post, Delete, BeginEdit, Update, ClearCategories,
     Enrich, Starts
<1>. QED
  BY <1>8, <1>9, <1>10, <1>11 DEF StepOf

(* What a step does to the categories of a transaction: it leaves them, or *)
(* it is one of an edit of it, or has inserted it.                         *)
LEMMA FilesOne ==
  ASSUME RequestsInv, FilingInv, NEW r \in Requests, StepOf(r), NEW t \in DOMAIN txns'
  PROVE  \/ t \in DOMAIN txns /\ txns'[t].kind = txns[t].kind /\ CategoriesOf(t)' = CategoriesOf(t)
         \/ ClearCategories(r) /\ t = request[r].txn
         \/ LinkCategory(r) /\ t = request[r].txn /\ t \in DOMAIN txns /\ txns' = txns
         \/ Post(r) /\ t = r
<1>1. CASE UNCHANGED <<txns, links>>
  BY <1>1 DEF CategoriesOf
<1>2. CASE Post(r)
  <2>1. CASE t = r
    BY <1>2, <2>1
  <2>2. CASE t # r /\ ~UNCHANGED <<txns, links>>
    <3>1. t \in DOMAIN txns /\ txns'[t] = txns[t]
      BY <1>2, <2>2 DEF Post
    <3>2. \A l \in links' : l \in links \/ l[1] = r
      BY <1>2, <2>2 DEF Post
    <3>3. links \subseteq links'
      BY <1>2, <2>2 DEF Post
    <3>4. {k \in links' : k[1] = t} = {k \in links : k[1] = t}
      BY <2>2, <3>2, <3>3
    <3>. QED
      BY <3>1, <3>4 DEF CategoriesOf
  <2>. QED
    BY <1>1, <2>1, <2>2
<1>3. CASE Delete(r)
  <2>1. CASE ~UNCHANGED <<txns, links>>
    <3>1. t \in DOMAIN txns /\ txns'[t] = txns[t] /\ t # request[r].txn
      BY <1>3, <2>1 DEF Delete, Restrict
    <3>2. {k \in links' : k[1] = t} = {k \in links : k[1] = t}
      BY <1>3, <2>1, <3>1 DEF Delete
    <3>. QED
      BY <3>1, <3>2 DEF CategoriesOf
  <2>. QED
    BY <1>1, <2>1
<1>4. CASE Update(r)
  <2>1. t \in DOMAIN txns /\ txns[t] \in Transaction
    BY <1>4 DEF Update, FilingInv, EditsInv, EditsTypeOK, Range
  <2>2. txns'[t].kind = txns[t].kind /\ links' = links
    BY <1>4, <2>1 DEF Update, Transaction
  <2>. QED
    BY <2>1, <2>2 DEF CategoriesOf
<1>5. CASE ClearCategories(r) \/ LinkCategory(r)
  <2>1. CASE t = request[r].txn
    BY <1>5, <2>1 DEF LinkCategory
  <2>2. CASE t # request[r].txn
    <3>1. txns' = txns /\ {k \in links' : k[1] = t} = {k \in links : k[1] = t}
      BY <1>5, <2>2 DEF ClearCategories, LinkCategory
    <3>. QED
      BY <3>1 DEF CategoriesOf
  <2>. QED
    BY <2>1, <2>2
<1>6. CASE EditStep(r)
  BY <1>1, <1>2, <1>3, <1>4, <1>5, <1>6 DEF EditStep, BeginCreate, BeginEdit, Enrich, editVars
<1>. QED
  BY <1>1, <1>6 DEF StepOf, BudgetStep, BeginBudget, AddBudget, MoveBudget, DropBudget, Copy,
     editVars

LEMMA FiledStep ==
  ASSUME RequestsInv, FilingInv, AloneInv, FiledInv, NEW r \in Requests, StepOf(r)
  PROVE  FiledInv'
<1> SUFFICES ASSUME NEW t \in DOMAIN txns'
             PROVE  Filed(t)'
  BY DEF FiledInv
<1>1. Moves(r) /\ CategoriesGrow /\ MayBeAt(Op(r), pc[r])
  BY StepMoves, CategoriesOnlyGrow, StepsAre DEF StepOf, RequestsInv, OnItsWay
<1>2. CASE LinkCategory(r) /\ t = request[r].txn /\ Undisturbed(r)
  BY <1>2, Linked DEF Filed
<1>3. CASE t \in DOMAIN txns /\ txns'[t].kind = txns[t].kind /\ CategoriesOf(t)' = CategoriesOf(t)
  <2>1. Filed(t)
    BY <1>3 DEF FiledInv
  <2>. QED
    BY <1>1, <1>2, <1>3, <2>1, RacedStays DEF Filed, CategoriesGrow
<1>4. CASE ClearCategories(r) /\ t = request[r].txn
  <2>1. EditOf(r, t)' /\ pc'[r] = "link"
    BY <1>1, <1>4 DEF ClearCategories, Goto, RequestsInv, MayBeAt, EditOf, Op, Moves
  <2>. QED
    BY <2>1 DEF Filed, Raced
<1>5. CASE LinkCategory(r) /\ t = request[r].txn /\ t \in DOMAIN txns
  <2>1. EditOf(r, t) /\ pc[r] = "link"
    BY <1>1, <1>5 DEF LinkCategory, MayBeAt, EditOf
  <2>2. Raced(t)
    BY <2>1 DEF Raced
  <2>. QED
    BY <1>2, <2>2, RacedStays DEF Filed
<1>6. CASE Post(r) /\ t = r
  <2>1. pc[r] = "post" /\ Op(r) = "create" /\ categories' = categories
    BY <1>1, <1>6 DEF Post, MayBeAt, categoryVars
  <2>2. r \notin DOMAIN txns /\ \A l \in links : l[1] # r
    BY <2>1 DEF FilingInv, EditsInv, EditsTypeOK, Inserted
  <2>3. /\ txns'[r].kind = request[r].kind
        /\ links' = links \cup ({r} \X ({category[r]} \ {None}))
    BY <1>6, <2>2 DEF Post
  <2>4. request[r].kind # "transfer" => category[r] \in DOMAIN categories /\ category[r] # None
    BY <2>1 DEF FilingInv, CategoriesInv, CategoriesTypeOK, CategoryAt, HasCategory
  <2>5. CASE request[r].kind # "transfer"
    <3>1. {k \in links' : k[1] = r} = {<<r, category[r]>>}
      BY <2>2, <2>3, <2>4, <2>5
    <3>2. CategoriesOf(r)' = {l[2] : l \in {<<r, category[r]>>}}
      BY <3>1 DEF CategoriesOf
    <3>3. CategoriesOf(r)' = {category[r]}
      BY <3>2
    <3>. QED
      BY <1>6, <2>1, <2>4, <2>5, <3>3 DEF Filed
  <2>. QED
    BY <1>6, <2>3, <2>5 DEF Filed
<1>. QED
  BY <1>3, <1>4, <1>5, <1>6, FilesOne

-----------------------------------------------------------------------------
(* What the queries of a summary add up *)

Values == [t \in DOMAIN txns |-> txns[t].amount]

RowsFinite == IsFiniteSet(DOMAIN txns) /\ IsFiniteSet(DOMAIN budgets)

LEMMA ValuesAre ==
  ASSUME EditsTypeOK
  PROVE  \A t \in DOMAIN txns : Values[t] \in Nat
  BY DEF EditsTypeOK, Values, Range, Transaction

LEMMA AmountIs ==
  ASSUME RowsFinite, NEW S, S \subseteq DOMAIN txns
  PROVE  Amount(S) = Total(Values, S)
<1> DEFINE Adds(g) ==
      g = [s \in SUBSET S |-> IF s = {} THEN 0 ELSE txns[First(s)].amount + g[s \ {First(s)}]]
           c == CHOOSE g : Adds(g)
<1>1. IsFiniteSet(S)
  BY FS_Subset DEF RowsFinite
<1>2. \A g : Adds(g) <=> SumsUp(Values, SUBSET S, g)
  <2>1. \A s \in SUBSET S : s # {} => Values[First(s)] = txns[First(s)].amount
    BY FirstIn DEF Values
  <2>2. ASSUME NEW g
        PROVE  [s \in SUBSET S |-> IF s = {} THEN 0 ELSE txns[First(s)].amount + g[s \ {First(s)}]]
               = [s \in SUBSET S |-> IF s = {} THEN 0 ELSE Values[First(s)] + g[s \ {First(s)}]]
    BY <2>1
  <2>. QED
    BY <2>2 DEF SumsUp
<1>3. Amount(S) = c[S]
  BY DEF Amount, MapThenSumSet, MapThenFoldSet, First
<1>4. \E g : SumsUp(Values, SUBSET S, g)
  BY <1>1, SumExists
<1>5. SumsUp(Values, SUBSET S, c)
  <2> HIDE DEF Adds
  <2>. QED
    BY <1>2, <1>4
<1>. QED
  <2> HIDE DEF c
  <2>. QED
    BY <1>1, <1>3, <1>5, TotalIs

LEMMA AmountNat ==
  ASSUME EditsTypeOK, RowsFinite, NEW S, S \subseteq DOMAIN txns
  PROVE  Amount(S) \in Nat
<1>1. IsFiniteSet(S) /\ \A t \in S : Values[t] \in Nat
  BY ValuesAre, FS_Subset DEF RowsFinite
<1>. QED
  BY <1>1, AmountIs, TotalNat

(* What has been spent of some budgets.                                    *)
SpentOf(B) == [b \in B |-> Total(Values, Spending(b))]

LEMMA SpentIs ==
  ASSUME RowsFinite, NEW B, B \subseteq DOMAIN budgets
  PROVE  MapThenSumSet(Spent, B) = Total(SpentOf(B), B)
<1> DEFINE Adds(g) ==
      g = [s \in SUBSET B |-> IF s = {} THEN 0 ELSE Spent(First(s)) + g[s \ {First(s)}]]
           c == CHOOSE g : Adds(g)
<1>1. IsFiniteSet(B)
  BY FS_Subset DEF RowsFinite
<1>2. \A g : Adds(g) <=> SumsUp(SpentOf(B), SUBSET B, g)
  <2>1. ASSUME NEW s \in SUBSET B, s # {}
        PROVE  SpentOf(B)[First(s)] = Spent(First(s))
    <3>1. First(s) \in B
      BY <2>1, FirstIn
    <3>2. Spending(First(s)) \subseteq DOMAIN txns
      BY DEF Spending
    <3>3. Spent(First(s)) = Total(Values, Spending(First(s)))
      BY <3>2, AmountIs DEF Spent
    <3>. QED
      BY <3>1, <3>3 DEF SpentOf
  <2>2. ASSUME NEW g
        PROVE  [s \in SUBSET B |-> IF s = {} THEN 0 ELSE Spent(First(s)) + g[s \ {First(s)}]]
               = [s \in SUBSET B |-> IF s = {} THEN 0 ELSE SpentOf(B)[First(s)] + g[s \ {First(s)}]]
    BY <2>1
  <2>. QED
    BY <2>2 DEF SumsUp
<1>3. MapThenSumSet(Spent, B) = c[B]
  BY DEF MapThenSumSet, MapThenFoldSet, First
<1>4. \E g : SumsUp(SpentOf(B), SUBSET B, g)
  BY <1>1, SumExists
<1>5. SumsUp(SpentOf(B), SUBSET B, c)
  <2> HIDE DEF Adds
  <2>. QED
    BY <1>2, <1>4
<1>. QED
  <2> HIDE DEF c
  <2>. QED
    BY <1>1, <1>3, <1>5, TotalIs

LEMMA SpentNat ==
  ASSUME EditsTypeOK, RowsFinite, NEW B, B \subseteq DOMAIN budgets
  PROVE  MapThenSumSet(Spent, B) \in Nat
<1>1. ASSUME NEW b \in B
      PROVE  SpentOf(B)[b] \in Nat
  <2>1. IsFiniteSet(Spending(b)) /\ \A t \in Spending(b) : Values[t] \in Nat
    BY ValuesAre, FS_Subset DEF RowsFinite, Spending
  <2>. QED
    BY <2>1, TotalNat DEF SpentOf
<1>2. IsFiniteSet(B)
  BY FS_Subset DEF RowsFinite
<1>. QED
  BY <1>1, <1>2, SpentIs, TotalNat

(* While every expense has one category, no two budgets share one, so that *)
(* what is spent of a user's budgets is part of the user's expenses.       *)
LEMMA SpentWithin ==
  ASSUME FilingInv, BudgetsInv, RowsFinite, SingleCategory, NEW u,
         NEW B, B \subseteq {b \in DOMAIN budgets : budgets[b].user = u}
  PROVE  MapThenSumSet(Spent, B) <= Amount(Of(u, "expense"))
<1> DEFINE T == Of(u, "expense")
           P == [b \in B |-> Spending(b)]
<1>1. IsFiniteSet(B) /\ IsFiniteSet(T) /\ T \subseteq DOMAIN txns
  BY FS_Subset DEF RowsFinite, Of
<1>2. \A t \in T : Values[t] \in Nat
  BY <1>1, ValuesAre DEF FilingInv, EditsInv
<1>3. \A b \in B : P[b] \subseteq T
  BY DEF Spending, Of
<1>4. ASSUME NEW b \in B, NEW c \in B, NEW t \in P[b] \cap P[c]
      PROVE  b = c
  <2>1. t \in Spending(b) \cap Spending(c)
    OBVIOUS
  <2>2. t \in DOMAIN txns /\ CategoriesOf(t) # {}
    BY <2>1 DEF Spending, CategoriesOf
  <2>3. IsFiniteSet(CategoriesOf(t))
    BY CategoriesOfFinite
  <2>4. Cardinality(CategoriesOf(t)) \in Nat /\ Cardinality(CategoriesOf(t)) # 0
    BY <2>2, <2>3, FS_CardinalityType, FS_EmptySet
  <2>5. Cardinality(CategoriesOf(t)) = 1
    BY <2>2, <2>4 DEF SingleCategory
  <2>. QED
    BY <2>1, <2>5, CountOnce DEF CountedOnce
<1>5. \A b \in B : SpentOf(B)[b] = Total(Values, P[b])
  BY DEF SpentOf
<1>6. \A b, c \in B : b # c => P[b] \cap P[c] = {}
  BY <1>4
<1>7. Total(SpentOf(B), B) <= Total(Values, T)
  <2> HIDE DEF T, P
  <2>. QED
    BY <1>1, <1>2, <1>3, <1>5, <1>6, TotalParts
<1>. QED
  BY <1>1, <1>7, SpentIs, AmountIs

(* Where the monthly data go back as far as there are months, they leave   *)
(* nothing out.                                                            *)
LEMMA PointsCover ==
  ASSUME EditsTypeOK, Cardinality(Months) <= MaxPoints, NEW u,
         NEW t \in Of(u, "income") \cup Of(u, "expense")
  PROVE  txns[t].month \in Points(u)
<1> DEFINE W == {txns[x].month : x \in Of(u, "income") \cup Of(u, "expense")}
           m == txns[t].month
           L == {n \in W : n > m}
<1>1. W \subseteq Months /\ m \in W
  BY DEF Of, EditsTypeOK, Range, Transaction
<1>2. L \subseteq Months \ {m} /\ m \in Months
  <2>1. \A n \in Months : n > m => n # m
    BY <1>1, MonthAssumption
  <2> HIDE DEF W, m
  <2>. QED
    BY <1>1, <2>1
<1>3. /\ IsFiniteSet(Months \ {m}) /\ Cardinality(Months \ {m}) = Cardinality(Months) - 1
      /\ Cardinality(Months) \in Nat
  BY <1>2, MonthAssumption, FS_RemoveElement, FS_CardinalityType
<1>4. Cardinality(L) <= Cardinality(Months) - 1 /\ Cardinality(L) \in Nat
  <2> HIDE DEF L
  <2>. QED
    BY <1>2, <1>3, FS_Subset, FS_CardinalityType
<1>5. Cardinality(L) < MaxPoints
  BY <1>3, <1>4, PointAssumption
<1>. QED
  BY <1>1, <1>5 DEF Points

LEMMA RowsStayFinite ==
  ASSUME RequestsInv, FilingInv, RowsFinite, NEW r \in Requests, StepOf(r)
  PROVE  RowsFinite'
<1>1. IsFiniteSet(DOMAIN txns')
  <2>1. DOMAIN txns' \subseteq DOMAIN txns \cup {r}
    <3>1. CASE EditStep(r)
      BY <3>1 DEF EditStep, BeginCreate, Post, Delete, BeginEdit, Update, ClearCategories,
         LinkCategory, Enrich, Restrict, editVars
    <3>2. CASE BudgetStep(r)
      BY <3>2 DEF BudgetStep, BeginBudget, AddBudget, MoveBudget, DropBudget, Copy, editVars
    <3>3. CASE UNCHANGED editVars
      BY <3>3 DEF editVars
    <3>. QED
      BY <3>1, <3>2, <3>3 DEF StepOf
  <2>2. IsFiniteSet(DOMAIN txns \cup {r})
    BY FS_AddElement DEF RowsFinite
  <2>. QED
    BY <2>1, <2>2, FS_Subset
<1>2. IsFiniteSet(DOMAIN budgets')
  <2>1. CASE Copy(r) /\ budgets' # budgets
    <3> DEFINE own == LastMonths(r)
               f == [b \in own |-> budgets[b].category]
               C == {budgets[b].category : b \in own}
    <3>1. IsFiniteSet(own)
      BY FS_Subset DEF RowsFinite, LastMonths
    <3>2. f \in Surjection(own, C)
      BY DEF Surjection
    <3>3. IsFiniteSet(C)
      BY <3>1, <3>2, FS_Surjection
    <3>4. IsFiniteSet(Copied(r))
      BY <3>3, FS_Subset DEF Copied
    <3> DEFINE X == {r} \X Copied(r)
    <3>5. IsFiniteSet(X)
      BY <3>4, FS_Singleton, FS_Product
    <3>6. DOMAIN budgets' = DOMAIN budgets \cup X
      BY <2>1 DEF Copy
    <3> HIDE DEF X
    <3>. QED
      BY <3>5, <3>6, FS_Union DEF RowsFinite
  <2>2. CASE BudgetStep(r) /\ ~Copy(r)
    <3>1. DOMAIN budgets' \subseteq DOMAIN budgets \cup {<<r, category[r]>>}
      BY <2>2 DEF BudgetStep, BeginBudget, AddBudget, MoveBudget, DropBudget, Restrict
    <3>2. IsFiniteSet(DOMAIN budgets \cup {<<r, category[r]>>})
      BY FS_AddElement DEF RowsFinite
    <3>. QED
      BY <3>1, <3>2, FS_Subset
  <2>3. CASE UNCHANGED budgets
    BY <2>3 DEF RowsFinite
  <2>. QED
    BY <2>1, <2>2, <2>3 DEF StepOf
<1>. QED
  BY <1>1, <1>2 DEF RowsFinite

-----------------------------------------------------------------------------
(* A summary that is alone *)

FiguresTypeOK == figures \in [Requests -> [DOMAIN NoFigures -> Nat]]

(* What it has read is still so.                                           *)
Agrees(r) ==
  LET f == figures[r]
  IN  /\ pc[r] \in {"stats", "monthly"} =>
           /\ f.income = Total(Values, Of(User(r), "income"))
           /\ f.expense = Total(Values, Of(User(r), "expense"))
      /\ pc[r] = "monthly" /\ SingleCategory => f.spent <= f.expense
      /\ result[r] = "ok" /\ Cardinality(Months) <= MaxPoints =>
           f.income = f.monthlyIncome /\ f.expense = f.monthlyExpense

FiguresInv ==
  /\ FiguresTypeOK
  /\ RowsFinite
  /\ \A r \in Requests : Op(r) = "summary" /\ alone[r] => Agrees(r)

LEMMA FiguresAre ==
  DOMAIN NoFigures = {"income", "expense", "spent", "monthlyIncome", "monthlyExpense"}
  BY DEF NoFigures

LEMMA FiguresTyped ==
  ASSUME FilingInv, RowsFinite, FiguresTypeOK, NEW r \in Requests, StepOf(r)
  PROVE  FiguresTypeOK'
<1>1. CASE ReadTotals(r)
  <2>1. Amount(Of(User(r), "income")) \in Nat /\ Amount(Expenses(User(r))) \in Nat
    BY AmountNat DEF FilingInv, EditsInv, Of, Expenses
  <2>. QED
    BY <1>1, <2>1 DEF ReadTotals, FiguresTypeOK
<1>2. CASE ReadStats(r)
  <2> DEFINE B == {b \in DOMAIN budgets : budgets[b].user = User(r) /\ budgets[b].month = request[r].month}
  <2>1. MapThenSumSet(Spent, B) \in Nat
    BY SpentNat DEF FilingInv, EditsInv
  <2>2. figures' = [figures EXCEPT ![r].spent = MapThenSumSet(Spent, B)]
    BY <1>2 DEF ReadStats
  <2> HIDE DEF B
  <2>. QED
    BY <2>1, <2>2 DEF FiguresTypeOK
<1>3. CASE ReadMonthly(r)
  <2> DEFINE in(S) == {t \in S : txns[t].month \in Points(User(r))}
  <2>1. /\ Amount(in(Of(User(r), "income"))) \in Nat
        /\ Amount(in(Of(User(r), "expense"))) \in Nat
    BY AmountNat DEF FilingInv, EditsInv, Of
  <2>2. figures' = [figures EXCEPT
           ![r].monthlyIncome = Amount(in(Of(User(r), "income"))),
           ![r].monthlyExpense = Amount(in(Of(User(r), "expense")))]
    BY <1>3 DEF ReadMonthly
  <2> HIDE DEF in
  <2>. QED
    BY <2>1, <2>2 DEF FiguresTypeOK
<1>4. CASE UNCHANGED figures
  BY <1>4 DEF FiguresTypeOK
<1>. QED
  BY <1>1, <1>2, <1>3, <1>4 DEF StepOf, SummaryStep

(* What others do does not touch it.                                       *)
LEMMA AgreesByOthers ==
  ASSUME RequestsInv, NEW r \in Requests, Moves(r), NEW q \in Requests \ {r}, Agrees(q),
         figures'[q] = figures[q], UnderWay(q) => UNCHANGED rows
  PROVE  Agrees(q)'
<1>1. pc'[q] = pc[q] /\ result'[q] = result[q] /\ request'[q] = request[q]
  BY DEF Moves
<1>2. CASE UNCHANGED rows
  <2>1. Values' = Values /\ SingleCategory' = SingleCategory
    BY <1>2 DEF rows, Values, SingleCategory, CategoriesOf
  <2>2. \A k \in {"income", "expense"} : Of(User(q), k)' = Of(User(q), k)
    BY <1>1, <1>2 DEF rows, Of, User
  <2>3. /\ Total(Values, Of(User(q), "income"))' = Total(Values, Of(User(q), "income"))
        /\ Total(Values, Of(User(q), "expense"))' = Total(Values, Of(User(q), "expense"))
    BY <2>1, <2>2
  <2>. QED
    BY <1>1, <2>1, <2>3 DEF Agrees
<1>3. CASE ~UnderWay(q)
  BY <1>1, <1>3 DEF Agrees, UnderWay
<1>. QED
  BY <1>2, <1>3

(* The three queries of a summary, of the same rows.                       *)
LEMMA AgreesOnItsOwn ==
  ASSUME RequestsInv, FilingInv, BudgetsInv, FiguresInv, NEW r \in Requests, StepOf(r),
         Op(r) = "summary", alone[r]
  PROVE  Agrees(r)'
<1> DEFINE u == User(r)
<1>1. /\ Moves(r) /\ MayBeAt(Op(r), pc[r]) /\ Agrees(r) /\ result[r] = "none"
      /\ FiguresTypeOK /\ RowsFinite /\ EditsTypeOK
  BY StepMoves DEF StepOf, RequestsInv, OnItsWay, FiguresInv, Moves, FilingInv, EditsInv
<1>2. /\ Of(u, "income") \subseteq DOMAIN txns /\ Of(u, "expense") \subseteq DOMAIN txns
      /\ Amount(Of(u, "income")) = Total(Values, Of(u, "income"))
      /\ Amount(Of(u, "expense")) = Total(Values, Of(u, "expense"))
  <2>1. Of(u, "income") \subseteq DOMAIN txns /\ Of(u, "expense") \subseteq DOMAIN txns
    BY DEF Of
  <2> HIDE DEF u
  <2>. QED
    BY <1>1, <2>1, AmountIs
<1>3. CASE SummaryStep(r) /\ UNCHANGED <<editVars, budgets>>
  <2>1. /\ \A k \in {"income", "expense"} : Of(User(r), k)' = Of(u, k)
        /\ Values' = Values /\ SingleCategory' = SingleCategory
    BY <1>1, <1>3 DEF editVars, Of, User, Values, SingleCategory, CategoriesOf, Moves
  <2>2. /\ Total(Values, Of(User(r), "income"))' = Total(Values, Of(u, "income"))
        /\ Total(Values, Of(User(r), "expense"))' = Total(Values, Of(u, "expense"))
    BY <2>1
  <2>3. CASE ReadTotals(r)
    <3>1. /\ figures'[r].income = Total(Values, Of(u, "income"))
          /\ figures'[r].expense = Total(Values, Of(u, "expense"))
      BY <1>1, <1>2, <2>3, FiguresAre DEF ReadTotals, Expenses, FiguresTypeOK
    <3>2. pc'[r] = "stats" /\ result'[r] = "none"
      BY <1>1, <2>3 DEF ReadTotals, Goto, RequestsInv
    <3>. QED
      BY <2>2, <3>1, <3>2 DEF Agrees
  <2>4. CASE ReadStats(r)
    <3> DEFINE B == {b \in DOMAIN budgets : budgets[b].user = u /\ budgets[b].month = request[r].month}
               spent == MapThenSumSet(Spent, B)
    <3>1. figures' = [figures EXCEPT ![r].spent = spent]
      BY <2>4 DEF ReadStats
    <3>2. pc[r] = "stats" /\ pc'[r] = "monthly" /\ result'[r] = "none"
      BY <1>1, <2>4 DEF ReadStats, Goto, RequestsInv
    <3>3. SingleCategory => spent <= Amount(Of(u, "expense"))
      <4>1. B \subseteq {b \in DOMAIN budgets : budgets[b].user = u}
        OBVIOUS
      <4> HIDE DEF B, u
      <4>. QED
        BY <1>1, <4>1, SpentWithin
    <3> HIDE DEF spent
    <3>4. /\ figures'[r].income = figures[r].income /\ figures'[r].expense = figures[r].expense
          /\ figures'[r].spent = spent
      BY <1>1, <3>1, FiguresAre DEF FiguresTypeOK
    <3>5. /\ figures[r].income = Total(Values, Of(u, "income"))
          /\ figures[r].expense = Total(Values, Of(u, "expense"))
      BY <1>1, <3>2 DEF Agrees
    <3>. QED
      BY <1>2, <2>1, <2>2, <3>2, <3>3, <3>4, <3>5 DEF Agrees
  <2>5. CASE ReadMonthly(r)
    <3> DEFINE in(S) == {t \in S : txns[t].month \in Points(u)}
               income == Amount(in(Of(u, "income")))
               expense == Amount(in(Of(u, "expense")))
    <3>1. figures' = [figures EXCEPT ![r].monthlyIncome = income, ![r].monthlyExpense = expense]
      BY <2>5 DEF ReadMonthly
    <3>2. pc[r] = "monthly" /\ pc'[r] = "done"
      BY <1>1, <2>5 DEF ReadMonthly, Respond, RequestsInv
    <3>3. Cardinality(Months) <= MaxPoints =>
            income = Amount(Of(u, "income")) /\ expense = Amount(Of(u, "expense"))
      <4> SUFFICES ASSUME Cardinality(Months) <= MaxPoints
                   PROVE  income = Amount(Of(u, "income")) /\ expense = Amount(Of(u, "expense"))
        OBVIOUS
      <4>1. \A t \in Of(u, "income") \cup Of(u, "expense") : txns[t].month \in Points(u)
        <5> HIDE DEF u
        <5>. QED
          BY <1>1, PointsCover
      <4>2. in(Of(u, "income")) = Of(u, "income") /\ in(Of(u, "expense")) = Of(u, "expense")
        BY <4>1
      <4> HIDE DEF in, u
      <4>. QED
        BY <4>2
    <3> HIDE DEF income, expense
    <3>4. /\ figures'[r].income = figures[r].income /\ figures'[r].expense = figures[r].expense
          /\ figures'[r].monthlyIncome = income /\ figures'[r].monthlyExpense = expense
      BY <1>1, <3>1, FiguresAre DEF FiguresTypeOK
    <3>5. /\ figures[r].income = Total(Values, Of(u, "income"))
          /\ figures[r].expense = Total(Values, Of(u, "expense"))
      BY <1>1, <3>2 DEF Agrees
    <3>. QED
      BY <1>2, <3>2, <3>3, <3>4, <3>5 DEF Agrees
  <2>. QED
    BY <1>3, <2>3, <2>4, <2>5 DEF SummaryStep
<1>4. CASE Cancel(r)
  <2>1. pc'[r] = "done" /\ result'[r] = "error"
    BY <1>4 DEF Cancel, Respond, RequestsInv
  <2>. QED
    BY <2>1 DEF Agrees
<1>5. CASE CategoryStep(r) \/ EditStep(r) \/ BudgetStep(r) \/ GoalStep(r)
  BY <1>1, <1>5 DEF CategoryStep, FindCategory, AddCategory, EditStep, BeginCreate, Post, Delete,
     BeginEdit, Update, ClearCategories, LinkCategory, Enrich, BudgetStep, BeginBudget, AddBudget,
     MoveBudget, DropBudget, Copy, GoalStep, AddGoal, Retarget, Contribute, DropGoal, Starts, MayBeAt
<1>. QED
  BY <1>3, <1>4, <1>5 DEF StepOf

LEMMA FiguresStep ==
  ASSUME RequestsInv, FilingInv, BudgetsInv, FiguresInv, NEW r \in Requests, StepOf(r)
  PROVE  FiguresInv'
<1>1. FiguresTypeOK' /\ RowsFinite'
  BY FiguresTyped, RowsStayFinite DEF FiguresInv
<1>2. /\ Moves(r)
      /\ \A q \in Requests \ {r} : figures'[q] = figures[q]
  BY OthersUnmoved DEF FiguresInv, FiguresTypeOK
<1>3. ASSUME NEW q \in Requests, Op(q)' = "summary", alone'[q]
      PROVE  Agrees(q)'
  <2>1. Op(q) = "summary" /\ alone[q] /\ (q # r /\ UnderWay(q) => UNCHANGED rows)
    BY <1>2, <1>3, AloneStill DEF Moves, Op
  <2>2. Agrees(q)
    BY <2>1 DEF FiguresInv
  <2>. QED
    BY <1>2, <2>1, <2>2, AgreesByOthers, AgreesOnItsOwn
<1>. QED
  BY <1>1, <1>3 DEF FiguresInv

-----------------------------------------------------------------------------
(* All of it, always *)

UndisturbedInv == AloneInv /\ FiledInv /\ FiguresInv

LEMMA UndisturbedInit == Init => UndisturbedInv
<1> SUFFICES ASSUME Init PROVE UndisturbedInv
  OBVIOUS
<1>1. PICK s \in SeedRows :
        CategoriesInit(s.category) /\ EditsInit(s.txn) /\ BudgetsInit(s.budget)
  BY DEF Init
<1>2. AloneInv
  BY DEF Init, ApiInit, AloneInv, UnderWay
<1>3. FiledInv
  <2>1. CategoriesOf(Seed) = {l[2] : l \in {<<Seed, Seed>>}}
    BY <1>1 DEF EditsInit, CategoriesOf
  <2>2. CategoriesOf(Seed) = {Seed}
    BY <2>1
  <2>. QED
    BY <1>1, <2>2 DEF CategoriesInit, EditsInit, FiledInv, Filed
<1>4. RowsFinite
  BY <1>1, FS_Singleton DEF EditsInit, BudgetsInit, RowsFinite
<1>5. FiguresTypeOK
  BY DEF Init, FiguresTypeOK, NoFigures
<1>6. \A r \in Requests : Agrees(r)
  BY DEF Init, ApiInit, Agrees
<1>. QED
  BY <1>2, <1>3, <1>4, <1>5, <1>6 DEF UndisturbedInv, FiguresInv

LEMMA UndisturbedStutter == UndisturbedInv /\ UNCHANGED planning => UndisturbedInv'
<1> SUFFICES ASSUME UndisturbedInv, UNCHANGED planning
             PROVE  UndisturbedInv'
  OBVIOUS
<1> USE DEF planning, api, categoryVars, editVars
<1>1. AloneInv'
  <2>1. ASSUME NEW r \in Requests, Undisturbed(r)
        PROVE  Undisturbed(r)'
    <3>1. CategoriesOf(request[r].txn)' = CategoriesOf(request[r].txn)
      BY DEF CategoriesOf
    <3>. QED
      BY <2>1, <3>1 DEF Undisturbed, Refiles, AsksNothing, NewMonth, User
  <2>. QED
    BY <2>1 DEF UndisturbedInv, AloneInv, Op, UnderWay
<1>2. FiledInv'
  BY DEF UndisturbedInv, FiledInv, Filed, Raced, EditOf, Op, CategoriesOf
<1>3. FiguresTypeOK' /\ RowsFinite'
  BY DEF UndisturbedInv, FiguresInv, FiguresTypeOK, RowsFinite
<1>4. ASSUME NEW r \in Requests, Op(r)' = "summary", alone'[r]
      PROVE  Agrees(r)'
  <2>1. Agrees(r)
    BY <1>4 DEF UndisturbedInv, FiguresInv, Op
  <2>2. Values' = Values /\ SingleCategory' = SingleCategory
    BY DEF Values, SingleCategory, CategoriesOf
  <2>3. \A k \in {"income", "expense"} : Of(User(r), k)' = Of(User(r), k)
    BY DEF Of, User
  <2>4. /\ Total(Values, Of(User(r), "income"))' = Total(Values, Of(User(r), "income"))
        /\ Total(Values, Of(User(r), "expense"))' = Total(Values, Of(User(r), "expense"))
    BY <2>2, <2>3
  <2>. QED
    BY <2>1, <2>2, <2>4 DEF Agrees
<1>. QED
  BY <1>1, <1>2, <1>3, <1>4 DEF UndisturbedInv, FiguresInv

LEMMA UndisturbedNext ==
  RequestsInv /\ FilingInv /\ BudgetsInv /\ UndisturbedInv /\ [Next]_planning => UndisturbedInv'
<1> SUFFICES ASSUME RequestsInv, FilingInv, BudgetsInv, UndisturbedInv, [Next]_planning
             PROVE  UndisturbedInv'
  OBVIOUS
<1>1. ASSUME NEW r \in Requests, StepOf(r)
      PROVE  UndisturbedInv'
  BY <1>1, AloneStep, FiledStep, FiguresStep DEF UndisturbedInv, FiguresInv, FiguresTypeOK
<1>. QED
  BY <1>1, UndisturbedStutter, StepsAre

LEMMA UndisturbedAlways == Spec => [](RequestsInv /\ FilingInv /\ BudgetsInv /\ UndisturbedInv)
  BY RequestsInit, RequestsNext, FilingInit, FilingNext, BudgetsStart, BudgetsNext, UndisturbedInit,
     UndisturbedNext, PTL DEF Spec

(* EditTakesEffect: after its UPDATE, DELETE and INSERT, each committed on *)
(* its own, the transaction of an edit during which nobody else wrote is   *)
(* in the month, with the note and under the one category it asked for.    *)
THEOREM EditsTakeEffect == Spec => []EditTakesEffect
<1>1. UndisturbedInv => EditTakesEffect
  <2> SUFFICES ASSUME UndisturbedInv, NEW r \in Requests, pc[r] = "enrich", Op(r) = "edit", alone[r]
               PROVE  LET t == request[r].txn
                      IN  /\ t \in DOMAIN txns
                          /\ txns[t].month = (IF request[r].month = Keep THEN read[r].month
                                              ELSE request[r].month)
                          /\ txns[t].note = (IF AsksNothing(r) THEN read[r].note
                                             ELSE request[r].note)
                          /\ request[r].category # Keep /\ txns[t].kind # "transfer"
                               => {categories[c].name : c \in CategoriesOf(t)} = {request[r].category}
    BY DEF EditTakesEffect
  <2> DEFINE t == request[r].txn
  <2>1. Undisturbed(r)
    BY DEF UndisturbedInv, AloneInv, UnderWay
  <2>2. t \in DOMAIN txns /\ txns[t].kind = read[r].kind
    BY <2>1 DEF Undisturbed
  <2>3. /\ txns[t].month = NewMonth(r)
        /\ txns[t].note = (IF AsksNothing(r) THEN read[r].note ELSE request[r].note)
    BY <2>1 DEF Undisturbed, NewMonth, AsksNothing
  <2>4. ASSUME request[r].category # Keep, txns[t].kind # "transfer"
        PROVE  {categories[c].name : c \in CategoriesOf(t)} = {request[r].category}
    <3>1. PICK c \in DOMAIN categories :
            CategoriesOf(t) = {c} /\ categories[c].name = request[r].category
      BY <2>1, <2>2, <2>4 DEF Undisturbed, Refiles
    <3>. QED
      BY <3>1
  <2>. QED
    BY <2>2, <2>3, <2>4 DEF NewMonth
<1>. QED
  BY <1>1, UndisturbedAlways, PTL

(* OneCategoryUnlessRaced: the INSERT that creates a transaction files it  *)
(* under one category, and only an edit takes that away and puts another   *)
(* in its place, in two statements.                                        *)
THEOREM OneCategory == Spec => []OneCategoryUnlessRaced
<1>1. UndisturbedInv => OneCategoryUnlessRaced
  <2> SUFFICES ASSUME UndisturbedInv, NEW t \in DOMAIN txns, txns[t].kind # "transfer", ~Raced(t)
               PROVE  Cardinality(CategoriesOf(t)) = 1
    BY DEF OneCategoryUnlessRaced, Raced
  <2>1. PICK c : CategoriesOf(t) = {c}
    BY DEF UndisturbedInv, FiledInv, Filed
  <2>. QED
    BY <2>1, FS_Singleton
<1>. QED
  BY <1>1, UndisturbedAlways, PTL

(* SummaryAgrees: the sums of the three queries agree if no row has changed*)
(* between them; a budget's expenses are no other's, and the months of the *)
(* data are all among the last MaxPoints if there are no more.             *)
THEOREM SummariesAgree == Spec => []SummaryAgrees
<1>1. UndisturbedInv => SummaryAgrees
  BY DEF UndisturbedInv, FiguresInv, SummaryAgrees, Agrees
<1>. QED
  BY <1>1, UndisturbedAlways, PTL

(* PlanningTypeOK: the rows, the requests and what they have read are of   *)
(* their types.                                                            *)
THEOREM PlanningTyped == Spec => []PlanningTypeOK
<1>1. RequestsInv /\ FilingInv /\ BudgetsInv /\ GoalsInv /\ UndisturbedInv => PlanningTypeOK
  BY DEF RequestsInv, FilingInv, CategoriesInv, EditsInv, BudgetsInv, GoalsInv, UndisturbedInv,
     FiguresInv, FiguresTypeOK, PlanningTypeOK
<1>. QED
  BY <1>1, UndisturbedAlways, GoalsAlways, PTL
=============================================================================
