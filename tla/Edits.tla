------------------------------- MODULE Edits -------------------------------
(***************************************************************************)
(* TransactionService.Update, and the categories of a transaction.  Update *)
(* loads the transaction, writes it back with the fields that were given,  *)
(* finds the category and replaces the transaction's with it: up to seven  *)
(* statements, each committed on its own.                                  *)
(*                                                                         *)
(* What creates and deletes do to money is in TransactionService; here     *)
(* each is one step, that of its commit.  The title and the date are both  *)
(* kept when the input leaves them empty: `month', the part of the date    *)
(* that budgets and summaries read, stands for the two of them.  Of a note *)
(* there is only whether it is there.                                      *)
(***************************************************************************)
EXTENDS Categories, Money

CONSTANTS
  Months,  \* the months of dates and budgets, as numbers
  Keep     \* an empty field of an update

ASSUME MonthAssumption == Months \subseteq Nat /\ IsFiniteSet(Months)

CreateTransaction ==
  [op : {"create"}, user : Users, kind : {"income", "expense", "transfer"},
   month : Months, note : BOOLEAN, amount : Nat, category : Names]
Edit ==
  [op : {"edit"}, user : Users, txn : Ids, month : Months \cup {Keep},
   note : BOOLEAN, category : Names \cup {Keep}]
DeleteTransaction == [op : {"delete"}, user : Users, txn : Ids]

Transaction ==
  [user : Users, kind : {"income", "expense", "transfer"}, month : Months,
   note : BOOLEAN, amount : Nat]

VARIABLES
  txns,   \* transactions_v2 by id, with the amount of its ledger entry
  links,  \* transaction_categories: <<transaction, category>> rows
  read    \* the transaction an edit has loaded

editVars == <<txns, links, read>>

EditsTypeOK ==
  /\ DOMAIN txns \subseteq Ids
  /\ Range(txns) \subseteq Transaction
  /\ links \subseteq (DOMAIN txns) \X (DOMAIN categories)
  /\ read \in [Requests -> Transaction \cup {None}]

(* A transaction in the seeded category.                                   *)
EditsInit(row) ==
  /\ txns = [id \in {Seed} |-> row]
  /\ links = {<<Seed, Seed>>}
  /\ read = [r \in Requests |-> None]

CategoriesOf(t) == {l[2] : l \in {k \in links : k[1] = t}}

(* GetByID finds transaction t for the user of r.                          *)
Owns(r, t) == t \in DOMAIN txns /\ txns[t].user = User(r)

-----------------------------------------------------------------------------

(* An input that is not valid, or an account that is not there, is refused;*)
(* CreateIncome and CreateExpense find the category next; a transfer has   *)
(* none.                                                                   *)
BeginCreate(r) ==
  /\ Starts(r, "create")
  /\ WritesNothing
  /\ \/ /\ \E res \in {"invalid", "notFound"} : Respond(r, res)
        /\ UNCHANGED categoryVars
     \/ /\ request[r].kind = "transfer"
        /\ Goto(r, "post")
        /\ UNCHANGED categoryVars
     \/ /\ request[r].kind # "transfer"
        /\ Look(r, request[r].category, request[r].kind)
  /\ UNCHANGED editVars

(* The database transaction, whose last INSERTs link the categories; it is *)
(* refused for want of money.                                              *)
Post(r) ==
  /\ pc[r] = "post"
  /\ \/ /\ Respond(r, "refused")
        /\ WritesNothing
        /\ UNCHANGED <<txns, links>>
     \/ /\ txns' = [id \in DOMAIN txns \cup {r} |->
             IF id = r
             THEN [user |-> User(r), kind |-> request[r].kind, month |-> request[r].month,
                   note |-> request[r].note, amount |-> Round(request[r].amount)]
             ELSE txns[id]]
        /\ links' = links \cup ({r} \X ({category[r]} \ {None}))
        /\ Goto(r, "enrich")
        /\ Writes(r)
  /\ UNCHANGED <<categoryVars, read>>

(* DELETE FROM transactions_v2, which cascades to the links, unless the    *)
(* money is spent.                                                         *)
Delete(r) ==
  /\ Starts(r, "delete")
  /\ \/ /\ Owns(r, request[r].txn)
        /\ Respond(r, "refused")
        /\ WritesNothing
        /\ UNCHANGED <<txns, links>>
     \/ /\ Owns(r, request[r].txn)
        /\ txns' = Restrict(txns, DOMAIN txns \ {request[r].txn})
        /\ links' = {l \in links : l[1] # request[r].txn}
        /\ Respond(r, "ok")
        /\ Writes(r)
     \/ /\ ~Owns(r, request[r].txn)
        /\ Respond(r, "notFound")
        /\ WritesNothing
        /\ UNCHANGED <<txns, links>>
  /\ UNCHANGED <<categoryVars, read>>

-----------------------------------------------------------------------------
(* Update *)

AsksNothing(r) ==
  request[r].month = Keep /\ ~request[r].note /\ request[r].category = Keep

BeginEdit(r) ==
  /\ Starts(r, "edit")
  /\ \/ /\ ~Owns(r, request[r].txn)
        /\ Respond(r, "notFound")
        /\ UNCHANGED read
     \/ /\ Owns(r, request[r].txn)
        /\ read' = [read EXCEPT ![r] = txns[request[r].txn]]
        /\ Goto(r, IF AsksNothing(r) THEN "enrich" ELSE "update")
  /\ WritesNothing
  /\ UNCHANGED <<categoryVars, txns, links>>

(* Mutant: a field that is not given is blanked.                           *)
GivenMonth(r) == IF request[r].month = Keep THEN 0 ELSE request[r].month

(* The value read at the start stands in for a field that is not given.    *)
NewMonth(r) == IF request[r].month = Keep THEN read[r].month ELSE request[r].month

(* UPDATE transactions_v2: the note is replaced by what was given, also by *)
(* nothing; that it found no row is not noticed.                           *)
Update(r) ==
  /\ pc[r] = "update"
  /\ \/ /\ Owns(r, request[r].txn)
        /\ txns' = [txns EXCEPT ![request[r].txn].month = NewMonth(r),
                                ![request[r].txn].note = request[r].note]
        /\ Writes(r)
     \/ /\ ~Owns(r, request[r].txn)
        /\ WritesNothing
        /\ UNCHANGED txns
  /\ \/ /\ request[r].category # Keep /\ read[r].kind # "transfer"
        /\ Look(r, request[r].category, read[r].kind)
     \/ /\ ~(request[r].category # Keep /\ read[r].kind # "transfer")
        /\ Goto(r, "enrich")
        /\ UNCHANGED categoryVars
  /\ UNCHANGED <<links, read>>

(* Mutant: the new category is added to the old ones.                      *)
KeepCategories(r) ==
  /\ pc[r] = "clear"
  /\ Goto(r, "link")
  /\ Writes(r)
  /\ UNCHANGED <<categoryVars, editVars>>

(* SetCategory: DELETE FROM transaction_categories ...                     *)
ClearCategories(r) ==
  /\ pc[r] = "clear"
  /\ links' = {l \in links : l[1] # request[r].txn}
  /\ Goto(r, "link")
  /\ Writes(r)
  /\ UNCHANGED <<categoryVars, txns, read>>

(* Mutant: an INSERT that the foreign key refuses taken for a 404.         *)
LinkOrNotFound(r) ==
  /\ pc[r] = "link"
  /\ request[r].txn \notin DOMAIN txns
  /\ Respond(r, "notFound")
  /\ WritesNothing
  /\ UNCHANGED <<categoryVars, editVars>>

(* ... and AddCategory, in a statement of its own: by now the transaction  *)
(* may be gone, and another update's category may be there.                *)
LinkCategory(r) ==
  /\ pc[r] = "link"
  /\ \/ /\ request[r].txn \in DOMAIN txns
        /\ links' = links \cup {<<request[r].txn, category[r]>>}
        /\ Goto(r, "enrich")
        /\ Writes(r)
     \/ /\ request[r].txn \notin DOMAIN txns
        /\ Respond(r, "error")
        /\ WritesNothing
        /\ UNCHANGED links
  /\ UNCHANGED <<categoryVars, txns, read>>

(* The handlers of incomes and expenses look into the detail they get.     *)
Dereferences(r) == Op(r) = "create" /\ request[r].kind # "transfer"

(* enrichTransactionDetail: no detail and no error for a transaction that  *)
(* is gone.                                                                *)
Enrich(r) ==
  /\ pc[r] = "enrich"
  /\ Respond(r, IF Owns(r, IF Op(r) = "create" THEN r ELSE request[r].txn) THEN "ok"
                ELSE IF Dereferences(r) THEN "panic" ELSE "nil")
  /\ WritesNothing
  /\ UNCHANGED <<categoryVars, editVars>>

EditStep(r) ==
  \/ BeginCreate(r) \/ Post(r) \/ Delete(r)
  \/ BeginEdit(r) \/ Update(r) \/ ClearCategories(r) \/ LinkCategory(r) \/ Enrich(r)

-----------------------------------------------------------------------------

EditOf(q, t) == Op(q) = "edit" /\ request[q].txn = t

(* An income or an expense has exactly one category, but while an edit is  *)
(* between its DELETE and its INSERT, and except where an edit failed or   *)
(* another request wrote while it was under way: a transaction never loses *)
(* or gains a category on its own.                                         *)
OneCategoryUnlessRaced ==
  \A t \in DOMAIN txns :
    /\ txns[t].kind # "transfer"
    /\ \A q \in Requests : EditOf(q, t) => alone[q] /\ pc[q] # "link" /\ result[q] # "error"
    => Cardinality(CategoriesOf(t)) = 1

(* An edit during which nobody else wrote leaves the transaction as it     *)
(* asked: in the month and under the category given, or as they were when  *)
(* it was loaded, and with the note given or none.                         *)
EditTakesEffect ==
  \A r \in Requests :
    /\ pc[r] = "enrich" /\ Op(r) = "edit" /\ alone[r]
    => LET t == request[r].txn
       IN  /\ t \in DOMAIN txns
           /\ txns[t].month = (IF request[r].month = Keep THEN read[r].month
                               ELSE request[r].month)
           /\ txns[t].note = (IF AsksNothing(r) THEN read[r].note ELSE request[r].note)
           /\ request[r].category # Keep /\ txns[t].kind # "transfer"
                => {categories[c].name : c \in CategoriesOf(t)} = {request[r].category}

(* A transaction is filed only under categories of its own type that its   *)
(* user sees, hence a transfer under none, whoever edits what meanwhile.   *)
FiledRight ==
  \A l \in links :
    /\ l[1] \in DOMAIN txns
    /\ l[2] \in Visible(txns[l[1]].user)
    /\ categories[l[2]].type = txns[l[1]].kind

(* What "SetCategory replaces all categories for a transaction with a      *)
(* single category" (transaction_repository.go) amounts to.  Two edits that*)
(* both execute their DELETE before either INSERT break it: a summary      *)
(* relies on it only as long as it holds.                                  *)
SingleCategory == \A t \in DOMAIN txns : Cardinality(CategoriesOf(t)) <= 1
=============================================================================
