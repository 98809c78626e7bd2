----------------------------- MODULE Categories -----------------------------
(***************************************************************************)
(* CategoryRepository.FindOrCreate: creates and updates of transactions    *)
(* and of budgets name a category, which is looked up and, if the user has *)
(* none of that name and type, inserted: two statements, each its own      *)
(* transaction.  Categories are never changed or deleted.                  *)
(***************************************************************************)
EXTENDS Api

CONSTANTS
  Names,   \* the names of categories
  Global   \* the owner (NULL) of a default category

ASSUME OwnerAssumption == Global \notin Users

Category == [owner : Users \cup {Global}, name : Names, type : {"income", "expense"}]

VARIABLES
  categories,  \* the rows of the table, by id
  wanted,      \* the name and the type a request looks for
  category     \* the id FindOrCreate has returned to it

categoryVars == <<categories, wanted, category>>

CategoriesTypeOK ==
  /\ DOMAIN categories \subseteq Ids
  /\ Range(categories) \subseteq Category
  /\ wanted \in [Requests -> [name : Names, type : {"income", "expense"}] \cup {None}]
  /\ \A r \in Requests : category[r] \in DOMAIN categories \cup {None}

CategoriesInit(row) ==
  /\ categories = [id \in {Seed} |-> row]
  /\ wanted = [r \in Requests |-> None]
  /\ category = [r \in Requests |-> None]

Visible(u) == {c \in DOMAIN categories : categories[c].owner \in {u, Global}}

(* Mutant: a lookup by name alone.                                         *)
NamedAlike(r) == {c \in Visible(User(r)) : categories[c].name = wanted[r].name}

(* WHERE name = $1 AND type = $2 AND (user_id = $3 OR user_id IS NULL)     *)
Matching(r) ==
  {c \in Visible(User(r)) :
     categories[c].name = wanted[r].name /\ categories[c].type = wanted[r].type}

(* ORDER BY user_id NULLS LAST LIMIT 1                                     *)
Preferred(r) ==
  LET own == {c \in Matching(r) : categories[c].owner = User(r)}
  IN  IF own # {} THEN own ELSE Matching(r)

(* The call of FindOrCreate.                                               *)
Look(r, name, type) ==
  /\ wanted' = [wanted EXCEPT ![r] = [name |-> name, type |-> type]]
  /\ Goto(r, "find")
  /\ UNCHANGED <<categories, category>>

(* The statement that comes after it.                                      *)
Then == [create |-> "post", edit |-> "clear", budget |-> "addBudget",
         rebudget |-> "moveBudget"]

Found(r, c) ==
  /\ category' = [category EXCEPT ![r] = c]
  /\ Goto(r, Then[Op(r)])

FindCategory(r) ==
  /\ pc[r] = "find"
  /\ \/ \E c \in Preferred(r) : Found(r, c)
     \/ /\ Matching(r) = {}
        /\ Goto(r, "addCategory")
        /\ UNCHANGED category
  /\ WritesNothing
  /\ UNCHANGED <<categories, wanted>>

(* Mutant: no UNIQUE (user_id, name, type).                                *)
NeverTaken(r) == FALSE

(* UNIQUE (user_id, name, type), which no two NULLs violate.               *)
Taken(r) == \E c \in Matching(r) : categories[c].owner = User(r)

(* The INSERT; the loser of a race gets the unique violation as an error.  *)
AddCategory(r) ==
  /\ pc[r] = "addCategory"
  /\ \/ /\ Taken(r)
        /\ Respond(r, "error")
        /\ UNCHANGED <<categories, category>>
     \/ /\ ~Taken(r)
        /\ categories' = [id \in DOMAIN categories \cup {r} |->
             IF id = r
             THEN [owner |-> User(r), name |-> wanted[r].name, type |-> wanted[r].type]
             ELSE categories[id]]
        /\ Found(r, r)
  /\ WritesNothing
  /\ UNCHANGED wanted

CategoryStep(r) == FindCategory(r) \/ AddCategory(r)

(* A user sees one category of a name and type, however many requests name *)
(* it for the first time at once.                                          *)
NamedOnce ==
  \A u \in Users : \A c, d \in Visible(u) :
    categories[c].name = categories[d].name /\ categories[c].type = categories[d].type
      => c = d
=============================================================================
