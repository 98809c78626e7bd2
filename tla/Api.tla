-------------------------------- MODULE Api --------------------------------
(***************************************************************************)
(* A request on its way through a handler of internal/handler: it is bound *)
(* to its input, calls one service method, which executes one statement    *)
(* after another on the pool, and is answered.  The modules of the         *)
(* planning half of the program (Categories, Edits, Budgets, Goals and     *)
(* Planning) describe those methods; nothing of theirs but the creation of *)
(* a transaction runs in a database transaction of more than one statement.*)
(*                                                                         *)
(* The id of a row is the request that inserted it, or Seed for the rows   *)
(* that were there before.                                                 *)
(***************************************************************************)
EXTENDS Naturals, FiniteSets, FiniteSetsExt, Functions

CONSTANTS
  Users,     \* the authenticated users
  Requests,  \* the requests they send
  Inputs,    \* what a request may ask for: a record with its op and its user
  Seed,      \* the id of each row that exists at the start
  None       \* no row

Ids == Requests \cup {Seed}

(* NULL is no id, and a row that was there before no request inserted.     *)
ASSUME RowAssumption == Seed \notin Requests /\ None \notin Ids

VARIABLES
  request,  \* what each request asks for
  pc,       \* the statement it is about to execute
  result,   \* how its service method has ended
  wrote,    \* history: the requests that have changed a row other than a category
  alone     \* history: no other request has written while this one was under way

api == <<request, pc, result, wrote, alone>>

Results == {"none", "ok", "nil", "panic", "invalid", "notFound", "refused", "error"}

ApiInit ==
  /\ request \in [Requests -> Inputs]
  /\ pc = [r \in Requests |-> "idle"]
  /\ result = [r \in Requests |-> "none"]
  /\ wrote = {}
  /\ alone = [r \in Requests |-> TRUE]

Op(r)   == request[r].op
User(r) == request[r].user

UnderWay(r) == pc[r] \notin {"idle", "done"}

Starts(r, op) == pc[r] = "idle" /\ Op(r) = op

Goto(r, step) == pc' = [pc EXCEPT ![r] = step] /\ UNCHANGED <<request, result>>

Respond(r, res) ==
  /\ pc' = [pc EXCEPT ![r] = "done"]
  /\ result' = [result EXCEPT ![r] = res]
  /\ UNCHANGED request

Writes(r) ==
  /\ wrote' = wrote \cup {r}
  /\ alone' = [q \in Requests |-> alone[q] /\ (q = r \/ ~UnderWay(q))]

WritesNothing == UNCHANGED <<wrote, alone>>

(* The client goes away or the connection to the database breaks between   *)
(* two statements: those executed so far stay.                             *)
Cancel(r) == UnderWay(r) /\ Respond(r, "error") /\ WritesNothing

(* The status of the answer: respondError for an error, 500 from the       *)
(* Recover middleware for a handler that dereferences a nil detail; the    *)
(* others pass a nil detail on as null.  200 stands for every success.     *)
Status(res) ==
  CASE res \in {"ok", "nil"}      -> 200
    [] res = "invalid"            -> 400
    [] res = "notFound"           -> 404
    [] res = "refused"            -> 409
    [] res \in {"panic", "error"} -> 500

(* A client that is refused (4xx) may take it that nothing has changed,    *)
(* although most methods execute several statements and commit each one:   *)
(* what can still go wrong after a write is an internal error.             *)
RefusalLeavesNothing ==
  \A r \in wrote : result[r] # "none" => Status(result[r]) \notin 400..499
=============================================================================
