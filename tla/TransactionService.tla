------------------------ MODULE TransactionService ------------------------
(***************************************************************************)
(* Creating and deleting transactions: internal/service/transaction_service*)
(* .go with the repositories it calls, over the tables transactions_v2,    *)
(* ledger_entries, accounts and account_balances of PostgreSQL at READ     *)
(* COMMITTED, the isolation level pgx's Begin uses.                        *)
(*                                                                         *)
(* Requests run concurrently, one goroutine each.  One action is one SQL   *)
(* statement with the Go code that runs on its result.  What a database    *)
(* transaction has written is kept beside the tables, per request, and     *)
(* reaches them at COMMIT; the row locks it has taken are released at      *)
(* COMMIT or ROLLBACK.                                                     *)
(*                                                                         *)
(* The id of a transaction is the create request that inserts it: ids come *)
(* from a sequence, so no two requests ever get the same one.              *)
(***************************************************************************)
EXTENDS Money, Sequences, FiniteSets, FiniteSetsExt

CONSTANTS
  Users,         \* the authenticated users
  Accounts,      \* ids of the accounts that are ever created
  Owner,         \* the user who creates each account
  Keys,          \* values of the Idempotency-Key header
  NoKey,         \* a create request without that header
  Creates,       \* requests that create a transaction
  Deletes,       \* requests that delete one
  CreateInputs,  \* what a create request may ask for
  DeleteInputs,  \* what a delete request may ask for
  Openings,      \* the opening balances accounts are created with
  MaxConns,      \* the size of the connection pool
  None           \* no request

Requests == Creates \cup Deletes

(* The inputs of CreateIncome, CreateExpense and CreateTransfer.  `to' has *)
(* a meaning for a transfer only, whose `account' is the from-account.     *)
CreateInput ==
  [kind : {"income", "expense", "transfer"}, user : Users, key : Keys \cup {NoKey},
   account : Accounts, to : Accounts, amount : Int, cost : Int]

DeleteInput == [user : Users, txn : Creates]

ASSUME InputAssumption ==
  /\ Owner \in [Accounts -> Users]
  /\ CreateInputs \subseteq CreateInput
  /\ DeleteInputs \subseteq DeleteInput
  /\ Openings \subseteq Nat
  /\ MaxConns \in Nat \ {0}

ASSUME RequestAssumption ==
  /\ Creates \cap Deletes = {}
  /\ None \notin Requests

VARIABLES
  (* committed rows *)
  account,    \* accounts: the life of each id, "absent", "live" or "deleted"
  balance,    \* account_balances.balance
  version,    \* account_balances.version
  txns,       \* transactions_v2: the ids of its rows
  ledger,     \* ledger_entries: [txn, account, amount] rows
  opening,    \* history: the balance each account was opened with
  (* open database transactions *)
  lock,       \* the request holding the row lock of each account_balances row
  inserted,   \* ledger rows a request has inserted and not committed
  written,    \* account_balances rows a request has updated and not committed
  newBalance, \* the balances it has given them
  (* the Go side of each request *)
  create,     \* what a create request asks for
  delete,     \* what a delete request asks for
  pc,         \* the statement it is about to execute
  lines,      \* the ledger lines it loops over ...
  at,         \* ... and its index in them
  row,        \* the balance and the version its last SELECT ... FOR UPDATE returned
  shown,      \* the transaction it will load for its response
  result      \* the response

tables == <<account, balance, version, txns, ledger, opening>>
dbtx   == <<lock, inserted, written, newBalance>>
loop   == <<lines, at, row>>
inputs == <<create, delete>>
vars   == <<tables, dbtx, loop, inputs, pc, shown, result>>

Line  == [account : Accounts, amount : Int]
Entry == [txn : Creates, account : Accounts, amount : Int]

NoRow == [balance |-> 0, version |-> 0]

Steps == {"idle", "lookup", "arbiter", "insert", "winner", "entry", "lock", "update",
          "commit", "enrich", "list", "deleteEntries", "deleteTx", "done"}

Results == {"none", "ok", "nil", "error", "invalid", "notFound", "insufficientFunds",
            "checkViolation", "conflict", "duplicateKey"}

(* The answers of a request that has been refused.                         *)
Refusals == Results \ {"none", "ok", "nil", "error"}

TypeOK ==
  /\ account \in [Accounts -> {"absent", "live", "deleted"}]
  /\ balance \in [Accounts -> Int]
  /\ version \in [Accounts -> Nat]
  /\ txns \subseteq Creates
  /\ ledger \subseteq Entry
  /\ opening \in [Accounts -> Int]
  /\ lock \in [Accounts -> Requests \cup {None}]
  /\ inserted \in [Requests -> SUBSET Entry]
  /\ written \in [Requests -> SUBSET Accounts]
  /\ newBalance \in [Requests -> [Accounts -> Int]]
  /\ create \in [Creates -> CreateInputs]
  /\ delete \in [Deletes -> DeleteInputs]
  /\ pc \in [Requests -> Steps]
  /\ lines \in [Requests -> Seq(Line)]
  /\ at \in [Requests -> Nat]
  /\ row \in [Requests -> [balance : Int, version : Nat]]
  /\ shown \in [Requests -> Creates \cup {None}]
  /\ result \in [Requests -> Results]

Init ==
  /\ account = [a \in Accounts |-> "absent"]
  /\ balance = [a \in Accounts |-> 0]
  /\ version = [a \in Accounts |-> 0]
  /\ txns = {}
  /\ ledger = {}
  /\ opening = [a \in Accounts |-> 0]
  /\ lock = [a \in Accounts |-> None]
  /\ inserted = [r \in Requests |-> {}]
  /\ written = [r \in Requests |-> {}]
  /\ newBalance = [r \in Requests |-> [a \in Accounts |-> 0]]
  /\ create \in [Creates -> CreateInputs]
  /\ delete \in [Deletes -> DeleteInputs]
  /\ pc = [r \in Requests |-> "idle"]
  /\ lines = [r \in Requests |-> <<>>]
  /\ at = [r \in Requests |-> 0]
  /\ row = [r \in Requests |-> NoRow]
  /\ shown = [r \in Requests |-> None]
  /\ result = [r \in Requests |-> "none"]

-----------------------------------------------------------------------------
(* Inputs *)

(* validateTransactionInput and validateTransferInput.                     *)
Valid(in) ==
  /\ in.amount > 0
  /\ in.cost >= 0
  /\ in.kind = "income" => in.cost = 0
  /\ in.kind = "transfer" => in.account # in.to

(* requireAccount, for every account the input names.                      *)
RequireAccount(in) ==
  \A a \in {in.account} \cup (IF in.kind = "transfer" THEN {in.to} ELSE {}) :
    account[a] = "live" /\ Owner[a] = in.user

(* The ledger lines CreateIncome, CreateExpense and CreateTransfer hand    *)
(* over: the cost is paid by the account the money leaves.                 *)
LedgerLines(in) ==
  LET debit(a)  == [account |-> a, amount |-> in.amount]
      credit(a) == [account |-> a, amount |-> -(in.amount + in.cost)]
  IN  CASE in.kind = "income"   -> <<debit(in.account)>>
        [] in.kind = "expense"  -> <<credit(in.account)>>
        [] in.kind = "transfer" -> <<credit(in.account), debit(in.to)>>

-----------------------------------------------------------------------------
(* Database transactions *)

Goto(r, step) == pc' = [pc EXCEPT ![r] = step]

Respond(r, res) ==
  /\ Goto(r, "done")
  /\ result' = [result EXCEPT ![r] = res]

(* A request has one connection of the pool from BEGIN until it returns:   *)
(* conn.Release is deferred, so that the connection is still held while    *)
(* enrichTransactionDetail reads through the pool.                         *)
HoldsConn(r) == pc[r] \notin {"idle", "done"}

(* The pool can give out another connection; Acquire waits otherwise.      *)
ConnAvailable == Cardinality({r \in Requests : HoldsConn(r)}) < MaxConns

(* The end of a database transaction: its row locks, its private writes    *)
(* and the variables of the loop that made them are gone.                  *)
EndTx(r) ==
  /\ lock' = [a \in Accounts |-> IF lock[a] = r THEN None ELSE lock[a]]
  /\ inserted' = [inserted EXCEPT ![r] = {}]
  /\ written' = [written EXCEPT ![r] = {}]
  /\ newBalance' = [newBalance EXCEPT ![r] = [a \in Accounts |-> 0]]
  /\ lines' = [lines EXCEPT ![r] = <<>>]
  /\ at' = [at EXCEPT ![r] = 0]
  /\ row' = [row EXCEPT ![r] = NoRow]

(* Mutant: an error return without the deferred Rollback.                  *)
NoRollback(r, res) ==
  /\ Respond(r, res)
  /\ UNCHANGED <<tables, dbtx, loop, inputs, shown>>

(* An error return: the deferred Rollback and Release run.                 *)
Rollback(r, res) ==
  /\ EndTx(r)
  /\ Respond(r, res)
  /\ UNCHANGED <<tables, inputs, shown>>

(* Mutant: UPDATEs that leave the version alone.                           *)
CommitUnversioned(r) ==
  /\ balance' = [a \in Accounts |->
                   IF a \in written[r] THEN newBalance[r][a] ELSE balance[a]]
  /\ UNCHANGED version

(* What COMMIT does to account_balances: every UPDATE of the transaction   *)
(* has incremented the version of its row.                                 *)
CommitBalances(r) ==
  /\ balance' = [a \in Accounts |->
                   IF a \in written[r] THEN newBalance[r][a] ELSE balance[a]]
  /\ version' = [a \in Accounts |->
                   IF a \in written[r] THEN version[a] + 1 ELSE version[a]]

-----------------------------------------------------------------------------
(* Creating a transaction *)

(* Two keys are equal, which NULL never is.                                *)
SameKey(q, r) == create[r].key # NoKey /\ create[q].key = create[r].key

(* The row of transactions_v2 that q has inserted is not committed yet.    *)
InFlight(q) == q \in Creates /\ pc[q] \in {"entry", "lock", "update", "commit"}

(* GetIDByIdempotencyKeyTx.                                                *)
GetIDByIdempotencyKey(r) ==
  {t \in txns : SameKey(t, r) /\ create[t].user = create[r].user}

(* CreateIncome, CreateExpense, CreateTransfer up to the BEGIN of          *)
(* createTransactionWithLedgerEntries.                                     *)
BeginCreate(r) ==
  /\ pc[r] = "idle"
  /\ \/ /\ ~Valid(create[r])
        /\ Respond(r, "invalid")
     \/ /\ Valid(create[r]) /\ ConnAvailable
        /\ ~RequireAccount(create[r])
        /\ Respond(r, "notFound")
     \/ /\ Valid(create[r]) /\ ConnAvailable
        /\ RequireAccount(create[r])
        /\ Goto(r, IF create[r].key = NoKey THEN "arbiter" ELSE "lookup")
        /\ UNCHANGED result
  /\ UNCHANGED <<tables, dbtx, loop, inputs, shown>>

(* The idempotency lookup: a hit commits the transaction, which has        *)
(* written nothing, and replays the response of the transaction found.     *)
LookupKey(r) ==
  /\ pc[r] = "lookup"
  /\ \/ \E t \in GetIDByIdempotencyKey(r) :
          /\ shown' = [shown EXCEPT ![r] = t]
          /\ Goto(r, "enrich")
     \/ /\ GetIDByIdempotencyKey(r) = {}
        /\ Goto(r, "arbiter")
        /\ UNCHANGED shown
  /\ UNCHANGED <<tables, dbtx, loop, inputs, result>>

(* INSERT ... ON CONFLICT (user_id, idempotency_key) DO NOTHING starts by  *)
(* looking for a conflicting row in that unique index.  It waits for a     *)
(* transaction that has inserted one and is still open, and returns no row *)
(* if there is a committed one.                                            *)
ArbiterWaits(r, q) == InFlight(q) /\ SameKey(q, r) /\ create[q].user = create[r].user

CheckArbiter(r) ==
  /\ pc[r] = "arbiter"
  /\ \A q \in Creates \ {r} : ~ArbiterWaits(r, q)
  /\ Goto(r, IF GetIDByIdempotencyKey(r) = {} THEN "insert" ELSE "winner")
  /\ UNCHANGED <<tables, dbtx, loop, inputs, shown, result>>

(* It then inserts the row into every index of the table.  The column      *)
(* constraint idempotency_key TEXT UNIQUE of migration 0004, which 0008    *)
(* leaves in place (it drops only the partial index), is older than the    *)
(* index named in ON CONFLICT and so is met first: a key some other        *)
(* transaction of any user holds is a unique violation there, once that    *)
(* transaction is no longer open.                                          *)
UniqueWaits(r, q) == InFlight(q) /\ SameKey(q, r)

(* Mutant: no unique index on the key.                                     *)
NoUniqueIndex(r) == FALSE

UniqueViolation(r) == \E t \in txns : SameKey(t, r)

InsertTx(r) ==
  /\ pc[r] = "insert"
  /\ \A q \in Creates \ {r} : ~UniqueWaits(r, q)
  /\ \/ /\ UniqueViolation(r)
        /\ Rollback(r, "duplicateKey")
     \/ /\ ~UniqueViolation(r)
        /\ lines' = [lines EXCEPT ![r] = LedgerLines(create[r])]
        /\ at' = [at EXCEPT ![r] = 1]
        /\ shown' = [shown EXCEPT ![r] = r]
        /\ Goto(r, "entry")
        /\ UNCHANGED <<tables, dbtx, inputs, row, result>>

(* The lookup after a lost race, which only a request with a key can lose: *)
(* the winner may have been deleted since.                                 *)
LookupWinner(r) ==
  /\ pc[r] = "winner"
  /\ \/ /\ create[r].key # NoKey
        /\ \E t \in GetIDByIdempotencyKey(r) :
             /\ shown' = [shown EXCEPT ![r] = t]
             /\ Goto(r, "enrich")
        /\ UNCHANGED <<tables, dbtx, loop, inputs, result>>
     \/ /\ create[r].key = NoKey \/ GetIDByIdempotencyKey(r) = {}
        /\ Rollback(r, "error")

Current(r) == lines[r][at[r]]

(* The row CreateLedgerEntryTx inserts for the current line; the mutant    *)
(* loses the id the INSERT of the transaction returned.                    *)
UnlinkedRow(r) ==
  [txn |-> None, account |-> Current(r).account, amount |-> Round(Current(r).amount)]

EntryRow(r) ==
  [txn |-> r, account |-> Current(r).account, amount |-> Round(Current(r).amount)]

(* CreateLedgerEntryTx: the foreign key fails if the account is gone, and  *)
(* otherwise share-locks its row until the transaction ends.               *)
InsertEntry(r) ==
  /\ pc[r] = "entry"
  /\ \/ /\ account[Current(r).account] # "live"
        /\ Rollback(r, "error")
     \/ /\ account[Current(r).account] = "live"
        /\ inserted' = [inserted EXCEPT ![r] = @ \cup {EntryRow(r)}]
        /\ Goto(r, "lock")
        /\ UNCHANGED <<tables, lock, written, newBalance, loop, inputs, shown, result>>

(* Mutant: a delete that applies the line again.                           *)
DeltaAgain(r) == Current(r).amount

(* What the current line adds to the balance: a delete reverses it.        *)
Delta(r) == IF r \in Creates THEN Current(r).amount ELSE -Current(r).amount

(* The row lock of account_balances is free for r.                         *)
Lockable(r) == lock[Current(r).account] \in {None, r}

(* Mutant: only a create checks the balance.                               *)
InsufficientForCreate(r, a) == r \in Creates /\ balance[a] + Delta(r) < 0

(* newBalance < 0                                                          *)
Insufficient(r, a) == balance[a] + Delta(r) < 0

(* Mutant: a SELECT without FOR UPDATE.                                    *)
PlainSelect(r, a) == UNCHANGED lock

ForUpdate(r, a) == lock' = [lock EXCEPT ![a] = r]

(* GetBalanceForUpdateTx waits for the row lock; an insufficient balance   *)
(* is refused before anything is written.                                  *)
LockBalance(r) ==
  /\ pc[r] = "lock"
  /\ Lockable(r)
  /\ LET a == Current(r).account
     IN  \/ /\ account[a] # "live"
            /\ Rollback(r, "error")
         \/ /\ account[a] = "live" /\ Insufficient(r, a)
            /\ Rollback(r, "insufficientFunds")
         \/ /\ account[a] = "live" /\ ~Insufficient(r, a)
            /\ ForUpdate(r, a)
            /\ row' = [row EXCEPT ![r] = [balance |-> balance[a], version |-> version[a]]]
            /\ Goto(r, "update")
            /\ UNCHANGED <<tables, inserted, written, newBalance, inputs, lines, at, shown,
                           result>>

(* Mutant: the loop ends after its first line.                             *)
FirstLineOnly(r) ==
  /\ at' = [at EXCEPT ![r] = @ + 1]
  /\ Goto(r, IF r \in Creates THEN "commit" ELSE "deleteEntries")

(* The next iteration of the loop, or what follows it.                     *)
NextLine(r) ==
  /\ at' = [at EXCEPT ![r] = @ + 1]
  /\ Goto(r, IF at[r] < Len(lines[r])
             THEN IF r \in Creates THEN "entry" ELSE "lock"
             ELSE IF r \in Creates THEN "commit" ELSE "deleteEntries")

(* UpdateBalanceTx and ReverseBalanceTx: UPDATE ... WHERE version = $4.  An*)
(* UPDATE takes the row lock itself, and CHECK (balance >= 0) of migration *)
(* 0013 aborts it.                                                         *)
UpdateBalance(r) ==
  /\ pc[r] = "update"
  /\ Lockable(r)
  /\ LET a   == Current(r).account
         new == Round(row[r].balance + Delta(r))
     IN  \/ /\ version[a] # row[r].version
            /\ Rollback(r, "conflict")
         \/ /\ version[a] = row[r].version /\ new < 0
            /\ Rollback(r, "checkViolation")
         \/ /\ version[a] = row[r].version /\ new >= 0
            /\ lock' = [lock EXCEPT ![a] = r]
            /\ written' = [written EXCEPT ![r] = @ \cup {a}]
            /\ newBalance' = [newBalance EXCEPT ![r][a] = new]
            /\ NextLine(r)
            /\ UNCHANGED <<tables, inserted, lines, row, inputs, shown, result>>

(* Mutant: the error of COMMIT is not looked at.                           *)
CommitUnchecked(r) ==
  /\ pc[r] = "commit"
  /\ EndTx(r)
  /\ Goto(r, "enrich")
  /\ UNCHANGED <<tables, inputs, shown, result>>

CommitCreate(r) ==
  /\ pc[r] = "commit"
  /\ txns' = txns \cup {r}
  /\ ledger' = ledger \cup inserted[r]
  /\ CommitBalances(r)
  /\ EndTx(r)
  /\ Goto(r, "enrich")
  /\ UNCHANGED <<account, opening, inputs, shown, result>>

(* enrichTransactionDetail, on a second connection: GetByID finds nothing  *)
(* if the transaction has been deleted since, and the caller gets a nil    *)
(* detail and a nil error.                                                 *)
Enrich(r) ==
  /\ pc[r] = "enrich"
  /\ ConnAvailable
  /\ Respond(r, IF shown[r] \in txns /\ create[shown[r]].user = create[r].user
                THEN "ok" ELSE "nil")
  /\ UNCHANGED <<tables, dbtx, loop, inputs, shown>>

CreateStep(r) ==
  \/ BeginCreate(r) \/ LookupKey(r) \/ CheckArbiter(r) \/ InsertTx(r) \/ LookupWinner(r)
  \/ InsertEntry(r) \/ LockBalance(r) \/ UpdateBalance(r) \/ CommitCreate(r) \/ Enrich(r)

-----------------------------------------------------------------------------
(* Deleting a transaction *)

Target(d) == delete[d].txn

(* GetByID for the user, before the database transaction begins.           *)
BeginDelete(d) ==
  /\ pc[d] = "idle"
  /\ ConnAvailable
  /\ \/ /\ Target(d) \in txns /\ create[Target(d)].user = delete[d].user
        /\ Goto(d, "list")
        /\ UNCHANGED result
     \/ /\ ~(Target(d) \in txns /\ create[Target(d)].user = delete[d].user)
        /\ Respond(d, "notFound")
  /\ UNCHANGED <<tables, dbtx, loop, inputs, shown>>

EntriesOf(t) == {e \in ledger : e.txn = t}

(* The orders in which ListByTransactionTx may return the entries: it      *)
(* sorts by created_at, which is now(), the same for every entry of one    *)
(* transaction.                                                            *)
Orders(entries) ==
  {s \in [1..Cardinality(entries) -> entries] : IsInjective(s)}

ListEntries(d) ==
  /\ pc[d] = "list"
  /\ \E s \in Orders(EntriesOf(Target(d))) :
       /\ lines' = [lines EXCEPT ![d] =
            [i \in DOMAIN s |-> [account |-> s[i].account, amount |-> s[i].amount]]]
       /\ Goto(d, IF s = <<>> THEN "deleteEntries" ELSE "lock")
  /\ at' = [at EXCEPT ![d] = 1]
  /\ UNCHANGED <<tables, dbtx, inputs, row, shown, result>>

(* A delete waits for another one that has deleted the same rows and is    *)
(* still open.                                                             *)
RowsWait(d, q) ==
  /\ d \in Deletes /\ q \in Deletes
  /\ Target(q) = Target(d)
  /\ \/ pc[d] = "deleteEntries" /\ pc[q] \in {"deleteTx", "commit"}
     \/ pc[d] = "deleteTx" /\ pc[q] = "commit"

DeleteEntries(d) ==
  /\ pc[d] = "deleteEntries"
  /\ \A q \in Deletes \ {d} : ~RowsWait(d, q)
  /\ Goto(d, "deleteTx")
  /\ UNCHANGED <<tables, dbtx, loop, inputs, shown, result>>

(* Mutant: DeleteTx's count of rows is not looked at.                      *)
DeleteTxUnchecked(d) ==
  /\ pc[d] = "deleteTx"
  /\ \A q \in Deletes \ {d} : ~RowsWait(d, q)
  /\ Goto(d, "commit")
  /\ UNCHANGED <<tables, dbtx, loop, inputs, shown, result>>

(* DeleteTx, and the rollback if it finds no row.                          *)
DeleteTx(d) ==
  /\ pc[d] = "deleteTx"
  /\ \A q \in Deletes \ {d} : ~RowsWait(d, q)
  /\ \/ /\ Target(d) \in txns
        /\ Goto(d, "commit")
        /\ UNCHANGED <<tables, dbtx, loop, inputs, shown, result>>
     \/ /\ Target(d) \notin txns
        /\ Rollback(d, "notFound")

(* The response to a COMMIT may be lost: the client sees an error and the  *)
(* transaction is deleted all the same.                                    *)
CommitDelete(d) ==
  /\ pc[d] = "commit"
  /\ txns' = txns \ {Target(d)}
  /\ ledger' = ledger \ EntriesOf(Target(d))
  /\ CommitBalances(d)
  /\ EndTx(d)
  /\ \E res \in {"ok", "error"} : Respond(d, res)
  /\ UNCHANGED <<account, opening, inputs, shown>>

DeleteStep(d) ==
  \/ BeginDelete(d) \/ ListEntries(d) \/ LockBalance(d) \/ UpdateBalance(d)
  \/ DeleteEntries(d) \/ DeleteTx(d) \/ CommitDelete(d)

-----------------------------------------------------------------------------
(* Accounts *)

(* AccountsService.Create: the account and its balance row, in one         *)
(* transaction.  No ledger entry records the opening balance.              *)
CreateAccount(a) ==
  /\ account[a] = "absent"
  /\ account' = [account EXCEPT ![a] = "live"]
  /\ \E o \in Openings :
       /\ balance' = [balance EXCEPT ![a] = Round(o)]
       /\ opening' = [opening EXCEPT ![a] = Round(o)]
  /\ version' = [version EXCEPT ![a] = 1]
  /\ UNCHANGED <<txns, ledger, dbtx, loop, inputs, pc, shown, result>>

(* AccountsService.Delete: one statement, which cascades to the balance    *)
(* row and to the ledger entries of the account.  It waits for the row     *)
(* locks of open transactions: the balance row, and the account row that   *)
(* an uncommitted ledger entry share-locks.                                *)
DeleteAccount(a) ==
  /\ account[a] = "live"
  /\ lock[a] = None
  /\ \A r \in Requests : \A e \in inserted[r] : e.account # a
  /\ account' = [account EXCEPT ![a] = "deleted"]
  /\ balance' = [balance EXCEPT ![a] = 0]
  /\ version' = [version EXCEPT ![a] = 0]
  /\ ledger' = {e \in ledger : e.account # a}
  /\ UNCHANGED <<txns, opening, dbtx, loop, inputs, pc, shown, result>>

-----------------------------------------------------------------------------
(* Failures and waiting *)

(* The request's context is cancelled, its connection breaks or the        *)
(* process dies: the database rolls an open transaction back.  At "enrich" *)
(* the transaction is committed and only the response is lost.             *)
Fail(r) ==
  /\ HoldsConn(r)
  /\ Rollback(r, "error")

(* r cannot execute its next statement before q's transaction ends.        *)
WaitsFor(r, q) ==
  /\ r # q
  /\ \/ pc[r] \in {"lock", "update"} /\ lock[Current(r).account] = q
     \/ pc[r] = "arbiter" /\ ArbiterWaits(r, q)
     \/ pc[r] = "insert" /\ UniqueWaits(r, q)
     \/ RowsWait(r, q)

OnCycle(r) ==
  \E C \in SUBSET Requests :
    /\ r \in C
    /\ \A p \in C : (\E q \in C : WaitsFor(p, q)) /\ (\E q \in C : WaitsFor(q, p))

(* PostgreSQL's deadlock detector aborts a transaction on a cycle of waits.*)
DeadlockDetected(r) ==
  /\ OnCycle(r)
  /\ Rollback(r, "error")

(* All the requests of the instance have been answered.                    *)
Quiescent ==
  /\ \A r \in Requests : pc[r] = "done"
  /\ UNCHANGED vars

Next ==
  \/ \E r \in Creates : CreateStep(r)
  \/ \E d \in Deletes : DeleteStep(d)
  \/ \E a \in Accounts : CreateAccount(a) \/ DeleteAccount(a)
  \/ \E r \in Requests : Fail(r) \/ DeadlockDetected(r)
  \/ Quiescent

Spec == Init /\ [][Next]_vars

-----------------------------------------------------------------------------
(* Safety *)

LedgerBalance(a) == MapThenSumSet(LAMBDA e : e.amount, {e \in ledger : e.account = a})

(* The stored balance of an account, which every create and delete reads,  *)
(* adds to and writes back under a row lock, is its opening balance plus   *)
(* the sum of its committed ledger entries, whatever requests interleave,  *)
(* fail or are retried.                                                    *)
BalanceConsistent ==
  \A a \in Accounts : account[a] = "live" => balance[a] = opening[a] + LedgerBalance(a)

(* No committed balance is negative, and it is never left to the CHECK of  *)
(* migration 0013 to see to that: newBalance < 0 is checked on a balance   *)
(* that is still current when the new one is written, both when a create   *)
(* takes money out and when a delete takes back an income.                 *)
NoOverdraft ==
  /\ \A a \in Accounts : balance[a] >= 0
  /\ \A r \in Requests : result[r] # "checkViolation"

(* A key names at most one transaction of a user, although the lookup and  *)
(* the insert of createTransactionWithLedgerEntries are two statements.    *)
OneTransactionPerKey ==
  \A t, u \in txns : SameKey(t, u) /\ create[t].user = create[u].user => t = u

(* The entries a committed transaction has in the ledger are all those its *)
(* input calls for, less the ones that went with a deleted account; a      *)
(* transaction that is not committed, or is deleted, has none.             *)
AllOrNothing ==
  ledger = {e \in UNION {{[txn |-> t, account |-> l.account, amount |-> Round(l.amount)] :
                            l \in Range(LedgerLines(create[t]))} : t \in txns} :
              account[e.account] = "live"}

(* The version check of UpdateBalanceTx and ReverseBalanceTx never fails   *)
(* between creates and deletes: no request answers "concurrent balance     *)
(* update detected, please retry", since each one reads the version under  *)
(* the row lock.                                                           *)
NoVersionConflict == \A r \in Requests : result[r] # "conflict"

(* A delete has taken the transaction away, on behalf of its own user.     *)
Undone(t) ==
  /\ t \notin txns
  /\ \E d \in Deletes :
       Target(d) = t /\ delete[d].user = create[t].user /\ result[d] \in {"ok", "error"}

(* A client that sends a request again under its key is told of the same   *)
(* transaction each time, however its attempts interleave and whichever of *)
(* them inserts the row, unless that transaction has been deleted.         *)
RepliesAgree ==
  \A r, q \in Creates :
    /\ result[r] \in {"ok", "nil"} /\ result[q] \in {"ok", "nil"}
    /\ SameKey(q, r) /\ create[q].user = create[r].user
    => shown[r] = shown[q] \/ Undone(shown[r]) \/ Undone(shown[q])

(* An answer stays true, whatever fails or is retried after it: the        *)
(* transaction a create has answered with is there until its user deletes  *)
(* it, a create without a detail in its answer has lost its transaction    *)
(* that way, one that was refused has left none behind, and one that was   *)
(* deleted does not come back.                                             *)
AnswersStand ==
  /\ \A r \in Creates :
       /\ result[r] = "ok" => shown[r] \in txns \/ Undone(shown[r])
       /\ result[r] = "nil" => Undone(shown[r])
       /\ result[r] \in Refusals => r \notin txns
  /\ \A d \in Deletes : result[d] = "ok" => Target(d) \notin txns

(* Of several requests deleting the same transaction, at most one succeeds,*)
(* though each may have reversed the balances in its own transaction.      *)
OneDeleteSucceeds ==
  \A d, q \in Deletes :
    result[d] = "ok" /\ result[q] = "ok" /\ Target(d) = Target(q) => d = q

-----------------------------------------------------------------------------
(* What the documentation says and the code does not do *)

(* "Idempotency keys should be scoped to the caller (user), not the whole  *)
(* app" (migration 0008): a create is refused as a duplicate only if       *)
(* another request of the same user has the same key.                      *)
KeysScopedToUser ==
  \A r \in Creates : result[r] = "duplicateKey" =>
    \E q \in Creates \ {r} : SameKey(q, r) /\ create[q].user = create[r].user

-----------------------------------------------------------------------------
(* Refinement *)

Books == INSTANCE Ledger WITH
  Accounts <- Accounts, Creates <- Creates,
  account <- account, balance <- balance, txns <- txns, ledger <- ledger

(* The service implements the ledger of module Ledger: its tables, as      *)
(* other transactions see them, change only by posting or reversing a      *)
(* whole transaction, by exactly the amounts entered, or by opening or     *)
(* closing an account.                                                     *)
ImplementsLedger == Books!Spec

-----------------------------------------------------------------------------
(* Liveness *)

(* A request's goroutine keeps running once it has started, a statement    *)
(* that can execute does, and the deadlock detector runs.  No request has  *)
(* to be sent, and none has to fail.                                       *)
Fairness ==
  /\ \A r \in Creates : WF_vars(pc[r] # "idle" /\ CreateStep(r))
  /\ \A d \in Deletes : WF_vars(pc[d] # "idle" /\ DeleteStep(d))
  /\ \A r \in Requests : WF_vars(DeadlockDetected(r))

FairSpec == Spec /\ Fairness

(* Every request that starts is answered: row locks are always released,   *)
(* and transfers in opposite directions, or deletes that lock the two legs *)
(* of a transfer in either order, do not wait for each other for ever.     *)
EveryRequestAnswered == \A r \in Requests : pc[r] # "idle" ~> pc[r] = "done"
=============================================================================
