--------------------------- MODULE Reconciliation ---------------------------
(***************************************************************************)
(* repository/reconciliation_service.go next to the transaction service:   *)
(* ReconcileAllAccounts goes through the accounts of a user, compares each *)
(* stored balance with the sum of the account's ledger entries and, if it  *)
(* is told to, overwrites a balance that differs.                          *)
(*                                                                         *)
(* Each of its statements runs on its own, outside a transaction, while    *)
(* creates, deletes and account deletions go on: the sum, the balance with *)
(* its version, and the fix are three steps.  Its results are only logged  *)
(* and returned, so that every way a step can end leads to the next        *)
(* account.  The connections it takes are not counted: MaxConns is to be   *)
(* large enough for everybody.                                             *)
(***************************************************************************)
EXTENDS TransactionService

CONSTANTS
  Reconcilers,  \* the calls of ReconcileAllAccounts
  Asks          \* what one may ask for: a user, and whether to fix

ASSUME AskAssumption == Asks \subseteq [user : Users, fix : BOOLEAN]

VARIABLES
  ask,         \* what each call asks for
  stage,       \* the statement it is about to execute
  todo,        \* the accounts it has still to come to
  acct,        \* the account it is at
  sum,         \* the sum of the ledger entries of that account, as read
  lastTxn,     \* the last transaction among them
  seen,        \* the balance and the version it has read after that
  sumVersion   \* history: the version the account had when the sum was read

reconciliation == <<ask, stage, todo, acct, sum, lastTxn, seen, sumVersion>>
progress       == <<acct, sum, lastTxn, seen, sumVersion>>
allVars        == <<vars, reconciliation>>

ReconciliationTypeOK ==
  /\ ask \in [Reconcilers -> Asks]
  /\ stage \in [Reconcilers -> {"idle", "sum", "read", "fix", "done"}]
  /\ todo \in [Reconcilers -> SUBSET Accounts]
  /\ acct \in [Reconcilers -> Accounts]
  /\ sum \in [Reconcilers -> Int]
  /\ lastTxn \in [Reconcilers -> Creates \cup {None}]
  /\ seen \in [Reconcilers -> [balance : Int, version : Nat]]
  /\ sumVersion \in [Reconcilers -> Nat]

ReconciliationInit ==
  /\ Init
  /\ ask \in [Reconcilers -> Asks]
  /\ stage = [x \in Reconcilers |-> "idle"]
  /\ todo = [x \in Reconcilers |-> {}]
  /\ acct \in [Reconcilers -> Accounts]
  /\ sum = [x \in Reconcilers |-> 0]
  /\ lastTxn = [x \in Reconcilers |-> None]
  /\ seen = [x \in Reconcilers |-> NoRow]
  /\ sumVersion = [x \in Reconcilers |-> 0]

ToStage(x, s) == stage' = [stage EXCEPT ![x] = s]

(* SELECT id FROM accounts: the accounts as they are when the query starts.*)
ListAccounts(x) ==
  /\ stage[x] = "idle"
  /\ todo' = [todo EXCEPT ![x] =
       {a \in Accounts : account[a] = "live" /\ Owner[a] = ask[x].user}]
  /\ ToStage(x, "sum")
  /\ UNCHANGED <<vars, ask, progress>>

(* Mutant: SUM without COALESCE, which is NULL of no rows.                 *)
NullableSum(a) ==
  IF \E e \in ledger : e.account = a
  THEN MapThenSumSet(LAMBDA e : e.amount, {e \in ledger : e.account = a})
  ELSE None

LedgerSum(a) == MapThenSumSet(LAMBDA e : e.amount, {e \in ledger : e.account = a})

(* What MAX(transaction_id) may be: the order of the ids is not modelled.  *)
LastTxns(a) ==
  LET ids == {e.txn : e \in {f \in ledger : f.account = a}}
  IN  IF ids = {} THEN {None} ELSE ids

(* The next account of the list, in whatever order the query returns them, *)
(* and its ledger sum.                                                     *)
SumLedger(x) ==
  /\ stage[x] = "sum"
  /\ \E a \in todo[x], t \in Creates \cup {None} :
       /\ t \in LastTxns(a)
       /\ todo' = [todo EXCEPT ![x] = @ \ {a}]
       /\ acct' = [acct EXCEPT ![x] = a]
       /\ sum' = [sum EXCEPT ![x] = LedgerSum(a)]
       /\ lastTxn' = [lastTxn EXCEPT ![x] = t]
       /\ sumVersion' = [sumVersion EXCEPT ![x] = version[a]]
  /\ ToStage(x, "read")
  /\ UNCHANGED <<vars, ask, seen>>

Finish(x) ==
  /\ stage[x] = "sum" /\ todo[x] = {}
  /\ ToStage(x, "done")
  /\ UNCHANGED <<vars, ask, todo, progress>>

(* SELECT balance, version, and the comparison: only a difference, in a    *)
(* call that is to fix, leads on to the UPDATE.                            *)
ReadBalance(x) ==
  /\ stage[x] = "read"
  /\ \/ /\ account[acct[x]] = "live"
        /\ seen' = [seen EXCEPT ![x] =
             [balance |-> balance[acct[x]], version |-> version[acct[x]]]]
        /\ ToStage(x, IF sum[x] # balance[acct[x]] /\ ask[x].fix THEN "fix" ELSE "sum")
     \/ /\ account[acct[x]] # "live"
        /\ ToStage(x, "sum")
        /\ UNCHANGED seen
  /\ UNCHANGED <<vars, ask, todo, acct, sum, lastTxn, sumVersion>>

(* Mutant: the UPDATE by account id alone.                                 *)
MatchesUnversioned(x) == account[acct[x]] = "live"

(* Mutant: an INSERT ... ON CONFLICT DO UPDATE, which needs no row.        *)
MatchesAlways(x) == TRUE

(* WHERE account_id = $3 AND version = $4                                  *)
Matches(x) == account[acct[x]] = "live" /\ version[acct[x]] = seen[x].version

(* Mutant: no CHECK on the balance.                                        *)
StorableUnchecked(x) == lastTxn[x] \in txns \cup {None}

(* The constraints on the row: balance >= 0, and the foreign key on        *)
(* last_updated_txn.                                                       *)
Storable(x) == Round(sum[x]) >= 0 /\ lastTxn[x] \in txns \cup {None}

(* fixAccountBalance: no row is a conflict and a constraint an error, both *)
(* reported of the account; the UPDATE waits for the row's lock.           *)
Fix(x) ==
  /\ stage[x] = "fix"
  /\ \/ /\ ~Matches(x)
        /\ UNCHANGED vars
     \/ /\ Matches(x) /\ lock[acct[x]] = None
        /\ ~Storable(x)
        /\ UNCHANGED vars
     \/ /\ Matches(x) /\ lock[acct[x]] = None
        /\ Storable(x)
        /\ balance' = [balance EXCEPT ![acct[x]] = Round(sum[x])]
        /\ version' = [version EXCEPT ![acct[x]] = @ + 1]
        /\ UNCHANGED <<account, txns, ledger, opening, dbtx, loop, inputs, pc, shown, result>>
  /\ ToStage(x, "sum")
  /\ UNCHANGED <<ask, todo, progress>>

(* The context is cancelled, or a connection breaks.                       *)
Abandon(x) ==
  /\ stage[x] \in {"sum", "read", "fix"}
  /\ ToStage(x, "done")
  /\ UNCHANGED <<vars, ask, todo, progress>>

ReconcileStep(x) ==
  \/ ListAccounts(x) \/ SumLedger(x) \/ Finish(x) \/ ReadBalance(x) \/ Fix(x) \/ Abandon(x)

ReconciliationNext ==
  \/ Next /\ UNCHANGED reconciliation
  \/ \E x \in Reconcilers : ReconcileStep(x)

ReconciliationSpec == ReconciliationInit /\ [][ReconciliationNext]_allVars

-----------------------------------------------------------------------------
(* Until the version of an account moves, the ledger sum that a reconciler *)
(* has read stays right: whatever posts or deletes an entry of the account *)
(* counts up its version in the same commit.  A fix is therefore right     *)
(* unless something was committed between the two reads of                 *)
(* ReconcileAccount, which is what reading the version first would detect. *)
SumIsCurrent ==
  \A x \in Reconcilers :
    /\ stage[x] \in {"read", "fix"}
    /\ account[acct[x]] = "live"
    /\ version[acct[x]] = sumVersion[x]
    => sum[x] = LedgerBalance(acct[x])

(* A fix never overwrites a balance other than the one it has compared,    *)
(* whoever commits between its SELECT and its UPDATE.                      *)
NoBlindFix ==
  [][\A x \in Reconcilers :
       stage[x] = "fix" /\ stage'[x] = "sum" /\ balance'[acct[x]] # balance[acct[x]]
         => balance[acct[x]] = seen[x].balance]_allVars

(* A fix, seen from the ledger: one live account gets another balance.     *)
Adjust(a) ==
  /\ account[a] = "live"
  /\ balance'[a] >= 0
  /\ balance' = [balance EXCEPT ![a] = balance'[a]]
  /\ UNCHANGED <<account, txns, ledger>>

(* With reconcilers at work the service still implements the ledger, up to *)
(* the balances that fixes overwrite: no request posts, reverses or loses  *)
(* anything else because of them.                                          *)
ImplementsAdjustedLedger ==
  Books!Init /\ [][Books!Next \/ \E a \in Accounts : Adjust(a)]_(Books!books)
=============================================================================
