---------------------- MODULE TransactionServiceProofs ----------------------
(***************************************************************************)
(* Theorems about TransactionService, for any set of users, accounts,      *)
(* keys, requests and inputs, any pool size and any Scale.                 *)
(***************************************************************************)
EXTENDS TransactionService, FiniteSetTheorems, TLAPS

(* A request that has a row lock is between its first SELECT ... FOR       *)
(* UPDATE and the end of its database transaction, and the account whose   *)
(* balance row it has locked exists.                                       *)
Locking == {"entry", "lock", "update", "commit", "deleteEntries", "deleteTx"}

LocksHeld ==
  \A a \in Accounts : lock[a] # None => /\ pc[lock[a]] \in Locking
                                        /\ account[a] = "live"

(* An account's uncommitted balance is written by the holder of its lock.  *)
WritesLocked == \A r \in Requests : \A a \in written[r] : lock[a] = r

(* The loop variables point at a line while the loop runs.                 *)
InLoop ==
  \A r \in Requests : pc[r] \in {"entry", "lock", "update"} => at[r] \in 1..Len(lines[r])

(* What SELECT ... FOR UPDATE returned is still true at the UPDATE.        *)
RowCurrent ==
  \A r \in Requests : pc[r] = "update" =>
    LET a == Current(r).account
    IN  /\ lock[a] = r
        /\ row[r] = [balance |-> balance[a], version |-> version[a]]
        /\ ~Insufficient(r, a)

(* No balance is negative, committed or not.                               *)
NonNegative ==
  /\ NoOverdraft
  /\ \A r \in Requests : \A a \in written[r] : newBalance[r][a] >= 0

(* The answers that the row locks make impossible.                         *)
Unreached == {"conflict", "checkViolation"}

LockPart == LocksHeld /\ WritesLocked /\ RowCurrent /\ NonNegative /\ NoVersionConflict

-----------------------------------------------------------------------------
(* Operators *)

(* A non-negative amount rounds to a non-negative amount, a negative one   *)
(* to one that is not positive: rounding never changes the sign of what    *)
(* the service computed.                                                   *)
LEMMA RoundType ==
  ASSUME NEW x \in Int
  PROVE  Round(x) \in Int /\ (x >= 0 => Round(x) >= 0)
<1> DEFINE q(n) == (2 * n + Scale) \div (2 * Scale)
<1>1. Scale \in Nat /\ Scale > 0
  BY ScaleAssumption
<1>2. ASSUME NEW n \in Nat
      PROVE  q(n) \in Int /\ q(n) >= 0
  <2>1. 2 * n + Scale \in Nat /\ 2 * Scale \in Nat /\ 2 * Scale > 0
    BY <1>1
  <2>2. \A a, b \in Nat : b > 0 => a \div b \in Int /\ a \div b >= 0
    OBVIOUS
  <2>3. QED
    BY <2>1, <2>2
<1>3. ASSUME NEW n \in Nat
      PROVE  RoundUp(n) \in Int /\ RoundUp(n) >= 0
  <2>1. q(n) \in Int /\ q(n) >= 0
    BY <1>2
  <2> HIDE DEF q
  <2>2. q(n) * Scale \in Int /\ q(n) * Scale >= 0
    BY <2>1, <1>1
  <2>3. QED
    BY <2>2 DEF RoundUp, q
<1>4. QED
  BY <1>3 DEF Round

(* The ledger lines of an input are one or two typed lines.                *)
LEMMA LedgerLinesType ==
  ASSUME NEW in \in CreateInput
  PROVE  LedgerLines(in) \in Seq(Line) /\ Len(LedgerLines(in)) >= 1
<1>1. in.account \in Accounts /\ in.to \in Accounts /\ in.amount \in Int /\ in.cost \in Int
  BY DEF CreateInput
<1>2. CASE in.kind = "income"
  BY <1>1, <1>2 DEF LedgerLines, Line
<1>3. CASE in.kind = "expense"
  BY <1>1, <1>3 DEF LedgerLines, Line
<1>4. CASE in.kind = "transfer"
  BY <1>1, <1>4 DEF LedgerLines, Line
<1>5. QED
  BY <1>2, <1>3, <1>4 DEF CreateInput

-----------------------------------------------------------------------------
(* Type correctness *)

(* The rows are finitely many, which the orders in which a delete lists    *)
(* the entries of its transaction rely on.                                 *)
FiniteRows == IsFiniteSet(ledger) /\ \A r \in Requests : IsFiniteSet(inserted[r])

TypeInv == TypeOK /\ FiniteRows

USE InputAssumption DEF Requests

(* The end of a database transaction keeps every variable it touches in    *)
(* its type.                                                               *)
LEMMA EndTxType ==
  ASSUME TypeInv, NEW r \in Requests, EndTx(r)
  PROVE  /\ lock' \in [Accounts -> Requests \cup {None}]
         /\ inserted' \in [Requests -> SUBSET Entry]
         /\ \A q \in Requests : IsFiniteSet(inserted'[q])
         /\ written' \in [Requests -> SUBSET Accounts]
         /\ newBalance' \in [Requests -> [Accounts -> Int]]
         /\ lines' \in [Requests -> Seq(Line)]
         /\ at' \in [Requests -> Nat]
         /\ row' \in [Requests -> [balance : Int, version : Nat]]
<1> USE DEF TypeInv, TypeOK, EndTx
<1>1. /\ lock' \in [Accounts -> Requests \cup {None}]
      /\ inserted' \in [Requests -> SUBSET Entry]
      /\ written' \in [Requests -> SUBSET Accounts]
      /\ at' \in [Requests -> Nat]
  OBVIOUS
<1>2. newBalance' \in [Requests -> [Accounts -> Int]]
  OBVIOUS
<1>3. row' \in [Requests -> [balance : Int, version : Nat]]
  BY DEF NoRow
<1>4. lines' \in [Requests -> Seq(Line)]
  <2>1. <<>> \in Seq(Line)
    OBVIOUS
  <2>2. QED
    BY <2>1
<1>5. \A q \in Requests : IsFiniteSet(inserted'[q])
  BY FS_EmptySet DEF FiniteRows
<1>6. QED
  BY <1>1, <1>2, <1>3, <1>4, <1>5

LEMMA RollbackType ==
  ASSUME TypeInv, NEW r \in Requests, NEW res \in Results, Rollback(r, res)
  PROVE  TypeInv'
<1>1. EndTx(r) /\ Respond(r, res) /\ UNCHANGED <<tables, inputs, shown>>
  BY DEF Rollback
<1>2. pc' \in [Requests -> Steps] /\ result' \in [Requests -> Results]
  BY <1>1 DEF Respond, Goto, TypeInv, TypeOK, Steps
<1>3. QED
  BY <1>1, <1>2, EndTxType DEF TypeInv, TypeOK, FiniteRows, tables, inputs

(* The current line of a loop.                                             *)
LEMMA CurrentType ==
  ASSUME TypeOK, NEW r \in Requests, at[r] \in 1..Len(lines[r])
  PROVE  /\ Current(r) \in Line
         /\ Current(r).account \in Accounts
         /\ Current(r).amount \in Int
         /\ Delta(r) \in Int
<1>1. lines[r] \in Seq(Line)
  BY DEF TypeOK
<1>2. Current(r) \in Line
  BY <1>1 DEF Current
<1>3. QED
  BY <1>2 DEF Line, Delta

(* The index of a loop stays in its lines: InLoop is preserved together    *)
(* with the types, which need it for the current line.                     *)
BaseInv == TypeInv /\ InLoop

LEMMA RollbackBase ==
  ASSUME BaseInv, NEW r \in Requests, NEW res \in Results, Rollback(r, res)
  PROVE  BaseInv'
<1>1. TypeInv'
  BY RollbackType DEF BaseInv
<1>2. InLoop'
  BY DEF BaseInv, TypeInv, TypeOK, InLoop, Rollback, EndTx, Respond, Goto
<1>3. QED
  BY <1>1, <1>2 DEF BaseInv

(* Actions that move a request on and touch nothing typed but pc, shown    *)
(* and result.                                                             *)
LEMMA MoveBase ==
  ASSUME BaseInv, NEW r \in Requests, NEW step \in Steps \ {"entry", "lock", "update"},
         Goto(r, step),
         shown' \in [Requests -> Creates \cup {None}],
         result' \in [Requests -> Results],
         UNCHANGED <<tables, dbtx, loop, inputs>>
  PROVE  BaseInv'
BY DEF BaseInv, TypeInv, TypeOK, FiniteRows, InLoop, Goto, tables, dbtx, loop, inputs

(* ... and its answer, or the transaction it shows. *)
LEMMA RespondBase ==
  ASSUME BaseInv, NEW r \in Requests, NEW res \in Results, Respond(r, res),
         UNCHANGED <<tables, dbtx, loop, inputs, shown>>
  PROVE  BaseInv'
<1>1. result' \in [Requests -> Results] /\ shown' \in [Requests -> Creates \cup {None}]
  BY DEF Respond, BaseInv, TypeInv, TypeOK
<1>2. QED
  BY <1>1, MoveBase DEF Respond, Steps

LEMMA GotoBase ==
  ASSUME BaseInv, NEW r \in Requests, NEW step \in Steps \ {"entry", "lock", "update"},
         Goto(r, step),
         UNCHANGED <<tables, dbtx, loop, inputs, shown, result>>
  PROVE  BaseInv'
<1>1. result' \in [Requests -> Results] /\ shown' \in [Requests -> Creates \cup {None}]
  BY DEF BaseInv, TypeInv, TypeOK
<1>2. QED
  BY <1>1, MoveBase

LEMMA FoundBase ==
  ASSUME BaseInv, NEW r \in Creates, NEW t \in GetIDByIdempotencyKey(r),
         shown' = [shown EXCEPT ![r] = t],
         Goto(r, "enrich"),
         UNCHANGED <<tables, dbtx, loop, inputs, result>>
  PROVE  BaseInv'
<1>1. result' \in [Requests -> Results] /\ shown' \in [Requests -> Creates \cup {None}]
  BY DEF BaseInv, TypeInv, TypeOK, GetIDByIdempotencyKey
<1>2. QED
  BY <1>1, MoveBase DEF Steps

LEMMA BaseCreateSteps ==
  ASSUME BaseInv, NEW r \in Creates,
         BeginCreate(r) \/ LookupKey(r) \/ CheckArbiter(r) \/ LookupWinner(r) \/ Enrich(r)
  PROVE  BaseInv'
<1>1. CASE BeginCreate(r)
  BY <1>1, RespondBase, GotoBase DEF BeginCreate, Steps, Results
<1>2. CASE LookupKey(r)
  BY <1>2, FoundBase, GotoBase DEF LookupKey, Steps
<1>3. CASE CheckArbiter(r)
  BY <1>3, GotoBase DEF CheckArbiter, Steps
<1>4. CASE LookupWinner(r)
  BY <1>4, FoundBase, RollbackBase DEF LookupWinner, Results
<1>5. CASE Enrich(r)
  BY <1>5, RespondBase DEF Enrich, Results
<1>6. QED
  BY <1>1, <1>2, <1>3, <1>4, <1>5

LEMMA BaseInsertTx ==
  ASSUME BaseInv, NEW r \in Creates, InsertTx(r)
  PROVE  BaseInv'
<1>1. CASE Rollback(r, "duplicateKey")
  BY <1>1, RollbackBase DEF Results
<1>2. CASE /\ lines' = [lines EXCEPT ![r] = LedgerLines(create[r])]
           /\ at' = [at EXCEPT ![r] = 1]
           /\ shown' = [shown EXCEPT ![r] = r]
           /\ Goto(r, "entry")
           /\ UNCHANGED <<tables, dbtx, inputs, row, result>>
  <2>1. create[r] \in CreateInput
    BY DEF BaseInv, TypeInv, TypeOK
  <2>2. LedgerLines(create[r]) \in Seq(Line) /\ Len(LedgerLines(create[r])) >= 1
    BY <2>1, LedgerLinesType
  <2>3. TypeInv'
    BY <1>2, <2>2 DEF BaseInv, TypeInv, TypeOK, FiniteRows, Goto, Steps, tables, dbtx, inputs
  <2>4. InLoop'
    BY <1>2, <2>2 DEF BaseInv, TypeInv, TypeOK, InLoop, Goto
  <2>5. QED
    BY <2>3, <2>4 DEF BaseInv
<1>3. QED
  BY <1>1, <1>2 DEF InsertTx

LEMMA BaseInsertEntry ==
  ASSUME BaseInv, NEW r \in Creates, InsertEntry(r)
  PROVE  BaseInv'
<1>1. CASE Rollback(r, "error")
  BY <1>1, RollbackBase DEF Results
<1>2. CASE /\ inserted' = [inserted EXCEPT ![r] = @ \cup {EntryRow(r)}]
           /\ Goto(r, "lock")
           /\ UNCHANGED <<tables, lock, written, newBalance, loop, inputs, shown, result>>
  <2>1. at[r] \in 1..Len(lines[r])
    BY DEF InsertEntry, BaseInv, InLoop
  <2>2. EntryRow(r) \in Entry
    BY <2>1, CurrentType, RoundType DEF EntryRow, Entry, BaseInv, TypeInv
  <2>3. /\ inserted' \in [Requests -> SUBSET Entry]
        /\ \A q \in Requests : IsFiniteSet(inserted'[q])
    <3>1. inserted \in [Requests -> SUBSET Entry] /\ \A q \in Requests : IsFiniteSet(inserted[q])
      BY DEF BaseInv, TypeInv, TypeOK, FiniteRows
    <3>2. IsFiniteSet(inserted[r] \cup {EntryRow(r)})
      BY <3>1, FS_AddElement
    <3>3. QED
      BY <1>2, <2>2, <3>1, <3>2
  <2>4. TypeInv'
    BY <1>2, <2>3 DEF BaseInv, TypeInv, TypeOK, FiniteRows, Goto, Steps, tables, loop, inputs
  <2>5. InLoop'
    BY <1>2, <2>1 DEF BaseInv, TypeInv, TypeOK, InLoop, Goto, loop
  <2>6. QED
    BY <2>4, <2>5 DEF BaseInv
<1>3. QED
  BY <1>1, <1>2 DEF InsertEntry

LEMMA BaseLockBalance ==
  ASSUME BaseInv, NEW r \in Requests, LockBalance(r)
  PROVE  BaseInv'
<1> DEFINE a == Current(r).account
<1>1. CASE \E res \in {"error", "insufficientFunds"} : Rollback(r, res)
  BY <1>1, RollbackBase DEF Results
<1>2. CASE /\ ForUpdate(r, a)
           /\ row' = [row EXCEPT ![r] = [balance |-> balance[a], version |-> version[a]]]
           /\ Goto(r, "update")
           /\ UNCHANGED <<tables, inserted, written, newBalance, inputs, lines, at, shown,
                          result>>
  <2>1. at[r] \in 1..Len(lines[r]) /\ a \in Accounts
    BY CurrentType DEF LockBalance, BaseInv, InLoop, TypeInv
  <2>2. /\ lock' \in [Accounts -> Requests \cup {None}]
        /\ row' \in [Requests -> [balance : Int, version : Nat]]
    BY <1>2, <2>1 DEF BaseInv, TypeInv, TypeOK, ForUpdate
  <2>3. TypeInv'
    BY <1>2, <2>2 DEF BaseInv, TypeInv, TypeOK, FiniteRows, Goto, Steps, tables, inputs
  <2>4. InLoop'
    BY <1>2, <2>1 DEF BaseInv, TypeInv, TypeOK, InLoop, Goto
  <2>5. QED
    BY <2>3, <2>4 DEF BaseInv
<1>3. QED
  BY <1>1, <1>2 DEF LockBalance

LEMMA BaseUpdateBalance ==
  ASSUME BaseInv, NEW r \in Requests, UpdateBalance(r)
  PROVE  BaseInv'
<1> DEFINE a == Current(r).account
<1>1. CASE \E res \in {"conflict", "checkViolation"} : Rollback(r, res)
  BY <1>1, RollbackBase DEF Results
<1>2. CASE /\ lock' = [lock EXCEPT ![a] = r]
           /\ written' = [written EXCEPT ![r] = @ \cup {a}]
           /\ newBalance' = [newBalance EXCEPT ![r][a] = Round(row[r].balance + Delta(r))]
           /\ NextLine(r)
           /\ UNCHANGED <<tables, inserted, lines, row, inputs, shown, result>>
  <2>1. at[r] \in 1..Len(lines[r]) /\ lines[r] \in Seq(Line)
    BY DEF UpdateBalance, BaseInv, InLoop, TypeInv, TypeOK
  <2>2. a \in Accounts /\ row[r].balance + Delta(r) \in Int
    BY <2>1, CurrentType DEF BaseInv, TypeInv, TypeOK
  <2>3. Round(row[r].balance + Delta(r)) \in Int
    BY <2>2, RoundType
  <2>4. /\ lock' \in [Accounts -> Requests \cup {None}]
        /\ written' \in [Requests -> SUBSET Accounts]
        /\ newBalance' \in [Requests -> [Accounts -> Int]]
    BY <1>2, <2>2, <2>3 DEF BaseInv, TypeInv, TypeOK
  <2>5. at' \in [Requests -> Nat] /\ pc' \in [Requests -> Steps]
    BY <1>2, <2>1 DEF BaseInv, TypeInv, TypeOK, NextLine, Goto, Steps
  <2>6. TypeInv'
    BY <1>2, <2>4, <2>5 DEF BaseInv, TypeInv, TypeOK, FiniteRows, tables, inputs
  <2>7. InLoop'
    BY <1>2, <2>1 DEF BaseInv, TypeInv, TypeOK, InLoop, NextLine, Goto
  <2>8. QED
    BY <2>6, <2>7 DEF BaseInv
<1>3. QED
  BY <1>1, <1>2 DEF UpdateBalance

LEMMA BaseCommit ==
  ASSUME BaseInv, NEW r \in Requests, CommitBalances(r), EndTx(r),
         txns' \subseteq Creates,
         ledger' \subseteq Entry, IsFiniteSet(ledger'),
         NEW step \in {"enrich", "done"}, Goto(r, step),
         result' \in [Requests -> Results],
         UNCHANGED <<account, opening, inputs, shown>>
  PROVE  BaseInv'
<1>1. balance' \in [Accounts -> Int] /\ version' \in [Accounts -> Nat]
  BY DEF CommitBalances, BaseInv, TypeInv, TypeOK
<1>2. TypeInv'
  BY <1>1, EndTxType DEF BaseInv, TypeInv, TypeOK, FiniteRows, Goto, Steps, inputs
<1>3. InLoop'
  BY DEF BaseInv, TypeInv, TypeOK, InLoop, EndTx, Goto
<1>4. QED
  BY <1>2, <1>3 DEF BaseInv

LEMMA BaseCommitCreate ==
  ASSUME BaseInv, NEW r \in Creates, CommitCreate(r)
  PROVE  BaseInv'
<1>1. ledger' \subseteq Entry /\ IsFiniteSet(ledger')
  BY FS_Union DEF CommitCreate, BaseInv, TypeInv, TypeOK, FiniteRows
<1>2. txns' \subseteq Creates /\ result' \in [Requests -> Results]
  BY DEF CommitCreate, BaseInv, TypeInv, TypeOK
<1>3. QED
  BY <1>1, <1>2, BaseCommit DEF CommitCreate

LEMMA BaseCommitDelete ==
  ASSUME BaseInv, NEW d \in Deletes, CommitDelete(d)
  PROVE  BaseInv'
<1>1. ledger' \subseteq Entry /\ IsFiniteSet(ledger')
  BY FS_Subset DEF CommitDelete, BaseInv, TypeInv, TypeOK, FiniteRows
<1>2. txns' \subseteq Creates /\ result' \in [Requests -> Results] /\ Goto(d, "done")
  BY DEF CommitDelete, BaseInv, TypeInv, TypeOK, Respond, Results
<1>3. QED
  BY <1>1, <1>2, BaseCommit DEF CommitDelete

LEMMA BaseListEntries ==
  ASSUME BaseInv, NEW d \in Deletes, ListEntries(d)
  PROVE  BaseInv'
<1> DEFINE E == EntriesOf(Target(d))
<1>1. E \subseteq Entry /\ Cardinality(E) \in Nat
  BY FS_Subset, FS_CardinalityType DEF EntriesOf, BaseInv, TypeInv, TypeOK, FiniteRows
<1>2. PICK s \in Orders(E) :
        /\ lines' = [lines EXCEPT ![d] =
             [i \in DOMAIN s |-> [account |-> s[i].account, amount |-> s[i].amount]]]
        /\ Goto(d, IF s = <<>> THEN "deleteEntries" ELSE "lock")
  BY DEF ListEntries
<1> DEFINE l == [i \in DOMAIN s |-> [account |-> s[i].account, amount |-> s[i].amount]]
<1>3. DOMAIN s = 1..Cardinality(E) /\ s \in [1..Cardinality(E) -> E]
  BY DEF Orders
<1>4. \A i \in 1..Cardinality(E) : l[i] \in Line
  BY <1>1, <1>3 DEF Entry, Line
<1>5. l \in Seq(Line) /\ Len(l) = Cardinality(E)
  BY <1>1, <1>3, <1>4
<1>6. s # <<>> => Cardinality(E) # 0
  BY <1>3
<1> HIDE DEF l, E
<1>7. at' = [at EXCEPT ![d] = 1] /\ UNCHANGED <<tables, dbtx, inputs, row, shown, result>>
  BY DEF ListEntries
<1>8. TypeInv'
  BY <1>2, <1>5, <1>7 DEF l, BaseInv, TypeInv, TypeOK, FiniteRows, Goto, Steps, tables, dbtx,
                          inputs
<1>9. InLoop'
  <2>1. lines' = [lines EXCEPT ![d] = l]
    BY <1>2 DEF l
  <2>2. pc' = [pc EXCEPT ![d] = IF s = <<>> THEN "deleteEntries" ELSE "lock"]
    BY <1>2 DEF Goto
  <2>3. QED
    BY <1>1, <1>5, <1>6, <1>7, <2>1, <2>2 DEF BaseInv, TypeInv, TypeOK, InLoop
<1>10. QED
  BY <1>8, <1>9 DEF BaseInv

LEMMA BaseDeleteSteps ==
  ASSUME BaseInv, NEW d \in Deletes, BeginDelete(d) \/ DeleteEntries(d) \/ DeleteTx(d)
  PROVE  BaseInv'
<1>1. CASE BeginDelete(d)
  BY <1>1, RespondBase, GotoBase DEF BeginDelete, Steps, Results
<1>2. CASE DeleteEntries(d)
  BY <1>2, GotoBase DEF DeleteEntries, Steps
<1>3. CASE DeleteTx(d)
  BY <1>3, GotoBase, RollbackBase DEF DeleteTx, Steps, Results
<1>4. QED
  BY <1>1, <1>2, <1>3

LEMMA BaseAccounts ==
  ASSUME BaseInv, NEW a \in Accounts, CreateAccount(a) \/ DeleteAccount(a)
  PROVE  BaseInv'
<1>1. CASE CreateAccount(a)
  <2>1. PICK o \in Openings : /\ balance' = [balance EXCEPT ![a] = Round(o)]
                              /\ opening' = [opening EXCEPT ![a] = Round(o)]
    BY <1>1 DEF CreateAccount
  <2>2. Round(o) \in Int
    BY RoundType
  <2>3. QED
    BY <1>1, <2>1, <2>2 DEF CreateAccount, BaseInv, TypeInv, TypeOK, FiniteRows, InLoop,
                            dbtx, loop, inputs
<1>2. CASE DeleteAccount(a)
  <2>1. ledger' \subseteq Entry /\ IsFiniteSet(ledger')
    BY <1>2, FS_Subset DEF DeleteAccount, BaseInv, TypeInv, TypeOK, FiniteRows
  <2>2. QED
    BY <1>2, <2>1 DEF DeleteAccount, BaseInv, TypeInv, TypeOK, FiniteRows, InLoop,
                      dbtx, loop, inputs
<1>3. QED
  BY <1>1, <1>2

LEMMA BaseInit == Init => BaseInv
<1> SUFFICES ASSUME Init
             PROVE  BaseInv
  OBVIOUS
<1>1. TypeOK
  <2>1. <<>> \in Seq(Line)
    OBVIOUS
  <2>2. QED
    BY <2>1 DEF Init, TypeOK, NoRow, Steps, Results
<1>2. FiniteRows
  BY FS_EmptySet DEF Init, FiniteRows
<1>3. InLoop
  BY DEF Init, InLoop
<1>4. QED
  BY <1>1, <1>2, <1>3 DEF BaseInv, TypeInv

LEMMA BaseNext == BaseInv /\ [Next]_vars => BaseInv'
<1> SUFFICES ASSUME BaseInv, [Next]_vars
             PROVE  BaseInv'
  OBVIOUS
<1>1. CASE \E r \in Creates : CreateStep(r)
  BY <1>1, BaseCreateSteps, BaseInsertTx, BaseInsertEntry, BaseLockBalance,
     BaseUpdateBalance, BaseCommitCreate DEF CreateStep
<1>2. CASE \E d \in Deletes : DeleteStep(d)
  BY <1>2, BaseDeleteSteps, BaseListEntries, BaseLockBalance, BaseUpdateBalance,
     BaseCommitDelete DEF DeleteStep
<1>3. CASE \E a \in Accounts : CreateAccount(a) \/ DeleteAccount(a)
  BY <1>3, BaseAccounts
<1>4. CASE \E r \in Requests : Fail(r) \/ DeadlockDetected(r)
  BY <1>4, RollbackBase DEF Fail, DeadlockDetected, Results
<1>5. CASE UNCHANGED vars
  BY <1>5 DEF BaseInv, TypeInv, TypeOK, FiniteRows, InLoop, vars, tables, dbtx, loop, inputs
<1>6. QED
  BY <1>1, <1>2, <1>3, <1>4, <1>5 DEF Next, Quiescent

(* Every variable keeps its type: for instance, no balance or version ever *)
(* ceases to be a number and every ledger row names a transaction.         *)
THEOREM TypeCorrect == Spec => []TypeOK
<1>1. BaseInv => TypeOK
  BY DEF BaseInv, TypeInv
<1>2. QED
  BY BaseInit, BaseNext, <1>1, PTL DEF Spec

-----------------------------------------------------------------------------
(* The row locks, and what they are for *)

LockInv == BaseInv /\ LockPart

USE DEF Unreached

(* A step of r leaves the loops of the other requests where they are.      *)
OthersKeep(r) ==
  \A q \in Requests \ {r} : lines'[q] = lines[q] /\ at'[q] = at[q] /\ row'[q] = row[q]

LEMMA OthersCurrent ==
  ASSUME NEW r \in Requests, OthersKeep(r), NEW q \in Requests \ {r}
  PROVE  Current(q)' = Current(q) /\ Delta(q)' = Delta(q)
BY DEF OthersKeep, Current, Delta

(* A step that touches neither locks, balances nor private writes.         *)
LEMMA LockStill ==
  ASSUME LockInv, NEW r \in Requests, NEW step \in Steps \ {"update"}, Goto(r, step),
         pc[r] \in Locking => step \in Locking,
         OthersKeep(r),
         \A q \in Requests : result'[q] \notin Unreached,
         UNCHANGED <<account, balance, version, lock, written, newBalance>>
  PROVE  LockPart'
<1> USE DEF LockInv, LockPart, BaseInv, TypeInv, TypeOK
<1>1. LocksHeld'
  BY RequestAssumption DEF LocksHeld, Goto
<1>2. WritesLocked'
  BY DEF WritesLocked
<1>3. RowCurrent'
  <2> SUFFICES ASSUME NEW q \in Requests, pc'[q] = "update"
               PROVE  /\ lock'[Current(q)'.account] = q
                      /\ row'[q] = [balance |-> balance'[Current(q)'.account],
                                    version |-> version'[Current(q)'.account]]
                      /\ ~Insufficient(q, Current(q).account)'
    BY DEF RowCurrent
  <2>1. q # r /\ pc[q] = "update"
    BY DEF Goto
  <2>2. Current(q)' = Current(q) /\ Delta(q)' = Delta(q) /\ row'[q] = row[q]
    BY <2>1, OthersCurrent DEF OthersKeep
  <2>3. QED
    BY <2>1, <2>2 DEF RowCurrent, Insufficient
<1>4. NonNegative' /\ NoVersionConflict'
  BY DEF NonNegative, NoOverdraft, NoVersionConflict
<1>5. QED
  BY <1>1, <1>2, <1>3, <1>4

LEMMA LockRollback ==
  ASSUME LockInv, NEW r \in Requests, NEW res \in Results \ Unreached, Rollback(r, res)
  PROVE  LockPart'
<1> USE DEF LockInv, LockPart, BaseInv, TypeInv, TypeOK, Rollback, EndTx, Respond, Goto, tables
<1>1. LocksHeld'
  BY RequestAssumption DEF LocksHeld
<1>2. WritesLocked'
  BY RequestAssumption DEF WritesLocked
<1>3. RowCurrent'
  <2> SUFFICES ASSUME NEW q \in Requests, pc'[q] = "update"
               PROVE  /\ lock'[Current(q)'.account] = q
                      /\ row'[q] = [balance |-> balance'[Current(q)'.account],
                                    version |-> version'[Current(q)'.account]]
                      /\ ~Insufficient(q, Current(q).account)'
    BY DEF RowCurrent
  <2>1. q # r /\ pc[q] = "update"
    OBVIOUS
  <2>2. Current(q)' = Current(q) /\ Delta(q)' = Delta(q) /\ row'[q] = row[q]
    BY <2>1, OthersCurrent DEF OthersKeep
  <2>3. Current(q).account \in Accounts
    BY <2>1, CurrentType DEF InLoop
  <2>4. QED
    BY <2>1, <2>2, <2>3 DEF RowCurrent, Insufficient
<1>4. NonNegative' /\ NoVersionConflict'
  BY DEF NonNegative, NoOverdraft, NoVersionConflict
<1>5. QED
  BY <1>1, <1>2, <1>3, <1>4

LEMMA LockLockBalance ==
  ASSUME LockInv, NEW r \in Requests, LockBalance(r)
  PROVE  LockPart'
<1> DEFINE a == Current(r).account
<1> USE DEF LockInv, LockPart, BaseInv, TypeInv, TypeOK
<1>1. CASE \E res \in {"error", "insufficientFunds"} : Rollback(r, res)
  BY <1>1, LockRollback DEF Results
<1>2. CASE /\ account[a] = "live" /\ ~Insufficient(r, a)
           /\ ForUpdate(r, a)
           /\ row' = [row EXCEPT ![r] = [balance |-> balance[a], version |-> version[a]]]
           /\ Goto(r, "update")
           /\ UNCHANGED <<tables, inserted, written, newBalance, inputs, lines, at, shown,
                          result>>
  <2>1. a \in Accounts /\ lock[a] \in {None, r}
    BY CurrentType DEF LockBalance, Lockable, InLoop
  <2>2. lock' = [lock EXCEPT ![a] = r] /\ pc' = [pc EXCEPT ![r] = "update"]
    BY <1>2 DEF ForUpdate, Goto
  <2>3. UNCHANGED <<account, balance, version, written, newBalance, result, lines, at>>
    BY <1>2 DEF tables
  <2>4. LocksHeld'
    BY <1>2, <2>1, <2>2, <2>3 DEF LocksHeld, Locking
  <2>5. WritesLocked'
    BY RequestAssumption, <2>1, <2>2, <2>3 DEF WritesLocked
  <2>6. RowCurrent'
    <3> SUFFICES ASSUME NEW q \in Requests, pc'[q] = "update"
                 PROVE  /\ lock'[Current(q)'.account] = q
                        /\ row'[q] = [balance |-> balance'[Current(q)'.account],
                                      version |-> version'[Current(q)'.account]]
                        /\ ~Insufficient(q, Current(q).account)'
      BY DEF RowCurrent
    <3>1. Current(q)' = Current(q) /\ Delta(q)' = Delta(q)
      BY <2>3 DEF Current, Delta
    <3>2. CASE q = r
      BY <1>2, <2>1, <2>2, <2>3, <3>1, <3>2 DEF Insufficient
    <3>3. CASE q # r
      <4>1. pc[q] = "update" /\ row'[q] = row[q]
        BY <1>2, <2>2, <3>3
      <4>2. lock[Current(q).account] = q
        BY <4>1 DEF RowCurrent
      <4>3. Current(q).account # a /\ lock'[Current(q).account] = q
        BY RequestAssumption, <2>1, <2>2, <3>3, <4>2
      <4>4. QED
        BY <2>3, <3>1, <4>1, <4>3 DEF RowCurrent, Insufficient
    <3>4. QED
      BY <3>2, <3>3
  <2>7. NonNegative' /\ NoVersionConflict'
    BY <2>3 DEF NonNegative, NoOverdraft, NoVersionConflict
  <2>8. QED
    BY <2>4, <2>5, <2>6, <2>7
<1>3. QED
  BY <1>1, <1>2 DEF LockBalance

LEMMA LockUpdateBalance ==
  ASSUME LockInv, NEW r \in Requests, UpdateBalance(r)
  PROVE  LockPart'
<1> DEFINE a == Current(r).account
           new == Round(row[r].balance + Delta(r))
<1>1. /\ pc[r] = "update" /\ lock[a] = r
      /\ row[r] = [balance |-> balance[a], version |-> version[a]]
      /\ balance[a] + Delta(r) >= 0
      /\ a \in Accounts /\ Delta(r) \in Int /\ balance[a] \in Int
  BY CurrentType DEF UpdateBalance, LockInv, LockPart, BaseInv, TypeInv, TypeOK, RowCurrent,
                     InLoop, Insufficient
<1>2. new \in Int /\ new >= 0
  BY <1>1, RoundType
<1>3. /\ lock' = [lock EXCEPT ![a] = r]
      /\ written' = [written EXCEPT ![r] = @ \cup {a}]
      /\ newBalance' = [newBalance EXCEPT ![r][a] = new]
      /\ NextLine(r)
      /\ UNCHANGED <<tables, inserted, lines, row, inputs, shown, result>>
  BY <1>1, <1>2 DEF UpdateBalance
<1> HIDE DEF new
<1>4. /\ lock' = lock
      /\ UNCHANGED <<account, balance, version, result, lines, row>>
      /\ at' = [at EXCEPT ![r] = @ + 1]
      /\ \E step \in {"entry", "lock", "commit", "deleteEntries"} : pc' = [pc EXCEPT ![r] = step]
  BY <1>1, <1>3 DEF NextLine, Goto, tables, LockInv, BaseInv, TypeInv, TypeOK
<1> USE DEF LockInv, LockPart, BaseInv, TypeInv, TypeOK
<1>5. LocksHeld'
  BY <1>4, RequestAssumption DEF LocksHeld, Locking
<1>6. WritesLocked'
  BY <1>1, <1>3, <1>4 DEF WritesLocked
<1>7. RowCurrent'
  <2> SUFFICES ASSUME NEW q \in Requests, pc'[q] = "update"
               PROVE  /\ lock'[Current(q)'.account] = q
                      /\ row'[q] = [balance |-> balance'[Current(q)'.account],
                                    version |-> version'[Current(q)'.account]]
                      /\ ~Insufficient(q, Current(q).account)'
    BY DEF RowCurrent
  <2>1. q # r /\ pc[q] = "update"
    BY <1>4
  <2>2. Current(q)' = Current(q) /\ Delta(q)' = Delta(q)
    BY <1>4, <2>1, OthersCurrent DEF OthersKeep
  <2>3. QED
    BY <1>4, <2>1, <2>2 DEF RowCurrent, Insufficient
<1>8. NonNegative'
  <2>1. \A q \in Requests : \A b \in written'[q] : newBalance'[q][b] >= 0
    BY <1>1, <1>2, <1>3 DEF NonNegative
  <2>2. NoOverdraft'
    BY <1>4 DEF NonNegative, NoOverdraft
  <2>3. QED
    BY <2>1, <2>2 DEF NonNegative
<1>9. NoVersionConflict'
  BY <1>4 DEF NoVersionConflict
<1>10. QED
  BY <1>5, <1>6, <1>7, <1>8, <1>9

LEMMA LockCommit ==
  ASSUME LockInv, NEW r \in Requests, CommitBalances(r), EndTx(r),
         NEW step \in {"enrich", "done"}, Goto(r, step),
         \A q \in Requests : result'[q] \notin Unreached,
         UNCHANGED account
  PROVE  LockPart'
<1> USE DEF LockInv, LockPart, BaseInv, TypeInv, TypeOK, EndTx, Goto
<1>1. LocksHeld'
  BY RequestAssumption DEF LocksHeld
<1>2. WritesLocked'
  BY RequestAssumption DEF WritesLocked
<1>3. RowCurrent'
  <2> SUFFICES ASSUME NEW q \in Requests, pc'[q] = "update"
               PROVE  /\ lock'[Current(q)'.account] = q
                      /\ row'[q] = [balance |-> balance'[Current(q)'.account],
                                    version |-> version'[Current(q)'.account]]
                      /\ ~Insufficient(q, Current(q).account)'
    BY DEF RowCurrent
  <2>1. q # r /\ pc[q] = "update"
    OBVIOUS
  <2>2. Current(q)' = Current(q) /\ Delta(q)' = Delta(q) /\ row'[q] = row[q]
    BY <2>1, OthersCurrent DEF OthersKeep
  <2>3. Current(q).account \in Accounts
    BY <2>1, CurrentType DEF InLoop
  <2>4. lock[Current(q).account] = q /\ Current(q).account \notin written[r]
    <3>1. lock[Current(q).account] = q
      BY <2>1 DEF RowCurrent
    <3>2. \A b \in written[r] : lock[b] = r
      BY DEF WritesLocked
    <3>3. QED
      BY <2>1, <3>1, <3>2
  <2>5. /\ balance'[Current(q).account] = balance[Current(q).account]
        /\ version'[Current(q).account] = version[Current(q).account]
        /\ lock'[Current(q).account] = q
    BY <2>1, <2>3, <2>4 DEF CommitBalances
  <2>6. QED
    BY <2>1, <2>2, <2>5 DEF RowCurrent, Insufficient
<1>4. NonNegative'
  BY DEF NonNegative, NoOverdraft, CommitBalances
<1>5. NoVersionConflict'
  BY DEF NoVersionConflict
<1>6. QED
  BY <1>1, <1>2, <1>3, <1>4, <1>5

LEMMA LockAccounts ==
  ASSUME LockInv, NEW a \in Accounts, CreateAccount(a) \/ DeleteAccount(a)
  PROVE  LockPart'
<1> USE DEF LockInv, LockPart, BaseInv, TypeInv, TypeOK
<1>1. /\ lock[a] = None
      /\ \E s \in {"live", "deleted"} : account' = [account EXCEPT ![a] = s]
      /\ \E n \in Nat : balance' = [balance EXCEPT ![a] = n]
      /\ \E n \in Nat : version' = [version EXCEPT ![a] = n]
      /\ UNCHANGED <<lock, written, newBalance, pc, lines, at, row, result>>
  <2>1. CASE CreateAccount(a)
    <3>1. lock[a] = None
      BY <2>1 DEF CreateAccount, LocksHeld
    <3>2. PICK o \in Openings : balance' = [balance EXCEPT ![a] = Round(o)]
      BY <2>1 DEF CreateAccount
    <3>3. Round(o) \in Nat
      BY RoundType
    <3>4. QED
      BY <2>1, <3>1, <3>2, <3>3 DEF CreateAccount, dbtx, loop
  <2>2. CASE DeleteAccount(a)
    BY <2>2 DEF DeleteAccount, dbtx, loop
  <2>3. QED
    BY <2>1, <2>2
<1>2. LocksHeld' /\ WritesLocked'
  BY <1>1 DEF LocksHeld, WritesLocked
<1>3. RowCurrent'
  <2> SUFFICES ASSUME NEW q \in Requests, pc'[q] = "update"
               PROVE  /\ lock'[Current(q)'.account] = q
                      /\ row'[q] = [balance |-> balance'[Current(q)'.account],
                                    version |-> version'[Current(q)'.account]]
                      /\ ~Insufficient(q, Current(q).account)'
    BY DEF RowCurrent
  <2>1. pc[q] = "update" /\ Current(q)' = Current(q) /\ Delta(q)' = Delta(q)
    BY <1>1 DEF Current, Delta
  <2>2. Current(q).account # a
    BY <1>1, <2>1, RequestAssumption DEF RowCurrent
  <2>3. QED
    BY <1>1, <2>1, <2>2 DEF RowCurrent, Insufficient
<1>4. NonNegative' /\ NoVersionConflict'
  BY <1>1 DEF NonNegative, NoOverdraft, NoVersionConflict
<1>5. QED
  BY <1>2, <1>3, <1>4

LEMMA LockCreateStep ==
  ASSUME LockInv, NEW r \in Creates, CreateStep(r)
  PROVE  LockPart'
<1> DEFINE Still(step) ==
      /\ Goto(r, step) /\ step \in Steps \ {"update"}
      /\ pc[r] \in Locking => step \in Locking
      /\ OthersKeep(r)
      /\ \A q \in Requests : result'[q] \notin Unreached
      /\ UNCHANGED <<account, balance, version, lock, written, newBalance>>
<1>1. \A q \in Requests : result[q] \notin Unreached
  BY DEF LockInv, LockPart, NonNegative, NoOverdraft, NoVersionConflict
<1>2. \A res \in Results \ Unreached :
        Respond(r, res) => \A q \in Requests : result'[q] \notin Unreached
  BY <1>1 DEF Respond, LockInv, BaseInv, TypeInv, TypeOK
<1>3. CASE BeginCreate(r)
  <2>1. \E step \in {"done", "arbiter", "lookup"} : Still(step)
    BY <1>1, <1>2, <1>3 DEF BeginCreate, Respond, OthersKeep, Locking, Steps, Results, tables,
                            dbtx, loop
  <2>2. QED
    BY <2>1, LockStill
<1>4. CASE LookupKey(r)
  <2>1. \E step \in {"enrich", "arbiter"} : Still(step)
    BY <1>1, <1>4 DEF LookupKey, OthersKeep, Locking, Steps, tables, dbtx, loop
  <2>2. QED
    BY <2>1, LockStill
<1>5. CASE CheckArbiter(r)
  <2>1. \E step \in {"insert", "winner"} : Still(step)
    BY <1>1, <1>5 DEF CheckArbiter, OthersKeep, Locking, Steps, tables, dbtx, loop
  <2>2. QED
    BY <2>1, LockStill
<1>6. CASE InsertTx(r)
  <2>1. CASE Rollback(r, "duplicateKey")
    BY <2>1, LockRollback DEF Results
  <2>2. CASE ~Rollback(r, "duplicateKey")
    <3>1. Still("entry")
      BY <1>1, <1>6, <2>2 DEF InsertTx, OthersKeep, Locking, Steps, tables, dbtx, loop,
                              LockInv, BaseInv, TypeInv, TypeOK
    <3>2. QED
      BY <3>1, LockStill
  <2>3. QED
    BY <2>1, <2>2
<1>7. CASE LookupWinner(r)
  <2>1. CASE Rollback(r, "error")
    BY <2>1, LockRollback DEF Results
  <2>2. CASE ~Rollback(r, "error")
    <3>1. Still("enrich")
      BY <1>1, <1>7, <2>2 DEF LookupWinner, OthersKeep, Locking, Steps, tables, dbtx, loop
    <3>2. QED
      BY <3>1, LockStill
  <2>3. QED
    BY <2>1, <2>2
<1>8. CASE InsertEntry(r)
  <2>1. CASE Rollback(r, "error")
    BY <2>1, LockRollback DEF Results
  <2>2. CASE ~Rollback(r, "error")
    <3>1. Still("lock")
      BY <1>1, <1>8, <2>2 DEF InsertEntry, OthersKeep, Locking, Steps, tables, loop
    <3>2. QED
      BY <3>1, LockStill
  <2>3. QED
    BY <2>1, <2>2
<1>9. CASE CommitCreate(r)
  BY <1>1, <1>9, LockCommit DEF CommitCreate
<1>10. CASE Enrich(r)
  <2>1. PICK res \in {"ok", "nil"} : Respond(r, res)
    BY <1>10 DEF Enrich
  <2>2. Goto(r, "done") /\ \A q \in Requests : result'[q] \notin Unreached
    BY <1>2, <2>1 DEF Respond, Results
  <2>3. pc[r] = "enrich" /\ UNCHANGED <<tables, dbtx, loop, inputs, shown>>
    BY <1>10 DEF Enrich
  <2>4. Still("done")
    BY <2>2, <2>3 DEF OthersKeep, Locking, Steps, tables, dbtx, loop
  <2>5. QED
    BY <2>4, LockStill
<1>11. QED
  BY <1>3, <1>4, <1>5, <1>6, <1>7, <1>8, <1>9, <1>10, LockLockBalance, LockUpdateBalance
     DEF CreateStep

LEMMA LockDeleteStep ==
  ASSUME LockInv, NEW d \in Deletes, DeleteStep(d)
  PROVE  LockPart'
<1> DEFINE Still(step) ==
      /\ Goto(d, step) /\ step \in Steps \ {"update"}
      /\ pc[d] \in Locking => step \in Locking
      /\ OthersKeep(d)
      /\ \A q \in Requests : result'[q] \notin Unreached
      /\ UNCHANGED <<account, balance, version, lock, written, newBalance>>
<1>1. \A q \in Requests : result[q] \notin Unreached
  BY DEF LockInv, LockPart, NonNegative, NoOverdraft, NoVersionConflict
<1>2. \A res \in Results \ Unreached :
        Respond(d, res) => \A q \in Requests : result'[q] \notin Unreached
  BY <1>1 DEF Respond, LockInv, BaseInv, TypeInv, TypeOK
<1>3. CASE BeginDelete(d)
  <2>1. \E step \in {"done", "list"} : Still(step)
    BY <1>1, <1>2, <1>3 DEF BeginDelete, Respond, OthersKeep, Locking, Steps, Results, tables,
                            dbtx, loop
  <2>2. QED
    BY <2>1, LockStill
<1>4. CASE ListEntries(d)
  <2>1. \E step \in {"deleteEntries", "lock"} : Still(step)
    BY <1>1, <1>4 DEF ListEntries, OthersKeep, Locking, Steps, tables, dbtx, loop,
                      LockInv, BaseInv, TypeInv, TypeOK
  <2>2. QED
    BY <2>1, LockStill
<1>5. CASE DeleteEntries(d)
  <2>1. Still("deleteTx")
    BY <1>1, <1>5 DEF DeleteEntries, OthersKeep, Locking, Steps, tables, dbtx, loop
  <2>2. QED
    BY <2>1, LockStill
<1>6. CASE DeleteTx(d)
  <2>1. CASE Rollback(d, "notFound")
    BY <2>1, LockRollback DEF Results
  <2>2. CASE ~Rollback(d, "notFound")
    <3>1. Still("commit")
      BY <1>1, <1>6, <2>2 DEF DeleteTx, OthersKeep, Locking, Steps, tables, dbtx, loop
    <3>2. QED
      BY <3>1, LockStill
  <2>3. QED
    BY <2>1, <2>2
<1>7. CASE CommitDelete(d)
  <2>1. \A q \in Requests : result'[q] \notin Unreached
    BY <1>2, <1>7 DEF CommitDelete, Results
  <2>2. QED
    BY <1>7, <2>1, LockCommit DEF CommitDelete, Respond
<1>8. QED
  BY <1>3, <1>4, <1>5, <1>6, <1>7, LockLockBalance, LockUpdateBalance DEF DeleteStep

LEMMA LockInit == Init => LockInv
<1> SUFFICES ASSUME Init
             PROVE  LockPart
  BY BaseInit DEF LockInv
<1>1. LocksHeld /\ WritesLocked /\ RowCurrent
  BY DEF Init, LocksHeld, WritesLocked, RowCurrent
<1>2. NonNegative /\ NoVersionConflict
  BY DEF Init, NonNegative, NoOverdraft, NoVersionConflict
<1>3. QED
  BY <1>1, <1>2 DEF LockPart

LEMMA LockNext == LockInv /\ [Next]_vars => LockInv'
<1> SUFFICES ASSUME LockInv, [Next]_vars
             PROVE  LockPart'
  BY BaseNext DEF LockInv
<1>1. CASE \E r \in Creates : CreateStep(r)
  BY <1>1, LockCreateStep
<1>2. CASE \E d \in Deletes : DeleteStep(d)
  BY <1>2, LockDeleteStep
<1>3. CASE \E a \in Accounts : CreateAccount(a) \/ DeleteAccount(a)
  BY <1>3, LockAccounts
<1>4. CASE \E r \in Requests : Fail(r) \/ DeadlockDetected(r)
  BY <1>4, LockRollback DEF Fail, DeadlockDetected, Results
<1>5. CASE UNCHANGED vars
  <2>1. \A q \in Requests : Current(q)' = Current(q) /\ Delta(q)' = Delta(q)
    BY <1>5 DEF vars, loop, Current, Delta
  <2>2. QED
    BY <1>5, <2>1 DEF LockInv, LockPart, LocksHeld, WritesLocked, RowCurrent, Insufficient,
                      NonNegative, NoOverdraft, NoVersionConflict, vars, tables, dbtx, loop
<1>6. QED
  BY <1>1, <1>2, <1>3, <1>4, <1>5 DEF Next, Quiescent

(* No account is ever overdrawn, whatever the amounts, the costs and the   *)
(* interleaving of creates, deletes and failures.                          *)
THEOREM NeverOverdrawn == Spec => []NoOverdraft
<1>1. LockInv => NoOverdraft
  BY DEF LockInv, LockPart, NonNegative
<1>2. QED
  BY LockInit, LockNext, <1>1, PTL DEF Spec

(* The version check of a create or a delete cannot fail: the retry that   *)
(* "concurrent balance update detected" asks for is never needed between   *)
(* them.                                                                   *)
THEOREM VersionNeverConflicts == Spec => []NoVersionConflict
<1>1. LockInv => NoVersionConflict
  BY DEF LockInv, LockPart
<1>2. QED
  BY LockInit, LockNext, <1>1, PTL DEF Spec

-----------------------------------------------------------------------------
(* Retried, duplicated and concurrent requests: what they may not do       *)

(* A key belongs to one transaction, committed or in flight, whoever its   *)
(* user is.                                                                *)
KeyTaken(t) == t \in txns \/ InFlight(t)

KeyInv ==
  \A t, u \in Creates : KeyTaken(t) /\ KeyTaken(u) /\ SameKey(t, u) => t = u

(* A transaction that a delete is about to remove is still there, no other *)
(* delete is about to remove it, and one that has been removed never comes *)
(* back, since its create request is past its commit.                      *)
Committed == {"enrich", "done"}

DeleteInv ==
  /\ \A t \in txns : pc[t] \in Committed
  /\ \A d \in Deletes : pc[d] = "commit" => Target(d) \in txns
  /\ \A d, q \in Deletes :
       pc[d] = "commit" /\ pc[q] = "commit" /\ Target(d) = Target(q) => d = q
  /\ \A d \in Deletes : result[d] = "ok" =>
       /\ pc[d] = "done"
       /\ Target(d) \notin txns
       /\ pc[Target(d)] \in Committed
  /\ OneDeleteSucceeds

-----------------------------------------------------------------------------
(* Keys *)

USE DEF Requests

(* A step after which no key is taken that was not before.                 *)
LEMMA KeyStill ==
  ASSUME BaseInv, KeyInv, create' = create,
         \A t \in Creates : KeyTaken(t)' => KeyTaken(t)
  PROVE  KeyInv'
BY DEF KeyInv, SameKey

LEMMA KeyMove ==
  ASSUME BaseInv, KeyInv, NEW r \in Requests, NEW step \in Steps, Goto(r, step),
         step \in {"entry", "lock", "update", "commit"} => r \in Deletes \/ InFlight(r),
         create' = create, txns' \subseteq txns
  PROVE  KeyInv'
<1>1. \A t \in Creates : KeyTaken(t)' => KeyTaken(t)
  BY RequestAssumption DEF KeyTaken, InFlight, Goto, BaseInv, TypeInv, TypeOK
<1>2. QED
  BY <1>1, KeyStill

LEMMA KeyRollback ==
  ASSUME BaseInv, KeyInv, NEW r \in Requests, NEW res \in Results, Rollback(r, res)
  PROVE  KeyInv'
BY KeyMove DEF Rollback, Respond, inputs, tables, Steps

(* The unique constraint and its wait keep a second transaction out.       *)
LEMMA KeyInsertTx ==
  ASSUME BaseInv, KeyInv, NEW r \in Creates, InsertTx(r)
  PROVE  KeyInv'
<1>1. CASE Rollback(r, "duplicateKey")
  BY <1>1, KeyRollback DEF Results
<1>2. CASE ~Rollback(r, "duplicateKey")
  <2>1. /\ pc' = [pc EXCEPT ![r] = "entry"]
        /\ UNCHANGED <<create, txns>>
        /\ \A t \in txns : ~SameKey(t, r)
        /\ \A q \in Creates \ {r} : ~(InFlight(q) /\ SameKey(q, r))
    BY <1>2 DEF InsertTx, UniqueWaits, UniqueViolation, Goto, tables, inputs
  <2>2. \A t \in Creates : KeyTaken(t)' => KeyTaken(t) \/ t = r
    BY <2>1 DEF KeyTaken, InFlight, BaseInv, TypeInv, TypeOK
  <2>3. \A t \in Creates \ {r} : KeyTaken(t) => ~SameKey(t, r) /\ ~SameKey(r, t)
    BY <2>1 DEF KeyTaken, SameKey
  <2>4. \A t, u \in Creates : SameKey(t, u)' = SameKey(t, u)
    BY <2>1 DEF SameKey
  <2>5. QED
    BY <2>2, <2>3, <2>4 DEF KeyInv
<1>3. QED
  BY <1>1, <1>2

LEMMA KeyCommitCreate ==
  ASSUME BaseInv, KeyInv, NEW r \in Creates, CommitCreate(r)
  PROVE  KeyInv'
<1>1. InFlight(r) /\ txns' = txns \cup {r} /\ pc' = [pc EXCEPT ![r] = "enrich"] /\ create' = create
  BY DEF CommitCreate, InFlight, Goto, inputs
<1>2. \A t \in Creates : KeyTaken(t)' => KeyTaken(t)
  BY <1>1 DEF KeyTaken, InFlight, BaseInv, TypeInv, TypeOK
<1>3. QED
  BY <1>1, <1>2, KeyStill

LEMMA KeyLoop ==
  ASSUME BaseInv, KeyInv, NEW r \in Requests, LockBalance(r) \/ UpdateBalance(r)
  PROVE  KeyInv'
<1>1. CASE \E res \in Results : Rollback(r, res)
  BY <1>1, KeyRollback
<1>2. CASE ~\E res \in Results : Rollback(r, res)
  <2>1. r \in Deletes \/ InFlight(r)
    BY DEF LockBalance, UpdateBalance, InFlight
  <2>2. \E step \in Steps : Goto(r, step)
    BY <1>2 DEF LockBalance, UpdateBalance, NextLine, Results, Steps
  <2>3. UNCHANGED <<create, txns>>
    BY <1>2 DEF LockBalance, UpdateBalance, tables, inputs, Results
  <2>4. QED
    BY <2>1, <2>2, <2>3, KeyMove
<1>3. QED
  BY <1>1, <1>2

LEMMA KeyCreateStep ==
  ASSUME BaseInv, KeyInv, NEW r \in Creates, CreateStep(r)
  PROVE  KeyInv'
<1>1. CASE BeginCreate(r)
  BY <1>1, KeyMove DEF BeginCreate, Respond, Steps, tables, inputs
<1>2. CASE LookupKey(r)
  BY <1>2, KeyMove DEF LookupKey, Steps, tables, inputs
<1>3. CASE CheckArbiter(r)
  BY <1>3, KeyMove DEF CheckArbiter, Steps, tables, inputs
<1>4. CASE LookupWinner(r)
  BY <1>4, KeyMove, KeyRollback DEF LookupWinner, Steps, Results, tables, inputs
<1>5. CASE InsertEntry(r)
  BY <1>5, KeyMove, KeyRollback DEF InsertEntry, InFlight, Steps, Results, tables, inputs
<1>6. CASE Enrich(r)
  BY <1>6, KeyMove DEF Enrich, Respond, Steps, tables, inputs
<1>7. QED
  BY <1>1, <1>2, <1>3, <1>4, <1>5, <1>6, KeyInsertTx, KeyLoop, KeyCommitCreate DEF CreateStep

LEMMA KeyDeleteStep ==
  ASSUME BaseInv, KeyInv, NEW d \in Deletes, DeleteStep(d)
  PROVE  KeyInv'
<1>1. CASE BeginDelete(d)
  BY <1>1, KeyMove DEF BeginDelete, Respond, Steps, tables, inputs
<1>2. CASE ListEntries(d)
  BY <1>2, KeyMove DEF ListEntries, Steps, tables, inputs
<1>3. CASE DeleteEntries(d)
  BY <1>3, KeyMove DEF DeleteEntries, Steps, tables, inputs
<1>4. CASE DeleteTx(d)
  BY <1>4, KeyMove, KeyRollback DEF DeleteTx, Steps, Results, tables, inputs
<1>5. CASE CommitDelete(d)
  BY <1>5, KeyMove DEF CommitDelete, Respond, Steps, inputs
<1>6. QED
  BY <1>1, <1>2, <1>3, <1>4, <1>5, KeyLoop DEF DeleteStep

LEMMA KeyNext == BaseInv /\ KeyInv /\ [Next]_vars => KeyInv'
<1> SUFFICES ASSUME BaseInv, KeyInv, [Next]_vars
             PROVE  KeyInv'
  OBVIOUS
<1>1. CASE \E a \in Accounts : CreateAccount(a) \/ DeleteAccount(a)
  BY <1>1, KeyStill DEF CreateAccount, DeleteAccount, KeyTaken, InFlight, inputs
<1>2. CASE \E r \in Requests : Fail(r) \/ DeadlockDetected(r)
  BY <1>2, KeyRollback DEF Fail, DeadlockDetected, Results
<1>3. CASE UNCHANGED vars
  BY <1>3, KeyStill DEF vars, tables, inputs, KeyTaken, InFlight
<1>4. QED
  BY <1>1, <1>2, <1>3, KeyCreateStep, KeyDeleteStep DEF Next, Quiescent

(* However often and however concurrently a request is sent under one key, *)
(* at most one transaction of that key is in the books.                    *)
THEOREM KeysAreUnique == Spec => []OneTransactionPerKey
<1>1. Init => KeyInv
  BY DEF Init, KeyInv, KeyTaken, InFlight
<1>2. BaseInv /\ KeyInv => OneTransactionPerKey
  BY DEF BaseInv, TypeInv, TypeOK, KeyInv, KeyTaken, OneTransactionPerKey
<1>3. QED
  BY BaseInit, BaseNext, KeyNext, <1>1, <1>2, PTL DEF Spec

-----------------------------------------------------------------------------
(* Replays *)

(* Only LookupKey, LookupWinner and InsertTx choose the transaction that a *)
(* request shows.                                                          *)
LEMMA ShownStep ==
  ASSUME BaseInv, [Next]_vars, NEW r \in Creates, shown'[r] # shown[r]
  PROVE  shown'[r] = r \/ shown'[r] \in GetIDByIdempotencyKey(r)
<1>1. \A q \in Requests, res \in Results : Rollback(q, res) => shown' = shown
  BY DEF Rollback
<1>2. CASE \E q \in Creates : CreateStep(q)
  <2>1. PICK q \in Creates : CreateStep(q)
    BY <1>2
  <2>2. CASE LookupKey(q) \/ LookupWinner(q)
    BY <1>1, <2>2 DEF LookupKey, LookupWinner, Results, BaseInv, TypeInv, TypeOK
  <2>3. CASE InsertTx(q)
    BY <1>1, <2>3 DEF InsertTx, Results, BaseInv, TypeInv, TypeOK
  <2>4. CASE BeginCreate(q) \/ CheckArbiter(q) \/ InsertEntry(q) \/ LockBalance(q)
             \/ UpdateBalance(q) \/ CommitCreate(q) \/ Enrich(q)
    BY <1>1, <2>4 DEF BeginCreate, CheckArbiter, InsertEntry, LockBalance, UpdateBalance,
                      CommitCreate, Enrich, Results
  <2>5. QED
    BY <2>1, <2>2, <2>3, <2>4 DEF CreateStep
<1>3. CASE \E d \in Deletes : DeleteStep(d)
  BY <1>1, <1>3 DEF DeleteStep, BeginDelete, ListEntries, LockBalance, UpdateBalance,
                    DeleteEntries, DeleteTx, CommitDelete, Results
<1>4. CASE \E a \in Accounts : CreateAccount(a) \/ DeleteAccount(a)
  BY <1>4 DEF CreateAccount, DeleteAccount
<1>5. CASE \E q \in Requests : Fail(q) \/ DeadlockDetected(q)
  BY <1>1, <1>5 DEF Fail, DeadlockDetected, Results
<1>6. CASE UNCHANGED vars
  BY <1>6 DEF vars
<1>7. QED
  BY <1>2, <1>3, <1>4, <1>5, <1>6 DEF Next, Quiescent

LEMMA InputsRigid == BaseInv /\ [Next]_vars => UNCHANGED inputs
<1> SUFFICES ASSUME [Next]_vars
             PROVE  UNCHANGED inputs
  OBVIOUS
<1>1. \A q \in Requests, res \in Results : Rollback(q, res) => UNCHANGED inputs
  BY DEF Rollback
<1>2. CASE \E q \in Creates : CreateStep(q)
  BY <1>1, <1>2 DEF CreateStep, BeginCreate, LookupKey, CheckArbiter, InsertTx, LookupWinner,
                    InsertEntry, LockBalance, UpdateBalance, CommitCreate, Enrich, Results
<1>3. CASE \E d \in Deletes : DeleteStep(d)
  BY <1>1, <1>3 DEF DeleteStep, BeginDelete, ListEntries, LockBalance, UpdateBalance,
                    DeleteEntries, DeleteTx, CommitDelete, Results
<1>4. CASE \E a \in Accounts : CreateAccount(a) \/ DeleteAccount(a)
  BY <1>4 DEF CreateAccount, DeleteAccount
<1>5. CASE \E q \in Requests : Fail(q) \/ DeadlockDetected(q)
  BY <1>1, <1>5 DEF Fail, DeadlockDetected, Results
<1>6. CASE UNCHANGED vars
  BY <1>6 DEF vars
<1>7. QED
  BY <1>2, <1>3, <1>4, <1>5, <1>6 DEF Next, Quiescent

(* Whichever lookup finds the transaction a create answers with, it is the *)
(* request's own or one of the same user under the same key.               *)
ShowsOwn ==
  \A r \in Creates :
    shown[r] # None =>
      /\ create[shown[r]].user = create[r].user
      /\ \/ shown[r] = r
         \/ create[r].key # NoKey /\ create[shown[r]].key = create[r].key

LEMMA OwnNext == BaseInv /\ ShowsOwn /\ [Next]_vars => ShowsOwn'
<1> SUFFICES ASSUME BaseInv, ShowsOwn, [Next]_vars,
                    NEW r \in Creates, shown'[r] # None
             PROVE  /\ create[shown'[r]].user = create[r].user
                    /\ \/ shown'[r] = r
                       \/ create[r].key # NoKey /\ create[shown'[r]].key = create[r].key
  BY InputsRigid DEF ShowsOwn, inputs
<1>1. CASE shown'[r] = shown[r]
  BY <1>1 DEF ShowsOwn
<1>2. CASE shown'[r] # shown[r]
  BY <1>2, ShownStep DEF GetIDByIdempotencyKey, SameKey
<1>3. QED
  BY <1>1, <1>2

-----------------------------------------------------------------------------
(* Deletes *)

(* A step of r that neither adds nor removes a transaction.                *)
LEMMA DeleteStill ==
  ASSUME BaseInv, DeleteInv, NEW r \in Requests, NEW step \in Steps, Goto(r, step),
         pc[r] # "done",
         pc[r] \in Committed => step \in Committed,
         r \in Deletes => step # "commit",
         \A q \in Deletes : result'[q] = "ok" => result[q] = "ok",
         UNCHANGED <<txns, inputs>>
  PROVE  DeleteInv'
<1> USE DEF BaseInv, TypeInv, TypeOK, DeleteInv
<1>1. \A q \in Deletes : Target(q)' = Target(q) /\ Target(q) \in Creates
  BY InputAssumption DEF Target, inputs, DeleteInput
<1>2. pc' = [pc EXCEPT ![r] = step]
  BY DEF Goto
<1>3. \A t \in txns' : pc'[t] \in Committed
  BY <1>2
<1>4. \A d \in Deletes : pc'[d] = "commit" => pc[d] = "commit" /\ d # r
  BY <1>2
<1>5. \A d \in Deletes : pc'[d] = "commit" => Target(d)' \in txns'
  BY <1>1, <1>4
<1>6. \A d, q \in Deletes :
       pc'[d] = "commit" /\ pc'[q] = "commit" /\ Target(d)' = Target(q)' => d = q
  BY <1>1, <1>4
<1>7. \A d \in Deletes : result'[d] = "ok" =>
       pc'[d] = "done" /\ Target(d)' \notin txns' /\ pc'[Target(d)'] \in Committed
  BY <1>1, <1>2
<1>8. OneDeleteSucceeds'
  BY <1>1 DEF OneDeleteSucceeds
<1>9. QED
  BY <1>3, <1>5, <1>6, <1>7, <1>8

LEMMA DeleteRollback ==
  ASSUME BaseInv, DeleteInv, NEW r \in Requests, pc[r] # "done",
         NEW res \in Results \ {"ok"}, Rollback(r, res)
  PROVE  DeleteInv'
<1>1. Goto(r, "done") /\ UNCHANGED <<txns, inputs>>
  BY DEF Rollback, Respond, tables, inputs
<1>2. \A q \in Deletes : result'[q] = "ok" => result[q] = "ok"
  BY DEF Rollback, Respond, BaseInv, TypeInv, TypeOK
<1>3. QED
  BY <1>1, <1>2, DeleteStill DEF Steps, Committed

(* The wait for the other delete's commit, and the row count of DeleteTx,  *)
(* leave one delete about to commit.                                       *)
LEMMA DeleteDeleteTx ==
  ASSUME BaseInv, DeleteInv, NEW d \in Deletes, DeleteTx(d)
  PROVE  DeleteInv'
<1>1. CASE Rollback(d, "notFound")
  BY <1>1, DeleteRollback DEF DeleteTx, Results
<1>2. CASE ~Rollback(d, "notFound")
  <2> USE DEF BaseInv, TypeInv, TypeOK, DeleteInv
  <2>1. /\ pc' = [pc EXCEPT ![d] = "commit"] /\ pc[d] = "deleteTx"
        /\ Target(d) \in txns
        /\ \A q \in Deletes \ {d} : ~(pc[q] = "commit" /\ Target(q) = Target(d))
        /\ UNCHANGED <<txns, delete, create, result>>
    BY <1>2 DEF DeleteTx, RowsWait, Goto, tables, inputs
  <2>2. \A q \in Deletes : Target(q)' = Target(q) /\ Target(q) \in Creates
    BY <2>1, InputAssumption DEF Target, DeleteInput
  <2>3. \A t \in txns' : pc'[t] \in Committed
    BY <2>1, RequestAssumption
  <2>4. \A q \in Deletes : pc'[q] = "commit" => Target(q)' \in txns'
    BY <2>1, <2>2
  <2>5. ASSUME NEW p \in Deletes, NEW q \in Deletes,
               pc'[p] = "commit", pc'[q] = "commit", Target(p)' = Target(q)'
        PROVE  p = q
    <3>1. Target(p) = Target(q)
      BY <2>2, <2>5
    <3>2. /\ p # d => pc[p] = "commit"
          /\ q # d => pc[q] = "commit"
      BY <2>1, <2>5
    <3>3. QED
      BY <2>1, <3>1, <3>2
  <2>6. \A q \in Deletes : result'[q] = "ok" =>
         pc'[q] = "done" /\ Target(q)' \notin txns' /\ pc'[Target(q)'] \in Committed
    BY <2>1, <2>2, RequestAssumption
  <2>7. OneDeleteSucceeds'
    BY <2>1, <2>2 DEF OneDeleteSucceeds
  <2>8. QED
    BY <2>3, <2>4, <2>5, <2>6, <2>7
<1>3. QED
  BY <1>1, <1>2

LEMMA DeleteCommitDelete ==
  ASSUME BaseInv, DeleteInv, NEW d \in Deletes, CommitDelete(d)
  PROVE  DeleteInv'
<1> USE DEF BaseInv, TypeInv, TypeOK, DeleteInv
<1>1. /\ pc[d] = "commit" /\ pc' = [pc EXCEPT ![d] = "done"]
      /\ txns' = txns \ {Target(d)}
      /\ UNCHANGED <<delete, create>>
      /\ \A q \in Requests \ {d} : result'[q] = result[q]
  BY DEF CommitDelete, Respond, Goto, inputs
<1>2. \A q \in Deletes : Target(q)' = Target(q) /\ Target(q) \in Creates
  BY <1>1, InputAssumption DEF Target, DeleteInput
<1>3. Target(d) \in txns
  BY <1>1
<1>4. \A t \in txns' : pc'[t] \in Committed
  BY <1>1, RequestAssumption
<1>5. \A q \in Deletes : pc'[q] = "commit" => Target(q)' \in txns'
  BY <1>1, <1>2
<1>6. \A p, q \in Deletes :
       pc'[p] = "commit" /\ pc'[q] = "commit" /\ Target(p)' = Target(q)' => p = q
  BY <1>1, <1>2
<1>7. \A q \in Deletes : result'[q] = "ok" =>
       pc'[q] = "done" /\ Target(q)' \notin txns' /\ pc'[Target(q)'] \in Committed
  BY <1>1, <1>2, <1>3, RequestAssumption
<1>8. ASSUME NEW p \in Deletes, NEW q \in Deletes,
             result'[p] = "ok", result'[q] = "ok", Target(p)' = Target(q)'
      PROVE  p = q
  <2>1. Target(p) = Target(q)
    BY <1>2, <1>8
  <2>2. /\ p # d => result[p] = "ok"
        /\ q # d => result[q] = "ok"
    BY <1>1, <1>8
  <2>3. p # d /\ q # d => p = q
    BY <2>1, <2>2 DEF OneDeleteSucceeds
  <2>4. \A x \in Deletes : result[x] = "ok" => Target(x) # Target(d)
    BY <1>3
  <2>5. QED
    BY <2>1, <2>2, <2>3, <2>4
<1>9. OneDeleteSucceeds'
  BY <1>8 DEF OneDeleteSucceeds
<1>10. QED
  BY <1>4, <1>5, <1>6, <1>7, <1>9

LEMMA DeleteCommitCreate ==
  ASSUME BaseInv, DeleteInv, NEW r \in Creates, CommitCreate(r)
  PROVE  DeleteInv'
<1> USE DEF BaseInv, TypeInv, TypeOK, DeleteInv
<1>1. /\ pc[r] = "commit" /\ pc' = [pc EXCEPT ![r] = "enrich"]
      /\ txns' = txns \cup {r}
      /\ UNCHANGED <<delete, create, result>>
  BY DEF CommitCreate, Goto, inputs
<1>2. \A q \in Deletes : Target(q)' = Target(q) /\ Target(q) \in Creates /\ q # r
  BY <1>1, InputAssumption, RequestAssumption DEF Target, DeleteInput
<1>3. \A t \in txns' : pc'[t] \in Committed
  BY <1>1 DEF Committed
<1>4. \A q \in Deletes : pc'[q] = "commit" => Target(q)' \in txns'
  BY <1>1, <1>2
<1>5. \A p, q \in Deletes :
       pc'[p] = "commit" /\ pc'[q] = "commit" /\ Target(p)' = Target(q)' => p = q
  BY <1>1, <1>2
<1>6. \A q \in Deletes : result'[q] = "ok" =>
       pc'[q] = "done" /\ Target(q)' \notin txns' /\ pc'[Target(q)'] \in Committed
  BY <1>1, <1>2 DEF Committed
<1>7. OneDeleteSucceeds'
  BY <1>1, <1>2 DEF OneDeleteSucceeds
<1>8. QED
  BY <1>3, <1>4, <1>5, <1>6, <1>7

LEMMA DeleteLoop ==
  ASSUME BaseInv, DeleteInv, NEW r \in Requests, LockBalance(r) \/ UpdateBalance(r)
  PROVE  DeleteInv'
<1>1. CASE \E res \in Results \ {"ok"} : Rollback(r, res)
  BY <1>1, DeleteRollback DEF LockBalance, UpdateBalance
<1>2. CASE ~\E res \in Results \ {"ok"} : Rollback(r, res)
  <2>1. /\ \E step \in Steps : Goto(r, step) /\ (r \in Deletes => step # "commit")
        /\ UNCHANGED <<txns, inputs, result>>
        /\ pc[r] \notin Committed
    BY <1>2, RequestAssumption DEF LockBalance, UpdateBalance, NextLine, Results, Steps,
                                   Committed, tables
  <2>2. QED
    BY <2>1, DeleteStill DEF Committed
<1>3. QED
  BY <1>1, <1>2

LEMMA DeleteCreateStep ==
  ASSUME BaseInv, DeleteInv, NEW r \in Creates, CreateStep(r)
  PROVE  DeleteInv'
<1> USE DEF tables, Steps, Committed
<1>1. \A res \in Results : Respond(r, res) =>
        \A q \in Deletes : result'[q] = "ok" => result[q] = "ok"
  BY RequestAssumption DEF Respond, BaseInv, TypeInv, TypeOK
<1>2. r \notin Deletes
  BY RequestAssumption
<1>3. CASE BeginCreate(r)
  BY <1>1, <1>2, <1>3, DeleteStill DEF BeginCreate, Respond, Results
<1>4. CASE LookupKey(r)
  BY <1>2, <1>4, DeleteStill DEF LookupKey
<1>5. CASE CheckArbiter(r)
  BY <1>2, <1>5, DeleteStill DEF CheckArbiter
<1>6. CASE InsertTx(r)
  BY <1>2, <1>6, DeleteStill, DeleteRollback DEF InsertTx, Results
<1>7. CASE LookupWinner(r)
  BY <1>2, <1>7, DeleteStill, DeleteRollback DEF LookupWinner, Results
<1>8. CASE InsertEntry(r)
  BY <1>2, <1>8, DeleteStill, DeleteRollback DEF InsertEntry, Results
<1>9. CASE Enrich(r)
  <2>1. PICK res \in {"ok", "nil"} : Respond(r, res)
    BY <1>9 DEF Enrich
  <2>2. Goto(r, "done") /\ \A q \in Deletes : result'[q] = "ok" => result[q] = "ok"
    BY <1>1, <2>1 DEF Respond, Results
  <2>3. pc[r] = "enrich" /\ UNCHANGED <<txns, inputs>>
    BY <1>9 DEF Enrich
  <2>4. QED
    BY <1>2, <2>2, <2>3, DeleteStill
<1>10. QED
  BY <1>3, <1>4, <1>5, <1>6, <1>7, <1>8, <1>9, DeleteLoop, DeleteCommitCreate DEF CreateStep

LEMMA DeleteDeleteStep ==
  ASSUME BaseInv, DeleteInv, NEW d \in Deletes, DeleteStep(d)
  PROVE  DeleteInv'
<1> USE DEF tables, Steps, Committed
<1>1. CASE BeginDelete(d)
  <2>1. CASE Respond(d, "notFound")
    <3>1. Goto(d, "done") /\ \A q \in Deletes : result'[q] = "ok" => result[q] = "ok"
      BY <2>1 DEF Respond, BaseInv, TypeInv, TypeOK
    <3>2. pc[d] = "idle" /\ UNCHANGED <<txns, inputs>>
      BY <1>1 DEF BeginDelete
    <3>3. QED
      BY <3>1, <3>2, DeleteStill
  <2>2. CASE ~Respond(d, "notFound")
    BY <1>1, <2>2, DeleteStill DEF BeginDelete
  <2>3. QED
    BY <2>1, <2>2
<1>2. CASE ListEntries(d)
  BY <1>2, DeleteStill DEF ListEntries
<1>3. CASE DeleteEntries(d)
  BY <1>3, DeleteStill DEF DeleteEntries
<1>4. QED
  BY <1>1, <1>2, <1>3, DeleteLoop, DeleteDeleteTx, DeleteCommitDelete DEF DeleteStep

LEMMA DeleteNext == BaseInv /\ DeleteInv /\ [Next]_vars => DeleteInv'
<1> SUFFICES ASSUME BaseInv, DeleteInv, [Next]_vars
             PROVE  DeleteInv'
  OBVIOUS
<1>1. CASE UNCHANGED <<txns, inputs, pc, result>>
  BY <1>1 DEF DeleteInv, OneDeleteSucceeds, Target, inputs
<1>2. CASE \E a \in Accounts : CreateAccount(a) \/ DeleteAccount(a)
  BY <1>1, <1>2 DEF CreateAccount, DeleteAccount
<1>3. CASE \E r \in Requests : Fail(r) \/ DeadlockDetected(r)
  <2>1. PICK r \in Requests : Rollback(r, "error") /\ (Fail(r) \/ DeadlockDetected(r))
    BY <1>3 DEF Fail, DeadlockDetected
  <2>2. pc[r] # "done"
    <3>1. CASE Fail(r)
      BY <3>1 DEF Fail, HoldsConn
    <3>2. CASE DeadlockDetected(r)
      BY <3>2 DEF DeadlockDetected, OnCycle, WaitsFor, RowsWait
    <3>3. QED
      BY <2>1, <3>1, <3>2
  <2>3. QED
    BY <2>1, <2>2, DeleteRollback DEF Results
<1>4. CASE UNCHANGED vars
  BY <1>1, <1>4 DEF vars, tables
<1>5. QED
  BY <1>2, <1>3, <1>4, DeleteCreateStep, DeleteDeleteStep DEF Next, Quiescent

(* Of any number of concurrent deletes of a transaction, one succeeds: the *)
(* reversals of the others are rolled back.                                *)
THEOREM DeletesOnce == Spec => []OneDeleteSucceeds
<1>1. Init => DeleteInv
  BY DEF Init, DeleteInv, OneDeleteSucceeds
<1>2. DeleteInv => OneDeleteSucceeds
  BY DEF DeleteInv
<1>3. QED
  BY BaseInit, BaseNext, DeleteNext, <1>1, <1>2, PTL DEF Spec

-----------------------------------------------------------------------------
(* Answers *)

Settled == {t \in Creates : t \in txns \/ Undone(t)}

(* What a request knows and has said: a request that loads a transaction   *)
(* for its response has it in the books, or its user has deleted it; a     *)
(* delete that is under way, or that may have committed, has found the     *)
(* transaction of its user past its commit.                                *)
AnswerInv ==
  /\ \A q \in Requests : result[q] # "none" => pc[q] = "done"
  /\ \A r \in Creates : InFlight(r) => shown[r] = r
  /\ \A r \in Creates : pc[r] = "enrich" \/ result[r] \in {"ok", "nil"} =>
       shown[r] \in Settled
  /\ \A r \in Creates : result[r] = "nil" => shown[r] \notin txns
  /\ \A r \in Creates : result[r] \in Refusals => r \notin txns
  /\ \A d \in Deletes : pc[d] \notin {"idle", "done"} \/ result[d] \in {"ok", "error"} =>
       pc[Target(d)] \in Committed /\ create[Target(d)].user = delete[d].user

(* What a step of r does to what the clients see, when the books stay as   *)
(* they are.                                                               *)
Answering(r, step, res) ==
  /\ pc[r] # "done"
  /\ pc' = [pc EXCEPT ![r] = step]
  /\ result' = [result EXCEPT ![r] = res]
  /\ \A q \in Requests \ {r} : shown'[q] = shown[q]
  /\ res # "none" <=> step = "done"
  /\ pc[r] \in Committed => step \in Committed /\ res \notin Refusals
  /\ r \in Creates =>
       /\ step = "enrich" => shown'[r] \in txns
       /\ step \in {"entry", "lock", "update", "commit"} => shown'[r] = r
       /\ res \in {"ok", "nil"} => pc[r] = "enrich" /\ shown'[r] = shown[r]
       /\ res = "nil" => shown[r] \notin txns
  /\ r \in Deletes /\ pc[r] = "idle" /\ (step # "done" \/ res \in {"ok", "error"}) =>
       Target(r) \in txns /\ create[Target(r)].user = delete[r].user

LEMMA AnswerStill ==
  ASSUME BaseInv, DeleteInv, AnswerInv, NEW r \in Requests, NEW step \in Steps,
         NEW res \in Results, Answering(r, step, res), UNCHANGED <<txns, inputs>>
  PROVE  AnswerInv'
<1> USE DEF BaseInv, TypeInv, TypeOK, Answering
<1>1. \A d \in Deletes : Target(d)' = Target(d) /\ Target(d) \in Creates
  BY InputAssumption DEF Target, inputs, DeleteInput
<1>2. result[r] = "none" /\ UNCHANGED <<txns, create, delete>>
  BY DEF AnswerInv, inputs
<1>3. \A q \in Requests : pc[q] \in Committed => pc'[q] \in Committed
  OBVIOUS
<1>4. \A q \in Requests : result[q] # "none" => result'[q] = result[q]
  BY <1>2
<1>5. \A t \in Settled : t \in Settled'
  BY <1>1, <1>2, <1>4 DEF Settled, Undone
<1>6. \A q \in Requests : result'[q] # "none" => pc'[q] = "done"
  BY <1>2 DEF AnswerInv
<1>7. \A q \in Creates : InFlight(q)' => shown'[q] = q
  BY DEF AnswerInv, InFlight
<1>8. ASSUME NEW q \in Creates, pc'[q] = "enrich" \/ result'[q] \in {"ok", "nil"}
      PROVE  shown'[q] \in Settled'
  <2>1. CASE q # r
    <3>1. shown'[q] = shown[q] /\ shown[q] \in Settled
      BY <1>8, <2>1 DEF AnswerInv
    <3>2. QED
      BY <1>5, <3>1
  <2>2. CASE q = r /\ step = "enrich"
    BY <1>2, <2>2 DEF Settled
  <2>3. CASE q = r /\ step # "enrich"
    <3>1. pc[r] = "enrich" /\ shown'[r] = shown[r]
      BY <1>8, <2>3
    <3>2. shown[r] \in Settled
      BY <2>3, <3>1 DEF AnswerInv
    <3>3. QED
      BY <1>5, <2>3, <3>1, <3>2
  <2>4. QED
    BY <2>1, <2>2, <2>3
<1>9. \A q \in Creates : result'[q] = "nil" => shown'[q] \notin txns'
  BY <1>2 DEF AnswerInv
<1>10. \A q \in Creates : result'[q] \in Refusals => q \notin txns'
  BY <1>2 DEF AnswerInv, DeleteInv
<1>11. \A d \in Deletes : pc'[d] \notin {"idle", "done"} \/ result'[d] \in {"ok", "error"} =>
         pc'[Target(d)'] \in Committed /\ create'[Target(d)'].user = delete'[d].user
  BY <1>1, <1>2, <1>3 DEF AnswerInv, DeleteInv
<1>12. QED
  BY <1>6, <1>7, <1>8, <1>9, <1>10, <1>11 DEF AnswerInv

LEMMA AnswerRollback ==
  ASSUME BaseInv, DeleteInv, AnswerInv, NEW r \in Requests, pc[r] \notin {"idle", "done"},
         NEW res \in Results \ {"none", "ok", "nil"}, Rollback(r, res),
         pc[r] = "enrich" => res \notin Refusals
  PROVE  AnswerInv'
<1>1. Answering(r, "done", res) /\ UNCHANGED <<txns, inputs>>
  BY DEF Rollback, Respond, Goto, Answering, Committed, tables
<1>2. QED
  BY <1>1, AnswerStill DEF Steps

LEMMA AnswerCommitCreate ==
  ASSUME BaseInv, DeleteInv, AnswerInv, NEW r \in Creates, CommitCreate(r)
  PROVE  AnswerInv'
<1> USE DEF BaseInv, TypeInv, TypeOK
<1>1. /\ pc[r] = "commit" /\ pc' = [pc EXCEPT ![r] = "enrich"] /\ txns' = txns \cup {r}
      /\ UNCHANGED <<create, delete, shown, result>>
  BY DEF CommitCreate, Goto, inputs
<1>2. result[r] = "none" /\ shown[r] = r
  BY <1>1 DEF AnswerInv, InFlight
<1>3. \A d \in Deletes : Target(d)' = Target(d) /\ Target(d) \in Creates
  BY <1>1, InputAssumption DEF Target, DeleteInput
<1>4. \A q \in Requests : pc[q] \in Committed => pc'[q] \in Committed
  BY <1>1 DEF Committed
<1>5. ASSUME NEW t \in Creates, Undone(t)
      PROVE  t # r /\ Undone(t)'
  <2>1. pc[t] \in Committed
    BY <1>5 DEF Undone, AnswerInv
  <2>2. t # r
    BY <1>1, <2>1 DEF Committed
  <2>3. QED
    BY <1>1, <1>3, <1>5, <2>2 DEF Undone
<1>6. \A t \in Settled : t \in Settled'
  BY <1>1, <1>5 DEF Settled
<1>7. \A q \in Requests : result'[q] # "none" => pc'[q] = "done"
  BY <1>1, <1>2 DEF AnswerInv
<1>8. \A q \in Creates : InFlight(q)' => shown'[q] = q
  BY <1>1 DEF AnswerInv, InFlight
<1>9. ASSUME NEW q \in Creates, pc'[q] = "enrich" \/ result'[q] \in {"ok", "nil"}
      PROVE  shown'[q] \in Settled'
  <2>1. CASE q = r
    BY <1>1, <1>2, <2>1 DEF Settled
  <2>2. CASE q # r
    <3>1. shown[q] \in Settled
      BY <1>1, <1>9, <2>2 DEF AnswerInv
    <3>2. QED
      BY <1>1, <1>6, <3>1
  <2>3. QED
    BY <2>1, <2>2
<1>10. ASSUME NEW q \in Creates, result'[q] = "nil"
       PROVE  shown'[q] \notin txns'
  <2>1. shown[q] \notin txns /\ shown[q] \in Settled
    BY <1>1, <1>10 DEF AnswerInv
  <2>2. shown[q] # r
    BY <1>5, <2>1 DEF Settled
  <2>3. QED
    BY <1>1, <2>1, <2>2
<1>11. \A q \in Creates : result'[q] \in Refusals => q \notin txns'
  BY <1>1, <1>2 DEF AnswerInv, Refusals
<1>12. \A d \in Deletes : pc'[d] \notin {"idle", "done"} \/ result'[d] \in {"ok", "error"} =>
         pc'[Target(d)'] \in Committed /\ create'[Target(d)'].user = delete'[d].user
  BY <1>1, <1>3, <1>4, RequestAssumption DEF AnswerInv
<1>13. QED
  BY <1>7, <1>8, <1>9, <1>10, <1>11, <1>12 DEF AnswerInv

LEMMA AnswerCommitDelete ==
  ASSUME BaseInv, DeleteInv, AnswerInv, NEW d \in Deletes, CommitDelete(d)
  PROVE  AnswerInv'
<1> USE DEF BaseInv, TypeInv, TypeOK
<1>1. /\ pc[d] = "commit" /\ pc' = [pc EXCEPT ![d] = "done"] /\ txns' = txns \ {Target(d)}
      /\ result'[d] \in {"ok", "error"}
      /\ \A q \in Requests \ {d} : result'[q] = result[q]
      /\ UNCHANGED <<create, delete, shown>>
  BY DEF CommitDelete, Respond, Goto, inputs
<1>2. /\ \A q \in Deletes : Target(q)' = Target(q) /\ Target(q) \in Creates
      /\ d \notin Creates
  BY <1>1, InputAssumption, RequestAssumption DEF Target, DeleteInput
<1>3. /\ result[d] = "none" /\ Target(d) \in txns
      /\ pc[Target(d)] \in Committed /\ create[Target(d)].user = delete[d].user
  BY <1>1 DEF AnswerInv, DeleteInv
<1>4. \A q \in Requests : pc[q] \in Committed => pc'[q] \in Committed
  BY <1>1 DEF Committed
<1>5. ASSUME NEW t \in Settled
      PROVE  t \in Settled'
  <2>1. CASE t = Target(d)
    BY <1>1, <1>2, <1>3, <2>1 DEF Settled, Undone
  <2>2. CASE t # Target(d) /\ t \in txns
    BY <1>1, <2>2 DEF Settled
  <2>3. CASE t # Target(d) /\ t \notin txns
    <3>1. PICK q \in Deletes : Target(q) = t /\ delete[q].user = create[t].user
                               /\ result[q] \in {"ok", "error"}
      BY <1>5, <2>3 DEF Settled, Undone
    <3>2. q # d
      BY <2>3, <3>1
    <3>3. QED
      BY <1>1, <1>2, <2>3, <3>1, <3>2 DEF Settled, Undone
  <2>4. QED
    BY <2>1, <2>2, <2>3
<1>6. \A q \in Requests : result'[q] # "none" => pc'[q] = "done"
  BY <1>1 DEF AnswerInv
<1>7. \A q \in Creates : InFlight(q)' => shown'[q] = q
  BY <1>1, <1>2 DEF AnswerInv, InFlight
<1>8. \A q \in Creates : pc'[q] = "enrich" \/ result'[q] \in {"ok", "nil"} =>
        shown'[q] \in Settled'
  <2>1. \A q \in Creates : pc'[q] = pc[q] /\ result'[q] = result[q] /\ shown'[q] = shown[q]
    BY <1>1, <1>2
  <2>2. QED
    BY <1>5, <2>1 DEF AnswerInv
<1>9. /\ \A q \in Creates : result'[q] = "nil" => shown'[q] \notin txns'
      /\ \A q \in Creates : result'[q] \in Refusals => q \notin txns'
  BY <1>1, <1>2 DEF AnswerInv
<1>10. \A q \in Deletes : pc'[q] \notin {"idle", "done"} \/ result'[q] \in {"ok", "error"} =>
         pc'[Target(q)'] \in Committed /\ create'[Target(q)'].user = delete'[q].user
  BY <1>1, <1>2, <1>3, <1>4 DEF AnswerInv
<1>11. QED
  BY <1>6, <1>7, <1>8, <1>9, <1>10 DEF AnswerInv

(* The statements of a loop, which deletes and creates share.              *)
LEMMA AnswerLoop ==
  ASSUME BaseInv, DeleteInv, AnswerInv, NEW r \in Requests, LockBalance(r) \/ UpdateBalance(r)
  PROVE  AnswerInv'
<1>1. pc[r] \in {"lock", "update"}
  BY DEF LockBalance, UpdateBalance
<1>2. CASE \E res \in Results \ {"none", "ok", "nil"} : Rollback(r, res)
  BY <1>1, <1>2, AnswerRollback
<1>3. CASE ~\E res \in Results \ {"none", "ok", "nil"} : Rollback(r, res)
  <2>1. /\ \E step \in Steps \ {"idle", "enrich", "done"} : Goto(r, step)
        /\ UNCHANGED <<txns, inputs, shown, result>>
    BY <1>3 DEF LockBalance, UpdateBalance, NextLine, Results, Steps, tables
  <2>2. result[r] = "none" /\ (r \in Creates => shown[r] = r)
    BY <1>1 DEF AnswerInv, InFlight
  <2>3. PICK step \in Steps \ {"idle", "enrich", "done"} : Goto(r, step)
    BY <2>1
  <2>4. Answering(r, step, "none")
    BY <1>1, <2>1, <2>2, <2>3 DEF Answering, Goto, Committed, Refusals, BaseInv, TypeInv, TypeOK
  <2>5. QED
    BY <2>1, <2>4, AnswerStill DEF Results
<1>4. QED
  BY <1>2, <1>3

LEMMA AnswerCreateStep ==
  ASSUME BaseInv, DeleteInv, ShowsOwn, AnswerInv, NEW r \in Creates, CreateStep(r)
  PROVE  AnswerInv'
<1> USE DEF tables, Goto, Respond
<1> DEFINE Ends(step, res) == Answering(r, step, res) /\ UNCHANGED <<txns, inputs>>
<1>1. /\ r \notin Deletes
      /\ pc[r] # "done" => result[r] = "none"
      /\ result \in [Requests -> Results] /\ shown \in [Requests -> Creates \cup {None}]
  BY RequestAssumption DEF AnswerInv, BaseInv, TypeInv, TypeOK
<1>2. ASSUME NEW step \in Steps, NEW res \in Results, Ends(step, res)
      PROVE  AnswerInv'
  BY <1>2, AnswerStill
<1>3. CASE BeginCreate(r)
  <2>1. \/ Ends("done", "invalid") \/ Ends("done", "notFound")
        \/ Ends("lookup", "none") \/ Ends("arbiter", "none")
    BY <1>1, <1>3 DEF BeginCreate, Answering, Committed, Refusals
  <2>2. QED
    BY <1>2, <2>1 DEF Steps, Results
<1>4. CASE LookupKey(r)
  <2>1. Ends("enrich", "none") \/ Ends("arbiter", "none")
    BY <1>1, <1>4 DEF LookupKey, Answering, Committed, Refusals, GetIDByIdempotencyKey
  <2>2. QED
    BY <1>2, <2>1 DEF Steps, Results
<1>5. CASE CheckArbiter(r)
  <2>1. Ends("insert", "none") \/ Ends("winner", "none")
    BY <1>1, <1>5 DEF CheckArbiter, Answering, Committed, Refusals
  <2>2. QED
    BY <1>2, <2>1 DEF Steps, Results
<1>6. CASE InsertTx(r)
  <2>1. CASE Rollback(r, "duplicateKey")
    BY <1>6, <2>1, AnswerRollback DEF InsertTx, Results
  <2>2. CASE ~Rollback(r, "duplicateKey")
    <3>1. Ends("entry", "none")
      BY <1>1, <1>6, <2>2 DEF InsertTx, Answering, Committed, Refusals
    <3>2. QED
      BY <1>2, <3>1 DEF Steps, Results
  <2>3. QED
    BY <2>1, <2>2
<1>7. CASE LookupWinner(r)
  <2>1. CASE Rollback(r, "error")
    BY <1>7, <2>1, AnswerRollback DEF LookupWinner, Results
  <2>2. CASE ~Rollback(r, "error")
    <3>1. Ends("enrich", "none")
      BY <1>1, <1>7, <2>2 DEF LookupWinner, Answering, Committed, Refusals,
                              GetIDByIdempotencyKey
    <3>2. QED
      BY <1>2, <3>1 DEF Steps, Results
  <2>3. QED
    BY <2>1, <2>2
<1>8. CASE InsertEntry(r)
  <2>1. CASE Rollback(r, "error")
    BY <1>8, <2>1, AnswerRollback DEF InsertEntry, Results
  <2>2. CASE ~Rollback(r, "error")
    <3>1. shown[r] = r
      BY <1>8 DEF InsertEntry, AnswerInv, InFlight
    <3>2. Ends("lock", "none")
      BY <1>1, <1>8, <2>2, <3>1 DEF InsertEntry, Answering, Committed, Refusals
    <3>3. QED
      BY <1>2, <3>2 DEF Steps, Results
  <2>3. QED
    BY <2>1, <2>2
<1>9. CASE Enrich(r)
  <2>1. shown[r] \in Creates /\ pc[r] = "enrich"
    BY <1>9 DEF Enrich, AnswerInv, Settled
  <2>2. CASE shown[r] \in txns /\ create[shown[r]].user = create[r].user
    <3>1. Ends("done", "ok")
      BY <1>1, <1>9, <2>1, <2>2 DEF Enrich, Answering, Committed, Refusals
    <3>2. QED
      BY <1>2, <3>1 DEF Steps, Results
  <2>3. CASE ~(shown[r] \in txns /\ create[shown[r]].user = create[r].user)
    <3>1. shown[r] \notin txns
      BY <2>1, <2>3, RequestAssumption DEF ShowsOwn
    <3>2. Ends("done", "nil")
      BY <1>1, <1>9, <2>1, <2>3, <3>1 DEF Enrich, Answering, Committed, Refusals
    <3>3. QED
      BY <1>2, <3>2 DEF Steps, Results
  <2>4. QED
    BY <2>2, <2>3
<1>10. QED
  BY <1>3, <1>4, <1>5, <1>6, <1>7, <1>8, <1>9, AnswerLoop, AnswerCommitCreate DEF CreateStep

LEMMA AnswerDeleteStep ==
  ASSUME BaseInv, DeleteInv, AnswerInv, NEW d \in Deletes, DeleteStep(d)
  PROVE  AnswerInv'
<1> USE DEF tables, Goto, Respond
<1> DEFINE Ends(step, res) == Answering(d, step, res) /\ UNCHANGED <<txns, inputs>>
<1>1. /\ d \notin Creates
      /\ pc[d] # "done" => result[d] = "none"
      /\ result \in [Requests -> Results]
  BY RequestAssumption DEF AnswerInv, BaseInv, TypeInv, TypeOK
<1>2. ASSUME NEW step \in Steps, NEW res \in Results, Ends(step, res)
      PROVE  AnswerInv'
  BY <1>2, AnswerStill
<1>3. CASE BeginDelete(d)
  <2>1. Ends("done", "notFound") \/ Ends("list", "none")
    BY <1>1, <1>3 DEF BeginDelete, Answering, Committed, Refusals
  <2>2. QED
    BY <1>2, <2>1 DEF Steps, Results
<1>4. CASE ListEntries(d)
  <2>1. Ends("deleteEntries", "none") \/ Ends("lock", "none")
    BY <1>1, <1>4 DEF ListEntries, Answering, Committed, Refusals
  <2>2. QED
    BY <1>2, <2>1 DEF Steps, Results
<1>5. CASE DeleteEntries(d)
  <2>1. Ends("deleteTx", "none")
    BY <1>1, <1>5 DEF DeleteEntries, Answering, Committed, Refusals
  <2>2. QED
    BY <1>2, <2>1 DEF Steps, Results
<1>6. CASE DeleteTx(d)
  <2>1. CASE Rollback(d, "notFound")
    BY <1>6, <2>1, AnswerRollback DEF DeleteTx, Results
  <2>2. CASE ~Rollback(d, "notFound")
    <3>1. Ends("commit", "none")
      BY <1>1, <1>6, <2>2 DEF DeleteTx, Answering, Committed, Refusals
    <3>2. QED
      BY <1>2, <3>1 DEF Steps, Results
  <2>3. QED
    BY <2>1, <2>2
<1>7. QED
  BY <1>3, <1>4, <1>5, <1>6, AnswerLoop, AnswerCommitDelete DEF DeleteStep

LEMMA AnswerNext == BaseInv /\ DeleteInv /\ ShowsOwn /\ AnswerInv /\ [Next]_vars => AnswerInv'
<1> SUFFICES ASSUME BaseInv, DeleteInv, ShowsOwn, AnswerInv, [Next]_vars
             PROVE  AnswerInv'
  OBVIOUS
<1>1. CASE UNCHANGED <<txns, inputs, pc, shown, result>>
  BY <1>1 DEF AnswerInv, InFlight, Settled, Undone, Target, inputs
<1>2. CASE \E a \in Accounts : CreateAccount(a) \/ DeleteAccount(a)
  BY <1>1, <1>2 DEF CreateAccount, DeleteAccount
<1>3. CASE \E r \in Requests : Fail(r) \/ DeadlockDetected(r)
  <2>1. PICK r \in Requests : Rollback(r, "error") /\ (Fail(r) \/ DeadlockDetected(r))
    BY <1>3 DEF Fail, DeadlockDetected
  <2>2. pc[r] \notin {"idle", "done"}
    <3>1. CASE Fail(r)
      BY <3>1 DEF Fail, HoldsConn
    <3>2. CASE DeadlockDetected(r)
      BY <3>2 DEF DeadlockDetected, OnCycle, WaitsFor, RowsWait
    <3>3. QED
      BY <2>1, <3>1, <3>2
  <2>3. QED
    BY <2>1, <2>2, AnswerRollback DEF Results, Refusals
<1>4. CASE UNCHANGED vars
  BY <1>1, <1>4 DEF vars, tables
<1>5. QED
  BY <1>2, <1>3, <1>4, AnswerCreateStep, AnswerDeleteStep DEF Next, Quiescent

RepliesInv == BaseInv /\ KeyInv /\ DeleteInv /\ ShowsOwn /\ AnswerInv

LEMMA RepliesInit == Init => RepliesInv
<1> SUFFICES ASSUME Init
             PROVE  RepliesInv
  OBVIOUS
<1>1. KeyInv
  BY DEF Init, KeyInv, KeyTaken, InFlight
<1>2. DeleteInv
  BY DEF Init, DeleteInv, OneDeleteSucceeds
<1>3. ShowsOwn
  BY DEF Init, ShowsOwn
<1>4. AnswerInv
  BY DEF Init, AnswerInv, InFlight, Refusals
<1>5. QED
  BY BaseInit, <1>1, <1>2, <1>3, <1>4 DEF RepliesInv

LEMMA RepliesNext == RepliesInv /\ [Next]_vars => RepliesInv'
BY BaseNext, KeyNext, DeleteNext, OwnNext, AnswerNext DEF RepliesInv

(* What clients have been told stays true, for any number of users and     *)
(* requests, whichever of them fail, lose their answers or are sent again. *)
THEOREM AnswersKept == Spec => []AnswersStand
<1>1. RepliesInv => AnswersStand
  <2> SUFFICES ASSUME RepliesInv
               PROVE  AnswersStand
    OBVIOUS
  <2>1. \A r \in Creates : result[r] = "ok" => shown[r] \in txns \/ Undone(shown[r])
    BY DEF RepliesInv, AnswerInv, Settled
  <2>2. \A r \in Creates : result[r] = "nil" => Undone(shown[r])
    BY DEF RepliesInv, AnswerInv, Settled
  <2>3. \A r \in Creates : result[r] \in Refusals => r \notin txns
    BY DEF RepliesInv, AnswerInv
  <2>4. \A d \in Deletes : result[d] = "ok" => Target(d) \notin txns
    BY DEF RepliesInv, DeleteInv
  <2>5. QED
    BY <2>1, <2>2, <2>3, <2>4 DEF AnswersStand
<1>2. QED
  BY RepliesInit, RepliesNext, <1>1, PTL DEF Spec

(* All the answers a user gets to one key are about one transaction, until *)
(* it is deleted: the lookup, the arbiter index and the unique constraint  *)
(* leave no two transactions to answer with.                               *)
THEOREM RepliesAgreeAlways == Spec => []RepliesAgree
<1>1. RepliesInv => RepliesAgree
  <2> SUFFICES ASSUME RepliesInv,
                      NEW r \in Creates, NEW q \in Creates,
                      result[r] \in {"ok", "nil"}, result[q] \in {"ok", "nil"},
                      SameKey(q, r), create[q].user = create[r].user,
                      ~Undone(shown[r]), ~Undone(shown[q])
               PROVE  shown[r] = shown[q]
    BY DEF RepliesAgree
  <2>1. shown[r] \in txns /\ shown[q] \in txns /\ shown[r] \in Creates /\ shown[q] \in Creates
    BY DEF RepliesInv, AnswerInv, Settled
  <2>2. create[shown[r]].key = create[r].key /\ create[shown[q]].key = create[q].key
    BY <2>1, RequestAssumption DEF RepliesInv, ShowsOwn
  <2>3. SameKey(shown[r], shown[q])
    BY <2>2 DEF SameKey
  <2>4. QED
    BY <2>1, <2>3 DEF RepliesInv, KeyInv, KeyTaken
<1>2. QED
  BY RepliesInit, RepliesNext, <1>1, PTL DEF Spec
=============================================================================
