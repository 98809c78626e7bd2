------------------------ MODULE ReconciliationProofs ------------------------
(***************************************************************************)
(* Theorems about Reconciliation: what the three separate statements of    *)
(* ReconcileAccount may do next to any number of creates, deletes, account *)
(* deletions and other calls that reconcile.  The inductive invariants of  *)
(* the service are reused: a fix is one more step that keeps them.         *)
(***************************************************************************)
EXTENDS Reconciliation, LedgerProofs

USE DEF Requests

(* The accounts still to come have existed.                                *)
StillListed == \A x \in Reconcilers : \A a \in todo[x] : account[a] # "absent"

(* The version of an account only grows, and as long as it has not, the    *)
(* sum read with it is the sum of the ledger.                              *)
SumTrue(x) ==
  stage[x] \in {"read", "fix"} =>
    /\ account[acct[x]] # "absent"
    /\ account[acct[x]] = "live" =>
         /\ version[acct[x]] >= sumVersion[x]
         /\ version[acct[x]] = sumVersion[x] => sum[x] = LedgerBalance(acct[x])

(* Likewise for the balance.                                               *)
SeenTrue(x) ==
  stage[x] = "fix" /\ account[acct[x]] = "live" =>
    /\ version[acct[x]] >= seen[x].version
    /\ version[acct[x]] = seen[x].version => balance[acct[x]] = seen[x].balance

ReadsInv ==
  /\ ReconciliationTypeOK
  /\ StillListed
  /\ \A x \in Reconcilers : SumTrue(x) /\ SeenTrue(x)

ReconciliationInv == PostInv /\ ReadsInv

-----------------------------------------------------------------------------
(* What a step does to an account, as somebody without its lock sees it *)

(* A fix that goes through gives an account that nobody has locked another *)
(* balance, and counts up its version.                                     *)
Fixed(a, b) ==
  /\ account[a] = "live" /\ lock[a] = None
  /\ balance' = [balance EXCEPT ![a] = b]
  /\ version' = [version EXCEPT ![a] = @ + 1]
  /\ UNCHANGED <<account, txns, ledger, opening, dbtx, loop, inputs, pc, shown, result>>

LEMMA FixFixes ==
  ASSUME ReconciliationTypeOK, NEW x \in Reconcilers, Fix(x)
  PROVE  \/ UNCHANGED vars
         \/ /\ Matches(x)
            /\ Round(sum[x]) \in Int /\ Round(sum[x]) >= 0
            /\ Fixed(acct[x], Round(sum[x]))
<1>1. Round(sum[x]) \in Int
  BY RoundType DEF ReconciliationTypeOK
<1>2. QED
  BY <1>1 DEF Fix, Matches, Storable, Fixed

(* An account that has existed keeps its balance and its entries unless    *)
(* its version goes up.                                                    *)
Counted(a) ==
  account[a] # "absent" =>
    /\ account'[a] # "absent"
    /\ account'[a] = "live" =>
         /\ account[a] = "live"
         /\ version'[a] >= version[a]
         /\ version'[a] = version[a] =>
              balance'[a] = balance[a] /\ EntriesAt(a)' = EntriesAt(a)

LEMMA CountedCreate ==
  ASSUME PostInv, NEW r \in Creates, CommitCreate(r), NEW a \in Accounts
  PROVE  Counted(a)
<1>1. /\ pc[r] = "commit" /\ ledger' = ledger \cup inserted[r] /\ CommitBalances(r)
      /\ account' = account
  BY DEF CommitCreate
<1>2. TypeOK /\ LoopDone(r) /\ EntriesDone(r)
  BY DEF PostInv, PostPart, LockInv, BaseInv, TypeInv
<1>3. \A e \in inserted[r] : e.account \in written[r]
  BY <1>1, <1>2 DEF LoopDone, EntriesDone, Locking, LineRow
<1>4. CASE a \in written[r]
  BY <1>1, <1>2, <1>4 DEF CommitBalances, TypeOK, Counted
<1>5. CASE a \notin written[r]
  <2>1. EntriesAt(a)' = EntriesAt(a)
    BY <1>1, <1>3, <1>5 DEF EntriesAt
  <2>2. QED
    BY <1>1, <1>2, <1>5, <2>1 DEF CommitBalances, TypeOK, Counted
<1>6. QED
  BY <1>4, <1>5

LEMMA CountedDelete ==
  ASSUME PostInv, NEW d \in Deletes, CommitDelete(d), NEW a \in Accounts
  PROVE  Counted(a)
<1>1. /\ pc[d] = "commit" /\ ledger' = ledger \ EntriesOf(Target(d)) /\ CommitBalances(d)
      /\ account' = account
  BY DEF CommitDelete
<1>2. TypeOK /\ LoopDone(d) /\ EntriesListed(d) /\ Target(d) \in txns
  BY <1>1 DEF PostInv, PostPart, LockInv, BaseInv, TypeInv, DeleteInv
<1>3. \A e \in EntriesOf(Target(d)) : e.account \in written[d]
  <2>1. /\ written[d] = {lines[d][i].account : i \in 1..at[d] - 1}
        /\ at[d] = Len(lines[d]) + 1 /\ Len(lines[d]) \in Nat
    BY <1>1, <1>2 DEF LoopDone, Locking, TypeOK
  <2>2. at[d] - 1 = Len(lines[d])
    BY <2>1
  <2>3. QED
    BY <1>1, <1>2, <2>1, <2>2 DEF EntriesListed, Locking
<1>4. CASE a \in written[d]
  BY <1>1, <1>2, <1>4 DEF CommitBalances, TypeOK, Counted
<1>5. CASE a \notin written[d]
  <2>1. EntriesAt(a)' = EntriesAt(a)
    BY <1>1, <1>3, <1>5 DEF EntriesAt
  <2>2. QED
    BY <1>1, <1>2, <1>5, <2>1 DEF CommitBalances, TypeOK, Counted
<1>6. QED
  BY <1>4, <1>5

LEMMA VersionStill ==
  ASSUME [Next]_vars,
         ~\E r \in Creates : CommitCreate(r),
         ~\E d \in Deletes : CommitDelete(d),
         ~\E a \in Accounts : CreateAccount(a) \/ DeleteAccount(a)
  PROVE  UNCHANGED version
<1>1. \A r, res : Rollback(r, res) => UNCHANGED tables
  BY DEF Rollback
<1>2. CASE \E r \in Creates : CreateStep(r)
  BY <1>1, <1>2 DEF CreateStep, BeginCreate, LookupKey, CheckArbiter, InsertTx, LookupWinner,
                    InsertEntry, LockBalance, UpdateBalance, Enrich, tables
<1>3. CASE \E d \in Deletes : DeleteStep(d)
  BY <1>1, <1>3 DEF DeleteStep, BeginDelete, ListEntries, LockBalance, UpdateBalance,
                    DeleteEntries, DeleteTx, tables
<1>4. CASE \E r \in Requests : Fail(r) \/ DeadlockDetected(r)
  BY <1>1, <1>4 DEF Fail, DeadlockDetected, tables
<1>5. CASE UNCHANGED vars
  BY <1>5 DEF vars, tables
<1>6. QED
  BY <1>2, <1>3, <1>4, <1>5 DEF Next, Quiescent

LEMMA CountedNext ==
  ASSUME PostInv, [Next]_vars
  PROVE  \A a \in Accounts : Counted(a)
<1>1. TypeOK
  BY DEF PostInv, LockInv, BaseInv, TypeInv
<1>2. CASE \E b \in Accounts : CreateAccount(b) \/ DeleteAccount(b)
  BY <1>1, <1>2 DEF CreateAccount, DeleteAccount, Counted, TypeOK, EntriesAt
<1>3. CASE UNCHANGED <<account, balance, version, ledger>>
  BY <1>1, <1>3 DEF Counted, TypeOK, EntriesAt
<1>4. QED
  BY <1>2, <1>3, BooksStill, VersionStill, CountedCreate, CountedDelete

LEMMA CountedFix ==
  ASSUME PostInv, NEW a \in Accounts, NEW b \in Int, Fixed(a, b)
  PROVE  \A c \in Accounts : Counted(c)
BY DEF Fixed, Counted, PostInv, LockInv, BaseInv, TypeInv, TypeOK, EntriesAt

-----------------------------------------------------------------------------
(* A fix keeps the invariants of the service: a request that relies on a   *)
(* balance has locked its row.                                             *)

LEMMA LockFix ==
  ASSUME PostInv, NEW a \in Accounts, NEW b \in Int, b >= 0, Fixed(a, b)
  PROVE  LockInv'
<1>1. LockInv /\ BaseInv /\ TypeOK
  BY DEF PostInv, LockInv, BaseInv, TypeInv
<1>2. BaseInv'
  BY <1>1 DEF Fixed, BaseInv, TypeInv, TypeOK, FiniteRows, InLoop, dbtx, loop, inputs
<1>3. LocksHeld' /\ WritesLocked'
  BY <1>1 DEF Fixed, LockInv, LockPart, LocksHeld, WritesLocked, dbtx
<1>4. RowCurrent'
  <2> SUFFICES ASSUME NEW q \in Requests, pc'[q] = "update"
               PROVE  /\ lock'[Current(q)'.account] = q
                      /\ row'[q] = [balance |-> balance'[Current(q)'.account],
                                    version |-> version'[Current(q)'.account]]
                      /\ ~Insufficient(q, Current(q).account)'
    BY DEF RowCurrent
  <2>1. pc[q] = "update" /\ UNCHANGED <<lock, lines, at, row>>
    BY DEF Fixed, dbtx, loop
  <2>2. Current(q)' = Current(q) /\ Delta(q)' = Delta(q)
    BY <2>1 DEF Current, Delta
  <2>3. Current(q).account \in Accounts
    BY <1>1, <2>1, CurrentType DEF BaseInv, InLoop
  <2>4. /\ lock[Current(q).account] = q
        /\ row[q] = [balance |-> balance[Current(q).account],
                     version |-> version[Current(q).account]]
        /\ ~Insufficient(q, Current(q).account)
    BY <1>1, <2>1 DEF LockInv, LockPart, RowCurrent
  <2>5. Current(q).account # a
    BY <2>4, RequestAssumption DEF Fixed
  <2>6. /\ balance'[Current(q).account] = balance[Current(q).account]
        /\ version'[Current(q).account] = version[Current(q).account]
    BY <1>1, <2>3, <2>5 DEF Fixed, TypeOK
  <2>7. QED
    BY <2>1, <2>2, <2>4, <2>6 DEF Insufficient
<1>5. NonNegative' /\ NoVersionConflict'
  BY <1>1 DEF Fixed, LockInv, LockPart, NonNegative, NoOverdraft, NoVersionConflict, TypeOK, dbtx
<1>6. QED
  BY <1>2, <1>3, <1>4, <1>5 DEF LockInv, LockPart

LEMMA PostFix ==
  ASSUME PostInv, NEW a \in Accounts, NEW b \in Int, b >= 0, Fixed(a, b)
  PROVE  PostInv'
<1>1. UNCHANGED <<account, txns, ledger, inserted, written, create, delete, lines, at, pc, result>>
  BY DEF Fixed, dbtx, loop, inputs
<1>2. DeleteInv'
  BY <1>1 DEF PostInv, DeleteInv, OneDeleteSucceeds, Target
<1>3. \A q \in Requests : LoopDone(q)'
  BY <1>1 DEF PostInv, PostPart, LoopDone
<1>4. \A r \in Creates : EntriesDone(r)'
  <2>1. \A r : Checked(r)' = Checked(r)
    BY <1>1, RowsRigid DEF Checked, Valid
  <2>2. \A r, i : LineRow(r, i)' = LineRow(r, i)
    BY <1>1 DEF LineRow
  <2>3. QED
    BY <1>1, <2>1, <2>2, RowsRigid DEF PostInv, PostPart, EntriesDone
<1>5. \A d \in Deletes : EntriesListed(d)'
  BY <1>1 DEF PostInv, PostPart, EntriesListed, EntriesOf, Target
<1>6. EntriesCalled'
  <2>1. \A e : Called(e)' = Called(e)
    BY <1>1, RowsRigid DEF Called
  <2>2. QED
    BY <1>1, <2>1 DEF PostInv, PostPart, EntriesCalled
<1>7. QED
  BY <1>2, <1>3, <1>4, <1>5, <1>6, LockFix DEF PostInv, PostPart

LEMMA BalanceFix ==
  ASSUME BalanceInv, NEW a \in Accounts, NEW b \in Int, b >= 0, Fixed(a, b)
  PROVE  BalanceInv'
<1>1. PostInv /\ PostInv' /\ TypeOK /\ WritesLocked
  BY PostFix DEF BalanceInv, PostInv, LockInv, LockPart, BaseInv, TypeInv
<1>2. ASSUME NEW q \in Requests
      PROVE  BalancesDone(q)'
  <2>1. \A c \in written[q] : balance'[c] = balance[c]
    BY <1>1, RequestAssumption DEF Fixed, WritesLocked, TypeOK
  <2>2. LoopDone(q) /\ BalancesDone(q)
    BY DEF BalanceInv, PostInv, PostPart
  <2>3. QED
    BY <2>1, <2>2, BalancesKept DEF Fixed, dbtx, loop
<1>3. QED
  BY <1>1, <1>2 DEF BalanceInv

-----------------------------------------------------------------------------
(* What a call that reconciles has read *)

LEMMA LedgerBalanceType ==
  ASSUME PostInv, NEW a
  PROVE  LedgerBalance(a) \in Int /\ LedgerSum(a) = LedgerBalance(a)
BY EntriesAtType, LedgerBalanceTotal DEF PostInv, LockInv, LedgerSum, LedgerBalance

(* What x has read stays true when the tables change.                      *)
LEMMA ReadsKept ==
  ASSUME ReconciliationInv, \A a \in Accounts : Counted(a), NEW x \in Reconcilers,
         stage'[x] = stage[x], acct'[x] = acct[x], sum'[x] = sum[x], seen'[x] = seen[x],
         sumVersion'[x] = sumVersion[x], TypeOK'
  PROVE  SumTrue(x)' /\ SeenTrue(x)'
<1> DEFINE a == acct[x]
<1>1. /\ TypeOK /\ a \in Accounts /\ sumVersion[x] \in Nat /\ seen[x].version \in Nat
      /\ version[a] \in Nat /\ version'[a] \in Nat
  BY DEF ReconciliationInv, ReadsInv, ReconciliationTypeOK, PostInv, LockInv, BaseInv,
         TypeInv, TypeOK
<1>2. Counted(a) /\ SumTrue(x) /\ SeenTrue(x)
  BY <1>1 DEF ReconciliationInv, ReadsInv
<1>3. EntriesAt(a)' = EntriesAt(a) => LedgerBalance(a)' = LedgerBalance(a)
  BY LedgerBalanceKept
<1>4. acct'[x] = a
  OBVIOUS
<1> HIDE DEF a
<1>5. SumTrue(x)'
  BY <1>1, <1>2, <1>3, <1>4 DEF a, SumTrue, Counted
<1>6. SeenTrue(x)'
  BY <1>1, <1>2, <1>4 DEF a, SeenTrue, SumTrue, Counted
<1>7. QED
  BY <1>5, <1>6

(* What a step of x does to the other calls.                               *)
LEMMA ReadsStep ==
  ASSUME ReconciliationInv, PostInv', ReconciliationTypeOK', \A a \in Accounts : Counted(a),
         NEW x \in Reconcilers,
         \A y \in Reconcilers \ {x} :
           /\ stage'[y] = stage[y] /\ todo'[y] = todo[y] /\ acct'[y] = acct[y]
           /\ sum'[y] = sum[y] /\ seen'[y] = seen[y] /\ sumVersion'[y] = sumVersion[y],
         \A a \in todo'[x] : account'[a] # "absent",
         SumTrue(x)', SeenTrue(x)'
  PROVE  ReconciliationInv'
<1>1. TypeOK'
  BY DEF PostInv, LockInv, BaseInv, TypeInv
<1>2. ASSUME NEW y \in Reconcilers
      PROVE  SumTrue(y)' /\ SeenTrue(y)'
  BY <1>1, ReadsKept
<1>3. StillListed'
  BY DEF ReconciliationInv, ReadsInv, StillListed, Counted, ReconciliationTypeOK
<1>4. QED
  BY <1>2, <1>3 DEF ReconciliationInv, ReadsInv

(* The steps that only read.                                               *)
LEMMA CountedStill ==
  ASSUME PostInv, UNCHANGED vars
  PROVE  (\A a \in Accounts : Counted(a)) /\ PostInv'
BY CountedNext, PostNext

LEMMA TypedReads ==
  ASSUME ReconciliationInv, NEW x \in Reconcilers, ReconcileStep(x)
  PROVE  ReconciliationTypeOK'
<1> USE DEF ReconciliationInv, ReadsInv, ReconciliationTypeOK, ToStage, progress
<1>1. CASE ListAccounts(x)
  BY <1>1 DEF ListAccounts
<1>2. CASE SumLedger(x)
  <2>1. PICK a \in todo[x], t \in Creates \cup {None} :
          /\ todo' = [todo EXCEPT ![x] = @ \ {a}]
          /\ acct' = [acct EXCEPT ![x] = a]
          /\ sum' = [sum EXCEPT ![x] = LedgerSum(a)]
          /\ lastTxn' = [lastTxn EXCEPT ![x] = t]
          /\ sumVersion' = [sumVersion EXCEPT ![x] = version[a]]
    BY <1>2 DEF SumLedger
  <2>2. a \in Accounts /\ LedgerSum(a) \in Int /\ version[a] \in Nat
    <3>1. a \in Accounts
      BY <2>1
    <3>2. LedgerSum(a) \in Int
      BY LedgerBalanceType, Zenon
    <3>3. version[a] \in Nat
      BY <3>1 DEF PostInv, LockInv, BaseInv, TypeInv, TypeOK
    <3>4. QED
      BY <3>1, <3>2, <3>3
  <2>3. QED
    BY <1>2, <2>1, <2>2 DEF SumLedger
<1>3. CASE ReadBalance(x)
  <2>1. balance[acct[x]] \in Int /\ version[acct[x]] \in Nat
    BY DEF PostInv, LockInv, BaseInv, TypeInv, TypeOK
  <2>2. QED
    BY <1>3, <2>1 DEF ReadBalance
<1>4. CASE Finish(x) \/ Fix(x) \/ Abandon(x)
  BY <1>4 DEF Finish, Fix, Abandon
<1>5. QED
  BY <1>1, <1>2, <1>3, <1>4 DEF ReconcileStep

LEMMA ReadsList ==
  ASSUME ReconciliationInv, NEW x \in Reconcilers, ListAccounts(x)
  PROVE  ReconciliationInv'
<1>1. /\ UNCHANGED <<vars, acct, sum, seen, sumVersion>>
      /\ stage' = [stage EXCEPT ![x] = "sum"]
      /\ todo' = [todo EXCEPT ![x] =
           {a \in Accounts : account[a] = "live" /\ Owner[a] = ask[x].user}]
  BY DEF ListAccounts, ToStage, progress
<1>2. account' = account
  BY <1>1 DEF vars, tables
<1>3. /\ stage'[x] = "sum"
      /\ todo'[x] = {a \in Accounts : account[a] = "live" /\ Owner[a] = ask[x].user}
  BY <1>1 DEF ReconciliationInv, ReadsInv, ReconciliationTypeOK
<1>4. SumTrue(x)' /\ SeenTrue(x)' /\ \A a \in todo'[x] : account'[a] # "absent"
  BY <1>2, <1>3 DEF SumTrue, SeenTrue
<1>5. QED
  BY <1>1, <1>4, CountedStill, TypedReads, ReadsStep
     DEF ReconcileStep, ReconciliationInv, ReadsInv, ReconciliationTypeOK

LEMMA ReadsSum ==
  ASSUME ReconciliationInv, NEW x \in Reconcilers, SumLedger(x)
  PROVE  ReconciliationInv'
<1>1. PICK a \in todo[x] :
        /\ todo' = [todo EXCEPT ![x] = @ \ {a}]
        /\ acct' = [acct EXCEPT ![x] = a]
        /\ sum' = [sum EXCEPT ![x] = LedgerSum(a)]
        /\ sumVersion' = [sumVersion EXCEPT ![x] = version[a]]
        /\ stage' = [stage EXCEPT ![x] = "read"]
        /\ UNCHANGED <<vars, seen>>
  BY DEF SumLedger, ToStage
<1>2. UNCHANGED <<account, version, ledger>>
  BY <1>1 DEF vars, tables
<1>3. /\ stage'[x] = "read" /\ acct'[x] = a /\ sum'[x] = LedgerSum(a)
      /\ sumVersion'[x] = version[a] /\ todo'[x] = todo[x] \ {a} /\ a \in Accounts
  BY <1>1 DEF ReconciliationInv, ReadsInv, ReconciliationTypeOK
<1>4. account[a] # "absent" /\ \A b \in todo'[x] : account'[b] # "absent"
  BY <1>2, <1>3 DEF ReconciliationInv, ReadsInv, StillListed
<1>5. LedgerSum(a) = LedgerBalance(a)' /\ version[a] \in Nat
  <2>1. EntriesAt(a)' = EntriesAt(a)
    BY <1>2 DEF EntriesAt
  <2>2. QED
    BY <1>3, <2>1, LedgerBalanceKept, LedgerBalanceType
       DEF ReconciliationInv, PostInv, LockInv, BaseInv, TypeInv, TypeOK
<1>6. SumTrue(x)' /\ SeenTrue(x)'
  BY <1>2, <1>3, <1>4, <1>5 DEF SumTrue, SeenTrue
<1>7. QED
  BY <1>1, <1>4, <1>6, CountedStill, TypedReads, ReadsStep
     DEF ReconcileStep, ReconciliationInv, ReadsInv, ReconciliationTypeOK

LEMMA ReadsRead ==
  ASSUME ReconciliationInv, NEW x \in Reconcilers, ReadBalance(x)
  PROVE  ReconciliationInv'
<1> DEFINE a == acct[x]
<1>1. /\ UNCHANGED <<vars, todo, acct, sum, sumVersion>>
      /\ stage[x] = "read"
      /\ \A y \in Reconcilers \ {x} : stage'[y] = stage[y] /\ seen'[y] = seen[y]
  BY DEF ReadBalance, ToStage, ReconciliationInv, ReadsInv, ReconciliationTypeOK
<1>2. \/ stage'[x] = "sum"
      \/ /\ stage'[x] = "fix"
         /\ seen'[x] = [balance |-> balance[a], version |-> version[a]]
  BY DEF ReadBalance, ToStage, ReconciliationInv, ReadsInv, ReconciliationTypeOK
<1>3. UNCHANGED <<account, balance, version, ledger>> /\ version[a] \in Nat
  BY <1>1 DEF vars, tables, ReconciliationInv, ReadsInv, ReconciliationTypeOK, PostInv, LockInv,
              BaseInv, TypeInv, TypeOK
<1>4. SumTrue(x)'
  <2>1. EntriesAt(a)' = EntriesAt(a)
    BY <1>1, <1>3 DEF EntriesAt
  <2>2. LedgerBalance(a)' = LedgerBalance(a) /\ SumTrue(x)
    BY <1>1, <2>1, LedgerBalanceKept DEF ReconciliationInv, ReadsInv
  <2>3. QED
    BY <1>1, <1>2, <1>3, <2>2 DEF SumTrue
<1>5. SeenTrue(x)'
  BY <1>1, <1>2, <1>3 DEF SeenTrue
<1>6. \A b \in todo'[x] : account'[b] # "absent"
  BY <1>1, <1>3 DEF ReconciliationInv, ReadsInv, StillListed
<1>7. QED
  BY <1>1, <1>4, <1>5, <1>6, CountedStill, TypedReads, ReadsStep
     DEF ReconcileStep, ReconciliationInv

LEMMA ReadsEnd ==
  ASSUME ReconciliationInv, NEW x \in Reconcilers, Finish(x) \/ Fix(x) \/ Abandon(x)
  PROVE  ReconciliationInv'
<1>1. /\ UNCHANGED <<todo, acct, sum, seen, sumVersion>>
      /\ \A y \in Reconcilers \ {x} : stage'[y] = stage[y]
      /\ stage'[x] \in {"sum", "done"}
  BY DEF Finish, Fix, Abandon, ToStage, progress, ReconciliationInv, ReadsInv,
         ReconciliationTypeOK
<1>2. (\A a \in Accounts : Counted(a)) /\ PostInv'
  <2>1. CASE UNCHANGED vars
    BY <2>1, CountedStill DEF ReconciliationInv
  <2>2. CASE ~UNCHANGED vars
    <3>1. /\ Round(sum[x]) \in Int /\ Round(sum[x]) >= 0
          /\ Fixed(acct[x], Round(sum[x])) /\ acct[x] \in Accounts
      BY <2>2, FixFixes DEF Finish, Abandon, ReconciliationInv, ReadsInv, ReconciliationTypeOK
    <3>2. QED
      BY <3>1, CountedFix, PostFix DEF ReconciliationInv
  <2>3. QED
    BY <2>1, <2>2
<1>3. SumTrue(x)' /\ SeenTrue(x)'
  BY <1>1 DEF SumTrue, SeenTrue
<1>4. \A a \in todo'[x] : account'[a] # "absent"
  BY <1>1, <1>2 DEF ReconciliationInv, ReadsInv, StillListed, Counted, ReconciliationTypeOK
<1>5. QED
  BY <1>1, <1>2, <1>3, <1>4, TypedReads, ReadsStep DEF ReconcileStep

LEMMA ReconciliationStarts == ReconciliationInit => ReconciliationInv
<1> SUFFICES ASSUME ReconciliationInit
             PROVE  ReconciliationInv
  OBVIOUS
<1>1. PostInv
  BY PostInit DEF ReconciliationInit
<1>2. ReconciliationTypeOK
  BY DEF ReconciliationInit, ReconciliationTypeOK, NoRow
<1>3. StillListed
  BY DEF ReconciliationInit, StillListed
<1>4. \A x \in Reconcilers : SumTrue(x) /\ SeenTrue(x)
  BY DEF ReconciliationInit, SumTrue, SeenTrue
<1>5. QED
  BY <1>1, <1>2, <1>3, <1>4 DEF ReconciliationInv, ReadsInv

LEMMA ReconciliationGoesOn ==
  ReconciliationInv /\ [ReconciliationNext]_allVars => ReconciliationInv'
<1> SUFFICES ASSUME ReconciliationInv, [ReconciliationNext]_allVars
             PROVE  ReconciliationInv'
  OBVIOUS
<1>1. CASE \E x \in Reconcilers : ReconcileStep(x)
  BY <1>1, ReadsList, ReadsSum, ReadsRead, ReadsEnd DEF ReconcileStep
<1>2. CASE [Next]_vars /\ UNCHANGED reconciliation
  <2>1. PostInv /\ PostInv' /\ (\A a \in Accounts : Counted(a)) /\ TypeOK'
    BY <1>2, PostNext, CountedNext DEF ReconciliationInv, PostInv, LockInv, BaseInv, TypeInv
  <2>2. ReconciliationTypeOK' /\ StillListed'
    BY <1>2, <2>1 DEF reconciliation, ReconciliationInv, ReadsInv, ReconciliationTypeOK,
                      StillListed, Counted
  <2>3. \A x \in Reconcilers : SumTrue(x)' /\ SeenTrue(x)'
    BY <1>2, <2>1, ReadsKept DEF reconciliation
  <2>4. QED
    BY <2>1, <2>2, <2>3 DEF ReconciliationInv, ReadsInv
<1>3. QED
  BY <1>1, <1>2 DEF ReconciliationNext, allVars

LEMMA ReconciliationAlways == ReconciliationSpec => []ReconciliationInv
<1>1. QED
  BY ReconciliationStarts, ReconciliationGoesOn, PTL DEF ReconciliationSpec

-----------------------------------------------------------------------------
(* Theorems *)

(* Every variable of the calls keeps its type; the ledger sum of an        *)
(* account is always a number, also when it has no entries (COALESCE).     *)
THEOREM ReconciliationTyped == ReconciliationSpec => []ReconciliationTypeOK
<1>1. ReconciliationInv => ReconciliationTypeOK
  BY DEF ReconciliationInv, ReadsInv
<1>2. QED
  BY ReconciliationAlways, <1>1, PTL

(* The ledger sum that a call has read is still right as long as the       *)
(* version of the account is the one it had then: at any Scale, for any    *)
(* number of calls, and whatever posts, deletes and closes accounts        *)
(* meanwhile.                                                              *)
THEOREM SumsStayCurrent == ReconciliationSpec => []SumIsCurrent
<1>1. ReconciliationInv => SumIsCurrent
  BY DEF ReconciliationInv, ReadsInv, SumTrue, SumIsCurrent
<1>2. QED
  BY ReconciliationAlways, <1>1, PTL

(* A fix, which the CHECK of the column lets through, overdraws nothing.   *)
THEOREM FixesDoNotOverdraw == ReconciliationSpec => []NoOverdraft
<1>1. ReconciliationInv => NoOverdraft
  BY DEF ReconciliationInv, PostInv, LockInv, LockPart, NonNegative
<1>2. QED
  BY ReconciliationAlways, <1>1, PTL

(* A fix makes no request fail its version check: it waits for the row     *)
(* locks under which they read the version.                                *)
THEOREM FixesDoNotConflict == ReconciliationSpec => []NoVersionConflict
<1>1. ReconciliationInv => NoVersionConflict
  BY DEF ReconciliationInv, PostInv, LockInv, LockPart
<1>2. QED
  BY ReconciliationAlways, <1>1, PTL

(* The UPDATE of a fix, WHERE version = $4, overwrites only the balance    *)
(* that has been compared: whatever else changed it counted its version    *)
(* up.                                                                     *)
THEOREM FixesAreNotBlind == ReconciliationSpec => NoBlindFix
<1> DEFINE Sighted ==
      \A x \in Reconcilers :
        stage[x] = "fix" /\ stage'[x] = "sum" /\ balance'[acct[x]] # balance[acct[x]]
          => balance[acct[x]] = seen[x].balance
<1>1. ReconciliationInv /\ [ReconciliationNext]_allVars => [Sighted]_allVars
  <2> SUFFICES ASSUME ReconciliationInv, [ReconciliationNext]_allVars,
                      NEW x \in Reconcilers, stage[x] = "fix", stage'[x] = "sum",
                      balance'[acct[x]] # balance[acct[x]]
               PROVE  balance[acct[x]] = seen[x].balance
    OBVIOUS
  <2>1. SeenTrue(x) /\ stage \in [Reconcilers -> {"idle", "sum", "read", "fix", "done"}]
    BY DEF ReconciliationInv, ReadsInv, ReconciliationTypeOK
  <2>2. PICK y \in Reconcilers : ReconcileStep(y)
    BY DEF ReconciliationNext, allVars, reconciliation
  <2>3. y = x
    BY <2>1, <2>2 DEF ReconcileStep, ListAccounts, SumLedger, Finish, ReadBalance, Fix, Abandon,
                      ToStage
  <2>4. Fix(x)
    BY <2>1, <2>2, <2>3 DEF ReconcileStep, ListAccounts, SumLedger, Finish, ReadBalance, Abandon,
                            ToStage
  <2>5. Matches(x)
    BY <2>4 DEF Fix, vars, tables
  <2>6. QED
    BY <2>1, <2>5 DEF Matches, SeenTrue
<1>2. QED
  BY ReconciliationAlways, <1>1, PTL DEF ReconciliationSpec, NoBlindFix

(* With reconcilers at work, and amounts in whole cents, the service still *)
(* implements the ledger, up to the balances that fixes overwrite.         *)
THEOREM ReconciledLedger ==
  ASSUME Scale = 1
  PROVE  ReconciliationSpec => ImplementsAdjustedLedger
<1> DEFINE Step == Books!Next \/ \E a \in Accounts : Adjust(a)
           I == ReconciliationInv /\ BalanceInv
<1>1. ReconciliationInit => I /\ Books!Init
  BY ReconciliationStarts, BalanceInit DEF ReconciliationInit, Init, Books!Init
<1>2. I /\ [ReconciliationNext]_allVars => BalanceInv' /\ [Step]_(Books!books)
  <2> SUFFICES ASSUME I, [ReconciliationNext]_allVars
               PROVE  BalanceInv' /\ (Step \/ UNCHANGED Books!books)
    OBVIOUS
  <2>1. CASE [Next]_vars
    BY <2>1, BalanceNext, BooksNext
  <2>2. CASE \E x \in Reconcilers : ReconcileStep(x) /\ ~UNCHANGED vars
    <3>1. PICK x \in Reconcilers : ReconcileStep(x) /\ ~UNCHANGED vars
      BY <2>2
    <3>2. Fix(x)
      BY <3>1 DEF ReconcileStep, ListAccounts, SumLedger, Finish, ReadBalance, Abandon
    <3>3. /\ Round(sum[x]) \in Int /\ Round(sum[x]) >= 0
          /\ Fixed(acct[x], Round(sum[x])) /\ acct[x] \in Accounts
      BY <3>1, <3>2, FixFixes DEF ReconciliationInv, ReadsInv, ReconciliationTypeOK
    <3>4. BalanceInv'
      BY <3>3, BalanceFix
    <3>5. Adjust(acct[x])
      BY <3>3 DEF Fixed, Adjust, ReconciliationInv, PostInv, LockInv, BaseInv, TypeInv, TypeOK
    <3>6. QED
      BY <3>3, <3>4, <3>5
  <2>3. QED
    BY <2>1, <2>2 DEF ReconciliationNext, allVars
<1>3. I /\ [ReconciliationNext]_allVars => I'
  BY <1>2, ReconciliationGoesOn
<1>4. QED
  BY <1>1, <1>2, <1>3, PTL DEF ReconciliationSpec, ImplementsAdjustedLedger
=============================================================================
