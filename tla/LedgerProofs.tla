---------------------------- MODULE LedgerProofs ----------------------------
(***************************************************************************)
(* What is posted: the entries that the requests, their loops and the      *)
(* tables have to agree on, so that the ledger holds of every committed    *)
(* transaction what its input calls for; then that what is posted reaches  *)
(* the balances: the service is the ledger of module Ledger, and every     *)
(* balance is the sum of its entries.                                      *)
(***************************************************************************)
EXTENDS TransactionServiceProofs, Totals

(* The entry of line i of a create.                                        *)
LineRow(r, i) ==
  [txn |-> r, account |-> lines[r][i].account, amount |-> Round(lines[r][i].amount)]

(* No two lines of a request are about one account.                        *)
OneLineEach(s) == \A i, j \in 1..Len(s) : s[i].account = s[j].account => i = j

(* The balances a request has written are those of the lines it has been   *)
(* through.                                                                *)
LoopDone(r) ==
  IF pc[r] \in Locking
  THEN /\ OneLineEach(lines[r])
       /\ at[r] \in 1..Len(lines[r]) + 1
       /\ pc[r] \in {"commit", "deleteEntries", "deleteTx"} => at[r] = Len(lines[r]) + 1
       /\ written[r] = {lines[r][i].account : i \in 1..at[r] - 1}
  ELSE written[r] = {}

(* A create that got beyond validation and requireAccount.                 *)
Checked(r) ==
  /\ Valid(create[r])
  /\ \A i \in 1..Len(LedgerLines(create[r])) :
       account[LedgerLines(create[r])[i].account] # "absent"

(* What a create has inserted: the entries of its input's lines, as far as *)
(* it has come.                                                            *)
EntriesDone(r) ==
  /\ IF pc[r] \in Locking
     THEN /\ lines[r] = LedgerLines(create[r])
          /\ inserted[r] = {LineRow(r, i) :
               i \in 1..(IF pc[r] \in {"lock", "update"} THEN at[r] ELSE at[r] - 1)}
     ELSE inserted[r] = {}
  /\ pc[r] \notin {"idle", "done"} \/ r \in txns => Checked(r)

(* What a delete has listed: the entries its target has, and of those it   *)
(* had, the ones that have gone with an account since.                     *)
EntriesListed(d) ==
  /\ inserted[d] = {}
  /\ pc[d] \notin {"idle", "done"} => pc[Target(d)] \in Committed
  /\ pc[d] \in Locking /\ Target(d) \in txns =>
       /\ \A e \in EntriesOf(Target(d)) : \E i \in 1..Len(lines[d]) :
            lines[d][i].account = e.account /\ lines[d][i].amount = e.amount
       /\ \A i \in 1..Len(lines[d]) :
            \/ account[lines[d][i].account] = "deleted"
            \/ [txn |-> Target(d), account |-> lines[d][i].account,
                amount |-> lines[d][i].amount] \in ledger

(* The row that line i of the input of t calls for.                        *)
InputRow(t, i) ==
  [txn |-> t, account |-> LedgerLines(create[t])[i].account,
   amount |-> Round(LedgerLines(create[t])[i].amount)]

Called(e) ==
  \E t \in txns : \E i \in 1..Len(LedgerLines(create[t])) : e = InputRow(t, i)

(* AllOrNothing, entry by entry.                                           *)
EntriesCalled ==
  \A e : e \in ledger <=> Called(e) /\ account[e.account] = "live"

PostPart ==
  /\ \A r \in Requests : LoopDone(r)
  /\ \A r \in Creates : EntriesDone(r)
  /\ \A d \in Deletes : EntriesListed(d)
  /\ EntriesCalled

PostInv == LockInv /\ DeleteInv /\ PostPart

-----------------------------------------------------------------------------
(* Entries and lines *)

USE DEF Requests

LEMMA LinesOf ==
  ASSUME BaseInv, NEW t \in Creates
  PROVE  /\ LedgerLines(create[t]) \in Seq(Line)
         /\ Len(LedgerLines(create[t])) >= 1
         /\ Valid(create[t]) => OneLineEach(LedgerLines(create[t]))
<1>1. create[t] \in CreateInput
  BY InputAssumption DEF BaseInv, TypeInv, TypeOK
<1>2. LedgerLines(create[t]) \in Seq(Line) /\ Len(LedgerLines(create[t])) >= 1
  BY <1>1, LedgerLinesType
<1>3. ASSUME Valid(create[t])
      PROVE  OneLineEach(LedgerLines(create[t]))
  BY <1>1, <1>3 DEF Valid, LedgerLines, OneLineEach, CreateInput
<1>4. QED
  BY <1>2, <1>3

LEMMA RowsRigid ==
  ASSUME create' = create
  PROVE  /\ \A t : LedgerLines(create[t])' = LedgerLines(create[t])
         /\ \A t, i : InputRow(t, i)' = InputRow(t, i)
BY DEF InputRow, LedgerLines

LEMMA LedgerCalled ==
  ASSUME BaseInv
  PROVE  AllOrNothing <=> EntriesCalled
<1> DEFINE Rows(t) == {[txn |-> t, account |-> l.account, amount |-> Round(l.amount)] :
                          l \in Range(LedgerLines(create[t]))}
           All == UNION {Rows(t) : t \in txns}
<1>1. ASSUME NEW t \in txns, NEW e
      PROVE  e \in Rows(t) <=> \E i \in 1..Len(LedgerLines(create[t])) : e = InputRow(t, i)
  <2>1. t \in Creates
    BY DEF BaseInv, TypeInv, TypeOK
  <2>2. DOMAIN LedgerLines(create[t]) = 1..Len(LedgerLines(create[t]))
    BY <2>1, LinesOf
  <2>3. QED
    BY <2>2 DEF Range, InputRow
<1>2. \A e : e \in All <=> \E t \in txns : e \in Rows(t)
  OBVIOUS
<1>3. \A e : e \in All <=> Called(e)
  <2> HIDE DEF Rows, All
  <2>1. QED
    BY <1>1, <1>2 DEF Called
<1>4. AllOrNothing <=> ledger = {e \in All : account[e.account] = "live"}
  BY DEF AllOrNothing
<1> HIDE DEF All
<1>5. QED
  BY <1>3, <1>4 DEF EntriesCalled

-----------------------------------------------------------------------------
(* Steps of one request *)

(* A step of r leaves the others where they are.                           *)
OnlyMoves(r) ==
  \A q \in Requests \ {r} :
    /\ pc'[q] = pc[q] /\ lines'[q] = lines[q] /\ at'[q] = at[q]
    /\ written'[q] = written[q] /\ inserted'[q] = inserted[q]
    /\ newBalance'[q] = newBalance[q]

LEMMA LoopKept ==
  ASSUME NEW q \in Requests, LoopDone(q),
         pc'[q] = pc[q], lines'[q] = lines[q], at'[q] = at[q], written'[q] = written[q]
  PROVE  LoopDone(q)'
BY DEF LoopDone

LEMMA EntriesKept ==
  ASSUME NEW q \in Creates, EntriesDone(q), create' = create,
         pc'[q] = pc[q], lines'[q] = lines[q], at'[q] = at[q], inserted'[q] = inserted[q],
         q \in txns' => q \in txns,
         \A a \in Accounts : account[a] # "absent" => account'[a] # "absent",
         BaseInv
  PROVE  EntriesDone(q)'
<1>1. Checked(q) => Checked(q)'
  <2>1. \A i \in 1..Len(LedgerLines(create[q])) : LedgerLines(create[q])[i].account \in Accounts
    <3>1. LedgerLines(create[q]) \in Seq(Line)
      BY LinesOf
    <3>2. \A i \in 1..Len(LedgerLines(create[q])) : LedgerLines(create[q])[i] \in Line
      BY <3>1
    <3>3. QED
      BY <3>2 DEF Line
  <2>2. QED
    BY <2>1 DEF Checked, Valid, LedgerLines
<1>2. \A i : LineRow(q, i)' = LineRow(q, i)
  BY DEF LineRow
<1>3. QED
  BY <1>1, <1>2 DEF EntriesDone, LedgerLines

LEMMA ListedKept ==
  ASSUME NEW d \in Deletes, EntriesListed(d), delete' = delete,
         pc'[d] = pc[d] \/ pc[d] \in Locking,
         lines'[d] = lines[d], inserted'[d] = inserted[d],
         pc[Target(d)] \in Committed => pc'[Target(d)] \in Committed,
         pc[d] \in Locking /\ Target(d) \in txns' =>
           Target(d) \in txns /\ EntriesOf(Target(d))' = EntriesOf(Target(d)),
         account' = account
  PROVE  EntriesListed(d)'
<1>1. Target(d)' = Target(d)
  BY DEF Target
<1>2. Committed' = Committed
  OBVIOUS
<1>3. \A e : e.txn = Target(d) => (e \in ledger <=> e \in EntriesOf(Target(d)))
  BY DEF EntriesOf
<1>4. \A e : e.txn = Target(d) => (e \in ledger' <=> e \in EntriesOf(Target(d))')
  BY <1>1 DEF EntriesOf
<1>5. CASE pc[d] \in Locking /\ Target(d) \in txns'
  <2>1. Target(d) \in txns /\ EntriesOf(Target(d))' = EntriesOf(Target(d))
    BY <1>5
  <2>2. \A e : e.txn = Target(d) => (e \in ledger' <=> e \in ledger)
    BY <1>3, <1>4, <2>1
  <2>3. QED
    BY <1>1, <1>5, <2>1, <2>2 DEF EntriesListed, Locking
<1>6. CASE ~(pc[d] \in Locking /\ Target(d) \in txns')
  BY <1>1, <1>6 DEF EntriesListed, Locking
<1>7. QED
  BY <1>5, <1>6

(* A step that changes no table.                                           *)
LEMMA QuietStep ==
  ASSUME PostInv, NEW r \in Requests, OnlyMoves(r), UNCHANGED <<tables, inputs>>,
         pc[r] \in Committed => pc'[r] \in Committed,
         LoopDone(r)', r \in Creates => EntriesDone(r)', r \in Deletes => EntriesListed(r)'
  PROVE  PostPart'
<1> USE DEF PostInv, PostPart
<1>1. BaseInv /\ UNCHANGED <<account, txns, ledger, create, delete>>
  BY DEF LockInv, tables, inputs
<1>2. \A q \in Requests : LoopDone(q)'
  BY LoopKept DEF OnlyMoves
<1>3. \A q \in Creates : EntriesDone(q)'
  <2> SUFFICES ASSUME NEW q \in Creates, q # r
               PROVE  EntriesDone(q)'
    OBVIOUS
  <2>1. q \in Requests \ {r} /\ EntriesDone(q)
    OBVIOUS
  <2>2. /\ q \in txns' => q \in txns
        /\ \A a \in Accounts : account[a] # "absent" => account'[a] # "absent"
    BY <1>1
  <2>3. QED
    BY <1>1, <2>1, <2>2, EntriesKept DEF OnlyMoves
<1>4. \A d \in Deletes : EntriesListed(d)'
  <2> SUFFICES ASSUME NEW d \in Deletes, d # r
               PROVE  EntriesListed(d)'
    OBVIOUS
  <2>1. Target(d) \in Creates
    BY <1>1, InputAssumption DEF BaseInv, TypeInv, TypeOK, Target, DeleteInput
  <2>2. pc[Target(d)] \in Committed => pc'[Target(d)] \in Committed
    BY <2>1 DEF OnlyMoves
  <2>3. EntriesOf(Target(d))' = EntriesOf(Target(d))
    BY <1>1 DEF EntriesOf, Target
  <2>4. QED
    <3>1. d \in Requests \ {r} /\ EntriesListed(d)
      OBVIOUS
    <3>2. Target(d) \in txns' => Target(d) \in txns
      BY <1>1
    <3>3. QED
      BY <1>1, <2>2, <2>3, <3>1, <3>2, ListedKept DEF OnlyMoves
<1>5. EntriesCalled'
  <2>1. \A e : Called(e)' <=> Called(e)
    BY <1>1, RowsRigid DEF Called
  <2>2. QED
    BY <1>1, <2>1 DEF EntriesCalled
<1>6. QED
  BY <1>2, <1>3, <1>4, <1>5

LEMMA PostRollback ==
  ASSUME PostInv, NEW r \in Requests, NEW res \in Results, Rollback(r, res)
  PROVE  PostPart'
<1>1. /\ pc' = [pc EXCEPT ![r] = "done"]
      /\ written' = [written EXCEPT ![r] = {}] /\ inserted' = [inserted EXCEPT ![r] = {}]
      /\ lines' = [lines EXCEPT ![r] = <<>>] /\ at' = [at EXCEPT ![r] = 0]
      /\ newBalance' = [newBalance EXCEPT ![r] = [a \in Accounts |-> 0]]
      /\ UNCHANGED <<tables, inputs>>
  BY DEF Rollback, EndTx, Respond, Goto
<1>2. TypeOK
  BY DEF PostInv, LockInv, BaseInv, TypeInv
<1>3. OnlyMoves(r)
  BY <1>1, <1>2 DEF OnlyMoves, TypeOK
<1>4. pc'[r] = "done" /\ written'[r] = {} /\ inserted'[r] = {}
  BY <1>1, <1>2 DEF TypeOK
<1>5. LoopDone(r)'
  BY <1>4 DEF LoopDone, Locking
<1>6. r \in Creates => EntriesDone(r)'
  BY <1>1, <1>4 DEF EntriesDone, Locking, PostInv, PostPart, tables, inputs, Checked, Valid,
                    LedgerLines
<1>7. r \in Deletes => EntriesListed(r)'
  BY <1>4 DEF EntriesListed, Locking
<1>8. QED
  BY <1>1, <1>3, <1>4, <1>5, <1>6, <1>7, QuietStep DEF Committed

(* A step outside the loops.                                               *)
LEMMA PostMove ==
  ASSUME PostInv, NEW r \in Requests, NEW step \in Steps, Goto(r, step),
         pc[r] \notin Locking \cup {"done"}, step \notin Locking,
         pc[r] \in Committed => step \in Committed,
         r \in Creates /\ step \notin {"idle", "done"} => pc[r] # "idle" \/ Checked(r),
         r \in Deletes /\ step \notin {"idle", "done"} =>
           pc[r] # "idle" \/ pc[Target(r)] \in Committed,
         UNCHANGED <<tables, dbtx, loop, inputs>>
  PROVE  PostPart'
<1>1. TypeOK
  BY DEF PostInv, LockInv, BaseInv, TypeInv
<1>2. pc' = [pc EXCEPT ![r] = step] /\ pc'[r] = step
  BY <1>1 DEF Goto, TypeOK
<1>3. UNCHANGED <<account, txns, create, delete, written, inserted, newBalance, lines, at>>
  BY DEF tables, dbtx, loop, inputs
<1>4. OnlyMoves(r)
  BY <1>2, <1>3 DEF OnlyMoves
<1>5. LoopDone(r) /\ (r \in Creates => EntriesDone(r)) /\ (r \in Deletes => EntriesListed(r))
  BY DEF PostInv, PostPart
<1>6. LoopDone(r)'
  BY <1>2, <1>3, <1>5 DEF LoopDone
<1>7. r \in Creates => EntriesDone(r)'
  <2> SUFFICES ASSUME r \in Creates
               PROVE  EntriesDone(r)'
    OBVIOUS
  <2>1. inserted'[r] = {}
    BY <1>3, <1>5 DEF EntriesDone
  <2>2. Checked(r)' <=> Checked(r)
    BY <1>3 DEF Checked, Valid, LedgerLines
  <2>3. step \notin {"idle", "done"} \/ r \in txns => Checked(r)
    BY <1>5 DEF EntriesDone
  <2>4. QED
    BY <1>2, <1>3, <2>1, <2>2, <2>3 DEF EntriesDone
<1>8. r \in Deletes => EntriesListed(r)'
  <2> SUFFICES ASSUME r \in Deletes
               PROVE  EntriesListed(r)'
    OBVIOUS
  <2>1. Target(r)' = Target(r) /\ Target(r) \in Creates /\ Target(r) # r
    BY <1>1, <1>3, InputAssumption, RequestAssumption DEF TypeOK, Target, DeleteInput
  <2>2. inserted'[r] = {} /\ pc'[Target(r)] = pc[Target(r)]
    BY <1>2, <1>3, <1>5, <2>1, <1>1 DEF EntriesListed, TypeOK
  <2>3. step \notin {"idle", "done"} => pc[Target(r)] \in Committed
    BY <1>5 DEF EntriesListed
  <2>4. QED
    BY <1>2, <2>1, <2>2, <2>3 DEF EntriesListed
<1>9. QED
  BY <1>2, <1>3, <1>4, <1>6, <1>7, <1>8, QuietStep DEF tables, inputs

LEMMA PostOutside ==
  ASSUME PostInv, NEW r \in Requests,
         \/ r \in Creates /\ (BeginCreate(r) \/ LookupKey(r) \/ CheckArbiter(r) \/ Enrich(r))
         \/ r \in Creates /\ LookupWinner(r) /\ ~Rollback(r, "error")
         \/ r \in Deletes /\ BeginDelete(r)
  PROVE  PostPart'
<1> DEFINE Moves(step) ==
      /\ step \in Steps /\ Goto(r, step)
      /\ pc[r] \notin Locking \cup {"done"} /\ step \notin Locking
      /\ pc[r] \in Committed => step \in Committed
      /\ r \in Creates /\ step \notin {"idle", "done"} => pc[r] # "idle" \/ Checked(r)
      /\ r \in Deletes /\ step \notin {"idle", "done"} =>
           pc[r] # "idle" \/ pc[Target(r)] \in Committed
      /\ UNCHANGED <<tables, dbtx, loop, inputs>>
<1>0. ~(r \in Creates /\ r \in Deletes)
  BY RequestAssumption
<1>1. CASE r \in Creates /\ BeginCreate(r)
  <2>1. RequireAccount(create[r]) /\ Valid(create[r]) => Checked(r)
    <3> SUFFICES ASSUME RequireAccount(create[r]), Valid(create[r]),
                        NEW i \in 1..Len(LedgerLines(create[r]))
                 PROVE  account[LedgerLines(create[r])[i].account] # "absent"
      BY DEF Checked
    <3>1. create[r] \in CreateInput
      BY <1>1, InputAssumption DEF PostInv, LockInv, BaseInv, TypeInv, TypeOK
    <3>2. CASE create[r].kind = "transfer"
      BY <3>1, <3>2 DEF RequireAccount, LedgerLines
    <3>3. CASE create[r].kind \in {"income", "expense"}
      BY <3>1, <3>3 DEF RequireAccount, LedgerLines
    <3>4. QED
      BY <3>1, <3>2, <3>3 DEF CreateInput
  <2>2. \E step \in {"done", "arbiter", "lookup"} : Moves(step)
    BY <1>0, <1>1, <2>1 DEF BeginCreate, Respond, Locking, Steps, Committed
  <2>3. QED
    BY <2>2, PostMove
<1>2. CASE r \in Creates /\ LookupKey(r)
  <2>1. \E step \in {"enrich", "arbiter"} : Moves(step)
    BY <1>0, <1>2 DEF LookupKey, Locking, Steps, Committed
  <2>2. QED
    BY <2>1, PostMove
<1>3. CASE r \in Creates /\ CheckArbiter(r)
  <2>1. \E step \in {"insert", "winner"} : Moves(step)
    BY <1>0, <1>3 DEF CheckArbiter, Locking, Steps, Committed
  <2>2. QED
    BY <2>1, PostMove
<1>4. CASE r \in Creates /\ Enrich(r)
  <2>1. Moves("done")
    BY <1>4 DEF Enrich, Respond, Locking, Steps, Committed
  <2>2. QED
    BY <2>1, PostMove
<1>5. CASE r \in Creates /\ LookupWinner(r) /\ ~Rollback(r, "error")
  <2>1. Moves("enrich")
    BY <1>0, <1>5 DEF LookupWinner, Locking, Steps, Committed
  <2>2. QED
    BY <2>1, PostMove
<1>6. CASE r \in Deletes /\ BeginDelete(r)
  <2>1. Target(r) \in txns => pc[Target(r)] \in Committed
    BY DEF PostInv, DeleteInv
  <2>2. \E step \in {"done", "list"} : Moves(step)
    BY <1>0, <1>6, <2>1 DEF BeginDelete, Respond, Locking, Steps, Committed
  <2>3. QED
    BY <2>2, PostMove
<1>7. QED
  BY <1>1, <1>2, <1>3, <1>4, <1>5, <1>6

-----------------------------------------------------------------------------
(* The loops *)

(* A delete that goes on in its loop.                                      *)
LEMMA ListedLoop ==
  ASSUME PostInv, NEW d \in Requests, OnlyMoves(d), UNCHANGED <<tables, inputs>>,
         pc[d] \in Locking, lines'[d] = lines[d], inserted'[d] = inserted[d]
  PROVE  d \in Deletes => EntriesListed(d)'
<1> SUFFICES ASSUME d \in Deletes
             PROVE  EntriesListed(d)'
  OBVIOUS
<1>1. Target(d) \in Creates /\ Target(d) # d
  BY InputAssumption, RequestAssumption
     DEF PostInv, LockInv, BaseInv, TypeInv, TypeOK, Target, DeleteInput
<1>2. pc'[Target(d)] = pc[Target(d)] /\ EntriesOf(Target(d))' = EntriesOf(Target(d))
  BY <1>1 DEF OnlyMoves, EntriesOf, Target, tables, inputs
<1>3. EntriesListed(d) /\ delete' = delete /\ account' = account /\ txns' = txns
  BY DEF PostInv, PostPart, tables, inputs
<1>4. QED
  BY <1>2, <1>3, ListedKept

LEMMA PostInsertTx ==
  ASSUME PostInv, NEW r \in Creates, InsertTx(r)
  PROVE  PostPart'
<1>1. CASE Rollback(r, "duplicateKey")
  BY <1>1, PostRollback DEF Results
<1>2. CASE ~Rollback(r, "duplicateKey")
  <2>1. TypeOK /\ BaseInv
    BY DEF PostInv, LockInv, BaseInv, TypeInv
  <2>2. /\ pc[r] = "insert" /\ pc' = [pc EXCEPT ![r] = "entry"]
        /\ lines' = [lines EXCEPT ![r] = LedgerLines(create[r])]
        /\ at' = [at EXCEPT ![r] = 1]
        /\ UNCHANGED <<tables, inputs, written, inserted, newBalance>>
    BY <1>2 DEF InsertTx, Goto, dbtx
  <2>3. /\ pc'[r] = "entry" /\ lines'[r] = LedgerLines(create[r]) /\ at'[r] = 1
        /\ OnlyMoves(r)
    BY <2>1, <2>2 DEF TypeOK, OnlyMoves
  <2>4. written'[r] = {} /\ inserted'[r] = {} /\ Checked(r)
    BY <2>2 DEF PostInv, PostPart, LoopDone, EntriesDone, Locking
  <2>5. OneLineEach(lines'[r]) /\ Len(lines'[r]) \in Nat
    BY <2>1, <2>3, <2>4, LinesOf DEF Checked
  <2>6. LoopDone(r)'
    BY <2>3, <2>4, <2>5 DEF LoopDone, Locking
  <2>7. EntriesDone(r)'
    <3>1. Checked(r)' /\ LedgerLines(create[r])' = LedgerLines(create[r])
      BY <2>2, <2>4 DEF Checked, Valid, LedgerLines, tables, inputs
    <3>2. QED
      BY <2>3, <2>4, <3>1 DEF EntriesDone
  <2>8. QED
    BY <2>2, <2>3, <2>6, <2>7, QuietStep, RequestAssumption DEF Committed
<1>3. QED
  BY <1>1, <1>2

LEMMA PostInsertEntry ==
  ASSUME PostInv, NEW r \in Creates, InsertEntry(r)
  PROVE  PostPart'
<1>1. CASE Rollback(r, "error")
  BY <1>1, PostRollback DEF Results
<1>2. CASE ~Rollback(r, "error")
  <2>1. TypeOK /\ InLoop
    BY DEF PostInv, LockInv, BaseInv, TypeInv
  <2>2. /\ pc[r] = "entry" /\ pc' = [pc EXCEPT ![r] = "lock"]
        /\ inserted' = [inserted EXCEPT ![r] = @ \cup {EntryRow(r)}]
        /\ UNCHANGED <<tables, inputs, written, lines, at, newBalance>>
    BY <1>2 DEF InsertEntry, Goto, loop
  <2>3. /\ pc'[r] = "lock" /\ inserted'[r] = inserted[r] \cup {EntryRow(r)}
        /\ OnlyMoves(r)
    BY <2>1, <2>2 DEF TypeOK, OnlyMoves
  <2>4. LoopDone(r) /\ EntriesDone(r) /\ at[r] \in 1..Len(lines[r])
    BY <2>1, <2>2 DEF PostInv, PostPart, InLoop
  <2>5. LoopDone(r)'
    BY <2>2, <2>3, <2>4 DEF LoopDone, Locking
  <2>6. EntriesDone(r)'
    <3>1. Checked(r)' /\ LedgerLines(create[r])' = LedgerLines(create[r])
      BY <2>2, <2>4 DEF EntriesDone, Checked, Valid, LedgerLines, tables, inputs
    <3>2. inserted[r] = {LineRow(r, i) : i \in 1..at[r] - 1} /\ lines[r] = LedgerLines(create[r])
      BY <2>2, <2>4 DEF EntriesDone, Locking
    <3>3. EntryRow(r) = LineRow(r, at[r])
      BY DEF EntryRow, LineRow, Current
    <3>4. inserted'[r] = {LineRow(r, i) : i \in 1..at[r]}
      <4>1. \A i \in 1..at[r] : i \in 1..at[r] - 1 \/ i = at[r]
        BY <2>4
      <4>2. \A i \in 1..at[r] - 1 : i \in 1..at[r]
        BY <2>4
      <4>3. at[r] \in 1..at[r]
        BY <2>4
      <4>4. QED
        BY <2>3, <3>2, <3>3, <4>1, <4>2, <4>3
    <3>5. \A i : LineRow(r, i)' = LineRow(r, i)
      BY <2>2 DEF LineRow
    <3>6. QED
      BY <2>2, <2>3, <3>1, <3>2, <3>4, <3>5 DEF EntriesDone, Locking
  <2>7. QED
    BY <2>2, <2>3, <2>5, <2>6, QuietStep, RequestAssumption DEF Committed
<1>3. QED
  BY <1>1, <1>2

LEMMA PostLockBalance ==
  ASSUME PostInv, NEW r \in Requests, LockBalance(r)
  PROVE  PostPart'
<1>1. CASE \E res \in {"error", "insufficientFunds"} : Rollback(r, res)
  BY <1>1, PostRollback DEF Results, Unreached
<1>2. CASE ~\E res \in {"error", "insufficientFunds"} : Rollback(r, res)
  <2>1. TypeOK
    BY DEF PostInv, LockInv, BaseInv, TypeInv
  <2>2. /\ pc[r] = "lock" /\ pc' = [pc EXCEPT ![r] = "update"]
        /\ UNCHANGED <<tables, inputs, inserted, written, lines, at, newBalance>>
    BY <1>2 DEF LockBalance, Goto
  <2>3. pc'[r] = "update" /\ OnlyMoves(r)
    BY <2>1, <2>2 DEF TypeOK, OnlyMoves
  <2>4. LoopDone(r)'
    BY <2>2, <2>3 DEF PostInv, PostPart, LoopDone, Locking
  <2>5. r \in Creates => EntriesDone(r)'
    <3> SUFFICES ASSUME r \in Creates
                 PROVE  EntriesDone(r)'
      OBVIOUS
    <3>1. EntriesDone(r)
      BY DEF PostInv, PostPart
    <3>2. \A i : LineRow(r, i)' = LineRow(r, i)
      BY <2>2 DEF LineRow
    <3>3. Checked(r)' /\ LedgerLines(create[r])' = LedgerLines(create[r])
      BY <2>2, <3>1 DEF EntriesDone, Checked, Valid, LedgerLines, tables, inputs
    <3>4. QED
      BY <2>2, <2>3, <3>1, <3>2, <3>3 DEF EntriesDone, Locking
  <2>6. r \in Deletes => EntriesListed(r)'
    BY <2>1, <2>2, <2>3, ListedLoop DEF Locking
  <2>7. QED
    BY <2>2, <2>3, <2>4, <2>5, <2>6, QuietStep DEF Committed
<1>3. QED
  BY <1>1, <1>2

LEMMA PostUpdateBalance ==
  ASSUME PostInv, NEW r \in Requests, UpdateBalance(r)
  PROVE  PostPart'
<1>1. CASE \E res \in Unreached : Rollback(r, res)
  BY <1>1, PostRollback DEF Results, Unreached
<1>2. CASE ~\E res \in Unreached : Rollback(r, res)
  <2>1. TypeOK /\ InLoop
    BY DEF PostInv, LockInv, BaseInv, TypeInv
  <2>2. /\ pc[r] = "update"
        /\ written' = [written EXCEPT ![r] = @ \cup {Current(r).account}]
        /\ newBalance' = [newBalance EXCEPT ![r][Current(r).account] =
                            Round(row[r].balance + Delta(r))]
        /\ at' = [at EXCEPT ![r] = @ + 1]
        /\ UNCHANGED <<tables, inputs, lines, inserted>>
    BY <1>2 DEF UpdateBalance, NextLine, Unreached
  <2>3. PICK step \in Steps :
          /\ pc' = [pc EXCEPT ![r] = step]
          /\ step = IF at[r] < Len(lines[r])
                    THEN IF r \in Creates THEN "entry" ELSE "lock"
                    ELSE IF r \in Creates THEN "commit" ELSE "deleteEntries"
    BY <1>2 DEF UpdateBalance, NextLine, Unreached, Goto, Steps
  <2>4. /\ pc'[r] = step /\ at'[r] = at[r] + 1
        /\ written'[r] = written[r] \cup {lines[r][at[r]].account}
        /\ OnlyMoves(r)
    BY <2>1, <2>2, <2>3 DEF TypeOK, OnlyMoves, Current
  <2>5. LoopDone(r) /\ at[r] \in 1..Len(lines[r]) /\ Len(lines[r]) \in Nat
    BY <2>1, <2>2 DEF PostInv, PostPart, InLoop, TypeOK
  <2>6. LoopDone(r)'
    <3>1. /\ OneLineEach(lines[r])
          /\ written[r] = {lines[r][i].account : i \in 1..at[r] - 1}
      BY <2>2, <2>5 DEF LoopDone, Locking
    <3>2. written'[r] = {lines[r][i].account : i \in 1..at[r]}
      <4>1. \A i \in 1..at[r] : i \in 1..at[r] - 1 \/ i = at[r]
        BY <2>5
      <4>2. \A i \in 1..at[r] - 1 : i \in 1..at[r]
        BY <2>5
      <4>3. at[r] \in 1..at[r]
        BY <2>5
      <4>4. QED
        BY <2>4, <3>1, <4>1, <4>2, <4>3
    <3>3. at'[r] - 1 = at[r] /\ at'[r] \in 1..Len(lines[r]) + 1
      BY <2>4, <2>5
    <3>4. step \in {"commit", "deleteEntries", "deleteTx"} => at'[r] = Len(lines[r]) + 1
      BY <2>3, <2>4, <2>5
    <3>5. step \in Locking /\ lines' = lines
      BY <2>2, <2>3 DEF Locking
    <3>6. QED
      BY <2>4, <3>1, <3>2, <3>3, <3>4, <3>5 DEF LoopDone
  <2>7. r \in Creates => EntriesDone(r)'
    <3> SUFFICES ASSUME r \in Creates
                 PROVE  EntriesDone(r)'
      OBVIOUS
    <3>1. EntriesDone(r)
      BY DEF PostInv, PostPart
    <3>2. \A i : LineRow(r, i)' = LineRow(r, i)
      BY <2>2 DEF LineRow
    <3>3. Checked(r)' /\ LedgerLines(create[r])' = LedgerLines(create[r])
      BY <2>2, <3>1 DEF EntriesDone, Checked, Valid, LedgerLines, tables, inputs
    <3>4. at'[r] - 1 = at[r] /\ step \in {"entry", "commit"}
      BY <2>3, <2>4, <2>5
    <3>5. QED
      BY <2>2, <2>4, <3>1, <3>2, <3>3, <3>4 DEF EntriesDone, Locking
  <2>8. r \in Deletes => EntriesListed(r)'
    BY <2>2, <2>4, ListedLoop DEF Locking
  <2>9. QED
    BY <2>2, <2>4, <2>6, <2>7, <2>8, QuietStep DEF Committed
<1>3. QED
  BY <1>1, <1>2

LEMMA PostDeleteSteps ==
  ASSUME PostInv, NEW d \in Deletes, DeleteEntries(d) \/ DeleteTx(d)
  PROVE  PostPart'
<1>1. CASE Rollback(d, "notFound")
  BY <1>1, PostRollback DEF Results
<1>2. CASE ~Rollback(d, "notFound")
  <2>1. TypeOK
    BY DEF PostInv, LockInv, BaseInv, TypeInv
  <2>2. PICK step \in {"deleteTx", "commit"} : pc' = [pc EXCEPT ![d] = step]
    BY <1>2 DEF DeleteEntries, DeleteTx, Goto
  <2>3. /\ pc[d] \in {"deleteEntries", "deleteTx"}
        /\ UNCHANGED <<tables, inputs, lines, inserted, written, at, newBalance>>
    BY <1>2 DEF DeleteEntries, DeleteTx, dbtx, loop
  <2>4. pc'[d] = step /\ OnlyMoves(d)
    BY <2>1, <2>2, <2>3 DEF TypeOK, OnlyMoves
  <2>5. LoopDone(d)'
    BY <2>3, <2>4 DEF PostInv, PostPart, LoopDone, Locking
  <2>6. EntriesListed(d)'
    BY <2>3, <2>4, ListedLoop DEF Locking
  <2>7. QED
    BY <2>3, <2>4, <2>5, <2>6, QuietStep, RequestAssumption DEF Committed
<1>3. QED
  BY <1>1, <1>2

(* The entries listed are those of one transaction, so that no two are of  *)
(* one account.                                                            *)
LEMMA EntriesOfOne ==
  ASSUME BaseInv, EntriesCalled, \A t \in txns : Checked(t),
         NEW t, NEW e \in EntriesOf(t), NEW f \in EntriesOf(t), e.account = f.account
  PROVE  e = f /\ t \in txns /\ account[e.account] = "live"
<1>1. /\ e \in ledger /\ e.txn = t /\ f \in ledger /\ f.txn = t
  BY DEF EntriesOf
<1>2. Called(e) /\ Called(f) /\ account[e.account] = "live"
  BY <1>1 DEF EntriesCalled
<1>3. PICK i \in 1..Len(LedgerLines(create[t])) : e = InputRow(t, i) /\ t \in txns
  BY <1>1, <1>2 DEF Called, InputRow
<1>4. PICK j \in 1..Len(LedgerLines(create[t])) : f = InputRow(t, j)
  BY <1>1, <1>2 DEF Called, InputRow
<1>6. OneLineEach(LedgerLines(create[t]))
  BY <1>3, LinesOf DEF Checked, BaseInv, TypeInv, TypeOK
<1>7. i = j
  BY <1>3, <1>4, <1>6 DEF InputRow, OneLineEach
<1>8. QED
  BY <1>2, <1>3, <1>4, <1>7

LEMMA PostListEntries ==
  ASSUME PostInv, NEW d \in Deletes, ListEntries(d)
  PROVE  PostPart'
<1> DEFINE t == Target(d)
           E == EntriesOf(t)
<1>1. TypeOK /\ BaseInv /\ FiniteRows
  BY DEF PostInv, LockInv, BaseInv, TypeInv
<1>2. PICK s \in Orders(E) :
        /\ lines' = [lines EXCEPT ![d] =
             [i \in DOMAIN s |-> [account |-> s[i].account, amount |-> s[i].amount]]]
        /\ Goto(d, IF s = <<>> THEN "deleteEntries" ELSE "lock")
  BY DEF ListEntries
<1>3. /\ pc[d] = "list" /\ at' = [at EXCEPT ![d] = 1]
      /\ UNCHANGED <<tables, inputs, written, inserted, newBalance>>
  BY DEF ListEntries, dbtx
<1> DEFINE n == Cardinality(E)
           l == [i \in DOMAIN s |-> [account |-> s[i].account, amount |-> s[i].amount]]
<1>4. IsFiniteSet(E) /\ n \in Nat /\ E \subseteq Entry
  BY <1>1, FS_Subset, FS_CardinalityType DEF EntriesOf, FiniteRows, TypeOK
<1>5. s \in [1..n -> E] /\ \A i, j \in 1..n : s[i] = s[j] => i = j
  BY DEF Orders, IsInjective
<1>6. \A e \in E : \E i \in 1..n : s[i] = e
  <2> HIDE DEF E
  <2>1. s \in Injection(1..n, E)
    BY <1>5 DEF Injection, IsInjective
  <2>2. IsFiniteSet(1..n) /\ Cardinality(1..n) = n
    BY <1>4, FS_Interval
  <2>3. s \in Surjection(1..n, E)
    BY <1>4, <2>1, <2>2, FS_Injection
  <2>4. QED
    BY <2>3 DEF Surjection
<1>7. Len(l) = n /\ \A i \in 1..n : l[i].account = s[i].account /\ l[i].amount = s[i].amount
  BY <1>4, <1>5
<1> DEFINE step == IF s = <<>> THEN "deleteEntries" ELSE "lock"
<1>8. /\ pc'[d] = step /\ lines'[d] = l /\ at'[d] = 1
      /\ OnlyMoves(d)
  BY <1>1, <1>2, <1>3 DEF TypeOK, OnlyMoves, Goto
<1>9. s = <<>> => n = 0
  BY <1>4, <1>5
<1>10. written'[d] = {} /\ inserted'[d] = {} /\ pc[t] \in Committed
  BY <1>3 DEF PostInv, PostPart, LoopDone, EntriesListed, Locking
<1>11. /\ \A r \in txns : Checked(r)
       /\ EntriesCalled
  BY <1>1 DEF PostInv, PostPart, EntriesDone, TypeOK
<1> HIDE DEF l
<1>12. OneLineEach(l)
  <2> SUFFICES ASSUME NEW i \in 1..n, NEW j \in 1..n, l[i].account = l[j].account
               PROVE  i = j
    BY <1>7 DEF OneLineEach
  <2>1. s[i] \in E /\ s[j] \in E /\ s[i].account = s[j].account
    BY <1>5, <1>7
  <2>2. s[i] = s[j]
    BY <1>1, <1>11, <2>1, EntriesOfOne
  <2>3. QED
    BY <1>5, <2>2
<1>13. LoopDone(d)'
  <2>1. {lines'[d][i].account : i \in 1..at'[d] - 1} = {}
    BY <1>8
  <2>2. at'[d] \in 1..Len(l) + 1
    BY <1>4, <1>7, <1>8
  <2>3. step \in Locking /\ (step = "deleteEntries" => at'[d] = Len(l) + 1)
    BY <1>7, <1>8, <1>9 DEF Locking
  <2>4. step \notin {"commit", "deleteTx"}
    OBVIOUS
  <2> HIDE DEF step
  <2>5. QED
    BY <1>8, <1>10, <1>12, <2>1, <2>2, <2>3, <2>4 DEF LoopDone
<1>14. EntriesListed(d)'
  <2>1. t' = t /\ EntriesOf(t)' = E /\ ledger' = ledger /\ account' = account
    BY <1>3 DEF Target, EntriesOf, tables, inputs
  <2>2. t \in Creates /\ t # d
    BY <1>1, InputAssumption, RequestAssumption DEF TypeOK, Target, DeleteInput
  <2>3. pc'[t] = pc[t]
    BY <1>8, <2>2 DEF OnlyMoves
  <2>4. \A e \in E : \E i \in 1..Len(l) : l[i].account = e.account /\ l[i].amount = e.amount
    BY <1>6, <1>7
  <2>5. ASSUME NEW i \in 1..Len(l)
        PROVE  [txn |-> t, account |-> l[i].account, amount |-> l[i].amount] \in ledger
    <3>1. s[i] \in ledger /\ s[i].txn = t /\ s[i] \in Entry
      BY <1>4, <1>5, <1>7, <2>5 DEF EntriesOf
    <3>2. s[i] = [txn |-> s[i].txn, account |-> s[i].account, amount |-> s[i].amount]
      BY <3>1 DEF Entry
    <3>3. QED
      BY <1>7, <2>5, <3>1, <3>2
  <2>6. QED
    BY <1>8, <1>10, <2>1, <2>3, <2>4, <2>5 DEF EntriesListed
<1>15. QED
  BY <1>3, <1>8, <1>13, <1>14, QuietStep, RequestAssumption DEF Committed

-----------------------------------------------------------------------------
(* Commits, and accounts *)

(* The end of a database transaction as the loops see it.                  *)
LEMMA EndTxMoves ==
  ASSUME TypeOK, NEW r \in Requests, EndTx(r), NEW step, Goto(r, step), step \notin Locking
  PROVE  /\ pc'[r] = step /\ written'[r] = {} /\ inserted'[r] = {}
         /\ OnlyMoves(r)
         /\ LoopDone(r)'
<1>1. pc'[r] = step /\ written'[r] = {} /\ inserted'[r] = {} /\ OnlyMoves(r)
  BY DEF EndTx, Goto, TypeOK, OnlyMoves
<1>2. QED
  BY <1>1 DEF LoopDone

(* A create commits the entries its input calls for.                       *)
LEMMA InsertedRows ==
  ASSUME PostInv, NEW r \in Creates, pc[r] = "commit"
  PROVE  /\ Checked(r)
         /\ \A e : e \in inserted[r] <=>
              \E i \in 1..Len(LedgerLines(create[r])) : e = InputRow(r, i)
         /\ \A i \in 1..Len(LedgerLines(create[r])) :
              /\ LedgerLines(create[r])[i].account \in written[r]
              /\ account[LedgerLines(create[r])[i].account] = "live"
         /\ written[r] = {LedgerLines(create[r])[i].account :
                            i \in 1..Len(LedgerLines(create[r]))}
         /\ lines[r] = LedgerLines(create[r]) /\ at[r] = Len(lines[r]) + 1
<1> DEFINE L == LedgerLines(create[r])
<1>1. /\ lines[r] = L /\ at[r] = Len(L) + 1 /\ Checked(r)
      /\ inserted[r] = {LineRow(r, i) : i \in 1..at[r] - 1}
      /\ written[r] = {lines[r][i].account : i \in 1..at[r] - 1}
  BY DEF PostInv, PostPart, LoopDone, EntriesDone, Locking
<1>2. L \in Seq(Line) /\ Len(L) \in Nat
  BY LinesOf DEF PostInv, LockInv
<1> HIDE DEF L
<1>3. at[r] - 1 = Len(L)
  BY <1>1, <1>2
<1>4. \A i : LineRow(r, i) = InputRow(r, i)
  BY <1>1 DEF LineRow, InputRow, L
<1>5. \A e : e \in inserted[r] <=> \E i \in 1..Len(L) : e = InputRow(r, i)
  BY <1>1, <1>3, <1>4
<1>6. \A i \in 1..Len(L) : L[i].account \in written[r]
  BY <1>1, <1>3
<1>7. \A i \in 1..Len(L) : L[i].account \in Accounts
  <2>1. \A i \in 1..Len(L) : L[i] \in Line
    BY <1>2
  <2>2. QED
    BY <2>1 DEF Line
<1>8. \A i \in 1..Len(L) : account[L[i].account] = "live"
  BY <1>6, <1>7, RequestAssumption
     DEF PostInv, LockInv, LockPart, WritesLocked, LocksHeld
<1>9. written[r] = {L[i].account : i \in 1..Len(L)}
  BY <1>1, <1>3
<1>10. QED
  BY <1>1, <1>5, <1>6, <1>8, <1>9 DEF L

LEMMA PostCommitCreate ==
  ASSUME PostInv, NEW r \in Creates, CommitCreate(r)
  PROVE  PostPart'
<1>1. /\ pc[r] = "commit" /\ Goto(r, "enrich") /\ EndTx(r)
      /\ txns' = txns \cup {r} /\ ledger' = ledger \cup inserted[r]
      /\ UNCHANGED <<account, create, delete>>
  BY DEF CommitCreate, inputs
<1>2. TypeOK /\ BaseInv
  BY DEF PostInv, LockInv, BaseInv, TypeInv
<1>3. /\ pc'[r] = "enrich" /\ written'[r] = {} /\ inserted'[r] = {}
      /\ OnlyMoves(r) /\ LoopDone(r)'
  BY <1>1, <1>2, EndTxMoves DEF Locking
<1>4. /\ Checked(r)
      /\ \A e : e \in inserted[r] <=>
           \E i \in 1..Len(LedgerLines(create[r])) : e = InputRow(r, i)
      /\ \A i \in 1..Len(LedgerLines(create[r])) :
           account[LedgerLines(create[r])[i].account] = "live"
  BY <1>1, InsertedRows
<1>5. \A q \in Requests : LoopDone(q)'
  BY <1>3, LoopKept DEF OnlyMoves, PostInv, PostPart
<1>6. ASSUME NEW q \in Creates
      PROVE  EntriesDone(q)'
  <2>1. CASE q = r
    <3>1. Checked(r)'
      BY <1>1, <1>4, RowsRigid DEF Checked, Valid
    <3>2. QED
      BY <1>3, <2>1, <3>1 DEF EntriesDone, Locking
  <2>2. CASE q # r
    <3>1. q \in Requests \ {r} /\ EntriesDone(q) /\ (q \in txns' => q \in txns)
      BY <1>1, <2>2 DEF PostInv, PostPart
    <3>2. \A a \in Accounts : account[a] # "absent" => account'[a] # "absent"
      BY <1>1
    <3>3. QED
      BY <1>1, <1>2, <1>3, <3>1, <3>2, EntriesKept DEF OnlyMoves
  <2>3. QED
    BY <2>1, <2>2
<1>7. ASSUME NEW d \in Deletes
      PROVE  EntriesListed(d)'
  <2>1. d \in Requests \ {r} /\ EntriesListed(d) /\ Target(d) \in Creates
    BY <1>2, RequestAssumption, InputAssumption
       DEF PostInv, PostPart, TypeOK, Target, DeleteInput
  <2>2. pc[Target(d)] \in Committed => pc'[Target(d)] \in Committed /\ Target(d) # r
    BY <1>1, <1>3, <2>1 DEF OnlyMoves, Committed
  <2>3. pc[d] \in Locking => Target(d) # r
    BY <2>1, <2>2 DEF EntriesListed, Locking
  <2>4. Target(d) # r => EntriesOf(Target(d))' = EntriesOf(Target(d))
    <3>1. \A e \in inserted[r] : e.txn = r
      BY <1>4 DEF InputRow
    <3>2. QED
      BY <1>1, <3>1 DEF EntriesOf, Target
  <2>5. Target(d) # r /\ Target(d) \in txns' => Target(d) \in txns
    BY <1>1
  <2>6. QED
    BY <1>1, <1>3, <2>1, <2>2, <2>3, <2>4, <2>5, ListedKept DEF OnlyMoves
<1>8. EntriesCalled'
  <2>1. ASSUME NEW e
        PROVE  Called(e)' <=> Called(e) \/
                 \E i \in 1..Len(LedgerLines(create[r])) : e = InputRow(r, i)
    BY <1>1, RowsRigid DEF Called
  <2>2. ASSUME NEW i \in 1..Len(LedgerLines(create[r]))
        PROVE  account[InputRow(r, i).account] = "live"
    BY <1>4 DEF InputRow
  <2>3. EntriesCalled
    BY DEF PostInv, PostPart
  <2>4. QED
    BY <1>1, <1>4, <2>1, <2>2, <2>3 DEF EntriesCalled
<1>9. QED
  BY <1>5, <1>6, <1>7, <1>8 DEF PostPart

LEMMA PostCommitDelete ==
  ASSUME PostInv, NEW r \in Deletes, CommitDelete(r)
  PROVE  PostPart'
<1> DEFINE t == Target(r)
<1>1. /\ Goto(r, "done") /\ EndTx(r)
      /\ txns' = txns \ {t} /\ ledger' = ledger \ EntriesOf(t)
      /\ UNCHANGED <<account, create, delete>>
  BY DEF CommitDelete, Respond, inputs
<1>2. TypeOK /\ BaseInv
  BY DEF PostInv, LockInv, BaseInv, TypeInv
<1>3. /\ pc'[r] = "done" /\ written'[r] = {} /\ inserted'[r] = {}
      /\ OnlyMoves(r) /\ LoopDone(r)'
  BY <1>1, <1>2, EndTxMoves DEF Locking
<1>4. \A q \in Requests : LoopDone(q)'
  BY <1>3, LoopKept DEF OnlyMoves, PostInv, PostPart
<1>5. ASSUME NEW q \in Creates
      PROVE  EntriesDone(q)'
  <2>1. q \in Requests \ {r} /\ EntriesDone(q) /\ (q \in txns' => q \in txns)
    BY <1>1, RequestAssumption DEF PostInv, PostPart
  <2>2. \A a \in Accounts : account[a] # "absent" => account'[a] # "absent"
    BY <1>1
  <2>3. QED
    BY <1>1, <1>2, <1>3, <2>1, <2>2, EntriesKept DEF OnlyMoves
<1>6. ASSUME NEW d \in Deletes
      PROVE  EntriesListed(d)'
  <2>1. CASE d = r
    BY <1>3, <2>1 DEF EntriesListed, Locking
  <2>2. CASE d # r
    <3>1. d \in Requests \ {r} /\ EntriesListed(d) /\ Target(d) \in Creates /\ Target(d) # r
      BY <1>2, <2>2, RequestAssumption, InputAssumption
         DEF PostInv, PostPart, TypeOK, Target, DeleteInput
    <3>2. pc'[Target(d)] = pc[Target(d)]
      BY <1>3, <3>1 DEF OnlyMoves
    <3>3. Target(d) \in txns' => Target(d) \in txns /\ Target(d) # t
      BY <1>1
    <3>4. Target(d) # t => EntriesOf(Target(d))' = EntriesOf(Target(d))
      BY <1>1 DEF EntriesOf, Target
    <3>5. QED
      BY <1>1, <1>3, <3>1, <3>2, <3>3, <3>4, ListedKept DEF OnlyMoves
  <2>3. QED
    BY <2>1, <2>2
<1>7. EntriesCalled'
  <2>1. ASSUME NEW e
        PROVE  Called(e)' <=> Called(e) /\ e.txn # t
    BY <1>1, RowsRigid DEF Called, InputRow
  <2>2. EntriesCalled
    BY DEF PostInv, PostPart
  <2>3. \A e : e \in ledger' <=> e \in ledger /\ e.txn # t
    BY <1>1 DEF EntriesOf
  <2>4. QED
    BY <1>1, <2>1, <2>2, <2>3 DEF EntriesCalled
<1>8. QED
  BY <1>4, <1>5, <1>6, <1>7 DEF PostPart

LEMMA PostAccounts ==
  ASSUME PostInv, NEW a \in Accounts, CreateAccount(a) \/ DeleteAccount(a)
  PROVE  PostPart'
<1>1. TypeOK /\ BaseInv
  BY DEF PostInv, LockInv, BaseInv, TypeInv
<1>2. /\ UNCHANGED <<txns, create, delete, pc, lines, at, written, inserted>>
      /\ \A b \in Accounts : account[b] # "absent" => account'[b] # "absent"
  BY <1>1 DEF CreateAccount, DeleteAccount, dbtx, loop, inputs, TypeOK
<1>3. /\ \A b \in Accounts \ {a} : account'[b] = account[b]
      /\ \/ account[a] = "absent" /\ account'[a] = "live" /\ ledger' = ledger
         \/ account'[a] = "deleted" /\ ledger' = {e \in ledger : e.account # a}
  BY <1>1 DEF CreateAccount, DeleteAccount, TypeOK
<1>4. \A q \in Requests : LoopDone(q)'
  BY <1>2, LoopKept DEF PostInv, PostPart
<1>5. \A q \in Creates : EntriesDone(q)'
  <2> SUFFICES ASSUME NEW q \in Creates
               PROVE  EntriesDone(q)'
    OBVIOUS
  <2>1. q \in Requests /\ EntriesDone(q)
    BY DEF PostInv, PostPart
  <2>2. QED
    BY <1>1, <1>2, <2>1, EntriesKept
<1>6. ASSUME NEW t \in txns, NEW i \in 1..Len(LedgerLines(create[t]))
      PROVE  /\ LedgerLines(create[t])[i].account \in Accounts
             /\ account[LedgerLines(create[t])[i].account] # "absent"
  <2>1. t \in Creates
    BY <1>1 DEF TypeOK
  <2>2. LedgerLines(create[t]) \in Seq(Line) /\ Checked(t)
    BY <1>1, <2>1, LinesOf DEF PostInv, PostPart, EntriesDone
  <2>3. LedgerLines(create[t])[i] \in Line
    BY <2>2
  <2>4. QED
    BY <2>2, <2>3 DEF Checked, Line
<1>7. ASSUME NEW e, Called(e)
      PROVE  e.account \in Accounts /\ account[e.account] # "absent"
  BY <1>6, <1>7 DEF Called, InputRow
<1>8. EntriesCalled
  BY DEF PostInv, PostPart
<1>9. \A d \in Deletes : EntriesListed(d)'
  <2> SUFFICES ASSUME NEW d \in Deletes
               PROVE  EntriesListed(d)'
    OBVIOUS
  <2>1. EntriesListed(d) /\ Target(d)' = Target(d)
    BY <1>2 DEF PostInv, PostPart, Target
  <2>2. inserted'[d] = {} /\ (pc'[d] \notin {"idle", "done"} => pc'[Target(d)] \in Committed)
    BY <1>2, <2>1 DEF EntriesListed
  <2>3. CASE pc[d] \in Locking /\ Target(d) \in txns
    <3>1. \A e \in EntriesOf(Target(d))' : e \in EntriesOf(Target(d))
      BY <1>3, <2>1 DEF EntriesOf
    <3>2. \A e \in EntriesOf(Target(d))' : \E i \in 1..Len(lines'[d]) :
            lines'[d][i].account = e.account /\ lines'[d][i].amount = e.amount
      BY <1>2, <2>1, <2>3, <3>1 DEF EntriesListed
    <3>3. ASSUME NEW i \in 1..Len(lines[d])
          PROVE  \/ account'[lines[d][i].account] = "deleted"
                 \/ [txn |-> Target(d), account |-> lines[d][i].account,
                     amount |-> lines[d][i].amount] \in ledger'
      <4> DEFINE b == lines[d][i].account
                 e == [txn |-> Target(d), account |-> b, amount |-> lines[d][i].amount]
      <4>1. account[b] = "deleted" \/ e \in ledger
        BY <2>1, <2>3 DEF EntriesListed
      <4>2. b \in Accounts
        <5>1. lines[d] \in Seq(Line) /\ lines[d][i] \in Line
          BY <1>1 DEF TypeOK
        <5>2. QED
          BY <5>1 DEF Line
      <4>3. CASE b = a
        <5>1. account[b] # "absent"
          BY <1>7, <1>8, <4>1 DEF EntriesCalled
        <5>2. QED
          BY <1>3, <4>3, <5>1
      <4>4. CASE b # a
        BY <1>3, <4>1, <4>2, <4>4
      <4>5. QED
        BY <4>3, <4>4
    <3>4. QED
      BY <1>2, <2>1, <2>2, <3>2, <3>3 DEF EntriesListed
  <2>4. CASE ~(pc[d] \in Locking /\ Target(d) \in txns)
    BY <1>2, <2>1, <2>2, <2>4 DEF EntriesListed
  <2>5. QED
    BY <2>3, <2>4
<1>10. EntriesCalled'
  <2>1. \A e : Called(e)' <=> Called(e)
    BY <1>2, RowsRigid DEF Called
  <2>2. ASSUME NEW e, Called(e)
        PROVE  e \in ledger' <=> account'[e.account] = "live"
    <3>1. e.account \in Accounts /\ account[e.account] # "absent"
      BY <1>7, <2>2
    <3>2. e \in ledger <=> account[e.account] = "live"
      BY <1>8, <2>2 DEF EntriesCalled
    <3>3. CASE e.account = a
      BY <1>3, <3>1, <3>3
    <3>4. CASE e.account # a
      BY <1>3, <3>1, <3>2, <3>4
    <3>5. QED
      BY <3>3, <3>4
  <2>3. \A e : e \in ledger' => e \in ledger
    BY <1>3
  <2>4. QED
    BY <1>8, <2>1, <2>2, <2>3 DEF EntriesCalled
<1>11. QED
  BY <1>4, <1>5, <1>9, <1>10 DEF PostPart

LEMMA PostCreateStep ==
  ASSUME PostInv, NEW r \in Creates, CreateStep(r)
  PROVE  PostPart'
<1>1. CASE LookupWinner(r)
  <2>1. CASE Rollback(r, "error")
    BY <2>1, PostRollback DEF Results
  <2>2. CASE ~Rollback(r, "error")
    BY <1>1, <2>2, PostOutside
  <2>3. QED
    BY <2>1, <2>2
<1>2. CASE BeginCreate(r) \/ LookupKey(r) \/ CheckArbiter(r) \/ Enrich(r)
  BY <1>2, PostOutside
<1>3. QED
  BY <1>1, <1>2, PostInsertTx, PostInsertEntry, PostLockBalance, PostUpdateBalance,
     PostCommitCreate DEF CreateStep

LEMMA PostDeleteStep ==
  ASSUME PostInv, NEW d \in Deletes, DeleteStep(d)
  PROVE  PostPart'
<1>1. CASE BeginDelete(d)
  BY <1>1, PostOutside
<1>2. QED
  BY <1>1, PostListEntries, PostLockBalance, PostUpdateBalance, PostDeleteSteps,
     PostCommitDelete DEF DeleteStep

LEMMA PostInit == Init => PostInv
<1> SUFFICES ASSUME Init
             PROVE  PostPart
  BY LockInit DEF PostInv, Init, DeleteInv, OneDeleteSucceeds
<1>1. \A r \in Requests : LoopDone(r)
  BY DEF Init, LoopDone, Locking
<1>2. \A r \in Creates : EntriesDone(r)
  BY DEF Init, EntriesDone, Locking
<1>3. \A d \in Deletes : EntriesListed(d)
  BY DEF Init, EntriesListed, Locking
<1>4. EntriesCalled
  BY DEF Init, EntriesCalled, Called
<1>5. QED
  BY <1>1, <1>2, <1>3, <1>4 DEF PostPart

LEMMA PostNext == PostInv /\ [Next]_vars => PostInv'
<1> SUFFICES ASSUME PostInv, [Next]_vars
             PROVE  PostPart'
  BY LockNext, DeleteNext DEF PostInv, LockInv
<1>1. CASE \E r \in Requests : Fail(r) \/ DeadlockDetected(r)
  BY <1>1, PostRollback DEF Fail, DeadlockDetected, Results
<1>2. CASE UNCHANGED vars
  <2>1. UNCHANGED <<tables, inputs, pc, lines, at, written, inserted, newBalance>>
    BY <1>2 DEF vars, dbtx, loop
  <2>2. \A q \in Requests : LoopDone(q)'
    BY <2>1, LoopKept DEF PostInv, PostPart
  <2>3. ASSUME NEW q \in Creates
        PROVE  EntriesDone(q)'
    <3>1. /\ q \in Requests /\ EntriesDone(q) /\ create' = create
          /\ q \in txns' => q \in txns
          /\ \A a \in Accounts : account[a] # "absent" => account'[a] # "absent"
      BY <2>1 DEF PostInv, PostPart, tables, inputs
    <3>2. QED
      BY <2>1, <3>1, EntriesKept DEF PostInv, LockInv
  <2>4. ASSUME NEW d \in Deletes
        PROVE  EntriesListed(d)'
    <3>1. /\ EntriesListed(d) /\ delete' = delete /\ account' = account /\ txns' = txns
          /\ EntriesOf(Target(d))' = EntriesOf(Target(d))
      BY <2>1 DEF PostInv, PostPart, tables, inputs, EntriesOf, Target
    <3>2. QED
      BY <2>1, <3>1, ListedKept
  <2>5. EntriesCalled'
    <3>1. EntriesCalled /\ create' = create /\ UNCHANGED <<txns, ledger, account>>
      BY <2>1 DEF PostInv, PostPart, tables, inputs
    <3>2. \A e : Called(e)' <=> Called(e)
      BY <3>1, RowsRigid DEF Called
    <3>3. QED
      BY <3>1, <3>2 DEF EntriesCalled
  <2>6. QED
    BY <2>2, <2>3, <2>4, <2>5 DEF PostPart
<1>3. QED
  BY <1>1, <1>2, PostCreateStep, PostDeleteStep, PostAccounts DEF Next, Quiescent

(* The ledger holds, of every committed transaction, exactly the entries   *)
(* its input calls for, whatever fails, is retried or deleted.             *)
THEOREM PostsAllOrNothing == Spec => []AllOrNothing
<1>1. PostInv => AllOrNothing
  BY LedgerCalled DEF PostInv, PostPart, LockInv
<1>2. QED
  BY PostInit, PostNext, <1>1, PTL DEF Spec

-----------------------------------------------------------------------------
(* Balances.  The theorems that assume Scale = 1, amounts in whole cents,  *)
(* need it: with a finer amount the entry and the balance round apart (run *)
(* sub_cent).                                                              *)

(* What line i adds to its account's balance.                              *)
Moves(r, i) == IF r \in Creates THEN lines[r][i].amount ELSE -lines[r][i].amount

(* A balance a request has written is the committed one and the amount of  *)
(* the line.                                                               *)
BalancesDone(r) ==
  pc[r] \in Locking =>
    \A i \in 1..at[r] - 1 :
      newBalance[r][lines[r][i].account] = balance[lines[r][i].account] + Moves(r, i)

BalanceInv == PostInv /\ \A r \in Requests : BalancesDone(r)

LEMMA RoundCents ==
  ASSUME Scale = 1, NEW x \in Int
  PROVE  Round(x) = x
<1>1. ASSUME NEW n \in Nat
      PROVE  RoundUp(n) = n
  <2>1. (2 * n + 1) \div 2 = n
    OBVIOUS
  <2>2. QED
    BY <2>1 DEF RoundUp
<1>2. QED
  BY <1>1 DEF Round

LEMMA BalancesKept ==
  ASSUME NEW q \in Requests, LoopDone(q), BalancesDone(q),
         pc'[q] = pc[q], lines'[q] = lines[q], at'[q] = at[q], newBalance'[q] = newBalance[q],
         \A a \in written[q] : balance'[a] = balance[a]
  PROVE  BalancesDone(q)'
<1>1. pc[q] \in Locking =>
        \A i \in 1..at[q] - 1 : lines[q][i].account \in written[q]
  BY DEF LoopDone
<1>2. \A i : Moves(q, i)' = Moves(q, i)
  BY DEF Moves
<1>3. QED
  BY <1>1, <1>2 DEF BalancesDone

(* A step of r that changes no table.                                      *)
LEMMA BalancesQuiet ==
  ASSUME BalanceInv, NEW r \in Requests, OnlyMoves(r), UNCHANGED balance, BalancesDone(r)'
  PROVE  \A q \in Requests : BalancesDone(q)'
<1> SUFFICES ASSUME NEW q \in Requests \ {r}
             PROVE  BalancesDone(q)'
  OBVIOUS
<1>1. LoopDone(q) /\ BalancesDone(q)
  BY DEF BalanceInv, PostInv, PostPart
<1>2. QED
  BY <1>1, BalancesKept DEF OnlyMoves

LEMMA BalancesRollback ==
  ASSUME BalanceInv, NEW r \in Requests, NEW res \in Results, Rollback(r, res)
  PROVE  \A q \in Requests : BalancesDone(q)'
<1>1. TypeOK /\ EndTx(r) /\ Goto(r, "done") /\ UNCHANGED balance
  BY DEF BalanceInv, PostInv, LockInv, BaseInv, TypeInv, Rollback, Respond, tables
<1>2. OnlyMoves(r) /\ pc'[r] = "done"
  BY <1>1, EndTxMoves DEF Locking
<1>3. BalancesDone(r)'
  BY <1>2 DEF BalancesDone, Locking
<1>4. QED
  BY <1>1, <1>2, <1>3, BalancesQuiet

(* A step of r that neither writes a balance nor ends its transaction.     *)
LEMMA BalancesMove ==
  ASSUME BalanceInv, NEW r \in Requests, NEW step, Goto(r, step),
         UNCHANGED <<balance, written, newBalance>>,
         \A q \in Requests \ {r} :
           lines'[q] = lines[q] /\ at'[q] = at[q] /\ inserted'[q] = inserted[q],
         \/ step \notin Locking
         \/ at'[r] = 1
         \/ pc[r] \in Locking /\ UNCHANGED <<lines, at>>
  PROVE  \A q \in Requests : BalancesDone(q)'
<1>1. TypeOK
  BY DEF BalanceInv, PostInv, LockInv, BaseInv, TypeInv
<1>2. OnlyMoves(r) /\ pc'[r] = step
  BY <1>1 DEF OnlyMoves, Goto, TypeOK
<1>3. BalancesDone(r)'
  <2>1. CASE step \notin Locking
    BY <1>2, <2>1 DEF BalancesDone
  <2>2. CASE at'[r] = 1
    <3>1. 1..at'[r] - 1 = {}
      BY <2>2
    <3>2. QED
      BY <3>1 DEF BalancesDone
  <2>3. CASE pc[r] \in Locking /\ UNCHANGED <<lines, at>>
    <3>1. \A i : Moves(r, i)' = Moves(r, i)
      BY <2>3 DEF Moves
    <3>2. QED
      BY <2>3, <3>1 DEF BalancesDone, BalanceInv
  <2>4. QED
    BY <2>1, <2>2, <2>3
<1>4. QED
  BY <1>2, <1>3, BalancesQuiet

LEMMA BalancesUpdate ==
  ASSUME Scale = 1, BalanceInv, NEW r \in Requests, UpdateBalance(r)
  PROVE  \A q \in Requests : BalancesDone(q)'
<1>1. CASE \E res \in Unreached : Rollback(r, res)
  BY <1>1, BalancesRollback DEF Results, Unreached
<1>2. CASE ~\E res \in Unreached : Rollback(r, res)
  <2> DEFINE a == Current(r).account
  <2>1. TypeOK /\ InLoop
    BY DEF BalanceInv, PostInv, LockInv, BaseInv, TypeInv
  <2>2. /\ pc[r] = "update"
        /\ written' = [written EXCEPT ![r] = @ \cup {a}]
        /\ newBalance' = [newBalance EXCEPT ![r][a] = Round(row[r].balance + Delta(r))]
        /\ at' = [at EXCEPT ![r] = @ + 1]
        /\ UNCHANGED <<tables, inputs, lines, inserted>>
        /\ \E step : pc' = [pc EXCEPT ![r] = step]
    BY <1>2 DEF UpdateBalance, NextLine, Unreached, Goto
  <2>3. at[r] \in 1..Len(lines[r]) /\ a \in Accounts /\ Delta(r) \in Int
    BY <2>1, <2>2, CurrentType DEF InLoop
  <2>4. row[r].balance = balance[a] /\ balance[a] \in Int
    <3>1. row[r] = [balance |-> balance[a], version |-> version[a]]
      BY <2>2 DEF BalanceInv, PostInv, LockInv, LockPart, RowCurrent
    <3>2. balance[a] \in Int
      BY <2>1, <2>3 DEF TypeOK
    <3>3. QED
      BY <3>1, <3>2
  <2>5. newBalance' = [newBalance EXCEPT ![r][a] = balance[a] + Delta(r)]
    <3>1. Round(row[r].balance + Delta(r)) = balance[a] + Delta(r)
      <4>1. row[r].balance + Delta(r) = balance[a] + Delta(r)
        BY <2>4
      <4>2. balance[a] + Delta(r) \in Int
        BY <2>3, <2>4
      <4> HIDE DEF a
      <4>3. QED
        BY <4>1, <4>2, RoundCents
    <3>2. QED
      BY <2>2, <3>1
  <2>6. OnlyMoves(r)
    BY <2>1, <2>2 DEF TypeOK, OnlyMoves
  <2>7. OneLineEach(lines[r]) /\ BalancesDone(r)
    BY <2>2 DEF BalanceInv, PostInv, PostPart, LoopDone, Locking
  <2>8. ASSUME NEW i \in 1..at'[r] - 1
        PROVE  newBalance'[r][lines[r][i].account] = balance[lines[r][i].account] + Moves(r, i)
    <3>1. at'[r] = at[r] + 1 /\ i \in 1..at[r] /\ at[r] \in Nat /\ Len(lines[r]) \in Nat
      BY <2>1, <2>2 DEF TypeOK
    <3>2. CASE i = at[r]
      <4>1. lines[r][i].account = a /\ Moves(r, i) = Delta(r)
        BY <3>2 DEF Current, Moves, Delta
      <4>2. newBalance'[r][a] = balance[a] + Delta(r)
        BY <2>1, <2>3, <2>5 DEF TypeOK
      <4>3. QED
        BY <4>1, <4>2
    <3>3. CASE i # at[r]
      <4>1. i \in 1..at[r] - 1 /\ i \in 1..Len(lines[r])
        BY <2>3, <3>1, <3>3
      <4>2. lines[r][i].account # a
        BY <2>3, <2>7, <3>3, <4>1 DEF OneLineEach, Current
      <4>3. newBalance'[r][lines[r][i].account] = newBalance[r][lines[r][i].account]
        <5>1. lines[r][i] \in Line
          BY <2>1, <4>1 DEF TypeOK
        <5>2. lines[r][i].account \in Accounts
          BY <5>1 DEF Line
        <5>3. QED
          BY <2>1, <2>5, <4>2, <5>2 DEF TypeOK
      <4>4. QED
        BY <2>2, <2>7, <4>1, <4>3 DEF BalancesDone, Locking
    <3>4. QED
      BY <3>2, <3>3
  <2>9. BalancesDone(r)'
    <3>1. \A i : Moves(r, i)' = Moves(r, i)
      BY <2>2 DEF Moves
    <3>2. lines' = lines /\ balance' = balance
      BY <2>2 DEF tables
    <3>3. QED
      BY <2>8, <3>1, <3>2 DEF BalancesDone
  <2>10. QED
    BY <2>2, <2>6, <2>9, BalancesQuiet DEF tables
<1>3. QED
  BY <1>1, <1>2

(* A commit touches no row another request has written: that one would     *)
(* hold its lock.                                                          *)
LEMMA BalancesCommit ==
  ASSUME BalanceInv, NEW r \in Requests, CommitBalances(r), EndTx(r),
         NEW step, Goto(r, step), step \notin Locking
  PROVE  \A q \in Requests : BalancesDone(q)'
<1>1. TypeOK /\ WritesLocked
  BY DEF BalanceInv, PostInv, LockInv, LockPart, BaseInv, TypeInv
<1>2. OnlyMoves(r) /\ pc'[r] = step
  BY <1>1, EndTxMoves
<1>3. BalancesDone(r)'
  BY <1>2 DEF BalancesDone
<1>4. ASSUME NEW q \in Requests \ {r}
      PROVE  BalancesDone(q)'
  <2>1. \A a \in written[q] : a \in Accounts /\ a \notin written[r]
    BY <1>1 DEF WritesLocked, TypeOK
  <2>2. \A a \in written[q] : balance'[a] = balance[a]
    BY <2>1 DEF CommitBalances
  <2>3. LoopDone(q) /\ BalancesDone(q)
    BY DEF BalanceInv, PostInv, PostPart
  <2>4. QED
    BY <1>2, <2>2, <2>3, BalancesKept DEF OnlyMoves
<1>5. QED
  BY <1>3, <1>4

LEMMA BalancesAccounts ==
  ASSUME BalanceInv, NEW a \in Accounts, CreateAccount(a) \/ DeleteAccount(a)
  PROVE  \A q \in Requests : BalancesDone(q)'
<1>1. TypeOK /\ WritesLocked /\ LocksHeld
  BY DEF BalanceInv, PostInv, LockInv, LockPart, BaseInv, TypeInv
<1>2. lock[a] = None
  BY <1>1 DEF CreateAccount, DeleteAccount, LocksHeld
<1>3. UNCHANGED <<pc, lines, at, newBalance>>
  BY DEF CreateAccount, DeleteAccount, loop, dbtx
<1>4. \A b \in Accounts \ {a} : balance'[b] = balance[b]
  BY <1>1 DEF CreateAccount, DeleteAccount, TypeOK
<1>5. ASSUME NEW q \in Requests
      PROVE  BalancesDone(q)'
  <2>1. \A b \in written[q] : b \in Accounts \ {a}
    BY <1>1, <1>2, RequestAssumption DEF WritesLocked, TypeOK
  <2>2. LoopDone(q) /\ BalancesDone(q)
    BY DEF BalanceInv, PostInv, PostPart
  <2>3. QED
    BY <1>3, <1>4, <2>1, <2>2, BalancesKept
<1>6. QED
  BY <1>5

LEMMA BalancesLockBalance ==
  ASSUME BalanceInv, NEW r \in Requests, LockBalance(r)
  PROVE  \A q \in Requests : BalancesDone(q)'
<1>1. CASE \E res \in {"error", "insufficientFunds"} : Rollback(r, res)
  BY <1>1, BalancesRollback DEF Results, Unreached
<1>2. CASE ~\E res \in {"error", "insufficientFunds"} : Rollback(r, res)
  <2>1. /\ pc[r] = "lock" /\ Goto(r, "update")
        /\ UNCHANGED <<tables, inserted, written, lines, at, newBalance>>
    BY <1>2 DEF LockBalance
  <2>2. QED
    BY <2>1, BalancesMove DEF Locking, tables
<1>3. QED
  BY <1>1, <1>2

LEMMA BalancesCreateStep ==
  ASSUME Scale = 1, BalanceInv, NEW r \in Creates, CreateStep(r)
  PROVE  \A q \in Requests : BalancesDone(q)'
<1>1. TypeOK
  BY DEF BalanceInv, PostInv, LockInv, BaseInv, TypeInv
<1>2. CASE \E res \in Results : Rollback(r, res)
  BY <1>2, BalancesRollback
<1>3. CASE BeginCreate(r) \/ LookupKey(r) \/ CheckArbiter(r) \/ Enrich(r)
  <2>1. \E step : Goto(r, step) /\ step \notin Locking
    BY <1>3 DEF BeginCreate, LookupKey, CheckArbiter, Enrich, Respond, Locking
  <2>2. UNCHANGED <<tables, dbtx, loop>>
    BY <1>3 DEF BeginCreate, LookupKey, CheckArbiter, Enrich
  <2>3. QED
    BY <2>1, <2>2, BalancesMove DEF tables, dbtx, loop
<1>4. CASE LookupWinner(r) /\ ~Rollback(r, "error")
  <2>1. Goto(r, "enrich") /\ UNCHANGED <<tables, dbtx, loop>>
    BY <1>4 DEF LookupWinner
  <2>2. QED
    BY <2>1, BalancesMove DEF tables, dbtx, loop, Locking
<1>5. CASE InsertTx(r) /\ ~Rollback(r, "duplicateKey")
  <2>1. /\ Goto(r, "entry") /\ at' = [at EXCEPT ![r] = 1]
        /\ lines' = [lines EXCEPT ![r] = LedgerLines(create[r])]
        /\ UNCHANGED <<tables, dbtx>>
    BY <1>5 DEF InsertTx
  <2>2. at'[r] = 1 /\ \A q \in Requests \ {r} : lines'[q] = lines[q] /\ at'[q] = at[q]
    BY <1>1, <2>1 DEF TypeOK
  <2>3. QED
    BY <2>1, <2>2, BalancesMove DEF tables, dbtx
<1>6. CASE InsertEntry(r) /\ ~Rollback(r, "error")
  <2>1. /\ pc[r] = "entry" /\ Goto(r, "lock")
        /\ inserted' = [inserted EXCEPT ![r] = @ \cup {EntryRow(r)}]
        /\ UNCHANGED <<tables, written, newBalance, loop>>
    BY <1>6 DEF InsertEntry
  <2>2. \A q \in Requests \ {r} : inserted'[q] = inserted[q]
    BY <1>1, <2>1 DEF TypeOK
  <2>3. QED
    BY <2>1, <2>2, BalancesMove DEF tables, loop, Locking
<1>7. CASE CommitCreate(r)
  BY <1>7, BalancesCommit DEF CommitCreate, Locking
<1>8. QED
  BY <1>2, <1>3, <1>4, <1>5, <1>6, <1>7, BalancesLockBalance, BalancesUpdate
     DEF CreateStep, Results

LEMMA BalancesDeleteStep ==
  ASSUME Scale = 1, BalanceInv, NEW d \in Deletes, DeleteStep(d)
  PROVE  \A q \in Requests : BalancesDone(q)'
<1>1. TypeOK
  BY DEF BalanceInv, PostInv, LockInv, BaseInv, TypeInv
<1>2. CASE \E res \in Results : Rollback(d, res)
  BY <1>2, BalancesRollback
<1>3. CASE BeginDelete(d)
  <2>1. \E step : Goto(d, step) /\ step \notin Locking
    BY <1>3 DEF BeginDelete, Respond, Locking
  <2>2. UNCHANGED <<tables, dbtx, loop>>
    BY <1>3 DEF BeginDelete
  <2>3. QED
    BY <2>1, <2>2, BalancesMove DEF tables, dbtx, loop
<1>4. CASE ListEntries(d)
  <2>1. PICK l, step :
          Goto(d, step) /\ at' = [at EXCEPT ![d] = 1] /\ lines' = [lines EXCEPT ![d] = l]
    BY <1>4 DEF ListEntries
  <2>2. UNCHANGED <<tables, dbtx>>
    BY <1>4 DEF ListEntries
  <2>3. at'[d] = 1 /\ \A q \in Requests \ {d} : lines'[q] = lines[q] /\ at'[q] = at[q]
    BY <1>1, <2>1 DEF TypeOK
  <2>4. QED
    BY <2>1, <2>2, <2>3, BalancesMove DEF tables, dbtx
<1>5. CASE (DeleteEntries(d) \/ DeleteTx(d)) /\ ~Rollback(d, "notFound")
  <2>1. /\ \E step : Goto(d, step)
        /\ pc[d] \in Locking
        /\ UNCHANGED <<tables, dbtx, loop>>
    BY <1>5 DEF DeleteEntries, DeleteTx, Locking
  <2>2. QED
    BY <2>1, BalancesMove DEF tables, dbtx, loop
<1>6. CASE CommitDelete(d)
  <2>1. CommitBalances(d) /\ EndTx(d) /\ Goto(d, "done")
    BY <1>6 DEF CommitDelete, Respond
  <2>2. QED
    BY <2>1, BalancesCommit DEF Locking
<1>7. QED
  BY <1>2, <1>3, <1>4, <1>5, <1>6, BalancesLockBalance, BalancesUpdate
     DEF DeleteStep, Results

LEMMA BalanceInit == Init => BalanceInv
BY PostInit DEF BalanceInv, BalancesDone, Init, Locking

LEMMA BalanceNext ==
  ASSUME Scale = 1
  PROVE  BalanceInv /\ [Next]_vars => BalanceInv'
<1> SUFFICES ASSUME BalanceInv, [Next]_vars
             PROVE  \A q \in Requests : BalancesDone(q)'
  BY PostNext DEF BalanceInv
<1>1. CASE \E r \in Requests : Fail(r) \/ DeadlockDetected(r)
  BY <1>1, BalancesRollback DEF Fail, DeadlockDetected, Results
<1>2. CASE UNCHANGED vars
  <2>1. UNCHANGED <<pc, lines, at, newBalance, balance>>
    BY <1>2 DEF vars, tables, loop, dbtx
  <2>2. QED
    BY <2>1, BalancesKept DEF BalanceInv, PostInv, PostPart
<1>3. QED
  BY <1>1, <1>2, BalancesCreateStep, BalancesDeleteStep, BalancesAccounts DEF Next, Quiescent

-----------------------------------------------------------------------------
(* The ledger it implements *)

LEMMA MovementOf ==
  ASSUME NEW E, Books!OneEntryPerAccount(E)
  PROVE  /\ \A e \in E : Books!Movement(E, e.account) = e.amount
         /\ \A a : (\A e \in E : e.account # a) => Books!Movement(E, a) = 0
<1>1. ASSUME NEW e \in E
      PROVE  Books!Movement(E, e.account) = e.amount
  <2>1. \A f \in E : f.account = e.account => f = e
    BY DEF Books!OneEntryPerAccount
  <2>2. (CHOOSE f \in E : f.account = e.account) = e
    BY <2>1
  <2>3. QED
    BY <2>2 DEF Books!Movement
<1>2. \A a : (\A e \in E : e.account # a) => Books!Movement(E, a) = 0
  BY DEF Books!Movement
<1>3. QED
  BY <1>1, <1>2

LEMMA CommitCreatePosts ==
  ASSUME Scale = 1, BalanceInv, BalanceInv', NEW r \in Creates, CommitCreate(r)
  PROVE  Books!Post(r, ledger' \ ledger)
<1> DEFINE L == LedgerLines(create[r])
<1>1. /\ pc[r] = "commit" /\ txns' = txns \cup {r} /\ ledger' = ledger \cup inserted[r]
      /\ CommitBalances(r) /\ account' = account
  BY DEF CommitCreate
<1>2. PostInv /\ BaseInv /\ TypeOK /\ DeleteInv /\ EntriesCalled /\ BalancesDone(r)
  BY DEF BalanceInv, PostInv, PostPart, LockInv, BaseInv, TypeInv
<1>3. /\ \A e : e \in inserted[r] <=> \E i \in 1..Len(L) : e = InputRow(r, i)
      /\ \A i \in 1..Len(L) : account[L[i].account] = "live"
      /\ written[r] = {L[i].account : i \in 1..Len(L)}
      /\ lines[r] = L /\ at[r] = Len(L) + 1 /\ Valid(create[r])
  BY <1>1, <1>2, InsertedRows DEF Checked
<1>4. L \in Seq(Line) /\ Len(L) >= 1 /\ Len(L) \in Nat /\ OneLineEach(L)
  BY <1>2, <1>3, LinesOf
<1> HIDE DEF L
<1>5. \A i \in 1..Len(L) : L[i].account \in Accounts /\ L[i].amount \in Int
  <2>1. \A i \in 1..Len(L) : L[i] \in Line
    BY <1>4
  <2>2. QED
    BY <2>1 DEF Line
<1>6. \A i \in 1..Len(L) :
        InputRow(r, i) = [txn |-> r, account |-> L[i].account, amount |-> L[i].amount]
  BY <1>5, RoundCents DEF InputRow, L
<1>7. r \notin txns
  BY <1>1, <1>2 DEF DeleteInv, Committed
<1>8. \A e \in ledger : e.txn # r
  BY <1>2, <1>7 DEF EntriesCalled, Called, InputRow
<1>9. \A e \in inserted[r] : e.txn = r /\ account[e.account] = "live"
  BY <1>3, <1>6
<1>10. ledger' \ ledger = inserted[r]
  BY <1>1, <1>8, <1>9
<1>11. Books!OneEntryPerAccount(inserted[r])
  BY <1>3, <1>4, <1>6 DEF Books!OneEntryPerAccount, OneLineEach
<1>12. inserted[r] # {}
  <2>1. 1 \in 1..Len(L)
    BY <1>4
  <2>2. InputRow(r, 1) \in inserted[r]
    BY <1>3, <2>1
  <2>3. QED
    BY <2>2
<1>13. ASSUME NEW a \in Accounts
       PROVE  balance'[a] = balance[a] + Books!Movement(inserted[r], a)
  <2>1. CASE a \in written[r]
    <3>1. PICK i \in 1..Len(L) : a = L[i].account
      BY <1>3, <2>1
    <3>2. i \in 1..at[r] - 1
      BY <1>3, <1>4
    <3>3. newBalance[r][a] = balance[a] + L[i].amount
      BY <1>1, <1>2, <1>3, <3>1, <3>2 DEF BalancesDone, Locking, Moves
    <3>4. Books!Movement(inserted[r], a) = L[i].amount
      <4>1. InputRow(r, i) \in inserted[r]
        BY <1>3
      <4>2. InputRow(r, i).account = a /\ InputRow(r, i).amount = L[i].amount
        BY <1>6, <3>1
      <4>3. QED
        BY <1>11, <4>1, <4>2, MovementOf
    <3>5. balance'[a] = newBalance[r][a]
      BY <1>1, <2>1 DEF CommitBalances
    <3>6. QED
      BY <3>3, <3>4, <3>5
  <2>2. CASE a \notin written[r]
    <3>1. \A e \in inserted[r] : e.account # a
      BY <1>3, <1>6, <2>2
    <3>2. Books!Movement(inserted[r], a) = 0
      BY <1>11, <3>1, MovementOf
    <3>3. balance'[a] = balance[a] /\ balance[a] \in Int
      BY <1>1, <1>2, <2>2 DEF CommitBalances, TypeOK
    <3>4. QED
      BY <3>2, <3>3
  <2>3. QED
    BY <2>1, <2>2
<1>14. balance' = [a \in Accounts |-> balance[a] + Books!Movement(inserted[r], a)]
  <2>1. balance' = [a \in Accounts |-> balance'[a]]
    BY <1>1 DEF CommitBalances
  <2>2. QED
    BY <1>13, <2>1
<1>15. \A a \in Accounts : balance'[a] >= 0
  BY DEF BalanceInv, PostInv, LockInv, LockPart, NonNegative, NoOverdraft
<1>16. QED
  BY <1>1, <1>7, <1>9, <1>10, <1>11, <1>12, <1>14, <1>15 DEF Books!Post

LEMMA CommitDeleteReverses ==
  ASSUME Scale = 1, BalanceInv, BalanceInv', NEW d \in Deletes, CommitDelete(d)
  PROVE  Books!Reverse(Target(d))
<1> DEFINE t == Target(d)
           E == EntriesOf(t)
<1>1. /\ pc[d] = "commit" /\ txns' = txns \ {t} /\ ledger' = ledger \ E
      /\ CommitBalances(d) /\ account' = account
  BY DEF CommitDelete
<1>2. /\ PostInv /\ BaseInv /\ TypeOK /\ DeleteInv /\ EntriesCalled /\ BalancesDone(d)
      /\ LocksHeld /\ WritesLocked
  BY DEF BalanceInv, PostInv, PostPart, LockInv, LockPart, BaseInv, TypeInv
<1>3. t \in txns
  BY <1>1, <1>2 DEF DeleteInv
<1>4. /\ \A e \in E : \E i \in 1..Len(lines[d]) :
           lines[d][i].account = e.account /\ lines[d][i].amount = e.amount
      /\ \A i \in 1..Len(lines[d]) :
           \/ account[lines[d][i].account] = "deleted"
           \/ [txn |-> t, account |-> lines[d][i].account,
               amount |-> lines[d][i].amount] \in ledger
  BY <1>1, <1>2, <1>3 DEF PostInv, PostPart, EntriesListed, Locking
<1>5. /\ at[d] = Len(lines[d]) + 1 /\ Len(lines[d]) \in Nat
      /\ written[d] = {lines[d][i].account : i \in 1..Len(lines[d])}
  <2>1. /\ at[d] = Len(lines[d]) + 1 /\ Len(lines[d]) \in Nat
        /\ written[d] = {lines[d][i].account : i \in 1..at[d] - 1}
    BY <1>1, <1>2 DEF PostInv, PostPart, LoopDone, Locking, TypeOK
  <2>2. at[d] - 1 = Len(lines[d])
    BY <2>1
  <2>3. QED
    BY <2>1, <2>2
<1>6. \A e, f \in E : e.account = f.account => e = f
  BY <1>2, EntriesOfOne DEF PostInv, PostPart, EntriesDone, TypeOK
<1>7. Books!OneEntryPerAccount(E)
  BY <1>6 DEF Books!OneEntryPerAccount
<1>8. ASSUME NEW a \in Accounts
      PROVE  balance'[a] = balance[a] - Books!Movement(E, a)
  <2>1. CASE a \in written[d]
    <3>1. PICK i \in 1..Len(lines[d]) : a = lines[d][i].account
      BY <1>5, <2>1
    <3>2. lines[d][i].amount \in Int /\ i \in 1..at[d] - 1
      <4>1. lines[d][i] \in Line
        BY <1>2 DEF TypeOK
      <4>2. QED
        BY <1>5, <4>1 DEF Line
    <3>3. account[a] = "live"
      BY <1>2, <2>1, RequestAssumption DEF LocksHeld, WritesLocked
    <3> DEFINE e == [txn |-> t, account |-> a, amount |-> lines[d][i].amount]
    <3>4. e \in E /\ e.account = a /\ e.amount = lines[d][i].amount
      BY <1>4, <3>1, <3>3 DEF EntriesOf
    <3>5. Books!Movement(E, a) = lines[d][i].amount
      BY <1>7, <3>4, MovementOf
    <3>6. newBalance[d][a] = balance[a] + (-lines[d][i].amount)
      BY <1>1, <1>2, <3>1, <3>2, RequestAssumption DEF BalancesDone, Locking, Moves
    <3>7. balance'[a] = newBalance[d][a] /\ balance[a] \in Int
      BY <1>1, <1>2, <2>1 DEF CommitBalances, TypeOK
    <3>8. QED
      BY <3>2, <3>5, <3>6, <3>7
  <2>2. CASE a \notin written[d]
    <3>1. \A e \in E : e.account # a
      BY <1>4, <1>5, <2>2
    <3>2. Books!Movement(E, a) = 0
      BY <1>7, <3>1, MovementOf
    <3>3. balance'[a] = balance[a] /\ balance[a] \in Int
      BY <1>1, <1>2, <2>2 DEF CommitBalances, TypeOK
    <3>4. QED
      BY <3>2, <3>3
  <2>3. QED
    BY <2>1, <2>2
<1>9. balance' = [a \in Accounts |-> balance[a] - Books!Movement(E, a)]
  <2>1. balance' = [a \in Accounts |-> balance'[a]]
    BY <1>1 DEF CommitBalances
  <2>2. QED
    BY <1>8, <2>1
<1>10. \A a \in Accounts : balance'[a] >= 0
  BY DEF BalanceInv, PostInv, LockInv, LockPart, NonNegative, NoOverdraft
<1>11. QED
  BY <1>1, <1>3, <1>9, <1>10 DEF Books!Reverse, EntriesOf

LEMMA AccountsOpenAndClose ==
  ASSUME BalanceInv, BalanceInv', NEW a \in Accounts
  PROVE  /\ CreateAccount(a) => Books!Open(a)
         /\ DeleteAccount(a) => Books!Close(a)
<1>1. TypeOK /\ \A b \in Accounts : balance'[b] >= 0
  BY DEF BalanceInv, PostInv, LockInv, LockPart, BaseInv, TypeInv, NonNegative, NoOverdraft
<1>2. CreateAccount(a) => Books!Open(a)
  BY <1>1 DEF CreateAccount, Books!Open, TypeOK
<1>3. DeleteAccount(a) => Books!Close(a)
  BY DEF DeleteAccount, Books!Close
<1>4. QED
  BY <1>2, <1>3

(* Every other step leaves the books as they are.                          *)
LEMMA BooksStill ==
  ASSUME [Next]_vars,
         ~\E r \in Creates : CommitCreate(r),
         ~\E d \in Deletes : CommitDelete(d),
         ~\E a \in Accounts : CreateAccount(a) \/ DeleteAccount(a)
  PROVE  UNCHANGED <<account, balance, txns, ledger, opening>>
<1>1. \A r, res : Rollback(r, res) => UNCHANGED tables
  BY DEF Rollback
<1>2. CASE \E r \in Creates : CreateStep(r)
  BY <1>1, <1>2 DEF CreateStep, BeginCreate, LookupKey, CheckArbiter, InsertTx, LookupWinner,
                    InsertEntry, LockBalance, UpdateBalance, Enrich, tables
<1>3. CASE \E d \in Deletes : DeleteStep(d)
  BY <1>1, <1>3 DEF DeleteStep, BeginDelete, ListEntries, LockBalance, UpdateBalance,
                    DeleteEntries, DeleteTx, tables
<1>4. CASE \E r \in Requests : Fail(r) \/ DeadlockDetected(r)
  BY <1>1, <1>4 DEF Fail, DeadlockDetected, tables
<1>5. CASE UNCHANGED vars
  BY <1>5 DEF vars, tables
<1>6. QED
  BY <1>2, <1>3, <1>4, <1>5 DEF Next, Quiescent

LEMMA BooksNext ==
  ASSUME Scale = 1
  PROVE  BalanceInv /\ BalanceInv' /\ [Next]_vars => [Books!Next]_(Books!books)
<1> SUFFICES ASSUME BalanceInv, BalanceInv', [Next]_vars
             PROVE  Books!Next \/ UNCHANGED Books!books
  OBVIOUS
<1>1. ASSUME NEW r \in Creates, CommitCreate(r)
      PROVE  Books!Next
  BY <1>1, CommitCreatePosts DEF Books!Next
<1>2. ASSUME NEW d \in Deletes, CommitDelete(d)
      PROVE  Books!Next
  <2>1. Target(d) \in Creates
    BY InputAssumption DEF BalanceInv, PostInv, LockInv, BaseInv, TypeInv, TypeOK, Target,
                           DeleteInput
  <2>2. QED
    BY <1>2, <2>1, CommitDeleteReverses DEF Books!Next
<1>3. ASSUME NEW a \in Accounts, CreateAccount(a) \/ DeleteAccount(a)
      PROVE  Books!Next
  BY <1>3, AccountsOpenAndClose DEF Books!Next
<1>4. QED
  BY <1>1, <1>2, <1>3, BooksStill DEF Books!books

(* In whole cents, the tables that concurrent creates and deletes write,   *)
(* line by line under row locks, change as those of a ledger in which a    *)
(* transaction is posted or reversed in one step.                          *)
THEOREM ServiceImplementsLedger ==
  ASSUME Scale = 1
  PROVE  Spec => ImplementsLedger
<1>1. Init => Books!Init
  BY DEF Init, Books!Init
<1>2. BalanceInv /\ BalanceInv' /\ [Next]_vars => [Books!Next]_(Books!books)
  BY BooksNext
<1>3. BalanceInv /\ [Next]_vars => BalanceInv'
  BY BalanceNext
<1>4. QED
  BY BalanceInit, <1>1, <1>2, <1>3, PTL DEF Spec, ImplementsLedger, Books!Spec

-----------------------------------------------------------------------------
(* Balances and sums of entries *)

EntriesAt(a) == {e \in ledger : e.account = a}

AmountOf == [e \in Entry |-> e.amount]

LEMMA LedgerBalanceKept ==
  ASSUME NEW a, EntriesAt(a)' = EntriesAt(a)
  PROVE  LedgerBalance(a)' = LedgerBalance(a)
BY DEF LedgerBalance, EntriesAt, MapThenSumSet, MapThenFoldSet

LEMMA LedgerBalanceTotal ==
  ASSUME BaseInv, NEW a
  PROVE  LedgerBalance(a) = Total(AmountOf, EntriesAt(a))
<1>1. IsFiniteSet(EntriesAt(a)) /\ \A e \in EntriesAt(a) : AmountOf[e] = e.amount
  BY FS_Subset DEF EntriesAt, AmountOf, BaseInv, TypeInv, TypeOK, FiniteRows
<1>2. QED
  BY <1>1, TotalOfAmounts DEF LedgerBalance, EntriesAt

LEMMA LedgerBalanceTotalNext ==
  ASSUME BaseInv', NEW a
  PROVE  LedgerBalance(a)' = Total(AmountOf, EntriesAt(a)')
<1>1. IsFiniteSet(EntriesAt(a)') /\ \A e \in EntriesAt(a)' : AmountOf[e] = e.amount
  BY FS_Subset DEF EntriesAt, AmountOf, BaseInv, TypeInv, TypeOK, FiniteRows
<1>2. LedgerBalance(a)' = MapThenSumSet(LAMBDA e : e.amount, EntriesAt(a)')
  BY DEF LedgerBalance, EntriesAt, MapThenSumSet, MapThenFoldSet
<1>3. QED
  BY <1>1, <1>2, TotalOfAmounts

LEMMA EntriesAtType ==
  ASSUME BaseInv, NEW a
  PROVE  /\ IsFiniteSet(EntriesAt(a)) /\ Amounts(AmountOf, EntriesAt(a))
         /\ Total(AmountOf, EntriesAt(a)) \in Int
<1>1. IsFiniteSet(ledger) /\ ledger \subseteq Entry
  BY DEF BaseInv, TypeInv, TypeOK, FiniteRows
<1>2. IsFiniteSet(EntriesAt(a))
  BY <1>1, FS_Subset DEF EntriesAt
<1>3. Amounts(AmountOf, EntriesAt(a))
  BY <1>1 DEF Amounts, AmountOf, EntriesAt, Entry
<1>4. QED
  BY <1>2, <1>3, TotalType

LEMMA ConsistentPost ==
  ASSUME Scale = 1, BalanceInv, BalanceInv', BalanceConsistent,
         NEW r \in Creates, CommitCreate(r)
  PROVE  BalanceConsistent'
<1> DEFINE E == ledger' \ ledger
<1>1. /\ Books!OneEntryPerAccount(E) /\ ledger' = ledger \cup E
      /\ balance' = [a \in Accounts |-> balance[a] + Books!Movement(E, a)]
      /\ account' = account /\ opening' = opening
  BY CommitCreatePosts DEF Books!Post, CommitCreate
<1>2. BaseInv /\ BaseInv' /\ TypeOK /\ E \subseteq Entry
  BY DEF BalanceInv, PostInv, LockInv, BaseInv, TypeInv, TypeOK
<1> SUFFICES ASSUME NEW a \in Accounts, account[a] = "live"
             PROVE  balance'[a] = opening[a] + Total(AmountOf, EntriesAt(a)')
  BY <1>1, <1>2, LedgerBalanceTotalNext DEF BalanceConsistent
<1>3. /\ balance[a] = opening[a] + Total(AmountOf, EntriesAt(a))
      /\ opening[a] \in Int /\ Total(AmountOf, EntriesAt(a)) \in Int
  BY <1>2, LedgerBalanceTotal, EntriesAtType DEF BalanceConsistent, TypeOK
<1>4. balance'[a] = balance[a] + Books!Movement(E, a)
  BY <1>1
<1> HIDE DEF E
<1>5. CASE \E e \in E : e.account = a
  <2>1. PICK e \in E : e.account = a
    BY <1>5
  <2>2. EntriesAt(a)' = EntriesAt(a) \cup {e}
    BY <1>1, <2>1 DEF EntriesAt, Books!OneEntryPerAccount
  <2>3. e \notin EntriesAt(a) /\ e.amount \in Int /\ AmountOf[e] = e.amount
    BY <1>2, <2>1 DEF EntriesAt, E, Entry, AmountOf
  <2>4. Total(AmountOf, EntriesAt(a)') = Total(AmountOf, EntriesAt(a)) + e.amount
    BY <1>2, <2>2, <2>3, EntriesAtType, TotalAdd
  <2>5. Books!Movement(E, a) = e.amount
    BY <1>1, <2>1, MovementOf
  <2>6. QED
    BY <1>3, <1>4, <2>3, <2>4, <2>5
<1>6. CASE ~\E e \in E : e.account = a
  <2>1. EntriesAt(a)' = EntriesAt(a)
    BY <1>1, <1>6 DEF EntriesAt
  <2>2. Books!Movement(E, a) = 0
    BY <1>1, <1>6, MovementOf
  <2>3. QED
    BY <1>3, <1>4, <2>1, <2>2
<1>7. QED
  BY <1>5, <1>6

LEMMA ConsistentReverse ==
  ASSUME Scale = 1, BalanceInv, BalanceInv', BalanceConsistent,
         NEW d \in Deletes, CommitDelete(d)
  PROVE  BalanceConsistent'
<1> DEFINE E == EntriesOf(Target(d))
<1>1. /\ ledger' = ledger \ E /\ E \subseteq ledger
      /\ balance' = [a \in Accounts |-> balance[a] - Books!Movement(E, a)]
      /\ account' = account /\ opening' = opening
  BY CommitDeleteReverses DEF Books!Reverse, CommitDelete, EntriesOf
<1>2. BaseInv /\ BaseInv' /\ TypeOK
  BY DEF BalanceInv, PostInv, LockInv, BaseInv, TypeInv
<1>3. Books!OneEntryPerAccount(E)
  BY <1>2, EntriesOfOne
     DEF Books!OneEntryPerAccount, BalanceInv, PostInv, PostPart, EntriesDone, TypeOK
<1> SUFFICES ASSUME NEW a \in Accounts, account[a] = "live"
             PROVE  balance'[a] = opening[a] + Total(AmountOf, EntriesAt(a)')
  BY <1>1, <1>2, LedgerBalanceTotalNext DEF BalanceConsistent
<1>4. /\ balance[a] = opening[a] + Total(AmountOf, EntriesAt(a))
      /\ opening[a] \in Int /\ Total(AmountOf, EntriesAt(a)) \in Int
  BY <1>2, LedgerBalanceTotal, EntriesAtType DEF BalanceConsistent, TypeOK
<1>5. balance'[a] = balance[a] - Books!Movement(E, a)
  BY <1>1
<1> HIDE DEF E
<1>6. CASE \E e \in E : e.account = a
  <2>1. PICK e \in E : e.account = a
    BY <1>6
  <2>2. EntriesAt(a)' = EntriesAt(a) \ {e} /\ e \in EntriesAt(a)
    BY <1>1, <1>3, <2>1 DEF EntriesAt, Books!OneEntryPerAccount
  <2>3. Books!Movement(E, a) = e.amount /\ e.amount \in Int /\ AmountOf[e] = e.amount
    BY <1>1, <1>2, <1>3, <2>1, MovementOf DEF TypeOK, Entry, AmountOf
  <2>4. Total(AmountOf, EntriesAt(a)') = Total(AmountOf, EntriesAt(a)) - e.amount
    BY <1>2, <2>2, <2>3, EntriesAtType, TotalRemove
  <2>5. QED
    BY <1>4, <1>5, <2>3, <2>4
<1>7. CASE ~\E e \in E : e.account = a
  <2>1. EntriesAt(a)' = EntriesAt(a)
    BY <1>1, <1>7 DEF EntriesAt
  <2>2. Books!Movement(E, a) = 0
    BY <1>3, <1>7, MovementOf
  <2>3. QED
    BY <1>4, <1>5, <2>1, <2>2
<1>8. QED
  BY <1>6, <1>7

(* An account that did not exist has no entries.                           *)
LEMMA ConsistentAccounts ==
  ASSUME BalanceInv, BalanceInv', BalanceConsistent,
         NEW a \in Accounts, CreateAccount(a) \/ DeleteAccount(a)
  PROVE  BalanceConsistent'
<1>1. TypeOK /\ TypeOK' /\ BaseInv /\ BaseInv' /\ EntriesCalled
  BY DEF BalanceInv, PostInv, PostPart, LockInv, BaseInv, TypeInv
<1> SUFFICES ASSUME NEW b \in Accounts, account'[b] = "live"
             PROVE  balance'[b] = opening'[b] + Total(AmountOf, EntriesAt(b)')
  BY <1>1, LedgerBalanceTotalNext DEF BalanceConsistent
<1>2. CASE b = a
  <2>1. /\ account[a] = "absent" /\ ledger' = ledger /\ balance'[a] = opening'[a]
    BY <1>1, <1>2 DEF CreateAccount, DeleteAccount, TypeOK
  <2>2. EntriesAt(a)' = {}
    BY <1>1, <2>1 DEF EntriesAt, EntriesCalled
  <2>3. opening'[a] \in Int
    BY <1>1 DEF TypeOK
  <2>4. QED
    BY <1>2, <2>1, <2>2, <2>3, TotalEmpty
<1>3. CASE b # a
  <2>1. /\ balance'[b] = balance[b] /\ opening'[b] = opening[b] /\ account[b] = "live"
        /\ EntriesAt(b)' = EntriesAt(b)
    BY <1>1, <1>3 DEF CreateAccount, DeleteAccount, TypeOK, EntriesAt
  <2>2. balance[b] = opening[b] + Total(AmountOf, EntriesAt(b))
    BY <1>1, <2>1, LedgerBalanceTotal DEF BalanceConsistent
  <2>3. QED
    BY <2>1, <2>2
<1>4. QED
  BY <1>2, <1>3

LEMMA ConsistentNext ==
  ASSUME Scale = 1
  PROVE  BalanceInv /\ BalanceInv' /\ BalanceConsistent /\ [Next]_vars => BalanceConsistent'
<1> SUFFICES ASSUME BalanceInv, BalanceInv', BalanceConsistent, [Next]_vars
             PROVE  BalanceConsistent'
  OBVIOUS
<1>1. CASE UNCHANGED <<account, balance, txns, ledger, opening>>
  <2>1. \A a \in Accounts : LedgerBalance(a)' = LedgerBalance(a)
    BY <1>1, LedgerBalanceKept DEF EntriesAt
  <2>2. QED
    BY <1>1, <2>1 DEF BalanceConsistent
<1>2. QED
  BY <1>1, BooksStill, ConsistentPost, ConsistentReverse, ConsistentAccounts

(* In whole cents, the balance of every account is its opening balance and *)
(* the sum of its entries, however many requests and lines have changed    *)
(* it: what reconciliation checks, and what it would have to repair.       *)
THEOREM BalancesAddUp ==
  ASSUME Scale = 1
  PROVE  Spec => []BalanceConsistent
<1>1. Init => BalanceConsistent
  BY DEF Init, BalanceConsistent
<1>2. BalanceInv /\ [Next]_vars => BalanceInv'
  BY BalanceNext
<1>3. BalanceInv /\ BalanceInv' /\ BalanceConsistent /\ [Next]_vars => BalanceConsistent'
  BY ConsistentNext
<1>4. QED
  BY BalanceInit, <1>1, <1>2, <1>3, PTL DEF Spec
=============================================================================
