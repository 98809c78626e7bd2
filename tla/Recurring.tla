----------------------------- MODULE Recurring -----------------------------
(***************************************************************************)
(* Recurring rules and the runs that turn them into transactions:          *)
(* internal/service/recurring_service.go, internal/repository/recurring_   *)
(* repository.go and the scheduler of cmd/api/main.go.                     *)
(*                                                                         *)
(* A runner is whatever calls RunDue: the hourly scheduler of a replica, or*)
(* a POST to /api/recurring/run.  Nothing keeps two of them apart.  RunDue *)
(* reads the due rules in one statement and then works on its copy of      *)
(* them, one rule after the other, while other runners, and the owners of  *)
(* the rules, go on.                                                       *)
(*                                                                         *)
(* Creating a transaction is module TransactionService: of it this module  *)
(* keeps the idempotency lookup, the INSERT, which waits for an uncommitted*)
(* row with the key, the commit with all that comes between, and the load  *)
(* of the detail, which is nil if the transaction has been deleted since.  *)
(***************************************************************************)
EXTENDS Integers

CONSTANTS
  Rules,     \* ids of the rules that are ever created
  Runners,   \* the concurrent callers of RunDue
  Hourly,    \* those of them that are schedulers
  LastDay,   \* bound: the clock stops there
  Periods,   \* frequency times interval_count, in days
  Ends,      \* the end dates rules are given, Null for none
  Null,      \* SQL NULL, or Go's nil
  Behind,    \* by how many days Go's date may be behind CURRENT_DATE
  MaxUndone, \* bound: how many of the transactions made are deleted
  MaxStops   \* bound: runs that are cut short

Days == 0..LastDay

(* Advancing from a day of the clock may pass its end by a period.         *)
Dates == 0..(2 * LastDay + 1)

ASSUME CalendarAssumption ==
  /\ LastDay \in Nat
  /\ Periods \subseteq 1..(LastDay + 1) /\ Periods # {}
  /\ Null \notin Int
  /\ Ends \subseteq Days \cup {Null} /\ Ends # {}
  /\ Behind \subseteq Nat
  /\ Hourly \subseteq Runners
  /\ MaxUndone \in Nat /\ MaxStops \in Nat

VARIABLES
  today,      \* CURRENT_DATE
  rule,       \* recurring_rules: the life of each id
  active,     \* recurring_rules.active
  next,       \* recurring_rules.next_run_at
  last,       \* recurring_rules.last_run_at
  period,     \* recurring_rules.frequency and interval_count
  end,        \* recurring_rules.end_date
  runs,       \* recurring_rule_runs: the status of the row of a rule and date
  txns,       \* transactions_v2: the rows with a key recurring-<rule>-<date>
  payable,    \* the rule's accounts exist and have the money
  pc,         \* what each runner is about to do
  batch,      \* its copies of the due rules it has not finished
  cur,        \* the copy it is working on
  shown,      \* the transaction it has made or found
  made,       \* history: how many transactions a rule and date have ever had
  undone,     \* history: how many transactions their owner deleted
  planned,    \* history: the dates next_run_at has ever been
  edited,     \* history: the rules whose frequency was ever changed
  stops       \* history: the runs that were cut short

rows    == <<rule, active, next, last, period, end>>
runner  == <<pc, batch, cur, shown>>
history == <<made, undone, planned, edited>>
vars    == <<today, rows, runs, txns, payable, runner, history, stops>>

(* A rule as RunDue has it in memory.                                      *)
Copy == [rule : Rules, day : Dates, period : Periods, end : Ends]

(* A rule and a date: what a run is for, and what its key is made of.      *)
Keys == Rules \X Dates

(* A transaction, with the rule and the date it was made for.              *)
Txn == [of : Keys, key : Keys, id : Nat]

TypeOK ==
  /\ today \in Days
  /\ rule \in [Rules -> {"absent", "live", "deleted"}]
  /\ active \in [Rules -> BOOLEAN]
  /\ next \in [Rules -> Dates]
  /\ last \in [Rules -> Dates \cup {Null}]
  /\ period \in [Rules -> Periods]
  /\ end \in [Rules -> Ends]
  /\ runs \in [Keys -> {"none", "success", "failed"}]
  /\ txns \subseteq Txn
  /\ payable \in [Rules -> BOOLEAN]
  /\ pc \in [Runners -> {"idle", "lookup", "insert", "post", "enrich", "advance", "record"}]
  /\ batch \in [Runners -> SUBSET Copy]
  /\ cur \in [Runners -> Copy \cup {Null}]
  /\ shown \in [Runners -> Txn \cup {Null}]
  /\ made \in [Keys -> Nat]
  /\ undone \in Nat
  /\ planned \subseteq Keys
  /\ edited \subseteq Rules
  /\ stops \in Nat

(* The columns of a rule without a row hold nothing of interest.            *)
AnyPeriod == CHOOSE p \in Periods : TRUE
AnyEnd    == CHOOSE e \in Ends : TRUE

Init ==
  /\ today = 0
  /\ rule = [r \in Rules |-> "absent"]
  /\ active = [r \in Rules |-> FALSE]
  /\ next = [r \in Rules |-> 0]
  /\ last = [r \in Rules |-> Null]
  /\ period = [r \in Rules |-> AnyPeriod]
  /\ end = [r \in Rules |-> AnyEnd]
  /\ runs = [k \in Keys |-> "none"]
  /\ txns = {}
  /\ payable = [r \in Rules |-> TRUE]
  /\ pc = [n \in Runners |-> "idle"]
  /\ batch = [n \in Runners |-> {}]
  /\ cur = [n \in Runners |-> Null]
  /\ shown = [n \in Runners |-> Null]
  /\ made = [k \in Keys |-> 0]
  /\ undone = 0
  /\ planned = {}
  /\ edited = {}
  /\ stops = 0

-----------------------------------------------------------------------------
(* The owner of a rule *)

Live(r) == rule[r] = "live"

(* Create: next_run_at is the start date, which may lie in the past.       *)
CreateRule(r) ==
  /\ rule[r] = "absent"
  /\ rule' = [rule EXCEPT ![r] = "live"]
  /\ active' = [active EXCEPT ![r] = TRUE]
  /\ \E start \in Days, p \in Periods, e \in Ends :
       /\ next' = [next EXCEPT ![r] = start]
       /\ planned' = planned \cup {<<r, start>>}
       /\ period' = [period EXCEPT ![r] = p]
       /\ end' = [end EXCEPT ![r] = e]
  /\ UNCHANGED <<today, last, runs, txns, payable, runner, made, undone, edited, stops>>

(* Update sets the frequency and the dates but not next_run_at: whatever   *)
(* was due next still is.                                                  *)
UpdateRule(r) ==
  /\ Live(r)
  /\ \E p \in Periods, e \in Ends :
       /\ period' = [period EXCEPT ![r] = p]
       /\ end' = [end EXCEPT ![r] = e]
       /\ edited' = IF p = period[r] THEN edited ELSE edited \cup {r}
  /\ UNCHANGED <<today, rule, active, next, last, runs, txns, payable, runner, made,
                 undone, planned, stops>>

SetActive(r) ==
  /\ Live(r)
  /\ \E to \in BOOLEAN : active' = [active EXCEPT ![r] = to]
  /\ UNCHANGED <<today, rule, next, last, period, end, runs, txns, payable, runner,
                 history, stops>>

(* Delete, or the deletion of an account of the rule: the rows of its runs *)
(* go too, its transactions stay, and the runners keep their copies.       *)
DeleteRule(r) ==
  /\ Live(r)
  /\ rule' = [rule EXCEPT ![r] = "deleted"]
  /\ active' = [active EXCEPT ![r] = FALSE]
  /\ next' = [next EXCEPT ![r] = 0]
  /\ last' = [last EXCEPT ![r] = Null]
  /\ period' = [period EXCEPT ![r] = AnyPeriod]
  /\ end' = [end EXCEPT ![r] = AnyEnd]
  /\ payable' = [payable EXCEPT ![r] = TRUE]
  /\ runs' = [k \in Keys |-> IF k[1] = r THEN "none" ELSE runs[k]]
  /\ UNCHANGED <<today, txns, runner, history, stops>>

(* TransactionService.Delete, for a transaction some run has made.         *)
DeleteTransaction(t) ==
  /\ undone < MaxUndone
  /\ txns' = txns \ {t}
  /\ undone' = undone + 1
  /\ UNCHANGED <<today, rows, runs, payable, runner, made, planned, edited, stops>>

(* Money comes and goes on the accounts of a rule.                         *)
ChangeBalance(r) ==
  /\ Live(r)
  /\ payable' = [payable EXCEPT ![r] = ~@]
  /\ UNCHANGED <<today, rows, runs, txns, runner, history, stops>>

NextDay ==
  /\ today < LastDay
  /\ today' = today + 1
  /\ UNCHANGED <<rows, runs, txns, payable, runner, history, stops>>

-----------------------------------------------------------------------------
(* RunDue *)

(* Mutant: every active rule is due.                                       *)
AnyActive(r, day) == Live(r) /\ active[r]

(* What DueRules selects, less what RunDue skips because Go's date is not  *)
(* there yet.                                                              *)
Due(r, day) == Live(r) /\ active[r] /\ next[r] <= day

RunDue(n) ==
  /\ pc[n] = "idle"
  /\ \E b \in Behind :
       batch' = [batch EXCEPT ![n] =
         {[rule |-> r, day |-> next[r], period |-> period[r], end |-> end[r]] :
            r \in {q \in Rules : Due(q, today - b)}}]
  /\ batch'[n] # {}
  /\ pc' = [pc EXCEPT ![n] = "lookup"]
  /\ UNCHANGED <<today, rows, runs, txns, payable, cur, shown, history, stops>>

(* The runner has nothing more to do for its current rule.                 *)
Continue(n, rest) ==
  /\ pc' = [pc EXCEPT ![n] = IF rest = {} THEN "idle" ELSE "lookup"]
  /\ batch' = [batch EXCEPT ![n] = rest]
  /\ cur' = [cur EXCEPT ![n] = Null]
  /\ shown' = [shown EXCEPT ![n] = Null]

(* What a copy is to be run for: rule.ID and rule.NextRunAt.               *)
Date(c) == <<c.rule, c.day>>

(* Mutants: a key without the date, and one with the day of the run.       *)
KeyOfRule(c) == <<c.rule, 0>>

KeyOfToday(c) == <<c.rule, today>>

(* materialize: the key "recurring-<rule>-<date>".                         *)
Key(c) == <<c.rule, c.day>>

WithKey(k) == {t \in txns : t.key = k}

(* materialize, up to the idempotency lookup of the create.  The accounts  *)
(* of a deleted rule may be gone with it, those of another may not be its  *)
(* user's, and then requireAccount fails.                                  *)
Lookup(n) ==
  /\ pc[n] = "lookup"
  /\ \E c \in batch[n] :
       /\ \A d \in batch[n] : c.day <= d.day
       /\ cur' = [cur EXCEPT ![n] = c]
       /\ batch' = [batch EXCEPT ![n] = @ \ {c}]
       /\ \/ /\ ~Live(c.rule) \/ ~payable[c.rule]
             /\ pc' = [pc EXCEPT ![n] = "record"]
             /\ UNCHANGED shown
          \/ /\ WithKey(Key(c)) = {}
             /\ pc' = [pc EXCEPT ![n] = "insert"]
             /\ UNCHANGED shown
          \/ \E t \in WithKey(Key(c)) :
               /\ pc' = [pc EXCEPT ![n] = "enrich"]
               /\ shown' = [shown EXCEPT ![n] = t]
  /\ UNCHANGED <<today, rows, runs, txns, payable, history, stops>>

(* The row that m has inserted under n's key is not committed yet.         *)
RowWait(n, m) == pc[m] = "post" /\ Key(cur[m]) = Key(cur[n])

(* The INSERT of the transaction.  If a create with the key has committed  *)
(* since the lookup, this one replays it, or fails: on the unique          *)
(* constraint of the key's column, or since the winner has been deleted.   *)
Insert(n) ==
  /\ pc[n] = "insert"
  /\ \A m \in Runners \ {n} : ~RowWait(n, m)
  /\ LET found == WithKey(Key(cur[n]))
     IN  \/ /\ found = {}
            /\ pc' = [pc EXCEPT ![n] = "post"]
            /\ UNCHANGED shown
         \/ /\ \E w \in found : shown' = [shown EXCEPT ![n] = w]
            /\ pc' = [pc EXCEPT ![n] = "enrich"]
         \/ /\ found # {}
            /\ pc' = [pc EXCEPT ![n] = "record"]
            /\ UNCHANGED shown
  /\ UNCHANGED <<today, rows, runs, txns, payable, batch, cur, history, stops>>

(* The entries, the balances and the COMMIT, or a rollback.                *)
Post(n) ==
  /\ pc[n] = "post"
  /\ LET d == Date(cur[n])
         t == [of |-> d, key |-> Key(cur[n]), id |-> made[d]]
     IN  \/ /\ payable[cur[n].rule]
            /\ txns' = txns \cup {t}
            /\ made' = [made EXCEPT ![d] = @ + 1]
            /\ shown' = [shown EXCEPT ![n] = t]
            /\ pc' = [pc EXCEPT ![n] = "enrich"]
         \/ /\ ~(payable[cur[n].rule] /\ Live(cur[n].rule))
            /\ pc' = [pc EXCEPT ![n] = "record"]
            /\ UNCHANGED <<txns, made, shown>>
  /\ UNCHANGED <<today, rows, runs, payable, batch, cur, undone, planned, edited, stops>>

(* enrichTransactionDetail.  If the transaction has been deleted since the *)
(* commit, materialize dereferences a nil detail: the run ends there, and  *)
(* with it, if it is the scheduler's, the process.                         *)
Enrich(n) ==
  /\ pc[n] = "enrich"
  /\ \/ /\ shown[n] \in txns
        /\ pc' = [pc EXCEPT ![n] = "advance"]
        /\ UNCHANGED <<batch, cur, shown>>
     \/ /\ shown[n] \notin txns
        /\ Continue(n, {})
  /\ UNCHANGED <<today, rows, runs, txns, payable, history, stops>>

(* Mutant: advances once more for the date that was run.                   *)
AdvanceTwice(c) == c.day + 2 * c.period

(* advanceDate: the next date, and whether the rule has come to its end.   *)
AdvanceDate(c) == c.day + c.period

Done(c) == c.end # Null /\ AdvanceDate(c) > c.end

(* Mutant: active is written, not kept.                                    *)
ActiveIfNotDone(c) == ~Done(c)

(* CASE WHEN done THEN false ELSE active END                               *)
ActiveAfter(c) == IF Done(c) THEN FALSE ELSE active[c.rule]

(* The foreign keys of the row of recurring_rule_runs.                     *)
RunRowFits(n) == Live(cur[n].rule) /\ shown[n] \in txns

(* AdvanceRun, one database transaction.  The INSERT does nothing if the   *)
(* date has its row, whatever that says; the UPDATE is made from the copy. *)
AdvanceRun(n) ==
  /\ pc[n] = "advance"
  /\ LET c == cur[n]
         k == Date(c)
     IN  \/ /\ runs[k] = "none" /\ ~RunRowFits(n)
            /\ UNCHANGED <<rows, runs, planned>>
         \/ /\ runs[k] # "none" \/ RunRowFits(n)
            /\ runs' = [runs EXCEPT ![k] = IF @ = "none" THEN "success" ELSE @]
            /\ last' = [last EXCEPT ![c.rule] = c.day]
            /\ next' = [next EXCEPT ![c.rule] = AdvanceDate(c)]
            /\ planned' = planned \cup {<<c.rule, AdvanceDate(c)>>}
            /\ active' = [active EXCEPT ![c.rule] = ActiveAfter(c)]
            /\ UNCHANGED <<rule, period, end>>
  /\ Continue(n, batch[n])
  /\ UNCHANGED <<today, txns, payable, made, undone, edited, stops>>

(* Mutant: return instead of continue.                                     *)
GiveUp(n) == {}

(* The rules a run still has to do after one of them failed.               *)
Remaining(n) == batch[n]

(* RecordRunFailure, whose own failure is ignored.                         *)
RecordRunFailure(n) ==
  /\ pc[n] = "record"
  /\ LET k == Date(cur[n])
     IN  runs' = IF Live(cur[n].rule) /\ runs[k] = "none"
                 THEN [runs EXCEPT ![k] = "failed"]
                 ELSE runs
  /\ Continue(n, Remaining(n))
  /\ UNCHANGED <<today, rows, txns, payable, history, stops>>

(* The process stops, or the context of the run is cancelled: the run ends *)
(* between two statements, an open transaction is rolled back, and nothing *)
(* is recorded.                                                            *)
Stop(n) ==
  /\ pc[n] # "idle"
  /\ stops < MaxStops
  /\ stops' = stops + 1
  /\ Continue(n, {})
  /\ UNCHANGED <<today, rows, runs, txns, payable, history>>

Step(n) ==
  \/ Lookup(n) \/ Insert(n) \/ Post(n) \/ Enrich(n)
  \/ AdvanceRun(n) \/ RecordRunFailure(n)

Next ==
  \/ \E r \in Rules : \/ CreateRule(r) \/ UpdateRule(r) \/ SetActive(r) \/ DeleteRule(r)
                      \/ ChangeBalance(r)
  \/ \E t \in txns : DeleteTransaction(t)
  \/ \E n \in Runners : RunDue(n) \/ Step(n) \/ Stop(n)
  \/ NextDay

Spec == Init /\ [][Next]_vars

-----------------------------------------------------------------------------
(* Safety *)

(* However many runners work on stale copies of a rule, race from lookup to*)
(* commit, are cut short before they record a date or come to it again on a*)
(* later day, a date of a rule never has two transactions at a time.       *)
OnePerDate == \A t, u \in txns : t.of = u.of => t = u

(* next_run_at passes a date only after its transaction has been made, even*)
(* when a slow runner moves it back or forth from an old copy.  A change of*)
(* the frequency during a run may make the run skip a date.                *)
NothingSkipped ==
  \A k \in planned :
    Live(k[1]) /\ k[1] \notin edited /\ k[2] < next[k[1]] => made[k] > 0

(* No transaction is made for a date that has not come, although RunDue    *)
(* works from copies and AdvanceRun may set a date in the future.          *)
NeverEarly == \A k \in Keys : made[k] > 0 => k[2] <= today

(* A date recorded as a success, or as the rule's last run, has had its    *)
(* transaction made.                                                       *)
RecordsAreTrue ==
  /\ \A k \in Keys : runs[k] = "success" => made[k] > 0
  /\ \A r \in Rules : last[r] # Null => made[<<r, last[r]>>] > 0

(* A run in progress never switches a rule back on that its owner has      *)
(* switched off, or that another run has brought to its end.               *)
PauseSticks ==
  [][\A r \in Rules : rule[r] = "live" /\ ~active[r] /\ active'[r] =>
       UNCHANGED <<next, last, runs, runner>>]_vars

-----------------------------------------------------------------------------
(* What a comment says and the code does not do *)

(* "Safe to run multiple replicas of the app - the recurring_rule_runs     *)
(* unique index (rule_id, ran_for_date) prevents double-firing"            *)
(* (cmd/api/main.go): a date fires once.                                   *)
FiresOnce == \A k \in Keys : made[k] <= 1

-----------------------------------------------------------------------------
(* Liveness *)

(* The schedulers' tickers go on, and so does a run that has begun.  No    *)
(* owner and no client has to do anything.                                 *)
Fairness ==
  /\ \A n \in Hourly : WF_vars(RunDue(n))
  /\ \A n \in Runners : WF_vars(Step(n))

FairSpec == Spec /\ Fairness

(* A rule that is due, and can be paid, is run and moves past the date,    *)
(* unless its owner intervenes: no failure, retry or other rule blocks it. *)
DueRuleRuns ==
  \A r \in Rules : \A d \in Days :
    (Due(r, today) /\ next[r] = d)
      ~> (next[r] > d \/ ~Live(r) \/ ~active[r] \/ ~payable[r] \/ r \in edited)
=============================================================================
