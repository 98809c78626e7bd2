--------------------------- MODULE RecurringProofs ---------------------------
(***************************************************************************)
(* What runs on stale copies of a rule keep true, for any number of rules  *)
(* and runners and any bounds.                                             *)
(***************************************************************************)
EXTENDS Recurring, TLAPS

Working == {"insert", "post", "enrich", "advance", "record"}
Showing == {"enrich", "advance"}

(* A runner that works has a copy, of a date that has come, and one that   *)
(* shows a transaction has it: that of its copy's key.                     *)
InHand(n) ==
  /\ \A c \in batch[n] : c.day <= today
  /\ pc[n] \in Working => cur[n] \in Copy /\ cur[n].day <= today
  /\ pc[n] \in Showing => shown[n] \in Txn /\ shown[n].key = Key(cur[n])

TypeInv == TypeOK /\ \A n \in Runners : InHand(n)

(* A copy is of a date that was once the rule's next one, and while nobody *)
(* has changed the rule it has the rule's period.                          *)
CopyTrue(c) ==
  /\ <<c.rule, c.day>> \in planned
  /\ rule[c.rule] # "absent"
  /\ Live(c.rule) /\ c.rule \notin edited => c.period = period[c.rule]

Held(n) == batch[n] \cup {c \in {cur[n]} : pc[n] \in Working}

CopiesTrue == \A n \in Runners : \A c \in Held(n) : CopyTrue(c)

(* Whatever is shown or stored has been made, and what is stored has the   *)
(* key of the date it was made for.                                        *)
MadeTrue ==
  /\ \A t \in txns : t.key = t.of /\ made[t.of] > 0
  /\ \A n \in Runners : pc[n] \in Showing => made[Date(cur[n])] > 0

(* Between its INSERT and its COMMIT a create is the only one with its key,*)
(* committed or not.                                                       *)
AloneToPost ==
  \A n \in Runners : pc[n] = "post" =>
    /\ WithKey(Key(cur[n])) = {}
    /\ \A m \in Runners : RowWait(n, m) => m = n

(* Run rows go with their rule, and a rule that is not there yet has no    *)
(* dates.                                                                  *)
RowsOfRules ==
  /\ \A k \in Keys : ~Live(k[1]) => runs[k] = "none"
  /\ \A k \in planned : rule[k[1]] # "absent"
  /\ \A r \in Rules : Live(r) => <<r, next[r]>> \in planned

(* The dates a rule with one period has ever had as its next one form a    *)
(* chain: after each but the last comes the one a period later, and its    *)
(* transaction has been made.                                              *)
Chained(r, d, e) ==
  /\ made[<<r, d>>] > 0
  /\ <<r, d + period[r]>> \in planned
  /\ d + period[r] <= e

Chain ==
  \A r \in Rules : \A d, e \in Dates :
    /\ Live(r) /\ r \notin edited
    /\ <<r, d>> \in planned /\ <<r, e>> \in planned
    /\ d < e
    => Chained(r, d, e)

RunsInv ==
  /\ TypeInv
  /\ MadeTrue
  /\ AloneToPost
  /\ OnePerDate
  /\ NeverEarly
  /\ RecordsAreTrue
  /\ CopiesTrue
  /\ RowsOfRules
  /\ Chain

-----------------------------------------------------------------------------
(* Types *)

USE CalendarAssumption

LEMMA AnyColumns == AnyPeriod \in Periods /\ AnyEnd \in Ends
  BY DEF AnyPeriod, AnyEnd

LEMMA TypeInit == Init => TypeInv
  BY AnyColumns DEF Init, TypeInv, TypeOK, InHand, Working, Showing, Days, Dates, Keys

(* What an owner or the clock does leaves the runners alone.               *)
LEMMA InHandKept ==
  ASSUME TypeInv, UNCHANGED runner, today' \in Days, today <= today'
  PROVE  \A n \in Runners : InHand(n)'
<1> SUFFICES ASSUME NEW n \in Runners PROVE InHand(n)'
  OBVIOUS
<1>1. batch[n] \subseteq Copy /\ today \in Int /\ today' \in Int
  BY DEF TypeInv, TypeOK, Days
<1>2. \A c \in Copy : c.day \in Int
  BY DEF Copy, Dates
<1>. QED
  BY <1>1, <1>2 DEF TypeInv, InHand, runner, Key

LEMMA TypeOwner ==
  ASSUME TypeInv, NEW r \in Rules,
         CreateRule(r) \/ UpdateRule(r) \/ SetActive(r) \/ DeleteRule(r) \/ ChangeBalance(r)
  PROVE  TypeInv'
<1>1. TypeOK'
  <2> USE DEF TypeInv, TypeOK, rows, runner, history, Days, Dates
  <2>1. CASE CreateRule(r)
    BY <2>1 DEF CreateRule, Keys
  <2>2. CASE UpdateRule(r)
    BY <2>2 DEF UpdateRule
  <2>3. CASE SetActive(r)
    BY <2>3 DEF SetActive
  <2>4. CASE DeleteRule(r)
    BY <2>4, AnyColumns DEF DeleteRule
  <2>5. CASE ChangeBalance(r)
    BY <2>5 DEF ChangeBalance
  <2>. QED
    BY <2>1, <2>2, <2>3, <2>4, <2>5
<1>2. UNCHANGED runner /\ today' = today
  BY DEF CreateRule, UpdateRule, SetActive, DeleteRule, ChangeBalance
<1>. QED
  BY <1>1, <1>2, InHandKept DEF TypeInv, TypeOK, Days

LEMMA TypeOthers ==
  ASSUME TypeInv, (\E t \in txns : DeleteTransaction(t)) \/ NextDay
  PROVE  TypeInv'
<1>1. TypeOK'
  <2> USE DEF TypeInv, TypeOK, rows, runner, history, Days, Dates
  <2>1. CASE \E t \in txns : DeleteTransaction(t)
    BY <2>1 DEF DeleteTransaction
  <2>2. CASE NextDay
    BY <2>2 DEF NextDay
  <2>. QED
    BY <2>1, <2>2
<1>2. UNCHANGED runner /\ today <= today'
  BY DEF DeleteTransaction, NextDay, TypeInv, TypeOK, Days
<1>. QED
  BY <1>1, <1>2, InHandKept DEF TypeInv, TypeOK

(* The copies that one statement reads.                                    *)
CopyOf(r) == [rule |-> r, day |-> next[r], period |-> period[r], end |-> end[r]]

LEMMA Batch ==
  ASSUME TypeInv, NEW n \in Runners, RunDue(n)
  PROVE  \E due \in SUBSET Rules :
           /\ batch' = [batch EXCEPT ![n] = {CopyOf(r) : r \in due}]
           /\ \A r \in due : Live(r) /\ next[r] <= today
<1>1. PICK b \in Behind :
        batch' = [batch EXCEPT ![n] =
          {CopyOf(r) : r \in {q \in Rules : Due(q, today - b)}}]
  BY DEF RunDue, CopyOf
<1> DEFINE due == {q \in Rules : Due(q, today - b)}
<1>2. ASSUME NEW r \in Rules, Due(r, today - b)
      PROVE  Live(r) /\ next[r] <= today
  BY <1>2 DEF Due, TypeInv, TypeOK, Days, Dates
<1>3. due \in SUBSET Rules /\ \A r \in due : Live(r) /\ next[r] <= today
  BY <1>2
<1>4. batch' = [batch EXCEPT ![n] = {CopyOf(r) : r \in due}]
  BY <1>1
<1> HIDE DEF due
<1>. QED
  BY <1>3, <1>4

LEMMA TypeRunDue ==
  ASSUME TypeInv, NEW n \in Runners, RunDue(n)
  PROVE  TypeInv'
<1>1. PICK due \in SUBSET Rules :
        /\ batch' = [batch EXCEPT ![n] = {CopyOf(r) : r \in due}]
        /\ \A r \in due : Live(r) /\ next[r] <= today
  BY Batch
<1>2. \A r \in due : CopyOf(r) \in Copy /\ CopyOf(r).day <= today
  BY <1>1 DEF CopyOf, Copy, TypeInv, TypeOK
<1>3. batch' \in [Runners -> SUBSET Copy]
  BY <1>1, <1>2 DEF TypeInv, TypeOK
<1>4. TypeOK'
  BY <1>3 DEF TypeInv, TypeOK, RunDue, rows, history
<1>5. ASSUME NEW m \in Runners
      PROVE  InHand(m)'
  <2>1. \A c \in batch'[m] : c.day <= today
    BY <1>1, <1>2 DEF TypeInv, TypeOK, InHand
  <2>. QED
    BY <2>1 DEF RunDue, TypeInv, TypeOK, InHand, Working, Showing, Key
<1>. QED
  BY <1>4, <1>5 DEF TypeInv

(* A runner that goes on to the next copy of its batch, or to nothing.     *)
LEMMA TypeContinue ==
  ASSUME TypeInv, NEW n \in Runners, NEW rest \in SUBSET batch[n], Continue(n, rest),
         today' = today
  PROVE  /\ pc' \in [Runners -> {"idle", "lookup", "insert", "post", "enrich", "advance", "record"}]
         /\ batch' \in [Runners -> SUBSET Copy]
         /\ cur' \in [Runners -> Copy \cup {Null}]
         /\ shown' \in [Runners -> Txn \cup {Null}]
         /\ \A m \in Runners : InHand(m)'
<1> USE DEF Continue, TypeInv, TypeOK
<1>1. rest \in SUBSET Copy
  OBVIOUS
<1>2. ASSUME NEW m \in Runners
      PROVE  InHand(m)'
  BY <1>1 DEF InHand, Working, Showing, Key
<1>. QED
  BY <1>1, <1>2

(* A runner that moves on with the copy it has: the others are as they     *)
(* were.                                                                   *)
LEMMA InHandMoved ==
  ASSUME TypeInv, NEW n \in Runners, UNCHANGED <<batch, cur, today>>,
         NEW p, pc' = [pc EXCEPT ![n] = p], cur[n] \in Copy, cur[n].day <= today,
         \/ UNCHANGED shown /\ p \notin Showing
         \/ \E t \in Txn : shown' = [shown EXCEPT ![n] = t] /\ t.key = Key(cur[n])
         \/ UNCHANGED shown /\ pc[n] \in Showing
  PROVE  \A m \in Runners : InHand(m)'
<1> SUFFICES ASSUME NEW m \in Runners PROVE InHand(m)'
  OBVIOUS
<1>1. InHand(m) /\ InHand(n)
  BY DEF TypeInv
<1>2. CASE m = n
  BY <1>1, <1>2 DEF TypeInv, TypeOK, InHand, Key
<1>3. CASE m # n
  BY <1>1, <1>3 DEF TypeInv, TypeOK, InHand, Key
<1>. QED
  BY <1>2, <1>3

LEMMA TypeLookup ==
  ASSUME TypeInv, NEW n \in Runners, Lookup(n)
  PROVE  TypeInv'
<1>1. PICK c \in batch[n] :
        /\ cur' = [cur EXCEPT ![n] = c]
        /\ batch' = [batch EXCEPT ![n] = @ \ {c}]
        /\ \/ pc' = [pc EXCEPT ![n] = "record"] /\ UNCHANGED shown
           \/ pc' = [pc EXCEPT ![n] = "insert"] /\ UNCHANGED shown
           \/ \E t \in WithKey(Key(c)) :
                /\ pc' = [pc EXCEPT ![n] = "enrich"]
                /\ shown' = [shown EXCEPT ![n] = t]
  BY DEF Lookup
<1>2. c \in Copy /\ c.day <= today
  BY DEF TypeInv, TypeOK, InHand
<1>3. \A t \in WithKey(Key(c)) : t \in Txn /\ t.key = Key(c)
  BY DEF WithKey, TypeInv, TypeOK
<1>4. TypeOK'
  BY <1>1, <1>2, <1>3 DEF TypeInv, TypeOK, Lookup, rows, history
<1>5. ASSUME NEW m \in Runners
      PROVE  InHand(m)'
  <2>1. CASE m = n
    BY <1>1, <1>2, <1>3, <2>1 DEF TypeInv, TypeOK, InHand, Working, Showing, Key, Lookup
  <2>2. CASE m # n
    BY <1>1, <2>2 DEF TypeInv, TypeOK, InHand, Key, Lookup
  <2>. QED
    BY <2>1, <2>2
<1>. QED
  BY <1>4, <1>5 DEF TypeInv

LEMMA KeyTyped ==
  ASSUME TypeInv, NEW n \in Runners, pc[n] \in Working
  PROVE  /\ cur[n] \in Copy /\ cur[n].day <= today
         /\ Key(cur[n]) \in Keys /\ Date(cur[n]) \in Keys
         /\ AdvanceDate(cur[n]) \in Dates
<1>1. cur[n] \in Copy /\ cur[n].day <= today
  BY DEF TypeInv, InHand
<1>2. cur[n].day \in 0..LastDay
  BY <1>1 DEF Copy, Dates, TypeInv, TypeOK, Days
<1>3. Key(cur[n]) \in Keys /\ Date(cur[n]) \in Keys
  BY <1>1 DEF Copy, Keys, Key, Date
<1>4. cur[n].period \in 1..LastDay + 1
  BY <1>1 DEF Copy
<1>5. AdvanceDate(cur[n]) \in Dates
  BY <1>2, <1>4 DEF AdvanceDate, Dates
<1>. QED
  BY <1>1, <1>3, <1>5

LEMMA TypeInsert ==
  ASSUME TypeInv, NEW n \in Runners, Insert(n)
  PROVE  TypeInv'
<1> DEFINE k == Key(cur[n])
<1>1. cur[n] \in Copy /\ cur[n].day <= today
  BY KeyTyped DEF Insert, Working
<1>2. \A w \in WithKey(k) : w \in Txn /\ w.key = k
  BY DEF WithKey, TypeInv, TypeOK
<1>3. TypeOK'
  BY <1>2 DEF TypeInv, TypeOK, Insert, rows, history
<1>4. \A m \in Runners : InHand(m)'
  BY <1>1, <1>2, InHandMoved DEF Insert, Showing
<1>. QED
  BY <1>3, <1>4 DEF TypeInv

(* The transaction a run stores.                                           *)
Stored(n) == [of |-> Date(cur[n]), key |-> Key(cur[n]), id |-> made[Date(cur[n])]]

LEMMA StoredTyped ==
  ASSUME TypeInv, NEW n \in Runners, pc[n] \in Working
  PROVE  Stored(n) \in Txn /\ Stored(n).key = Key(cur[n]) /\ Stored(n).of = Date(cur[n])
<1>1. Key(cur[n]) \in Keys /\ Date(cur[n]) \in Keys
  BY KeyTyped
<1>2. made[Date(cur[n])] \in Nat
  BY <1>1 DEF TypeInv, TypeOK
<1>. QED
  BY <1>1, <1>2 DEF Stored, Txn

LEMMA TypePost ==
  ASSUME TypeInv, NEW n \in Runners, Post(n)
  PROVE  TypeInv'
<1>1. pc[n] \in Working
  BY DEF Post, Working
<1>2. cur[n] \in Copy /\ cur[n].day <= today /\ Date(cur[n]) \in Keys
  BY <1>1, KeyTyped
<1>3. Stored(n) \in Txn /\ Stored(n).key = Key(cur[n])
  BY <1>1, StoredTyped
<1>4. CASE /\ txns' = txns \cup {Stored(n)}
           /\ made' = [made EXCEPT ![Date(cur[n])] = @ + 1]
           /\ shown' = [shown EXCEPT ![n] = Stored(n)]
           /\ pc' = [pc EXCEPT ![n] = "enrich"]
  <2>1. TypeOK'
    BY <1>2, <1>3, <1>4 DEF TypeInv, TypeOK, Post, rows
  <2>2. \A m \in Runners : InHand(m)'
    BY <1>2, <1>3, <1>4, InHandMoved DEF Post
  <2>. QED
    BY <2>1, <2>2 DEF TypeInv
<1>5. CASE pc' = [pc EXCEPT ![n] = "record"] /\ UNCHANGED <<txns, made, shown>>
  <2>1. TypeOK'
    BY <1>5 DEF TypeInv, TypeOK, Post, rows
  <2>2. \A m \in Runners : InHand(m)'
    BY <1>2, <1>5, InHandMoved DEF Post, Showing
  <2>. QED
    BY <2>1, <2>2 DEF TypeInv
<1>. QED
  BY <1>4, <1>5 DEF Post, Stored

LEMMA TypeEnrich ==
  ASSUME TypeInv, NEW n \in Runners, Enrich(n)
  PROVE  TypeInv'
<1>1. CASE /\ shown[n] \in txns
           /\ pc' = [pc EXCEPT ![n] = "advance"]
           /\ UNCHANGED <<batch, cur, shown>>
  <2>1. pc[n] \in Working /\ pc[n] \in Showing
    BY DEF Enrich, Working, Showing
  <2>2. \A m \in Runners : InHand(m)'
    BY <1>1, <2>1, KeyTyped, InHandMoved DEF Enrich
  <2>3. TypeOK'
    BY <1>1 DEF Enrich, TypeInv, TypeOK, rows, history
  <2>. QED
    BY <2>2, <2>3 DEF TypeInv
<1>2. CASE Continue(n, {})
  <2>1. {} \in SUBSET batch[n]
    OBVIOUS
  <2>. QED
    BY <1>2, <2>1, TypeContinue DEF Enrich, TypeInv, TypeOK, rows, history
<1>. QED
  BY <1>1, <1>2 DEF Enrich

LEMMA TypeAdvanceRun ==
  ASSUME TypeInv, NEW n \in Runners, AdvanceRun(n)
  PROVE  TypeInv'
<1>1. /\ pc' \in [Runners -> {"idle", "lookup", "insert", "post", "enrich", "advance", "record"}]
      /\ batch' \in [Runners -> SUBSET Copy]
      /\ cur' \in [Runners -> Copy \cup {Null}]
      /\ shown' \in [Runners -> Txn \cup {Null}]
      /\ \A m \in Runners : InHand(m)'
  BY TypeContinue DEF AdvanceRun
<1>2. /\ cur[n] \in Copy /\ Date(cur[n]) \in Keys
      /\ AdvanceDate(cur[n]) \in Dates
  BY KeyTyped DEF AdvanceRun, Working
<1>3. /\ cur[n].rule \in Rules /\ cur[n].day \in Dates
      /\ <<cur[n].rule, AdvanceDate(cur[n])>> \in Keys
  BY <1>2 DEF Copy, Keys
<1>4. ActiveAfter(cur[n]) \in BOOLEAN
  <2>1. CASE Done(cur[n])
    BY <2>1 DEF ActiveAfter
  <2>2. CASE ~Done(cur[n])
    BY <1>3, <2>2 DEF ActiveAfter, TypeInv, TypeOK
  <2>. QED
    BY <2>1, <2>2
<1>5. TypeOK'
  <2> USE DEF TypeInv, TypeOK, rows
  <2>1. CASE UNCHANGED <<rows, runs, planned>>
    BY <1>1, <2>1 DEF AdvanceRun
  <2>2. CASE /\ runs' = [runs EXCEPT ![Date(cur[n])] = IF @ = "none" THEN "success" ELSE @]
             /\ last' = [last EXCEPT ![cur[n].rule] = cur[n].day]
             /\ next' = [next EXCEPT ![cur[n].rule] = AdvanceDate(cur[n])]
             /\ planned' = planned \cup {<<cur[n].rule, AdvanceDate(cur[n])>>}
             /\ active' = [active EXCEPT ![cur[n].rule] = ActiveAfter(cur[n])]
             /\ UNCHANGED <<rule, period, end>>
    <3>1. planned' \subseteq Keys
      BY <1>3, <2>2
    <3>2. runs' \in [Keys -> {"none", "success", "failed"}]
      BY <1>2, <2>2
    <3>. QED
      BY <1>1, <1>2, <1>3, <1>4, <2>2, <3>1, <3>2 DEF AdvanceRun
  <2>. QED
    BY <2>1, <2>2 DEF AdvanceRun
<1>. QED
  BY <1>1, <1>5 DEF TypeInv

LEMMA TypeRecordRunFailure ==
  ASSUME TypeInv, NEW n \in Runners, RecordRunFailure(n)
  PROVE  TypeInv'
<1>1. /\ pc' \in [Runners -> {"idle", "lookup", "insert", "post", "enrich", "advance", "record"}]
      /\ batch' \in [Runners -> SUBSET Copy]
      /\ cur' \in [Runners -> Copy \cup {Null}]
      /\ shown' \in [Runners -> Txn \cup {Null}]
      /\ \A m \in Runners : InHand(m)'
  BY TypeContinue DEF RecordRunFailure, Remaining
<1>. QED
  BY <1>1 DEF RecordRunFailure, TypeInv, TypeOK, rows, history

LEMMA TypeStop ==
  ASSUME TypeInv, NEW n \in Runners, Stop(n)
  PROVE  TypeInv'
<1>1. /\ pc' \in [Runners -> {"idle", "lookup", "insert", "post", "enrich", "advance", "record"}]
      /\ batch' \in [Runners -> SUBSET Copy]
      /\ cur' \in [Runners -> Copy \cup {Null}]
      /\ shown' \in [Runners -> Txn \cup {Null}]
      /\ \A m \in Runners : InHand(m)'
  BY TypeContinue DEF Stop
<1>. QED
  BY <1>1 DEF Stop, TypeInv, TypeOK, rows, history

LEMMA TypeStutter ==
  ASSUME TypeInv, UNCHANGED vars
  PROVE  TypeInv'
<1>1. \A n \in Runners : InHand(n)'
  BY InHandKept DEF vars, TypeInv, TypeOK, Days
<1>. QED
  BY <1>1 DEF TypeInv, TypeOK, vars, rows, runner, history

LEMMA TypeNext == TypeInv /\ [Next]_vars => TypeInv'
<1> SUFFICES ASSUME TypeInv, [Next]_vars PROVE TypeInv'
  OBVIOUS
<1>1. ASSUME NEW n \in Runners, RunDue(n) \/ Step(n) \/ Stop(n)
      PROVE  TypeInv'
  BY <1>1, TypeRunDue, TypeLookup, TypeInsert, TypePost, TypeEnrich, TypeAdvanceRun,
     TypeRecordRunFailure, TypeStop DEF Step
<1>. QED
  BY <1>1, TypeOwner, TypeOthers, TypeStutter DEF Next

(* Every variable of Recurring keeps its type, whatever owners, runners    *)
(* and the clock do.                                                       *)
THEOREM RulesTyped == Spec => []TypeOK
<1>1. TypeInv => TypeOK
  BY DEF TypeInv
<1>. QED
  BY <1>1, TypeInit, TypeNext, PTL DEF Spec

-----------------------------------------------------------------------------
(* What has been made *)

MadeInv ==
  TypeInv /\ MadeTrue /\ AloneToPost /\ OnePerDate /\ NeverEarly /\ RecordsAreTrue

LEMMA MadeInit == Init => MadeInv
<1> SUFFICES ASSUME Init PROVE MadeInv
  OBVIOUS
<1>1. MadeTrue /\ AloneToPost /\ OnePerDate /\ NeverEarly
  BY DEF Init, MadeTrue, AloneToPost, OnePerDate, NeverEarly, Showing, Keys
<1>2. RecordsAreTrue
  BY DEF Init, RecordsAreTrue, Keys
<1>. QED
  BY <1>1, <1>2, TypeInit DEF MadeInv

(* A step that makes no transaction.                                       *)
LEMMA NothingMade ==
  ASSUME MadeInv, TypeInv', made' = made, txns' \subseteq txns, today <= today',
         \A n \in Runners : pc'[n] \in Showing =>
           made[Date(cur'[n])] > 0,
         \A n \in Runners : pc'[n] = "post" => pc[n] = "post" /\ cur'[n] = cur[n]
  PROVE  MadeTrue' /\ AloneToPost' /\ OnePerDate' /\ NeverEarly'
<1>1. MadeTrue'
  BY DEF MadeInv, MadeTrue, Date
<1>2. AloneToPost'
  <2> SUFFICES ASSUME NEW n \in Runners, pc'[n] = "post"
               PROVE  /\ WithKey(Key(cur[n]))' = {}
                      /\ \A m \in Runners : RowWait(n, m)' => m = n
    BY DEF AloneToPost
  <2>1. pc[n] = "post" /\ cur'[n] = cur[n] /\ WithKey(Key(cur[n])) = {}
    BY DEF MadeInv, AloneToPost
  <2>2. WithKey(Key(cur[n]))' = {}
    BY <2>1 DEF WithKey, Key
  <2>3. \A m \in Runners : RowWait(n, m)' => m = n
    BY <2>1 DEF MadeInv, AloneToPost, RowWait, Key
  <2>. QED
    BY <2>2, <2>3
<1>3. OnePerDate'
  BY DEF MadeInv, OnePerDate
<1>4. NeverEarly'
  <2> SUFFICES ASSUME NEW k \in Keys, made'[k] > 0 PROVE k[2] <= today'
    BY DEF NeverEarly
  <2>1. k[2] <= today /\ k[2] \in Int
    BY DEF MadeInv, NeverEarly, Keys, Dates
  <2>. QED
    BY <2>1 DEF MadeInv, TypeInv, TypeOK, Days
<1>. QED
  BY <1>1, <1>2, <1>3, <1>4

(* Records stay true as long as they stay, or go, and nothing made is      *)
(* forgotten.                                                              *)
LEMMA RecordsKept ==
  ASSUME MadeInv, TypeInv',
         \A k \in Keys : made[k] > 0 => made'[k] > 0,
         \A k \in Keys : runs'[k] = "success" => runs[k] = "success" \/ made[k] > 0,
         \A r \in Rules : last'[r] # Null => last'[r] = last[r] \/ made[<<r, last'[r]>>] > 0
  PROVE  RecordsAreTrue'
<1>1. ASSUME NEW k \in Keys, runs'[k] = "success"
      PROVE  made'[k] > 0
  BY <1>1 DEF MadeInv, RecordsAreTrue
<1>2. ASSUME NEW r \in Rules, last'[r] # Null
      PROVE  made'[<<r, last'[r]>>] > 0
  <2>1. last'[r] \in Dates
    BY <1>2 DEF TypeInv, TypeOK
  <2>2. <<r, last'[r]>> \in Keys
    BY <2>1 DEF Keys
  <2>3. made[<<r, last'[r]>>] > 0
    BY <1>2 DEF MadeInv, RecordsAreTrue
  <2>. QED
    BY <2>2, <2>3
<1>. QED
  BY <1>1, <1>2 DEF RecordsAreTrue

LEMMA MadeOwner ==
  ASSUME MadeInv, TypeInv', NEW r \in Rules,
         CreateRule(r) \/ UpdateRule(r) \/ SetActive(r) \/ DeleteRule(r) \/ ChangeBalance(r)
  PROVE  MadeInv'
<1>1. UNCHANGED <<made, txns, today, runner>>
  BY DEF CreateRule, UpdateRule, SetActive, DeleteRule, ChangeBalance, history
<1>2. MadeTrue' /\ AloneToPost' /\ OnePerDate' /\ NeverEarly'
  BY <1>1, NothingMade DEF MadeInv, MadeTrue, runner, TypeInv, TypeOK, Days
<1>3. \A k \in Keys : runs'[k] = runs[k] \/ runs'[k] = "none"
  BY DEF CreateRule, UpdateRule, SetActive, DeleteRule, ChangeBalance
<1>4. \A q \in Rules : last'[q] = last[q] \/ last'[q] = Null
  BY DEF CreateRule, UpdateRule, SetActive, DeleteRule, ChangeBalance, rows, MadeInv,
         TypeInv, TypeOK
<1>5. RecordsAreTrue'
  BY <1>1, <1>3, <1>4, RecordsKept
<1>. QED
  BY <1>2, <1>5 DEF MadeInv

LEMMA MadeOthers ==
  ASSUME MadeInv, TypeInv',
         (\E t \in txns : DeleteTransaction(t)) \/ NextDay \/ UNCHANGED vars
  PROVE  MadeInv'
<1>1. UNCHANGED <<made, runner, runs, last>> /\ txns' \subseteq txns /\ today <= today'
  BY DEF DeleteTransaction, NextDay, vars, history, rows, MadeInv, TypeInv, TypeOK, Days
<1>2. MadeTrue' /\ AloneToPost' /\ OnePerDate' /\ NeverEarly'
  BY <1>1, NothingMade DEF MadeInv, MadeTrue, runner
<1>3. RecordsAreTrue'
  BY <1>1, RecordsKept
<1>. QED
  BY <1>2, <1>3 DEF MadeInv

(* A runner that starts, goes on to its next copy or stops shows nothing.  *)
LEMMA MadeIdle ==
  ASSUME MadeInv, TypeInv', NEW n \in Runners, UNCHANGED <<made, txns, today>>,
         \/ Continue(n, {}) \/ Continue(n, batch[n]) \/ RunDue(n)
  PROVE  MadeTrue' /\ AloneToPost' /\ OnePerDate' /\ NeverEarly'
<1>1. ASSUME NEW m \in Runners, pc'[m] \in Showing
      PROVE  made[Date(cur'[m])] > 0
  <2>1. m # n
    BY <1>1 DEF Continue, RunDue, Showing, MadeInv, TypeInv, TypeOK
  <2>2. pc'[m] = pc[m] /\ cur'[m] = cur[m]
    BY <2>1 DEF Continue, RunDue, MadeInv, TypeInv, TypeOK
  <2>. QED
    BY <1>1, <2>2 DEF MadeInv, MadeTrue
<1>2. \A m \in Runners : pc'[m] = "post" => pc[m] = "post" /\ cur'[m] = cur[m]
  BY DEF Continue, RunDue, MadeInv, TypeInv, TypeOK
<1>. QED
  BY <1>1, <1>2, NothingMade DEF MadeInv, TypeInv, TypeOK, Days

LEMMA MadeLookup ==
  ASSUME MadeInv, TypeInv', NEW n \in Runners, Lookup(n)
  PROVE  MadeInv'
<1>1. UNCHANGED <<made, txns, today, runs, last>>
  BY DEF Lookup, rows, history
<1>2. PICK c \in batch[n] :
        /\ cur' = [cur EXCEPT ![n] = c]
        /\ \/ pc' = [pc EXCEPT ![n] = "record"]
           \/ pc' = [pc EXCEPT ![n] = "insert"]
           \/ \E t \in WithKey(Key(c)) : pc' = [pc EXCEPT ![n] = "enrich"]
  BY DEF Lookup
<1>3. ASSUME NEW m \in Runners, pc'[m] \in Showing
      PROVE  made[Date(cur'[m])] > 0
  <2>1. CASE m = n
    <3>1. PICK t \in WithKey(Key(c)) : TRUE
      BY <1>2, <1>3, <2>1 DEF Showing, MadeInv, TypeInv, TypeOK
    <3>2. made[t.of] > 0 /\ t.of = Date(c)
      BY <3>1 DEF WithKey, MadeInv, MadeTrue, Key, Date
    <3>. QED
      BY <1>2, <2>1, <3>2 DEF MadeInv, TypeInv, TypeOK
  <2>2. CASE m # n
    BY <1>2, <1>3, <2>2 DEF MadeInv, MadeTrue, TypeInv, TypeOK
  <2>. QED
    BY <2>1, <2>2
<1>4. \A m \in Runners : pc'[m] = "post" => pc[m] = "post" /\ cur'[m] = cur[m]
  BY <1>2 DEF MadeInv, TypeInv, TypeOK
<1>5. MadeTrue' /\ AloneToPost' /\ OnePerDate' /\ NeverEarly'
  BY <1>1, <1>3, <1>4, NothingMade DEF MadeInv, TypeInv, TypeOK, Days
<1>6. RecordsAreTrue'
  BY <1>1, RecordsKept
<1>. QED
  BY <1>5, <1>6 DEF MadeInv

(* Whoever inserts has waited for every other row with its key, and found  *)
(* none that has been committed.                                           *)
LEMMA MadeInsert ==
  ASSUME MadeInv, TypeInv', NEW n \in Runners, Insert(n)
  PROVE  MadeInv'
<1> DEFINE k == Key(cur[n])
<1>1. /\ UNCHANGED <<cur, today, runs, last, txns, made>>
      /\ \A m \in Runners : m # n => pc'[m] = pc[m]
  BY DEF Insert, rows, history, MadeInv, TypeInv, TypeOK
<1>2. RecordsAreTrue'
  BY <1>1, RecordsKept
<1>3. CASE WithKey(k) = {} /\ pc' = [pc EXCEPT ![n] = "post"]
  <2>1. MadeTrue' /\ OnePerDate' /\ NeverEarly'
    BY <1>1, <1>3 DEF MadeInv, MadeTrue, OnePerDate, NeverEarly, Showing, Date,
                      TypeInv, TypeOK
  <2>2. AloneToPost'
    <3> SUFFICES ASSUME NEW m \in Runners, pc'[m] = "post"
                 PROVE  /\ WithKey(Key(cur[m])) = {}
                        /\ \A q \in Runners :
                             pc'[q] = "post" /\ Key(cur[q]) = Key(cur[m]) => q = m
      BY <1>1 DEF AloneToPost, RowWait, WithKey, Key
    <3>1. CASE m = n
      BY <1>1, <1>3, <3>1 DEF Insert, RowWait
    <3>2. CASE m # n
      <4>1. pc[m] = "post" /\ Key(cur[m]) # k
        BY <1>1, <3>2 DEF Insert, RowWait
      <4>. QED
        BY <1>1, <4>1 DEF MadeInv, AloneToPost, RowWait
    <3>. QED
      BY <3>1, <3>2
  <2>. QED
    BY <1>2, <2>1, <2>2 DEF MadeInv
<1>4. CASE \/ pc' = [pc EXCEPT ![n] = "record"]
           \/ pc' = [pc EXCEPT ![n] = "enrich"] /\ \E w \in WithKey(k) : TRUE
  <2>1. ASSUME NEW m \in Runners, pc'[m] \in Showing
        PROVE  made[Date(cur'[m])] > 0
    <3>1. CASE m = n
      <4>1. PICK w \in WithKey(k) : TRUE
        BY <1>4, <2>1, <3>1 DEF Showing, MadeInv, TypeInv, TypeOK
      <4>. QED
        BY <1>1, <3>1, <4>1 DEF WithKey, Key, Date, MadeInv, MadeTrue
    <3>2. CASE m # n
      BY <1>1, <2>1, <3>2 DEF MadeInv, MadeTrue
    <3>. QED
      BY <3>1, <3>2
  <2>2. \A m \in Runners : pc'[m] = "post" => pc[m] = "post" /\ cur'[m] = cur[m]
    BY <1>1, <1>4 DEF MadeInv, TypeInv, TypeOK
  <2>3. MadeTrue' /\ AloneToPost' /\ OnePerDate' /\ NeverEarly'
    BY <1>1, <2>1, <2>2, NothingMade DEF MadeInv, TypeInv, TypeOK, Days
  <2>. QED
    BY <1>2, <2>3 DEF MadeInv
<1>. QED
  BY <1>3, <1>4 DEF Insert

(* The transaction that is committed is the only one with its key, so the  *)
(* only one of its date, which has come.                                   *)
LEMMA MadePost ==
  ASSUME MadeInv, TypeInv', NEW n \in Runners, Post(n)
  PROVE  MadeInv'
<1> DEFINE d == Date(cur[n])
           t == Stored(n)
<1>1. /\ d \in Keys /\ cur[n] \in Copy /\ cur[n].day <= today
      /\ t.key = Key(cur[n]) /\ t.of = d
  BY KeyTyped, StoredTyped DEF MadeInv, Post, Working
<1>2. UNCHANGED <<cur, today, runs, last>> /\ \A m \in Runners : m # n => pc'[m] = pc[m]
  BY DEF Post, rows, MadeInv, TypeInv, TypeOK
<1>3. CASE /\ txns' = txns \cup {t}
           /\ made' = [made EXCEPT ![d] = @ + 1]
           /\ pc' = [pc EXCEPT ![n] = "enrich"]
  <2>1. made[d] \in Nat /\ made'[d] = made[d] + 1 /\ \A j \in Keys : j # d => made'[j] = made[j]
    BY <1>1, <1>3 DEF MadeInv, TypeInv, TypeOK
  <2>2. \A j \in Keys : made[j] > 0 => made'[j] > 0
    BY <2>1
  <2>3. MadeTrue'
    <3>1. ASSUME NEW u \in txns'
          PROVE  u.key = u.of /\ made'[u.of] > 0
      <4>1. CASE u = t
        BY <1>1, <2>1, <4>1 DEF Key, Date
      <4>2. CASE u # t
        BY <1>3, <2>2, <4>2 DEF MadeInv, MadeTrue, TypeInv, TypeOK, Txn
      <4>. QED
        BY <4>1, <4>2
    <3>2. ASSUME NEW m \in Runners, pc'[m] \in Showing
          PROVE  made'[Date(cur'[m])] > 0
      <4>1. CASE m = n
        BY <1>2, <2>1, <4>1
      <4>2. CASE m # n
        <5>1. Date(cur[m]) \in Keys /\ made[Date(cur[m])] > 0
          BY <1>2, <3>2, <4>2, KeyTyped DEF MadeInv, MadeTrue, Showing, Working
        <5>. QED
          BY <1>2, <2>2, <5>1
      <4>. QED
        BY <4>1, <4>2
    <3>. QED
      BY <3>1, <3>2 DEF MadeTrue, Date
  <2>4. WithKey(Key(cur[n])) = {}
    BY DEF MadeInv, AloneToPost, Post
  <2>5. OnePerDate'
    <3>1. \A u \in txns : u.of # t.of
      BY <1>1, <2>4 DEF MadeInv, MadeTrue, WithKey, Key, Date
    <3>. QED
      BY <1>3, <3>1 DEF MadeInv, OnePerDate
  <2>6. AloneToPost'
    <3> SUFFICES ASSUME NEW m \in Runners, pc'[m] = "post"
                 PROVE  /\ \A u \in txns' : u.key # Key(cur[m])
                        /\ \A q \in Runners :
                             pc'[q] = "post" /\ Key(cur[q]) = Key(cur[m]) => q = m
      BY <1>2 DEF AloneToPost, RowWait, WithKey, Key
    <3>1. m # n /\ pc[m] = "post"
      BY <1>2, <1>3 DEF MadeInv, TypeInv, TypeOK
    <3>2. /\ \A u \in txns : u.key # Key(cur[m])
          /\ \A q \in Runners : pc[q] = "post" /\ Key(cur[q]) = Key(cur[m]) => q = m
      BY <3>1 DEF MadeInv, AloneToPost, RowWait, WithKey
    <3>3. Key(cur[n]) # Key(cur[m])
      BY <3>1, <3>2 DEF Post
    <3>4. \A q \in Runners : pc'[q] = "post" => pc[q] = "post"
      BY <1>2, <1>3 DEF MadeInv, TypeInv, TypeOK
    <3>. QED
      BY <1>1, <1>3, <3>2, <3>3, <3>4
  <2>7. NeverEarly'
    <3> SUFFICES ASSUME NEW j \in Keys, made'[j] > 0 PROVE j[2] <= today'
      BY DEF NeverEarly
    <3>1. CASE j = d
      BY <1>1, <1>2, <3>1 DEF Date
    <3>2. CASE j # d
      BY <1>2, <2>1, <3>2 DEF MadeInv, NeverEarly
    <3>. QED
      BY <3>1, <3>2
  <2>8. RecordsAreTrue'
    BY <1>2, <2>2, RecordsKept
  <2>. QED
    BY <2>3, <2>5, <2>6, <2>7, <2>8 DEF MadeInv
<1>4. CASE pc' = [pc EXCEPT ![n] = "record"] /\ UNCHANGED <<txns, made>>
  <2>1. \A m \in Runners : pc'[m] \in Showing => made[Date(cur'[m])] > 0
    BY <1>2, <1>4 DEF MadeInv, MadeTrue, Showing, TypeInv, TypeOK
  <2>2. \A m \in Runners : pc'[m] = "post" => pc[m] = "post" /\ cur'[m] = cur[m]
    BY <1>2, <1>4 DEF MadeInv, TypeInv, TypeOK
  <2>3. MadeTrue' /\ AloneToPost' /\ OnePerDate' /\ NeverEarly'
    BY <1>2, <1>4, <2>1, <2>2, NothingMade DEF MadeInv, TypeInv, TypeOK, Days
  <2>4. RecordsAreTrue'
    BY <1>2, <1>4, RecordsKept
  <2>. QED
    BY <2>3, <2>4 DEF MadeInv
<1>. QED
  BY <1>3, <1>4 DEF Post, Stored

LEMMA MadeEnrich ==
  ASSUME MadeInv, TypeInv', NEW n \in Runners, Enrich(n)
  PROVE  MadeInv'
<1>1. UNCHANGED <<made, txns, today, runs, last>>
  BY DEF Enrich, rows, history
<1>2. CASE pc' = [pc EXCEPT ![n] = "advance"] /\ UNCHANGED cur
  <2>1. ASSUME NEW m \in Runners, pc'[m] \in Showing
        PROVE  made[Date(cur'[m])] > 0
    BY <1>2, <2>1 DEF Enrich, Showing, MadeInv, MadeTrue, TypeInv, TypeOK
  <2>2. \A m \in Runners : pc'[m] = "post" => pc[m] = "post" /\ cur'[m] = cur[m]
    BY <1>2 DEF MadeInv, TypeInv, TypeOK
  <2>. QED
    BY <1>1, <2>1, <2>2, NothingMade, RecordsKept DEF MadeInv, TypeInv, TypeOK, Days
<1>3. CASE Continue(n, {})
  BY <1>1, <1>3, MadeIdle, RecordsKept DEF MadeInv
<1>. QED
  BY <1>2, <1>3 DEF Enrich

(* The date that is recorded has its transaction: it was shown.            *)
LEMMA MadeAdvanceRun ==
  ASSUME MadeInv, TypeInv', NEW n \in Runners, AdvanceRun(n)
  PROVE  MadeInv'
<1> DEFINE c == cur[n]
<1>1. c \in Copy /\ Date(c) \in Keys
  BY KeyTyped DEF MadeInv, AdvanceRun, Working
<1>2. made[Date(c)] > 0
  BY DEF AdvanceRun, MadeInv, MadeTrue, Showing
<1>3. UNCHANGED <<made, txns, today>> /\ Continue(n, batch[n])
  BY DEF AdvanceRun
<1>4. MadeTrue' /\ AloneToPost' /\ OnePerDate' /\ NeverEarly'
  BY <1>3, MadeIdle
<1>5. RecordsAreTrue'
  <2>1. CASE UNCHANGED <<runs, last>>
    BY <1>3, <2>1, RecordsKept
  <2>2. CASE /\ runs' = [runs EXCEPT ![Date(c)] = IF @ = "none" THEN "success" ELSE @]
             /\ last' = [last EXCEPT ![c.rule] = c.day]
    <3>1. \A k \in Keys : runs'[k] = "success" => runs[k] = "success" \/ made[k] > 0
      BY <1>1, <1>2, <2>2 DEF MadeInv, TypeInv, TypeOK
    <3>2. \A r \in Rules : last'[r] # Null => last'[r] = last[r] \/ made[<<r, last'[r]>>] > 0
      BY <1>1, <1>2, <2>2 DEF MadeInv, TypeInv, TypeOK, Date, Copy
    <3>. QED
      BY <1>3, <3>1, <3>2, RecordsKept
  <2>. QED
    BY <2>1, <2>2 DEF AdvanceRun, rows
<1>. QED
  BY <1>4, <1>5 DEF MadeInv

LEMMA MadeRest ==
  ASSUME MadeInv, TypeInv', NEW n \in Runners, RunDue(n) \/ RecordRunFailure(n) \/ Stop(n)
  PROVE  MadeInv'
<1>1. UNCHANGED <<made, txns, today, last>> /\ (RunDue(n) \/ Continue(n, {}) \/ Continue(n, batch[n]))
  BY DEF RunDue, RecordRunFailure, Stop, Remaining, rows, history
<1>2. MadeTrue' /\ AloneToPost' /\ OnePerDate' /\ NeverEarly'
  BY <1>1, MadeIdle
<1>3. \A k \in Keys : runs'[k] = "success" => runs[k] = "success"
  BY DEF RunDue, RecordRunFailure, Stop, MadeInv, TypeInv, TypeOK
<1>4. RecordsAreTrue'
  BY <1>1, <1>3, RecordsKept
<1>. QED
  BY <1>2, <1>4 DEF MadeInv

LEMMA MadeNext == MadeInv /\ [Next]_vars => MadeInv'
<1> SUFFICES ASSUME MadeInv, [Next]_vars PROVE MadeInv'
  OBVIOUS
<1>1. TypeInv'
  BY TypeNext DEF MadeInv
<1>2. ASSUME NEW n \in Runners, RunDue(n) \/ Step(n) \/ Stop(n)
      PROVE  MadeInv'
  BY <1>1, <1>2, MadeLookup, MadeInsert, MadePost, MadeEnrich, MadeAdvanceRun, MadeRest DEF Step
<1>. QED
  BY <1>1, <1>2, MadeOwner, MadeOthers DEF Next

LEMMA MadeAlways == Spec => []MadeInv
  BY MadeInit, MadeNext, PTL DEF Spec

(* OnePerDate: in any number of replicas, and however stale the copies     *)
(* they work from, RunDue leaves a date of a rule one transaction at a     *)
(* time.                                                                   *)
THEOREM OneTransactionPerDate == Spec => []OnePerDate
<1>1. MadeInv => OnePerDate
  BY DEF MadeInv
<1>. QED
  BY <1>1, MadeAlways, PTL

(* NeverEarly: a date has come before its transaction is made, although    *)
(* AdvanceRun may set next_run_at to one in the future.                    *)
THEOREM DatesComeFirst == Spec => []NeverEarly
<1>1. MadeInv => NeverEarly
  BY DEF MadeInv
<1>. QED
  BY <1>1, MadeAlways, PTL

(* RecordsAreTrue: the row of a run, and last_run_at, are written after the*)
(* transaction of the date has been made or found.                         *)
THEOREM RunsRecordTheTruth == Spec => []RecordsAreTrue
<1>1. MadeInv => RecordsAreTrue
  BY DEF MadeInv
<1>. QED
  BY <1>1, MadeAlways, PTL

(* A run leaves a rule that is switched off switched off: the step that    *)
(* switches one on is its owner's, who touches neither dates nor runners.  *)
LEMMA PauseKept ==
  ASSUME TypeOK, Next, NEW r \in Rules, Live(r), ~active[r], active'[r]
  PROVE  UNCHANGED <<next, last, runs, runner>>
<1>1. ASSUME NEW q \in Rules,
             CreateRule(q) \/ UpdateRule(q) \/ SetActive(q) \/ DeleteRule(q) \/ ChangeBalance(q)
      PROVE  UNCHANGED <<next, last, runs, runner>>
  <2>1. CASE CreateRule(q)
    BY <2>1 DEF CreateRule, Live, TypeOK
  <2>2. CASE DeleteRule(q)
    BY <2>2 DEF DeleteRule, TypeOK
  <2>. QED
    BY <1>1, <2>1, <2>2 DEF UpdateRule, SetActive, ChangeBalance, rows
<1>2. ASSUME NEW n \in Runners, AdvanceRun(n)
      PROVE  FALSE
  <2>1. PICK c : active' = active \/ active' = [active EXCEPT ![c.rule] = ActiveAfter(c)]
    BY <1>2 DEF AdvanceRun, rows
  <2>2. active' = [active EXCEPT ![c.rule] = ActiveAfter(c)] /\ c.rule = r
    BY <2>1 DEF TypeOK
  <2>3. active'[r] = ActiveAfter(c)
    BY <2>2 DEF TypeOK
  <2>. QED
    BY <2>2, <2>3 DEF ActiveAfter
<1>3. ASSUME NEW n \in Runners, RunDue(n) \/ Step(n) \/ Stop(n)
      PROVE  FALSE
  BY <1>2, <1>3 DEF Step, RunDue, Lookup, Insert, Post, Enrich, RecordRunFailure, Stop, rows
<1>4. ASSUME (\E t \in txns : DeleteTransaction(t)) \/ NextDay
      PROVE  FALSE
  BY <1>4 DEF DeleteTransaction, NextDay, rows
<1>. QED
  BY <1>1, <1>3, <1>4 DEF Next

(* PauseSticks: no run in progress, and no other run's end, undoes what an *)
(* owner or advanceDate has switched off.                                  *)
THEOREM PausesStick == Spec => PauseSticks
<1>1. TypeOK /\ [Next]_vars =>
        [\A r \in Rules : rule[r] = "live" /\ ~active[r] /\ active'[r] =>
           UNCHANGED <<next, last, runs, runner>>]_vars
  BY PauseKept DEF Live
<1>. QED
  BY <1>1, RulesTyped, PTL DEF Spec, PauseSticks

-----------------------------------------------------------------------------
(* The dates of a rule *)

(* What no step takes back.                                                *)
RulesKept ==
  /\ planned \subseteq planned'
  /\ \A r \in Rules : rule[r] # "absent" =>
       /\ rule'[r] # "absent"
       /\ rule'[r] = "live" /\ r \notin edited' =>
            rule[r] = "live" /\ r \notin edited /\ period'[r] = period[r]
  /\ \A k \in Keys : made[k] > 0 => made'[k] > 0

LEMMA RulesKeptNext ==
  ASSUME TypeInv, [Next]_vars
  PROVE  RulesKept
<1> USE DEF TypeInv, TypeOK, RulesKept, rows, history, Live
<1>1. ASSUME NEW r \in Rules, CreateRule(r)
      PROVE  RulesKept
  BY <1>1 DEF CreateRule
<1>2. ASSUME NEW r \in Rules, UpdateRule(r)
      PROVE  RulesKept
  <2>1. edited \subseteq edited' /\ UNCHANGED <<planned, rule, made>>
    BY <1>2 DEF UpdateRule
  <2>2. \A q \in Rules : period'[q] = period[q] \/ q \in edited'
    BY <1>2 DEF UpdateRule
  <2>. QED
    BY <2>1, <2>2
<1>3. ASSUME NEW r \in Rules, DeleteRule(r)
      PROVE  RulesKept
  BY <1>3 DEF DeleteRule
<1>4. ASSUME NEW n \in Runners, Post(n)
      PROVE  RulesKept
  BY <1>4 DEF Post
<1>5. ASSUME NEW n \in Runners, AdvanceRun(n)
      PROVE  RulesKept
  BY <1>5 DEF AdvanceRun
<1>6. ASSUME UNCHANGED <<rule, period, planned, edited, made>>
      PROVE  RulesKept
  BY <1>6
<1>7. ASSUME NEW n \in Runners, RunDue(n) \/ Step(n) \/ Stop(n)
      PROVE  RulesKept
  BY <1>4, <1>5, <1>6, <1>7 DEF Step, RunDue, Lookup, Insert, Enrich, RecordRunFailure, Stop
<1>8. ASSUME NEW r \in Rules, SetActive(r) \/ ChangeBalance(r)
      PROVE  RulesKept
  BY <1>6, <1>8 DEF SetActive, ChangeBalance
<1>9. ASSUME (\E t \in txns : DeleteTransaction(t)) \/ NextDay \/ UNCHANGED vars
      PROVE  RulesKept
  BY <1>6, <1>9 DEF DeleteTransaction, NextDay, vars
<1>. QED
  BY <1>1, <1>2, <1>3, <1>7, <1>8, <1>9 DEF Next

LEMMA RunsInit == Init => RunsInv
<1> SUFFICES ASSUME Init PROVE RunsInv
  OBVIOUS
<1>1. CopiesTrue
  BY DEF Init, CopiesTrue, Held, Working
<1>2. RowsOfRules /\ Chain
  BY DEF Init, RowsOfRules, Chain, Live, Keys
<1>. QED
  BY <1>1, <1>2, MadeInit DEF MadeInv, RunsInv

LEMMA HeldTyped ==
  ASSUME TypeInv, NEW n \in Runners
  PROVE  Held(n) \subseteq Copy
  BY DEF TypeInv, TypeOK, InHand, Held

(* A copy stays true however its rule changes.                             *)
LEMMA CopyKept ==
  ASSUME RulesKept, NEW c \in Copy, CopyTrue(c)
  PROVE  CopyTrue(c)'
  BY DEF RulesKept, CopyTrue, Live, Copy

(* A step that gives no runner a copy it did not have.                     *)
LEMMA CopiesKept ==
  ASSUME RunsInv, RulesKept, \A n \in Runners : Held(n)' \subseteq Held(n)
  PROVE  CopiesTrue'
<1> SUFFICES ASSUME NEW n \in Runners, NEW c \in Held(n)' PROVE CopyTrue(c)'
  BY DEF CopiesTrue
<1>1. c \in Held(n)
  OBVIOUS
<1>2. c \in Copy /\ CopyTrue(c)
  BY <1>1, HeldTyped DEF RunsInv, CopiesTrue
<1>. QED
  BY <1>2, CopyKept

LEMMA CopiesRunDue ==
  ASSUME RunsInv, RulesKept, NEW n \in Runners, RunDue(n)
  PROVE  CopiesTrue'
<1>1. PICK due \in SUBSET Rules :
        /\ batch' = [batch EXCEPT ![n] = {CopyOf(r) : r \in due}]
        /\ \A r \in due : Live(r) /\ next[r] <= today
  BY Batch DEF RunsInv
<1>2. ASSUME NEW r \in due
      PROVE  CopyOf(r) \in Copy /\ CopyTrue(CopyOf(r))
  BY <1>1 DEF CopyTrue, CopyOf, Copy, RunsInv, RowsOfRules, TypeInv, TypeOK, Live
<1>3. ASSUME NEW m \in Runners, NEW c \in Held(m)'
      PROVE  c \in Copy /\ CopyTrue(c)
  <2>1. CASE m = n
    <3>1. c \in {CopyOf(r) : r \in due}
      BY <1>1, <1>3, <2>1 DEF Held, RunDue, RunsInv, TypeInv, TypeOK, Working
    <3>. QED
      BY <1>2, <3>1
  <2>2. CASE m # n
    <3>1. c \in Held(m)
      BY <1>1, <1>3, <2>2 DEF Held, RunDue, RunsInv, TypeInv, TypeOK
    <3>. QED
      BY <3>1, HeldTyped DEF RunsInv, CopiesTrue
  <2>. QED
    BY <2>1, <2>2
<1>4. \A m \in Runners : \A c \in Held(m)' : CopyTrue(c)'
  BY <1>3, CopyKept
<1>. QED
  BY <1>4 DEF CopiesTrue

LEMMA CopiesStep ==
  ASSUME RunsInv, RulesKept, NEW n \in Runners, Step(n) \/ Stop(n)
  PROVE  CopiesTrue'
<1> USE DEF Held, RunsInv, TypeInv, TypeOK
<1>1. ASSUME Lookup(n)
      PROVE  \A m \in Runners : Held(m)' \subseteq Held(m)
  BY <1>1 DEF Lookup
<1>2. ASSUME Insert(n) \/ Post(n)
      PROVE  \A m \in Runners : Held(m)' \subseteq Held(m)
  BY <1>2 DEF Insert, Post, Working
<1>3. ASSUME NEW rest \in SUBSET batch[n], Continue(n, rest)
      PROVE  \A m \in Runners : Held(m)' \subseteq Held(m)
  BY <1>3 DEF Continue, Working
<1>4. ASSUME Enrich(n)
      PROVE  \A m \in Runners : Held(m)' \subseteq Held(m)
  <2>1. CASE Continue(n, {})
    BY <1>3, <2>1
  <2>. QED
    BY <1>4, <2>1 DEF Enrich, Working
<1>5. ASSUME AdvanceRun(n) \/ RecordRunFailure(n) \/ Stop(n)
      PROVE  \A m \in Runners : Held(m)' \subseteq Held(m)
  BY <1>3, <1>5 DEF AdvanceRun, RecordRunFailure, Stop, Remaining
<1>. QED
  BY <1>1, <1>2, <1>4, <1>5, CopiesKept DEF Step

LEMMA CopiesNext ==
  ASSUME RunsInv, [Next]_vars
  PROVE  CopiesTrue'
<1>1. RulesKept
  BY RulesKeptNext DEF RunsInv
<1>2. ASSUME UNCHANGED runner
      PROVE  CopiesTrue'
  BY <1>1, <1>2, CopiesKept DEF Held, runner
<1>3. ASSUME NEW r \in Rules,
             CreateRule(r) \/ UpdateRule(r) \/ SetActive(r) \/ DeleteRule(r) \/ ChangeBalance(r)
      PROVE  CopiesTrue'
  BY <1>2, <1>3 DEF CreateRule, UpdateRule, SetActive, DeleteRule, ChangeBalance
<1>4. ASSUME (\E t \in txns : DeleteTransaction(t)) \/ NextDay \/ UNCHANGED vars
      PROVE  CopiesTrue'
  BY <1>2, <1>4 DEF DeleteTransaction, NextDay, vars
<1>. QED
  BY <1>1, <1>3, <1>4, CopiesRunDue, CopiesStep DEF Next

(* What AdvanceRun does, if it does anything, it does to a live rule.      *)
LEMMA Advance ==
  ASSUME RunsInv, NEW n \in Runners, AdvanceRun(n)
  PROVE  LET c == cur[n]
         IN  /\ c \in Copy /\ Date(c) \in Keys /\ CopyTrue(c) /\ made[Date(c)] > 0
             /\ AdvanceDate(c) \in Dates
             /\ UNCHANGED <<rule, period, edited, made>>
             /\ \/ UNCHANGED <<next, runs, planned>>
                \/ /\ Live(c.rule)
                   /\ runs' = [runs EXCEPT ![Date(c)] = IF @ = "none" THEN "success" ELSE @]
                   /\ next' = [next EXCEPT ![c.rule] = AdvanceDate(c)]
                   /\ planned' = planned \cup {<<c.rule, AdvanceDate(c)>>}
<1> DEFINE c == cur[n]
<1>1. c \in Copy /\ Date(c) \in Keys /\ AdvanceDate(c) \in Dates
  BY KeyTyped DEF RunsInv, AdvanceRun, Working
<1>2. CopyTrue(c)
  BY DEF AdvanceRun, RunsInv, CopiesTrue, Held, Working
<1>3. made[Date(c)] > 0
  BY DEF AdvanceRun, RunsInv, MadeTrue, Showing
<1>4. runs[Date(c)] # "none" \/ RunRowFits(n) => Live(c.rule)
  BY <1>1 DEF RunRowFits, RunsInv, RowsOfRules, Date, Keys
<1>. QED
  BY <1>1, <1>2, <1>3, <1>4 DEF AdvanceRun, rows

LEMMA RowsKept ==
  ASSUME RunsInv, UNCHANGED <<rule, runs, planned, next>>
  PROVE  RowsOfRules'
  BY DEF RunsInv, RowsOfRules, Live

LEMMA RowsNext ==
  ASSUME RunsInv, [Next]_vars
  PROVE  RowsOfRules'
<1> USE DEF RunsInv, TypeInv, TypeOK, RowsOfRules, Live
<1>1. ASSUME NEW r \in Rules, CreateRule(r)
      PROVE  RowsOfRules'
  <2>1. PICK start \in Days :
          /\ next' = [next EXCEPT ![r] = start]
          /\ planned' = planned \cup {<<r, start>>}
    BY <1>1 DEF CreateRule
  <2>2. rule' = [rule EXCEPT ![r] = "live"] /\ runs' = runs
    BY <1>1 DEF CreateRule
  <2>3. \A k \in planned' : rule'[k[1]] # "absent"
    BY <2>1, <2>2 DEF Keys
  <2>. QED
    BY <2>1, <2>2, <2>3 DEF Keys
<1>2. ASSUME NEW r \in Rules, DeleteRule(r)
      PROVE  RowsOfRules'
  BY <1>2 DEF DeleteRule, history, Keys
<1>3. ASSUME NEW n \in Runners, AdvanceRun(n)
      PROVE  RowsOfRules'
  <2> DEFINE c == cur[n]
  <2>1. CASE UNCHANGED <<next, runs, planned>>
    BY <1>3, <2>1, Advance
  <2>2. CASE /\ Live(c.rule)
             /\ runs' = [runs EXCEPT ![Date(c)] = IF @ = "none" THEN "success" ELSE @]
             /\ next' = [next EXCEPT ![c.rule] = AdvanceDate(c)]
             /\ planned' = planned \cup {<<c.rule, AdvanceDate(c)>>}
    <3>1. rule' = rule /\ c \in Copy /\ Date(c) \in Keys
      BY <1>3, Advance
    <3>2. \A k \in Keys : rule'[k[1]] # "live" => runs'[k] = "none"
      BY <2>2, <3>1 DEF Date
    <3>3. \A k \in planned' : rule'[k[1]] # "absent"
      BY <2>2, <3>1
    <3>4. \A r \in Rules : rule'[r] = "live" => <<r, next'[r]>> \in planned'
      BY <2>2, <3>1 DEF Copy
    <3>. QED
      BY <3>2, <3>3, <3>4
  <2>. QED
    BY <1>3, <2>1, <2>2, Advance
<1>4. ASSUME NEW n \in Runners, RecordRunFailure(n)
      PROVE  RowsOfRules'
  <2>1. UNCHANGED <<rule, planned, next>>
    BY <1>4 DEF RecordRunFailure, rows, history
  <2>2. \A k \in Keys : ~Live(k[1]) => runs'[k] = "none"
    <3>1. runs' = runs \/ (Live(cur[n].rule) /\ runs' = [runs EXCEPT ![Date(cur[n])] = "failed"])
      BY <1>4 DEF RecordRunFailure
    <3>. QED
      BY <3>1 DEF Date
  <2>. QED
    BY <2>1, <2>2
<1>5. ASSUME NEW r \in Rules, UpdateRule(r) \/ SetActive(r) \/ ChangeBalance(r)
      PROVE  RowsOfRules'
  BY <1>5, RowsKept DEF UpdateRule, SetActive, ChangeBalance, rows, history
<1>6. ASSUME (\E t \in txns : DeleteTransaction(t)) \/ NextDay \/ UNCHANGED vars
      PROVE  RowsOfRules'
  BY <1>6, RowsKept DEF DeleteTransaction, NextDay, vars, rows, history
<1>7. ASSUME NEW n \in Runners, RunDue(n) \/ Step(n) \/ Stop(n)
      PROVE  RowsOfRules'
  BY <1>3, <1>4, <1>7, RowsKept
     DEF Step, RunDue, Lookup, Insert, Post, Enrich, Stop, rows, history
<1>. QED
  BY <1>1, <1>2, <1>5, <1>6, <1>7 DEF Next

(* No date comes in, and those that are there keep their rule's period or  *)
(* their rule is no longer of interest.                                    *)
LEMMA ChainKept ==
  ASSUME RunsInv, RulesKept, planned' = planned
  PROVE  Chain'
<1> SUFFICES ASSUME NEW r \in Rules, NEW d \in Dates, NEW e \in Dates,
                    Live(r)', r \notin edited',
                    <<r, d>> \in planned, <<r, e>> \in planned, d < e
             PROVE  Chained(r, d, e)'
  BY DEF Chain
<1>1. rule[r] # "absent"
  BY DEF RunsInv, RowsOfRules
<1>2. Live(r) /\ r \notin edited /\ period'[r] = period[r]
  BY <1>1 DEF RulesKept, Live
<1>3. Chained(r, d, e)
  BY <1>2 DEF RunsInv, Chain
<1>4. <<r, d>> \in Keys
  BY DEF Keys
<1>. QED
  BY <1>2, <1>3, <1>4 DEF Chained, RulesKept

(* The first date of a rule has none before or after it.                   *)
LEMMA ChainCreateRule ==
  ASSUME RunsInv, RulesKept, NEW q \in Rules, CreateRule(q)
  PROVE  Chain'
<1>1. PICK start \in Days : planned' = planned \cup {<<q, start>>}
  BY DEF CreateRule
<1>2. rule[q] = "absent" /\ edited' = edited /\ made' = made
  BY DEF CreateRule
<1> SUFFICES ASSUME NEW r \in Rules, NEW d \in Dates, NEW e \in Dates,
                    Live(r)', r \notin edited',
                    <<r, d>> \in planned', <<r, e>> \in planned', d < e
             PROVE  Chained(r, d, e)'
  BY DEF Chain
<1>3. \A x \in Dates : <<q, x>> \notin planned
  BY <1>2 DEF RunsInv, RowsOfRules
<1>4. r # q
  BY <1>1, <1>3 DEF Days, Dates
<1>5. <<r, d>> \in planned /\ <<r, e>> \in planned
  BY <1>1, <1>4
<1>6. Live(r) /\ period'[r] = period[r]
  BY <1>4 DEF CreateRule, Live, RunsInv, TypeInv, TypeOK
<1>7. Chained(r, d, e)
  BY <1>2, <1>5, <1>6 DEF RunsInv, Chain
<1>. QED
  BY <1>2, <1>6, <1>7 DEF Chained, RulesKept

(* A copy's date has its transaction, so the date a period later may come  *)
(* after it; and any date later than the copy's is that one or comes after *)
(* it, so that one was there already.                                      *)
LEMMA ChainAdvanceRun ==
  ASSUME RunsInv, RulesKept, NEW n \in Runners, AdvanceRun(n)
  PROVE  Chain'
<1> DEFINE c == cur[n]
           q == c.rule
           new == AdvanceDate(c)
<1>1. /\ c \in Copy /\ CopyTrue(c) /\ made[Date(c)] > 0 /\ new \in Dates
      /\ UNCHANGED <<rule, period, edited, made>>
  BY Advance
<1>2. CASE UNCHANGED planned
  BY <1>2, ChainKept
<1>3. CASE planned' = planned \cup {<<q, new>>}
  <2> SUFFICES ASSUME NEW r \in Rules, NEW d \in Dates, NEW e \in Dates,
                      Live(r)', r \notin edited',
                      <<r, d>> \in planned', <<r, e>> \in planned', d < e
               PROVE  Chained(r, d, e)'
    BY DEF Chain
  <2>1. Live(r) /\ r \notin edited
    BY <1>1 DEF Live
  <2>2. ASSUME <<r, d>> \in planned, NEW x \in Dates, <<r, x>> \in planned, d < x
        PROVE  Chained(r, d, x)
    BY <2>1, <2>2 DEF RunsInv, Chain
  <2>3. \A x : Chained(r, d, x) => Chained(r, d, x)'
    BY <1>1 DEF Chained, RulesKept
  <2>4. CASE r # q
    BY <1>3, <2>2, <2>3, <2>4
  <2>5. CASE r = q
    <3> DEFINE p == period[r]
    <3>1. p = c.period /\ new = c.day + p
      BY <1>1, <2>1, <2>5 DEF CopyTrue, AdvanceDate
    <3>2. p \in Int /\ p > 0 /\ c.day \in Dates
      <4>1. c.period \in Periods /\ c.day \in Dates
        BY <1>1 DEF Copy
      <4>2. c.period \in 1..(LastDay + 1)
        BY <4>1
      <4>. QED
        BY <3>1, <4>1, <4>2
    <3>3. <<r, c.day>> \in planned /\ made[<<r, c.day>>] > 0
      BY <1>1, <2>5 DEF CopyTrue, Date
    <3>4. ASSUME NEW x \in Dates, <<r, x>> \in planned, c.day < x
          PROVE  new <= x /\ <<r, new>> \in planned
      BY <2>1, <3>1, <3>2, <3>3, <3>4 DEF RunsInv, Chain, Chained
    <3>5. CASE <<r, d>> \in planned /\ <<r, e>> \in planned
      BY <2>2, <2>3, <3>5
    <3>6. CASE <<r, d>> \in planned /\ e = new
      <4>1. CASE d < c.day
        <5>1. Chained(r, d, c.day)
          BY <2>2, <3>2, <3>3, <3>6, <4>1
        <5>2. Chained(r, d, e)
          BY <3>1, <3>2, <3>6, <5>1 DEF Chained, Dates
        <5>. QED
          BY <2>3, <5>2
      <4>2. CASE d = c.day
        BY <1>1, <1>3, <2>5, <3>1, <3>3, <3>6, <4>2 DEF Chained, Dates
      <4>3. CASE c.day < d
        BY <3>4, <3>6, <4>3, <3>2 DEF Dates
      <4>. QED
        BY <3>2, <4>1, <4>2, <4>3 DEF Dates
    <3>7. CASE d = new /\ <<r, e>> \in planned
      <4>1. c.day < e
        BY <3>1, <3>2, <3>7 DEF Dates
      <4>. QED
        BY <2>2, <2>3, <3>4, <3>7, <4>1
    <3>8. CASE d = new /\ e = new
      BY <3>8 DEF Dates
    <3>. QED
      BY <1>3, <2>5, <3>5, <3>6, <3>7, <3>8
  <2>. QED
    BY <2>4, <2>5
<1>. QED
  BY <1>2, <1>3, Advance

LEMMA ChainNext ==
  ASSUME RunsInv, [Next]_vars
  PROVE  Chain'
<1>1. RulesKept
  BY RulesKeptNext DEF RunsInv
<1>2. ASSUME NEW r \in Rules, UpdateRule(r) \/ SetActive(r) \/ DeleteRule(r) \/ ChangeBalance(r)
      PROVE  Chain'
  BY <1>1, <1>2, ChainKept DEF UpdateRule, SetActive, DeleteRule, ChangeBalance, history
<1>3. ASSUME (\E t \in txns : DeleteTransaction(t)) \/ NextDay \/ UNCHANGED vars
      PROVE  Chain'
  BY <1>1, <1>3, ChainKept DEF DeleteTransaction, NextDay, vars, history
<1>4. ASSUME NEW n \in Runners, RunDue(n) \/ Step(n) \/ Stop(n)
      PROVE  Chain'
  BY <1>1, <1>4, ChainKept, ChainAdvanceRun
     DEF Step, RunDue, Lookup, Insert, Post, Enrich, RecordRunFailure, Stop, history
<1>. QED
  BY <1>1, <1>2, <1>3, <1>4, ChainCreateRule DEF Next

LEMMA RunsNext == RunsInv /\ [Next]_vars => RunsInv'
<1> SUFFICES ASSUME RunsInv, [Next]_vars PROVE RunsInv'
  OBVIOUS
<1>1. MadeInv'
  BY MadeNext DEF RunsInv, MadeInv
<1>. QED
  BY <1>1, CopiesNext, RowsNext, ChainNext DEF RunsInv, MadeInv

(* NothingSkipped: next_run_at has passed no date whose transaction was not*)
(* made, whichever copy it was last advanced from: the dates of a rule are *)
(* a chain, and each but the last was made.                                *)
THEOREM DatesNotSkipped == Spec => []NothingSkipped
<1>1. RunsInv => NothingSkipped
  <2> SUFFICES ASSUME RunsInv, NEW k \in planned,
                      Live(k[1]), k[1] \notin edited, k[2] < next[k[1]]
               PROVE  made[k] > 0
    BY DEF NothingSkipped
  <2>1. k \in Keys
    BY DEF RunsInv, TypeInv, TypeOK
  <2>2. k[1] \in Rules /\ k[2] \in Dates /\ k = <<k[1], k[2]>>
    BY <2>1 DEF Keys
  <2>3. next[k[1]] \in Dates /\ <<k[1], next[k[1]]>> \in planned
    BY <2>2 DEF RunsInv, RowsOfRules, TypeInv, TypeOK
  <2>4. Chained(k[1], k[2], next[k[1]])
    BY <2>2, <2>3 DEF RunsInv, Chain
  <2>. QED
    BY <2>2, <2>4 DEF Chained
<1>. QED
  BY <1>1, RunsInit, RunsNext, PTL DEF Spec
=============================================================================
