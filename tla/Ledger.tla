------------------------------- MODULE Ledger -------------------------------
(***************************************************************************)
(* What the transaction service promises its callers: a ledger in which a  *)
(* transaction is posted, or reversed, in one atomic step that writes all  *)
(* its entries and moves every balance by exactly the entry written for    *)
(* it, and in which no balance is ever negative.  There are no requests,   *)
(* locks, versions or failures at this level.                              *)
(***************************************************************************)
EXTENDS Integers

CONSTANTS Accounts, Creates

VARIABLES account, balance, txns, ledger

books == <<account, balance, txns, ledger>>

Init ==
  /\ account = [a \in Accounts |-> "absent"]
  /\ balance = [a \in Accounts |-> 0]
  /\ txns = {}
  /\ ledger = {}

OneEntryPerAccount(E) == \A e, f \in E : e.account = f.account => e = f

(* The amount by which the entries E move account a.                       *)
Movement(E, a) ==
  IF \E e \in E : e.account = a THEN (CHOOSE e \in E : e.account = a).amount ELSE 0

Open(a) ==
  /\ account[a] = "absent"
  /\ account' = [account EXCEPT ![a] = "live"]
  /\ balance'[a] >= 0
  /\ balance' = [balance EXCEPT ![a] = balance'[a]]
  /\ UNCHANGED <<txns, ledger>>

Close(a) ==
  /\ account[a] = "live"
  /\ account' = [account EXCEPT ![a] = "deleted"]
  /\ balance' = [balance EXCEPT ![a] = 0]
  /\ ledger' = {e \in ledger : e.account # a}
  /\ UNCHANGED txns

(* Post transaction t with the entries E.                                  *)
Post(t, E) ==
  /\ t \notin txns
  /\ E # {} /\ OneEntryPerAccount(E)
  /\ \A e \in E : e.txn = t /\ account[e.account] = "live"
  /\ txns' = txns \cup {t}
  /\ ledger' = ledger \cup E
  /\ balance' = [a \in Accounts |-> balance[a] + Movement(E, a)]
  /\ \A a \in Accounts : balance'[a] >= 0
  /\ UNCHANGED account

(* Take transaction t back, with whatever entries it still has.            *)
Reverse(t) ==
  LET E == {e \in ledger : e.txn = t}
  IN  /\ t \in txns
      /\ txns' = txns \ {t}
      /\ ledger' = ledger \ E
      /\ balance' = [a \in Accounts |-> balance[a] - Movement(E, a)]
      /\ \A a \in Accounts : balance'[a] >= 0
      /\ UNCHANGED account

Next ==
  \/ \E a \in Accounts : Open(a) \/ Close(a)
  \/ \E t \in Creates : Post(t, ledger' \ ledger) \/ Reverse(t)

Spec == Init /\ [][Next]_books
=============================================================================
