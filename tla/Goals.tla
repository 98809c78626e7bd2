------------------------------- MODULE Goals -------------------------------
(***************************************************************************)
(* GoalService: savings goals.  Each method is one statement; a goal that  *)
(* is not there is an error (500), except to Delete, because nothing turns *)
(* the repository's ErrNoRows into a 404.                                  *)
(***************************************************************************)
EXTENDS Api, Money

CreateGoal == [op : {"goal"}, user : Users, target : Nat]
UpdateGoal == [op : {"retarget"}, user : Users, goal : Ids, target : Nat]
Contribution == [op : {"contribute"}, user : Users, goal : Ids, amount : Nat]
DeleteGoal == [op : {"dropGoal"}, user : Users, goal : Ids]

Goal ==
  [user : Users, target : Cents \ {0}, current : Cents, status : {"active", "completed"}]

VARIABLE goals  \* the rows of the table, by id

GoalsTypeOK == DOMAIN goals \subseteq Ids /\ Range(goals) \subseteq Goal

NewGoal(u, target) == [user |-> u, target |-> target, current |-> 0, status |-> "active"]

GoalsInit(row) == goals = [id \in {Seed} |-> row]

HasGoal(r) == request[r].goal \in DOMAIN goals /\ goals[request[r].goal].user = User(r)

(* The target of a request as its column stores it; CHECK (target_amount > *)
(* 0) is of that, the service's check of what was asked for.               *)
NewTarget(r) == Round(request[r].target)

AddGoal(r) ==
  /\ Starts(r, "goal")
  /\ \/ /\ Respond(r, "invalid")
        /\ WritesNothing
        /\ UNCHANGED goals
     \/ /\ request[r].target > 0 /\ NewTarget(r) = 0
        /\ Respond(r, "error")
        /\ WritesNothing
        /\ UNCHANGED goals
     \/ /\ NewTarget(r) > 0
        /\ goals' = [id \in DOMAIN goals \cup {r} |->
             IF id = r THEN NewGoal(User(r), NewTarget(r)) ELSE goals[id]]
        /\ Respond(r, "ok")
        /\ Writes(r)

(* The target changes and the status does not.                             *)
Retarget(r) ==
  /\ Starts(r, "retarget")
  /\ \/ /\ Respond(r, "invalid")
        /\ WritesNothing
        /\ UNCHANGED goals
     \/ /\ request[r].target > 0 /\ ~(HasGoal(r) /\ NewTarget(r) > 0)
        /\ Respond(r, "error")
        /\ WritesNothing
        /\ UNCHANGED goals
     \/ /\ HasGoal(r) /\ NewTarget(r) > 0
        /\ goals' = [goals EXCEPT ![request[r].goal].target = NewTarget(r)]
        /\ Respond(r, "ok")
        /\ Writes(r)

(* Mutant: the current amount after the SET taken for the one before it.   *)
StatusBefore(g, amount) == IF g.current >= g.target THEN "completed" ELSE g.status

(* Mutant: a goal short of its target is active.                           *)
StatusRecomputed(g, amount) ==
  IF g.current + amount >= g.target THEN "completed" ELSE "active"

(* CASE WHEN current_amount + $1 >= target_amount THEN 'completed' ELSE    *)
(* status END: decided on the sum as it is, before current_amount stores it*)
(* in whole cents.                                                         *)
NewStatus(g, amount) == IF g.current + amount >= g.target THEN "completed" ELSE g.status

Contribute(r) ==
  /\ Starts(r, "contribute")
  /\ \/ /\ request[r].amount = 0
        /\ Respond(r, "invalid")
        /\ WritesNothing
        /\ UNCHANGED goals
     \/ /\ request[r].amount > 0 /\ ~HasGoal(r)
        /\ Respond(r, "error")
        /\ WritesNothing
        /\ UNCHANGED goals
     \/ /\ request[r].amount > 0 /\ HasGoal(r)
        /\ goals' = [goals EXCEPT
             ![request[r].goal].current = Round(@ + request[r].amount),
             ![request[r].goal].status = NewStatus(goals[request[r].goal], request[r].amount)]
        /\ Respond(r, "ok")
        /\ Writes(r)

DropGoal(r) ==
  /\ Starts(r, "dropGoal")
  /\ \/ /\ HasGoal(r)
        /\ goals' = Restrict(goals, DOMAIN goals \ {request[r].goal})
        /\ Respond(r, "ok")
        /\ Writes(r)
     \/ /\ ~HasGoal(r)
        /\ Respond(r, "notFound")
        /\ WritesNothing
        /\ UNCHANGED goals

GoalStep(r) == AddGoal(r) \/ Retarget(r) \/ Contribute(r) \/ DropGoal(r)

Retargeted(g) ==
  \E r \in Requests : Op(r) = "retarget" /\ request[r].goal = g /\ result[r] = "ok"

(* A contribution to goal g that was not in whole cents.                   *)
FinePaid(g) ==
  \E r \in Requests :
    /\ Op(r) = "contribute" /\ request[r].goal = g /\ result[r] = "ok"
    /\ request[r].amount \notin Cents

(* As long as no update has changed its target, which does not recompute   *)
(* the status, a completed goal has its money, although the status is      *)
(* decided before the amount is rounded; and a goal that has its money is  *)
(* completed, unless a contribution finer than a cent has rounded it up to *)
(* its target, exactly.                                                    *)
StatusTellsTheTruth ==
  \A g \in DOMAIN goals :
    ~Retargeted(g) =>
      /\ goals[g].status = "completed" => goals[g].current >= goals[g].target
      /\ goals[g].status = "active" /\ goals[g].current >= goals[g].target =>
           goals[g].current = goals[g].target /\ FinePaid(g)

(* A goal that was completed stays so, whatever becomes of its target.     *)
CompletionSticks ==
  [][\A g \in DOMAIN goals \cap DOMAIN goals' :
       goals[g].status = "completed" => goals'[g].status = "completed"]_goals
=============================================================================
