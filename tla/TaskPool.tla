------------------------------ MODULE TaskPool ------------------------------
(***************************************************************************)
(* What ThreadPool promises its callers, whatever the number of worker     *)
(* threads and however they are scheduled: a submitted task is started     *)
(* once, in submission order, its future becomes ready with a value or     *)
(* the exception the task threw, and the pool closes only when no task is  *)
(* left.  (The class comment and submit() of thread_pool.hpp.)             *)
(***************************************************************************)
EXTENDS Sequences

CONSTANT Task

VARIABLES
  queue,    (* accepted tasks, not started yet, oldest first             *)
  phase,    (* task -> "new" | "queued" | "running" | "value" |          *)
            (*         "exception"                                       *)
  open      (* FALSE once the pool has been destroyed                    *)

vars == <<queue, phase, open>>

Init ==
  /\ queue = <<>>
  /\ phase = [t \in Task |-> "new"]
  /\ open = TRUE

Submit(t) ==
  /\ open = TRUE
  /\ phase[t] = "new"
  /\ phase' = [phase EXCEPT ![t] = "queued"]
  /\ queue' = Append(queue, t)
  /\ UNCHANGED open

Start ==
  /\ queue # <<>>
  /\ phase' = [phase EXCEPT ![Head(queue)] = "running"]
  /\ queue' = Tail(queue)
  /\ UNCHANGED open

Settle(t) ==
  /\ phase[t] = "running"
  /\ \E outcome \in {"value", "exception"} :
       phase' = [phase EXCEPT ![t] = outcome]
  /\ UNCHANGED <<queue, open>>

Close ==
  /\ open = TRUE
  /\ \A t \in Task : phase[t] \notin {"queued", "running"}
  /\ open' = FALSE
  /\ UNCHANGED <<queue, phase>>

Next ==
  \/ \E t \in Task : Submit(t) \/ Settle(t)
  \/ Start
  \/ Close

Fairness == WF_vars(Start) /\ \A t \in Task : WF_vars(Settle(t))

Safety == Init /\ [][Next]_vars

Spec == Safety /\ Fairness
=============================================================================
