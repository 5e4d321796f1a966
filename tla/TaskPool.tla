------------------------------ MODULE TaskPool ------------------------------
(***************************************************************************)
(* What the task farm of lab8 promises: NTasks tasks are submitted in      *)
(* order, and the answer to every submitted task is collected once, in any *)
(* order.  Workers, rings and semaphores do not appear.                    *)
(***************************************************************************)
EXTENDS Integers

CONSTANT NTasks

VARIABLES
  submitted,  \* tasks 0 .. submitted - 1 were submitted
  answered,   \* number of answers collected
  done        \* tasks whose answer was collected

Init == submitted = 0 /\ answered = 0 /\ done = {}

Submit ==
  /\ submitted < NTasks
  /\ submitted' = submitted + 1
  /\ UNCHANGED <<answered, done>>

Collect(q) ==
  /\ q < submitted
  /\ q \notin done
  /\ answered' = answered + 1
  /\ done' = done \union {q}
  /\ UNCHANGED submitted

Next == Submit \/ \E q \in 0 .. NTasks - 1 : Collect(q)

Spec == Init /\ [][Next]_<<submitted, answered, done>>

=============================================================================
