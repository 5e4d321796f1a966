--------------------------- MODULE ConcurrentSet ----------------------------
(***************************************************************************)
(* What the locked containers promise to their callers: each call adds one *)
(* value to a set, or removes one, atomically at some moment between the   *)
(* call and the return.                                                    *)
(***************************************************************************)
CONSTANTS Threads, Vals, Idle

VARIABLES
  set,      \* the values in the set
  pending   \* the operation a thread has begun and not effected

Operation == {"add", "remove"} \X Vals

Init == set = {} /\ pending = [t \in Threads |-> Idle]

Call(t, operation) ==
  /\ pending[t] = Idle
  /\ pending' = [pending EXCEPT ![t] = operation]
  /\ UNCHANGED set

Effect(t) ==
  /\ pending[t] \in Operation
  /\ set' = IF pending[t][1] = "add" THEN set \union {pending[t][2]} ELSE set \ {pending[t][2]}
  /\ pending' = [pending EXCEPT ![t] = Idle]

Next == \E t \in Threads : Effect(t) \/ \E operation \in Operation : Call(t, operation)

Spec == Init /\ [][Next]_<<set, pending>>

=============================================================================
