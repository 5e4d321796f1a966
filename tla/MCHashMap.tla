----------------------------- MODULE MCHashMap ------------------------------
(* Instances of HashMap: two threads, four keys, two buckets. *)
EXTENDS HashMap, TLC

SmallKeys == 1 .. 4

\* Both threads insert key 2.
Added == ("one" :> <<2, 4>>) @@ ("two" :> <<2, 3, 1>>)

\* As in hmtest, the keys deleted are keys that were inserted.
RemovedPresent == ("one" :> <<2, 1>>) @@ ("two" :> <<3>>)

\* One thread deletes a key that nobody inserted.
AddedTwo      == ("one" :> <<2>>) @@ ("two" :> <<3>>)
RemovedAbsent == ("one" :> <<1>>) @@ ("two" :> <<>>)

=============================================================================
