------------------------------ MODULE KeyQueue ------------------------------
(***************************************************************************)
(* What the keyboard buffer promises: a FIFO of at most Capacity keys that *)
(* takes every key offered to it while it has room, discards the key that  *)
(* finds it full, and hands keys out in the order they were accepted.      *)
(*                                                                         *)
(* `event` is the last interaction with the outside world, so that a key   *)
(* silently discarded by a queue with room, or handed out twice, is a step *)
(* this specification does not allow rather than a stuttering step.        *)
(***************************************************************************)
EXTENDS Naturals, Sequences

CONSTANTS Key, Capacity

VARIABLES queue, event

vars == <<queue, event>>

Idle == <<"idle">>

TypeOK ==
    /\ queue \in Seq(Key)
    /\ Len(queue) <= Capacity
    /\ event \in {Idle} \cup ({"offered", "taken"} \X Key)

Init ==
    /\ queue = <<>>
    /\ event = Idle

\* The interrupt side offers a key.
Offer(k) ==
    /\ queue' = IF Len(queue) < Capacity THEN Append(queue, k) ELSE queue
    /\ event' = <<"offered", k>>

\* The reader takes the oldest key.
Take ==
    /\ queue # <<>>
    /\ queue' = Tail(queue)
    /\ event' = <<"taken", Head(queue)>>

Next ==
    \/ \E k \in Key : Offer(k)
    \/ Take

Spec == Init /\ [][Next]_vars
=============================================================================
