---------------------------- MODULE AtLeastOnce ----------------------------
(***************************************************************************)
(* What request handling over a partition promises, whatever the handling  *)
(* of a request is: requests are numbered in their order of arrival; a run *)
(* of them that begins right after the last finished one is answered, and  *)
(* that may happen again and again; and requests are finished, in order,   *)
(* only when all of them have been answered.  EventHandling implements it. *)
(***************************************************************************)
EXTENDS Naturals, Sequences, Functions

VARIABLES
  requests, \* how many requests have arrived
  finished, \* how many of them will not be looked at again
  answers   \* the requests that were answered, in the order of the answers

Init == requests = 0 /\ finished = 0 /\ answers = <<>>

Arrive ==
  /\ requests' = requests + 1
  /\ UNCHANGED <<finished, answers>>

\* The n requests after the last finished one are answered.
Reply(n) ==
  /\ finished + n <= requests
  /\ answers' = answers \o [i \in 1..n |-> finished + i]
  /\ UNCHANGED <<requests, finished>>

\* The first k requests are finished.
Finish(k) ==
  /\ k \in finished..requests
  /\ (finished + 1)..k \subseteq Range(answers)
  /\ finished' = k
  /\ UNCHANGED <<requests, answers>>

Next == Arrive \/ \E n \in 1..(requests - finished) : Reply(n) \/ Finish(finished + n)

Spec == Init /\ [][Next]_<<requests, finished, answers>>
=============================================================================
