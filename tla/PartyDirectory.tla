--------------------------- MODULE PartyDirectory ---------------------------
(***************************************************************************)
(* What a directory of parties that outlives its process promises: an      *)
(* entry is added only where there is none, and taken out again; and       *)
(* whatever is lost when the process ends, what it goes on with is, as a   *)
(* whole, a directory that it has been before.  RemoteOracle implements    *)
(* it.                                                                     *)
(***************************************************************************)
CONSTANTS Keys, Entries, None

VARIABLES
  directory, \* the entry under each key, or None
  past,      \* the directories there have been
  running    \* whether there is a process that keeps it

Init ==
  /\ directory = [k \in Keys |-> None]
  /\ past = {directory}
  /\ running \in BOOLEAN

Becomes(d) ==
  /\ running
  /\ directory' = d /\ past' = past \cup {d}
  /\ UNCHANGED running

Enter(k, e) == directory[k] = None /\ Becomes([directory EXCEPT ![k] = e])

TakeOut(k) == Becomes([directory EXCEPT ![k] = None])

\* The process ends, or starts again.
FallBack ==
  /\ running' = ~running
  /\ directory' \in past
  /\ UNCHANGED past

Next ==
  \/ \E k \in Keys, e \in Entries : Enter(k, e)
  \/ \E k \in Keys : TakeOut(k)
  \/ FallBack

Spec == Init /\ [][Next]_<<directory, past, running>>
=============================================================================
