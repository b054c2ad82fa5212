-------------------------- MODULE AssociationStore --------------------------
(***************************************************************************)
(* What an oracle of the service promises whoever calls it in turn: a set  *)
(* of associations, in which a look-up finds what is held and a change has *)
(* taken effect, once and for good, when its call is answered.  It has no  *)
(* cache and no copies.  It promises nothing more once callers have        *)
(* interfered with each other or a server has failed.                      *)
(***************************************************************************)
CONSTANTS
  Fsps,   \* participant ids
  Keys,   \* what a party is looked up by
  Null,   \* not a participant
  Procs   \* callers

VARIABLES
  held,   \* the associations
  calls,  \* each caller's call in progress, or the last one's answer
  orderly \* whether callers and servers have met their part so far

vars == <<held, calls, orderly>>

InProgress == {"lookUp", "associate", "disassociate"}

Idle(p) == calls[p].is \notin InProgress

\* A look-up names a key only.
Asked(k) == [fsp |-> Null, key |-> k]

Init ==
  /\ held = {}
  /\ \E k \in Keys : calls = [p \in Procs |-> [is |-> "ready", of |-> Asked(k)]]
  /\ orderly = TRUE

SetCall(p, i, a) == calls' = [calls EXCEPT ![p] = [is |-> i, of |-> a]]

\* What the call i about a may do to the associations while it is in progress.
Serve(i, a) ==
  \/ UNCHANGED held
  \/ i = "associate" /\ held' = held \cup {a}
  \/ i = "disassociate" /\ held' = held \ {a}

\* A call arrives that is not answered at once; an association that is held
\* already is refused.
Begin(p, i, a) ==
  /\ Idle(p)
  /\ i = "associate" => a \notin held
  /\ SetCall(p, i, a)
  /\ Serve(i, a)

Serving(p) == ~Idle(p) /\ Serve(calls[p].is, calls[p].of) /\ UNCHANGED calls

Found(p, a) ==
  /\ Idle(p) \/ calls[p] = [is |-> "lookUp", of |-> Asked(a.key)]
  /\ a \in held
  /\ SetCall(p, "found", a)
  /\ UNCHANGED held

NotFound(p, k) ==
  /\ calls[p] = [is |-> "lookUp", of |-> Asked(k)]
  /\ \A a \in held : a.key # k
  /\ SetCall(p, "notFound", Asked(k))
  /\ UNCHANGED held

Exists(p, a) == Idle(p) /\ a \in held /\ SetCall(p, "exists", a) /\ UNCHANGED held

Stored(p, a) ==
  /\ calls[p] = [is |-> "associate", of |-> a]
  /\ a \in held
  /\ SetCall(p, "stored", a)
  /\ UNCHANGED held

Removed(p, a) ==
  /\ calls[p] = [is |-> "disassociate", of |-> a]
  /\ SetCall(p, "removed", a)
  /\ held' = held \ {a}

Step ==
  \E p \in Procs :
    \/ Serving(p)
    \/ \E k \in Keys : Begin(p, "lookUp", Asked(k)) \/ NotFound(p, k)
    \/ \E a \in [fsp : Fsps, key : Keys] :
         \/ Begin(p, "associate", a) \/ Begin(p, "disassociate", a)
         \/ Found(p, a) \/ Exists(p, a) \/ Stored(p, a) \/ Removed(p, a)

Next == orderly' => orderly /\ Step

Spec == Init /\ [][Next]_vars
=============================================================================
