-------------------------- MODULE MCEventHandling --------------------------
(* Instances of EventHandling for TLC. *)
EXTENDS EventHandling

CONSTANTS f1, f2, alice

M(kind, requester, destination) ==
  [kind |-> kind, requester |-> requester, destination |-> destination, party |-> alice]

\* One message of every kind; the query without a destination.
AllKinds ==
  {M("partyQuery", f1, Null), M("participantQuery", f1, Null),
   M("partyInfo", f2, f1), M("partyRejected", f1, Null), M("participantRejected", f1, f1),
   M("associate", f1, Null), M("disassociate", f1, Null),
   M("unknown", f1, Null), M("malformed", f1, Null)}

\* Messages that change associations, one that cannot be handled.
FewKinds ==
  {M("associate", f1, Null), M("disassociate", f1, Null), M("associate", f2, Null),
   M("malformed", f1, Null)}
=============================================================================
