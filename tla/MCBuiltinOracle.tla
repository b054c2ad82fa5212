-------------------------- MODULE MCBuiltinOracle --------------------------
(* Instances of BuiltinOracle for TLC. *)
EXTENDS BuiltinOracle, TLC

\* Requests may leave sub type and currency out.
AllKeys == Keys

\* Requests name everything, or the party alone.
FullOrBareKeys == FullKeys \cup [party : Parties, sub : {Null}, cur : {Null}]

\* Processes of a kind, and participants, are interchangeable.
Symmetry == Permutations(Fsps) \cup Permutations(Handlers)
=============================================================================
