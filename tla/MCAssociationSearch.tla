------------------------ MODULE MCAssociationSearch ------------------------
(* Instances of AssociationSearch for TLC. *)
EXTENDS AssociationSearch

CONSTANT default

\* Around a limit of 2 and a largest page size of 4: all that are smaller or
\* equal, one that is larger, the default, and sizes that make no sense.
Sizes == {-1, 0, 1, 2, 3, 4, 5, default}

\* With the numbers of the code: the default, and sizes between the limit of
\* the query and the largest.
LargerSizes == {21, 50, 100, default}
=============================================================================
