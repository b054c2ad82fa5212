------------------------- MODULE AssociationSearch -------------------------
(***************************************************************************)
(* Searching associations page by page: a client calls                     *)
(* getAllOracleAssociations for one page after the other until it has as   *)
(* many as the last answer says there are.  For each page the aggregate    *)
(* goes through the registered oracles, and the built-in one runs two      *)
(* queries, one for the items and one for their number, while associations *)
(* that match the search are stored and removed by others.                 *)
(*                                                                         *)
(* The entries that match are numbered in the order of the query.  That it *)
(* orders entries in the same way each time is assumed of MongoDB: the     *)
(* field the code sorts by is in no document.                              *)
(***************************************************************************)
EXTENDS Integers, FiniteSets, Sequences

CONSTANTS
  MaxEntries,        \* bound: entries that may match
  MaxOracles,        \* bound: registered oracles
  MaxChanges,        \* bound: entries stored and removed while a client pages
  PageSizes,         \* page sizes clients ask for
  DefaultSize,       \* stands for a request without a page size
  MaxEntriesPerPage, \* MAX_ENTRIES_PER_PAGE
  Limit,             \* the limit of the query
  Faults             \* whether queries may fail

ASSUME SizeAssumption == PageSizes \subseteq Int \cup {DefaultSize} /\ DefaultSize \notin Int
ASSUME BoundAssumption ==
  /\ {MaxEntries, MaxOracles, MaxChanges} \subseteq Nat
  /\ {MaxEntriesPerPage, Limit} \subseteq Nat \ {0}
  /\ Faults \in BOOLEAN

VARIABLES
  entries,    \* the entries that match the search
  oracles,    \* per registered oracle, the adapter _getOracleAdapter has for it
  requested,  \* the page size the client asks for
  index,      \* the page it fetches next
  turn,       \* the oracle the aggregate is searching
  answer,     \* what that search answers
  seen,       \* the entries the client was given
  pc,         \* "items", "count", "more", "done", or "error"
  stayed,     \* history: entries that have matched all along
  removals,   \* history: how often an entry was removed
  swallowed,  \* history: a query has failed and no one was told
  changes

searching == <<oracles, requested, index, turn, answer, seen, pc, swallowed>>
vars == <<entries, searching, stayed, removals, changes>>

Adapters == {"builtin", "remote-http", "none"}

NoAnswer == [items |-> {}, totalPages |-> 0]

\* pageSize = Math.min(pageSize, MAX_ENTRIES_PER_PAGE)
PageSize ==
  IF requested = DefaultSize \/ requested > MaxEntriesPerPage
  THEN MaxEntriesPerPage ELSE requested

Rank(e) == Cardinality({d \in entries : d <= e})

\* skip and limit of the query
Items(i, size) == {e \in entries : i * size < Rank(e) /\ Rank(e) <= i * size + Limit}

\* Mutant of TotalPages: the last, partly filled page is not counted.
TotalPagesRoundedDown(size) == IF size <= 0 THEN 0 ELSE Cardinality(entries) \div size

\* Mutant of TotalPages: one page too many.
TotalPagesPlusOne(size) == IF size <= 0 THEN 0 ELSE Cardinality(entries) \div size + 1

\* Math.ceil(total / pageSize); a size that is not positive gives no usable number
TotalPages(size) == IF size <= 0 THEN 0 ELSE (Cardinality(entries) + size - 1) \div size

----------------------------------------------------------------------------
Init ==
  /\ \E n \in 0..MaxEntries : entries = 1..n
  /\ oracles \in UNION {[1..n -> Adapters] : n \in 0..MaxOracles}
  /\ requested \in PageSizes
  /\ index = 0 /\ turn = 1 /\ answer = NoAnswer /\ seen = {} /\ pc = "items"
  /\ stayed = entries /\ removals = 0 /\ swallowed = FALSE /\ changes = 0

\* The search of an oracle has its answer, and the next oracle is searched.
Answers(a) ==
  /\ answer' = a
  /\ turn' = turn + 1
  /\ pc' = "items"

\* Mutant of FindItems: the next oracle is turned to before the entries are counted.
FindItemsAndTurn ==
  /\ pc = "items" /\ turn <= Len(oracles)
  /\ oracles[turn] = "builtin"
  /\ index * PageSize >= 0
  /\ answer' = [NoAnswer EXCEPT !.items = Items(index, PageSize)]
  /\ turn' = turn + 1
  /\ pc' = "count"
  /\ UNCHANGED <<entries, oracles, requested, index, seen, swallowed, stayed, removals, changes>>

\* searchAssociations of the built-in oracle: a query that fails, a negative
\* skip among the reasons, is logged, and answered like a search without result.
FindItems ==
  /\ pc = "items" /\ turn <= Len(oracles)
  /\ oracles[turn] = "builtin"
  /\ \/ /\ index * PageSize >= 0
        /\ answer' = [NoAnswer EXCEPT !.items = Items(index, PageSize)]
        /\ pc' = "count"
        /\ UNCHANGED <<turn, swallowed>>
     \/ Faults /\ swallowed' = TRUE /\ Answers(NoAnswer)
     \/ index * PageSize < 0 /\ Answers(NoAnswer) /\ UNCHANGED swallowed
  /\ UNCHANGED <<entries, oracles, requested, index, seen, stayed, removals, changes>>

\* Its second query; when it fails the items are kept.
CountEntries ==
  /\ pc = "count"
  /\ \/ /\ Answers([answer EXCEPT !.totalPages = TotalPages(PageSize)])
        /\ UNCHANGED swallowed
     \/ Faults /\ swallowed' = TRUE /\ Answers(answer)
  /\ UNCHANGED <<entries, oracles, requested, index, seen, stayed, removals, changes>>

\* The request fails: an oracle has no adapter, or its adapter is for a remote
\* oracle, which does not implement the search, or the finder's query fails.
SearchFails ==
  /\ pc = "items" /\ turn <= Len(oracles)
  /\ oracles[turn] # "builtin" \/ Faults
  /\ pc' = "error"
  /\ UNCHANGED <<entries, oracles, requested, index, turn, answer, seen, swallowed,
                 stayed, removals, changes>>

\* After the last oracle its answer, and none of the earlier ones, is returned.
\* Where no oracle is registered there is no number of pages in it.
Respond ==
  /\ pc = "items" /\ turn > Len(oracles)
  /\ seen' = seen \cup answer.items
  /\ index' = index + 1
  /\ pc' = IF index' < answer.totalPages THEN "more" ELSE "done"
  /\ UNCHANGED <<entries, oracles, requested, turn, answer, swallowed, stayed, removals, changes>>

\* The client asks for the next page.
Request ==
  /\ pc = "more"
  /\ turn' = 1 /\ answer' = NoAnswer /\ pc' = "items"
  /\ UNCHANGED <<entries, oracles, requested, index, seen, swallowed, stayed, removals, changes>>

\* Others store and remove associations that match, anywhere in the order.
Store(e) ==
  /\ e \notin entries /\ changes < MaxChanges
  /\ entries' = entries \cup {e}
  /\ changes' = changes + 1
  /\ UNCHANGED <<searching, stayed, removals>>

Remove(e) ==
  /\ e \in entries /\ changes < MaxChanges
  /\ entries' = entries \ {e}
  /\ stayed' = stayed \ {e}
  /\ removals' = removals + 1
  /\ changes' = changes + 1
  /\ UNCHANGED searching

Next ==
  \/ FindItems \/ CountEntries \/ SearchFails \/ Respond \/ Request
  \/ \E e \in 1..MaxEntries : Store(e) \/ Remove(e)

Spec == Init /\ [][Next]_vars

----------------------------------------------------------------------------
(* Properties *)

\* Every variable has its type, and entries are counted in the turn of the
\* oracle whose items were found.
TypeOK ==
  /\ entries \subseteq 1..MaxEntries /\ stayed \subseteq entries /\ seen \subseteq 1..MaxEntries
  /\ oracles \in Seq(Adapters) /\ requested \in PageSizes
  /\ index \in Nat /\ turn \in 1..(Len(oracles) + 1)
  /\ answer \in [items : SUBSET (1..MaxEntries), totalPages : Nat]
  /\ pc \in {"items", "count", "more", "done", "error"}
  /\ changes \in 0..MaxChanges /\ removals \in 0..changes /\ swallowed \in BOOLEAN
  /\ pc = "count" => turn <= Len(oracles)

\* The client has fetched all pages there are, and no query has failed.
AllFetched == pc = "done" /\ oracles # <<>> /\ ~swallowed

\* A client that has fetched all pages has been given every entry ("should
\* handle pagination and limit results correctly").
PagesCover == AllFetched => stayed \subseteq seen

\* So it is for clients that ask for pages no larger than the query's limit,
\* but for the entries that others' removals have moved from a page still to
\* come to one already fetched: one for each removal, however removals and
\* insertions fall between the pages and between the two queries of a page.
MissedBounded ==
  AllFetched /\ requested \in 1..Limit => Cardinality(stayed \ seen) <= removals

\* No page the service counts is empty while nothing is stored or removed,
\* whatever the page size, and however many oracles are searched.
PagesNonEmpty ==
  (pc \in {"more", "done"} /\ changes = 0 /\ ~swallowed /\ index <= answer.totalPages)
    => answer.items # {}
=============================================================================
