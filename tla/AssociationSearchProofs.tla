----------------------- MODULE AssociationSearchProofs -----------------------
(***************************************************************************)
(* What AssociationSearch guarantees for any numbers of entries, oracles   *)
(* and changes, and for any page sizes and limits.                         *)
(***************************************************************************)
EXTENDS AssociationSearch, FiniteSetTheorems, TLAPS

----------------------------------------------------------------------------
(* Ranks *)

\* The rank of e among the entries E, and the members of T with the first n
\* ranks.  They have the entries as a parameter, to compare two states.
RankIn(E, e) == Cardinality({d \in E : d <= e})
First(E, T, n) == {e \in T : RankIn(E, e) <= n}

\* A rank is a number, and at most that of the entries.
LEMMA RankType ==
  ASSUME NEW E, IsFiniteSet(E), NEW e
  PROVE  /\ IsFiniteSet({d \in E : d <= e})
         /\ RankIn(E, e) \in Nat /\ Cardinality(E) \in Nat
         /\ RankIn(E, e) <= Cardinality(E)
<1>1. {d \in E : d <= e} \in SUBSET E
  OBVIOUS
<1>2. QED
  BY <1>1, FS_Subset, FS_CardinalityType DEF RankIn

\* Different entries have different ranks.
LEMMA RankStrict ==
  ASSUME NEW E \in SUBSET Nat, IsFiniteSet(E), NEW d \in E, NEW e \in E, d < e
  PROVE  RankIn(E, d) < RankIn(E, e)
<1> DEFINE D == {x \in E : x <= d}
           S == {x \in E : x <= e}
<1>0. d \in Nat /\ e \in Nat /\ \A x \in E : x \in Nat
  OBVIOUS
<1>1. D \in SUBSET S /\ e \in S /\ e \notin D
  <2>1. ASSUME NEW x \in E, x <= d PROVE x <= e
    <3>1. x \in Nat /\ d \in Nat /\ e \in Nat
      BY <1>0
    <3>2. QED
      BY <2>1, <3>1
  <2>2. e \in S
    BY <1>0
  <2>3. e \notin D
    BY <1>0
  <2>4. QED
    BY <2>1, <2>2, <2>3
<1>2. IsFiniteSet(S) /\ RankIn(E, d) \in Nat /\ RankIn(E, e) \in Nat
  BY RankType
<1>3. Cardinality(D) <= Cardinality(S) /\ Cardinality(D) # Cardinality(S)
  BY <1>1, <1>2, FS_Subset
<1>4. QED
  BY <1>2, <1>3 DEF RankIn

\* An entry that is stored lowers no rank, one that is removed lowers each
\* by one at most.
LEMMA RankStore ==
  ASSUME NEW E, IsFiniteSet(E), NEW x, NEW e
  PROVE  RankIn(E, e) <= RankIn(E \cup {x}, e)
<1>1. IsFiniteSet(E \cup {x})
  BY FS_AddElement
<1>2. {d \in E : d <= e} \in SUBSET {d \in E \cup {x} : d <= e}
  OBVIOUS
<1>3. IsFiniteSet({d \in E \cup {x} : d <= e})
  BY <1>1, RankType
<1>4. QED
  BY <1>2, <1>3, FS_Subset DEF RankIn

LEMMA RankRemove ==
  ASSUME NEW E, IsFiniteSet(E), NEW x, NEW e
  PROVE  RankIn(E, e) <= RankIn(E \ {x}, e) + 1
<1> DEFINE S == {d \in E : d <= e}
<1>1. {d \in E \ {x} : d <= e} = S \ {x}
  OBVIOUS
<1>2. IsFiniteSet(S) /\ Cardinality(S) \in Nat
  BY RankType DEF RankIn
<1>3. Cardinality(S \ {x}) = IF x \in S THEN Cardinality(S) - 1 ELSE Cardinality(S)
  BY <1>2, FS_RemoveElement
<1>4. Cardinality(S) <= Cardinality(S \ {x}) + 1
  BY <1>2, <1>3
<1>5. QED
  BY <1>1, <1>4 DEF RankIn

\* So storing an entry brings none of T among the first n, and removing one
\* brings one at most.
LEMMA FirstStore ==
  ASSUME NEW E, IsFiniteSet(E), NEW x, NEW T \in SUBSET E, NEW n \in Int
  PROVE  Cardinality(First(E \cup {x}, T, n)) <= Cardinality(First(E, T, n))
<1>1. \A e : RankIn(E, e) \in Nat /\ RankIn(E \cup {x}, e) \in Nat
  BY RankType, FS_AddElement
<1>2. First(E \cup {x}, T, n) \in SUBSET First(E, T, n)
  BY <1>1, RankStore DEF First
<1>3. IsFiniteSet(First(E, T, n))
  BY FS_Subset DEF First
<1>4. QED
  BY <1>2, <1>3, FS_Subset

LEMMA FirstRemove ==
  ASSUME NEW E \in SUBSET Nat, IsFiniteSet(E), NEW x, NEW T \in SUBSET E, NEW n \in Int
  PROVE  Cardinality(First(E \ {x}, T \ {x}, n)) <= Cardinality(First(E, T, n)) + 1
<1> DEFINE F == First(E, T, n)
           G == First(E \ {x}, T \ {x}, n)
<1>1. \A e : RankIn(E, e) \in Nat /\ RankIn(E \ {x}, e) \in Nat
  BY RankType, FS_RemoveElement
<1>2. IsFiniteSet(F) /\ Cardinality(F) \in Nat
  BY FS_Subset, FS_CardinalityType DEF First
<1>3. \A e \in G : e \in F \/ (e \in T /\ RankIn(E, e) = n + 1)
  <2>1. ASSUME NEW e \in G PROVE e \in F \/ (e \in T /\ RankIn(E, e) = n + 1)
    <3>1. e \in T /\ RankIn(E \ {x}, e) <= n
      BY DEF First
    <3>2. RankIn(E, e) <= n + 1
      BY <1>1, <3>1, RankRemove
    <3>3. QED
      BY <1>1, <3>1, <3>2 DEF First
  <2>2. QED
    BY <2>1
<1>4. CASE G \subseteq F
  <2>1. IsFiniteSet(G) /\ Cardinality(G) <= Cardinality(F)
    BY <1>2, <1>4, FS_Subset
  <2>2. Cardinality(G) \in Nat
    BY <2>1, FS_CardinalityType
  <2>3. QED
    BY <1>2, <2>1, <2>2
<1>5. CASE ~(G \subseteq F)
  <2>1. PICK a \in G : a \in T /\ RankIn(E, a) = n + 1
    BY <1>3, <1>5
  <2>2. ASSUME NEW e \in T, RankIn(E, e) = n + 1 PROVE e = a
    <3>1. e \in Nat /\ a \in Nat /\ e \in E /\ a \in E
      BY <2>1
    <3>2. CASE e < a
      BY <1>1, <2>1, <2>2, <3>1, <3>2, RankStrict
    <3>3. CASE a < e
      BY <1>1, <2>1, <2>2, <3>1, <3>3, RankStrict
    <3>4. QED
      BY <3>1, <3>2, <3>3
  <2>3. G \in SUBSET (F \cup {a})
    BY <1>3, <2>2
  <2>4. /\ IsFiniteSet(F \cup {a}) /\ Cardinality(F \cup {a}) \in Nat
        /\ Cardinality(F \cup {a}) <= Cardinality(F) + 1
    <3>1. /\ IsFiniteSet(F \cup {a})
          /\ Cardinality(F \cup {a}) = IF a \in F THEN Cardinality(F) ELSE Cardinality(F) + 1
      BY <1>2, FS_AddElement
    <3>2. QED
      BY <1>2, <3>1, FS_CardinalityType
  <2>5. IsFiniteSet(G) /\ Cardinality(G) <= Cardinality(F \cup {a})
    BY <2>3, <2>4, FS_Subset
  <2>6. Cardinality(G) \in Nat
    BY <2>5, FS_CardinalityType
  <2>7. QED
    BY <1>2, <2>4, <2>5, <2>6
<1>6. QED
  BY <1>4, <1>5

\* The entries fill the pages that are counted, and the last one is not empty.
LEMMA CountedPages ==
  ASSUME NEW n \in Nat, NEW s \in Nat \ {0}, NEW q, q = (n + s - 1) \div s
  PROVE  q \in Nat /\ n <= q * s /\ (q - 1) * s < n
BY SMT

----------------------------------------------------------------------------
(* TypeOK *)

\* The page size is positive and within the limit for clients that ask for
\* no more than the limit.
LEMMA SizeType ==
  ASSUME TypeOK
  PROVE  /\ PageSize \in Int
         /\ requested \in 1..Limit => PageSize \in Nat \ {0} /\ PageSize <= Limit
BY SizeAssumption, BoundAssumption DEF TypeOK, PageSize

\* There are finitely many entries, and what is about them is finite as well.
LEMMA EntriesFinite ==
  ASSUME TypeOK
  PROVE  /\ entries \in SUBSET Nat /\ IsFiniteSet(entries) /\ Cardinality(entries) \in Nat
         /\ stayed \in SUBSET entries
         /\ \A T : T \subseteq entries => IsFiniteSet(T) /\ Cardinality(T) \in Nat
<1>0. MaxEntries \in Int /\ 1..MaxEntries \subseteq Nat
  BY BoundAssumption
<1>1. IsFiniteSet(1..MaxEntries) /\ 1..MaxEntries \subseteq Nat
  BY <1>0, FS_Interval
<1>2. entries \in SUBSET (1..MaxEntries) /\ stayed \in SUBSET entries
  BY DEF TypeOK
<1>3. \A T \in SUBSET (1..MaxEntries) : IsFiniteSet(T) /\ Cardinality(T) \in Nat
  BY <1>1, FS_Subset, FS_CardinalityType
<1>4. QED
  BY <1>1, <1>2, <1>3

LEMMA TotalType == ASSUME TypeOK PROVE TotalPages(PageSize) \in Nat
<1>1. CASE PageSize <= 0
  BY <1>1 DEF TotalPages
<1>2. CASE ~(PageSize <= 0)
  <2>1. PageSize \in Nat \ {0} /\ Cardinality(entries) \in Nat
    BY <1>2, SizeType, EntriesFinite
  <2>2. QED
    BY <1>2, <2>1, CountedPages DEF TotalPages
<1>3. QED
  BY <1>1, <1>2

LEMMA InitType == Init => TypeOK
<1> SUFFICES ASSUME Init PROVE TypeOK
  OBVIOUS
<1>1. PICK n \in 0..MaxEntries : entries = 1..n
  BY DEF Init
<1>2. entries \subseteq 1..MaxEntries
  BY <1>1, BoundAssumption
<1>3. oracles \in Seq(Adapters) /\ Len(oracles) \in Nat
  BY BoundAssumption DEF Init
<1>4. answer \in [items : SUBSET (1..MaxEntries), totalPages : Nat]
  BY DEF Init, NoAnswer
<1>5. turn \in 1..(Len(oracles) + 1) /\ changes \in 0..MaxChanges /\ removals \in 0..changes
  BY <1>3, BoundAssumption DEF Init
<1>6. QED
  BY <1>2, <1>3, <1>4, <1>5 DEF Init, TypeOK

\* What an answer is, the program moves from one oracle to the next.
LEMMA AnswersType ==
  ASSUME TypeOK, turn <= Len(oracles), NEW a \in [items : SUBSET (1..MaxEntries), totalPages : Nat],
         Answers(a), swallowed' \in BOOLEAN,
         UNCHANGED <<entries, oracles, requested, index, seen, stayed, removals, changes>>
  PROVE  TypeOK'
BY DEF TypeOK, Answers

LEMMA NextType == TypeOK /\ [Next]_vars => TypeOK'
<1> SUFFICES ASSUME TypeOK, [Next]_vars PROVE TypeOK'
  OBVIOUS
<1>0. Len(oracles) \in Nat /\ NoAnswer \in [items : SUBSET (1..MaxEntries), totalPages : Nat]
  BY DEF TypeOK, NoAnswer
<1>1. CASE FindItems
  <2>1. Items(index, PageSize) \in SUBSET (1..MaxEntries)
    BY DEF TypeOK, Items
  <2>2. CASE answer' = [NoAnswer EXCEPT !.items = Items(index, PageSize)] /\ pc' = "count"
             /\ UNCHANGED <<turn, swallowed>>
    BY <1>1, <2>1, <2>2 DEF FindItems, TypeOK, NoAnswer
  <2>3. CASE Answers(NoAnswer) /\ swallowed' \in BOOLEAN
    BY <1>0, <1>1, <2>3, AnswersType DEF FindItems
  <2>4. QED
    BY <1>1, <2>2, <2>3 DEF FindItems, TypeOK
<1>2. CASE CountEntries
  <2>1. [answer EXCEPT !.totalPages = TotalPages(PageSize)]
          \in [items : SUBSET (1..MaxEntries), totalPages : Nat]
    BY TotalType DEF TypeOK
  <2>2. QED
    BY <1>2, <2>1, AnswersType DEF CountEntries, TypeOK
<1>3. CASE SearchFails
  BY <1>3 DEF SearchFails, TypeOK
<1>4. CASE Respond
  <2>1. seen' \subseteq 1..MaxEntries /\ index' \in Nat /\ pc' \in {"more", "done"}
    <3>1. seen' = seen \cup answer.items /\ index' = index + 1 /\ pc' \in {"more", "done"}
      BY <1>4 DEF Respond
    <3>2. answer.items \subseteq 1..MaxEntries /\ seen \subseteq 1..MaxEntries /\ index \in Nat
      BY DEF TypeOK
    <3>3. index' \in Nat
      BY <3>1, <3>2
    <3>4. seen' \subseteq 1..MaxEntries
      BY <3>1, <3>2
    <3>5. QED
      BY <3>1, <3>3, <3>4
  <2>2. UNCHANGED <<entries, oracles, requested, turn, answer, swallowed, stayed, removals, changes>>
    BY <1>4 DEF Respond
  <2>3. QED
    BY <2>1, <2>2 DEF TypeOK
<1>5. CASE Request
  BY <1>0, <1>5 DEF Request, TypeOK
<1>6. ASSUME NEW e \in 1..MaxEntries, Store(e) PROVE TypeOK'
  BY <1>6, BoundAssumption DEF Store, TypeOK, searching
<1>7. ASSUME NEW e \in 1..MaxEntries, Remove(e) PROVE TypeOK'
  BY <1>7, BoundAssumption DEF Remove, TypeOK, searching
<1>8. CASE UNCHANGED vars
  BY <1>8 DEF vars, searching, TypeOK
<1>9. QED
  BY <1>1, <1>2, <1>3, <1>4, <1>5, <1>6, <1>7, <1>8 DEF Next

\* Every variable of a search has its type, and entries are counted in the
\* turn of the oracle whose items were found, for any numbers of entries,
\* oracles and changes.
THEOREM TypeCorrect == Spec => []TypeOK
BY InitType, NextType, PTL DEF Spec

----------------------------------------------------------------------------
(* MissedBounded *)

\* The entries that have matched all along, are among the first n, and are
\* not among the given ones.
Missed(given, n) == First(entries, stayed \ given, n)

\* There is an oracle, the client asks for a page size within the limit, and no
\* query has failed.
Trusted == oracles # <<>> /\ requested \in 1..Limit /\ ~swallowed

\* The answer is that of a search for the page at hand.
Found == pc = "count" \/ (pc = "items" /\ turn > 1)

\* What the client has missed of the pages it was given is bounded by the
\* removals, and so is what it will have missed with the answer at hand; where
\* that answer counts no further page, this is all that can be missed.
PagesInv ==
  Trusted =>
    /\ pc \in {"items", "count", "more"}
         => Cardinality(Missed(seen, index * PageSize)) <= removals
    /\ Found => Cardinality(Missed(seen \cup answer.items, (index + 1) * PageSize)) <= removals
    /\ (pc = "items" /\ turn > 1 /\ answer.totalPages <= index + 1)
         => Cardinality(stayed \ (seen \cup answer.items)) <= removals
    /\ pc = "done" => Cardinality(stayed \ seen) <= removals

\* With page sizes within the limit, the items of a page are those with the
\* ranks of the page, and perhaps some of the next: who is missed up to the
\* page's end, was missed before the page.
LEMMA ItemsOfPage ==
  ASSUME TypeOK, requested \in 1..Limit
  PROVE  Missed(seen \cup Items(index, PageSize), (index + 1) * PageSize)
           \subseteq Missed(seen, index * PageSize)
<1> DEFINE lo == index * PageSize
           hi == (index + 1) * PageSize
<1>1. PageSize \in Nat /\ PageSize <= Limit /\ index \in Nat /\ Limit \in Nat
  BY SizeType, BoundAssumption DEF TypeOK
<1>2. lo \in Nat /\ hi \in Nat /\ hi <= lo + Limit
  BY <1>1
<1>3. ASSUME NEW e \in Missed(seen \cup Items(index, PageSize), hi)
      PROVE  e \in Missed(seen, lo)
  <2>1. e \in stayed /\ e \notin seen /\ e \notin Items(index, PageSize) /\ RankIn(entries, e) <= hi
    BY <1>3 DEF Missed, First
  <2>2. e \in entries /\ RankIn(entries, e) \in Nat /\ Rank(e) = RankIn(entries, e)
    BY <2>1, EntriesFinite, RankType DEF Rank, RankIn
  <2>3. ~(lo < Rank(e) /\ Rank(e) <= lo + Limit)
    BY <2>1, <2>2 DEF Items
  <2>4. RankIn(entries, e) <= lo
    BY <1>1, <1>2, <2>1, <2>2, <2>3
  <2>5. QED
    BY <2>1, <2>4 DEF Missed, First
<1>4. QED
  BY <1>3

\* What is missed is a finite set.
LEMMA MissedFinite ==
  ASSUME TypeOK, NEW given, NEW n
  PROVE  /\ Missed(given, n) \subseteq stayed \ given
         /\ IsFiniteSet(Missed(given, n)) /\ Cardinality(Missed(given, n)) \in Nat
         /\ IsFiniteSet(stayed \ given) /\ Cardinality(stayed \ given) \in Nat
<1>1. Missed(given, n) \subseteq stayed \ given
  BY DEF Missed, First
<1>2. stayed \ given \subseteq entries /\ Missed(given, n) \subseteq entries
  BY <1>1, EntriesFinite
<1>3. QED
  BY <1>1, <1>2, EntriesFinite

\* A page without a next one has all entries up to its end.
LEMMA LastPage ==
  ASSUME TypeOK, requested \in 1..Limit, TotalPages(PageSize) <= index + 1, NEW given
  PROVE  Missed(given, (index + 1) * PageSize) = stayed \ given
<1> DEFINE q == (Cardinality(entries) + PageSize - 1) \div PageSize
<1>1. PageSize \in Nat \ {0} /\ index \in Nat /\ Cardinality(entries) \in Nat
  BY SizeType, EntriesFinite DEF TypeOK
<1>2. q \in Nat /\ Cardinality(entries) <= q * PageSize /\ q <= index + 1
  <2>1. TotalPages(PageSize) = q
    BY <1>1 DEF TotalPages
  <2>2. QED
    BY <1>1, <2>1, CountedPages
<1>3. q * PageSize <= (index + 1) * PageSize
  BY <1>1, <1>2
<1>4. \A e : RankIn(entries, e) \in Nat /\ RankIn(entries, e) <= Cardinality(entries)
  BY EntriesFinite, RankType
<1>5. (index + 1) * PageSize \in Nat /\ q * PageSize \in Nat
  BY <1>1, <1>2
<1>6. \A e : RankIn(entries, e) <= (index + 1) * PageSize
  <2>1. ASSUME NEW e PROVE RankIn(entries, e) <= (index + 1) * PageSize
    BY <1>1, <1>2, <1>3, <1>4, <1>5
  <2>2. QED
    BY <2>1
<1>7. QED
  BY <1>6 DEF Missed, First

\* The changes of others: a removal lets one more be missed at most, an entry
\* that is stored none.
LEMMA StoreMissed ==
  ASSUME TypeOK, NEW e, Store(e), NEW given, NEW n \in Int
  PROVE  Cardinality(First(entries', stayed' \ given, n)) <= Cardinality(Missed(given, n))
<1>1. stayed' \ given = stayed \ given /\ stayed \ given \in SUBSET entries
      /\ entries' = entries \cup {e}
  BY EntriesFinite DEF Store
<1>2. QED
  BY <1>1, EntriesFinite, FirstStore DEF Missed

LEMMA RemoveMissed ==
  ASSUME TypeOK, NEW e, Remove(e), NEW given, NEW n \in Int
  PROVE  Cardinality(First(entries', stayed' \ given, n)) <= Cardinality(Missed(given, n)) + 1
<1>1. stayed' \ given = (stayed \ given) \ {e} /\ stayed \ given \in SUBSET entries
      /\ entries' = entries \ {e}
  BY EntriesFinite DEF Remove
<1>2. QED
  BY <1>1, EntriesFinite, FirstRemove DEF Missed

LEMMA InitPages == Init => PagesInv
<1> SUFFICES ASSUME Init PROVE PagesInv
  OBVIOUS
<1>1. TypeOK
  BY InitType
<1>2. ASSUME requested \in 1..Limit
      PROVE  Cardinality(Missed(seen, index * PageSize)) <= removals
  <2>1. \A e \in entries : RankIn(entries, e) >= 1
    <3>1. ASSUME NEW e \in entries PROVE RankIn(entries, e) >= 1
      <4>1. e \in {d \in entries : d <= e}
        BY <1>1, EntriesFinite
      <4>2. RankIn(entries, e) # 0 /\ RankIn(entries, e) \in Nat
        BY <1>1, <4>1, EntriesFinite, RankType, FS_EmptySet DEF RankIn
      <4>3. QED
        BY <4>2
    <3>2. QED
      BY <3>1
  <2>2. index * PageSize = 0
    BY <1>1, SizeType DEF Init
  <2>3. Missed(seen, index * PageSize) = {}
    <3>1. \A e \in stayed : e \in entries /\ RankIn(entries, e) \in Nat
      BY <1>1, EntriesFinite, RankType
    <3>2. QED
      BY <2>1, <2>2, <3>1 DEF Missed, First
  <2>4. Cardinality(Missed(seen, index * PageSize)) = 0
    BY <2>3, FS_EmptySet
  <2>5. removals = 0
    BY DEF Init
  <2>6. QED
    BY <2>4, <2>5
<1>3. QED
  BY <1>2 DEF Init, PagesInv, Trusted, Found

LEMMA NextPages == TypeOK /\ PagesInv /\ [Next]_vars => PagesInv'
<1> SUFFICES ASSUME TypeOK, PagesInv, [Next]_vars, Trusted' PROVE PagesInv'
  BY DEF PagesInv
<1>0. Trusted /\ requested' = requested /\ PageSize' = PageSize /\ oracles' = oracles
  <2>1. Trusted /\ requested' = requested /\ oracles' = oracles
    BY DEF Trusted, Next, vars, searching, FindItems, CountEntries, SearchFails, Respond,
           Request, Store, Remove, TypeOK
  <2>2. QED
    BY <2>1 DEF PageSize
<1> DEFINE lo == index * PageSize
           hi == (index + 1) * PageSize
<1>t. /\ requested \in 1..Limit /\ index \in Nat /\ PageSize \in Nat \ {0} /\ lo \in Nat /\ hi \in Nat
      /\ removals \in Nat /\ Len(oracles) \in Nat /\ turn \in Nat
  <2>1. requested \in 1..Limit /\ index \in Nat /\ turn \in Nat
    BY <1>0 DEF Trusted, TypeOK
  <2>2. removals \in Nat /\ Len(oracles) \in Nat
    BY BoundAssumption DEF TypeOK
  <2>3. PageSize \in Nat \ {0}
    BY <2>1, SizeType
  <2>4. QED
    BY <2>1, <2>2, <2>3
<1>1. CASE FindItems
  <2>1. /\ pc = "items" /\ pc' = "count" /\ answer'.items = Items(index, PageSize)
        /\ UNCHANGED <<entries, index, seen, stayed, removals>>
    BY <1>0, <1>1, <1>t DEF FindItems, Trusted, NoAnswer
  <2>2. Cardinality(Missed(seen, lo)) <= removals
    BY <1>0, <2>1 DEF PagesInv
  <2>3. Cardinality(Missed(seen \cup Items(index, PageSize), hi)) <= Cardinality(Missed(seen, lo))
    BY <1>t, ItemsOfPage, MissedFinite, FS_Subset
  <2>4. Cardinality(Missed(seen \cup Items(index, PageSize), hi)) <= removals
    <3>1. Cardinality(Missed(seen, lo)) \in Nat
          /\ Cardinality(Missed(seen \cup Items(index, PageSize), hi)) \in Nat
      BY MissedFinite
    <3>2. QED
      BY <1>t, <2>2, <2>3, <3>1
  <2>5. Missed(seen, lo)' = Missed(seen, lo)
        /\ Missed(seen \cup answer.items, hi)' = Missed(seen \cup Items(index, PageSize), hi)
    BY <1>0, <2>1 DEF Missed
  <2>6. QED
    BY <2>1, <2>2, <2>4, <2>5 DEF PagesInv
<1>2. CASE CountEntries
  <2>1. /\ pc = "count" /\ pc' = "items" /\ answer'.items = answer.items
        /\ answer'.totalPages = TotalPages(PageSize)
        /\ UNCHANGED <<entries, index, seen, stayed, removals>>
    BY <1>0, <1>2 DEF CountEntries, Answers, Trusted, TypeOK
  <2>2. Cardinality(Missed(seen, lo)) <= removals
        /\ Cardinality(Missed(seen \cup answer.items, hi)) <= removals
    BY <1>0, <2>1 DEF PagesInv, Found
  <2>3. TotalPages(PageSize) <= index + 1
          => Cardinality(stayed \ (seen \cup answer.items)) <= removals
    BY <1>t, <2>2, LastPage
  <2>4. Missed(seen, lo)' = Missed(seen, lo)
        /\ Missed(seen \cup answer.items, hi)' = Missed(seen \cup answer.items, hi)
    BY <1>0, <2>1 DEF Missed
  <2>5. QED
    BY <2>1, <2>2, <2>3, <2>4 DEF PagesInv
<1>3. CASE SearchFails
  BY <1>3 DEF SearchFails, PagesInv, Found
<1>4. CASE Respond
  <2>1. /\ pc = "items" /\ turn > Len(oracles) /\ index' = index + 1
        /\ seen' = seen \cup answer.items
        /\ pc' = IF index' < answer.totalPages THEN "more" ELSE "done"
        /\ UNCHANGED <<entries, answer, stayed, removals>>
    BY <1>4 DEF Respond
  <2>2. turn > 1
    BY <1>0, <1>t, <2>1 DEF Trusted, TypeOK
  <2>3. Cardinality(Missed(seen \cup answer.items, hi)) <= removals
    BY <1>0, <2>1, <2>2 DEF PagesInv, Found
  <2>4. answer.totalPages <= index + 1
          => Cardinality(stayed \ (seen \cup answer.items)) <= removals
    BY <1>0, <2>1, <2>2 DEF PagesInv
  <2>5. Missed(seen, lo)' = Missed(seen \cup answer.items, hi)
    BY <1>0, <2>1 DEF Missed
  <2>6. pc' = "done" => answer.totalPages <= index + 1
    BY <1>t, <2>1 DEF TypeOK
  <2>7. QED
    BY <2>1, <2>3, <2>4, <2>5, <2>6 DEF PagesInv, Found
<1>5. CASE Request
  <2>1. /\ pc = "more" /\ pc' = "items" /\ turn' = 1
        /\ UNCHANGED <<entries, index, seen, stayed, removals>>
    BY <1>5 DEF Request
  <2>2. Missed(seen, lo)' = Missed(seen, lo)
    BY <1>0, <2>1 DEF Missed
  <2>3. QED
    BY <1>0, <2>1, <2>2 DEF PagesInv, Found
<1>6. ASSUME NEW e \in 1..MaxEntries, Store(e) \/ Remove(e) PROVE PagesInv'
  <2>1. /\ UNCHANGED <<index, turn, answer, seen, pc>>
        /\ removals' = removals \/ removals' = removals + 1
        /\ Remove(e) => removals' = removals + 1
        /\ Store(e) => removals' = removals
        /\ stayed' \subseteq stayed
    BY <1>6 DEF Store, Remove, searching
  <2>2. ASSUME NEW given, NEW n \in Int, Cardinality(Missed(given, n)) <= removals
        PROVE  Cardinality(First(entries', stayed' \ given, n)) <= removals'
    <3>1. Cardinality(First(entries', stayed' \ given, n)) \in Nat
          /\ Cardinality(Missed(given, n)) \in Nat
      <4>1. First(entries', stayed' \ given, n) \subseteq entries
        BY <2>1, EntriesFinite DEF First
      <4>2. QED
        BY <4>1, EntriesFinite, MissedFinite
    <3>2. QED
      BY <1>6, <1>t, <2>1, <2>2, <3>1, StoreMissed, RemoveMissed
  <2>3. ASSUME NEW given, Cardinality(stayed \ given) <= removals
        PROVE  Cardinality(stayed' \ given) <= removals'
    <3>1. stayed' \ given \in SUBSET (stayed \ given) /\ stayed \ given \subseteq entries
      BY <2>1, EntriesFinite
    <3>2. IsFiniteSet(stayed \ given) /\ Cardinality(stayed \ given) \in Nat
          /\ Cardinality(stayed' \ given) \in Nat
      BY <3>1, EntriesFinite
    <3>3. Cardinality(stayed' \ given) <= Cardinality(stayed \ given)
      BY <3>1, <3>2, FS_Subset
    <3>4. QED
      BY <1>t, <2>1, <2>3, <3>2, <3>3
  <2>4. Missed(seen, lo)' = First(entries', stayed' \ seen, lo)
        /\ Missed(seen \cup answer.items, hi)' = First(entries', stayed' \ (seen \cup answer.items), hi)
    BY <1>0, <2>1 DEF Missed
  <2>5. (pc \in {"items", "count", "more"} => Cardinality(Missed(seen, lo)) <= removals)'
    BY <1>0, <1>t, <2>1, <2>2, <2>4 DEF PagesInv
  <2>6. (Found => Cardinality(Missed(seen \cup answer.items, hi)) <= removals)'
    BY <1>0, <1>t, <2>1, <2>2, <2>4 DEF PagesInv, Found
  <2>7. QED
    BY <1>0, <2>1, <2>3, <2>5, <2>6 DEF PagesInv
<1>7. CASE UNCHANGED vars
  BY <1>7 DEF vars, searching, PagesInv, Found, Trusted, Missed, PageSize
<1>8. QED
  BY <1>1, <1>2, <1>3, <1>4, <1>5, <1>6, <1>7 DEF Next

\* A client whose pages are within the query's limit misses at most one entry
\* for each removal, however removals and insertions fall between the pages and
\* between the two queries of a page, and however many oracles there are.
THEOREM MissedIsBounded == Spec => []MissedBounded
<1>1. TypeOK /\ PagesInv => MissedBounded
  BY DEF PagesInv, MissedBounded, AllFetched, Trusted
<1>2. QED
  BY <1>1, InitType, NextType, InitPages, NextPages, PTL DEF Spec

----------------------------------------------------------------------------
(* PagesNonEmpty *)

\* While nothing is stored or removed, the entries are numbered without a gap,
\* and what is at hand, or was given last, are the items of the page, with the
\* number of pages once it is known.
CalmInv ==
  changes = 0 =>
    /\ \E n \in 0..MaxEntries : entries = 1..n
    /\ answer.totalPages \in {0, TotalPages(PageSize)}
    /\ oracles = <<>> => answer.totalPages = 0
    /\ pc \in {"more", "done"} => index > 0
    /\ (PageSize > 0 /\ ~swallowed) =>
         /\ Found => answer.items = Items(index, PageSize)
         /\ (oracles # <<>> /\ pc \in {"more", "done"})
              => answer.items = Items(index - 1, PageSize)

\* Entries that are numbered without a gap have their numbers as ranks.
LEMMA RankInOrder ==
  ASSUME NEW n \in Nat, entries = 1..n, NEW e \in 1..n
  PROVE  Rank(e) = e
<1>1. {d \in 1..n : d <= e} = 1..e
  OBVIOUS
<1>2. Cardinality(1..e) = e
  BY FS_Interval
<1>3. QED
  BY <1>1, <1>2 DEF Rank

\* A page that is counted has an item.
LEMMA PageHasItem ==
  ASSUME TypeOK, NEW n \in Nat, entries = 1..n, NEW i \in Nat, i + 1 <= TotalPages(PageSize)
  PROVE  Items(i, PageSize) # {}
<1> DEFINE q == (n + PageSize - 1) \div PageSize
           e == i * PageSize + 1
<1>1. PageSize \in Nat \ {0} /\ TotalPages(PageSize) = q
  <2>1. Cardinality(entries) = n
    BY FS_Interval
  <2>2. PageSize > 0 /\ PageSize \in Int
    BY SizeType DEF TotalPages
  <2>3. QED
    BY <2>1, <2>2 DEF TotalPages
<1>2. q \in Nat /\ (q - 1) * PageSize < n /\ i <= q - 1
  BY <1>1, CountedPages
<1>3. i * PageSize <= (q - 1) * PageSize /\ i * PageSize \in Nat /\ (q - 1) * PageSize \in Int
  BY <1>1, <1>2
<1>4. e \in 1..n
  BY <1>2, <1>3
<1>5. Rank(e) = e
  BY <1>4, RankInOrder
<1>6. e \in Items(i, PageSize)
  BY <1>3, <1>4, <1>5, BoundAssumption DEF Items
<1>7. QED
  BY <1>6

LEMMA NextCalm == TypeOK /\ CalmInv /\ [Next]_vars => CalmInv'
<1> SUFFICES ASSUME TypeOK, CalmInv, [Next]_vars, changes' = 0 PROVE CalmInv'
  BY DEF CalmInv
<1>1. /\ changes = 0
      /\ UNCHANGED <<entries, oracles, requested>>
      /\ FindItems \/ CountEntries \/ SearchFails \/ Respond \/ Request \/ UNCHANGED vars
  <2>1. ~\E e \in 1..MaxEntries : Store(e) \/ Remove(e)
    BY DEF TypeOK, Store, Remove
  <2>2. QED
    BY <2>1 DEF Next, FindItems, CountEntries, SearchFails, Respond, Request, vars, searching
<1>2. /\ PageSize' = PageSize /\ TotalPages(PageSize)' = TotalPages(PageSize)
      /\ Items(index, PageSize)' = Items(index', PageSize)
      /\ Items(index - 1, PageSize)' = Items(index' - 1, PageSize)
  BY <1>1 DEF PageSize, TotalPages, Items, Rank
<1>3. Len(oracles) \in Nat /\ turn \in Nat /\ index \in Nat /\ PageSize \in Int
      /\ (oracles = <<>> => Len(oracles) = 0) /\ turn >= 1
  BY SizeType DEF TypeOK
<1>4. CASE FindItems
  <2>1. /\ pc = "items" /\ turn <= Len(oracles) /\ index' = index /\ pc' \in {"items", "count"}
        /\ \/ answer' = [NoAnswer EXCEPT !.items = Items(index, PageSize)]
           \/ answer' = NoAnswer /\ (swallowed' \/ index * PageSize < 0)
    BY <1>4 DEF FindItems, Answers
  <2>2. PageSize > 0 => ~(index * PageSize < 0)
    BY <1>3
  <2>3. QED
    BY <1>1, <1>2, <1>3, <2>1, <2>2 DEF CalmInv, NoAnswer, Found
<1>5. CASE CountEntries
  <2>1. /\ pc = "count" /\ turn <= Len(oracles) /\ index' = index /\ pc' = "items"
        /\ answer'.items = answer.items
        /\ answer'.totalPages \in {answer.totalPages, TotalPages(PageSize)}
        /\ swallowed' = swallowed \/ swallowed'
    BY <1>5 DEF CountEntries, Answers, TypeOK
  <2>2. QED
    BY <1>1, <1>2, <1>3, <2>1 DEF CalmInv, Found
<1>6. CASE SearchFails
  BY <1>1, <1>2, <1>6 DEF SearchFails, CalmInv, Found
<1>7. CASE Respond
  <2>1. /\ pc = "items" /\ turn > Len(oracles) /\ index' = index + 1
        /\ pc' \in {"more", "done"} /\ UNCHANGED <<answer, swallowed>>
    BY <1>7 DEF Respond
  <2>2. oracles # <<>> => turn > 1
    BY <1>3, <2>1 DEF TypeOK
  <2>3. index' > 0 /\ index' - 1 = index
    BY <1>3, <2>1
  <2>4. QED
    BY <1>1, <1>2, <2>1, <2>2, <2>3 DEF CalmInv, Found
<1>8. CASE Request
  <2>1. pc' = "items" /\ turn' = 1 /\ answer' = NoAnswer
    BY <1>8 DEF Request
  <2>2. QED
    BY <1>1, <1>2, <2>1 DEF CalmInv, Found, NoAnswer
<1>9. CASE UNCHANGED vars
  BY <1>1, <1>2, <1>9 DEF vars, searching, CalmInv, Found
<1>10. QED
  BY <1>1, <1>4, <1>5, <1>6, <1>7, <1>8, <1>9

\* No page the service counts is empty while nothing is stored or removed, for
\* any page size, limit and number of oracles.
THEOREM CountedPagesNonEmpty == Spec => []PagesNonEmpty
<1>1. Init => CalmInv
  BY DEF Init, CalmInv, Found, NoAnswer
<1>2. ASSUME TypeOK, CalmInv PROVE PagesNonEmpty
  <2> SUFFICES ASSUME pc \in {"more", "done"}, changes = 0, ~swallowed, index <= answer.totalPages
               PROVE  answer.items # {}
    BY DEF PagesNonEmpty
  <2>1. index \in Nat /\ index > 0 /\ answer.totalPages \in Nat
    BY <1>2 DEF CalmInv, TypeOK
  <2>2. answer.totalPages = TotalPages(PageSize) /\ oracles # <<>> /\ PageSize > 0
    BY <1>2, <2>1, SizeType DEF CalmInv, TotalPages
  <2>3. answer.items = Items(index - 1, PageSize)
    BY <1>2, <2>2 DEF CalmInv
  <2>4. PICK n \in 0..MaxEntries : entries = 1..n
    BY <1>2 DEF CalmInv
  <2>5. n \in Nat /\ index - 1 \in Nat /\ (index - 1) + 1 <= TotalPages(PageSize)
    BY <2>1, <2>2
  <2>6. Items(index - 1, PageSize) # {}
    BY <1>2, <2>4, <2>5, PageHasItem
  <2>7. QED
    BY <2>3, <2>6
<1>3. QED
  BY <1>1, <1>2, InitType, NextType, NextCalm, PTL DEF Spec
=============================================================================
