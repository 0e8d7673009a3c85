---------------------------------- MODULE Map ----------------------------------
(***************************************************************************)
(* pc2l::Map: the pairs of the map in a pc2l::Vector, sorted by key.       *)
(* Every call searches the vector with std::lower_bound through its        *)
(* iterators, one operator[] per probe, then inserts or takes a reference. *)
(***************************************************************************)
EXTENDS Vector

CONSTANTS Keys, Vals

\* MapPair: the elements of the vector.
Pairs == [first : Keys, second : Vals]

PairsInVector == Keys \subseteq Int /\ 1 \in Vals /\ Values = Pairs
-------------------------------------------------------------------------------
\* *it: the element, and what reading it does to the vector.
Deref(s, i) == Touch(s, i)

\* Slip: upper_bound in its place.
HalvedUpper(x, k) ==
  IF x.len = 0 THEN x
  ELSE LET half == x.len \div 2
           mid  == x.first + half
           d    == Deref(x.s, mid)
       IN  IF ValueAt(d, mid).first <= k
             THEN [s |-> d, first |-> mid + 1, len |-> x.len - half - 1]
             ELSE [s |-> d, first |-> x.first, len |-> half]

\* One round of std::lower_bound.
Halved(x, k) ==
  IF x.len = 0 THEN x
  ELSE LET half == x.len \div 2
           mid  == x.first + half
           d    == Deref(x.s, mid)
       IN  IF ValueAt(d, mid).first < k
             THEN [s |-> d, first |-> mid + 1, len |-> x.len - half - 1]
             ELSE [s |-> d, first |-> x.first, len |-> half]

\* The first element whose key is not below k, and the vector after the search.
LowerBound(s, k) ==
  FoldLeft(LAMBDA x, n : Halved(x, k), [s |-> s, first |-> 0, len |-> s.siz], Downto(s.siz, 1))

\* Slip: an element with the key is not looked for.
FoundAnyway(b, k) == [s |-> b.s, at |-> b.first, found |-> FALSE]

\* it == end(), or else one more look at the element.
Found(b, k) ==
  IF b.first = b.s.siz THEN [s |-> b.s, at |-> b.first, found |-> FALSE]
  ELSE LET d == Deref(b.s, b.first) IN
       [s |-> d, at |-> b.first, found |-> ~(k < ValueAt(d, b.first).first)]

\* find(k)
Find(s, k) == Found(LowerBound(s, k), k)

\* insert(k, v): the vector after it and where the pair is.
Put(s, k, v) ==
  LET f == Find(s, k) IN
  IF f.found THEN [s |-> f.s, at |-> f.at]
  ELSE [s |-> Inserted(f.s, f.at, [first |-> k, second |-> v]), at |-> f.at]

\* operator[](k) after its find: the pair, inserted with the value 1 if absent.
Slot(f, k) == IF f.found THEN f ELSE Put(f.s, k, 1)
-------------------------------------------------------------------------------
MapInsert(k, v) == ~stuck /\ siz < MaxSize /\ Become(Put(State, k, v).s)

MapFind(k) == ~stuck /\ Become(Find(State, k).s)

MapIndex(k) ==
  /\ ~stuck /\ siz < MaxSize
  /\ \E f \in {Find(State, k)} : \E p \in {Slot(f, k)} : Become(Deref(p.s, p.at))

\* map[k] = v
MapAssign(k, v) ==
  /\ "assign" \in program /\ ~stuck /\ siz < MaxSize
  /\ \E f \in {Find(State, k)} : \E p \in {Slot(f, k)} :
       Become(WriteHeld(Deref(p.s, p.at), p.at, [first |-> k, second |-> v]))

MapNext ==
  \/ \E k \in Keys, v \in Vals : MapInsert(k, v) \/ MapAssign(k, v)
  \/ \E k \in Keys : MapFind(k) \/ MapIndex(k)
  \/ \E i \in Indices : At(i)
  \/ OthersEvict

MapSpec == Init /\ [][MapNext]_vars
-------------------------------------------------------------------------------
\* The pairs the iterators give, as a function.
Entries == LET e == Elements
               at(k) == CHOOSE i \in DOMAIN e : e[i].first = k
           IN  [k \in {e[i].first : i \in DOMAIN e} |-> e[at(k)].second]

\* The keys increase strictly along the iterators: no key is twice in the map and
\* none is where the binary search would not find it, whatever blocks moved.
Ascending == LET e == Elements IN
             ~stuck /\ \A i \in 1 .. Len(e) - 1 : e[i].first < e[i + 1].first

\* A program that does not write through map[k] beside other data structures sees
\* the map of its calls; searching and evictions are invisible.
Function == INSTANCE MapStore WITH map <- Entries
IsFunction ==
  /\ Function!Init
  /\ [][Disciplined => IF "assign" \in program THEN Function!Next ELSE Function!Add]_Entries
-------------------------------------------------------------------------------
\* What the theorems suppose of the programs: one that writes through references has
\* the cache to itself, and does not prefetch into a cache of one block.
MapsFit == AssignsFit /\ \A p \in Programs : "shared" \in p => p \cap {"assign", "exchange"} = {}
===============================================================================
