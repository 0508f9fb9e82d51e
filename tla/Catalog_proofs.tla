---------------------------- MODULE Catalog_proofs ----------------------------
(***************************************************************************)
(* Proofs about catalog.db, as one crawler writes it and its readers list  *)
(* it (Decisions), and as the tools merge and compact it (CatalogTools),   *)
(* for any files, names, configurations, researchers and bounds.           *)
(*                                                                         *)
(* What SQL orders, ranks or counts is a statement about finite sets.      *)
(* ORDER BY is placing each row behind the number of rows that go before   *)
(* it, COUNT is a bijection: no induction is needed, but for the smallest  *)
(* element of a set of numbers.                                            *)
(***************************************************************************)
EXTENDS CatalogTools, Decisions, FiniteSetTheorems, FunctionTheorems, TLAPS

-----------------------------------------------------------------------------
(* Part one: the tools.                                                    *)

\* The days go by in the order of the clock.
LEMMA DayType ==
  ASSUME ToolsAssumption, NEW t \in Nat
  PROVE  Day(t) \in Nat
BY DEF ToolsAssumption, Day

LEMMA DaysInOrder ==
  ASSUME ToolsAssumption, NEW t \in Nat, NEW u \in Nat, t <= u
  PROVE  Day(t) <= Day(u)
BY SMT DEF ToolsAssumption, Day

-----------------------------------------------------------------------------
(* Numbers.                                                                *)

LEMMA SmallestNumber ==
  ASSUME NEW B \in SUBSET Nat, B # {}
  PROVE  \E n \in B : \A m \in B : n <= m
<1> DEFINE less == {p \in Nat \X Nat : p[1] < p[2]}
<1>1. IsWellFoundedOn(less, Nat)
  BY NatLessThanWellFounded DEF OpToRel
<1>2. PICK n \in B : \A m \in B : ~(<<m, n>> \in less)
  BY <1>1, WFMin
<1>3. ASSUME NEW m \in B PROVE n <= m
  <2>1. <<m, n>> \in Nat \X Nat /\ <<m, n>> \notin less
    BY <1>2
  <2>2. ~(m < n)
    BY <2>1
  <2>3. QED
    BY <2>2
<1>4. QED
  BY <1>3

LEMMA MinAndMax ==
  ASSUME NEW n \in Nat, NEW S \in SUBSET (0 .. n), S # {}
  PROVE  /\ Min(S) \in S /\ \A m \in S : Min(S) <= m
         /\ Max(S) \in S /\ \A m \in S : m <= Max(S)
<1>1. PICK a \in S : \A m \in S : a <= m
  BY SmallestNumber
<1> DEFINE Below == {n - m : m \in S}
<1>2. Below \in SUBSET Nat /\ Below # {}
  OBVIOUS
<1>3. PICK d \in Below : \A e \in Below : d <= e
  <2> HIDE DEF Below
  <2> QED BY <1>2, SmallestNumber
<1>4. PICK b \in S : d = n - b
  OBVIOUS
<1>5. \A m \in S : b >= m
  BY <1>3, <1>4
<1>6. QED
  BY <1>1, <1>5 DEF Min, Max

\* b numbers the elements of S.
Numbers(b, n, S) ==
  /\ b \in [1 .. n -> S]
  /\ \A i, j \in 1 .. n : b[i] = b[j] => i = j
  /\ \A v \in S : \E i \in 1 .. n : b[i] = v

\* If r has as many lines as G[r] has elements, for each r, there are as many
\* lines as the disjoint sets G[r] have elements together.
LEMMA LinesCount ==
  ASSUME NEW w, NEW G, NEW U, IsFiniteSet(U),
         U = UNION {G[r] : r \in DOMAIN w},
         \A r \in DOMAIN w : w[r] = Cardinality(G[r]),
         \A r, q \in DOMAIN w : r # q => G[r] \cap G[q] = {}
  PROVE  Cardinality(Lines(w)) = Cardinality(U)
<1> DEFINE h == [r \in DOMAIN w |-> CHOOSE b : Numbers(b, w[r], G[r])]
           F == [x \in Lines(w) |-> h[x[1]][x[2]]]
<1>1. ASSUME NEW r \in DOMAIN w PROVE Numbers(h[r], w[r], G[r])
  <2>1. G[r] \in SUBSET U
    OBVIOUS
  <2>2. ExistsBijection(1 .. w[r], G[r])
    BY <2>1, FS_Subset, FS_CardinalityType
  <2>3. PICK b : b \in Bijection(1 .. w[r], G[r])
    BY <2>2 DEF ExistsBijection
  <2>4. Numbers(b, w[r], G[r])
    BY <2>3 DEF Numbers, Bijection, Injection, Surjection, IsInjective
  <2>5. h[r] = CHOOSE c : Numbers(c, w[r], G[r])
    OBVIOUS
  <2>6. QED
    BY <2>4, <2>5, Zenon
<1>2. \A x \in Lines(w) : x = <<x[1], x[2]>> /\ x[1] \in DOMAIN w /\ x[2] \in 1 .. w[x[1]]
  BY DEF Lines
<1>3. \A r \in DOMAIN w : \A i \in 1 .. w[r] : <<r, i>> \in Lines(w)
  BY DEF Lines
<1> HIDE DEF h
<1>4. ASSUME NEW x \in Lines(w) PROVE F[x] \in G[x[1]] /\ F[x] \in U
  <2>1. x[1] \in DOMAIN w /\ x[2] \in 1 .. w[x[1]] /\ h[x[1]] \in [1 .. w[x[1]] -> G[x[1]]]
    BY <1>1, <1>2 DEF Numbers
  <2>2. h[x[1]][x[2]] \in G[x[1]]
    BY <2>1
  <2>3. F[x] = h[x[1]][x[2]]
    OBVIOUS
  <2>4. QED
    BY <2>1, <2>2, <2>3
<1>5. ASSUME NEW x \in Lines(w), NEW y \in Lines(w), F[x] = F[y] PROVE x = y
  <2>1. F[x] \in G[x[1]] /\ F[y] \in G[y[1]]
    BY <1>4
  <2>2. x[1] = y[1]
    BY <2>1, <1>2, <1>5
  <2>3. h[x[1]][x[2]] = h[x[1]][y[2]]
    BY <2>2, <1>5
  <2>4. x[1] \in DOMAIN w /\ x[2] \in 1 .. w[x[1]] /\ y[2] \in 1 .. w[x[1]]
    BY <2>2, <1>2
  <2>5. x[2] = y[2]
    BY <2>3, <2>4, <1>1 DEF Numbers
  <2>6. QED
    BY <2>2, <2>5, <1>2
<1>6. ASSUME NEW v \in U PROVE \E x \in Lines(w) : F[x] = v
  <2>1. PICK r \in DOMAIN w : v \in G[r]
    OBVIOUS
  <2>2. PICK i \in 1 .. w[r] : h[r][i] = v
    BY <1>1, <2>1 DEF Numbers
  <2>3. <<r, i>> \in Lines(w) /\ F[<<r, i>>] = v
    BY <1>3, <2>2
  <2>4. QED
    BY <2>3
<1>7. F \in Bijection(Lines(w), U)
  <2>1. F \in [Lines(w) -> U]
    BY <1>4
  <2> HIDE DEF F
  <2>2. QED
    BY <2>1, <1>5, <1>6, Fun_IsBij
<1>8. Inverse(F, Lines(w), U) \in Bijection(U, Lines(w))
  <2> HIDE DEF F
  <2> QED BY <1>7, Fun_BijInverse
<1>9. ExistsBijection(U, Lines(w))
  BY <1>8 DEF ExistsBijection
<1>10. QED
  BY <1>9, FS_Bijection

\* A bag with one copy of each element has as many lines as elements.
LEMMA OnesCount ==
  ASSUME NEW w, IsFiniteSet(DOMAIN w), \A r \in DOMAIN w : w[r] = 1
  PROVE  Cardinality(Lines(w)) = Cardinality(DOMAIN w)
<1> DEFINE G == [r \in DOMAIN w |-> {r}]
<1>1. \A r \in DOMAIN w : w[r] = Cardinality(G[r])
  BY FS_Singleton
<1>2. \A r, q \in DOMAIN w : r # q => G[r] \cap G[q] = {}
  OBVIOUS
<1>3. DOMAIN w = UNION {G[r] : r \in DOMAIN w}
  OBVIOUS
<1> HIDE DEF G
<1>4. QED
  BY <1>1, <1>2, <1>3, LinesCount
-----------------------------------------------------------------------------
(* What a catalogue holds of the observations it was given.                *)

Found(c, row) ==
  /\ row.file \in DOMAIN c.files
  /\ row \in DOMAIN c.obs \/ \E r \in DOMAIN c.ranges : Covers(r, row)

\* c is a catalogue that was given the observations k and has lost none.
Holds(c, k) ==
  /\ c = [files |-> c.files, obs |-> c.obs, ranges |-> c.ranges]
  /\ IsCatalog(c)
  /\ k \subseteq Row /\ IsFiniteSet(k)
  /\ DOMAIN c.obs \subseteq k
  /\ \A row \in DOMAIN c.obs : c.obs[row] = 1
  /\ \A row \in k : Found(c, row)

LEMMA HoldsRecorded ==
  ASSUME NEW c, NEW k, NEW row \in Row, Holds(c, k), row \notin k
  PROVE  Holds(Recorded(c, row), k \cup {row})
<1> DEFINE d == Recorded(c, row)
<1>1. /\ DOMAIN d.files = DOMAIN c.files \cup {row.file}
      /\ \A f \in DOMAIN d.files : d.files[f] = IF f \in DOMAIN c.files THEN c.files[f] ELSE row.node
      /\ d.ranges = c.ranges
  BY DEF Recorded, CopyFiles
<1>2. /\ DOMAIN d.obs = DOMAIN c.obs \cup {row} /\ IsABag(d.obs)
      /\ \A r \in DOMAIN d.obs : d.obs[r] = 1
  <2>1. row \notin DOMAIN c.obs
    BY DEF Holds
  <2>2. d.obs = [r \in DOMAIN c.obs \cup {row} |-> 1]
    BY <2>1 DEF Recorded, Holds, (+), SetToBag
  <2>3. QED
    BY <2>2 DEF IsABag
<1>3. d = [files |-> d.files, obs |-> d.obs, ranges |-> d.ranges]
  BY DEF Recorded
<1> HIDE DEF d
<1>4. row.file \in File /\ row.node \in Node
  BY DEF Row
<1>5. IsCatalog(d)
  BY <1>1, <1>2, <1>4 DEF Holds, IsCatalog
<1>6. \A r \in k \cup {row} : Found(d, r)
  BY <1>1, <1>2 DEF Holds, Found
<1>7. QED
  BY <1>1, <1>2, <1>3, <1>5, <1>6, FS_AddElement DEF Holds, d

LEMMA CopiedJournal ==
  ASSUME NEW main, NEW src, IsABag(main), IsABag(src)
  PROVE  /\ IsABag(CopyJournal(main, src))
         /\ DOMAIN CopyJournal(main, src) = DOMAIN main \cup DOMAIN src
<1>1. \A r \in DOMAIN main : main[r] \in {n \in Nat : n > 0}
  BY DEF IsABag
<1>2. QED
  BY <1>1 DEF IsABag, CopyJournal

LEMMA HoldsCopied ==
  ASSUME NEW c, NEW k, NEW d, NEW l, Holds(c, k), Holds(d, l)
  PROVE  Holds(Copied(c, d), k \cup l)
<1> DEFINE e == Copied(c, d)
<1>1. /\ DOMAIN e.files = DOMAIN c.files \cup DOMAIN d.files
      /\ \A f \in DOMAIN c.files : e.files[f] = c.files[f]
      /\ \A f \in DOMAIN d.files \ DOMAIN c.files : e.files[f] = d.files[f]
  BY DEF Copied, CopyFiles
<1>2. /\ IsABag(e.obs) /\ DOMAIN e.obs = DOMAIN c.obs \cup DOMAIN d.obs
      /\ \A r \in DOMAIN e.obs : e.obs[r] = 1
  <2>1. e.obs = CopyJournal(c.obs, d.obs) /\ IsABag(c.obs) /\ IsABag(d.obs)
    BY DEF Copied, Holds, IsCatalog
  <2>2. IsABag(CopyJournal(c.obs, d.obs))
    BY <2>1, CopiedJournal
  <2>3. DOMAIN CopyJournal(c.obs, d.obs) = DOMAIN c.obs \cup DOMAIN d.obs
    BY <2>1, CopiedJournal
  <2>4. \A r \in DOMAIN c.obs \cup DOMAIN d.obs : CopyJournal(c.obs, d.obs)[r] = 1
    BY DEF CopyJournal, Holds
  <2>5. QED
    BY <2>1, <2>2, <2>3, <2>4
<1>3. IsABag(e.ranges) /\ DOMAIN e.ranges = DOMAIN c.ranges \cup DOMAIN d.ranges
  <2>1. e.ranges = CopyJournal(c.ranges, d.ranges) /\ IsABag(c.ranges) /\ IsABag(d.ranges)
    BY DEF Copied, Holds, IsCatalog
  <2>2. IsABag(CopyJournal(c.ranges, d.ranges))
    BY <2>1, CopiedJournal
  <2>3. DOMAIN CopyJournal(c.ranges, d.ranges) = DOMAIN c.ranges \cup DOMAIN d.ranges
    BY <2>1, CopiedJournal
  <2>4. QED
    BY <2>1, <2>2, <2>3
<1>4. e = [files |-> e.files, obs |-> e.obs, ranges |-> e.ranges]
  BY DEF Copied
<1> HIDE DEF e
<1>5. IsCatalog(e)
  BY <1>1, <1>2, <1>3 DEF Holds, IsCatalog
<1>6. \A r \in k \cup l : Found(e, r)
  BY <1>1, <1>2, <1>3 DEF Holds, Found
<1>7. QED
  BY <1>2, <1>4, <1>5, <1>6, FS_Union DEF Holds, e
-----------------------------------------------------------------------------
(* Compaction.                                                             *)

Old(c) == {r \in DOMAIN c.obs : IsOld(r)}
OldRows(c) == RestrictDomain(c.obs, IsOld)
Group(c, f, d) == {r \in Old(c) : r.file = f /\ Day(r.at) = d}

\* The range of a file's old observations of a day stands for all of them.
LEMMA BucketFacts ==
  ASSUME ToolsAssumption, NEW c, NEW k, Holds(c, k), NEW v \in Old(c),
         NEW f, f = v.file, NEW d, d = Day(v.at), NEW q, q = Bucket(OldRows(c), f, d)
  PROVE  /\ IsRange(q) /\ q.file = f /\ q.day = d
         /\ q.nodes = {r.node : r \in Group(c, f, d)}
         /\ q.count = Cardinality(Group(c, f, d))
         /\ \A r \in Group(c, f, d) : Covers(q, r)
<1> DEFINE rows == OldRows(c)
           group == Group(c, f, d)
           times == {r.at : r \in group}
<1>1. /\ DOMAIN rows = Old(c)
      /\ \A r \in Old(c) : rows[r] = 1
  BY DEF OldRows, RestrictDomain, Restrict, Old, Holds
<1>2. group = {r \in DOMAIN rows : r.file = f /\ Day(r.at) = d} /\ v \in group
  BY <1>1 DEF Group
<1> HIDE DEF rows
<1>3. group \subseteq k /\ group \subseteq Row /\ IsFiniteSet(group)
  <2>1. group \in SUBSET k
    BY DEF Group, Old, Holds
  <2>2. QED
    BY <2>1, FS_Subset DEF Holds
<1>4. q = [file |-> f, day |-> d, nodes |-> {r.node : r \in group},
           count |-> Cardinality(Lines(Restrict(rows, group))),
           first |-> Min(times), last |-> Max(times)]
  BY <1>2 DEF Bucket, rows
<1>5. Cardinality(Lines(Restrict(rows, group))) = Cardinality(group)
  <2>1. DOMAIN Restrict(rows, group) = group /\ \A r \in group : Restrict(rows, group)[r] = 1
    BY <1>1, <1>2 DEF Restrict
  <2>2. QED
    BY <2>1, <1>3, OnesCount
<1>6. /\ Min(times) \in times /\ \A t \in times : Min(times) <= t
      /\ Max(times) \in times /\ \A t \in times : t <= Max(times)
  <2>1. times \in SUBSET (0 .. MaxTime) /\ times # {} /\ MaxTime \in Nat
    BY <1>2, <1>3 DEF Row, Time, ToolsAssumption
  <2> HIDE DEF times
  <2>2. QED
    BY <2>1, MinAndMax
<1>7. times \subseteq Time /\ Time \subseteq Nat
  BY <1>3 DEF Row, Time
<1>8. Cardinality(group) \in Nat \ {0}
  BY <1>2, <1>3, FS_CardinalityType, FS_EmptySet
<1>9. d \in Nat /\ f \in File
  <2>1. v.at \in Nat /\ v.file \in File
    BY <1>2, <1>3, <1>7 DEF Row
  <2>2. QED
    BY <2>1, DayType
<1>10. {r.node : r \in group} \in SUBSET Node
  BY <1>3 DEF Row
<1>11. IsRange(q)
  BY <1>4, <1>5, <1>6, <1>7, <1>8, <1>9, <1>10 DEF IsRange
<1>12. \A r \in group : Covers(q, r)
  BY <1>4, <1>6, <1>2 DEF Covers, Group
<1>13. QED
  BY <1>4, <1>5, <1>11, <1>12

LEMMA CompactedFacts ==
  ASSUME NEW c, NEW k, Holds(c, k)
  PROVE  LET d == Compacted(c)
             new == {Bucket(OldRows(c), r.file, Day(r.at)) : r \in Old(c)} IN
         /\ d = [files |-> d.files, obs |-> d.obs, ranges |-> d.ranges]
         /\ d.files = c.files
         /\ DOMAIN d.obs = DOMAIN c.obs \ Old(c)
         /\ \A r \in DOMAIN d.obs : d.obs[r] = 1
         /\ DOMAIN d.ranges = DOMAIN c.ranges \cup new
         /\ \A q \in DOMAIN c.ranges : d.ranges[q] = c.ranges[q] + (IF q \in new THEN 1 ELSE 0)
         /\ \A q \in new \ DOMAIN c.ranges : d.ranges[q] = 1
<1> DEFINE d == Compacted(c)
           new == {Bucket(OldRows(c), r.file, Day(r.at)) : r \in Old(c)}
<1>1. Bucketize(OldRows(c)) = new
  BY DEF Bucketize, OldRows, RestrictDomain, Restrict, Old
<1>2. d.ranges = c.ranges (+) SetToBag(Bucketize(OldRows(c)))
  BY DEF Compacted, OldRows
<1> HIDE DEF new
<1>3. /\ DOMAIN d.ranges = DOMAIN c.ranges \cup new
      /\ \A q \in DOMAIN c.ranges : d.ranges[q] = c.ranges[q] + (IF q \in new THEN 1 ELSE 0)
      /\ \A q \in new \ DOMAIN c.ranges : d.ranges[q] = 0 + 1
  BY <1>1, <1>2 DEF (+), SetToBag
<1>4. d.obs = [r \in DOMAIN c.obs \ Old(c) |-> 1]
  BY DEF Compacted, RestrictDomain, Restrict, Old, Holds
<1>5. d = [files |-> d.files, obs |-> d.obs, ranges |-> d.ranges] /\ d.files = c.files
  BY DEF Compacted
<1> HIDE DEF d
<1>6. QED
  BY <1>3, <1>4, <1>5 DEF d, new

LEMMA CompactedIsFunction ==
  ASSUME NEW c
  PROVE  /\ Compacted(c).obs = [r \in DOMAIN Compacted(c).obs |-> Compacted(c).obs[r]]
         /\ Compacted(c).ranges = [r \in DOMAIN Compacted(c).ranges |-> Compacted(c).ranges[r]]
BY DEF Compacted, RestrictDomain, Restrict, (+), SetToBag

LEMMA HoldsCompacted ==
  ASSUME ToolsAssumption, NEW c, NEW k, Holds(c, k)
  PROVE  Holds(Compacted(c), k)
<1> DEFINE d == Compacted(c)
           new == {Bucket(OldRows(c), r.file, Day(r.at)) : r \in Old(c)}
<1>1. /\ d = [files |-> d.files, obs |-> d.obs, ranges |-> d.ranges]
      /\ d.files = c.files
      /\ DOMAIN d.obs = DOMAIN c.obs \ Old(c)
      /\ \A r \in DOMAIN d.obs : d.obs[r] = 1
      /\ DOMAIN d.ranges = DOMAIN c.ranges \cup new
      /\ \A q \in DOMAIN c.ranges : d.ranges[q] = c.ranges[q] + (IF q \in new THEN 1 ELSE 0)
      /\ \A q \in new \ DOMAIN c.ranges : d.ranges[q] = 1
  BY CompactedFacts
<1>2. \A q \in new : IsRange(q)
  BY BucketFacts
<1>3. ASSUME NEW row \in Old(c) PROVE \E q \in new : Covers(q, row)
  <2> DEFINE q == Bucket(OldRows(c), row.file, Day(row.at))
  <2>1. row \in Group(c, row.file, Day(row.at))
    BY DEF Group
  <2>2. Covers(q, row)
    BY <2>1, BucketFacts
  <2>3. QED
    BY <2>2
<1> HIDE DEF d, new
<1>4. IsABag(d.obs)
  <2>1. d.obs = [r \in DOMAIN d.obs |-> 1]
    BY <1>1, CompactedIsFunction DEF d
  <2>2. QED
    BY <2>1 DEF IsABag
<1>5. IsABag(d.ranges)
  <2>1. \A q \in DOMAIN c.ranges : c.ranges[q] \in Nat /\ c.ranges[q] > 0
    BY DEF Holds, IsCatalog, IsABag
  <2>2. \A q \in DOMAIN d.ranges : d.ranges[q] \in Nat /\ d.ranges[q] > 0
    BY <1>1, <2>1
  <2>3. d.ranges = [q \in DOMAIN d.ranges |-> d.ranges[q]]
    BY CompactedIsFunction DEF d
  <2>4. QED
    BY <2>2, <2>3 DEF IsABag
<1>6. IsCatalog(d)
  BY <1>1, <1>2, <1>4, <1>5 DEF Holds, IsCatalog
<1>7. ASSUME NEW row \in k PROVE Found(d, row)
  <2>1. Found(c, row)
    BY DEF Holds
  <2>2. CASE row \in Old(c)
    BY <1>1, <1>3, <2>1, <2>2 DEF Found
  <2>3. CASE row \notin Old(c)
    BY <1>1, <2>1, <2>3 DEF Found
  <2>4. QED
    BY <2>2, <2>3
<1>8. QED
  BY <1>1, <1>6, <1>7 DEF Holds, d
-----------------------------------------------------------------------------
(* The first invariant: every catalogue holds what it was given.           *)

ToolsShape ==
  /\ cat = [b \in Base |-> cat[b]] /\ known = [b \in Base |-> known[b]]
  /\ mixed \in [Base -> BOOLEAN]
  /\ now \in Time
  /\ job # NoJob => job \in [base : Base, moment : Time, keep : Keep] /\ job.moment <= now

KeepInv == ToolsShape /\ \A b \in Base : Holds(cat[b], known[b])

\* Only the catalogue b and what it was given change.
Given(b, c, k) ==
  /\ cat' = [cat EXCEPT ![b] = c]
  /\ known' = [known EXCEPT ![b] = k]

LEMMA GivenChanges ==
  ASSUME ToolsShape, NEW b \in Base, NEW c, NEW k, Given(b, c, k)
  PROVE  /\ cat' = [s \in Base |-> cat'[s]] /\ known' = [s \in Base |-> known'[s]]
         /\ cat'[b] = c /\ known'[b] = k
         /\ \A s \in Base \ {b} : cat'[s] = cat[s] /\ known'[s] = known[s]
BY DEF ToolsShape, Given

LEMMA ObserveGives ==
  ASSUME ToolsAssumption, KeepInv, NEW n \in Node, NEW f \in File, Observe(n, f)
  PROVE  LET row == [file |-> f, node |-> n, at |-> now]
         IN  /\ n \in Base /\ row \in Row /\ row \notin known[n]
             /\ Given(n, Recorded(cat[n], row), known[n] \cup {row})
<1> DEFINE row == [file |-> f, node |-> n, at |-> now]
<1>1. n \in Base /\ row \in Row /\ row \notin known[n]
  BY DEF ToolsAssumption, Observe, Row, KeepInv, ToolsShape
<1>2. QED
  BY <1>1 DEF Given, Observe

LEMMA SwapGives ==
  ASSUME ToolsAssumption, KeepInv, SwapCompacted
  PROVE  /\ job.base \in Base /\ job.moment \in Nat /\ job.moment <= now /\ job.keep \in Nat
         /\ Given(job.base, Compacted(cat[job.base]), known[job.base])
BY DEF SwapCompacted, KeepInv, ToolsShape, ToolsAssumption, Given, Time

LEMMA KeepInit ==
  ASSUME ToolsAssumption, ToolsInit
  PROVE  KeepInv
<1>1. ToolsShape
  BY DEF ToolsInit, ToolsShape, ToolsAssumption, Time
<1>2. ASSUME NEW b \in Base PROVE Holds(cat[b], known[b])
  <2>1. cat[b] = [files |-> EmptyBag, obs |-> EmptyBag, ranges |-> EmptyBag] /\ known[b] = {}
    BY DEF ToolsInit
  <2>2. DOMAIN EmptyBag = {} /\ IsABag(EmptyBag)
    BY DEF EmptyBag, SetToBag, IsABag
  <2>3. QED
    BY <2>1, <2>2, FS_EmptySet DEF Holds, IsCatalog
<1>3. QED
  BY <1>1, <1>2 DEF KeepInv

LEMMA KeepStep ==
  ASSUME ToolsAssumption, KeepInv, [ToolsNext]_toolVars
  PROVE  KeepInv'
<1> USE DEF KeepInv
<1>1. ASSUME NEW b \in Base, NEW c, NEW k, Given(b, c, k), Holds(c, k),
             mixed' \in [Base -> BOOLEAN], now' = now, job' \in {job, NoJob}
      PROVE  KeepInv'
  BY <1>1, GivenChanges DEF ToolsShape
<1>2. ASSUME NEW n \in Node, NEW f \in File, Observe(n, f) PROVE KeepInv'
  <2> DEFINE row == [file |-> f, node |-> n, at |-> now]
  <2>1. /\ n \in Base /\ row \in Row /\ row \notin known[n]
        /\ Given(n, Recorded(cat[n], row), known[n] \cup {row})
    BY <1>2, ObserveGives
  <2> HIDE DEF row
  <2>2. Holds(Recorded(cat[n], row), known[n] \cup {row})
    BY <2>1, HoldsRecorded
  <2>3. mixed' \in [Base -> BOOLEAN] /\ now' = now /\ job' = job
    BY <1>2 DEF Observe, ToolsShape
  <2>4. QED
    BY <2>1, <2>2, <2>3, <1>1
<1>3. ASSUME NEW b \in Base, NEW s \in Base, MergeOne(b, s) PROVE KeepInv'
  <2>1. Given(b, Copied(cat[b], cat[s]), known[b] \cup known[s])
    BY <1>3 DEF MergeOne, Given, ToolsShape
  <2>2. Holds(Copied(cat[b], cat[s]), known[b] \cup known[s])
    BY HoldsCopied
  <2>3. mixed' \in [Base -> BOOLEAN] /\ now' = now /\ job' = job
    BY <1>3 DEF MergeOne, ToolsShape
  <2>4. QED
    BY <2>1, <2>2, <2>3, <1>1
<1>4. CASE SwapCompacted
  <2>1. job.base \in Base /\ Given(job.base, Compacted(cat[job.base]), known[job.base])
    BY <1>4, SwapGives
  <2>2. Holds(Compacted(cat[job.base]), known[job.base])
    BY <2>1, HoldsCompacted
  <2>3. mixed' \in [Base -> BOOLEAN] /\ now' = now /\ job' = NoJob
    BY <1>4 DEF SwapCompacted, ToolsShape
  <2>4. QED
    BY <2>1, <2>2, <2>3, <1>1
<1>5. ASSUME UNCHANGED <<cat, known, mixed>>, ToolsShape' PROVE KeepInv'
  BY <1>5
<1>6. CASE Tick
  BY <1>6, <1>5 DEF Tick, ToolsShape, Time, ToolsAssumption
<1>7. ASSUME NEW b \in Base, NEW keep \in Keep, StartCompact(b, keep) PROVE KeepInv'
  BY <1>7, <1>5 DEF StartCompact, ToolsShape, Time, ToolsAssumption
<1>8. CASE CompactStops
  BY <1>8, <1>5 DEF CompactStops, ToolsShape
<1>9. CASE UNCHANGED toolVars
  BY <1>9, <1>5 DEF toolVars, ToolsShape
<1>10. QED
  BY <1>2, <1>3, <1>4, <1>6, <1>7, <1>8, <1>9 DEF ToolsNext

\* In every state each catalogue is well formed and holds, as rows or in ranges,
\* all the observations it was given, for any researchers, archives and bounds.
THEOREM CatalogsKeep == ToolsSpec => []KeepInv
BY KeepInit, KeepStep, ToolsAssumption, PTL DEF ToolsSpec

\* No observation is lost by a merge or a compaction (merger.py: _merge_one;
\* compactor.py: compact), in any order, stopped or repeated.
THEOREM NothingIsLost == ToolsSpec => []NothingLost
<1>1. KeepInv => NothingLost
  BY DEF KeepInv, Holds, Found, NothingLost
<1>2. QED
  BY <1>1, CatalogsKeep, PTL
-----------------------------------------------------------------------------
(* Each observation once.  The ranges of a catalogue share out what it was *)
(* given and no longer has as rows: each counts the observations of its    *)
(* file, day and nodes, all of them, and no two count the same.            *)

Summed(k, r) ==
  {row \in k : row.file = r.file /\ Day(row.at) = r.day /\ row.node \in r.nodes}

\* r is about the observations of rows.
Stands(r, rows) ==
  /\ r.count = Cardinality(rows)
  /\ r.nodes # {} /\ \A n \in r.nodes : \E row \in rows : row.node = n

Exact(c, k) ==
  /\ \A r \in DOMAIN c.ranges :
       /\ c.ranges[r] = 1
       /\ Stands(r, Summed(k, r))
       /\ Summed(k, r) \cap DOMAIN c.obs = {}
  /\ \A r, q \in DOMAIN c.ranges : r # q => Summed(k, r) \cap Summed(k, q) = {}

LEMMA ExactWeight ==
  ASSUME NEW c, NEW k, Holds(c, k), Exact(c, k)
  PROVE  Weight(c) = Cardinality(k)
<1> DEFINE w == [r \in DOMAIN c.ranges |-> r.count * c.ranges[r]]
           G == [r \in DOMAIN c.ranges |-> Summed(k, r)]
           U == UNION {G[r] : r \in DOMAIN w}
<1>1. /\ \A r \in DOMAIN c.ranges : G[r] \in SUBSET k
      /\ U \in SUBSET k /\ DOMAIN c.obs \in SUBSET k
  BY DEF Summed, Holds
<1>2. IsFiniteSet(U) /\ IsFiniteSet(DOMAIN c.obs)
  BY <1>1, FS_Subset DEF Holds
<1>3. \A r \in DOMAIN w : w[r] = Cardinality(G[r])
  <2>1. ASSUME NEW r \in DOMAIN c.ranges PROVE w[r] = Cardinality(G[r])
    <3>1. r.count = Cardinality(G[r]) /\ c.ranges[r] = 1
      BY DEF Exact, Stands
    <3>2. Cardinality(G[r]) \in Nat
      BY <1>1, FS_Subset, FS_CardinalityType DEF Holds
    <3>3. w[r] = r.count * 1
      BY <3>1
    <3>4. QED
      BY <3>1, <3>2, <3>3
  <2>2. QED
    BY <2>1
<1>4. \A r, q \in DOMAIN w : r # q => G[r] \cap G[q] = {}
  BY DEF Exact
<1>5. Cardinality(Lines(w)) = Cardinality(U)
  <2> HIDE DEF w, G
  <2>1. QED
    BY <1>2, <1>3, <1>4, LinesCount
<1>6. Cardinality(Lines(c.obs)) = Cardinality(DOMAIN c.obs)
  BY <1>2, OnesCount DEF Holds
<1>7. DOMAIN c.obs \cup U = k
  <2>1. ASSUME NEW row \in k, row \notin DOMAIN c.obs PROVE row \in U
    <3>1. PICK r \in DOMAIN c.ranges : Covers(r, row)
      BY <2>1 DEF Holds, Found
    <3>2. row \in G[r]
      BY <3>1 DEF Covers, Summed
    <3>3. QED
      BY <3>2
  <2> HIDE DEF U
  <2>2. QED
    BY <1>1, <2>1
<1>8. DOMAIN c.obs \cap U = {}
  BY DEF Exact
<1>9. Cardinality(k) = Cardinality(DOMAIN c.obs) + Cardinality(U)
  <2> HIDE DEF U
  <2>1. Cardinality(k) =
          Cardinality(DOMAIN c.obs) + Cardinality(U) - Cardinality(DOMAIN c.obs \cap U)
    BY <1>2, <1>7, FS_Union
  <2>2. Cardinality(DOMAIN c.obs) \in Nat /\ Cardinality(U) \in Nat
    BY <1>2, FS_CardinalityType
  <2>3. Cardinality(DOMAIN c.obs \cap U) = 0
    BY <1>8, FS_EmptySet
  <2>4. QED
    BY <2>1, <2>2, <2>3
<1>10. QED
  BY <1>5, <1>6, <1>9 DEF Weight

LEMMA ExactRecorded ==
  ASSUME NEW c, NEW k, NEW row \in Row, Holds(c, k), Exact(c, k), row \notin k,
         \A r \in DOMAIN c.ranges : r.day # Day(row.at)
  PROVE  Exact(Recorded(c, row), k \cup {row})
<1>1. \A r \in DOMAIN c.ranges : Summed(k \cup {row}, r) = Summed(k, r)
  BY DEF Summed
<1>2. /\ Recorded(c, row).ranges = c.ranges
      /\ DOMAIN Recorded(c, row).obs = DOMAIN c.obs \cup {row}
  BY DEF Recorded, SetToBag, (+)
<1>3. \A r \in DOMAIN c.ranges : row \notin Summed(k, r)
  BY DEF Summed
<1>4. QED
  BY <1>1, <1>2, <1>3 DEF Exact

\* A merge of two catalogues that have nothing in common, nor a node.
LEMMA ExactCopied ==
  ASSUME NEW c, NEW k, NEW d, NEW l, Holds(c, k), Holds(d, l), Exact(c, k), Exact(d, l),
         \A row \in k, other \in l : row.node # other.node
  PROVE  Exact(Copied(c, d), k \cup l)
<1> DEFINE e == Copied(c, d)
<1>1. \A r \in DOMAIN c.ranges : Summed(k \cup l, r) = Summed(k, r)
  <2>1. ASSUME NEW r \in DOMAIN c.ranges, NEW row \in l PROVE row.node \notin r.nodes
    <3>1. Stands(r, Summed(k, r)) /\ Summed(k, r) \subseteq k
      BY DEF Exact, Summed
    <3>2. QED
      BY <3>1 DEF Stands
  <2>2. QED
    BY <2>1 DEF Summed
<1>2. \A r \in DOMAIN d.ranges : Summed(k \cup l, r) = Summed(l, r)
  <2>1. ASSUME NEW r \in DOMAIN d.ranges, NEW row \in k PROVE row.node \notin r.nodes
    <3>1. Stands(r, Summed(l, r)) /\ Summed(l, r) \subseteq l
      BY DEF Exact, Summed
    <3>2. QED
      BY <3>1 DEF Stands
  <2>2. QED
    BY <2>1 DEF Summed
<1>3. k \cap l = {}
  OBVIOUS
<1>4. /\ DOMAIN e.obs = DOMAIN c.obs \cup DOMAIN d.obs
      /\ DOMAIN e.ranges = DOMAIN c.ranges \cup DOMAIN d.ranges
      /\ \A r \in DOMAIN c.ranges : e.ranges[r] = c.ranges[r]
      /\ \A r \in DOMAIN d.ranges \ DOMAIN c.ranges : e.ranges[r] = 1
  BY DEF Copied, CopyJournal
<1>5. \A r : Summed(k, r) \subseteq k /\ Summed(l, r) \subseteq l
  BY DEF Summed
<1>6. DOMAIN c.obs \subseteq k /\ DOMAIN d.obs \subseteq l
  BY DEF Holds
<1> HIDE DEF e
<1>7. ASSUME NEW r \in DOMAIN e.ranges
      PROVE  /\ e.ranges[r] = 1
             /\ Stands(r, Summed(k \cup l, r))
             /\ Summed(k \cup l, r) \cap DOMAIN e.obs = {}
  <2>1. CASE r \in DOMAIN c.ranges
    <3>1. Summed(k \cup l, r) = Summed(k, r) /\ e.ranges[r] = c.ranges[r]
      BY <2>1, <1>1, <1>4
    <3>2. Summed(k, r) \cap DOMAIN e.obs = {}
      BY <2>1, <1>3, <1>4, <1>5, <1>6 DEF Exact
    <3>3. QED
      BY <2>1, <3>1, <3>2 DEF Exact
  <2>2. CASE r \in DOMAIN d.ranges \ DOMAIN c.ranges
    <3>1. Summed(k \cup l, r) = Summed(l, r) /\ e.ranges[r] = 1
      BY <2>2, <1>2, <1>4
    <3>2. Summed(l, r) \cap DOMAIN e.obs = {}
      BY <2>2, <1>3, <1>4, <1>5, <1>6 DEF Exact
    <3>3. QED
      BY <2>2, <3>1, <3>2 DEF Exact
  <2>3. QED
    BY <2>1, <2>2, <1>4
<1>8. ASSUME NEW r \in DOMAIN e.ranges, NEW q \in DOMAIN e.ranges, r # q
      PROVE  Summed(k \cup l, r) \cap Summed(k \cup l, q) = {}
  <2>1. CASE r \in DOMAIN c.ranges /\ q \in DOMAIN c.ranges
    BY <1>8, <2>1, <1>1 DEF Exact
  <2>2. CASE r \in DOMAIN d.ranges /\ q \in DOMAIN d.ranges
    BY <1>8, <2>2, <1>2 DEF Exact
  <2>3. QED
    BY <2>1, <2>2, <1>1, <1>2, <1>3, <1>4, <1>5
<1>9. QED
  BY <1>7, <1>8 DEF Exact, e

LEMMA ExactCompacted ==
  ASSUME ToolsAssumption, NEW c, NEW k, Holds(c, k), Exact(c, k)
  PROVE  Exact(Compacted(c), k)
<1> DEFINE d == Compacted(c)
           range(row) == Bucket(OldRows(c), row.file, Day(row.at))
           new == {Bucket(OldRows(c), r.file, Day(r.at)) : r \in Old(c)}
<1>1. /\ DOMAIN d.obs = DOMAIN c.obs \ Old(c)
      /\ DOMAIN d.ranges = DOMAIN c.ranges \cup new
      /\ \A q \in DOMAIN c.ranges : d.ranges[q] = c.ranges[q] + (IF q \in new THEN 1 ELSE 0)
      /\ \A q \in new \ DOMAIN c.ranges : d.ranges[q] = 1
  BY CompactedFacts
\* What the new range of an old row sums up is its group.
<1>2. ASSUME NEW v \in Old(c), NEW q, q = range(v)
      PROVE  LET g == Group(c, v.file, Day(v.at)) IN
             /\ q.file = v.file /\ q.day = Day(v.at) /\ q.count = Cardinality(g)
             /\ Summed(k, q) = g /\ v \in g /\ g \subseteq Old(c)
             /\ q.nodes = {r.node : r \in g}
  <2> DEFINE g == Group(c, v.file, Day(v.at))
  <2>1. /\ q.file = v.file /\ q.day = Day(v.at) /\ q.count = Cardinality(g)
        /\ q.nodes = {r.node : r \in g}
    BY <1>2, BucketFacts
  <2>2. v \in g /\ g \subseteq Old(c) /\ Old(c) \subseteq DOMAIN c.obs /\ DOMAIN c.obs \subseteq k
    BY DEF Group, Old, Holds
  <2>3. ASSUME NEW row \in g PROVE row \in Summed(k, q)
    BY <2>1, <2>2 DEF Summed, Group
  <2>4. ASSUME NEW row \in Summed(k, q) PROVE row \in g
    <3>1. PICK u \in g : u.node = row.node
      BY <2>1 DEF Summed
    <3>2. row \in k /\ row.file = v.file /\ Day(row.at) = Day(v.at)
      BY <2>1 DEF Summed
    <3>3. row \in DOMAIN c.obs
      <4>1. SUFFICES ASSUME row \notin DOMAIN c.obs PROVE FALSE
        OBVIOUS
      <4>2. PICK r \in DOMAIN c.ranges : Covers(r, row)
        BY <3>2, <4>1 DEF Holds, Found
      <4>3. u \in Summed(k, r)
        BY <2>2, <3>1, <3>2, <4>2 DEF Covers, Summed, Group
      <4>4. QED
        BY <2>2, <4>3 DEF Exact
    <3>4. row \in Old(c)
      BY <3>2, <3>3 DEF Old, IsOld
    <3>5. QED
      BY <3>2, <3>4 DEF Group
  <2> HIDE DEF g
  <2>5. QED
    BY <2>1, <2>2, <2>3, <2>4 DEF g
<1>3. \A q \in new : \E v \in Old(c) : q = range(v)
  OBVIOUS
<1> HIDE DEF d, new, range
<1>4. Old(c) \subseteq DOMAIN c.obs
  BY DEF Old
<1>5. new \cap DOMAIN c.ranges = {}
  BY <1>2, <1>3, <1>4 DEF Exact
<1>6. ASSUME NEW r \in DOMAIN d.ranges
      PROVE  /\ d.ranges[r] = 1
             /\ Stands(r, Summed(k, r))
             /\ Summed(k, r) \cap DOMAIN d.obs = {}
  <2>1. CASE r \in DOMAIN c.ranges
    BY <1>1, <1>5, <2>1 DEF Exact
  <2>2. CASE r \in new
    <3>1. PICK v \in Old(c) : r = range(v)
      BY <1>3, <2>2
    <3>2. Stands(r, Summed(k, r))
      BY <1>2, <3>1 DEF Stands
    <3>3. QED
      BY <1>1, <1>2, <1>5, <2>2, <3>1, <3>2
  <2>3. QED
    BY <1>1, <2>1, <2>2
<1>7. ASSUME NEW r \in DOMAIN d.ranges, NEW q \in DOMAIN d.ranges, r # q
      PROVE  Summed(k, r) \cap Summed(k, q) = {}
  <2>1. CASE r \in DOMAIN c.ranges /\ q \in DOMAIN c.ranges
    BY <1>7, <2>1 DEF Exact
  <2>2. ASSUME NEW x \in DOMAIN c.ranges, NEW y \in new
        PROVE  Summed(k, x) \cap Summed(k, y) = {}
    BY <1>2, <1>3, <1>4 DEF Exact
  <2>3. CASE r \in new /\ q \in new
    <3>1. PICK v \in Old(c) : r = range(v)
      BY <1>3, <2>3
    <3>2. PICK u \in Old(c) : q = range(u)
      BY <1>3, <2>3
    <3>3. ~(v.file = u.file /\ Day(v.at) = Day(u.at))
      BY <1>7, <3>1, <3>2 DEF range
    <3>4. QED
      BY <1>2, <3>1, <3>2, <3>3 DEF Summed
  <2>4. QED
    BY <1>1, <2>1, <2>2, <2>3
<1>8. QED
  BY <1>6, <1>7 DEF Exact, d
-----------------------------------------------------------------------------
(* The second invariant.  Catalogues are merged whole and a crawler writes *)
(* to its own only: what two of them have of a node is part of one and the *)
(* same history (Nested), so two that share nothing share no node.         *)

FromNode(b, n) == {row \in known[b] : row.node = n}

DaysOver == \A b \in Base : \A r \in DOMAIN cat[b].ranges : r.day < Day(now)
OwnerKnows == \A b \in Base : \A row \in known[b] : row \in known[row.node]
Nested ==
  \A b, s \in Base, n \in Node :
    FromNode(b, n) \subseteq FromNode(s, n) \/ FromNode(s, n) \subseteq FromNode(b, n)

CountInv ==
  /\ KeepInv
  /\ DaysOver /\ OwnerKnows /\ Nested
  /\ \A b \in Base : ~mixed[b] => Exact(cat[b], known[b])

LEMMA CountInit ==
  ASSUME ToolsAssumption, ToolsInit
  PROVE  CountInv
<1>1. KeepInv
  BY KeepInit
<1>2. \A b \in Base : DOMAIN cat[b].ranges = {} /\ known[b] = {}
  BY DEF ToolsInit, EmptyBag, SetToBag
<1>3. QED
  BY <1>1, <1>2 DEF CountInv, DaysOver, OwnerKnows, Nested, FromNode, Exact

LEMMA HistoryKept ==
  ASSUME ToolsAssumption, KeepInv, OwnerKnows, Nested,
         \/ \E n \in Node, f \in File : Observe(n, f)
         \/ \E b, s \in Base : MergeOne(b, s)
  PROVE  OwnerKnows' /\ Nested'
<1>1. ASSUME NEW n \in Node, NEW f \in File, Observe(n, f) PROVE OwnerKnows' /\ Nested'
  <2> DEFINE row == [file |-> f, node |-> n, at |-> now]
  <2>1. row.node = n
    OBVIOUS
  <2>2. n \in Base /\ Given(n, Recorded(cat[n], row), known[n] \cup {row})
    BY <1>1, ObserveGives
  <2> HIDE DEF row
  <2>3. known'[n] = known[n] \cup {row} /\ \A b \in Base \ {n} : known'[b] = known[b]
    BY <2>2, GivenChanges DEF KeepInv
  <2>4. \A x \in Base : \A r \in known[x] : r.node \in Base
    BY DEF KeepInv, Holds, Row, ToolsAssumption
  <2>5. \A x \in Base : known[x] \subseteq known'[x]
    BY <2>3
  <2>6. OwnerKnows'
    BY <2>1, <2>2, <2>3, <2>4, <2>5 DEF OwnerKnows
  <2>7. \A b \in Base : FromNode(b, n)' \subseteq FromNode(n, n)'
    BY <2>6 DEF OwnerKnows, FromNode
  <2>8. \A b \in Base, m \in Node \ {n} : FromNode(b, m)' = FromNode(b, m)
    BY <2>1, <2>3 DEF FromNode
  <2>9. \A b \in Base \ {n} : FromNode(b, n)' = FromNode(b, n)
    BY <2>3 DEF FromNode
  <2>10. Nested'
    BY <2>2, <2>7, <2>8, <2>9 DEF Nested
  <2>11. QED
    BY <2>6, <2>10
<1>2. ASSUME NEW b \in Base, NEW s \in Base, MergeOne(b, s) PROVE OwnerKnows' /\ Nested'
  <2>1. known'[b] = known[b] \cup known[s] /\ \A x \in Base \ {b} : known'[x] = known[x]
    BY <1>2 DEF MergeOne, KeepInv, ToolsShape
  <2>2. \A x \in Base : known[x] \subseteq known'[x]
    BY <2>1
  <2>3. \A x \in Base : \A row \in known[x] : row.node \in Base
    BY DEF KeepInv, Holds, Row, ToolsAssumption
  <2>4. OwnerKnows'
    BY <2>1, <2>2, <2>3 DEF OwnerKnows
  <2>5. \A n \in Node : FromNode(b, n)' = FromNode(b, n) \cup FromNode(s, n)
    BY <2>1 DEF FromNode
  <2>6. \A x \in Base \ {b}, n \in Node : FromNode(x, n)' = FromNode(x, n)
    BY <2>1 DEF FromNode
  <2>7. \A n \in Node : \E y \in {b, s} : FromNode(b, n)' = FromNode(y, n)
    BY <2>5 DEF Nested
  <2>8. Nested'
    BY <2>6, <2>7 DEF Nested
  <2>9. QED
    BY <2>4, <2>8
<1>3. QED
  BY <1>1, <1>2

LEMMA CountObserve ==
  ASSUME ToolsAssumption, CountInv, NEW n \in Node, NEW f \in File, Observe(n, f)
  PROVE  CountInv'
<1> DEFINE row == [file |-> f, node |-> n, at |-> now]
<1>1. KeepInv'
  BY KeepStep DEF CountInv, ToolsNext
<1>2. OwnerKnows' /\ Nested'
  BY HistoryKept DEF CountInv
<1>3. /\ n \in Base /\ row \in Row /\ row \notin known[n] /\ Day(row.at) = Day(now)
      /\ Given(n, Recorded(cat[n], row), known[n] \cup {row})
  BY ObserveGives DEF CountInv
<1> HIDE DEF row
<1>4. /\ cat'[n] = Recorded(cat[n], row) /\ known'[n] = known[n] \cup {row}
      /\ \A b \in Base \ {n} : cat'[b] = cat[b] /\ known'[b] = known[b]
  BY <1>3, GivenChanges DEF CountInv, KeepInv
<1>5. mixed' = mixed /\ now' = now
  BY DEF Observe
<1>6. DaysOver'
  <2>1. Recorded(cat[n], row).ranges = cat[n].ranges
    BY DEF Recorded
  <2>2. QED
    BY <1>4, <1>5, <2>1 DEF CountInv, DaysOver
<1>7. ~mixed[n] => Exact(Recorded(cat[n], row), known[n] \cup {row})
  <2>1. Day(now) \in Nat /\ \A r \in DOMAIN cat[n].ranges : r.day \in Nat /\ r.day < Day(now)
    BY <1>3, DayType DEF CountInv, KeepInv, ToolsShape, Holds, IsCatalog, IsRange, DaysOver, Time
  <2>2. \A r \in DOMAIN cat[n].ranges : r.day # Day(row.at)
    BY <1>3, <2>1
  <2>3. QED
    BY <1>3, <2>2, ExactRecorded DEF CountInv, KeepInv
<1>8. QED
  BY <1>1, <1>2, <1>4, <1>5, <1>6, <1>7 DEF CountInv

LEMMA CountMerge ==
  ASSUME ToolsAssumption, CountInv, NEW b \in Base, NEW s \in Base, MergeOne(b, s)
  PROVE  CountInv'
<1>1. KeepInv'
  BY KeepStep DEF CountInv, ToolsNext
<1>2. OwnerKnows' /\ Nested'
  BY HistoryKept DEF CountInv
<1>3. /\ cat'[b] = Copied(cat[b], cat[s]) /\ known'[b] = known[b] \cup known[s]
      /\ \A x \in Base \ {b} : cat'[x] = cat[x] /\ known'[x] = known[x] /\ mixed'[x] = mixed[x]
      /\ now' = now
  BY DEF MergeOne, CountInv, KeepInv, ToolsShape
<1>4. DaysOver'
  <2>1. DOMAIN Copied(cat[b], cat[s]).ranges = DOMAIN cat[b].ranges \cup DOMAIN cat[s].ranges
    BY DEF Copied, CopyJournal
  <2>2. QED
    BY <1>3, <2>1 DEF CountInv, DaysOver
<1>5. ASSUME ~mixed'[b] PROVE Exact(Copied(cat[b], cat[s]), known[b] \cup known[s])
  <2>1. /\ ~mixed[b] /\ ~mixed[s]
        /\ known[b] \cap known[s] = {} \/ (cat[b].ranges = EmptyBag /\ cat[s].ranges = EmptyBag)
    <3>1. b \in DOMAIN mixed
      BY DEF CountInv, KeepInv, ToolsShape
    <3>2. mixed'[b] = (\/ mixed[b] \/ mixed[s]
                       \/ /\ known[b] \cap known[s] # {}
                          /\ cat[b].ranges # EmptyBag \/ cat[s].ranges # EmptyBag)
      BY <3>1, Zenon DEF MergeOne
    <3>3. QED
      BY <1>5, <3>2
  <2>2. CASE known[b] \cap known[s] = {}
    <3>1. ASSUME NEW row \in known[b], NEW other \in known[s], row.node = other.node PROVE FALSE
      <4>1. row.node \in Node
        BY DEF CountInv, KeepInv, Holds, Row
      <4>2. row \in FromNode(b, row.node) /\ other \in FromNode(s, row.node)
        BY <3>1 DEF FromNode
      <4>3. row \in known[s] \/ other \in known[b]
        BY <4>1, <4>2 DEF CountInv, Nested, FromNode
      <4>4. QED
        BY <2>2, <4>3
    <3>2. QED
      BY <2>1, <3>1, ExactCopied DEF CountInv, KeepInv
  <2>3. CASE cat[b].ranges = EmptyBag /\ cat[s].ranges = EmptyBag
    <3>1. DOMAIN Copied(cat[b], cat[s]).ranges = {}
      BY <2>3 DEF Copied, CopyJournal, EmptyBag, SetToBag
    <3>2. QED
      BY <3>1 DEF Exact
  <2>4. QED
    BY <2>1, <2>2, <2>3
<1>6. QED
  BY <1>1, <1>2, <1>3, <1>4, <1>5 DEF CountInv

LEMMA CountSwap ==
  ASSUME ToolsAssumption, CountInv, SwapCompacted
  PROVE  CountInv'
<1> DEFINE b == job.base
<1>1. KeepInv'
  BY KeepStep DEF CountInv, ToolsNext
<1>2. /\ b \in Base /\ job.moment \in Nat /\ job.moment <= now /\ job.keep \in Nat
      /\ Given(b, Compacted(cat[b]), known[b])
  BY SwapGives DEF CountInv
<1> HIDE DEF b
<1>3. /\ cat'[b] = Compacted(cat[b]) /\ known'[b] = known[b]
      /\ \A x \in Base \ {b} : cat'[x] = cat[x] /\ known'[x] = known[x]
  BY <1>2, GivenChanges DEF CountInv, KeepInv
<1>4. \A x \in Base : known'[x] = known[x]
  BY <1>3
<1>5. known' = known /\ mixed' = mixed /\ now' = now
  BY DEF SwapCompacted
<1>6. OwnerKnows' /\ Nested'
  BY <1>5 DEF CountInv, OwnerKnows, Nested, FromNode
<1>7. DaysOver'
  <2>1. ASSUME NEW r \in DOMAIN Compacted(cat[b]).ranges PROVE r.day < Day(now)
    <3>1. CASE r \in DOMAIN cat[b].ranges
      BY <1>2, <3>1 DEF CountInv, DaysOver
    <3>2. ASSUME NEW v \in Old(cat[b]), r = Bucket(OldRows(cat[b]), v.file, Day(v.at))
          PROVE  r.day < Day(now)
      <4>1. v.at \in Nat
        <5>1. v \in Row
          BY <1>2 DEF Old, CountInv, KeepInv, Holds
        <5>2. QED
          BY <5>1 DEF Row, Time
      <4>2. Day(v.at) \in Nat /\ Day(job.moment) \in Nat /\ Day(now) \in Nat
        BY <1>2, <4>1, DayType DEF CountInv, KeepInv, ToolsShape, Time
      <4>3. Day(v.at) + job.keep < Day(job.moment)
        BY DEF Old, IsOld
      <4>4. Day(job.moment) <= Day(now)
        BY <1>2, DaysInOrder DEF CountInv, KeepInv, ToolsShape, Time
      <4>5. r.day = Day(v.at)
        BY <3>2 DEF Bucket
      <4>6. QED
        BY <1>2, <4>2, <4>3, <4>4, <4>5
    <3>3. r \in DOMAIN cat[b].ranges \/
          \E v \in Old(cat[b]) : r = Bucket(OldRows(cat[b]), v.file, Day(v.at))
      BY <1>2, CompactedFacts DEF CountInv, KeepInv
    <3>4. QED
      BY <3>1, <3>2, <3>3
  <2>2. QED
    BY <1>2, <1>3, <1>5, <2>1 DEF CountInv, DaysOver
<1>8. ~mixed[b] => Exact(Compacted(cat[b]), known[b])
  BY <1>2, ExactCompacted DEF CountInv, KeepInv
<1>9. QED
  BY <1>1, <1>3, <1>5, <1>6, <1>7, <1>8 DEF CountInv

LEMMA CountStep ==
  ASSUME ToolsAssumption, CountInv, [ToolsNext]_toolVars
  PROVE  CountInv'
<1>1. KeepInv'
  BY KeepStep DEF CountInv
<1>2. ASSUME UNCHANGED <<cat, known, mixed>>, DaysOver' PROVE CountInv'
  BY <1>1, <1>2 DEF CountInv, OwnerKnows, Nested, FromNode
<1>3. ASSUME UNCHANGED <<cat, known, mixed, now>> PROVE CountInv'
  BY <1>2, <1>3 DEF CountInv, DaysOver
<1>4. CASE Tick
  <2>1. now \in Nat /\ now' = now + 1 /\ UNCHANGED <<cat, known, mixed>>
    BY <1>4 DEF Tick, CountInv, KeepInv, ToolsShape, Time
  <2>2. Day(now) \in Nat /\ Day(now') \in Nat /\ Day(now) <= Day(now')
    BY <2>1, DayType, DaysInOrder
  <2>3. \A b \in Base : \A r \in DOMAIN cat[b].ranges : r.day \in Nat
    BY DEF CountInv, KeepInv, Holds, IsCatalog, IsRange
  <2>4. DaysOver'
    BY <2>1, <2>2, <2>3 DEF CountInv, DaysOver, Day
  <2>5. QED
    BY <1>2, <2>1, <2>4
<1>5. QED
  BY <1>3, <1>4, CountObserve, CountMerge, CountSwap
     DEF ToolsNext, StartCompact, CompactStops, toolVars

\* In every state the catalogues' histories are nested by node, and the ranges of
\* a catalogue that mixed nothing share out what it no longer has as rows.
THEOREM CountInvariant == ToolsSpec => []CountInv
BY CountInit, CountStep, ToolsAssumption, PTL DEF ToolsSpec

\* Merging is a union: what a catalogue counts is the number of the observations
\* it was given, unless a merge met its own observations summed up elsewhere.
THEOREM CountsAgree == ToolsSpec => []CountedOnce
<1>1. CountInv => CountedOnce
  BY ExactWeight DEF CountInv, KeepInv, CountedOnce
<1>2. QED
  BY <1>1, CountInvariant, PTL

-----------------------------------------------------------------------------
(* Part two: decisions and their readers.                                  *)

(* Sorting.                                                                *)

\* R orders the elements of S, strictly and totally.
Orders(R, S) ==
  /\ \A x \in S : <<x, x>> \notin R
  /\ \A x, y \in S : x # y => <<x, y>> \in R \/ <<y, x>> \in R
  /\ \A x, y, z \in S : <<x, y>> \in R /\ <<y, z>> \in R => <<x, z>> \in R

Before(R, S, x) == {y \in S : <<y, x>> \in R}

Sorted(s, R) == \A i, j \in DOMAIN s : i < j => <<s[i], s[j]>> \in R

\* Every finite set can be listed in order: each element at the place that the
\* number of those before it gives.
LEMMA SortExists ==
  ASSUME NEW S, IsFiniteSet(S), NEW R, Orders(R, S)
  PROVE  \E s \in SetToSeqs(S) : Sorted(s, R)
<1> DEFINE n == Cardinality(S)
           D == 1 .. n
           place == [x \in S |-> 1 + Cardinality(Before(R, S, x))]
<1>1. n \in Nat /\ IsFiniteSet(D) /\ Cardinality(D) = n
  BY FS_CardinalityType, FS_Interval
<1>2. ASSUME NEW x \in S
      PROVE  IsFiniteSet(Before(R, S, x)) /\ Cardinality(Before(R, S, x)) \in 0 .. n - 1
  <2>1. Before(R, S, x) \in SUBSET S /\ x \notin Before(R, S, x)
    BY DEF Before, Orders
  <2>2. IsFiniteSet(Before(R, S, x)) /\ Cardinality(Before(R, S, x)) <= n
    BY <2>1, FS_Subset
  <2>3. Cardinality(Before(R, S, x)) # n
    BY <2>1, FS_Subset
  <2>4. Cardinality(Before(R, S, x)) \in Nat
    BY <2>2, FS_CardinalityType
  <2>5. QED
    BY <2>2, <2>3, <2>4, <1>1
<1>3. place \in [S -> D]
  BY <1>1, <1>2
<1>4. ASSUME NEW x \in S, NEW y \in S, <<x, y>> \in R PROVE place[x] < place[y]
  <2>1. Before(R, S, x) \in SUBSET Before(R, S, y)
    BY <1>4 DEF Before, Orders
  <2>2. x \in Before(R, S, y) /\ x \notin Before(R, S, x)
    BY <1>4 DEF Before, Orders
  <2>3. Cardinality(Before(R, S, x)) <= Cardinality(Before(R, S, y))
        /\ Cardinality(Before(R, S, x)) # Cardinality(Before(R, S, y))
    BY <1>2, <2>1, <2>2, FS_Subset
  <2>4. QED
    BY <1>2, <2>3
<1>5. \A x \in S : place[x] \in 1 .. n
  BY <1>3
<1> HIDE DEF place
<1>6. \A x, y \in S : place[x] = place[y] => x = y
  <2>1. SUFFICES ASSUME NEW x \in S, NEW y \in S, x # y PROVE place[x] # place[y]
    OBVIOUS
  <2>2. place[x] < place[y] \/ place[y] < place[x]
    BY <2>1, <1>4 DEF Orders
  <2>3. QED
    BY <2>2, <1>5
<1>7. place \in Injection(S, D)
  BY <1>3, <1>6, Fun_IsInj
<1>8. place \in Surjection(S, D)
  BY <1>1, <1>7, FS_Injection
<1>9. \A i \in D : \E x \in S : place[x] = i
  BY <1>8, Fun_SurjectionProperties
<1> DEFINE s == [i \in D |-> CHOOSE x \in S : place[x] = i]
<1>10. \A i \in D : s[i] \in S /\ place[s[i]] = i
  BY <1>9
<1>11. s \in [D -> S] /\ DOMAIN s = D
  BY <1>10
<1> HIDE DEF s
<1>12. \A i, j \in D : i # j => s[i] # s[j]
  BY <1>10
<1>13. s \in SetToSeqs(S)
  BY <1>11, <1>12 DEF SetToSeqs
<1>14. ASSUME NEW i \in D, NEW j \in D, i < j PROVE <<s[i], s[j]>> \in R
  <2>1. s[i] \in S /\ s[j] \in S /\ s[i] # s[j]
    BY <1>10, <1>12, <1>14
  <2>2. <<s[j], s[i]>> \in R => place[s[j]] < place[s[i]]
    BY <2>1, <1>4
  <2>3. ~(<<s[j], s[i]>> \in R)
    BY <2>2, <1>10, <1>14
  <2>4. QED
    BY <2>1, <2>3 DEF Orders
<1>15. QED
  BY <1>11, <1>13, <1>14 DEF Sorted

\* In a sorted list, k - 1 elements go before the k-th.
LEMMA SortedPlace ==
  ASSUME NEW S, IsFiniteSet(S), NEW R, Orders(R, S),
         NEW s \in SetToSeqs(S), Sorted(s, R)
  PROVE  /\ DOMAIN s = 1 .. Cardinality(S)
         /\ \A i \in DOMAIN s : s[i] \in S
         /\ \A x \in S : \E i \in DOMAIN s : s[i] = x
         /\ \A i, j \in DOMAIN s : <<s[i], s[j]>> \in R <=> i < j
<1> DEFINE n == Cardinality(S)
           D == 1 .. n
<1>1. n \in Nat /\ IsFiniteSet(D) /\ Cardinality(D) = n
  BY FS_CardinalityType, FS_Interval
<1>2. s \in [D -> S] /\ \A i, j \in D : i # j => s[i] # s[j]
  BY DEF SetToSeqs
<1>3. s \in Injection(D, S)
  BY <1>2, Fun_IsInj
<1>4. s \in Surjection(D, S)
  BY <1>1, <1>3, FS_Injection
<1>5. \A x \in S : \E i \in D : s[i] = x
  <2> HIDE DEF D
  <2> QED BY <1>4, Fun_SurjectionProperties
<1>6. ASSUME NEW i \in D, NEW j \in D, <<s[i], s[j]>> \in R PROVE i < j
  <2>1. s[i] \in S /\ s[j] \in S
    BY <1>2
  <2>2. i # j
    BY <2>1, <1>6 DEF Orders
  <2>3. ~(<<s[j], s[i]>> \in R)
    BY <2>1, <1>6 DEF Orders
  <2>4. ~(j < i)
    BY <2>3, <1>2 DEF Sorted
  <2>5. QED
    BY <2>2, <2>4
<1>7. QED
  BY <1>2, <1>5, <1>6 DEF Sorted
-----------------------------------------------------------------------------
(* The last row of a file.                                                 *)

IsTable(table) ==
  /\ Len(table) \in Nat /\ DOMAIN table = 1 .. Len(table)
  /\ \A i \in DOMAIN table : table[i].at \in Nat /\ table[i].file \in Hash

\* i is the last row of f.
IsLast(table, f, i) ==
  /\ i \in RowsOf(table, f)
  /\ \A j \in RowsOf(table, f) : j # i => Later(table, i, j)

LEMMA LastRow ==
  ASSUME NEW table, IsTable(table), NEW f
  PROVE  /\ LatestRows(table, f) = FirstRow(table, f)
         /\ RowsOf(table, f) = {} => LatestRows(table, f) = {}
         /\ RowsOf(table, f) # {} =>
              \E i \in RowsOf(table, f) : LatestRows(table, f) = {i} /\ IsLast(table, f, i)
<1> DEFINE S == RowsOf(table, f)
           R == {p \in S \X S : Later(table, p[1], p[2])}
           c == CHOOSE s \in SetToSeqs(S) : \A i, j \in DOMAIN s : i < j =>
                  \/ table[s[i]].at > table[s[j]].at
                  \/ table[s[i]].at = table[s[j]].at /\ s[i] > s[j]
<1>1. FirstRow(table, f) = IF c = << >> THEN {} ELSE {c[1]}
  BY Zenon DEF FirstRow, Ordered
<1>2. S \in SUBSET (1 .. Len(table)) /\ \A i \in S : i \in Nat /\ table[i].at \in Nat
  BY DEF RowsOf, IsTable
<1>3. IsFiniteSet(S)
  <2>1. IsFiniteSet(1 .. Len(table))
    BY FS_Interval DEF IsTable
  <2>2. QED
    BY <1>2, <2>1, FS_Subset
<1>4. \A i, j \in S : <<i, j>> \in R <=> Later(table, i, j)
  OBVIOUS
<1>5. Orders(R, S)
  BY <1>2, <1>4 DEF Orders, Later
<1>6. PICK s \in SetToSeqs(S) : Sorted(s, R)
  <2> HIDE DEF R, S
  <2> QED BY <1>3, <1>5, SortExists
<1>7. ASSUME NEW t \in SetToSeqs(S)
      PROVE  Sorted(t, R) <=> \A i, j \in DOMAIN t : i < j =>
               \/ table[t[i]].at > table[t[j]].at
               \/ table[t[i]].at = table[t[j]].at /\ t[i] > t[j]
  <2>1. \A i \in DOMAIN t : t[i] \in S
    BY DEF SetToSeqs
  <2> HIDE DEF R, S
  <2>2. QED
    BY <2>1, <1>4 DEF Sorted, Later
<1>8. c \in SetToSeqs(S) /\ Sorted(c, R)
  <2>1. \E t \in SetToSeqs(S) : \A i, j \in DOMAIN t : i < j =>
               \/ table[t[i]].at > table[t[j]].at
               \/ table[t[i]].at = table[t[j]].at /\ t[i] > t[j]
    BY <1>6, <1>7
  <2>2. c \in SetToSeqs(S) /\ \A i, j \in DOMAIN c : i < j =>
               \/ table[c[i]].at > table[c[j]].at
               \/ table[c[i]].at = table[c[j]].at /\ c[i] > c[j]
    BY <2>1, Zenon
  <2> HIDE DEF c, R, S
  <2>3. QED
    BY <2>2, <1>7
<1> HIDE DEF c
<1>9. /\ DOMAIN c = 1 .. Cardinality(S)
      /\ \A i \in DOMAIN c : c[i] \in S
      /\ \A x \in S : \E i \in DOMAIN c : c[i] = x
      /\ \A i, j \in DOMAIN c : <<c[i], c[j]>> \in R <=> i < j
  <2> HIDE DEF R, S
  <2> QED BY <1>3, <1>5, <1>8, SortedPlace
<1>10. LatestRows(table, f) = {i \in S : ~\E j \in S : Later(table, j, i)}
  BY DEF LatestRows
<1>11. Cardinality(S) \in Nat
  BY <1>3, FS_CardinalityType
<1>12. CASE S = {}
  <2>1. Cardinality(S) = 0
    BY <1>12, FS_EmptySet
  <2>2. c \in [1 .. 0 -> S]
    BY <1>8, <2>1 DEF SetToSeqs
  <2>3. c = << >>
    BY <2>2
  <2>4. QED
    BY <2>3, <1>1, <1>10, <1>12
<1>13. CASE S # {}
  <2>1. 1 \in DOMAIN c /\ c # << >>
    BY <1>9, <1>11, <1>13
  <2>2. \A j \in S : j # c[1] => Later(table, c[1], j)
    <3>1. SUFFICES ASSUME NEW k \in DOMAIN c, k # 1 PROVE <<c[1], c[k]>> \in R
      BY <1>4, <1>9, <2>1
    <3>2. 1 \in DOMAIN c /\ 1 < k
      BY <1>9, <1>11, <2>1, <3>1
    <3> HIDE DEF R
    <3>3. QED
      BY <1>9, <3>1, <3>2
  <2>3. LatestRows(table, f) = {c[1]}
    BY <1>2, <1>9, <1>10, <2>1, <2>2 DEF Later
  <2>4. IsLast(table, f, c[1])
    BY <2>2, <1>9, <2>1 DEF IsLast
  <2>5. QED
    BY <2>1, <2>3, <2>4, <1>1, <1>9, <1>13
<1>14. QED
  BY <1>12, <1>13

LEMMA LastIsOne ==
  ASSUME NEW table, IsTable(table), NEW f, NEW i, NEW j, IsLast(table, f, i), IsLast(table, f, j)
  PROVE  i = j
BY DEF IsLast, Later, RowsOf, IsTable

\* last_decision, for the table as it is and as it becomes.
Verdict(table, f) ==
  IF RowsOf(table, f) = {} THEN NoMatch
  ELSE table[CHOOSE i \in FirstRow(table, f) : TRUE].verdict

LEMMA LastVerdict ==
  ASSUME NEW table, IsTable(table), NEW f
  PROVE  /\ RowsOf(table, f) = {} => Verdict(table, f) = NoMatch
         /\ \A i : IsLast(table, f, i) => Verdict(table, f) = table[i].verdict
         /\ RowsOf(table, f) # {} => \E i : IsLast(table, f, i)
<1>1. CASE RowsOf(table, f) = {}
  BY <1>1 DEF Verdict, IsLast
<1>2. CASE RowsOf(table, f) # {}
  <2>1. PICK i \in RowsOf(table, f) : FirstRow(table, f) = {i} /\ IsLast(table, f, i)
    BY <1>2, LastRow
  <2>2. (CHOOSE j \in FirstRow(table, f) : TRUE) = i
    BY <2>1
  <2>3. Verdict(table, f) = table[i].verdict
    BY <1>2, <2>2 DEF Verdict
  <2>4. \A j : IsLast(table, f, j) => j = i
    BY <2>1, LastIsOne
  <2>5. QED
    BY <2>1, <2>3, <2>4, <1>2
<1>3. QED
  BY <1>1, <1>2
-----------------------------------------------------------------------------
(* The rows of the list of files.                                          *)

LEMMA Joined ==
  ASSUME IsTable(observed), IsTable(decided), NEW row \in JoinedRows
  PROVE  /\ row = [file |-> row.file, obs |-> row.obs, dec |-> row.dec]
         /\ row.file \in Hash
         /\ IsLast(observed, row.file, row.obs)
         /\ \/ row.dec = 0 /\ RowsOf(decided, row.file) = {}
            \/ row.dec # 0 /\ IsLast(decided, row.file, row.dec)
<1>1. PICK f, o, d :
        /\ f \in {observed[i].file : i \in DOMAIN observed}
        /\ o \in LatestRows(observed, f)
        /\ d \in IF LatestRows(decided, f) = {} THEN {0} ELSE LatestRows(decided, f)
        /\ row = [file |-> f, obs |-> o, dec |-> d]
  BY DEF JoinedRows
<1>2. f \in Hash /\ RowsOf(observed, f) # {}
  BY <1>1 DEF IsTable, RowsOf
<1>3. IsLast(observed, f, o)
  BY <1>1, <1>2, LastRow
<1>4. CASE RowsOf(decided, f) = {}
  <2>1. d = 0
    BY <1>1, <1>4, LastRow
  <2>2. QED
    BY <2>1, <1>1, <1>2, <1>3, <1>4
<1>5. CASE RowsOf(decided, f) # {}
  <2>1. PICK i \in RowsOf(decided, f) :
          LatestRows(decided, f) = {i} /\ IsLast(decided, f, i)
    BY <1>5, LastRow
  <2>2. d = i /\ i # 0
    BY <1>1, <2>1 DEF RowsOf, IsTable
  <2>3. QED
    BY <2>1, <2>2, <1>1, <1>2, <1>3
<1>6. QED
  BY <1>4, <1>5

LEMMA JoinedOnce ==
  ASSUME IsTable(observed), IsTable(decided),
         NEW r \in JoinedRows, NEW s \in JoinedRows, r.file = s.file
  PROVE  r = s
<1>1. r.obs = s.obs
  BY Joined, LastIsOne
<1>2. r.dec = s.dec
  <2>1. CASE RowsOf(decided, r.file) = {}
    BY <2>1, Joined DEF IsLast
  <2>2. CASE RowsOf(decided, r.file) # {}
    BY <2>2, Joined, LastIsOne
  <2>3. QED
    BY <2>1, <2>2
<1>3. QED
  BY <1>1, <1>2, Joined

LEMMA JoinedAll ==
  ASSUME IsTable(observed), IsTable(decided), NEW f, RowsOf(observed, f) # {}
  PROVE  \E row \in JoinedRows : row.file = f
<1>1. f \in {observed[i].file : i \in DOMAIN observed}
  BY DEF RowsOf
<1>2. PICK o : o \in LatestRows(observed, f)
  BY LastRow
<1>3. PICK d : d \in IF LatestRows(decided, f) = {} THEN {0} ELSE LatestRows(decided, f)
  OBVIOUS
<1> DEFINE D == IF LatestRows(decided, f) = {} THEN {0} ELSE LatestRows(decided, f)
<1>4. [file |-> f, obs |-> o, dec |-> d] \in
        {[file |-> f, obs |-> i, dec |-> j] : i \in LatestRows(observed, f), j \in D}
  <2>1. d \in D
    BY <1>3
  <2> HIDE DEF D
  <2>2. QED
    BY <1>2, <2>1
<1>5. [file |-> f, obs |-> o, dec |-> d] \in JoinedRows
  BY <1>1, <1>4 DEF JoinedRows
<1>6. QED
  BY <1>5

LEMMA JoinedFinite ==
  ASSUME DecisionsAssumption, IsTable(observed), IsTable(decided)
  PROVE  IsFiniteSet(Hash) /\ IsFiniteSet(JoinedRows)
<1> DEFINE file == [row \in JoinedRows |-> row.file]
<1>1. IsFiniteSet(Hash)
  BY FS_Interval DEF Hash, DecisionsAssumption
<1>2. file \in [JoinedRows -> Hash]
  BY Joined
<1>3. \A r, s \in JoinedRows : file[r] = file[s] => r = s
  BY JoinedOnce
<1> HIDE DEF file
<1>4. file \in Injection(JoinedRows, Hash)
  BY <1>2, <1>3, Fun_IsInj
<1>5. QED
  BY <1>1, <1>4, FS_Injection

Shown(target) == {row \in JoinedRows : Passes(row, target)}

LEMMA ListingSorted ==
  ASSUME DecisionsAssumption, IsTable(observed), IsTable(decided), NEW target
  PROVE  /\ IsFiniteSet(Shown(target))
         /\ Listing(target) \in Seq(Shown(target))
         /\ Len(Listing(target)) = Cardinality(Shown(target))
         /\ \A i \in DOMAIN Listing(target) : Listing(target)[i] \in Shown(target)
         /\ \A row \in Shown(target) : \E i \in DOMAIN Listing(target) : Listing(target)[i] = row
         /\ \A i, j \in DOMAIN Listing(target) :
              LET r == Listing(target)[i]
                  s == Listing(target)[j]
              IN  \/ observed[r.obs].at > observed[s.obs].at
                  \/ observed[r.obs].at = observed[s.obs].at /\ r.file < s.file
              <=> i < j
<1> DEFINE S == Shown(target)
           R == {p \in S \X S : \/ observed[p[1].obs].at > observed[p[2].obs].at
                                \/ /\ observed[p[1].obs].at = observed[p[2].obs].at
                                   /\ p[1].file < p[2].file}
           c == Listing(target)
<1>1. c = CHOOSE s \in SetToSeqs(S) : \A i, j \in DOMAIN s : i < j =>
                  \/ observed[s[i].obs].at > observed[s[j].obs].at
                  \/ observed[s[i].obs].at = observed[s[j].obs].at /\ s[i].file < s[j].file
  BY Zenon DEF Listing, Ordered, Shown
<1>2. \A r \in S : r.file \in Nat /\ observed[r.obs].at \in Nat
  BY Joined DEF Shown, IsLast, RowsOf, IsTable, Hash
<1>3. \A r, s \in S : r.file = s.file => r = s
  BY JoinedOnce DEF Shown
<1>4. IsFiniteSet(S)
  BY JoinedFinite, FS_Subset DEF Shown
<1>5. \A r, s \in S : <<r, s>> \in R <=>
        \/ observed[r.obs].at > observed[s.obs].at
        \/ observed[r.obs].at = observed[s.obs].at /\ r.file < s.file
  OBVIOUS
<1>6. Orders(R, S)
  <2> HIDE DEF R, S
  <2> QED BY <1>2, <1>3, <1>5 DEF Orders
<1>7. PICK s \in SetToSeqs(S) : Sorted(s, R)
  <2> HIDE DEF R, S
  <2> QED BY <1>4, <1>6, SortExists
<1>8. ASSUME NEW t \in SetToSeqs(S)
      PROVE  Sorted(t, R) <=> \A i, j \in DOMAIN t : i < j =>
                  \/ observed[t[i].obs].at > observed[t[j].obs].at
                  \/ observed[t[i].obs].at = observed[t[j].obs].at /\ t[i].file < t[j].file
  <2>1. \A i \in DOMAIN t : t[i] \in S
    BY DEF SetToSeqs
  <2> HIDE DEF R, S
  <2>2. QED
    BY <2>1, <1>5 DEF Sorted
<1>9. c \in SetToSeqs(S) /\ Sorted(c, R)
  <2>1. c \in SetToSeqs(S) /\ \A i, j \in DOMAIN c : i < j =>
                  \/ observed[c[i].obs].at > observed[c[j].obs].at
                  \/ observed[c[i].obs].at = observed[c[j].obs].at /\ c[i].file < c[j].file
    BY <1>1, <1>7, <1>8, Zenon
  <2> HIDE DEF c
  <2>2. QED
    BY <2>1, <1>8
<1> HIDE DEF c
<1>10. /\ DOMAIN c = 1 .. Cardinality(S)
       /\ \A i \in DOMAIN c : c[i] \in S
       /\ \A x \in S : \E i \in DOMAIN c : c[i] = x
       /\ \A i, j \in DOMAIN c : <<c[i], c[j]>> \in R <=> i < j
  <2> HIDE DEF R, S
  <2> QED BY <1>4, <1>6, <1>9, SortedPlace
<1>11. c \in Seq(S) /\ Len(c) = Cardinality(S)
  <2>1. Cardinality(S) \in Nat /\ c \in [1 .. Cardinality(S) -> S]
    BY <1>4, <1>9, FS_CardinalityType DEF SetToSeqs
  <2> HIDE DEF S
  <2>2. QED
    BY <2>1
<1> HIDE DEF R
<1>12. QED
  BY <1>4, <1>5, <1>10, <1>11 DEF c

\* A page is what the list has from Offset on, and a page that is not full is
\* the last.
LEMMA PageRows ==
  ASSUME DecisionsAssumption, IsTable(observed), IsTable(decided), NEW target,
         NEW page \in Nat \ {0}
  PROVE  /\ Offset(page) \in Nat /\ Offset(page + 1) = Offset(page) + PageSize
         /\ ToSet(PageOf(target, page)) =
              {Listing(target)[i] : i \in {j \in DOMAIN Listing(target) :
                                             Offset(page) < j /\ j <= Offset(page) + PageSize}}
         /\ ~HasNext(PageOf(target, page)) => Len(Listing(target)) < Offset(page) + PageSize
<1> DEFINE rows == Listing(target)
           k == Offset(page)
           last == IF k + PageSize < Len(rows) THEN k + PageSize ELSE Len(rows)
           shown == SubSeq(rows, k + 1, last)
<1>1. PageSize \in Nat \ {0} /\ k \in Nat /\ Offset(page + 1) = k + PageSize
  BY DEF DecisionsAssumption, Offset
<1>2. rows \in Seq(Shown(target)) /\ Len(rows) \in Nat /\ DOMAIN rows = 1 .. Len(rows)
  BY ListingSorted
<1>3. PageOf(target, page) = shown
  BY DEF PageOf
<1> HIDE DEF rows, k
<1>4. last \in Nat /\ last <= Len(rows)
  BY <1>1, <1>2
<1>5. CASE last <= k
  <2>1. shown = << >>
    BY <1>1, <1>2, <1>4, <1>5
  <2>2. Len(rows) <= k
    BY <1>1, <1>2, <1>5
  <2>3. QED
    BY <1>1, <1>2, <1>3, <2>1, <2>2 DEF ToSet, rows, k
<1>6. CASE k < last
  <2>1. /\ Len(shown) = last - k /\ DOMAIN shown = 1 .. last - k
        /\ \A i \in 1 .. last - k : shown[i] = rows[k + i]
    BY <1>1, <1>2, <1>4, <1>6
  <2>2. ToSet(shown) = {shown[i] : i \in 1 .. last - k}
    BY <2>1 DEF ToSet
  <2> HIDE DEF shown
  <2>3. ASSUME NEW i \in DOMAIN rows, k < i, i <= k + PageSize
        PROVE  \E j \in 1 .. last - k : shown[j] = rows[i]
    <3>1. i - k \in 1 .. last - k /\ k + (i - k) = i
      BY <1>1, <1>2, <1>4, <2>3
    <3>2. QED
      BY <3>1, <2>1
  <2>4. ASSUME NEW j \in 1 .. last - k
        PROVE  \E i \in DOMAIN rows : k < i /\ i <= k + PageSize /\ shown[j] = rows[i]
    <3>1. k + j \in DOMAIN rows /\ k < k + j /\ k + j <= k + PageSize
      BY <1>1, <1>2, <1>4
    <3>2. shown[j] = rows[k + j]
      BY <2>1
    <3>3. QED
      BY <3>1, <3>2
  <2>5. ToSet(shown) =
          {rows[i] : i \in {j \in DOMAIN rows : k < j /\ j <= k + PageSize}}
    BY <2>2, <2>3, <2>4
  <2>6. ~HasNext(shown) => Len(rows) < k + PageSize
    BY <1>1, <1>2, <2>1 DEF HasNext
  <2>7. QED
    BY <1>1, <1>3, <2>5, <2>6 DEF rows, k
<1>7. QED
  BY <1>1, <1>4, <1>5, <1>6

LEMMA PageInList ==
  ASSUME DecisionsAssumption, IsTable(observed), IsTable(decided), Walking, walk.page \in Nat
  PROVE  PageFiles \subseteq Listed(walk.target)
<1>1. walk.page \in Nat \ {0}
  BY DEF Walking
<1>2. ToSet(PageOf(walk.target, walk.page)) \subseteq Shown(walk.target)
  BY <1>1, PageRows, ListingSorted
<1>3. QED
  BY <1>2 DEF PageFiles, Listed, Shown
-----------------------------------------------------------------------------
(* Types, and the rows a step leaves.                                      *)

DecisionTypes ==
  /\ clock \in Nat
  /\ setting \in Setting
  /\ observed \in Seq([file : Hash, name : Name, at : Nat])
  /\ decided \in Seq([file : Hash, verdict : Verdicts, at : Nat])
  /\ expected \in [Hash -> Verdicts \cup {NoMatch}]
  /\ excuse \in [Hash -> {"none", "error", "clock"}]
  /\ walk \in [target : Target \cup {AnyTarget}, page : Nat, seen : SUBSET Hash,
               owed : SUBSET Hash, steady : BOOLEAN]

LEMMA TypedTables ==
  ASSUME DecisionTypes
  PROVE  IsTable(observed) /\ IsTable(decided)
<1>1. ASSUME NEW table, NEW R, table \in Seq(R), \A row \in R : row.at \in Nat /\ row.file \in Hash
      PROVE  IsTable(table)
  BY <1>1 DEF IsTable
<1>2. \A row \in [file : Hash, name : Name, at : Nat] : row.at \in Nat /\ row.file \in Hash
  OBVIOUS
<1>3. \A row \in [file : Hash, verdict : Verdicts, at : Nat] : row.at \in Nat /\ row.file \in Hash
  OBVIOUS
<1>4. IsTable(observed)
  BY <1>1, <1>2, Zenon DEF DecisionTypes
<1>5. IsTable(decided)
  BY <1>1, <1>3, Zenon DEF DecisionTypes
<1>6. QED
  BY <1>4, <1>5

\* What an appended row leaves as it was, and what it becomes.
LEMMA AppendedRow ==
  ASSUME NEW table, IsTable(table), NEW row, NEW after, Len(after) = Len(table) + 1,
         DOMAIN after = 1 .. Len(table) + 1,
         \A i \in DOMAIN table : after[i] = table[i],
         after[Len(table) + 1] = row, row.file \in Hash, row.at \in Nat
  PROVE  /\ IsTable(after)
         /\ \A f \in Hash : f # row.file => RowsOf(after, f) = RowsOf(table, f)
         /\ RowsOf(after, row.file) = RowsOf(table, row.file) \cup {Len(table) + 1}
         /\ \A i \in DOMAIN table : i < Len(table) + 1
         /\ \A i, j \in DOMAIN table : Later(after, i, j) <=> Later(table, i, j)
<1>1. DOMAIN after = DOMAIN table \cup {Len(table) + 1} /\ Len(table) + 1 \notin DOMAIN table
  BY DEF IsTable
<1>2. IsTable(after)
  BY DEF IsTable
<1>3. \A f : RowsOf(after, f) = RowsOf(table, f) \cup {i \in {Len(table) + 1} : row.file = f}
  BY <1>1 DEF RowsOf
<1>4. \A f \in Hash : f # row.file => RowsOf(after, f) = RowsOf(table, f)
  BY <1>3
<1>5. RowsOf(after, row.file) = RowsOf(table, row.file) \cup {Len(table) + 1}
  BY <1>3
<1>6. \A i, j \in DOMAIN table : Later(after, i, j) <=> Later(table, i, j)
  BY DEF Later
<1>7. \A i \in DOMAIN table : i < Len(table) + 1
  BY DEF IsTable
<1>8. QED
  BY <1>2, <1>4, <1>5, <1>6, <1>7

LEMMA TypesInit ==
  ASSUME DecisionsAssumption, DecisionsInit
  PROVE  DecisionTypes
BY DEF DecisionsInit, DecisionTypes, Idle, Hash

LEMMA TypesStep ==
  ASSUME DecisionsAssumption, DecisionTypes, [DecisionsNext]_decisionVars
  PROVE  DecisionTypes'
<1> USE DEF DecisionTypes
<1>1. ASSUME NEW f \in Hash, Disturb(f)
      PROVE  walk' \in [target : Target \cup {AnyTarget}, page : Nat, seen : SUBSET Hash,
                       owed : SUBSET Hash, steady : BOOLEAN]
  <2>1. walk'.owed \in SUBSET walk.owed /\ walk'.steady \in BOOLEAN
          /\ walk' = [walk EXCEPT !.owed = walk'.owed, !.steady = walk'.steady]
    <3>1. CASE ~Walking
      BY <1>1, <3>1 DEF Disturb
    <3>2. CASE Walking
      <4>1. PICK target \in {walk.target} :
              walk' = [walk EXCEPT !.owed = (@ \cap Listed(target)') \ {f},
                         !.steady = @ /\ Listed(target) \subseteq Listed(target)']
        BY <1>1, <3>2 DEF Disturb
      <4>2. QED
        BY <4>1
    <3>3. QED
      BY <3>1, <3>2
  <2>2. QED
    BY <2>1
<1>2. ASSUME NEW f \in Hash, NEW name \in Name, AppendObservation(f, name)
      PROVE  observed' \in Seq([file : Hash, name : Name, at : Nat])
  BY <1>2 DEF AppendObservation
<1>3. ASSUME NEW name \in Name, Judge[setting][name] # NoMatch
      PROVE  Judge[setting][name] \in Verdicts
  BY <1>3 DEF Verdicts
<1>4. ASSUME NEW f \in Hash, NEW name \in Name, RecordObservation(f, name)
      PROVE  DecisionTypes'
  <2>1. CASE Unmatched(f, name)
    BY <1>1, <1>2, <2>1 DEF Unmatched
  <2>2. CASE Unchanged(f, name)
    BY <1>1, <1>2, <1>3, <2>2 DEF Unchanged
  <2>3. CASE Decided(f, name)
    <3>1. decided' \in Seq([file : Hash, verdict : Verdicts, at : Nat])
      BY <1>3, <2>3 DEF Decided
    <3>2. QED
      BY <3>1, <1>1, <1>2, <1>3, <2>3 DEF Decided
  <2>4. CASE Undecided(f, name)
    BY <1>1, <1>2, <1>3, <2>4 DEF Undecided, Fault
  <2>5. QED
    BY <1>4, <2>1, <2>2, <2>3, <2>4 DEF RecordObservation
<1>5. CASE Restart \/ ClockTicks \/ StepBack \/ UNCHANGED decisionVars
  BY <1>5 DEF Restart, ClockTicks, StepBack, Fault, decisionVars, catalog
<1>6. ASSUME NEW target \in Target \cup {AnyTarget}, Ask(target) PROVE DecisionTypes'
  <2>1. Listed(target) \in SUBSET Hash
    BY TypedTables, Joined DEF Listed
  <2>2. QED
    BY <1>6, <2>1 DEF Ask, catalog
<1>7. CASE ReadPage
  <2>1. PageFiles \in SUBSET Hash
    BY <1>7, TypedTables, PageInList, Joined DEF ReadPage, Listed
  <2>2. Idle \in [target : Target \cup {AnyTarget}, page : Nat, seen : SUBSET Hash,
                  owed : SUBSET Hash, steady : BOOLEAN]
    BY DEF Idle
  <2>3. walk' = Idle \/ walk' = [walk EXCEPT !.page = @ + 1, !.seen = @ \cup PageFiles]
    BY <1>7 DEF ReadPage
  <2>4. walk' \in [target : Target \cup {AnyTarget}, page : Nat, seen : SUBSET Hash,
                   owed : SUBSET Hash, steady : BOOLEAN]
    <3>1. CASE walk' = Idle
      BY <2>2, <3>1
    <3>2. CASE walk' = [walk EXCEPT !.page = @ + 1, !.seen = @ \cup PageFiles]
      <4>1. walk' = [target |-> walk.target, page |-> walk.page + 1,
                     seen |-> walk.seen \cup PageFiles,
                     owed |-> walk.owed, steady |-> walk.steady]
        BY <3>2
      <4>2. walk.seen \cup PageFiles \in SUBSET Hash
        BY <2>1
      <4>3. QED
        BY <4>1, <4>2
    <3>3. QED
      BY <2>3, <3>1, <3>2
  <2>5. QED
    BY <1>7, <2>4 DEF ReadPage, catalog
<1>8. QED
  BY <1>4, <1>5, <1>6, <1>7 DEF DecisionsNext
-----------------------------------------------------------------------------
(* The last decision.                                                      *)

LEMMA LastDecisionIs ==
  ASSUME NEW f
  PROVE  LastDecision(f) = Verdict(decided, f) /\ LastDecision(f)' = Verdict(decided', f)
BY DEF LastDecision, Verdict

LEMMA DecidedRow ==
  ASSUME DecisionTypes, NEW f \in Hash, NEW name \in Name, Decided(f, name)
  PROVE  LET row == [file |-> f, verdict |-> Judge[setting][name], at |-> clock]
         IN  /\ IsTable(decided') /\ row.file \in Hash /\ row.at \in Nat
             /\ Len(decided') = Len(decided) + 1
             /\ DOMAIN decided' = 1 .. Len(decided) + 1
             /\ \A i \in DOMAIN decided : decided'[i] = decided[i]
             /\ decided'[Len(decided) + 1] = row
<1> DEFINE row == [file |-> f, verdict |-> Judge[setting][name], at |-> clock]
<1>1. decided' = Append(decided, row) /\ clock \in Nat
  BY DEF Decided, DecisionTypes
<1>2. row.file \in Hash /\ row.at \in Nat
  BY <1>1
<1> HIDE DEF row
<1>3. /\ Len(decided') = Len(decided) + 1
      /\ DOMAIN decided' = 1 .. Len(decided) + 1
      /\ \A i \in DOMAIN decided : decided'[i] = decided[i]
      /\ decided'[Len(decided) + 1] = row
  BY <1>1 DEF DecisionTypes
<1>4. IsTable(decided')
  BY <1>2, <1>3, TypedTables, AppendedRow
<1>5. QED
  BY <1>2, <1>3, <1>4 DEF row

\* An appended row is the last of its file, unless a row has a later time.
LEMMA AppendedLast ==
  ASSUME NEW table, IsTable(table), NEW row, NEW after, Len(after) = Len(table) + 1,
         DOMAIN after = 1 .. Len(table) + 1,
         \A i \in DOMAIN table : after[i] = table[i],
         after[Len(table) + 1] = row, row.file \in Hash, row.at \in Nat
  PROVE  /\ \A f \in Hash : f # row.file =>
              /\ RowsOf(after, f) = RowsOf(table, f)
              /\ \A i : IsLast(after, f, i) <=> IsLast(table, f, i)
         /\ (\A i \in RowsOf(table, row.file) : table[i].at <= row.at) =>
              IsLast(after, row.file, Len(table) + 1)
<1> DEFINE n == Len(table) + 1
<1>1. /\ IsTable(after)
      /\ \A f \in Hash : f # row.file => RowsOf(after, f) = RowsOf(table, f)
      /\ RowsOf(after, row.file) = RowsOf(table, row.file) \cup {n}
      /\ \A i \in DOMAIN table : i < n
      /\ \A i, j \in DOMAIN table : Later(after, i, j) <=> Later(table, i, j)
  BY AppendedRow
<1>2. \A f : RowsOf(table, f) \subseteq DOMAIN table
  BY DEF RowsOf
<1>3. ASSUME NEW f \in Hash, f # row.file, NEW i
      PROVE  IsLast(after, f, i) <=> IsLast(table, f, i)
  BY <1>1, <1>2, <1>3 DEF IsLast
<1>4. ASSUME \A i \in RowsOf(table, row.file) : table[i].at <= row.at
      PROVE  IsLast(after, row.file, n)
  <2>1. ASSUME NEW j \in RowsOf(table, row.file) PROVE Later(after, n, j)
    <3>1. j \in DOMAIN table /\ j < n /\ after[j] = table[j] /\ table[j].at \in Nat
      BY <1>1, <1>2 DEF IsTable
    <3>2. QED
      BY <3>1, <1>4 DEF Later
  <2>2. QED
    BY <1>1, <2>1 DEF IsLast
<1>5. QED
  BY <1>1, <1>3, <1>4

LEMMA VerdictStep ==
  ASSUME DecisionsAssumption, DecisionTypes, VerdictFollows, [DecisionsNext]_decisionVars
  PROVE  VerdictFollows'
<1> USE DEF DecisionTypes
<1>1. ASSUME UNCHANGED <<decided, expected, excuse>> PROVE VerdictFollows'
  BY <1>1, LastDecisionIs DEF VerdictFollows
<1>2. ASSUME NEW f \in Hash, NEW name \in Name, RecordObservation(f, name)
      PROVE  VerdictFollows'
  <2>1. CASE Unmatched(f, name)
    BY <1>1, <2>1 DEF Unmatched
  <2>2. CASE Unchanged(f, name)
    <3>1. decided' = decided /\ LastDecision(f) = Judge[setting][name]
          /\ expected' = [expected EXCEPT ![f] = Judge[setting][name]]
          /\ excuse' = [excuse EXCEPT ![f] = "none"]
      BY <2>2 DEF Unchanged, Changed
    <3>2. \A g \in Hash : LastDecision(g)' = LastDecision(g)
      BY <3>1, LastDecisionIs
    <3>3. QED
      BY <3>1, <3>2 DEF VerdictFollows
  <2>3. CASE Undecided(f, name)
    <3>1. decided' = decided /\ expected' = [expected EXCEPT ![f] = Judge[setting][name]]
          /\ excuse' = [excuse EXCEPT ![f] = "error"]
      BY <2>3 DEF Undecided
    <3>2. \A g \in Hash : LastDecision(g)' = LastDecision(g)
      BY <3>1, LastDecisionIs
    <3>3. QED
      BY <3>1, <3>2 DEF VerdictFollows
  <2>4. CASE Decided(f, name)
    <3> DEFINE row == [file |-> f, verdict |-> Judge[setting][name], at |-> clock]
    <3>1. /\ IsTable(decided) /\ IsTable(decided') /\ row.file \in Hash /\ row.at \in Nat
          /\ Len(decided') = Len(decided) + 1
          /\ DOMAIN decided' = 1 .. Len(decided) + 1
          /\ \A i \in DOMAIN decided : decided'[i] = decided[i]
          /\ decided'[Len(decided) + 1] = row
      BY <2>4, DecidedRow, TypedTables
    <3>2. row.file = f /\ row.verdict = Judge[setting][name] /\ row.at = clock
      OBVIOUS
    <3> HIDE DEF row
    <3>3. /\ \A g \in Hash : g # f =>
               /\ RowsOf(decided', g) = RowsOf(decided, g)
               /\ \A i : IsLast(decided', g, i) <=> IsLast(decided, g, i)
          /\ (\A i \in RowsOf(decided, f) : decided[i].at <= row.at) =>
               IsLast(decided', f, Len(decided) + 1)
      <4>1. /\ \A g \in Hash : g # row.file =>
                 /\ RowsOf(decided', g) = RowsOf(decided, g)
                 /\ \A i : IsLast(decided', g, i) <=> IsLast(decided, g, i)
            /\ (\A i \in RowsOf(decided, row.file) : decided[i].at <= row.at) =>
                 IsLast(decided', row.file, Len(decided) + 1)
        BY <3>1, AppendedLast
      <4>2. QED
        BY <3>2, <4>1
    <3>4. ASSUME NEW g \in Hash, g # f PROVE LastDecision(g)' = LastDecision(g)
      <4>1. RowsOf(decided', g) = RowsOf(decided, g)
        BY <3>3, <3>4
      <4>2. CASE RowsOf(decided, g) = {}
        BY <4>1, <4>2, LastDecisionIs DEF Verdict
      <4>3. CASE RowsOf(decided, g) # {}
        <5>1. PICK i : IsLast(decided, g, i)
          BY <3>1, <4>3, LastVerdict
        <5>2. Verdict(decided, g) = decided[i].verdict
          BY <3>1, <5>1, LastVerdict
        <5>3. Verdict(decided', g) = decided'[i].verdict
          BY <3>1, <3>3, <3>4, <5>1, LastVerdict
        <5>4. i \in DOMAIN decided
          BY <5>1 DEF IsLast, RowsOf
        <5>5. QED
          BY <3>1, <5>2, <5>3, <5>4, LastDecisionIs
      <4>4. QED
        BY <4>2, <4>3
    <3>5. ASSUME ~Behind(f) PROVE LastDecision(f)' = Judge[setting][name]
      <4>1. \A i \in RowsOf(decided, f) : decided[i].at <= row.at
        BY <3>1, <3>2, <3>5 DEF Behind, RowsOf, IsTable
      <4>2. Verdict(decided', f) = row.verdict
        BY <3>1, <3>3, <4>1, LastVerdict
      <4>3. QED
        BY <3>2, <4>2, LastDecisionIs
    <3>6. expected' = [expected EXCEPT ![f] = Judge[setting][name]]
          /\ excuse' = [excuse EXCEPT ![f] = IF Behind(f) THEN "clock" ELSE "none"]
      BY <2>4 DEF Decided
    <3>7. ASSUME NEW g \in Hash, excuse'[g] = "none" PROVE LastDecision(g)' = expected'[g]
      <4>1. CASE g = f
        BY <3>5, <3>6, <3>7, <4>1
      <4>2. CASE g # f
        BY <3>4, <3>6, <3>7, <4>2 DEF VerdictFollows
      <4>3. QED
        BY <4>1, <4>2
    <3>8. QED
      BY <3>7 DEF VerdictFollows
  <2>5. QED
    BY <1>2, <2>1, <2>2, <2>3, <2>4 DEF RecordObservation
<1>3. QED
  BY <1>1, <1>2 DEF DecisionsNext, Restart, ClockTicks, StepBack, Ask, ReadPage, Fault,
                    decisionVars, catalog

LEMMA NoRepeatStep ==
  ASSUME DecisionsAssumption, DecisionTypes, NoRepeat, [DecisionsNext]_decisionVars
  PROVE  NoRepeat'
<1>1. ASSUME UNCHANGED decided PROVE NoRepeat'
  BY <1>1 DEF NoRepeat
<1>2. ASSUME NEW f \in Hash, NEW name \in Name, Decided(f, name)
      PROVE  NoRepeat'
  <2> DEFINE row == [file |-> f, verdict |-> Judge[setting][name], at |-> clock]
             n == Len(decided) + 1
  <2>1. /\ IsTable(decided) /\ IsTable(decided') /\ row.file \in Hash /\ row.at \in Nat
        /\ Len(decided') = n
        /\ DOMAIN decided' = 1 .. n
        /\ \A i \in DOMAIN decided : decided'[i] = decided[i]
        /\ decided'[n] = row
    BY <1>2, DecidedRow, TypedTables
  <2>2. row.file = f /\ row.verdict = Judge[setting][name]
    OBVIOUS
  <2> HIDE DEF row
  <2>3. /\ \A g \in Hash : g # f => RowsOf(decided', g) = RowsOf(decided, g)
        /\ RowsOf(decided', f) = RowsOf(decided, f) \cup {n}
        /\ \A i \in DOMAIN decided : i < n
    BY <2>1, <2>2, AppendedRow
  <2>4. \A g : RowsOf(decided, g) \subseteq DOMAIN decided
    BY DEF RowsOf
  <2>5. n \in Nat /\ n \notin DOMAIN decided /\ DOMAIN decided \subseteq Nat
    BY <2>1 DEF IsTable
  <2> HIDE DEF n
  <2>6. ASSUME NEW g \in Hash, NEW i \in RowsOf(decided', g), NEW j \in RowsOf(decided', g),
               i < j, ~\E k \in RowsOf(decided', g) : i < k /\ k < j,
               decided'[i].verdict = decided'[j].verdict
        PROVE  \E k \in RowsOf(decided', g) : k < i /\ decided'[k].at > decided'[i].at
    <3>1. CASE j \in RowsOf(decided, g)
      <4>1. i \in RowsOf(decided, g)
        BY <2>3, <2>4, <2>5, <2>6, <3>1
      <4>2. /\ decided[i].verdict = decided[j].verdict
            /\ ~\E k \in RowsOf(decided, g) : i < k /\ k < j
        BY <2>1, <2>3, <2>4, <2>6, <3>1, <4>1
      <4>3. PICK k \in RowsOf(decided, g) : k < i /\ decided[k].at > decided[i].at
        BY <2>6, <3>1, <4>1, <4>2 DEF NoRepeat
      <4>4. QED
        BY <2>1, <2>3, <2>4, <4>1, <4>3
    <3>2. CASE j \notin RowsOf(decided, g)
      <4>1. g = f /\ j = n /\ i \in RowsOf(decided, f)
        BY <2>3, <2>6, <3>2
      <4>2. PICK l : IsLast(decided, f, l)
        BY <2>1, <4>1, LastVerdict
      <4>3. decided[l].verdict # Judge[setting][name]
        <5>1. LastDecision(f) # Judge[setting][name]
          BY <1>2 DEF Decided, Changed
        <5>2. QED
          BY <2>1, <4>2, <5>1, LastVerdict, LastDecisionIs
      <4>4. decided[i].verdict = Judge[setting][name]
        BY <2>1, <2>2, <2>4, <2>6, <4>1
      <4>5. l \in RowsOf(decided, f) /\ Later(decided, l, i) /\ l # i
        BY <4>1, <4>2, <4>3, <4>4 DEF IsLast
      <4>6. l < i
        BY <2>3, <2>4, <2>5, <2>6, <4>1, <4>5
      <4>7. decided[l].at > decided[i].at
        BY <2>4, <2>5, <4>1, <4>5, <4>6 DEF Later
      <4>8. QED
        BY <2>1, <2>3, <2>4, <4>1, <4>5, <4>6, <4>7
    <3>3. QED
      BY <3>1, <3>2
  <2>7. QED
    BY <2>6 DEF NoRepeat
<1>3. QED
  BY <1>1, <1>2 DEF DecisionsNext, RecordObservation, Unmatched, Unchanged, Undecided, Restart,
                    ClockTicks, StepBack, Ask, ReadPage, decisionVars, catalog

DecisionInv == DecisionTypes /\ VerdictFollows /\ NoRepeat

\* In every state the last decision of a file follows its last verdict, and no
\* verdict is repeated (catalog_repository.py: _INSERT_DECISION after
\* last_decision), for any files, names, configurations and clock.
THEOREM DecisionInvariant == DecisionsSpec => []DecisionInv
<1>1. DecisionsAssumption /\ DecisionsInit => DecisionInv
  <2>1. SUFFICES ASSUME DecisionsAssumption, DecisionsInit PROVE DecisionInv
    OBVIOUS
  <2>2. \A f : RowsOf(decided, f) = {}
    BY <2>1 DEF DecisionsInit, RowsOf
  <2>3. QED
    BY <2>1, <2>2, TypesInit DEF DecisionInv, VerdictFollows, NoRepeat, LastDecision, DecisionsInit
<1>2. DecisionsAssumption /\ DecisionInv /\ [DecisionsNext]_decisionVars => DecisionInv'
  BY TypesStep, VerdictStep, NoRepeatStep DEF DecisionInv
<1>3. QED
  BY <1>1, <1>2, DecisionsAssumption, PTL DEF DecisionsSpec
\* The last decision of a file is the verdict of its last observation that
\* matched, but after an error or a step back of the clock.
THEOREM LastDecisionFollows == DecisionsSpec => []VerdictFollows
BY DecisionInvariant, PTL DEF DecisionInv

\* A verdict is recorded when it changes, and only then.
THEOREM VerdictsChange == DecisionsSpec => []NoRepeat
BY DecisionInvariant, PTL DEF DecisionInv
-----------------------------------------------------------------------------
(* The readers.                                                            *)

LEMMA LatestIsLast ==
  ASSUME NEW table, IsTable(table), NEW f, NEW i
  PROVE  i \in LatestRows(table, f) <=> IsLast(table, f, i)
<1>1. CASE RowsOf(table, f) = {}
  BY <1>1, LastRow DEF IsLast
<1>2. CASE RowsOf(table, f) # {}
  <2>1. PICK j \in RowsOf(table, f) : LatestRows(table, f) = {j} /\ IsLast(table, f, j)
    BY <1>2, LastRow
  <2>2. QED
    BY <2>1, LastIsOne
<1>3. QED
  BY <1>1, <1>2

LEMMA FirstNumber ==
  ASSUME NEW table, IsTable(table), NEW i \in DOMAIN table
  PROVE  RowNumber(table, i) = 1 <=> IsLast(table, table[i].file, i)
<1> DEFINE f == table[i].file
           S == {j \in RowsOf(table, f) :
                   table[j].at > table[i].at \/ (table[j].at = table[i].at /\ j > i)}
<1>1. IsFiniteSet(DOMAIN table)
  BY FS_Interval DEF IsTable
<1>2. S \in SUBSET DOMAIN table
  BY DEF RowsOf
<1>3. IsFiniteSet(S)
  BY <1>1, <1>2, FS_Subset
<1>4. Cardinality(S) \in Nat /\ (Cardinality(S) = 0 <=> S = {})
  BY <1>3, FS_CardinalityType, FS_EmptySet
<1>5. RowNumber(table, i) = 1 + Cardinality(S)
  BY DEF RowNumber
<1>6. S = {} <=> IsLast(table, f, i)
  <2>1. i \in RowsOf(table, f) /\ i \in Nat /\ table[i].at \in Nat
    BY DEF RowsOf, IsTable
  <2>2. \A j \in RowsOf(table, f) : j \in Nat /\ table[j].at \in Nat
    BY DEF RowsOf, IsTable
  <2>3. QED
    BY <2>1, <2>2 DEF IsLast, Later
<1> HIDE DEF S, f
<1>7. RowNumber(table, i) = 1 <=> S = {}
  BY <1>4, <1>5
<1>8. QED
  BY <1>6, <1>7 DEF f

LEMMA TierRanks ==
  /\ ToSet(Tier) = {"catalog", "notify", "download"}
  /\ Rank("catalog") = 1 /\ Rank("notify") = 2 /\ Rank("download") = 3
<1>1. DOMAIN Tier = {1, 2, 3} /\ Tier[1] = "catalog" /\ Tier[2] = "notify" /\ Tier[3] = "download"
  BY DEF Tier
<1>2. ToSet(Tier) = {"catalog", "notify", "download"}
  BY <1>1 DEF ToSet
<1> HIDE DEF Tier
<1>3. QED
  BY <1>1, <1>2 DEF Rank

LEMMA VerdictTier ==
  ASSUME DecisionsAssumption, NEW v \in Verdicts
  PROVE  v.tier \in {"catalog", "notify", "download"} /\ v # NoMatch
<1>1. PICK s \in Setting, n \in Name : v = Judge[s][n] /\ v # NoMatch
  BY DEF Verdicts
<1>2. v.tier \in ToSet(Tier)
  BY <1>1, Zenon DEF DecisionsAssumption
<1>3. QED
  BY <1>1, <1>2, TierRanks

LEMMA DecidedVerdict ==
  ASSUME DecisionTypes, NEW i \in DOMAIN decided
  PROVE  decided[i].verdict \in Verdicts /\ decided[i].file \in Hash
<1>1. ASSUME NEW R, decided \in Seq(R) PROVE decided[i] \in R
  BY <1>1
<1>2. decided[i] \in [file : Hash, verdict : Verdicts, at : Nat]
  BY <1>1 DEF DecisionTypes
<1>3. QED
  BY <1>2

\* The dashboard calls a target found when a last decision on it is to download.
LEMMA FoundIs ==
  ASSUME DecisionsAssumption, DecisionTypes, NEW t
  PROVE  Coverage(t).status = "found" <=>
           \E i \in CoverageRows(t) : decided[i].verdict.tier = "download"
<1> DEFINE rows == CoverageRows(t)
           rank(i) == Rank(decided[i].verdict.tier)
           best == CHOOSE i \in rows : \A j \in rows : rank(j) <= rank(i)
<1>1. CASE rows = {}
  BY <1>1 DEF Coverage
<1>2. CASE rows # {}
  <2>1. ASSUME NEW i \in rows
        PROVE  decided[i].verdict.tier \in {"catalog", "notify", "download"}
    <3>1. decided[i].verdict \in Verdicts
      BY DecidedVerdict DEF CoverageRows
    <3>2. QED
      BY <3>1, VerdictTier
  <2>2. \A i \in rows : rank(i) \in 1 .. 3 /\ (rank(i) = 3 <=> decided[i].verdict.tier = "download")
    BY <2>1, TierRanks
  <2>3. Coverage(t).status = IF decided[best].verdict.tier = "download" THEN "found" ELSE "partial"
    BY <1>2 DEF Coverage
  <2> HIDE DEF rows, rank
  <2>4. \E i \in rows : \A j \in rows : rank(j) <= rank(i)
    <3>1. CASE \E i \in rows : rank(i) = 3
      BY <2>2, <3>1
    <3>2. CASE ~(\E i \in rows : rank(i) = 3) /\ \E i \in rows : rank(i) = 2
      BY <2>2, <3>2
    <3>3. CASE \A i \in rows : rank(i) # 3 /\ rank(i) # 2
      BY <1>2, <2>2, <3>3
    <3>4. QED
      BY <3>1, <3>2, <3>3
  <2>5. best \in rows /\ \A j \in rows : rank(j) <= rank(best)
    BY <2>4
  <2> HIDE DEF best
  <2>6. rank(best) = 3 <=> \E i \in rows : rank(i) = 3
    BY <2>2, <2>5
  <2>7. QED
    BY <2>2, <2>3, <2>5, <2>6 DEF rows
<1>3. QED
  BY <1>1, <1>2

LEMMA CoverageAgrees ==
  ASSUME DecisionsAssumption, DecisionTypes, NEW t
  PROVE  LET last == {f \in Hash : LastDecision(f) # NoMatch /\ LastDecision(f).target = t}
         IN  /\ Coverage(t).count = Cardinality(last)
             /\ Coverage(t).status = "found" <=> last \cap DownloadDecisions # {}
<1> DEFINE last == {f \in Hash : LastDecision(f) # NoMatch /\ LastDecision(f).target = t}
           rows == CoverageRows(t)
           file == [i \in rows |-> decided[i].file]
<1>1. IsTable(decided)
  BY TypedTables
<1>2. ASSUME NEW i \in rows
      PROVE  /\ i \in DOMAIN decided /\ decided[i].file \in last
             /\ IsLast(decided, decided[i].file, i)
  <2>1. /\ i \in DOMAIN decided /\ decided[i].file \in Hash
        /\ decided[i].verdict \in Verdicts /\ decided[i].verdict.target = t
    BY DecidedVerdict DEF CoverageRows
  <2>2. IsLast(decided, decided[i].file, i)
    BY <1>1, LatestIsLast DEF CoverageRows
  <2>3. LastDecision(decided[i].file) = decided[i].verdict
    BY <1>1, <2>2, LastVerdict, LastDecisionIs
  <2>4. QED
    BY <2>1, <2>2, <2>3, VerdictTier
<1>3. ASSUME NEW f \in last
      PROVE  \E i \in rows : decided[i].file = f
  <2>1. RowsOf(decided, f) # {}
    BY <1>1, LastVerdict, LastDecisionIs
  <2>2. PICK i : IsLast(decided, f, i)
    BY <1>1, <2>1, LastVerdict
  <2>3. LastDecision(f) = decided[i].verdict
    BY <1>1, <2>2, LastVerdict, LastDecisionIs
  <2>4. i \in DOMAIN decided /\ decided[i].file = f
    BY <2>2 DEF IsLast, RowsOf
  <2>5. i \in rows
    BY <1>1, <2>2, <2>3, <2>4, LatestIsLast DEF CoverageRows
  <2>6. QED
    BY <2>4, <2>5
<1>4. IsFiniteSet(rows)
  <2>1. IsFiniteSet(DOMAIN decided) /\ rows \in SUBSET DOMAIN decided
    BY <1>1, FS_Interval DEF IsTable, CoverageRows
  <2>2. QED
    BY <2>1, FS_Subset
<1>5. Cardinality(last) = Cardinality(rows)
  <2>1. file \in [rows -> last]
    BY <1>2
  <2>2. \A i, j \in rows : file[i] = file[j] => i = j
    BY <1>1, <1>2, LastIsOne
  <2>3. \A f \in last : \E i \in rows : file[i] = f
    BY <1>3
  <2> HIDE DEF file, rows, last
  <2>4. ExistsBijection(rows, last)
    BY <2>1, <2>2, <2>3, Fun_IsBij DEF ExistsBijection
  <2>5. QED
    BY <1>4, <2>4, FS_Bijection
<1>6. Coverage(t).count = Cardinality(rows)
  <2>1. rows = {} => Cardinality(rows) = 0
    BY FS_EmptySet
  <2>2. QED
    BY <2>1 DEF Coverage
<1>7. (\E i \in rows : decided[i].verdict.tier = "download") <=> last \cap DownloadDecisions # {}
  <2>1. DownloadDecisions = {decided[i].file : i \in {j \in DOMAIN decided :
                 IsLast(decided, decided[j].file, j) /\ decided[j].verdict.tier = "download"}}
    BY <1>1, FirstNumber DEF DownloadDecisions
  <2>2. ASSUME NEW i \in rows, decided[i].verdict.tier = "download"
        PROVE  last \cap DownloadDecisions # {}
    BY <1>2, <2>1, <2>2
  <2>3. ASSUME NEW f \in last, f \in DownloadDecisions
        PROVE  \E i \in rows : decided[i].verdict.tier = "download"
    <3>1. PICK j \in DOMAIN decided : /\ IsLast(decided, decided[j].file, j)
                                      /\ decided[j].verdict.tier = "download"
                                      /\ decided[j].file = f
      BY <2>1, <2>3
    <3>2. PICK i \in rows : decided[i].file = f
      BY <1>3
    <3>3. i = j
      BY <1>1, <1>2, <3>1, <3>2, LastIsOne
    <3>4. QED
      BY <3>1, <3>3
  <2> HIDE DEF last, rows
  <2>4. QED
    BY <2>2, <2>3
<1> HIDE DEF last, rows
<1>8. Coverage(t).status = "found" <=> last \cap DownloadDecisions # {}
  BY <1>7, FoundIs DEF rows
<1>9. Coverage(t).count = Cardinality(last)
  BY <1>5, <1>6
<1>10. QED
  BY <1>8, <1>9 DEF last

LEMMA ListedOnce ==
  ASSUME DecisionsAssumption, DecisionTypes
  PROVE  Cardinality(JoinedRows) = Cardinality(Listed(AnyTarget))
<1> DEFINE file == [row \in JoinedRows |-> row.file]
           all == Listed(AnyTarget)
<1>1. all = {row.file : row \in JoinedRows}
  BY DEF Listed, Passes
<1> HIDE DEF all
<1>2. file \in [JoinedRows -> all] /\ \A f \in all : \E row \in JoinedRows : file[row] = f
  BY <1>1
<1>3. \A r, s \in JoinedRows : file[r] = file[s] => r = s
  BY TypedTables, JoinedOnce
<1> HIDE DEF file
<1>4. ExistsBijection(JoinedRows, all)
  BY <1>2, <1>3, Fun_IsBij DEF ExistsBijection
<1>5. QED
  BY <1>4, TypedTables, JoinedFinite, FS_Bijection DEF all

\* The three readings of the last row (catalog_repository.py: last_decision and
\* download_decisions; the web UI's correlated count) always agree.
THEOREM OneReading == DecisionsSpec => []ReadersAgree
<1>1. DecisionsAssumption /\ DecisionInv => ReadersAgree
  BY TypedTables, LastRow, CoverageAgrees, ListedOnce DEF DecisionInv, ReadersAgree
<1>2. QED
  BY <1>1, DecisionsAssumption, DecisionInvariant, PTL
-----------------------------------------------------------------------------
(* The walk through the pages.                                             *)

\* When a file was last observed, and the files the list has before it.
NewestAt(f) == observed[CHOOSE i \in LatestRows(observed, f) : TRUE].at
IsAhead(g, f) == NewestAt(g) > NewestAt(f) \/ (NewestAt(g) = NewestAt(f) /\ g < f)
Ahead(target, f) == {g \in Listed(target) : IsAhead(g, f)}

LEMMA NewestIs ==
  ASSUME NEW f, NEW i
  PROVE  /\ IsTable(observed) /\ IsLast(observed, f, i) => NewestAt(f) = observed[i].at
         /\ IsTable(observed') /\ IsLast(observed', f, i) => NewestAt(f)' = observed'[i].at
<1>1. ASSUME NEW table, IsTable(table), IsLast(table, f, i)
      PROVE  (CHOOSE j \in LatestRows(table, f) : TRUE) = i
  <2>1. \A j : j \in LatestRows(table, f) <=> j = i
    BY <1>1, LatestIsLast, LastIsOne
  <2>2. QED
    BY <2>1
<1>2. QED
  BY <1>1 DEF NewestAt

LEMMA ListedFiles ==
  ASSUME DecisionTypes, NEW target
  PROVE  /\ Listed(target) \subseteq Hash
         /\ \A f \in Listed(target) : RowsOf(observed, f) # {}
BY TypedTables, Joined DEF Listed, IsLast

\* The place of a file in the list.
LEMMA PlaceOf ==
  ASSUME DecisionsAssumption, DecisionTypes, NEW target, NEW k \in DOMAIN Listing(target)
  PROVE  LET f == Listing(target)[k].file
         IN  IsFiniteSet(Ahead(target, f)) /\ Cardinality(Ahead(target, f)) = k - 1
<1> DEFINE rows == Listing(target)
           f == rows[k].file
           ahead == Ahead(target, f)
           file == [i \in 1 .. k - 1 |-> rows[i].file]
<1>1. /\ rows \in Seq(Shown(target)) /\ Len(rows) \in Nat /\ DOMAIN rows = 1 .. Len(rows)
      /\ \A i \in DOMAIN rows : rows[i] \in Shown(target)
      /\ \A row \in Shown(target) : \E i \in DOMAIN rows : rows[i] = row
      /\ \A i, j \in DOMAIN rows :
           (\/ observed[rows[i].obs].at > observed[rows[j].obs].at
            \/ observed[rows[i].obs].at = observed[rows[j].obs].at /\ rows[i].file < rows[j].file)
           <=> i < j
  BY TypedTables, ListingSorted
<1> HIDE DEF rows
<1>2. \A row \in Shown(target) : NewestAt(row.file) = observed[row.obs].at
  BY TypedTables, Joined, NewestIs DEF Shown
<1>3. \A i, j \in DOMAIN rows : IsAhead(rows[i].file, rows[j].file) <=> i < j
  BY <1>1, <1>2 DEF IsAhead
<1>4. Listed(target) = {row.file : row \in Shown(target)}
  BY DEF Listed, Shown
<1>5. k \in DOMAIN rows /\ k \in Nat
  BY <1>1 DEF rows
<1>6. \A i \in 1 .. k - 1 : i \in DOMAIN rows /\ i < k
  BY <1>1, <1>5
<1>7. file \in [1 .. k - 1 -> ahead]
  BY <1>1, <1>3, <1>4, <1>5, <1>6 DEF Ahead
<1>8. ASSUME NEW i \in 1 .. k - 1, NEW j \in 1 .. k - 1, file[i] = file[j] PROVE i = j
  <2>1. rows[i].file = rows[j].file
    BY <1>8
  <2>2. rows[i] = rows[j]
    BY <2>1, <1>1, <1>6, TypedTables, JoinedOnce DEF Shown
  <2>3. (i < j <=> j < i)
    BY <2>2, <1>1, <1>6
  <2>4. QED
    BY <2>3
<1>9. ASSUME NEW g \in ahead PROVE \E i \in 1 .. k - 1 : file[i] = g
  <2>1. g \in Listed(target) /\ IsAhead(g, f)
    BY DEF Ahead
  <2>2. PICK i \in DOMAIN rows : rows[i].file = g
    BY <2>1, <1>1, <1>4
  <2>3. i < k
    BY <2>1, <2>2, <1>3, <1>5
  <2>4. i \in 1 .. k - 1
    BY <2>3, <1>1, <1>5
  <2>5. QED
    BY <2>2, <2>4
<1>10. ExistsBijection(1 .. k - 1, ahead)
  <2> DEFINE D == 1 .. k - 1
  <2>1. file \in [D -> ahead]
    BY <1>7
  <2>2. \A i, j \in D : file[i] = file[j] => i = j
    BY <1>8
  <2>3. \A g \in ahead : \E i \in D : file[i] = g
    BY <1>9
  <2> HIDE DEF file, ahead, D
  <2>4. file \in Bijection(D, ahead)
    BY <2>1, <2>2, <2>3, Fun_IsBij
  <2>5. QED
    BY <2>4 DEF ExistsBijection, D
<1> HIDE DEF ahead
<1>11. IsFiniteSet(1 .. k - 1) /\ Cardinality(1 .. k - 1) = k - 1
  <2> DEFINE n == k - 1
  <2>1. n \in Nat
    BY <1>1, <1>5
  <2> HIDE DEF n
  <2>2. IsFiniteSet(1 .. n) /\ Cardinality(1 .. n) = n
    BY <2>1, FS_Interval
  <2>3. QED
    BY <2>2 DEF n
<1>12. QED
  BY <1>10, <1>11, FS_Bijection DEF ahead, rows

\* A listed file is on the page its place is on, and none is after the last page.
LEMMA OnItsPage ==
  ASSUME DecisionsAssumption, DecisionTypes, Walking, NEW f \in Listed(walk.target)
  PROVE  LET n == Cardinality(Ahead(walk.target, f)) IN
         /\ n \in Nat
         /\ Offset(walk.page) <= n /\ n < Offset(walk.page) + PageSize => f \in PageFiles
         /\ OnLastPage => n < Offset(walk.page) + PageSize
<1> DEFINE rows == Listing(walk.target)
           from == Offset(walk.page)
           n == Cardinality(Ahead(walk.target, f))
<1>1. /\ rows \in Seq(Shown(walk.target)) /\ Len(rows) \in Nat /\ DOMAIN rows = 1 .. Len(rows)
      /\ \A row \in Shown(walk.target) : \E i \in DOMAIN rows : rows[i] = row
  BY TypedTables, ListingSorted
<1>2. walk.page \in Nat \ {0} /\ PageSize \in Nat
  BY DEF Walking, DecisionTypes, DecisionsAssumption
<1>3. /\ from \in Nat
      /\ ToSet(PageOf(walk.target, walk.page)) =
           {rows[i] : i \in {j \in DOMAIN rows : from < j /\ j <= from + PageSize}}
      /\ ~HasNext(PageOf(walk.target, walk.page)) => Len(rows) < from + PageSize
  BY <1>2, TypedTables, PageRows
<1>4. PICK k \in DOMAIN rows : rows[k].file = f
  BY <1>1 DEF Listed, Shown
<1>5. n = k - 1
  BY <1>4, PlaceOf
<1> HIDE DEF rows, n, from
<1>6. n \in Nat /\ k \in Nat /\ k <= Len(rows)
  BY <1>1, <1>5
<1>7. ASSUME from <= n, n < from + PageSize PROVE f \in PageFiles
  <2>1. from < k /\ k <= from + PageSize
    BY <1>2, <1>3, <1>5, <1>6, <1>7
  <2>2. rows[k] \in ToSet(PageOf(walk.target, walk.page))
    BY <1>3, <2>1
  <2>3. QED
    BY <1>4, <2>2 DEF PageFiles
<1>8. OnLastPage => n < from + PageSize
  BY <1>1, <1>2, <1>3, <1>5, <1>6 DEF OnLastPage
<1>9. QED
  BY <1>6, <1>7, <1>8 DEF n, from

\* While no row leaves the list, a file the reader is owed was seen, or the list
\* has it on this page or on a later one.
WalkInv ==
  \A target \in Target \cup {AnyTarget} :
    Walking /\ walk.target = target /\ walk.steady =>
      \A f \in walk.owed :
        /\ f \in Listed(target)
        /\ f \in walk.seen \/ Offset(walk.page) <= Cardinality(Ahead(target, f))

LEMMA AheadFinite ==
  ASSUME DecisionsAssumption, DecisionTypes, NEW target, NEW f
  PROVE  /\ IsFiniteSet(Ahead(target, f))
         /\ Cardinality(Ahead(target, f)) \in Nat
<1>1. Ahead(target, f) \in SUBSET Hash
  BY ListedFiles DEF Ahead
<1>2. QED
  BY <1>1, TypedTables, JoinedFinite, FS_Subset, FS_CardinalityType

\* A write about a file moves it forward only: nothing comes before another file
\* any more that was not listed before it.
LEMMA WriteKeepsAhead ==
  ASSUME DecisionsAssumption, DecisionTypes, DecisionTypes',
         NEW target, NEW g \in Hash, NEW name \in Name, AppendObservation(g, name),
         Listed(target) \subseteq Listed(target)', NEW f \in Listed(target), f # g
  PROVE  Ahead(target, f) \subseteq Ahead(target, f)'
<1> DEFINE row == [file |-> g, name |-> name, at |-> clock]
           n == Len(observed) + 1
<1>1. observed' = Append(observed, row) /\ IsTable(observed) /\ row.at \in Nat
  BY TypedTables DEF AppendObservation, DecisionTypes
<1>2. row.file = g /\ row.file \in Hash
  OBVIOUS
<1> HIDE DEF row
<1>3. /\ Len(observed') = n /\ DOMAIN observed' = 1 .. n
      /\ \A i \in DOMAIN observed : observed'[i] = observed[i]
      /\ observed'[n] = row
  BY <1>1 DEF DecisionTypes
<1>4. /\ IsTable(observed')
      /\ RowsOf(observed', g) = RowsOf(observed, g) \cup {n}
      /\ \A i \in DOMAIN observed : i < n
      /\ \A i, j \in DOMAIN observed : Later(observed', i, j) <=> Later(observed, i, j)
  <2>1. /\ IsTable(observed')
        /\ RowsOf(observed', row.file) = RowsOf(observed, row.file) \cup {n}
        /\ \A i \in DOMAIN observed : i < n
        /\ \A i, j \in DOMAIN observed : Later(observed', i, j) <=> Later(observed, i, j)
    BY <1>1, <1>2, <1>3, AppendedRow
  <2>2. QED
    BY <2>1, <1>2
<1>5. \A h \in Hash : h # g => \A i : IsLast(observed', h, i) <=> IsLast(observed, h, i)
  <2>1. \A h \in Hash : h # row.file => \A i : IsLast(observed', h, i) <=> IsLast(observed, h, i)
    BY <1>1, <1>2, <1>3, AppendedLast
  <2>2. QED
    BY <2>1, <1>2
<1> HIDE DEF n
<1>6. \A h \in Listed(target) : h \in Hash /\ RowsOf(observed, h) # {}
  BY ListedFiles
<1>7. ASSUME NEW h \in Listed(target), h # g
      PROVE  NewestAt(h)' = NewestAt(h) /\ NewestAt(h) \in Nat
  <2>1. PICK i : IsLast(observed, h, i)
    BY <1>1, <1>6, LastVerdict
  <2>2. i \in DOMAIN observed
    BY <2>1 DEF IsLast, RowsOf
  <2>3. NewestAt(h) = observed[i].at /\ NewestAt(h)' = observed'[i].at
    BY <1>1, <1>4, <1>5, <1>6, <1>7, <2>1, NewestIs
  <2>4. QED
    BY <1>1, <1>3, <2>2, <2>3 DEF IsTable
<1>8. ASSUME g \in Listed(target)
      PROVE  NewestAt(g) <= NewestAt(g)' /\ NewestAt(g) \in Nat /\ NewestAt(g)' \in Nat
  <2>1. PICK i : IsLast(observed, g, i)
    BY <1>1, <1>6, <1>8, LastVerdict
  <2>2. RowsOf(observed', g) # {}
    BY <1>4
  <2>3. PICK j : IsLast(observed', g, j)
    BY <1>4, <2>2, LastVerdict
  <2>4. NewestAt(g) = observed[i].at /\ NewestAt(g)' = observed'[j].at
    BY <1>1, <1>4, <2>1, <2>3, NewestIs
  <2>5. i \in DOMAIN observed /\ i \in RowsOf(observed', g) /\ j \in DOMAIN observed'
    BY <1>4, <2>1, <2>3 DEF IsLast, RowsOf
  <2>6. j = i \/ Later(observed', j, i)
    BY <2>3, <2>5 DEF IsLast
  <2>7. observed[i] = observed'[i] /\ observed[i].at \in Nat /\ observed'[j].at \in Nat
    BY <1>1, <1>3, <1>4, <2>5 DEF IsTable
  <2>8. QED
    BY <2>4, <2>6, <2>7 DEF Later
<1>9. ASSUME NEW h \in Listed(target), IsAhead(h, f) PROVE IsAhead(h, f)'
  <2>1. CASE h # g
    BY <1>7, <1>9, <2>1 DEF IsAhead
  <2>2. CASE h = g
    BY <1>7, <1>8, <1>9, <2>2 DEF IsAhead
  <2>3. QED
    BY <2>1, <2>2
<1>10. QED
  BY <1>9 DEF Ahead

LEMMA ListKept ==
  ASSUME UNCHANGED catalog, NEW target, NEW f
  PROVE  Listed(target)' = Listed(target) /\ Ahead(target, f)' = Ahead(target, f)
<1>1. observed' = observed /\ decided' = decided
  BY DEF catalog
<1>2. Listed(target)' = Listed(target)
  BY <1>1 DEF Listed, JoinedRows, Passes
<1>3. QED
  BY <1>1, <1>2 DEF Ahead, IsAhead, NewestAt

LEMMA WalkStep ==
  ASSUME DecisionsAssumption, DecisionTypes, DecisionTypes', WalkInv,
         [DecisionsNext]_decisionVars
  PROVE  WalkInv'
<1> DEFINE Choice == Target \cup {AnyTarget}
           Records == [target : Choice, page : Nat, seen : SUBSET Hash,
                       owed : SUBSET Hash, steady : BOOLEAN]
<1> USE DEF Walking
<1>1. walk \in Records /\ walk' \in Records
  BY DEF DecisionTypes
<1>2. ASSUME UNCHANGED <<catalog, walk>> PROVE WalkInv'
  <2>1. SUFFICES ASSUME NEW target \in Choice, walk.page > 0, walk.target = target,
                        walk.steady, NEW f \in walk.owed
        PROVE  /\ f \in Listed(target)'
               /\ f \in walk.seen \/ Offset(walk.page) <= Cardinality(Ahead(target, f)')
    BY <1>2 DEF WalkInv
  <2>2. Listed(target)' = Listed(target) /\ Ahead(target, f)' = Ahead(target, f)
    BY <1>2, ListKept
  <2>3. QED
    BY <2>1, <2>2 DEF WalkInv
<1>3. ASSUME NEW g \in Hash, NEW name \in Name, AppendObservation(g, name), Disturb(g)
      PROVE  WalkInv'
  <2>1. SUFFICES ASSUME NEW target \in Choice, walk'.page > 0, walk'.target = target,
                        walk'.steady, NEW f \in walk'.owed
        PROVE  /\ f \in Listed(target)'
               /\ f \in walk'.seen \/ Offset(walk'.page) <= Cardinality(Ahead(target, f)')
    BY DEF WalkInv
  <2>2. PICK asked \in {walk.target} :
          walk' = IF ~Walking THEN walk
                  ELSE [walk EXCEPT !.owed = (@ \cap Listed(asked)') \ {g},
                          !.steady = @ /\ Listed(asked) \subseteq Listed(asked)']
    BY <1>3 DEF Disturb
  <2>3. Walking
    BY <2>1, <2>2
  <2>4. walk' = [walk EXCEPT !.owed = (@ \cap Listed(asked)') \ {g},
                   !.steady = @ /\ Listed(asked) \subseteq Listed(asked)']
    BY <2>2, <2>3
  <2>5. walk.target = asked /\ target = asked
    BY <1>1, <2>1, <2>2, <2>4
  <2>6. /\ walk'.page = walk.page /\ walk'.seen = walk.seen
        /\ f \in walk.owed /\ f # g /\ f \in Listed(target)'
        /\ walk.steady /\ Listed(target) \subseteq Listed(target)'
    BY <1>1, <2>1, <2>4, <2>5
  <2>7. f \in Listed(target)
        /\ (f \in walk.seen \/ Offset(walk.page) <= Cardinality(Ahead(target, f)))
    BY <2>3, <2>5, <2>6 DEF WalkInv
  <2>8. Ahead(target, f) \subseteq Ahead(target, f)'
    BY <1>3, <2>6, <2>7, WriteKeepsAhead
  <2>9. IsFiniteSet(Ahead(target, f)')
    <3>1. Listed(target)' \subseteq {observed'[i].file : i \in DOMAIN observed'}
      BY DEF Listed, JoinedRows
    <3>2. ASSUME NEW i \in DOMAIN observed' PROVE observed'[i].file \in Hash
      <4>1. ASSUME NEW R, observed' \in Seq(R) PROVE observed'[i] \in R
        BY <4>1
      <4>2. observed'[i] \in [file : Hash, name : Name, at : Nat]
        BY <4>1 DEF DecisionTypes
      <4>3. QED
        BY <4>2
    <3>3. Ahead(target, f)' \in SUBSET Hash
      BY <3>1, <3>2 DEF Ahead
    <3>4. QED
      BY <3>3, TypedTables, JoinedFinite, FS_Subset
  <2>10. Cardinality(Ahead(target, f)) <= Cardinality(Ahead(target, f)')
    BY <2>8, <2>9, FS_Subset
  <2>11. /\ Cardinality(Ahead(target, f)) \in Nat /\ Cardinality(Ahead(target, f)') \in Nat
         /\ Offset(walk.page) \in Nat
    <3>1. walk.page \in Nat \ {0}
      BY <1>1, <2>3
    <3>2. QED
      BY <2>9, <3>1, AheadFinite, FS_CardinalityType, PageRows, TypedTables
  <2>12. QED
    BY <2>6, <2>7, <2>10, <2>11
<1>4. ASSUME NEW asked \in Choice, Ask(asked) PROVE WalkInv'
  <2>1. walk' = [target |-> asked, page |-> 1, seen |-> {}, owed |-> Listed(asked),
                 steady |-> TRUE] /\ UNCHANGED catalog
    BY <1>4 DEF Ask, catalog
  <2>2. SUFFICES ASSUME NEW f \in Listed(asked)
        PROVE  f \in Listed(asked)' /\ Offset(1) <= Cardinality(Ahead(asked, f)')
    BY <2>1 DEF WalkInv
  <2>3. Offset(1) = 0
    BY DEF Offset, DecisionsAssumption
  <2>4. Listed(asked)' = Listed(asked) /\ Ahead(asked, f)' = Ahead(asked, f)
    BY <2>1, ListKept
  <2>5. Cardinality(Ahead(asked, f)) \in Nat
    BY AheadFinite
  <2>6. QED
    BY <2>2, <2>3, <2>4, <2>5
<1>5. CASE ReadPage
  <2>1. UNCHANGED catalog /\ Walking
        /\ walk' = IF OnLastPage THEN Idle
                   ELSE [walk EXCEPT !.page = @ + 1, !.seen = @ \cup PageFiles]
    BY <1>5 DEF ReadPage, catalog
  <2>2. CASE OnLastPage
    BY <2>1, <2>2 DEF Idle, WalkInv
  <2>3. CASE ~OnLastPage
    <3>1. /\ walk'.target = walk.target /\ walk'.page = walk.page + 1
          /\ walk'.seen = walk.seen \cup PageFiles
          /\ walk'.owed = walk.owed /\ walk'.steady = walk.steady
      BY <1>1, <2>1, <2>3
    <3>2. SUFFICES ASSUME NEW target \in Choice, walk.target = target,
                          walk.steady, NEW f \in walk.owed
          PROVE  /\ f \in Listed(target)'
                 /\ \/ f \in walk.seen \cup PageFiles
                    \/ Offset(walk.page + 1) <= Cardinality(Ahead(target, f)')
      BY <3>1 DEF WalkInv
    <3>3. f \in Listed(target)
          /\ (f \in walk.seen \/ Offset(walk.page) <= Cardinality(Ahead(target, f)))
      BY <2>1, <3>2 DEF WalkInv
    <3>4. Listed(target)' = Listed(target) /\ Ahead(target, f)' = Ahead(target, f)
      BY <2>1, ListKept
    <3>5. /\ Cardinality(Ahead(target, f)) \in Nat
          /\ Offset(walk.page) <= Cardinality(Ahead(target, f))
             /\ Cardinality(Ahead(target, f)) < Offset(walk.page) + PageSize => f \in PageFiles
      BY <2>1, <3>2, <3>3, OnItsPage
    <3>6. Offset(walk.page) \in Nat /\ Offset(walk.page + 1) = Offset(walk.page) + PageSize
          /\ PageSize \in Nat
      <4>1. walk.page \in Nat \ {0}
        BY <1>1, <2>1
      <4>2. QED
        BY <4>1, PageRows, TypedTables DEF DecisionsAssumption
    <3>7. QED
      BY <3>3, <3>4, <3>5, <3>6
  <2>4. QED
    BY <2>2, <2>3
<1>6. QED
  BY <1>2, <1>3, <1>4, <1>5 DEF DecisionsNext, RecordObservation, Unmatched, Unchanged, Decided,
        Undecided, Restart, ClockTicks, StepBack, Fault, decisionVars, catalog

\* In every state a reader has seen the files it is owed, or has them ahead.
THEOREM WalkInvariant == DecisionsSpec => [](DecisionInv /\ WalkInv)
<1>1. DecisionsInit => WalkInv
  BY DEF DecisionsInit, Idle, WalkInv, Walking
<1>2. DecisionsAssumption /\ DecisionInv /\ DecisionInv' /\ WalkInv /\ [DecisionsNext]_decisionVars
        => WalkInv'
  BY WalkStep DEF DecisionInv
<1>3. QED
  BY <1>1, <1>2, DecisionsAssumption, DecisionInvariant, PTL DEF DecisionsSpec

\* Following the links to the last page misses no file that stayed in the list
\* and was not written about, whatever is written about others meanwhile.
THEOREM WalksAreComplete == DecisionsSpec => []WalkComplete
<1>1. DecisionsAssumption /\ DecisionInv /\ WalkInv => WalkComplete
  <2>1. SUFFICES ASSUME DecisionsAssumption, DecisionTypes, WalkInv, OnLastPage, walk.steady,
                        NEW f \in walk.owed, f \notin walk.seen
        PROVE  f \in PageFiles
    BY DEF DecisionInv, WalkComplete
  <2>2. Walking /\ walk.target \in Target \cup {AnyTarget}
    BY <2>1 DEF OnLastPage, DecisionTypes
  <2>3. f \in Listed(walk.target)
        /\ Offset(walk.page) <= Cardinality(Ahead(walk.target, f))
    BY <2>1, <2>2 DEF WalkInv
  <2>4. QED
    BY <2>1, <2>2, <2>3, OnItsPage
<1>2. QED
  BY <1>1, DecisionsAssumption, WalkInvariant, PTL
=============================================================================
