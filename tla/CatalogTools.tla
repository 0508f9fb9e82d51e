----------------------------- MODULE CatalogTools -----------------------------
(***************************************************************************)
(* Catalogues of several researchers, each written by a crawler, and the   *)
(* two tools that work on them: merge copies whole catalogues into one,    *)
(* one transaction for each source; compact rebuilds a catalogue with its  *)
(* old observations summed up by day.                                      *)
(*                                                                         *)
(* Journals are bags of rows: a row is all its columns but the local id.   *)
(* An observation is its file, node and time; filename, source counts and  *)
(* the rest of its columns go with them, and the sums of a range with its  *)
(* count.  The journals no tool sums up (decisions, verifications, sources)*)
(* are copied as observations are, and left out.                           *)
(***************************************************************************)
EXTENDS Naturals, Bags, FiniteSetsExt, Functions

CONSTANTS
  File,       \* the ed2k hashes
  Node,       \* the researchers, each with a crawler and its catalogue
  Base,       \* the catalogues: the nodes' own, and archives
  NoJob,      \* no compaction is under way
  Keep,       \* the values of --keep-recent-days
  DayLength,  \* instants in a day (UTC)
  MaxTime,    \* bound: instants
  MaxRows,    \* bound: observations of a behaviour
  MaxRebuilds \* bound: compactions of a behaviour

ASSUME ToolsAssumption ==
  /\ Node \subseteq Base
  /\ Keep \subseteq Nat
  /\ NoJob \notin [base : Base, moment : Nat, keep : Keep]
  /\ DayLength \in Nat \ {0}
  /\ MaxTime \in Nat /\ MaxRows \in Nat /\ MaxRebuilds \in Nat

Time == 0 .. MaxTime
Day(t) == t \div DayLength
Row == [file : File, node : Node, at : Time]

\* A row of file_observation_ranges.
IsRange(r) ==
  /\ r \in [file : File, day : Nat, nodes : SUBSET Node, count : Nat \ {0},
            first : Time, last : Time]
  /\ r.first <= r.last

VARIABLES
  cat,     \* the catalogues: files, observations, ranges
  now,     \* the clock
  job,     \* the compaction under way, or NoJob
  rebuilt, \* how many compactions there have been
  known,   \* history: the observations each catalogue was ever given
  mixed    \* history: catalogues merged from some that shared observations,
           \* after one of them was compacted

toolVars == <<cat, now, job, rebuilt, known, mixed>>

\* For each file, files has the node whose first view of it won.
IsCatalog(c) ==
  /\ DOMAIN c.files \subseteq File /\ \A f \in DOMAIN c.files : c.files[f] \in Node
  /\ IsABag(c.obs) /\ DOMAIN c.obs \subseteq Row
  /\ IsABag(c.ranges) /\ \A r \in DOMAIN c.ranges : IsRange(r)

ToolsInit ==
  /\ cat = [b \in Base |-> [files |-> EmptyBag, obs |-> EmptyBag, ranges |-> EmptyBag]]
  /\ now = 0
  /\ job = NoJob
  /\ rebuilt = 0
  /\ known = [b \in Base |-> {}]
  /\ mixed = [b \in Base |-> FALSE]

-----------------------------------------------------------------------------
(* The crawlers.                                                           *)

\* INSERT OR IGNORE: the row that is there first stays.
CopyFiles(main, src) ==
  [f \in DOMAIN main \cup DOMAIN src |-> IF f \in DOMAIN main THEN main[f] ELSE src[f]]

Tick ==
  /\ now < MaxTime /\ now' = now + 1
  /\ UNCHANGED <<cat, job, rebuilt, known, mixed>>

\* Nothing writes a catalogue while it is compacted and replaced: the crawler
\* is stopped.
Writable(b) == job # NoJob => job.base # b

\* record_observation: the file's first view wins, the observation is appended.
Recorded(c, row) ==
  [files |-> CopyFiles(c.files, [f \in {row.file} |-> row.node]),
   obs |-> c.obs (+) SetToBag({row}),
   ranges |-> c.ranges]

Observe(n, f) ==
  LET row == [file |-> f, node |-> n, at |-> now]
  IN  /\ Writable(n)
      /\ row \notin known[n]
      /\ Cardinality(UNION {known[b] : b \in Base}) < MaxRows
      /\ cat' = [cat EXCEPT ![n] = Recorded(@, row)]
      /\ known' = [known EXCEPT ![n] = @ \cup {row}]
      /\ UNCHANGED <<now, job, rebuilt, mixed>>

-----------------------------------------------------------------------------
(* merge.                                                                  *)

\* Mutation: the rows of the source are not compared with those there are.
CopyJournalAll(main, src) == main (+) SetToBag(DOMAIN src)

\* SELECT DISTINCT ... WHERE NOT EXISTS a row that IS the same.
CopyJournal(main, src) ==
  [row \in DOMAIN main \cup DOMAIN src |-> IF row \in DOMAIN main THEN main[row] ELSE 1]

Copied(main, src) ==
  [files |-> CopyFiles(main.files, src.files),
   obs |-> CopyJournal(main.obs, src.obs),
   ranges |-> CopyJournal(main.ranges, src.ranges)]

\* _merge_one: one source in one transaction.  A run of merge is a sequence of
\* these; one that stops half-way is a shorter one, and crawlers go on in
\* between.  The destination, if --into names a source, is skipped.
MergeOne(b, s) ==
  /\ b # s /\ Writable(b)
  /\ cat' = [cat EXCEPT ![b] = Copied(@, cat[s])]
  /\ known' = [known EXCEPT ![b] = @ \cup known[s]]
  /\ mixed' = [mixed EXCEPT ![b] =
       \/ @ \/ mixed[s]
       \/ /\ known[b] \cap known[s] # {}
          /\ cat[b].ranges # EmptyBag \/ cat[s].ranges # EmptyBag]
  /\ UNCHANGED <<now, job, rebuilt>>

-----------------------------------------------------------------------------
(* compact.                                                                *)

\* observed_at < cutoff_date: the row's whole day is out of the window.
IsOld(row) == Day(row.at) + job.keep < Day(job.moment)

\* The lines of a journal: a row once for each of its copies.
Lines(rows) == UNION {{r} \X (1 .. rows[r]) : r \in DOMAIN rows}

\* The aggregate of a file's observations of a day, from all nodes.
Bucket(rows, f, d) ==
  LET group == {r \in DOMAIN rows : r.file = f /\ Day(r.at) = d}
  IN  [file |-> f, day |-> d,
       nodes |-> {r.node : r \in group},
       count |-> Cardinality(Lines(Restrict(rows, group))),
       first |-> Min({r.at : r \in group}),
       last |-> Max({r.at : r \in group})]

Bucketize(rows) == {Bucket(rows, r.file, Day(r.at)) : r \in DOMAIN rows}

\* Mutation: the ranges of earlier compactions are not copied.
CompactedAnew(c) ==
  [files |-> c.files,
   obs |-> RestrictDomain(c.obs, LAMBDA r : ~IsOld(r)),
   ranges |-> SetToBag(Bucketize(RestrictDomain(c.obs, IsOld)))]

\* The new catalogue: tables copied as they are, recent observations too, and
\* a range for each file and day of the old ones.
Compacted(c) ==
  [files |-> c.files,
   obs |-> RestrictDomain(c.obs, LAMBDA r : ~IsOld(r)),
   ranges |-> c.ranges (+) SetToBag(Bucketize(RestrictDomain(c.obs, IsOld)))]

\* The cutoff is fixed when the tool starts.
StartCompact(b, keep) ==
  /\ job = NoJob /\ rebuilt < MaxRebuilds
  /\ job' = [base |-> b, moment |-> now, keep |-> keep]
  /\ UNCHANGED <<cat, now, rebuilt, known, mixed>>

\* The rebuilt catalogue is complete, and takes the place of the old one.
SwapCompacted ==
  /\ job # NoJob
  /\ cat' = [cat EXCEPT ![job.base] = Compacted(@)]
  /\ job' = NoJob
  /\ rebuilt' = rebuilt + 1
  /\ UNCHANGED <<now, known, mixed>>

\* An error, or the end of the process: the transaction under way leaves
\* nothing behind, and the operator removes the new file.
CompactStops ==
  /\ job # NoJob
  /\ job' = NoJob
  /\ UNCHANGED <<cat, now, rebuilt, known, mixed>>

-----------------------------------------------------------------------------
ToolsNext ==
  \/ Tick
  \/ \E n \in Node, f \in File : Observe(n, f)
  \/ \E b, s \in Base : MergeOne(b, s)
  \/ \E b \in Base, keep \in Keep : StartCompact(b, keep)
  \/ SwapCompacted
  \/ CompactStops

ToolsSpec == ToolsInit /\ [][ToolsNext]_toolVars
-----------------------------------------------------------------------------
(* Properties                                                              *)

\* The number of observations a catalogue speaks of.
Weight(c) ==
  Cardinality(Lines(c.obs)) + Cardinality(Lines([r \in DOMAIN c.ranges |-> r.count * c.ranges[r]]))

Covers(range, row) ==
  /\ range.file = row.file /\ range.day = Day(row.at)
  /\ row.node \in range.nodes
  /\ range.first <= row.at /\ row.at <= range.last

\* No observation a catalogue was given is ever lost from it, in whatever order
\* merges and compactions follow, stop half-way and are repeated: it is there, or
\* in a range of its file, day and node.  Its file is there too.
NothingLost ==
  \A b \in Base : \A row \in known[b] :
    /\ row.file \in DOMAIN cat[b].files
    /\ row \in DOMAIN cat[b].obs \/ \E r \in DOMAIN cat[b].ranges : Covers(r, row)

\* Merging is a union: each observation counts once, however often sources are
\* merged and by whichever way they came, unless a merge brought together what a
\* compaction had summed up and the same observations again.
CountedOnce ==
  \A b \in Base : ~mixed[b] => Weight(cat[b]) = Cardinality(known[b])
=============================================================================
