------------------------------- MODULE Decisions -------------------------------
(***************************************************************************)
(* What becomes of an observation: record_observation appends it to        *)
(* catalog.db, has the matching engine judge it, and appends the verdict   *)
(* when it differs from the last one.  "The last one" is read in three     *)
(* ways, by the search workers, by the download loop and by the web UI,    *)
(* another process that reads between any two writes and lists the files   *)
(* page by page.                                                           *)
(*                                                                         *)
(* record_observation has no await that suspends before its last write, so *)
(* one call is one step, unless an error or a crash cuts it in two.  Rows  *)
(* carry the time of a wall clock, which may stand still or step back.     *)
(***************************************************************************)
EXTENDS Naturals, SequencesExt

CONSTANTS
  FileCount,    \* bound: files
  Name,         \* the names a file is observed under
  Setting,      \* bound: the configurations the operator may give the crawler
  Judge,        \* the engine: Judge[setting][name] is a verdict or NoMatch
  NoMatch,
  PageSize,     \* PAGE_SIZE
  MaxObservations, \* bound: observations
  MaxClock,     \* bound of the clock
  MaxFaults     \* bound: errors, crashes and steps back of the clock

Tier == <<"catalog", "notify", "download">>
AnyTarget == "any"          \* a reader's choice of no target

\* The tiers are a closed set, which the validation of the configuration enforces;
\* no target is called as the choice of none.
ASSUME DecisionsAssumption ==
  /\ FileCount \in Nat /\ PageSize \in Nat \ {0}
  /\ MaxObservations \in Nat /\ MaxClock \in Nat /\ MaxFaults \in Nat
  /\ \A s \in Setting : \A n \in Name :
       \/ Judge[s][n] = NoMatch
       \/ /\ Judge[s][n] = [target |-> Judge[s][n].target, tier |-> Judge[s][n].tier]
          /\ Judge[s][n].tier \in ToSet(Tier) /\ Judge[s][n].target # AnyTarget

VARIABLES
  clock,      \* the wall clock
  setting,    \* the configuration the crawler runs with
  observed,   \* the table file_observations, in the order of its ids
  decided,    \* the table match_decisions, in the order of its ids
  expected,   \* the verdict of the last observation of each file that matched
  excuse,     \* why the catalogue may have another one: "none", "error" or "clock"
  walk,       \* a reader that goes through the pages of /files
  faults

catalog == <<observed, decided>>
decisionVars == <<clock, setting, catalog, expected, excuse, walk, faults>>

Hash == 1 .. FileCount      \* the files, in the order of ed2k_hash
Rank(tier) == CHOOSE r \in DOMAIN Tier : Tier[r] = tier
Verdicts == {Judge[s][n] : s \in Setting, n \in Name} \ {NoMatch}
Target == {v.target : v \in Verdicts}

\* The rows as ORDER BY lists them.
Ordered(rows, Before(_, _)) ==
  CHOOSE s \in SetToSeqs(rows) : \A i, j \in DOMAIN s : i < j => Before(s[i], s[j])

-----------------------------------------------------------------------------
(* The last row of a file, in three ways.                                  *)

RowsOf(table, f) == {i \in DOMAIN table : table[i].file = f}

\* Mutation: the id does not decide between rows of the same instant.
LaterByTime(table, i, j) == table[i].at > table[j].at

\* (decided_at, id) compared, likewise (observed_at, id).
Later(table, i, j) ==
  \/ table[i].at > table[j].at
  \/ table[i].at = table[j].at /\ i > j

\* ORDER BY decided_at DESC, id DESC LIMIT 1.
FirstRow(table, f) ==
  LET sorted == Ordered(RowsOf(table, f),
                        LAMBDA i, j : table[i].at > table[j].at
                                      \/ (table[i].at = table[j].at /\ i > j))
  IN  IF sorted = << >> THEN {} ELSE {sorted[1]}

\* last_decision: the verdict, or NoMatch when there is none.
LastDecision(f) ==
  IF RowsOf(decided, f) = {} THEN NoMatch
  ELSE decided[CHOOSE i \in FirstRow(decided, f) : TRUE].verdict

\* ROW_NUMBER() OVER (PARTITION BY ed2k_hash ORDER BY ...) = 1.
RowNumber(table, i) ==
  1 + Cardinality({j \in RowsOf(table, table[i].file) :
                     table[j].at > table[i].at \/ (table[j].at = table[i].at /\ j > i)})

\* download_decisions.
DownloadDecisions ==
  {decided[i].file : i \in {j \in DOMAIN decided :
                              RowNumber(decided, j) = 1 /\ decided[j].verdict.tier = "download"}}

\* The correlated COUNT(*) = 0 of the web UI.
LatestRows(table, f) ==
  {i \in RowsOf(table, f) : ~\E j \in RowsOf(table, f) : Later(table, j, i)}

-----------------------------------------------------------------------------
(* The pages of the web UI.                                                *)

\* target_coverage: the rows of each target, then coverage_for of one of them.
CoverageRows(target) ==
  {i \in DOMAIN decided : i \in LatestRows(decided, decided[i].file) /\ decided[i].verdict.target = target}

Coverage(target) ==
  LET rows == CoverageRows(target)
      best == CHOOSE i \in rows :
                \A j \in rows : Rank(decided[j].verdict.tier) <= Rank(decided[i].verdict.tier)
  IN  IF rows = {} THEN [status |-> "none", best |-> NoMatch, count |-> 0]
      ELSE LET tier == decided[best].verdict.tier
           IN  [status |-> IF tier = "download" THEN "found" ELSE "partial",
                best |-> tier,
                count |-> Cardinality(rows)]

\* _SQL_LIST_FILES_BASE: one row for each latest observation and latest decision
\* of a file, 0 where the left join finds none.
JoinedRows ==
  LET orNone(rows) == IF rows = {} THEN {0} ELSE rows
  IN  UNION {{[file |-> f, obs |-> o, dec |-> d] :
                 o \in LatestRows(observed, f), d \in orNone(LatestRows(decided, f))} :
               f \in {observed[i].file : i \in DOMAIN observed}}

Passes(row, target) ==
  target = AnyTarget \/ (row.dec # 0 /\ decided[row.dec].verdict.target = target)

\* WHERE ..., ORDER BY obs.observed_at DESC, f.ed2k_hash.
Listing(target) ==
  Ordered({row \in JoinedRows : Passes(row, target)},
          LAMBDA r, s : \/ observed[r.obs].at > observed[s.obs].at
                        \/ observed[r.obs].at = observed[s.obs].at /\ r.file < s.file)

\* Mutation: pages counted from 0.
OffsetFromZero(page) == page * PageSize

Offset(page) == (page - 1) * PageSize

\* LIMIT, OFFSET.
PageOf(target, page) ==
  LET rows == Listing(target)
      last == Offset(page) + PageSize
  IN  SubSeq(rows, Offset(page) + 1, IF last < Len(rows) THEN last ELSE Len(rows))

\* _page_nav: a next link when the page is full.
HasNext(rows) == Len(rows) >= PageSize
-----------------------------------------------------------------------------
Idle == [target |-> AnyTarget, page |-> 0, seen |-> {}, owed |-> {}, steady |-> TRUE]
Walking == walk.page > 0
Listed(target) == {row.file : row \in {r \in JoinedRows : Passes(r, target)}}

DecisionsInit ==
  /\ clock = 0
  /\ setting \in Setting
  /\ observed = << >>
  /\ decided = << >>
  /\ expected = [f \in Hash |-> NoMatch]
  /\ excuse = [f \in Hash |-> "none"]
  /\ walk = Idle
  /\ faults = 0

Fault == faults < MaxFaults /\ faults' = faults + 1

\* A reader is owed the files it asked for that no write has touched since; its
\* walk is steady while no row leaves the list.
Disturb(f) ==
  \E target \in {walk.target} :
    walk' = IF ~Walking THEN walk
            ELSE [walk EXCEPT
                    !.owed = (@ \cap Listed(target)') \ {f},
                    !.steady = @ /\ Listed(target) \subseteq Listed(target)']

AppendObservation(f, name) ==
  /\ Len(observed) < MaxObservations
  /\ observed' = Append(observed, [file |-> f, name |-> name, at |-> clock])

\* Mutation: a verdict the file ever had is not recorded again.
ChangedEver(f, verdict) == \A i \in RowsOf(decided, f) : decided[i].verdict # verdict

\* Mutation: no comparison at all.
ChangedAlways(f, verdict) == TRUE

Changed(f, verdict) == LastDecision(f) # verdict

\* Whether a decision of now would not be the last one.
Behind(f) == \E i \in RowsOf(decided, f) : decided[i].at > clock

Unmatched(f, name) ==
  /\ Judge[setting][name] = NoMatch
  /\ AppendObservation(f, name)
  /\ UNCHANGED decided
  /\ Disturb(f)
  /\ UNCHANGED <<clock, setting, expected, excuse, faults>>

Unchanged(f, name) ==
  LET verdict == Judge[setting][name]
  IN  /\ verdict # NoMatch /\ ~Changed(f, verdict)
      /\ AppendObservation(f, name)
      /\ expected' = [expected EXCEPT ![f] = verdict]
      /\ excuse' = [excuse EXCEPT ![f] = "none"]
      /\ UNCHANGED decided
      /\ Disturb(f)
      /\ UNCHANGED <<clock, setting, faults>>

Decided(f, name) ==
  LET verdict == Judge[setting][name]
  IN  /\ verdict # NoMatch /\ Changed(f, verdict)
      /\ AppendObservation(f, name)
      /\ decided' = Append(decided, [file |-> f, verdict |-> verdict, at |-> clock])
      /\ expected' = [expected EXCEPT ![f] = verdict]
      /\ excuse' = [excuse EXCEPT ![f] = IF Behind(f) THEN "clock" ELSE "none"]
      /\ Disturb(f)
      /\ UNCHANGED <<clock, setting, faults>>

\* The observation is committed; an error, or a crash, before the decision is.
\* An error before that leaves nothing, and is no step.
Undecided(f, name) ==
  LET verdict == Judge[setting][name]
  IN  /\ verdict # NoMatch
      /\ Fault
      /\ AppendObservation(f, name)
      /\ expected' = [expected EXCEPT ![f] = verdict]
      /\ excuse' = [excuse EXCEPT ![f] = "error"]
      /\ UNCHANGED decided
      /\ Disturb(f)
      /\ UNCHANGED <<clock, setting>>

RecordObservation(f, name) ==
  Unmatched(f, name) \/ Unchanged(f, name) \/ Decided(f, name) \/ Undecided(f, name)

\* The configuration is read at start-up only.
Restart ==
  /\ setting' \in Setting \ {setting}
  /\ UNCHANGED <<clock, catalog, expected, excuse, walk, faults>>

-----------------------------------------------------------------------------
ClockTicks ==
  /\ clock < MaxClock
  /\ clock' = clock + 1
  /\ UNCHANGED <<setting, catalog, expected, excuse, walk, faults>>

StepBack ==
  /\ clock > 0
  /\ Fault
  /\ clock' = clock - 1
  /\ UNCHANGED <<setting, catalog, expected, excuse, walk>>

\* The reader asks for the first page, of all the files or of a target's ...
Ask(target) ==
  /\ ~Walking
  /\ walk' = [target |-> target, page |-> 1, seen |-> {}, owed |-> Listed(target), steady |-> TRUE]
  /\ UNCHANGED <<clock, setting, catalog, expected, excuse, faults>>

PageFiles == {row.file : row \in ToSet(PageOf(walk.target, walk.page))}
OnLastPage == Walking /\ ~HasNext(PageOf(walk.target, walk.page))

\* ... and follows the link to the next one for as long as there is one.
ReadPage ==
  /\ Walking
  /\ walk' = IF OnLastPage THEN Idle
             ELSE [walk EXCEPT !.page = @ + 1, !.seen = @ \cup PageFiles]
  /\ UNCHANGED <<clock, setting, catalog, expected, excuse, faults>>

DecisionsNext ==
  \/ \E f \in Hash, name \in Name : RecordObservation(f, name)
  \/ Restart \/ ClockTicks \/ StepBack
  \/ \E target \in Target \cup {AnyTarget} : Ask(target)
  \/ ReadPage

DecisionsSpec == DecisionsInit /\ [][DecisionsNext]_decisionVars

-----------------------------------------------------------------------------
(* Properties                                                              *)

\* The last decision of a file is the verdict of the last observation of it that
\* matched, also after the verdict went and came back, unless an error kept that
\* decision back or the clock had stepped behind an earlier one.
VerdictFollows == \A f \in Hash : excuse[f] = "none" => LastDecision(f) = expected[f]

\* A verdict is not recorded twice in a row, unless the first of the two was
\* dated before the decision it was to replace.
NoRepeat ==
  \A f \in Hash : \A i, j \in RowsOf(decided, f) :
    /\ i < j
    /\ ~\E k \in RowsOf(decided, f) : i < k /\ k < j
    /\ decided[i].verdict = decided[j].verdict
    => \E k \in RowsOf(decided, f) : k < i /\ decided[k].at > decided[i].at

\* The crawler and the web UI agree on the last rows of a file, whatever the
\* clock did, and count it once: the download loop takes what the dashboard
\* calls found, and the files of all targets are the files decided.
ReadersAgree ==
  /\ \A f \in Hash :
       /\ LatestRows(decided, f) = FirstRow(decided, f)
       /\ LatestRows(observed, f) = FirstRow(observed, f)
  /\ \A t \in Target :
       LET last == {f \in Hash : LastDecision(f) # NoMatch /\ LastDecision(f).target = t}
       IN  /\ Coverage(t).count = Cardinality(last)
           /\ Coverage(t).status = "found" <=> last \cap DownloadDecisions # {}
  /\ Cardinality(JoinedRows) = Cardinality(Listed(AnyTarget))

\* A reader that follows the links to the last page sees every file that
\* nobody wrote about meanwhile, unless a row left the list.
WalkComplete == OnLastPage /\ walk.steady => walk.owed \subseteq walk.seen \cup PageFiles
=============================================================================
