# A TLA+ development for emule-indexer

emule-indexer watches an ed2k/Kademlia network for lost media: it searches
through one or more `amuled` daemons, matches what it observes against a list of
targets, downloads what matches, puts it in quarantine, and has a separate
service verify it. This directory models the part of it that decides: the
asyncio loops of the crawler and the process they live in, the tables they
share, the protocol they speak with amuled, the matching engine, the verifier
service, and what errors, lost answers and restarts do to all of them.

Paths below are relative to `src/packages/crawler/src/emule_indexer/` unless
they start with `src/`.

## 1. Inventory

### The process and its loops

The crawler is one asyncio process (`composition/app.py`). A `TaskGroup` runs
up to four loops; the repositories under them are synchronous SQLite, so code
between two `await`s is not interrupted by another loop, and every repository
method is one committed transaction. An exception that leaves one loop cancels
the others and ends the process. Every deployment starts it again
(`restart: unless-stopped` in `deploy/base.compose.yml`). The verifier and the
web UI are processes of their own; the tools run beside a stopped crawler.

| Component | State | Operations | Talks to |
|---|---|---|---|
| supervision (`composition/app.py`, `__main__.py`) | the stack of open resources, the tasks, the deadline | open, run, stop on a signal, unwind, close | every loop and resource |
| search cycle (`application/run_search_cycle.py`, `_run_loop` of `composition/app.py`) | `cycle_index`, the LIFO queue of tasks with who refused them | fill, take, refuse, drop, drain, save | workers, scheduler state |
| search worker, backoff registry (`application/search_worker.py`, `domain/search/backoff.py`) | `_connected`; per instance and per channel attempts and `retry_after` | connect, search, fail, back off | EC client, observation pipeline |
| scheduler state repository (`adapters/persistence_sqlite/scheduler_state_repository.py`) | `scheduler_state` of local.db | two saves at the end of a cycle, two reads at start-up | search cycle |
| observation pipeline (`application/record_observations.py`, catalogue repository) | append-only catalog.db | record an observation and its decision | search workers write; download loop and web UI read |
| matching engine and configuration (`src/packages/matching/`) | the validated configuration | parse, validate, evaluate one file | observation pipeline |
| EC client, codec, mapping (`adapters/mule_ec/`) | a transport, held or not; the keyword of the search | connect, search, fetch, other requests | amuled |
| download loop (`application/run_download_cycle.py`) | table `downloads`, the quarantine directory | monitor, promote, queue candidates, send links | amuled over EC, verification queue |
| download repository (`adapters/persistence_sqlite/download_repository.py`) | table `downloads` | `record_queued`, `set_state`, `committed_bytes` | download loop, verification loop |
| verification queue (`adapters/persistence_sqlite/local_state_repository.py`) | table `verification_tasks` | enqueue, claim, complete, fail, reclaim | both loops |
| verification loop (`application/run_verification_cycle.py`) | the task in hand, the alert | drain the queue | verifier service over HTTP, catalog.db |
| verifier service (`src/packages/verifier/`) | one thread, one confined child and its helper per request | accept, spawn, check, collect within a deadline, answer | verification loop |
| port-sync loop (`application/port_sync_loop.py`) | time of the last restart, the alert | read the port, set it, restart amuled | gluetun, docker proxy, its own EC client |
| web UI (`src/packages/webui/`) | none; a reader's page | list files, coverage of targets | reads catalog.db |
| merge (`merge/`) | a destination, a list of source catalogues | copy one source in one transaction, rows that are there already excepted | crawlers' catalogues, archives |
| compaction (`compact/`) | a new catalogue | copy, with the observations before a cutoff summed up by file and day | replaces the catalogue it was made from |
| observability, crawler configuration, probes | counters; none | | |

### What is hard here

* **Three stores, no common transaction.** A finished download moves through
  the quarantine directory, `verification_tasks` and `downloads`; a verdict
  through catalog.db and local.db. An error or the end of the process can fall
  between any two.
* **Snapshots across awaits.** Each stage of the download loop reads the table,
  awaits amuled, and writes to the rows it read; search workers decide meanwhile.
* **Lost answers.** amuled may have taken a link, written a port, or been
  restarted although the request failed, and the caller cannot tell.
* **The connection.** Replies are matched to requests by their order alone.
  After a failed request `AmuleEcClient._request` drops the transport, and only
  `connect()` opens it again. The search worker calls it; the other loops do so
  at start-up only.
* **Nested lengths.** An EC tag's length counts its children with their headers but
  not its own, in fields of fixed width; one octet more or less must not be accepted.
* **A shared queue with refusals.** Workers in backoff put tasks back for their
  peers: nothing may be lost, copied, or handed round for ever.
* **A clock that may step back.** "The last decision" of a file is read in three
  ways, by three readers, over rows dated by a wall clock.
* **A child under a deadline.** The analysis child, its helper, the deadline, the
  kernel's limits and the crawler's own timeout race each other.
* **Stopping.** Signals, a failing loop, a deadline and a close that hangs can
  meet; a cancellation can be swallowed by the wait it lands in.
* **Leases and retries.** A task that a dead process had claimed must come back,
  and one the loop still holds must not be taken away.
* **Tools that meet in any order.** Catalogues are merged, compacted, merged
  again by other ways; each tool is right on its own, and a run can stop half-way.

What makes each component correct is stated as the properties of section 3;
`PROJECT.json` lists every hazard at its line, with the properties that would
see it go wrong, and every component with what is modelled of it.

## 2. Modules

| Module | Models | Extends or composes |
|---|---|---|
| `VerificationQueue` | the queue and the loop that drains it | |
| `DownloadLoop` | the four stages, amuled, the directories | |
| `Pipeline` | the two in one process | INSTANCE of both |
| `FileLifecycle` | what the two promise for a file (abstract) | refined by `Pipeline` |
| `SearchCycle` | workers, backoff, cycle, saved state | |
| `PortSync` | preference, restart, rate limit, alert | |
| `Supervision` | start-up, TaskGroup, signals, deadline, LIFO close | |
| `Decisions` | observations, decisions, and their three readers | |
| `Matching` | validation of the configuration, the engine | |
| `EcClient` | the client and amuled around it | |
| `EcCodec` | the wire format, the mapping of results | |
| `EcResults` | the client with the codec: what it reads is what amuled sent | extends both |
| `VerifierService` | a request from the crawler to the child and back | |
| `CatalogTools` | crawlers' catalogues, merge and compaction | |
| `*_proofs` | theorems about eleven of them (section 4) | |

The `MC` modules only give constants that a cfg cannot express.

**Granularity.** One action is the code between two awaits. Where such a piece
makes several writes, there is one action, or one disjunct, for each write at
which a `RepositoryError` can stop it. A crash *between* two synchronous writes
leaves the state that the error at the second write followed by `Crash` leaves,
so `Crash` itself can stay an action between steps. That costs two faults where
the code has one; the bounds of the runs allow for it.

**Data.** A hash, a keyword, a port is a model value. Time appears as what has
or has not passed: a lease (`expired`), a backoff (`blocked`), the window of
restarts (`soon`, `recent`), the stop deadline, and passing is an action.

### `VerificationQueue`

`tasks` is the table; an id is a place in the sequence since rows are never
deleted and FIFO order is `enqueued_at, id`. `Enqueue`, `Reclaimed`, `Claimed`,
`Completed`, `Failed` are the statements of the repository, and the loop's
actions call them: `Reclaim`, `ClaimTask`/`ClaimNothing`, then `Verified` (the
verdict and the end of the task written), `VerdictUnsaved` (either write
failed; the task is failed, if that succeeds) or `VerifierUnavailable`.
`ClaimThenLose` is the read of the target failing after the claim,
`QueueUnreadable` an error before it. `complete_verification` and
`fail_verification` raise when their task is no longer `in_progress`; that is
the guard `Held`, and `InFlightIsClaimed` shows the guard cuts nothing off.

### `DownloadLoop`

`state` is the table, with `"absent"` for a file without a row; `staging` and
`quarantine` are directories; `mule` is amuled's view. `dpc` walks the stages,
`todo` is what is left of the snapshot the stage iterates over. Every way
`_promote_completion` can stop is an action: `Promote`, `PromoteUnmarked`,
`PromoteUnmoved`, `PromoteUnqueued`, `PromoteUnsettled`. amuled puts the file
in Incoming before it shares it, refuses a link it has already, and may take a
link whose answer is lost (`AnswerLost`). `ReadRefused` is the one error that
no handler of the cycle catches. The files of a snapshot are taken in any order.

### `Pipeline` and `FileLifecycle`

The download loop's `AskVerification` is conjoined with the queue's `Enqueue`;
every other step belongs to one side; a crash, or `ReadRefused`, hits both.
`Stage` reads the stage of a file out of the two databases, and `LifecycleKept`
says that, read so, the pipeline implements `FileLifecycle`, fairness included.

### `SearchCycle`

`queue` has its top at the end and each item carries who skipped it. A worker
is at `get`, `connect`, `search` or `pause`. `Refuse` and `Drop` differ by
whether every worker has refused; between `get` and `put_nowait` there is no
await, so both are one action. `connected` (the worker's belief) and `up` (the
transport) are separate: `StatusFails` makes them differ. `WriteCycleState`
and `SaveBackoff` are the two transactions at the end of a cycle. The state
read at start-up is in `Crash`.

### `PortSync`

`pref` and `bound` separate the preference written from the port in use, which
differ until a restart. `soon` is what the loop remembers of its last restart,
`recent` counts all of them, both in the window that the code measures: it begins
with the clock reading before the preference is written, so two restarts themselves
can be closer by the time that writing takes. A restart ends the amuled process at the other end
of the connection; `ec' \in BOOLEAN` keeps the case that it survives, so that the
rate limit is exercised. `RestartFails` includes a restart that was done and
whose answer was lost.

### `Supervision`

`stack` is the `AsyncExitStack`, `todo` the resources start-up has still to open;
a loop is `unborn`, `working`, `waiting` (in an await), `settling` (in its
`finally`), `ended` or `raised`. A cancellation is requested by one step and lands
in another, and the download loop's `_sleep_or_nudge` can swallow it. The first
signal asks for a stop and arms the deadline, the second cancels, the third ends
the process. The deadline fires at any time once armed and interrupts one wait.
Only the search and download loops can raise: the other two catch what their
calls raise. Closes may hang, `MaxSlow` of them.

### `Decisions`

`observed` and `decided` are the two append-only tables; a row's place is its id,
`at` its date. `RecordObservation` is one call of `record_observation`, with a
disjunct for each error. A file is matched under a name; `Restart` may change the
configuration, hence the verdict. The search worker's, the download loop's and the
web UI's queries for the last row are three operators. `walk` is a reader going
from page to page by LIMIT and OFFSET. `Ordered` is what ORDER BY promises, a
list in which what goes before stands before, and no way of sorting. `owed` are the
files of the list asked for that nobody has written about since; `steady` says that
no file has left that list, whatever was written.

### `Matching`

A definition of `matcher.yml` is the sequence of the conditions in its text, the
outermost first; an operand names a token, with overrides or without, or says where
in the definition the condition is that was written in its place. `WellNested` is
what a YAML text of finite length cannot help being. `ReadTargets`, `ReadConfig`
and `FinishWalk` are the start-up, with the errors in the order the code raises them.
`Walk(name)` and `Leave` are the calls and returns of `walk` in `_check_acyclic`: `stack`
is its stack, `done` its set, and `todo` what the Python frames have still to iterate
over; it takes references in any order. `Evaluate` and the rounds of `CompareTarget`
are `engine.evaluate`, with `decision` for its best candidate. `Depth` and `Matches`,
which the code computes by recursion, are recursive functions. What a text matches is
data: a file names the phrases it contains, the targets each pattern is found for,
and how much of a title it covers at each threshold. The reference definition,
`DecisionRight`, asks for truth values that agree with the definitions (`Truth`), and
states which rule must win without going through a list of candidates.

### `EcClient`, `EcCodec` and `EcResults`

A frame is a sequence of octets (of `Base` values, 10 in the run, so that the
widths' boundaries are near); encoding and decoding follow `codec.py`, header by
header, and `mapping.py` turns result tags into observations. The client is
independent of both: what decodes a frame and what maps results are parameters
(`DecodeFrame`, `MapResults`), so that its theorems hold for any decoder, and
`EcResults` puts the codec in their place. A frame that cannot be decoded costs the
connection; one that can, but has another opcode than `ResultsOpcode`, is an error
on a stream that stays in order (`ReplyRefused`). `EcClient` has the
client's call in progress (`stage`, `pending`, `conn`) and, for each connection,
packets under way both ways. amuled serves a connection in order; it may be late,
refuse, answer with the wrong opcode or with octets no decoder accepts, and the
connection may be cut. `got` is history: the request the last accepted reply was
for.

### `VerifierService`

`at` is the thread of a request (`spawn.py`: communicate, kill the group, reap,
reap again, collect), `child` its analysis child, `helper` an ffprobe or clamscan
of the child, `held` a stranger that keeps the pipe open. The kernel may end the
child at any moment. `Parse` and `ClassifyOutcome` are the two readings in
`egress.py`. The crawler may give up on a request and send the next one.

### `CatalogTools`

A catalogue is `files` (the first view wins) and two journals, `obs` and
`ranges`, as bags of rows: a row is all of its columns but the local id, which
is what the merge compares. `CopyFiles` is `INSERT OR IGNORE` and `CopyJournal`
`SELECT DISTINCT ... WHERE NOT EXISTS`. A row stands in `Lines` once for each
copy of it, which is what `COUNT` counts. `MergeOne` is the transaction of one
source; a run of the tool is a sequence of them, and one that stops is a
shorter sequence. A compaction is two actions: its cutoff is fixed at the
start, the days go on while it works, and it ends with `SwapCompacted` or
`CompactStops`. The crawler of that catalogue is stopped meanwhile, as its
documentation asks. `known` and `mixed` are history: what a catalogue was
given, and whether a merge brought together a summed-up day and the
same observations again, in which case they count twice (section 6).

## 3. Runs and what they show

| Run | Question | Bounds |
|---|---|---|
| `verification_queue` | Is a task ever doubled, lost, claimed too often, or taken from the loop that holds it? Does each one settle? | 2 files, 3 tasks, 2 attempts, 2 faults |
| `download_loop` | Do the three stores agree, whatever fails in whatever order? Does the cap hold? Is what is finished quarantined, what fits taken, what is queued sent? | 3 files: a large one, a small one that is not eligible, one with a degenerate name; cap 2; 2 faults |
| `pipeline` | Do the two loops and their databases keep the promise of `FileLifecycle`? Is every task backed by a file and a row? | 1 file, 4 tasks, 2 attempts, 2 faults for each loop |
| `search_cycle` | Is a search lost silently, a sound instance passed over, a cycle skipped or endless? | 2 workers, 2 keywords on 2 channels, 2 cycles, 2 faults |
| `supervision` | Is anything closed under a running loop, or left open? Does a stop end, and does a failure? | all four sets of sections, 3 signals, 2 closes that hang |
| `decisions` | Is the last decision the last verdict? Do the readers agree? Does a reader miss files? | 2 files, 3 names, 2 configurations, 3 observations, pages of 1, 1 fault |
| `matching` | Do the graph checks let through exactly the right configurations? Does the right rule win? | every graph of 3 tokens of a few shapes, every shape of a leaf, pairs of rules; depth 2 |
| `verifier_service` | Does a verdict rest on evidence? Is anything left behind? Is every request answered? | 2 requests, chains of up to 2 checks, an egress below and above its cap |
| `ec_client` | Are replies taken for the right request? Is what is read what was sent? Is an entry lost? | 3 connections, 3 requests, 2 faults; 7 packets, whole, cut, longer, and with each octet one more or one less |
| `catalog_tools` | Is an observation lost or counted twice by merges and compactions in any order? | 2 crawlers and an archive, 2 observations, 5 instants in 3 days, 2 compactions |
| `port_sync` | Are restarts limited, do alerts last? | 3 ports, 3 renegotiations, 2 faults |
| `port_renegotiation` | The finding of section 6. | 2 ports, 2 renegotiations, no fault |

Deadlock is checked where the system never stops: the runs of the queue, the two
loops, their pipeline, the port loop and the tools. It is not where a bound or the
end of the process ends a behaviour: `MaxCycles` (`search_cycle`), a process that is
done (`supervision`), the last row and instant (`decisions`), a configuration that
is refused (`matching`), the last request (`verifier_service`, `ec_client`).

**Why these bounds.** Two files are what it takes for one task to stay ahead of
another; three tasks for a file that is asked for again after it was done. Two
attempts separate a first failure from the last one, which is all the code
compares. Two faults give every crash between two writes, an error followed by
a second one while recovering, and, for the properties that count faults, the
difference between one and two. Two workers are enough for a task to be handed
back and forth; two keywords for a second task under the first. Two cycles show
the saved index of the first. Three ports let the VPN move on and not come back.
One file is enough in `pipeline`: the loops' steps on different files only
interact through FIFO order and the cap, which the runs of the components cover
with several files, and the safety part of the run is proved for any number
(section 4). The pipeline has room for four tasks because two errors of the
download loop can cause at most three. Three observations of two files are a
verdict that goes and comes back; pages of one row make every insertion move the
reader's next page. Two requests are one that the crawler gave up on and one after
it. A third connection replaces one that replaced another; one packet
is as deep as the bound and one is a level deeper, one payload is as long as the bound
and one is an octet longer (`BoundsPassed` in `MCEcClient` says so, and TLC evaluates
it), numbers reach the boundaries of every width. A damaged octet is one more or one
less, round the end of its range, which is enough to flip the flag of a tag's
children and to make each count and length too large and too small; a payload
longer than the bound is refused unread and is not damaged. In `catalog_tools`, two
observations are the same day's or not, the same crawler's or not; the archive lets
them meet by two ways; a second compaction meets the ranges of the first.

**Properties that count faults** (`RetryBudget`, `RepeatsPaid`, `LossPaid`,
`RestartsPaid`) say more than that something bad is rare: each repetition or loss
has an error of its own to answer for, so without errors there is none.

**Mutants.** Beside a definition, a module may hold a mutated form of it, marked
`Mutation:` and used by no specification; each names a plausible slip (a dropped
guard, a swapped order), and `PROJECT.json` names the property that sees it.

### Fairness

* `WF(QueueStep)`, `WF(DownloadStep)`, `WF(PortStep)`, `WF(CycleStep)`,
  `WF(WorkerStep(w))`: the event loop runs every coroutine that is ready, each
  pause is a bounded sleep, each request ends, if only by its timeout, and the
  supervisor restarts a process that ended. Which of several enabled steps
  (success, failure, refusal) happens is not assumed.
* `WF(MainStep)`, `WF(LoopStep(l))`, `WF(DeadlineFires)` of `Supervision`: the same,
  and asyncio's timer. A close that hangs is not assumed to return.
* `WF(ThreadStep(r))` of `VerifierService`: a thread goes on and each of its waits
  has a timeout. Nothing is assumed of the child, of its helper, of a process that
  holds the pipe, or of how fast the kernel kills.
* `WF(LeaseExpires)`, `WF(WindowEnds)`: time passes.
* None for amuled, the VPN, the search workers' decisions, or the end of a backoff.
  Progress of the download loop is therefore stated "or the connection is down",
  and a cycle ends even if no backoff ever does.
* `MaxFaults` makes faults finite in number. That is the assumption of the
  liveness properties: errors and crashes stop some day.

## 4. Theorems

Eight modules prove, for every value of the constants, what the runs show on small
instances. The assumptions are those named in the modules (`QueueAssumption`,
`DownloadAssumption`, ...): naturals, at least one attempt, sizes of files, pages of
at least one row, verdicts whose tier is one of the three, configurations that are
finite texts, a max_depth of at least one. Every invariant the runs check is a theorem,
but for two about the octets of the EC protocol; what is left to TLC is listed below.

* `VerificationQueue_proofs`. `QueueInv` is inductive. Its properties are not
  inductive alone: `RetryBudget` needs `ClaimsPaid`, that an active task outside the
  loop's hands has been claimed fewer than `MaxAttempts + faults` times. A task
  is failed back to pending only below `MaxAttempts`, and gets out of the
  loop's hands otherwise only by a step that adds to `faults`.
  `OneActiveTaskPerHash` and `InFlightIsClaimed` carry each other: a claim
  changes the status of the oldest pending row, not of a second one. The proof
  has one lemma per class of steps: those that leave the table alone, those
  that change one row of it, `Reclaim`, and `Request`. `SettledIsFinal` follows.
* `DownloadLoop_proofs`. `DownloadInv` is inductive. `CompletedOnEvidence` needs
  `FinishedIsSomewhere` (what amuled shares is in one of the two directories),
  and `SnapshotsHold`, since a promotion acts on a snapshot. `EnqueuedIsInPlace`
  and `QuarantinedIsSafe` follow from the order rename, enqueue, mark;
  `NeverRegresses` and `OneAtATime` (a step changes one row, but for what the
  monitor finds started) from the invariant. `CapHolds`: the candidate stage keeps a
  running total of its own while amuled and the monitor work on the table, and
  the total never falls behind the sum of the active sizes. The sum over a set is a
  function chosen to satisfy its own recursion, so the proof first shows that such
  a function exists and is unique, by the smallest counterexample in the family of
  finite subsets (`SumsExist`, `SumsAgree`), and then that any element can be taken
  out of a sum first (`SumWithout`).
* `Pipeline_proofs` takes the two above as they are: it instantiates them, shows that
  each step of the pipeline is, for each loop, a step of that loop or a stutter, and
  so inherits both invariants. Added to them is `Backed`: the row of a file in the
  queue says completed or quarantined. `ClaimsAreBacked` follows, and with `OneRow`,
  `RowsOfStep` and `RequestRows` that a step moves one file from one stage to a
  legal next one: `LifecycleImplemented`, the refinement of `FileLifecycle` but for
  its progress. `RepeatsArePaid` counts the tasks of a file: one more than the faults
  of the download loop at most, since a task that is asked for a second time found
  the row of its file still unsettled, and only an error or a crash leaves it so.
* `Process_proofs`, of `Supervision` and `PortSync`. `SupervisionInv` adds to the types
  that what loops will use is open or planned before they start (`OpenedOrPlanned`),
  that the stack is intact while they run (`OpenWhileRunning`), and that everything
  open is on it (`StackKnowsAll`). `NothingClosedInUse` and `NothingLeaked` follow.
  `PortInv` keeps the account of the restarts: none in a window
  of the loop's own, each other one paid for (`RestartsCounted`), since a cycle that
  restarts saw no window (`NotSoonAtRestart`). With `JoinedUnlessFault` it gives
  `RestartsPaid`, `MismatchPaid` (the loop may take the preference for the port in
  use) and `AlertUntilReachable`.
* `VerifierService_proofs`, in two layers. `ServiceInv` says that the thread, the
  child and the helper of a request go together (`Together`); it gives
  `NothingLeftBehind`. `EvidenceInv` says that what a child printed was earned by
  its checks (`Earned`), that a helper belongs to a check still to report, and that
  the thread's result is what became of the child (`ResultTrue`); it gives
  `VerdictEarned` and `OutcomeAgrees`, for any settings, sizes and requests.
* `SearchCycle_proofs`: four small invariants over the types. `DrainedBefore` gives
  `NoCycleSkipped`; `FailuresKnown` (who is in backoff, or has refused, has failed)
  gives `DropsNeedAllFailed`; `LossesCounted`, that abandoned tasks and workers
  that will lose one before they notice together are at most the faults, gives
  `LossPaid` and needs `BeliefFollowed`. `TasksAreConserved` says of each search of the
  cycle that it is queued, held by one worker, done, dropped or given up, and that
  exactly once; a refused one passes from a worker's hand to the queue in one step.
* `Observation_proofs`, of `EcClient` and `Matching`. `EcInv`: one call and one
  connection at a time, and what is under way on a connection answers the request
  that waits on it; an older connection that may still deliver is closed to the
  client. It gives `InSync` and, as the client keeps the keyword of the search that
  amuled answered for, `ResultsLabelled`.
  For the matching, `WalkInv` says that the walk is on a path of the graph
  (`OnPath`): each reference of a token on the stack is done, still to be walked or
  the next on the stack, and what is done is closed under references and has no
  cycle. A token that is met again on the stack gives a cycle, along which chains
  have any length (`CyclesAreLong`); at the end every token is done, so the graph has
  no cycle, and there the depth of a token is the length of its longest chain
  (`DepthIsChain`). `GraphChecksAreExact` follows: what the walk misses, since it
  enters no token twice, the depth computation finds. `OneMeaning`: conditions rest
  on later ones of their definition and on tokens below (`ConditionsGrounded`), so
  that truth values which agree with the definitions exist and are unique, and what
  the matchers say is such values (`MeaningSolves`). Both parts rest on two lemmas
  about functions defined by recursion over a finite set without a cycle
  (`SolutionExists`, by the largest subset that is closed and has a solution;
  `SolutionUnique`, by an element where two solutions differ and nothing it rests on
  does). `BestRuleAlwaysWins` needs `DecisionInv`, that the decision outranks every
  other offer of the targets compared so far, and that the ranking of offers of
  different targets is total and transitive (`Ranking`).
* `Catalog_proofs`, of `CatalogTools` and `Decisions`, which share catalog.db.
  For the tools, `KeepInv` says that a catalogue holds each observation it was given
  (`Holds`), and is enough for `NothingIsLost`. `CountsAgree` needs more: that the
  ranges share out what is no longer there as rows (`Exact`), and that two
  catalogues have of each researcher one the beginning of the other (`Nested`), so
  that two that share nothing share no researcher, and no range of one can cover
  an observation of the other.
  For the decisions, sorting comes first: `SortExists` puts each row behind the number
  of rows before it, and `SortedPlace` says that this is the only way. From it
  follow that a file has one last row, the same in the three queries (`OneReading`),
  `LastDecisionFollows` and `VerdictsChange`, and, with `PlaceOf` (a file's place in
  the list is the number of files ahead of it), the walk through the pages.
  `WalksAreComplete` rests on `WalkInv`: a file the reader is owed was seen, or has
  at least as many files ahead as the pages before this one hold. A write about
  another file only moves that file forward, even when the clock stepped back,
  since its newest observation never becomes older; so no file falls back behind
  the reader.

`QueueTypeOK`, `SettledIsFinal`, `EnqueuedIsInPlace`, `CompletedOnEvidence`,
`NoUntrackedDownload`, `SnapshotsHold`, `NeverRegresses` and `MismatchPaid` are proved
and no longer part of a run.

Only model-checked: every liveness property and the progress of `LifecycleKept`
(fairness and ENABLED are out of the prover's reach); `FramesExact` and
`EntriesAccounted` of `EcResults`, which say what recursive operators compute over
nested tags and octets, and would need an induction over data; and
`RenegotiationFollowed`, which is a finding.

## 5. Not modelled

* Observability (`domain/observability/`, `adapters/observability/`): metrics and
  notifications; no loop reads them back. Of the alerts' edges,
  `verifier_unavailable` and `port_mismatch` are in their loops;
  `coverage_blind` only feeds telemetry.
* Crawler configuration (`adapters/config/crawler_config.py`): parsed once at
  start-up, field by field; an error ends the process before anything is opened.
* The probe tools: manual diagnostics without state.
* Of the web UI: the search by name and the pages of one file, target or node,
  which are other projections of the rows `Decisions` reads.
* Of the matching: normalisation of texts, the interpolation of patterns (but
  `mono_gate`) and the ed2k link, which are about strings.
* Of the EC client: what the requests other than the search read out of an
  accepted reply; `CancelledError`, which reaches it only at shutdown. amuled is taken to
  answer each packet once.
* Of the verifier: a malformed request (400), a restart of the service, the system
  call filter, the metrics. `VerifierAssumption` takes the cap on the egress to be at
  most what the crawler reads of a response; a larger one is a matter of the
  operator's settings. JSON's `NaN` is not among the child's outputs.
* Of the codec: the length of the compressed form (`MaxPayload` bounds what it is
  inflated to); what follows the end of a zlib stream is ignored, as in the code.
* Of the verification queue: a clock that steps back between two `enqueue`s, which
  would swap their places in `ORDER BY enqueued_at, id`.
* Of the verifier's service: a scratch directory that is not empty after `rmtree(...,
  ignore_errors=True)` because a killed child not yet dead still wrote to it
  (`spawn.py:121`); a response that fails after the analysis. One limit of
  `FromEnv` stands for all those the environment sets.
* Of the readers: the join with the verifications and the filters on tier, verdict
  and text in the list of files; the two clock readings of an observation and its
  decision are one.
* Of the targets: the season. Episode numbers are compared as numbers, the code
  compares padded texts, which is the same below 1000.
* Two observations equal in every column within one catalogue, which a merge of that
  catalogue into another would make one (`merge/merger.py:51-59`).
* The length of a backoff and its jitter; only that it ends or has not ended.
* The second test of the backoff in `run_task`: no await separates it from the
  first, so it never refuses.
* The nudge that shortens a pause: `WakeUp` may happen at any time anyway.
* Merge and compaction: the journals of decisions, verifications and sources, which
  are copied as observations are; the columns a range sums up besides the count;
  the checks of the command lines.

Two hazards have no property. A download that is cancelled in amuled stays
`downloading` and keeps its share of the cap (`run_download_cycle.py:182`): nothing in
the repository promises otherwise. And the download loop that does not connect again
(`run_download_cycle.py:351`), which is a call that is not there (section 6).

## 6. Where the code and its comments differ

`port_renegotiation` is checked as a finding: the port-sync loop never connects again,
and the restart it asks for ends its own connection, so that the next renegotiation
is not followed, without any error. Its header says that one algorithm covers the
boot and a renegotiation.

Met while modelling, and part of the models as the code has them:

* *The download loop does not connect again* once its transport is gone or was never
  opened (`application/run_download_cycle.py:22-24` says the client reconnects in
  the next cycle; `composition/app.py:332` connects at start-up only). Hence
  "or the connection is down" in its liveness properties.
* *Retries without bound*: a task whose verification takes the process down is claimed
  again for ever, since `reclaim_expired` does not look at `attempts`
  (`local_state_repository.py:5` and `:163`). Hence `+ faults` in `RetryBudget`.
* *A failed cycle is not run again*: `_run_loop` counts a cycle whose end could not be
  saved (`composition/app.py:238`), although `run_search_cycle.py:22-23` and
  `:194-195` say so.
* *Merging again is not idempotent* once the destination was compacted: the old rows
  are added a second time and the next compaction counts them twice
  (`merge/merger.py:69`; `:17` and `src/docs/README.md:43-45` say otherwise). Hence
  `mixed` in `CountedOnce`.
* *Two rules of one name* share the condition of the last one
  (`src/packages/matching/src/catalog_matching/engine.py:114`). Hence
  `NamesDistinct` in `BestRuleWins`.
* *A swallowed cancellation*: `_sleep_or_nudge` (`run_download_cycle.py:399-401`) can
  lose the cancellation of the TaskGroup, which is said to end all sister loops
  (`run_search_cycle.py:24`). Hence `lost` in `FailureEnds`.
* *The deadline of a stop* interrupts one wait, and a close that hangs after it is
  waited for (`composition/app.py:388`, `:426`: "ne PEUT pas paraître bloquée"). Hence
  the exceptions in `StopEnds`.

## 7. What is left

The model of the crawler's core is complete in the sense of section 5. Worth adding:
the interpolation of patterns; the journals the merge copies besides observations; a
restart of the verifier; and, with the graph checks and the codec written as
recursive functions, proofs of what one step of each computes.
