------------------------------ MODULE Supervision ------------------------------
(***************************************************************************)
(* The life of one crawler process (CrawlerApp.run and _supervise): the    *)
(* resources are opened one after the other and pushed on a stack, the     *)
(* loops run as tasks of one TaskGroup, and a signal or the failure of a   *)
(* loop ends them all before the stack is closed, last opened first.       *)
(*                                                                         *)
(* One step is one run of code between two awaits.  A cancellation is only *)
(* a request: it lands when the task next runs, and the wait of the        *)
(* download loop (_sleep_or_nudge) can lose it.  What the loops do with    *)
(* the databases is the matter of the other modules.                       *)
(***************************************************************************)
EXTENDS Naturals, Sequences, SequencesExt

CONSTANT MaxSlow   \* bound: closes that do not return by themselves

ASSUME SupervisionAssumption == MaxSlow \in Nat

VARIABLES
  sections,  \* the optional sections of the configuration: "download", "port_sync"
  todo,      \* the resources that start-up has still to open, in order
  stack,     \* the callbacks of the AsyncExitStack
  open,      \* the resources that are open
  main,      \* where CrawlerApp.run is
  at,        \* where each loop is
  cancel,    \* the loops with a cancellation that has not landed yet
  signals,   \* SIGINT and SIGTERM received
  deadline,  \* the asyncio.timeout of the stop: "none", "armed" or "fired"
  hung,      \* whether main waits for a close that does not return
  slow,      \* how many closes did not return
  lost,      \* the loops that swallowed a cancellation
  trouble    \* why the exit status will not be 0

vars == <<sections, todo, stack, open, main, at, cancel, signals, deadline, hung, slow, lost, trouble>>

Database == {"catalog", "local"}
Loop == {"search", "download", "verify", "port"}

\* In the order of run(): databases, search clients, then the optional sections.
Planned(s) ==
  <<"catalog", "local", "search_ec">>
  \o (IF "download" \in s THEN <<"verifier", "download_ec">> ELSE << >>)
  \o (IF "port_sync" \in s THEN <<"reader", "restarter", "port_ec">> ELSE << >>)

LoopsOf(s) ==
  {"search"} \cup (IF "download" \in s THEN {"download", "verify"} ELSE {})
             \cup (IF "port_sync" \in s THEN {"port"} ELSE {})

\* What each loop was given at its construction.
Uses(l) ==
  CASE l = "search" -> {"catalog", "local", "search_ec"}
    [] l = "download" -> {"catalog", "local", "download_ec"}
    [] l = "verify" -> {"catalog", "local", "verifier"}
    [] l = "port" -> {"reader", "restarter", "port_ec"}

Alive(l) == at[l] \in {"working", "waiting", "settling"}
Live == {l \in Loop : Alive(l)}
Stopping == signals > 0
Failed == \E l \in Loop : at[l] = "raised"

SupervisionInit ==
  /\ sections \in SUBSET {"download", "port_sync"}
  /\ todo = Planned(sections)
  /\ stack = << >>
  /\ open = {}
  /\ main = "setup"
  /\ at = [l \in Loop |-> "unborn"]
  /\ cancel = {}
  /\ signals = 0
  /\ deadline = "none"
  /\ hung = FALSE
  /\ slow = 0
  /\ lost = {}
  /\ trouble = {}

loopVars == <<at, cancel, lost>>
stackVars == <<todo, stack, open>>
closeVars == <<hung, slow>>

-----------------------------------------------------------------------------
(* Start-up                                                                *)

\* Mutation: the callback is pushed only after connect() or health().
AcquireLate(r, ready) ==
  /\ open' = open \cup {r}
  /\ stack' = IF ready THEN Append(stack, r) ELSE stack

\* A resource is opened and its callback pushed, before anything else is asked of it.
Acquire(r, ready) ==
  /\ open' = open \cup {r}
  /\ stack' = Append(stack, r)

\* The resource is ready, or amuled is unreachable, which is tolerated.
Open ==
  /\ main = "setup" /\ todo # << >>
  /\ Acquire(Head(todo), TRUE)
  /\ todo' = Tail(todo)
  /\ UNCHANGED <<sections, main, loopVars, signals, deadline, closeVars, trouble>>

\* A migration fails, before there is anything to push.
DatabaseFails ==
  /\ main = "setup" /\ todo # << >>
  /\ Head(todo) \in Database
  /\ main' = "cleanup"
  /\ trouble' = trouble \cup {"setup"}
  /\ UNCHANGED <<sections, stackVars, loopVars, signals, deadline, closeVars>>

\* amuled refuses the password (EcAuthError), or the verifier is not healthy.
SetupFails ==
  /\ main = "setup" /\ todo # << >>
  /\ Head(todo) \in {"search_ec", "verifier", "download_ec", "port_ec"}
  /\ Acquire(Head(todo), FALSE)
  /\ todo' = Tail(todo)
  /\ main' = "cleanup"
  /\ trouble' = trouble \cup {"setup"}
  /\ UNCHANGED <<sections, loopVars, signals, deadline, closeVars>>

StartLoops ==
  /\ main = "setup" /\ todo = << >>
  /\ main' = "supervising"
  /\ at' = [l \in Loop |-> IF l \in LoopsOf(sections) THEN "working" ELSE "unborn"]
  /\ UNCHANGED <<sections, stackVars, cancel, lost, signals, deadline, closeVars, trouble>>

-----------------------------------------------------------------------------
(* The loops                                                               *)

\* Every "while not shutdown.is_set()"; the other loops go on working.
StopsItself(l) ==
  /\ at[l] = "working" /\ l \notin cancel
  /\ Stopping
  /\ at' = [at EXCEPT ![l] = "ended"]
  /\ UNCHANGED <<sections, stackVars, main, cancel, lost, signals, deadline, closeVars, trouble>>

\* _sleep_or_nudge: sleeps until the poll interval is over or a nudge comes ...
Rests ==
  /\ at["download"] = "working" /\ "download" \notin cancel
  /\ ~Stopping
  /\ at' = [at EXCEPT !["download"] = "waiting"]
  /\ UNCHANGED <<sections, stackVars, main, cancel, lost, signals, deadline, closeVars, trouble>>

\* ... and awaits the loser of the two, which it has cancelled.
Wakes ==
  /\ at["download"] = "waiting" /\ "download" \notin cancel
  /\ at' = [at EXCEPT !["download"] = "settling"]
  /\ UNCHANGED <<sections, stackVars, main, cancel, lost, signals, deadline, closeVars, trouble>>

\* The CancelledError of the loser is suppressed, and so is one for the loop itself.
Settles ==
  /\ at["download"] = "settling"
  /\ at' = [at EXCEPT !["download"] = IF Stopping THEN "ended" ELSE "working"]
  /\ cancel' = cancel \ {"download"}
  /\ lost' = lost \cup (cancel \cap {"download"})
  /\ UNCHANGED <<sections, stackVars, main, signals, deadline, closeVars, trouble>>

\* Mutation: the suppress clause is put around the whole wait.
CancelLandsAtWork(l) ==
  /\ l \in cancel /\ at[l] \in {"working", "waiting"}
  /\ at' = [at EXCEPT ![l] = IF at[l] = "working" THEN "ended" ELSE "working"]
  /\ cancel' = cancel \ {l}
  /\ UNCHANGED <<sections, stackVars, main, lost, signals, deadline, closeVars, trouble>>

CancelLands(l) ==
  /\ l \in cancel /\ at[l] \in {"working", "waiting"}
  /\ at' = [at EXCEPT ![l] = "ended"]
  /\ cancel' = cancel \ {l}
  /\ UNCHANGED <<sections, stackVars, main, lost, signals, deadline, closeVars, trouble>>

\* An exception no cycle catches: an EC_OP_FAILED in answer to a read of the
\* download loop, an overflow of backoff_delay in a search worker.  The TaskGroup
\* cancels the other tasks, and the wait of _supervise.
Raises(l) ==
  /\ l \in {"search", "download"} /\ at[l] = "working" /\ l \notin cancel
  /\ at' = [at EXCEPT ![l] = "raised"]
  /\ cancel' = cancel \cup (Live \ {l})
  /\ main' = "unwinding"
  /\ UNCHANGED <<sections, stackVars, lost, signals, deadline, closeVars, trouble>>

-----------------------------------------------------------------------------
(* The stop                                                                *)

\* Mutation: the deadline is not armed.
StopUnbounded ==
  /\ main = "supervising" /\ Stopping
  /\ cancel' = Live
  /\ main' = "unwinding"
  /\ UNCHANGED <<sections, stackVars, at, lost, signals, deadline, closeVars, trouble>>

\* _shutdown.wait() returns: the deadline is armed, then every task is cancelled.
Stop ==
  /\ main = "supervising" /\ Stopping
  /\ deadline' = "armed"
  /\ cancel' = Live
  /\ main' = "unwinding"
  /\ UNCHANGED <<sections, stackVars, at, lost, signals, closeVars, trouble>>

\* Mutation: the tasks are cancelled and not awaited.
UnwoundEarly ==
  /\ main = "unwinding"
  /\ trouble' = trouble \cup (IF Failed THEN {"failed"} ELSE {})
  /\ main' = IF trouble' = {} THEN "closing" ELSE "cleanup"
  /\ UNCHANGED <<sections, stackVars, loopVars, signals, deadline, closeVars>>

\* The TaskGroup is left once its last task is over: to close the stack under the
\* deadline, or with an exception, past it.
Unwound ==
  /\ main = "unwinding" /\ Live = {}
  /\ trouble' = trouble \cup (IF Failed THEN {"failed"} ELSE {})
  /\ main' = IF trouble' = {} THEN "closing" ELSE "cleanup"
  /\ UNCHANGED <<sections, stackVars, loopVars, signals, deadline, closeVars>>

Closing == main \in {"closing", "cleanup"}

Pop ==
  /\ Closing /\ ~hung /\ stack # << >>
  /\ open' = open \ {Last(stack)}
  /\ stack' = Front(stack)

Close ==
  /\ Pop
  /\ UNCHANGED <<sections, todo, main, loopVars, signals, deadline, closeVars, trouble>>

\* A close of a connection that waits for its peer.
CloseHangs ==
  /\ Pop
  /\ Last(stack) \notin Database
  /\ slow < MaxSlow
  /\ slow' = slow + 1
  /\ hung' = TRUE
  /\ UNCHANGED <<sections, todo, main, loopVars, signals, deadline, trouble>>

CloseReturns ==
  /\ hung
  /\ hung' = FALSE
  /\ UNCHANGED <<sections, stackVars, main, loopVars, signals, deadline, slow, trouble>>

\* main is cancelled where it waits.  A TaskGroup cancels its tasks once more; a
\* close is abandoned, and the stack goes on with the others.
Interrupted ==
  /\ cancel' = IF main \in {"supervising", "unwinding"} THEN Live ELSE cancel
  /\ hung' = FALSE

\* The block of the timeout ends with the aclose it holds.
DeadlineFires ==
  /\ deadline = "armed" /\ main \in {"unwinding", "closing"}
  /\ deadline' = "fired"
  /\ trouble' = trouble \cup {"late"}
  /\ Interrupted
  /\ UNCHANGED <<sections, stackVars, main, at, lost, signals, slow>>

\* Through the finally of run(), whose aclose finds what is left on the stack.
Closed ==
  /\ Closing /\ ~hung /\ stack = << >>
  /\ main' = IF main = "closing" THEN "cleanup" ELSE "done"
  /\ UNCHANGED <<sections, stackVars, loopVars, signals, deadline, closeVars, trouble>>

-----------------------------------------------------------------------------
(* Signals                                                                 *)

FirstSignal ==
  /\ main # "done" /\ signals = 0
  /\ signals' = 1
  /\ UNCHANGED <<sections, stackVars, main, loopVars, deadline, closeVars, trouble>>

\* SystemExit leaves the event loop; asyncio.run then cancels every task and
\* runs the loop again until they are over.
SecondSignal ==
  /\ main # "done" /\ signals = 1
  /\ signals' = 2
  /\ trouble' = trouble \cup {"forced"}
  /\ main' = CASE main = "setup" -> "cleanup"
               [] main = "supervising" -> "unwinding"
               [] OTHER -> main
  /\ Interrupted
  /\ UNCHANGED <<sections, stackVars, at, lost, deadline, slow>>

\* A third one leaves that run of the loop, too, and ends the process.
ThirdSignal ==
  /\ main # "done" /\ signals = 2
  /\ signals' = 3
  /\ trouble' = trouble \cup {"killed"}
  /\ main' = "done"
  /\ at' = [l \in Loop |-> IF Alive(l) THEN "ended" ELSE at[l]]
  /\ cancel' = {}
  /\ hung' = FALSE
  /\ UNCHANGED <<sections, stackVars, lost, deadline, slow>>

-----------------------------------------------------------------------------
MainStep ==
  \/ Open \/ DatabaseFails \/ SetupFails \/ StartLoops
  \/ Stop \/ Unwound \/ Close \/ CloseHangs \/ Closed

LoopStep(l) ==
  \/ StopsItself(l)
  \/ CancelLands(l)
  \/ l = "download" /\ (Rests \/ Wakes \/ Settles)

SupervisionNext ==
  \/ MainStep
  \/ \E l \in Loop : LoopStep(l) \/ Raises(l)
  \/ CloseReturns \/ DeadlineFires
  \/ FirstSignal \/ SecondSignal \/ ThirdSignal

SupervisionSpec == SupervisionInit /\ [][SupervisionNext]_vars

\* The event loop runs what is ready, and its timers; a close may hang for ever.
SupervisionFairSpec ==
  /\ SupervisionSpec
  /\ WF_vars(MainStep)
  /\ WF_vars(DeadlineFires)
  /\ \A l \in Loop : WF_vars(LoopStep(l))

-----------------------------------------------------------------------------
(* Properties                                                              *)

SupervisionTypeOK ==
  /\ sections \subseteq {"download", "port_sync"}
  /\ main \in {"setup", "supervising", "unwinding", "closing", "cleanup", "done"}
  /\ at \in [Loop -> {"unborn", "working", "waiting", "settling", "ended", "raised"}]
  /\ cancel \subseteq Loop
  /\ signals \in 0 .. 3
  /\ deadline \in {"none", "armed", "fired"}
  /\ hung \in BOOLEAN

\* No loop is still running when the close of something it uses has begun,
\* whatever ended the others ("plus aucun travailleur ne peut ecrire", app.py:17):
\* a stop, a failure, the deadline, signals, in any order.
NothingClosedInUse == \A l \in Loop : Alive(l) => Uses(l) \subseteq open

\* However the process ends, but by a third signal, every resource it opened has
\* been closed, one that refused to start included.
NothingLeaked == main = "done" /\ signals < 3 => open = {}

\* A stop asked for once, while the loops run, ends the process, unless a loop
\* fails meanwhile, or a close does not return after the deadline has fired: the
\* deadline interrupts one wait, of the TaskGroup or of a close, and no other.
StopEnds ==
  main = "supervising" /\ Stopping
    ~> main = "done" \/ Failed \/ signals > 1 \/ (hung /\ deadline = "fired")

\* A loop that fails takes the process with it, for a restart, unless the download
\* loop loses the cancellation or a close does not return: no deadline is armed then.
FailureEnds == Failed ~> main = "done" \/ lost # {} \/ hung
=============================================================================
