--------------------------- MODULE Process_proofs ---------------------------
(***************************************************************************)
(* Proofs about a crawler process and the loop that keeps amuled           *)
(* reachable.                                                              *)
(*                                                                         *)
(* Supervision: whatever fails, is cancelled, hangs or is signalled, and   *)
(* in whatever order, the stack is not closed under a running loop and     *)
(* nothing stays open, for any number of closes that hang.                 *)
(*                                                                         *)
(* PortSync: any ports, any bounds.                                        *)
(***************************************************************************)
EXTENDS Supervision, PortSync, TLAPS

-----------------------------------------------------------------------------
(* Part one: the process.                                                  *)

Resource == {"catalog", "local", "search_ec", "verifier", "download_ec",
             "reader", "restarter", "port_ec"}

StackShape ==
  /\ todo \in Seq(Resource)
  /\ stack \in Seq(Resource)
  /\ open \subseteq Resource

\* Before the loops start, what they will use is open or still on the list.
OpenedOrPlanned ==
  main = "setup" =>
    /\ \A l \in Loop : at[l] = "unborn"
    /\ \A l \in LoopsOf(sections) : Uses(l) \subseteq open \cup ToSet(todo)

\* While loops run, nothing has been taken from the stack.
OpenWhileRunning ==
  /\ main \in {"supervising", "unwinding"} => NothingClosedInUse
  /\ main \in {"closing", "cleanup", "done"} => Live = {}

\* What is open can be reached from the stack, and the stack is emptied.
StackKnowsAll ==
  /\ open \subseteq ToSet(stack)
  /\ main = "done" /\ signals < 3 => stack = << >>

SupervisionInv ==
  /\ SupervisionTypeOK
  /\ StackShape
  /\ OpenedOrPlanned
  /\ OpenWhileRunning
  /\ StackKnowsAll

-----------------------------------------------------------------------------
(* Sequences.                                                              *)

LEMMA ToSetAppended ==
  ASSUME NEW S, NEW s \in Seq(S), NEW x \in S
  PROVE  /\ Append(s, x) \in Seq(S)
         /\ ToSet(Append(s, x)) = ToSet(s) \cup {x}
<1>1. Append(s, x) \in Seq(S)
  OBVIOUS
<1>2. /\ DOMAIN Append(s, x) = 1 .. Len(s) + 1
      /\ DOMAIN s = 1 .. Len(s) /\ Len(s) \in Nat
      /\ \A i \in 1 .. Len(s) : Append(s, x)[i] = s[i]
      /\ Append(s, x)[Len(s) + 1] = x
  OBVIOUS
<1>3. DOMAIN Append(s, x) = DOMAIN s \cup {Len(s) + 1}
  BY <1>2
<1>4. \A i \in DOMAIN s : i # Len(s) + 1 /\ Append(s, x)[i] = s[i]
  BY <1>2
<1>5. ToSet(Append(s, x)) \subseteq ToSet(s) \cup {x}
  BY <1>2, <1>3, <1>4 DEF ToSet
<1>6. ToSet(s) \cup {x} \subseteq ToSet(Append(s, x))
  BY <1>2, <1>3, <1>4 DEF ToSet
<1>7. QED
  BY <1>1, <1>5, <1>6

LEMMA ToSetHeadTail ==
  ASSUME NEW S, NEW s \in Seq(S), s # << >>
  PROVE  /\ Head(s) \in S /\ Tail(s) \in Seq(S)
         /\ ToSet(s) \subseteq {Head(s)} \cup ToSet(Tail(s))
<1>1. Head(s) \in S /\ Tail(s) \in Seq(S) /\ Len(s) \in Nat \ {0} /\ DOMAIN s = 1 .. Len(s)
  OBVIOUS
<1>2. ASSUME NEW i \in DOMAIN s
      PROVE  s[i] \in {Head(s)} \cup ToSet(Tail(s))
  <2>1. CASE i = 1
    BY <2>1
  <2>2. CASE i # 1
    <3>1. i - 1 \in DOMAIN Tail(s) /\ Tail(s)[i - 1] = s[i]
      BY <1>1, <2>2
    <3>2. QED
      BY <3>1 DEF ToSet
  <2>3. QED
    BY <2>1, <2>2
<1>3. QED
  BY <1>1, <1>2 DEF ToSet

LEMMA ToSetFront ==
  ASSUME NEW S, NEW s \in Seq(S), s # << >>
  PROVE  /\ Front(s) \in Seq(S)
         /\ ToSet(s) \ {Last(s)} \subseteq ToSet(Front(s))
<1>1. Len(s) \in Nat \ {0} /\ DOMAIN s = 1 .. Len(s)
  OBVIOUS
<1>2. /\ Front(s) \in Seq(S) /\ Len(Front(s)) = Len(s) - 1
      /\ \A i \in 1 .. Len(s) - 1 : Front(s)[i] = s[i]
  BY <1>1 DEF Front
<1>3. ASSUME NEW i \in DOMAIN s, s[i] # Last(s)
      PROVE  s[i] \in ToSet(Front(s))
  <2>1. i \in 1 .. Len(s) - 1
    BY <1>1, <1>3 DEF Last
  <2>2. i \in DOMAIN Front(s) /\ Front(s)[i] = s[i]
    BY <1>1, <1>2, <2>1
  <2>3. QED
    BY <2>2 DEF ToSet
<1>4. QED
  BY <1>2, <1>3 DEF ToSet

LEMMA ToSetConcat ==
  ASSUME NEW S, NEW s \in Seq(S), NEW t \in Seq(S)
  PROVE  /\ s \o t \in Seq(S)
         /\ ToSet(s) \cup ToSet(t) \subseteq ToSet(s \o t)
<1>1. /\ s \o t \in Seq(S) /\ DOMAIN (s \o t) = 1 .. Len(s) + Len(t)
      /\ \A i \in DOMAIN s : (s \o t)[i] = s[i]
      /\ \A i \in DOMAIN t : (s \o t)[Len(s) + i] = t[i]
      /\ DOMAIN s = 1 .. Len(s) /\ DOMAIN t = 1 .. Len(t) /\ Len(s) \in Nat /\ Len(t) \in Nat
  OBVIOUS
<1>2. \A i \in DOMAIN s : i \in DOMAIN (s \o t)
  BY <1>1
<1>3. \A i \in DOMAIN t : Len(s) + i \in DOMAIN (s \o t)
  BY <1>1
<1>4. QED
  BY <1>1, <1>2, <1>3 DEF ToSet

LEMMA EmptyHasNothing == ToSet(<< >>) = {}
  BY DEF ToSet

\* Start-up plans to open whatever the loops of its sections use.
LEMMA PlannedSuffices ==
  ASSUME NEW s \in SUBSET {"download", "port_sync"}
  PROVE  /\ Planned(s) \in Seq(Resource)
         /\ \A l \in LoopsOf(s) : Uses(l) \subseteq ToSet(Planned(s))
<1> DEFINE base == <<"catalog", "local", "search_ec">>
           download == IF "download" \in s THEN <<"verifier", "download_ec">> ELSE << >>
           port == IF "port_sync" \in s THEN <<"reader", "restarter", "port_ec">> ELSE << >>
<1>1. base \in Seq(Resource) /\ download \in Seq(Resource) /\ port \in Seq(Resource)
  <2>1. base \in Seq(Resource)
    BY DEF Resource
  <2>2. /\ <<"verifier", "download_ec">> \in Seq(Resource)
        /\ <<"reader", "restarter", "port_ec">> \in Seq(Resource)
        /\ << >> \in Seq(Resource)
    BY DEF Resource
  <2>3. download \in Seq(Resource) /\ port \in Seq(Resource)
    BY <2>2, Zenon
  <2>4. QED
    BY <2>1, <2>3
<1>2. ToSet(base) = {"catalog", "local", "search_ec"}
  BY DEF ToSet
<1>3. "download" \in s => {"verifier", "download_ec"} \subseteq ToSet(download)
  <2> SUFFICES ASSUME "download" \in s PROVE {"verifier", "download_ec"} \subseteq ToSet(download)
    OBVIOUS
  <2>1. 1 \in DOMAIN download /\ 2 \in DOMAIN download
        /\ download[1] = "verifier" /\ download[2] = "download_ec"
    OBVIOUS
  <2>2. QED
    BY <2>1 DEF ToSet
<1>4. "port_sync" \in s => {"reader", "restarter", "port_ec"} \subseteq ToSet(port)
  <2> SUFFICES ASSUME "port_sync" \in s PROVE {"reader", "restarter", "port_ec"} \subseteq ToSet(port)
    OBVIOUS
  <2>1. /\ 1 \in DOMAIN port /\ 2 \in DOMAIN port /\ 3 \in DOMAIN port
        /\ port[1] = "reader" /\ port[2] = "restarter" /\ port[3] = "port_ec"
    OBVIOUS
  <2>2. QED
    BY <2>1 DEF ToSet
<1> HIDE DEF base, download, port
<1>5. download \o port \in Seq(Resource) /\ ToSet(download) \cup ToSet(port) \subseteq ToSet(download \o port)
  BY <1>1, ToSetConcat
<1>6. /\ base \o (download \o port) \in Seq(Resource)
      /\ ToSet(base) \cup ToSet(download \o port) \subseteq ToSet(base \o (download \o port))
  BY <1>1, <1>5, ToSetConcat
<1>7. Planned(s) = base \o (download \o port)
  BY <1>1 DEF Planned, base, download, port
<1>8. \A l \in LoopsOf(s) : Uses(l) \subseteq ToSet(base \o (download \o port))
  BY <1>2, <1>3, <1>4, <1>5, <1>6 DEF LoopsOf, Uses
<1>9. QED
  BY <1>6, <1>7, <1>8

LEMMA InvInit == SupervisionInit => SupervisionInv
<1> SUFFICES ASSUME SupervisionInit PROVE SupervisionInv
  OBVIOUS
<1>1. /\ sections \in SUBSET {"download", "port_sync"} /\ todo = Planned(sections)
      /\ stack = << >> /\ open = {} /\ main = "setup"
      /\ at = [l \in Loop |-> "unborn"]
  BY DEF SupervisionInit
<1>2. /\ todo \in Seq(Resource)
      /\ \A l \in LoopsOf(sections) : Uses(l) \subseteq ToSet(todo)
  BY <1>1, PlannedSuffices
<1>3. SupervisionTypeOK
  <2>1. hung \in BOOLEAN
    BY Zenon DEF SupervisionInit
  <2>2. QED
    BY <1>1, <2>1 DEF SupervisionInit, SupervisionTypeOK, Loop
<1>4. StackShape
  BY <1>1, <1>2 DEF StackShape
<1>5. QED
  BY <1>1, <1>2, <1>3, <1>4 DEF SupervisionInv, OpenedOrPlanned, OpenWhileRunning, StackKnowsAll

\* Whether main waits for a close is known after every step.
LEMMA HungIsBoolean ==
  ASSUME hung \in BOOLEAN, SupervisionNext
  PROVE  hung' \in BOOLEAN
<1>1. CASE \E l \in Loop : LoopStep(l) \/ Raises(l)
  BY <1>1, Zenon DEF LoopStep, Raises, StopsItself, CancelLands, Rests, Wakes, Settles, closeVars
<1>2. CASE MainStep
  BY <1>2, Zenon DEF MainStep, Open, DatabaseFails, SetupFails, StartLoops, Stop, Unwound,
     Close, CloseHangs, Closed, closeVars
<1>3. CASE CloseReturns \/ DeadlineFires \/ FirstSignal \/ SecondSignal \/ ThirdSignal
  BY <1>3, Zenon DEF CloseReturns, DeadlineFires, FirstSignal, SecondSignal, ThirdSignal,
     Interrupted, closeVars
<1>4. QED
  BY <1>1, <1>2, <1>3 DEF SupervisionNext

-----------------------------------------------------------------------------
(* Steps.                                                                  *)

\* Start-up.
LEMMA StartInv ==
  ASSUME SupervisionInv, Open \/ DatabaseFails \/ SetupFails \/ StartLoops, hung' \in BOOLEAN
  PROVE  SupervisionInv'
<1> USE DEF SupervisionInv, loopVars, stackVars, closeVars
<1>1. main = "setup"
  BY DEF Open, DatabaseFails, SetupFails, StartLoops
<1>2. CASE Open \/ SetupFails
  <2>1. /\ todo # << >> /\ todo' = Tail(todo)
        /\ open' = open \cup {Head(todo)} /\ stack' = Append(stack, Head(todo))
        /\ main' \in {"setup", "cleanup"}
        /\ UNCHANGED <<sections, at, cancel, signals, deadline>>
    BY <1>1, <1>2 DEF Open, SetupFails, Acquire
  <2>2. /\ Head(todo) \in Resource /\ Tail(todo) \in Seq(Resource)
        /\ ToSet(todo) \subseteq {Head(todo)} \cup ToSet(Tail(todo))
    BY <2>1, ToSetHeadTail DEF StackShape
  <2>3. /\ Append(stack, Head(todo)) \in Seq(Resource)
        /\ ToSet(Append(stack, Head(todo))) = ToSet(stack) \cup {Head(todo)}
    BY <2>2, ToSetAppended DEF StackShape
  <2>4. StackShape' /\ StackKnowsAll'
    BY <2>1, <2>2, <2>3 DEF StackShape, StackKnowsAll
  <2>5. OpenedOrPlanned'
    BY <1>1, <2>1, <2>2 DEF OpenedOrPlanned
  <2>6. OpenWhileRunning'
    BY <1>1, <2>1 DEF OpenWhileRunning, OpenedOrPlanned, Live, Alive
  <2>7. SupervisionTypeOK'
    BY <2>1 DEF SupervisionTypeOK
  <2>8. QED
    BY <2>4, <2>5, <2>6, <2>7
<1>3. CASE DatabaseFails
  <2>1. /\ main' = "cleanup"
        /\ UNCHANGED <<sections, todo, stack, open, at, cancel, signals, deadline>>
    BY <1>3 DEF DatabaseFails
  <2>2. QED
    BY <1>1, <2>1 DEF SupervisionTypeOK, StackShape, OpenedOrPlanned, OpenWhileRunning,
       StackKnowsAll, Live, Alive
<1>4. CASE StartLoops
  <2>1. /\ main' = "supervising" /\ todo = << >>
        /\ at' = [l \in Loop |-> IF l \in LoopsOf(sections) THEN "working" ELSE "unborn"]
        /\ UNCHANGED <<sections, todo, stack, open, cancel, signals, deadline>>
    BY <1>4 DEF StartLoops
  <2>2. ToSet(todo) = {}
    BY <2>1 DEF ToSet
  <2>3. \A l \in LoopsOf(sections) : Uses(l) \subseteq open
    BY <1>1, <2>2 DEF OpenedOrPlanned
  <2>4. \A l \in Loop : at'[l] = IF l \in LoopsOf(sections) THEN "working" ELSE "unborn"
    BY <2>1
  <2>5. NothingClosedInUse'
    BY <2>1, <2>3, <2>4 DEF NothingClosedInUse, Alive
  <2>6. SupervisionTypeOK'
    BY <2>1 DEF SupervisionTypeOK
  <2>7. QED
    BY <2>1, <2>5, <2>6 DEF StackShape, OpenedOrPlanned, OpenWhileRunning, StackKnowsAll
<1>5. QED
  BY <1>2, <1>3, <1>4

\* Steps that open and close nothing, start no loop and do not enter or leave the
\* states in which the stack is closed.
LEMMA RunningInv ==
  ASSUME SupervisionInv, hung' \in BOOLEAN,
         UNCHANGED <<sections, todo, stack, open>>,
         main' = main \/ (main \in {"supervising", "unwinding"} /\ main' = "unwinding"),
         SupervisionTypeOK', signals' >= signals,
         \A l \in Loop : Alive(l)' => Alive(l),
         main = "setup" => at' = at
  PROVE  SupervisionInv'
<1> USE DEF SupervisionInv
<1>1. StackShape'
  BY DEF StackShape
<1>2. OpenedOrPlanned'
  BY DEF OpenedOrPlanned
<1>3. OpenWhileRunning'
  BY DEF OpenWhileRunning, NothingClosedInUse, Live
<1>4. StackKnowsAll'
  BY DEF StackKnowsAll, SupervisionTypeOK
<1>5. QED
  BY <1>1, <1>2, <1>3, <1>4

LEMMA LoopsInv ==
  ASSUME SupervisionInv, hung' \in BOOLEAN, NEW l \in Loop, LoopStep(l) \/ Raises(l)
  PROVE  SupervisionInv'
<1> USE DEF SupervisionInv, loopVars, stackVars, closeVars
<1>1. /\ at[l] \in {"working", "waiting", "settling"}
      /\ \E where \in {"waiting", "settling", "working", "ended", "raised"} :
           at' = [at EXCEPT ![l] = where]
      /\ cancel' \subseteq Loop
      /\ UNCHANGED <<sections, todo, stack, open, signals, deadline>>
      /\ main' = main \/ (Raises(l) /\ main' = "unwinding")
  <2>1. CASE StopsItself(l)
    BY <2>1 DEF StopsItself, SupervisionTypeOK
  <2>2. CASE CancelLands(l)
    BY <2>2 DEF CancelLands, SupervisionTypeOK
  <2>3. CASE l = "download" /\ (Rests \/ Wakes \/ Settles)
    BY <2>3 DEF Rests, Wakes, Settles, SupervisionTypeOK
  <2>4. CASE Raises(l)
    BY <2>4 DEF Raises, SupervisionTypeOK, Live
  <2>5. QED
    BY <2>1, <2>2, <2>3, <2>4 DEF LoopStep
<1>2. /\ at' \in [Loop -> {"unborn", "working", "waiting", "settling", "ended", "raised"}]
      /\ \A k \in Loop \ {l} : at'[k] = at[k]
  BY <1>1 DEF SupervisionTypeOK
<1>3. \A k \in Loop : Alive(k)' => Alive(k)
  BY <1>1, <1>2 DEF Alive
<1>4. main \in {"supervising", "unwinding"}
  BY <1>1 DEF OpenedOrPlanned, OpenWhileRunning, SupervisionTypeOK, Live, Alive
<1>5. SupervisionTypeOK'
  BY <1>1, <1>2, <1>4 DEF SupervisionTypeOK
<1>6. main' = main \/ main' = "unwinding"
  BY <1>1
<1>7. signals' >= signals
  BY <1>1 DEF SupervisionTypeOK
<1>8. QED
  BY <1>1, <1>3, <1>4, <1>5, <1>6, <1>7, RunningInv

LEMMA OrderInv ==
  ASSUME SupervisionInv, hung' \in BOOLEAN,
         Stop \/ CloseReturns \/ DeadlineFires \/ FirstSignal
  PROVE  SupervisionInv'
<1> USE DEF SupervisionInv, loopVars, stackVars, closeVars
<1>1. /\ UNCHANGED <<sections, todo, stack, open, at>>
      /\ main' = main \/ (main = "supervising" /\ main' = "unwinding")
      /\ cancel' \subseteq Loop
      /\ signals' \in 0 .. 3 /\ signals' >= signals
      /\ deadline' \in {"none", "armed", "fired"}
  <2>1. CASE Stop
    BY <2>1 DEF Stop, SupervisionTypeOK, Live
  <2>2. CASE CloseReturns
    BY <2>2 DEF CloseReturns, SupervisionTypeOK
  <2>3. CASE DeadlineFires
    BY <2>3 DEF DeadlineFires, Interrupted, SupervisionTypeOK, Live
  <2>4. CASE FirstSignal
    BY <2>4 DEF FirstSignal, SupervisionTypeOK
  <2>5. QED
    BY <2>1, <2>2, <2>3, <2>4
<1>2. SupervisionTypeOK'
  BY <1>1 DEF SupervisionTypeOK
<1>3. \A k \in Loop : Alive(k)' => Alive(k)
  BY <1>1 DEF Alive
<1>4. QED
  BY <1>1, <1>2, <1>3, RunningInv

\* The stack is closed from its top.
LEMMA ClosingInv ==
  ASSUME SupervisionInv, hung' \in BOOLEAN, Unwound \/ Close \/ CloseHangs \/ Closed
  PROVE  SupervisionInv'
<1> USE DEF SupervisionInv, loopVars, stackVars, closeVars
<1>1. CASE Unwound
  <2>1. /\ main = "unwinding" /\ Live = {} /\ main' \in {"closing", "cleanup"}
        /\ UNCHANGED <<sections, todo, stack, open, at, cancel, signals, deadline>>
    BY <1>1 DEF Unwound
  <2>2. Live' = {}
    BY <2>1 DEF Live, Alive
  <2>3. QED
    BY <2>1, <2>2 DEF SupervisionTypeOK, StackShape, OpenedOrPlanned, OpenWhileRunning, StackKnowsAll
<1>2. CASE Close \/ CloseHangs
  <2>1. /\ main \in {"closing", "cleanup"} /\ stack # << >>
        /\ open' = open \ {Last(stack)} /\ stack' = Front(stack)
        /\ UNCHANGED <<sections, todo, main, at, cancel, signals, deadline>>
    BY <1>2 DEF Close, CloseHangs, Pop, Closing
  <2>2. Front(stack) \in Seq(Resource) /\ ToSet(stack) \ {Last(stack)} \subseteq ToSet(Front(stack))
    BY <2>1, ToSetFront DEF StackShape
  <2>3. StackShape' /\ StackKnowsAll'
    BY <2>1, <2>2 DEF StackShape, StackKnowsAll
  <2>4. OpenWhileRunning' /\ OpenedOrPlanned' /\ SupervisionTypeOK'
    BY <2>1 DEF OpenWhileRunning, OpenedOrPlanned, SupervisionTypeOK, Live, Alive
  <2>5. QED
    BY <2>3, <2>4
<1>3. CASE Closed
  <2>1. /\ main \in {"closing", "cleanup"} /\ stack = << >> /\ main' \in {"cleanup", "done"}
        /\ UNCHANGED <<sections, todo, stack, open, at, cancel, signals, deadline>>
    BY <1>3 DEF Closed, Closing
  <2>2. QED
    BY <2>1 DEF SupervisionTypeOK, StackShape, OpenedOrPlanned, OpenWhileRunning, StackKnowsAll,
       Live, Alive
<1>4. QED
  BY <1>1, <1>2, <1>3

LEMMA ForcedInv ==
  ASSUME SupervisionInv, hung' \in BOOLEAN, SecondSignal \/ ThirdSignal
  PROVE  SupervisionInv'
<1> USE DEF SupervisionInv, loopVars, stackVars, closeVars
<1>1. CASE SecondSignal
  <2>1. /\ signals = 1 /\ signals' = 2 /\ main # "done"
        /\ main' = CASE main = "setup" -> "cleanup"
                     [] main = "supervising" -> "unwinding"
                     [] OTHER -> main
        /\ cancel' \subseteq Loop
        /\ UNCHANGED <<sections, todo, stack, open, at, deadline>>
    BY <1>1 DEF SecondSignal, Interrupted, Live, SupervisionTypeOK
  <2>2. SupervisionTypeOK'
    BY <2>1 DEF SupervisionTypeOK
  <2>3. OpenWhileRunning'
    BY <2>1 DEF OpenWhileRunning, OpenedOrPlanned, NothingClosedInUse, SupervisionTypeOK, Live, Alive
  <2>4. OpenedOrPlanned' /\ StackShape' /\ StackKnowsAll'
    BY <2>1 DEF OpenedOrPlanned, StackShape, StackKnowsAll, SupervisionTypeOK
  <2>5. QED
    BY <2>2, <2>3, <2>4
<1>2. CASE ThirdSignal
  <2>1. /\ signals' = 3 /\ main' = "done" /\ cancel' = {}
        /\ at' = [l \in Loop |-> IF Alive(l) THEN "ended" ELSE at[l]]
        /\ UNCHANGED <<sections, todo, stack, open, deadline>>
    BY <1>2 DEF ThirdSignal
  <2>2. /\ at' \in [Loop -> {"unborn", "working", "waiting", "settling", "ended", "raised"}]
        /\ \A l \in Loop : at'[l] \notin {"working", "waiting", "settling"}
    BY <2>1 DEF SupervisionTypeOK, Alive
  <2>3. Live' = {}
    BY <2>2 DEF Live, Alive
  <2>4. QED
    BY <2>1, <2>2, <2>3 DEF SupervisionTypeOK, StackShape, OpenedOrPlanned, OpenWhileRunning, StackKnowsAll
<1>3. QED
  BY <1>1, <1>2
-----------------------------------------------------------------------------
LEMMA InvStep == SupervisionInv /\ [SupervisionNext]_vars => SupervisionInv'
<1> SUFFICES ASSUME SupervisionInv, [SupervisionNext]_vars PROVE SupervisionInv'
  OBVIOUS
<1>1. CASE SupervisionNext
  <2>1. hung' \in BOOLEAN
    BY <1>1, HungIsBoolean DEF SupervisionInv, SupervisionTypeOK
  <2>2. CASE \E l \in Loop : LoopStep(l) \/ Raises(l)
    BY <2>1, <2>2, LoopsInv
  <2>3. CASE Open \/ DatabaseFails \/ SetupFails \/ StartLoops
    BY <2>1, <2>3, StartInv
  <2>4. CASE Unwound \/ Close \/ CloseHangs \/ Closed
    BY <2>1, <2>4, ClosingInv
  <2>5. CASE Stop \/ CloseReturns \/ DeadlineFires \/ FirstSignal
    BY <2>1, <2>5, OrderInv
  <2>6. CASE SecondSignal \/ ThirdSignal
    BY <2>1, <2>6, ForcedInv
  <2>7. QED
    BY <1>1, <2>2, <2>3, <2>4, <2>5, <2>6 DEF SupervisionNext, MainStep
<1>2. CASE UNCHANGED vars
  BY <1>2 DEF vars, SupervisionInv, SupervisionTypeOK, StackShape, OpenedOrPlanned,
     OpenWhileRunning, NothingClosedInUse, StackKnowsAll, Live, Alive
<1>3. QED
  BY <1>1, <1>2

\* SupervisionInv holds in every state of a process, whatever sections it has and
\* however many closes hang.
THEOREM SupervisionInvariant == SupervisionSpec => []SupervisionInv
<1>1. QED
  BY InvInit, InvStep, PTL DEF SupervisionSpec

\* No loop is running when the close of something it uses has begun (app.py:
\* the stack is closed after the TaskGroup).
THEOREM ClosedAfterUse == SupervisionSpec => []NothingClosedInUse
<1>1. SupervisionInv => NothingClosedInUse
  BY DEF SupervisionInv, SupervisionTypeOK, OpenedOrPlanned, OpenWhileRunning,
     NothingClosedInUse, Live, Alive
<1>2. QED
  BY <1>1, SupervisionInvariant, PTL

\* A process that ends, but by a third signal, has closed all it had opened.
THEOREM NoLeak == SupervisionSpec => []NothingLeaked
<1>1. SupervisionInv => NothingLeaked
  BY EmptyHasNothing DEF SupervisionInv, StackKnowsAll, NothingLeaked
<1>2. QED
  BY <1>1, SupervisionInvariant, PTL

-----------------------------------------------------------------------------
(* Part two: the port-sync loop.                                           *)

\* PortTypeOK in two parts.
Flags == ec \in BOOLEAN /\ soon \in BOOLEAN /\ alert \in BOOLEAN
PortShape ==
  /\ live \in Port \cup {NoPort} /\ goal \in Port \cup {NoPort}
  /\ pref \in Port /\ bound \in Port
  /\ ppc \in {"read", "current", "set", "restart", "settle", "recheck", "status", "sleep"}
  /\ recent \in Nat
  /\ moves \in 0 .. MaxMoves
  /\ faults \in 0 .. MaxFaults

LEMMA TypeInParts == PortTypeOK <=> Flags /\ PortShape
  BY DEF PortTypeOK, Flags, PortShape

\* The cycle goes on only with a port that was forwarded.
GoalIsPort == ppc \in {"current", "set"} => goal \in Port

\* A preference is written, and amuled restarted, only by a cycle that saw no
\* restart of its own window.
NotSoonAtRestart == ppc \in {"set", "restart"} => ~soon

\* A restart that the loop remembers counts once; every other one is paid for.
RestartsCounted ==
  /\ recent <= 1 + faults
  /\ ~soon => recent <= faults

\* Without an error, the preference and the port part only for the restart that
\* joins them.
JoinedUnlessFault == faults = 0 /\ ppc # "restart" => bound = pref

PortInv ==
  /\ PortShape
  /\ GoalIsPort
  /\ NotSoonAtRestart
  /\ RestartsCounted
  /\ JoinedUnlessFault

LEMMA PortInvInit == PortInit => PortInv
  BY PortAssumption
  DEF PortInit, PortInv, PortShape, GoalIsPort, NotSoonAtRestart, RestartsCounted, JoinedUnlessFault

\* The steps that neither restart amuled nor meet an error.
Quiet ==
  \/ ReadPort \/ Aligned \/ TooSoon \/ Diverges \/ SetPort \/ Settle \/ Recheck \/ Status
  \/ NotConnected \/ WakeUp \/ Renegotiate

LEMMA QuietKeeps == ASSUME PortInv, Quiet PROVE PortInv'
<1> USE DEF PortInv, muleVars, worldVars
<1>1. /\ recent' = recent /\ faults' = faults /\ soon' = soon
      /\ bound' = bound
  BY DEF Quiet, ReadPort, Aligned, TooSoon, Diverges, SetPort, Settle, Recheck, Status,
         NotConnected, WakeUp, Renegotiate
<1>2. PortShape' /\ GoalIsPort'
  BY PortAssumption
  DEF PortShape, GoalIsPort, Quiet, ReadPort, Aligned, TooSoon, Diverges, SetPort, Settle, Recheck, Status,
      NotConnected, WakeUp, Renegotiate, Requesting
<1>3. NotSoonAtRestart'
  BY <1>1
  DEF NotSoonAtRestart, Quiet, ReadPort, Aligned, TooSoon, Diverges, SetPort, Settle, Recheck,
      Status, NotConnected, WakeUp, Renegotiate, Requesting
<1>4. RestartsCounted'
  BY <1>1 DEF RestartsCounted
<1>5. JoinedUnlessFault'
  BY <1>1
  DEF JoinedUnlessFault, Quiet, ReadPort, Aligned, TooSoon, Diverges, SetPort, Settle, Recheck,
      Status, NotConnected, WakeUp, Renegotiate, Requesting
<1>6. QED
  BY <1>2, <1>3, <1>4, <1>5

\* The steps of an error: each pays for what it does.
LEMMA FaultKeeps ==
  ASSUME PortInv, PortUnreadable \/ RestartFails \/ EcFails \/ MuleRestarts \/ Crash
  PROVE  PortInv'
<1> USE DEF PortInv, muleVars, worldVars, Fault
<1>1. /\ faults \in Nat /\ recent \in Nat /\ MaxFaults \in Nat
      /\ faults' = faults + 1 /\ faults' \in 0 .. MaxFaults /\ faults' # 0
  BY PortAssumption DEF PortShape, PortUnreadable, RestartFails, EcFails, MuleRestarts, Crash
<1>2. PortShape' /\ GoalIsPort'
  BY <1>1
  DEF PortShape, GoalIsPort, PortUnreadable, RestartFails, EcFails, MuleRestarts, Crash, Requesting
<1>3. NotSoonAtRestart'
  BY DEF NotSoonAtRestart, PortUnreadable, RestartFails, EcFails, MuleRestarts, Crash, Requesting
<1>4. RestartsCounted'
  BY <1>1
  DEF RestartsCounted, NotSoonAtRestart, PortUnreadable, RestartFails, EcFails, MuleRestarts, Crash
<1>5. JoinedUnlessFault'
  BY <1>1 DEF JoinedUnlessFault
<1>6. QED
  BY <1>2, <1>3, <1>4, <1>5

LEMMA PortInvStep == PortInv /\ [PortNext]_portVars => PortInv'
<1> SUFFICES ASSUME PortInv, [PortNext]_portVars PROVE PortInv'
  OBVIOUS
<1>1. CASE Quiet
  BY <1>1, QuietKeeps
<1>2. CASE PortUnreadable \/ RestartFails \/ EcFails \/ MuleRestarts \/ Crash
  BY <1>2, FaultKeeps
<1>3. CASE Restart
  BY <1>3
  DEF Restart, worldVars, PortInv, PortShape, GoalIsPort, NotSoonAtRestart, RestartsCounted, JoinedUnlessFault
<1>4. CASE WindowEnds
  BY <1>4
  DEF WindowEnds, muleVars, worldVars, PortInv, PortShape, GoalIsPort, NotSoonAtRestart, RestartsCounted,
      JoinedUnlessFault
<1>5. CASE UNCHANGED portVars
  BY <1>5
  DEF portVars, muleVars, worldVars, PortInv, PortShape, GoalIsPort, NotSoonAtRestart, RestartsCounted,
      JoinedUnlessFault
<1>6. QED
  BY <1>1, <1>2, <1>3, <1>4, <1>5 DEF PortNext, PortStep, Quiet

LEMMA FlagsStep == Flags /\ [PortNext]_portVars => Flags'
<1> SUFFICES ASSUME Flags, [PortNext]_portVars PROVE Flags'
  OBVIOUS
<1>1. CASE Recheck
  BY <1>1 DEF Recheck, Flags, muleVars, worldVars
<1>2. CASE Status
  BY <1>2 DEF Status, Flags, muleVars, worldVars
<1>3. QED
  BY <1>1, <1>2, Zenon
  DEF PortNext, PortStep, portVars, ReadPort, PortUnreadable, Aligned, TooSoon, Diverges, SetPort,
      Restart, RestartFails, Settle, NotConnected, EcFails, WakeUp, Renegotiate, MuleRestarts,
      WindowEnds, Crash, Flags

\* The types of the loop's state.
THEOREM PortTypes == PortSpec => []PortTypeOK
<1>1. PortInit => Flags
  BY Zenon DEF PortInit, Flags
<1>2. PortSpec => []Flags
  BY <1>1, FlagsStep, PTL DEF PortSpec
<1>3. PortInv => PortShape
  BY DEF PortInv
<1>4. QED
  BY <1>2, <1>3, PortInvInit, PortInvStep, TypeInParts, PTL DEF PortSpec

\* The invariant of the loop: the rate limit's account of the restarts, and the
\* preference in use.
THEOREM PortInvariant == PortSpec => []PortInv
  BY PortInvInit, PortInvStep, PTL DEF PortSpec

\* Whatever the VPN does, amuled is restarted at most once in a window but for
\* errors: the rate limit of _rate_limit_allows.
THEOREM RestartsAreLimited == PortSpec => []RestartsPaid
<1>1. PortInv => RestartsPaid
  BY DEF PortInv, RestartsCounted, RestartsPaid
<1>2. QED
  BY <1>1, PortInvariant, PTL

\* Taking amuled's preference for the port it listens on, as the loop does, is
\* right unless an error has parted them.
THEOREM PreferenceIsInUse == PortSpec => []MismatchPaid
<1>1. PortInv => MismatchPaid
  BY DEF PortInv, JoinedUnlessFault, MismatchPaid, PortShape, Busy
<1>2. QED
  BY <1>1, PortInvariant, PTL

\* The alert of a failed restart ends only when amuled listens on the forwarded
\* port, or with the process.
THEOREM AlertIsKept == PortSpec => AlertUntilReachable
<1>1. ASSUME [PortNext]_portVars, alert, ~alert', ~Crash PROVE bound = live
  <2>1. CASE Recheck
    BY <1>1, <2>1 DEF Recheck, MaybeHighID
  <2>2. CASE Status
    BY <1>1, <2>2 DEF Status, MaybeHighID
  <2>3. ~RestartFails
    BY <1>1 DEF RestartFails
  <2>4. CASE alert' = alert
    BY <1>1, <2>4
  <2>5. QED
    BY <1>1, <2>1, <2>2, <2>3, <2>4
    DEF PortNext, PortStep, portVars, ReadPort, PortUnreadable, Aligned, TooSoon, Diverges, SetPort,
        Restart, Settle, NotConnected, EcFails, WakeUp, Renegotiate, MuleRestarts, WindowEnds
<1>2. QED
  BY <1>1, PTL DEF PortSpec, AlertUntilReachable
=============================================================================
