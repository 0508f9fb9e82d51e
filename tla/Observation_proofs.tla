-------------------------- MODULE Observation_proofs --------------------------
(***************************************************************************)
(* Proofs about where observations come from and what is decided on them:  *)
(* the client of amuled's external connection, for any decoder and         *)
(* mapping, any keywords and packets, and any number of connections,       *)
(* requests, timeouts and cuts; and the matching engine, for any files     *)
(* matcher.yml and targets.yml, any observed file and any max_depth.       *)
(***************************************************************************)
EXTENDS EcClient, Matching, FiniteSetTheorems, WellFoundedInduction,
        NaturalsInduction, SequenceTheorems, TLAPS

-----------------------------------------------------------------------------
(* Part one: the client of the external connection.                        *)

-----------------------------------------------------------------------------
(***************************************************************************)
(* The inductive invariant.  A call has at most one packet under way, on   *)
(* its own connection, and what comes back answers it.                     *)
(***************************************************************************)
\* A queue for each connection.
Queues(q) == q = [c \in Connections |-> q[c]]

EcShape ==
  /\ password \in {"right", "wrong", "empty"}
  /\ opened \in 0 .. MaxConnections
  /\ transport \in 0 .. opened /\ conn \in 0 .. opened
  /\ stage \in {"idle", "salt", "verdict", "reply"}
  /\ unsure \in BOOLEAN
  /\ session \in [Connections -> {"closed", "fresh", "salted", "open"}]
  /\ Queues(toDaemon) /\ Queues(toClient)

Quiet(c) == toDaemon[c] = <<>> /\ toClient[c] = <<>>

UnopenedQuiet ==
  \A c \in Connections : c > opened => session[c] = "closed" /\ Quiet(c)

\* The connection of the call, and the one the client keeps, are the same one.
OneConnection ==
  /\ stage # "idle" => conn # 0 /\ transport = (IF stage = "reply" THEN conn ELSE 0)
  /\ stage # "reply" => pending = NoRequest
  /\ stage = "idle" /\ transport # 0 => conn = transport /\ Quiet(transport)
  /\ transport # 0 => password = "right" /\ session[transport] \in {"open", "closed"}
  /\ \A c \in Connections :
       session[c] # "closed" => c = conn /\ (stage = "idle" => c = transport)

\* The packet of the call.
Asking ==
  CASE stage = "salt" -> [kind |-> "AUTH_REQ"]
    [] stage = "verdict" -> [kind |-> "AUTH_PASSWD", right |-> password = "right"]
    [] stage = "reply" -> [kind |-> "request", op |-> pending.op, number |-> pending.number,
                           keyword |-> pending.keyword]

\* What the daemon gathers is what the label says, if no answer was missed.
Labelled == searching = label \/ unsure

\* A message that answers the packet of the call.
Answers(m) ==
  CASE stage = "salt" -> m.kind \in {"AUTH_SALT", "AUTH_FAIL", "UNREADABLE"}
    [] stage = "verdict" ->
         \/ m.kind \in {"AUTH_FAIL", "UNREADABLE"}
         \/ m.kind = "AUTH_OK" /\ password = "right" /\ session[conn] \in {"open", "closed"}
    [] stage = "reply" ->
         /\ m.kind \in {Expected(pending.op), "FAILED", "ODD", "UNREADABLE"}
         /\ m.number = pending.number
         /\ IF m.kind = "STRINGS" THEN searching = pending.keyword ELSE Labelled
         /\ m.kind = "RESULTS" => m.keyword = label \/ unsure

InStep ==
  /\ stage # "idle" =>
       \/ Quiet(conn) /\ session[conn] = "closed"
       \/ toDaemon[conn] = <<Asking>> /\ toClient[conn] = <<>> /\ Labelled
       \/ toDaemon[conn] = <<>> /\ \E m : toClient[conn] = <<m>> /\ Answers(m)
  /\ pending.op # "start" => Labelled

EcInv ==
  /\ EcShape
  /\ UnopenedQuiet
  /\ OneConnection
  /\ InStep
  /\ got.asked = got.answered
  /\ Provenance

\* What a step does to the queue of one connection.
With(q, c, s) == [q EXCEPT ![c] = s]

LEMMA FirstAppended == ASSUME NEW x PROVE Append(<<>>, x) = <<x>>
  OBVIOUS

LEMMA QueuesUpdated ==
  ASSUME NEW q, Queues(q), NEW c \in Connections, NEW s
  PROVE  /\ Queues(With(q, c, s))
         /\ With(q, c, s)[c] = s
         /\ \A d \in Connections \ {c} : With(q, c, s)[d] = q[d]
<1>1. With(q, c, s) = [d \in Connections |-> IF d = c THEN s ELSE q[d]]
  BY DEF Queues, With
<1>2. QED
  BY <1>1 DEF Queues

LEMMA EcInvInit == EcInit => EcInv
<1> SUFFICES ASSUME EcInit PROVE EcInv
  OBVIOUS
<1>1. EcShape
  <2>1. Queues(toDaemon) /\ Queues(toClient)
    BY DEF EcInit, Queues
  <2>2. session \in [Connections -> {"closed", "fresh", "salted", "open"}]
    BY DEF EcInit
  <2>3. unsure \in BOOLEAN
    BY Zenon DEF EcInit
  <2>4. QED
    BY <2>1, <2>2, <2>3, EcClientAssumption DEF EcInit, EcShape
<1>2. UnopenedQuiet
  BY DEF EcInit, UnopenedQuiet, Quiet
<1>3. OneConnection
  BY DEF EcInit, OneConnection
<1>4. InStep
  BY DEF EcInit, InStep, Labelled
<1>5. QED
  BY <1>1, <1>2, <1>3, <1>4 DEF EcInit, EcInv, NoReceipt, Provenance, IsResults

-----------------------------------------------------------------------------
\* The connection of a call in progress.
LEMMA OfCall ==
  ASSUME EcInv, stage # "idle"
  PROVE  conn \in Connections
  BY EcClientAssumption DEF EcInv, EcShape, OneConnection, Connections

\* What has arrived is all there is on the connection, and answers the call.
LEMMA Arrival ==
  ASSUME EcInv, Arrived
  PROVE  /\ conn \in Connections
         /\ toDaemon[conn] = <<>> /\ toClient[conn] = <<Arriving>>
         /\ Tail(toClient[conn]) = <<>>
         /\ Answers(Arriving)
<1>1. stage # "idle" /\ toClient[conn] # <<>>
  BY DEF Arrived
<1>2. PICK m : toDaemon[conn] = <<>> /\ toClient[conn] = <<m>> /\ Answers(m)
  BY <1>1 DEF EcInv, InStep, Quiet
<1>3. Arriving = m /\ Tail(toClient[conn]) = <<>>
  BY <1>2 DEF Arriving
<1>4. QED
  BY <1>1, <1>2, <1>3, OfCall

\* Reading what has arrived leaves the connection quiet.
LEMMA Reading ==
  ASSUME EcInv, Arrived, toClient' = [toClient EXCEPT ![conn] = Tail(@)]
  PROVE  /\ conn \in Connections /\ conn <= opened
         /\ Queues(toClient') /\ toClient'[conn] = <<>>
         /\ \A d \in Connections \ {conn} : toClient'[d] = toClient[d]
<1>1. toClient' = With(toClient, conn, Tail(toClient[conn]))
  BY DEF With
<1>2. toClient' = With(toClient, conn, <<>>) /\ conn \in Connections
  BY <1>1, Arrival
<1>3. Queues(toClient) /\ conn <= opened
  BY <1>2 DEF EcInv, EcShape, Connections
<1>4. /\ Queues(With(toClient, conn, <<>>)) /\ With(toClient, conn, <<>>)[conn] = <<>>
      /\ \A d \in Connections \ {conn} : With(toClient, conn, <<>>)[d] = toClient[d]
  BY <1>2, <1>3, QueuesUpdated
<1>5. QED
  BY <1>2, <1>3, <1>4

\* A call that ends with its connection leaves nothing behind.
LEMMA DroppedInv ==
  ASSUME EcInv, stage # "idle", Dropped, UNCHANGED <<password, got>>
  PROVE  EcInv'
<1>1. /\ conn \in Connections
      /\ session' = [session EXCEPT ![conn] = "closed"]
      /\ toDaemon' = With(toDaemon, conn, <<>>)
      /\ toClient' = With(toClient, conn, <<>>)
      /\ transport' = 0 /\ conn' = 0 /\ stage' = "idle"
      /\ pending' = NoRequest
      /\ unsure' = (unsure \/ pending.op = "start")
      /\ UNCHANGED <<password, got, label, opened, searching>>
  BY OfCall DEF Dropped, With
<1>2. EcShape'
  BY <1>1, QueuesUpdated, EcClientAssumption DEF EcInv, EcShape
<1>3. UnopenedQuiet'
  BY <1>1, QueuesUpdated DEF EcInv, EcShape, UnopenedQuiet, Quiet
<1>4. OneConnection'
  BY <1>1 DEF EcInv, EcShape, OneConnection
<1>5. InStep'
  BY <1>1 DEF EcInv, InStep, Labelled
<1>6. QED
  BY <1>1, <1>2, <1>3, <1>4, <1>5 DEF EcInv, Provenance, IsResults

LEMMA OpenTransportInv ==
  ASSUME EcInv, OpenTransport
  PROVE  EcInv'
<1> DEFINE new == opened + 1
<1>1. /\ new \in Connections /\ new > opened /\ opened \in Nat
      /\ stage = "idle" /\ transport = 0
      /\ opened' = new /\ conn' = new /\ stage' = "salt"
      /\ session' = [session EXCEPT ![new] = "fresh"]
      /\ toDaemon' = With(toDaemon, new, <<[kind |-> "AUTH_REQ"]>>)
      /\ UNCHANGED <<password, transport, pending, label, toClient, searching, unsure, got>>
  BY EcClientAssumption DEF OpenTransport, Connections, EcInv, EcShape, With
<1>2. EcShape'
  BY <1>1, QueuesUpdated, EcClientAssumption DEF EcInv, EcShape, Connections
<1>3. UnopenedQuiet'
  BY <1>1, QueuesUpdated DEF EcInv, EcShape, UnopenedQuiet, Quiet, Connections
<1>4. OneConnection'
  BY <1>1 DEF EcInv, EcShape, OneConnection, Connections
<1>5. InStep'
  <2>1. toDaemon'[new] = <<[kind |-> "AUTH_REQ"]>> /\ toClient'[new] = <<>>
    BY <1>1, QueuesUpdated DEF EcInv, EcShape, UnopenedQuiet, Quiet
  <2>2. pending.op # "start" /\ Labelled
    BY <1>1 DEF EcInv, OneConnection, NoRequest, InStep
  <2>3. Asking' = [kind |-> "AUTH_REQ"]
    BY <1>1 DEF Asking
  <2>4. QED
    BY <1>1, <2>1, <2>2, <2>3 DEF InStep, Labelled
<1>6. QED
  BY <1>1, <1>2, <1>3, <1>4, <1>5 DEF EcInv, Provenance, IsResults
\* Nothing happens on the other connections.
Elsewhere(c) ==
  \A d \in Connections \ {c} :
    toDaemon'[d] = toDaemon[d] /\ toClient'[d] = toClient[d] /\ session'[d] = session[d]

LEMMA UnopenedKept ==
  ASSUME EcInv, NEW c \in Connections, c <= opened, Elsewhere(c), opened' = opened
  PROVE  UnopenedQuiet'
  BY DEF EcInv, EcShape, UnopenedQuiet, Quiet, Elsewhere, Connections

LEMMA TakeSaltInv ==
  ASSUME EcInv, TakeSalt
  PROVE  EcInv'
<1> DEFINE passwd == [kind |-> "AUTH_PASSWD", right |-> password = "right"]
<1>1. /\ stage = "salt" /\ stage' = "verdict"
      /\ conn \in Connections /\ conn <= opened
      /\ UNCHANGED <<password, transport, conn, pending, label, opened, session, searching,
                     unsure, got>>
  BY Reading DEF TakeSalt
<1>2. /\ Queues(toDaemon') /\ Queues(toClient')
      /\ toDaemon'[conn] = <<passwd>> /\ toClient'[conn] = <<>>
      /\ Elsewhere(conn)
  <2>1. toDaemon' = With(toDaemon, conn, Append(toDaemon[conn], passwd))
    BY DEF TakeSalt, With
  <2>2. toDaemon' = With(toDaemon, conn, <<passwd>>)
    <3> HIDE DEF passwd
    <3>1. toDaemon[conn] = <<>>
      BY Arrival DEF TakeSalt
    <3>2. QED
      BY <2>1, <3>1, FirstAppended
  <2>3. QED
    <3> HIDE DEF passwd
    <3>1. Queues(toDaemon)
      BY DEF EcInv, EcShape
    <3>2. /\ Queues(toClient') /\ toClient'[conn] = <<>>
          /\ \A d \in Connections \ {conn} : toClient'[d] = toClient[d]
      BY Reading DEF TakeSalt
    <3>3. QED
      BY <1>1, <2>2, <3>1, <3>2, QueuesUpdated DEF Elsewhere
<1>3. EcShape'
  BY <1>1, <1>2 DEF EcInv, EcShape
<1>4. UnopenedQuiet'
  BY <1>1, <1>2, UnopenedKept
<1>5. OneConnection'
  BY <1>1 DEF EcInv, EcShape, OneConnection
<1>6. InStep'
  <2>1. Asking' = passwd
    BY <1>1 DEF Asking
  <2>2. pending.op # "start" /\ Labelled
    BY <1>1 DEF EcInv, OneConnection, NoRequest, InStep
  <2>3. QED
    BY <1>1, <1>2, <2>1, <2>2 DEF InStep, Labelled
<1>7. QED
  BY <1>1, <1>3, <1>4, <1>5, <1>6 DEF EcInv, Provenance, IsResults

LEMMA TakeVerdictInv ==
  ASSUME EcInv, TakeVerdict
  PROVE  EcInv'
<1>1. /\ stage = "verdict" /\ stage' = "idle" /\ transport' = conn
      /\ password = "right" /\ session[conn] \in {"open", "closed"}
      /\ toDaemon[conn] = <<>>
      /\ UNCHANGED <<password, conn, pending, label, opened, session, toDaemon, searching,
                     unsure, got>>
  BY Arrival DEF TakeVerdict, Answers
<1>2. /\ conn \in Connections /\ conn <= opened
      /\ Queues(toClient') /\ toClient'[conn] = <<>> /\ Elsewhere(conn)
  BY <1>1, Reading DEF TakeVerdict, Elsewhere
<1>3. EcShape'
  BY <1>1, <1>2 DEF EcInv, EcShape
<1>4. UnopenedQuiet'
  BY <1>1, <1>2, UnopenedKept
<1>5. OneConnection'
  BY <1>1, <1>2 DEF EcInv, EcShape, OneConnection, Quiet, Connections
<1>6. InStep'
  BY <1>1 DEF EcInv, InStep, Labelled
<1>7. QED
  BY <1>1, <1>3, <1>4, <1>5, <1>6 DEF EcInv, Provenance, IsResults

\* A request goes out on a quiet connection, or gets lost where it was cut.
LEMMA AskInv ==
  ASSUME EcInv, NEW op, NEW keyword, Ask(op, keyword), UNCHANGED label
  PROVE  EcInv'
<1> DEFINE packet == [kind |-> "request", op |-> op, number |-> requests + 1, keyword |-> keyword]
<1>1. /\ stage = "idle" /\ stage' = "reply" /\ conn' = transport /\ conn = transport
      /\ transport \in Connections /\ transport <= opened
      /\ toDaemon[transport] = <<>> /\ toClient[transport] = <<>>
      /\ pending' = [op |-> op, number |-> requests + 1, keyword |-> keyword]
      /\ got' = NoReceipt
      /\ UNCHANGED <<password, transport, label, opened, session, toClient, searching, unsure>>
  BY EcClientAssumption DEF Ask, EcInv, EcShape, OneConnection, Quiet, Connections
<1>2. toDaemon' = With(toDaemon, transport,
                       IF session[transport] = "closed" THEN <<>> ELSE <<packet>>)
  BY <1>1 DEF Ask, With
<1>3. /\ Queues(toDaemon') /\ Elsewhere(transport)
      /\ toDaemon'[transport] = IF session[transport] = "closed" THEN <<>> ELSE <<packet>>
  BY <1>1, <1>2, QueuesUpdated DEF Elsewhere, EcInv, EcShape
<1>4. EcShape'
  BY <1>1, <1>3 DEF EcInv, EcShape
<1>5. UnopenedQuiet'
  BY <1>1, <1>3, UnopenedKept
<1>6. OneConnection'
  BY <1>1 DEF EcInv, EcShape, OneConnection, Connections
<1>7. InStep'
  <2>1. Asking' = packet
    BY <1>1 DEF Asking
  <2>2. Labelled
    BY <1>1 DEF EcInv, OneConnection, NoRequest, InStep
  <2>3. QED
    BY <1>1, <1>3, <2>1, <2>2 DEF InStep, Labelled, Quiet
<1>8. QED
  BY <1>1, <1>4, <1>5, <1>6, <1>7 DEF EcInv, Provenance, IsResults, NoReceipt

\* A reply that is read leaves the connection quiet.
LEMMA ConsumedInv ==
  ASSUME EcInv, stage = "reply", Arrived, Consumed,
         searching = label' \/ unsure', unsure' \in BOOLEAN,
         got'.asked = got'.answered, Provenance'
  PROVE  EcInv'
<1>1. /\ stage' = "idle" /\ pending' = NoRequest
      /\ toDaemon[conn] = <<>>
      /\ UNCHANGED <<password, transport, conn, opened, session, toDaemon, searching>>
  BY Arrival DEF Consumed
<1>2. /\ conn \in Connections /\ conn <= opened
      /\ Queues(toClient') /\ toClient'[conn] = <<>> /\ Elsewhere(conn)
  BY <1>1, Reading DEF Consumed, Elsewhere
<1>3. EcShape'
  BY <1>1, <1>2 DEF EcInv, EcShape
<1>4. UnopenedQuiet'
  BY <1>1, <1>2, UnopenedKept
<1>5. OneConnection'
  BY <1>1, <1>2 DEF EcInv, EcShape, OneConnection, Quiet
<1>6. InStep'
  BY <1>1 DEF InStep, Labelled
<1>7. QED
  BY <1>3, <1>4, <1>5, <1>6 DEF EcInv

LEMMA ReplyInv ==
  ASSUME EcInv, ReplyRefused \/ ReplyAccepted \/ ResultsAccepted
  PROVE  EcInv'
<1>1. stage = "reply" /\ Arrived /\ Consumed
  BY DEF ReplyRefused, ReplyAccepted, ResultsAccepted
<1>2. /\ Arriving.kind \in {Expected(pending.op), "FAILED", "ODD", "UNREADABLE"}
      /\ Arriving.number = pending.number
      /\ IF Arriving.kind = "STRINGS" THEN searching = pending.keyword ELSE Labelled
      /\ Arriving.kind = "RESULTS" => Arriving.keyword = label \/ unsure
  BY <1>1, Arrival DEF Answers
<1>3. unsure \in BOOLEAN
  BY DEF EcInv, EcShape
<1>4. CASE ReplyRefused
  <2>1. Arriving.kind # "STRINGS" \/ pending.op # "start"
    BY <1>4 DEF ReplyRefused, Expected, Answered
  <2>2. Labelled
    BY <1>2, <2>1 DEF EcInv, InStep
  <2>3. QED
    BY <1>1, <1>3, <1>4, <2>2, ConsumedInv DEF ReplyRefused, Labelled, EcInv, Provenance, IsResults
<1>5. CASE ReplyAccepted
  <2>1. /\ got' = [asked |-> pending.number, answered |-> Arriving.number]
        /\ label' = IF pending.op = "start" THEN pending.keyword ELSE label
        /\ unsure' = (unsure /\ pending.op # "start")
        /\ Arriving.kind = Expected(pending.op)
    BY <1>5 DEF ReplyAccepted
  <2>2. searching = label' \/ unsure'
    <3>1. CASE pending.op = "start"
      BY <1>2, <2>1, <3>1 DEF Expected
    <3>2. CASE pending.op # "start"
      BY <2>1, <3>2 DEF EcInv, InStep, Labelled
    <3>3. QED
      BY <3>1, <3>2
  <2>3. got'.asked = got'.answered /\ Provenance'
    BY <1>2, <2>1 DEF Provenance, IsResults
  <2>4. QED
    BY <1>1, <1>3, <2>1, <2>2, <2>3, ConsumedInv
<1>6. CASE ResultsAccepted
  <2>1. /\ got'.asked = pending.number /\ got'.answered = Arriving.number
        /\ got'.label = label /\ got'.keyword = Arriving.keyword /\ got'.unsure = unsure
        /\ UNCHANGED <<label, unsure>>
        /\ pending.op # "start" /\ Arriving.kind = "RESULTS"
    BY <1>6 DEF ResultsAccepted, Answered
  <2>2. Provenance'
    BY <1>2, <2>1 DEF Provenance
  <2>3. QED
    BY <1>1, <1>2, <1>3, <2>1, <2>2, ConsumedInv DEF EcInv, InStep, Labelled
<1>7. QED
  BY <1>4, <1>5, <1>6

LEMMA CloseInv ==
  ASSUME EcInv, Close
  PROVE  EcInv'
<1>1. /\ stage = "idle" /\ transport \in Connections /\ transport <= opened
      /\ conn = transport /\ transport' = 0
      /\ session' = [session EXCEPT ![transport] = "closed"]
      /\ toDaemon' = With(toDaemon, transport, <<>>)
      /\ toClient' = With(toClient, transport, <<>>)
      /\ UNCHANGED <<password, conn, stage, pending, label, opened, searching, unsure, got>>
  BY EcClientAssumption DEF Close, With, EcInv, EcShape, OneConnection, Connections
<1>2. /\ Queues(toDaemon') /\ Queues(toClient') /\ Elsewhere(transport)
  BY <1>1, QueuesUpdated DEF Elsewhere, EcInv, EcShape
<1>3. EcShape'
  BY <1>1, <1>2 DEF EcInv, EcShape
<1>4. UnopenedQuiet'
  BY <1>1, <1>2, UnopenedKept
<1>5. OneConnection'
  BY <1>1 DEF EcInv, EcShape, OneConnection
<1>6. InStep'
  BY <1>1 DEF EcInv, InStep, Labelled
<1>7. QED
  BY <1>1, <1>3, <1>4, <1>5, <1>6 DEF EcInv, Provenance, IsResults
\* amuled answers the packet of the call: one message comes back for it.
LEMMA AnsweredInv ==
  ASSUME EcInv, stage # "idle",
         toDaemon[conn] = <<Asking>>, toClient[conn] = <<>>,
         toDaemon' = With(toDaemon, conn, <<>>),
         NEW m, toClient' = With(toClient, conn, Append(toClient[conn], m)), Answers(m)',
         \/ session' = session
         \/ /\ stage # "reply"
            /\ \E s \in {"fresh", "salted", "open"} : session' = [session EXCEPT ![conn] = s],
         pending.op # "start" => searching' = label \/ unsure,
         UNCHANGED <<password, clientVars, unsure, got>>
  PROVE  EcInv'
<1>1. /\ UNCHANGED <<password, transport, conn, stage, pending, label, opened, unsure, got>>
      /\ conn \in Connections /\ conn <= opened
  BY OfCall DEF clientVars, EcInv, EcShape, Connections
<1>2. toClient' = With(toClient, conn, <<m>>)
  BY FirstAppended
<1>3. /\ Queues(toDaemon') /\ Queues(toClient')
      /\ toDaemon'[conn] = <<>> /\ toClient'[conn] = <<m>>
      /\ \A d \in Connections \ {conn} : toDaemon'[d] = toDaemon[d] /\ toClient'[d] = toClient[d]
  <2>1. Queues(toDaemon) /\ Queues(toClient)
    BY DEF EcInv, EcShape
  <2>2. QED
    BY <1>1, <1>2, <2>1, QueuesUpdated
<1>4. /\ session' \in [Connections -> {"closed", "fresh", "salted", "open"}]
      /\ \A d \in Connections \ {conn} : session'[d] = session[d]
      /\ stage = "reply" => session' = session
  BY <1>1 DEF EcInv, EcShape
<1>5. EcShape'
  BY <1>1, <1>3, <1>4 DEF EcInv, EcShape
<1>6. UnopenedQuiet'
  BY <1>1, <1>3, <1>4, UnopenedKept DEF Elsewhere
<1>7. OneConnection'
  BY <1>1, <1>4 DEF EcInv, EcShape, OneConnection
<1>8. InStep'
  BY <1>1, <1>3 DEF InStep, Labelled
<1>9. QED
  BY <1>1, <1>5, <1>6, <1>7, <1>8 DEF EcInv, Provenance, IsResults

LEMMA ServeInv ==
  ASSUME EcInv, NEW c \in Connections, Serve(c)
  PROVE  EcInv'
<1>1. c = conn /\ stage # "idle" /\ session[conn] # "closed" /\ toDaemon[conn] # <<>>
  BY DEF Serve, EcInv, OneConnection, Quiet, Connections
<1>2. toDaemon[conn] = <<Asking>> /\ toClient[conn] = <<>> /\ Labelled
  BY <1>1 DEF EcInv, InStep, Quiet
<1>3. Head(toDaemon[conn]) = Asking /\ Tail(toDaemon[conn]) = <<>>
  <2> HIDE DEF Asking
  <2>1. QED
    BY <1>2
<1>4. toDaemon' = With(toDaemon, conn, <<>>)
  <2>1. toDaemon' = With(toDaemon, conn, Tail(toDaemon[conn]))
    BY <1>1 DEF Serve, With
  <2>2. QED
    BY <1>3, <2>1
<1>5. UNCHANGED <<password, clientVars, unsure, got>>
  BY DEF Serve
<1>6. UNCHANGED <<stage, pending, label, conn, unsure, password>>
  BY <1>5 DEF clientVars
<1>7. \/ Challenge(conn, Asking) \/ Judge(conn, Asking) \/ Reject(conn, Asking)
      \/ Comply(conn, Asking) \/ SendResults(conn, Asking) \/ Refuse(conn, Asking)
  BY <1>1, <1>3 DEF Serve
<1>8. ASSUME NEW m, Reply(conn, m), Answers(m)', pending.op # "start" => searching' = label \/ unsure,
             \/ UNCHANGED session
             \/ stage # "reply" /\ \E s \in {"fresh", "salted", "open"} : Enter(conn, s)
      PROVE  EcInv'
  BY <1>1, <1>2, <1>4, <1>5, <1>8, AnsweredInv DEF Reply, Enter, With
<1>9. CASE stage = "salt"
  <2>1. Asking = [kind |-> "AUTH_REQ"]
    BY <1>9 DEF Asking
  <2>2. \E kind \in {"AUTH_SALT", "AUTH_FAIL", "UNREADABLE"} : Reply(conn, [kind |-> kind])
    BY <1>7, <2>1 DEF Challenge, Judge, Reject, Comply, SendResults, Refuse
  <2>3. UNCHANGED searching /\ \E s \in {"fresh", "salted", "open"} : Enter(conn, s)
    BY <1>7, <2>1 DEF Challenge, Judge, Reject, Comply, SendResults, Refuse
  <2>4. \A kind \in {"AUTH_SALT", "AUTH_FAIL", "UNREADABLE"} : Answers([kind |-> kind])'
    BY <1>6, <1>9 DEF Answers
  <2>5. QED
    BY <1>2, <1>8, <1>9, <2>2, <2>3, <2>4 DEF Labelled
<1>10. CASE stage = "verdict"
  <2>1. Asking = [kind |-> "AUTH_PASSWD", right |-> password = "right"]
    BY <1>10 DEF Asking
  <2>2. /\ UNCHANGED searching
        /\ \/ password = "right" /\ Reply(conn, [kind |-> "AUTH_OK"]) /\ Enter(conn, "open")
           \/ Enter(conn, "fresh") /\ \E kind \in {"AUTH_FAIL", "UNREADABLE"} : Reply(conn, [kind |-> kind])
    BY <1>7, <2>1 DEF Challenge, Judge, Reject, Comply, SendResults, Refuse
  <2>3. \A kind \in {"AUTH_FAIL", "UNREADABLE"} : Answers([kind |-> kind])'
    BY <1>6, <1>10 DEF Answers
  <2>4. ASSUME password = "right", Enter(conn, "open") PROVE Answers([kind |-> "AUTH_OK"])'
    <3>1. session'[conn] = "open"
      BY <1>1, <2>4 DEF Enter, EcInv, EcShape
    <3>2. QED
      BY <1>6, <1>10, <2>4, <3>1 DEF Answers
  <2>5. QED
    BY <1>2, <1>8, <1>10, <2>2, <2>3, <2>4 DEF Labelled
<1>11. CASE stage = "reply"
  <2>1. Asking = [kind |-> "request", op |-> pending.op, number |-> pending.number,
                  keyword |-> pending.keyword]
    BY <1>11 DEF Asking
  <2> DEFINE Result(frame) == [kind |-> "RESULTS", number |-> pending.number,
                               keyword |-> searching, frame |-> frame]
             Plain(kind) == [kind |-> kind, number |-> pending.number]
  <2>2. /\ UNCHANGED session
        /\ \/ /\ pending.op # "results" /\ Reply(conn, Plain(Expected(pending.op)))
              /\ searching' = IF pending.op = "start" THEN pending.keyword ELSE searching
           \/ /\ pending.op = "results" /\ UNCHANGED searching
              /\ \E p \in Packets : \E frame \in Frames(p) : Reply(conn, Result(frame))
           \/ /\ UNCHANGED searching
              /\ \E kind \in {"FAILED", "ODD", "UNREADABLE"} : Reply(conn, Plain(kind))
    BY <1>7, <2>1 DEF Challenge, Judge, Reject, Comply, SendResults, Refuse
  <2>3. ASSUME NEW m, m = Plain(Expected(pending.op)), pending.op # "results",
               searching' = IF pending.op = "start" THEN pending.keyword ELSE searching
        PROVE  Answers(m)'
    BY <1>2, <1>6, <1>11, <2>3 DEF Answers, Expected, Labelled
  <2>4. ASSUME NEW m, NEW frame, m = Result(frame), pending.op = "results", UNCHANGED searching
        PROVE  Answers(m)'
    BY <1>2, <1>6, <1>11, <2>4 DEF Answers, Expected, Labelled
  <2>5. ASSUME NEW m, NEW kind \in {"FAILED", "ODD", "UNREADABLE"}, m = Plain(kind),
               UNCHANGED searching
        PROVE  Answers(m)'
    BY <1>2, <1>6, <1>11, <2>5 DEF Answers, Labelled
  <2> HIDE DEF Result, Plain
  <2>6. QED
    BY <1>2, <1>8, <2>2, <2>3, <2>4, <2>5 DEF Labelled
<1>12. QED
  BY <1>1, <1>9, <1>10, <1>11 DEF EcInv, EcShape

\* A cut loses what was on its way to amuled, never what came back.
LEMMA CutInv ==
  ASSUME EcInv, NEW c \in Connections, Cut(c)
  PROVE  EcInv'
<1>1. /\ c = conn /\ conn <= opened
      /\ UNCHANGED <<password, transport, conn, stage, pending, label, opened, toClient,
                     searching, unsure, got>>
  BY DEF Cut, clientVars, EcInv, EcShape, OneConnection, Connections
<1>2. /\ Queues(toDaemon') /\ toDaemon'[conn] = <<>> /\ Elsewhere(conn)
      /\ session'[conn] = "closed"
      /\ session' \in [Connections -> {"closed", "fresh", "salted", "open"}]
  <2>1. toDaemon' = With(toDaemon, c, <<>>)
    BY DEF Cut, With
  <2>2. /\ session' = [session EXCEPT ![c] = "closed"]
        /\ session \in [Connections -> {"closed", "fresh", "salted", "open"}]
        /\ Queues(toDaemon)
    BY DEF Cut, EcInv, EcShape
  <2>3. /\ session'[conn] = "closed"
        /\ session' \in [Connections -> {"closed", "fresh", "salted", "open"}]
        /\ \A d \in Connections \ {conn} : session'[d] = session[d]
    BY <1>1, <2>2
  <2>4. QED
    BY <1>1, <2>1, <2>2, <2>3, QueuesUpdated DEF Elsewhere
<1>3. EcShape'
  BY <1>1, <1>2 DEF EcInv, EcShape
<1>4. UnopenedQuiet'
  BY <1>1, <1>2, UnopenedKept
<1>5. OneConnection'
  BY <1>1, <1>2 DEF EcInv, EcShape, OneConnection, Quiet, Elsewhere, Connections
<1>6. InStep'
  <2>1. ASSUME NEW m, stage # "idle", Answers(m) PROVE Answers(m)'
    BY <1>1, <1>2, <2>1 DEF Answers, Labelled, EcInv, EcShape
  <2>2. QED
    BY <1>1, <1>2, <2>1 DEF EcInv, InStep, Labelled, Quiet
<1>7. QED
  BY <1>1, <1>3, <1>4, <1>5, <1>6 DEF EcInv, Provenance, IsResults

-----------------------------------------------------------------------------
\* The invariant is inductive: one step per action of the client and of amuled.
LEMMA EcInvStep == EcInv /\ [EcNext]_ecVars => EcInv'
<1> SUFFICES ASSUME EcInv, [EcNext]_ecVars PROVE EcInv'
  OBVIOUS
<1>1. CASE HandshakeFails \/ Unreadable \/ TimesOut \/ FindsItCut
  BY <1>1, DroppedInv DEF HandshakeFails, Unreadable, TimesOut, FindsItCut
<1>2. CASE (\E keyword \in Keywords : StartSearch(keyword)) \/ FetchResults \/ AskOther
  BY <1>2, AskInv DEF StartSearch, FetchResults, AskOther
<1>3. CASE ReplyRefused \/ ReplyAccepted \/ ResultsAccepted
  BY <1>3, ReplyInv
<1>4. CASE \E c \in Connections : Serve(c) \/ Cut(c)
  BY <1>4, ServeInv, CutInv
<1>5. CASE UNCHANGED ecVars
  <2>1. UNCHANGED <<password, transport, conn, stage, pending, label, opened, session, toDaemon,
                    toClient, searching, unsure, got>>
    BY <1>5 DEF ecVars, clientVars, daemonVars
  <2>2. EcShape' /\ UnopenedQuiet' /\ OneConnection'
    BY <2>1 DEF EcInv, EcShape, UnopenedQuiet, OneConnection, Quiet
  <2>3. InStep'
    BY <2>1 DEF EcInv, InStep, Quiet, Asking, Answers, Labelled
  <2>4. QED
    BY <2>1, <2>2, <2>3 DEF EcInv, Provenance, IsResults
<1>6. QED
  BY <1>1, <1>2, <1>3, <1>4, <1>5, OpenTransportInv, TakeSaltInv, TakeVerdictInv, CloseInv
     DEF EcNext

\* A call has one packet under way at most, on the only connection that is open,
\* and what comes back answers it.
THEOREM EcInvariant == EcSpec => []EcInv
  BY EcInvInit, EcInvStep, PTL DEF EcSpec

\* No reply is taken for that of another request, whatever was late, cut, refused or
\* unreadable before; a connection the client keeps is authenticated and quiet.
THEOREM InSync == EcSpec => []Synchronised
<1>1. EcInv => Synchronised
  BY DEF EcInv, EcShape, OneConnection, Quiet, Synchronised
<1>2. QED
  BY <1>1, EcInvariant, PTL

\* Results carry the keyword of the search amuled gathered them for, unless the answer
\* to a search was lost.
THEOREM ResultsLabelled == EcSpec => []Provenance
<1>1. EcInv => Provenance
  BY DEF EcInv
<1>2. QED
  BY <1>1, EcInvariant, PTL

-----------------------------------------------------------------------------
(* Part two: the matching engine.                                          *)

-----------------------------------------------------------------------------
(* Numbers, finite sets and functions that are defined by recursion.  The  *)
(* inductions are over the smallest counterexample.                        *)

LEMMA SmallestNumber ==
  ASSUME NEW B \in SUBSET Nat, B # {}
  PROVE  \E n \in B : \A m \in B : n <= m
<1> DEFINE less == {p \in Nat \X Nat : p[1] < p[2]}
<1>1. IsWellFoundedOn(less, Nat)
  BY NatLessThanWellFounded DEF OpToRel
<1>2. PICK n \in B : \A m \in B : ~(<<m, n>> \in less)
  BY <1>1, WFMin
<1>3. ASSUME NEW m \in B PROVE n <= m
  <2>1. <<m, n>> \in Nat \X Nat /\ <<m, n>> \notin less
    BY <1>2
  <2>2. ~(m < n)
    BY <2>1
  <2>3. QED
    BY <2>2
<1>4. QED
  BY <1>3

\* A property of numbers that holds of zero and is passed on holds of all; those
\* it fails for are a set.
LEMMA NoSmallest ==
  ASSUME NEW B \in SUBSET Nat, 0 \notin B, \A n \in Nat : n \notin B => n + 1 \notin B
  PROVE  B = {}
<1>1. SUFFICES ASSUME B # {} PROVE FALSE
  OBVIOUS
<1>2. PICK n \in B : \A m \in B : n <= m
  BY <1>1, SmallestNumber
<1>3. n - 1 \in Nat /\ n - 1 \notin B
  BY <1>2
<1>4. QED
  BY <1>3

LEMMA SmallestIn ==
  ASSUME NEW B \in SUBSET Nat, B # {}
  PROVE  Min(B) \in B /\ \A m \in B : Min(B) <= m
<1>1. \E n \in B : \A m \in B : n <= m
  BY SmallestNumber
<1>2. QED
  BY <1>1 DEF Min

\* A set of numbers with a bound has a greatest one.
LEMMA GreatestIn ==
  ASSUME NEW B \in SUBSET Nat, B # {}, NEW bound \in Nat, \A n \in B : n <= bound
  PROVE  Max(B) \in B /\ \A m \in B : m <= Max(B)
<1> DEFINE Below == {bound - n : n \in B}
<1>1. Below \in SUBSET Nat /\ Below # {}
  <2>1. \A n \in B : bound - n \in Nat
    OBVIOUS
  <2>2. PICK n \in B : TRUE
    OBVIOUS
  <2>3. bound - n \in Below
    OBVIOUS
  <2>4. QED
    BY <2>1, <2>3
<1>2. PICK d \in Below : \A e \in Below : d <= e
  BY <1>1, SmallestNumber
<1>3. PICK n \in B : d = bound - n
  OBVIOUS
<1>4. \A m \in B : m <= n
  <2>1. SUFFICES ASSUME NEW m \in B PROVE m <= n
    OBVIOUS
  <2>2. bound - m \in Below
    OBVIOUS
  <2>3. d <= bound - m
    BY <1>2, <2>2
  <2>4. QED
    BY <1>3, <2>3
<1>5. \E x \in B : \A y \in B : x >= y
  BY <1>4
<1>6. QED
  BY <1>5 DEF Max

\* A finite family of sets has a greatest member: no other includes it.
LEMMA LargestSet ==
  ASSUME NEW S, IsFiniteSet(S), NEW F \in SUBSET SUBSET S, F # {}
  PROVE  \E T \in F : \A U \in F : T \subseteq U => U = T
<1> DEFINE Sizes == {Cardinality(T) : T \in F}
<1>1. \A T \in F : IsFiniteSet(T) /\ Cardinality(T) \in Nat /\ Cardinality(T) <= Cardinality(S)
  BY FS_Subset, FS_CardinalityType
<1>2. Sizes \in SUBSET Nat /\ Sizes # {} /\ Cardinality(S) \in Nat
  BY <1>1, FS_CardinalityType
<1>3. \A n \in Sizes : n <= Cardinality(S)
  BY <1>1
<1>4. Max(Sizes) \in Sizes /\ \A m \in Sizes : m <= Max(Sizes)
  <2> HIDE DEF Sizes
  <2>1. QED
    BY <1>2, <1>3, GreatestIn
<1>5. PICK T \in F : Cardinality(T) = Max(Sizes)
  BY <1>4
<1>6. ASSUME NEW U \in F, T \subseteq U PROVE U = T
  <2>1. Cardinality(U) <= Cardinality(T)
    BY <1>4, <1>5
  <2>2. Cardinality(T) <= Cardinality(U) /\ (Cardinality(U) = Cardinality(T) => U = T)
    BY <1>1, <1>6, FS_Subset
  <2>3. QED
    BY <1>1, <2>1, <2>2
<1>7. QED
  BY <1>6

\* What an element of a set rests on, when there is no cycle.
Grounded(S, below) == \A T \in SUBSET S : T # {} => \E x \in T : below[x] \cap T = {}

\* G gives the value at an element from the values of those it rests on.
Local(S, V, below, G) ==
  \A x \in S : \A g, h \in [S -> V] :
    (\A y \in below[x] \cap S : g[y] = h[y]) => G[<<x, g>>] = G[<<x, h>>]

Solves(S, G, f) == \A x \in S : f[x] = G[<<x, f>>]

\* Then the values can be given, and in one way only.
LEMMA SolutionExists ==
  ASSUME NEW S, IsFiniteSet(S), NEW V, V # {}, NEW below, NEW G \in [S \X [S -> V] -> V],
         Grounded(S, below), Local(S, V, below, G)
  PROVE  \E f \in [S -> V] : Solves(S, G, f)
<1> DEFINE Closed(T) == \A x \in T : below[x] \cap S \subseteq T
           Good == {T \in SUBSET S : Closed(T) /\ \E f \in [S -> V] : \A x \in T : f[x] = G[<<x, f>>]}
<1>1. {} \in Good
  <2>1. PICK v \in V : TRUE
    OBVIOUS
  <2>2. [x \in S |-> v] \in [S -> V]
    OBVIOUS
  <2>3. QED
    BY <2>2
<1>2. PICK T \in Good : \A U \in Good : T \subseteq U => U = T
  <2>1. Good \in SUBSET SUBSET S /\ Good # {}
    BY <1>1
  <2> HIDE DEF Good
  <2>2. QED
    BY <2>1, LargestSet
<1>3. PICK f \in [S -> V] : \A x \in T : f[x] = G[<<x, f>>]
  OBVIOUS
<1>4. S \ T = {}
  <2>1. SUFFICES ASSUME S \ T # {} PROVE FALSE
    OBVIOUS
  <2>2. PICK x \in S \ T : below[x] \cap (S \ T) = {}
    BY <2>1 DEF Grounded
  <2> DEFINE g == [f EXCEPT ![x] = G[<<x, f>>]]
             U == T \cup {x}
  <2>3. g \in [S -> V]
    OBVIOUS
  <2>4. below[x] \cap S \subseteq T /\ x \notin below[x]
    BY <2>2
  <2>5. Closed(U)
    BY <2>4
  <2>6. \A y \in T : below[y] \cap S \subseteq T
    OBVIOUS
  <2>7. \A y \in U : g[y] = G[<<y, g>>]
    <3>1. ASSUME NEW y \in T PROVE g[y] = G[<<y, g>>]
      <4>1. y \in S /\ y # x /\ g[y] = f[y] /\ f[y] = G[<<y, f>>]
        BY <1>3, <2>2
      <4>2. \A z \in below[y] \cap S : f[z] = g[z]
        BY <2>2, <2>6
      <4>3. G[<<y, f>>] = G[<<y, g>>]
        BY <2>3, <4>1, <4>2 DEF Local
      <4>4. QED
        BY <4>1, <4>3
    <3>2. g[x] = G[<<x, g>>]
      <4>1. \A z \in below[x] \cap S : f[z] = g[z]
        BY <2>4
      <4>2. G[<<x, f>>] = G[<<x, g>>]
        BY <2>3, <4>1 DEF Local
      <4>3. QED
        BY <4>2
    <3>3. QED
      BY <3>1, <3>2
  <2>8. U \in Good
    BY <2>3, <2>5, <2>7
  <2>9. U = T
    BY <1>2, <2>8
  <2>10. QED
    BY <2>9
<1>5. QED
  BY <1>3, <1>4 DEF Solves

LEMMA SolutionUnique ==
  ASSUME NEW S, NEW V, NEW below, NEW G \in [S \X [S -> V] -> V],
         Grounded(S, below), Local(S, V, below, G),
         NEW f \in [S -> V], NEW g \in [S -> V], Solves(S, G, f), Solves(S, G, g)
  PROVE  f = g
<1> DEFINE T == {x \in S : f[x] # g[x]}
<1>1. SUFFICES ASSUME T # {} PROVE FALSE
  OBVIOUS
<1>2. PICK x \in T : below[x] \cap T = {}
  BY <1>1 DEF Grounded
<1>3. \A y \in below[x] \cap S : f[y] = g[y]
  BY <1>2
<1>4. QED
  BY <1>2, <1>3 DEF Local, Solves
-----------------------------------------------------------------------------
(* The graph of tokens.                                                    *)

\* What the parser and the checks before the walk let through.
Checked(c) ==
  /\ WellNested(c)
  /\ ConfigParses(c)
  /\ ReferencesExist(c)
  /\ \A name \in c.tokens : Refs(c, name) \subseteq c.tokens
  /\ OverridesTargetCoverage(c)

\* The references of each token.
Graph(c) == [name \in c.tokens |-> Refs(c, name)]

Acyclic(c) == Grounded(c.tokens, Graph(c))

LEMMA CyclicOrAcyclic ==
  ASSUME NEW c, ~Acyclic(c)
  PROVE  Cyclic(c)
BY DEF Acyclic, Grounded, Cyclic, Graph

LEMMA AcyclicNotCyclic ==
  ASSUME NEW c, Acyclic(c)
  PROVE  ~Cyclic(c)
BY DEF Acyclic, Grounded, Cyclic, Graph

\* Chains of n tokens from one token.
ChainFrom(c, name, n) ==
  \E chain \in [1 .. n -> c.tokens] :
    /\ chain[1] = name
    /\ \A i \in 1 .. n - 1 : chain[i + 1] \in Refs(c, chain[i])

LEMMA ChainsGrow ==
  ASSUME NEW c, NEW n \in Nat, n # 0, NEW name \in c.tokens, NEW ref \in Refs(c, name),
         ChainFrom(c, ref, n)
  PROVE  ChainFrom(c, name, n + 1)
<1>1. PICK chain \in [1 .. n -> c.tokens] :
        /\ chain[1] = ref
        /\ \A i \in 1 .. n - 1 : chain[i + 1] \in Refs(c, chain[i])
  BY DEF ChainFrom
<1> DEFINE longer == [i \in 1 .. n + 1 |-> IF i = 1 THEN name ELSE chain[i - 1]]
<1>2. longer \in [1 .. n + 1 -> c.tokens] /\ longer[1] = name
  OBVIOUS
<1>3. \A i \in 1 .. (n + 1) - 1 : longer[i + 1] \in Refs(c, longer[i])
  <2>1. SUFFICES ASSUME NEW i \in 1 .. n PROVE longer[i + 1] \in Refs(c, longer[i])
    <3>1. (n + 1) - 1 = n
      OBVIOUS
    <3>2. QED
      BY <3>1
  <2>2. longer[i + 1] = chain[i]
    OBVIOUS
  <2>3. CASE i = 1
    BY <1>1, <2>2, <2>3
  <2>4. CASE i # 1
    <3>1. i - 1 \in 1 .. n - 1 /\ longer[i] = chain[i - 1] /\ (i - 1) + 1 = i
      BY <2>4
    <3>2. chain[i] \in Refs(c, chain[i - 1])
      BY <1>1, <3>1
    <3>3. QED
      BY <2>2, <3>1, <3>2
  <2>5. QED
    BY <2>3, <2>4
<1>4. QED
  BY <1>2, <1>3 DEF ChainFrom

LEMMA ChainsShrink ==
  ASSUME NEW c, NEW n \in Nat, n # 0, NEW name, ChainFrom(c, name, n + 1)
  PROVE  \E ref \in Refs(c, name) \cap c.tokens : ChainFrom(c, ref, n)
<1>1. PICK chain \in [1 .. n + 1 -> c.tokens] :
        /\ chain[1] = name
        /\ \A i \in 1 .. (n + 1) - 1 : chain[i + 1] \in Refs(c, chain[i])
  BY DEF ChainFrom
<1> DEFINE rest == [i \in 1 .. n |-> chain[i + 1]]
<1>2. rest \in [1 .. n -> c.tokens] /\ rest[1] = chain[2]
  OBVIOUS
<1>3. chain[2] \in Refs(c, name) \cap c.tokens
  <2>1. 1 \in 1 .. (n + 1) - 1 /\ 1 + 1 = 2 /\ 2 \in 1 .. n + 1
    OBVIOUS
  <2>2. QED
    BY <1>1, <2>1
<1>4. \A i \in 1 .. n - 1 : rest[i + 1] \in Refs(c, rest[i])
  <2>1. SUFFICES ASSUME NEW i \in 1 .. n - 1 PROVE rest[i + 1] \in Refs(c, rest[i])
    OBVIOUS
  <2>2. /\ i + 1 \in 1 .. (n + 1) - 1
        /\ rest[i] = chain[i + 1] /\ rest[i + 1] = chain[(i + 1) + 1]
    OBVIOUS
  <2>3. QED
    BY <1>1, <2>2
<1>5. QED
  BY <1>2, <1>3, <1>4 DEF ChainFrom

\* Around a cycle chains have any length.
LEMMA CyclesAreLong ==
  ASSUME NEW c, Cyclic(c), NEW n \in Nat
  PROVE  Chain(c, n + 1)
<1>1. PICK knot \in (SUBSET c.tokens) \ {{}} : \A name \in knot : Refs(c, name) \cap knot # {}
  BY DEF Cyclic
<1> DEFINE Fails == {k \in Nat : ~\A name \in knot : ChainFrom(c, name, k + 1)}
<1>2. 0 \notin Fails
  <2>1. SUFFICES ASSUME NEW name \in knot PROVE ChainFrom(c, name, 1)
    OBVIOUS
  <2> DEFINE chain == [i \in 1 .. 1 |-> name]
  <2>2. chain \in [1 .. 1 -> c.tokens] /\ chain[1] = name
    BY <1>1
  <2>3. \A i \in 1 .. 1 - 1 : FALSE
    OBVIOUS
  <2> HIDE DEF chain
  <2>4. QED
    BY <2>2, <2>3 DEF ChainFrom
<1>3. ASSUME NEW k \in Nat, k \notin Fails PROVE k + 1 \notin Fails
  <2>1. SUFFICES ASSUME NEW name \in knot PROVE ChainFrom(c, name, (k + 1) + 1)
    OBVIOUS
  <2>2. PICK ref \in Refs(c, name) : ref \in knot
    BY <1>1
  <2>3. ChainFrom(c, ref, k + 1)
    BY <1>3, <2>2
  <2>4. QED
    BY <2>3, ChainsGrow
<1>4. Fails = {}
  <2> HIDE DEF Fails
  <2>1. Fails \in SUBSET Nat
    BY DEF Fails
  <2>2. QED
    BY <1>2, <1>3, <2>1, NoSmallest
<1>5. PICK name \in knot : TRUE
  BY <1>1
<1>6. ChainFrom(c, name, n + 1)
  BY <1>4
<1>7. QED
  BY <1>6 DEF ChainFrom, Chain

\* What a function maps a finite set of arguments to has a bound.
LEMMA BoundedValues ==
  ASSUME NEW S, IsFiniteSet(S), NEW f \in [S -> Nat]
  PROVE  \E bound \in Nat : \A x \in S : f[x] <= bound
<1> DEFINE Bounded == {T \in SUBSET S : \E bound \in Nat : \A x \in T : f[x] <= bound}
<1>1. {} \in Bounded
  <2>1. 0 \in Nat
    OBVIOUS
  <2>2. QED
    BY <2>1
<1>2. PICK T \in Bounded : \A U \in Bounded : T \subseteq U => U = T
  <2>1. Bounded \in SUBSET SUBSET S /\ Bounded # {}
    BY <1>1
  <2> HIDE DEF Bounded
  <2>2. QED
    BY <2>1, LargestSet
<1>3. PICK bound \in Nat : \A x \in T : f[x] <= bound
  OBVIOUS
<1>4. ASSUME NEW x \in S, x \notin T PROVE FALSE
  <2> DEFINE higher == bound + f[x]
  <2>1. f[x] \in Nat /\ higher \in Nat /\ \A y \in T : f[y] \in Nat
    OBVIOUS
  <2>2. \A y \in T \cup {x} : f[y] <= higher
    BY <1>3, <2>1
  <2>3. T \cup {x} \in Bounded
    BY <2>1, <2>2
  <2>4. QED
    BY <1>2, <1>4, <2>3
<1>5. QED
  BY <1>3, <1>4

\* The greatest of them, or zero.
Greatest(f, R) == Max({0} \cup {f[x] : x \in R})

LEMMA GreatestValue ==
  ASSUME NEW S, IsFiniteSet(S), NEW f \in [S -> Nat], NEW R \in SUBSET S
  PROVE  /\ Greatest(f, R) \in Nat
         /\ \A x \in R : f[x] <= Greatest(f, R)
         /\ Greatest(f, R) = 0 \/ \E x \in R : f[x] = Greatest(f, R)
<1> DEFINE B == {0} \cup {f[x] : x \in R}
<1>1. PICK bound \in Nat : \A x \in S : f[x] <= bound
  BY BoundedValues
<1>2. B \in SUBSET Nat /\ B # {} /\ \A n \in B : n <= bound
  BY <1>1
<1>3. Max(B) \in B /\ \A m \in B : m <= Max(B)
  <2> HIDE DEF B
  <2>1. QED
    BY <1>2, GreatestIn
<1>4. QED
  BY <1>2, <1>3 DEF Greatest

\* The depths of the tokens: one more than the greatest of those below.
LEMMA DepthStep ==
  ASSUME NEW c, Checked(c), Acyclic(c)
  PROVE  /\ Depth(c) \in [c.tokens -> Nat]
         /\ \A name \in c.tokens : Depth(c)[name] = 1 + Greatest(Depth(c), Refs(c, name))
<1> DEFINE S == c.tokens
           G == [p \in S \X [S -> Nat] |-> 1 + Greatest(p[2], Refs(c, p[1]))]
           Equation(f) == f = [name \in S |-> 1 + Greatest(f, Refs(c, name))]
<1>1. IsFiniteSet(S) /\ \A name \in S : Refs(c, name) \in SUBSET S
  BY FS_Subset DEF Checked, WellNested
<1>2. \A name \in S, f \in [S -> Nat] : Greatest(f, Refs(c, name)) \in Nat
  BY <1>1, GreatestValue
<1>3. G \in [S \X [S -> Nat] -> Nat]
  BY <1>2
<1>4. Local(S, Nat, Graph(c), G)
  <2>1. SUFFICES ASSUME NEW x \in S, NEW g \in [S -> Nat], NEW h \in [S -> Nat],
                        \A y \in Refs(c, x) : g[y] = h[y]
                 PROVE  G[<<x, g>>] = G[<<x, h>>]
    <3>1. \A x \in S : Graph(c)[x] \cap S = Refs(c, x)
      BY <1>1 DEF Graph
    <3> HIDE DEF G
    <3>2. QED
      BY <3>1 DEF Local
  <2>2. {g[y] : y \in Refs(c, x)} = {h[y] : y \in Refs(c, x)}
    BY <2>1
  <2>3. Greatest(g, Refs(c, x)) = Greatest(h, Refs(c, x))
    BY <2>2 DEF Greatest
  <2>4. QED
    BY <2>3
<1>5. PICK f \in [S -> Nat] : Solves(S, G, f)
  <2> HIDE DEF G
  <2>1. Nat # {}
    OBVIOUS
  <2>2. QED
    BY <1>1, <1>3, <1>4, <2>1, SolutionExists DEF Acyclic
<1>6. Equation(f)
  <2>1. \A name \in S : f[name] = 1 + Greatest(f, Refs(c, name))
    BY <1>5 DEF Solves
  <2>2. QED
    BY <2>1
<1>7. Depth(c) = CHOOSE g : Equation(g)
  BY DEF Depth, Greatest
<1>8. Equation(Depth(c))
  <2> HIDE DEF Equation
  <2>1. QED
    BY <1>6, <1>7
<1> HIDE DEF G
<1> DEFINE d == Depth(c)
<1>9. \A name \in S : d[name] = 1 + Greatest(d, Refs(c, name))
  BY <1>8
<1>10. \A name \in S : d[name] \in Nat
  <2> DEFINE T == {name \in S : d[name] \notin Nat}
  <2>1. SUFFICES ASSUME T # {} PROVE FALSE
    OBVIOUS
  <2>2. PICK name \in T : Refs(c, name) \cap T = {}
    BY <2>1 DEF Acyclic, Grounded, Graph
  <2> DEFINE e == [x \in S |-> IF d[x] \in Nat THEN d[x] ELSE 0]
  <2>3. e \in [S -> Nat]
    OBVIOUS
  <2>4. {e[x] : x \in Refs(c, name)} = {d[x] : x \in Refs(c, name)}
    BY <1>1, <2>2
  <2>5. Greatest(d, Refs(c, name)) = Greatest(e, Refs(c, name))
    BY <2>4 DEF Greatest
  <2>6. Greatest(e, Refs(c, name)) \in Nat
    BY <1>2, <2>3
  <2>7. QED
    BY <1>9, <2>2, <2>5, <2>6
<1>11. QED
  BY <1>8, <1>9, <1>10

\* The depth of a token is the length of the longest chain from it.
LEMMA DepthIsChain ==
  ASSUME NEW c, Checked(c), Acyclic(c), NEW n \in Nat, NEW name \in c.tokens
  PROVE  ChainFrom(c, name, n + 1) <=> n + 1 <= Depth(c)[name]
<1> DEFINE d == Depth(c)
           Agree(k) == \A x \in c.tokens : ChainFrom(c, x, k + 1) <=> k + 1 <= d[x]
           Fails == {k \in Nat : ~Agree(k)}
<1>1. /\ d \in [c.tokens -> Nat]
      /\ \A x \in c.tokens : d[x] = 1 + Greatest(d, Refs(c, x))
  BY DepthStep
<1>2. IsFiniteSet(c.tokens) /\ \A x \in c.tokens : Refs(c, x) \in SUBSET c.tokens
  BY FS_Subset DEF Checked, WellNested
<1> HIDE DEF d
<1>3. ASSUME NEW x \in c.tokens
      PROVE  /\ Greatest(d, Refs(c, x)) \in Nat
             /\ \A ref \in Refs(c, x) : d[ref] <= Greatest(d, Refs(c, x))
             /\ Greatest(d, Refs(c, x)) = 0 \/ \E ref \in Refs(c, x) : d[ref] = Greatest(d, Refs(c, x))
  BY <1>1, <1>2, GreatestValue
<1>4. 0 \notin Fails
  <2>1. SUFFICES ASSUME NEW x \in c.tokens PROVE ChainFrom(c, x, 1) /\ 1 <= d[x]
    OBVIOUS
  <2> DEFINE chain == [i \in 1 .. 1 |-> x]
  <2>2. chain \in [1 .. 1 -> c.tokens] /\ chain[1] = x
    OBVIOUS
  <2>3. \A i \in 1 .. 1 - 1 : FALSE
    OBVIOUS
  <2> HIDE DEF chain
  <2>4. ChainFrom(c, x, 1)
    BY <2>2, <2>3 DEF ChainFrom
  <2>5. QED
    BY <1>1, <1>3, <2>4
<1>5. ASSUME NEW k \in Nat, k \notin Fails PROVE k + 1 \notin Fails
  <2>1. SUFFICES ASSUME NEW x \in c.tokens
                 PROVE  ChainFrom(c, x, (k + 1) + 1) <=> (k + 1) + 1 <= d[x]
    OBVIOUS
  <2>2. \A ref \in Refs(c, x) : ChainFrom(c, ref, k + 1) <=> k + 1 <= d[ref]
    BY <1>2, <1>5
  <2>3. ASSUME ChainFrom(c, x, (k + 1) + 1) PROVE (k + 1) + 1 <= d[x]
    <3>1. PICK ref \in Refs(c, x) \cap c.tokens : ChainFrom(c, ref, k + 1)
      <4>1. k + 1 \in Nat /\ k + 1 # 0
        OBVIOUS
      <4>2. QED
        BY ONLY <2>3, <4>1, ChainsShrink
    <3>2. k + 1 <= d[ref] /\ d[ref] <= Greatest(d, Refs(c, x)) /\ d[ref] \in Nat
      BY <1>1, <1>3, <2>2, <3>1
    <3>3. QED
      BY <1>1, <1>3, <3>2
  <2>4. ASSUME (k + 1) + 1 <= d[x] PROVE ChainFrom(c, x, (k + 1) + 1)
    <3>1. Greatest(d, Refs(c, x)) # 0 /\ k + 1 <= Greatest(d, Refs(c, x))
      BY <1>1, <1>3, <2>4
    <3>2. PICK ref \in Refs(c, x) : d[ref] = Greatest(d, Refs(c, x))
      BY <1>3, <3>1
    <3>3. ChainFrom(c, ref, k + 1)
      BY <2>2, <3>1, <3>2
    <3>4. QED
      BY <3>3, ChainsGrow
  <2>5. QED
    BY <2>3, <2>4
<1>6. Fails = {}
  <2> HIDE DEF Fails
  <2>1. Fails \in SUBSET Nat
    BY DEF Fails
  <2>2. QED
    BY <1>4, <1>5, <2>1, NoSmallest
<1>7. QED
  BY <1>6 DEF d

\* What validate_config finds after the walk.
LEMMA DepthExact ==
  ASSUME NEW c, Checked(c), Acyclic(c), NEW n \in Nat
  PROVE  Chain(c, n + 1) <=> MaxResolutionDepth(c) > n
<1>1. Chain(c, n + 1) <=> \E name \in c.tokens : ChainFrom(c, name, n + 1)
  <2>1. ASSUME Chain(c, n + 1) PROVE \E name \in c.tokens : ChainFrom(c, name, n + 1)
    <3>1. PICK chain \in [1 .. n + 1 -> c.tokens] :
            \A i \in 1 .. (n + 1) - 1 : chain[i + 1] \in Refs(c, chain[i])
      BY <2>1 DEF Chain
    <3>2. chain[1] \in c.tokens
      OBVIOUS
    <3>3. QED
      BY <3>1, <3>2 DEF ChainFrom
  <2>2. QED
    BY <2>1 DEF Chain, ChainFrom
<1>2. \A name \in c.tokens : ChainFrom(c, name, n + 1) <=> n + 1 <= Depth(c)[name]
  BY DepthIsChain
<1>3. Depth(c) \in [c.tokens -> Nat] /\ IsFiniteSet(c.tokens)
  BY DepthStep, FS_Subset DEF Checked, WellNested
<1>4. MaxResolutionDepth(c) = Greatest(Depth(c), c.tokens)
  BY DEF MaxResolutionDepth, Greatest
<1> DEFINE d == Depth(c)
           m == Greatest(Depth(c), c.tokens)
<1> HIDE DEF d
<1>5. /\ m \in Nat /\ \A x \in c.tokens : d[x] <= m
      /\ m = 0 \/ \E x \in c.tokens : d[x] = m
  BY <1>3, GreatestValue DEF d
<1>6. \A x \in c.tokens : d[x] \in Nat
  BY <1>3 DEF d
<1> HIDE DEF m
<1>7. (\E x \in c.tokens : n + 1 <= d[x]) <=> m > n
  BY <1>5, <1>6
<1>8. QED
  BY <1>1, <1>2, <1>4, <1>7 DEF d, m
-----------------------------------------------------------------------------
(* The walk.                                                               *)

\* The stack is a path; what is done is closed under references and without a
\* cycle; and a reference is done, still to be walked, or the next on the stack.
OnPath ==
  LET n == Len(stack) IN
  /\ stack \in Seq(config.tokens) /\ n <= MaxDepth
  /\ todo \in Seq(SUBSET config.tokens) /\ Len(todo) = n + 1
  /\ done \in SUBSET config.tokens
  /\ \A i \in 1 .. n - 1 : stack[i + 1] \in Refs(config, stack[i])
  /\ \A i \in 1 .. n : todo[i + 1] \subseteq Refs(config, stack[i])
  /\ \A i \in 1 .. n : \A ref \in Refs(config, stack[i]) :
       ref \in done \/ ref \in todo[i + 1] \/ (i < n /\ ref = stack[i + 1])
  /\ \A name \in config.tokens : name \in done \/ name \in todo[1] \/ (0 < n /\ name = stack[1])
  /\ \A name \in done : Refs(config, name) \subseteq done
  /\ Grounded(done, Graph(config))

GraphStages == {"walking", "cycle", "depth", "regex", "accepted"}

WalkInv ==
  /\ config \in RawConfigs /\ episodes \in RawTargets
  /\ loaded \in {"unread", "targets", "duplicate target", "schema", "unknown", "override"}
                  \cup GraphStages
  /\ loaded \in {"unread", "targets"} => stack = <<>> /\ done = {}
  /\ loaded \in {"targets"} \cup GraphStages => TargetsDistinct(Targets(episodes))
  /\ loaded \in GraphStages => Checked(config)
  /\ loaded = "walking" => OnPath
  /\ loaded = "cycle" => Cyclic(config)
  /\ loaded \in {"cycle", "depth"} => Chain(config, MaxDepth + 1)
  /\ loaded \in {"regex", "accepted"} => Acyclic(config) /\ ~Chain(config, MaxDepth + 1)

LEMMA Fronts ==
  ASSUME NEW S, NEW s \in Seq(S), s # <<>>
  PROVE  /\ Front(s) \in Seq(S) /\ Len(Front(s)) = Len(s) - 1 /\ Len(s) \in Nat \ {0}
         /\ \A i \in 1 .. Len(s) - 1 : Front(s)[i] = s[i]
<1>1. Len(s) \in Nat \ {0}
  OBVIOUS
<1>2. \A i \in 1 .. Len(s) - 1 : s[i] \in S
  OBVIOUS
<1>3. /\ SubSeq(s, 1, Len(s) - 1) \in Seq(S)
      /\ Len(SubSeq(s, 1, Len(s) - 1)) = Len(s) - 1
      /\ \A i \in 1 .. Len(s) - 1 : SubSeq(s, 1, Len(s) - 1)[i] = s[i]
  <2> DEFINE k == Len(s) - 1
  <2>1. k \in Int /\ k >= 0 /\ k - 1 + 1 = k
    BY <1>1
  <2> HIDE DEF k
  <2>2. /\ SubSeq(s, 1, k) \in Seq(S)
        /\ Len(SubSeq(s, 1, k)) = IF 1 <= k THEN k - 1 + 1 ELSE 0
        /\ \A i \in 1 .. k - 1 + 1 : SubSeq(s, 1, k)[i] = s[1 + i - 1]
    <3>1. \A i \in 1 .. k : s[i] \in S
      BY <1>2 DEF k
    <3>2. QED
      BY <2>1, <3>1, SubSeqProperties
  <2>3. Len(SubSeq(s, 1, k)) = k /\ \A i \in 1 .. k : SubSeq(s, 1, k)[i] = s[i]
    BY <2>1, <2>2
  <2>4. QED
    BY <2>2, <2>3 DEF k
<1>4. QED
  BY <1>1, <1>3 DEF Front

\* A token is done: the walk goes on below the one before it.
LEMMA LeaveInv ==
  ASSUME WalkInv, Leave
  PROVE  WalkInv'
<1> DEFINE n == Len(stack)
           last == stack[Len(stack)]
<1>1. /\ loaded = "walking" /\ stack # <<>> /\ todo[Len(todo)] = {}
      /\ done' = done \cup {last}
      /\ stack' = Front(stack) /\ todo' = Front(todo)
      /\ UNCHANGED <<config, episodes, loaded>>
  BY DEF Leave, fileVars
<1>2. OnPath /\ Checked(config)
  BY <1>1 DEF WalkInv, GraphStages
<1>3. /\ stack \in Seq(config.tokens) /\ n \in Nat \ {0} /\ n <= MaxDepth /\ MaxDepth \in Nat
      /\ todo \in Seq(SUBSET config.tokens) /\ Len(todo) = n + 1 /\ todo # <<>>
      /\ done \in SUBSET config.tokens /\ last \in config.tokens
  BY <1>1, <1>2, MatchingAssumption DEF OnPath
<1>4. /\ stack' \in Seq(config.tokens) /\ Len(stack') = n - 1
      /\ \A i \in 1 .. n - 1 : stack'[i] = stack[i]
      /\ todo' \in Seq(SUBSET config.tokens) /\ Len(todo') = n
      /\ \A i \in 1 .. n : todo'[i] = todo[i]
  <2>1. (n + 1) - 1 = n
    BY <1>3
  <2>2. /\ stack' \in Seq(config.tokens) /\ Len(stack') = n - 1
        /\ \A i \in 1 .. n - 1 : stack'[i] = stack[i]
    BY <1>1, <1>3, Fronts
  <2>3. /\ todo' \in Seq(SUBSET config.tokens) /\ Len(todo') = n
        /\ \A i \in 1 .. n : todo'[i] = todo[i]
    BY <1>1, <1>3, <2>1, Fronts
  <2>4. QED
    BY <2>2, <2>3
<1>5. Refs(config, last) \subseteq done /\ (todo[n + 1] = {})
  <2>1. \A ref \in Refs(config, stack[n]) : ref \in done \/ ref \in todo[n + 1]
    BY <1>2, <1>3 DEF OnPath
  <2>2. todo[n + 1] = {}
    BY <1>1, <1>3
  <2>3. QED
    BY <2>1, <2>2
<1>6. Grounded(done', Graph(config))
  <2>1. SUFFICES ASSUME NEW T \in SUBSET (done \cup {last}), T # {}
                 PROVE  \E x \in T : Graph(config)[x] \cap T = {}
    BY <1>1 DEF Grounded
  <2>2. CASE T \cap done # {}
    <3>1. PICK x \in T \cap done : Graph(config)[x] \cap (T \cap done) = {}
      BY <1>2, <2>2 DEF OnPath, Grounded
    <3>2. Graph(config)[x] \subseteq done
      BY <1>2, <1>3 DEF OnPath, Graph
    <3>3. QED
      BY <3>1, <3>2
  <2>3. CASE T \cap done = {}
    <3>1. T = {last}
      BY <2>1, <2>3
    <3>2. Graph(config)[last] \subseteq done
      BY <1>3, <1>5 DEF Graph
    <3>3. QED
      BY <2>3, <3>1, <3>2
  <2>4. QED
    BY <2>2, <2>3
<1>7. \A i \in 1 .. n - 1 - 1 : stack'[i + 1] \in Refs(config, stack'[i])
  <2>1. SUFFICES ASSUME NEW i \in 1 .. n - 1 - 1 PROVE stack'[i + 1] \in Refs(config, stack'[i])
    OBVIOUS
  <2>2. i \in 1 .. n - 1 /\ i + 1 \in 1 .. n - 1
    BY <1>3
  <2>3. QED
    BY <1>2, <1>4, <2>2 DEF OnPath
<1>8. /\ \A i \in 1 .. n - 1 : todo'[i + 1] \subseteq Refs(config, stack'[i])
      /\ \A i \in 1 .. n - 1 : \A ref \in Refs(config, stack'[i]) :
           ref \in done' \/ ref \in todo'[i + 1] \/ (i < n - 1 /\ ref = stack'[i + 1])
  <2>1. SUFFICES ASSUME NEW i \in 1 .. n - 1
                 PROVE  /\ todo'[i + 1] \subseteq Refs(config, stack'[i])
                        /\ \A ref \in Refs(config, stack'[i]) :
                             ref \in done' \/ ref \in todo'[i + 1] \/ (i < n - 1 /\ ref = stack'[i + 1])
    OBVIOUS
  <2>2. i \in 1 .. n /\ i + 1 \in 1 .. n /\ stack'[i] = stack[i] /\ todo'[i + 1] = todo[i + 1]
    BY <1>3, <1>4
  <2>3. \A ref \in Refs(config, stack[i]) :
          ref \in done \/ ref \in todo[i + 1] \/ ref = stack[i + 1]
    BY <1>2, <2>2 DEF OnPath
  <2>4. stack[i + 1] \in done' \/ (i < n - 1 /\ stack[i + 1] = stack'[i + 1])
    <3>1. CASE i = n - 1
      BY <1>1, <1>3, <3>1
    <3>2. CASE i # n - 1
      <4>1. i < n - 1 /\ i + 1 \in 1 .. n - 1
        BY <1>3, <3>2
      <4>2. QED
        BY <1>4, <4>1
    <3>3. QED
      BY <3>1, <3>2
  <2>5. todo[i + 1] \subseteq Refs(config, stack[i])
    BY <1>2, <2>2 DEF OnPath
  <2>6. QED
    BY <1>1, <2>2, <2>3, <2>4, <2>5
<1>9. \A name \in config.tokens : name \in done' \/ name \in todo'[1] \/ (0 < n - 1 /\ name = stack'[1])
  <2>1. \A name \in config.tokens : name \in done \/ name \in todo[1] \/ name = stack[1]
    BY <1>2 DEF OnPath
  <2>2. todo'[1] = todo[1]
    BY <1>3, <1>4
  <2>3. stack[1] \in done' \/ (0 < n - 1 /\ stack[1] = stack'[1])
    <3>1. CASE n = 1
      BY <1>1, <3>1
    <3>2. CASE n # 1
      BY <1>3, <1>4, <3>2
    <3>3. QED
      BY <3>1, <3>2
  <2>4. QED
    BY <1>1, <2>1, <2>2, <2>3
<1>10. \A name \in done' : Refs(config, name) \subseteq done'
  BY <1>1, <1>2, <1>5 DEF OnPath
<1>11. OnPath'
  <2>1. Len(stack') <= MaxDepth /\ Len(todo') = Len(stack') + 1
    BY <1>3, <1>4
  <2>2. done' \in SUBSET config.tokens
    BY <1>1, <1>3
  <2>3. QED
    BY <1>1, <1>4, <1>6, <1>7, <1>8, <1>9, <1>10, <2>1, <2>2 DEF OnPath
<1>12. QED
  BY <1>1, <1>11 DEF WalkInv, GraphStages

LEMMA InitInv ==
  ASSUME MatchingInit
  PROVE  WalkInv
BY DEF MatchingInit, WalkInv, GraphStages

LEMMA ReadTargetsInv ==
  ASSUME WalkInv, ReadTargets
  PROVE  WalkInv'
BY DEF ReadTargets, WalkInv, GraphStages, walkVars, fileVars

\* The walk starts above all tokens.
LEMMA ReadConfigInv ==
  ASSUME WalkInv, ReadConfig
  PROVE  WalkInv'
<1>1. /\ loaded = "targets" /\ stack = <<>> /\ done = {}
      /\ todo' = <<config.tokens>>
      /\ UNCHANGED <<config, episodes, stack, done>>
  BY DEF ReadConfig, WalkInv, fileVars
<1>2. config \in RawConfigs /\ episodes \in RawTargets /\ TargetsDistinct(Targets(episodes))
  BY <1>1 DEF WalkInv
<1>3. loaded' \in {"schema", "unknown", "override", "walking"}
  BY DEF ReadConfig
<1>4. ASSUME loaded' = "walking" PROVE Checked(config)
  <2>1. ConfigParses(config) /\ ReferencesExist(config) /\ OverridesTargetCoverage(config)
    BY <1>4 DEF ReadConfig
  <2>2. WellNested(config)
    BY <1>2, MatchingAssumption
  <2>3. ASSUME NEW name \in config.tokens PROVE Refs(config, name) \subseteq config.tokens
    <3>1. name \in DOMAIN config.defs
      BY <2>2 DEF WellNested
    <3>2. DefRefs(config.defs[name]) \subseteq AllRefs(config)
      BY <3>1 DEF AllRefs
    <3>3. QED
      BY <2>1, <3>2 DEF ReferencesExist, Refs
  <2>4. QED
    BY <2>1, <2>2, <2>3 DEF Checked
<1>5. OnPath'
  <2>1. /\ stack' = <<>> /\ Len(stack') = 0 /\ stack' \in Seq(config.tokens)
        /\ todo' \in Seq(SUBSET config.tokens) /\ Len(todo') = 1 /\ todo'[1] = config.tokens
        /\ done' = {} /\ config' = config
    <3>1. /\ <<config.tokens>> \in Seq(SUBSET config.tokens)
          /\ Len(<<config.tokens>>) = 1 /\ <<config.tokens>>[1] = config.tokens
      <4>1. ASSUME NEW S, NEW x \in S PROVE <<x>> \in Seq(S) /\ Len(<<x>>) = 1 /\ <<x>>[1] = x
        OBVIOUS
      <4>2. config.tokens \in SUBSET config.tokens
        OBVIOUS
      <4>3. QED
        BY <4>1, <4>2
    <3>2. <<>> \in Seq(config.tokens) /\ Len(<<>>) = 0
      OBVIOUS
    <3>3. QED
      BY <1>1, <3>1, <3>2
  <2>2. Grounded(done', Graph(config)')
    BY <2>1 DEF Grounded
  <2>3. QED
    BY <2>1, <2>2, MatchingAssumption DEF OnPath
<1>6. QED
  BY <1>1, <1>2, <1>3, <1>4, <1>5 DEF WalkInv, GraphStages

\* A path is a chain.
LEMMA PathIsChain ==
  ASSUME NEW c, NEW path \in Seq(c.tokens), \A i \in 1 .. Len(path) - 1 : path[i + 1] \in Refs(c, path[i])
  PROVE  Chain(c, Len(path))
<1>1. path \in [1 .. Len(path) -> c.tokens]
  OBVIOUS
<1>2. QED
  BY <1>1 DEF Chain

LEMMA WalkStepInv ==
  ASSUME WalkInv, NEW name \in config.tokens, Walk(name)
  PROVE  WalkInv'
<1> DEFINE n == Len(stack)
           rest == [todo EXCEPT ![Len(todo)] = @ \ {name}]
<1>1. /\ loaded = "walking" /\ name \in todo[Len(todo)]
      /\ UNCHANGED <<config, episodes, done>>
  BY DEF Walk, fileVars
<1>2. OnPath /\ Checked(config)
  BY <1>1 DEF WalkInv, GraphStages
<1>3. /\ stack \in Seq(config.tokens) /\ n \in Nat /\ n <= MaxDepth /\ MaxDepth \in Nat \ {0}
      /\ todo \in Seq(SUBSET config.tokens) /\ Len(todo) = n + 1
      /\ done \in SUBSET config.tokens
      /\ name \in todo[n + 1]
  BY <1>1, <1>2, MatchingAssumption DEF OnPath
<1>4. /\ rest \in Seq(SUBSET config.tokens) /\ Len(rest) = n + 1
      /\ \A i \in 1 .. n : rest[i] = todo[i]
      /\ rest[n + 1] = todo[n + 1] \ {name}
  <2>1. rest = [todo EXCEPT ![n + 1] = todo[n + 1] \ {name}]
    BY <1>3
  <2>2. todo[n + 1] \ {name} \in SUBSET config.tokens /\ n + 1 \in 1 .. Len(todo)
    BY <1>3
  <2>3. rest \in Seq(SUBSET config.tokens) /\ Len(rest) = Len(todo)
    <3>1. ASSUME NEW S, NEW s \in Seq(S), NEW i \in 1 .. Len(s), NEW e \in S
          PROVE  [s EXCEPT ![i] = e] \in Seq(S) /\ Len([s EXCEPT ![i] = e]) = Len(s)
      BY ExceptSeq
    <3>2. [todo EXCEPT ![n + 1] = todo[n + 1] \ {name}] \in Seq(SUBSET config.tokens)
      BY <1>3, <2>2, <3>1
    <3>3. Len([todo EXCEPT ![n + 1] = todo[n + 1] \ {name}]) = Len(todo)
      BY <1>3, <2>2, <3>1
    <3>4. QED
      BY <2>1, <3>2, <3>3
  <2>4. /\ \A i \in 1 .. n : rest[i] = todo[i]
        /\ rest[n + 1] = todo[n + 1] \ {name}
    BY <1>3, <2>1, <2>2
  <2>5. QED
    BY <1>3, <2>3, <2>4
<1>5. n # 0 => name \in Refs(config, stack[n])
  BY <1>2, <1>3 DEF OnPath
<1>6. CASE name \in done /\ todo' = rest /\ UNCHANGED <<loaded, stack>>
  <2>1. \A i \in 1 .. n : /\ todo'[i + 1] \subseteq todo[i + 1]
                          /\ todo[i + 1] \subseteq todo'[i + 1] \cup {name}
    <3>1. SUFFICES ASSUME NEW i \in 1 .. n
                   PROVE /\ todo'[i + 1] \subseteq todo[i + 1]
                         /\ todo[i + 1] \subseteq todo'[i + 1] \cup {name}
      OBVIOUS
    <3>2. CASE i = n
      BY <1>3, <1>4, <1>6, <3>2
    <3>3. CASE i # n
      <4>1. i + 1 \in 1 .. n
        BY <1>3, <3>3
      <4>2. QED
        BY <1>4, <1>6, <4>1
    <3>4. QED
      BY <3>2, <3>3
  <2>2. todo[1] \subseteq todo'[1] \cup {name}
    <3>1. CASE n = 0
      BY <1>4, <1>6, <3>1
    <3>2. CASE n # 0
      <4>1. 1 \in 1 .. n
        BY <1>3, <3>2
      <4>2. QED
        BY <1>4, <1>6, <4>1
    <3>3. QED
      BY <3>1, <3>2
  <2>3. \A i \in 1 .. n : todo'[i + 1] \subseteq Refs(config, stack[i])
    BY <1>2, <2>1 DEF OnPath
  <2>4. \A i \in 1 .. n : \A ref \in Refs(config, stack[i]) :
          ref \in done \/ ref \in todo'[i + 1] \/ (i < n /\ ref = stack[i + 1])
    <3>1. SUFFICES ASSUME NEW i \in 1 .. n, NEW ref \in Refs(config, stack[i])
                   PROVE  ref \in done \/ ref \in todo'[i + 1] \/ (i < n /\ ref = stack[i + 1])
      OBVIOUS
    <3>2. ref \in done \/ ref \in todo[i + 1] \/ (i < n /\ ref = stack[i + 1])
      BY <1>2 DEF OnPath
    <3>3. QED
      BY <1>6, <2>1, <3>2
  <2>5. \A token \in config.tokens : token \in done \/ token \in todo'[1] \/ (0 < n /\ token = stack[1])
    <3>1. SUFFICES ASSUME NEW token \in config.tokens
                   PROVE  token \in done \/ token \in todo'[1] \/ (0 < n /\ token = stack[1])
      OBVIOUS
    <3>2. token \in done \/ token \in todo[1] \/ (0 < n /\ token = stack[1])
      BY <1>2 DEF OnPath
    <3>3. QED
      BY <1>6, <2>2, <3>2
  <2>6. OnPath'
    <3>1. /\ stack' = stack /\ done' = done /\ config' = config
          /\ todo' \in Seq(SUBSET config.tokens) /\ Len(todo') = n + 1
      BY <1>1, <1>4, <1>6
    <3>2. QED
      BY <1>2, <2>3, <2>4, <2>5, <3>1 DEF OnPath, Graph, Refs
  <2>7. QED
    BY <1>1, <1>6, <2>6 DEF WalkInv, GraphStages
<1>7. CASE name \in ToSet(stack) /\ loaded' = "cycle"
  <2>1. PICK j \in 1 .. n : stack[j] = name
    BY <1>3, <1>7 DEF ToSet
  <2> DEFINE knot == {stack[k] : k \in j .. n}
  <2>2. knot \in (SUBSET config.tokens) \ {{}}
    <3>1. stack[j] \in knot
      BY <1>3, <2>1
    <3>2. \A k \in j .. n : stack[k] \in config.tokens
      BY <1>3, <2>1
    <3>3. QED
      BY <3>1, <3>2
  <2>3. ASSUME NEW k \in j .. n PROVE Refs(config, stack[k]) \cap knot # {}
    <3>1. CASE k = n
      BY <1>3, <1>5, <2>1, <3>1
    <3>2. CASE k # n
      <4>1. k \in 1 .. n - 1 /\ k + 1 \in j .. n
        BY <1>3, <2>1, <3>2
      <4>2. stack[k + 1] \in Refs(config, stack[k])
        BY <1>2, <4>1 DEF OnPath
      <4>3. QED
        BY <4>1, <4>2
    <3>3. QED
      BY <3>1, <3>2
  <2>4. Cyclic(config)
    <3>1. \A token \in knot : Refs(config, token) \cap knot # {}
      BY <2>3
    <3> HIDE DEF knot
    <3>2. QED
      BY <2>2, <3>1 DEF Cyclic
  <2>5. Chain(config, MaxDepth + 1)
    BY <1>3, <2>4, CyclesAreLong
  <2>6. QED
    BY <1>1, <1>2, <1>7, <2>4, <2>5 DEF WalkInv, GraphStages, Cyclic, Chain, Refs
<1>8. CASE Len(stack) >= MaxDepth /\ loaded' = "depth"
  <2> DEFINE path == Append(stack, name)
  <2>1. n = MaxDepth /\ n # 0
    BY <1>3, <1>8
  <2>2. path \in Seq(config.tokens) /\ Len(path) = n + 1
    BY <1>3
  <2>3. \A i \in 1 .. (n + 1) - 1 : path[i + 1] \in Refs(config, path[i])
    <3>1. SUFFICES ASSUME NEW i \in 1 .. n PROVE path[i + 1] \in Refs(config, path[i])
      BY <1>3
    <3>2. path[i] = stack[i]
      BY <1>3
    <3>3. CASE i = n
      BY <1>3, <1>5, <2>1, <3>2, <3>3
    <3>4. CASE i # n
      <4>1. i \in 1 .. n - 1 /\ i + 1 \in 1 .. n
        BY <1>3, <3>4
      <4>2. path[i + 1] = stack[i + 1] /\ stack[i + 1] \in Refs(config, stack[i])
        BY <1>2, <1>3, <4>1 DEF OnPath
      <4>3. QED
        BY <3>2, <4>2
    <3>5. QED
      BY <3>3, <3>4
  <2>4. Chain(config, MaxDepth + 1)
    BY <2>1, <2>2, <2>3, PathIsChain
  <2>5. QED
    BY <1>1, <1>2, <1>8, <2>4 DEF WalkInv, GraphStages, Chain, Refs
<1>9. CASE /\ name \notin done \cup ToSet(stack) /\ Len(stack) < MaxDepth
           /\ stack' = Append(stack, name) /\ todo' = Append(rest, Refs(config, name))
           /\ UNCHANGED loaded
  <2> DEFINE below == Refs(config, name)
  <2>1. below \subseteq config.tokens
    BY <1>2 DEF Checked
  <2>2. /\ stack' \in Seq(config.tokens) /\ Len(stack') = n + 1 /\ n + 1 <= MaxDepth
        /\ \A i \in 1 .. n : stack'[i] = stack[i]
        /\ stack'[n + 1] = name
    BY <1>3, <1>9
  <2>3. /\ todo' \in Seq(SUBSET config.tokens) /\ Len(todo') = (n + 1) + 1
        /\ \A i \in 1 .. n : todo'[i] = todo[i]
        /\ todo'[n + 1] = todo[n + 1] \ {name}
        /\ todo'[(n + 1) + 1] = below
    <3>1. /\ Append(rest, below) \in Seq(SUBSET config.tokens)
          /\ Len(Append(rest, below)) = (n + 1) + 1
          /\ \A i \in 1 .. n + 1 : Append(rest, below)[i] = rest[i]
          /\ Append(rest, below)[(n + 1) + 1] = below
      BY <1>3, <1>4, <2>1, AppendProperties
    <3>2. n + 1 \in 1 .. n + 1 /\ \A i \in 1 .. n : i \in 1 .. n + 1
      BY <1>3
    <3>3. QED
      BY <1>4, <1>9, <3>1, <3>2
  <2>4. \A i \in 1 .. (n + 1) - 1 : stack'[i + 1] \in Refs(config, stack'[i])
    <3>1. SUFFICES ASSUME NEW i \in 1 .. n PROVE stack'[i + 1] \in Refs(config, stack'[i])
      BY <1>3
    <3>2. CASE i = n
      BY <1>3, <1>5, <2>2, <3>2
    <3>3. CASE i # n
      <4>1. i \in 1 .. n - 1 /\ i + 1 \in 1 .. n
        BY <1>3, <3>3
      <4>2. stack[i + 1] \in Refs(config, stack[i])
        BY <1>2, <4>1 DEF OnPath
      <4>3. QED
        BY <2>2, <4>1, <4>2
    <3>4. QED
      BY <3>2, <3>3
  <2>5. \A i \in 1 .. n + 1 : todo'[i + 1] \subseteq Refs(config, stack'[i])
    <3>1. SUFFICES ASSUME NEW i \in 1 .. n + 1 PROVE todo'[i + 1] \subseteq Refs(config, stack'[i])
      OBVIOUS
    <3>2. CASE i = n + 1
      BY <2>2, <2>3, <3>2
    <3>3. CASE i # n + 1
      <4>1. i \in 1 .. n /\ (i = n \/ i + 1 \in 1 .. n)
        BY <1>3, <3>3
      <4>2. todo[i + 1] \subseteq Refs(config, stack[i])
        BY <1>2, <4>1 DEF OnPath
      <4>3. QED
        BY <2>2, <2>3, <4>1, <4>2
    <3>4. QED
      BY <3>2, <3>3
  <2>6. \A i \in 1 .. n + 1 : \A ref \in Refs(config, stack'[i]) :
          ref \in done \/ ref \in todo'[i + 1] \/ (i < n + 1 /\ ref = stack'[i + 1])
    <3>1. SUFFICES ASSUME NEW i \in 1 .. n + 1, NEW ref \in Refs(config, stack'[i])
                   PROVE  ref \in done \/ ref \in todo'[i + 1] \/ (i < n + 1 /\ ref = stack'[i + 1])
      OBVIOUS
    <3>2. CASE i = n + 1
      BY <2>2, <2>3, <3>2
    <3>3. CASE i = n
      <4>1. i \in 1 .. n /\ i < n + 1 /\ ~(i < n)
        BY <1>3, <3>3
      <4>2. ref \in done \/ ref \in todo[n + 1]
        BY <1>2, <2>2, <3>1, <3>3, <4>1 DEF OnPath
      <4>3. QED
        BY <2>2, <2>3, <3>3, <4>1, <4>2
    <3>4. CASE i # n + 1 /\ i # n
      <4>1. i \in 1 .. n /\ i + 1 \in 1 .. n /\ i < n + 1
        BY <1>3, <3>4
      <4>2. ref \in done \/ ref \in todo[i + 1] \/ ref = stack[i + 1]
        BY <1>2, <2>2, <3>1, <4>1 DEF OnPath
      <4>3. QED
        BY <2>2, <2>3, <4>1, <4>2
    <3>5. QED
      BY <3>2, <3>3, <3>4
  <2>7. \A token \in config.tokens : token \in done \/ token \in todo'[1] \/ (0 < n + 1 /\ token = stack'[1])
    <3>1. SUFFICES ASSUME NEW token \in config.tokens
                   PROVE  token \in done \/ token \in todo'[1] \/ (0 < n + 1 /\ token = stack'[1])
      OBVIOUS
    <3>2. token \in done \/ token \in todo[1] \/ (0 < n /\ token = stack[1])
      BY <1>2 DEF OnPath
    <3>3. CASE n = 0
      BY <2>2, <2>3, <3>2, <3>3
    <3>4. CASE n # 0
      <4>1. 1 \in 1 .. n /\ 0 < n + 1
        BY <1>3, <3>4
      <4>2. QED
        BY <2>2, <2>3, <3>2, <4>1
    <3>5. QED
      BY <3>3, <3>4
  <2>8. OnPath'
    <3>1. done' = done /\ config' = config /\ Graph(config)' = Graph(config)
      BY <1>1 DEF Graph, Refs
    <3>2. QED
      BY <1>2, <2>2, <2>3, <2>4, <2>5, <2>6, <2>7, <3>1 DEF OnPath
  <2>9. QED
    BY <1>1, <1>9, <2>8 DEF WalkInv, GraphStages
<1>10. QED
  BY <1>6, <1>7, <1>8, <1>9 DEF Walk

\* When the walk is over every token is done.
LEMMA FinishWalkInv ==
  ASSUME WalkInv, FinishWalk
  PROVE  WalkInv'
<1>1. /\ loaded = "walking" /\ stack = <<>> /\ todo = <<{}>>
      /\ UNCHANGED <<config, episodes, stack, todo, done>>
      /\ loaded' = IF MaxResolutionDepth(config) > MaxDepth THEN "depth"
                   ELSE IF ~RegexesCompile(config) THEN "regex"
                   ELSE "accepted"
  BY DEF FinishWalk, walkVars
<1>2. OnPath /\ Checked(config)
  BY <1>1 DEF WalkInv, GraphStages
<1>3. config.tokens = done
  <2>1. Len(stack) = 0 /\ todo[1] = {}
    BY <1>1
  <2>2. done \in SUBSET config.tokens
    BY <1>2 DEF OnPath
  <2>3. \A name \in config.tokens : name \in done \/ name \in todo[1] \/ (0 < Len(stack) /\ name = stack[1])
    BY <1>2 DEF OnPath
  <2>4. \A name \in config.tokens : name \in done
    BY <2>1, <2>3
  <2>5. QED
    BY <2>2, <2>4
<1>4. Acyclic(config)
  BY <1>2, <1>3 DEF OnPath, Acyclic
<1>5. Chain(config, MaxDepth + 1) <=> MaxResolutionDepth(config) > MaxDepth
  BY <1>2, <1>4, DepthExact, MatchingAssumption
<1>6. /\ loaded' \in {"depth", "regex", "accepted"}
      /\ loaded' = "depth" => MaxResolutionDepth(config) > MaxDepth
      /\ loaded' # "depth" => ~(MaxResolutionDepth(config) > MaxDepth)
  BY <1>1
<1>7. config' = config /\ episodes' = episodes
  BY <1>1
<1>8. QED
  BY <1>1, <1>2, <1>4, <1>5, <1>6, <1>7 DEF WalkInv, GraphStages

LEMMA WalkKept ==
  ASSUME WalkInv, UNCHANGED <<config, episodes, loaded, walkVars>>
  PROVE  WalkInv'
BY DEF WalkInv, OnPath, GraphStages, walkVars

\* The start-up, whatever it reads, is on its way through the graph of tokens as
\* WalkInv says, and ends it only for the reason it gives.
THEOREM WalkStaysOnPath == MatchingSpec => []WalkInv
<1>1. ASSUME WalkInv, [MatchingNext]_matchingVars PROVE WalkInv'
  <2>1. CASE ReadTargets
    BY <1>1, <2>1, ReadTargetsInv
  <2>2. CASE ReadConfig
    BY <1>1, <2>2, ReadConfigInv
  <2>3. ASSUME NEW name \in config.tokens, Walk(name) PROVE WalkInv'
    BY <1>1, <2>3, WalkStepInv
  <2>4. CASE Leave
    BY <1>1, <2>4, LeaveInv
  <2>5. CASE FinishWalk
    BY <1>1, <2>5, FinishWalkInv
  <2>6. ASSUME NEW f \in Files, Evaluate(f) PROVE WalkInv'
    BY <1>1, <2>6, WalkKept DEF Evaluate
  <2>7. CASE CompareTarget
    BY <1>1, <2>7, WalkKept DEF CompareTarget
  <2>8. CASE UNCHANGED matchingVars
    BY <1>1, <2>8, WalkKept DEF matchingVars
  <2>9. QED
    BY <1>1, <2>1, <2>2, <2>3, <2>4, <2>5, <2>6, <2>7, <2>8 DEF MatchingNext
<1>2. QED
  BY InitInv, <1>1, PTL DEF MatchingSpec

\* validate_config refuses exactly the graphs with a chain of more than max_depth
\* tokens, reports a cycle only where there is one, and accepts no other graph,
\* whatever the number of tokens and the order they are walked in.
THEOREM GraphChecksAreExact == MatchingSpec => []GraphChecksExact
<1>1. ASSUME WalkInv, loaded \in {"cycle", "depth", "regex", "accepted"}
      PROVE  (loaded \in {"cycle", "depth"}) = Chain(config, MaxDepth + 1)
  <2>1. Chain(config, MaxDepth + 1) \in BOOLEAN
    BY DEF Chain
  <2>2. CASE loaded \in {"cycle", "depth"}
    BY <1>1, <2>1, <2>2 DEF WalkInv
  <2>3. CASE loaded \in {"regex", "accepted"}
    <3>1. ~Chain(config, MaxDepth + 1)
      BY <1>1, <2>3 DEF WalkInv
    <3>2. loaded \notin {"cycle", "depth"}
      BY <2>3
    <3>3. QED
      BY <2>1, <3>1, <3>2
  <2>4. QED
    BY <1>1, <2>2, <2>3
<1>2. WalkInv => GraphChecksExact
  BY <1>1 DEF WalkInv, GraphChecksExact
<1>3. QED
  BY WalkStaysOnPath, <1>2, PTL
-----------------------------------------------------------------------------
(* What a matcher says of a file.                                          *)

\* The condition an operand stands for.
Denoted(name, operand) ==
  IF operand.kind = "condition" THEN <<name, operand.at>> ELSE <<operand.name, 1>>

\* What a condition is made of.
Below(c) ==
  [p \in Places(c) |->
     {q \in Places(c) :
        \E i \in DOMAIN c.defs[p[1]][p[2]].operands :
          /\ IsComposite(c.defs[p[1]][p[2]])
          /\ q = Denoted(p[1], c.defs[p[1]][p[2]].operands[i])}]

LEMMA PlacesOf ==
  ASSUME NEW c
  PROVE  /\ \A name \in DOMAIN c.defs : \A k \in DOMAIN c.defs[name] : <<name, k>> \in Places(c)
         /\ \A p \in Places(c) : /\ p[1] \in DOMAIN c.defs /\ p[2] \in DOMAIN c.defs[p[1]]
                                 /\ p = <<p[1], p[2]>>
BY DEF Places

LEMMA Sequences ==
  ASSUME NEW s, IsSequence(s)
  PROVE  Len(s) \in Nat /\ DOMAIN s = 1 .. Len(s)
<1>1. s \in Seq(Range(s))
  BY DEF IsSequence
<1> DEFINE S == Range(s)
<1> HIDE DEF S
<1>2. s \in Seq(S)
  BY <1>1 DEF S
<1>3. QED
  BY <1>2

\* The first condition of each definition is there.
LEMMA Definitions ==
  ASSUME NEW c, WellNested(c), NEW name \in DOMAIN c.defs
  PROVE  /\ Len(c.defs[name]) \in Nat \ {0}
         /\ DOMAIN c.defs[name] = 1 .. Len(c.defs[name])
         /\ 1 \in DOMAIN c.defs[name] /\ <<name, 1>> \in Places(c)
<1>1. IsSequence(c.defs[name]) /\ c.defs[name] # <<>>
  BY DEF WellNested
<1>2. Len(c.defs[name]) \in Nat /\ DOMAIN c.defs[name] = 1 .. Len(c.defs[name])
  BY <1>1, Sequences
<1>3. Len(c.defs[name]) # 0
  <2>1. c.defs[name] \in Seq(Range(c.defs[name]))
    BY <1>1 DEF IsSequence
  <2>2. QED
    BY <1>1, <2>1, EmptySeq, LenProperties
<1>4. 1 \in DOMAIN c.defs[name]
  BY <1>2, <1>3
<1>5. QED
  BY <1>2, <1>3, <1>4, PlacesOf

LEMMA PlacesFinite ==
  ASSUME NEW c, WellNested(c)
  PROVE  IsFiniteSet(Places(c))
<1> DEFINE Of(name) == {name} \X DOMAIN c.defs[name]
           D == DOMAIN c.defs
           All == {Of(name) : name \in D}
<1>1. IsFiniteSet(D)
  BY DEF WellNested
<1>2. \A name \in D : IsFiniteSet(Of(name))
  <2>1. SUFFICES ASSUME NEW name \in D PROVE IsFiniteSet({name} \X DOMAIN c.defs[name])
    OBVIOUS
  <2>2. Len(c.defs[name]) \in Nat /\ DOMAIN c.defs[name] = 1 .. Len(c.defs[name])
    BY Definitions
  <2>3. IsFiniteSet(1 .. Len(c.defs[name]))
    BY <2>2, FS_Interval
  <2>4. QED
    BY <2>2, <2>3, FS_Singleton, FS_Product
<1>3. IsFiniteSet(All)
  <2> DEFINE map == [name \in D |-> Of(name)]
  <2>1. map \in Surjection(D, All)
    BY DEF Surjection
  <2> HIDE DEF map, All
  <2>2. QED
    BY <1>1, <2>1, FS_Surjection
<1>4. \A T \in All : IsFiniteSet(T)
  BY <1>2
<1> HIDE DEF All
<1>5. IsFiniteSet(UNION All)
  BY <1>3, <1>4, FS_UNION
<1>6. QED
  BY <1>5 DEF All, Places

\* A key of one kind is the only one of that kind.
LEMMA OnlyKey ==
  ASSUME NEW Keys, IsFiniteSet(Keys), NEW node, Cardinality(node.keys \cap Keys) = 1
  PROVE  \A key, other \in node.keys \cap Keys : key = other
<1>1. IsFiniteSet(node.keys \cap Keys)
  BY FS_Subset
<1>2. \E x : node.keys \cap Keys = {x}
  BY <1>1, FS_Singleton
<1>3. QED
  BY <1>2

LEMMA Kinds ==
  ASSUME NEW node
  PROVE  /\ ConditionParses(node)
              => IsComposite(node) /\ \A key \in ConditionKeys : Kind(node) = key <=> key \in node.keys
         /\ LeafParses(node) /\ ~IsComposite(node) /\ "coverage" \in node.keys => Kind(node) = "coverage"
<1>1. IsFiniteSet(ConditionKeys) /\ IsFiniteSet(LeafKeys)
  <2>1. \A a, b : IsFiniteSet({a, b})
    <3>1. SUFFICES ASSUME NEW a, NEW b PROVE IsFiniteSet({a} \cup {b})
      OBVIOUS
    <3>2. QED
      BY FS_Singleton, FS_Union
  <2>2. IsFiniteSet({"all", "any"} \cup {"not"})
    BY <2>1, FS_Singleton, FS_Union
  <2>3. IsFiniteSet({"keyword", "regex"} \cup {"coverage", "attr_between"})
    BY <2>1, FS_Union
  <2>4. /\ ConditionKeys = {"all", "any"} \cup {"not"}
        /\ LeafKeys = {"keyword", "regex"} \cup {"coverage", "attr_between"}
    BY DEF ConditionKeys, LeafKeys
  <2>5. QED
    BY <2>2, <2>3, <2>4
<1>2. ASSUME ConditionParses(node)
      PROVE  IsComposite(node) /\ \A key \in ConditionKeys : Kind(node) = key <=> key \in node.keys
  <2>1. Cardinality(node.keys \cap ConditionKeys) = 1
    BY <1>2 DEF ConditionParses
  <2>2. \A key, other \in node.keys \cap ConditionKeys : key = other
    BY <1>1, <2>1, OnlyKey
  <2>3. node.keys \cap ConditionKeys # {}
    BY <2>1, FS_EmptySet
  <2>4. IsComposite(node)
    BY <2>3 DEF IsComposite
  <2>5. Kind(node) = CHOOSE key \in node.keys : key \in ConditionKeys
    BY <2>4 DEF Kind
  <2>6. Kind(node) \in node.keys \cap ConditionKeys
    BY <2>3, <2>5
  <2>7. QED
    BY <2>2, <2>4, <2>6
<1>3. ASSUME LeafParses(node), ~IsComposite(node), "coverage" \in node.keys
      PROVE  Kind(node) = "coverage"
  <2>1. Cardinality(node.keys \cap LeafKeys) = 1
    BY <1>3 DEF LeafParses
  <2>2. \A key, other \in node.keys \cap LeafKeys : key = other
    BY <1>1, <2>1, OnlyKey
  <2>3. Kind(node) = CHOOSE key \in node.keys : key \in LeafKeys
    BY <1>3 DEF Kind
  <2>4. "coverage" \in node.keys \cap LeafKeys
    BY <1>3 DEF LeafKeys
  <2>5. Kind(node) \in node.keys \cap LeafKeys
    BY <2>3, <2>4
  <2>6. QED
    BY <2>2, <2>4, <2>5
<1>4. QED
  BY <1>2, <1>3

\* The parser has seen every condition, and every leaf is a token.
LEMMA NodesParse ==
  ASSUME NEW c, Checked(c), NEW p \in Places(c)
  PROVE  LET node == c.defs[p[1]][p[2]] IN
         \/ ConditionParses(node)
         \/ LeafParses(node) /\ ~IsComposite(node) /\ p[2] = 1 /\ p[1] \in c.tokens
<1> DEFINE name == p[1]
           def == c.defs[name]
<1>1. WellNested(c) /\ ConfigParses(c)
  BY DEF Checked
<1>2. name \in DOMAIN c.defs /\ p[2] \in DOMAIN def
  BY PlacesOf
<1>3. CASE name \in c.tokens
  <2>1. TokenParses(def)
    BY <1>1, <1>3 DEF ConfigParses
  <2>2. CASE IsComposite(def[1])
    BY <1>2, <2>1, <2>2 DEF TokenParses
  <2>3. CASE ~IsComposite(def[1])
    <3>1. Len(def) = 1
      BY <1>1, <1>2, <2>3 DEF WellNested
    <3>2. p[2] = 1
      BY <1>1, <1>2, <3>1, Definitions
    <3>3. QED
      BY <1>3, <2>1, <2>3, <3>2 DEF TokenParses
  <2>4. QED
    BY <2>2, <2>3
<1>4. CASE name \notin c.tokens
  <2>1. PICK i \in DOMAIN c.rules : c.rules[i].condition = name
    BY <1>1, <1>2, <1>4 DEF WellNested
  <2>2. RuleParses(c, c.rules[i])
    BY <1>1 DEF ConfigParses
  <2>3. QED
    BY <1>2, <2>1, <2>2 DEF RuleParses
<1>5. QED
  BY <1>3, <1>4

\* What an operand of a condition may be.
LEMMA Operands ==
  ASSUME NEW c, Checked(c), NEW p \in Places(c), IsComposite(c.defs[p[1]][p[2]]),
         NEW i \in DOMAIN c.defs[p[1]][p[2]].operands
  PROVE  LET operand == c.defs[p[1]][p[2]].operands[i] IN
         /\ operand.kind \in {"name", "ref", "condition"}
         /\ Denoted(p[1], operand) \in Places(c) \cap Below(c)[p]
         /\ operand.kind = "condition" => operand.at > p[2]
         /\ operand.kind # "condition" => operand \in AllRefs(c) /\ operand.name \in c.tokens
         /\ operand.kind # "condition" /\ p[1] \in c.tokens => operand.name \in Refs(c, p[1])
<1> DEFINE name == p[1]
           node == c.defs[p[1]][p[2]]
           operand == node.operands[i]
<1>1. WellNested(c) /\ ReferencesExist(c)
  BY DEF Checked
<1>2. name \in DOMAIN c.defs /\ p[2] \in DOMAIN c.defs[name]
  BY PlacesOf
<1>3. ConditionParses(node)
  BY NodesParse
<1>4. operand.kind \in {"name", "ref", "condition"}
  BY <1>3 DEF ConditionParses, OperandParses
<1>5. ASSUME operand.kind = "condition"
      PROVE  operand.at \in DOMAIN c.defs[name] /\ operand.at > p[2]
  BY <1>1, <1>5 DEF WellNested
<1>6. ASSUME operand.kind # "condition"
      PROVE  /\ operand \in AllRefs(c) /\ operand.name \in c.tokens
             /\ name \in c.tokens => operand.name \in Refs(c, name)
  <2>1. operand \in DefRefs(c.defs[name])
    <3> DEFINE def == c.defs[name]
               here(n) == {n.operands[j] : j \in {j \in DOMAIN n.operands : n.operands[j].kind # "condition"}}
               nodes == {def[k] : k \in {k \in DOMAIN def : IsComposite(def[k])}}
    <3>1. node \in nodes
      BY <1>2
    <3>2. operand \in here(node)
      BY <1>6
    <3>3. DefRefs(def) = UNION {here(n) : n \in nodes}
      BY DEF DefRefs
    <3> HIDE DEF nodes, here, node, operand, def
    <3>4. operand \in DefRefs(def)
      BY <3>1, <3>2, <3>3
    <3>5. QED
      BY <3>4 DEF def
  <2>2. operand \in AllRefs(c)
    BY <1>2, <2>1 DEF AllRefs
  <2>3. QED
    BY <1>1, <2>1, <2>2 DEF ReferencesExist, Refs
<1>7. Denoted(name, operand) \in Places(c)
  <2>1. CASE operand.kind = "condition"
    BY <1>2, <1>5, <2>1, PlacesOf DEF Denoted
  <2>2. CASE operand.kind # "condition"
    <3>1. operand.name \in DOMAIN c.defs
      BY <1>1, <1>6, <2>2 DEF WellNested
    <3>2. QED
      BY <1>1, <2>2, <3>1, Definitions DEF Denoted
  <2>3. QED
    BY <2>1, <2>2
<1>8. Denoted(name, operand) \in Below(c)[p]
  BY <1>7 DEF Below
<1>9. QED
  BY <1>4, <1>5, <1>6, <1>7, <1>8

\* Conditions rest on later ones of their definition, and on tokens below.
LEMMA ConditionsGrounded ==
  ASSUME NEW c, Checked(c), Acyclic(c)
  PROVE  Grounded(Places(c), Below(c))
<1>1. SUFFICES ASSUME NEW T \in SUBSET Places(c), T # {}
               PROVE  \E x \in T : Below(c)[x] \cap T = {}
  BY DEF Grounded
<1> DEFINE N == {p[1] : p \in T}
<1>2. WellNested(c)
  BY DEF Checked
<1>3. \A q \in T : q[1] \in N /\ q[1] \in DOMAIN c.defs /\ q[2] \in DOMAIN c.defs[q[1]] /\ q = <<q[1], q[2]>>
  BY PlacesOf
<1>4. PICK name \in N : /\ name \in c.tokens \/ N \cap c.tokens = {}
                        /\ name \in c.tokens => Refs(c, name) \cap N = {}
  <2>1. CASE N \cap c.tokens = {}
    <3>1. PICK p \in T : TRUE
      BY <1>1
    <3>2. QED
      BY <1>3, <2>1, <3>1
  <2>2. CASE N \cap c.tokens # {}
    <3>1. N \cap c.tokens \in SUBSET c.tokens
      OBVIOUS
    <3>2. PICK name \in N \cap c.tokens : Graph(c)[name] \cap (N \cap c.tokens) = {}
      BY <2>2, <3>1 DEF Acyclic, Grounded
    <3>3. Refs(c, name) \subseteq c.tokens /\ Graph(c)[name] = Refs(c, name)
      BY <3>2 DEF Checked, Graph
    <3>4. QED
      BY <3>2, <3>3
  <2>3. QED
    BY <2>1, <2>2
<1> DEFINE K == {k \in DOMAIN c.defs[name] : <<name, k>> \in T}
<1>5. name \in DOMAIN c.defs
  BY <1>3
<1>6. PICK k \in K : \A m \in K : m <= k
  <2>1. K # {}
    <3>1. PICK p \in T : p[1] = name
      OBVIOUS
    <3>2. QED
      BY <1>3, <3>1
  <2>2. Len(c.defs[name]) \in Nat /\ DOMAIN c.defs[name] = 1 .. Len(c.defs[name])
    BY <1>2, <1>5, Definitions
  <2>3. K \in SUBSET Nat /\ \A n \in K : n <= Len(c.defs[name])
    BY <2>2
  <2> HIDE DEF K
  <2>4. Max(K) \in K /\ \A m \in K : m <= Max(K)
    BY <2>1, <2>2, <2>3, GreatestIn
  <2>5. QED
    BY <2>4
<1> DEFINE x == <<name, k>>
<1>7. x \in T /\ x \in Places(c) /\ x[1] = name /\ x[2] = k /\ k \in DOMAIN c.defs[name]
  BY <1>1, <1>6
<1>8. \A j \in DOMAIN c.defs[name] : j \in Int
  <2>1. Len(c.defs[name]) \in Nat /\ DOMAIN c.defs[name] = 1 .. Len(c.defs[name])
    BY <1>2, <1>5, Definitions
  <2>2. QED
    BY <2>1
<1>9. SUFFICES ASSUME NEW q \in Below(c)[x] \cap T PROVE FALSE
  BY <1>7
<1>10. PICK i \in DOMAIN c.defs[name][k].operands :
         IsComposite(c.defs[name][k]) /\ q = Denoted(name, c.defs[name][k].operands[i])
  BY <1>7, <1>9 DEF Below
<1> DEFINE operand == c.defs[name][k].operands[i]
<1>11. /\ operand.kind = "condition" => operand.at > k
       /\ operand.kind # "condition" => operand.name \in c.tokens
       /\ operand.kind # "condition" /\ name \in c.tokens => operand.name \in Refs(c, name)
  <2>1. c.defs[x[1]][x[2]] = c.defs[name][k]
    BY <1>7
  <2>2. QED
    BY <1>7, <1>10, <2>1, Operands
<1>12. CASE operand.kind = "condition"
  <2>1. q = <<name, operand.at>>
    BY <1>10, <1>12 DEF Denoted
  <2>2. operand.at \in K
    BY <1>3, <1>9, <2>1
  <2>3. operand.at \in Int /\ k \in Int
    BY <1>7, <1>8, <2>2
  <2>4. operand.at <= k /\ operand.at > k
    BY <1>6, <1>11, <1>12, <2>2
  <2>5. QED
    BY <2>3, <2>4
<1>13. CASE operand.kind # "condition"
  <2>1. q = <<operand.name, 1>>
    BY <1>10, <1>13 DEF Denoted
  <2>2. operand.name \in N
    BY <1>9, <2>1
  <2>3. QED
    BY <1>4, <1>11, <1>13, <2>2
<1>14. QED
  BY <1>12, <1>13

\* One condition of a file, when the others have the given truth values.
Said(c, matches, p, target, f) ==
  LET node == c.defs[p[1]][p[2]]
      matching == {i \in DOMAIN node.operands :
                     OperandMatches(c, matches, p[1], node.operands[i], target, f)}
  IN  IF IsComposite(node) THEN Combined(node, matching)
      ELSE LeafMatches(node, None, None, target, f)

SaidOf(c, target, f) ==
  [q \in Places(c) \X [Places(c) -> BOOLEAN] |-> Said(c, q[2], q[1], target, f)]

LEMMA SaidBoolean ==
  ASSUME NEW c, NEW target, NEW f, NEW matches, NEW p
  PROVE  Said(c, matches, p, target, f) \in BOOLEAN
BY DEF Said, Combined, LeafMatches

LEMMA SaidLocal ==
  ASSUME NEW c, Checked(c), NEW target, NEW f
  PROVE  Local(Places(c), BOOLEAN, Below(c), SaidOf(c, target, f))
<1> DEFINE S == Places(c)
<1>1. SUFFICES ASSUME NEW p \in S, NEW g \in [S -> BOOLEAN], NEW h \in [S -> BOOLEAN],
                      \A y \in Below(c)[p] \cap S : g[y] = h[y]
               PROVE  Said(c, g, p, target, f) = Said(c, h, p, target, f)
  BY DEF Local, SaidOf
<1> DEFINE node == c.defs[p[1]][p[2]]
<1>2. CASE ~IsComposite(node)
  BY <1>2 DEF Said
<1>3. CASE IsComposite(node)
  <2>1. ASSUME NEW i \in DOMAIN node.operands
        PROVE  OperandMatches(c, g, p[1], node.operands[i], target, f)
                 = OperandMatches(c, h, p[1], node.operands[i], target, f)
    <3>1. Denoted(p[1], node.operands[i]) \in Places(c) \cap Below(c)[p]
      BY <1>3, Operands
    <3>2. g[Denoted(p[1], node.operands[i])] = h[Denoted(p[1], node.operands[i])]
      BY <1>1, <3>1
    <3>3. QED
      BY <3>2 DEF OperandMatches, Denoted
  <2>2. {i \in DOMAIN node.operands : OperandMatches(c, g, p[1], node.operands[i], target, f)}
          = {i \in DOMAIN node.operands : OperandMatches(c, h, p[1], node.operands[i], target, f)}
    BY <2>1
  <2>3. QED
    BY <1>3, <2>2 DEF Said
<1>4. QED
  BY <1>2, <1>3

\* The matchers that _build_def builds are there, and say what their parts make them say.
LEMMA MatchesSolve ==
  ASSUME NEW c, Checked(c), Acyclic(c), NEW target, NEW f
  PROVE  /\ Matches(c, target, f) \in [Places(c) -> BOOLEAN]
         /\ Solves(Places(c), SaidOf(c, target, f), Matches(c, target, f))
<1> DEFINE S == Places(c)
           G == SaidOf(c, target, f)
           Equation(m) == m = [p \in S |-> Said(c, m, p, target, f)]
<1>1. G \in [S \X [S -> BOOLEAN] -> BOOLEAN]
  BY SaidBoolean DEF SaidOf
<1>2. PICK m \in [S -> BOOLEAN] : Solves(S, G, m)
  <2>1. IsFiniteSet(S) /\ Grounded(S, Below(c)) /\ Local(S, BOOLEAN, Below(c), G)
    BY PlacesFinite, ConditionsGrounded, SaidLocal DEF Checked
  <2>2. BOOLEAN # {}
    OBVIOUS
  <2> HIDE DEF G, S
  <2>3. QED
    BY <1>1, <2>1, <2>2, SolutionExists
<1>3. Equation(m)
  <2>1. \A p \in S : m[p] = Said(c, m, p, target, f)
    BY <1>2 DEF Solves, SaidOf
  <2>2. QED
    BY <2>1
<1>4. Matches(c, target, f) = CHOOSE g : Equation(g)
  BY DEF Matches, Said
<1>5. Equation(Matches(c, target, f))
  <2> HIDE DEF Equation
  <2>1. QED
    BY <1>3, <1>4
<1> DEFINE d == Matches(c, target, f)
<1>6. d \in [S -> BOOLEAN]
  BY <1>5, SaidBoolean
<1>7. \A p \in S : d[p] = Said(c, d, p, target, f)
  BY <1>5
<1>8. Solves(S, G, d)
  BY <1>6, <1>7 DEF Solves, SaidOf
<1>9. QED
  BY <1>6, <1>8

\* An operand says what the meaning of the file makes of it, when the leaves say
\* what they find in it.
LEMMA OperandsAgree ==
  ASSUME NEW c, Checked(c), NEW target, NEW f, NEW value \in [Places(c) -> BOOLEAN],
         \A q \in Places(c) : ~IsComposite(c.defs[q[1]][q[2]])
           => value[q] = LeafMatches(c.defs[q[1]][q[2]], None, None, target, f),
         NEW p \in Places(c), IsComposite(c.defs[p[1]][p[2]]),
         NEW i \in DOMAIN c.defs[p[1]][p[2]].operands
  PROVE  OperandMatches(c, value, p[1], c.defs[p[1]][p[2]].operands[i], target, f)
           <=> OperandTrue(c, value, p[1], c.defs[p[1]][p[2]].operands[i], target, f)
<1> DEFINE operand == c.defs[p[1]][p[2]].operands[i]
<1>1. /\ operand.kind # "condition" => operand \in AllRefs(c) /\ operand.name \in c.tokens
      /\ Denoted(p[1], operand) \in Places(c)
  BY Operands
<1>2. CASE operand.kind = "condition"
  BY <1>2 DEF OperandMatches, OperandTrue
<1>3. CASE operand.kind # "condition"
  <2> DEFINE leaf == c.defs[operand.name][1]
  <2>1. <<operand.name, 1>> \in Places(c)
    BY <1>1, <1>3 DEF Denoted
  <2>2. ~IsComposite(leaf) => value[<<operand.name, 1>>] = LeafMatches(leaf, None, None, target, f)
    BY <2>1
  <2>3. CASE operand.min = None /\ operand.fuzz = None
    <3>1. OperandTrue(c, value, p[1], operand, target, f) <=> value[<<operand.name, 1>>]
      BY <1>3, <2>3 DEF OperandTrue
    <3>2. CASE IsComposite(leaf)
      BY <1>3, <3>1, <3>2 DEF OperandMatches
    <3>3. CASE ~IsComposite(leaf)
      BY <1>3, <2>2, <2>3, <3>1, <3>3 DEF OperandMatches
    <3>4. QED
      BY <3>2, <3>3
  <2>4. CASE operand.min # None \/ operand.fuzz # None
    <3>1. ~IsComposite(leaf) /\ "coverage" \in leaf.keys
      BY <1>1, <1>3, <2>4 DEF Checked, OverridesTargetCoverage
    <3>2. Kind(leaf) = "coverage"
      <4>1. ConditionParses(leaf) \/ LeafParses(leaf)
        BY <2>1, NodesParse
      <4>2. QED
        BY <3>1, <4>1, Kinds
    <3>3. OperandMatches(c, value, p[1], operand, target, f)
            <=> CoverageMatches(target, Overridden(operand.min, leaf.min),
                                Overridden(operand.fuzz, Overridden(leaf.fuzz, DefaultFuzz)), f)
      BY <1>3, <3>1, <3>2 DEF OperandMatches, LeafMatches
    <3>4. OperandTrue(c, value, p[1], operand, target, f)
            <=> CoverageMatches(target, Overridden(operand.min, leaf.min),
                                Overridden(operand.fuzz, Overridden(leaf.fuzz, DefaultFuzz)), f)
      BY <1>3, <2>4 DEF OperandTrue, CoverageMatches, Overridden
    <3>5. QED
      BY <3>3, <3>4
  <2>5. QED
    BY <2>3, <2>4
<1>4. QED
  BY <1>2, <1>3

LEMMA ConditionsAgree ==
  ASSUME NEW c, Checked(c), NEW target, NEW f, NEW value \in [Places(c) -> BOOLEAN],
         \A q \in Places(c) : ~IsComposite(c.defs[q[1]][q[2]])
           => value[q] = LeafMatches(c.defs[q[1]][q[2]], None, None, target, f),
         NEW p \in Places(c)
  PROVE  Said(c, value, p, target, f) <=> ConditionTrue(c, value, p, target, f)
<1> DEFINE node == c.defs[p[1]][p[2]]
           matches(i) == OperandMatches(c, value, p[1], node.operands[i], target, f)
           matching == {i \in DOMAIN node.operands : matches(i)}
           true(i) == OperandTrue(c, value, p[1], node.operands[i], target, f)
<1>1. CASE ~IsComposite(node)
  BY <1>1 DEF Said, ConditionTrue
<1>2. CASE IsComposite(node)
  <2>1. \A i \in DOMAIN node.operands : matches(i) <=> true(i)
    BY <1>2, OperandsAgree
  <2>2. ConditionParses(node)
    BY <1>2, NodesParse
  <2>3. \A key \in ConditionKeys : Kind(node) = key <=> key \in node.keys
    BY <2>2, Kinds
  <2>4. /\ Kind(node) = "all" <=> "all" \in node.keys
        /\ Kind(node) = "any" <=> "any" \in node.keys
        /\ Kind(node) = "not" <=> "not" \in node.keys
    BY <2>3 DEF ConditionKeys
  <2>5. WellNested(c) /\ node.operands # <<>>
    BY <2>2 DEF Checked, ConditionParses
  <2>6. DOMAIN node.operands # {}
    <3>1. IsSequence(node.operands)
      BY <2>5 DEF WellNested
    <3>2. /\ node.operands \in Seq(Range(node.operands))
          /\ Len(node.operands) \in Nat /\ DOMAIN node.operands = 1 .. Len(node.operands)
      BY <3>1, Sequences DEF IsSequence
    <3>3. Len(node.operands) # 0
      BY <2>5, <3>2, EmptySeq, LenProperties
    <3>4. 1 \in DOMAIN node.operands
      BY <3>2, <3>3
    <3>5. QED
      BY <3>4
  <2>7. "not" \in node.keys => DOMAIN node.operands = {1}
    BY <2>5, <2>6 DEF WellNested
  <2>8. Said(c, value, p, target, f) <=> Combined(node, matching)
    BY <1>2 DEF Said
  <2>9. ConditionTrue(c, value, p, target, f)
          <=> \/ "all" \in node.keys /\ \A i \in DOMAIN node.operands : true(i)
              \/ "any" \in node.keys /\ \E i \in DOMAIN node.operands : true(i)
              \/ "not" \in node.keys /\ ~true(1)
    BY <1>2 DEF ConditionTrue
  <2> HIDE DEF true, matches, node
  <2>10. (matching = DOMAIN node.operands) <=> \A i \in DOMAIN node.operands : true(i)
    BY <2>1
  <2>11. (matching # {}) <=> \E i \in DOMAIN node.operands : true(i)
    BY <2>1
  <2>12. "not" \in node.keys => ((matching = {}) <=> ~true(1))
    BY <2>1, <2>7
  <2> HIDE DEF matching
  <2>13. Combined(node, matching)
           <=> \/ "all" \in node.keys /\ matching = DOMAIN node.operands
               \/ "any" \in node.keys /\ matching # {}
               \/ "not" \in node.keys /\ matching = {}
    BY <2>4 DEF Combined, node
  <2>14. QED
    BY <2>8, <2>9, <2>10, <2>11, <2>12, <2>13
<1>3. QED
  BY <1>1, <1>2

\* What the matchers say and what the file means are solutions of one equation.
LEMMA MeaningSolves ==
  ASSUME NEW c, Checked(c), NEW target, NEW f, NEW value \in [Places(c) -> BOOLEAN]
  PROVE  Agrees(c, value, target, f) <=> Solves(Places(c), SaidOf(c, target, f), value)
<1>1. \A p \in Places(c) : SaidOf(c, target, f)[<<p, value>>] = Said(c, value, p, target, f)
  BY DEF SaidOf
<1>2. ASSUME Agrees(c, value, target, f) PROVE Solves(Places(c), SaidOf(c, target, f), value)
  <2>1. \A q \in Places(c) : ~IsComposite(c.defs[q[1]][q[2]])
          => value[q] = LeafMatches(c.defs[q[1]][q[2]], None, None, target, f)
    BY <1>2 DEF Agrees, ConditionTrue, LeafMatches
  <2>2. \A p \in Places(c) : Said(c, value, p, target, f) <=> ConditionTrue(c, value, p, target, f)
    BY <2>1, ConditionsAgree
  <2>3. \A p \in Places(c) : value[p] = Said(c, value, p, target, f)
    <3>1. \A p \in Places(c) : value[p] = ConditionTrue(c, value, p, target, f)
      BY <1>2 DEF Agrees
    <3>2. \A p \in Places(c) : ConditionTrue(c, value, p, target, f) \in BOOLEAN
      BY DEF ConditionTrue
    <3>3. QED
      BY <2>2, <3>1, <3>2, SaidBoolean
  <2>4. QED
    BY <1>1, <2>3 DEF Solves
<1>3. ASSUME Solves(Places(c), SaidOf(c, target, f), value) PROVE Agrees(c, value, target, f)
  <2>1. \A p \in Places(c) : value[p] = Said(c, value, p, target, f)
    BY <1>1, <1>3 DEF Solves
  <2>2. \A q \in Places(c) : ~IsComposite(c.defs[q[1]][q[2]])
          => value[q] = LeafMatches(c.defs[q[1]][q[2]], None, None, target, f)
    BY <2>1 DEF Said
  <2>3. \A p \in Places(c) : Said(c, value, p, target, f) <=> ConditionTrue(c, value, p, target, f)
    BY <2>2, ConditionsAgree
  <2>4. \A p \in Places(c) : ConditionTrue(c, value, p, target, f) \in BOOLEAN
    BY DEF ConditionTrue
  <2>5. \A p \in Places(c) : value[p] = ConditionTrue(c, value, p, target, f)
    BY <2>1, <2>3, <2>4, SaidBoolean
  <2>6. QED
    BY <2>5 DEF Agrees
<1>4. QED
  BY <1>2, <1>3

\* A file that was accepted has one meaning: for each target and observed file
\* one set of truth values agrees with its conditions, and it is what the
\* matchers of the engine say, with references, overrides and nested conditions.
THEOREM OneMeaning ==
  ASSUME NEW c, Checked(c), Acyclic(c), NEW target, NEW f
  PROVE  /\ Matches(c, target, f) \in [Places(c) -> BOOLEAN]
         /\ Agrees(c, Matches(c, target, f), target, f)
         /\ \A value \in [Places(c) -> BOOLEAN] :
              Agrees(c, value, target, f) => value = Matches(c, target, f)
         /\ Truth(c, target, f) = Matches(c, target, f)
<1> DEFINE S == Places(c)
           G == SaidOf(c, target, f)
           m == Matches(c, target, f)
<1>1. m \in [S -> BOOLEAN] /\ Solves(S, G, m)
  BY MatchesSolve
<1>2. Agrees(c, m, target, f)
  BY <1>1, MeaningSolves
<1>3. ASSUME NEW value \in [S -> BOOLEAN], Agrees(c, value, target, f)
      PROVE  value = m
  <2>1. Solves(S, G, value)
    BY <1>3, MeaningSolves
  <2>2. /\ Grounded(S, Below(c)) /\ Local(S, BOOLEAN, Below(c), G)
        /\ G \in [S \X [S -> BOOLEAN] -> BOOLEAN]
    BY ConditionsGrounded, SaidLocal, SaidBoolean DEF SaidOf
  <2> HIDE DEF S, G, m
  <2>3. QED
    BY <1>1, <1>3, <2>1, <2>2, SolutionUnique
<1>4. Truth(c, target, f) = m
  <2> HIDE DEF m
  <2>1. QED
    BY <1>1, <1>2, <1>3 DEF Truth
<1>5. QED
  BY <1>1, <1>2, <1>3, <1>4
-----------------------------------------------------------------------------
(* The decision.                                                           *)

\* What the first k targets offer.
Offers(c, list, k, f) ==
  {<<FirstRule(c, list[t], f), list[t].id, RulesFired(c, list[t], f)>> :
     t \in {t \in 1 .. k : RulesFired(c, list[t], f) # {}}}

Decided(offer) == [target |-> offer[2], index |-> offer[1], fired |-> offer[3]]

Winner(c, offers, d) ==
  \/ d = NoDecision /\ offers = {}
  \/ \E won \in offers :
       /\ d = Decided(won)
       /\ \A offer \in offers \ {won} : Outranks(c, won[1], won[2], offer[1], offer[2])

\* The decision is the best of the targets that were compared.
DecisionInv ==
  /\ file = NoFile => decision = NoDecision
  /\ file # NoFile =>
       /\ loaded = "accepted"
       /\ compared \in 0 .. Len(Targets(episodes))
       /\ IF file.long THEN compared = Len(Targets(episodes)) /\ decision = NoDecision
          ELSE Winner(config, Offers(config, Targets(episodes), compared, file), decision)

\* The targets of a file are a list, with a number each.
LEMMA TargetsListed ==
  ASSUME NEW segments \in RawTargets
  PROVE  /\ Len(Targets(segments)) \in Nat
         /\ DOMAIN Targets(segments) = 1 .. Len(Targets(segments))
         /\ \A t \in 1 .. Len(Targets(segments)) : Targets(segments)[t].id \in Int
<1> DEFINE list == Targets(segments)
<1>1. /\ IsSequence(segments)
      /\ \A s \in DOMAIN segments : segments[s].number \in Int /\ segments[s].letter \in DOMAIN Upper
  BY MatchingAssumption
<1>2. Len(segments) \in Nat /\ DOMAIN segments = 1 .. Len(segments)
  BY <1>1, Sequences
<1>3. DOMAIN list = 1 .. Len(segments)
  BY <1>2 DEF Targets
<1>4. \A s \in DOMAIN segments : list[s].id = TargetId(segments[s])
  BY DEF Targets
<1>5. \A s \in DOMAIN segments : TargetId(segments[s]) \in Int
  <2>1. \A letter \in DOMAIN Upper : Upper[letter] \in Int
    BY DEF Upper
  <2>2. QED
    BY <1>1, <2>1 DEF TargetId
<1>6. Len(list) = Len(segments)
  BY <1>2, <1>3
<1>7. QED
  BY <1>2, <1>3, <1>4, <1>5, <1>6

LEMMA RulesListed ==
  ASSUME NEW c, Checked(c)
  PROVE  /\ Len(c.rules) \in Nat /\ DOMAIN c.rules = 1 .. Len(c.rules)
         /\ \A i \in DOMAIN c.rules : TIER_RANK[c.rules[i].tier] \in Nat
<1>1. IsSequence(c.rules)
  BY DEF Checked, WellNested
<1>2. \A i \in DOMAIN c.rules : c.rules[i].tier \in TIERS
  BY DEF Checked, ConfigParses, RuleParses
<1>3. \A tier \in TIERS : TIER_RANK[tier] \in Nat
  BY DEF TIERS, TIER_RANK
<1>4. QED
  BY <1>1, <1>2, <1>3, Sequences

LEMMA FirstRuleFires ==
  ASSUME NEW c, Checked(c), NEW target, NEW f, RulesFired(c, target, f) # {}
  PROVE  FirstRule(c, target, f) \in DOMAIN c.rules
<1>1. RulesFired(c, target, f) \in SUBSET DOMAIN c.rules
  BY DEF RulesFired
<1>2. DOMAIN c.rules \subseteq Nat
  BY RulesListed
<1>3. FirstRule(c, target, f) \in RulesFired(c, target, f)
  BY <1>1, <1>2, SmallestIn DEF FirstRule
<1>4. QED
  BY <1>1, <1>3

\* The ranking of offers of different targets is total and transitive.
LEMMA Ranking ==
  ASSUME NEW c, Checked(c),
         NEW i \in DOMAIN c.rules, NEW j \in DOMAIN c.rules, NEW k \in DOMAIN c.rules,
         NEW s \in Int, NEW t \in Int, NEW u \in Int
  PROVE  /\ s # t => Outranks(c, i, s, j, t) \/ Outranks(c, j, t, i, s)
         /\ Outranks(c, i, s, j, t) /\ Outranks(c, j, t, k, u) => Outranks(c, i, s, k, u)
<1> DEFINE rank(n) == TIER_RANK[c.rules[n].tier]
<1>1. /\ rank(i) \in Nat /\ rank(j) \in Nat /\ rank(k) \in Nat
      /\ i \in Int /\ j \in Int /\ k \in Int
  BY RulesListed
<1>2. /\ Outranks(c, i, s, j, t)
           <=> (rank(i) > rank(j)) \/ (rank(i) = rank(j) /\ i < j) \/ (rank(i) = rank(j) /\ i = j /\ s < t)
      /\ Outranks(c, j, t, i, s)
           <=> (rank(j) > rank(i)) \/ (rank(j) = rank(i) /\ j < i) \/ (rank(j) = rank(i) /\ j = i /\ t < s)
      /\ Outranks(c, j, t, k, u)
           <=> (rank(j) > rank(k)) \/ (rank(j) = rank(k) /\ j < k) \/ (rank(j) = rank(k) /\ j = k /\ t < u)
      /\ Outranks(c, i, s, k, u)
           <=> (rank(i) > rank(k)) \/ (rank(i) = rank(k) /\ i < k) \/ (rank(i) = rank(k) /\ i = k /\ s < u)
  BY DEF Outranks
<1> HIDE DEF rank
<1>3. s # t => Outranks(c, i, s, j, t) \/ Outranks(c, j, t, i, s)
  BY <1>1, <1>2
<1>4. Outranks(c, i, s, j, t) /\ Outranks(c, j, t, k, u) => Outranks(c, i, s, k, u)
  BY <1>1, <1>2
<1>5. QED
  BY <1>3, <1>4

\* One more target.
LEMMA OneMore ==
  ASSUME NEW c, Checked(c), NEW segments \in RawTargets, TargetsDistinct(Targets(segments)),
         NEW f, NEW k \in Nat, k < Len(Targets(segments)), NEW d, NEW e,
         Winner(c, Offers(c, Targets(segments), k, f), d),
         LET target == Targets(segments)[k + 1]
             fired == RulesFired(c, target, f)
             first == FirstRule(c, target, f) IN
         e = IF fired # {} /\ (d = NoDecision \/ Outranks(c, first, target.id, d.index, d.target))
             THEN [target |-> target.id, index |-> first, fired |-> fired] ELSE d
  PROVE  Winner(c, Offers(c, Targets(segments), k + 1, f), e)
<1> DEFINE list == Targets(segments)
           target == list[k + 1]
           fired == RulesFired(c, target, f)
           first == FirstRule(c, target, f)
           new == <<first, target.id, fired>>
           old == Offers(c, list, k, f)
           offers == Offers(c, list, k + 1, f)
<1>1. e = IF fired # {} /\ (d = NoDecision \/ Outranks(c, first, target.id, d.index, d.target))
          THEN Decided(new) ELSE d
  BY DEF Decided
<1>2. offers = IF fired # {} THEN old \cup {new} ELSE old
  <2> DEFINE offer(t) == <<FirstRule(c, list[t], f), list[t].id, RulesFired(c, list[t], f)>>
             firing(n) == {t \in 1 .. n : RulesFired(c, list[t], f) # {}}
  <2>1. old = {offer(t) : t \in firing(k)} /\ offers = {offer(t) : t \in firing(k + 1)}
    BY DEF Offers
  <2>2. firing(k + 1) = IF fired # {} THEN firing(k) \cup {k + 1} ELSE firing(k)
    <3>1. 1 .. k + 1 = (1 .. k) \cup {k + 1}
      OBVIOUS
    <3>2. QED
      BY <3>1
  <2>3. offer(k + 1) = new
    OBVIOUS
  <2> HIDE DEF offer, firing, fired, new, old, offers
  <2>4. QED
    BY <2>1, <2>2, <2>3
<1>3. /\ \A t \in 1 .. k + 1 : list[t].id \in Int
      /\ \A t \in 1 .. k : list[t].id # list[k + 1].id
  <2>1. /\ Len(list) \in Nat /\ DOMAIN list = 1 .. Len(list)
        /\ \A t \in 1 .. Len(list) : list[t].id \in Int
    BY TargetsListed
  <2>2. \A t, u \in DOMAIN list : list[t].id = list[u].id => t = u
    BY DEF TargetsDistinct, IsInjective
  <2> HIDE DEF list
  <2>3. k + 1 \in DOMAIN list /\ \A t \in 1 .. k : t \in DOMAIN list /\ t # k + 1
    <3>1. k < Len(list)
      BY DEF list
    <3>2. QED
      BY <2>1, <3>1
  <2>4. \A t \in 1 .. k + 1 : t \in 1 .. Len(list)
    BY <2>1, <2>3
  <2>5. QED
    BY <2>1, <2>2, <2>3, <2>4
<1>4. \A offer \in old : /\ offer[1] \in DOMAIN c.rules /\ offer[2] \in Int /\ offer[3] # {}
                         /\ offer[2] # target.id
  <2>1. SUFFICES ASSUME NEW offer \in old
                 PROVE  /\ offer[1] \in DOMAIN c.rules /\ offer[2] \in Int /\ offer[3] # {}
                        /\ offer[2] # target.id
    OBVIOUS
  <2>2. PICK t \in 1 .. k : /\ RulesFired(c, list[t], f) # {}
                            /\ offer = <<FirstRule(c, list[t], f), list[t].id, RulesFired(c, list[t], f)>>
    BY DEF Offers
  <2>3. FirstRule(c, list[t], f) \in DOMAIN c.rules
    BY <2>2, FirstRuleFires
  <2>4. list[t].id \in Int /\ list[t].id # target.id
    BY <1>3
  <2> HIDE DEF list, target
  <2>5. QED
    BY <2>2, <2>3, <2>4
<1>5. fired # {} => first \in DOMAIN c.rules
  BY FirstRuleFires
<1>6. target.id \in Int
  BY <1>3
<1>7. new[1] = first /\ new[2] = target.id /\ new[3] = fired
  OBVIOUS
<1> HIDE DEF list, target, fired, first, new, old, offers
<1>8. Winner(c, old, d)
  BY DEF old, list
<1>9. CASE fired = {}
  BY <1>1, <1>2, <1>8, <1>9 DEF offers, list
<1>10. CASE fired # {} /\ d = NoDecision
  <2>1. old = {}
    <3>1. SUFFICES ASSUME NEW won \in old, d = Decided(won) PROVE FALSE
      BY <1>8 DEF Winner
    <3>2. won[3] # {} /\ d.fired = won[3]
      BY <1>4, <3>1 DEF Decided
    <3>3. QED
      BY <1>10, <3>2 DEF NoDecision
  <2>2. offers = {new} /\ e = Decided(new)
    BY <1>1, <1>2, <1>10, <2>1
  <2>3. QED
    BY <2>2 DEF Winner, offers, list
<1>11. CASE fired # {} /\ d # NoDecision
  <2>1. PICK won \in old :
          /\ d = Decided(won)
          /\ \A offer \in old \ {won} : Outranks(c, won[1], won[2], offer[1], offer[2])
    BY <1>8, <1>11 DEF Winner
  <2>2. d.index = won[1] /\ d.target = won[2]
    BY <2>1 DEF Decided
  <2>3. CASE Outranks(c, first, target.id, won[1], won[2])
    <3>1. e = Decided(new)
      BY <1>1, <1>11, <2>2, <2>3
    <3>2. ASSUME NEW offer \in offers \ {new}
          PROVE  Outranks(c, new[1], new[2], offer[1], offer[2])
      <4>1. offer \in old
        BY <1>2, <1>11, <3>2
      <4>2. CASE offer = won
        BY <1>7, <2>3, <4>2
      <4>3. CASE offer # won
        <5>1. Outranks(c, won[1], won[2], offer[1], offer[2])
          BY <2>1, <4>1, <4>3
        <5>2. /\ won[1] \in DOMAIN c.rules /\ won[2] \in Int
              /\ offer[1] \in DOMAIN c.rules /\ offer[2] \in Int
          BY <1>4, <4>1
        <5>3. QED
          BY <1>5, <1>6, <1>7, <1>11, <2>3, <5>1, <5>2, Ranking
      <4>4. QED
        BY <4>2, <4>3
    <3>3. new \in offers
      BY <1>2, <1>11
    <3>4. QED
      BY <3>1, <3>2, <3>3 DEF Winner, offers, list
  <2>4. CASE ~Outranks(c, first, target.id, won[1], won[2])
    <3>1. e = d
      BY <1>1, <1>11, <2>2, <2>4
    <3>2. Outranks(c, won[1], won[2], new[1], new[2])
      <4>1. won[1] \in DOMAIN c.rules /\ won[2] \in Int /\ won[2] # target.id
        BY <1>4
      <4>2. QED
        BY <1>5, <1>6, <1>7, <1>11, <2>4, <4>1, Ranking
    <3>3. \A offer \in offers \ {won} : Outranks(c, won[1], won[2], offer[1], offer[2])
      BY <1>2, <1>11, <2>1, <3>2
    <3>4. won \in offers
      BY <1>2, <1>11
    <3>5. QED
      BY <2>1, <3>1, <3>3, <3>4 DEF Winner, offers, list
  <2>5. QED
    BY <2>3, <2>4
<1>12. QED
  BY <1>9, <1>10, <1>11

\* The condition of a rule is the one it is resolved to, when names differ.
LEMMA ResolvedAlone ==
  ASSUME NEW c, Checked(c), NamesDistinct(c), NEW i \in DOMAIN c.rules
  PROVE  ResolvedCondition(c, i) = c.rules[i].condition
<1>1. {j \in DOMAIN c.rules : c.rules[j].name = c.rules[i].name} = {i}
  BY DEF NamesDistinct, IsInjective
<1>2. i \in Nat
  BY RulesListed
<1>3. Max({i}) = i
  <2>1. {i} \in SUBSET Nat /\ {i} # {} /\ \A n \in {i} : n <= i
    BY <1>2
  <2>2. Max({i}) \in {i}
    BY <1>2, <2>1, GreatestIn
  <2>3. QED
    BY <2>2
<1>4. QED
  BY <1>1, <1>3 DEF ResolvedCondition

LEMMA FiredAreTrue ==
  ASSUME NEW c, Checked(c), Acyclic(c), NamesDistinct(c), NEW target, NEW f
  PROVE  TrueRules(c, target, f) = RulesFired(c, target, f)
<1>1. Truth(c, target, f) = Matches(c, target, f)
  BY OneMeaning
<1>2. \A i \in DOMAIN c.rules : ResolvedCondition(c, i) = c.rules[i].condition
  BY ResolvedAlone
<1>3. QED
  BY <1>1, <1>2 DEF TrueRules, RulesFired

\* When all targets were compared, the winner is the right decision.
LEMMA WinnerIsRight ==
  ASSUME NEW c, Checked(c), Acyclic(c), NamesDistinct(c), NEW segments \in RawTargets,
         NEW f, ~f.long, NEW d,
         Winner(c, Offers(c, Targets(segments), Len(Targets(segments)), f), d)
  PROVE  DecisionRight(c, Targets(segments), f, d)
<1> DEFINE list == Targets(segments)
           offer(target) == <<Min(TrueRules(c, target, f)), target.id, TrueRules(c, target, f)>>
           asked == {offer(target) : target \in {t \in ToSet(list) : TrueRules(c, t, f) # {}}}
           made == Offers(c, list, Len(list), f)
<1>1. \A target : TrueRules(c, target, f) = RulesFired(c, target, f)
  BY FiredAreTrue
<1>2. asked = made
  <2>1. \A target : offer(target) = <<FirstRule(c, target, f), target.id, RulesFired(c, target, f)>>
    BY <1>1 DEF FirstRule
  <2>2. ToSet(list) = {list[t] : t \in 1 .. Len(list)}
    BY TargetsListed DEF ToSet
  <2>3. asked = {offer(list[t]) : t \in {t \in 1 .. Len(list) : RulesFired(c, list[t], f) # {}}}
    <3> HIDE DEF list, offer
    <3>1. {t \in ToSet(list) : TrueRules(c, t, f) # {}}
            = {list[t] : t \in {t \in 1 .. Len(list) : RulesFired(c, list[t], f) # {}}}
      BY <1>1, <2>2
    <3>2. QED
      BY <3>1
  <2>4. QED
    BY <2>1, <2>3 DEF Offers
<1>3. DecisionRight(c, list, f, d)
        <=> \/ d = NoDecision /\ (f.long \/ asked = {})
            \/ \E won \in asked :
                 /\ ~f.long
                 /\ d = [target |-> won[2], index |-> won[1], fired |-> won[3]]
                 /\ \A other \in asked \ {won} : Outranks(c, won[1], won[2], other[1], other[2])
  BY DEF DecisionRight
<1> HIDE DEF asked, made
<1>4. Winner(c, made, d)
  BY DEF made
<1>5. QED
  BY <1>2, <1>3, <1>4 DEF Winner, Decided

LEMMA DecisionStep ==
  ASSUME WalkInv, DecisionInv, [MatchingNext]_matchingVars
  PROVE  DecisionInv'
<1>1. ASSUME loaded # "accepted", UNCHANGED fileVars PROVE DecisionInv'
  BY <1>1 DEF DecisionInv, fileVars
<1>2. CASE ReadTargets
  BY <1>1, <1>2 DEF ReadTargets
<1>3. CASE ReadConfig
  BY <1>1, <1>3 DEF ReadConfig
<1>4. ASSUME NEW name \in config.tokens, Walk(name) PROVE DecisionInv'
  BY <1>1, <1>4 DEF Walk
<1>5. CASE Leave
  BY <1>1, <1>5 DEF Leave
<1>6. CASE FinishWalk
  BY <1>1, <1>6 DEF FinishWalk
<1>7. ASSUME NEW f \in Files, Evaluate(f) PROVE DecisionInv'
  <2>1. /\ loaded = "accepted" /\ file = NoFile /\ file' = f
        /\ compared' = IF f.long THEN Len(Targets(episodes)) ELSE 0
        /\ UNCHANGED <<config, episodes, loaded, decision>>
    BY <1>7 DEF Evaluate
  <2>2. decision' = NoDecision
    BY <2>1 DEF DecisionInv
  <2>3. Len(Targets(episodes)) \in Nat
    BY TargetsListed DEF WalkInv
  <2>4. compared' \in 0 .. Len(Targets(episodes))
    BY <2>1, <2>3
  <2>5. CASE f.long
    BY <2>1, <2>2, <2>4, <2>5 DEF DecisionInv
  <2>6. CASE ~f.long
    <3>1. compared' = 0
      BY <2>1, <2>6
    <3>2. Offers(config, Targets(episodes), 0, f) = {}
      BY DEF Offers
    <3>3. Winner(config, Offers(config, Targets(episodes), 0, f), NoDecision)
      BY <3>2 DEF Winner
    <3>4. Winner(config, Offers(config, Targets(episodes), compared, file), decision)'
      <4>1. Winner(config', Offers(config', Targets(episodes'), compared', file'), decision')
        BY <2>1, <2>2, <3>1, <3>3
      <4>2. QED
        BY <4>1 DEF Winner, Offers, FirstRule, RulesFired
    <3>5. QED
      BY <2>1, <2>4, <2>6, <3>4 DEF DecisionInv
  <2>7. QED
    BY <2>5, <2>6
<1>8. CASE CompareTarget
  <2>1. /\ file # NoFile /\ compared < Len(Targets(episodes)) /\ compared' = compared + 1
        /\ UNCHANGED <<config, episodes, loaded, file>>
    BY <1>8 DEF CompareTarget
  <2>2. /\ loaded = "accepted" /\ compared \in 0 .. Len(Targets(episodes))
        /\ ~file.long
        /\ Winner(config, Offers(config, Targets(episodes), compared, file), decision)
    <3>1. Len(Targets(episodes)) \in Nat
      BY TargetsListed DEF WalkInv
    <3>2. QED
      BY <2>1, <3>1 DEF DecisionInv
  <2>3. Checked(config) /\ TargetsDistinct(Targets(episodes)) /\ episodes \in RawTargets
    BY <2>2 DEF WalkInv, GraphStages
  <2>4. Len(Targets(episodes)) \in Nat /\ compared \in Nat
    BY <2>2, <2>3, TargetsListed
  <2>5. Winner(config, Offers(config, Targets(episodes), compared + 1, file), decision')
    BY <1>8, <2>1, <2>2, <2>3, <2>4, OneMore DEF CompareTarget
  <2>6. QED
    BY <2>1, <2>2, <2>4, <2>5 DEF DecisionInv
<1>9. CASE UNCHANGED matchingVars
  BY <1>9 DEF DecisionInv, matchingVars, fileVars
<1>10. QED
  BY <1>2, <1>3, <1>4, <1>5, <1>6, <1>7, <1>8, <1>9 DEF MatchingNext

\* The loop over the targets keeps the best offer of those it has compared.
THEOREM BestSoFar == MatchingSpec => []DecisionInv
<1>1. MatchingInit => DecisionInv
  BY DEF MatchingInit, DecisionInv
<1>2. QED
  BY WalkStaysOnPath, <1>1, DecisionStep, PTL DEF MatchingSpec

\* When all targets were compared the decision is the first true rule of the
\* target that no other outranks: for any file of tokens and rules that was
\* accepted, any list of targets and any observed file.
THEOREM BestRuleAlwaysWins == MatchingSpec => []BestRuleWins
<1>1. ASSUME WalkInv, DecisionInv PROVE BestRuleWins
  <2>1. SUFFICES ASSUME file # NoFile, compared = Len(Targets(episodes)), NamesDistinct(config)
                 PROVE  DecisionRight(config, Targets(episodes), file, decision)
    BY DEF BestRuleWins
  <2>2. loaded = "accepted"
    BY <1>1, <2>1 DEF DecisionInv
  <2>3. Checked(config) /\ Acyclic(config) /\ episodes \in RawTargets
    BY <1>1, <2>2 DEF WalkInv, GraphStages
  <2>4. CASE file.long
    BY <1>1, <2>1, <2>4 DEF DecisionInv, DecisionRight
  <2>5. CASE ~file.long
    <3>1. Winner(config, Offers(config, Targets(episodes), Len(Targets(episodes)), file), decision)
      BY <1>1, <2>1, <2>5 DEF DecisionInv
    <3>2. QED
      BY <2>1, <2>3, <2>5, <3>1, WinnerIsRight
  <2>6. QED
    BY <2>4, <2>5
<1>2. QED
  BY WalkStaysOnPath, BestSoFar, <1>1, PTL
=============================================================================
