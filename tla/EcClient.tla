-------------------------------- MODULE EcClient --------------------------------
(***************************************************************************)
(* The client of amuled's external connection (client.py) over one TCP     *)
(* connection at a time (transport.py): the handshake, then one request    *)
(* and one reply, matched by their order alone.  Every loop of the crawler *)
(* owns such a client and calls it sequentially.                           *)
(*                                                                         *)
(* amuled serves what arrives on a connection in order.  It is external,   *)
(* and taken as the client uses it: it answers each packet once, late,     *)
(* with a failure, with an opcode nobody expects or with octets that no    *)
(* decoder accepts, or the connection is cut.                              *)
(*                                                                         *)
(* What the client makes of a frame is a parameter here; EcResults gives   *)
(* it the codec and the mapping of EcCodec.                                *)
(***************************************************************************)
EXTENDS Naturals, Sequences

CONSTANTS
  DecodeFrame(_),  \* decode: a failure (~ok), or a packet
  MapResults(_,_), \* map_search_results: observations and how many were skipped
  ResultsOpcode,   \* EC_OP_SEARCH_RESULTS
  Keywords,        \* what is searched for
  Packets,         \* bound: the packets of search results amuled sends
  Frames(_),       \* bound: what becomes of a packet on the wire
  MaxConnections,  \* bound: connections opened
  MaxRequests,     \* bound: requests sent
  MaxFaults        \* bound: timeouts and cuts

ASSUME EcClientAssumption ==
  MaxConnections \in Nat /\ MaxRequests \in Nat /\ MaxFaults \in Nat

VARIABLES
  password,   \* what the crawler is configured with: "right", "wrong" or "empty"
  transport,  \* the connection the client holds, or 0
  conn,       \* the connection of the call in progress, or 0
  stage,      \* what that call waits for: "idle", "salt", "verdict" or "reply"
  pending,    \* the request it has sent
  label,      \* _current_keyword
  opened,     \* how many connections there have been
  requests,   \* how many requests
  faults,     \* how many timeouts and cuts
  session,    \* amuled's side of each connection: "closed", "fresh", "salted" or "open"
  toDaemon,   \* packets on their way to amuled, for each connection
  toClient,   \* packets on their way back
  searching,  \* the keyword whose results amuled gathers
  unsure,     \* whether a search was sent whose answer was never read
  got         \* the reply accepted since the last request was sent, or NoReceipt

clientVars == <<transport, conn, stage, pending, label, opened, requests>>
daemonVars == <<session, toDaemon, toClient, searching>>
ecVars == <<password, clientVars, daemonVars, faults, unsure, got>>

Connections == 1 .. MaxConnections
NoKeyword == "none"
NoRequest == [op |-> "none", number |-> 0, keyword |-> NoKeyword]
NoReceipt == [asked |-> 0, answered |-> 0]

\* The opcode of the reply that goes with a request.
Expected(op) == CASE op = "start" -> "STRINGS" [] op = "results" -> "RESULTS" [] OTHER -> "MISC"

-----------------------------------------------------------------------------
EcInit ==
  /\ password \in {"right", "wrong", "empty"}
  /\ transport = 0 /\ conn = 0 /\ stage = "idle"
  /\ pending = NoRequest
  /\ label = NoKeyword
  /\ opened = 0 /\ requests = 0 /\ faults = 0
  /\ session = [c \in Connections |-> "closed"]
  /\ toDaemon = [c \in Connections |-> <<>>]
  /\ toClient = [c \in Connections |-> <<>>]
  /\ searching = NoKeyword
  /\ unsure = FALSE
  /\ got = NoReceipt

\* Mutation: the connection is kept after a request that failed.
DroppedRequestOnly ==
  /\ stage' = "idle"
  /\ pending' = NoRequest
  /\ transport' = IF stage = "reply" THEN transport ELSE 0
  /\ unsure' = (unsure \/ pending.op = "start")
  /\ UNCHANGED <<conn, label, opened, requests, daemonVars>>

\* The call in progress ends and the connection is closed.
Dropped ==
  /\ session' = [session EXCEPT ![conn] = "closed"]
  /\ toDaemon' = [toDaemon EXCEPT ![conn] = <<>>]
  /\ toClient' = [toClient EXCEPT ![conn] = <<>>]
  /\ transport' = 0 /\ conn' = 0 /\ stage' = "idle"
  /\ pending' = NoRequest
  /\ unsure' = (unsure \/ pending.op = "start")
  /\ UNCHANGED <<label, opened, requests, searching>>

-----------------------------------------------------------------------------
(* connect().                                                              *)

\* No connection is held: a new one is opened and AUTH_REQ sent.
OpenTransport ==
  /\ stage = "idle" /\ transport = 0
  /\ password # "empty"
  /\ opened < MaxConnections
  /\ opened' = opened + 1
  /\ conn' = opened + 1
  /\ stage' = "salt"
  /\ session' = [session EXCEPT ![opened + 1] = "fresh"]
  /\ toDaemon' = [toDaemon EXCEPT ![opened + 1] = <<[kind |-> "AUTH_REQ"]>>]
  /\ UNCHANGED <<password, transport, pending, label, requests, toClient, searching,
                 faults, unsure, got>>

Arrived == stage # "idle" /\ toClient[conn] # <<>>
Arriving == Head(toClient[conn])

\* The salt comes: the salted password goes out.
TakeSalt ==
  /\ stage = "salt" /\ Arrived /\ Arriving.kind = "AUTH_SALT"
  /\ toClient' = [toClient EXCEPT ![conn] = Tail(@)]
  /\ toDaemon' = [toDaemon EXCEPT ![conn] = Append(@, [kind |-> "AUTH_PASSWD", right |-> password = "right"])]
  /\ stage' = "verdict"
  /\ UNCHANGED <<password, transport, conn, pending, label, opened, requests, session,
                 searching, faults, unsure, got>>

TakeVerdict ==
  /\ stage = "verdict" /\ Arrived /\ Arriving.kind = "AUTH_OK"
  /\ toClient' = [toClient EXCEPT ![conn] = Tail(@)]
  /\ transport' = conn
  /\ stage' = "idle"
  /\ UNCHANGED <<password, conn, pending, label, opened, requests, session, toDaemon,
                 searching, faults, unsure, got>>

\* AUTH_FAIL, another opcode or an unreadable packet ends the handshake.
HandshakeFails ==
  /\ stage \in {"salt", "verdict"} /\ Arrived
  /\ Arriving.kind # (IF stage = "salt" THEN "AUTH_SALT" ELSE "AUTH_OK")
  /\ Dropped
  /\ UNCHANGED <<password, faults, got>>

-----------------------------------------------------------------------------
(* _request().                                                             *)

Ask(op, keyword) ==
  /\ stage = "idle" /\ transport # 0
  /\ requests < MaxRequests
  /\ requests' = requests + 1
  /\ pending' = [op |-> op, number |-> requests + 1, keyword |-> keyword]
  /\ conn' = transport
  /\ stage' = "reply"
  /\ toDaemon' = [toDaemon EXCEPT ![transport] =
       IF session[transport] = "closed" THEN @
       ELSE Append(@, [kind |-> "request", op |-> op, number |-> requests + 1, keyword |-> keyword])]
  /\ got' = NoReceipt
  /\ UNCHANGED <<password, transport, opened, session, toClient, searching, faults, unsure>>

\* Mutation: the label is set with the request.
StartSearchLabelled(keyword) == Ask("start", keyword) /\ label' = keyword

StartSearch(keyword) == Ask("start", keyword) /\ UNCHANGED label
FetchResults == Ask("results", NoKeyword) /\ UNCHANGED label
AskOther == Ask("other", NoKeyword) /\ UNCHANGED label

Consumed ==
  /\ toClient' = [toClient EXCEPT ![conn] = Tail(@)]
  /\ stage' = "idle"
  /\ pending' = NoRequest
  /\ UNCHANGED <<password, transport, conn, opened, requests, session, toDaemon, searching, faults>>

\* The frame of the results that were asked for, and what it decodes to.
Answered == pending.op = "results" /\ Arriving.kind = "RESULTS"
Decoded == DecodeFrame(Arriving.frame)

\* EC_OP_FAILED or an unexpected opcode: an error, but the stream is in order.
ReplyRefused ==
  /\ stage = "reply" /\ Arrived
  /\ \/ Arriving.kind \notin {Expected(pending.op), "UNREADABLE"}
     \/ Answered /\ Decoded.ok /\ Decoded.packet.opcode # ResultsOpcode
  /\ Consumed
  /\ UNCHANGED <<label, unsure, got>>

\* A start or another request succeeds; the label is set after a start.
ReplyAccepted ==
  /\ stage = "reply" /\ Arrived
  /\ pending.op # "results"
  /\ Arriving.kind = Expected(pending.op)
  /\ Consumed
  /\ label' = IF pending.op = "start" THEN pending.keyword ELSE label
  /\ unsure' = (unsure /\ pending.op # "start")
  /\ got' = [asked |-> pending.number, answered |-> Arriving.number]

\* The results are decoded and mapped.
ResultsAccepted ==
  /\ stage = "reply" /\ Arrived /\ Answered
  /\ Decoded.ok /\ Decoded.packet.opcode = ResultsOpcode
  /\ Consumed
  /\ LET packet == Decoded.packet
         mapped == MapResults(packet.tags, label)
     IN got' = [asked |-> pending.number, answered |-> Arriving.number,
                frame |-> Arriving.frame, packet |-> packet, observations |-> mapped.observations,
                skipped |-> mapped.skipped,
                label |-> label, keyword |-> Arriving.keyword, unsure |-> unsure]
  /\ UNCHANGED <<label, unsure>>

\* A packet that cannot be read: the connection goes.
Unreadable ==
  /\ stage = "reply" /\ Arrived
  /\ \/ Arriving.kind = "UNREADABLE"
     \/ Answered /\ ~Decoded.ok
  /\ Dropped
  /\ UNCHANGED <<password, faults, got>>

\* A read lasts too long, wherever the call is.
TimesOut ==
  /\ stage # "idle"
  /\ faults < MaxFaults
  /\ faults' = faults + 1
  /\ Dropped
  /\ UNCHANGED <<password, got>>

\* The connection turns out to be cut.
FindsItCut ==
  /\ stage # "idle" /\ session[conn] = "closed" /\ toClient[conn] = <<>>
  /\ Dropped
  /\ UNCHANGED <<password, faults, got>>

\* close(), by the client's owner.
Close ==
  /\ stage = "idle" /\ transport # 0
  /\ session' = [session EXCEPT ![transport] = "closed"]
  /\ toDaemon' = [toDaemon EXCEPT ![transport] = <<>>]
  /\ toClient' = [toClient EXCEPT ![transport] = <<>>]
  /\ transport' = 0
  /\ UNCHANGED <<password, conn, stage, pending, label, opened, requests, searching,
                 faults, unsure, got>>

-----------------------------------------------------------------------------
(* amuled.                                                                 *)

Reply(c, message) == toClient' = [toClient EXCEPT ![c] = Append(@, message)]
Enter(c, state) == session' = [session EXCEPT ![c] = state]

Challenge(c, packet) ==
  /\ packet.kind = "AUTH_REQ"
  /\ Reply(c, [kind |-> "AUTH_SALT"]) /\ Enter(c, "salted")
  /\ UNCHANGED searching

Judge(c, packet) ==
  /\ packet.kind = "AUTH_PASSWD"
  /\ IF packet.right THEN Reply(c, [kind |-> "AUTH_OK"]) /\ Enter(c, "open")
                     ELSE Reply(c, [kind |-> "AUTH_FAIL"]) /\ Enter(c, "fresh")
  /\ UNCHANGED searching

Reject(c, packet) ==
  /\ packet.kind \in {"AUTH_REQ", "AUTH_PASSWD"}
  /\ \E kind \in {"AUTH_FAIL", "UNREADABLE"} : Reply(c, [kind |-> kind])
  /\ Enter(c, "fresh")
  /\ UNCHANGED searching

Comply(c, packet) ==
  /\ packet.kind = "request" /\ packet.op # "results"
  /\ Reply(c, [kind |-> Expected(packet.op), number |-> packet.number])
  /\ searching' = IF packet.op = "start" THEN packet.keyword ELSE searching
  /\ UNCHANGED session

SendResults(c, packet) ==
  /\ packet.kind = "request" /\ packet.op = "results"
  /\ \E p \in Packets : \E frame \in Frames(p) :
       Reply(c, [kind |-> "RESULTS", number |-> packet.number, keyword |-> searching,
                 frame |-> frame])
  /\ UNCHANGED <<session, searching>>

Refuse(c, packet) ==
  /\ packet.kind = "request"
  /\ \E kind \in {"FAILED", "ODD", "UNREADABLE"} :
       Reply(c, [kind |-> kind, number |-> packet.number])
  /\ UNCHANGED <<session, searching>>

Serve(c) ==
  /\ session[c] # "closed" /\ toDaemon[c] # <<>>
  /\ toDaemon' = [toDaemon EXCEPT ![c] = Tail(@)]
  /\ LET packet == Head(toDaemon[c])
     IN \/ Challenge(c, packet) \/ Judge(c, packet) \/ Reject(c, packet)
        \/ Comply(c, packet) \/ SendResults(c, packet) \/ Refuse(c, packet)
  /\ UNCHANGED <<password, clientVars, faults, unsure, got>>

\* The connection is cut; what has arrived can still be read.
Cut(c) ==
  /\ session[c] # "closed"
  /\ faults < MaxFaults
  /\ faults' = faults + 1
  /\ session' = [session EXCEPT ![c] = "closed"]
  /\ toDaemon' = [toDaemon EXCEPT ![c] = <<>>]
  /\ UNCHANGED <<password, clientVars, toClient, searching, unsure, got>>

-----------------------------------------------------------------------------
EcNext ==
  \/ OpenTransport \/ TakeSalt \/ TakeVerdict \/ HandshakeFails
  \/ \E keyword \in Keywords : StartSearch(keyword)
  \/ FetchResults \/ AskOther
  \/ ReplyRefused \/ ReplyAccepted \/ ResultsAccepted \/ Unreadable
  \/ TimesOut \/ FindsItCut \/ Close
  \/ \E c \in Connections : Serve(c) \/ Cut(c)

EcSpec == EcInit /\ [][EcNext]_ecVars

-----------------------------------------------------------------------------
\* A connection the client holds is authenticated and in step: between two calls
\* nothing is under way on it, so the next reply is the next request's, and no
\* reply was ever taken for that of another request, whatever was late, cut,
\* refused or unreadable before (client.py: _request, connect).
Synchronised ==
  /\ got.asked = got.answered
  /\ transport # 0 => password = "right" /\ session[transport] \in {"open", "closed"}
  /\ transport # 0 /\ stage = "idle" => toDaemon[transport] = <<>> /\ toClient[transport] = <<>>
  /\ \A c \in Connections : session[c] # "closed" => c \in {transport, conn}

IsResults(receipt) == "observations" \in DOMAIN receipt

\* Observations carry the keyword of the search that amuled gathered them for,
\* unless a search was started since whose answer never came (client.py: the
\* label is set after the success; the order of the two matters when amuled
\* refuses a search and its results are fetched all the same).
Provenance ==
  IsResults(got) =>
    \/ got.label = got.keyword
    \/ got.unsure
=============================================================================
