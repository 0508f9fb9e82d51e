-------------------------------- MODULE EcResults --------------------------------
(***************************************************************************)
(* The client with the codec: what becomes of the results amuled sends, on *)
(* their way through the wire, the decoder and the mapping.                *)
(***************************************************************************)
EXTENDS EcCodec, EcClient

\* How deep the tags of a sequence go, and the paths of the tags an observation keeps.
RECURSIVE Depth(_), Paths(_)
Depth(tags) ==
  IF tags = <<>> THEN 0 ELSE 1 + Max({Depth(tags[i].children) : i \in DOMAIN tags})
IsShallow(packet) == Depth(packet.tags) <= MaxTagDepth
Payloads == [packet \in Packets |-> EncodePayload(packet)]
IsShort(packet) == Len(Payloads[packet]) <= MaxPayload

Paths(tags) ==
  UNION {IF tags[i].name = SEARCH_PARENT THEN {}
         ELSE {<<i>>} \cup {<<i>> \o path : path \in Paths(tags[i].children)} : i \in DOMAIN tags}
KeptPaths(tags) ==
  LET firsts == {CHOOSE i \in DOMAIN tags :
                   tags[i].name = name /\ \A j \in 1 .. i - 1 : tags[j].name # name :
                     name \in Mapped \cap {tags[i].name : i \in DOMAIN tags}}
  IN {path \in Paths(tags) : path[1] \notin firsts}

\* What the client reads is exactly what amuled sent: a packet is only accepted
\* if encoding it again gives the very octets of the frame, every well-formed
\* packet within the bounds on depth and size is accepted, and one level or one
\* octet beyond them is not (codec.py: TAGLEN counts the children with their
\* headers, no octet is left over or read twice).
FramesExact ==
  /\ IsResults(got) => EncodePayload(got.packet) = got.frame.payload
  /\ stage = "reply" /\ Arrived /\ Arriving.kind = "RESULTS" =>
       \A p \in Packets :
         Arriving.frame = [flags |-> "base", whole |-> TRUE, payload |-> Payloads[p]] =>
           Decode(Arriving.frame) =
             IF IsShallow(p) /\ IsShort(p) THEN [ok |-> TRUE, packet |-> p] ELSE Failed

\* Each entry of a result is either an observation or counted as skipped, and an
\* observation keeps every tag of its entry: those read into fields once, all
\* others in its raw metadata, and none of those that point to another entry
\* (mapping.py: capture-all).
EntriesAccounted ==
  IsResults(got) =>
    LET entries == Entries(got.packet.tags)
        usable == SelectSeq(entries, IsUsable)
    IN /\ Len(entries) = Len(got.observations) + got.skipped
       /\ \A i \in DOMAIN usable :
            Len(got.observations[i].raw) = Cardinality(KeptPaths(usable[i].children))
=============================================================================
