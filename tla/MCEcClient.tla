------------------------------- MODULE MCEcClient -------------------------------
(***************************************************************************)
(* Packets of search results for EcResults: entries with usable,           *)
(* malformed, missing and repeated tags, numbers at the boundaries of the  *)
(* widths, tags nested as deep as the bound and one level deeper, and a    *)
(* payload as long as the bound and one octet longer.  A frame arrives as  *)
(* it was sent, shorter by an octet, longer by one, or, if its length is   *)
(* within the bound, with one octet one more or one less.                  *)
(***************************************************************************)
EXTENDS EcResults

Hash == HashTag(PARTFILE_HASH, <<7>>)
Named == StringTag(PARTFILE_NAME, <<3, 0>>)
Sized(n) == UintTag(PARTFILE_SIZE_FULL, n, <<>>)
Sources(n) == UintTag(PARTFILE_SOURCE_COUNT, n, <<>>)
Malformed(name) == Tag(name, UINT16, <<1>>, <<>>)
Other(children) == Tag(9, 1, <<4>>, children)
Parent == UintTag(SEARCH_PARENT, 5, <<Other(<<>>)>>)
Entry(children) == UintTag(SEARCHFILE, 10, children)

\* Tags of so many levels, and an entry of so many.
Nested[levels \in 0 .. MaxTagDepth] ==
  IF levels = 0 THEN <<>> ELSE <<Other(Nested[levels - 1])>>
Deep(levels) == Entry(Nested[levels - 1])

\* The longest payload that is read has one octet of padding.
Longest(padding) ==
  Entry(<<Hash, Malformed(PARTFILE_SOURCE_COUNT), Named, Sized(100),
          Other(<<Other(<<>>), Parent>>), Parent, Tag(9, 1, padding, <<>>)>>)

MCPackets ==
  {[opcode |-> 8, tags |-> tags] :
     tags \in {<<>>,
               <<Entry(<<Hash, Named, Sized(10), Sources(9999), Sources(9)>>),
                 Entry(<<Named, Sized(10000)>>)>>,
               <<Entry(<<Hash, Named, Malformed(PARTFILE_SIZE_FULL)>>), Entry(<<>>), Other(<<>>)>>,
               <<Longest(<<4>>)>>, <<Longest(<<4, 4>>)>>,
               <<Deep(MaxTagDepth)>>, <<Deep(MaxTagDepth + 1)>>}}

\* Both bounds are met, and passed by one.
ASSUME BoundsPassed ==
  /\ {MaxTagDepth, MaxTagDepth + 1} \subseteq {Depth(p.tags) : p \in MCPackets}
  /\ {MaxPayload, MaxPayload + 1} \subseteq {Len(Payloads[p]) : p \in MCPackets}

Sent(packet) == [flags |-> "base", whole |-> TRUE, payload |-> Payloads[packet]]
Positions(packet) == IF IsShort(packet) THEN DOMAIN Payloads[packet] ELSE {}

MCFrames(packet) ==
  LET sent == Sent(packet) IN
  {sent, [sent EXCEPT !.flags = "zlib"], [sent EXCEPT !.flags = "zlib", !.whole = FALSE],
   [sent EXCEPT !.flags = "other"],
   [sent EXCEPT !.payload = Append(@, 1)], [sent EXCEPT !.payload = Front(@)]}
    \cup {[sent EXCEPT !.payload[i] = (@ + change) % Base] :
            i \in Positions(packet), change \in {1, Base - 1}}
=============================================================================
