-------------------------------- MODULE EcCodec --------------------------------
(***************************************************************************)
(* Packets of amuled's external connection protocol (codec.py) and the     *)
(* mapping of search results to observations (mapping.py).                 *)
(*                                                                         *)
(* An octet is a number below Base, 256 in the code; a hash has HashLength *)
(* octets, 16 in the code.  Widths of fields are those of the code.  The   *)
(* encoder is the crawler's; amuled's is taken to follow the same format.  *)
(***************************************************************************)
EXTENDS Integers, FiniteSets, SequencesExt

CONSTANTS
  Base,         \* how many values an octet has
  HashLength,   \* octets of a hash
  MaxTagDepth,  \* bound of the decoder on nested tags (32 in the code)
  MaxPayload    \* bound on the octets of a payload, inflated or not (16 MiB in the code)

ASSUME CodecAssumption ==
  Base \in Nat \ {0, 1} /\ HashLength \in Nat /\ MaxTagDepth \in Nat /\ MaxPayload \in Nat

Octets(number, width) == [i \in 1 .. width |-> (number \div Base ^ (width - i)) % Base]
Number(octets) == FoldLeft(LAMBDA sum, octet : sum * Base + octet, 0, octets)

UINT8 == 2
UINT16 == 3
UINT32 == 4
UINT64 == 5
STRING_TYPE == 6
HASH16 == 9
IntTypes == {UINT8, UINT16, UINT32, UINT64}
IntWidth == [type \in IntTypes |-> CASE type = UINT8 -> 1 [] type = UINT16 -> 2
                                     [] type = UINT32 -> 4 [] type = UINT64 -> 8]

\* The names of tags that the mapping knows, as numbers of the model.
SEARCHFILE == 1
PARTFILE_NAME == 2
PARTFILE_SIZE_FULL == 3
PARTFILE_HASH == 4
PARTFILE_SOURCE_COUNT == 5
PARTFILE_SOURCE_COUNT_XFER == 6
SEARCH_PARENT == 7

-----------------------------------------------------------------------------
Tag(name, type, value, children) ==
  [name |-> name, type |-> type, value |-> value, children |-> children]

\* The narrowest type that holds the number.
UintTag(name, number, children) ==
  LET type == CHOOSE t \in IntTypes :
                /\ number < Base ^ IntWidth[t]
                /\ \A u \in IntTypes : u < t => number >= Base ^ IntWidth[u]
  IN Tag(name, type, Octets(number, IntWidth[type]), children)

StringTag(name, letters) == Tag(name, STRING_TYPE, Append(letters, 0), <<>>)
HashTag(name, hash) == Tag(name, HASH16, hash, <<>>)

NoTag == Tag(0, 0, <<>>, <<>>)
Find(tags, name) ==
  LET i == SelectInSeq(tags, LAMBDA tag : tag.name = name)
  IN IF i = 0 THEN NoTag ELSE tags[i]

IsInt(tag) == tag.type \in IntTypes /\ Len(tag.value) = IntWidth[tag.type]
IsString(tag) == tag.type = STRING_TYPE /\ tag.value # <<>> /\ Last(tag.value) = 0
IsHash(tag) == tag.type = HASH16 /\ Len(tag.value) = HashLength

-----------------------------------------------------------------------------
(* Encoding: the children come before the tag's own value, and the length  *)
(* of a tag counts them completely but not its own header.                 *)

TagHeader == 7
TagCount == 2

\* Mutation: the count of a nested tag's own children is not counted.
HeaderLenFlat(tag) == TagHeader

HeaderLen(tag) == TagHeader + (IF tag.children # <<>> THEN TagCount ELSE 0)

RECURSIVE TagLen(_)
TagLen(tag) ==
  FoldSeq(LAMBDA child, sum : sum + HeaderLen(child) + TagLen(child), Len(tag.value), tag.children)

RECURSIVE EncodeTag(_)
EncodeTag(tag) ==
  LET nested == tag.children # <<>>
  IN Octets(2 * tag.name + (IF nested THEN 1 ELSE 0), 2)
       \o <<tag.type>> \o Octets(TagLen(tag), 4)
       \o (IF nested THEN Octets(Len(tag.children), TagCount) ELSE <<>>)
       \o FlattenSeq([i \in DOMAIN tag.children |-> EncodeTag(tag.children[i])])
       \o tag.value

EncodePayload(packet) ==
  <<packet.opcode>> \o Octets(Len(packet.tags), TagCount)
    \o FlattenSeq([i \in DOMAIN packet.tags |-> EncodeTag(packet.tags[i])])

-----------------------------------------------------------------------------
(* Decoding: a result is a failure or what was read and the next position. *)

Failed == [ok |-> FALSE]
Has(data, pos, count) == pos + count - 1 <= Len(data)
Read(data, pos, width) == Number(SubSeq(data, pos, pos + width - 1))

\* What is left of a tag's length for its own value, after its children.
OwnLen(length, consumed) == length - consumed

Then(result, Continue(_)) == IF result.ok THEN Continue(result) ELSE Failed

\* A tag's name, type and length, how many tags it holds and where they start.
DecodeHeader(data, pos) ==
  IF ~Has(data, pos, TagHeader) THEN Failed
  ELSE LET header == [ok |-> TRUE, name |-> Read(data, pos, 2) \div 2, type |-> data[pos + 2],
                      length |-> Read(data, pos + 3, 4)]
       IN IF Read(data, pos, 2) % 2 = 0 THEN header @@ [count |-> 0, start |-> pos + TagHeader]
          ELSE IF \/ ~Has(data, pos, TagHeader + TagCount)
                  \/ Read(data, pos + TagHeader, TagCount) = 0 THEN Failed
          ELSE header @@ [count |-> Read(data, pos + TagHeader, TagCount),
                          start |-> pos + TagHeader + TagCount]

\* The tag, once its children are read: the rest of its length is its own value.
DecodeValue(data, header, below) ==
  LET own == OwnLen(header.length, below.pos - header.start) IN
  IF own < 0 \/ ~Has(data, below.pos, own) THEN Failed
  ELSE [ok |-> TRUE, pos |-> below.pos + own,
        tag |-> Tag(header.name, header.type,
                    SubSeq(data, below.pos, below.pos + own - 1), below.tags)]

\* Mutation: one level too many.
TooDeepByOne(depth) == depth > MaxTagDepth

TooDeep(depth) == depth >= MaxTagDepth

RECURSIVE DecodeTag(_, _, _), DecodeTags(_, _, _, _)

DecodeTags(data, pos, count, depth) ==
  IF count = 0 THEN [ok |-> TRUE, tags |-> <<>>, pos |-> pos]
  ELSE Then(DecodeTag(data, pos, depth), LAMBDA first :
         Then(DecodeTags(data, first.pos, count - 1, depth), LAMBDA rest :
           [ok |-> TRUE, tags |-> <<first.tag>> \o rest.tags, pos |-> rest.pos]))

DecodeTag(data, pos, depth) ==
  IF TooDeep(depth) THEN Failed
  ELSE Then(DecodeHeader(data, pos), LAMBDA header :
         Then(DecodeTags(data, header.start, header.count, depth + 1), LAMBDA below :
           DecodeValue(data, header, below)))

DecodePayload(data) ==
  IF ~Has(data, 1, 1 + TagCount) THEN Failed
  ELSE Then(DecodeTags(data, 2 + TagCount, Read(data, 2, TagCount), 0), LAMBDA body :
         IF body.pos # Len(data) + 1 THEN Failed
         ELSE [ok |-> TRUE, packet |-> [opcode |-> data[1], tags |-> body.tags]])

\* A frame: its flags, its payload, inflated if it was compressed, and whether the
\* compressed form is a whole stream (what comes after the end of one is ignored).
Decode(frame) ==
  IF \/ frame.flags \notin {"base", "zlib"}
     \/ frame.flags = "zlib" /\ ~frame.whole
     \/ Len(frame.payload) > MaxPayload
  THEN Failed ELSE DecodePayload(frame.payload)

-----------------------------------------------------------------------------
(* Search results.                                                         *)

Mapped == {PARTFILE_NAME, PARTFILE_SIZE_FULL, PARTFILE_HASH,
           PARTFILE_SOURCE_COUNT, PARTFILE_SOURCE_COUNT_XFER}

\* A counter that is missing or malformed is zero.
OptionalInt(tags, name) ==
  LET tag == Find(tags, name) IN IF IsInt(tag) THEN Number(tag.value) ELSE 0

\* A tag and those below it, but nothing of another entry's.
RECURSIVE CollectSubtree(_)
CollectSubtree(tag) ==
  IF tag.name = SEARCH_PARENT THEN <<>>
  ELSE <<<<tag.name, tag.value>>>>
         \o FlattenSeq([i \in DOMAIN tag.children |-> CollectSubtree(tag.children[i])])

\* Mutation: every tag of a mapped name is left out, not only the first.
RawMetaByName(children) ==
  FlattenSeq([i \in DOMAIN children |->
                IF children[i].name \in Mapped THEN <<>> ELSE CollectSubtree(children[i])])

\* Every tag that is not the first of a mapped name.
RawMeta(children) ==
  FlattenSeq([i \in DOMAIN children |->
                IF /\ children[i].name \in Mapped
                   /\ \A j \in 1 .. i - 1 : children[j].name # children[i].name
                THEN <<>> ELSE CollectSubtree(children[i])])

IsUsable(entry) ==
  /\ IsHash(Find(entry.children, PARTFILE_HASH))
  /\ IsString(Find(entry.children, PARTFILE_NAME))
  /\ IsInt(Find(entry.children, PARTFILE_SIZE_FULL))

Observation(entry, keyword) ==
  [hash |-> Find(entry.children, PARTFILE_HASH).value,
   filename |-> Front(Find(entry.children, PARTFILE_NAME).value),
   size |-> Number(Find(entry.children, PARTFILE_SIZE_FULL).value),
   sources |-> OptionalInt(entry.children, PARTFILE_SOURCE_COUNT),
   complete |-> OptionalInt(entry.children, PARTFILE_SOURCE_COUNT_XFER),
   keyword |-> keyword,
   raw |-> RawMeta(entry.children)]

Entries(tags) == SelectSeq(tags, LAMBDA tag : tag.name = SEARCHFILE)

MapSearchResults(tags, keyword) ==
  LET usable == SelectSeq(Entries(tags), IsUsable)
  IN [observations |-> [i \in DOMAIN usable |-> Observation(usable[i], keyword)],
      skipped |-> Len(Entries(tags)) - Len(usable)]
=============================================================================
