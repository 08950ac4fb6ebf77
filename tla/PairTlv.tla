-------------------------------- MODULE PairTlv --------------------------------
(***************************************************************************)
(* The lists of typed values that pairing messages are made of,            *)
(* src/src/pair_ap/pair-tlv.c. A value longer than a chunk is sent as      *)
(* several chunks of its type, of which only the last is not full. What a  *)
(* value is of matters here and not its bytes.                             *)
(***************************************************************************)
EXTENDS Integers, SequencesExt

CONSTANT ChunkMax    \* 255 in the code

ASSUME PairTlvAssumption == ChunkMax \in Nat \ {0}

\* pair_tlv_add_value
TlvAdded(list, type, size, value) == Append(list, [type |-> type, size |-> size, value |-> value])

ChunkCount(size) == (size + ChunkMax - 1) \div ChunkMax

\* One round of the loop of pair_tlv_format.
TlvChunks(tlv) ==
  [n \in 1..ChunkCount(tlv.size) |->
     [type |-> tlv.type, value |-> tlv.value, part |-> n, parts |-> ChunkCount(tlv.size),
      size |-> IF n < ChunkCount(tlv.size) THEN ChunkMax ELSE tlv.size - (n - 1) * ChunkMax]]

\* pair_tlv_format. An empty value is written but not counted in the length, so it is
\* lost when it is the last, the only place where there is one.
TlvFormat(list) ==
  LET written[n \in 0..Len(list)] == IF n = 0 THEN <<>> ELSE written[n - 1] \o TlvChunks(list[n])
  IN written[Len(list)]

\* Mutant: a value is a chunk.
TlvEndAtOnce(chunks, first) == first

\* The scan of pair_tlv_parse for the last chunk of the value that begins at the first:
\* the first one that is not full, or has none of its type after it.
TlvEnd(chunks, first) ==
  CHOOSE last \in first..Len(chunks) :
    /\ \A n \in first..(last - 1) : chunks[n].size = ChunkMax /\ chunks[n + 1].type = chunks[first].type
    /\ \/ chunks[last].size # ChunkMax
       \/ last = Len(chunks) \/ chunks[last + 1].type # chunks[first].type

\* The value pair_tlv_parse puts together of the chunks: its size, and what it is of. Only
\* public keys have more than a chunk; -1 stands for what is not all of one.
TlvJoined(chunks) ==
  LET size[n \in 0..Len(chunks)] == IF n = 0 THEN 0 ELSE size[n - 1] + chunks[n].size
  IN [size |-> size[Len(chunks)],
      value |-> IF /\ Len(chunks) = chunks[1].parts
                   /\ \A n \in DOMAIN chunks : chunks[n].part = n /\ chunks[n].value = chunks[1].value
                THEN chunks[1].value ELSE -1]

TlvHas(chunks, type) == \E n \in DOMAIN chunks : chunks[n].type = type

\* pair_tlv_get_value: the first of the type.
TlvGet(chunks, type) ==
  LET first == SelectInSeq(chunks, LAMBDA c : c.type = type)
  IN TlvJoined(SubSeq(chunks, first, TlvEnd(chunks, first)))
=============================================================================
