----------------------------- MODULE ChunkFrames -----------------------------
(***************************************************************************)
(* How a stored chunk is compressed (anvil::codec): one byte names the     *)
(* codec, the body follows.  The program only decodes.                     *)
(*                                                                         *)
(* A body is a sequence of tokens.  <<"byte", c>> is a cell of the         *)
(* document; the other tokens are what a codec wraps around cells: a cell  *)
(* of a deflate stream (its last one marked), an LZ4 block header and a    *)
(* packed block, the parts of a gzip member.  A checksum is the cells it   *)
(* was made of.  The compressors inside (miniz_oxide, lz4_flex) are        *)
(* external: they give back the cells that went in.                        *)
(***************************************************************************)
EXTENDS Integers, Sequences

CONSTANTS
  MaxOut,      \* cells a decoder gives out at most: MAX_DECOMPRESSED
  BaseBlock    \* cells of an LZ4 block of level 0

Failed == [ok |-> FALSE, out |-> <<>>]
Decoded(out) == [ok |-> TRUE, out |-> out]

\* compression_of: 127 and the types from 128 on are known and refused.
CompressionOf(byte) ==
  CASE byte = 1 -> "gzip"
    [] byte = 2 -> "zlib"
    [] byte = 3 -> "raw"
    [] byte = 4 -> "lz4"
    [] OTHER -> "refused"

ValuesOf(tokens) == [i \in DOMAIN tokens |-> tokens[i][2]]

Tagged(body, i, tag) == i \in DOMAIN body /\ body[i][1] = tag

-----------------------------------------------------------------------------
(* Deflate streams. *)

\* Where the stream at pos ends: 0 when it is broken or cut off.
StreamEnd(body, pos) ==
  LET ends == {i \in pos .. Len(body) :
                 /\ Tagged(body, i, "last")
                 /\ \A j \in pos .. i - 1 : Tagged(body, j, "deflate")}
  IN IF ends = {} THEN 0 ELSE CHOOSE i \in ends : TRUE

Inflated(body, pos) == ValuesOf(SubSeq(body, pos, StreamEnd(body, pos)))

\* What follows the checksum of a zlib stream is not looked at.
InflateZlib(body) ==
  LET end == StreamEnd(body, 1)
      out == Inflated(body, 1)
  IN IF end = 0 THEN Failed
     ELSE IF Len(out) > MaxOut THEN Failed
     ELSE IF ~ Tagged(body, end + 1, "sum") \/ body[end + 1][2] # out THEN Failed
     ELSE Decoded(out)

\* The optional parts of a gzip header, in their order.
HeaderParts == <<"extra", "name", "comment", "hcrc">>

\* Where the stream of a gzip member starts: 0 when a part is missing.
StreamStart(body) ==
  LET parts == SelectSeq(HeaderParts, LAMBDA p : p \in body[1][2])
  IN IF \A i \in DOMAIN parts : Tagged(body, i + 1, parts[i]) THEN Len(parts) + 2 ELSE 0

\* The footer is the end of the body, and the stream must end where it
\* starts.
Gunzip(body) ==
  LET pos == StreamStart(body)
      end == Len(body) - 2
      out == Inflated(body, pos)
  IN IF ~ Tagged(body, 1, "gzip") THEN Failed
     ELSE IF body[1][2] \ {HeaderParts[i] : i \in DOMAIN HeaderParts} # {} THEN Failed
     ELSE IF pos = 0 \/ pos > end \/ StreamEnd(body, pos) # end \/ Len(out) > MaxOut THEN Failed
     ELSE IF body[end + 1] # <<"sum", out>> \/ body[end + 2] # <<"size", Len(out)>> THEN Failed
     ELSE Decoded(out)

-----------------------------------------------------------------------------
(* LZ4 blocks. *)

BlockLimit(level) == BaseBlock * 2 ^ level

HeaderSound(h) ==
  /\ h.method \in {"stored", "packed"}
  /\ h.plain <= BlockLimit(h.level)
  /\ (h.packed = 0) = (h.plain = 0)
  /\ h.method = "stored" => h.packed = h.plain

\* The cells of one block, as the header describes it.
BlockCells(h, block) ==
  IF h.method = "stored"
  THEN IF \A i \in DOMAIN block : Tagged(block, i, "byte") THEN Decoded(ValuesOf(block)) ELSE Failed
  ELSE IF Len(block) = 1 /\ Tagged(block, 1, "packed") /\ Len(block[1][2]) = h.plain
       THEN Decoded(block[1][2]) ELSE Failed

\* Blocks follow each other until an empty one; what follows that one is not
\* looked at.
RECURSIVE Unlz4From(_, _, _)
Unlz4From(body, pos, out) ==
  LET h == body[pos][2]
      end == pos + h.packed
      cells == BlockCells(h, SubSeq(body, pos + 1, end))
  IN IF ~ Tagged(body, pos, "block") THEN Failed
     ELSE IF ~ HeaderSound(h) THEN Failed
     ELSE IF h.plain = 0 THEN IF h.sum = <<>> THEN Decoded(out) ELSE Failed
     ELSE IF Len(out) + h.plain > MaxOut THEN Failed
     ELSE IF end > Len(body) THEN Failed
     ELSE IF ~ cells.ok \/ cells.out # h.sum THEN Failed
     ELSE Unlz4From(body, end + 1, out \o cells.out)

Unlz4(body) == Unlz4From(body, 1, <<>>)

-----------------------------------------------------------------------------

\* An uncompressed body is taken as it is: a token of another codec is a
\* cell that no document has.
RawCells(body) ==
  IF Len(body) > MaxOut THEN Failed
  ELSE Decoded([i \in DOMAIN body |-> IF Tagged(body, i, "byte") THEN body[i][2] ELSE <<"junk">>])

\* decompress_into
Decompress(p) ==
  CASE CompressionOf(p.byte) = "raw" -> RawCells(p.body)
    [] CompressionOf(p.byte) = "zlib" -> InflateZlib(p.body)
    [] CompressionOf(p.byte) = "gzip" -> Gunzip(p.body)
    [] CompressionOf(p.byte) = "lz4" -> Unlz4(p.body)
    [] OTHER -> Failed

-----------------------------------------------------------------------------
(* What game servers write. *)

DeflateOf(cells) ==
  [i \in DOMAIN cells |-> <<IF i = Len(cells) THEN "last" ELSE "deflate", cells[i]>>]

BlockOf(method, cells) ==
  <<<<"block", [method |-> method, level |-> 1, plain |-> Len(cells), sum |-> cells,
                packed |-> IF method = "packed" THEN 1 ELSE Len(cells)]>>>>
    \o IF method = "packed" THEN <<<<"packed", cells>>>>
       ELSE [i \in DOMAIN cells |-> <<"byte", cells[i]>>]

EndBlock ==
  <<"block", [method |-> "stored", level |-> 1, plain |-> 0, sum |-> <<>>, packed |-> 0]>>

\* A packed block and a stored one.
Lz4Of(cells) ==
  LET n == Len(cells) \div 2 IN
  BlockOf("packed", SubSeq(cells, 1, n)) \o BlockOf("stored", SubSeq(cells, n + 1, Len(cells)))
    \o <<EndBlock>>

GzipOf(parts, cells) ==
  <<<<"gzip", parts>>>>
    \o [i \in DOMAIN SelectSeq(HeaderParts, LAMBDA p : p \in parts) |->
          <<SelectSeq(HeaderParts, LAMBDA p : p \in parts)[i], 0>>]
    \o DeflateOf(cells) \o <<<<"sum", cells>>, <<"size", Len(cells)>>>>

Payload(byte, body) == [byte |-> byte, body |-> body]

FramesOf(cells) ==
  {Payload(3, [i \in DOMAIN cells |-> <<"byte", cells[i]>>]),
   Payload(2, DeflateOf(cells) \o <<<<"sum", cells>>>>),
   Payload(4, Lz4Of(cells)),
   Payload(1, GzipOf({}, cells)),
   Payload(1, GzipOf({"name", "hcrc"}, cells))}
=============================================================================
