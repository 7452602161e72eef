---------------------------- MODULE RegionFormat -----------------------------
(***************************************************************************)
(* Region files (.mca): the builder that lays stored chunks out in sectors *)
(* and the reader that finds them again, also in a file that was cut off   *)
(* or damaged.                                                             *)
(*                                                                         *)
(* Sizes are constants, so that small ones reach every limit.  A chunk's   *)
(* stored payload is a sequence of cells; its length prefix takes one      *)
(* cell, a table entry is one cell.  The timestamp table, which nothing    *)
(* reads, counts by its size only.                                         *)
(***************************************************************************)
EXTENDS Coordinates, Sequences, FiniteSets

CONSTANTS
  SectorLen,     \* cells of a sector
  MaxSectors,    \* sectors one chunk may take
  MaxOffset,     \* sectors the location table can address
  Locs,          \* regions the builder is made for
  Payloads,      \* what is staged
  BadEntries,    \* what a damaged table entry may be
  BadLengths     \* what a damaged length may be

FirstDataSector == 2

HeaderLen == FirstDataSector * SectorLen

Slots == 0 .. RowWidth * RowWidth - 1

ASSUME RegionAssumption ==
  /\ SectorLen \in Nat /\ RowWidth * RowWidth <= SectorLen
  /\ MaxSectors \in Nat /\ MaxOffset \in Nat
  /\ Locs \subseteq Int \X Int
  /\ Payloads \subseteq Seq(Nat)
  /\ BadEntries \subseteq [offset : Nat, count : Nat]
  /\ BadLengths \subseteq Nat

VARIABLES
  loc,      \* the region being built or read, or NoLoc
  staged,   \* slot -> payload
  image,    \* the file read back
  intact    \* it is as the builder made it, cut off or damaged

regionVars == <<loc, staged, image, intact>>

NoLoc == <<>>

NoImage == [size |-> 0, table |-> <<>>, data |-> <<>>]

RegionInit ==
  /\ loc = NoLoc
  /\ staged = <<>>
  /\ image = NoImage
  /\ intact = "unbuilt"

-----------------------------------------------------------------------------
(* Coordinates. *)

\* slot_of finds the chunk at home.
InRegion(l, x, z) ==
  /\ x - l[1] * RowWidth \in 0 .. RowWidth - 1
  /\ z - l[2] * RowWidth \in 0 .. RowWidth - 1

SlotOf(l, x, z) == (x - l[1] * RowWidth) + RowWidth * (z - l[2] * RowWidth)

CoordAt(l, slot) == 
  <<l[1] * RowWidth + (slot % RowWidth), l[2] * RowWidth + (slot \div RowWidth)>>

-----------------------------------------------------------------------------
(* The builder. *)

\* Slip: the length prefix is not counted.
SectorsForBody(len) == (len + SectorLen - 1) \div SectorLen

SectorsFor(len) == (len + 1 + SectorLen - 1) \div SectorLen

NewBuilder ==
  /\ loc = NoLoc
  /\ \E l \in Locs :
       /\ Representable(l[1]) /\ Representable(l[2])
       /\ loc' = l
  /\ UNCHANGED <<staged, image, intact>>

\* A payload that is empty or too large and a chunk of another region are
\* refused.
StageChunk ==
  /\ loc # NoLoc /\ intact = "unbuilt"
  /\ \E x, z \in Ints, p \in Payloads :
       /\ p # <<>>
       /\ SectorsFor(Len(p)) <= MaxSectors
       /\ InRegion(loc, x, z)
       /\ staged' = [s \in DOMAIN staged \cup {SlotOf(loc, x, z)} |->
                       IF s = SlotOf(loc, x, z) THEN p ELSE staged[s]]
  /\ UNCHANGED <<loc, image, intact>>

RemoveChunk ==
  /\ loc # NoLoc /\ intact = "unbuilt"
  /\ \E x, z \in Ints :
       /\ InRegion(loc, x, z)
       /\ staged' = [s \in DOMAIN staged \ {SlotOf(loc, x, z)} |-> staged[s]]
  /\ UNCHANGED <<loc, image, intact>>

Sectors(s) == SectorsFor(Len(staged[s]))

\* The sectors that some slots take.
SectorsOf(slots) == {p \in slots \X (1 .. MaxSectors) : p[2] <= Sectors(p[1])}

\* Runs follow each other in slot order.
OffsetOf(s) == FirstDataSector + Cardinality(SectorsOf({t \in DOMAIN staged : t < s}))

End == FirstDataSector + Cardinality(SectorsOf(DOMAIN staged))

\* Where a chunk has its length prefix and its payload.
Start(s) == OffsetOf(s) * SectorLen

Holds(s, i) == i - Start(s) \in 0 .. Len(staged[s])

CellOf(s, i) == IF i = Start(s) THEN Len(staged[s]) ELSE staged[s][i - Start(s)]

\* Runs end in zeros.  An entry has room for offsets up to MaxOffset.
Assembled ==
  [size |-> End * SectorLen,
   table |-> [s \in Slots |-> IF s \in DOMAIN staged
                              THEN [offset |-> OffsetOf(s) % (MaxOffset + 1), count |-> Sectors(s)]
                              ELSE [offset |-> 0, count |-> 0]],
   data |-> [i \in HeaderLen .. End * SectorLen - 1 |->
               IF \E s \in DOMAIN staged : Holds(s, i)
               THEN CellOf(CHOOSE s \in DOMAIN staged : Holds(s, i), i)
               ELSE 0]]

\* The last sector of every run must be addressable.
BuildImage ==
  /\ loc # NoLoc /\ intact = "unbuilt"
  /\ \A s \in DOMAIN staged : OffsetOf(s) + Sectors(s) <= MaxOffset
  /\ image' = Assembled
  /\ intact' = "built"
  /\ UNCHANGED <<loc, staged>>

-----------------------------------------------------------------------------
(* What may happen to the file. *)

\* The reader refuses a file shorter than its header, but for an empty one.
CutOff ==
  /\ intact = "built"
  /\ \E n \in {0} \cup HeaderLen .. image.size - 1 :
       image' = [image EXCEPT !.size = n,
                              !.data = [i \in HeaderLen .. n - 1 |-> image.data[i]]]
  /\ intact' = "cut"
  /\ UNCHANGED <<loc, staged>>

DamageEntry ==
  /\ intact = "built"
  /\ \E s \in Slots, e \in BadEntries : image' = [image EXCEPT !.table[s] = e]
  /\ intact' = "damaged"
  /\ UNCHANGED <<loc, staged>>

DamageLength ==
  /\ intact = "built"
  /\ \E s \in DOMAIN staged, n \in BadLengths :
       image' = [image EXCEPT !.data[Start(s)] = n]
  /\ intact' = "damaged"
  /\ UNCHANGED <<loc, staged>>

RegionStep ==
  \/ NewBuilder
  \/ StageChunk
  \/ RemoveChunk
  \/ BuildImage
  \/ CutOff
  \/ DamageEntry
  \/ DamageLength

RegionSpec == RegionInit /\ [][RegionStep]_regionVars

-----------------------------------------------------------------------------
(* The reader. *)

None == [found |-> "none", bytes |-> <<>>]
Bad == [found |-> "error", bytes |-> <<>>]
Chunk(bytes) == [found |-> "chunk", bytes |-> bytes]

SectorPayload(e) ==
  LET base == e.offset * SectorLen
      len == image.data[base]
  IN IF base + 1 > image.size THEN Bad
     ELSE IF len = 0 \/ len + 1 > e.count * SectorLen THEN Bad
     ELSE IF base + 1 + len > image.size THEN Bad
     ELSE Chunk([i \in 1 .. len |-> image.data[base + i]])

\* One slot, as the walk of the table reads it.
ChunkAt(s) ==
  LET e == image.table[s] IN
  IF image.size = 0 THEN None
  ELSE IF e.offset = 0 /\ e.count = 0 THEN None
  ELSE IF e.offset < FirstDataSector \/ e.count = 0 THEN Bad
  ELSE IF e.offset * SectorLen >= image.size THEN Bad
  ELSE SectorPayload(e)

\* The walk ends at the first error.
Walked == {s \in Slots : /\ ChunkAt(s).found = "chunk"
                         /\ \A t \in 0 .. s : ChunkAt(t).found # "error"}

\* One chunk by its coordinates.
ChunkPayload(x, z) ==
  LET e == image.table[SlotOf(loc, x, z)] IN
  IF image.size = 0 \/ ~ InRegion(loc, x, z) THEN None
  ELSE IF e.offset = 0 /\ e.count = 0 THEN None
  ELSE IF e.offset < FirstDataSector \/ e.count = 0 \/ e.offset * SectorLen >= image.size
       THEN Bad
  ELSE SectorPayload(e)

-----------------------------------------------------------------------------
(* Properties. *)

StagedAt(x, z) ==
  IF InRegion(loc, x, z) /\ SlotOf(loc, x, z) \in DOMAIN staged
  THEN Chunk(staged[SlotOf(loc, x, z)]) ELSE None

\* An image as built gives every chunk back, by the walk and by coordinates,
\* and no chunk that was not staged.
RoundTrip ==
  intact = "built" =>
    /\ \A x, z \in Ints : ChunkPayload(x, z) = StagedAt(x, z)
    /\ {<<CoordAt(loc, s), ChunkAt(s).bytes>> : s \in Walked}
         = {<<CoordAt(loc, s), staged[s]>> : s \in DOMAIN staged}

\* A file that was cut off gives a chunk whole or an error, never less of
\* it; only an empty file reads as an empty region.
CutIsLoud ==
  intact = "cut" =>
    \A x, z \in Ints :
      ChunkPayload(x, z) \in {StagedAt(x, z)} \cup (IF image.size = 0 THEN {None} ELSE {Bad})

\* Whatever is damaged, the two ways to look a chunk up agree, and what
\* they return lies within the sectors of its table entry.
LookupsAgree ==
  intact # "unbuilt" =>
    \A s \in Slots :
      LET c == CoordAt(loc, s) IN
      /\ ChunkPayload(c[1], c[2]) = ChunkAt(s)
      /\ ChunkAt(s).found = "chunk" =>
           Len(ChunkAt(s).bytes) + 1 <= SectorLen * image.table[s].count

\* The region file format loses no chunk and invents none: commit reads by
\* the walk, diff by coordinates, and checkout and clone write what both
\* must read back.
RegionSound == RoundTrip /\ CutIsLoud /\ LookupsAgree
=============================================================================
