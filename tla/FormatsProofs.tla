---------------------------- MODULE FormatsProofs ----------------------------
(***************************************************************************)
(* Selections and region files at every size: any width of the integers,   *)
(* any number of chunks along a region that divides their range, any       *)
(* length of a sector, any limits of an entry, any flags and payloads.     *)
(*                                                                         *)
(* Selections: which chunks a rectangle of regions holds comes down to     *)
(* division rounding down (DivisionUnique), and that every region is       *)
(* wholly inside the range of the integers or wholly outside it            *)
(* (RegionLimits).  Region files: runs of sectors neither overlap each     *)
(* other nor the header (RunsApart), so every chunk is where its entry     *)
(* says (Placed), and a lookup depends only on the cells it reads          *)
(* (SlotReads), also in a file that ends before them.                      *)
(*                                                                         *)
(* Layouts, for any bases, datapack dimensions and regions: what is below  *)
(* a root (LayoutInv) decides which directories hold region files, so the  *)
(* base of the world is the one that is found (BaseFound), and the tree    *)
(* built of it has the dimensions at their places (TreeFits).              *)
(***************************************************************************)
EXTENDS RegionFormat, Selections, WorldLayout, FiniteSetTheorems, TLAPS

-----------------------------------------------------------------------------
(* Division and the limits. *)

LEMMA Division ==
  ASSUME NEW x \in Int, NEW d \in Nat \ {0}
  PROVE  x \div d \in Int /\ d * (x \div d) <= x /\ x < d * (x \div d) + d
  OBVIOUS

LEMMA Multiples ==
  ASSUME NEW p \in Int, NEW q \in Int, NEW d \in Nat \ {0}
  PROVE  /\ p <= q <=> p * d <= q * d
         /\ p < q <=> p * d + d <= q * d
  OBVIOUS

LEMMA DivisionUnique ==
  ASSUME NEW x \in Int, NEW q \in Int, NEW d \in Nat \ {0}
  PROVE  x \div d = q <=> q * d <= x /\ x <= q * d + d - 1
  BY Division, Multiples

\* How many regions there are on each side of zero.
Half == CHOOSE n \in Nat \ {0} : 2 ^ (IntWidth - 1) = n * RowWidth

LEMMA Limits ==
  /\ Half \in Nat \ {0} /\ RowWidth \in Nat \ {0}
  /\ MinInt = - (Half * RowWidth) /\ MaxInt = Half * RowWidth - 1
  /\ MinInt \in Int /\ MaxInt \in Int
  <1> DEFINE size == 2 ^ (IntWidth - 1)
  <1>1. PICK n \in 1 .. size : size = n * RowWidth
    BY CoordinateAssumption
  <1>2. MinInt = - size /\ MaxInt = size - 1
    BY DEF MinInt, MaxInt
  <1>3. Half = CHOOSE m \in Nat \ {0} : size = m * RowWidth
    BY DEF Half
  <1>4. RowWidth \in Nat \ {0}
    BY CoordinateAssumption
  <1> HIDE DEF size
  <1>5. n \in Nat \ {0}
    BY <1>1
  <1>6. Half \in Nat \ {0} /\ size = Half * RowWidth
    BY <1>1, <1>3, <1>5
  <1>7. QED
    BY <1>2, <1>4, <1>6

\* Regions that can hold a chunk.
Inhabited == - Half .. Half - 1

LEMMA RegionLimits ==
  /\ MaxRegion = Half - 1 /\ MinRegion = - Half
  /\ \A r \in Int : Representable(r) <=> r \in Inhabited
  /\ \A x \in Ints : RegionOf(x) \in Inhabited
  <1>1. MaxRegion = Half - 1
    BY Limits, DivisionUnique DEF MaxRegion
  <1>2. MinRegion = - Half
    BY Limits, DivisionUnique DEF MinRegion
  <1>3. ASSUME NEW r \in Int PROVE Representable(r) <=> r \in Inhabited
    <2>1. (- Half) * RowWidth = - (Half * RowWidth) /\ - Half \in Int
      BY Limits
    <2>2. r * RowWidth >= MinInt <=> - Half <= r
      BY <2>1, Limits, Multiples
    <2>3. r * RowWidth + RowWidth - 1 <= MaxInt <=> r < Half
      <3>1. r < Half <=> r * RowWidth + RowWidth <= Half * RowWidth
        BY Limits, Multiples
      <3>2. r * RowWidth \in Int /\ Half * RowWidth \in Int
        BY Limits
      <3>3. QED
        BY <3>1, <3>2, Limits
    <2>4. QED
      BY <2>2, <2>3, Limits DEF Representable, Inhabited
  <1>4. ASSUME NEW x \in Ints PROVE RegionOf(x) \in Inhabited
    <2>1. x \in Int /\ MinInt <= x /\ x <= MaxInt
      BY Limits DEF Ints
    <2>2. PICK q \in Int : q = x \div RowWidth /\ q * RowWidth <= x /\ x <= q * RowWidth + RowWidth - 1
      BY <2>1, Limits, Division
    <2>3. q < Half
      <3>1. q * RowWidth < Half * RowWidth
        BY <2>1, <2>2, Limits
      <3>2. QED
        BY <3>1, Limits, Multiples
    <2>4. - Half <= q
      <3>1. (- Half) * RowWidth = - (Half * RowWidth) /\ - Half \in Int
        BY Limits
      <3>2. (- Half) * RowWidth < q * RowWidth + RowWidth
        BY <2>1, <2>2, <3>1, Limits
      <3>3. q * RowWidth + RowWidth = (q + 1) * RowWidth
        BY Limits
      <3>4. - Half < q + 1
        BY <3>1, <3>2, <3>3, Limits, Multiples
      <3>5. QED
        BY <3>4, Limits
    <2>5. QED
      BY <2>2, <2>3, <2>4, Limits DEF RegionOf, Inhabited
  <1>5. QED
    BY <1>1, <1>2, <1>3, <1>4

\* The chunks of an inhabited region are a span of the integers.
LEMMA RegionSpan ==
  ASSUME NEW r \in Inhabited
  PROVE  /\ r \in Int
         /\ RegionFirst(r) \in Ints /\ RegionLast(r) \in Ints
         /\ RegionFirst(r) <= RegionLast(r)
         /\ \A x \in Ints : RegionOf(x) = r <=> RegionFirst(r) <= x /\ x <= RegionLast(r)
  <1>1. r \in Int /\ ClampRegion(r) = r
    BY RegionLimits, Limits DEF Inhabited, ClampRegion
  <1>2. RegionFirst(r) = r * RowWidth
    BY <1>1 DEF RegionFirst
  <1>3. r * RowWidth >= MinInt /\ r * RowWidth + RowWidth - 1 <= MaxInt
    BY <1>1, RegionLimits DEF Representable
  <1>4. RegionLast(r) = r * RowWidth + RowWidth - 1
    BY <1>1, <1>2, <1>3, Limits DEF RegionLast, Lower
  <1>5. r * RowWidth \in Int
    BY <1>1, Limits
  <1>6. ASSUME NEW x \in Ints
        PROVE  RegionOf(x) = r <=> r * RowWidth <= x /\ x <= r * RowWidth + RowWidth - 1
    BY <1>1, Limits, DivisionUnique DEF RegionOf, Ints
  <1>7. QED
    BY <1>1, <1>2, <1>3, <1>4, <1>5, <1>6, Limits DEF Ints

\* A region without chunks stands for the last one on its side.
LEMMA Clamped ==
  ASSUME NEW g \in Ints
  PROVE  /\ ClampRegion(g) \in Inhabited
         /\ RegionFirst(g) = RegionFirst(ClampRegion(g))
         /\ RegionLast(g) = RegionLast(ClampRegion(g))
         /\ \A r \in Inhabited :
              r = ClampRegion(g) <=> \/ r = g
                                     \/ g > r /\ ~ Representable(r + 1)
                                     \/ g < r /\ ~ Representable(r - 1)
  <1>1. g \in Int
    BY Limits DEF Ints
  <1>2. ClampRegion(g) \in Inhabited /\ ClampRegion(ClampRegion(g)) = ClampRegion(g)
    BY <1>1, RegionLimits, Limits DEF ClampRegion, Inhabited
  <1>3. ASSUME NEW r \in Inhabited
        PROVE  r = ClampRegion(g) <=> \/ r = g
                                      \/ g > r /\ ~ Representable(r + 1)
                                      \/ g < r /\ ~ Representable(r - 1)
    <2>1. r \in Int /\ r + 1 \in Int /\ r - 1 \in Int
      BY Limits DEF Inhabited
    <2>2. (Representable(r + 1) <=> r + 1 \in Inhabited) /\ (Representable(r - 1) <=> r - 1 \in Inhabited)
      BY <2>1, RegionLimits
    <2>3. QED
      BY <1>1, <2>1, <2>2, RegionLimits, Limits DEF ClampRegion, Inhabited
  <1>4. QED
    BY <1>2, <1>3 DEF RegionFirst, RegionLast

-----------------------------------------------------------------------------
(* Rectangles. *)

RectSound(t) ==
  /\ {t.x0, t.z0, t.x1, t.z1} \subseteq Ints
  /\ t.x0 <= t.x1 /\ t.z0 <= t.z1

LEMMA RectOfSound ==
  ASSUME NEW a \in Ints \X Ints, NEW b \in Ints \X Ints
  PROVE  /\ RectSound(RectOf(a, b))
         /\ \A x, z \in Ints : RectContains(RectOf(a, b), x, z)
              <=> Between(x, a[1], b[1]) /\ Between(z, a[2], b[2])
  BY Limits DEF RectSound, RectOf, RectContains, Lower, Upper, Between, Ints

LEMMA RegionRectSound ==
  ASSUME NEW g \in Ints \X Ints
  PROVE  /\ RectSound(RegionRect(g))
         /\ \A x, z \in Ints : RectContains(RegionRect(g), x, z)
              <=> RegionOf(x) = ClampRegion(g[1]) /\ RegionOf(z) = ClampRegion(g[2])
  <1>1. g[1] \in Ints /\ g[2] \in Ints
    OBVIOUS
  <1>2. ClampRegion(g[1]) \in Inhabited /\ ClampRegion(g[2]) \in Inhabited
    BY <1>1, Clamped
  <1>3. RegionRect(g) = [x0 |-> RegionFirst(ClampRegion(g[1])), z0 |-> RegionFirst(ClampRegion(g[2])),
                         x1 |-> RegionLast(ClampRegion(g[1])), z1 |-> RegionLast(ClampRegion(g[2]))]
    BY <1>1, Clamped DEF RegionRect
  <1>4. QED
    BY <1>2, <1>3, RegionSpan DEF RectSound, RectContains

\* A rectangle overlaps the regions of its chunks, and covers none of which
\* it leaves a chunk out.
LEMMA RectRegions ==
  ASSUME NEW t, RectSound(t), NEW r \in Inhabited \X Inhabited
  PROVE  /\ RectOverlaps(t, r) <=> \E x, z \in Ints : /\ RectContains(t, x, z)
                                                      /\ RegionOf(x) = r[1] /\ RegionOf(z) = r[2]
         /\ RectCovers(t, r) => \A x, z \in Ints :
              RegionOf(x) = r[1] /\ RegionOf(z) = r[2] => RectContains(t, x, z)
  <1>1. r[1] \in Inhabited /\ r[2] \in Inhabited
    OBVIOUS
  <1> DEFINE f1 == RegionFirst(r[1])  l1 == RegionLast(r[1])
             f2 == RegionFirst(r[2])  l2 == RegionLast(r[2])
  <1>2. {f1, l1, f2, l2} \subseteq Ints /\ f1 <= l1 /\ f2 <= l2
    BY <1>1, RegionSpan
  <1>3. \A x \in Ints : /\ RegionOf(x) = r[1] <=> f1 <= x /\ x <= l1
                        /\ RegionOf(x) = r[2] <=> f2 <= x /\ x <= l2
    BY <1>1, RegionSpan
  <1>4. /\ RectOverlaps(t, r) <=> t.x0 <= l1 /\ f1 <= t.x1 /\ t.z0 <= l2 /\ f2 <= t.z1
        /\ RectCovers(t, r) <=> t.x0 <= f1 /\ l1 <= t.x1 /\ t.z0 <= f2 /\ l2 <= t.z1
    BY DEF RectOverlaps, RectCovers
  <1> HIDE DEF f1, l1, f2, l2
  <1>5. \A i \in Ints : i \in Int
    BY Limits DEF Ints
  <1>6. {t.x0, t.x1, t.z0, t.z1} \subseteq Ints /\ t.x0 <= t.x1 /\ t.z0 <= t.z1
    BY DEF RectSound
  <1>7. ASSUME RectOverlaps(t, r)
        PROVE  \E x, z \in Ints : /\ RectContains(t, x, z)
                                  /\ RegionOf(x) = r[1] /\ RegionOf(z) = r[2]
    <2> DEFINE x == Upper(t.x0, f1)  z == Upper(t.z0, f2)
    <2>1. x \in Ints /\ t.x0 <= x /\ x <= t.x1 /\ f1 <= x /\ x <= l1
      BY <1>2, <1>4, <1>5, <1>6, <1>7 DEF Upper
    <2>2. z \in Ints /\ t.z0 <= z /\ z <= t.z1 /\ f2 <= z /\ z <= l2
      BY <1>2, <1>4, <1>5, <1>6, <1>7 DEF Upper
    <2>3. QED
      BY <1>3, <2>1, <2>2 DEF RectContains
  <1>8. ASSUME NEW x \in Ints, NEW z \in Ints, RectContains(t, x, z),
               RegionOf(x) = r[1], RegionOf(z) = r[2]
        PROVE  RectOverlaps(t, r)
    BY <1>2, <1>3, <1>4, <1>5, <1>6, <1>8 DEF RectContains
  <1>9. ASSUME RectCovers(t, r), NEW x \in Ints, NEW z \in Ints,
               RegionOf(x) = r[1], RegionOf(z) = r[2]
        PROVE  RectContains(t, x, z)
    BY <1>2, <1>3, <1>4, <1>5, <1>6, <1>9 DEF RectContains
  <1>10. QED
    BY <1>7, <1>8, <1>9

-----------------------------------------------------------------------------
(* Files and chunks. *)

LEMMA Homes ==
  /\ \A c \in ChunkSpace : FileOf(c) \in FileSpace
  /\ \A f \in FileSpace : f.r \in Inhabited \X Inhabited
  /\ \A f \in FileSpace : \E c \in ChunkSpace : FileOf(c) = f
  <1>1. ASSUME NEW f \in FileSpace PROVE f.r \in Inhabited \X Inhabited
    BY Limits, RegionLimits DEF FileSpace, Ints
  <1>2. ASSUME NEW r \in Inhabited PROVE r \in Ints
    <2>1. r \in Int /\ - Half <= r /\ r < Half /\ Half <= Half * RowWidth
      BY Limits DEF Inhabited
    <2>2. QED
      BY <2>1, Limits DEF Ints
  <1>3. ASSUME NEW c \in ChunkSpace PROVE FileOf(c) \in FileSpace
    <2>1. RegionOf(c.x) \in Inhabited /\ RegionOf(c.z) \in Inhabited
      BY RegionLimits DEF ChunkSpace
    <2>2. Representable(RegionOf(c.x)) /\ Representable(RegionOf(c.z))
      BY <2>1, RegionLimits, Limits DEF Inhabited
    <2>3. QED
      BY <1>2, <2>1, <2>2 DEF ChunkSpace, FileSpace, FileOf
  <1>4. ASSUME NEW f \in FileSpace PROVE \E c \in ChunkSpace : FileOf(c) = f
    <2>1. f.r[1] \in Inhabited /\ f.r[2] \in Inhabited /\ f.r = <<f.r[1], f.r[2]>>
      BY <1>1
    <2> DEFINE c == [dim |-> f.dim, kind |-> f.kind,
                     x |-> RegionFirst(f.r[1]), z |-> RegionFirst(f.r[2])]
    <2>2. f.dim \in Dims /\ f.kind \in Kinds /\ f = [dim |-> f.dim, kind |-> f.kind, r |-> f.r]
      BY DEF FileSpace
    <2>3. c.x \in Ints /\ c.z \in Ints /\ RegionOf(c.x) = f.r[1] /\ RegionOf(c.z) = f.r[2]
      BY <2>1, RegionSpan, Limits DEF Ints
    <2>4. c \in ChunkSpace
      BY <2>2, <2>3 DEF ChunkSpace
    <2>5. FileOf(c) = f
      BY <2>1, <2>2, <2>3 DEF FileOf
    <2>6. QED
      BY <2>4, <2>5
  <1>5. QED
    BY <1>1, <1>3, <1>4

-----------------------------------------------------------------------------
(* Areas. *)

Sibling(c, k) == [dim |-> c.dim, kind |-> k, x |-> c.x, z |-> c.z]

\* An area of single chunks has each of them in every kind of the command.
AreaSound(a) ==
  /\ a.shape \in {"all", "rect", "chunks"}
  /\ a.shape = "rect" => RectSound(a.rect)
  /\ a.shape = "chunks" => /\ a.chunks \subseteq {c \in ChunkSpace : c.dim = a.dim}
                           /\ \A c \in a.chunks, k \in SelectedKinds : Sibling(c, k) \in a.chunks

\* An area matches the files of its chunks, and covers none of which it
\* leaves a chunk out.
LEMMA AreaFiles ==
  ASSUME NEW a, AreaSound(a), NEW f \in FileSpace, a.dim = f.dim, f.kind \in SelectedKinds
  PROVE  /\ AreaMatches(a, f) <=> \E c \in ChunkSpace : FileOf(c) = f /\ AreaContains(a, c)
         /\ AreaCovers(a, f) => \A c \in ChunkSpace : FileOf(c) = f => AreaContains(a, c)
  <1>1. f.r \in Inhabited \X Inhabited /\ \E c \in ChunkSpace : FileOf(c) = f
    BY Homes
  <1>2. f.r = <<f.r[1], f.r[2]>>
    BY <1>1
  <1>3. f.dim \in Dims /\ f.kind \in Kinds /\ f = [dim |-> f.dim, kind |-> f.kind, r |-> f.r]
    BY DEF FileSpace
  <1>4. \A c \in ChunkSpace :
          FileOf(c) = f <=> c.dim = f.dim /\ c.kind = f.kind
                            /\ RegionOf(c.x) = f.r[1] /\ RegionOf(c.z) = f.r[2]
    BY <1>2, <1>3 DEF FileOf
  <1>5. CASE a.shape = "all"
    BY <1>1, <1>5 DEF AreaMatches, AreaCovers, AreaContains
  <1>6. CASE a.shape = "rect"
    <2>1. /\ RectOverlaps(a.rect, f.r) <=>
               \E x, z \in Ints : /\ RectContains(a.rect, x, z)
                                  /\ RegionOf(x) = f.r[1] /\ RegionOf(z) = f.r[2]
          /\ RectCovers(a.rect, f.r) => \A x, z \in Ints :
               RegionOf(x) = f.r[1] /\ RegionOf(z) = f.r[2] => RectContains(a.rect, x, z)
      BY <1>1, <1>6, RectRegions DEF AreaSound
    <2>2. /\ AreaMatches(a, f) <=> RectOverlaps(a.rect, f.r)
          /\ AreaCovers(a, f) <=> RectCovers(a.rect, f.r)
          /\ \A c : AreaContains(a, c) <=> RectContains(a.rect, c.x, c.z)
      BY <1>6 DEF AreaMatches, AreaCovers, AreaContains
    <2>3. ASSUME NEW x \in Ints, NEW z \in Ints, RectContains(a.rect, x, z),
                 RegionOf(x) = f.r[1], RegionOf(z) = f.r[2]
          PROVE  \E c \in ChunkSpace : FileOf(c) = f /\ AreaContains(a, c)
      <3> DEFINE c == [dim |-> f.dim, kind |-> f.kind, x |-> x, z |-> z]
      <3>1. c \in ChunkSpace /\ c.dim = f.dim /\ c.kind = f.kind /\ c.x = x /\ c.z = z
        BY <1>3 DEF ChunkSpace
      <3>2. QED
        BY <1>4, <2>2, <2>3, <3>1
    <2>4. \A c \in ChunkSpace : c.x \in Ints /\ c.z \in Ints
      BY DEF ChunkSpace
    <2>5. QED
      BY <1>4, <2>1, <2>2, <2>3, <2>4
  <1>7. CASE a.shape = "chunks"
    <2>1. /\ AreaMatches(a, f) <=> \E c \in a.chunks : <<RegionOf(c.x), RegionOf(c.z)>> = f.r
          /\ ~ AreaCovers(a, f)
          /\ \A c : AreaContains(a, c) <=> c \in a.chunks
      BY <1>7 DEF AreaMatches, AreaCovers, AreaContains
    <2>2. ASSUME NEW c \in a.chunks, <<RegionOf(c.x), RegionOf(c.z)>> = f.r
          PROVE  \E d \in ChunkSpace : FileOf(d) = f /\ AreaContains(a, d)
      <3>1. Sibling(c, f.kind) \in a.chunks /\ Sibling(c, f.kind) \in ChunkSpace /\ c.dim = f.dim
        BY <1>7 DEF AreaSound
      <3>2. FileOf(Sibling(c, f.kind)) = f
        BY <1>3, <2>2, <3>1 DEF FileOf, Sibling
      <3>3. QED
        BY <2>1, <3>1, <3>2
    <2>3. ASSUME NEW c \in ChunkSpace, FileOf(c) = f, c \in a.chunks
          PROVE  AreaMatches(a, f)
      BY <1>2, <1>4, <2>1, <2>3
    <2>4. QED
      BY <2>1, <2>2, <2>3
  <1>8. QED
    BY <1>5, <1>6, <1>7 DEF AreaSound

-----------------------------------------------------------------------------
(* Flags. *)

FlagsSound == flags \subseteq FlagSpace /\ kind \in KindFlags

LEMMA FlagShapes ==
  ASSUME FlagsSound, NEW g \in flags
  PROVE  /\ g.dim \in Dims
         /\ g.shape \in {"all", "chunk", "rect", "region"}
         /\ g.shape = "chunk" => g.a \in Ints \X Ints
         /\ g.shape = "rect" => g.a \in Ints \X Ints /\ g.b \in Ints \X Ints
         /\ g.shape = "region" => g.a \in Ints \X Ints
  BY SelectionAssumption DEF FlagsSound, FlagSpace, Flag

LEMMA KindsSelected == FlagsSound => SelectedKinds \subseteq Kinds
  BY SelectionAssumption DEF FlagsSound, SelectedKinds

\* The chunks that are spelled out are those that a chunk flag names.
LEMMA Explicit ==
  ASSUME FlagsSound
  PROVE  /\ ExplicitChunks \subseteq ChunkSpace
         /\ \A c \in ChunkSpace :
              c \in ExplicitChunks <=> c.kind \in SelectedKinds
                                       /\ \E g \in flags : g.shape = "chunk" /\ Names(g, c)
  <1>1. ASSUME NEW c \in ExplicitChunks
        PROVE  /\ c \in ChunkSpace /\ c.kind \in SelectedKinds
               /\ \E g \in flags : g.shape = "chunk" /\ Names(g, c)
    <2>1. PICK g \in flags, k \in SelectedKinds :
            g.shape = "chunk" /\ c = [dim |-> g.dim, kind |-> k, x |-> g.a[1], z |-> g.a[2]]
      BY <1>1 DEF ExplicitChunks
    <2>2. g.dim \in Dims /\ g.a \in Ints \X Ints /\ k \in Kinds
      BY <2>1, FlagShapes, KindsSelected
    <2>3. c \in ChunkSpace
      BY <2>1, <2>2 DEF ChunkSpace
    <2>4. Names(g, c)
      BY <2>1, <2>2 DEF Names
    <2>5. QED
      BY <2>1, <2>3, <2>4
  <1>2. ASSUME NEW c \in ChunkSpace, c.kind \in SelectedKinds,
               NEW g \in flags, g.shape = "chunk", Names(g, c)
        PROVE  c \in ExplicitChunks
    <2>1. g.dim = c.dim /\ <<c.x, c.z>> = g.a
      BY <1>2 DEF Names
    <2>2. c = [dim |-> g.dim, kind |-> c.kind, x |-> g.a[1], z |-> g.a[2]]
      BY <2>1 DEF ChunkSpace
    <2>3. QED
      BY <1>2, <2>2 DEF ExplicitChunks
  <1>3. QED
    BY <1>1, <1>2

LEMMA NamedByRect ==
  ASSUME FlagsSound, NEW g \in flags, NEW c \in ChunkSpace
  PROVE  /\ g.shape = "rect" =>
              RectSound(RectOf(g.a, g.b))
              /\ (g.dim = c.dim /\ RectContains(RectOf(g.a, g.b), c.x, c.z) <=> Names(g, c))
         /\ g.shape = "region" =>
              RectSound(RegionRect(g.a))
              /\ (g.dim = c.dim /\ RectContains(RegionRect(g.a), c.x, c.z) <=> Names(g, c))
         /\ g.shape = "chunk" =>
              RectSound(RectOf(g.a, g.a))
              /\ (g.dim = c.dim /\ RectContains(RectOf(g.a, g.a), c.x, c.z) <=> Names(g, c))
  <1>1. c.x \in Ints /\ c.z \in Ints
    BY DEF ChunkSpace
  <1>2. CASE g.shape = "rect"
    BY <1>1, <1>2, FlagShapes, RectOfSound DEF Names
  <1>3. CASE g.shape = "chunk"
    <2>1. g.a \in Ints \X Ints /\ RectSound(RectOf(g.a, g.a))
          /\ (RectContains(RectOf(g.a, g.a), c.x, c.z)
                <=> Between(c.x, g.a[1], g.a[1]) /\ Between(c.z, g.a[2], g.a[2]))
      BY <1>1, <1>3, FlagShapes, RectOfSound
    <2>2. g.a = <<g.a[1], g.a[2]>> /\ g.a[1] \in Ints /\ g.a[2] \in Ints
      BY <2>1
    <2>3. \A i, j \in Ints : Between(i, j, j) <=> i = j
      BY Limits DEF Between, Ints
    <2>4. RectContains(RectOf(g.a, g.a), c.x, c.z) <=> <<c.x, c.z>> = g.a
      BY <1>1, <2>1, <2>2, <2>3
    <2>5. QED
      BY <1>3, <2>1, <2>4 DEF Names
  <1>4. CASE g.shape = "region"
    <2>1. g.a \in Ints \X Ints /\ g.a[1] \in Ints /\ g.a[2] \in Ints
      BY <1>4, FlagShapes
    <2>2. RectSound(RegionRect(g.a))
          /\ (RectContains(RegionRect(g.a), c.x, c.z)
                <=> RegionOf(c.x) = ClampRegion(g.a[1]) /\ RegionOf(c.z) = ClampRegion(g.a[2]))
      BY <1>1, <2>1, RegionRectSound
    <2>3. RegionOf(c.x) \in Inhabited /\ RegionOf(c.z) \in Inhabited
      BY <1>1, RegionLimits
    <2>4. Names(g, c) <=>
            /\ g.dim = c.dim
            /\ \/ RegionOf(c.x) = g.a[1]
               \/ g.a[1] > RegionOf(c.x) /\ ~ Representable(RegionOf(c.x) + 1)
               \/ g.a[1] < RegionOf(c.x) /\ ~ Representable(RegionOf(c.x) - 1)
            /\ \/ RegionOf(c.z) = g.a[2]
               \/ g.a[2] > RegionOf(c.z) /\ ~ Representable(RegionOf(c.z) + 1)
               \/ g.a[2] < RegionOf(c.z) /\ ~ Representable(RegionOf(c.z) - 1)
      BY <1>4 DEF Names
    <2>5. QED
      BY <1>4, <2>1, <2>2, <2>3, <2>4, Clamped
  <1>5. QED
    BY <1>2, <1>3, <1>4, FlagShapes

-----------------------------------------------------------------------------
(* The scope of a command. *)

WholeAreas == {[dim |-> g.dim, shape |-> "all"] : g \in {h \in flags : h.shape = "all"}}
RectAreas == {RectArea(g.dim, RectOf(g.a, g.b)) : g \in {h \in flags : h.shape = "rect"}}
RegionAreas == {RectArea(g.dim, RegionRect(g.a)) : g \in {h \in flags : h.shape = "region"}}

OwnedAreas == WholeAreas \cup RectAreas \cup RegionAreas \cup ChunkAreas

LEMMA OwnedForms ==
  /\ flags # {} => /\ OwnedScope.form = "select"
                   /\ OwnedScope.kinds = SelectedKinds
                   /\ OwnedScope.areas = OwnedAreas
  /\ flags = {} /\ kind = {} => OwnedScope.form = "world"
  /\ flags = {} /\ kind # {} => OwnedScope.form = "kinds" /\ OwnedScope.kinds = kind
  BY DEF OwnedScope, OwnedAreas, WholeAreas, RectAreas, RegionAreas

\* Each area is of one flag, or of the chunk flags of a dimension.
LEMMA AreasSound ==
  ASSUME FlagsSound, NEW a \in OwnedAreas
  PROVE  AreaSound(a)
  <1>1. CASE a \in WholeAreas
    BY <1>1 DEF WholeAreas, AreaSound
  <1>2. CASE a \in RectAreas
    <2>1. PICK g \in flags : g.shape = "rect" /\ a = RectArea(g.dim, RectOf(g.a, g.b))
      BY <1>2 DEF RectAreas
    <2>2. a.shape = "rect" /\ a.rect = RectOf(g.a, g.b)
      BY <2>1 DEF RectArea
    <2>3. QED
      BY <2>1, <2>2, FlagShapes, RectOfSound DEF AreaSound
  <1>3. CASE a \in RegionAreas
    <2>1. PICK g \in flags : g.shape = "region" /\ a = RectArea(g.dim, RegionRect(g.a))
      BY <1>3 DEF RegionAreas
    <2>2. a.shape = "rect" /\ a.rect = RegionRect(g.a)
      BY <2>1 DEF RectArea
    <2>3. QED
      BY <2>1, <2>2, FlagShapes, RegionRectSound DEF AreaSound
  <1>4. CASE a \in ChunkAreas
    <2>1. PICK d : a = [dim |-> d, shape |-> "chunks", chunks |-> {c \in ExplicitChunks : c.dim = d}]
      BY <1>4 DEF ChunkAreas
    <2>2. a.shape = "chunks" /\ a.dim = d /\ a.chunks = {c \in ExplicitChunks : c.dim = d}
      BY <2>1
    <2>3. ASSUME NEW c \in ExplicitChunks, NEW k \in SelectedKinds
          PROVE  Sibling(c, k) \in ExplicitChunks /\ Sibling(c, k).dim = c.dim
      BY DEF Sibling, ExplicitChunks
    <2>4. QED
      BY <2>2, <2>3, Explicit DEF AreaSound
  <1>5. QED
    BY <1>1, <1>2, <1>3, <1>4 DEF OwnedAreas

\* What the areas contain is what the flags name.
LEMMA AreasNamed ==
  ASSUME FlagsSound, NEW c \in ChunkSpace, c.kind \in SelectedKinds
  PROVE  (\E a \in OwnedAreas : a.dim = c.dim /\ AreaContains(a, c)) <=> \E g \in flags : Names(g, c)
  <1>1. ASSUME NEW a \in OwnedAreas, a.dim = c.dim, AreaContains(a, c)
        PROVE  \E g \in flags : Names(g, c)
    <2>1. CASE a \in WholeAreas
      <3>1. PICK g \in flags : g.shape = "all" /\ a = [dim |-> g.dim, shape |-> "all"]
        BY <2>1 DEF WholeAreas
      <3>2. QED
        BY <1>1, <3>1 DEF Names
    <2>2. CASE a \in RectAreas
      <3>1. PICK g \in flags : g.shape = "rect" /\ a = RectArea(g.dim, RectOf(g.a, g.b))
        BY <2>2 DEF RectAreas
      <3>2. a.shape = "rect" /\ a.dim = g.dim /\ a.rect = RectOf(g.a, g.b)
        BY <3>1 DEF RectArea
      <3>3. QED
        BY <1>1, <3>1, <3>2, NamedByRect DEF AreaContains
    <2>3. CASE a \in RegionAreas
      <3>1. PICK g \in flags : g.shape = "region" /\ a = RectArea(g.dim, RegionRect(g.a))
        BY <2>3 DEF RegionAreas
      <3>2. a.shape = "rect" /\ a.dim = g.dim /\ a.rect = RegionRect(g.a)
        BY <3>1 DEF RectArea
      <3>3. QED
        BY <1>1, <3>1, <3>2, NamedByRect DEF AreaContains
    <2>4. CASE a \in ChunkAreas
      <3>1. a.shape = "chunks" /\ a.chunks \subseteq ExplicitChunks
        BY <2>4 DEF ChunkAreas
      <3>2. c \in ExplicitChunks
        BY <1>1, <3>1 DEF AreaContains
      <3>3. QED
        BY <3>2, Explicit
    <2>5. QED
      BY <2>1, <2>2, <2>3, <2>4 DEF OwnedAreas
  <1>2. ASSUME NEW g \in flags, Names(g, c)
        PROVE  \E a \in OwnedAreas : a.dim = c.dim /\ AreaContains(a, c)
    <2>0. g.dim = c.dim
      BY <1>2 DEF Names
    <2>1. CASE g.shape = "all"
      <3> DEFINE a == [dim |-> g.dim, shape |-> "all"]
      <3>1. a \in OwnedAreas
        BY <2>1 DEF OwnedAreas, WholeAreas
      <3>2. QED
        BY <2>0, <3>1 DEF AreaContains
    <2>2. CASE g.shape = "rect"
      <3> DEFINE a == RectArea(g.dim, RectOf(g.a, g.b))
      <3>1. a \in OwnedAreas
        BY <2>2 DEF OwnedAreas, RectAreas
      <3>2. a.shape = "rect" /\ a.dim = g.dim /\ a.rect = RectOf(g.a, g.b)
        BY DEF RectArea
      <3>3. RectContains(RectOf(g.a, g.b), c.x, c.z)
        BY <1>2, <2>2, NamedByRect
      <3> HIDE DEF a
      <3>4. QED
        BY <2>0, <3>1, <3>2, <3>3 DEF AreaContains
    <2>3. CASE g.shape = "region"
      <3> DEFINE a == RectArea(g.dim, RegionRect(g.a))
      <3>1. a \in OwnedAreas
        BY <2>3 DEF OwnedAreas, RegionAreas
      <3>2. a.shape = "rect" /\ a.dim = g.dim /\ a.rect = RegionRect(g.a)
        BY DEF RectArea
      <3>3. RectContains(RegionRect(g.a), c.x, c.z)
        BY <1>2, <2>3, NamedByRect
      <3> HIDE DEF a
      <3>4. QED
        BY <2>0, <3>1, <3>2, <3>3 DEF AreaContains
    <2>4. CASE g.shape = "chunk"
      <3>1. c \in ExplicitChunks
        BY <1>2, <2>4, Explicit
      <3> DEFINE a == [dim |-> c.dim, shape |-> "chunks",
                       chunks |-> {e \in ExplicitChunks : e.dim = c.dim}]
      <3>2. a \in OwnedAreas
        BY <3>1 DEF OwnedAreas, ChunkAreas
      <3>3. a.shape = "chunks" /\ a.dim = c.dim /\ c \in a.chunks
        BY <3>1
      <3> HIDE DEF a
      <3>4. QED
        BY <3>2, <3>3 DEF AreaContains
    <2>5. QED
      BY <2>1, <2>2, <2>3, <2>4, FlagShapes
  <1>3. QED
    BY <1>1, <1>2

\* A chunk is inside exactly when a flag names it.
LEMMA ContainsSelected ==
  ASSUME FlagsSound, NEW c \in ChunkSpace
  PROVE  ScopeContains(OwnedScope, c) <=> Selected(c)
  <1>1. c.kind \in Kinds
    BY DEF ChunkSpace
  <1>2. CASE flags # {}
    BY <1>2, OwnedForms, AreasNamed DEF ScopeContains, Selected
  <1>3. CASE flags = {} /\ kind = {}
    BY <1>1, <1>3, OwnedForms DEF ScopeContains, Selected, SelectedKinds
  <1>4. CASE flags = {} /\ kind # {}
    BY <1>4, OwnedForms DEF ScopeContains, Selected, SelectedKinds
  <1>5. QED
    BY <1>2, <1>3, <1>4

\* A file matches exactly when one of its chunks is inside.
LEMMA MatchesTouched ==
  ASSUME FlagsSound, NEW f \in FileSpace
  PROVE  MatchesRegion(OwnedScope, f) <=> \E c \in ChunkSpace : FileOf(c) = f /\ ScopeContains(OwnedScope, c)
  <1>1. f.kind \in Kinds /\ \E c \in ChunkSpace : FileOf(c) = f
    BY Homes DEF FileSpace
  <1>2. \A c : FileOf(c) = f => c.kind = f.kind /\ c.dim = f.dim
    BY DEF FileOf
  <1>3. CASE flags # {} /\ f.kind \in SelectedKinds
    <2>1. MatchesRegion(OwnedScope, f) <=> \E a \in OwnedAreas : a.dim = f.dim /\ AreaMatches(a, f)
      BY <1>3, OwnedForms DEF MatchesRegion
    <2>2. ASSUME NEW c \in ChunkSpace, FileOf(c) = f
          PROVE  ScopeContains(OwnedScope, c) <=> \E a \in OwnedAreas : a.dim = f.dim /\ AreaContains(a, c)
      BY <1>2, <1>3, <2>2, OwnedForms DEF ScopeContains
    <2>3. \A a \in OwnedAreas : a.dim = f.dim =>
            (AreaMatches(a, f) <=> \E c \in ChunkSpace : FileOf(c) = f /\ AreaContains(a, c))
      BY <1>3, AreasSound, AreaFiles
    <2>4. QED
      BY <2>1, <2>2, <2>3
  <1>4. CASE flags # {} /\ f.kind \notin SelectedKinds
    BY <1>2, <1>4, OwnedForms DEF MatchesRegion, ScopeContains
  <1>5. CASE flags = {} /\ kind = {}
    BY <1>1, <1>5, OwnedForms DEF MatchesRegion, ScopeContains
  <1>6. CASE flags = {} /\ kind # {}
    BY <1>1, <1>2, <1>6, OwnedForms DEF MatchesRegion, ScopeContains
  <1>7. QED
    BY <1>3, <1>4, <1>5, <1>6

\* A file that is covered has no chunk outside.
LEMMA CoversWhole ==
  ASSUME FlagsSound, NEW c \in ChunkSpace, CoversRegion(OwnedScope, FileOf(c))
  PROVE  ScopeContains(OwnedScope, c)
  <1> DEFINE f == FileOf(c)
  <1>1. f \in FileSpace /\ f.kind = c.kind /\ f.dim = c.dim /\ CoversRegion(OwnedScope, f)
    BY Homes DEF FileOf
  <1> HIDE DEF f
  <1>2. CASE flags # {}
    <2>1. f.kind \in SelectedKinds /\ \E a \in OwnedAreas : a.dim = f.dim /\ AreaCovers(a, f)
      BY <1>1, <1>2, OwnedForms DEF CoversRegion
    <2>2. PICK a \in OwnedAreas : a.dim = f.dim /\ AreaCovers(a, f)
      BY <2>1
    <2>3. AreaContains(a, c)
      BY <1>1, <2>1, <2>2, AreasSound, AreaFiles DEF f
    <2>4. c.kind \in SelectedKinds /\ \E b \in OwnedAreas : b.dim = c.dim /\ AreaContains(b, c)
      BY <1>1, <2>1, <2>2, <2>3
    <2>5. QED
      BY <1>2, <2>4, OwnedForms DEF ScopeContains
  <1>3. CASE flags = {} /\ kind = {}
    BY <1>3, OwnedForms DEF ScopeContains
  <1>4. CASE flags = {} /\ kind # {}
    BY <1>1, <1>4, OwnedForms DEF CoversRegion, ScopeContains
  <1>5. QED
    BY <1>2, <1>3, <1>4

\* What diff compares of the coordinates that both sides know.
LEMMA Compared ==
  ASSUME FlagsSound, NEW known \in SUBSET ChunkSpace
  PROVE  DiffCoords(known) = {c \in known : Selected(c)} \cup ExplicitChunks
  <1>1. ExplicitChunks \subseteq ChunkSpace /\ \A c \in ExplicitChunks : Selected(c)
    BY Explicit DEF Selected
  <1>2. \A c \in ChunkSpace : ScopeContains(OwnedScope, c) <=> Selected(c)
    BY ContainsSelected
  <1>3. CASE HasBroadAreas \/ ExplicitChunks = {}
    <2>1. DiffCoords(known) = {c \in ExplicitChunks \cup known : ScopeContains(OwnedScope, c)}
      BY <1>3 DEF DiffCoords
    <2>2. QED
      BY <1>1, <1>2, <2>1
  <1>4. CASE ~ HasBroadAreas /\ ExplicitChunks # {}
    <2>1. DiffCoords(known) = {c \in ExplicitChunks : ScopeContains(OwnedScope, c)}
      BY <1>4 DEF DiffCoords
    <2>2. flags # {} /\ \A g \in flags : g.shape = "chunk"
      BY <1>4 DEF HasBroadAreas, ExplicitChunks
    <2>3. \A c \in ChunkSpace : Selected(c) => c \in ExplicitChunks
      BY <2>2, Explicit DEF Selected
    <2>4. QED
      BY <1>1, <1>2, <2>1, <2>3
  <1>5. QED
    BY <1>3, <1>4

\* A named scope selects what its flags select inline.
LEMMA NamedAlike ==
  ASSUME FlagsSound, Nameable, NEW c \in ChunkSpace
  PROVE  ScopeContains(NamedScope, c) <=> Selected(c)
  <1>1. c.kind \in Kinds /\ SelectedKinds = Kinds /\ flags # {} /\ \A g \in flags : g.shape # "all"
    BY DEF ChunkSpace, Nameable, SelectedKinds
  <1>2. ScopeContains(NamedScope, c) <=> \E a \in NamedAreas : a.dim = c.dim /\ AreaContains(a, c)
    BY <1>1 DEF ScopeContains, NamedScope
  <1> DEFINE Rect(g) == IF g.shape = "region" THEN RegionRect(g.a)
                        ELSE IF g.shape = "chunk" THEN RectOf(g.a, g.a)
                        ELSE RectOf(g.a, g.b)
  <1>3. NamedAreas = {RectArea(g.dim, Rect(g)) : g \in flags}
    BY DEF NamedAreas
  <1>4. \A d, t : /\ RectArea(d, t).dim = d
                  /\ AreaContains(RectArea(d, t), c) <=> RectContains(t, c.x, c.z)
    BY DEF RectArea, AreaContains
  <1>5. ASSUME NEW g \in flags
        PROVE  g.dim = c.dim /\ RectContains(Rect(g), c.x, c.z) <=> Names(g, c)
    BY <1>1, FlagShapes, NamedByRect
  <1> HIDE DEF Rect
  <1>6. QED
    BY <1>1, <1>2, <1>3, <1>4, <1>5 DEF Selected

-----------------------------------------------------------------------------
(* What the run checks. *)

SelectionInv == flags \subseteq FlagSpace /\ kind \in KindFlags \cup {NoCommand}

LEMMA ExactOf == SelectionInv => SelectionExact
  <1> SUFFICES ASSUME SelectionInv, kind # NoCommand PROVE SelectionExact
    BY DEF SelectionExact
  <1>1. FlagsSound
    BY DEF SelectionInv, FlagsSound
  <1> DEFINE s == OwnedScope
             inside == {c \in ChunkSpace : Selected(c)}
             touched == {FileOf(c) : c \in inside}
             crossed == {FileOf(c) : c \in ChunkSpace \ inside}
             evens == {c \in ChunkSpace : (c.x + c.z) % 2 = 0}
  <1>2. {c \in ChunkSpace : ScopeContains(s, c)} = inside
    BY <1>1, ContainsSelected
  <1>3. {f \in FileSpace : MatchesRegion(s, f)} = touched
    <2>1. \A f \in FileSpace : MatchesRegion(s, f) <=> \E c \in inside : FileOf(c) = f
      BY <1>1, <1>2, MatchesTouched
    <2>2. \A c \in inside : FileOf(c) \in FileSpace
      BY Homes
    <2> HIDE DEF inside, s
    <2>3. QED
      BY <2>1, <2>2
  <1>4. {f \in FileSpace : CoversRegion(s, f)} \cap crossed = {}
    <2>1. \A c \in ChunkSpace : CoversRegion(s, FileOf(c)) => c \in inside
      BY <1>1, ContainsSelected, CoversWhole
    <2> HIDE DEF inside, s
    <2>2. QED
      BY <2>1
  <1>5. DiffCoords(evens) = (inside \cap evens) \cup ExplicitChunks
    <2>1. evens \in SUBSET ChunkSpace
      OBVIOUS
    <2>2. {c \in evens : Selected(c)} = inside \cap evens
      BY <2>1
    <2> HIDE DEF evens, inside
    <2>3. QED
      BY <1>1, <2>1, <2>2, Compared
  <1>6. Nameable => {c \in ChunkSpace : ScopeContains(NamedScope, c)} = inside
    BY <1>1, NamedAlike
  <1>7. QED
    BY <1>2, <1>3, <1>4, <1>5, <1>6 DEF SelectionExact

LEMMA SelectionInvCorrect == SelectionSpec => []SelectionInv
  <1>1. SelectionInit => SelectionInv
    BY DEF SelectionInit, SelectionInv
  <1>2. SelectionInv /\ [SelectionStep]_selectionVars => SelectionInv'
    BY DEF SelectionInv, SelectionStep, StartCommand, AddFlag, selectionVars
  <1>3. QED
    BY <1>1, <1>2, PTL DEF SelectionSpec

\* Whatever flags are given, at any width of the integers and any size of a
\* region that divides them: a chunk is inside the scope exactly when a flag
\* names it, a region file matches exactly when a chunk of it is inside, and
\* diff and named scopes agree (util::scope, the flags of cli.rs).
THEOREM SelectionExactCorrect == SelectionSpec => []SelectionExact
  BY SelectionInvCorrect, ExactOf, PTL

-----------------------------------------------------------------------------
(* What is staged. *)

LEMMA Sizes ==
  /\ RowWidth \in Nat \ {0} /\ SectorLen \in Nat \ {0}
  /\ MaxSectors \in Nat /\ MaxOffset \in Nat
  /\ HeaderLen = 2 * SectorLen
  <1>1. RowWidth * RowWidth \in Nat \ {0}
    BY CoordinateAssumption
  <1>2. QED
    BY <1>1, CoordinateAssumption, RegionAssumption DEF HeaderLen, FirstDataSector

StagedSound ==
  /\ DOMAIN staged \subseteq Slots
  /\ \A s \in DOMAIN staged : /\ staged[s] \in Seq(Nat) /\ staged[s] # <<>>
                              /\ Sectors(s) <= MaxSectors

\* The sectors of a run are enough for the payload and its prefix.
LEMMA RunLength ==
  ASSUME StagedSound, NEW s \in DOMAIN staged
  PROVE  /\ Len(staged[s]) \in Nat \ {0}
         /\ Sectors(s) \in 1 .. MaxSectors
         /\ Len(staged[s]) + 1 <= Sectors(s) * SectorLen
  <1> DEFINE n == Len(staged[s])
  <1>1. n \in Nat \ {0}
    BY DEF StagedSound
  <1> HIDE DEF n
  <1>2. Sectors(s) = (n + 1 + SectorLen - 1) \div SectorLen
    BY DEF Sectors, SectorsFor, n
  <1>3. PICK q \in Int : q = (n + 1 + SectorLen - 1) \div SectorLen
                         /\ SectorLen * q <= n + 1 + SectorLen - 1
                         /\ n + 1 + SectorLen - 1 < SectorLen * q + SectorLen
    BY <1>1, Sizes, Division
  <1>4. n + 1 <= q * SectorLen
    BY <1>1, <1>3, Sizes
  <1>5. q >= 1
    <2>1. 0 * SectorLen < q * SectorLen
      BY <1>1, <1>4, Sizes
    <2>2. QED
      BY <2>1, Sizes
  <1>6. q <= MaxSectors
    BY <1>2, <1>3 DEF StagedSound
  <1>7. QED
    BY <1>1, <1>2, <1>3, <1>4, <1>5, <1>6, Sizes DEF n

LEMMA SectorsFinite ==
  ASSUME StagedSound, NEW S \in SUBSET DOMAIN staged
  PROVE  IsFiniteSet(SectorsOf(S))
  <1>1. IsFiniteSet(0 .. RowWidth * RowWidth - 1) /\ IsFiniteSet(1 .. MaxSectors)
    BY Sizes, FS_Interval
  <1>2. IsFiniteSet(S)
    BY <1>1, FS_Subset DEF StagedSound, Slots
  <1>3. IsFiniteSet(S \X (1 .. MaxSectors))
    BY <1>1, <1>2, FS_Product
  <1>4. QED
    BY <1>3, FS_Subset DEF SectorsOf

\* One slot takes its sectors, and slots take different ones.
LEMMA SectorsAdd ==
  ASSUME StagedSound, NEW S \in SUBSET DOMAIN staged, NEW s \in DOMAIN staged \ S
  PROVE  Cardinality(SectorsOf(S \cup {s})) = Cardinality(SectorsOf(S)) + Sectors(s)
  <1>1. Sectors(s) \in 1 .. MaxSectors
    BY RunLength
  <1> DEFINE own == {s} \X (1 .. Sectors(s))
  <1>2. IsFiniteSet(own) /\ Cardinality(own) = Sectors(s)
    <2>1. IsFiniteSet({s}) /\ Cardinality({s}) = 1
      BY FS_Singleton
    <2>2. IsFiniteSet(1 .. Sectors(s)) /\ Cardinality(1 .. Sectors(s)) = Sectors(s)
      BY <1>1, Sizes, FS_Interval
    <2>3. IsFiniteSet(own) /\ Cardinality(own) = 1 * Sectors(s)
      BY <2>1, <2>2, FS_Product
    <2>4. QED
      BY <1>1, <2>3
  <1>3. SectorsOf(S \cup {s}) = SectorsOf(S) \cup own
    BY <1>1, Sizes DEF SectorsOf
  <1>4. SectorsOf(S) \cap own = {}
    BY DEF SectorsOf
  <1>5. IsFiniteSet(SectorsOf(S))
    BY SectorsFinite
  <1> HIDE DEF own
  <1>6. Cardinality(SectorsOf(S) \cup own)
          = Cardinality(SectorsOf(S)) + Cardinality(own) - Cardinality({})
    BY <1>2, <1>4, <1>5, FS_Union
  <1>7. Cardinality({}) = 0
    BY FS_EmptySet
  <1>8. Cardinality(SectorsOf(S)) \in Nat
    BY <1>5, FS_CardinalityType
  <1>9. Sectors(s) \in Int
    BY <1>1
  <1>10. \A a, b, n : a \in Nat /\ n \in Int /\ b = a + n - 0 => b = a + n
    OBVIOUS
  <1>11. Cardinality(SectorsOf(S) \cup own) = Cardinality(SectorsOf(S)) + Sectors(s) - 0
    BY <1>2, <1>6, <1>7
  <1>12. QED
    BY <1>3, <1>8, <1>9, <1>10, <1>11

\* The runs follow each other: none overlaps another or the header.
LEMMA RunsApart ==
  ASSUME StagedSound
  PROVE  /\ End \in Nat /\ End >= 2
         /\ \A s \in DOMAIN staged : /\ OffsetOf(s) \in Nat /\ OffsetOf(s) >= 2
                                     /\ OffsetOf(s) + Sectors(s) <= End
         /\ \A s, t \in DOMAIN staged : s < t => OffsetOf(s) + Sectors(s) <= OffsetOf(t)
  <1> DEFINE Below(s) == {t \in DOMAIN staged : t < s}
             Count(S) == Cardinality(SectorsOf(S))
  <1>1. \A S \in SUBSET DOMAIN staged : Count(S) \in Nat
    BY SectorsFinite, FS_CardinalityType
  <1>2. ASSUME NEW S \in SUBSET DOMAIN staged, NEW T \in SUBSET S
        PROVE  Count(T) <= Count(S)
    <2>1. SectorsOf(T) \subseteq SectorsOf(S)
      BY DEF SectorsOf
    <2>2. QED
      BY <2>1, SectorsFinite, FS_Subset
  <1>3. \A s \in DOMAIN staged : s \in Int
    BY DEF StagedSound, Slots
  <1>4. ASSUME NEW s \in DOMAIN staged
        PROVE  Count(Below(s) \cup {s}) = Count(Below(s)) + Sectors(s)
    BY <1>3, SectorsAdd
  <1>5. ASSUME NEW s \in DOMAIN staged
        PROVE  Below(s) \in SUBSET DOMAIN staged /\ Below(s) \cup {s} \in SUBSET DOMAIN staged
    OBVIOUS
  <1>6. ASSUME NEW s \in DOMAIN staged, NEW t \in DOMAIN staged, s < t
        PROVE  Below(s) \cup {s} \in SUBSET Below(t)
    BY <1>3, <1>6
  <1>7. \A s \in DOMAIN staged : OffsetOf(s) = 2 + Count(Below(s)) /\ Sectors(s) \in Int
    BY RunLength DEF OffsetOf, FirstDataSector
  <1>8. End = 2 + Count(DOMAIN staged)
    BY DEF End, FirstDataSector
  <1> HIDE DEF Below, Count
  <1>9. ASSUME NEW s \in DOMAIN staged
        PROVE  OffsetOf(s) \in Nat /\ OffsetOf(s) >= 2 /\ OffsetOf(s) + Sectors(s) <= End
    <2>1. Count(Below(s)) \in Nat /\ Count(DOMAIN staged) \in Nat
      BY <1>1, <1>5
    <2>2. Count(Below(s) \cup {s}) <= Count(DOMAIN staged)
      BY <1>2, <1>5
    <2>3. QED
      BY <1>4, <1>7, <1>8, <2>1, <2>2
  <1>10. ASSUME NEW s \in DOMAIN staged, NEW t \in DOMAIN staged, s < t
         PROVE  OffsetOf(s) + Sectors(s) <= OffsetOf(t)
    <2>1. Count(Below(s)) \in Nat /\ Count(Below(t)) \in Nat
      BY <1>1, <1>5
    <2>2. Count(Below(s) \cup {s}) <= Count(Below(t))
      BY <1>2, <1>5, <1>6, <1>10
    <2>3. QED
      BY <1>4, <1>7, <2>1, <2>2
  <1>11. End \in Nat /\ End >= 2
    BY <1>1, <1>8
  <1>12. QED
    BY <1>9, <1>10, <1>11

-----------------------------------------------------------------------------
(* The image. *)

TableEntries == [offset : Nat, count : Nat]

ImageSound ==
  /\ image.size \in Nat
  /\ image.size # 0 => image.size >= HeaderLen
  /\ image.table \in [Slots -> TableEntries]
  /\ image.data \in [HeaderLen .. image.size - 1 -> Nat]

Addressable == \A s \in DOMAIN staged : OffsetOf(s) + Sectors(s) <= MaxOffset

LEMMA Starts ==
  ASSUME StagedSound, NEW s \in DOMAIN staged
  PROVE  /\ Start(s) \in Nat /\ Start(s) >= HeaderLen
         /\ Start(s) + Len(staged[s]) < End * SectorLen
         /\ \A t \in DOMAIN staged : s < t => Start(s) + Len(staged[s]) < Start(t)
  <1> DEFINE last == OffsetOf(s) + Sectors(s)
  <1>1. /\ OffsetOf(s) \in Nat /\ OffsetOf(s) >= 2 /\ last <= End /\ End \in Nat
        /\ Sectors(s) \in Nat /\ Len(staged[s]) \in Nat
        /\ Len(staged[s]) + 1 <= Sectors(s) * SectorLen
    BY RunsApart, RunLength, Sizes
  <1>2. last * SectorLen = OffsetOf(s) * SectorLen + Sectors(s) * SectorLen
    BY <1>1, Sizes
  <1>3. Start(s) \in Nat /\ Start(s) = OffsetOf(s) * SectorLen
    BY <1>1, Sizes DEF Start
  <1>4. Start(s) + Len(staged[s]) < last * SectorLen
    BY <1>1, <1>2, <1>3, Sizes
  <1>5. last \in Nat
    BY <1>1
  <1> HIDE DEF last
  <1>6. last * SectorLen <= End * SectorLen /\ 2 * SectorLen <= OffsetOf(s) * SectorLen
    BY <1>1, <1>5, Sizes, Multiples
  <1>7. ASSUME NEW t \in DOMAIN staged, s < t
        PROVE  Start(s) + Len(staged[s]) < Start(t)
    <2>1. OffsetOf(t) \in Nat /\ last <= OffsetOf(t)
      BY <1>7, RunsApart DEF last
    <2>2. last * SectorLen <= OffsetOf(t) * SectorLen
      BY <1>5, <2>1, Sizes, Multiples
    <2>3. Start(t) = OffsetOf(t) * SectorLen
      BY DEF Start
    <2>4. last * SectorLen \in Nat /\ OffsetOf(t) * SectorLen \in Nat
      BY <1>5, <2>1, Sizes
    <2>5. QED
      BY <1>1, <1>3, <1>4, <2>2, <2>3, <2>4
  <1>8. last * SectorLen \in Nat /\ End * SectorLen \in Nat
    BY <1>1, <1>5, Sizes
  <1>9. QED
    BY <1>1, <1>3, <1>4, <1>6, <1>7, <1>8, Sizes

\* Each chunk has its prefix and its payload where its entry says.
LEMMA Placed ==
  ASSUME StagedSound, NEW s \in DOMAIN staged, NEW j \in 0 .. Len(staged[s])
  PROVE  /\ Start(s) + j \in HeaderLen .. End * SectorLen - 1
         /\ Assembled.data[Start(s) + j] = IF j = 0 THEN Len(staged[s]) ELSE staged[s][j]
  <1> DEFINE i == Start(s) + j
  <1>1. Len(staged[s]) \in Nat /\ Start(s) \in Nat /\ End * SectorLen \in Nat /\ HeaderLen \in Nat
    BY RunLength, Starts, RunsApart, Sizes
  <1>2. i \in Nat /\ i \in HeaderLen .. End * SectorLen - 1
    BY <1>1, Starts
  <1>3. Holds(s, i)
    BY <1>1 DEF Holds
  <1>4. ASSUME NEW t \in DOMAIN staged, Holds(t, i)
        PROVE  t = s
    <2>1. Len(staged[t]) \in Nat /\ Start(t) \in Nat
      BY RunLength, Starts
    <2>2. Start(t) <= i /\ i <= Start(t) + Len(staged[t])
      BY <1>2, <1>4, <2>1 DEF Holds
    <2>3. s \in Int /\ t \in Int
      BY DEF StagedSound, Slots
    <2>4. ~ s < t /\ ~ t < s
      BY <1>1, <1>2, <2>1, <2>2, Starts
    <2>5. QED
      BY <2>3, <2>4
  <1>5. (CHOOSE t \in DOMAIN staged : Holds(t, i)) = s
    BY <1>3, <1>4
  <1>6. Assembled.data[i] = CellOf(s, i)
    BY <1>2, <1>3, <1>5 DEF Assembled
  <1>7. (i = Start(s) <=> j = 0) /\ i - Start(s) = j
    BY <1>1
  <1>8. QED
    BY <1>2, <1>6, <1>7 DEF CellOf

LEMMA AssembledSound ==
  ASSUME StagedSound, image = Assembled
  PROVE  ImageSound
  <1>1. End \in Nat /\ End >= 2 /\ End * SectorLen \in Nat /\ 2 * SectorLen <= End * SectorLen
    BY RunsApart, Sizes, Multiples
  <1>2. image.size = End * SectorLen
    BY DEF Assembled
  <1>3. image.table \in [Slots -> TableEntries]
    <2>1. ASSUME NEW s \in DOMAIN staged
          PROVE  OffsetOf(s) % (MaxOffset + 1) \in Nat /\ Sectors(s) \in Nat
      BY RunsApart, RunLength, Sizes
    <2>2. QED
      BY <2>1 DEF Assembled, TableEntries
  <1>4. image.data \in [HeaderLen .. image.size - 1 -> Nat]
    <2>1. ASSUME NEW i \in HeaderLen .. End * SectorLen - 1, NEW s \in DOMAIN staged, Holds(s, i)
          PROVE  CellOf(s, i) \in Nat
      <3>1. Len(staged[s]) \in Nat /\ staged[s] \in Seq(Nat) /\ Start(s) \in Nat
        BY RunLength, Starts DEF StagedSound
      <3>2. i # Start(s) => i - Start(s) \in 1 .. Len(staged[s])
        BY <2>1, <3>1, Sizes, <1>1 DEF Holds
      <3>3. QED
        BY <3>1, <3>2 DEF CellOf
    <2>2. ASSUME NEW i \in HeaderLen .. End * SectorLen - 1
          PROVE  image.data[i] \in Nat
      BY <2>1 DEF Assembled
    <2>3. QED
      BY <1>2, <2>2 DEF Assembled
  <1>5. QED
    BY <1>1, <1>2, <1>3, <1>4, Sizes DEF ImageSound

\* What the reader makes of a chunk that is all there.
LEMMA ReadsBack ==
  ASSUME StagedSound, NEW s \in DOMAIN staged, image.size \in Nat,
         NEW e, e.offset = OffsetOf(s), e.count = Sectors(s),
         Start(s) + Len(staged[s]) < image.size,
         \A j \in 0 .. Len(staged[s]) :
           image.data[Start(s) + j] = IF j = 0 THEN Len(staged[s]) ELSE staged[s][j]
  PROVE  SectorPayload(e) = Chunk(staged[s])
  <1>1. Len(staged[s]) \in Nat \ {0} /\ Start(s) \in Nat /\ staged[s] \in Seq(Nat)
        /\ Len(staged[s]) + 1 <= e.count * SectorLen
    BY RunLength, Starts DEF StagedSound
  <1>2. e.offset * SectorLen = Start(s)
    BY DEF Start
  <1>3. image.data[Start(s)] = Len(staged[s])
    <2>1. 0 \in 0 .. Len(staged[s]) /\ Start(s) + 0 = Start(s)
      BY <1>1
    <2>2. QED
      BY <2>1
  <1>4. [i \in 1 .. Len(staged[s]) |-> image.data[Start(s) + i]] = staged[s]
    <2>1. \A i \in 1 .. Len(staged[s]) : image.data[Start(s) + i] = staged[s][i]
      BY <1>1
    <2>2. QED
      BY <1>1, <2>1
  <1>5. /\ ~ Start(s) + 1 > image.size
        /\ Len(staged[s]) # 0 /\ ~ Len(staged[s]) + 1 > e.count * SectorLen
        /\ ~ Start(s) + 1 + Len(staged[s]) > image.size
    <2>1. e.count * SectorLen \in Int
      BY RunLength, Sizes
    <2>2. QED
      BY <1>1, <2>1
  <1>6. QED
    BY <1>2, <1>3, <1>4, <1>5 DEF SectorPayload

-----------------------------------------------------------------------------
(* Slots. *)

\* A slot is a place of the region, by its column and its row.
LEMMA SlotPlaces ==
  ASSUME NEW l \in Int \X Int
  PROVE  /\ \A x, z \in Int : InRegion(l, x, z) => SlotOf(l, x, z) \in Slots
         /\ \A s \in Slots : LET c == CoordAt(l, s) IN
              c[1] \in Int /\ c[2] \in Int /\ InRegion(l, c[1], c[2]) /\ SlotOf(l, c[1], c[2]) = s
  <1>1. l[1] * RowWidth \in Int /\ l[2] * RowWidth \in Int
    BY Sizes
  <1>2. ASSUME NEW x \in Int, NEW z \in Int, InRegion(l, x, z)
        PROVE  SlotOf(l, x, z) \in Slots
    <2> DEFINE dx == x - l[1] * RowWidth  dz == z - l[2] * RowWidth
    <2>1. dx \in 0 .. RowWidth - 1 /\ dz \in 0 .. RowWidth - 1 /\ SlotOf(l, x, z) = dx + RowWidth * dz
      BY <1>2 DEF InRegion, SlotOf
    <2> HIDE DEF dx, dz
    <2>2. dz * RowWidth + RowWidth <= RowWidth * RowWidth /\ 0 * RowWidth <= dz * RowWidth
      BY <2>1, Sizes, Multiples
    <2>3. dz * RowWidth \in Int /\ RowWidth * dz = dz * RowWidth /\ RowWidth * RowWidth \in Int
      BY <2>1, Sizes
    <2>4. QED
      BY <2>1, <2>2, <2>3, Sizes DEF Slots
  <1>3. ASSUME NEW s \in Slots
        PROVE  LET c == CoordAt(l, s) IN
               c[1] \in Int /\ c[2] \in Int /\ InRegion(l, c[1], c[2]) /\ SlotOf(l, c[1], c[2]) = s
    <2> DEFINE q == s \div RowWidth  m == s % RowWidth
    <2>1. s \in Int /\ 0 <= s /\ s < RowWidth * RowWidth
      BY Sizes DEF Slots
    <2>2. q \in Int /\ m \in 0 .. RowWidth - 1 /\ s = RowWidth * q + m
      BY <2>1, Sizes
    <2>3. CoordAt(l, s) = <<l[1] * RowWidth + m, l[2] * RowWidth + q>>
      BY DEF CoordAt
    <2> HIDE DEF q, m
    <2>4. RowWidth * q \in Int /\ RowWidth * q = q * RowWidth
      BY <2>2, Sizes
    <2>5. 0 * RowWidth < q * RowWidth + RowWidth /\ q * RowWidth < RowWidth * RowWidth
      BY <2>1, <2>2, <2>4, Sizes
    <2>6. q \in 0 .. RowWidth - 1
      <3>1. q < RowWidth
        BY <2>2, <2>5, Sizes, Multiples
      <3>2. 0 < q + 1
        <4>1. 0 * RowWidth < (q + 1) * RowWidth
          BY <2>2, <2>4, <2>5, Sizes
        <4>2. QED
          BY <2>2, <4>1, Sizes
      <3>3. QED
        BY <2>2, <3>1, <3>2, Sizes
    <2>7. /\ l[1] * RowWidth + m - l[1] * RowWidth = m
          /\ l[2] * RowWidth + q - l[2] * RowWidth = q
      BY <1>1, <2>2
    <2> DEFINE c == CoordAt(l, s)
    <2>8. c[1] = l[1] * RowWidth + m /\ c[2] = l[2] * RowWidth + q
      BY <2>3
    <2> HIDE DEF c
    <2>9. c[1] \in Int /\ c[2] \in Int
      BY <1>1, <2>2, <2>8
    <2>14. c[1] - l[1] * RowWidth = m /\ c[2] - l[2] * RowWidth = q
      <3>1. ASSUME NEW a \in Int, NEW b \in Int, NEW d, d = a + b PROVE d - a = b
        BY <3>1
      <3>2. QED
        BY <1>1, <2>2, <2>8, <3>1
    <2>10. InRegion(l, c[1], c[2])
      BY <2>2, <2>6, <2>14 DEF InRegion
    <2>11. SlotOf(l, c[1], c[2]) = m + RowWidth * q
      BY <2>14 DEF SlotOf
    <2>12. SlotOf(l, c[1], c[2]) = s
      BY <2>2, <2>4, <2>11
    <2>13. QED
      BY <2>9, <2>10, <2>12 DEF c
  <1>4. QED
    BY <1>2, <1>3

\* A lookup by coordinates reads the slot of the coordinates.
LEMMA LookupReadsSlot ==
  ASSUME NEW x, NEW z
  PROVE  ChunkPayload(x, z) = IF InRegion(loc, x, z) THEN ChunkAt(SlotOf(loc, x, z)) ELSE None
  BY DEF ChunkPayload, ChunkAt

-----------------------------------------------------------------------------
(* Whole, cut and damaged files. *)

LEMMA EntryWhole ==
  ASSUME StagedSound, Addressable, NEW s \in Slots
  PROVE  Assembled.table[s] = IF s \in DOMAIN staged
                              THEN [offset |-> OffsetOf(s), count |-> Sectors(s)]
                              ELSE [offset |-> 0, count |-> 0]
  <1>1. ASSUME s \in DOMAIN staged PROVE OffsetOf(s) % (MaxOffset + 1) = OffsetOf(s)
    <2>1. OffsetOf(s) \in 0 .. MaxOffset
      <3>1. OffsetOf(s) \in Nat /\ Sectors(s) \in Nat /\ OffsetOf(s) + Sectors(s) <= MaxOffset
        BY <1>1, RunsApart, RunLength, Sizes DEF Addressable
      <3>2. QED
        BY <3>1, Sizes
    <2>2. QED
      BY <2>1, Sizes
  <1>2. QED
    BY <1>1 DEF Assembled

\* What a file that begins like the assembled one gives for a slot.
LEMMA SlotReads ==
  ASSUME StagedSound, Addressable, NEW s \in Slots,
         image.size \in Nat, image.size # 0 => image.size >= HeaderLen,
         image.size <= End * SectorLen, image.table = Assembled.table,
         \A i \in HeaderLen .. image.size - 1 : image.data[i] = Assembled.data[i]
  PROVE  ChunkAt(s) = IF image.size = 0 \/ s \notin DOMAIN staged THEN None
                      ELSE IF Start(s) + Len(staged[s]) < image.size THEN Chunk(staged[s])
                      ELSE Bad
  <1>1. CASE image.size = 0
    BY <1>1 DEF ChunkAt
  <1>2. CASE image.size # 0 /\ s \notin DOMAIN staged
    <2>1. image.table[s] = [offset |-> 0, count |-> 0]
      <3>1. Assembled.table[s] = [offset |-> 0, count |-> 0]
        BY <1>2, EntryWhole
      <3>2. QED
        BY <3>1
    <2>2. QED
      BY <1>2, <2>1 DEF ChunkAt
  <1>3. CASE image.size # 0 /\ s \in DOMAIN staged
    <2> DEFINE e == image.table[s]
    <2>1. e.offset = OffsetOf(s) /\ e.count = Sectors(s)
      <3>1. Assembled.table[s] = [offset |-> OffsetOf(s), count |-> Sectors(s)]
        BY <1>3, EntryWhole
      <3>2. QED
        BY <3>1
    <2>2. /\ OffsetOf(s) \in Nat /\ OffsetOf(s) >= 2 /\ Sectors(s) \in Nat \ {0}
          /\ Start(s) \in Nat /\ Start(s) >= HeaderLen /\ Len(staged[s]) \in Nat \ {0}
      BY <1>3, RunsApart, RunLength, Starts
    <2>3. ChunkAt(s) = IF Start(s) >= image.size THEN Bad ELSE SectorPayload(e)
      <3>1. e.offset * SectorLen = Start(s)
        BY <2>1 DEF Start
      <3>2. ~ (e.offset = 0 /\ e.count = 0) /\ ~ (e.offset < FirstDataSector \/ e.count = 0)
        BY <2>1, <2>2 DEF FirstDataSector
      <3>3. QED
        BY <1>3, <3>1, <3>2 DEF ChunkAt
    <2> HIDE DEF e
    <2>4. ASSUME NEW j \in 0 .. Len(staged[s]), Start(s) + j < image.size
          PROVE  image.data[Start(s) + j] = IF j = 0 THEN Len(staged[s]) ELSE staged[s][j]
      <3>1. Start(s) + j \in HeaderLen .. image.size - 1
        BY <2>2, <2>4, Sizes
      <3>2. QED
        BY <1>3, <3>1, Placed
    <2>5. CASE Start(s) + Len(staged[s]) < image.size
      <3>1. ~ Start(s) >= image.size
        BY <2>2, <2>5
      <3>2. \A j \in 0 .. Len(staged[s]) : Start(s) + j < image.size
        BY <2>2, <2>5
      <3>3. SectorPayload(e) = Chunk(staged[s])
        BY <1>3, <2>1, <2>4, <2>5, <3>2, ReadsBack
      <3>4. QED
        BY <1>3, <2>3, <2>5, <3>1, <3>3
    <2>6. CASE Start(s) < image.size /\ ~ Start(s) + Len(staged[s]) < image.size
      <3>1. 0 \in 0 .. Len(staged[s]) /\ Start(s) + 0 = Start(s)
        BY <2>2
      <3>2. image.data[Start(s)] = Len(staged[s])
        BY <2>4, <2>6, <3>1
      <3>3. e.offset * SectorLen = Start(s)
        BY <2>1 DEF Start
      <3>4. Start(s) + 1 + Len(staged[s]) > image.size
        BY <2>2, <2>6
      <3>5. SectorPayload(e) = Bad
        BY <3>2, <3>3, <3>4 DEF SectorPayload
      <3>6. ~ Start(s) >= image.size
        BY <2>2, <2>6
      <3>7. QED
        BY <1>3, <2>3, <2>6, <3>5, <3>6
    <2>7. CASE ~ Start(s) < image.size
      <3>1. Start(s) >= image.size /\ ~ Start(s) + Len(staged[s]) < image.size
        BY <2>2, <2>7
      <3>2. QED
        BY <1>3, <2>3, <3>1
    <2>8. QED
      BY <2>5, <2>6, <2>7
  <1>4. QED
    BY <1>1, <1>2, <1>3
-----------------------------------------------------------------------------
(* The invariant. *)

BuiltInv == intact = "built" => image = Assembled

\* A file cut off is the assembled one up to where it ends.
CutInv ==
  intact = "cut" =>
    /\ image.size <= End * SectorLen
    /\ image.table = Assembled.table
    /\ \A i \in HeaderLen .. image.size - 1 : image.data[i] = Assembled.data[i]

RegionInv ==
  /\ loc \in {NoLoc} \cup (Int \X Int)
  /\ StagedSound
  /\ intact \in {"unbuilt", "built", "cut", "damaged"}
  /\ intact # "unbuilt" => loc # NoLoc /\ Addressable /\ ImageSound
  /\ BuiltInv
  /\ CutInv

LEMMA InitInv == RegionInit => RegionInv
  BY DEF RegionInit, RegionInv, StagedSound, BuiltInv, CutInv, NoLoc

\* The file keeps its shape and the staged chunks as long as those stay.
LEMMA Steady ==
  ASSUME UNCHANGED staged
  PROVE  /\ StagedSound' <=> StagedSound
         /\ Addressable' <=> Addressable
         /\ Assembled' = Assembled
         /\ End' = End
  <1>1. \A s : Sectors(s)' = Sectors(s)
    BY DEF Sectors
  <1>2. \A S : SectorsOf(S)' = SectorsOf(S)
    BY <1>1 DEF SectorsOf
  <1>3. End' = End /\ \A s : OffsetOf(s)' = OffsetOf(s)
    BY <1>2 DEF End, OffsetOf
  <1>4. \A s : Start(s)' = Start(s)
    BY <1>3 DEF Start
  <1>5. \A s, i : (Holds(s, i)' <=> Holds(s, i)) /\ CellOf(s, i)' = CellOf(s, i)
    BY <1>4 DEF Holds, CellOf
  <1>6. QED
    BY <1>1, <1>3, <1>5 DEF StagedSound, Addressable, Assembled

LEMMA StepInv ==
  ASSUME RegionInv, [RegionStep]_regionVars
  PROVE  RegionInv'
  <1>1. CASE NewBuilder
    <2>1. StagedSound' /\ UNCHANGED <<staged, image, intact>>
      BY <1>1, Steady DEF NewBuilder, RegionInv
    <2>2. loc' \in Int \X Int /\ intact = "unbuilt"
      BY <1>1, RegionAssumption DEF NewBuilder, RegionInv
    <2>3. QED
      BY <2>1, <2>2 DEF RegionInv, BuiltInv, CutInv
  <1>2. CASE StageChunk
    <2>1. /\ loc \in Int \X Int /\ UNCHANGED <<loc, image, intact>> /\ intact = "unbuilt"
      BY <1>2 DEF StageChunk, RegionInv
    <2>2. PICK x \in Ints, z \in Ints, p \in Payloads :
            /\ p # <<>> /\ SectorsFor(Len(p)) <= MaxSectors /\ InRegion(loc, x, z)
            /\ staged' = [s \in DOMAIN staged \cup {SlotOf(loc, x, z)} |->
                            IF s = SlotOf(loc, x, z) THEN p ELSE staged[s]]
      BY <1>2 DEF StageChunk
    <2>3. SlotOf(loc, x, z) \in Slots
      BY <2>1, <2>2, SlotPlaces DEF Ints
    <2>4. p \in Seq(Nat)
      BY RegionAssumption
    <2>5. StagedSound'
      BY <2>2, <2>3, <2>4 DEF RegionInv, StagedSound, Sectors
    <2>6. QED
      BY <2>1, <2>5 DEF RegionInv, BuiltInv, CutInv
  <1>3. CASE RemoveChunk
    <2>1. /\ loc \in Int \X Int /\ UNCHANGED <<loc, image, intact>> /\ intact = "unbuilt"
      BY <1>3 DEF RemoveChunk, RegionInv
    <2>2. StagedSound'
      BY <1>3 DEF RemoveChunk, RegionInv, StagedSound, Sectors
    <2>3. QED
      BY <2>1, <2>2 DEF RegionInv, BuiltInv, CutInv
  <1>4. CASE BuildImage
    <2>1. /\ UNCHANGED <<loc, staged>> /\ loc # NoLoc /\ Addressable /\ intact' = "built"
          /\ image' = Assembled
      BY <1>4 DEF BuildImage, Addressable
    <2>2. StagedSound' /\ Addressable' /\ image' = Assembled'
      BY <2>1, Steady DEF RegionInv
    <2>3. ImageSound'
      <3>1. (StagedSound /\ image = Assembled => ImageSound)'
        BY AssembledSound, PTL
      <3>2. QED
        BY <2>2, <3>1
    <2>4. QED
      BY <2>1, <2>2, <2>3 DEF RegionInv, BuiltInv, CutInv
  <1>5. CASE CutOff
    <2>1. /\ UNCHANGED <<loc, staged>> /\ intact = "built" /\ intact' = "cut"
          /\ image = Assembled /\ ImageSound /\ loc # NoLoc
      BY <1>5 DEF CutOff, RegionInv, BuiltInv
    <2>2. StagedSound' /\ Addressable' /\ Assembled' = Assembled /\ End' = End
      BY <2>1, Steady DEF RegionInv
    <2>3. PICK n \in {0} \cup HeaderLen .. image.size - 1 :
            image' = [image EXCEPT !.size = n,
                                   !.data = [i \in HeaderLen .. n - 1 |-> image.data[i]]]
      BY <1>5 DEF CutOff
    <2>4. /\ image'.size = n /\ image'.table = image.table
          /\ image'.data = [i \in HeaderLen .. n - 1 |-> image.data[i]]
      BY <2>1, <2>3 DEF Assembled
    <2>5. n \in Nat /\ n <= image.size /\ (n # 0 => n >= HeaderLen)
      BY <2>1, Sizes DEF ImageSound
    <2>6. ImageSound'
      <3>1. HeaderLen' = HeaderLen /\ Slots' = Slots
        OBVIOUS
      <3>2. \A i \in HeaderLen .. n - 1 : image.data[i] \in Nat
        BY <2>1, <2>5, Sizes DEF ImageSound
      <3>3. QED
        BY <2>1, <2>4, <2>5, <3>2 DEF ImageSound
    <2>7. CutInv'
      <3>1. image.size = End * SectorLen
        BY <2>1 DEF Assembled
      <3>2. \A i \in HeaderLen .. n - 1 : image'.data[i] = Assembled.data[i]
        BY <2>1, <2>4
      <3>3. image'.table = Assembled.table
        BY <2>1, <2>4
      <3>4. QED
        BY <2>2, <2>4, <2>5, <3>1, <3>2, <3>3 DEF CutInv
    <2>8. QED
      BY <2>1, <2>2, <2>6, <2>7 DEF RegionInv, BuiltInv
  <1>6. CASE DamageEntry
    <2>1. /\ UNCHANGED <<loc, staged>> /\ intact = "built" /\ intact' = "damaged"
          /\ image = Assembled /\ ImageSound /\ loc # NoLoc
      BY <1>6 DEF DamageEntry, RegionInv, BuiltInv
    <2>2. StagedSound' /\ Addressable'
      BY <2>1, Steady DEF RegionInv
    <2>3. PICK s \in Slots, e \in BadEntries : image' = [image EXCEPT !.table[s] = e]
      BY <1>6 DEF DamageEntry
    <2>4. /\ image'.size = image.size /\ image'.data = image.data
          /\ image'.table = [image.table EXCEPT ![s] = e]
      BY <2>1, <2>3 DEF Assembled
    <2>5. ImageSound'
      BY <2>1, <2>4, RegionAssumption DEF ImageSound, TableEntries
    <2>6. QED
      BY <2>1, <2>2, <2>5 DEF RegionInv, BuiltInv, CutInv
  <1>7. CASE DamageLength
    <2>1. /\ UNCHANGED <<loc, staged>> /\ intact = "built" /\ intact' = "damaged"
          /\ image = Assembled /\ ImageSound /\ loc # NoLoc
      BY <1>7 DEF DamageLength, RegionInv, BuiltInv
    <2>2. StagedSound' /\ Addressable'
      BY <2>1, Steady DEF RegionInv
    <2>3. PICK s \in DOMAIN staged, n \in BadLengths : image' = [image EXCEPT !.data[Start(s)] = n]
      BY <1>7 DEF DamageLength
    <2>4. /\ image'.size = image.size /\ image'.table = image.table
          /\ image'.data = [image.data EXCEPT ![Start(s)] = n]
      BY <2>1, <2>3 DEF Assembled
    <2>5. ImageSound'
      BY <2>1, <2>4, RegionAssumption DEF ImageSound
    <2>6. QED
      BY <2>1, <2>2, <2>5 DEF RegionInv, BuiltInv, CutInv
  <1>8. CASE UNCHANGED regionVars
    <2>1. UNCHANGED <<loc, staged, image, intact>>
      BY <1>8 DEF regionVars
    <2>2. QED
      BY <2>1, Steady DEF RegionInv, BuiltInv, CutInv, ImageSound
  <1>9. QED
    BY <1>1, <1>2, <1>3, <1>4, <1>5, <1>6, <1>7, <1>8 DEF RegionStep
-----------------------------------------------------------------------------
(* What the reader returns. *)

\* What a file not damaged gives for a slot.
LEMMA InvReads ==
  ASSUME RegionInv, intact \in {"built", "cut"}, NEW s \in Slots
  PROVE  ChunkAt(s) = IF image.size = 0 \/ s \notin DOMAIN staged THEN None
                      ELSE IF Start(s) + Len(staged[s]) < image.size THEN Chunk(staged[s])
                      ELSE Bad
  <1>1. /\ StagedSound /\ Addressable /\ image.size \in Nat
        /\ image.size # 0 => image.size >= HeaderLen
    BY DEF RegionInv, ImageSound
  <1>2. /\ image.size <= End * SectorLen /\ image.table = Assembled.table
        /\ \A i \in HeaderLen .. image.size - 1 : image.data[i] = Assembled.data[i]
    <2>1. CASE intact = "built"
      <3>1. image = Assembled /\ image.size = End * SectorLen
        BY <2>1 DEF RegionInv, BuiltInv, Assembled
      <3>2. image.size <= End * SectorLen
        BY <1>1, <3>1
      <3>3. QED
        BY <3>1, <3>2, Zenon
    <2>2. CASE intact = "cut"
      BY <2>2 DEF RegionInv, CutInv
    <2>3. QED
      BY <2>1, <2>2
  <1>3. QED
    BY <1>1, <1>2, SlotReads

\* An image as built gives every chunk back.
LEMMA InvRoundTrip == RegionInv => RoundTrip
  <1> SUFFICES ASSUME RegionInv, intact = "built"
               PROVE  /\ \A x, z \in Ints : ChunkPayload(x, z) = StagedAt(x, z)
                      /\ {<<CoordAt(loc, s), ChunkAt(s).bytes>> : s \in Walked}
                           = {<<CoordAt(loc, s), staged[s]>> : s \in DOMAIN staged}
    BY DEF RoundTrip
  <1>1. StagedSound /\ loc \in Int \X Int /\ image.size = End * SectorLen
    BY DEF RegionInv, BuiltInv, Assembled
  <1>2. ASSUME NEW s \in Slots
        PROVE  ChunkAt(s) = IF s \in DOMAIN staged THEN Chunk(staged[s]) ELSE None
    <2>1. ASSUME s \in DOMAIN staged
          PROVE  image.size # 0 /\ Start(s) + Len(staged[s]) < image.size
      BY <1>1, <2>1, Starts, RunLength, Sizes
    <2>2. QED
      BY <2>1, InvReads
  <1>3. ASSUME NEW x \in Ints, NEW z \in Ints
        PROVE  ChunkPayload(x, z) = StagedAt(x, z)
    <2>1. InRegion(loc, x, z) => SlotOf(loc, x, z) \in Slots
      BY <1>1, SlotPlaces DEF Ints
    <2>2. QED
      BY <1>2, <2>1, LookupReadsSlot DEF StagedAt
  <1>4. Walked = DOMAIN staged
    <2>1. \A s \in Slots : /\ ChunkAt(s).found # "error"
                           /\ ChunkAt(s).found = "chunk" <=> s \in DOMAIN staged
      BY <1>2 DEF Chunk, None
    <2>2. \A s \in Slots : 0 .. s \subseteq Slots
      BY Sizes DEF Slots
    <2>3. \A s \in Slots : \A t \in 0 .. s : ChunkAt(t).found # "error"
      <3>1. ASSUME NEW s \in Slots, NEW t \in 0 .. s PROVE ChunkAt(t).found # "error"
        <4>1. t \in Slots
          BY <2>2
        <4>2. QED
          BY <2>1, <4>1
      <3>2. QED
        BY <3>1
    <2>4. Walked = {s \in Slots : s \in DOMAIN staged}
      BY <2>1, <2>3 DEF Walked
    <2>5. QED
      BY <1>1, <2>4 DEF StagedSound
  <1>5. \A s \in DOMAIN staged : ChunkAt(s).bytes = staged[s]
    BY <1>1, <1>2 DEF Chunk, StagedSound
  <1>6. QED
    BY <1>3, <1>4, <1>5

\* A file cut off gives less only by an error.
LEMMA InvCutIsLoud == RegionInv => CutIsLoud
  <1> SUFFICES ASSUME RegionInv, intact = "cut", NEW x \in Ints, NEW z \in Ints
               PROVE  ChunkPayload(x, z)
                        \in {StagedAt(x, z)} \cup (IF image.size = 0 THEN {None} ELSE {Bad})
    BY DEF CutIsLoud
  <1>1. loc \in Int \X Int
    BY DEF RegionInv
  <1>2. InRegion(loc, x, z) => SlotOf(loc, x, z) \in Slots
    BY <1>1, SlotPlaces DEF Ints
  <1>3. QED
    BY <1>2, InvReads, LookupReadsSlot DEF StagedAt

\* Both lookups read the same slot, and no more than its sectors.
LEMMA InvLookupsAgree == RegionInv => LookupsAgree
  <1> SUFFICES ASSUME RegionInv, intact # "unbuilt", NEW s \in Slots
               PROVE  LET c == CoordAt(loc, s) IN
                      /\ ChunkPayload(c[1], c[2]) = ChunkAt(s)
                      /\ ChunkAt(s).found = "chunk" =>
                           Len(ChunkAt(s).bytes) + 1 <= SectorLen * image.table[s].count
    BY DEF LookupsAgree
  <1>1. loc \in Int \X Int /\ ImageSound
    BY DEF RegionInv
  <1>2. LET c == CoordAt(loc, s) IN ChunkPayload(c[1], c[2]) = ChunkAt(s)
    BY <1>1, SlotPlaces, LookupReadsSlot
  <1>3. ASSUME ChunkAt(s).found = "chunk"
        PROVE  Len(ChunkAt(s).bytes) + 1 <= SectorLen * image.table[s].count
    <2> DEFINE e == image.table[s]
               base == e.offset * SectorLen
               len == image.data[base]
    <2>1. e.offset \in Nat /\ e.count \in Nat
      BY <1>1 DEF ImageSound, TableEntries
    <2>2. /\ image.size # 0 /\ ~ e.offset < FirstDataSector /\ ~ base >= image.size
          /\ ChunkAt(s) = SectorPayload(e)
      BY <1>3 DEF ChunkAt, None, Bad
    <2>3. /\ ~ (len = 0 \/ len + 1 > e.count * SectorLen)
          /\ ChunkAt(s) = Chunk([i \in 1 .. len |-> image.data[base + i]])
      BY <1>3, <2>2 DEF SectorPayload, Bad
    <2>4. base \in HeaderLen .. image.size - 1
      <3>3. PICK k \in Nat : k = e.offset
        BY <2>1
      <3>4. 2 <= k
        BY <2>2, <3>3 DEF FirstDataSector
      <3>5. 2 * SectorLen <= k * SectorLen
        BY <3>4, Sizes, Multiples
      <3>1. 2 * SectorLen <= e.offset * SectorLen
        BY <3>3, <3>5
      <3>2. QED
        BY <1>1, <2>1, <2>2, <3>1, Sizes DEF ImageSound
    <2>5. len \in Nat
      BY <1>1, <2>4 DEF ImageSound
    <2> HIDE DEF len, base
    <2>6. Len(ChunkAt(s).bytes) = len
      BY <2>3, <2>5 DEF Chunk
    <2>7. e.count * SectorLen = SectorLen * e.count /\ SectorLen * e.count \in Int
      BY <2>1, Sizes
    <2>8. QED
      BY <2>3, <2>5, <2>6, <2>7
  <1>4. QED
    BY <1>2, <1>3

(***************************************************************************)
(* A built region file gives back exactly the chunks staged in it, in      *)
(* every size of sectors, rows and tables; cut off, it gives a chunk whole *)
(* or an error; damaged, both lookups agree and stay within the sectors of *)
(* their table entry.                                                      *)
(***************************************************************************)
THEOREM RegionSoundCorrect == RegionSpec => []RegionSound
  <1>1. RegionInv /\ [RegionStep]_regionVars => RegionInv'
    BY StepInv
  <1>2. RegionInv => RegionSound
    BY InvRoundTrip, InvCutIsLoud, InvLookupsAgree DEF RegionSound
  <1>3. QED
    BY InitInv, <1>1, <1>2, PTL DEF RegionSpec

-----------------------------------------------------------------------------
(* Sequences joined. *)

LEMMA JoinedLength ==
  ASSUME NEW S, NEW a \in Seq(S), NEW x \in Seq(S)
  PROVE  /\ a \o x \in Seq(S)
         /\ Len(a \o x) = Len(a) + Len(x)
         /\ \A i \in 1 .. Len(a) : (a \o x)[i] = a[i]
         /\ \A i \in 1 .. Len(x) : (a \o x)[Len(a) + i] = x[i]
  OBVIOUS

LEMMA TwoLeft ==
  ASSUME NEW a \in Nat, NEW p \in Nat \ {0}, NEW q \in Nat \ {0}, a + p + q = a + 2
  PROVE  p = 1 /\ q = 1
  OBVIOUS

LEMMA SameElements ==
  ASSUME NEW S, NEW a \in Seq(S), NEW b \in Seq(S), Len(a) = Len(b),
         \A i \in 1 .. Len(a) : a[i] = b[i]
  PROVE  a = b
  OBVIOUS

LEMMA JoinedAfter ==
  ASSUME NEW S, NEW a \in Seq(S), NEW b \in Seq(S), NEW x \in Seq(S), a \o x = b \o x
  PROVE  a = b
  <1>1. Len(a) = Len(b)
    BY JoinedLength
  <1>2. \A i \in 1 .. Len(a) : a[i] = b[i]
    BY <1>1, JoinedLength
  <1>3. QED
    BY <1>1, <1>2, SameElements

\* Nothing is longer than a sequence with itself in front.
LEMMA JoinedBeyond ==
  ASSUME NEW a \in Seq(Words), NEW x \in DirNames
  PROVE  IsStrictPrefix(a, a \o x) /\ a \o x \in DirNames /\ a \o x # a
  <1>1. x \in Seq(Words) /\ Len(x) \in Nat /\ Len(x) > 0 /\ Len(a) \in Nat
    BY DEF DirNames
  <1>2. Len(a) < Len(a \o x) /\ a \o x \in Seq(Words)
    BY <1>1, JoinedLength
  <1>3. SubSeq(a, 1, Len(a)) = SubSeq(a \o x, 1, Len(a))
    BY <1>1, JoinedLength
  <1>4. QED
    BY <1>2, <1>3 DEF IsStrictPrefix, IsPrefix, DirNames

-----------------------------------------------------------------------------
(* Names. *)

LEMMA FixedNames ==
  /\ Tree26 \in DirNames /\ Dim1 \in DirNames /\ Dim2 \in DirNames
  /\ Trio \subseteq DirNames \X DirNames
  /\ <<"nether">> \in DirNames /\ <<"the", "end">> \in DirNames
  /\ Len(<<"nether">>) = 1 /\ Len(<<"the", "end">>) = 2
  <1>1. {"minecraft", "overworld", "the", "nether", "end",
         "dimensions", "DIM-1", "DIM1"} \subseteq Words
    BY LayoutAssumption
  <1>2. /\ Tree26 \in Seq(Words) /\ Dim1 \in Seq(Words) /\ Dim2 \in Seq(Words)
        /\ <<"minecraft">> \in Seq(Words) /\ <<"overworld">> \in Seq(Words)
        /\ <<"the", "nether">> \in Seq(Words) /\ <<"the", "end">> \in Seq(Words)
        /\ <<"nether">> \in Seq(Words)
    BY <1>1 DEF Tree26, Dim1, Dim2
  <1>3. /\ Tree26 # <<>> /\ Dim1 # <<>> /\ Dim2 # <<>>
        /\ <<"minecraft">> # <<>> /\ <<"overworld">> # <<>>
        /\ <<"the", "nether">> # <<>> /\ <<"the", "end">> # <<>>
        /\ <<"nether">> # <<>>
    BY DEF Tree26, Dim1, Dim2
  <1>4. Overworld \in DirNames \X DirNames /\ Nether \in DirNames \X DirNames /\ TheEnd \in DirNames \X DirNames
    BY <1>2, <1>3 DEF DirNames, Overworld, Nether, TheEnd
  <1>5. Len(<<"nether">>) = 1 /\ Len(<<"the", "end">>) = 2
    OBVIOUS
  <1>6. QED
    BY <1>2, <1>3, <1>4, <1>5 DEF DirNames, Trio

LEMMA FixedNamesApart ==
  /\ Tree26 # Dim1 /\ Tree26 # Dim2 /\ Dim1 # Dim2
  /\ Overworld # Nether /\ Overworld # TheEnd /\ Nether # TheEnd
  <1>1. Tree26 # Dim1 /\ Tree26 # Dim2 /\ Dim1 # Dim2
    BY DEF Tree26, Dim1, Dim2
  <1>2. Overworld # Nether /\ Overworld # TheEnd /\ Nether # TheEnd
    BY DEF Overworld, Nether, TheEnd
  <1>3. QED
    BY <1>1, <1>2

LEMMA SplitNames ==
  ASSUME NEW a \in DirNames, NEW b \in DirNames
  PROVE  /\ NetherOf(a) \in DirNames /\ EndOf(a) \in DirNames
         /\ NetherOf(a) # a /\ EndOf(a) # a
         /\ NetherOf(a) = NetherOf(b) => a = b
         /\ EndOf(a) = EndOf(b) => a = b
  <1>1. <<"nether">> \in DirNames /\ <<"the", "end">> \in DirNames
    BY FixedNames
  <1>2. a \in Seq(Words) /\ b \in Seq(Words) /\ <<"nether">> \in Seq(Words) /\ <<"the", "end">> \in Seq(Words)
    BY <1>1 DEF DirNames
  <1>3. /\ NetherOf(a) \in DirNames /\ EndOf(a) \in DirNames
        /\ NetherOf(a) # a /\ EndOf(a) # a
    BY <1>1, <1>2, JoinedBeyond DEF NetherOf, EndOf
  <1>4. NetherOf(a) = NetherOf(b) => a = b
    BY <1>2, JoinedAfter DEF NetherOf
  <1>5. EndOf(a) = EndOf(b) => a = b
    BY <1>2, JoinedAfter DEF EndOf
  <1>6. QED
    BY <1>3, <1>4, <1>5

TheEndOfPack == << <<"the">>, <<"end">> >>

\* The folder of a datapack dimension is none of the two of the trio,
\* unless the dimension is the:end.
LEMMA CustomFolder ==
  ASSUME NEW a \in Seq(Words), NEW x \in DirNames, NEW y \in DirNames,
         <<x, y>> # TheEndOfPack
  PROVE  /\ (a \o x) \o y # EndOf(a)
         /\ (a \o x) \o y # NetherOf(a)
         /\ IsStrictPrefix(a, (a \o x) \o y)
         /\ (a \o x) \o y \in DirNames
  <1>1. /\ x \in Seq(Words) /\ y \in Seq(Words)
        /\ Len(x) \in Nat \ {0} /\ Len(y) \in Nat \ {0} /\ Len(a) \in Nat
    BY DEF DirNames
  <1>2. a \o x \in Seq(Words) /\ Len(a \o x) = Len(a) + Len(x)
    BY <1>1, JoinedLength
  <1>3. /\ Len((a \o x) \o y) = Len(a) + Len(x) + Len(y)
        /\ (a \o x) \o y \in Seq(Words)
    BY <1>1, <1>2, JoinedLength
  <1>4. /\ <<"nether">> \in Seq(Words) /\ <<"the", "end">> \in Seq(Words)
        /\ Len(<<"nether">>) = 1 /\ Len(<<"the", "end">>) = 2
    BY FixedNames DEF DirNames
  <1>5. Len(NetherOf(a)) = Len(a) + 1
    BY <1>4, JoinedLength DEF NetherOf
  <1>6. /\ Len(EndOf(a)) = Len(a) + 2
        /\ \A i \in 1 .. 2 : EndOf(a)[Len(a) + i] = <<"the", "end">>[i]
    BY <1>4, JoinedLength DEF EndOf
  <1>7. (a \o x) \o y # NetherOf(a)
    BY <1>1, <1>3, <1>5
  <1>8. (a \o x) \o y # EndOf(a)
    <2>1. SUFFICES ASSUME (a \o x) \o y = EndOf(a)
                   PROVE  FALSE
      OBVIOUS
    <2>2. Len(x) = 1 /\ Len(y) = 1
      <3>1. Len(a) + Len(x) + Len(y) = Len(a) + 2
        BY <1>3, <1>6, <2>1
      <3>2. QED
        BY <1>1, <3>1, TwoLeft
    <2>3. /\ ((a \o x) \o y)[Len(a) + 1] = (a \o x)[Len(a) + 1]
          /\ ((a \o x) \o y)[Len(a) + 2] = y[1]
      BY <1>1, <1>2, <2>2, JoinedLength
    <2>4. (a \o x)[Len(a) + 1] = x[1]
      <3>1. \A i \in 1 .. Len(x) : (a \o x)[Len(a) + i] = x[i]
        BY <1>1, JoinedLength
      <3>2. 1 \in 1 .. Len(x)
        BY <2>2
      <3>3. QED
        BY <3>1, <3>2
    <2>5. /\ EndOf(a)[Len(a) + 1] = <<"the", "end">>[1]
          /\ EndOf(a)[Len(a) + 2] = <<"the", "end">>[2]
      BY <1>6
    <2>6. x[1] = "the" /\ y[1] = "end"
      BY <2>1, <2>3, <2>4, <2>5
    <2>7. x = <<"the">> /\ y = <<"end">>
      BY <1>1, <2>2, <2>6
    <2>8. QED
      BY <2>7 DEF TheEndOfPack
  <1>9. /\ IsStrictPrefix(a, (a \o x) \o y)
    <2>1. SubSeq(a, 1, Len(a)) = SubSeq((a \o x) \o y, 1, Len(a))
      <3>1. \A i \in 1 .. Len(a) : ((a \o x) \o y)[i] = a[i]
        BY <1>1, <1>2, JoinedLength
      <3>2. QED
        BY <1>1, <1>3, <3>1
    <2>2. QED
      BY <1>1, <1>3, <2>1 DEF IsStrictPrefix, IsPrefix
  <1>10. QED
    BY <1>1, <1>3, <1>7, <1>8, <1>9 DEF DirNames

-----------------------------------------------------------------------------
(* Places. *)

LEMMA FixedAt ==
  ASSUME NEW base
  PROVE  /\ DOMAIN FixedDirs(base) = Trio
         /\ FixedDirs(base)[Overworld] = <<base>>
         /\ FixedDirs(base)[Nether] = <<NetherOf(base), Dim1>>
         /\ FixedDirs(base)[TheEnd] = <<EndOf(base), Dim2>>
  BY FixedNamesApart DEF FixedDirs, Trio

LEMMA LegacyAt ==
  /\ DOMAIN NewLegacy = Trio
  /\ NewLegacy[Overworld] = <<>>
  /\ NewLegacy[Nether] = <<Dim1>>
  /\ NewLegacy[TheEnd] = <<Dim2>>
  BY FixedNamesApart DEF NewLegacy, Trio

Layouts == {"vanilla", "vanilla26", "bukkit", "bukkit26"}
Split == {"bukkit", "bukkit26"}

WorldOf(layout, b, D) ==
  [layout |-> layout, base |-> IF layout \in Split THEN b ELSE NoLevel,
   places |-> ServerPlaces(layout, b, D)]

LEMMA VanillaPlaces ==
  ASSUME NEW b, NEW D
  PROVE  ServerPlaces("vanilla", b, D) =
           [d \in D |-> IF d \in Trio THEN NewLegacy[d] ELSE <<Tree26, d[1], d[2]>>]
  BY Zenon DEF ServerPlaces

LEMMA Vanilla26Places ==
  ASSUME NEW b, NEW D
  PROVE  ServerPlaces("vanilla26", b, D) = [d \in D |-> <<Tree26, d[1], d[2]>>]
  BY Zenon DEF ServerPlaces

LEMMA BukkitPlaces ==
  ASSUME NEW b, NEW D
  PROVE  ServerPlaces("bukkit", b, D) =
           [d \in D |-> IF d \in Trio THEN FixedDirs(b)[d]
                        ELSE <<FolderOf(b, d), Tree26, d[1], d[2]>>]
  BY Zenon DEF ServerPlaces

LEMMA Bukkit26Places ==
  ASSUME NEW b, NEW D
  PROVE  ServerPlaces("bukkit26", b, D) = [d \in D |-> <<b, Tree26, d[1], d[2]>>]
  BY Zenon DEF ServerPlaces

LEMMA PlacesDomain ==
  ASSUME NEW layout \in Layouts, NEW b, NEW D
  PROVE  /\ DOMAIN ServerPlaces(layout, b, D) = D
         /\ ServerPlaces(layout, b, D) = [d \in D |-> ServerPlaces(layout, b, D)[d]]
  <1>1. CASE layout = "vanilla"
    BY <1>1, VanillaPlaces
  <1>2. CASE layout = "vanilla26"
    BY <1>2, Vanilla26Places
  <1>3. CASE layout = "bukkit"
    BY <1>3, BukkitPlaces
  <1>4. CASE layout = "bukkit26"
    BY <1>4, Bukkit26Places
  <1>5. QED
    BY <1>1, <1>2, <1>3, <1>4 DEF Layouts

\* The place of a dimension does not depend on what others there are.
LEMMA PlaceAlone ==
  ASSUME NEW layout \in Layouts, NEW b, NEW D, NEW E, NEW d \in D \cap E
  PROVE  ServerPlaces(layout, b, D)[d] = ServerPlaces(layout, b, E)[d]
  <1>1. CASE layout = "vanilla"
    BY <1>1, VanillaPlaces
  <1>2. CASE layout = "vanilla26"
    BY <1>2, Vanilla26Places
  <1>3. CASE layout = "bukkit"
    BY <1>3, BukkitPlaces
  <1>4. CASE layout = "bukkit26"
    BY <1>4, Bukkit26Places
  <1>5. QED
    BY <1>1, <1>2, <1>3, <1>4 DEF Layouts

-----------------------------------------------------------------------------
(* What is below a root: one world, and perhaps the one beside it. *)

Spellings == {"plain", "padded"}

OtherDirs == {<<Other>>, <<NetherOf(Other), Dim1>>}

LevelKept == level \in Bases \cup {NoLevel}

WorldKept ==
  \/ world = NoWorld
  \/ \E layout \in Layouts, b \in Bases, D \in SUBSET Dimensions :
       D \cap Trio # {} /\ world = WorldOf(layout, b, D)

Written ==
  \A d \in DOMAIN world.places, r \in RegionIds : File(world.places[d], r) \in root

FilesKnown ==
  \A f \in root :
    /\ f = [dir |-> f.dir, region |-> f.region, spelling |-> f.spelling]
    /\ f.region \in RegionIds /\ f.spelling \in Spellings
    /\ f.dir \in OtherDirs \/ \E d \in DOMAIN world.places : f.dir = world.places[d]

OtherSeen == \A f \in root : f.dir \in OtherDirs => Dir(<<Other>>)

LayoutInv == LevelKept /\ WorldKept /\ Written /\ FilesKnown /\ OtherSeen

LEMMA LayoutStart == LayoutInit => LayoutInv
  <1>1. DOMAIN <<>> = {}
    OBVIOUS
  <1>2. QED
    BY <1>1 DEF LayoutInit, LayoutInv, LevelKept, WorldKept, Written, FilesKnown, OtherSeen,
       NoWorld, NoLevel

LEMMA DirGrows ==
  ASSUME root \subseteq root', NEW path, Dir(path)
  PROVE  Dir(path)'
  BY DEF Dir

LEMMA FileFields ==
  ASSUME NEW dir, NEW r
  PROVE  /\ File(dir, r) = [dir |-> dir, region |-> r, spelling |-> "plain"]
         /\ File(dir, r).dir = dir /\ File(dir, r).region = r /\ File(dir, r).spelling = "plain"
  BY DEF File

LEMMA LengthsApart ==
  ASSUME NEW a, NEW b, NEW c, NEW e, NEW p, NEW q
  PROVE  /\ <<p>> # <<>> /\ <<p, q>> # <<>> /\ <<a, b, c>> # <<>> /\ <<a, b, c, e>> # <<>>
         /\ <<p>> # <<a, b>> /\ <<p>> # <<a, b, c>> /\ <<p>> # <<a, b, c, e>>
         /\ <<p, q>> # <<a, b, c>> /\ <<p, q>> # <<a, b, c, e>>
         /\ <<a, b, c>> # <<p, q, a, b>>
         /\ <<p>> = <<a>> <=> p = a
         /\ <<p, q>> = <<a, b>> <=> p = a /\ q = b
  OBVIOUS

LEMMA OtherNotPlace ==
  ASSUME NEW layout \in Layouts, NEW b \in Bases, NEW D \in SUBSET Dimensions, NEW d \in D
  PROVE  ServerPlaces(layout, b, D)[d] \notin OtherDirs
  <1>1. /\ b \in DirNames /\ Other \in DirNames /\ b # Other
        /\ Other \notin {Tree26, Dim1, Dim2}
    BY LayoutAssumption
  <1>2. NetherOf(b) # NetherOf(Other)
    BY <1>1, SplitNames
  <1>3. Dim1 # Dim2
    BY FixedNamesApart
  <1>4. d \in Trio => d = Overworld \/ d = Nether \/ d = TheEnd
    BY DEF Trio
  <1>5. CASE layout = "vanilla"
    <2>1. CASE d \in Trio
      <3>1. ServerPlaces(layout, b, D)[d] = NewLegacy[d]
        BY <1>5, <2>1, VanillaPlaces
      <3>2. NewLegacy[d] \in {<<>>, <<Dim1>>, <<Dim2>>}
        BY <1>4, <2>1, LegacyAt
      <3>3. /\ \A p \in {<<>>, <<Dim1>>, <<Dim2>>} : p # <<Other>>
            /\ \A p \in {<<>>, <<Dim1>>, <<Dim2>>} : p # <<NetherOf(Other), Dim1>>
        BY <1>1
      <3>4. QED
        BY <3>1, <3>2, <3>3 DEF OtherDirs
    <2>2. CASE d \notin Trio
      <3>1. ServerPlaces(layout, b, D)[d] = <<Tree26, d[1], d[2]>>
        BY <1>5, <2>2, VanillaPlaces
      <3>2. QED
        BY <3>1, LengthsApart DEF OtherDirs
    <2>3. QED
      BY <2>1, <2>2
  <1>6. CASE layout = "vanilla26"
    <2>1. ServerPlaces(layout, b, D)[d] = <<Tree26, d[1], d[2]>>
      BY <1>6, Vanilla26Places
    <2>2. QED
      BY <2>1, LengthsApart DEF OtherDirs
  <1>7. CASE layout = "bukkit"
    <2>1. CASE d \in Trio
      <3>1. ServerPlaces(layout, b, D)[d] = FixedDirs(b)[d]
        BY <1>7, <2>1, BukkitPlaces
      <3>2. FixedDirs(b)[d] \in {<<b>>, <<NetherOf(b), Dim1>>, <<EndOf(b), Dim2>>}
        BY <1>4, <2>1, FixedAt
      <3>3. QED
        BY <1>1, <1>2, <1>3, <3>1, <3>2, LengthsApart DEF OtherDirs
    <2>2. CASE d \notin Trio
      <3>1. ServerPlaces(layout, b, D)[d] = <<FolderOf(b, d), Tree26, d[1], d[2]>>
        BY <1>7, <2>2, BukkitPlaces
      <3>2. QED
        BY <3>1, LengthsApart DEF OtherDirs
    <2>3. QED
      BY <2>1, <2>2
  <1>8. CASE layout = "bukkit26"
    <2>1. ServerPlaces(layout, b, D)[d] = <<b, Tree26, d[1], d[2]>>
      BY <1>8, Bukkit26Places
    <2>2. QED
      BY <2>1, LengthsApart DEF OtherDirs
  <1>9. QED
    BY <1>5, <1>6, <1>7, <1>8 DEF Layouts

LEMMA PutKeeps ==
  ASSUME LayoutInv, world = NoWorld, NEW layout \in Layouts, NEW b \in Bases,
         NEW D \in SUBSET Dimensions, D \cap Trio # {}, NEW base, NEW places,
         base = IF layout \in Split THEN b ELSE NoLevel,
         places = ServerPlaces(layout, b, D),
         Put(layout, base, places)
  PROVE  LayoutInv'
  <1>1. DOMAIN world.places = {}
    <2>1. DOMAIN <<>> = {}
      OBVIOUS
    <2>2. QED
      BY <2>1 DEF NoWorld
  <1>2. /\ root' = root \cup {File(places[d], r) : d \in DOMAIN places, r \in RegionIds}
        /\ world' = WorldOf(layout, b, D) /\ level' = level
    BY DEF Put, WorldOf
  <1>3. world'.places = places /\ DOMAIN places = D
    BY <1>2, PlacesDomain DEF WorldOf
  <1>4. \A f \in root' : f \in root \/ \E d \in D, r \in RegionIds : f = File(places[d], r)
    BY <1>2, <1>3
  <1>5. LevelKept'
    BY <1>2 DEF LayoutInv, LevelKept
  <1>6. WorldKept'
    BY <1>2 DEF WorldKept
  <1>7. Written'
    BY <1>2, <1>3 DEF Written, File, Put
  <1>8. FilesKnown'
    <2>1. SUFFICES ASSUME NEW f \in root'
                   PROVE  /\ f = [dir |-> f.dir, region |-> f.region, spelling |-> f.spelling]
                          /\ f.region \in RegionIds /\ f.spelling \in Spellings
                          /\ f.dir \in OtherDirs \/ \E d \in D : f.dir = places[d]
      BY <1>3 DEF FilesKnown, OtherDirs
    <2>2. CASE f \in root
      BY <1>1, <2>2 DEF LayoutInv, FilesKnown
    <2>3. CASE \E d \in D, r \in RegionIds : f = File(places[d], r)
      BY <2>3, FileFields DEF Spellings
    <2>4. QED
      BY <1>4, <2>2, <2>3
  <1>9. OtherSeen'
    <2>1. SUFFICES ASSUME NEW f \in root', f.dir \in OtherDirs
                   PROVE  Dir(<<Other>>)'
      BY DEF OtherSeen, OtherDirs
    <2>2. f \in root
      BY <1>4, <2>1, FileFields, OtherNotPlace
    <2>3. QED
      BY <1>2, <2>1, <2>2, DirGrows DEF LayoutInv, OtherSeen
  <1>10. QED
    BY <1>5, <1>6, <1>7, <1>8, <1>9 DEF LayoutInv

\* What clone writes is a world of the trio as a server keeps it.
LEMMA CloneKeeps ==
  ASSUME LayoutInv, world = NoWorld, NEW layout \in Layouts, NEW b \in Bases, NEW tree,
         DOMAIN tree = Trio,
         \A d \in Trio : tree[d] = ServerPlaces(layout, b, Trio)[d],
         CloneInto(layout, IF layout \in Split THEN b ELSE NoLevel, tree)
  PROVE  LayoutInv'
  <1>1. PICK D \in (SUBSET Trio) \ {{}} :
          Put(layout, IF layout \in Split THEN b ELSE NoLevel, [d \in D |-> tree[d]])
    BY DEF CloneInto
  <1>2. [d \in D |-> tree[d]] = ServerPlaces(layout, b, D)
    <2>1. \A d \in D : tree[d] = ServerPlaces(layout, b, D)[d]
      BY PlaceAlone
    <2>2. ServerPlaces(layout, b, D) = [d \in D |-> ServerPlaces(layout, b, D)[d]]
      BY PlacesDomain
    <2>3. QED
      BY <2>1, <2>2
  <1>3. D \in SUBSET Dimensions /\ D \cap Trio # {}
    BY DEF Dimensions
  <1>4. QED
    BY <1>1, <1>2, <1>3, PutKeeps

LEMMA LayoutKept == LayoutInv /\ [LayoutStep]_layoutVars => LayoutInv'
  <1> SUFFICES ASSUME LayoutInv, [LayoutStep]_layoutVars
               PROVE  LayoutInv'
    OBVIOUS
  <1>1. CASE ServerWorld
    <2>1. PICK layout \in Layouts, b \in Bases, D \in SUBSET Dimensions :
            /\ D \cap Trio # {}
            /\ Put(layout, IF layout \in Split THEN b ELSE NoLevel, ServerPlaces(layout, b, D))
      BY <1>1 DEF ServerWorld, Layouts, Split
    <2>2. QED
      BY <1>1, <2>1, PutKeeps DEF ServerWorld
  <1>2. CASE CloneWorld
    <2>1. PICK b \in Bases : TRUE
      BY LayoutAssumption
    <2>2. CASE CloneInto("vanilla", NoLevel, NewLegacy)
      BY <1>2, <2>2, LegacyAt, VanillaPlaces, CloneKeeps DEF CloneWorld, Layouts, Split
    <2>3. CASE CloneInto("vanilla26", NoLevel, NewDimensions)
      BY <1>2, <2>3, Vanilla26Places, CloneKeeps DEF CloneWorld, NewDimensions, Layouts, Split
    <2>4. CASE \E c \in Bases : CloneInto("bukkit", c, NewBukkit(c))
      BY <1>2, <2>4, FixedAt, BukkitPlaces, CloneKeeps DEF CloneWorld, NewBukkit, Layouts, Split
    <2>5. QED
      BY <1>2, <2>2, <2>3, <2>4 DEF CloneWorld
  <1>3. CASE PutOther
    <2>1. /\ root \subseteq root' /\ UNCHANGED <<level, world>>
          /\ \A f \in root' : f \in root \/ \E r \in RegionIds, p \in OtherDirs : f = File(p, r)
      BY <1>3 DEF PutOther, OtherDirs
    <2>2. LevelKept' /\ WorldKept'
      BY <2>1 DEF LayoutInv, LevelKept, WorldKept
    <2>3. Written'
      BY <2>1 DEF LayoutInv, Written, File
    <2>4. FilesKnown'
      BY <2>1, FileFields DEF LayoutInv, FilesKnown, OtherDirs, Spellings
    <2>5. OtherSeen'
      <3>1. PICK r \in RegionIds : TRUE
        BY LayoutAssumption
      <3>2. File(<<Other>>, r) \in root'
        BY <1>3 DEF PutOther
      <3>3. IsPrefix(<<Other>>, <<Other>>)
        BY DEF IsPrefix
      <3>4. Dir(<<Other>>)'
        BY <3>2, <3>3, FileFields DEF Dir
      <3>5. QED
        BY <3>4 DEF OtherSeen
    <2>6. QED
      BY <2>2, <2>3, <2>4, <2>5 DEF LayoutInv
  <1>4. CASE SetLevelName
    BY <1>4 DEF SetLevelName, LayoutInv, LevelKept, WorldKept, Written, FilesKnown, OtherSeen,
       Dir, File, OtherDirs
  <1>5. CASE Respell
    <2>1. PICK f \in root : root' = root \cup {[f EXCEPT !.spelling = "padded"]}
      BY <1>5 DEF Respell
    <2>2. UNCHANGED <<level, world>> /\ root \subseteq root'
      BY <1>5, <2>1 DEF Respell
    <2>3. LevelKept' /\ WorldKept'
      BY <2>2 DEF LayoutInv, LevelKept, WorldKept
    <2>4. Written'
      BY <2>2 DEF LayoutInv, Written, File
    <2>5. DEFINE g == [f EXCEPT !.spelling = "padded"]
    <2>6. g = [dir |-> f.dir, region |-> f.region, spelling |-> "padded"]
      <3>1. f = [dir |-> f.dir, region |-> f.region, spelling |-> f.spelling]
        BY DEF LayoutInv, FilesKnown
      <3>2. QED
        BY <3>1
    <2>7. g.dir = f.dir /\ g.region = f.region /\ g.spelling = "padded"
      BY <2>6
    <2>8. \A h \in root' : h \in root \/ h = g
      BY <2>1
    <2>9. FilesKnown'
      <3>1. SUFFICES ASSUME NEW h \in root'
                     PROVE  /\ h = [dir |-> h.dir, region |-> h.region, spelling |-> h.spelling]
                            /\ h.region \in RegionIds /\ h.spelling \in Spellings
                            /\ \/ h.dir \in OtherDirs
                               \/ \E d \in DOMAIN world.places : h.dir = world.places[d]
        BY <2>2 DEF FilesKnown, OtherDirs
      <3>2. CASE h \in root
        BY <3>2 DEF LayoutInv, FilesKnown
      <3>3. CASE h = g
        BY <2>6, <2>7, <3>3 DEF LayoutInv, FilesKnown, Spellings
      <3>4. QED
        BY <2>8, <3>2, <3>3
    <2>10. OtherSeen'
      <3>1. SUFFICES ASSUME NEW h \in root', h.dir \in OtherDirs
                     PROVE  Dir(<<Other>>)'
        BY DEF OtherSeen, OtherDirs
      <3>2. Dir(<<Other>>)
        BY <2>7, <2>8, <3>1 DEF LayoutInv, OtherSeen
      <3>3. QED
        BY <2>2, <3>2, DirGrows
    <2>11. QED
      BY <2>3, <2>4, <2>9, <2>10 DEF LayoutInv
  <1>6. CASE UNCHANGED layoutVars
    BY <1>6 DEF layoutVars, LayoutInv, LevelKept, WorldKept, Written, FilesKnown, OtherSeen,
       Dir, File, OtherDirs
  <1>7. QED
    BY <1>1, <1>2, <1>3, <1>4, <1>5, <1>6 DEF LayoutStep

-----------------------------------------------------------------------------
(* The files of the world that is there. *)

LEMMA FolderApart ==
  ASSUME TheEndOfPack \notin Custom, NEW b \in DirNames, NEW d \in Custom
  PROVE  /\ FolderOf(b, d) \in DirNames /\ IsStrictPrefix(b, FolderOf(b, d))
         /\ FolderOf(b, d) \notin {NetherOf(b), EndOf(b)}
  <1>1. d[1] \in DirNames /\ d[2] \in DirNames /\ d = <<d[1], d[2]>>
    BY LayoutAssumption
  <1>2. b \in Seq(Words)
    BY DEF DirNames
  <1>3. QED
    BY <1>1, <1>2, CustomFolder DEF FolderOf

\* The dimensions there are, and the three lists of directories.
There == DOMAIN world.places

World(layout, b) ==
  /\ LayoutInv
  /\ b \in Bases /\ layout \in Layouts
  /\ There \in SUBSET Dimensions /\ There \cap Trio # {}
  /\ world.layout = layout
  /\ layout \in Split => world.base = b
  /\ world.places = ServerPlaces(layout, b, There)

LEMMA SomeWorld ==
  ASSUME LayoutInv, Clear
  PROVE  \E layout \in Layouts, b \in Bases : World(layout, b)
  <1>1. world # NoWorld
    <2>1. SUFFICES ASSUME world = NoWorld
                   PROVE  FALSE
      OBVIOUS
    <2>2. world.layout = "none"
      BY <2>1 DEF NoWorld
    <2>3. QED
      BY <2>2, Zenon DEF Clear
  <1>2. PICK layout \in Layouts, b \in Bases, D \in SUBSET Dimensions :
          D \cap Trio # {} /\ world = WorldOf(layout, b, D)
    BY <1>1 DEF LayoutInv, WorldKept
  <1>3. /\ world.layout = layout /\ world.places = ServerPlaces(layout, b, D)
        /\ layout \in Split => world.base = b
    BY <1>2 DEF WorldOf
  <1>4. There = D
    BY <1>3, PlacesDomain DEF There
  <1>5. QED
    BY <1>2, <1>3, <1>4 DEF World

LEMMA Folders ==
  ASSUME NEW layout, NEW b, World(layout, b)
  PROVE  /\ \A d \in There : WorldFolder(world.places[d])
         /\ \A p : WorldFolder(p) => p \in OtherDirs \/ \E d \in There : p = world.places[d]
         /\ \A p \in OtherDirs : WorldFolder(p) => Dir(<<Other>>)
  <1>1. PICK r \in RegionIds : TRUE
    BY LayoutAssumption
  <1>2. \A d \in There : File(world.places[d], r) \in root
    BY <1>1 DEF World, LayoutInv, Written, There
  <1>3. \A d \in There : WorldFolder(world.places[d])
    BY <1>2, FileFields DEF WorldFolder
  <1>4. \A p : WorldFolder(p) => p \in OtherDirs \/ \E d \in There : p = world.places[d]
    BY DEF World, LayoutInv, FilesKnown, WorldFolder, There
  <1>5. \A p \in OtherDirs : WorldFolder(p) => Dir(<<Other>>)
    BY DEF World, LayoutInv, OtherSeen, WorldFolder
  <1>6. QED
    BY <1>3, <1>4, <1>5

LEMMA DimensionNames ==
  /\ Dimensions \subseteq DirNames \X DirNames
  /\ \A d \in DirNames \X DirNames : d[1] \in DirNames /\ d[2] \in DirNames /\ d = <<d[1], d[2]>>
  /\ \A d \in Dimensions \ Trio : d \in Custom
  BY LayoutAssumption, FixedNames DEF Dimensions

LEMMA BaseNames ==
  ASSUME NEW b \in Bases
  PROVE  /\ b \in DirNames /\ Other \in DirNames /\ b # Other
         /\ b \notin {Tree26, Dim1, Dim2} /\ Other \notin {Tree26, Dim1, Dim2}
         /\ NetherOf(b) # NetherOf(Other)
         /\ b # NoLevel
  <1>1. /\ b \in DirNames /\ Other \in DirNames /\ b # Other
        /\ b \notin {Tree26, Dim1, Dim2} /\ Other \notin {Tree26, Dim1, Dim2}
    BY LayoutAssumption
  <1>2. NetherOf(b) # NetherOf(Other)
    BY <1>1, SplitNames
  <1>3. QED
    BY <1>1, <1>2 DEF DirNames, NoLevel

\* Which folders hold a world, layout by layout.
VanillaFolders(D) ==
  /\ \A d \in Trio : WorldFolder(NewLegacy[d]) <=> d \in D
  /\ \A d \in DirNames \X DirNames : WorldFolder(<<Tree26, d[1], d[2]>>) <=> d \in D \ Trio
  /\ \A w, x, y, z : ~ WorldFolder(<<w, x, y, z>>)
  /\ \A x : WorldFolder(<<x>>) => x \in {Dim1, Dim2, Other}
  /\ \A x, y : WorldFolder(<<x, y>>) => x = NetherOf(Other) /\ y = Dim1

Vanilla26Folders(D) ==
  /\ \A d \in DirNames \X DirNames : WorldFolder(<<Tree26, d[1], d[2]>>) <=> d \in D
  /\ \A w, x, y, z : ~ WorldFolder(<<w, x, y, z>>)
  /\ \A x : WorldFolder(<<x>>) => x = Other
  /\ \A x, y : WorldFolder(<<x, y>>) => x = NetherOf(Other) /\ y = Dim1

BukkitFolders(b, D) ==
  /\ \A d \in Trio : WorldFolder(FixedDirs(b)[d]) <=> d \in D
  /\ \A n, x, y : WorldFolder(<<n, Tree26, x, y>>) =>
       \E d \in D \ Trio : d = <<x, y>> /\ n = FolderOf(b, d)
  /\ \A d \in D \ Trio : WorldFolder(<<FolderOf(b, d), Tree26, d[1], d[2]>>)
  /\ \A x : WorldFolder(<<x>>) => x \in {b, Other}
  /\ \A x, y : WorldFolder(<<x, y>>) =>
       \/ x = NetherOf(b) /\ y = Dim1
       \/ x = EndOf(b) /\ y = Dim2
       \/ x = NetherOf(Other) /\ y = Dim1

Bukkit26Folders(b, D) ==
  /\ \A n, x, y : WorldFolder(<<n, Tree26, x, y>>) => n = b /\ <<x, y>> \in D
  /\ \A d \in D : WorldFolder(<<b, Tree26, d[1], d[2]>>)
  /\ \A x : WorldFolder(<<x>>) => x = Other
  /\ \A x, y : WorldFolder(<<x, y>>) => x = NetherOf(Other) /\ y = Dim1

LEMMA OtherLengths ==
  /\ \A x, y, z : <<x, y, z>> \notin OtherDirs
  /\ \A w, x, y, z : <<w, x, y, z>> \notin OtherDirs
  /\ \A x : <<x>> \in OtherDirs => x = Other
  /\ \A x, y : <<x, y>> \in OtherDirs => x = NetherOf(Other) /\ y = Dim1
  BY DEF OtherDirs

LEMMA InVanilla ==
  ASSUME NEW b, World("vanilla", b)
  PROVE  VanillaFolders(There)
  <1>1. /\ \A d \in There \cap Trio : world.places[d] = NewLegacy[d]
        /\ \A d \in There \ Trio : world.places[d] = <<Tree26, d[1], d[2]>>
    BY VanillaPlaces DEF World
  <1>2. /\ There \subseteq DirNames \X DirNames
        /\ b \in Bases
    BY DimensionNames DEF World
  <1>3. \A d \in Trio : d = Overworld \/ d = Nether \/ d = TheEnd
    BY DEF Trio
  <1>4. /\ \A d \in Trio : NewLegacy[d] \in {<<>>, <<Dim1>>, <<Dim2>>}
        /\ \A d, e \in Trio : NewLegacy[d] = NewLegacy[e] => d = e
    <2>1. <<>> # <<Dim1>> /\ <<>> # <<Dim2>> /\ <<Dim1>> # <<Dim2>>
      BY FixedNamesApart
    <2>2. \A d \in Trio : NewLegacy[d] \in {<<>>, <<Dim1>>, <<Dim2>>}
      BY <1>3, LegacyAt
    <2>3. \A d, e \in Trio : NewLegacy[d] = NewLegacy[e] => d = e
      BY <1>3, <2>1, LegacyAt
    <2>4. QED
      BY <2>2, <2>3
  <1>5. \A d \in Trio : NewLegacy[d] \notin OtherDirs
    <2>1. Other \notin {Dim1, Dim2}
      BY <1>2, BaseNames
    <2>2. /\ \A p \in {<<>>, <<Dim1>>, <<Dim2>>} : p # <<Other>>
          /\ \A p \in {<<>>, <<Dim1>>, <<Dim2>>} : p # <<NetherOf(Other), Dim1>>
      BY <2>1
    <2>3. QED
      BY <1>4, <2>2 DEF OtherDirs
  <1>6. \A p : WorldFolder(p) =>
          \/ p \in OtherDirs
          \/ \E d \in There \cap Trio : p = NewLegacy[d]
          \/ \E d \in There \ Trio : p = <<Tree26, d[1], d[2]>>
    <2>1. TAKE p
    <2>2. HAVE WorldFolder(p)
    <2>3. p \in OtherDirs \/ \E d \in There : p = world.places[d]
      BY <2>2, Folders
    <2>4. QED
      BY <1>1, <2>3
  <1>7. \A d \in Trio : WorldFolder(NewLegacy[d]) <=> d \in There
    <2>1. SUFFICES ASSUME NEW d \in Trio, WorldFolder(NewLegacy[d])
                   PROVE  d \in There
      BY <1>1, Folders
    <2>2. \A e : NewLegacy[d] # <<Tree26, e[1], e[2]>>
      BY <1>4
    <2>3. QED
      BY <1>4, <1>5, <1>6, <2>1, <2>2
  <1>8. \A d \in DirNames \X DirNames : WorldFolder(<<Tree26, d[1], d[2]>>) <=> d \in There \ Trio
    <2>1. SUFFICES ASSUME NEW d \in DirNames \X DirNames, WorldFolder(<<Tree26, d[1], d[2]>>)
                   PROVE  d \in There \ Trio
      BY <1>1, Folders
    <2>2. \A e \in Trio : NewLegacy[e] # <<Tree26, d[1], d[2]>>
      BY <1>4
    <2>3. PICK e \in There \ Trio : <<Tree26, d[1], d[2]>> = <<Tree26, e[1], e[2]>>
      BY <1>6, <2>1, <2>2, OtherLengths
    <2>4. d[1] = e[1] /\ d[2] = e[2]
      BY <2>3
    <2>5. QED
      BY <1>2, <2>4, DimensionNames
  <1>9. \A w, x, y, z : ~ WorldFolder(<<w, x, y, z>>)
    <2>1. TAKE w, x, y, z
    <2>2. /\ \A e \in Trio : NewLegacy[e] # <<w, x, y, z>>
          /\ \A e : <<Tree26, e[1], e[2]>> # <<w, x, y, z>>
      BY <1>4
    <2>3. QED
      BY <1>6, <2>2, OtherLengths
  <1>10. \A x : WorldFolder(<<x>>) => x \in {Dim1, Dim2, Other}
    BY <1>4, <1>6, OtherLengths
  <1>11. \A x, y : WorldFolder(<<x, y>>) => x = NetherOf(Other) /\ y = Dim1
    BY <1>4, <1>6, OtherLengths
  <1>12. QED
    BY <1>7, <1>8, <1>9, <1>10, <1>11 DEF VanillaFolders

LEMMA InVanilla26 ==
  ASSUME NEW b, World("vanilla26", b)
  PROVE  Vanilla26Folders(There)
  <1>1. \A d \in There : world.places[d] = <<Tree26, d[1], d[2]>>
    BY Vanilla26Places DEF World
  <1>2. There \subseteq DirNames \X DirNames
    BY DimensionNames DEF World
  <1>3. \A p : WorldFolder(p) =>
          p \in OtherDirs \/ \E d \in There : p = <<Tree26, d[1], d[2]>>
    <2>1. TAKE p
    <2>2. HAVE WorldFolder(p)
    <2>3. p \in OtherDirs \/ \E d \in There : p = world.places[d]
      BY <2>2, Folders
    <2>4. QED
      BY <1>1, <2>3
  <1>4. \A d \in DirNames \X DirNames : WorldFolder(<<Tree26, d[1], d[2]>>) <=> d \in There
    <2>1. SUFFICES ASSUME NEW d \in DirNames \X DirNames, WorldFolder(<<Tree26, d[1], d[2]>>)
                   PROVE  d \in There
      BY <1>1, Folders
    <2>2. PICK e \in There : <<Tree26, d[1], d[2]>> = <<Tree26, e[1], e[2]>>
      BY <1>3, <2>1, OtherLengths
    <2>3. d[1] = e[1] /\ d[2] = e[2]
      BY <2>2
    <2>4. QED
      BY <1>2, <2>3, DimensionNames
  <1>5. \A w, x, y, z : ~ WorldFolder(<<w, x, y, z>>)
    <2>1. TAKE w, x, y, z
    <2>2. \A e : <<Tree26, e[1], e[2]>> # <<w, x, y, z>>
      OBVIOUS
    <2>3. QED
      BY <1>3, <2>2, OtherLengths
  <1>6. \A x : WorldFolder(<<x>>) => x = Other
    BY <1>3, OtherLengths
  <1>7. \A x, y : WorldFolder(<<x, y>>) => x = NetherOf(Other) /\ y = Dim1
    BY <1>3, OtherLengths
  <1>8. QED
    BY <1>4, <1>5, <1>6, <1>7 DEF Vanilla26Folders

LEMMA InBukkit ==
  ASSUME NEW b, World("bukkit", b)
  PROVE  BukkitFolders(b, There)
  <1>1. /\ \A d \in There \cap Trio : world.places[d] = FixedDirs(b)[d]
        /\ \A d \in There \ Trio : world.places[d] = <<FolderOf(b, d), Tree26, d[1], d[2]>>
    BY BukkitPlaces DEF World
  <1>2. There \subseteq DirNames \X DirNames /\ b \in Bases
    BY DimensionNames DEF World
  <1>3. \A p : WorldFolder(p) =>
          \/ p \in OtherDirs
          \/ \E d \in There \cap Trio : p = FixedDirs(b)[d]
          \/ \E d \in There \ Trio : p = <<FolderOf(b, d), Tree26, d[1], d[2]>>
    <2>1. TAKE p
    <2>2. HAVE WorldFolder(p)
    <2>3. p \in OtherDirs \/ \E d \in There : p = world.places[d]
      BY <2>2, Folders
    <2>4. QED
      BY <1>1, <2>3
  <1>4. \A d \in Trio : d = Overworld \/ d = Nether \/ d = TheEnd
    BY DEF Trio
  <1>5. \A d \in Trio : FixedDirs(b)[d] \in {<<b>>, <<NetherOf(b), Dim1>>, <<EndOf(b), Dim2>>}
    BY <1>4, FixedAt
  <1>6. \A d, e \in Trio : FixedDirs(b)[d] = FixedDirs(b)[e] => d = e
    <2>1. /\ <<b>> # <<NetherOf(b), Dim1>> /\ <<b>> # <<EndOf(b), Dim2>>
          /\ <<NetherOf(b), Dim1>> # <<EndOf(b), Dim2>>
      BY FixedNamesApart
    <2>2. QED
      BY <1>4, <2>1, FixedAt
  <1>7. \A d \in Trio : FixedDirs(b)[d] \notin OtherDirs
    <2>1. \A p \in {<<b>>, <<NetherOf(b), Dim1>>, <<EndOf(b), Dim2>>} :
            p # <<Other>> /\ p # <<NetherOf(Other), Dim1>>
      BY <1>2, BaseNames, FixedNamesApart
    <2>2. QED
      BY <1>5, <2>1 DEF OtherDirs
  <1>8. \A d \in Trio : WorldFolder(FixedDirs(b)[d]) <=> d \in There
    <2>1. SUFFICES ASSUME NEW d \in Trio, WorldFolder(FixedDirs(b)[d])
                   PROVE  d \in There
      BY <1>1, Folders
    <2>2. \A e : FixedDirs(b)[d] # <<FolderOf(b, e), Tree26, e[1], e[2]>>
      BY <1>5
    <2>3. QED
      BY <1>3, <1>6, <1>7, <2>1, <2>2
  <1>9. \A n, x, y : WorldFolder(<<n, Tree26, x, y>>) =>
          \E d \in There \ Trio : d = <<x, y>> /\ n = FolderOf(b, d)
    <2>1. TAKE n, x, y
    <2>2. HAVE WorldFolder(<<n, Tree26, x, y>>)
    <2>3. \A e \in Trio : FixedDirs(b)[e] # <<n, Tree26, x, y>>
      BY <1>5
    <2>4. PICK d \in There \ Trio : <<n, Tree26, x, y>> = <<FolderOf(b, d), Tree26, d[1], d[2]>>
      BY <1>3, <2>2, <2>3, OtherLengths
    <2>5. n = FolderOf(b, d) /\ x = d[1] /\ y = d[2]
      BY <2>4
    <2>6. QED
      BY <1>2, <2>5, DimensionNames
  <1>10. \A d \in There \ Trio : WorldFolder(<<FolderOf(b, d), Tree26, d[1], d[2]>>)
    BY <1>1, Folders
  <1>11. \A x : WorldFolder(<<x>>) => x \in {b, Other}
    BY <1>3, <1>5, OtherLengths
  <1>12. \A x, y : WorldFolder(<<x, y>>) =>
          \/ x = NetherOf(b) /\ y = Dim1
          \/ x = EndOf(b) /\ y = Dim2
          \/ x = NetherOf(Other) /\ y = Dim1
    BY <1>3, <1>5, OtherLengths
  <1>13. QED
    BY <1>8, <1>9, <1>10, <1>11, <1>12 DEF BukkitFolders

LEMMA InBukkit26 ==
  ASSUME NEW b, World("bukkit26", b)
  PROVE  Bukkit26Folders(b, There)
  <1>1. \A d \in There : world.places[d] = <<b, Tree26, d[1], d[2]>>
    BY Bukkit26Places DEF World
  <1>2. There \subseteq DirNames \X DirNames
    BY DimensionNames DEF World
  <1>3. \A p : WorldFolder(p) =>
          p \in OtherDirs \/ \E d \in There : p = <<b, Tree26, d[1], d[2]>>
    <2>1. TAKE p
    <2>2. HAVE WorldFolder(p)
    <2>3. p \in OtherDirs \/ \E d \in There : p = world.places[d]
      BY <2>2, Folders
    <2>4. QED
      BY <1>1, <2>3
  <1>4. \A n, x, y : WorldFolder(<<n, Tree26, x, y>>) => n = b /\ <<x, y>> \in There
    <2>1. TAKE n, x, y
    <2>2. HAVE WorldFolder(<<n, Tree26, x, y>>)
    <2>3. PICK d \in There : <<n, Tree26, x, y>> = <<b, Tree26, d[1], d[2]>>
      BY <1>3, <2>2, OtherLengths
    <2>4. n = b /\ x = d[1] /\ y = d[2]
      BY <2>3
    <2>5. QED
      BY <1>2, <2>4, DimensionNames
  <1>5. \A d \in There : WorldFolder(<<b, Tree26, d[1], d[2]>>)
    BY <1>1, Folders
  <1>6. \A x : WorldFolder(<<x>>) => x = Other
    BY <1>3, OtherLengths
  <1>7. \A x, y : WorldFolder(<<x, y>>) => x = NetherOf(Other) /\ y = Dim1
    BY <1>3, OtherLengths
  <1>8. QED
    BY <1>4, <1>5, <1>6, <1>7 DEF Bukkit26Folders

-----------------------------------------------------------------------------
(* Directories as sequences of names. *)

LEMMA JoinedWith ==
  ASSUME NEW S, NEW a \in Seq(S), NEW x \in Seq(S), NEW r \in Seq(S), Len(r) = Len(a) + Len(x),
         \A i \in 1 .. Len(a) : r[i] = a[i], \A i \in 1 .. Len(x) : r[Len(a) + i] = x[i]
  PROVE  a \o x = r
  OBVIOUS

LEMMA OneAndTwo ==
  ASSUME NEW S, NEW a \in Seq(S), Len(a) = 1, NEW p \in Seq(S), Len(p) = 2,
         NEW r \in Seq(S), Len(r) = 3,
         r[1] = a[1], r[2] = p[1], r[3] = p[2]
  PROVE  a \o p = r
  <1>1. Len(r) = Len(a) + Len(p)
    OBVIOUS
  <1>2. \A i \in 1 .. Len(a) : r[i] = a[i]
    OBVIOUS
  <1>3. \A i \in 1 .. Len(p) : r[Len(a) + i] = p[i]
    OBVIOUS
  <1>4. QED
    BY <1>1, <1>2, <1>3, JoinedWith, Zenon

LEMMA OneAndThree ==
  ASSUME NEW S, NEW a \in Seq(S), Len(a) = 1, NEW p \in Seq(S), Len(p) = 3,
         NEW r \in Seq(S), Len(r) = 4,
         r[1] = a[1], r[2] = p[1], r[3] = p[2], r[4] = p[3]
  PROVE  a \o p = r
  <1>1. Len(r) = Len(a) + Len(p)
    OBVIOUS
  <1>2. \A i \in 1 .. Len(a) : r[i] = a[i]
    OBVIOUS
  <1>3. \A i \in 1 .. Len(p) : r[Len(a) + i] = p[i]
    OBVIOUS
  <1>4. QED
    BY <1>1, <1>2, <1>3, JoinedWith, Zenon

LEMMA TwoAndTwo ==
  ASSUME NEW S, NEW a \in Seq(S), Len(a) = 2, NEW p \in Seq(S), Len(p) = 2,
         NEW r \in Seq(S), Len(r) = 4,
         r[1] = a[1], r[2] = a[2], r[3] = p[1], r[4] = p[2]
  PROVE  a \o p = r
  <1>1. Len(r) = Len(a) + Len(p)
    OBVIOUS
  <1>2. \A i \in 1 .. Len(a) : r[i] = a[i]
    OBVIOUS
  <1>3. \A i \in 1 .. Len(p) : r[Len(a) + i] = p[i]
    OBVIOUS
  <1>4. QED
    BY <1>1, <1>2, <1>3, JoinedWith, Zenon

LEMMA NoneAndMore ==
  ASSUME NEW S, NEW a \in Seq(S)
  PROVE  <<>> \in Seq(S) /\ <<>> \o a = a
  OBVIOUS

LEMMA JoinedThree ==
  ASSUME NEW S, NEW n \in S, NEW x \in S, NEW y \in S
  PROVE  <<n>> \o <<x, y>> = <<n, x, y>>
  <1>1. <<n>> \in Seq(S) /\ Len(<<n>>) = 1 /\ <<n>>[1] = n
    OBVIOUS
  <1>2. <<x, y>> \in Seq(S) /\ Len(<<x, y>>) = 2 /\ <<x, y>>[1] = x /\ <<x, y>>[2] = y
    OBVIOUS
  <1>3. /\ <<n, x, y>> \in Seq(S) /\ Len(<<n, x, y>>) = 3
        /\ <<n, x, y>>[1] = n /\ <<n, x, y>>[2] = x /\ <<n, x, y>>[3] = y
    OBVIOUS
  <1>4. QED
    BY <1>1, <1>2, <1>3, OneAndTwo, Zenon

LEMMA JoinedFour ==
  ASSUME NEW S, NEW n \in S, NEW t \in S, NEW x \in S, NEW y \in S
  PROVE  <<n, t>> \o <<x, y>> = <<n, t, x, y>>
  <1>1. <<n, t>> \in Seq(S) /\ Len(<<n, t>>) = 2 /\ <<n, t>>[1] = n /\ <<n, t>>[2] = t
    OBVIOUS
  <1>2. <<x, y>> \in Seq(S) /\ Len(<<x, y>>) = 2 /\ <<x, y>>[1] = x /\ <<x, y>>[2] = y
    OBVIOUS
  <1>3. /\ <<n, t, x, y>> \in Seq(S) /\ Len(<<n, t, x, y>>) = 4
        /\ <<n, t, x, y>>[1] = n /\ <<n, t, x, y>>[2] = t /\ <<n, t, x, y>>[3] = x /\ <<n, t, x, y>>[4] = y
    OBVIOUS
  <1>4. QED
    BY <1>1, <1>2, <1>3, TwoAndTwo, Zenon

LEMMA JoinedTree ==
  ASSUME NEW S, NEW n \in S, NEW t \in S, NEW x \in S, NEW y \in S
  PROVE  <<n>> \o <<t, x, y>> = <<n, t, x, y>>
  <1>1. <<n>> \in Seq(S) /\ Len(<<n>>) = 1 /\ <<n>>[1] = n
    OBVIOUS
  <1>2. <<t, x, y>> \in Seq(S) /\ Len(<<t, x, y>>) = 3 /\ <<t, x, y>>[1] = t /\ <<t, x, y>>[2] = x /\ <<t, x, y>>[3] = y
    OBVIOUS
  <1>3. /\ <<n, t, x, y>> \in Seq(S) /\ Len(<<n, t, x, y>>) = 4
        /\ <<n, t, x, y>>[1] = n /\ <<n, t, x, y>>[2] = t /\ <<n, t, x, y>>[3] = x /\ <<n, t, x, y>>[4] = y
    OBVIOUS
  <1>4. QED
    BY <1>1, <1>2, <1>3, OneAndThree, Zenon

LEMMA JoinedTwo ==
  ASSUME NEW S, NEW a \in Seq(S), NEW p \in Seq(S), Len(p) = 2
  PROVE  /\ a \o p \in Seq(S) /\ Len(a \o p) = Len(a) + 2
         /\ \A i \in 1 .. Len(a) : (a \o p)[i] = a[i]
         /\ (a \o p)[Len(a) + 1] = p[1] /\ (a \o p)[Len(a) + 2] = p[2]
  BY JoinedLength

LEMMA JoinedPair ==
  ASSUME NEW S, NEW a \in Seq(S), NEW x \in S, NEW y \in S
  PROVE  /\ a \o <<x, y>> \in Seq(S)
         /\ Len(a \o <<x, y>>) = Len(a) + 2
         /\ \A i \in 1 .. Len(a) : (a \o <<x, y>>)[i] = a[i]
         /\ (a \o <<x, y>>)[Len(a) + 1] = x
         /\ (a \o <<x, y>>)[Len(a) + 2] = y
  <1>1. ASSUME NEW p \in Seq(S), p = <<x, y>>, Len(p) = 2, p[1] = x, p[2] = y
        PROVE  /\ a \o <<x, y>> \in Seq(S) /\ Len(a \o <<x, y>>) = Len(a) + 2
               /\ \A i \in 1 .. Len(a) : (a \o <<x, y>>)[i] = a[i]
               /\ (a \o <<x, y>>)[Len(a) + 1] = x /\ (a \o <<x, y>>)[Len(a) + 2] = y
    <2>1. /\ a \o p \in Seq(S) /\ Len(a \o p) = Len(a) + 2
          /\ \A i \in 1 .. Len(a) : (a \o p)[i] = a[i]
          /\ (a \o p)[Len(a) + 1] = p[1] /\ (a \o p)[Len(a) + 2] = p[2]
      BY <1>1, JoinedTwo
    <2>2. QED
      BY <1>1, <2>1, Zenon
  <1>2. <<x, y>> \in Seq(S) /\ Len(<<x, y>>) = 2 /\ <<x, y>>[1] = x /\ <<x, y>>[2] = y
    OBVIOUS
  <1>3. QED
    BY <1>1, <1>2, Zenon

\* Two directories below a path, and the last two names of it.
TwoBelow(path, dir) == IsPrefix(path, dir) /\ Len(dir) = Len(path) + 2
LastTwo(dir) == <<dir[Len(dir) - 1], dir[Len(dir)]>>

LEMMA Below ==
  ASSUME NEW S, NEW path \in Seq(S), NEW dir \in Seq(S), TwoBelow(path, dir)
  PROVE  LastTwo(dir) \in S \X S /\ dir = path \o LastTwo(dir)
  <1> USE DEF TwoBelow, LastTwo
  <1>1. Len(path) \in Nat /\ Len(dir) \in Nat /\ Len(dir) - 1 = Len(path) + 1
    OBVIOUS
  <1>2. PICK x, y : x = dir[Len(path) + 1] /\ y = dir[Len(path) + 2]
    OBVIOUS
  <1>3. x \in S /\ y \in S
    BY <1>1, <1>2
  <1>4. \A i \in 1 .. Len(path) : path[i] = dir[i]
    <2>1. TAKE i \in 1 .. Len(path)
    <2>2. SubSeq(path, 1, Len(path))[i] = path[i] /\ SubSeq(dir, 1, Len(path))[i] = dir[i]
      BY <1>1
    <2>3. QED
      BY <2>2 DEF IsPrefix
  <1>5. /\ path \o <<x, y>> \in Seq(S) /\ Len(path \o <<x, y>>) = Len(dir)
        /\ \A i \in 1 .. Len(path) : (path \o <<x, y>>)[i] = path[i]
        /\ (path \o <<x, y>>)[Len(path) + 1] = x
        /\ (path \o <<x, y>>)[Len(path) + 2] = y
    BY <1>3, JoinedPair
  <1>6. \A i \in 1 .. Len(dir) : (path \o <<x, y>>)[i] = dir[i]
    <2>1. TAKE i \in 1 .. Len(dir)
    <2>2. i \in 1 .. Len(path) \/ i = Len(path) + 1 \/ i = Len(path) + 2
      BY <1>1
    <2>3. QED
      BY <1>2, <1>4, <1>5, <2>2
  <1>7. dir = path \o <<x, y>>
    BY <1>5, <1>6, SameElements
  <1>8. x = dir[Len(dir) - 1] /\ y = dir[Len(dir)]
    BY <1>1, <1>2
  <1>9. QED
    BY <1>3, <1>7, <1>8

LEMMA BelowJoined ==
  ASSUME NEW S, NEW path \in Seq(S), NEW x \in S, NEW y \in S, NEW dir, dir = path \o <<x, y>>
  PROVE  TwoBelow(path, dir) /\ LastTwo(dir) = <<x, y>>
  <1>1. /\ dir \in Seq(S) /\ Len(dir) = Len(path) + 2
        /\ \A i \in 1 .. Len(path) : dir[i] = path[i]
        /\ dir[Len(path) + 1] = x /\ dir[Len(path) + 2] = y
    BY JoinedPair
  <1>2. Len(path) \in Nat /\ Len(dir) \in Nat /\ Len(dir) - 1 = Len(path) + 1
    BY <1>1
  <1>3. SubSeq(path, 1, Len(path)) = SubSeq(dir, 1, Len(path))
    BY <1>1, <1>2
  <1>4. QED
    BY <1>1, <1>2, <1>3 DEF IsPrefix, TwoBelow, LastTwo

\* The directories of files are sequences of names.
DirsNamed == \A f \in root : f.dir \in Seq(DirNames)

LEMMA PlacesNamed ==
  ASSUME TheEndOfPack \notin Custom, NEW layout, NEW b, World(layout, b)
  PROVE  DirsNamed
  <1>1. /\ b \in DirNames /\ Other \in DirNames /\ There \subseteq DirNames \X DirNames /\ layout \in Layouts
        /\ \A d \in There : d[1] \in DirNames /\ d[2] \in DirNames
        /\ Tree26 \in DirNames /\ Dim1 \in DirNames /\ Dim2 \in DirNames
    BY BaseNames, DimensionNames, FixedNames DEF World
  <1>2. /\ NetherOf(b) \in DirNames /\ EndOf(b) \in DirNames /\ NetherOf(Other) \in DirNames
        /\ \A d \in There \ Trio : FolderOf(b, d) \in DirNames
    BY <1>1, SplitNames, FolderApart, DimensionNames DEF World
  <1>3. \A p \in OtherDirs : p \in Seq(DirNames)
    <2>1. <<Other>> \in Seq(DirNames) /\ <<NetherOf(Other), Dim1>> \in Seq(DirNames)
      BY <1>1, <1>2
    <2>2. QED
      BY <2>1 DEF OtherDirs
  <1>4. \A d \in Trio : NewLegacy[d] \in Seq(DirNames) /\ FixedDirs(b)[d] \in Seq(DirNames)
    <2>1. /\ <<>> \in Seq(DirNames) /\ <<Dim1>> \in Seq(DirNames) /\ <<Dim2>> \in Seq(DirNames)
          /\ <<b>> \in Seq(DirNames) /\ <<NetherOf(b), Dim1>> \in Seq(DirNames)
          /\ <<EndOf(b), Dim2>> \in Seq(DirNames)
      BY <1>1, <1>2
    <2>2. QED
      BY <2>1, LegacyAt, FixedAt DEF Trio
  <1>5. \A d \in There : /\ <<Tree26, d[1], d[2]>> \in Seq(DirNames)
                         /\ <<b, Tree26, d[1], d[2]>> \in Seq(DirNames)
    BY <1>1
  <1>6. \A d \in There \ Trio : <<FolderOf(b, d), Tree26, d[1], d[2]>> \in Seq(DirNames)
    BY <1>1, <1>2
  <1>7. \A d \in There : world.places[d] \in Seq(DirNames)
    <2>1. CASE layout = "vanilla"
      <3>1. /\ \A d \in There \cap Trio : world.places[d] = NewLegacy[d]
            /\ \A d \in There \ Trio : world.places[d] = <<Tree26, d[1], d[2]>>
        BY <2>1, VanillaPlaces DEF World
      <3>2. QED
        BY <1>4, <1>5, <3>1
    <2>2. CASE layout = "vanilla26"
      <3>1. \A d \in There : world.places[d] = <<Tree26, d[1], d[2]>>
        BY <2>2, Vanilla26Places DEF World
      <3>2. QED
        BY <1>5, <3>1
    <2>3. CASE layout = "bukkit"
      <3>1. /\ \A d \in There \cap Trio : world.places[d] = FixedDirs(b)[d]
            /\ \A d \in There \ Trio : world.places[d] = <<FolderOf(b, d), Tree26, d[1], d[2]>>
        BY <2>3, BukkitPlaces DEF World
      <3>2. QED
        BY <1>4, <1>6, <3>1
    <2>4. CASE layout = "bukkit26"
      <3>1. \A d \in There : world.places[d] = <<b, Tree26, d[1], d[2]>>
        BY <2>4, Bukkit26Places DEF World
      <3>2. QED
        BY <1>5, <3>1
    <2>5. QED
      BY <1>1, <2>1, <2>2, <2>3, <2>4 DEF Layouts
  <1>8. SUFFICES ASSUME NEW f \in root
                 PROVE  f.dir \in Seq(DirNames)
    BY DEF DirsNamed
  <1>9. WorldFolder(f.dir)
    BY DEF WorldFolder
  <1>10. f.dir \in OtherDirs \/ \E d \in There : f.dir = world.places[d]
    BY <1>9, Folders
  <1>11. QED
    BY <1>3, <1>7, <1>10

\* A dimensions tree is collected as it is.
LEMMA Collected ==
  ASSUME DirsNamed, NEW path \in Seq(DirNames)
  PROVE  LET ids == {d \in DirNames \X DirNames : WorldFolder(path \o d)} IN
         CollectDimensions(path) = [d \in ids |-> path \o d]
  <1> DEFINE ids == {d \in DirNames \X DirNames : WorldFolder(path \o d)}
             found == {f.dir : f \in {g \in root : TwoBelow(path, g.dir)}}
  <1>1. \A dir \in found : LastTwo(dir) \in ids
    <2>1. SUFFICES ASSUME NEW f \in root, TwoBelow(path, f.dir)
                   PROVE  LastTwo(f.dir) \in ids
      OBVIOUS
    <2>2. f.dir \in Seq(DirNames)
      BY DEF DirsNamed
    <2>3. LastTwo(f.dir) \in DirNames \X DirNames /\ f.dir = path \o LastTwo(f.dir)
      BY <2>1, <2>2, Below, Zenon
    <2>4. WorldFolder(path \o LastTwo(f.dir))
      BY <2>3, Zenon DEF WorldFolder
    <2>5. QED
      BY <2>3, <2>4, Zenon
  <1>2. \A d \in ids : \E dir \in found : d = LastTwo(dir)
    <2>1. SUFFICES ASSUME NEW d \in DirNames \X DirNames, WorldFolder(path \o d)
                   PROVE  \E dir \in found : d = LastTwo(dir)
      OBVIOUS
    <2>2. PICK x \in DirNames, y \in DirNames : d = <<x, y>>
      OBVIOUS
    <2>3. PICK f \in root : f.dir = path \o <<x, y>>
      BY <2>1, <2>2, Zenon DEF WorldFolder
    <2>4. TwoBelow(path, f.dir) /\ LastTwo(f.dir) = <<x, y>>
      BY <2>3, BelowJoined, Zenon
    <2>5. f.dir \in found
      BY <2>4, Zenon
    <2>6. QED
      BY <2>2, <2>4, <2>5, Zenon
  <1>3. {LastTwo(dir) : dir \in found} = ids
    <2> HIDE DEF found, ids
    <2>1. QED
      BY <1>1, <1>2
  <1>4. CollectDimensions(path) = [d \in {LastTwo(dir) : dir \in found} |-> path \o d]
    BY Zenon DEF CollectDimensions, TwoBelow, LastTwo
  <1>5. QED
    BY <1>3, <1>4, Zenon

LEMMA CollectedRoot ==
  ASSUME DirsNamed
  PROVE  LET ids == {d \in DirNames \X DirNames : WorldFolder(<<Tree26, d[1], d[2]>>)} IN
         CollectDimensions(<<Tree26>>) = [d \in ids |-> <<Tree26, d[1], d[2]>>]
  <1>1. \A d \in DirNames \X DirNames : <<Tree26>> \o d = <<Tree26, d[1], d[2]>>
    <2>1. Tree26 \in DirNames
      BY FixedNames
    <2>2. \A x, y \in DirNames : <<Tree26>> \o <<x, y>> = <<Tree26, x, y>>
      BY <2>1, JoinedThree, Zenon
    <2>3. TAKE d \in DirNames \X DirNames
    <2>4. d[1] \in DirNames /\ d[2] \in DirNames /\ d = <<d[1], d[2]>>
      BY DimensionNames
    <2>5. <<Tree26>> \o <<d[1], d[2]>> = <<Tree26, d[1], d[2]>>
      BY <2>2, <2>4, Zenon
    <2>6. QED
      BY <2>4, <2>5, Zenon
  <1>2. <<Tree26>> \in Seq(DirNames)
    BY FixedNames
  <1>3. CollectDimensions(<<Tree26>>) =
          [d \in {d \in DirNames \X DirNames : WorldFolder(<<Tree26>> \o d)} |-> <<Tree26>> \o d]
    BY <1>2, Collected, Zenon
  <1>4. {d \in DirNames \X DirNames : WorldFolder(<<Tree26>> \o d)} =
        {d \in DirNames \X DirNames : WorldFolder(<<Tree26, d[1], d[2]>>)}
    BY <1>1
  <1>5. QED
    BY <1>1, <1>3, <1>4

LEMMA CollectedIn ==
  ASSUME DirsNamed, NEW n \in DirNames
  PROVE  LET ids == {d \in DirNames \X DirNames : WorldFolder(<<n, Tree26, d[1], d[2]>>)} IN
         CollectDimensions(<<n, Tree26>>) = [d \in ids |-> <<n, Tree26, d[1], d[2]>>]
  <1>1. \A d \in DirNames \X DirNames : <<n, Tree26>> \o d = <<n, Tree26, d[1], d[2]>>
    <2>1. Tree26 \in DirNames
      BY FixedNames
    <2>2. \A x, y \in DirNames : <<n, Tree26>> \o <<x, y>> = <<n, Tree26, x, y>>
      BY <2>1, JoinedFour, Zenon
    <2>3. TAKE d \in DirNames \X DirNames
    <2>4. d[1] \in DirNames /\ d[2] \in DirNames /\ d = <<d[1], d[2]>>
      BY DimensionNames
    <2>5. <<n, Tree26>> \o <<d[1], d[2]>> = <<n, Tree26, d[1], d[2]>>
      BY <2>2, <2>4, Zenon
    <2>6. QED
      BY <2>4, <2>5, Zenon
  <1>2. <<n, Tree26>> \in Seq(DirNames)
    BY FixedNames
  <1>3. CollectDimensions(<<n, Tree26>>) =
          [d \in {d \in DirNames \X DirNames : WorldFolder(<<n, Tree26>> \o d)} |-> <<n, Tree26>> \o d]
    BY <1>2, Collected, Zenon
  <1>4. {d \in DirNames \X DirNames : WorldFolder(<<n, Tree26>> \o d)} =
        {d \in DirNames \X DirNames : WorldFolder(<<n, Tree26, d[1], d[2]>>)}
    BY <1>1
  <1>5. QED
    BY <1>1, <1>3, <1>4

-----------------------------------------------------------------------------
(* Which folders stand for a split world. *)

Hit(c) == In26(<<c>>) \/ InSplit(c)

LEMMA Inside ==
  /\ In26(<<>>) <=> \E d \in Trio : WorldFolder(<<Tree26, d[1], d[2]>>)
  /\ \A c \in DirNames : In26(<<c>>) <=> \E d \in Trio : WorldFolder(<<c, Tree26, d[1], d[2]>>)
  <1>1. \A d \in Trio : d[1] \in DirNames /\ d[2] \in DirNames
    BY FixedNames, DimensionNames
  <1>2. Tree26 \in DirNames
    BY FixedNames
  <1>3. \A x, y \in DirNames : <<Tree26, x, y>> \in Seq(DirNames)
    BY <1>2
  <1>4. \A x, y \in DirNames : <<>> \o <<Tree26, x, y>> = <<Tree26, x, y>>
    BY <1>3, NoneAndMore, Zenon
  <1>5. \A c, x, y \in DirNames : <<c>> \o <<Tree26, x, y>> = <<c, Tree26, x, y>>
    BY <1>2, JoinedTree, Zenon
  <1>6. \A d \in Trio : <<>> \o <<Tree26, d[1], d[2]>> = <<Tree26, d[1], d[2]>>
    BY <1>1, <1>4, Zenon
  <1>7. \A c \in DirNames, d \in Trio :
          <<c>> \o <<Tree26, d[1], d[2]>> = <<c, Tree26, d[1], d[2]>>
    BY <1>1, <1>5, Zenon
  <1>8. In26(<<>>) <=> \E d \in Trio : WorldFolder(<<Tree26, d[1], d[2]>>)
    BY <1>6, Zenon DEF In26
  <1>9. \A c \in DirNames : In26(<<c>>) <=> \E d \in Trio : WorldFolder(<<c, Tree26, d[1], d[2]>>)
    BY <1>7, Zenon DEF In26
  <1>10. QED
    BY <1>8, <1>9

LEMMA SplitAt ==
  ASSUME NEW c
  PROVE  InSplit(c) <=> \/ WorldFolder(<<c>>)
                        \/ WorldFolder(<<NetherOf(c), Dim1>>)
                        \/ WorldFolder(<<EndOf(c), Dim2>>)
  <1>1. InSplit(c) <=> \/ WorldFolder(FixedDirs(c)[Overworld])
                       \/ WorldFolder(FixedDirs(c)[Nether])
                       \/ WorldFolder(FixedDirs(c)[TheEnd])
    BY Zenon DEF InSplit, Trio
  <1>2. QED
    BY <1>1, FixedAt, Zenon

LEMMA NoHit ==
  ASSUME NEW D, VanillaFolders(D) \/ Vanilla26Folders(D), NEW c \in DirNames,
         c \notin {Dim1, Dim2, Other}, Other \in DirNames
  PROVE  ~ Hit(c)
  <1>1. /\ \A w, x, y, z : ~ WorldFolder(<<w, x, y, z>>)
        /\ \A x : WorldFolder(<<x>>) => x \in {Dim1, Dim2, Other}
        /\ \A x, y : WorldFolder(<<x, y>>) => x = NetherOf(Other) /\ y = Dim1
    BY DEF VanillaFolders, Vanilla26Folders
  <1>2. ~ In26(<<c>>)
    BY <1>1, Inside
  <1>3. NetherOf(c) # NetherOf(Other) /\ Dim2 # Dim1
    BY SplitNames, FixedNamesApart
  <1>4. ~ InSplit(c)
    <2>1. /\ ~ WorldFolder(<<c>>)
          /\ ~ WorldFolder(<<NetherOf(c), Dim1>>)
          /\ ~ WorldFolder(<<EndOf(c), Dim2>>)
      BY <1>1, <1>3
    <2>2. QED
      BY <2>1, SplitAt
  <1>5. QED
    BY <1>2, <1>4 DEF Hit

LEMMA HitsInBukkit ==
  ASSUME NEW b, World("bukkit", b)
  PROVE  /\ Hit(b) /\ ~ In26(<<b>>)
         /\ \A c \in DirNames : Hit(c) => c \in {b, Other}
  <1>1. /\ BukkitFolders(b, There) /\ b \in DirNames /\ Other \in DirNames /\ b \in Bases
        /\ There \cap Trio # {}
    BY InBukkit, BaseNames DEF World
  <1>2. \A c \in DirNames : ~ In26(<<c>>)
    <2>1. SUFFICES ASSUME NEW c \in DirNames, NEW d \in Trio,
                          WorldFolder(<<c, Tree26, d[1], d[2]>>)
                   PROVE  FALSE
      BY Inside
    <2>2. PICK e \in There \ Trio : e = <<d[1], d[2]>>
      BY <1>1, <2>1 DEF BukkitFolders
    <2>3. d = <<d[1], d[2]>>
      BY FixedNames, DimensionNames
    <2>4. QED
      BY <2>2, <2>3
  <1>3. PICK d \in Trio : WorldFolder(FixedDirs(b)[d])
    BY <1>1 DEF BukkitFolders
  <1>4. InSplit(b)
    BY <1>3, Zenon DEF InSplit
  <1>5. ASSUME NEW c \in DirNames, InSplit(c)
        PROVE  c \in {b, Other}
    <2>1. CASE WorldFolder(<<c>>)
      BY <1>1, <2>1 DEF BukkitFolders
    <2>2. CASE WorldFolder(<<NetherOf(c), Dim1>>)
      <3>1. NetherOf(c) = NetherOf(b) \/ NetherOf(c) = NetherOf(Other)
        BY <1>1, <2>2, FixedNamesApart DEF BukkitFolders
      <3>2. QED
        BY <1>1, <3>1, SplitNames
    <2>3. CASE WorldFolder(<<EndOf(c), Dim2>>)
      <3>1. EndOf(c) = EndOf(b)
        BY <1>1, <2>3, FixedNamesApart DEF BukkitFolders
      <3>2. QED
        BY <1>1, <3>1, SplitNames
    <2>4. QED
      BY <1>5, <2>1, <2>2, <2>3, SplitAt
  <1>6. QED
    BY <1>1, <1>2, <1>4, <1>5 DEF Hit

LEMMA HitsInBukkit26 ==
  ASSUME NEW b, World("bukkit26", b)
  PROVE  /\ Hit(b) /\ In26(<<b>>)
         /\ \A c \in DirNames : Hit(c) => c \in {b, Other}
  <1>1. /\ Bukkit26Folders(b, There) /\ b \in DirNames /\ Other \in DirNames
        /\ There \cap Trio # {}
    BY InBukkit26, BaseNames DEF World
  <1>2. In26(<<b>>)
    BY <1>1, Inside DEF Bukkit26Folders
  <1>3. ASSUME NEW c \in DirNames, In26(<<c>>)
        PROVE  c = b
    BY <1>1, <1>3, Inside DEF Bukkit26Folders
  <1>4. ASSUME NEW c \in DirNames, InSplit(c)
        PROVE  c = Other
    <2>1. /\ WorldFolder(<<c>>) => c = Other
          /\ WorldFolder(<<NetherOf(c), Dim1>>) => NetherOf(c) = NetherOf(Other)
          /\ ~ WorldFolder(<<EndOf(c), Dim2>>)
      BY <1>1, FixedNamesApart DEF Bukkit26Folders
    <2>2. QED
      BY <1>1, <1>4, <2>1, SplitAt, SplitNames
  <1>5. QED
    BY <1>2, <1>3, <1>4 DEF Hit

LEMMA DetectHit ==
  ASSUME NEW bases \in Seq(DirNames), NEW k \in 1 .. Len(bases), NEW b, bases[k] = b, Hit(b),
         k = 1 \/ \A i \in 1 .. Len(bases) : Hit(bases[i]) => i = k
  PROVE  Detect(bases) =
           [layout |-> IF In26(<<b>>) THEN "bukkit26" ELSE "bukkit", base |-> b]
  <1> DEFINE hits == {i \in DOMAIN bases : In26(<<bases[i]>>) \/ InSplit(bases[i])}
             least == CHOOSE i \in hits : \A j \in hits : i <= j
  <1>1. /\ hits \subseteq 1 .. Len(bases) /\ k \in hits
        /\ \A i \in hits : Hit(bases[i])
    BY DEF Hit
  <1>2. \A j \in hits : k <= j
    BY <1>1
  <1>3. \A i \in hits : (\A j \in hits : i <= j) => i = k
    <2>1. CASE k = 1
      <3>1. SUFFICES ASSUME NEW i \in hits, i <= k
                     PROVE  i = k
        BY <1>1
      <3>2. i \in 1 .. Len(bases)
        BY <1>1
      <3>3. QED
        BY <2>1, <3>1, <3>2
    <2>2. CASE \A i \in 1 .. Len(bases) : Hit(bases[i]) => i = k
      BY <1>1, <2>2
    <2>3. QED
      BY <2>1, <2>2
  <1> HIDE DEF hits
  <1>4. least = k
    BY <1>1, <1>2, <1>3
  <1>5. hits # {}
    BY <1>1
  <1> HIDE DEF least
  <1>6. Detect(bases) = [layout |-> IF In26(<<bases[least]>>) THEN "bukkit26" ELSE "bukkit",
                         base |-> bases[least]]
    BY <1>5, Zenon DEF Detect, hits, least
  <1>7. QED
    BY <1>4, <1>6, Zenon

LEMMA DetectMiss ==
  ASSUME NEW bases \in Seq(DirNames), \A i \in 1 .. Len(bases) : ~ Hit(bases[i])
  PROVE  /\ In26(<<>>) =>
              Detect(bases) = [layout |-> "vanilla26", base |-> NoLevel]
         /\ ~ In26(<<>>) /\ (\E d \in Trio : WorldFolder(NewLegacy[d])) =>
              Detect(bases) = [layout |-> "vanilla", base |-> NoLevel]
  <1> DEFINE hits == {i \in DOMAIN bases : In26(<<bases[i]>>) \/ InSplit(bases[i])}
  <1>1. hits = {}
    BY DEF Hit
  <1>2. QED
    BY <1>1, Zenon DEF Detect

LEMMA Trees ==
  ASSUME NEW b
  PROVE  /\ TreeOf([layout |-> "bukkit26", base |-> b]) = CollectDimensions(<<b, Tree26>>)
         /\ TreeOf([layout |-> "bukkit", base |-> b]) = Over(FixedDirs(b), CollectCustom(b))
         /\ TreeOf([layout |-> "vanilla26", base |-> b]) = CollectDimensions(<<Tree26>>)
         /\ TreeOf([layout |-> "vanilla", base |-> b]) =
              Over(NewLegacy, CollectDimensions(<<Tree26>>))
  BY Zenon DEF TreeOf

-----------------------------------------------------------------------------
(* The bases that are tried. *)

LEMMA Singly ==
  ASSUME NEW S, NEW r \in Seq(S), Len(r) = 1
  PROVE  SubSeq(r, 1, 1) = r /\ \A x : r[1] = x => r = <<x>>
  OBVIOUS

LEMMA Widened ==
  ASSUME NEW S, NEW T, S \subseteq T, NEW s \in Seq(S)
  PROVE  s \in Seq(T) /\ \A i \in 1 .. Len(s) : s[i] \in S
  OBVIOUS

LEMMA Entry ==
  ASSUME DirsNamed
  PROVE  /\ \A n \in Entries(<<>>) :
              n \in DirNames /\ Dir(<<n>>) /\ \E f \in root : f.dir # <<>> /\ n = f.dir[1]
         /\ \A f \in root : f.dir # <<>> => f.dir[1] \in Entries(<<>>)
  <1>1. Len(<<>>) + 1 = 1
    OBVIOUS
  <1>2. \A q \in Seq(DirNames) : q # <<>> =>
          q[1] \in DirNames /\ IsPrefix(<<q[1]>>, q) /\ IsStrictPrefix(<<>>, q)
    <2>1. SUFFICES ASSUME NEW q \in Seq(DirNames), q # <<>>
                   PROVE  q[1] \in DirNames /\ IsPrefix(<<q[1]>>, q) /\ IsStrictPrefix(<<>>, q)
      OBVIOUS
    <2>2. Len(q) \in Nat \ {0} /\ q[1] \in DirNames
      BY <2>1
    <2>3. IsPrefix(<<q[1]>>, q)
      <3>1. /\ Len(<<q[1]>>) = 1 /\ SubSeq(<<q[1]>>, 1, 1) = <<q[1]>>
            /\ SubSeq(q, 1, 1) = <<q[1]>>
        <4>1. /\ SubSeq(q, 1, 1) \in Seq(DirNames) /\ Len(SubSeq(q, 1, 1)) = 1
              /\ SubSeq(q, 1, 1)[1] = q[1]
          BY <2>2
        <4>2. SubSeq(q, 1, 1) = <<q[1]>>
          BY <4>1, Singly, Zenon
        <4>3. <<q[1]>> \in Seq(DirNames) /\ Len(<<q[1]>>) = 1
          BY <2>2
        <4>4. SubSeq(<<q[1]>>, 1, 1) = <<q[1]>>
          BY <4>3, Singly, Zenon
        <4>5. QED
          BY <4>2, <4>3, <4>4, Zenon
      <3>2. QED
        BY <2>2, <3>1 DEF IsPrefix
    <2>4. IsStrictPrefix(<<>>, q)
      <3>1. Len(<<>>) = 0 /\ SubSeq(<<>>, 1, 0) = <<>> /\ SubSeq(q, 1, 0) = <<>>
        BY <2>2
      <3>2. QED
        BY <2>1, <2>2, <3>1 DEF IsStrictPrefix, IsPrefix
    <2>5. QED
      BY <2>2, <2>3, <2>4
  <1>3. ~ IsStrictPrefix(<<>>, <<>>)
    BY DEF IsStrictPrefix
  <1>4. Entries(<<>>) = {f.dir[1] : f \in {g \in root : IsStrictPrefix(<<>>, g.dir)}}
    BY <1>1, Zenon DEF Entries
  <1>5. ASSUME NEW n \in Entries(<<>>)
        PROVE  n \in DirNames /\ Dir(<<n>>) /\ \E f \in root : f.dir # <<>> /\ n = f.dir[1]
    <2>1. PICK f \in root : IsStrictPrefix(<<>>, f.dir) /\ n = f.dir[1]
      BY <1>4, <1>5
    <2>2. f.dir \in Seq(DirNames) /\ f.dir # <<>>
      BY <1>3, <2>1 DEF DirsNamed
    <2>3. n \in DirNames /\ IsPrefix(<<n>>, f.dir)
      BY <1>2, <2>1, <2>2
    <2>4. QED
      BY <2>1, <2>2, <2>3 DEF Dir
  <1>6. \A f \in root : f.dir # <<>> => f.dir[1] \in Entries(<<>>)
    BY <1>2, <1>4 DEF DirsNamed
  <1>7. QED
    BY <1>5, <1>6

LEMMA FoldersFinite ==
  ASSUME NEW b
  PROVE  IsFiniteSet({FolderOf(b, d) : d \in Custom})
  <1> DEFINE T == {FolderOf(b, d) : d \in Custom}
             folder == [d \in Custom |-> FolderOf(b, d)]
  <1>1. folder \in [Custom -> T] /\ \A n \in T : \E d \in Custom : folder[d] = n
    OBVIOUS
  <1>2. folder \in Surjection(Custom, T)
    <2> HIDE DEF folder, T
    <2>1. QED
      BY <1>1 DEF Surjection
  <1>3. IsFiniteSet(Custom)
    BY LayoutAssumption
  <1> HIDE DEF folder, T
  <1>4. IsFiniteSet(T)
    BY <1>2, <1>3, FS_Surjection
  <1>5. QED
    BY <1>4 DEF T

LEMMA EntriesFinite ==
  ASSUME TheEndOfPack \notin Custom, NEW layout, NEW b, World(layout, b)
  PROVE  IsFiniteSet(Candidates)
  <1> DEFINE fixed == {Tree26, Dim1, Dim2, b, NetherOf(b), EndOf(b), Other, NetherOf(Other)}
             folders == {FolderOf(b, d) : d \in Custom}
  <1>1. layout \in Layouts /\ There \subseteq Dimensions /\ DirsNamed
    BY PlacesNamed DEF World
  <1>2. \A d \in There \cap Trio :
          /\ NewLegacy[d] # <<>> => NewLegacy[d][1] \in fixed
          /\ FixedDirs(b)[d][1] \in fixed
    BY LegacyAt, FixedAt DEF Trio
  <1>3. \A d \in There \ Trio : FolderOf(b, d) \in folders
    BY <1>1, DimensionNames
  <1>4. \A d \in There : world.places[d] # <<>> => world.places[d][1] \in fixed \cup folders
    <2>1. CASE layout = "vanilla"
      <3>1. /\ \A d \in There \cap Trio : world.places[d] = NewLegacy[d]
            /\ \A d \in There \ Trio : world.places[d] = <<Tree26, d[1], d[2]>>
        BY <2>1, VanillaPlaces DEF World
      <3>2. QED
        BY <1>2, <3>1
    <2>2. CASE layout = "vanilla26"
      <3>1. \A d \in There : world.places[d] = <<Tree26, d[1], d[2]>>
        BY <2>2, Vanilla26Places DEF World
      <3>2. QED
        BY <3>1
    <2>3. CASE layout = "bukkit"
      <3>1. /\ \A d \in There \cap Trio : world.places[d] = FixedDirs(b)[d]
            /\ \A d \in There \ Trio : world.places[d] = <<FolderOf(b, d), Tree26, d[1], d[2]>>
        BY <2>3, BukkitPlaces DEF World
      <3> HIDE DEF fixed, folders
      <3>2. QED
        BY <1>2, <1>3, <3>1
    <2>4. CASE layout = "bukkit26"
      <3>1. \A d \in There : world.places[d] = <<b, Tree26, d[1], d[2]>>
        BY <2>4, Bukkit26Places DEF World
      <3>2. QED
        BY <3>1
    <2>5. QED
      BY <1>1, <2>1, <2>2, <2>3, <2>4 DEF Layouts
  <1>5. \A p \in OtherDirs : p[1] \in fixed
    BY DEF OtherDirs
  <1>6. Entries(<<>>) \subseteq fixed \cup folders
    <2>1. SUFFICES ASSUME NEW f \in root, f.dir # <<>>
                   PROVE  f.dir[1] \in fixed \cup folders
      BY <1>1, Entry
    <2>2. WorldFolder(f.dir)
      BY DEF WorldFolder
    <2>3. f.dir \in OtherDirs \/ \E d \in There : f.dir = world.places[d]
      BY <2>2, Folders
    <2> HIDE DEF fixed, folders
    <2>4. QED
      BY <1>4, <1>5, <2>1, <2>3
  <1>7. IsFiniteSet(fixed)
    <2>1. /\ IsFiniteSet({Tree26, Dim1}) /\ IsFiniteSet({Dim2, b})
          /\ IsFiniteSet({NetherOf(b), EndOf(b)}) /\ IsFiniteSet({Other, NetherOf(Other)})
      <3>1. ASSUME NEW x, NEW y
            PROVE  IsFiniteSet({x, y})
        <4>1. {x, y} = {x} \cup {y}
          OBVIOUS
        <4>2. IsFiniteSet({x}) /\ IsFiniteSet({y})
          BY FS_Singleton
        <4>3. IsFiniteSet({x} \cup {y})
          BY <4>2, FS_Union
        <4>4. QED
          BY <4>1, <4>3, Zenon
      <3>2. QED
        BY <3>1
    <2>2. fixed = ({Tree26, Dim1} \cup {Dim2, b})
                    \cup ({NetherOf(b), EndOf(b)} \cup {Other, NetherOf(Other)})
      OBVIOUS
    <2> HIDE DEF fixed
    <2>3. QED
      BY <2>1, <2>2, FS_Union
  <1>8. IsFiniteSet(folders)
    BY FoldersFinite
  <1> HIDE DEF fixed, folders
  <1>9. IsFiniteSet(fixed \cup folders)
    BY <1>7, <1>8, FS_Union
  <1>10. Candidates \in SUBSET (fixed \cup folders)
    BY <1>6 DEF Candidates
  <1>11. QED
    BY <1>9, <1>10, FS_Subset

LEMMA BasesTried ==
  ASSUME TheEndOfPack \notin Custom, NEW layout, NEW b, World(layout, b),
         NEW bases \in BukkitBases, level = NoLevel
  PROVE  \E s \in Seq(Candidates), first \in Seq(Candidates) :
           /\ bases = first \o s
           /\ first = IF <<"world">> \in Candidates THEN << <<"world">> >> ELSE <<>>
           /\ \A c \in Candidates \ {<<"world">>} : \E i \in 1 .. Len(s) : s[i] = c
           /\ \A i, j \in 1 .. Len(s) : s[i] = s[j] => i = j
  <1> DEFINE rest == Candidates \ {<<"world">>}
             first == IF <<"world">> \in Candidates THEN << <<"world">> >> ELSE <<>>
             n == Cardinality(rest)
  <1>1. PICK s \in SetToSeqs(rest) : bases = first \o s
    BY DEF BukkitBases
  <1>2. IsFiniteSet(rest)
    <2>1. IsFiniteSet(Candidates) /\ rest \in SUBSET Candidates
      BY EntriesFinite
    <2> HIDE DEF rest
    <2>2. QED
      BY <2>1, FS_Subset
  <1>3. n \in Nat /\ IsFiniteSet(1 .. n) /\ Cardinality(1 .. n) = n
    <2>1. n \in Nat
      BY <1>2, FS_CardinalityType
    <2> HIDE DEF n
    <2>2. QED
      BY <2>1, FS_Interval
  <1>4. s \in [1 .. n -> rest] /\ \A i, j \in 1 .. n : i # j => s[i] # s[j]
    BY <1>1, Zenon DEF SetToSeqs
  <1> HIDE DEF n
  <1>5. s \in Seq(rest) /\ Len(s) = n
    BY <1>3, <1>4
  <1>6. \A c \in rest : \E i \in 1 .. n : s[i] = c
    <2>1. s \in Injection(1 .. n, rest)
      BY <1>4 DEF Injection, IsInjective
    <2>2. s \in Surjection(1 .. n, rest)
      BY <1>2, <1>3, <2>1, FS_Injection DEF n
    <2>3. QED
      BY <2>2 DEF Surjection
  <1>7. s \in Seq(Candidates) /\ first \in Seq(Candidates)
    BY <1>5
  <1>8. QED
    BY <1>1, <1>4, <1>5, <1>6, <1>7

LEMMA BasesNamed ==
  ASSUME TheEndOfPack \notin Custom, NEW layout, NEW b, World(layout, b), NEW bases \in BukkitBases
  PROVE  /\ bases \in Seq(DirNames)
         /\ \A i \in 1 .. Len(bases) :
              /\ bases[i] \in DirNames /\ bases[i] \notin {Tree26, Dim1, Dim2}
              /\ bases[i] = Other => level = NoLevel /\ Dir(<<Other>>)
  <1>1. DirsNamed
    BY PlacesNamed
  <1>2. CASE level # NoLevel
    <2>1. level \in Bases
      BY <1>2 DEF World, LayoutInv, LevelKept
    <2>2. /\ level \in DirNames /\ level \notin {Tree26, Dim1, Dim2} /\ level # Other
      BY <2>1, BaseNames
    <2>3. bases = <<level>>
      BY <1>2 DEF BukkitBases
    <2>4. <<level>> \in Seq(DirNames) /\ Len(<<level>>) = 1 /\ <<level>>[1] = level
      BY <2>2
    <2>5. QED
      BY <2>2, <2>3, <2>4
  <1>3. CASE level = NoLevel
    <2>1. \A c \in Candidates : /\ c \in DirNames /\ c \notin {Tree26, Dim1, Dim2}
                                /\ Dir(<<c>>)
      BY <1>1, Entry DEF Candidates
    <2>2. PICK s \in Seq(Candidates), first \in Seq(Candidates) : bases = first \o s
      BY <1>3, BasesTried
    <2>3. bases \in Seq(Candidates)
      BY <2>2
    <2>4. /\ bases \in Seq(DirNames)
          /\ \A i \in 1 .. Len(bases) : bases[i] \in Candidates
      <3>1. Candidates \subseteq DirNames
        BY <2>1
      <3>2. QED
        BY <2>3, <3>1, Widened
    <2>5. QED
      BY <1>3, <2>1, <2>4
  <1>4. QED
    BY <1>2, <1>3

LEMMA BaseStandsOut ==
  ASSUME TheEndOfPack \notin Custom, NEW layout \in Split, NEW b, World(layout, b), Clear,
         level = NoLevel
  PROVE  b \in Candidates /\ (b = <<"world">> \/ ~ Dir(<<Other>>))
  <1>1. /\ world.layout = layout /\ world.base = b /\ b \in Bases /\ DirsNamed
        /\ There \cap Trio # {}
    BY PlacesNamed DEF World
  <1>2. b \in DirNames /\ b \notin {Tree26, Dim1, Dim2} /\ b # NoLevel
    BY <1>1, BaseNames
  <1>3. /\ b = <<"world">> \/ ~ Dir(<<Other>>)
        /\ \/ layout = "bukkit26"
           \/ {Nether, TheEnd} \cap There # {} /\ Overworld \in There
    <2>1. CASE layout = "bukkit"
      <3>1. world.layout = "bukkit"
        BY <1>1, <2>1
      <3>2. QED
        BY <1>1, <1>2, <3>1, Zenon DEF Clear, There
    <2>2. CASE layout = "bukkit26"
      <3>1. world.layout = "bukkit26"
        BY <1>1, <2>2
      <3>2. b = <<"world">> \/ ~ Dir(<<Other>>)
        BY <1>1, <1>2, <3>1, Zenon DEF Clear
      <3>3. QED
        BY <2>2, <3>2
    <2>3. QED
      BY <2>1, <2>2 DEF Split
  <1>4. ASSUME NEW p, WorldFolder(p), p # <<>>
        PROVE  p[1] \in Entries(<<>>) /\ p \in Seq(DirNames)
    <2>1. PICK f \in root : f.dir = p
      BY <1>4 DEF WorldFolder
    <2>2. QED
      BY <1>1, <1>4, <2>1, Entry DEF DirsNamed
  <1>5. CASE layout = "bukkit26"
    <2>1. PICK d \in There : TRUE
      BY <1>1
    <2>2. WorldFolder(<<b, Tree26, d[1], d[2]>>)
      BY <1>5, <2>1, InBukkit26 DEF Bukkit26Folders
    <2>3. <<b, Tree26, d[1], d[2]>> # <<>> /\ <<b, Tree26, d[1], d[2]>>[1] = b
      OBVIOUS
    <2>4. b \in Entries(<<>>)
      BY <1>4, <2>2, <2>3
    <2>5. IsPrefix(<<b, Tree26>>, <<b, Tree26, d[1], d[2]>>)
      BY DEF IsPrefix
    <2>6. Dir(<<b, Tree26>>)
      BY <2>2, <2>5 DEF WorldFolder, Dir
    <2>7. QED
      BY <1>2, <1>3, <2>4, <2>6 DEF Candidates
  <1>6. CASE layout = "bukkit"
    <2>1. Overworld \in There /\ (Nether \in There \/ TheEnd \in There)
      BY <1>3, <1>6
    <2>2. \A d \in Trio \cap There : WorldFolder(FixedDirs(b)[d])
      BY <1>6, InBukkit DEF BukkitFolders
    <2>3. WorldFolder(<<b>>)
      BY <2>1, <2>2, FixedAt DEF Trio
    <2>4. <<b>> # <<>> /\ <<b>>[1] = b
      OBVIOUS
    <2>5. b \in Entries(<<>>)
      BY <1>4, <2>3, <2>4
    <2>6. /\ IsPrefix(<<NetherOf(b)>>, <<NetherOf(b), Dim1>>)
          /\ IsPrefix(<<EndOf(b)>>, <<EndOf(b), Dim2>>)
      BY DEF IsPrefix
    <2>7. Dir(<<NetherOf(b)>>) \/ Dir(<<EndOf(b)>>)
      <3>1. CASE Nether \in There
        <4>1. WorldFolder(<<NetherOf(b), Dim1>>)
          BY <2>2, <3>1, FixedAt DEF Trio
        <4>2. QED
          BY <2>6, <4>1 DEF WorldFolder, Dir
      <3>2. CASE TheEnd \in There
        <4>1. WorldFolder(<<EndOf(b), Dim2>>)
          BY <2>2, <3>2, FixedAt DEF Trio
        <4>2. QED
          BY <2>6, <4>1 DEF WorldFolder, Dir
      <3>3. QED
        BY <2>1, <3>1, <3>2
    <2>8. QED
      BY <1>2, <1>3, <2>5, <2>7 DEF Candidates
  <1>7. QED
    BY <1>5, <1>6 DEF Split

LEMMA BaseFound ==
  ASSUME TheEndOfPack \notin Custom, NEW layout \in Split, NEW b, World(layout, b), Clear,
         NEW bases \in BukkitBases
  PROVE  \E k \in 1 .. Len(bases) :
           /\ bases[k] = b
           /\ k = 1 \/ \A i \in 1 .. Len(bases) : Hit(bases[i]) => i = k
  <1>1. /\ world.layout = layout /\ world.base = b /\ b \in Bases
    BY DEF World
  <1>2. b \in DirNames /\ b # NoLevel
    BY <1>1, BaseNames
  <1>3. CASE level # NoLevel
    <2>1. level = b
      <3>1. world.layout \in {"bukkit", "bukkit26"}
        BY <1>1 DEF Split
      <3>2. CASE world.layout = "bukkit"
        BY <1>1, <1>3, <3>2, Zenon DEF Clear
      <3>3. CASE world.layout = "bukkit26"
        BY <1>1, <1>3, <3>3, Zenon DEF Clear
      <3>4. QED
        BY <3>1, <3>2, <3>3
    <2>2. bases = <<b>>
      BY <1>3, <2>1 DEF BukkitBases
    <2>3. Len(<<b>>) = 1 /\ <<b>>[1] = b
      OBVIOUS
    <2>4. QED
      BY <2>2, <2>3
  <1>4. CASE level = NoLevel
    <2>1. b \in Candidates /\ (b = <<"world">> \/ ~ Dir(<<Other>>))
      BY <1>4, BaseStandsOut
    <2>2. PICK s \in Seq(Candidates), first \in Seq(Candidates) :
           /\ bases = first \o s
           /\ first = IF <<"world">> \in Candidates THEN << <<"world">> >> ELSE <<>>
           /\ \A c \in Candidates \ {<<"world">>} : \E i \in 1 .. Len(s) : s[i] = c
           /\ \A i, j \in 1 .. Len(s) : s[i] = s[j] => i = j
      BY <1>4, BasesTried
    <2>3. /\ bases \in Seq(Candidates) /\ Len(bases) = Len(first) + Len(s)
          /\ \A i \in 1 .. Len(first) : bases[i] = first[i]
          /\ \A i \in 1 .. Len(s) : bases[Len(first) + i] = s[i]
          /\ Len(first) \in Nat /\ Len(s) \in Nat
      BY <2>2, JoinedLength
    <2>4. CASE b = <<"world">>
      <3>1. first = <<b>>
        BY <2>1, <2>2, <2>4
      <3>2. Len(first) = 1 /\ first[1] = b
        BY <3>1
      <3>3. 1 \in 1 .. Len(bases) /\ 1 \in 1 .. Len(first)
        BY <2>3, <3>2
      <3>4. bases[1] = b
        BY <2>3, <3>2, <3>3
      <3>5. QED
        BY <3>3, <3>4
    <2>5. CASE b # <<"world">>
      <3>1. PICK j \in 1 .. Len(s) : s[j] = b
        BY <2>1, <2>2, <2>5
      <3>2. Len(first) + j \in 1 .. Len(bases) /\ bases[Len(first) + j] = b
        BY <2>3, <3>1
      <3>3. \A i \in 1 .. Len(first) : first[i] = <<"world">>
        BY <2>2
      <3>4. ASSUME NEW i \in 1 .. Len(bases), bases[i] = b
            PROVE  i = Len(first) + j
        <4>1. i \notin 1 .. Len(first)
          BY <2>3, <2>5, <3>3, <3>4
        <4>2. PICK m \in 1 .. Len(s) : i = Len(first) + m
          <5>1. i - Len(first) \in 1 .. Len(s) /\ i = Len(first) + (i - Len(first))
            BY <2>3, <3>4, <4>1
          <5>2. QED
            BY <5>1
        <4>3. s[m] = b
          BY <2>3, <3>4, <4>2
        <4>4. QED
          BY <2>2, <3>1, <4>2, <4>3
      <3>5. \A c \in DirNames : Hit(c) => c \in {b, Other}
        BY HitsInBukkit, HitsInBukkit26 DEF Split
      <3>6. ASSUME NEW i \in 1 .. Len(bases), Hit(bases[i])
            PROVE  bases[i] = b
        BY <2>1, <2>5, <3>5, <3>6, BasesNamed
      <3>7. QED
        BY <3>2, <3>4, <3>6
    <2>6. QED
      BY <2>4, <2>5
  <1>5. QED
    BY <1>3, <1>4

-----------------------------------------------------------------------------
(* The trees that are built. *)

Fits(tree) ==
  /\ \A d \in There : d \in DOMAIN tree /\ tree[d] = world.places[d]
  /\ \A d \in DOMAIN tree \ There : ~ WorldFolder(tree[d])

LEMMA VanillaFits ==
  ASSUME TheEndOfPack \notin Custom, NEW b, World("vanilla", b)
  PROVE  Fits(Over(NewLegacy, CollectDimensions(<<Tree26>>)))
  <1> DEFINE ids == {d \in DirNames \X DirNames : WorldFolder(<<Tree26, d[1], d[2]>>)}
             tree == Over(NewLegacy, CollectDimensions(<<Tree26>>))
  <1>1. VanillaFolders(There) /\ DirsNamed /\ There \subseteq DirNames \X DirNames
    BY InVanilla, PlacesNamed, DimensionNames DEF World
  <1>2. ids = There \ Trio
    BY <1>1 DEF VanillaFolders
  <1>3. CollectDimensions(<<Tree26>>) = [d \in There \ Trio |-> <<Tree26, d[1], d[2]>>]
    BY <1>1, <1>2, CollectedRoot, Zenon
  <1>4. DOMAIN NewLegacy = Trio
    BY LegacyAt
  <1>5. /\ DOMAIN tree = Trio \cup There
        /\ \A d \in Trio : tree[d] = NewLegacy[d]
        /\ \A d \in There \ Trio : tree[d] = <<Tree26, d[1], d[2]>>
    BY <1>3, <1>4 DEF Over
  <1>6. /\ \A d \in There \cap Trio : world.places[d] = NewLegacy[d]
        /\ \A d \in There \ Trio : world.places[d] = <<Tree26, d[1], d[2]>>
    BY VanillaPlaces DEF World
  <1>7. \A d \in Trio : WorldFolder(NewLegacy[d]) => d \in There
    BY <1>1 DEF VanillaFolders
  <1> HIDE DEF tree
  <1>8. Fits(tree)
    BY <1>5, <1>6, <1>7 DEF Fits
  <1>9. QED
    BY <1>8 DEF tree

LEMMA Vanilla26Fits ==
  ASSUME TheEndOfPack \notin Custom, NEW b, World("vanilla26", b)
  PROVE  Fits(CollectDimensions(<<Tree26>>))
  <1> DEFINE ids == {d \in DirNames \X DirNames : WorldFolder(<<Tree26, d[1], d[2]>>)}
  <1>1. Vanilla26Folders(There) /\ DirsNamed /\ There \subseteq DirNames \X DirNames
    BY InVanilla26, PlacesNamed, DimensionNames DEF World
  <1>2. ids = There
    BY <1>1 DEF Vanilla26Folders
  <1>3. CollectDimensions(<<Tree26>>) = [d \in There |-> <<Tree26, d[1], d[2]>>]
    BY <1>1, <1>2, CollectedRoot, Zenon
  <1>4. \A d \in There : world.places[d] = <<Tree26, d[1], d[2]>>
    BY Vanilla26Places DEF World
  <1>5. QED
    BY <1>3, <1>4 DEF Fits

LEMMA Bukkit26Fits ==
  ASSUME TheEndOfPack \notin Custom, NEW b, World("bukkit26", b)
  PROVE  Fits(CollectDimensions(<<b, Tree26>>))
  <1> DEFINE ids == {d \in DirNames \X DirNames : WorldFolder(<<b, Tree26, d[1], d[2]>>)}
  <1>1. /\ Bukkit26Folders(b, There) /\ DirsNamed /\ There \subseteq DirNames \X DirNames
        /\ b \in DirNames
    BY InBukkit26, PlacesNamed, DimensionNames, BaseNames DEF World
  <1>2. ids = There
    <2>1. \A d \in ids : d = <<d[1], d[2]>>
      BY DimensionNames
    <2>2. QED
      BY <1>1, <2>1 DEF Bukkit26Folders
  <1>3. CollectDimensions(<<b, Tree26>>) = [d \in There |-> <<b, Tree26, d[1], d[2]>>]
    BY <1>1, <1>2, CollectedIn, Zenon
  <1>4. \A d \in There : world.places[d] = <<b, Tree26, d[1], d[2]>>
    BY Bukkit26Places DEF World
  <1>5. QED
    BY <1>3, <1>4 DEF Fits

\* Every datapack dimension is in one sibling, the one named after it.
LEMMA CustomCollected ==
  ASSUME TheEndOfPack \notin Custom, NEW b, World("bukkit", b)
  PROVE  CollectCustom(b) =
           [d \in There \ Trio |-> <<FolderOf(b, d), Tree26, d[1], d[2]>>]
  <1> DEFINE in(n) == CollectDimensions(<<n, Tree26>>)
             sibling(d) == CHOOSE n \in Siblings(b) : d \in DOMAIN in(n)
             dims == UNION {DOMAIN in(n) : n \in Siblings(b)}
  <1>1. /\ BukkitFolders(b, There) /\ DirsNamed /\ There \subseteq Dimensions
        /\ There \subseteq DirNames \X DirNames /\ b \in DirNames
    BY InBukkit, PlacesNamed, DimensionNames, BaseNames DEF World
  <1>2. \A n \in Siblings(b) : n \in DirNames
    BY <1>1, Entry DEF Siblings
  <1>3. ASSUME NEW n \in Siblings(b)
        PROVE  in(n) = [d \in {d \in There \ Trio : n = FolderOf(b, d)} |->
                          <<n, Tree26, d[1], d[2]>>]
    <2> DEFINE ids == {d \in DirNames \X DirNames : WorldFolder(<<n, Tree26, d[1], d[2]>>)}
               mine == {d \in There \ Trio : n = FolderOf(b, d)}
    <2>1. \A d \in ids : d \in mine
      <3>1. SUFFICES ASSUME NEW d \in DirNames \X DirNames, WorldFolder(<<n, Tree26, d[1], d[2]>>)
                     PROVE  d \in mine
        OBVIOUS
      <3>2. PICK e \in There \ Trio : e = <<d[1], d[2]>> /\ n = FolderOf(b, e)
        BY <1>1, <3>1 DEF BukkitFolders
      <3>3. d = e
        BY <3>2, DimensionNames
      <3>4. QED
        BY <3>2, <3>3
    <2>2. \A d \in mine : d \in ids
      BY <1>1 DEF BukkitFolders
    <2> HIDE DEF mine
    <2>3. ids = mine
      BY <2>1, <2>2
    <2>4. in(n) = [d \in ids |-> <<n, Tree26, d[1], d[2]>>]
      BY <1>1, <1>2, <1>3, CollectedIn, Zenon
    <2>5. QED
      BY <2>3, <2>4, Zenon DEF mine
  <1>4. \A d \in There \ Trio : FolderOf(b, d) \in Siblings(b)
    <2>1. TAKE d \in There \ Trio
    <2>2. d \in Custom
      BY <1>1, DimensionNames
    <2>3. /\ IsStrictPrefix(b, FolderOf(b, d))
          /\ FolderOf(b, d) \notin {NetherOf(b), EndOf(b)}
      BY <1>1, <2>2, FolderApart
    <2>4. WorldFolder(<<FolderOf(b, d), Tree26, d[1], d[2]>>)
      BY <1>1 DEF BukkitFolders
    <2>5. PICK f \in root : f.dir = <<FolderOf(b, d), Tree26, d[1], d[2]>>
      BY <2>4 DEF WorldFolder
    <2>6. f.dir # <<>> /\ f.dir[1] = FolderOf(b, d)
      BY <2>5
    <2>7. FolderOf(b, d) \in Entries(<<>>)
      BY <1>1, <2>6, Entry
    <2>8. QED
      BY <2>3, <2>7 DEF Siblings
  <1>5. \A n \in Siblings(b) : DOMAIN in(n) = {d \in There \ Trio : n = FolderOf(b, d)}
    BY <1>3
  <1>6. dims = There \ Trio
    BY <1>4, <1>5
  <1>7. \A d \in There \ Trio : sibling(d) = FolderOf(b, d)
    BY <1>4, <1>5
  <1>8. \A d \in There \ Trio :
          in(FolderOf(b, d))[d] = <<FolderOf(b, d), Tree26, d[1], d[2]>>
    BY <1>3, <1>4
  <1>9. CollectCustom(b) = [d \in dims |-> in(sibling(d))[d]]
    BY Zenon DEF CollectCustom
  <1> HIDE DEF in, dims, sibling
  <1>10. QED
    BY <1>6, <1>7, <1>8, <1>9

LEMMA BukkitFits ==
  ASSUME TheEndOfPack \notin Custom, NEW b, World("bukkit", b)
  PROVE  Fits(Over(FixedDirs(b), CollectCustom(b)))
  <1> DEFINE tree == Over(FixedDirs(b), CollectCustom(b))
  <1>1. BukkitFolders(b, There)
    BY InBukkit
  <1>2. CollectCustom(b) = [d \in There \ Trio |-> <<FolderOf(b, d), Tree26, d[1], d[2]>>]
    BY CustomCollected
  <1>3. DOMAIN FixedDirs(b) = Trio
    BY FixedAt
  <1>4. /\ DOMAIN tree = Trio \cup There
        /\ \A d \in Trio : tree[d] = FixedDirs(b)[d]
        /\ \A d \in There \ Trio : tree[d] = <<FolderOf(b, d), Tree26, d[1], d[2]>>
    BY <1>2, <1>3 DEF Over
  <1>5. /\ \A d \in There \cap Trio : world.places[d] = FixedDirs(b)[d]
        /\ \A d \in There \ Trio : world.places[d] = <<FolderOf(b, d), Tree26, d[1], d[2]>>
    BY BukkitPlaces DEF World
  <1>6. \A d \in Trio : WorldFolder(FixedDirs(b)[d]) => d \in There
    BY <1>1 DEF BukkitFolders
  <1> HIDE DEF tree
  <1>7. Fits(tree)
    BY <1>4, <1>5, <1>6 DEF Fits
  <1>8. QED
    BY <1>7 DEF tree

LEMMA TreeFits ==
  ASSUME TheEndOfPack \notin Custom, NEW layout, NEW b, World(layout, b), Clear,
         NEW bases \in BukkitBases
  PROVE  Fits(TreeOf(Detect(bases)))
  <1>1. /\ layout \in Layouts /\ b \in Bases /\ world.layout = layout
        /\ There \cap Trio # {} /\ There \subseteq DirNames \X DirNames
        /\ b \in DirNames /\ Other \in DirNames
    BY BaseNames, DimensionNames DEF World
  <1>2. /\ bases \in Seq(DirNames)
        /\ \A i \in 1 .. Len(bases) :
             /\ bases[i] \in DirNames /\ bases[i] \notin {Tree26, Dim1, Dim2}
             /\ bases[i] = Other => level = NoLevel /\ Dir(<<Other>>)
    BY BasesNamed
  <1>3. ASSUME layout \in {"vanilla", "vanilla26"}
        PROVE  \A i \in 1 .. Len(bases) : ~ Hit(bases[i])
    <2>1. ~ Dir(<<Other>>) \/ level # NoLevel
      <3>1. CASE world.layout = "vanilla"
        BY <3>1, Zenon DEF Clear
      <3>2. CASE world.layout = "vanilla26"
        BY <3>2, Zenon DEF Clear
      <3>3. QED
        BY <1>1, <1>3, <3>1, <3>2
    <2>2. VanillaFolders(There) \/ Vanilla26Folders(There)
      BY <1>3, InVanilla, InVanilla26
    <2>3. \A i \in 1 .. Len(bases) : bases[i] \in DirNames /\ bases[i] \notin {Dim1, Dim2, Other}
      BY <1>2, <2>1
    <2>4. QED
      BY <1>1, <2>2, <2>3, NoHit
  <1>4. ASSUME layout \in Split
        PROVE  Detect(bases) =
                 [layout |-> IF In26(<<b>>) THEN "bukkit26" ELSE "bukkit", base |-> b]
    <2>1. Hit(b)
      BY <1>4, HitsInBukkit, HitsInBukkit26 DEF Split
    <2>2. PICK k \in 1 .. Len(bases) :
            /\ bases[k] = b
            /\ k = 1 \/ \A i \in 1 .. Len(bases) : Hit(bases[i]) => i = k
      BY <1>4, BaseFound
    <2>3. QED
      BY <1>2, <2>1, <2>2, DetectHit
  <1>5. CASE layout = "vanilla"
    <2>1. VanillaFolders(There)
      BY <1>5, InVanilla
    <2>2. ~ In26(<<>>)
      <3>1. \A d \in Trio : ~ WorldFolder(<<Tree26, d[1], d[2]>>)
        BY <2>1, FixedNames DEF VanillaFolders
      <3>2. QED
        BY <3>1, Inside
    <2>3. \E d \in Trio : WorldFolder(NewLegacy[d])
      BY <1>1, <2>1 DEF VanillaFolders
    <2>4. Detect(bases) = [layout |-> "vanilla", base |-> NoLevel]
      BY <1>2, <1>3, <1>5, <2>2, <2>3, DetectMiss
    <2>5. Fits(Over(NewLegacy, CollectDimensions(<<Tree26>>)))
      BY <1>5, VanillaFits
    <2>6. QED
      BY <2>4, <2>5, Trees, Zenon
  <1>6. CASE layout = "vanilla26"
    <2>1. Vanilla26Folders(There)
      BY <1>6, InVanilla26
    <2>2. In26(<<>>)
      <3>1. \E d \in Trio : WorldFolder(<<Tree26, d[1], d[2]>>)
        BY <1>1, <2>1 DEF Vanilla26Folders
      <3>2. QED
        BY <3>1, Inside
    <2>3. Detect(bases) = [layout |-> "vanilla26", base |-> NoLevel]
      BY <1>2, <1>3, <1>6, <2>2, DetectMiss
    <2>4. Fits(CollectDimensions(<<Tree26>>))
      BY <1>6, Vanilla26Fits
    <2>5. QED
      BY <2>3, <2>4, Trees, Zenon
  <1>7. CASE layout = "bukkit"
    <2>1. ~ In26(<<b>>)
      BY <1>7, HitsInBukkit
    <2>2. Detect(bases) = [layout |-> "bukkit", base |-> b]
      BY <1>4, <1>7, <2>1 DEF Split
    <2>3. Fits(Over(FixedDirs(b), CollectCustom(b)))
      BY <1>7, BukkitFits
    <2>4. QED
      BY <2>2, <2>3, Trees, Zenon
  <1>8. CASE layout = "bukkit26"
    <2>1. In26(<<b>>)
      BY <1>8, HitsInBukkit26
    <2>2. Detect(bases) = [layout |-> "bukkit26", base |-> b]
      BY <1>4, <1>8, <2>1 DEF Split
    <2>3. Fits(CollectDimensions(<<b, Tree26>>))
      BY <1>8, Bukkit26Fits
    <2>4. QED
      BY <2>2, <2>3, Trees, Zenon
  <1>9. QED
    BY <1>1, <1>5, <1>6, <1>7, <1>8 DEF Layouts

-----------------------------------------------------------------------------
(* What is found in a tree. *)

\* The region files of a dimension in a tree.
Here(tree, d) == {f \in root : d \in DOMAIN tree /\ f.dir = tree[d]}

LEMMA RegionsFound ==
  ASSUME NEW tree, NEW d
  PROVE  Regions(tree, d).found = {f.region : f \in Here(tree, d)}
  BY Zenon DEF Regions, Here

LEMMA RegionsAmbiguous ==
  ASSUME NEW tree, NEW d
  PROVE  Regions(tree, d).ambiguous <=>
           \E f, g \in Here(tree, d) : f # g /\ f.region = g.region
  BY Zenon DEF Regions, Here

\* One directory holds one plain file of a region: of two, one is padded;
\* and a padded one lies beside the plain one of its region.
LEMMA Padded ==
  ASSUME Written, FilesKnown, NEW d \in There
  PROVE  (\E f, g \in {h \in root : h.dir = world.places[d]} : f # g /\ f.region = g.region)
           <=> \E f \in root : f.spelling = "padded" /\ f.dir = world.places[d]
  <1>1. ASSUME NEW f \in root, NEW g \in root, f.dir = world.places[d],
               g.dir = world.places[d], f # g, f.region = g.region
        PROVE  f.spelling = "padded" \/ g.spelling = "padded"
    <2>1. /\ f = [dir |-> f.dir, region |-> f.region, spelling |-> f.spelling]
          /\ g = [dir |-> g.dir, region |-> g.region, spelling |-> g.spelling]
          /\ f.spelling \in Spellings /\ g.spelling \in Spellings
      BY DEF FilesKnown
    <2>2. SUFFICES ASSUME f.spelling = "plain", g.spelling = "plain"
                   PROVE  FALSE
      BY <2>1 DEF Spellings
    <2>3. f.dir = g.dir /\ f.spelling = g.spelling /\ f.region = g.region
      BY <1>1, <2>2
    <2>4. [dir |-> f.dir, region |-> f.region, spelling |-> f.spelling]
            = [dir |-> g.dir, region |-> g.region, spelling |-> g.spelling]
      BY <2>3
    <2>5. QED
      BY <1>1, <2>1, <2>4
  <1>2. ASSUME NEW f \in root, f.spelling = "padded", f.dir = world.places[d]
        PROVE  /\ File(world.places[d], f.region) \in root
               /\ File(world.places[d], f.region).dir = world.places[d]
               /\ File(world.places[d], f.region) # f
               /\ File(world.places[d], f.region).region = f.region
    <2>1. f.region \in RegionIds
      BY DEF FilesKnown
    <2>2. File(world.places[d], f.region) \in root
      BY <2>1 DEF Written, There
    <2>3. QED
      BY <1>2, <2>2, FileFields
  <1>3. QED
    BY <1>1, <1>2, Zenon

\* A tree that fits finds every dimension where it is, and no other.
LEMMA FitsOpens ==
  ASSUME Written, FilesKnown, NEW tree, Fits(tree)
  PROVE  /\ \A d \in There :
              /\ d \in DOMAIN tree
              /\ Regions(tree, d).found = RegionIds
              /\ Regions(tree, d).ambiguous <=>
                   \E f \in root : f.spelling = "padded" /\ f.dir = world.places[d]
         /\ \A d \in DOMAIN tree \ There : Regions(tree, d).found = {}
  <1>1. ASSUME NEW d \in There
        PROVE  /\ d \in DOMAIN tree
               /\ Regions(tree, d).found = RegionIds
               /\ Regions(tree, d).ambiguous <=>
                    \E f \in root : f.spelling = "padded" /\ f.dir = world.places[d]
    <2>1. d \in DOMAIN tree /\ tree[d] = world.places[d]
      BY DEF Fits
    <2>2. Here(tree, d) = {h \in root : h.dir = world.places[d]}
      BY <2>1 DEF Here
    <2>3. {f.region : f \in Here(tree, d)} = RegionIds
      <3>1. \A f \in Here(tree, d) : f.region \in RegionIds
        BY <2>2 DEF FilesKnown
      <3>2. \A r \in RegionIds : File(world.places[d], r) \in Here(tree, d)
        BY <2>2, FileFields DEF Written, There
      <3>3. \A r \in RegionIds : File(world.places[d], r).region = r
        BY FileFields
      <3>4. QED
        BY <3>1, <3>2, <3>3
    <2>4. Regions(tree, d).found = RegionIds
      BY <2>3, RegionsFound
    <2>5. Regions(tree, d).ambiguous <=>
            \E f, g \in {h \in root : h.dir = world.places[d]} : f # g /\ f.region = g.region
      BY <2>2, RegionsAmbiguous, Zenon
    <2>6. QED
      BY <2>1, <2>4, <2>5, Padded, Zenon
  <1>2. ASSUME NEW d \in DOMAIN tree \ There
        PROVE  Regions(tree, d).found = {}
    <2>1. Here(tree, d) = {}
      BY DEF Fits, Here, WorldFolder
    <2>2. QED
      BY <2>1, RegionsFound
  <1>3. QED
    BY <1>1, <1>2, Zenon

LEMMA LayoutReopens ==
  ASSUME TheEndOfPack \notin Custom, LayoutInv
  PROVE  Reopens
  <1>1. SUFFICES ASSUME Clear, NEW bases \in BukkitBases
                 PROVE  LET tree == TreeOf(Detect(bases)) IN
                        /\ \A d \in DOMAIN world.places :
                             LET at == Regions(tree, d) IN
                             /\ d \in DOMAIN tree
                             /\ at.found = RegionIds
                             /\ at.ambiguous <=>
                                  \E f \in root : f.spelling = "padded"
                                                  /\ f.dir = world.places[d]
                        /\ \A d \in DOMAIN tree \ DOMAIN world.places :
                             Regions(tree, d).found = {}
    BY Zenon DEF Reopens
  <1> DEFINE opened == TreeOf(Detect(bases))
  <1>2. PICK layout \in Layouts, b \in Bases : World(layout, b)
    BY <1>1, SomeWorld
  <1>3. Fits(opened)
    BY <1>1, <1>2, TreeFits
  <1>4. Written /\ FilesKnown
    BY DEF LayoutInv
  <1> HIDE DEF opened
  <1>5. /\ \A d \in There :
             /\ d \in DOMAIN opened
             /\ Regions(opened, d).found = RegionIds
             /\ Regions(opened, d).ambiguous <=>
                  \E f \in root : f.spelling = "padded" /\ f.dir = world.places[d]
        /\ \A d \in DOMAIN opened \ There : Regions(opened, d).found = {}
    BY <1>3, <1>4, FitsOpens, Zenon
  <1>6. QED
    BY <1>5, Zenon DEF opened, There

\* A world that a server made or clone wrote is opened as it was written,
\* whatever lies beside it, when it is clear which world is meant: detect
\* finds its layout and its base, and the tree built of it has every
\* dimension at its place with all its regions, and no others.  This holds
\* of every set of bases, of datapack dimensions and of regions, unless a
\* datapack makes the dimension the:end: its folder in the split layout is
\* the one of the End, which is left out of the siblings.
THEOREM ReopensCorrect ==
  ASSUME TheEndOfPack \notin Custom
  PROVE  LayoutSpec => []Reopens
  <1>1. LayoutInit => LayoutInv
    BY LayoutStart
  <1>2. LayoutInv /\ [LayoutStep]_layoutVars => LayoutInv'
    BY LayoutKept
  <1>3. LayoutInv => Reopens
    BY LayoutReopens
  <1>4. QED
    BY <1>1, <1>2, <1>3, PTL DEF LayoutSpec
=============================================================================
