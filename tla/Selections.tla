----------------------------- MODULE Selections ------------------------------
(***************************************************************************)
(* Which part of a world an operation works on (util::scope, the selection *)
(* flags of the command line and the named scopes of the store).  A user   *)
(* names dimensions, chunks, rectangles and region files; commit, checkout *)
(* and clone ask the scope whether a region file matches and whether a     *)
(* chunk is inside, diff makes a list of coordinates of it.                *)
(***************************************************************************)
EXTENDS Coordinates, FiniteSets

CONSTANTS
  Dims,          \* dimensions
  Kinds,         \* region families
  Corners,       \* chunk coordinates a user spells
  RegionSpecs,   \* region coordinates a user spells
  KindFlags,     \* the sets of --kind flags a user gives
  MaxFlags       \* bound: --in and --region flags of one command

ASSUME SelectionAssumption ==
  /\ Corners \subseteq Ints \X Ints
  /\ RegionSpecs \subseteq Ints \X Ints
  /\ KindFlags \subseteq SUBSET Kinds

VARIABLES
  flags,   \* the --in and --region flags given so far
  kind     \* the --kind flags, or NoCommand before there is one

selectionVars == <<flags, kind>>

-----------------------------------------------------------------------------
(* Rectangles. *)

Lower(a, b) == IF a <= b THEN a ELSE b
Upper(a, b) == IF a <= b THEN b ELSE a

\* Slip: the corners are taken as they come.
RectAsGiven(a, b) == [x0 |-> a[1], z0 |-> a[2], x1 |-> b[1], z1 |-> b[2]]

RectOf(a, b) == [x0 |-> Lower(a[1], b[1]), z0 |-> Lower(a[2], b[2]),
                 x1 |-> Upper(a[1], b[1]), z1 |-> Upper(a[2], b[2])]

\* Integer division of the limits truncates: MIN_REGION and MAX_REGION.
MaxRegion == MaxInt \div RowWidth
MinRegion == - ((- MinInt) \div RowWidth)

ClampRegion(r) == IF r > MaxRegion THEN MaxRegion ELSE IF r < MinRegion THEN MinRegion ELSE r

RegionFirst(r) == ClampRegion(r) * RowWidth
RegionLast(r) == Lower(RegionFirst(r) + RowWidth - 1, MaxInt)

RegionRect(r) == [x0 |-> RegionFirst(r[1]), z0 |-> RegionFirst(r[2]),
                  x1 |-> RegionLast(r[1]), z1 |-> RegionLast(r[2])]

RectContains(t, x, z) == t.x0 <= x /\ x <= t.x1 /\ t.z0 <= z /\ z <= t.z1

RectOverlaps(t, r) ==
  /\ t.x0 <= RegionLast(r[1]) /\ RegionFirst(r[1]) <= t.x1
  /\ t.z0 <= RegionLast(r[2]) /\ RegionFirst(r[2]) <= t.z1

RectCovers(t, r) ==
  /\ t.x0 <= RegionFirst(r[1]) /\ RegionLast(r[1]) <= t.x1
  /\ t.z0 <= RegionFirst(r[2]) /\ RegionLast(r[2]) <= t.z1

-----------------------------------------------------------------------------
(* Areas and scopes.  A coordinate is [dim, kind, x, z], a region file     *)
(* [dim, kind, r].                                                         *)

AreaContains(a, c) ==
  CASE a.shape = "all" -> TRUE
    [] a.shape = "rect" -> RectContains(a.rect, c.x, c.z)
    [] a.shape = "chunks" -> c \in a.chunks

AreaMatches(a, f) ==
  CASE a.shape = "all" -> TRUE
    [] a.shape = "rect" -> RectOverlaps(a.rect, f.r)
    [] a.shape = "chunks" -> \E c \in a.chunks : <<RegionOf(c.x), RegionOf(c.z)>> = f.r

AreaCovers(a, f) ==
  CASE a.shape = "all" -> TRUE
    [] a.shape = "rect" -> RectCovers(a.rect, f.r)
    [] a.shape = "chunks" -> FALSE

ScopeContains(s, c) ==
  CASE s.form = "world" -> TRUE
    [] s.form = "kinds" -> c.kind \in s.kinds
    [] s.form = "select" -> c.kind \in s.kinds
                            /\ \E a \in s.areas : a.dim = c.dim /\ AreaContains(a, c)

MatchesRegion(s, f) ==
  CASE s.form = "world" -> TRUE
    [] s.form = "kinds" -> f.kind \in s.kinds
    [] s.form = "select" -> f.kind \in s.kinds
                            /\ \E a \in s.areas : a.dim = f.dim /\ AreaMatches(a, f)

CoversRegion(s, f) ==
  CASE s.form = "world" -> TRUE
    [] s.form = "kinds" -> f.kind \in s.kinds
    [] s.form = "select" -> f.kind \in s.kinds
                            /\ \E a \in s.areas : a.dim = f.dim /\ AreaCovers(a, f)

-----------------------------------------------------------------------------
(* The command line. *)

Flag(d, shape, a, b) == [dim |-> d, shape |-> shape, a |-> a, b |-> b]

Nowhere == <<0, 0>>

\* --in DIM, --in DIM:x,z, --in DIM:x0,z0..x1,z1 and --region DIM:rx,rz
FlagSpace ==
  {Flag(d, "all", Nowhere, Nowhere) : d \in Dims}
    \cup {Flag(d, "chunk", c, Nowhere) : d \in Dims, c \in Corners}
    \cup {Flag(d, "rect", a, b) : d \in Dims, a \in Corners, b \in Corners}
    \cup {Flag(d, "region", r, Nowhere) : d \in Dims, r \in RegionSpecs}

NoCommand == {"no command"}

SelectionInit == flags = {} /\ kind = NoCommand

StartCommand ==
  /\ kind = NoCommand
  /\ kind' \in KindFlags
  /\ UNCHANGED flags

AddFlag ==
  /\ kind # NoCommand /\ Cardinality(flags) < MaxFlags
  /\ \E g \in FlagSpace \ flags : flags' = flags \cup {g}
  /\ UNCHANGED kind

SelectionStep == StartCommand \/ AddFlag

SelectionSpec == SelectionInit /\ [][SelectionStep]_selectionVars

SelectedKinds == IF kind = {} THEN Kinds ELSE kind

\* explicit_chunks
ExplicitChunks ==
  {[dim |-> g.dim, kind |-> k, x |-> g.a[1], z |-> g.a[2]] :
     g \in {h \in flags : h.shape = "chunk"}, k \in SelectedKinds}

HasBroadAreas == \E g \in flags : g.shape # "chunk"

RectArea(d, t) == [dim |-> d, shape |-> "rect", rect |-> t]

\* Chunk flags of a dimension are gathered into one area.
ChunkAreas ==
  {[dim |-> d, shape |-> "chunks", chunks |-> {c \in ExplicitChunks : c.dim = d}] :
     d \in {c.dim : c \in ExplicitChunks}}

\* owned_scope
OwnedScope ==
  IF flags = {}
  THEN IF kind = {} THEN [form |-> "world"] ELSE [form |-> "kinds", kinds |-> kind]
  ELSE [form |-> "select", kinds |-> SelectedKinds,
        areas |-> {[dim |-> g.dim, shape |-> "all"] : g \in {h \in flags : h.shape = "all"}}
                  \cup {RectArea(g.dim, RectOf(g.a, g.b)) : g \in {h \in flags : h.shape = "rect"}}
                  \cup {RectArea(g.dim, RegionRect(g.a)) : g \in {h \in flags : h.shape = "region"}}
                  \cup ChunkAreas]

\* What diff compares, of the coordinates both sides know.
DiffCoords(known) ==
  LET s == OwnedScope
      broad == HasBroadAreas \/ ExplicitChunks = {}
  IN {c \in ExplicitChunks \cup (IF broad THEN known ELSE {}) : ScopeContains(s, c)}

\* scope create takes the same areas, without whole dimensions, and no kind;
\* NamedScope::to_scope selects them in every region family.
Nameable == flags # {} /\ kind = {} /\ \A g \in flags : g.shape # "all"

NamedAreas ==
  {RectArea(g.dim, IF g.shape = "region" THEN RegionRect(g.a)
                   ELSE IF g.shape = "chunk" THEN RectOf(g.a, g.a)
                   ELSE RectOf(g.a, g.b)) : g \in flags}

NamedScope == [form |-> "select", kinds |-> Kinds, areas |-> NamedAreas]

-----------------------------------------------------------------------------
(* Properties. *)

ChunkSpace == [dim : Dims, kind : Kinds, x : Ints, z : Ints]

\* Region files that can hold a chunk.
FileSpace == [dim : Dims, kind : Kinds,
              r : {r \in Ints \X Ints : Representable(r[1]) /\ Representable(r[2])}]

FileOf(c) == [dim |-> c.dim, kind |-> c.kind, r |-> <<RegionOf(c.x), RegionOf(c.z)>>]

Between(x, a, b) == (a <= x /\ x <= b) \/ (b <= x /\ x <= a)

\* The chunks a flag names, from its words.  A region that has no chunks
\* stands for the last one that has, on that side (Rect::region).
Names(g, c) ==
  /\ g.dim = c.dim
  /\ CASE g.shape = "all" -> TRUE
       [] g.shape = "chunk" -> <<c.x, c.z>> = g.a
       [] g.shape = "rect" -> Between(c.x, g.a[1], g.b[1]) /\ Between(c.z, g.a[2], g.b[2])
       [] g.shape = "region" ->
            \A i \in {1, 2} :
              LET r == RegionOf(IF i = 1 THEN c.x ELSE c.z) IN
              \/ r = g.a[i]
              \/ g.a[i] > r /\ ~ Representable(r + 1)
              \/ g.a[i] < r /\ ~ Representable(r - 1)

\* The union of the flags, in the kinds asked for; no flag names the world.
Selected(c) ==
  /\ c.kind \in SelectedKinds
  /\ flags = {} \/ \E g \in flags : Names(g, c)

\* A scope is what the user named: a chunk is inside exactly when a flag
\* names it; a region file matches exactly when one of its chunks is inside,
\* so that no operation skips a file it should read or opens one it should
\* not touch; a file said to be covered has no chunk outside; diff compares
\* the named chunks among those known and the ones spelled out; and a named
\* scope selects what the same flags select inline.
SelectionExact ==
  kind # NoCommand =>
  LET s == OwnedScope
      n == NamedScope
      inside == {c \in ChunkSpace : Selected(c)}
      touched == {FileOf(c) : c \in inside}
      crossed == {FileOf(c) : c \in ChunkSpace \ inside}
      evens == {c \in ChunkSpace : (c.x + c.z) % 2 = 0}
  IN /\ {c \in ChunkSpace : ScopeContains(s, c)} = inside
     /\ {f \in FileSpace : MatchesRegion(s, f)} = touched
     /\ {f \in FileSpace : CoversRegion(s, f)} \cap crossed = {}
     /\ DiffCoords(evens) = (inside \cap evens) \cup ExplicitChunks
     /\ Nameable => {c \in ChunkSpace : ScopeContains(n, c)} = inside
=============================================================================
