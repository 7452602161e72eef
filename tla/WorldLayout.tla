----------------------------- MODULE WorldLayout -----------------------------
(***************************************************************************)
(* Where the region files of a world are (world::tree::hostworld).  Four   *)
(* server layouts share the file format; detect classifies a root, and the *)
(* tree built of it maps every dimension to a directory.                   *)
(*                                                                         *)
(* A path is a sequence of names, a name a sequence of words joined by     *)
(* underscores.  A dimension is the pair of its namespace and its name:    *)
(* canonical_key is injective and collisions of its hash are left out.     *)
(* The three region families share one directory here, and only readable   *)
(* directories and regular files are modelled.                             *)
(***************************************************************************)
EXTENDS Naturals, FiniteSets, SequencesExt, TLC

CONSTANTS
  Words,     \* what names are made of
  Bases,     \* names of world folders
  Custom,    \* dimensions of datapacks
  Other,     \* the name of a world folder of somebody else
  RegionIds  \* region coordinates

VARIABLES
  root,    \* region files below the root: directory, coordinates, spelling
  level,   \* the usable level-name of server.properties, or NoLevel
  world    \* history: the world that was put there

layoutVars == <<root, level, world>>

NoLevel == <<>>
NoWorld == [layout |-> "none", base |-> NoLevel, places |-> <<>>]

Overworld == <<<<"minecraft">>, <<"overworld">>>>
Nether == <<<<"minecraft">>, <<"the", "nether">>>>
TheEnd == <<<<"minecraft">>, <<"the", "end">>>>

Trio == {Overworld, Nether, TheEnd}
Dimensions == Trio \cup Custom

Tree26 == <<"dimensions">>
Dim1 == <<"DIM-1">>
Dim2 == <<"DIM1">>

DirNames == Seq(Words) \ {<<>>}

ASSUME LayoutAssumption ==
  /\ {"minecraft", "overworld", "the", "nether", "end",
      "dimensions", "DIM-1", "DIM1"} \subseteq Words
  /\ Bases \cup {Other} \subseteq DirNames
  /\ Custom \subseteq DirNames \X DirNames
  /\ IsFiniteSet(Custom)
  /\ RegionIds # {}
  /\ Custom \cap Trio = {}
  /\ {<<"world">>} \subseteq Bases
  /\ Other \notin Bases
  /\ (Bases \cup {Other}) \cap {Tree26, Dim1, Dim2} = {}

-----------------------------------------------------------------------------
(* Directories: a directory exists when a file is below it. *)

Dir(path) == \E f \in root : IsPrefix(path, f.dir)

\* The directories directly below a directory.
Entries(path) ==
  {f.dir[Len(path) + 1] : f \in {g \in root : IsStrictPrefix(path, g.dir)}}

\* is_world_folder: a region file, however its name is spelled.
WorldFolder(path) == \E f \in root : f.dir = path

-----------------------------------------------------------------------------
(* Fixed directories. *)

NetherOf(base) == base \o <<"nether">>
EndOf(base) == base \o <<"the", "end">>

FixedDirs(base) ==
  [d \in Trio |-> IF d = Overworld THEN <<base>>
                  ELSE IF d = Nether THEN <<NetherOf(base), Dim1>>
                  ELSE <<EndOf(base), Dim2>>]

\* new_legacy, new_dimensions and new_bukkit, the targets of a clone.
NewLegacy == [d \in Trio |-> IF d = Overworld THEN <<>>
                            ELSE IF d = Nether THEN <<Dim1>> ELSE <<Dim2>>]

NewDimensions == [d \in Trio |-> <<Tree26, d[1], d[2]>>]

NewBukkit(base) == FixedDirs(base)

-----------------------------------------------------------------------------
(* Detection. *)

\* Every <namespace>/<name> below a dimensions tree, by identity.
CollectDimensions(path) ==
  LET found == {f.dir : f \in {g \in root : /\ IsPrefix(path, g.dir)
                                            /\ Len(g.dir) = Len(path) + 2}}
      id(dir) == <<dir[Len(dir) - 1], dir[Len(dir)]>>
  IN [d \in {id(dir) : dir \in found} |-> path \o d]

\* Datapack dimensions of the split layout: the siblings <base>_..., but
\* for the two of the trio, identified by the tree inside them.
Siblings(base) ==
  {n \in Entries(<<>>) : /\ IsStrictPrefix(base, n)
                         /\ n \notin {NetherOf(base), EndOf(base)}}

CollectCustom(base) ==
  LET in(n) == CollectDimensions(<<n, Tree26>>) IN
  [d \in UNION {DOMAIN in(n) : n \in Siblings(base)} |->
     in(CHOOSE n \in Siblings(base) : d \in DOMAIN in(n))[d]]

\* Slip: a folder without a sibling world is no candidate.
CandidatesWithSiblings ==
  {n \in Entries(<<>>) \ {Tree26, Dim1, Dim2} : Dir(<<NetherOf(n)>>) \/ Dir(<<EndOf(n)>>)}

Candidates ==
  {n \in Entries(<<>>) \ {Tree26, Dim1, Dim2} :
     Dir(<<NetherOf(n)>>) \/ Dir(<<EndOf(n)>>) \/ Dir(<<n, Tree26>>)}

\* Bases in the order they are tried: the server's choice alone, else those
\* the directories suggest, the game's default first.  (The others are in
\* lexical order in the code; any order is taken here.)
BukkitBases ==
  IF level # NoLevel THEN {<<level>>}
  ELSE LET first == IF <<"world">> \in Candidates THEN << <<"world">> >> ELSE <<>> IN
       {first \o s : s \in SetToSeqs(Candidates \ {<<"world">>})}

In26(path) == \E d \in Trio : WorldFolder(path \o <<Tree26, d[1], d[2]>>)

InSplit(base) == \E d \in Trio : WorldFolder(FixedDirs(base)[d])

\* The first base with a world in it, and else the root itself.
Detect(bases) ==
  LET hits == {i \in DOMAIN bases : In26(<<bases[i]>>) \/ InSplit(bases[i])}
      b == bases[CHOOSE i \in hits : \A j \in hits : i <= j]
  IN IF hits # {} THEN [layout |-> IF In26(<<b>>) THEN "bukkit26" ELSE "bukkit", base |-> b]
     ELSE IF In26(<<>>) THEN [layout |-> "vanilla26", base |-> NoLevel]
     ELSE IF \E d \in Trio : WorldFolder(NewLegacy[d]) THEN [layout |-> "vanilla", base |-> NoLevel]
     ELSE [layout |-> "none", base |-> NoLevel]

\* Entries of the fixed directories replace collected ones.
Over(fixed, collected) ==
  [d \in DOMAIN fixed \cup DOMAIN collected |->
     IF d \in DOMAIN fixed THEN fixed[d] ELSE collected[d]]

\* HostWorldTree::new.
TreeOf(detected) ==
  CASE detected.layout = "bukkit26" -> CollectDimensions(<<detected.base, Tree26>>)
    [] detected.layout = "bukkit" -> Over(FixedDirs(detected.base), CollectCustom(detected.base))
    [] detected.layout = "vanilla26" -> CollectDimensions(<<Tree26>>)
    [] detected.layout = "vanilla" -> Over(NewLegacy, CollectDimensions(<<Tree26>>))
    [] detected.layout = "none" -> NewLegacy

\* get_regions: two spellings of one region are ambiguous.
Regions(tree, d) ==
  LET here == {f \in root : d \in DOMAIN tree /\ f.dir = tree[d]} IN
  [ambiguous |-> \E f, g \in here : f # g /\ f.region = g.region,
   found |-> {f.region : f \in here}]

-----------------------------------------------------------------------------
(* What may be found below a root. *)

File(dir, r) == [dir |-> dir, region |-> r, spelling |-> "plain"]

LayoutInit ==
  /\ root = {}
  /\ level = NoLevel
  /\ world = NoWorld

\* The world folder of a datapack dimension in the split layout.
FolderOf(base, d) == base \o d[1] \o d[2]

\* Where a server keeps the dimensions D.
ServerPlaces(layout, base, D) ==
  CASE layout = "vanilla" -> [d \in D |-> IF d \in Trio THEN NewLegacy[d]
                                          ELSE <<Tree26, d[1], d[2]>>]
    [] layout = "vanilla26" -> [d \in D |-> <<Tree26, d[1], d[2]>>]
    [] layout = "bukkit" -> [d \in D |-> IF d \in Trio THEN FixedDirs(base)[d]
                                         ELSE <<FolderOf(base, d), Tree26, d[1], d[2]>>]
    [] layout = "bukkit26" -> [d \in D |-> <<base, Tree26, d[1], d[2]>>]

Put(layout, base, places) ==
  /\ root' = root \cup {File(places[d], r) : d \in DOMAIN places, r \in RegionIds}
  /\ world' = [layout |-> layout, base |-> base, places |-> places]
  /\ UNCHANGED level

ServerWorld ==
  /\ world = NoWorld
  /\ \E layout \in {"vanilla", "vanilla26", "bukkit", "bukkit26"}, b \in Bases,
        D \in SUBSET Dimensions :
       /\ D \cap Trio # {}
       /\ Put(layout, IF layout \in {"bukkit", "bukkit26"} THEN b ELSE NoLevel,
              ServerPlaces(layout, b, D))

\* clone_to: the directories of the target layout are empty, and a file of
\* each region is written at its derived place.  Custom dimensions have none.
CloneInto(layout, base, tree) ==
  /\ \A d \in DOMAIN tree : ~ Dir(tree[d])
  /\ \E D \in (SUBSET DOMAIN tree) \ {{}} :
       Put(layout, base, [d \in D |-> tree[d]])

CloneWorld ==
  /\ world = NoWorld
  /\ \/ CloneInto("vanilla", NoLevel, NewLegacy)
     \/ CloneInto("vanilla26", NoLevel, NewDimensions)
     \/ \E b \in Bases : CloneInto("bukkit", b, NewBukkit(b))

\* A second world folder beside it, as a plugin makes.
PutOther ==
  /\ root' = root \cup {File(<<Other>>, r) : r \in RegionIds}
                  \cup {File(<<NetherOf(Other), Dim1>>, r) : r \in RegionIds}
  /\ UNCHANGED <<level, world>>

SetLevelName ==
  /\ level = NoLevel
  /\ \E b \in Bases : level' = b
  /\ UNCHANGED <<root, world>>

\* r.00.00.mca beside r.0.0.mca
Respell ==
  /\ \E f \in root : root' = root \cup {[f EXCEPT !.spelling = "padded"]}
  /\ \A f \in root : f.spelling = "plain"
  /\ UNCHANGED <<level, world>>

LayoutStep == ServerWorld \/ CloneWorld \/ PutOther \/ SetLevelName \/ Respell

LayoutSpec == LayoutInit /\ [][LayoutStep]_layoutVars

-----------------------------------------------------------------------------
(* Properties. *)

\* It is clear from outside which world is meant: the server names a split
\* world's base, or there is no other and the base stands out: it is the
\* game's default with a sibling world, or holds a dimensions tree.
Clear ==
  LET base == world.base
      there == DOMAIN world.places
  IN CASE world.layout \in {"vanilla", "vanilla26"} -> ~ Dir(<<Other>>) \/ level # NoLevel
       [] world.layout \in {"bukkit", "bukkit26"} ->
            \/ level = base
            \/ /\ level = NoLevel
               /\ base = <<"world">> \/ ~ Dir(<<Other>>)
               /\ \/ world.layout = "bukkit26"
                  \/ {Nether, TheEnd} \cap there # {} /\ Overworld \in there
       [] OTHER -> FALSE

\* A world a server made or clone wrote is opened as it was written,
\* whatever else lies beside it: every dimension is found where it is, under
\* the identity it has in every layout, with all its files and no others;
\* two spellings of a region are reported and not chosen from.
Reopens ==
  Clear =>
    \A bases \in BukkitBases :
      LET tree == TreeOf(Detect(bases)) IN
      /\ \A d \in DOMAIN world.places :
           LET at == Regions(tree, d) IN
           /\ d \in DOMAIN tree
           /\ at.found = RegionIds
           /\ at.ambiguous <=> \E f \in root : f.spelling = "padded" /\ f.dir = world.places[d]
      /\ \A d \in DOMAIN tree \ DOMAIN world.places : Regions(tree, d).found = {}
=============================================================================
