------------------------------ MODULE MCFormats ------------------------------
(***************************************************************************)
(* Instances of Formats for TLC.                                           *)
(***************************************************************************)
EXTENDS Formats, TLC

MCLocs == {<<-2, 1>>, <<2, 0>>}

\* Empty, exactly one sector, one cell more, and more than a chunk may take.
MCPayloads == {<<>>} \cup {[i \in 1 .. n |-> m] : n \in {3, 4, 8}, m \in {1, 2}}

MCBadEntries == {[offset |-> 0, count |-> 1], [offset |-> 1, count |-> 1],
                 [offset |-> 2, count |-> 0], [offset |-> 3, count |-> 2],
                 [offset |-> 9, count |-> 1]}

LOCAL BlockHeader(method, rank, plain, packed) ==
  <<"block", [method |-> method, level |-> rank, plain |-> plain, sum |-> <<>>,
              packed |-> packed]>>

\* An end too early, a level too low, lengths that disagree, no method.
MCHeaders == {BlockHeader("stored", 1, 0, 0), BlockHeader("stored", 0, 4, 4),
              BlockHeader("packed", 1, 4, 1), BlockHeader("stored", 1, 2, 1),
              BlockHeader("other", 1, 2, 2)}

CONSTANTS region, poi

\* On both sides of zero and of region borders, and at the limits.
MCCorners == {<<-4, 3>>, <<-1, 0>>, <<0, -3>>, <<2, 1>>, <<3, 3>>}

\* Two with chunks, the others beyond a limit.
MCRegionSpecs == {<<-2, 0>>, <<1, -1>>, <<2, 0>>, <<-4, 3>>}

MCKindFlags == {{}, {region}, {region, poi}}

\* What the names are made of that a world is given, and those of the layouts.
MCWords == {"world", "my", "lobby", "pack", "sky", "isles", "moon"} \cup
           {"minecraft", "overworld", "the", "nether", "end",
            "dimensions", "DIM-1", "DIM1"}

MCBases == {<<"world">>, <<"my", "world">>}

\* One of them in the namespace of the game.
MCCustom == {<<<<"pack">>, <<"sky", "isles">>>>, <<<<"minecraft">>, <<"moon">>>>}

MCOther == <<"lobby">>

Symmetry == Permutations(Dims)
=============================================================================
