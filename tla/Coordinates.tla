---------------------------- MODULE Coordinates ------------------------------
(***************************************************************************)
(* Chunk and region coordinates (util::chunk_coord, anvil::region): signed *)
(* machine integers, so that most region coordinates have no chunks.       *)
(***************************************************************************)
EXTENDS Integers

CONSTANTS
  IntWidth,   \* bits of a coordinate; 32 in the code
  RowWidth    \* chunks along one side of a region; 32 in the code

ASSUME CoordinateAssumption ==
  /\ IntWidth \in Nat \ {0}
  /\ RowWidth \in Nat \ {0}
  /\ \E n \in 1 .. 2 ^ (IntWidth - 1) : 2 ^ (IntWidth - 1) = n * RowWidth

MinInt == - 2 ^ (IntWidth - 1)
MaxInt == 2 ^ (IntWidth - 1) - 1

Ints == MinInt .. MaxInt

\* div_euclid: rounds down, for a positive divisor.
RegionOf(x) == x \div RowWidth

\* base_coords: the whole span of a region must be representable.
Representable(r) == r * RowWidth >= MinInt /\ r * RowWidth + RowWidth - 1 <= MaxInt
=============================================================================
