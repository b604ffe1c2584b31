--------------------------- MODULE Scd2DimensionMC ---------------------------
(* Small instances of the SCD2 dimension for TLC.                           *)
EXTENDS Scd2Dimension, TLC

CONSTANTS k1, k2, h1, h2, h3

Alike == Permutations(Keys) \cup Permutations(Hashes)
============================================================================
