------------------------------ MODULE MCSplitMix ------------------------------
(***************************************************************************)
(* The generator at 8 bits.  Increment and multipliers are the last bytes  *)
(* of the 64-bit ones, the shifts an eighth of them.  Two bits of a word   *)
(* are kept by next_open_unit, so that four zero draws in a row occur.     *)
(***************************************************************************)
EXTENDS SplitMix

MCGamma == 21
MCMultipliers == <<185, 235>>
MCShifts == <<4, 3, 4>>

MCSeeds == {0, 1, 202}

\* Below, at and above powers of two and half the words, and the extremes.
MCBounds == {1, 3, 7, 100, 127, 128, 129, 254, 255}
=============================================================================
