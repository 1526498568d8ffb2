-------------------------- MODULE MCRegionCheck --------------------------
(* Three names: a destination, the arena of a shorter-lived value, and    *)
(* the value (the first two where more spellings make names enough).  No  *)
(* name is special, so they are interchangeable.                          *)
EXTENDS RegionCheck

CONSTANTS buf, scratch, str

MCSymmetry == Permutations(Names)
=============================================================================
