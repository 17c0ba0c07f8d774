--------------------------- MODULE MCSegmentSync ---------------------------
(* Small instances of SegmentSync for TLC. *)
EXTENDS SegmentSync, TLC

CONSTANTS r1, r2, z1, z2

TwoReaders == {r1, r2}
TwoZones == {z1, z2}

(* Readers are interchangeable, and so are the zones when there are two. *)
Symmetry == Permutations(TwoReaders) \cup Permutations(TwoZones)
=============================================================================
