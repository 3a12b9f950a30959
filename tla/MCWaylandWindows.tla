--------------------------- MODULE MCWaylandWindows ---------------------------
(* Small instances of WaylandWindows. *)
EXTENDS WaylandWindows, TLC

WindowSymmetry == Permutations(Windows)
NameSymmetry == Permutations(Names)
AddressSymmetry == Permutations(Addresses)
Symmetry == WindowSymmetry \cup NameSymmetry \cup AddressSymmetry
=============================================================================
