---------------------------- MODULE MCSingleInstance ----------------------------
(* Model checking SingleInstance with three interchangeable launches.        *)
EXTENDS SingleInstance, TLC

CONSTANTS p1, p2, p3

Launches == {p1, p2, p3}
Symmetry == Permutations(Launches)

\* Closed while no launch has found the address in use.
WhenQuiet == Labels \ ({"claim"} \cup Recovery)

\* Killed anywhere but between removing a leftover socket and binding anew.
AlmostAnywhere == Labels \ {"off", "relisten"}
=============================================================================
