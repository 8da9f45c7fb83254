-------------------------- MODULE EgressConnectionMC ---------------------------
(***************************************************************************)
(* Small instances of EgressConnection: the connection being served and    *)
(* one or two whose goroutines have not ended yet. The capacities are      *)
(* those of the code.                                                      *)
(***************************************************************************)
EXTENDS EgressConnection, TLC

CONSTANTS n1, n2, n3, none

TwoConnections   == {n1, n2}
ThreeConnections == {n1, n2, n3}

Symmetry == Permutations(Conn)

================================================================================
