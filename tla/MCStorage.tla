------------------------------ MODULE MCStorage --------------------------------
(***************************************************************************)
(* A small instance of Storage: three receipts of a product, two of them in *)
(* the same zone, over three replicas at QUORUM.                           *)
(***************************************************************************)
EXTENDS Storage, TLC

CONSTANTS n1, n2, n3, z1, z2

Receipts == {1, 2, 3}

TwoZones == [e \in Receipts |-> IF e = 2 THEN z2 ELSE z1]

NodeSymmetry == Permutations(Nodes)
=============================================================================
