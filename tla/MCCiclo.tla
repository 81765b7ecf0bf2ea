------------------------------ MODULE MCCiclo ------------------------------
(* Instances of Ciclo for TLC: up to three daemons in a row or at once, one or   *)
(* two applications, an inode that is used again or a choice of two.            *)
EXTENDS CicloProp, TLC

CONSTANTS i1, i2, d1, d2, d3, a1, a2

\* As many identifiers as daemons; 0 is the first that a machine gives.
IdsMC == 0 .. Cardinality(Daemons) - 1
\* Inodes are alike, and so are daemons when all of them may be killed.
SimetriaMC == Permutations(Daemons) \cup Permutations(Inodos)
=============================================================================
