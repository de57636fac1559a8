------------------------------ MODULE MCAccess ------------------------------
(***************************************************************************)
(* Instance of Access for TLC: the two accounts populate() makes, one      *)
(* person at Google who starts with the regular account's address or with  *)
(* a new one, and requests that cross.                                     *)
(***************************************************************************)
EXTENDS Access, TLC

CONSTANTS admin, regular, other, g1, p1, p2, n1, r1, r2, t1

AccessSymmetry == Permutations(Reqs)
=============================================================================
