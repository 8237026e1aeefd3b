------------------------------ MODULE MCSocket ------------------------------
(***************************************************************************)
(* Instances of Socket for TLC.                                            *)
(***************************************************************************)
EXTENDS Socket, TLC

CONSTANTS s1, s2,     \* Socket objects
          a, b        \* endpoints

EndpointSymmetry == Permutations(Endpoints) \union Permutations(Objects)
=============================================================================
