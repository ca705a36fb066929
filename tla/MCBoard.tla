------------------------------- MODULE MCBoard -------------------------------
(***************************************************************************)
(* An instance of Board for TLC: the accelerations at the ends of their    *)
(* range and around zero.                                                  *)
(***************************************************************************)
EXTENDS Board

MCForces == {-512, -511, -1, 0, 1, 255, 256, 511}
=============================================================================
