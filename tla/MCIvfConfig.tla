----------------------------- MODULE MCIvfConfig -----------------------------
(***************************************************************************)
(* Numbers around zero, around each other and around the default of 8      *)
(* probes; dimensions that each of them does and does not divide.          *)
(***************************************************************************)
EXTENDS IvfConfig

MCSizes == {0, 1, 4, 8}
MCDims == {0, 2, 6, 8}
=============================================================================
