------------------------------ MODULE MCLC3View ------------------------------
(***************************************************************************)
(* LC3View with the small programs of MCLC3Frontend.                       *)
(***************************************************************************)
EXTENDS MCLC3Frontend, LC3View

=============================================================================
