-------------------------- MODULE MCWorkshopSetup --------------------------
(***************************************************************************)
(* WorkshopSetup with two versions of Part 1's definition and two vendors. *)
(***************************************************************************)
EXTENDS WorkshopSetup
=============================================================================
