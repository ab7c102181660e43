--------------------------- MODULE MCCustomerStore ---------------------------
(***************************************************************************)
(* CustomerStore with model values, as they are given in the cfg.          *)
(***************************************************************************)
EXTENDS CustomerStore, TLC
=============================================================================
