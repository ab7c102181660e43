----------------------------- MODULE MCJwksCache -----------------------------
(***************************************************************************)
(* JwksCache with the values of the cfg.  One tick stands for 30 seconds.  *)
(***************************************************************************)
EXTENDS JwksCache, TLC
=============================================================================
