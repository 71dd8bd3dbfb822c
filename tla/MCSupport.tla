----------------------------- MODULE MCSupport -----------------------------
(* One colleague, two overlapping runs, one message or click of the      *)
(* customer, one stopped run: see MCSupport.cfg.                           *)
EXTENDS Support

CONSTANTS a1, r1, r2
=============================================================================
