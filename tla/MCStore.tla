------------------------------- MODULE MCStore ------------------------------
(* A small instance of Store for TLC.                                       *)
EXTENDS Store

CONSTANTS ann, ben, f1, f2, p1, p2, x1, x2, x3
=============================================================================
