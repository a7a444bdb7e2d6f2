---------------------------- MODULE MCConnector ----------------------------
(***************************************************************************)
(* Connector for TLC: the contexts and the tokens are model values.        *)
(***************************************************************************)
EXTENDS Connector

CONSTANTS main, r1, r2, t1, t2

=============================================================================
