---------------------------- MODULE MCRcpProgram ----------------------------
(* Instances of RcpProgram for TLC.                                        *)
EXTENDS RcpProgram

CONSTANTS stack, zeros
=============================================================================
