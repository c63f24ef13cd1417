---------------------------- MODULE MCThreadPool ----------------------------
(* Instances of CThreadPool for TLC.                                        *)
EXTENDS CThreadPool, TLC

CONSTANTS w1, w2, a1, a2, j1, j2, n1, n2
=============================================================================
