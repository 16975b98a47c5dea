---------------------------- MODULE MCDeployment ----------------------------
(* Deployment with one key, a service that goes away and processes that    *)
(* are started again.                                                      *)
EXTENDS Deployment, TLC

CONSTANTS c1, c2, k1
=============================================================================
