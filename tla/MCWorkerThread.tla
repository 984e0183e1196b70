---------------------------- MODULE MCWorkerThread ----------------------------
(* WorkerThread with two pthread identities, enough for a pthread that is     *)
(* about to broadcast and its successor.                                      *)
EXTENDS WorkerThread

CONSTANTS t1, t2
=============================================================================
