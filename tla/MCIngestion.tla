---------------------------- MODULE MCIngestion ----------------------------
(* Instances of Ingestion for TLC.  Workers are alike: the runs that check *)
(* no liveness may permute them.                                           *)
EXTENDS Ingestion, TLC

MCWorkerSymmetry == Permutations(Workers)
=============================================================================
