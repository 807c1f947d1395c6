-------------------------- MODULE MCCronScheduling --------------------------
(* CronScheduling on small instances: the replicas are interchangeable. *)
EXTENDS CronScheduling, TLC

Symmetry == Permutations(Replicas)
=============================================================================
