---------------------------- MODULE MCWorkerLoop ----------------------------
(* WorkerLoop as it is: the jobs are model values of the configuration, and
   liveness is checked with them, so they are not symmetric. *)
EXTENDS WorkerLoop
=============================================================================
