----------------------------- MODULE MCJobQueue -----------------------------
(* The job queue on a small instance; the configurations choose its size   *)
(* and what may go wrong.                                                  *)
EXTENDS JobQueue

MCJobs1 == {1}
MCJobs2 == {1, 2}
=============================================================================
