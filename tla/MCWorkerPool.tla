---------------------------- MODULE MCWorkerPool ----------------------------
(***************************************************************************)
(* WorkerPool on a small instance: three tasks on two workers, so that one *)
(* slot is pumped again after its answer or its loss while the other one   *)
(* is still at work, and one slot is retired before the sweep is over.     *)
(***************************************************************************)
EXTENDS WorkerPool
=============================================================================
