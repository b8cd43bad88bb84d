---------------------------- MODULE MCWorkerPipes ----------------------------
(***************************************************************************)
(* TLC instances of WorkerPipes: a client to shift the numbers and enough  *)
(* descriptors for a restart when all else is open (a listening socket for *)
(* each worker and the client, two pipe ends of each worker, two more of   *)
(* the one that is new).  Three workers are what it takes for an event of  *)
(* a client to come late for the number of a new pipe.                     *)
(***************************************************************************)
EXTENDS WorkerPipes
==============================================================================
