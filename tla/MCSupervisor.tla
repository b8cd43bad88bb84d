----------------------------- MODULE MCSupervisor -----------------------------
(***************************************************************************)
(* TLC instances of Supervisor.                                            *)
(***************************************************************************)
EXTENDS Supervisor

\* The plugin's fini_service says 0 at once, or may also ask for time.
AtOnce == {0}
InTime == {0, -1}

\* The first worker's ends may be given the number of the second's, as in
\* WorkerPipes with two workers; the second's new pipe that of a client that
\* hung up.
FirstToSecond == {<<1, 2>>}
SecondOnly == {2}
===============================================================================
