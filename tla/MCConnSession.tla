---------------------------- MODULE MCConnSession ----------------------------
(***************************************************************************)
(* TLC instances of ConnSession: few fds and more connections than fds, so *)
(* that a number is given out again while blocks of its former connection  *)
(* are still under way, and queues short enough to fill up.                *)
(***************************************************************************)
EXTENDS ConnSession
==============================================================================
