----------------------------- MODULE MCNotifyLoop -----------------------------
(***************************************************************************)
(* TLC instances of NotifyLoop: enough requests that one reply can arrive  *)
(* while the parent handles the wake-up of another and a third is queued.  *)
(***************************************************************************)
EXTENDS NotifyLoop
==============================================================================
