------------------------------ MODULE MCShmQueue ------------------------------
(***************************************************************************)
(* TLC instances of ShmQueue.  Offsets are scaled down (a header of two    *)
(* bytes, a page of four) and LEN is chosen so that every way of going     *)
(* back to the start occurs: with room for a PAD header, without, and with *)
(* none left at all.                                                       *)
(***************************************************************************)
EXTENDS ShmQueueInv
==============================================================================
