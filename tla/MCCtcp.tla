------------------------------- MODULE MCCtcp -------------------------------
(***************************************************************************)
(* A two-byte transfer for Ctcp: one-byte segments, up to two in the     *)
(* window at once, so segments can overtake each other, be lost,          *)
(* duplicated or acknowledged out of order.                               *)
(***************************************************************************)
EXTENDS Ctcp

MCInput == <<7, 8>>
=============================================================================
