--------------------------- MODULE MCGrantsQuery ---------------------------
(***************************************************************************)
(* An instance of GrantsQuery for TLC, with short pages. The client states *)
(* no limit, asks for nothing, for one grant, or for more than there may   *)
(* be on a page.                                                           *)
(***************************************************************************)
EXTENDS GrantsQuery

MCLimits == {-1, 0, 1, 5}
=============================================================================
