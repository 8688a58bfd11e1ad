--------------------------- MODULE MCNestedBuilders ---------------------------
(***************************************************************************)
(* Three levels of builders.                                                *)
(***************************************************************************)
EXTENDS NestedBuilders
=============================================================================
