----------------------------- MODULE MCPreviews -----------------------------
(* Model values for Previews. *)
EXTENDS Previews
CONSTANTS p1, p2
=============================================================================
