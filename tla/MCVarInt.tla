------------------------------- MODULE MCVarInt -------------------------------
(* A small instance of VarInt. *)
EXTENDS VarInt

\* The first bytes of a script or of a witness item, or the end of the block.
PayloadStarts == {<<>>, <<0, 0>>, <<81, 82>>}
===============================================================================
