-------------------------- MODULE MCFrameReception --------------------------
(***************************************************************************)
(* FrameReception with two frames of another service, one of which holds   *)
(* both markers, in a buffer of a few frames.                              *)
(***************************************************************************)
EXTENDS FrameReception

MCForeignPayloads == {<<2, 2>>, <<startMarker, endMarker>>}
=============================================================================
