---------------------------- MODULE MCFrameStream -----------------------------
(* Three frames, shorter and longer than a header and than the server's bound. *)
EXTENDS FrameStream

MCPayloadSizes == 0..2
===============================================================================
