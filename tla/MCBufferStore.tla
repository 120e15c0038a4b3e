--------------------------- MODULE MCBufferStore ---------------------------
EXTENDS BufferStore, TLC

(* The files of text buffers may move twice, those of requests once: the   *)
(* stores follow a move in the same way.                                   *)
MCMaxRenames == "buffers" :> 2 @@ "requests" :> 1
=============================================================================
