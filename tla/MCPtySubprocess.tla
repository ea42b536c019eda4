-------------------------- MODULE MCPtySubprocess --------------------------
(* PtySubprocess with watermarks of one, two and three units and frames of *)
(* one or two: a chunk of frames overshoots the high watermark and meets   *)
(* the hard limit, and a buffer is written in part.                        *)
EXTENDS PtySubprocess

MCFrameSizes == {1, 2}
=============================================================================
