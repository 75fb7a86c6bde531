------------------------ MODULE MCChunkedStreamManager ------------------------
(* Instances of ChunkedStreamManager for TLC: a file of five bytes in chunks  *)
(* of two, so that the last of its three chunks is a short one.               *)
EXTENDS ChunkedStreamManager
==============================================================================
