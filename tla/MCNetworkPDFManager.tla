-------------------------- MODULE MCNetworkPDFManager --------------------------
(* Two ensure calls over a file of five bytes in chunks of two: one reads the  *)
(* first byte and then, like the reader of the cross-reference table, the end  *)
(* of the file; the other a byte and a range across a chunk boundary.          *)
EXTENDS NetworkPDFManager

Byte(pos)         == [begin |-> pos, end |-> pos + 1, byte |-> TRUE]
Bytes(begin, end) == [begin |-> begin, end |-> end, byte |-> FALSE]

Jobs     == {"header", "stream"}
Programs == [job \in Jobs |->
                IF job = "header" THEN <<Byte(0), Bytes(3, 5)>>
                                  ELSE <<Byte(4), Bytes(1, 4), Byte(3)>>]

\* A cross-reference table may name an offset behind the end of the file: the
\* first chunk-sized piece behind it begins at byte six.
LateJobs     == {"late"}
LatePrograms == [job \in LateJobs |-> <<Byte(0), Byte(6)>>]
==============================================================================
