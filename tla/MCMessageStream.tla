---------------------------- MODULE MCMessageStream ----------------------------
(* Instances of MessageStream for TLC.                                         *)
EXTENDS MessageStream

\* close() puts the id of the stream where the name of the peer belongs.
StreamId == "1"

OwnAddress    == {StreamId}
BothAddresses == {StreamId, Reader}
==============================================================================
