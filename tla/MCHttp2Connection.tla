-------------------------- MODULE MCHttp2Connection --------------------------
(* Lengths of DATA frames and of responses for TLC. *)
EXTENDS Http2Connection

MCDataSizes == {<<1, 2>>}     \* one byte of content, one of padding
MCContentLengths == {-1, 1}
=============================================================================
