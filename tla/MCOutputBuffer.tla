--------------------------- MODULE MCOutputBuffer ---------------------------
(***************************************************************************)
(* Small values for the constants of OutputBuffer.  MessageBuf has room    *)
(* for three characters and the capture buffer for two, so that two or     *)
(* three prints overflow the one and one print fills the other.            *)
(***************************************************************************)
EXTENDS OutputBuffer

MCChar == {"a", "b", "c", "t"}

\* A one-character and a two-character print.
MCText == {<<"a">>, <<"b", "b">>}

\* A command's output, one of them longer than the capture buffer.
MCChunk == {<<"c">>, <<"c", "b", "c">>}
MCShortChunk == {<<"c">>}

MCTiming == <<"t">>
=============================================================================
