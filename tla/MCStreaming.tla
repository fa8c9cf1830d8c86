---------------------------- MODULE MCStreaming ----------------------------
(* Constants of Streaming for TLC. *)
EXTENDS Streaming

CONSTANTS r1, r2

MCPrefix == [r \in Mocked |-> "p"]
MCAsked == [r \in Mocked |-> IF r = r1 THEN 0 ELSE 2]

\* One character of two bytes; an unusual line end; an empty piece, as the one
\* with the role of the answer has; a quoted end marker.
MCForeignReplies ==
    {[eol |-> <<CR, LF>>, bodies |-> << <<"hi", "lo">> >>],
     [eol |-> <<LF>>, bodies |-> << <<"hi", "lo">>, <<"x", "ls">> >>],
     [eol |-> <<LF>>, bodies |-> << <<>>, <<"x">> >>],
     [eol |-> <<LF>>, bodies |-> << <<"data:", "[DONE]">>, <<"x">> >>]}
=============================================================================
