----------------------------- MODULE MCRespCodec -----------------------------
(* RespCodec for TLC: values that are nil, empty, longer than the buffers  *)
(* and that contain line ends, and streams that no Encoder sends.          *)
EXTENDS RespCodec

Bulk(value) == Resp("$", value)
NilBulk == NilResp("$", <<>>)
Elems(n) == Array(n, <<>>)
x == <<"x">>
MCByte == DigitSet \cup Types \cup {"CR", "LF", " ", "x", "y"}
MCminItoa == -1
MCLimits == 0..25 \cup {99}
Long == <<"x", "CR", "LF", "x", "CR", "y">>

MCRequests ==
    {<<Elems(1), Bulk(x)>>, <<Elems(2), Bulk(Long), Bulk(<<>>)>>,
     <<Elems(1), NilBulk>>}

MCReplies ==
    {<<Resp("+", <<"x", "y", "x", "y", "x">>)>>, <<Resp(":", <<"-", "1">>)>>,
     <<Bulk(Long)>>, <<Bulk(<<"$", "1", "LF">>)>>, <<NilBulk>>,
     <<Elems(2), Bulk(<<>>), NilResp("*", <<>>)>>, <<Elems(0)>>,
     <<Elems(2), Elems(1), Bulk(x), Bulk(x)>>}

(* Lines of words, a missing CR, numbers that are none or out of range,    *)
(* bytes without an end, and a second message after each.                  *)
MCForeign ==
    LET after == <<"+", "y", "CR", "LF">>
    IN  {s \o after : s \in {
            <<" ", "x", " ", " ", "y", "x", "x", " ", "CR", "LF">>,
            <<"CR", "LF">>, <<"x", "LF">>,
            <<"*", "1", "CR", "LF", "$", "1", "LF">>,
            <<"*", "1", "CR", "LF", ":", "1", "CR", "LF">>,
            <<"*", "0", "CR", "LF">>, <<"*", "-", "2", "CR", "LF">>,
            <<"*", "9", "CR", "LF">>, <<"*", "CR", "LF">>,
            <<"$", "2", "CR", "LF", "x", "y", "CR", "CR">>,
            <<"$", "9", "CR", "LF">>, <<"$", "+", "1", "CR", "LF", "x", "CR", "LF">>,
            <<"$", "0", "0", "0", "1", "CR", "LF", "x", "CR", "LF">>,
            <<"$", "x", "CR", "LF">>, <<"x">>}}
=============================================================================
