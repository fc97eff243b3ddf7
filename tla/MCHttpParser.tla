---------------------------- MODULE MCHttpParser ----------------------------
(***************************************************************************)
(* HttpParser with messages of a request line, up to two headers, an empty *)
(* line and a body, where each line may end as it should or with half of   *)
(* its end, and a body may look like the end of a line.                    *)
(***************************************************************************)
EXTENDS HttpParser

LineEnds == {<<"CR", "LF">>, <<"LF">>, <<"CR">>}
RequestLines == {<<"spaces">>, <<"tabs">>, <<"text">>, <<>>, <<"spaces", "text">>}
Headers == {<<"length">>, <<"linger">>, <<"text">>, <<"length", "text">>}
Bodies == {<<>>, <<"text">>, <<"text", "text">>, <<"CR", "LF">>, <<"LF", "text">>,
           <<"text", "CR", "LF", "text">>,
           <<"CR", "LF", "CR", "LF">>, <<"CR", "LF", "text">>}
CRLF == <<"CR", "LF">>

messages ==
    {line \o end \o CRLF \o body : line \in RequestLines, end \in LineEnds, body \in Bodies}
    \cup
    {line \o CRLF \o header \o end \o CRLF \o body :
        line \in RequestLines, header \in Headers, end \in LineEnds, body \in Bodies}
    \cup
    {line \o CRLF \o <<"linger">> \o CRLF \o header \o CRLF \o end \o body :
        line \in {<<"spaces">>, <<"tabs">>}, header \in Headers, end \in LineEnds, body \in Bodies}

=============================================================================
