---------------------------- MODULE HttpClientMC ----------------------------
(***************************************************************************)
(* HttpClient with a buffer of two symbols and answers of up to five.      *)
(***************************************************************************)
EXTENDS HttpClient

CONSTANTS a, b

MCByte == {a, b}
MCResponses ==
    [head : {<<Ok, Length>>},
     body : {<<>>, <<a>>, <<a, b>>, <<a, b, a>>, <<Nul, a>>, <<a, Nul>>, <<a, Text404>>}]
    \union [head : {<<Ok, End>>, <<NotFound, Length>>}, body : {<<a>>}]
MCStack == {<<a, Nul>>, <<Nul, b>>, <<b, a>>}
MCBeyond == {<<>>, <<b>>}

=============================================================================
