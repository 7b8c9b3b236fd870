------------------------------- MODULE MCDecoder -------------------------------
(***************************************************************************)
(* The decoder and the generated code on the sample databases.             *)
(***************************************************************************)
EXTENDS GeneratedAgreement, SampleDatabases

\* Sanitised names: sub and id are told apart by a suffix, len is named like
\* the companion of id and body like that of len, and tail is a keyword.
MCFieldIdent == [id   |-> <<"id">>, sub  |-> <<"id">>, len |-> <<"id", "eng">>,
                 body |-> <<"id", "eng", "eng">>, tail |-> <<"type", "">>]
===============================================================================
