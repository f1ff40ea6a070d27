--------------------------- MODULE MC_CommandCodec ---------------------------
(* Model values for CommandCodec.  Strings are sequences of characters.    *)
EXTENDS CommandCodec

\* a named command and the serverquery form without a name
MCNames == {<<>>, <<"c">>}
\* serverquery form only: a name-less command round-trips without arguments
MCNamesQuery == {<<>>}
\* "r" plays the key return_code
MCKeys == {<<"a">>, <<"r">>}
MCReturnCode == <<"r">>

\* every character the escaper and the grammar treat specially, alone, plus
\* an escaped backslash followed by an escape letter and a plain "="
MCValuesEscapes == {<<>>, <<"x">>, <<" ">>, <<"|">>, <<"/">>, <<"\\">>,
                    <<"\t">>, <<"\r">>, <<"\f">>, <<"\n">>, <<"=">>,
                    <<"\\", "s">>, <<"x", " ">>}
\* the same without the line feed
MCValuesNoNewline == MCValuesEscapes \ {<<"\n">>}
\* list structure: an empty and a plain value
MCValuesLists == {<<>>, <<"x">>}
=============================================================================
