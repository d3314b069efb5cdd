--------------------------- MODULE MCLineBuffer ---------------------------
\* Instances of LineBuffer.
EXTENDS LineBuffer

\* Lines of data, one of them with two line ends and one too long; a line that
\* is a control, and a single character with and without a line end
Long == [i \in 1 .. 24 |-> IF i = 24 THEN "eol" ELSE "c"]
MCTexts == {<<"a", "eol">>, <<"b", "b", "eol", "eol">>, Long,
            <<"{", "eol">>, <<"^">>, <<"^", "eol">>}
=============================================================================
