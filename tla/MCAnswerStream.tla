--------------------------- MODULE MCAnswerStream ---------------------------
(***************************************************************************)
(* AnswerStream for TLC.                                                   *)
(***************************************************************************)
EXTENDS AnswerStream

\* Plain text, markers of one and of two numbers in both orders, and a marker
\* with a number that no retrieved chunk has.
MCTokens == {<< >>, <<1>>, <<2>>, <<2, 1>>, <<2, 9>>}
=============================================================================
