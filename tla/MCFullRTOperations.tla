------------------------- MODULE MCFullRTOperations -------------------------
(* FullRTOperations with two items, of which the second comes with the first,
   and an answer that repeats itself *)
EXTENDS FullRTOperations

MCAnswers == {<< >>, <<1>>, <<2, 1>>, <<1, 1>>}
=============================================================================
