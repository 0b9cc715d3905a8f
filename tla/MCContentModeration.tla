------------------------ MODULE MCContentModeration ------------------------
\* A run whose policy checks the question and the answer.
EXTENDS ContentModeration

CONSTANTS question, answer

PairSurface == {question, answer}
PairInput == {question}
=============================================================================
