------------------------------ MODULE MCWriter ------------------------------
EXTENDS Writer

CONSTANTS a, b

TwoChars == {a, b}
\* An empty array, one character, two different characters.
ThreeBuffers == {<<>>, <<a>>, <<a, b>>}
\* Every argument that is at most one past the longest buffer.
InRange == 0..3
=============================================================================
