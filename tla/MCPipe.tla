------------------------------- MODULE MCPipe -------------------------------
EXTENDS Pipe, TLC

CONSTANTS r1, r2, w1, w2, a, b

\* A message of three bytes, for rings of one or two.
FitsNot == {<<a, b, b>>}
OneByte == {<<a>>}
OneSize == {1}
=============================================================================
