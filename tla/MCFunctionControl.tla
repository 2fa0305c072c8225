------------------------- MODULE MCFunctionControl -------------------------
\* Small instances of FunctionControl for TLC.
EXTENDS FunctionControlProofs

ShotSet == {-1, 0, 2}
=============================================================================
