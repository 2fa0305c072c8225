-------------------------- MODULE MCCircularBuffer --------------------------
\* Small instances of CircularBuffer for TLC.
EXTENDS CircularBuffer

ByteSet == {0, 1}
=============================================================================
