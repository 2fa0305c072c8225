------------------------------ MODULE MCTiming ------------------------------
\* A small instance of Timing for TLC: exposures shorter and longer than a checkpoint
\* and than the interval, and commands with numbers below zero.
EXTENDS TimingProofs

IntervalSet == {-1, 3, 6}
ExposureSet == {-1, 5}
LeapSet == {-2, 3}
=============================================================================
