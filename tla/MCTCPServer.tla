---------------------------- MODULE MCTCPServer ----------------------------
\* A small instance of TCPServer for TLC.
EXTENDS TCPServerProofs

CONSTANT main

MainOnly == {main}
=============================================================================
