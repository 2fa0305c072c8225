-------------------------- MODULE MCMessageDecoder --------------------------
\* A small instance of MessageDecoder for TLC: bytes have two values, so that
\* every header and every size can also be data.
EXTENDS MessageDecoder

TypeSet == {0, 1}
TextSet == {<<0>>, <<1>>, <<1, 0>>, <<0, 1, 0, 1, 0>>}
=============================================================================
