---------------------------- MODULE MCRingBuffer ----------------------------
EXTENDS RingBuffer
Words == {<<0>>, <<0, 1, 1>>}
=============================================================================
