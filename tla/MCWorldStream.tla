---------------------------- MODULE MCWorldStream ----------------------------
EXTENDS WorldStream
=============================================================================
