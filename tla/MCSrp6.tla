------------------------------- MODULE MCSrp6 -------------------------------
EXTENDS Srp6

\* Private numbers, and toy hashes in place of SHA1.
ToySecrets == 0..30
ToyX(s, p) == 5 * s + 3 * p + 1
ToyU(A, B) == (31 * A + 17 * B) % 64
=============================================================================
