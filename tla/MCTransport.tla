----------------------------- MODULE MCTransport -----------------------------
EXTENDS Transport

CONSTANTS c1, c2
=============================================================================
