--------------------------- MODULE MCNodeIdentity ---------------------------
EXTENDS NodeIdentity

CONSTANTS q1, q2, s1

All == {"peer", "peer --new", "rad-id --name", "rad-id", "sigrefs", "sigrefs --verify",
        "announce"}
=============================================================================
