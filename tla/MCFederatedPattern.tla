------------------------- MODULE MCFederatedPattern -------------------------
EXTENDS FederatedPattern

CONSTANTS t1, t2, t3, p1, self, other

=============================================================================
