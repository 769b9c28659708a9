------------------------- MODULE MCServiceCatalogue -------------------------
EXTENDS ServiceCatalogue, TLC

CONSTANTS r1, r2

OneService == <<2>>
=============================================================================
