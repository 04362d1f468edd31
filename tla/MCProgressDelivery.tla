------------------------- MODULE MCProgressDelivery -------------------------
EXTENDS ProgressDelivery
=============================================================================
