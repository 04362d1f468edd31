------------------------- MODULE MCStorageMigration -------------------------
EXTENDS StorageMigration, TLC
CONSTANTS threadrelay, codexhub, mochiport, m1, c1
=============================================================================
