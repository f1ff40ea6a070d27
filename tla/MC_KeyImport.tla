---------------------------- MODULE MC_KeyImport ----------------------------
EXTENDS KeyImport

CONSTANTS k1, k2

MCKeys == {k1, k2}

=============================================================================
