--------------------------- MODULE MCSimpleSyncTx ---------------------------
EXTENDS SimpleSyncTx
=============================================================================
