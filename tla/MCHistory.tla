----------------------------- MODULE MCHistory -----------------------------
EXTENDS History
=============================================================================
