---------------------------- MODULE MCCoinsCache ----------------------------
EXTENDS CoinsCache
=============================================================================
