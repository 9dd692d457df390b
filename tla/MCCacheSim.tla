------------------------------ MODULE MCCacheSim ------------------------------
EXTENDS CacheSim
=============================================================================
