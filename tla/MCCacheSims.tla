----------------------------- MODULE MCCacheSims -----------------------------
EXTENDS CacheSims
=============================================================================
