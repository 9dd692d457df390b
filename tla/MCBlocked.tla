------------------------------- MODULE MCBlocked -------------------------------
EXTENDS BlockedMT, MCPrograms
=============================================================================
