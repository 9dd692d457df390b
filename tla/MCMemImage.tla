------------------------------ MODULE MCMemImage ------------------------------
EXTENDS MemImage
=============================================================================
