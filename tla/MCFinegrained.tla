----------------------------- MODULE MCFinegrained -----------------------------
EXTENDS FinegrainedMT, MCPrograms
=============================================================================
