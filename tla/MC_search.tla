----------------------------- MODULE MC_search -----------------------------
EXTENDS TreeSearch
============================================================================
