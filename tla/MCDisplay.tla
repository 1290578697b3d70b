----------------------------- MODULE MCDisplay -----------------------------
EXTENDS DisplayProperties

CONSTANTS c1, c2
=============================================================================
