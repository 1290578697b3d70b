---------------------------- MODULE MCEepromFile ----------------------------
EXTENDS EepromFileProperties

CONSTANTS v1, v2, v3
=============================================================================
