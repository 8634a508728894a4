----------------------------- MODULE MCKbServer -----------------------------
EXTENDS KbServer
=============================================================================
