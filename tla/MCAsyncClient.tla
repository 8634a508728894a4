---------------------------- MODULE MCAsyncClient ----------------------------
EXTENDS AsyncClient, TLC
=============================================================================
