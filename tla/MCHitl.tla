------------------------------- MODULE MCHitl -------------------------------
EXTENDS VerifyLoop
=============================================================================
