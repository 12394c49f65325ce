----------------------------- MODULE MCRouting -----------------------------
EXTENDS LlmRouting
=============================================================================
