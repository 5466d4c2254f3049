----------------------------- MODULE MCWebSession -----------------------------
EXTENDS WebSession, TLC
Names == Permutations(Session) \cup Permutations(Nonce)
=============================================================================
