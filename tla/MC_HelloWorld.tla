---------------------------- MODULE MC_HelloWorld ----------------------------
EXTENDS HelloWorld, TLC

CONSTANTS c1, c2

MC_Conns == {c1, c2}

=============================================================================
