---------------------------- MODULE MCTerminal ----------------------------
EXTENDS Terminal, TLC

CONSTANTS a, b

OneProfile == <<a>>
OneField == [p \in Profiles |-> 1]
=============================================================================
