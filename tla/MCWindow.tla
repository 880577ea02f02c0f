------------------------------ MODULE MCWindow ------------------------------
EXTENDS Window, TLC

CONSTANTS a, b, gateway, h1, h2

TwoProfiles == <<a, b>>
OneProfile == <<a>>
NoNodes == [p \in Profiles |-> {}]
OneEach == [p \in Profiles |-> {gateway}]
=============================================================================
