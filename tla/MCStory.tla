------------------------------ MODULE MCStory ------------------------------
EXTENDS Story

MCBeats == <<"S", "G", "S">>
=============================================================================
