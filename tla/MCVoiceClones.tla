--------------------------- MODULE MCVoiceClones ---------------------------
EXTENDS VoiceClones
ladder == <<1, 2, 3>>
=============================================================================
