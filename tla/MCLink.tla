------------------------------- MODULE MCLink -------------------------------
EXTENDS Link

MCUrc == 9
=============================================================================
