------------------------------- MODULE MCAgps -------------------------------
EXTENDS Agps
=============================================================================
