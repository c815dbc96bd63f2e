-------------------------- MODULE MCBootstrapTimer --------------------------
EXTENDS BootstrapTimer
=============================================================================
