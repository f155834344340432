---------------------------- MODULE MCClkEnables ----------------------------
EXTENDS ClkEnables
=============================================================================
