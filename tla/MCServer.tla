------------------------------ MODULE MCServer ------------------------------
EXTENDS Server
CONSTANTS n1
=============================================================================
