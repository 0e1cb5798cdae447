-------------------------- MODULE MCCommandManager --------------------------
EXTENDS CommandManager
CONSTANTS n1, n2
=============================================================================
