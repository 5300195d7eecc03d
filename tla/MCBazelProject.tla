--------------------------- MODULE MCBazelProject ---------------------------
EXTENDS BazelProject, MCBazelProjectFiles
=============================================================================
