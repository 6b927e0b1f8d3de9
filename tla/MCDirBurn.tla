----------------------------- MODULE MCDirBurn -----------------------------
EXTENDS DirBurn

AllNames == BurnNames \cup CliNames
=============================================================================
