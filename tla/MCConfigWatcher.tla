--------------------------- MODULE MCConfigWatcher ---------------------------
EXTENDS ConfigWatcher, TLC
=============================================================================
