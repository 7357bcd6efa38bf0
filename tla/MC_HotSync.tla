----------------------------- MODULE MC_HotSync -----------------------------
EXTENDS HotSync

CONSTANTS c1, hs, none

MCCallers == {c1}
MCProcs == {c1, hs}
=============================================================================
