----------------------------- MODULE MCDesktop ------------------------------
\* Instances of Desktop for TLC.  No symmetry: it is unsound for liveness.
EXTENDS Desktop
=============================================================================
