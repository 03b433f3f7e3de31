--------------------------- MODULE MCControlLoop ---------------------------
EXTENDS ControlLoop, TLC
ModuleSymmetry == Permutations(Modules)
=============================================================================
