-------------------------- MODULE MCImportPipeline --------------------------
EXTENDS ImportPipeline, TLC

Symmetry == Permutations(Workers)
=============================================================================
