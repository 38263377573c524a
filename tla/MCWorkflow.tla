----------------------------- MODULE MCWorkflow -----------------------------
EXTENDS Workflow, TLC
Symmetry == Permutations(Articles)
=============================================================================
