--------------------------- MODULE MCLearningStore ---------------------------
EXTENDS LearningStore, TLC

Symmetric == Permutations(Pair) \cup Permutations(Recorder)
=============================================================================
