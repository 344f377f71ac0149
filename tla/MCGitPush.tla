----------------------------- MODULE MCGitPush -----------------------------
EXTENDS GitPush, TLC

CONSTANTS a1, a2, p1, p2, main, dev

\* Pushes, branches and the successive apps of the name are interchangeable.
Symmetry == Permutations(Push) \cup Permutations(Branch) \cup Permutations(App)

=============================================================================
