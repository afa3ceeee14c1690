----------------------------- MODULE MCAdsWorker -----------------------------
\* Watchers are interchangeable, and so are resource names.
EXTENDS AdsWorker, TLC

Symmetry == Permutations(Watcher) \cup Permutations(Name)
=============================================================================
