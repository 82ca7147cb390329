---------------------------- MODULE JniBridgeMC ----------------------------
(* Instances of JniBridge for TLC: two threads of the JVM and one native     *)
(* thread, so that two swaps and an announcement can overlap.                *)
EXTENDS JniBridge, TLC

\* The threads of the JVM are interchangeable, and so are the references.
Symmetry == Permutations(JavaThreads) \cup Permutations(Refs)

=============================================================================
