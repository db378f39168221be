---------------------------- MODULE MCKclOperator ----------------------------
(* Instances of KclOperator for TLC.                                       *)
EXTENDS KclOperator, TLC

CONSTANTS a, b, c   \* rendered objects

\* "one" renders a, "both" renders a and b, "other" renders b, "none" renders
\* nothing, and the render of "bad" names c twice.
MCItems ==
  [s \in Sources |-> CASE s = "one"   -> {a}
                       [] s = "both"  -> {a, b}
                       [] s = "other" -> {b}
                       [] s = "bad"   -> {b, c}
                       [] s = "none"  -> {}]

MCVerdict == [s \in Sources |-> IF s = "bad" THEN "InvalidRender" ELSE "Ok"]

Active(source)    == [source |-> source, prune |-> TRUE, suspend |-> FALSE,
                      interval |-> TRUE]
Keeping(source)   == [Active(source) EXCEPT !.prune = FALSE]
Suspended(source) == [Active(source) EXCEPT !.suspend = TRUE]
Mistimed(source)  == [Active(source) EXCEPT !.interval = FALSE]

\* Nothing tells two modules apart but their names (safety runs only).
MCSymmetry == Permutations(Modules)

MCActive  == {Active(s) : s \in Sources}
MCKeeping == MCActive \cup {Keeping("other")}
MCAll     == MCActive \cup {Suspended("both"), Mistimed("both")}
=============================================================================
