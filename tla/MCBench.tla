------------------------------- MODULE MCBench -------------------------------
(* An instance of Bench for TLC: three desired states, two runs in a row.     *)
EXTENDS Bench, TLC

Desired == {[content |-> "a", empties |-> FALSE], [content |-> "a", empties |-> TRUE],
            [content |-> "b", empties |-> FALSE]}
Runtimes == {{"kcl", "kclx"}, {"kcl", "python"}, {"kclx"}, {}}
\* Neither option given, the one scenario python lacks, none that exists.
Wanted == {{"bucket-aws", "appstack-aws"}, {"appstack-aws"}, {"elsewhere"}}
=============================================================================
