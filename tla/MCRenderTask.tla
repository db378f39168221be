----------------------------- MODULE MCRenderTask -----------------------------
(* An instance of RenderTask for TLC: two tasks that may differ in one option,*)
(* and at first any container under the default name.                        *)
EXTENDS RenderTask, TLC

CONSTANTS t1, t2

Default == [name |-> "render", port |-> 9443, image |-> "fn", root |-> "main",
            keep |-> TRUE]
Choices == {Default,
            [Default EXCEPT !.root = "worktree"],
            [Default EXCEPT !.image = "fn:next", !.keep = FALSE],
            [Default EXCEPT !.port = 9444],
            [Default EXCEPT !.name = "other", !.keep = FALSE]}
EitherTask == Permutations({t1, t2})

MCInit == Init /\ containers["other"] = NoContainer
MCSpec == MCInit /\ [][Next]_vars
=============================================================================
