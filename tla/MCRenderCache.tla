---------------------------- MODULE MCRenderCache ----------------------------
(* Instances of RenderCache for TLC: a package that was published twice     *)
(* under one tag, and the library both of its versions depend on; the later *)
(* one uses a second package as well, which pins an older tag of the library. *)
EXTENDS RenderCache, TLC

CONSTANTS p1, p2, t1, t2, t3, app, lib, util, old, app1, app2, lib1, util1, lib0, mod, body

\* Callers of one engine, or two of one and one of another process.
MCOneProcess == [t \in Threads |-> p1]
MCTwoProcesses == [t \in Threads |-> IF t = t3 THEN p2 ELSE p1]

MCRefOf == [l \in Layers |-> CASE l = lib1 -> lib [] l = util1 -> util
                                [] l = lib0 -> old [] OTHER -> app]
MCNameOf == [r \in Refs |-> IF r = old THEN lib ELSE r]
MCNeeds == [l \in Layers |-> CASE l = app1 -> {lib} [] l = app2 -> {lib, util}
                                [] l = util1 -> {old} [] OTHER -> {}]
=============================================================================
