------------------------------- MODULE MCEstate -------------------------------
(* An instance of CatalogServer for TLC: a generated schema package, a library that *)
(* imports it, a manifest package that imports the library, a composition.    *)
EXTENDS CatalogServer, TLC

Areas == [prom |-> "providers", app |-> "app", gitops |-> "gitops", bucket |-> "cloud"]
Modules == [prom |-> "", app |-> "", gitops |-> "", bucket |-> "bucket"]
Rows == [bucket |-> 1]

Mod(path, registry) == [version |-> 1, path |-> path, registry |-> registry]
Dep(name, version) == [name |-> name, version |-> version]
Plain(mod) == [mod |-> mod, xrd |-> "", comp |-> NoComp, code |-> 1, cli |-> FALSE,
               refs |-> {}, tests |-> FALSE, examples |-> {}]

Prom == Plain(Mod(<<>>, {Dep("k8s", 1)}))
App == Plain(Mod(<<"prom">>, {Dep("k8s", 2), Dep("keda", 1)}))
Gitops == [Plain(Mod(<<>>, {Dep("k8s", 1)})) EXCEPT !.cli = TRUE]
Bucket ==
  [Plain(Mod(<<"prom">>, {})) EXCEPT !.xrd = "Bucket",
     !.comp = [kind |-> "Bucket", backend |-> "aws", registry |-> "nx", image |-> "bucket",
               tag |-> 1],
     !.examples = {[kind |-> "Bucket", selected |-> "", stem |-> "aws"]}]

First == [prom |-> Prom, app |-> App, gitops |-> Gitops, bucket |-> Bucket]
MCDrafts ==
  [prom |-> {[Prom EXCEPT !.code = 2]},
   app |-> {[App EXCEPT !.code = 2]},
   gitops |-> {[Gitops EXCEPT !.mod.path = <<"app">>]},
   bucket |-> {[Bucket EXCEPT !.tests = TRUE],
               [Bucket EXCEPT !.comp.image = "", !.comp.tag = 0]}]
=============================================================================
