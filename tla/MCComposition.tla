---------------------------- MODULE MCComposition ----------------------------
(* Pipelines for TLC.                                                      *)
EXTENDS Composition

Item(n, r, d) == [name |-> n, ready |-> r, key |-> "", doc |-> d]
Step(t, g, b, i) == [target |-> t, gated |-> g, bases |-> b, items |-> i]

Net == [type |-> [gvk |-> "VPC"], metadata |-> [name |-> "net"], spec |-> [cidr |-> "a"]]
Vm(size) == [type |-> [gvk |-> "VM"], metadata |-> [name |-> "vm"],
             spec |-> [size |-> size, zone |-> "z"]]
Disk == [type |-> [gvk |-> "Disk"], metadata |-> [name |-> "disk"]]
Status == [type |-> [gvk |-> "XR"], spec |-> [region |-> "b"], status |-> [ready |-> "no"]]

MCSpecs == {"small", "large", "typo"}

\* A step everybody gets; a gated one, which also marks the network as used;
\* patches to what they made, one of which nulls a name; a base with a patch;
\* and labels for the XR.
Everyone == Step("Resources", FALSE, <<>>, [s \in MCSpecs |-> <<Item("net", "True", Net)>>])
Gated == Step("Default", TRUE, <<>>,
  [s \in MCSpecs |->
     <<Item("vm", "False", Vm(s)), Item(Null, "Unspecified", Status),
       Item("net", "Unspecified", [status |-> [used |-> "yes"]])>>
     \o (IF s = "large" THEN <<Item("disk", "True", Disk)>> ELSE <<>>)])
Patching == Step("PatchDesired", FALSE, <<>>,
  [s \in MCSpecs |->
     CASE s = "small" -> <<Item("vm", "Unspecified",
                             [type |-> [gvk |-> "Machine"], spec |-> [zone |-> Null, tag |-> "t"]])>>
       [] s = "large" -> <<Item("net", "Unspecified", [spec |-> Null, labels |-> [a |-> Null]]),
                           Item("net", "Unspecified",
                             [type |-> [gvk |-> "Subnet"], metadata |-> [name |-> Null]])>>
       [] s = "typo"  -> <<Item("wm", "Unspecified", [spec |-> Null])>>])
Based == Step("PatchResources", FALSE,
              [alarm |-> [type |-> [gvk |-> "Alarm"], metadata |-> [name |-> "alarm"]]],
  [s \in MCSpecs |-> <<Item("alarm", "Unspecified", [spec |-> [limit |-> s]])>>])
Labels == Step("XR", FALSE, <<>>,
  [s \in MCSpecs |->
     <<Item(Null, "Unspecified",
            IF s = "large" THEN [metadata |-> [label |-> s], status |-> Null]
            ELSE [metadata |-> [label |-> s]])>>])

MCPipeline == <<Everyone, Gated, Patching, Based, Labels>>
=============================================================================
