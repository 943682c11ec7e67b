-------------------------- MODULE MCDependsSlices --------------------------
(***************************************************************************)
(* Instances of DependsSlices.                                              *)
(***************************************************************************)
EXTENDS DependsSlices

Unit(f, d, a, k8s, online, hfs) ==
  [shipped |-> f, defaults |-> d, agents |-> a, k8s |-> k8s,
   online |-> online, helmfiles |-> hfs]

\* Up to four shipped inputs, as the repository's stacks have, and clusters of
\* up to five machines around one control plane node, or around three, with and
\* without the work that needs the network.
Clusters == {<<1, a>> : a \in 0 .. 4} \cup {<<3, a>> : a \in 0 .. 2}

MCShapes ==
  {Unit(f, c[1], c[2], TRUE, FALSE, << >>) : f \in 0 .. 4, c \in Clusters}
    \cup {Unit(f, c[1], c[2], TRUE, TRUE, <<"kube-vip", "ai", "rancher", "nexus">>) :
            f \in 0 .. 4, c \in Clusters}
    \cup {Unit(f, d, 0, FALSE, TRUE, << >>) : f \in {0, 2}, d \in {1, 3}}

\* The repository's four shipped inputs, and seven machines.
MCSevenMachines ==
  {Unit(4, 3, 4, TRUE, TRUE, <<"kube-vip", "rancher">>)}
=============================================================================
