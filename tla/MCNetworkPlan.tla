---------------------------- MODULE MCNetworkPlan ----------------------------
(***************************************************************************)
(* An instance of NetworkPlan: the cidr of the repository's stacks, small   *)
(* ranges that run out, a wide one, ones that begin with a borrow or wrap,   *)
(* and one that does not parse.                                             *)
(***************************************************************************)
EXTENDS NetworkPlan

Cidr(ip, prefix) == [ip |-> ip, prefix |-> prefix, valid |-> TRUE]

MCCidrs ==
  {LibvirtCidr, Cidr(<<10, 200, 0, 0>>, 20), Cidr(<<10, 0, 0, 6>>, 30),
   Cidr(<<10, 0, 0, 9>>, 29), Cidr(<<10, 0, 1, 0>>, 31),
   Cidr(<<10, 1, 0, 0>>, 32), Cidr(<<0, 0, 0, 1>>, 31),
   Cidr(<<12, 34, 5, 6>>, 7),
   [LibvirtCidr EXCEPT !.valid = FALSE]}
=============================================================================
