-------------------------- MODULE MCStackLifecycle --------------------------
(***************************************************************************)
(* An instance of StackLifecycle.                                           *)
(***************************************************************************)
EXTENDS StackLifecycle

\* A cluster and a unit that is to come after it, and a unit of its own.
MCUnits ==
  <<[name |-> "upstream", after |-> {}],
    [name |-> "downstream", after |-> {"upstream"}],
    [name |-> "other", after |-> {}]>>
=============================================================================
