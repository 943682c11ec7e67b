---------------------------- MODULE DependsLists ----------------------------
(***************************************************************************)
(* The script of DependsScript where a list is a value: an append makes a   *)
(* new list and changes no other, and a resource depends for good on what   *)
(* the list held when it was handed to pulumi.DependsOn.                    *)
(***************************************************************************)
EXTENDS DependsScript

VARIABLES
  shape,    \* the unit
  pos,      \* where libvirt.Unit is
  lists,    \* lists[name]
  handed    \* handed[r]: what r was registered to depend on

vars == <<shape, pos, lists, handed>>

Init ==
  /\ shape \in Shapes
  /\ pos = Start
  /\ lists = [l \in ListNames |-> << >>]
  /\ handed = << >>

Extend(list, vals) ==
  lists' = [lists EXCEPT ![list] = @ \o vals] /\ UNCHANGED handed

Step(s) ==
  \/ s.op = "append" /\ Extend(s.list, <<s.res>>)
  \/ s.op = "appendAll" /\ Extend(s.list, lists[s.other])
  \/ s.op = "assign" /\ lists' = [lists EXCEPT ![s.list] = lists[s.other]]
                     /\ UNCHANGED handed
  \/ s.op = "hand" /\ handed' = Register(handed, s.res, lists[s.list])
                   /\ UNCHANGED lists

Next ==
  /\ pos.at # "end"
  /\ Step(LineAt(shape, pos).step)
  /\ pos' = LineAt(shape, pos).next
  /\ UNCHANGED shape

Spec == Init /\ [][Next]_vars
=============================================================================
