---------------------------- MODULE DependsSlices ----------------------------
(***************************************************************************)
(* The script of DependsScript where a list is a Go slice: an array that    *)
(* other slices may share, and a length.  append writes behind the length   *)
(* where the array has room, and copies to a larger array where it has not. *)
(*                                                                          *)
(* External: the Go runtime's append, and pulumi, which keeps the slice it  *)
(* is handed and reads it in a goroutine of its own, at any later time.     *)
(***************************************************************************)
EXTENDS DependsScript, FiniteSetsExt

VARIABLES
  shape,    \* the unit
  pos,      \* where libvirt.Unit is
  heap,     \* heap[a]: an array, as long as its capacity
  slices,   \* slices[name]: array and length; array 0 for nil
  handed    \* handed[r]: the slice that pulumi keeps for r

vars == <<shape, pos, heap, slices, handed>>

Nil == [arr |-> 0, len |-> 0]
Unset == Res("", 0, 0)

\* What a slice holds now.
Read(s) == IF s.arr = 0 THEN << >> ELSE SubSeq(heap[s.arr], 1, s.len)

Cap(s) == IF s.arr = 0 THEN 0 ELSE Len(heap[s.arr])

Init ==
  /\ shape \in Shapes
  /\ pos = Start
  /\ heap = << >>
  /\ slices = [l \in ListNames |-> Nil]
  /\ handed = << >>

-----------------------------------------------------------------------------
(* append (external).                                                       *)

\* The capacities the allocator rounds up to, for elements of two words with
\* pointers (pulumi.Resource): its size classes, from which over 512 bytes the
\* header of the object is taken off; a larger array has whole pages.
Capacities ==
  (1 .. 16) \cup {2 * m : m \in 9 .. 16}
    \cup {35, 39, 43, 47, 55, 63, 71, 79, 87, 95, 111, 127, 143, 167, 191, 199,
          215, 255, 303, 319, 335, 383, 407, 423, 431, 511, 591, 607, 639, 679,
          767, 847, 895, 1023, 1151, 1191, 1279, 1359, 1535, 1703, 1791, 2047}

RoundUp(n) ==
  IF n <= 2047 THEN Min({c \in Capacities : c >= n})
  ELSE 512 * ((n + 511) \div 512)

Quarter(cap) == cap + (cap + 768) \div 4

\* growslice: what is needed if that is more than twice the capacity, twice the
\* capacity while that is under 256, else a quarter more, until it is enough
\* (four times are), and this rounded up.
Grow(cap, need) ==
  LET c1 == Quarter(cap)
      c2 == Quarter(c1)
      c3 == Quarter(c2)
      more == Min({c \in {c1, c2, c3, Quarter(c3)} : c >= need})
  IN RoundUp(IF need > 2 * cap THEN need ELSE IF cap < 256 THEN 2 * cap ELSE more)

\* An array of the capacity cap that holds old, with vals behind the first len.
Written(old, len, vals, cap) ==
  [m \in 1 .. cap |->
     IF m > len /\ m <= len + Len(vals) THEN vals[m - len]
     ELSE IF m <= Len(old) THEN old[m] ELSE Unset]

\* list = append(list, vals...).  The values have been read by then, also
\* where they are in the array that is written.
Extend(list, vals) ==
  LET s == slices[list]
      need == s.len + Len(vals)
      old == IF s.arr = 0 THEN << >> ELSE heap[s.arr]
  IN
  \/ /\ need <= Cap(s)
     /\ heap' = IF s.arr = 0 THEN heap
                ELSE [heap EXCEPT ![s.arr] = Written(old, s.len, vals, Cap(s))]
     /\ slices' = [slices EXCEPT ![list].len = need]
  \/ /\ need > Cap(s)
     /\ heap' = Append(heap, Written(old, s.len, vals, Grow(Cap(s), need)))
     /\ slices' = [slices EXCEPT ![list] = [arr |-> Len(heap'), len |-> need]]

-----------------------------------------------------------------------------
(* The script.                                                              *)

Step(s) ==
  \/ /\ s.op = "append"
     /\ Extend(s.list, <<s.res>>)
     /\ UNCHANGED handed
  \/ /\ s.op = "appendAll"
     /\ Extend(s.list, Read(slices[s.other]))
     /\ UNCHANGED handed
  \/ /\ s.op = "assign"
     /\ slices' = [slices EXCEPT ![s.list] = slices[s.other]]
     /\ UNCHANGED <<heap, handed>>
  \/ /\ s.op = "hand"
     /\ handed' = Register(handed, s.res, slices[s.list])
     /\ UNCHANGED <<heap, slices>>

Next ==
  /\ pos.at # "end"
  /\ Step(LineAt(shape, pos).step)
  /\ pos' = LineAt(shape, pos).next
  /\ UNCHANGED shape

Spec == Init /\ [][Next]_vars

-----------------------------------------------------------------------------
(* Properties.                                                              *)

Lists == INSTANCE DependsLists WITH
  lists <- [l \in ListNames |-> Read(slices[l])],
  handed <- [r \in DOMAIN handed |-> Read(handed[r])]

\* The append of k8sDepends to vmDepends does not find room in an array that
\* both still share: it would write over the prime install there.
NoOverwrite ==
  ~ /\ pos.at = "joined"
    /\ slices["vmDepends"].arr = slices["k8sDepends"].arr
    /\ slices["vmDepends"].len + slices["k8sDepends"].len <= Cap(slices["vmDepends"])

\* k8sDepends and vmDepends share an array from the assignment in Unit on, and
\* yet no append to one of them shows in the other, or in what pulumi still
\* has to read: the slices behave as lists of their own.
SlicesAreLists == Lists!Spec

\* "Everyone depends on the prime install being setup and Ready": whenever
\* pulumi reads it, the slice that was handed over for the kubeconfig, for a
\* node that joins, or for the kubeconfig of kube-vip holds the prime install.
EveryoneDependsOnPrime ==
  \A r \in DOMAIN handed :
    r.kind \in {"kubeconfig", "k8sAdmin", "k8sWorker"}
      \/ (r.kind = "kubeVipFile" /\ shape.k8s)
    => Has(Read(handed[r]), Prime)
=============================================================================
