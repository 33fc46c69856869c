---------------------------- MODULE MCUpdateSlots ----------------------------
(* UpdateSlots on small instances.  *)
EXTENDS UpdateSlots, TLC

CONSTANTS p, q

TwoInstances == {p, q}
AnyInstance == Permutations(Procs)

To(from, to, edition) ==
  [from |-> from, to |-> to, manifest |-> [version |-> to, edition |-> edition]]

(* One release replaced by another, also under a second manifest, and a    *)
(* release beyond it that never comes up.                                  *)
Skipping == {To(1, 2, 1), To(1, 2, 2), To(1, 3, 1), To(2, 3, 1)}

(* One release after the other.                                            *)
Successive == {To(1, 2, 1), To(2, 3, 1)}
=============================================================================
