---------------------------- MODULE MCCausalTree ----------------------------
(***************************************************************************)
(* What the weave is checked against: the depth-first listing of a tree,   *)
(* a recursive definition.                                                 *)
(***************************************************************************)
EXTENDS CausalTree

(* The reference: a tree is listed depth first, each atom before the atoms *)
(* made under it, and those in the order of their IDs.                     *)

Children(S, a) == {b \in S : b.cause = Id(a)}

RECURSIVE Preorder(_, _)
Preorder(S, a) ==
    FoldLeft(LAMBDA list, b : list \o Preorder(S, b), <<a>>,
             SetToSortSeq(Children(S, a), Before))

Subtree(S, a) == Range(Preorder(S, a))

-----------------------------------------------------------------------------
(* Weave2.ts:204-210.  In whatever order atoms arrive, are removed and are *)
(* made here, the list of each root is the depth-first listing of the tree *)
(* of the atoms in the weave, so that two sites with the same atoms have   *)
(* the same tree, and every atom of the maps is in a list.                 *)
(* The code keeps this only as TraversalUnlessRepeated says; README.md,    *)
(* Disagreements, has the steps.                                           *)
WeaveIsTraversal ==
    /\ \A k \in DOMAIN weave.roots :
         AtomsOf(IterateFrom(weave, weave.roots[k]))
            = Preorder(InWeave(weave), weave.roots[k].atom)
    /\ InWeave(weave) = UNION {Subtree(InWeave(weave), a) : a \in RootAtoms(weave)}

(* The same for a site where no atom arrived again while it was waiting.   *)
TraversalUnlessRepeated == ~repeated => WeaveIsTraversal

(* Weave2.ts:542-567 and 573-603.  Removing an atom removes the atoms made *)
(* under it and nothing else (delete atoms aside: see the README), and a   *)
(* new value removes the siblings it supersedes with what is under them.   *)
RemovesSubtrees ==
    [][~repeated =>
        LET S == InWeave(weave)
            a == made'[Len(made')]
            older == {b \in S : b.cause = a.cause /\ Before(a, b)}
        IN /\ \A b \in S : removals' # removals /\ b.hash = last'[3] /\ b.prio = 0
                 => InWeave(weave') = S \ Subtree(S, b)
           /\ made' # made /\ last'[1] = "supersede"
                 => InWeave(weave') = (S \cup {a}) \ UNION {Subtree(S, b) : b \in older}
      ]_vars
=============================================================================
