------------------------------ MODULE Merging -------------------------------
(***************************************************************************)
(* How agg.Store merges the nodes of several subs (internal/agg/store.go, *)
(* collectLocked).                                                         *)
(***************************************************************************)
EXTENDS SequencesExt

CONSTANT KeyOf   \* KeyOf[n]: dedup key of node n (node.Node.Key)

\* Mutant: the whole node is compared instead of its key.
AddUnseenNode(nodes, n) == IF Contains(nodes, n) THEN nodes ELSE Append(nodes, n)

AddUnseen(nodes, n) ==
  IF \E i \in DOMAIN nodes : KeyOf[nodes[i]] = KeyOf[n]
  THEN nodes
  ELSE Append(nodes, n)

\* The lists of the subs named by order, merged in that order, keeping the
\* first node of each key.
Collect(lists, order) ==
  FoldLeft(AddUnseen, <<>>, FlattenSeq([i \in DOMAIN order |-> lists[order[i]]]))
=============================================================================
