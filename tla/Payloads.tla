------------------------------ MODULE Payloads ------------------------------
(***************************************************************************)
(* What agg.Store renders (internal/agg/store.go, render and              *)
(* renderClash) of the nodes it has merged.                                *)
(*                                                                         *)
(* A node is a model value; Shown[v] are the nodes that have a            *)
(* representation in the payload variant v (Node.URI and Node.ClashMap    *)
(* report false for the others).                                           *)
(*                                                                         *)
(* The text layout of a payload is left out: two payloads of one variant  *)
(* are equal exactly when they list the same nodes in the same order.     *)
(* The entity tag is the hash of the body and is identified with it.      *)
(***************************************************************************)
EXTENDS Merging

CONSTANTS
  Variants,   \* payload variants: format and, for clash, full or not
  Shown       \* Shown[v]: nodes that can be written in variant v

\* The payload of variant v: the nodes that variant can express.
Payload(nodes, v) == SelectSeq(nodes, LAMBDA n : n \in Shown[v])

\* What Render answers for the key k = <<order, variant>>.
BodyOf(lists, k) == Payload(Collect(lists, k[1]), k[2])
=============================================================================
