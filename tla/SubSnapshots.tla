---------------------------- MODULE SubSnapshots ----------------------------
(***************************************************************************)
(* What agg.Store keeps for one subscription, and what each of its        *)
(* writing operations does to that (internal/agg/store.go).  No state     *)
(* lives here: SubStore and Refresh apply these operators to their own    *)
(* variables.                                                             *)
(***************************************************************************)

CONSTANTS
  Subs,       \* names of subscriptions
  Contents,   \* node lists one fetch may yield
  Metas,      \* header values stored with a fetched body
  NoMeta,     \* the headers of a body that had none, or of no body at all
  None        \* absence: a key that is not in a Go map

ASSUME ContentsAssumption == <<>> \in Contents
ASSUME MetaAssumption == NoMeta \in Metas

(* store.go SubState.  Updated is left out: only /healthz shows it.  err   *)
(* says whether Err is non-empty; meta stands for the entity tag, the     *)
(* Last-Modified date and the Subscription-Userinfo header, which are     *)
(* always stored together.                                                *)
SubState == [nodes : Contents, err : BOOLEAN, meta : Metas]

ASSUME NoneAssumption == None \notin SubState

StoreType == [Subs -> SubState \cup {None}]

EmptyStore == [s \in Subs |-> None]

NodesOf(subs, s) == IF subs[s] = None THEN <<>> ELSE subs[s].nodes

MetaOf(subs, s) == IF subs[s] = None THEN NoMeta ELSE subs[s].meta

WithNodes(subs, s, nodes, meta) ==
  [subs EXCEPT ![s] = [nodes |-> nodes, err |-> FALSE, meta |-> meta]]

\* The nodes of before are kept.  An entry made by a failure has no nodes and
\* no headers.
WithError(subs, s) ==
  [subs EXCEPT ![s] = [nodes |-> NodesOf(subs, s),
                       err   |-> TRUE,
                       meta  |-> MetaOf(subs, s)]]

Touched(subs, s) ==
  IF subs[s] = None THEN subs ELSE [subs EXCEPT ![s].err = FALSE]

Pruned(subs, keep) == [s \in Subs |-> IF s \in keep THEN subs[s] ELSE None]

NodeLists(subs) == [s \in Subs |-> NodesOf(subs, s)]
=============================================================================
