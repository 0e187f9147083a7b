--------------------------- MODULE SubStore_proof ---------------------------
(***************************************************************************)
(* Proofs about SubStore: the cache is coherent, every change is          *)
(* signalled, and Render is atomic.  They hold for any subs, nodes, keys, *)
(* payload variants, callers and number of generations.  Collect and      *)
(* Payload are never expanded: all that is used of them is that they are  *)
(* functions of the node lists and of the key.                            *)
(***************************************************************************)
EXTENDS SubStore, TLAPS

-----------------------------------------------------------------------------
(* The operations on snapshots *)

\* Every operation of the store keeps the map of snapshots well typed.
LEMMA StoreOpsType ==
  ASSUME NEW m \in StoreType, NEW s \in Subs
  PROVE  /\ \A nodes \in Contents, meta \in Metas : WithNodes(m, s, nodes, meta) \in StoreType
         /\ WithError(m, s) \in StoreType
         /\ Touched(m, s) \in StoreType
         /\ \A keep \in SUBSET Subs : Pruned(m, keep) \in StoreType
<1>1. NodesOf(m, s) \in Contents /\ MetaOf(m, s) \in Metas
  BY ContentsAssumption, MetaAssumption DEF StoreType, SubState, NodesOf, MetaOf
<1>2. \A nodes \in Contents, meta \in Metas : WithNodes(m, s, nodes, meta) \in StoreType
  BY DEF StoreType, SubState, WithNodes
<1>3. WithError(m, s) \in StoreType
  BY <1>1 DEF StoreType, SubState, WithError
<1>4. Touched(m, s) \in StoreType
  <2>1. CASE m[s] = None
    BY <2>1 DEF Touched
  <2>2. CASE m[s] # None
    <3>1. m[s] \in SubState
      BY <2>2 DEF StoreType
    <3>2. [m[s] EXCEPT !.err = FALSE] \in SubState
      BY <3>1 DEF SubState
    <3> QED
      BY <2>2, <3>2 DEF Touched, StoreType
  <2> QED
    BY <2>1, <2>2
<1>5. \A keep \in SUBSET Subs : Pruned(m, keep) \in StoreType
  BY DEF StoreType, Pruned
<1> QED
  BY <1>2, <1>3, <1>4, <1>5

\* Recording a failure or a 304 leaves every node list as it was.
LEMMA ErrorKeepsLists ==
  ASSUME NEW m \in StoreType, NEW s \in Subs
  PROVE  /\ NodeLists(WithError(m, s)) = NodeLists(m)
         /\ NodeLists(Touched(m, s)) = NodeLists(m)
<1>1. ASSUME NEW t \in Subs
      PROVE  /\ NodesOf(WithError(m, s), t) = NodesOf(m, t)
             /\ NodesOf(Touched(m, s), t) = NodesOf(m, t)
  <2>1. WithError(m, s)[t] = IF t = s THEN [nodes |-> NodesOf(m, s), err |-> TRUE, meta |-> MetaOf(m, s)]
                                      ELSE m[t]
    BY DEF WithError, StoreType
  <2>2. [nodes |-> NodesOf(m, s), err |-> TRUE, meta |-> MetaOf(m, s)] \in SubState
    BY ContentsAssumption, MetaAssumption DEF StoreType, SubState, NodesOf, MetaOf
  <2>3. NodesOf(WithError(m, s), t) = NodesOf(m, t)
    <3>1. [nodes |-> NodesOf(m, s), err |-> TRUE, meta |-> MetaOf(m, s)] # None
      BY <2>2, NoneAssumption
    <3>2. CASE t = s
      <4>1. WithError(m, s)[t] # None /\ WithError(m, s)[t].nodes = NodesOf(m, s)
        BY <2>1, <3>1, <3>2
      <4> QED
        BY <4>1, <3>2 DEF NodesOf
    <3>3. CASE t # s
      BY <2>1, <3>3 DEF NodesOf
    <3> QED
      BY <3>2, <3>3
  <2>4. CASE m[s] = None
    BY <2>3, <2>4 DEF Touched
  <2>5. CASE m[s] # None
    <3>1. m[s] \in SubState
      BY <2>5 DEF StoreType
    <3>2. /\ [m[s] EXCEPT !.err = FALSE] \in SubState
          /\ [m[s] EXCEPT !.err = FALSE].nodes = m[s].nodes
      BY <3>1 DEF SubState
    <3>3. Touched(m, s)[t] = IF t = s THEN [m[s] EXCEPT !.err = FALSE] ELSE m[t]
      BY <2>5 DEF Touched, StoreType
    <3> QED
      BY <2>3, <2>5, <3>2, <3>3, NoneAssumption DEF NodesOf
  <2> QED
    BY <2>4, <2>5
<1> QED
  BY <1>1 DEF NodeLists

\* A stored body replaces one list.
LEMMA StoreReplacesList ==
  ASSUME NEW m \in StoreType, NEW s \in Subs, NEW nodes \in Contents, NEW meta \in Metas
  PROVE  NodeLists(WithNodes(m, s, nodes, meta)) = [NodeLists(m) EXCEPT ![s] = nodes]
<1>1. [nodes |-> nodes, err |-> FALSE, meta |-> meta] # None
  <2>1. [nodes |-> nodes, err |-> FALSE, meta |-> meta] \in SubState
    BY DEF SubState
  <2> QED
    BY <2>1, NoneAssumption
<1>2. ASSUME NEW t \in Subs
      PROVE  NodesOf(WithNodes(m, s, nodes, meta), t) = IF t = s THEN nodes ELSE NodesOf(m, t)
  BY <1>1 DEF WithNodes, NodesOf, StoreType
<1> QED
  BY <1>2 DEF NodeLists

\* A reload empties the lists of the subs it drops and keeps the others.
LEMMA PruneDropsLists ==
  ASSUME NEW m \in StoreType, NEW keep \in SUBSET Subs
  PROVE  NodeLists(Pruned(m, keep)) = [s \in Subs |-> IF s \in keep THEN NodeLists(m)[s] ELSE <<>>]
BY DEF NodeLists, NodesOf, Pruned

\* Whatever is collected for a cache key, and whatever is rendered from it,
\* is one of the values TypeOK allows.
LEMMA CollectType ==
  ASSUME NEW m \in StoreType, NEW k \in CacheKeys
  PROVE  /\ Collect(NodeLists(m), k[1]) \in Collected
         /\ \A nodes \in Collected : Payload(nodes, k[2]) \in Bodies
<1>1. NodeLists(m) \in [Subs -> Contents]
  BY ContentsAssumption DEF NodeLists, NodesOf, StoreType, SubState
<1>2. k[2] \in Variants
  BY KeysAssumption
<1> QED
  BY <1>1, <1>2 DEF Collected, Bodies

-----------------------------------------------------------------------------
(* Type correctness *)

\* NewStore is well typed, and so are callers that have not called yet.
LEMMA InitTypeOK == Init => TypeOK
<1> SUFFICES ASSUME Init PROVE TypeOK
  OBVIOUS
<1>1. <<>> \in Collected /\ <<>> \in Bodies
  BY DEF Collected, Bodies
<1>2. Idle \in Request
  BY <1>1, GenAssumption DEF Idle, Request
<1>3. subs \in StoreType
  BY DEF Init, StoreType, EmptyStore
<1>4. gen \in 0 .. MaxGen
  BY GenAssumption DEF Init
<1>5. cache \in [CacheKeys -> CacheEntry \cup {None}]
  BY DEF Init
<1>6. changed \in BOOLEAN
  BY DEF Init
<1>7. req \in [Requests -> Request]
  BY <1>2 DEF Init
<1> QED
  BY <1>3, <1>4, <1>5, <1>6, <1>7 DEF TypeOK

\* Every step keeps the types, given that a render in flight knows its key:
\* FinishRender writes the cache at that key.
LEMMA StepTypeOK == TypeOK /\ RenderingHasKey /\ [Next]_vars => TypeOK'
<1> SUFFICES ASSUME TypeOK, RenderingHasKey, [Next]_vars PROVE TypeOK'
  OBVIOUS
<1>t. /\ subs \in StoreType
      /\ gen \in 0 .. MaxGen
      /\ cache \in [CacheKeys -> CacheEntry \cup {None}]
      /\ changed \in BOOLEAN
      /\ req \in [Requests -> Request]
  BY DEF TypeOK
<1>e. <<>> \in Collected /\ <<>> \in Bodies
  BY DEF Collected, Bodies
<1>1. ASSUME NEW s \in Subs, NEW nodes \in Contents, NEW meta \in Metas, SetNodes(s, nodes, meta)
      PROVE  TypeOK'
  <2>1. subs' \in StoreType
    BY <1>t, <1>1, StoreOpsType DEF SetNodes
  <2> QED
    BY <2>1, <1>t, <1>1, GenAssumption DEF SetNodes, Notify, TypeOK
<1>2. ASSUME NEW s \in Subs, SetError(s) PROVE TypeOK'
  <2>1. subs' \in StoreType
    BY <1>t, <1>2, StoreOpsType DEF SetError
  <2> QED
    BY <2>1, <1>t, <1>2 DEF SetError, TypeOK
<1>3. ASSUME NEW s \in Subs, Touch(s) PROVE TypeOK'
  <2>1. subs' \in StoreType
    BY <1>t, <1>3, StoreOpsType DEF Touch
  <2> QED
    BY <2>1, <1>t, <1>3 DEF Touch, TypeOK
<1>4. ASSUME NEW keep \in SUBSET Subs, Prune(keep) PROVE TypeOK'
  <2>1. subs' \in StoreType
    BY <1>t, <1>4 DEF Prune, Pruned, StoreType
  <2> QED
    BY <2>1, <1>t, <1>4, GenAssumption DEF Prune, Notify, TypeOK
<1>5. CASE TakeSignal
  BY <1>t, <1>5 DEF TakeSignal, TypeOK
<1>6. ASSUME NEW r \in Requests, NEW k \in CacheKeys, RenderHit(r, k) PROVE TypeOK'
  <2>1. cache[k] \in CacheEntry
    BY <1>t, <1>6 DEF RenderHit, Fresh
  <2>2. Answered(cache[k].body) \in Request
    BY <1>e, <2>1, GenAssumption DEF Answered, Request, CacheEntry
  <2> QED
    BY <1>t, <1>6, <2>2 DEF RenderHit, TypeOK
<1>7. ASSUME NEW r \in Requests, NEW k \in CacheKeys, RenderMiss(r, k) PROVE TypeOK'
  <2>1. Collect(NodeLists(subs), k[1]) \in Collected
    BY <1>t, CollectType
  <2>2. [pc    |-> "rendering",
         key   |-> k,
         gen   |-> gen,
         nodes |-> Collect(NodeLists(subs), k[1]),
         body  |-> <<>>] \in Request
    BY <1>t, <1>e, <2>1 DEF Request
  <2> QED
    BY <1>t, <1>7, <2>2 DEF RenderMiss, TypeOK
<1>8. ASSUME NEW r \in Requests, FinishRender(r) PROVE TypeOK'
  <2> DEFINE body == Payload(req[r].nodes, req[r].key[2])
  <2>1. body \in Bodies
    BY <1>t, <1>8, CollectType DEF FinishRender, RenderingHasKey, Request
  <2>2. Answered(body) \in Request
    BY <1>e, <2>1, GenAssumption DEF Answered, Request
  <2>3. [gen |-> gen, body |-> body] \in CacheEntry
    BY <1>t, <2>1 DEF CacheEntry
  <2>4. cache' \in [CacheKeys -> CacheEntry \cup {None}]
    BY <1>t, <1>8, <2>3 DEF FinishRender
  <2>5. req' \in [Requests -> Request]
    BY <1>t, <1>8, <2>2 DEF FinishRender
  <2> QED
    BY <1>t, <1>8, <2>4, <2>5 DEF FinishRender, TypeOK
<1>9. ASSUME NEW r \in Requests, Return(r) PROVE TypeOK'
  <2>1. Idle \in Request
    BY <1>e, GenAssumption DEF Idle, Request
  <2> QED
    BY <1>t, <1>9, <2>1 DEF Return, TypeOK
<1>10. CASE UNCHANGED vars
  BY <1>t, <1>10 DEF vars, TypeOK
<1> QED
  BY <1>1, <1>2, <1>3, <1>4, <1>5, <1>6, <1>7, <1>8, <1>9, <1>10 DEF Next

-----------------------------------------------------------------------------
(* The inductive invariant *)

\* An empty cache without renders in flight is coherent.
LEMMA InitIndInv == Init => IndInv
<1> SUFFICES ASSUME Init PROVE IndInv
  OBVIOUS
<1>1. TypeOK
  BY InitTypeOK
<1>2. \A r \in Requests : req[r].pc = "idle" /\ req[r].gen = 0
  BY DEF Init, Idle
<1>3. \A k \in CacheKeys : cache[k] = None
  BY DEF Init
<1>4. gen = 0
  BY DEF Init
<1> QED
  BY <1>1, <1>2, <1>3, <1>4
     DEF IndInv, CacheCoherent, Fresh, InFlightCoherent, NoFutureGen, RenderingHasKey

\* A step that keeps the lists and the generation, the cache and the
\* requests, keeps the invariant: a failure, a 304, a taken signal.
LEMMA QuietStep ==
  ASSUME IndInv, TypeOK', UNCHANGED <<gen, cache, req>>, NodeLists(subs') = NodeLists(subs)
  PROVE  IndInv'
<1>1. CacheCoherent'
  BY DEF IndInv, CacheCoherent, Fresh, BodyOf
<1>2. InFlightCoherent'
  BY DEF IndInv, InFlightCoherent
<1> QED
  BY <1>1, <1>2 DEF IndInv, NoFutureGen, RenderingHasKey

\* A step to a new generation makes every entry and every render in flight
\* stale at once, whatever it does to the snapshots.
LEMMA NewGeneration ==
  ASSUME IndInv, TypeOK', gen' = gen + 1, req' = req,
         \A k \in CacheKeys : cache'[k] = cache[k] \/ cache'[k] = None
  PROVE  IndInv'
<1>t. gen \in Nat /\ \A r \in Requests : req[r].gen \in Nat
  BY GenAssumption DEF IndInv, TypeOK, Request
<1>c. \A k \in CacheKeys : cache[k] # None => cache[k].gen \in Nat /\ cache[k].gen <= gen
  <2> SUFFICES ASSUME NEW k \in CacheKeys, cache[k] # None
               PROVE  cache[k].gen \in Nat /\ cache[k].gen <= gen
    OBVIOUS
  <2>1. cache[k] \in CacheEntry
    BY DEF IndInv, TypeOK
  <2> QED
    BY <2>1, GenAssumption DEF IndInv, NoFutureGen, CacheEntry
<1>1. \A k \in CacheKeys : ~Fresh(k)'
  BY <1>t, <1>c DEF Fresh
<1>2. \A r \in Requests : req'[r].gen # gen'
  BY <1>t DEF IndInv, NoFutureGen
<1>3. NoFutureGen'
  BY <1>t, <1>c DEF IndInv, NoFutureGen
<1> QED
  BY <1>1, <1>2, <1>3 DEF IndInv, CacheCoherent, InFlightCoherent, RenderingHasKey

\* Every step of the store keeps the invariant: writers that change a list
\* start a generation, the others change no list, and a render that ends
\* fills the cache with what the present lists give, or not at all.
LEMMA StepIndInv == IndInv /\ [Next]_vars => IndInv'
<1> SUFFICES ASSUME IndInv, [Next]_vars PROVE IndInv'
  OBVIOUS
<1>t. TypeOK /\ TypeOK'
  BY StepTypeOK DEF IndInv
<1>s. subs \in StoreType /\ req \in [Requests -> Request] /\ gen \in Nat
  BY <1>t, GenAssumption DEF TypeOK
<1>1. ASSUME NEW s \in Subs, NEW nodes \in Contents, NEW meta \in Metas, SetNodes(s, nodes, meta)
      PROVE  IndInv'
  BY <1>t, <1>1, NewGeneration DEF SetNodes, Notify
<1>2. ASSUME NEW s \in Subs, SetError(s) PROVE IndInv'
  BY <1>t, <1>s, <1>2, QuietStep, ErrorKeepsLists DEF SetError
<1>3. ASSUME NEW s \in Subs, Touch(s) PROVE IndInv'
  BY <1>t, <1>s, <1>3, QuietStep, ErrorKeepsLists DEF Touch
<1>4. ASSUME NEW keep \in SUBSET Subs, Prune(keep) PROVE IndInv'
  BY <1>t, <1>4, NewGeneration DEF Prune, Notify
<1>5. CASE TakeSignal
  BY <1>t, <1>5, QuietStep DEF TakeSignal
<1>6. ASSUME NEW r \in Requests, NEW k \in CacheKeys, RenderHit(r, k) PROVE IndInv'
  <2>1. /\ UNCHANGED <<subs, gen, cache>>
        /\ req' = [req EXCEPT ![r] = Answered(cache[k].body)]
    BY <1>6 DEF RenderHit
  <2>2. req'[r].pc = "done" /\ req'[r].gen = 0
    BY <1>s, <2>1 DEF Answered
  <2>3. \A q \in Requests : q # r => req'[q] = req[q]
    BY <1>s, <2>1
  <2>4. CacheCoherent'
    BY <2>1 DEF IndInv, CacheCoherent, Fresh
  <2>5. InFlightCoherent' /\ RenderingHasKey'
    BY <2>1, <2>2, <2>3 DEF IndInv, InFlightCoherent, RenderingHasKey
  <2>6. NoFutureGen'
    BY <1>s, <2>1, <2>2, <2>3 DEF IndInv, NoFutureGen
  <2> QED
    BY <1>t, <2>4, <2>5, <2>6 DEF IndInv
<1>7. ASSUME NEW r \in Requests, NEW k \in CacheKeys, RenderMiss(r, k) PROVE IndInv'
  <2>1. UNCHANGED <<subs, gen, cache>>
    BY <1>7 DEF RenderMiss
  <2>2. /\ req'[r].key = k
        /\ req'[r].gen = gen
        /\ req'[r].nodes = Collect(NodeLists(subs), k[1])
    BY <1>s, <1>7 DEF RenderMiss
  <2>3. \A q \in Requests : q # r => req'[q] = req[q]
    BY <1>s, <1>7 DEF RenderMiss
  <2>4. CacheCoherent'
    BY <2>1 DEF IndInv, CacheCoherent, Fresh
  <2>5. InFlightCoherent' /\ RenderingHasKey'
    BY <2>1, <2>2, <2>3 DEF IndInv, InFlightCoherent, RenderingHasKey
  <2>6. NoFutureGen'
    BY <1>s, <2>1, <2>2, <2>3 DEF IndInv, NoFutureGen
  <2> QED
    BY <1>t, <2>4, <2>5, <2>6 DEF IndInv
<1>8. ASSUME NEW r \in Requests, FinishRender(r) PROVE IndInv'
  <2> DEFINE body == Payload(req[r].nodes, req[r].key[2])
  <2>1. /\ UNCHANGED <<subs, gen>>
        /\ req[r].pc = "rendering"
        /\ req[r].key \in CacheKeys
    BY <1>8 DEF FinishRender, IndInv, RenderingHasKey
  <2>2. req'[r].pc = "done" /\ req'[r].gen = 0
    BY <1>s, <1>8 DEF FinishRender, Answered
  <2>3. \A q \in Requests : q # r => req'[q] = req[q]
    BY <1>s, <1>8 DEF FinishRender
  <2>4. \A k \in CacheKeys : k # req[r].key => cache'[k] = cache[k]
    BY <1>t, <1>8 DEF FinishRender, TypeOK
  <2>5. CacheCoherent' /\ NoFutureGen'
    <3>1. CASE gen = req[r].gen
      <4>1. cache'[req[r].key] = [gen |-> gen, body |-> body]
        BY <1>t, <1>8, <2>1, <3>1 DEF FinishRender, TypeOK
      <4>2. body = BodyOf(NodeLists(subs), req[r].key)
        BY <2>1, <3>1 DEF IndInv, InFlightCoherent, BodyOf
      <4>3. CacheCoherent'
        BY <2>1, <2>4, <4>1, <4>2 DEF IndInv, CacheCoherent, Fresh
      <4>4. NoFutureGen'
        BY <1>s, <2>1, <2>2, <2>3, <2>4, <4>1 DEF IndInv, NoFutureGen
      <4> QED
        BY <4>3, <4>4
    <3>2. CASE gen # req[r].gen
      <4>1. cache' = cache
        BY <1>8, <3>2 DEF FinishRender
      <4> QED
        BY <1>s, <2>1, <2>2, <2>3, <4>1 DEF IndInv, CacheCoherent, Fresh, NoFutureGen
    <3> QED
      BY <3>1, <3>2
  <2>6. InFlightCoherent' /\ RenderingHasKey'
    BY <2>1, <2>2, <2>3 DEF IndInv, InFlightCoherent, RenderingHasKey
  <2> QED
    BY <1>t, <2>5, <2>6 DEF IndInv
<1>9. ASSUME NEW r \in Requests, Return(r) PROVE IndInv'
  <2>1. UNCHANGED <<subs, gen, cache>>
    BY <1>9 DEF Return
  <2>2. req'[r].pc = "idle" /\ req'[r].gen = 0
    BY <1>s, <1>9 DEF Return, Idle
  <2>3. \A q \in Requests : q # r => req'[q] = req[q]
    BY <1>s, <1>9 DEF Return
  <2>4. CacheCoherent'
    BY <2>1 DEF IndInv, CacheCoherent, Fresh
  <2>5. InFlightCoherent' /\ RenderingHasKey'
    BY <2>1, <2>2, <2>3 DEF IndInv, InFlightCoherent, RenderingHasKey
  <2>6. NoFutureGen'
    BY <1>s, <2>1, <2>2, <2>3 DEF IndInv, NoFutureGen
  <2> QED
    BY <1>t, <2>4, <2>5, <2>6 DEF IndInv
<1>10. CASE UNCHANGED vars
  BY <1>t, <1>10, QuietStep DEF vars
<1> QED
  BY <1>1, <1>2, <1>3, <1>4, <1>5, <1>6, <1>7, <1>8, <1>9, <1>10 DEF Next

\* The strengthened invariant holds in every reachable state.
THEOREM StoreInvariant == Spec => []IndInv
BY InitIndInv, StepIndInv, PTL DEF Spec

\* Every variable of the store keeps its type.
THEOREM StoreTyped == Spec => []TypeOK
<1>1. IndInv => TypeOK
  BY DEF IndInv
<1> QED
  BY <1>1, StoreInvariant, PTL

\* What the cache would serve is what rendering now would give.
THEOREM CacheIsCoherent == Spec => []CacheCoherent
<1>1. IndInv => CacheCoherent
  BY DEF IndInv
<1> QED
  BY <1>1, StoreInvariant, PTL

-----------------------------------------------------------------------------
(* What a step may change *)

\* Only SetNodes and Prune change a node list, and both leave a signal.
LEMMA ListsChangeOrStay ==
  ASSUME TypeOK, [Next]_vars
  PROVE  changed' = TRUE \/ NodeLists(subs') = NodeLists(subs)
<1>s. subs \in StoreType
  BY DEF TypeOK
<1>1. ASSUME NEW s \in Subs, NEW nodes \in Contents, NEW meta \in Metas, SetNodes(s, nodes, meta)
      PROVE  changed' = TRUE
  BY <1>1 DEF SetNodes, Notify
<1>2. ASSUME NEW s \in Subs, SetError(s) PROVE NodeLists(subs') = NodeLists(subs)
  BY <1>s, <1>2, ErrorKeepsLists DEF SetError
<1>3. ASSUME NEW s \in Subs, Touch(s) PROVE NodeLists(subs') = NodeLists(subs)
  BY <1>s, <1>3, ErrorKeepsLists DEF Touch
<1>4. ASSUME NEW keep \in SUBSET Subs, Prune(keep) PROVE changed' = TRUE
  BY <1>4 DEF Prune, Notify
<1>5. CASE UNCHANGED subs
  BY <1>5
<1>6. ASSUME NEW r \in Requests, NEW k \in CacheKeys, RenderHit(r, k) \/ RenderMiss(r, k)
      PROVE  UNCHANGED subs
  BY <1>6 DEF RenderHit, RenderMiss
<1>7. ASSUME NEW r \in Requests, FinishRender(r) \/ Return(r) PROVE UNCHANGED subs
  BY <1>7 DEF FinishRender, Return
<1> QED
  BY <1>1, <1>2, <1>3, <1>4, <1>5, <1>6, <1>7 DEF Next, TakeSignal, vars

\* A step that changes what some reader would be given leaves a signal.
THEOREM ChangesAreSignalled == Spec => ChangeIsSignalled
<1>1. TypeOK /\ [Next]_vars =>
        [(\E k \in CacheKeys :
            Collect(NodeLists(subs'), k[1]) # Collect(NodeLists(subs), k[1])) => changed']_vars
  BY ListsChangeOrStay
<1> QED
  BY <1>1, StoreTyped, PTL DEF Spec, ChangeIsSignalled

-----------------------------------------------------------------------------
(* Refinement *)

\* An empty store has empty lists, and nobody has an answer.
LEMMA InitRefines == Init => A!SpecInit
<1> SUFFICES ASSUME Init PROVE A!SpecInit
  OBVIOUS
<1>1. NodeLists(subs) = [s \in Subs |-> <<>>]
  BY DEF Init, EmptyStore, NodeLists, NodesOf
<1>2. \A r \in Requests : AnswerOf(r) = A!NoAnswer
  BY DEF Init, Idle, AnswerOf, A!NoAnswer
<1> QED
  BY <1>1, <1>2 DEF A!SpecInit

\* A caller whose abstract answer alone changes: the others keep theirs.
LEMMA OneAnswer ==
  ASSUME TypeOK, NEW r \in Requests, \A q \in Requests : q # r => req'[q] = req[q]
  PROVE  [q \in Requests |-> AnswerOf(q)]'
           = [[q \in Requests |-> AnswerOf(q)] EXCEPT ![r] = AnswerOf(r)']
<1>1. \A q \in Requests : q # r => AnswerOf(q)' = AnswerOf(q)
  BY DEF AnswerOf
<1> QED
  BY <1>1

\* Every step is one of AggSpec or invisible there: writers replace or drop
\* lists, a hit or a miss answers, the end of a render changes nothing.
LEMMA StepRefines ==
  ASSUME IndInv, [Next]_vars
  PROVE  [A!SpecNext]_(A!specVars)
<1>s. /\ subs \in StoreType
      /\ req \in [Requests -> Request]
  BY DEF IndInv, TypeOK
<1>t. TypeOK
  BY DEF IndInv
<1>a. ASSUME UNCHANGED req
      PROVE  [q \in Requests |-> AnswerOf(q)]' = [q \in Requests |-> AnswerOf(q)]
  BY <1>a DEF AnswerOf
<1>1. ASSUME NEW s \in Subs, NEW nodes \in Contents, NEW meta \in Metas, SetNodes(s, nodes, meta)
      PROVE  A!Replace(s, nodes)
  <2>1. NodeLists(subs') = [NodeLists(subs) EXCEPT ![s] = nodes]
    BY <1>s, <1>1, StoreReplacesList DEF SetNodes
  <2> QED
    BY <2>1, <1>1, <1>a DEF SetNodes, A!Replace
<1>2. ASSUME NEW s \in Subs, SetError(s) \/ Touch(s) PROVE UNCHANGED A!specVars
  <2>1. NodeLists(subs') = NodeLists(subs)
    BY <1>s, <1>2, ErrorKeepsLists DEF SetError, Touch
  <2> QED
    BY <2>1, <1>2, <1>a DEF SetError, Touch, A!specVars
<1>3. ASSUME NEW keep \in SUBSET Subs, Prune(keep) PROVE A!Drop(keep)
  <2>1. NodeLists(subs') = [s \in Subs |-> IF s \in keep THEN NodeLists(subs)[s] ELSE <<>>]
    BY <1>s, <1>3, PruneDropsLists DEF Prune
  <2> QED
    BY <2>1, <1>3, <1>a DEF Prune, A!Drop
<1>4. ASSUME TakeSignal \/ UNCHANGED vars PROVE UNCHANGED A!specVars
  BY <1>4, <1>a DEF TakeSignal, vars, A!specVars
<1>5. ASSUME NEW r \in Requests, NEW k \in CacheKeys, RenderHit(r, k) PROVE A!Answer(r, k)
  <2>1. AnswerOf(r) = A!NoAnswer
    BY <1>5 DEF RenderHit, AnswerOf, A!NoAnswer
  <2>2. cache[k].body = BodyOf(NodeLists(subs), k)
    BY <1>5 DEF RenderHit, IndInv, CacheCoherent
  <2>3. req'[r] = Answered(cache[k].body)
    BY <1>s, <1>5 DEF RenderHit
  <2>4. AnswerOf(r)' = [body |-> BodyOf(NodeLists(subs), k), done |-> TRUE]
    BY <2>2, <2>3 DEF AnswerOf, Answered
  <2>5. \A q \in Requests : q # r => req'[q] = req[q]
    BY <1>s, <1>5 DEF RenderHit
  <2>6. [q \in Requests |-> AnswerOf(q)]'
          = [[q \in Requests |-> AnswerOf(q)] EXCEPT ![r] = AnswerOf(r)']
    BY <1>t, <2>5, OneAnswer
  <2>7. NodeLists(subs)' = NodeLists(subs)
    BY <1>5 DEF RenderHit
  <2>8. [q \in Requests |-> AnswerOf(q)][r] = A!NoAnswer
    BY <2>1
  <2> QED
    BY <2>4, <2>6, <2>7, <2>8 DEF A!Answer
<1>6. ASSUME NEW r \in Requests, NEW k \in CacheKeys, RenderMiss(r, k) PROVE A!Answer(r, k)
  <2>1. AnswerOf(r) = A!NoAnswer
    BY <1>6 DEF RenderMiss, AnswerOf, A!NoAnswer
  <2>2. /\ req'[r].pc = "rendering"
        /\ req'[r].key = k
        /\ req'[r].nodes = Collect(NodeLists(subs), k[1])
    BY <1>s, <1>6 DEF RenderMiss
  <2>3. AnswerOf(r)' = [body |-> BodyOf(NodeLists(subs), k), done |-> TRUE]
    BY <2>2 DEF AnswerOf, BodyOf
  <2>4. \A q \in Requests : q # r => req'[q] = req[q]
    BY <1>s, <1>6 DEF RenderMiss
  <2>6. [q \in Requests |-> AnswerOf(q)]'
          = [[q \in Requests |-> AnswerOf(q)] EXCEPT ![r] = AnswerOf(r)']
    BY <1>t, <2>4, OneAnswer
  <2>7. NodeLists(subs)' = NodeLists(subs)
    BY <1>6 DEF RenderMiss
  <2>8. [q \in Requests |-> AnswerOf(q)][r] = A!NoAnswer
    BY <2>1
  <2> QED
    BY <2>3, <2>6, <2>7, <2>8 DEF A!Answer
<1>7. ASSUME NEW r \in Requests, FinishRender(r) PROVE UNCHANGED A!specVars
  <2>1. req'[r] = Answered(Payload(req[r].nodes, req[r].key[2]))
    BY <1>s, <1>7 DEF FinishRender
  <2>2. AnswerOf(r)' = AnswerOf(r)
    <3>1. req[r].pc = "rendering"
      BY <1>7 DEF FinishRender
    <3>2. AnswerOf(r) = [body |-> Payload(req[r].nodes, req[r].key[2]), done |-> TRUE]
      BY <3>1 DEF AnswerOf
    <3>3. /\ req'[r].pc = "done"
          /\ req'[r].body = Payload(req[r].nodes, req[r].key[2])
      BY <2>1 DEF Answered
    <3>4. AnswerOf(r)' = [body |-> Payload(req[r].nodes, req[r].key[2]), done |-> TRUE]
      BY <3>3 DEF AnswerOf
    <3> QED
      BY <3>2, <3>4
  <2>3. \A q \in Requests : q # r => req'[q] = req[q]
    BY <1>s, <1>7 DEF FinishRender
  <2>4. [q \in Requests |-> AnswerOf(q)]'
          = [[q \in Requests |-> AnswerOf(q)] EXCEPT ![r] = AnswerOf(r)']
    BY <1>t, <2>3, OneAnswer
  <2>5. NodeLists(subs)' = NodeLists(subs)
    BY <1>7 DEF FinishRender
  <2> QED
    BY <2>2, <2>4, <2>5 DEF A!specVars
<1>8. ASSUME NEW r \in Requests, Return(r) PROVE A!Leave(r)
  <2>1. AnswerOf(r) # A!NoAnswer
    BY <1>8 DEF Return, AnswerOf, A!NoAnswer
  <2>2. AnswerOf(r)' = A!NoAnswer
    BY <1>s, <1>8 DEF Return, Idle, AnswerOf, A!NoAnswer
  <2>3. \A q \in Requests : q # r => req'[q] = req[q]
    BY <1>s, <1>8 DEF Return
  <2> QED
    BY <1>t, <1>8, <2>1, <2>2, <2>3, OneAnswer DEF Return, A!Leave
<1> QED
  BY <1>1, <1>2, <1>3, <1>4, <1>5, <1>6, <1>7, <1>8 DEF Next, A!SpecNext

\* Every answer, cached or not and however interrupted, is the payload of
\* the lists the store held at one moment of the call.
THEOREM StoreRefinesAggSpec == Spec => RendersAtomically
BY InitRefines, StepRefines, StoreInvariant, PTL DEF Spec, RendersAtomically, A!Spec
=============================================================================
