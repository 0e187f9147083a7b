------------------------------ MODULE SubStore ------------------------------
(***************************************************************************)
(* agg.Store with its render cache (internal/agg/store.go).               *)
(*                                                                         *)
(* Every method takes the mutex once and is one action, except Render,    *)
(* which takes it twice: it looks up the cache and collects the nodes     *)
(* under the lock (RenderHit, RenderMiss), renders outside of it, and     *)
(* locks again to fill the cache (FinishRender).  Anything may happen in  *)
(* between: another sub is refreshed, a reload prunes, another caller     *)
(* fills the same key.                                                    *)
(***************************************************************************)
EXTENDS SubSnapshots, Payloads

CONSTANTS
  CacheKeys,  \* what callers ask for: pairs <<order, variant>>
  Requests,   \* concurrent callers of Render
  MaxGen      \* bound: at most this many generation bumps

ASSUME KeysAssumption == CacheKeys \subseteq Seq(Subs) \X Variants
ASSUME GenAssumption == MaxGen \in Nat

VARIABLES
  subs,       \* Store.subs
  gen,        \* Store.gen
  cache,      \* Store.cache
  changed,    \* a signal is pending in Store.changed (capacity 1)
  req         \* req[r]: where caller r is inside Render, and its locals

vars == <<subs, gen, cache, changed, req>>

\* A caller outside Render.
Idle == [pc |-> "idle", key |-> None, gen |-> 0, nodes |-> <<>>, body |-> <<>>]

\* A caller that Render has returned to.
Answered(body) ==
  [pc |-> "done", key |-> None, gen |-> 0, nodes |-> <<>>, body |-> body]

Init ==
  /\ subs = EmptyStore
  /\ gen = 0
  /\ cache = [k \in CacheKeys |-> None]
  /\ changed = FALSE
  /\ req = [r \in Requests |-> Idle]

-----------------------------------------------------------------------------
(* Writers: refreshers and the reload loop *)

\* Mutant: the generation alone is bumped.
NotifyQuietly ==
  /\ gen' = gen + 1
  /\ UNCHANGED changed

Notify ==
  /\ gen' = gen + 1
  /\ changed' = TRUE

SetNodes(s, nodes, meta) ==
  /\ gen < MaxGen
  /\ subs' = WithNodes(subs, s, nodes, meta)
  /\ Notify
  /\ UNCHANGED <<cache, req>>

SetError(s) ==
  /\ subs' = WithError(subs, s)
  /\ UNCHANGED <<gen, cache, changed, req>>

Touch(s) ==
  /\ subs' = Touched(subs, s)
  /\ UNCHANGED <<gen, cache, changed, req>>

\* Mutant: the cache is cleared and the signal sent, the generation stays.
PruneSameGen(keep) ==
  /\ subs' = Pruned(subs, keep)
  /\ cache' = [k \in CacheKeys |-> None]
  /\ changed' = TRUE
  /\ UNCHANGED <<gen, req>>

Prune(keep) ==
  /\ gen < MaxGen
  /\ subs' = Pruned(subs, keep)
  /\ cache' = [k \in CacheKeys |-> None]
  /\ Notify
  /\ UNCHANGED req

\* The relay manager takes the pending signal out of Changed().
TakeSignal ==
  /\ changed
  /\ changed' = FALSE
  /\ UNCHANGED <<subs, gen, cache, req>>

-----------------------------------------------------------------------------
(* Render *)

\* Mutant: an entry is served whatever its generation.
Present(k) == cache[k] # None

Fresh(k) == cache[k] # None /\ cache[k].gen = gen

RenderHit(r, k) ==
  /\ req[r].pc = "idle"
  /\ Fresh(k)
  /\ req' = [req EXCEPT ![r] = Answered(cache[k].body)]
  /\ UNCHANGED <<subs, gen, cache, changed>>

RenderMiss(r, k) ==
  /\ req[r].pc = "idle"
  /\ ~Fresh(k)
  /\ req' = [req EXCEPT ![r] = [pc    |-> "rendering",
                                key   |-> k,
                                gen   |-> gen,
                                nodes |-> Collect(NodeLists(subs), k[1]),
                                body  |-> <<>>]]
  /\ UNCHANGED <<subs, gen, cache, changed>>

\* Mutant: the cache is filled without a second look at the generation.
FinishUnchecked(r) ==
  LET body == Payload(req[r].nodes, req[r].key[2]) IN
  /\ req[r].pc = "rendering"
  /\ cache' = [cache EXCEPT ![req[r].key] = [gen |-> gen, body |-> body]]
  /\ req' = [req EXCEPT ![r] = Answered(body)]
  /\ UNCHANGED <<subs, gen, changed>>

FinishRender(r) ==
  LET body == Payload(req[r].nodes, req[r].key[2]) IN
  /\ req[r].pc = "rendering"
  /\ cache' = IF gen = req[r].gen
              THEN [cache EXCEPT ![req[r].key] = [gen |-> gen, body |-> body]]
              ELSE cache
  /\ req' = [req EXCEPT ![r] = Answered(body)]
  /\ UNCHANGED <<subs, gen, changed>>

\* The caller has the body and the tag; it may call again.
Return(r) ==
  /\ req[r].pc = "done"
  /\ req' = [req EXCEPT ![r] = Idle]
  /\ UNCHANGED <<subs, gen, cache, changed>>

-----------------------------------------------------------------------------
Next ==
  \/ \E s \in Subs, nodes \in Contents, meta \in Metas : SetNodes(s, nodes, meta)
  \/ \E s \in Subs : SetError(s)
  \/ \E s \in Subs : Touch(s)
  \/ \E keep \in SUBSET Subs : Prune(keep)
  \/ TakeSignal
  \/ \E r \in Requests, k \in CacheKeys : RenderHit(r, k)
  \/ \E r \in Requests, k \in CacheKeys : RenderMiss(r, k)
  \/ \E r \in Requests : FinishRender(r)
  \/ \E r \in Requests : Return(r)

Spec == Init /\ [][Next]_vars

-----------------------------------------------------------------------------
(* Properties *)

\* What a call of Render that collected under the current lists would hold.
Collected ==
  { Collect(lists, k[1]) : lists \in [Subs -> Contents], k \in CacheKeys } \cup {<<>>}
Bodies == { Payload(nodes, v) : nodes \in Collected, v \in Variants } \cup {<<>>}

CacheEntry == [gen : 0 .. MaxGen, body : Bodies]

Request ==
  [pc    : {"idle", "rendering", "done"},
   key   : CacheKeys \cup {None},
   gen   : 0 .. MaxGen,
   nodes : Collected,
   body  : Bodies]

\* Every variable stays in its type: in particular, nothing but a rendered
\* payload ever gets into the cache or into an answer.
TypeOK ==
  /\ subs \in StoreType
  /\ gen \in 0 .. MaxGen
  /\ cache \in [CacheKeys -> CacheEntry \cup {None}]
  /\ changed \in BOOLEAN
  /\ req \in [Requests -> Request]

\* An entry the cache would serve now is what rendering now would give,
\* although entries are filled outside of the critical section that
\* collected their nodes, and SetError and Touch change a snapshot without
\* a new generation.
CacheCoherent ==
  \A k \in CacheKeys : Fresh(k) => cache[k].body = BodyOf(NodeLists(subs), k)

\* A render in flight whose generation is still the current one holds the
\* nodes the store holds: this is what makes the second look at gen, before
\* the fill, sufficient.
InFlightCoherent ==
  \A r \in Requests :
    (req[r].pc = "rendering" /\ req[r].gen = gen)
      => req[r].nodes = Collect(NodeLists(subs), req[r].key[1])

\* No entry and no render in flight carries a generation that is yet to
\* come: such an entry would be served as fresh once gen reached it.
NoFutureGen ==
  /\ \A k \in CacheKeys : cache[k] # None => cache[k].gen <= gen
  /\ \A r \in Requests : req[r].gen <= gen

\* A render in flight knows what it was asked for.
RenderingHasKey ==
  \A r \in Requests : req[r].pc = "rendering" => req[r].key \in CacheKeys

\* The cache is coherent because of what every render in flight and every
\* entry, fresh or not, has; together these are preserved by every step.
\* Over and above the types and CacheCoherent this says that the generation
\* a render took at its first critical section is, at its second one, a
\* sound witness for its nodes: every step that changes or drops nodes,
\* Prune's included, starts a generation, and none is ever used ahead.
IndInv ==
  /\ TypeOK
  /\ CacheCoherent
  /\ InFlightCoherent
  /\ NoFutureGen
  /\ RenderingHasKey

\* A step that changes what some reader would be given leaves a signal
\* pending on Changed(), even when the consumer has not taken the last one:
\* the relay manager, which only reads after a signal, misses no change.
ChangeIsSignalled ==
  [][ (\E k \in CacheKeys :
         Collect(NodeLists(subs'), k[1]) # Collect(NodeLists(subs), k[1]))
      => changed' ]_vars

-----------------------------------------------------------------------------
(* Refinement: a render answers when it collects or hits, the rest of it   *)
(* is invisible.                                                           *)

\* The answer a caller already has, or is bound to get.
AnswerOf(r) ==
  CASE req[r].pc = "idle"      -> [body |-> <<>>, done |-> FALSE]
    [] req[r].pc = "rendering" -> [body |-> Payload(req[r].nodes, req[r].key[2]),
                                   done |-> TRUE]
    [] req[r].pc = "done"      -> [body |-> req[r].body, done |-> TRUE]

A == INSTANCE AggSpec
       WITH lists  <- NodeLists(subs),
            answer <- [r \in Requests |-> AnswerOf(r)]

\* Cached or not, interrupted or not, every answer is the payload of the
\* lists the store held at one moment between the call and its return.
RendersAtomically == A!Spec
=============================================================================
