---------------------------- MODULE Refresh_proof ----------------------------
(***************************************************************************)
(* Every configured sub has exactly one fetcher, validators describe the  *)
(* document their nodes come from, and nodes go only when a reload drops   *)
(* their sub or a document without any replaces them: for any subs,        *)
(* upstreams, documents and configurations, and any number of reloads,     *)
(* changes of documents and failures.                                      *)
(*                                                                         *)
(* The generations of refreshers are numbered: those of the future are    *)
(* not there yet, those of the past are cancelled, and when the reload     *)
(* loop rests those of the present are what the configuration asks for.    *)
(***************************************************************************)
EXTENDS Refresh, FiniteSetTheorems, TLAPS

\* A refresher that was started has a URL.
HasUrl ==
  \A e \in Epochs, s \in Subs : ref[e][s].pc # "off" => ref[e][s].url \in Urls

\* No refresher runs ahead of the reload that starts it.
NoneAhead ==
  \A e \in Epochs, s \in Subs : e > epoch => ref[e][s].pc = "off"

\* The refreshers of the present reload are those of its configuration, and
\* none of them has given up.
PresentMatch ==
  phase = "idle" =>
    \A s \in Subs :
      IF cfg[s] = None THEN ref[epoch][s].pc = "off"
      ELSE ref[epoch][s].pc \notin {"off", "exited"} /\ ref[epoch][s].url = cfg[s]

Metas == { HeadersAt(u, t) : u \in Urls, t \in Times } \cup {NoHeaders}
Contents == { NodesAt(u, t) : u \in Urls, t \in Times } \cup {<<>>}

-----------------------------------------------------------------------------
(* The store's operations *)

\* Nodes and headers need not be looked into.
LEMMA Shapes ==
  /\ SubState = [nodes : Contents, err : BOOLEAN, meta : Metas]
  /\ Refreshers =
       [pc      : {"off", "fetch", "sent", "touch", "store", "failed", "record", "wait", "exited"},
        url     : Urls \cup {None},
        sent    : Metas,
        got     : Times,
        wait    : 0 .. Interval,
        backoff : 1 .. Interval]
BY DEF SubState, Refreshers, Contents, Metas

LEMMA LookupType ==
  ASSUME NEW m \in StoreType, NEW s \in Subs
  PROVE  NodesOf(m, s) \in Contents /\ MetaOf(m, s) \in Metas
<1>1. <<>> \in Contents /\ NoHeaders \in Metas
  BY DEF Contents, Metas
<1>2. CASE m[s] = None
  BY <1>1, <1>2 DEF NodesOf, MetaOf
<1>3. CASE m[s] # None
  <2>1. m[s] \in SubState
    BY <1>3 DEF StoreType
  <2>2. m[s].nodes \in Contents /\ m[s].meta \in Metas
    BY <2>1, Shapes
  <2> QED
    BY <1>3, <2>2 DEF NodesOf, MetaOf
<1> QED
  BY <1>2, <1>3

LEMMA EntryType ==
  ASSUME NEW nodes \in Contents, NEW meta \in Metas, NEW err \in BOOLEAN
  PROVE  /\ [nodes |-> nodes, err |-> err, meta |-> meta] \in SubState
         /\ [nodes |-> nodes, err |-> err, meta |-> meta] # None
<1>1. [nodes |-> nodes, err |-> err, meta |-> meta] \in SubState
  BY Shapes
<1> QED
  BY <1>1, AbsenceAssumption

\* The effect of each operation on what lookups give.
LEMMA StoreEffects ==
  ASSUME NEW m \in StoreType, NEW s \in Subs, NEW t \in Subs
  PROVE  /\ \A nodes \in Contents, meta \in Metas :
              /\ WithNodes(m, s, nodes, meta) \in StoreType
              /\ NodesOf(WithNodes(m, s, nodes, meta), t) = IF t = s THEN nodes ELSE NodesOf(m, t)
              /\ MetaOf(WithNodes(m, s, nodes, meta), t) = IF t = s THEN meta ELSE MetaOf(m, t)
         /\ WithError(m, s) \in StoreType
         /\ NodesOf(WithError(m, s), t) = NodesOf(m, t)
         /\ MetaOf(WithError(m, s), t) = MetaOf(m, t)
         /\ Touched(m, s) \in StoreType
         /\ NodesOf(Touched(m, s), t) = NodesOf(m, t)
         /\ MetaOf(Touched(m, s), t) = MetaOf(m, t)
         /\ \A keep \in SUBSET Subs :
              /\ Pruned(m, keep) \in StoreType
              /\ NodesOf(Pruned(m, keep), t) = IF t \in keep THEN NodesOf(m, t) ELSE <<>>
              /\ MetaOf(Pruned(m, keep), t) = IF t \in keep THEN MetaOf(m, t) ELSE NoHeaders
<1>1. ASSUME NEW e \in SubState
      PROVE  /\ [m EXCEPT ![s] = e] \in StoreType
             /\ NodesOf([m EXCEPT ![s] = e], t) = IF t = s THEN e.nodes ELSE NodesOf(m, t)
             /\ MetaOf([m EXCEPT ![s] = e], t) = IF t = s THEN e.meta ELSE MetaOf(m, t)
  <2>1. e # None
    BY AbsenceAssumption
  <2>2. [m EXCEPT ![s] = e] \in StoreType /\ [m EXCEPT ![s] = e][t] = IF t = s THEN e ELSE m[t]
    BY DEF StoreType
  <2> QED
    BY <2>1, <2>2 DEF NodesOf, MetaOf
<1>2. ASSUME NEW nodes \in Contents, NEW meta \in Metas
      PROVE  /\ WithNodes(m, s, nodes, meta) \in StoreType
             /\ NodesOf(WithNodes(m, s, nodes, meta), t) = IF t = s THEN nodes ELSE NodesOf(m, t)
             /\ MetaOf(WithNodes(m, s, nodes, meta), t) = IF t = s THEN meta ELSE MetaOf(m, t)
  <2> DEFINE e == [nodes |-> nodes, err |-> FALSE, meta |-> meta]
  <2>1. e \in SubState /\ e.nodes = nodes /\ e.meta = meta
    BY EntryType
  <2>2. WithNodes(m, s, nodes, meta) = [m EXCEPT ![s] = e]
    BY DEF WithNodes
  <2> HIDE DEF e
  <2> QED
    BY <1>1, <2>1, <2>2
<1>3. /\ WithError(m, s) \in StoreType
      /\ NodesOf(WithError(m, s), t) = NodesOf(m, t)
      /\ MetaOf(WithError(m, s), t) = MetaOf(m, t)
  <2> DEFINE e == [nodes |-> NodesOf(m, s), err |-> TRUE, meta |-> MetaOf(m, s)]
  <2>1. e \in SubState /\ e.nodes = NodesOf(m, s) /\ e.meta = MetaOf(m, s)
    BY EntryType, LookupType
  <2>2. WithError(m, s) = [m EXCEPT ![s] = e]
    BY DEF WithError
  <2> HIDE DEF e
  <2> QED
    BY <1>1, <2>1, <2>2
<1>4. /\ Touched(m, s) \in StoreType
      /\ NodesOf(Touched(m, s), t) = NodesOf(m, t)
      /\ MetaOf(Touched(m, s), t) = MetaOf(m, t)
  <2>1. CASE m[s] = None
    BY <2>1 DEF Touched
  <2>2. CASE m[s] # None
    <3> DEFINE e == [m[s] EXCEPT !.err = FALSE]
    <3>1. m[s] \in SubState
      BY <2>2 DEF StoreType
    <3>2. e \in SubState /\ e.nodes = m[s].nodes /\ e.meta = m[s].meta
      BY <3>1, Shapes
    <3>3. Touched(m, s) = [m EXCEPT ![s] = e]
      BY <2>2 DEF Touched
    <3> HIDE DEF e
    <3>4. NodesOf(m, s) = e.nodes /\ MetaOf(m, s) = e.meta
      BY <2>2, <3>2 DEF NodesOf, MetaOf
    <3>5. e \in SubState
      BY <3>2
    <3>6. /\ Touched(m, s) \in StoreType
          /\ NodesOf(Touched(m, s), t) = IF t = s THEN e.nodes ELSE NodesOf(m, t)
          /\ MetaOf(Touched(m, s), t) = IF t = s THEN e.meta ELSE MetaOf(m, t)
      BY <1>1, <3>3, <3>5, Zenon
    <3> QED
      BY <3>4, <3>6
  <2> QED
    BY <2>1, <2>2
<1>5. ASSUME NEW keep \in SUBSET Subs
      PROVE  /\ Pruned(m, keep) \in StoreType
             /\ NodesOf(Pruned(m, keep), t) = IF t \in keep THEN NodesOf(m, t) ELSE <<>>
             /\ MetaOf(Pruned(m, keep), t) = IF t \in keep THEN MetaOf(m, t) ELSE NoHeaders
  BY DEF Pruned, StoreType, NodesOf, MetaOf
<1> QED
  BY <1>2, <1>3, <1>4, <1>5

-----------------------------------------------------------------------------
(* Steps *)

IndInv == TypeOK /\ HasUrl /\ NoneAhead /\ PresentMatch /\ ValidatorsMatchNodes

LEMMA EpochNumbers == Epochs \subseteq Nat /\ Times \subseteq Nat /\ 0 \in Epochs /\ 0 \in Times
BY BoundsAssumption DEF Epochs, Times

LEMMA Defaults ==
  /\ NoHeaders \in Metas /\ 0 \in Times
  /\ 0 \in 0 .. Interval /\ Interval \in 0 .. Interval /\ 1 \in 1 .. Interval
BY EpochNumbers, IntervalAssumption DEF Metas

LEMMA StartedType ==
  /\ Off \in Refreshers /\ Off.pc = "off"
  /\ \A u \in Urls : Started(u) \in Refreshers /\ Started(u).pc = "fetch" /\ Started(u).url = u
<1>1. Off \in Refreshers
  BY Defaults, Shapes DEF Off
<1>2. ASSUME NEW u \in Urls
      PROVE  Started(u) \in Refreshers /\ Started(u).pc = "fetch" /\ Started(u).url = u
  BY <1>1, Shapes DEF Started, Off
<1> QED
  BY <1>1, <1>2 DEF Off

\* What a step of a refresher does: to itself, and to the store.
LEMMA RefresherSteps ==
  ASSUME TypeOK, HasUrl, NEW e \in Epochs, NEW s \in Subs, Step(e, s) \/ FetchFails(e, s)
  PROVE  /\ ref[e][s].pc # "off"
         /\ \E r \in Refreshers :
              /\ ref' = [ref EXCEPT ![e][s] = r]
              /\ r.url = ref[e][s].url /\ r.pc # "off"
              /\ r.pc = "exited" => Cancelled(e)
         /\ \/ subs' = subs
            \/ subs' = WithError(subs, s)
            \/ subs' = Touched(subs, s)
            \/ \E u \in Urls, t \in Times :
                 /\ subs' = WithNodes(subs, s, NodesAt(u, t), HeadersAt(u, t))
                 /\ At(e, s, "store") /\ ~At(e, s, "store")'
                 /\ ref[e][s].url = u /\ ref[e][s].got = t
         /\ UNCHANGED <<upstream, reload>>
         /\ faults' \in 0 .. MaxFaults
<1> DEFINE Goal(r) == /\ r \in Refreshers
                      /\ ref' = [ref EXCEPT ![e][s] = r]
                      /\ r.url = ref[e][s].url /\ r.pc # "off"
                      /\ r.pc = "exited" => Cancelled(e)
<1>1. ref[e][s] \in Refreshers /\ faults \in 0 .. MaxFaults /\ MaxFaults \in Nat
  BY BoundsAssumption DEF TypeOK
<1> USE <1>1 DEF Set, At
<1>2. CASE Send(e, s)
  <2>1. MetaOf(subs, s) \in Metas
    BY LookupType DEF TypeOK
  <2>2. CASE Cancelled(e)
    <3>1. Goal([ref[e][s] EXCEPT !.pc = "failed"])
      BY <1>2, <2>2, Shapes DEF Send
    <3> QED
      BY <1>2, <3>1 DEF Send
  <2>3. CASE ~Cancelled(e)
    <3>1. Goal([ref[e][s] EXCEPT !.pc = "sent", !.sent = MetaOf(subs, s)])
      BY <1>2, <2>1, <2>3, Shapes DEF Send
    <3> QED
      BY <1>2, <3>1 DEF Send
  <2> QED
    BY <2>2, <2>3
<1>3. CASE Respond(e, s)
  <2>1. ref[e][s].url \in Urls
    BY <1>3 DEF Respond, HasUrl
  <2>2. CASE NotModified(ref[e][s].url, ref[e][s].sent)
    <3>1. Goal([ref[e][s] EXCEPT !.pc = "touch"])
      BY <1>3, <2>2, Shapes DEF Respond
    <3> QED
      BY <1>3, <3>1 DEF Respond
  <2>3. CASE ~NotModified(ref[e][s].url, ref[e][s].sent)
    <3>1. mod[ref[e][s].url] \in Times
      BY <2>1 DEF TypeOK
    <3>2. Goal([ref[e][s] EXCEPT !.pc = "store", !.got = mod[ref[e][s].url]])
      BY <1>3, <2>3, <3>1, Shapes DEF Respond
    <3> QED
      BY <1>3, <3>2 DEF Respond
  <2> QED
    BY <2>2, <2>3
<1>4. CASE FetchFails(e, s)
  <2>1. Goal([ref[e][s] EXCEPT !.pc = "failed"])
    BY <1>4, Shapes DEF FetchFails
  <2>2. faults' \in 0 .. MaxFaults
    BY <1>4 DEF FetchFails
  <2> QED
    BY <1>4, <2>1, <2>2 DEF FetchFails
<1>5. ASSUME ref[e][s].pc # "off"
      PROVE  /\ Rested(ref[e][s]) \in Refreshers /\ Rested(ref[e][s]).pc = "wait"
             /\ Rested(ref[e][s]).url = ref[e][s].url
  BY Defaults, Shapes DEF Rested
<1>6. CASE StoreBody(e, s)
  <2>1. ref[e][s].url \in Urls /\ ref[e][s].got \in Times /\ ref[e][s].pc # "off"
    BY <1>6, Shapes DEF StoreBody, HasUrl
  <2>2. Goal(Rested(ref[e][s]))
    BY <1>5, <1>6, <2>1 DEF StoreBody
  <2>3. At(e, s, "store") /\ ref'[e][s].pc = "wait"
    BY <1>5, <1>6, <2>1 DEF StoreBody, TypeOK
  <2> QED
    BY <1>6, <2>1, <2>2, <2>3 DEF StoreBody
<1>7. CASE TouchSub(e, s)
  <2>1. Goal(Rested(ref[e][s]))
    BY <1>5, <1>7 DEF TouchSub
  <2> QED
    BY <1>7, <2>1 DEF TouchSub
<1>8. CASE CheckContext(e, s)
  <2> DEFINE pc == IF Cancelled(e) THEN "exited" ELSE "record"
  <2>1. Goal([ref[e][s] EXCEPT !.pc = pc, !.sent = NoHeaders, !.got = 0])
    BY <1>8, Defaults, Shapes DEF CheckContext
  <2> QED
    BY <1>8, <2>1 DEF CheckContext
<1>9. CASE RecordError(e, s)
  <2> DEFINE doubled == 2 * ref[e][s].backoff
             backoff == IF doubled < Interval THEN doubled ELSE Interval
  <2>1. backoff \in 1 .. Interval /\ ref[e][s].backoff \in 0 .. Interval
    BY IntervalAssumption, Shapes
  <2>2. /\ Set(e, s, [ref[e][s] EXCEPT !.pc = "wait", !.wait = ref[e][s].backoff, !.backoff = backoff])
        /\ ref[e][s].pc = "record" /\ subs' = WithError(subs, s)
        /\ UNCHANGED <<upstream, reload, faults>>
    BY <1>9 DEF RecordError
  <2> HIDE DEF backoff
  <2>3. Goal([ref[e][s] EXCEPT !.pc = "wait", !.wait = ref[e][s].backoff, !.backoff = backoff])
    BY <2>1, <2>2, Shapes
  <2> QED
    BY <2>2, <2>3
<1>10. CASE TimerFires(e, s)
  <2>1. Goal([ref[e][s] EXCEPT !.pc = "fetch", !.wait = 0])
    BY <1>10, Defaults, Shapes DEF TimerFires
  <2> QED
    BY <1>10, <2>1 DEF TimerFires
<1>11. CASE Exit(e, s)
  <2>1. Goal([ref[e][s] EXCEPT !.pc = "exited", !.wait = 0])
    BY <1>11, Defaults, Shapes DEF Exit
  <2> QED
    BY <1>11, <2>1 DEF Exit
<1> QED
  BY <1>2, <1>3, <1>4, <1>6, <1>7, <1>8, <1>9, <1>10, <1>11 DEF Step

\* The store after a step of a refresher: its type, and what it holds.
LEMMA RefresherStores ==
  ASSUME TypeOK, NEW s \in Subs, NEW t \in Subs,
         \/ subs' = subs
         \/ subs' = WithError(subs, s)
         \/ subs' = Touched(subs, s)
         \/ \E u \in Urls, n \in Times : subs' = WithNodes(subs, s, NodesAt(u, n), HeadersAt(u, n))
  PROVE  /\ subs' \in StoreType
         /\ \/ NodesOf(subs', t) = NodesOf(subs, t) /\ MetaOf(subs', t) = MetaOf(subs, t)
            \/ \E u \in Urls, n \in Times :
                 NodesOf(subs', t) = NodesAt(u, n) /\ MetaOf(subs', t) = HeadersAt(u, n)
<1>0. subs \in StoreType
  BY DEF TypeOK
<1>1. CASE subs' = subs
  BY <1>0, <1>1
<1>2. CASE subs' = WithError(subs, s)
  BY <1>0, <1>2, StoreEffects
<1>3. CASE subs' = Touched(subs, s)
  BY <1>0, <1>3, StoreEffects
<1>4. ASSUME NEW u \in Urls, NEW n \in Times, subs' = WithNodes(subs, s, NodesAt(u, n), HeadersAt(u, n))
      PROVE  /\ subs' \in StoreType
             /\ \/ NodesOf(subs', t) = NodesOf(subs, t) /\ MetaOf(subs', t) = MetaOf(subs, t)
                \/ NodesOf(subs', t) = NodesAt(u, n) /\ MetaOf(subs', t) = HeadersAt(u, n)
  <2>1. NodesAt(u, n) \in Contents /\ HeadersAt(u, n) \in Metas
    BY DEF Contents, Metas
  <2> HIDE DEF Contents, Metas
  <2> QED
    BY <1>0, <1>4, <2>1, StoreEffects
<1> QED
  BY <1>1, <1>2, <1>3, <1>4

LEMMA RefreshInit == Init => IndInv
<1> SUFFICES ASSUME Init PROVE IndInv
  OBVIOUS
<1>1. cfg \in Configs /\ cfg \in [Subs -> Urls \cup {None}]
  BY ConfigsAssumption DEF Init
<1>2. /\ StartAll(cfg) \in [Subs -> Refreshers]
      /\ \A s \in Subs : StartAll(cfg)[s] = IF cfg[s] = None THEN Off ELSE Started(cfg[s])
  BY <1>1, StartedType DEF StartAll
<1>3. ref \in [Epochs -> [Subs -> Refreshers]]
  BY <1>2, StartedType DEF Init
<1>4. /\ epoch = 0 /\ ref[0] = StartAll(cfg)
      /\ \A e \in Epochs \ {0}, s \in Subs : ref[e][s] = Off
  BY EpochNumbers DEF Init
<1>5. TypeOK
  <2>1. mod \in [Urls -> Times] /\ clock \in Times /\ epoch \in Epochs /\ faults \in 0 .. MaxFaults
    BY EpochNumbers, BoundsAssumption DEF Init
  <2>2. subs \in StoreType
    BY DEF Init, EmptyStore, StoreType
  <2> QED
    BY <1>1, <1>3, <2>1, <2>2 DEF Init, TypeOK
<1>6. HasUrl /\ NoneAhead /\ PresentMatch
  BY <1>1, <1>2, <1>4, StartedType, EpochNumbers DEF HasUrl, NoneAhead, PresentMatch
<1>7. ValidatorsMatchNodes
  BY DEF Init, EmptyStore, ValidatorsMatchNodes, NodesOf, MetaOf
<1> QED
  BY <1>5, <1>6, <1>7 DEF IndInv

LEMMA RefreshInvariant == IndInv /\ [Next]_vars => IndInv'
<1> SUFFICES ASSUME IndInv, [Next]_vars PROVE IndInv'
  OBVIOUS
<1>0. TypeOK /\ HasUrl /\ NoneAhead /\ PresentMatch /\ ValidatorsMatchNodes
  BY DEF IndInv
<1>1. CASE UNCHANGED vars
  <2>1. TypeOK'
    BY <1>0, <1>1 DEF vars, TypeOK
  <2>2. HasUrl' /\ NoneAhead' /\ PresentMatch'
    BY <1>0, <1>1 DEF vars, HasUrl, NoneAhead, PresentMatch
  <2>3. ValidatorsMatchNodes'
    BY <1>0, <1>1 DEF vars, ValidatorsMatchNodes, NodesOf, MetaOf
  <2> QED
    BY <2>1, <2>2, <2>3 DEF IndInv
<1>2. ASSUME NEW e \in Epochs, NEW s \in Subs, Step(e, s) \/ FetchFails(e, s)
      PROVE  IndInv'
  <2>1. PICK r \in Refreshers : /\ ref[e][s].pc # "off"
                                /\ ref' = [ref EXCEPT ![e][s] = r]
                                /\ r.url = ref[e][s].url /\ r.pc # "off"
                                /\ r.pc = "exited" => Cancelled(e)
    BY <1>0, <1>2, RefresherSteps
  <2>2. /\ UNCHANGED <<mod, clock, cfg, next, phase, epoch>>
        /\ faults' \in 0 .. MaxFaults
        /\ \/ subs' = subs
           \/ subs' = WithError(subs, s)
           \/ subs' = Touched(subs, s)
           \/ \E u \in Urls, t \in Times : subs' = WithNodes(subs, s, NodesAt(u, t), HeadersAt(u, t))
    BY <1>0, <1>2, RefresherSteps DEF upstream, reload
  <2>3. /\ ref' \in [Epochs -> [Subs -> Refreshers]]
        /\ \A d \in Epochs, t \in Subs : ref'[d][t] = IF d = e /\ t = s THEN r ELSE ref[d][t]
    BY <1>0, <2>1 DEF TypeOK
  <2>4. subs' \in StoreType
    BY <1>0, <2>2, RefresherStores
  <2>5. TypeOK'
    BY <1>0, <2>2, <2>3, <2>4 DEF TypeOK
  <2>6. HasUrl' /\ NoneAhead'
    BY <1>0, <2>1, <2>2, <2>3 DEF HasUrl, NoneAhead
  <2>7. PresentMatch'
    <3> SUFFICES ASSUME phase = "idle", NEW t \in Subs
                 PROVE  IF cfg[t] = None THEN ref'[epoch][t].pc = "off"
                        ELSE ref'[epoch][t].pc \notin {"off", "exited"} /\ ref'[epoch][t].url = cfg[t]
      BY <2>2 DEF PresentMatch
    <3>1. epoch \in Epochs /\ epoch \in Nat /\ ~Cancelled(epoch)
      BY <1>0, EpochNumbers DEF TypeOK, Cancelled
    <3> QED
      BY <1>0, <2>1, <2>3, <3>1 DEF PresentMatch
  <2>8. ValidatorsMatchNodes'
    <3> SUFFICES ASSUME NEW t \in Subs
                 PROVE  \/ NodesOf(subs', t) = <<>> /\ MetaOf(subs', t) = NoHeaders
                        \/ \E u \in Urls, n \in Times :
                             NodesOf(subs', t) = NodesAt(u, n) /\ MetaOf(subs', t) = HeadersAt(u, n)
      BY DEF ValidatorsMatchNodes
    <3>1. \/ NodesOf(subs', t) = NodesOf(subs, t) /\ MetaOf(subs', t) = MetaOf(subs, t)
          \/ \E u \in Urls, n \in Times :
               NodesOf(subs', t) = NodesAt(u, n) /\ MetaOf(subs', t) = HeadersAt(u, n)
      BY <1>0, <2>2, RefresherStores
    <3> QED
      BY <1>0, <3>1 DEF ValidatorsMatchNodes
  <2> QED
    BY <2>5, <2>6, <2>7, <2>8 DEF IndInv
<1>3. ASSUME UNCHANGED <<subs, ref, faults>>, TypeOK', NoneAhead', phase' # "idle" \/ UNCHANGED <<phase, cfg, epoch>>
      PROVE  IndInv'
  <2>1. HasUrl' /\ PresentMatch'
    BY <1>0, <1>3 DEF HasUrl, PresentMatch
  <2>2. ValidatorsMatchNodes'
    BY <1>0, <1>3 DEF ValidatorsMatchNodes, NodesOf, MetaOf
  <2> QED
    BY <1>3, <2>1, <2>2 DEF IndInv
<1>4. CASE CancelOld
  <2>1. epoch' = epoch + 1 /\ epoch' \in Epochs /\ epoch \in Nat /\ phase' = "swap" /\ next' \in Configs
        /\ UNCHANGED <<mod, clock, subs, cfg, ref, faults>>
    BY <1>0, <1>4, BoundsAssumption DEF CancelOld, TypeOK, Epochs, upstream
  <2>2. TypeOK'
    BY <1>0, <2>1 DEF TypeOK
  <2>3. NoneAhead'
    BY <1>0, <2>1, EpochNumbers DEF NoneAhead
  <2> QED
    BY <1>3, <2>1, <2>2, <2>3
<1>5. CASE SwapConfig
  <2>1. TypeOK' /\ NoneAhead' /\ phase' = "prune"
    BY <1>0, <1>5 DEF SwapConfig, TypeOK, NoneAhead, upstream
  <2> QED
    BY <1>3, <1>5, <2>1 DEF SwapConfig
<1>6. CASE PruneStore
  <2>1. FetchedSubs(cfg) \in SUBSET Subs
    BY DEF FetchedSubs
  <2>2. /\ subs' = Pruned(subs, FetchedSubs(cfg)) /\ phase' = "start"
        /\ UNCHANGED <<mod, clock, cfg, next, epoch, ref, faults>>
    BY <1>6 DEF PruneStore, upstream
  <2>3. /\ subs \in StoreType
        /\ \A t \in Subs :
             /\ subs' \in StoreType
             /\ NodesOf(subs', t) = IF t \in FetchedSubs(cfg) THEN NodesOf(subs, t) ELSE <<>>
             /\ MetaOf(subs', t) = IF t \in FetchedSubs(cfg) THEN MetaOf(subs, t) ELSE NoHeaders
    BY <1>0, <2>1, <2>2, StoreEffects DEF TypeOK
  <2>4. subs' \in StoreType
    BY <2>2, <2>3 DEF Pruned, StoreType
  <2>5. TypeOK'
    BY <1>0, <2>2, <2>4 DEF TypeOK
  <2>6. HasUrl' /\ NoneAhead' /\ PresentMatch'
    BY <1>0, <2>2 DEF HasUrl, NoneAhead, PresentMatch
  <2>7. ValidatorsMatchNodes'
    BY <1>0, <2>3 DEF ValidatorsMatchNodes
  <2> QED
    BY <2>5, <2>6, <2>7 DEF IndInv
<1>7. CASE StartNew
  <2>1. /\ ref' = [ref EXCEPT ![epoch] = StartAll(cfg)] /\ phase' = "idle"
        /\ UNCHANGED <<mod, clock, subs, cfg, next, epoch, faults>>
    BY <1>7 DEF StartNew, upstream
  <2>2. epoch \in Epochs /\ epoch \in Nat /\ cfg \in [Subs -> Urls \cup {None}]
    BY <1>0, EpochNumbers, ConfigsAssumption DEF TypeOK
  <2>3. /\ StartAll(cfg) \in [Subs -> Refreshers]
        /\ \A s \in Subs : StartAll(cfg)[s] = IF cfg[s] = None THEN Off ELSE Started(cfg[s])
    BY <2>2, StartedType DEF StartAll
  <2>4. /\ ref' \in [Epochs -> [Subs -> Refreshers]]
        /\ ref'[epoch] = StartAll(cfg)
        /\ \A e \in Epochs \ {epoch} : ref'[e] = ref[e]
    BY <1>0, <2>1, <2>2, <2>3 DEF TypeOK
  <2>5. TypeOK'
    BY <1>0, <2>1, <2>4 DEF TypeOK
  <2>6. HasUrl' /\ NoneAhead' /\ PresentMatch'
    BY <1>0, <2>1, <2>2, <2>3, <2>4, StartedType DEF HasUrl, NoneAhead, PresentMatch
  <2>7. ValidatorsMatchNodes'
    BY <1>0, <2>1 DEF ValidatorsMatchNodes, NodesOf, MetaOf
  <2> QED
    BY <2>5, <2>6, <2>7 DEF IndInv
<1>8. ASSUME NEW u \in Urls, Publish(u)
      PROVE  IndInv'
  <2>1. clock + 1 \in Times
    BY <1>0, <1>8, BoundsAssumption DEF Publish, TypeOK, Times
  <2>2. TypeOK' /\ NoneAhead' /\ UNCHANGED <<subs, ref, faults, phase, cfg, epoch>>
    BY <1>0, <1>8, <2>1 DEF Publish, TypeOK, NoneAhead, reload
  <2> QED
    BY <1>3, <2>2
<1> QED
  BY <1>1, <1>2, <1>4, <1>5, <1>6, <1>7, <1>8 DEF Next, Reload

LEMMA RefreshAlways == Spec => []IndInv
BY RefreshInit, RefreshInvariant, PTL DEF Spec

-----------------------------------------------------------------------------
(* Theorems *)

\* Types: in particular no refresher ever waits longer than the interval.
THEOREM RefreshTyped == Spec => []TypeOK
<1>1. IndInv => TypeOK
  BY DEF IndInv
<1> QED
  BY <1>1, RefreshAlways, PTL

\* Whenever the reload loop rests, each configured sub has exactly one
\* fetcher that is not cancelled, at the URL configured, and no other sub has.
THEOREM OneFetcher == Spec => []ExactlyOneFetcher
<1>1. IndInv => ExactlyOneFetcher
  <2> SUFFICES ASSUME IndInv, phase = "idle", NEW s \in Subs
               PROVE  LET live == { e \in Epochs : /\ ~Cancelled(e)
                                                   /\ ref[e][s].pc \notin {"off", "exited"} }
                      IN /\ { ref[e][s].url : e \in live } = { cfg[s] } \ {None}
                         /\ Cardinality(live) <= 1
    BY DEF ExactlyOneFetcher
  <2> DEFINE live == { e \in Epochs : ~Cancelled(e) /\ ref[e][s].pc \notin {"off", "exited"} }
  <2>1. \A e \in live : e = epoch
    BY EpochNumbers DEF IndInv, NoneAhead, Cancelled, TypeOK
  <2>2. epoch \in Epochs /\ ~Cancelled(epoch)
    BY EpochNumbers DEF IndInv, TypeOK, Cancelled
  <2>3. CASE cfg[s] = None
    <3>1. live = {}
      BY <2>1, <2>3 DEF IndInv, PresentMatch
    <3> QED
      BY <2>3, <3>1, FS_EmptySet
  <2>4. CASE cfg[s] # None
    <3>1. live = {epoch} /\ ref[epoch][s].url = cfg[s]
      BY <2>1, <2>2, <2>4 DEF IndInv, PresentMatch
    <3>2. Cardinality(live) = 1
      BY <3>1, FS_Singleton
    <3> QED
      BY <2>4, <3>1, <3>2
  <2> QED
    BY <2>3, <2>4
<1> QED
  BY <1>1, RefreshAlways, PTL

\* The validators kept for a sub are those of the document its nodes come
\* from, also when it has none, whatever stragglers write.
THEOREM ValidatorsAreTrue == Spec => []ValidatorsMatchNodes
<1>1. IndInv => ValidatorsMatchNodes
  BY DEF IndInv
<1> QED
  BY <1>1, RefreshAlways, PTL

\* The nodes of a sub go only when a reload drops the sub, or when one of
\* its refreshers stores a document without a usable node.
THEOREM NodesAreKept == Spec => NodesKeptUntilPruned
<1> DEFINE Kept ==
             \A s \in Subs :
               NodesOf(subs, s) # <<>> /\ NodesOf(subs', s) = <<>>
                 => \/ phase = "prune" /\ cfg[s] = None
                    \/ \E e \in Epochs :
                         /\ At(e, s, "store") /\ ~At(e, s, "store")'
                         /\ <<ref[e][s].url, ref[e][s].got>> \in Barren
<1>1. IndInv /\ [Next]_vars => [Kept]_vars
  <2> SUFFICES ASSUME IndInv, Next, NEW s \in Subs,
                      NodesOf(subs, s) # <<>>, NodesOf(subs', s) = <<>>
               PROVE  \/ phase = "prune" /\ cfg[s] = None
                      \/ \E e \in Epochs :
                           /\ At(e, s, "store") /\ ~At(e, s, "store")'
                           /\ <<ref[e][s].url, ref[e][s].got>> \in Barren
    OBVIOUS
  <2>1. subs' # subs
    OBVIOUS
  <2>2. ASSUME NEW e \in Epochs, NEW t \in Subs, Step(e, t) \/ FetchFails(e, t)
        PROVE  \E d \in Epochs : /\ At(d, s, "store") /\ ~At(d, s, "store")'
                                 /\ <<ref[d][s].url, ref[d][s].got>> \in Barren
    <3>1. \/ subs' = subs
          \/ subs' = WithError(subs, t)
          \/ subs' = Touched(subs, t)
          \/ \E u \in Urls, n \in Times :
               /\ subs' = WithNodes(subs, t, NodesAt(u, n), HeadersAt(u, n))
               /\ At(e, t, "store") /\ ~At(e, t, "store")'
               /\ ref[e][t].url = u /\ ref[e][t].got = n
      BY <2>2, RefresherSteps DEF IndInv
    <3>2. subs \in StoreType
      BY DEF IndInv, TypeOK
    <3>3. subs' # WithError(subs, t) /\ subs' # Touched(subs, t)
      BY <3>2, StoreEffects
    <3>4. PICK u \in Urls, n \in Times :
            /\ subs' = WithNodes(subs, t, NodesAt(u, n), HeadersAt(u, n))
            /\ At(e, t, "store") /\ ~At(e, t, "store")'
            /\ ref[e][t].url = u /\ ref[e][t].got = n
      BY <2>1, <3>1, <3>3
    <3>5. NodesAt(u, n) \in Contents /\ HeadersAt(u, n) \in Metas
      BY DEF Contents, Metas
    <3>6. NodesOf(subs', s) = IF s = t THEN NodesAt(u, n) ELSE NodesOf(subs, s)
      <4> HIDE DEF Contents, Metas
      <4> QED
        BY <3>2, <3>4, <3>5, StoreEffects
    <3>7. s = t /\ NodesAt(u, n) = <<>>
      BY <3>6
    <3>8. <<u, n>> \in Barren
      BY <3>7 DEF NodesAt
    <3> QED
      BY <3>4, <3>7, <3>8
  <2>3. CASE PruneStore
    <3>1. FetchedSubs(cfg) \in SUBSET Subs
      BY DEF FetchedSubs
    <3>2. NodesOf(subs', s) = IF s \in FetchedSubs(cfg) THEN NodesOf(subs, s) ELSE <<>>
      BY <2>3, <3>1, StoreEffects DEF PruneStore, IndInv, TypeOK
    <3> QED
      BY <2>3, <3>2 DEF PruneStore, FetchedSubs
  <2>4. CASE CancelOld \/ SwapConfig \/ StartNew \/ \E u \in Urls : Publish(u)
    BY <2>1, <2>4 DEF CancelOld, SwapConfig, StartNew, Publish
  <2> QED
    BY <2>2, <2>3, <2>4 DEF Next, Reload
<1> QED
  BY <1>1, RefreshAlways, PTL DEF NodesKeptUntilPruned, Spec
=============================================================================
