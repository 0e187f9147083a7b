---------------------------- MODULE Server_proof ----------------------------
(***************************************************************************)
(* Requests are answered by one configuration, with a quota no older than *)
(* the body, and with every sub that was kept: for any subs, keys and     *)
(* configurations, and any number of fetches and reloads.                  *)
(*                                                                         *)
(* The properties speak of answers.  The invariants below say what the    *)
(* handler's locals mean at each of its steps, and what relates the store *)
(* to the history kept of the request.                                     *)
(***************************************************************************)
EXTENDS Server, FiniteSetTheorems, WellFoundedInduction, TLAPS

\* The handler's configuration was in force since the request arrived, and
\* its locals are what that configuration makes of the request.
FollowsConfig ==
  /\ req.pc = "idle" => req = NoRequest
  /\ req.pc # "idle" => req.cfg \in during /\ req.cfg \in Configs
  /\ req.pc \in {"render", "headers", "served"} =>
       req.key \in Keys /\ req.cfg.resolved[req.key] # None
  /\ req.pc \in {"headers", "served"} => DOMAIN req.body = Resolved(req)
  /\ req.pc = "served" => req.hours = UpdateIntervalHours(req.cfg, Resolved(req))
  /\ req.pc = "notFound" => req.cfg.resolved[req.key] = None
  /\ req.pc = "reported" => DOMAIN req.body = Configured(req.cfg)

\* The parts of TypeOK the proofs need.
Typed ==
  /\ cfg \in Configs
  /\ subs \in StoreType
  /\ fetches \in Fetches
  /\ before \in [Subs -> Lists]
  /\ req = [pc |-> req.pc, key |-> req.key, cfg |-> req.cfg,
            body |-> req.body, quota |-> req.quota, hours |-> req.hours]

\* A sub that is in every configuration since the request arrived is in the
\* present one, and still has nodes if it had some.
KeepsSubs ==
  req.pc # "idle" =>
    \A s \in Configured(req.cfg) \ dropped :
      /\ s \in Configured(cfg)
      /\ before[s] # <<>> /\ s \notin emptied => NodesOf(subs, s) # <<>>

\* So had the body when it was made.
BodyKeepsSubs ==
  req.pc \in {"headers", "served", "reported"} =>
    \A s \in DOMAIN req.body :
      before[s] # <<>> /\ s \notin dropped \cup emptied => req.body[s] \notin {<<>>, None}

\* Quotas are stored with the nodes they came with, or after them.
QuotaInStore ==
  \A s \in Subs : NodesOf(subs, s) # <<>> /\ MetaOf(subs, s) # 0 =>
                    MetaOf(subs, s) >= NodesOf(subs, s)[1]

\* A quota in the store is not older than the body made from it before.
QuotaSinceBody ==
  req.pc = "headers" =>
    \A s \in DOMAIN req.body : req.body[s] # <<>> =>
      /\ req.body[s][1] \in 0 .. fetches
      /\ MetaOf(subs, s) # 0 => MetaOf(subs, s) >= req.body[s][1]

\* Nodes in the store come from fetches that happened.
NodesInStore == \A s \in Subs : NodesOf(subs, s) # <<>> => NodesOf(subs, s)[1] \in 0 .. fetches

-----------------------------------------------------------------------------
(* The store's operations *)

\* What is looked up in a store of its type is of its type.
LEMMA LookupType ==
  ASSUME NEW m \in StoreType, NEW s \in Subs
  PROVE  NodesOf(m, s) \in Lists /\ MetaOf(m, s) \in Fetches /\ NodesOf(m, s) # None
<1>1. <<>> \in Lists /\ 0 \in Fetches
  BY BoundsAssumption DEF Lists, Fetches
<1> QED
  BY <1>1, AbsenceAssumption DEF NodesOf, MetaOf, StoreType, SubState

\* A list that is not empty has one node, which is a number of a fetch.
LEMMA ListType ==
  ASSUME NEW nodes \in Lists, nodes # <<>>
  PROVE  nodes[1] \in Fetches
BY DEF Lists

\* The effect of each operation on what lookups give.
LEMMA StoreEffects ==
  ASSUME NEW m \in StoreType, NEW s \in Subs, NEW t \in Subs
  PROVE  /\ \A nodes \in Lists, meta \in Fetches :
              /\ WithNodes(m, s, nodes, meta) \in StoreType
              /\ NodesOf(WithNodes(m, s, nodes, meta), t) = IF t = s THEN nodes ELSE NodesOf(m, t)
              /\ MetaOf(WithNodes(m, s, nodes, meta), t) = IF t = s THEN meta ELSE MetaOf(m, t)
         /\ WithError(m, s) \in StoreType
         /\ NodesOf(WithError(m, s), t) = NodesOf(m, t)
         /\ MetaOf(WithError(m, s), t) = MetaOf(m, t)
         /\ Touched(m, s) \in StoreType
         /\ NodesOf(Touched(m, s), t) = NodesOf(m, t)
         /\ MetaOf(Touched(m, s), t) = MetaOf(m, t)
         /\ \A keep \in SUBSET Subs :
              /\ Pruned(m, keep) \in StoreType
              /\ NodesOf(Pruned(m, keep), t) = IF t \in keep THEN NodesOf(m, t) ELSE <<>>
              /\ MetaOf(Pruned(m, keep), t) = IF t \in keep THEN MetaOf(m, t) ELSE 0
<1>1. ASSUME NEW nodes \in Lists, NEW meta \in Fetches, NEW err \in BOOLEAN
      PROVE  /\ [nodes |-> nodes, err |-> err, meta |-> meta] \in SubState
             /\ [nodes |-> nodes, err |-> err, meta |-> meta] # None
  BY AbsenceAssumption DEF SubState
<1>2. ASSUME NEW nodes \in Lists, NEW meta \in Fetches
      PROVE  /\ WithNodes(m, s, nodes, meta) \in StoreType
             /\ NodesOf(WithNodes(m, s, nodes, meta), t) = IF t = s THEN nodes ELSE NodesOf(m, t)
             /\ MetaOf(WithNodes(m, s, nodes, meta), t) = IF t = s THEN meta ELSE MetaOf(m, t)
  <2> DEFINE e == [nodes |-> nodes, err |-> FALSE, meta |-> meta]
  <2>1. e \in SubState /\ e # None /\ e.nodes = nodes /\ e.meta = meta
    BY <1>1
  <2>2. WithNodes(m, s, nodes, meta) = [m EXCEPT ![s] = e]
    BY DEF WithNodes
  <2> HIDE DEF e
  <2>3. WithNodes(m, s, nodes, meta) \in StoreType /\ WithNodes(m, s, nodes, meta)[t] = IF t = s THEN e ELSE m[t]
    BY <2>1, <2>2 DEF StoreType
  <2> QED
    BY <2>1, <2>3 DEF NodesOf, MetaOf
<1>3. /\ WithError(m, s) \in StoreType
      /\ NodesOf(WithError(m, s), t) = NodesOf(m, t)
      /\ MetaOf(WithError(m, s), t) = MetaOf(m, t)
  <2> DEFINE e == [nodes |-> NodesOf(m, s), err |-> TRUE, meta |-> MetaOf(m, s)]
  <2>1. e \in SubState /\ e # None /\ e.nodes = NodesOf(m, s) /\ e.meta = MetaOf(m, s)
    BY <1>1, LookupType
  <2>2. WithError(m, s) = [m EXCEPT ![s] = e]
    BY DEF WithError
  <2> HIDE DEF e
  <2>3. WithError(m, s) \in StoreType /\ WithError(m, s)[t] = IF t = s THEN e ELSE m[t]
    BY <2>1, <2>2 DEF StoreType
  <2> QED
    BY <2>1, <2>3 DEF NodesOf, MetaOf
<1>4. /\ Touched(m, s) \in StoreType
      /\ NodesOf(Touched(m, s), t) = NodesOf(m, t)
      /\ MetaOf(Touched(m, s), t) = MetaOf(m, t)
  <2>1. CASE m[s] = None
    BY <2>1 DEF Touched
  <2>2. CASE m[s] # None
    <3> DEFINE e == [m[s] EXCEPT !.err = FALSE]
    <3>1. m[s] \in SubState
      BY <2>2 DEF StoreType
    <3>2. e \in SubState /\ e # None /\ e.nodes = m[s].nodes /\ e.meta = m[s].meta
      BY <3>1, AbsenceAssumption DEF SubState
    <3>3. Touched(m, s) = [m EXCEPT ![s] = e]
      BY <2>2 DEF Touched
    <3> HIDE DEF e
    <3>4. Touched(m, s) \in StoreType /\ Touched(m, s)[t] = IF t = s THEN e ELSE m[t]
      BY <3>2, <3>3 DEF StoreType
    <3> QED
      BY <2>2, <3>2, <3>4 DEF NodesOf, MetaOf
  <2> QED
    BY <2>1, <2>2
<1>5. ASSUME NEW keep \in SUBSET Subs
      PROVE  /\ Pruned(m, keep) \in StoreType
             /\ NodesOf(Pruned(m, keep), t) = IF t \in keep THEN NodesOf(m, t) ELSE <<>>
             /\ MetaOf(Pruned(m, keep), t) = IF t \in keep THEN MetaOf(m, t) ELSE 0
  BY DEF Pruned, StoreType, NodesOf, MetaOf
<1> QED
  BY <1>2, <1>3, <1>4, <1>5

\* The configuration a key is looked up in grants it its own subs, at least
\* one.
LEMMA ResolvedSubs ==
  ASSUME NEW c \in Configs, NEW k \in Keys, c.resolved[k] # None
  PROVE  c.resolved[k] \subseteq Configured(c) /\ c.resolved[k] # {}
BY ConfigsAssumption DEF Configured

-----------------------------------------------------------------------------
(* Invariance *)

IndInv == Typed /\ FollowsConfig /\ KeepsSubs /\ BodyKeepsSubs
          /\ QuotaInStore /\ QuotaSinceBody /\ NodesInStore /\ QuotaNotOlderThanBody

\* What refreshers, the reload loop and the handler leave alone, and what the
\* handler's steps assign.
LEMMA Writes ==
  ASSUME Typed, NEW s \in Subs, NEW n \in {<<>>, <<fetches + 1>>}, NEW q \in {0, fetches + 1},
         StoreBody(s, n, q) \/ SetError(s) \/ Touch(s)
  PROVE  /\ UNCHANGED <<reload, req, during, before, dropped>>
         /\ subs' \in StoreType
         /\ fetches' \in Fetches
         /\ \/ /\ fetches' = fetches + 1
               /\ \A t \in Subs : /\ NodesOf(subs', t) = IF t = s THEN n ELSE NodesOf(subs, t)
                                 /\ MetaOf(subs', t) = IF t = s THEN q ELSE MetaOf(subs, t)
               /\ emptied' = IF n = <<>> /\ req # NoRequest THEN emptied \cup {s} ELSE emptied
            \/ /\ UNCHANGED <<fetches, emptied>>
               /\ \A t \in Subs : /\ NodesOf(subs', t) = NodesOf(subs, t)
                                 /\ MetaOf(subs', t) = MetaOf(subs, t)
<1>1. CASE StoreBody(s, n, q)
  <2>1. fetches + 1 \in Fetches /\ 0 \in Fetches
    BY <1>1, BoundsAssumption DEF StoreBody, Typed, Fetches
  <2>2. n \in Lists /\ q \in Fetches
    BY <2>1 DEF Lists
  <2> QED
    BY <1>1, <2>1, <2>2, StoreEffects DEF StoreBody, Typed, reload
<1>2. CASE SetError(s)
  BY <1>2, StoreEffects DEF SetError, Typed, reload, history
<1>3. CASE Touch(s)
  BY <1>3, StoreEffects DEF Touch, Typed, reload, history
<1> QED
  BY <1>1, <1>2, <1>3

LEMMA Arrival ==
  ASSUME NEW pc, NEW k, Arrive(pc, k)
  PROVE  /\ req.pc = "idle"
         /\ req'.pc = pc /\ req'.key = k /\ req'.cfg = cfg /\ req'.body = <<>>
         /\ req' = [pc |-> req'.pc, key |-> req'.key, cfg |-> req'.cfg,
                    body |-> req'.body, quota |-> req'.quota, hours |-> req'.hours]
         /\ during' = {cfg} /\ before' = NodeLists(subs) /\ dropped' = {} /\ emptied' = {}
         /\ UNCHANGED <<cfg, subs, fetches>>
BY DEF Arrive, NoRequest, reload, storage

LEMMA Rendering ==
  ASSUME Typed, RenderBody
  PROVE  /\ req.pc = "render"
         /\ req'.pc = "headers" /\ req'.key = req.key /\ req'.cfg = req.cfg
         /\ req'.body = [s \in Resolved(req) |-> NodesOf(subs, s)]
         /\ req' = [pc |-> req'.pc, key |-> req'.key, cfg |-> req'.cfg,
                    body |-> req'.body, quota |-> req'.quota, hours |-> req'.hours]
         /\ UNCHANGED <<cfg, subs, fetches, history>>
BY DEF RenderBody, Typed, reload, storage

LEMMA Answering ==
  ASSUME Typed, SetHeaders
  PROVE  /\ req.pc = "headers"
         /\ req'.pc = "served" /\ req'.key = req.key /\ req'.cfg = req.cfg
         /\ req'.body = req.body
         /\ req'.hours = UpdateIntervalHours(req.cfg, Resolved(req))
         /\ req'.quota = IF Cardinality(Resolved(req)) = 1
                         THEN MetaOf(subs, CHOOSE s \in Resolved(req) : TRUE)
                         ELSE 0
         /\ req' = [pc |-> req'.pc, key |-> req'.key, cfg |-> req'.cfg,
                    body |-> req'.body, quota |-> req'.quota, hours |-> req'.hours]
         /\ UNCHANGED <<cfg, subs, fetches, history>>
<1> DEFINE hours == UpdateIntervalHours(req.cfg, Resolved(req))
           quota == IF Cardinality(Resolved(req)) = 1
                    THEN MetaOf(subs, CHOOSE s \in Resolved(req) : TRUE)
                    ELSE 0
<1>1. /\ req.pc = "headers"
      /\ req' = [req EXCEPT !.pc = "served", !.hours = hours, !.quota = quota]
      /\ UNCHANGED <<cfg, subs, fetches, history>>
  BY DEF SetHeaders, reload, storage
<1> HIDE DEF hours, quota
<1>2. /\ req'.pc = "served" /\ req'.key = req.key /\ req'.cfg = req.cfg
      /\ req'.body = req.body /\ req'.hours = hours /\ req'.quota = quota
      /\ req' = [pc |-> req'.pc, key |-> req'.key, cfg |-> req'.cfg,
                 body |-> req'.body, quota |-> req'.quota, hours |-> req'.hours]
  BY <1>1 DEF Typed
<1> QED
  BY <1>1, <1>2 DEF hours, quota

LEMMA Reporting ==
  ASSUME Typed, ReadStatuses
  PROVE  /\ req.pc = "statuses"
         /\ req'.pc = "reported" /\ req'.key = req.key /\ req'.cfg = req.cfg
         /\ req'.body = [s \in Configured(req.cfg) |->
                           IF subs[s] = None THEN None ELSE NodesOf(subs, s)]
         /\ req' = [pc |-> req'.pc, key |-> req'.key, cfg |-> req'.cfg,
                    body |-> req'.body, quota |-> req'.quota, hours |-> req'.hours]
         /\ UNCHANGED <<cfg, subs, fetches, history>>
BY DEF ReadStatuses, Typed, reload, storage

LEMMA Ending ==
  ASSUME Finish
  PROVE  /\ req' = NoRequest /\ req'.pc = "idle"
         /\ before' = EmptyLists
         /\ UNCHANGED <<cfg, subs, fetches>>
BY DEF Finish, NoRequest, reload, storage

LEMMA InitInv == Init => IndInv
<1> SUFFICES ASSUME Init PROVE IndInv
  OBVIOUS
<1>1. <<>> \in Lists /\ 0 \in Fetches
  BY BoundsAssumption DEF Lists, Fetches
<1>2. \A s \in Subs : NodesOf(subs, s) = <<>> /\ MetaOf(subs, s) = 0
  BY DEF Init, EmptyStore, NodesOf, MetaOf
<1>3. Typed
  BY <1>1 DEF Init, Typed, EmptyStore, EmptyLists, StoreType, NoRequest
<1>4. req.pc = "idle" /\ req = NoRequest
  BY DEF Init, NoRequest
<1> QED
  BY <1>2, <1>3, <1>4 DEF IndInv, FollowsConfig, KeepsSubs, BodyKeepsSubs, QuotaInStore,
     QuotaSinceBody, NodesInStore, QuotaNotOlderThanBody

LEMMA ServerTyped == IndInv /\ [Next]_vars => Typed'
<1> SUFFICES ASSUME IndInv, [Next]_vars PROVE Typed'
  OBVIOUS
<1> USE DEF Typed
<1>0. Typed
  BY DEF IndInv
<1>1. CASE UNCHANGED vars
  BY <1>0, <1>1 DEF vars
<1>2. ASSUME NEW s \in Subs, NEW n \in {<<>>, <<fetches + 1>>}, NEW q \in {0, fetches + 1},
             StoreBody(s, n, q) \/ SetError(s) \/ Touch(s)
      PROVE  Typed'
  BY <1>0, <1>2, Writes DEF reload
<1>3. ASSUME NEW c \in Configs, SwapConfig(c)
      PROVE  Typed'
  BY <1>0, <1>3 DEF SwapConfig, storage
<1>4. CASE PruneAndStart
  <2>1. Configured(cfg) \in SUBSET Subs
    BY DEF Configured
  <2>2. Pruned(subs, Configured(cfg)) \in StoreType
    BY <1>0, <2>1 DEF Pruned, StoreType
  <2> QED
    BY <1>0, <1>4, <2>2 DEF PruneAndStart, history
<1>5. ASSUME NEW pc, NEW k, Arrive(pc, k)
      PROVE  Typed'
  <2>1. NodeLists(subs) \in [Subs -> Lists]
    BY <1>0, LookupType DEF NodeLists
  <2> QED
    BY <1>0, <1>5, <2>1, Arrival
<1>6. CASE RenderBody
  BY <1>0, <1>6, Rendering DEF history
<1>7. CASE SetHeaders
  BY <1>0, <1>7, Answering DEF history
<1>8. CASE ReadStatuses
  BY <1>0, <1>8, Reporting DEF history
<1>9. CASE Finish
  <2>1. EmptyLists \in [Subs -> Lists]
    BY DEF EmptyLists, Lists
  <2> QED
    BY <1>0, <1>9, <2>1, Ending DEF NoRequest
<1> QED
  BY <1>1, <1>2, <1>3, <1>4, <1>5, <1>6, <1>7, <1>8, <1>9 DEF Next, FindKey, LoadConfig

\* What is said of the store holds as long as the store stays.
LEMMA StoreKept ==
  ASSUME QuotaInStore, NodesInStore, UNCHANGED <<subs, fetches>>
  PROVE  QuotaInStore' /\ NodesInStore'
<1>1. QuotaInStore'
  BY DEF QuotaInStore, NodesOf, MetaOf
<1>2. NodesInStore'
  BY DEF NodesInStore, NodesOf
<1> QED
  BY <1>1, <1>2

\* Each step keeps the rest of the invariant.
LEMMA ServerInvariant == IndInv /\ [Next]_vars => IndInv'
<1> SUFFICES ASSUME IndInv, [Next]_vars PROVE IndInv'
  OBVIOUS
<1> DEFINE Rest == FollowsConfig /\ KeepsSubs /\ BodyKeepsSubs
                   /\ QuotaInStore /\ QuotaSinceBody /\ NodesInStore /\ QuotaNotOlderThanBody
<1>0. Typed /\ Typed' /\ Rest
  BY ServerTyped DEF IndInv
<1> SUFFICES Rest'
  BY <1>0 DEF IndInv
<1>00. fetches \in Nat
  BY <1>0, BoundsAssumption DEF Typed, Fetches
<1>1. CASE UNCHANGED vars
  <2>1. FollowsConfig'
    BY <1>0, <1>1 DEF vars, FollowsConfig, Resolved
  <2>2. KeepsSubs' /\ BodyKeepsSubs'
    BY <1>0, <1>1 DEF vars, KeepsSubs, BodyKeepsSubs, NodesOf
  <2>3. QuotaSinceBody' /\ QuotaNotOlderThanBody'
    BY <1>0, <1>1 DEF vars, QuotaSinceBody, QuotaNotOlderThanBody, MetaOf
  <2>4. QuotaInStore' /\ NodesInStore'
    BY <1>0, <1>1, StoreKept DEF vars
  <2> QED
    BY <2>1, <2>2, <2>3, <2>4
<1>2. ASSUME NEW s \in Subs, NEW n \in {<<>>, <<fetches + 1>>}, NEW q \in {0, fetches + 1},
             StoreBody(s, n, q) \/ SetError(s) \/ Touch(s)
      PROVE  Rest'
  <2>1. /\ UNCHANGED <<cfg, req, during, before, dropped>>
        /\ \/ /\ fetches' = fetches + 1
              /\ \A t \in Subs : /\ NodesOf(subs', t) = IF t = s THEN n ELSE NodesOf(subs, t)
                                /\ MetaOf(subs', t) = IF t = s THEN q ELSE MetaOf(subs, t)
              /\ emptied' = IF n = <<>> /\ req # NoRequest THEN emptied \cup {s} ELSE emptied
           \/ /\ UNCHANGED <<fetches, emptied>>
              /\ \A t \in Subs : /\ NodesOf(subs', t) = NodesOf(subs, t)
                                /\ MetaOf(subs', t) = MetaOf(subs, t)
    BY <1>0, <1>2, Writes DEF reload
  <2>2. FollowsConfig'
    BY <1>0, <2>1 DEF FollowsConfig, Resolved
  <2>3. KeepsSubs'
    BY <1>0, <2>1 DEF KeepsSubs, Configured, NoRequest
  <2>4. BodyKeepsSubs'
    BY <1>0, <2>1 DEF BodyKeepsSubs
  <2>5. \A t \in Subs : MetaOf(subs, t) \in Nat /\ (NodesOf(subs, t) # <<>> => NodesOf(subs, t)[1] \in Nat)
    BY <1>0, LookupType, ListType DEF Typed, Fetches
  <2>6. QuotaInStore' /\ NodesInStore'
    BY <1>0, <1>00, <1>2, <2>1, <2>5 DEF QuotaInStore, NodesInStore
  <2>7. QuotaSinceBody'
    <3> SUFFICES ASSUME req'.pc = "headers", NEW t \in DOMAIN req'.body, req'.body[t] # <<>>
                 PROVE  /\ req'.body[t][1] \in 0 .. fetches'
                        /\ MetaOf(subs', t) # 0 => MetaOf(subs', t) >= req'.body[t][1]
      BY DEF QuotaSinceBody
    <3>1. t \in Subs
      BY <1>0, <2>1, ResolvedSubs DEF FollowsConfig, Resolved, Configured
    <3> QED
      BY <1>0, <1>00, <2>1, <2>5, <3>1 DEF QuotaSinceBody
  <2>8. QuotaNotOlderThanBody'
    BY <1>0, <2>1 DEF QuotaNotOlderThanBody
  <2> QED
    BY <2>2, <2>3, <2>4, <2>6, <2>7, <2>8
<1>3. ASSUME NEW c \in Configs, SwapConfig(c)
      PROVE  Rest'
  <2>1. /\ cfg' = c /\ UNCHANGED <<subs, fetches, req, before, emptied>>
        /\ req # NoRequest => during' = during \cup {c} /\ dropped' = dropped \cup (Subs \ Configured(c))
        /\ req = NoRequest => UNCHANGED <<during, dropped>>
    BY <1>3 DEF SwapConfig, storage
  <2>2. req.pc # "idle" => req # NoRequest
    BY DEF NoRequest
  <2>3. FollowsConfig'
    BY <1>0, <2>1, <2>2 DEF FollowsConfig, Resolved
  <2>4. KeepsSubs'
    BY <1>0, <2>1, <2>2 DEF KeepsSubs, Configured
  <2>5. BodyKeepsSubs'
    BY <1>0, <2>1, <2>2 DEF BodyKeepsSubs
  <2>6. QuotaSinceBody' /\ QuotaNotOlderThanBody'
    BY <1>0, <2>1 DEF QuotaSinceBody, QuotaNotOlderThanBody, MetaOf
  <2> QED
    BY <1>0, <2>1, <2>3, <2>4, <2>5, <2>6, StoreKept
<1>4. CASE PruneAndStart
  <2>1. /\ UNCHANGED <<cfg, fetches, req, during, before, dropped, emptied>>
        /\ \A t \in Subs :
             /\ NodesOf(subs', t) = IF t \in Configured(cfg) THEN NodesOf(subs, t) ELSE <<>>
             /\ MetaOf(subs', t) = IF t \in Configured(cfg) THEN MetaOf(subs, t) ELSE 0
    BY <1>0, <1>4, StoreEffects DEF PruneAndStart, history, Typed, Configured
  <2>2. FollowsConfig'
    BY <1>0, <2>1 DEF FollowsConfig, Resolved
  <2>3. KeepsSubs'
    BY <1>0, <2>1 DEF KeepsSubs, Configured
  <2>4. BodyKeepsSubs'
    BY <1>0, <2>1 DEF BodyKeepsSubs
  <2>5. QuotaInStore' /\ NodesInStore'
    BY <1>0, <2>1 DEF QuotaInStore, NodesInStore
  <2>6. QuotaSinceBody'
    <3> SUFFICES ASSUME req'.pc = "headers", NEW t \in DOMAIN req'.body, req'.body[t] # <<>>
                 PROVE  /\ req'.body[t][1] \in 0 .. fetches'
                        /\ MetaOf(subs', t) # 0 => MetaOf(subs', t) >= req'.body[t][1]
      BY DEF QuotaSinceBody
    <3>1. t \in Subs
      BY <1>0, <2>1, ResolvedSubs DEF FollowsConfig, Resolved, Configured
    <3> QED
      BY <1>0, <2>1, <3>1 DEF QuotaSinceBody
  <2>7. QuotaNotOlderThanBody'
    BY <1>0, <2>1 DEF QuotaNotOlderThanBody
  <2> QED
    BY <2>2, <2>3, <2>4, <2>5, <2>6, <2>7
<1>5. ASSUME NEW pc \in {"render", "notFound", "statuses"}, NEW k,
             /\ pc = "render" => k \in Keys /\ cfg.resolved[k] # None
             /\ pc = "notFound" => cfg.resolved[k] = None,
             Arrive(pc, k)
      PROVE  Rest'
  <2>1. /\ req'.pc = pc /\ req'.key = k /\ req'.cfg = cfg /\ during' = {cfg}
        /\ before' = NodeLists(subs)
        /\ UNCHANGED <<cfg, subs, fetches>>
    BY <1>5, Arrival
  <2>2. FollowsConfig'
    BY <1>0, <1>5, <2>1 DEF FollowsConfig, Typed
  <2>3. KeepsSubs'
    BY <2>1 DEF KeepsSubs, Configured, NodeLists, NodesOf
  <2>4. BodyKeepsSubs' /\ QuotaSinceBody' /\ QuotaNotOlderThanBody'
    BY <1>5, <2>1 DEF BodyKeepsSubs, QuotaSinceBody, QuotaNotOlderThanBody
  <2> QED
    BY <1>0, <2>1, <2>2, <2>3, <2>4, StoreKept
<1>6. CASE RenderBody
  <2>1. /\ req.pc = "render"
        /\ req'.pc = "headers" /\ req'.key = req.key /\ req'.cfg = req.cfg
        /\ req'.body = [s \in Resolved(req) |-> NodesOf(subs, s)]
        /\ UNCHANGED <<cfg, subs, fetches, during, before, dropped, emptied>>
    BY <1>0, <1>6, Rendering DEF history
  <2>2. Resolved(req) \subseteq Configured(req.cfg) /\ Configured(req.cfg) \subseteq Subs
    BY <1>0, <2>1, ResolvedSubs DEF FollowsConfig, Resolved, Configured
  <2>3. FollowsConfig'
    BY <1>0, <2>1 DEF FollowsConfig, Resolved
  <2>4. KeepsSubs'
    BY <1>0, <2>1 DEF KeepsSubs, NodesOf
  <2>5. BodyKeepsSubs'
    BY <1>0, <2>1, <2>2, LookupType DEF BodyKeepsSubs, KeepsSubs, Typed
  <2>6. QuotaSinceBody'
    BY <1>0, <2>1, <2>2 DEF QuotaSinceBody, QuotaInStore, NodesInStore, MetaOf
  <2>7. QuotaNotOlderThanBody'
    BY <2>1 DEF QuotaNotOlderThanBody
  <2> QED
    BY <1>0, <2>1, <2>3, <2>4, <2>5, <2>6, <2>7, StoreKept
<1>7. CASE SetHeaders
  <2>1. /\ req.pc = "headers"
        /\ req'.pc = "served" /\ req'.key = req.key /\ req'.cfg = req.cfg
        /\ req'.body = req.body
        /\ req'.hours = UpdateIntervalHours(req.cfg, Resolved(req))
        /\ req'.quota = IF Cardinality(Resolved(req)) = 1
                        THEN MetaOf(subs, CHOOSE s \in Resolved(req) : TRUE)
                        ELSE 0
        /\ UNCHANGED <<cfg, subs, fetches, during, before, dropped, emptied>>
    BY <1>0, <1>7, Answering DEF history
  <2>2. FollowsConfig'
    BY <1>0, <2>1 DEF FollowsConfig, Resolved
  <2>3. KeepsSubs'
    BY <1>0, <2>1 DEF KeepsSubs, NodesOf
  <2>4. BodyKeepsSubs'
    BY <1>0, <2>1 DEF BodyKeepsSubs
  <2>5. QuotaNotOlderThanBody'
    <3> SUFFICES ASSUME req'.quota # 0, NEW s \in DOMAIN req'.body, req'.body[s] # <<>>
                 PROVE  req'.quota >= req'.body[s][1]
      BY DEF QuotaNotOlderThanBody
    <3>1. Cardinality(Resolved(req)) = 1 /\ req'.quota = MetaOf(subs, CHOOSE t \in Resolved(req) : TRUE)
      BY <2>1
    <3>2. Resolved(req) \in SUBSET Subs /\ s \in Resolved(req)
      BY <1>0, <2>1, ResolvedSubs DEF FollowsConfig, Resolved, Configured
    <3>3. IsFiniteSet(Resolved(req))
      BY <3>2, SubsAssumption, FS_Subset
    <3>4. (CHOOSE t \in Resolved(req) : TRUE) = s
      BY <3>1, <3>2, <3>3, FS_Singleton
    <3> QED
      BY <1>0, <2>1, <3>1, <3>4 DEF QuotaSinceBody
  <2>6. QuotaSinceBody'
    BY <2>1 DEF QuotaSinceBody
  <2> QED
    BY <1>0, <2>1, <2>2, <2>3, <2>4, <2>5, <2>6, StoreKept
<1>8. CASE ReadStatuses
  <2>1. /\ req.pc = "statuses"
        /\ req'.pc = "reported" /\ req'.key = req.key /\ req'.cfg = req.cfg
        /\ req'.body = [s \in Configured(req.cfg) |->
                          IF subs[s] = None THEN None ELSE NodesOf(subs, s)]
        /\ UNCHANGED <<cfg, subs, fetches, during, before, dropped, emptied>>
    BY <1>0, <1>8, Reporting DEF history
  <2>2. FollowsConfig'
    BY <1>0, <2>1 DEF FollowsConfig
  <2>3. KeepsSubs'
    BY <1>0, <2>1 DEF KeepsSubs, NodesOf
  <2>4. BodyKeepsSubs'
    <3>1. \A s \in Configured(req.cfg) :
            NodesOf(subs, s) # <<>> => subs[s] # None /\ NodesOf(subs, s) # None
      BY <1>0, LookupType DEF NodesOf, Configured, Typed
    <3> QED
      BY <1>0, <2>1, <3>1 DEF BodyKeepsSubs, KeepsSubs
  <2>5. QuotaSinceBody' /\ QuotaNotOlderThanBody'
    BY <2>1 DEF QuotaSinceBody, QuotaNotOlderThanBody
  <2> QED
    BY <1>0, <2>1, <2>2, <2>3, <2>4, <2>5, StoreKept
<1>9. CASE Finish
  <2>1. req' = NoRequest /\ req'.pc = "idle" /\ UNCHANGED <<subs, fetches>>
    BY <1>9, Ending
  <2>2. FollowsConfig'
    BY <2>1 DEF FollowsConfig, NoRequest
  <2>3. KeepsSubs' /\ BodyKeepsSubs' /\ QuotaSinceBody' /\ QuotaNotOlderThanBody'
    BY <2>1 DEF KeepsSubs, BodyKeepsSubs, QuotaSinceBody, QuotaNotOlderThanBody
  <2> QED
    BY <1>0, <2>1, <2>2, <2>3, StoreKept
<1>10. \A k \in Keys : FindKey(k) => Rest'
  BY <1>5 DEF FindKey
<1>11. LoadConfig => Rest'
  BY <1>5 DEF LoadConfig
<1> HIDE DEF Rest
<1> QED
  BY <1>1, <1>2, <1>3, <1>4, <1>6, <1>7, <1>8, <1>9, <1>10, <1>11 DEF Next

-----------------------------------------------------------------------------
(* What answers hold *)

LEMMA ServerAlways == Spec => []IndInv
BY InitInv, ServerInvariant, PTL DEF Spec

\* Whatever is reloaded, and whenever, each answer of /sub and /healthz
\* follows one configuration that was in force during the request.
THEOREM OneConfigurationServed == Spec => []OneConfiguration
<1>1. IndInv => OneConfiguration
  BY DEF IndInv, FollowsConfig, OneConfiguration, Resolved
<1> QED
  BY <1>1, ServerAlways, PTL

\* A sub that had nodes when the request came in, and that no reload dropped,
\* is in the answer with nodes unless its upstream sent an empty list.
THEOREM KeptSubsServed == Spec => []KeptSubServed
<1>1. IndInv => KeptSubServed
  BY DEF IndInv, BodyKeepsSubs, KeptSubServed
<1> QED
  BY <1>1, ServerAlways, PTL

\* The quota header never describes a state from before the body.
THEOREM QuotaFresh == Spec => []QuotaNotOlderThanBody
<1>1. IndInv => QuotaNotOlderThanBody
  BY DEF IndInv
<1> QED
  BY <1>1, ServerAlways, PTL

-----------------------------------------------------------------------------
(* Types *)

\* The shortest of the intervals of a set of subs is one of them.
LEMMA ShortestInterval ==
  ASSUME NEW S \in SUBSET Nat, S # {}
  PROVE  Min(S) \in S
<1>1. PICK m \in S : \A n \in S : ~ (<<n, m>> \in OpToRel(<, Nat))
  BY NatLessThanWellFounded, WFMin, Zenon
<1>2. \A n \in S : ~ (n < m)
  BY <1>1, Zenon DEF OpToRel
<1>3. \A n \in S : m <= n
  BY <1>2
<1> QED
  BY <1>3 DEF Min

\* updateIntervalHours announces at least one hour.
LEMMA HoursAnnounced ==
  ASSUME NEW c \in Configs, NEW k \in Keys, c.resolved[k] # None
  PROVE  UpdateIntervalHours(c, c.resolved[k]) > 0
<1> DEFINE intervals == { c.minutes[s] : s \in c.resolved[k] }
<1>1. intervals \in SUBSET Nat /\ intervals # {}
  BY ConfigsAssumption
<1> HIDE DEF intervals
<1>2. Min(intervals) \in Nat
  BY <1>1, ShortestInterval
<1>3. \A m \in Nat : (IF m \div 60 > 1 THEN m \div 60 ELSE 1) > 0
  OBVIOUS
<1> QED
  BY <1>2, <1>3 DEF UpdateIntervalHours, intervals

\* The rest of TypeOK: the reload loop's variables, the handler's place and
\* locals, and the history.
Shaped ==
  /\ pruning \in BOOLEAN
  /\ reloads \in 0 .. MaxReloads
  /\ fetchers \subseteq Subs
  /\ req.pc \in {"idle", "render", "headers", "served", "notFound", "statuses", "reported"}
  /\ req.pc # "idle" => req.key \in Keys \cup {None}
  /\ req.quota \in Fetches
  /\ during \subseteq Configs
  /\ dropped \subseteq Subs /\ emptied \subseteq Subs

LEMMA StepShaped == IndInv /\ Shaped /\ [Next]_vars => Shaped'
<1> SUFFICES ASSUME IndInv, Shaped, [Next]_vars PROVE Shaped'
  OBVIOUS
<1> USE DEF Shaped
<1>0. Typed /\ FollowsConfig
  BY DEF IndInv
<1>00. 0 \in Fetches
  BY BoundsAssumption DEF Fetches
<1>1. CASE UNCHANGED vars
  BY <1>1 DEF vars
<1>2. ASSUME NEW s \in Subs, NEW n \in {<<>>, <<fetches + 1>>}, NEW q \in {0, fetches + 1},
             StoreBody(s, n, q) \/ SetError(s) \/ Touch(s)
      PROVE  Shaped'
  <2>1. emptied' \subseteq Subs
    BY <1>0, <1>2, Writes
  <2> QED
    BY <1>0, <1>2, <2>1, Writes DEF reload
<1>3. ASSUME NEW c \in Configs, SwapConfig(c)
      PROVE  Shaped'
  <2>1. during' \subseteq Configs /\ dropped' \subseteq Subs
    BY <1>3 DEF SwapConfig
  <2>2. reloads' \in 0 .. MaxReloads
    BY <1>3, BoundsAssumption DEF SwapConfig
  <2> QED
    BY <1>3, <2>1, <2>2 DEF SwapConfig
<1>4. CASE PruneAndStart
  BY <1>4 DEF PruneAndStart, Configured, history
<1>5. ASSUME NEW pc \in {"render", "notFound", "statuses"}, NEW k \in Keys \cup {None}, Arrive(pc, k)
      PROVE  Shaped'
  <2>1. req' = [NoRequest EXCEPT !.pc = pc, !.key = k, !.cfg = cfg]
    BY <1>5 DEF Arrive
  <2>2. req'.quota = 0
    BY <2>1 DEF NoRequest
  <2>3. during' \subseteq Configs
    BY <1>0, <1>5, Arrival DEF Typed
  <2> QED
    BY <1>00, <1>5, <2>2, <2>3, Arrival DEF Arrive, reload
<1>6. CASE RenderBody
  <2>1. req'.quota = req.quota
    BY <1>0, <1>6 DEF RenderBody, Typed
  <2> QED
    BY <1>0, <1>6, <2>1, Rendering DEF RenderBody, reload, history
<1>7. CASE SetHeaders
  <2>1. req.cfg \in Configs /\ req.key \in Keys /\ req.cfg.resolved[req.key] # None
    BY <1>0, <1>7, Answering DEF FollowsConfig
  <2>2. Resolved(req) \subseteq Subs /\ Resolved(req) # {}
    BY <2>1, ConfigsAssumption DEF Resolved
  <2>3. (CHOOSE s \in Resolved(req) : TRUE) \in Subs
    BY <2>2
  <2>4. MetaOf(subs, CHOOSE s \in Resolved(req) : TRUE) \in Fetches
    BY <1>0, <2>3, LookupType DEF Typed
  <2>5. req'.quota \in Fetches
    BY <1>0, <1>00, <1>7, <2>4, Answering
  <2> QED
    BY <1>0, <1>7, <2>5, Answering DEF SetHeaders, reload, history
<1>8. CASE ReadStatuses
  <2>1. req'.quota = req.quota
    BY <1>0, <1>8 DEF ReadStatuses, Typed
  <2> QED
    BY <1>0, <1>8, <2>1, Reporting DEF ReadStatuses, reload, history
<1>9. CASE Finish
  BY <1>00, <1>9 DEF Finish, NoRequest, reload
<1>10. (\E k \in Keys : FindKey(k)) \/ LoadConfig => Shaped'
  BY <1>5 DEF FindKey, LoadConfig
<1> QED
  BY <1>1, <1>2, <1>3, <1>4, <1>6, <1>7, <1>8, <1>9, <1>10 DEF Next

\* Every variable keeps its type, and an answer announces an interval of at
\* least an hour.
THEOREM ServerTypeOK == Spec => []TypeOK
<1>1. Init => Shaped
  <2>1. Init => Configured(cfg) \subseteq Subs
    BY DEF Configured
  <2>2. Init => req.pc = "idle" /\ req.quota = 0
    BY DEF Init, NoRequest
  <2>3. 0 \in Fetches /\ 0 \in 0 .. MaxReloads
    BY BoundsAssumption DEF Fetches
  <2> QED
    BY <2>1, <2>2, <2>3 DEF Init, Shaped
<1>2. IndInv /\ Shaped => TypeOK
  <2> SUFFICES ASSUME IndInv, Shaped PROVE TypeOK
    OBVIOUS
  <2>1. Typed /\ FollowsConfig
    BY DEF IndInv
  <2>2. req.pc = "served" => req.hours > 0
    BY <2>1, HoursAnnounced DEF FollowsConfig, Resolved
  <2> QED
    BY <2>1, <2>2 DEF Typed, FollowsConfig, Shaped, TypeOK
<1> QED
  BY <1>1, <1>2, StepShaped, ServerAlways, PTL DEF Spec
=============================================================================
