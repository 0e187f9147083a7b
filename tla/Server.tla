------------------------------- MODULE Server -------------------------------
(***************************************************************************)
(* One request to GET /sub or /healthz (internal/server/server.go) while  *)
(* refreshers write the store and the reload loop of main.go changes the  *)
(* configuration.                                                          *)
(*                                                                         *)
(* The handlers load the configuration once, and then go to the store, for *)
(* /sub twice: for the payload and for the quota header.  A reload, too,  *)
(* takes two steps: it swaps the configuration and then prunes the store. *)
(*                                                                         *)
(* Store.Render is one step here, which SubStore shows it may be          *)
(* (RendersAtomically).  Requests only read, so that one at a time is     *)
(* enough.  The body of an answer maps the subs it was made from to their *)
(* nodes; merging and formats are in Payloads.  A 304 means the client    *)
(* has that body already and is not told apart from it.  A report of      *)
(* /healthz maps subs to their nodes, too, or to None if it says that they *)
(* were not fetched yet.                                                   *)
(***************************************************************************)
EXTENDS Integers, Sequences, FiniteSets, FiniteSetsExt

CONSTANTS
  Subs,        \* names of subscriptions
  Keys,        \* keys a client may present
  Configs,     \* configurations, see below
  None,        \* a key that is not configured, an entry that is not there
  MaxFetches,  \* bound: at most this many bodies are stored
  MaxReloads   \* bound: at most this many reloads

\* A configuration: the refresh interval of each sub in minutes, 0 for a sub
\* it does not have, and the subs each key resolves to.  config.validateKeys
\* lets a key resolve to subs of its own configuration only, at least one.
ASSUME ConfigsAssumption ==
  \A c \in Configs :
    /\ c.minutes \in [Subs -> Nat]
    /\ \A k \in Keys : c.resolved[k] # None =>
         /\ c.resolved[k] \in (SUBSET Subs) \ {{}}
         /\ \A s \in c.resolved[k] : c.minutes[s] > 0
ASSUME SubsAssumption == IsFiniteSet(Subs)
ASSUME BoundsAssumption == MaxFetches \in Nat /\ MaxReloads \in Nat

\* The n-th body stored has one node, or none, called n, and the quota n, or
\* no quota, written 0.
Fetches == 0 .. MaxFetches
Lists == { <<n>> : n \in Fetches } \cup {<<>>}

INSTANCE SubSnapshots WITH Contents <- Lists, Metas <- Fetches, NoMeta <- 0

ASSUME AbsenceAssumption == None \notin SubState /\ None \notin Lists

VARIABLES
  cfg,       \* cfgPtr
  pruning,   \* the reload loop has swapped the configuration, not yet pruned
  reloads,   \* reloads so far
  fetchers,  \* subs that a refresher, perhaps a straggler, may write
  subs,      \* Store.subs
  fetches,   \* bodies stored so far
  req,       \* the request: where the handler is, and its locals
  during,    \* configurations in force since the request arrived
  before,    \* the node lists the store held when it arrived
  dropped,   \* subs a reload has dropped since the request arrived
  emptied    \* subs whose upstream has sent an empty list since then

vars == <<cfg, pruning, reloads, fetchers, subs, fetches, req,
          during, before, dropped, emptied>>
reload == <<cfg, pruning, reloads, fetchers>>
storage == <<subs, fetches>>
history == <<during, before, dropped, emptied>>

EmptyLists == [s \in Subs |-> <<>>]

Configured(c) == { s \in Subs : c.minutes[s] > 0 }

NoRequest == [pc |-> "idle", key |-> None, cfg |-> None, body |-> <<>>, quota |-> 0, hours |-> 0]

Init ==
  /\ cfg \in Configs
  /\ pruning = FALSE
  /\ reloads = 0
  /\ fetchers = Configured(cfg)
  /\ subs = EmptyStore
  /\ fetches = 0
  /\ req = NoRequest
  /\ during = {} /\ dropped = {} /\ emptied = {}
  /\ before = EmptyLists

-----------------------------------------------------------------------------
(* Refreshers *)

\* Mutant of StoreBody: a body without a quota leaves the previous one.
StoreKeepingQuota(s, nodes, quota) ==
  /\ s \in fetchers
  /\ fetches < MaxFetches
  /\ fetches' = fetches + 1
  /\ subs' = WithNodes(subs, s, nodes, IF quota = 0 THEN MetaOf(subs, s) ELSE quota)
  /\ emptied' = IF nodes = <<>> /\ req # NoRequest THEN emptied \cup {s} ELSE emptied
  /\ UNCHANGED <<reload, req, during, before, dropped>>

StoreBody(s, nodes, quota) ==
  /\ s \in fetchers
  /\ fetches < MaxFetches
  /\ fetches' = fetches + 1
  /\ subs' = WithNodes(subs, s, nodes, quota)
  /\ emptied' = IF nodes = <<>> /\ req # NoRequest THEN emptied \cup {s} ELSE emptied
  /\ UNCHANGED <<reload, req, during, before, dropped>>

SetError(s) ==
  /\ s \in fetchers
  /\ subs' = WithError(subs, s)
  /\ UNCHANGED <<reload, fetches, req, history>>

Touch(s) ==
  /\ s \in fetchers
  /\ subs' = Touched(subs, s)
  /\ UNCHANGED <<reload, fetches, req, history>>

-----------------------------------------------------------------------------
(* reloadLoop *)

SwapConfig(c) ==
  /\ ~pruning
  /\ reloads < MaxReloads
  /\ reloads' = reloads + 1
  /\ cfg' = c
  /\ pruning' = TRUE
  /\ IF req = NoRequest
     THEN UNCHANGED <<during, dropped>>
     ELSE during' = during \cup {c} /\ dropped' = dropped \cup (Subs \ Configured(c))
  /\ UNCHANGED <<fetchers, storage, req, before, emptied>>

\* Mutant of PruneAndStart: the store is emptied for the new refreshers.
EmptyAndStart ==
  /\ pruning
  /\ pruning' = FALSE
  /\ subs' = EmptyStore
  /\ fetchers' = fetchers \cup Configured(cfg)
  /\ UNCHANGED <<cfg, reloads, fetches, req, history>>

\* Prune, and the start of the new refreshers, of which nothing is seen
\* until they write.
PruneAndStart ==
  /\ pruning
  /\ pruning' = FALSE
  /\ subs' = Pruned(subs, Configured(cfg))
  /\ fetchers' = fetchers \cup Configured(cfg)
  /\ UNCHANGED <<cfg, reloads, fetches, req, history>>

-----------------------------------------------------------------------------
(* handleSub *)

\* Mutant of UpdateIntervalHours: less than an hour is announced as 0.
WholeHours(c, names) == Min({ c.minutes[s] : s \in names }) \div 60

\* updateIntervalHours: the shortest interval in whole hours, at least 1.
UpdateIntervalHours(c, names) ==
  LET shortest == Min({ c.minutes[s] : s \in names })
  IN IF shortest \div 60 > 1 THEN shortest \div 60 ELSE 1

\* A request arrives, and its handler loads the configuration.
Arrive(pc, k) ==
  /\ req.pc = "idle"
  /\ req' = [NoRequest EXCEPT !.pc = pc, !.key = k, !.cfg = cfg]
  /\ during' = {cfg}
  /\ before' = NodeLists(subs)
  /\ dropped' = {}
  /\ emptied' = {}
  /\ UNCHANGED <<reload, storage>>

\* The key is looked up in that configuration.
FindKey(k) == Arrive(IF cfg.resolved[k] = None THEN "notFound" ELSE "render", k)

Resolved(r) == r.cfg.resolved[r.key]

RenderBody ==
  /\ req.pc = "render"
  /\ req' = [req EXCEPT !.pc = "headers",
                        !.body = [s \in Resolved(req) |-> NodesOf(subs, s)]]
  /\ UNCHANGED <<reload, storage, history>>

\* Mutant of SetHeaders: the configuration is loaded a second time.
SetHeadersReloaded ==
  /\ req.pc = "headers"
  /\ req' = [req EXCEPT !.pc = "served",
                        !.hours = UpdateIntervalHours(cfg, Resolved(req))]
  /\ UNCHANGED <<reload, storage, history>>

\* The quota is shown only for a key that has exactly one sub.
SetHeaders ==
  /\ req.pc = "headers"
  /\ req' = [req EXCEPT
               !.pc = "served",
               !.hours = UpdateIntervalHours(req.cfg, Resolved(req)),
               !.quota = IF Cardinality(Resolved(req)) = 1
                         THEN MetaOf(subs, CHOOSE s \in Resolved(req) : TRUE)
                         ELSE 0]
  /\ UNCHANGED <<reload, storage, history>>

(* handleHealthz *)

LoadConfig == Arrive("statuses", None)

\* Store.Statuses, all subs under one lock.
ReadStatuses ==
  /\ req.pc = "statuses"
  /\ req' = [req EXCEPT !.pc = "reported",
                        !.body = [s \in Configured(req.cfg) |->
                                    IF subs[s] = None THEN None ELSE NodesOf(subs, s)]]
  /\ UNCHANGED <<reload, storage, history>>

Finish ==
  /\ req.pc \in {"served", "notFound", "reported"}
  /\ req' = NoRequest
  /\ during' = {} /\ dropped' = {} /\ emptied' = {}
  /\ before' = EmptyLists
  /\ UNCHANGED <<reload, storage>>

-----------------------------------------------------------------------------
Next ==
  \/ \E s \in Subs, n \in {<<>>, <<fetches + 1>>}, q \in {0, fetches + 1} : StoreBody(s, n, q)
  \/ \E s \in Subs : SetError(s)
  \/ \E s \in Subs : Touch(s)
  \/ \E c \in Configs : SwapConfig(c)
  \/ PruneAndStart
  \/ \E k \in Keys : FindKey(k)
  \/ RenderBody
  \/ SetHeaders
  \/ LoadConfig
  \/ ReadStatuses
  \/ Finish

Spec == Init /\ [][Next]_vars

-----------------------------------------------------------------------------
(* Properties *)

\* Types; in particular no header but a configured interval is sent.
TypeOK ==
  /\ cfg \in Configs
  /\ pruning \in BOOLEAN
  /\ reloads \in 0 .. MaxReloads
  /\ fetchers \subseteq Subs
  /\ subs \in StoreType
  /\ fetches \in Fetches
  /\ req.pc \in {"idle", "render", "headers", "served", "notFound", "statuses", "reported"}
  /\ req.pc # "idle" => req.key \in Keys \cup {None} /\ req.cfg \in Configs
  /\ req.quota \in Fetches
  /\ req.pc = "served" => req.hours > 0
  /\ during \subseteq Configs
  /\ before \in [Subs -> Lists]
  /\ dropped \subseteq Subs /\ emptied \subseteq Subs

\* Every answer follows one configuration that was in force while the request
\* was being handled: it grants the key exactly the subs in the body, and
\* the refresh interval announced is theirs; a refusal, too, is that of one
\* configuration, and a report is about exactly the subs of one: entries that
\* stragglers leave behind show nowhere.  A reload between two steps of the
\* handler mixes nothing.
OneConfiguration ==
  /\ req.pc = "served" =>
       \E c \in during :
         /\ c.resolved[req.key] # None
         /\ DOMAIN req.body = c.resolved[req.key]
         /\ req.hours = UpdateIntervalHours(c, c.resolved[req.key])
  /\ req.pc = "notFound" => \E c \in during : c.resolved[req.key] = None
  /\ req.pc = "reported" => \E c \in during : DOMAIN req.body = Configured(c)

\* The quota header is read after the body and may be newer, but it never
\* describes a state of the subscription from before the body.
QuotaNotOlderThanBody ==
  req.pc = "served" /\ req.quota # 0 =>
    \A s \in DOMAIN req.body : req.body[s] # <<>> => req.quota >= req.body[s][1]

\* A sub that had nodes when the request came in, and that every
\* configuration since has, is served, and reported with nodes, however often
\* its refreshes fail and whatever is reloaded: unless its upstream sent an
\* empty list.
KeptSubServed ==
  req.pc \in {"served", "reported"} =>
    \A s \in DOMAIN req.body :
      before[s] # <<>> /\ s \notin dropped \cup emptied => req.body[s] \notin {<<>>, None}
=============================================================================
