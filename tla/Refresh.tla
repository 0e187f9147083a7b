------------------------------ MODULE Refresh -------------------------------
(***************************************************************************)
(* The refreshers of internal/agg/refresh.go under the reload loop of     *)
(* main.go.                                                               *)
(*                                                                         *)
(* Every configuration starts one goroutine per fetched subscription      *)
(* (Refresher.Run).  A reload cancels the context of the old ones, prunes *)
(* the store and starts new ones, but does not wait for the old ones: a   *)
(* refresher past its last look at the context may still write.  Such a   *)
(* refresher is called a straggler.                                       *)
(*                                                                         *)
(* A document is the pair of the URL it comes from and the time of its    *)
(* last modification; the upstreams decide when theirs changes and when   *)
(* to answer 304.  The parser may find no node in one and no fault with   *)
(* it, because every proxy in it was skipped: such a document is stored   *)
(* like any other, with its headers.  A local file is an upstream without *)
(* validators.                                                             *)
(***************************************************************************)
EXTENDS Naturals, Sequences, FiniteSets

CONSTANTS
  Subs,       \* names of subscriptions
  Urls,       \* upstreams
  Kind,       \* Kind[u]: the validator u sends, "etag", "date" or "none"
  Barren,     \* documents without a usable node: pairs of URL and time
  Configs,    \* configurations: functions from Subs to Urls or None
  Interval,   \* refresh interval in minutes; at least 1 (config.minInterval)
  MaxEpoch,   \* bound: at most this many reloads
  MaxClock,   \* bound: at most this many changes of upstream documents
  MaxFaults,  \* bound: at most this many failed fetches
  None        \* no URL, no entry, no validator

\* config.validate refuses a configuration without subscriptions.
ASSUME ConfigsAssumption ==
  Configs \subseteq { c \in [Subs -> Urls \cup {None}] : \E s \in Subs : c[s] # None }
ASSUME KindAssumption == Kind \in [Urls -> {"etag", "date", "none"}]
ASSUME IntervalAssumption == Interval \in Nat \ {0}
ASSUME BoundsAssumption == MaxEpoch \in Nat /\ MaxClock \in Nat /\ MaxFaults \in Nat

ASSUME BarrenAssumption == Barren \subseteq Urls \X (0 .. MaxClock)

Epochs == 0 .. MaxEpoch
Times == 0 .. MaxClock

VARIABLES
  mod,        \* mod[u]: when the document of upstream u was last modified
  clock,      \* the time of the latest modification anywhere
  subs,       \* Store.subs
  cfg,        \* the configuration in cfgPtr
  next,       \* the configuration a reload in progress has loaded
  phase,      \* where the reload loop is
  epoch,      \* how many reloads have cancelled their predecessors
  ref,        \* ref[e][s]: the refresher of sub s started by reload e
  faults      \* failed fetches so far

vars == <<mod, clock, subs, cfg, next, phase, epoch, ref, faults>>
upstream == <<mod, clock>>
reload == <<cfg, next, phase, epoch>>

-----------------------------------------------------------------------------
(* Documents, the nodes in them and the headers that come with them *)

Document(u, t) == [url |-> u, mod |-> t]

\* What node.Parse makes of a document: one node stands for all of them, and
\* names its document.
NodesAt(u, t) == IF <<u, t>> \in Barren THEN <<>> ELSE << Document(u, t) >>

NoHeaders == [etag |-> None, date |-> None]

HeadersAt(u, t) ==
  [etag |-> IF Kind[u] = "etag" THEN Document(u, t) ELSE None,
   date |-> IF Kind[u] = "date" THEN t ELSE None]

INSTANCE SubSnapshots
  WITH Contents <- { NodesAt(u, t) : u \in Urls, t \in Times } \cup {<<>>},
       Metas    <- { HeadersAt(u, t) : u \in Urls, t \in Times } \cup {NoHeaders},
       NoMeta   <- NoHeaders

ASSUME AbsenceAssumption == None \notin SubState

\* Upstream u answers 304 to a request with these validators: it knows the
\* tag, or nothing has changed since the date.
NotModified(u, headers) ==
  \/ Kind[u] = "etag" /\ headers.etag = Document(u, mod[u])
  \/ Kind[u] = "date" /\ headers.date # None /\ mod[u] <= headers.date

-----------------------------------------------------------------------------
(* Refreshers *)

\* One goroutine of Refresher.Run: the URL it was started with, the
\* validators it sent, the answer it got, and its two locals.
Off == [pc |-> "off", url |-> None, sent |-> NoHeaders, got |-> 0,
        wait |-> 0, backoff |-> 1]

Started(u) == [Off EXCEPT !.pc = "fetch", !.url = u]

FetchedSubs(c) == { s \in Subs : c[s] # None }

\* startRefreshers
StartAll(c) == [s \in Subs |-> IF c[s] = None THEN Off ELSE Started(c[s])]

\* Mutant: a reload does not cancel the context of the old refreshers.
NeverCancelled(e) == FALSE

Cancelled(e) == e < epoch

Init ==
  /\ mod = [u \in Urls |-> 0]
  /\ clock = 0
  /\ subs = EmptyStore
  /\ cfg \in Configs
  /\ next = cfg
  /\ phase = "idle"
  /\ epoch = 0
  /\ ref = [e \in Epochs |-> IF e = 0 THEN StartAll(cfg) ELSE [s \in Subs |-> Off]]
  /\ faults = 0

At(e, s, pc) == ref[e][s].pc = pc
Set(e, s, new) == ref' = [ref EXCEPT ![e][s] = new]

\* Read the validators and send the request; a request on a cancelled
\* context fails before it is sent.
Send(e, s) ==
  /\ At(e, s, "fetch")
  /\ IF Cancelled(e)
     THEN Set(e, s, [ref[e][s] EXCEPT !.pc = "failed"])
     ELSE Set(e, s, [ref[e][s] EXCEPT !.pc = "sent",
                       !.sent = MetaOf(subs, s)])
  /\ UNCHANGED <<upstream, reload, subs, faults>>

\* The upstream answers with its document of that moment, or with a 304.
Respond(e, s) ==
  LET u == ref[e][s].url IN
  /\ At(e, s, "sent")
  /\ Set(e, s, IF NotModified(u, ref[e][s].sent)
               THEN [ref[e][s] EXCEPT !.pc = "touch"]
               ELSE [ref[e][s] EXCEPT !.pc = "store", !.got = mod[u]])
  /\ UNCHANGED <<upstream, reload, subs, faults>>

\* The request, the body or its parsing fails.
FetchFails(e, s) ==
  /\ ref[e][s].pc \in {"sent", "store"}
  /\ Cancelled(e) \/ faults < MaxFaults
  /\ faults' = IF Cancelled(e) THEN faults ELSE faults + 1
  /\ Set(e, s, [ref[e][s] EXCEPT !.pc = "failed"])
  /\ UNCHANGED <<upstream, reload, subs>>

\* Run after a fetch that succeeded: wait the interval, forget the backoff.
Rested(r) == [r EXCEPT !.pc = "wait", !.sent = NoHeaders, !.got = 0,
                       !.wait = Interval, !.backoff = 1]

StoreBody(e, s) ==
  LET r == ref[e][s] IN
  /\ At(e, s, "store")
  /\ subs' = WithNodes(subs, s, NodesAt(r.url, r.got), HeadersAt(r.url, r.got))
  /\ Set(e, s, Rested(r))
  /\ UNCHANGED <<upstream, reload, faults>>

\* Mutant: a 304 is not recorded.
TouchNothing(e, s) ==
  /\ At(e, s, "touch")
  /\ Set(e, s, Rested(ref[e][s]))
  /\ UNCHANGED <<upstream, reload, faults, subs>>

\* Mutant: a 304 brings the validators of the present document.
TouchHeaders(e, s) ==
  LET u == ref[e][s].url IN
  /\ At(e, s, "touch")
  /\ subs' = WithNodes(subs, s, NodesOf(subs, s), HeadersAt(u, mod[u]))
  /\ Set(e, s, Rested(ref[e][s]))
  /\ UNCHANGED <<upstream, reload, faults>>

TouchSub(e, s) ==
  /\ At(e, s, "touch")
  /\ subs' = Touched(subs, s)
  /\ Set(e, s, Rested(ref[e][s]))
  /\ UNCHANGED <<upstream, reload, faults>>

\* Mutant: every failure ends the refresher.
ExitOnFailure(e, s) ==
  /\ At(e, s, "failed")
  /\ Set(e, s, [ref[e][s] EXCEPT !.pc = "exited", !.sent = NoHeaders, !.got = 0])
  /\ UNCHANGED <<upstream, reload, subs, faults>>

\* Run after a fetch that failed looks at the context first ...
CheckContext(e, s) ==
  /\ At(e, s, "failed")
  /\ Set(e, s, [ref[e][s] EXCEPT !.pc = IF Cancelled(e) THEN "exited" ELSE "record",
                                 !.sent = NoHeaders, !.got = 0])
  /\ UNCHANGED <<upstream, reload, subs, faults>>

\* Mutant: the backoff doubles without a cap.
RecordErrorUncapped(e, s) ==
  LET r == ref[e][s] IN
  /\ At(e, s, "record")
  /\ subs' = WithError(subs, s)
  /\ Set(e, s, [r EXCEPT !.pc = "wait", !.wait = r.backoff, !.backoff = 2 * r.backoff])
  /\ UNCHANGED <<upstream, reload, faults>>

\* ... and records the error afterwards.
RecordError(e, s) ==
  LET r == ref[e][s]
      doubled == 2 * r.backoff
  IN
  /\ At(e, s, "record")
  /\ subs' = WithError(subs, s)
  /\ Set(e, s, [r EXCEPT !.pc = "wait", !.wait = r.backoff,
                         !.backoff = IF doubled < Interval THEN doubled ELSE Interval])
  /\ UNCHANGED <<upstream, reload, faults>>

\* The select at the end of Run: both cases may be ready.
TimerFires(e, s) ==
  /\ At(e, s, "wait")
  /\ Set(e, s, [ref[e][s] EXCEPT !.pc = "fetch", !.wait = 0])
  /\ UNCHANGED <<upstream, reload, subs, faults>>

Exit(e, s) ==
  /\ At(e, s, "wait")
  /\ Cancelled(e)
  /\ Set(e, s, [ref[e][s] EXCEPT !.pc = "exited", !.wait = 0])
  /\ UNCHANGED <<upstream, reload, subs, faults>>

-----------------------------------------------------------------------------
(* reloadLoop *)

\* A new configuration was loaded; refreshCancel().
CancelOld ==
  /\ phase = "idle"
  /\ epoch < MaxEpoch
  /\ next' \in Configs
  /\ epoch' = epoch + 1
  /\ phase' = "swap"
  /\ UNCHANGED <<upstream, subs, cfg, ref, faults>>

SwapConfig ==
  /\ phase = "swap"
  /\ cfg' = next
  /\ phase' = "prune"
  /\ UNCHANGED <<upstream, subs, next, epoch, ref, faults>>

\* Mutant: a reload starts from an empty store.
ResetStore ==
  /\ phase = "prune"
  /\ subs' = EmptyStore
  /\ phase' = "start"
  /\ UNCHANGED <<upstream, cfg, next, epoch, ref, faults>>

PruneStore ==
  /\ phase = "prune"
  /\ subs' = Pruned(subs, FetchedSubs(cfg))
  /\ phase' = "start"
  /\ UNCHANGED <<upstream, cfg, next, epoch, ref, faults>>

StartNew ==
  /\ phase = "start"
  /\ ref' = [ref EXCEPT ![epoch] = StartAll(cfg)]
  /\ phase' = "idle"
  /\ UNCHANGED <<upstream, subs, cfg, next, epoch, faults>>

\* An upstream publishes a new document.
Publish(u) ==
  /\ clock < MaxClock
  /\ clock' = clock + 1
  /\ mod' = [mod EXCEPT ![u] = clock + 1]
  /\ UNCHANGED <<reload, subs, ref, faults>>

-----------------------------------------------------------------------------
Step(e, s) ==
  \/ Send(e, s)
  \/ Respond(e, s)
  \/ StoreBody(e, s)
  \/ TouchSub(e, s)
  \/ CheckContext(e, s)
  \/ RecordError(e, s)
  \/ TimerFires(e, s)
  \/ Exit(e, s)

Reload == SwapConfig \/ PruneStore \/ StartNew

Next ==
  \/ \E e \in Epochs, s \in Subs : Step(e, s)
  \/ \E e \in Epochs, s \in Subs : FetchFails(e, s)
  \/ CancelOld
  \/ Reload
  \/ \E u \in Urls : Publish(u)

\* Goroutines that can run do, timers fire, and a request that does not
\* fail is answered (http.Client.Timeout).  Nothing has to be reloaded, to
\* change upstream or to fail.
Fairness ==
  /\ WF_vars(Reload)
  /\ \A e \in Epochs, s \in Subs : WF_vars(Step(e, s))

Spec == Init /\ [][Next]_vars
FairSpec == Spec /\ Fairness

-----------------------------------------------------------------------------
(* Properties *)

Refreshers ==
  [pc      : {"off", "fetch", "sent", "touch", "store", "failed", "record", "wait", "exited"},
   url     : Urls \cup {None},
   sent    : { HeadersAt(u, t) : u \in Urls, t \in Times } \cup {NoHeaders},
   got     : Times,
   wait    : 0 .. Interval,
   backoff : 1 .. Interval]

\* Types.  In particular no refresher ever waits for longer than the
\* interval: the doubling is capped, and config.minInterval keeps the first
\* backoff of a minute below it too.
TypeOK ==
  /\ mod \in [Urls -> Times]
  /\ clock \in Times
  /\ subs \in StoreType
  /\ cfg \in Configs /\ next \in Configs
  /\ phase \in {"idle", "swap", "prune", "start"}
  /\ epoch \in Epochs
  /\ ref \in [Epochs -> [Subs -> Refreshers]]
  /\ faults \in 0 .. MaxFaults

\* Whenever the reload loop rests, every configured sub is fetched by
\* exactly one refresher whose context is not cancelled, from the URL the
\* configuration gives, and no other sub is.  In particular no failure ends
\* a refresher for good.
ExactlyOneFetcher ==
  phase = "idle" =>
    \A s \in Subs :
      LET live == { e \in Epochs : /\ ~Cancelled(e)
                                   /\ ref[e][s].pc \notin {"off", "exited"} }
      IN /\ { ref[e][s].url : e \in live } = { cfg[s] } \ {None}
         /\ Cardinality(live) <= 1

\* The validators kept for a sub belong to the document its nodes come from,
\* also when that has none: otherwise a 304 to them would confirm nodes the
\* upstream does not mean.  An entry without either was made by a failure.
ValidatorsMatchNodes ==
  \A s \in Subs :
    \/ NodesOf(subs, s) = <<>> /\ MetaOf(subs, s) = NoHeaders
    \/ \E u \in Urls, t \in Times :
         NodesOf(subs, s) = NodesAt(u, t) /\ MetaOf(subs, s) = HeadersAt(u, t)

\* No failure, no 304 and no straggler takes away the nodes of a sub: they
\* go only when a reload drops the sub, or in exchange for a document an
\* upstream of the sub has sent, be it one without a usable node.
NodesKeptUntilPruned ==
  [][ \A s \in Subs :
        NodesOf(subs, s) # <<>> /\ NodesOf(subs', s) = <<>>
          => \/ phase = "prune" /\ cfg[s] = None
             \/ \E e \in Epochs :
                  /\ At(e, s, "store") /\ ~At(e, s, "store")'
                  /\ <<ref[e][s].url, ref[e][s].got>> \in Barren ]_vars

\* A refresher started by an earlier configuration comes to its end, wherever
\* the reload found it.
StragglersExit ==
  \A e \in Epochs, s \in Subs :
    (e < epoch /\ ~At(e, s, "off")) ~> At(e, s, "exited")

\* Once reloads, upstream changes and failures are over, the store shows
\* for every configured sub the present document of its URL, and no error,
\* whatever stragglers of earlier configurations have written.
SettlesOnUpstream ==
  \A s \in Subs :
    <>[](cfg[s] # None => subs[s] = [nodes |-> NodesAt(cfg[s], mod[cfg[s]]),
                                     err   |-> FALSE,
                                     meta  |-> HeadersAt(cfg[s], mod[cfg[s]])])

\* README.md, "Hot reload": a change of the configuration is applied.  The
\* nodes of a sub end up coming from the URL the configuration gives it.
UrlChangeTakesEffect ==
  \A s \in Subs, u \in Urls :
    [](cfg[s] = u => <>(cfg[s] # u \/ \E t \in Times : NodesOf(subs, s) = NodesAt(u, t)))
=============================================================================
