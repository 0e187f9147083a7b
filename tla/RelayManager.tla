---------------------------- MODULE RelayManager ----------------------------
(***************************************************************************)
(* relay.Manager (internal/relay/manager.go): keeping mihomo in step with *)
(* the current plan and with the nodes of the subs the plan uses.         *)
(*                                                                         *)
(* Three parties meet here.  Refreshers and reloads change the store and  *)
(* leave a coalesced signal; the reload loop hands over plans through a   *)
(* channel that holds one; Manager.Run selects over both and a debounce   *)
(* timer, and renders by reading the store once per sub upstream, so the  *)
(* store may change between two of its reads.                             *)
(*                                                                         *)
(* What mihomo does with a configuration is in RelayCore; here applying   *)
(* is one step that succeeds or is refused.                               *)
(***************************************************************************)
EXTENDS Naturals, Sequences

CONSTANTS
  Subs,        \* names of subscriptions
  Plans,       \* relay plans
  SubsOf,      \* SubsOf[p]: the sub upstreams of plan p, in the order read
  HasRelays,   \* HasRelays[p]: plan p has at least one relay
  Contents,    \* what the store may hold for a sub
  Absent,      \* the content of a sub that has not been fetched yet
  Refused,     \* contents mihomo refuses in spite of checkProxy
  None,        \* nothing in a channel or variable
  MaxUpdates,  \* bound: at most this many changes of the store
  MaxPlans     \* bound: at most this many plans handed over by reloads

ASSUME SubsOfAssumption == SubsOf \in [Plans -> Seq(Subs)]
ASSUME HasRelaysAssumption ==
  /\ HasRelays \in [Plans -> BOOLEAN]
  /\ \A p \in Plans : ~HasRelays[p] => SubsOf[p] = <<>>
ASSUME ContentsAssumption == Absent \in Contents
ASSUME NoneAssumption == None \notin Plans
ASSUME BoundsAssumption == MaxUpdates \in Nat /\ MaxPlans \in Nat

VARIABLES
  content,     \* content[s]: what the store holds for s
  changed,     \* a signal is pending in Store.Changed()
  updates,     \* changes of the store so far
  setter,      \* where the reload loop is in SetPlan
  wanted,      \* the plan of its latest call of SetPlan
  handed,      \* plans handed over by reloads so far
  plans,       \* Manager.plans, a channel of capacity 1
  pc,          \* where Run is
  plan,        \* Run: plan
  reads,       \* Run: what Render has read so far
  timer,       \* Run: the debounce timer is set
  started,     \* core.started
  applied,     \* Run: the configuration applied last
  abandoned    \* history: the last render could not even be handed to mihomo

vars == <<content, changed, updates, setter, wanted, handed, plans,
          pc, plan, reads, timer, started, applied, abandoned>>
store == <<content, changed, updates>>
sender == <<setter, wanted, handed>>
core == <<started, applied, abandoned>>

\* desired.yaml of plan p over what was read.
Body(p, contents) == <<p, contents>>

Current(p) == [i \in DOMAIN SubsOf[p] |-> content[SubsOf[p][i]]]

Loadable(contents) == \A i \in DOMAIN contents : contents[i] \notin Refused

\* main calls SetPlan once before it starts Run.
Init ==
  /\ content = [s \in Subs |-> Absent]
  /\ changed = FALSE
  /\ updates = 0
  /\ setter = "idle"
  /\ wanted \in Plans
  /\ handed = 0
  /\ plans = wanted
  /\ pc = "select"
  /\ plan = None
  /\ reads = <<>>
  /\ timer = FALSE
  /\ started = FALSE
  /\ applied = None
  /\ abandoned = FALSE

-----------------------------------------------------------------------------
(* The store: SetNodes of a refresher, or Prune of a reload *)

UpdateStore(s, c) ==
  /\ updates < MaxUpdates
  /\ updates' = updates + 1
  /\ content' = [content EXCEPT ![s] = c]
  /\ changed' = TRUE
  /\ UNCHANGED <<sender, plans, pc, plan, reads, timer, core>>

-----------------------------------------------------------------------------
(* SetPlan: drop a plan not picked up yet, then send *)

\* Mutant of DrainPlans: the plan not picked up yet is left in the channel.
KeepPlans(p) ==
  /\ setter = "idle"
  /\ handed < MaxPlans
  /\ handed' = handed + 1
  /\ wanted' = p
  /\ setter' = "send"
  /\ UNCHANGED <<store, plans, pc, plan, reads, timer, core>>

DrainPlans(p) ==
  /\ setter = "idle"
  /\ handed < MaxPlans
  /\ handed' = handed + 1
  /\ wanted' = p
  /\ plans' = None
  /\ setter' = "send"
  /\ UNCHANGED <<store, pc, plan, reads, timer, core>>

SendPlan ==
  /\ setter = "send"
  /\ plans = None
  /\ plans' = wanted
  /\ setter' = "idle"
  /\ UNCHANGED <<store, wanted, handed, pc, plan, reads, timer, core>>

-----------------------------------------------------------------------------
(* Run *)

\* Mutant of StartRender: a plan without relays is never applied.
RenderAnyRelay(p) ==
  pc' = IF p # None /\ HasRelays[p] THEN "render" ELSE "select"

\* The first line of apply: nothing to do before the first relay.
StartRender(p) ==
  pc' = IF p = None THEN "select"
        ELSE IF started \/ HasRelays[p] THEN "render" ELSE "select"

TakePlan ==
  /\ pc = "select"
  /\ plans # None
  /\ plan' = plans
  /\ plans' = None
  /\ timer' = FALSE
  /\ StartRender(plans)
  /\ UNCHANGED <<store, sender, reads, core>>

TakeSignal ==
  /\ pc = "select"
  /\ changed
  /\ changed' = FALSE
  /\ timer' = TRUE
  /\ UNCHANGED <<content, updates, sender, plans, pc, plan, reads, core>>

TimerFires ==
  /\ pc = "select"
  /\ timer
  /\ timer' = FALSE
  /\ StartRender(plan)
  /\ UNCHANGED <<store, sender, plans, plan, reads, core>>

\* Render looks up the nodes of its next sub upstream.
ReadSub ==
  /\ pc = "render"
  /\ Len(reads) < Len(SubsOf[plan])
  /\ reads' = Append(reads, content[SubsOf[plan][Len(reads) + 1]])
  /\ UNCHANGED <<store, sender, plans, pc, plan, timer, core>>

\* Mutant of Rendered: the signal is dropped along with the render.
RenderedDrained ==
  /\ pc = "render"
  /\ Len(reads) = Len(SubsOf[plan])
  /\ pc' = "select"
  /\ reads' = <<>>
  /\ changed' = FALSE
  /\ UNCHANGED <<content, updates, sender, plans, plan, timer>>

Rendered ==
  /\ pc = "render"
  /\ Len(reads) = Len(SubsOf[plan])
  /\ pc' = "select"
  /\ reads' = <<>>
  /\ UNCHANGED <<store, sender, plans, plan, timer>>

\* The configuration cannot be marshalled, or mihomo does not start.  It is
\* not tried again before the next plan or signal.
Abandon ==
  /\ Rendered
  /\ abandoned' = TRUE
  /\ UNCHANGED <<started, applied>>

\* The same configuration as the one applied last: nothing is done.
SkipSame ==
  /\ Rendered
  /\ started /\ applied = Body(plan, reads)
  /\ abandoned' = FALSE
  /\ UNCHANGED <<started, applied>>

Install ==
  /\ Rendered
  /\ ~(started /\ applied = Body(plan, reads))
  /\ Loadable(reads)
  /\ started' = TRUE
  /\ applied' = Body(plan, reads)
  /\ abandoned' = FALSE

\* core.apply fails before it switches anything over: the current
\* configuration stays.
Refuse ==
  /\ Rendered
  /\ ~(started /\ applied = Body(plan, reads))
  /\ ~Loadable(reads)
  /\ started' = TRUE
  /\ abandoned' = FALSE
  /\ UNCHANGED applied

-----------------------------------------------------------------------------
Run ==
  TakePlan \/ TakeSignal \/ TimerFires \/ ReadSub \/ Abandon \/ SkipSame \/ Install \/ Refuse

Next ==
  \/ \E s \in Subs, c \in Contents : UpdateStore(s, c)
  \/ \E p \in Plans : DrainPlans(p)
  \/ SendPlan
  \/ Run

\* Run takes what is ready, timers fire, and SetPlan goes on; nobody has to
\* change the store or the configuration.
Fairness == WF_vars(Run) /\ WF_vars(SendPlan)

Spec == Init /\ [][Next]_vars
FairSpec == Spec /\ Fairness

-----------------------------------------------------------------------------
(* Properties *)

TypeOK ==
  /\ content \in [Subs -> Contents]
  /\ changed \in BOOLEAN
  /\ updates \in 0 .. MaxUpdates
  /\ setter \in {"idle", "send"}
  /\ wanted \in Plans
  /\ handed \in 0 .. MaxPlans
  /\ plans \in Plans \cup {None}
  /\ pc \in {"select", "render"}
  /\ plan \in Plans \cup {None}
  /\ reads \in Seq(Contents)
  /\ timer \in BOOLEAN
  /\ started \in BOOLEAN
  /\ applied \in (Plans \X Seq(Contents)) \cup {None}
  /\ abandoned \in BOOLEAN

\* manager.go: an earlier plan not yet picked up is dropped.  The send of
\* SetPlan never waits for Run, which may be busy applying: otherwise a
\* reload would hang on a slow mihomo.
SetPlanNeverBlocks == setter = "send" => plans = None

\* mihomo runs what the latest plan and the present nodes ask for, as far
\* as it can.
InSync ==
  /\ plan = wanted
  /\ started \/ HasRelays[plan] =>
       applied = Body(plan, Current(plan)) \/ ~Loadable(Current(plan))

\* Whenever Run rests out of step, something will wake it: no signal that
\* coalesced, no timer that a plan cancelled and no read in the middle of a
\* change is lost.  Only a render that was abandoned is not tried again:
\* apply logs the error and returns.
NoLostWakeup ==
  pc = "select" /\ ~InSync =>
    changed \/ timer \/ plans # None \/ setter = "send" \/ abandoned

\* Once store and configuration are left alone, mihomo gets in step and
\* stays so, unless the last render was abandoned: one before it does no
\* lasting harm.
EventuallyInSync == <>[](InSync \/ abandoned)
=============================================================================
