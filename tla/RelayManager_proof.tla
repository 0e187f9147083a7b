------------------------- MODULE RelayManager_proof -------------------------
(***************************************************************************)
(* SetPlan never waits and Run never rests out of step without something  *)
(* that will wake it, for any plans, subs and contents.                    *)
(*                                                                         *)
(* NoLostWakeup says nothing of a render that is under way, during which  *)
(* the store may change and a plan may arrive.  Inv adds what is true     *)
(* then: what was read so far is in the store or a signal is pending, and *)
(* the latest plan is Run's own, in the channel or about to be sent.      *)
(***************************************************************************)
EXTENDS RelayManager, TLAPS

\* Run has nothing to do for plan p: mihomo runs what p asks for, or refused
\* it, or is not started and p does not start it.
Settled(p) ==
  started \/ HasRelays[p] => applied = Body(p, Current(p)) \/ ~Loadable(Current(p))

\* The latest plan is on its way to Run, or there.
PlanArrives == setter = "idle" => IF plans = None THEN plan = wanted ELSE plans = wanted

\* A read is of the present content, or the change is signalled.
ReadsAreFresh ==
  pc = "render" =>
    /\ plan # None
    /\ Len(reads) <= Len(SubsOf[plan])
    /\ changed \/ \A i \in 1 .. Len(reads) : reads[i] = content[SubsOf[plan][i]]

\* At rest, what Run applied is up to date, or something will wake it.
RestsSettled ==
  pc = "select" => reads = <<>> /\ (plan = None \/ Settled(plan) \/ changed \/ timer \/ abandoned)

Inv == TypeOK /\ SetPlanNeverBlocks /\ PlanArrives /\ ReadsAreFresh /\ RestsSettled

-----------------------------------------------------------------------------
\* main hands over a plan before Run starts.
LEMMA InitInv == Init => Inv
<1> SUFFICES ASSUME Init PROVE Inv
  OBVIOUS
<1>1. TypeOK
  <2>1. content \in [Subs -> Contents]
    BY ContentsAssumption DEF Init
  <2>2. updates \in 0 .. MaxUpdates /\ handed \in 0 .. MaxPlans
    BY BoundsAssumption DEF Init
  <2>3. reads \in Seq(Contents)
    BY DEF Init
  <2> QED
    BY <2>1, <2>2, <2>3 DEF Init, TypeOK
<1>2. SetPlanNeverBlocks /\ PlanArrives /\ ReadsAreFresh /\ RestsSettled
  BY NoneAssumption DEF Init, SetPlanNeverBlocks, PlanArrives, ReadsAreFresh, RestsSettled
<1> QED
  BY <1>1, <1>2 DEF Inv

\* What a plan reads from the store is a sequence of contents, as long as its
\* list of subs.
LEMMA CurrentType ==
  ASSUME TypeOK, NEW p \in Plans
  PROVE  /\ SubsOf[p] \in Seq(Subs)
         /\ Len(SubsOf[p]) \in Nat
         /\ DOMAIN SubsOf[p] = 1 .. Len(SubsOf[p])
         /\ \A i \in 1 .. Len(SubsOf[p]) : SubsOf[p][i] \in Subs /\ content[SubsOf[p][i]] \in Contents
BY SubsOfAssumption DEF TypeOK

\* A render that has read everything, with no signal pending, has read what
\* the store holds.
LEMMA FreshReadsAreCurrent ==
  ASSUME Inv, pc = "render", ~changed, Len(reads) = Len(SubsOf[plan])
  PROVE  plan \in Plans /\ reads = Current(plan)
<1>1. plan \in Plans /\ reads \in Seq(Contents)
  BY DEF Inv, TypeOK, ReadsAreFresh
<1>2. \A i \in 1 .. Len(reads) : reads[i] = content[SubsOf[plan][i]]
  BY DEF Inv, ReadsAreFresh
<1>3. DOMAIN SubsOf[plan] = 1 .. Len(reads)
  BY <1>1, CurrentType DEF Inv
<1>4. reads = [i \in 1 .. Len(reads) |-> reads[i]]
  BY <1>1
<1>5. reads = [i \in 1 .. Len(reads) |-> content[SubsOf[plan][i]]]
  BY <1>2, <1>4
<1> QED
  BY <1>1, <1>3, <1>5 DEF Current

-----------------------------------------------------------------------------
\* Every step keeps the types.
LEMMA NextTypeOK == TypeOK /\ ReadsAreFresh /\ [Next]_vars => TypeOK'
<1> SUFFICES ASSUME TypeOK, ReadsAreFresh, [Next]_vars PROVE TypeOK'
  OBVIOUS
<1>1. ASSUME NEW s \in Subs, NEW c \in Contents, UpdateStore(s, c)
      PROVE  TypeOK'
  BY <1>1, BoundsAssumption DEF UpdateStore, TypeOK, sender, core
<1>2. ASSUME NEW p \in Plans, DrainPlans(p)
      PROVE  TypeOK'
  BY <1>2, BoundsAssumption DEF DrainPlans, TypeOK, store, core
<1>3. CASE SendPlan
  BY <1>3 DEF SendPlan, TypeOK, store, core
<1>4. CASE TakePlan
  BY <1>4 DEF TakePlan, StartRender, TypeOK, store, sender, core
<1>5. CASE TakeSignal
  BY <1>5 DEF TakeSignal, TypeOK, sender, core
<1>6. CASE TimerFires
  BY <1>6 DEF TimerFires, StartRender, TypeOK, store, sender, core
<1>7. CASE ReadSub
  <2>1. plan \in Plans /\ Len(reads) + 1 \in 1 .. Len(SubsOf[plan])
    BY <1>7, CurrentType DEF ReadSub, ReadsAreFresh, TypeOK
  <2>2. content[SubsOf[plan][Len(reads) + 1]] \in Contents
    BY <2>1, CurrentType
  <2> QED
    BY <1>7, <2>2 DEF ReadSub, TypeOK, store, sender, core
<1>0. ASSUME Rendered, started' \in BOOLEAN, abandoned' \in BOOLEAN,
             applied' \in (Plans \X Seq(Contents)) \cup {None}
      PROVE  TypeOK'
  BY <1>0 DEF Rendered, TypeOK, store, sender
<1>8. CASE SkipSame \/ Abandon
  BY <1>0, <1>8, Zenon DEF SkipSame, Abandon, TypeOK
<1>9. CASE Install
  <2>1. plan \in Plans /\ Body(plan, reads) \in Plans \X Seq(Contents)
    BY <1>9 DEF Install, Rendered, Body, TypeOK, ReadsAreFresh
  <2> QED
    BY <1>0, <1>9, <2>1, Zenon DEF Install
<1>10. CASE Refuse
  BY <1>0, <1>10, Zenon DEF Refuse, TypeOK
<1>11. CASE UNCHANGED vars
  BY <1>11 DEF vars, TypeOK
<1> QED
  BY <1>1, <1>2, <1>3, <1>4, <1>5, <1>6, <1>7, <1>8, <1>9, <1>10, <1>11 DEF Next, Run

\* Only SetPlan fills the channel, after it has emptied it.
LEMMA NextPlanArrives ==
  TypeOK /\ SetPlanNeverBlocks /\ PlanArrives /\ [Next]_vars => SetPlanNeverBlocks' /\ PlanArrives'
<1> SUFFICES ASSUME TypeOK, SetPlanNeverBlocks, PlanArrives, [Next]_vars
             PROVE  SetPlanNeverBlocks' /\ PlanArrives'
  OBVIOUS
<1> USE DEF SetPlanNeverBlocks, PlanArrives
<1>1. ASSUME NEW p \in Plans, DrainPlans(p)
      PROVE  SetPlanNeverBlocks' /\ PlanArrives'
  BY <1>1 DEF DrainPlans
<1>2. CASE SendPlan
  BY <1>2, NoneAssumption DEF SendPlan, TypeOK
<1>3. CASE TakePlan
  BY <1>3 DEF TakePlan, sender
<1>4. CASE UNCHANGED <<setter, wanted, plans, plan>>
  BY <1>4
<1>5. ASSUME NEW s \in Subs, NEW c \in Contents, UpdateStore(s, c)
      PROVE  UNCHANGED <<setter, wanted, plans, plan>>
  BY <1>5 DEF UpdateStore, sender
<1>6. TakeSignal \/ TimerFires \/ ReadSub \/ Abandon \/ SkipSame \/ Install \/ Refuse
      => UNCHANGED <<setter, wanted, plans, plan>>
  BY DEF TakeSignal, TimerFires, ReadSub, Abandon, SkipSame, Install, Refuse, Rendered, sender
<1> QED
  BY <1>1, <1>2, <1>3, <1>4, <1>5, <1>6 DEF Next, Run, vars

\* Reads stay fresh: the step that changes the store signals it, and no
\* signal is taken during a render.
LEMMA NextReadsAreFresh == Inv /\ [Next]_vars => ReadsAreFresh'
<1> SUFFICES ASSUME Inv, [Next]_vars PROVE ReadsAreFresh'
  OBVIOUS
<1> USE DEF Inv, ReadsAreFresh
<1>1. ASSUME NEW s \in Subs, NEW c \in Contents, UpdateStore(s, c)
      PROVE  ReadsAreFresh'
  BY <1>1 DEF UpdateStore, core
<1>2. ASSUME NEW p \in Plans, DrainPlans(p)
      PROVE  ReadsAreFresh'
  BY <1>2 DEF DrainPlans, store
<1>3. CASE SendPlan
  BY <1>3 DEF SendPlan, store
<1>4. CASE TakePlan \/ TimerFires
  <2>1. reads' = <<>> /\ plan' \in Plans \cup {None} /\ (pc' = "render" => plan' # None)
    BY <1>4 DEF TakePlan, TimerFires, StartRender, RestsSettled, TypeOK
  <2>2. plan' # None => Len(SubsOf[plan']) >= 0
    BY <2>1, CurrentType
  <2> QED
    BY <2>1, <2>2
<1>5. CASE TakeSignal
  BY <1>5 DEF TakeSignal
<1>6. CASE ReadSub
  <2>1. plan \in Plans /\ reads \in Seq(Contents) /\ Len(SubsOf[plan]) \in Nat
    BY <1>6, CurrentType DEF ReadSub, TypeOK
  <2>2. /\ Len(reads') = Len(reads) + 1
        /\ \A i \in 1 .. Len(reads) : reads'[i] = reads[i]
        /\ reads'[Len(reads) + 1] = content[SubsOf[plan][Len(reads) + 1]]
    BY <1>6, <2>1 DEF ReadSub
  <2>3. plan' = plan /\ content' = content /\ changed' = changed /\ Len(reads) + 1 <= Len(SubsOf[plan])
    BY <1>6, <2>1 DEF ReadSub, store
  <2>4. changed \/ \A i \in 1 .. Len(reads) : reads[i] = content[SubsOf[plan][i]]
    BY <1>6 DEF ReadSub
  <2>5. changed \/ \A i \in 1 .. Len(reads) + 1 : reads'[i] = content[SubsOf[plan][i]]
    BY <2>1, <2>2, <2>4
  <2> QED
    BY <1>6, <2>2, <2>3, <2>5 DEF ReadSub
<1>7. CASE Abandon \/ SkipSame \/ Install \/ Refuse
  BY <1>7 DEF Abandon, SkipSame, Install, Refuse, Rendered
<1>8. CASE UNCHANGED vars
  BY <1>8 DEF vars
<1> QED
  BY <1>1, <1>2, <1>3, <1>4, <1>5, <1>6, <1>7, <1>8 DEF Next, Run

\* A step that leaves alone what Settled speaks of leaves Settled alone.
LEMMA SettledKept ==
  ASSUME NEW p, UNCHANGED <<content, started, applied>>
  PROVE  Settled(p)' <=> Settled(p)
BY DEF Settled, Current, Body, Loadable

\* Run comes to rest settled, or with a reason to go on.
LEMMA NextRestsSettled == Inv /\ [Next]_vars => RestsSettled'
<1> SUFFICES ASSUME Inv, [Next]_vars PROVE RestsSettled'
  OBVIOUS
<1> USE DEF Inv, RestsSettled
<1>1. ASSUME NEW s \in Subs, NEW c \in Contents, UpdateStore(s, c)
      PROVE  RestsSettled'
  BY <1>1 DEF UpdateStore
<1>2. ASSUME NEW p \in Plans, DrainPlans(p)
      PROVE  RestsSettled'
  BY <1>2, SettledKept DEF DrainPlans, store, core
<1>3. CASE SendPlan
  BY <1>3, SettledKept DEF SendPlan, store, core
<1>4. CASE TakePlan \/ TimerFires
  <2>1. /\ pc' = "select" => reads' = <<>> /\ (plan' = None \/ ~(started \/ HasRelays[plan']))
        /\ UNCHANGED <<started, applied>>
    BY <1>4 DEF TakePlan, TimerFires, StartRender, core
  <2> QED
    BY <2>1 DEF Settled
<1>5. CASE TakeSignal
  BY <1>5 DEF TakeSignal
<1>6. CASE ReadSub
  BY <1>6 DEF ReadSub
<1>7. CASE SkipSame \/ Install \/ Refuse
  <2>1. pc = "render" /\ Len(reads) = Len(SubsOf[plan]) /\ reads' = <<>> /\ plan' = plan
        /\ content' = content /\ changed' = changed
    BY <1>7 DEF SkipSame, Install, Refuse, Rendered, store
  <2>2. applied' = Body(plan, reads) \/ ~Loadable(reads)
    BY <1>7 DEF SkipSame, Install, Refuse, core
  <2>3. CASE changed
    BY <2>1, <2>3
  <2>4. CASE ~changed
    <3>1. reads = Current(plan) /\ Current(plan)' = Current(plan)
      BY <2>1, <2>4, FreshReadsAreCurrent DEF Current
    <3> QED
      BY <2>1, <2>2, <3>1 DEF Settled, Loadable, Body
  <2> QED
    BY <2>3, <2>4
<1>8. CASE Abandon
  BY <1>8 DEF Abandon, Rendered
<1>9. CASE UNCHANGED vars
  BY <1>9, SettledKept DEF vars
<1> QED
  BY <1>1, <1>2, <1>3, <1>4, <1>5, <1>6, <1>7, <1>8, <1>9 DEF Next, Run

-----------------------------------------------------------------------------
\* Inv holds in every reachable state.
THEOREM ManagerInvariant == Spec => []Inv
<1>1. Inv /\ [Next]_vars => Inv'
  BY NextTypeOK, NextPlanArrives, NextReadsAreFresh, NextRestsSettled DEF Inv
<1> QED
  BY <1>1, InitInv, PTL DEF Spec

\* Every variable of the manager keeps its type.
THEOREM ManagerTyped == Spec => []TypeOK
BY ManagerInvariant, PTL DEF Inv

\* The send of SetPlan never finds the channel full.
THEOREM SetPlanDoesNotBlock == Spec => []SetPlanNeverBlocks
BY ManagerInvariant, PTL DEF Inv

\* No wake-up is lost, whatever changes during a render.
THEOREM WakeupsAreKept == Spec => []NoLostWakeup
<1>1. Inv => NoLostWakeup
  <2> SUFFICES ASSUME Inv, pc = "select", ~changed, ~timer, plans = None, setter # "send",
                      ~abandoned
               PROVE  InSync
    BY DEF NoLostWakeup
  <2>1. setter = "idle" /\ plan = wanted /\ wanted \in Plans
    BY DEF Inv, TypeOK, PlanArrives
  <2>2. Settled(plan)
    BY <2>1, NoneAssumption DEF Inv, RestsSettled
  <2> QED
    BY <2>1, <2>2 DEF InSync, Settled
<1> QED
  BY <1>1, ManagerInvariant, PTL
=============================================================================
