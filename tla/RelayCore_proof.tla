--------------------------- MODULE RelayCore_proof ---------------------------
(***************************************************************************)
(* Groups hold the proxies in use and alone run health checks, connections *)
(* off their route are drained, and none is closed early: for any proxies, *)
(* relays, routes, connections and configurations, any number of applies  *)
(* and any timeout.                                                        *)
(*                                                                         *)
(* Three ideas carry the proofs.  The number in an object is that of an    *)
(* apply of the past, so that a new object differs from every old one.    *)
(* A connection nothing has moved agrees with the configuration in force, *)
(* or, if it was routed in the middle of a switch, with the next one as    *)
(* soon as that changes nothing for its route.  And one that is drained    *)
(* was moved at least as long ago as its draining has lasted.             *)
(***************************************************************************)
EXTENDS RelayCore, WellFoundedInduction, TLAPS

\* The objects in use are those the configuration names, each built by an
\* apply so far.
LiveProxies ==
  \A p \in Proxies :
    IF current = None \/ current.proxies[p] = None THEN proxies[p] = None
    ELSE proxies[p] # None /\ proxies[p].key = current.proxies[p] /\ proxies[p].built \in 1 .. applies

LiveGroups ==
  \A g \in Relays :
    IF current = None \/ current.groups[g] = None THEN groups[g] = None
    ELSE groups[g] # None /\ groups[g].key = current.groups[g] /\ groups[g].built \in 1 .. applies

\* The types the proofs need.
CoreTyped ==
  /\ current \in Desireds \cup {None}
  /\ applies \in Builds
  /\ phase \in {"idle", "rules", "listeners", "mark"}
  /\ phase # "idle" => next \in Desireds /\ applies < MaxApplies
  /\ draining \in [Conns -> Left \cup {None}]
  /\ timer \in Left \cup {None}
  /\ \A c \in Conns :
       conn[c] = [pc |-> conn[c].pc, route |-> conn[c].route, target |-> conn[c].target,
                  proxy |-> conn[c].proxy, built |-> conn[c].built, early |-> conn[c].early,
                  late |-> conn[c].late, moved |-> conn[c].moved]
  /\ DOMAIN conn = Conns

\* A connection on its way runs over a relay and a proxy, and was routed by
\* some configuration.
Active(c) == conn[c].pc \in {"dialing", "open"}

ActiveTyped ==
  \A c \in Conns : Active(c) =>
    /\ conn[c].route \in Routes /\ conn[c].target.target \in Relays /\ conn[c].proxy \in Proxies
    /\ conn[c].built \in 1 .. applies + 1
    /\ ~conn[c].early => current # None /\ conn[c].built \in 1 .. applies
    /\ conn[c].moved \in Left \cup {None}

\* Unless something has moved it, it agrees with the configuration in force.
Agrees(c) ==
  LET g == conn[c].target.target IN
  /\ current.routes[conn[c].route] = conn[c].target
  /\ groups[g] # None
  /\ conn[c].proxy \in ToSet(groups[g].key.members)
  /\ proxies[conn[c].proxy].built = conn[c].built

UnmovedAgree ==
  \A c \in Conns : Active(c) /\ ~conn[c].early /\ conn[c].moved = None => Agrees(c)

\* What was routed during the switch runs over objects of the next
\* configuration, and has its route if that is the one of before.
EarlyAgree ==
  \A c \in Conns : Active(c) /\ conn[c].early =>
    LET g == conn[c].target.target IN
    /\ phase # "idle"
    /\ conn[c].moved = None
    /\ current = None \/ current.routes[conn[c].route] = next.routes[conn[c].route]
         => conn[c].target = next.routes[conn[c].route]
    /\ next.groups[g] # None
    /\ conn[c].proxy \in ToSet(next.groups[g].members)
    /\ NextProxies(next)[conn[c].proxy].built = conn[c].built

\* What is not drained was not moved, except during a dial.
UndrainedUnmoved ==
  \A c \in Conns : Active(c) /\ ~conn[c].late /\ draining[c] = None => conn[c].moved = None

\* What is drained was moved before its draining began.
DrainedMoved ==
  \A c \in Conns :
    /\ conn[c].pc \in {"unused", "dialing"} => draining[c] = None
    /\ conn[c].pc = "open" /\ draining[c] # None =>
         conn[c].moved # None /\ conn[c].moved + draining[c] >= DrainTimeout

\* What mihomo has of the two configurations, by the phase of the switch.
InForce == IF current = None THEN NoRoutes ELSE current.routes

Running ==
  /\ table = IF phase = "idle" THEN groups ELSE NextGroups(next)
  /\ rules = IF phase \in {"listeners", "mark"} THEN next.routes ELSE InForce
  /\ users = IF phase = "mark" THEN next.routes ELSE InForce

\* Health checks run for the groups in use and, during a switch, for the new
\* ones.
GroupChecks == { <<g, groups[g].built>> : g \in { h \in Relays : groups[h] # None } }
FreshChecks(d) == { <<g, applies + 1>> : g \in Fresh(d) }

ChecksTracked ==
  checking = GroupChecks \cup (IF phase = "idle" THEN {} ELSE FreshChecks(next))

-----------------------------------------------------------------------------
(* Deadlines *)

\* A set of numbers has a least element.
LEMMA LeastElement ==
  ASSUME NEW S \in SUBSET Nat, S # {}
  PROVE  Min(S) \in S /\ \A n \in S : Min(S) <= n
<1>1. \E m \in S : \A n \in S : ~ (<<n, m>> \in OpToRel(<, Nat))
  BY NatLessThanWellFounded, WFMin, Zenon
<1>2. PICK m \in S : \A n \in S : ~ (<<n, m>> \in OpToRel(<, Nat))
  BY <1>1
<1>3. \A n \in S : ~ (n < m)
  BY <1>2, Zenon DEF OpToRel
<1>4. \A n \in S : m <= n
  BY <1>3
<1> QED
  BY <1>4 DEF Min

\* The timer is set for the first deadline, if there is one.
LEMMA EarliestDeadline ==
  ASSUME NEW left \in [Conns -> Left \cup {None}]
  PROVE  /\ Earliest(left) \in Left \cup {None}
         /\ \A c \in Conns : left[c] # None => Earliest(left) # None /\ Earliest(left) <= left[c]
<1> DEFINE deadlines == { left[c] : c \in Conns } \ {None}
<1>1. deadlines \in SUBSET Left /\ deadlines \in SUBSET Nat
  BY TimeoutAssumption DEF Left
<1>2. CASE deadlines = {}
  BY <1>2 DEF Earliest
<1>3. CASE deadlines # {}
  <2>1. Earliest(left) = Min(deadlines)
    BY <1>3 DEF Earliest
  <2>2. Min(deadlines) \in deadlines /\ \A n \in deadlines : Min(deadlines) <= n
    BY <1>1, <1>3, LeastElement
  <2> QED
    BY <1>1, <2>1, <2>2
<1> QED
  BY <1>2, <1>3

-----------------------------------------------------------------------------
(* What an apply makes *)

\* The members of a group are proxies of its configuration.
LEMMA MembersAreProxies ==
  ASSUME NEW d \in Desireds, NEW g \in Relays, d.groups[g] # None
  PROVE  ToSet(d.groups[g].members) \subseteq { p \in Proxies : d.proxies[p] # None }
<1> DEFINE members == d.groups[g].members
<1>1. members \in Seq({ p \in Proxies : d.proxies[p] # None })
  BY DesiredsAssumption
<1> HIDE DEF members
<1>2. \A i \in DOMAIN members : members[i] \in { p \in Proxies : d.proxies[p] # None }
  BY <1>1
<1>3. ToSet(members) \subseteq { p \in Proxies : d.proxies[p] # None }
  BY <1>2 DEF ToSet
<1> QED
  BY <1>3 DEF members

\* The proxies of the next configuration are kept or new.
LEMMA ProxiesMade ==
  ASSUME CoreTyped, LiveProxies, applies < MaxApplies, NEW d \in Desireds, NEW p \in Proxies
  PROVE  /\ d.proxies[p] = None => NextProxies(d)[p] = None
         /\ d.proxies[p] # None =>
              /\ NextProxies(d)[p] # None
              /\ NextProxies(d)[p].key = d.proxies[p]
              /\ NextProxies(d)[p].built \in 1 .. applies + 1
              /\ NextProxies(d)[p] = proxies[p] \/ NextProxies(d)[p].built = applies + 1
<1>1. applies \in Nat /\ applies + 1 \in Builds
  BY BoundAssumption DEF CoreTyped, Builds
<1>2. CASE d.proxies[p] = None
  BY <1>2 DEF NextProxies
<1>3. CASE d.proxies[p] # None /\ proxies[p] # None /\ proxies[p].key = d.proxies[p]
  <2>1. NextProxies(d)[p] = proxies[p]
    BY <1>3 DEF NextProxies
  <2>2. proxies[p].built \in 1 .. applies
    BY <1>3 DEF LiveProxies
  <2> QED
    BY <1>1, <1>3, <2>1, <2>2
<1>4. CASE d.proxies[p] # None /\ ~(proxies[p] # None /\ proxies[p].key = d.proxies[p])
  <2>1. NextProxies(d)[p] = [key |-> d.proxies[p], built |-> applies + 1]
    BY <1>4 DEF NextProxies
  <2>2. [key |-> d.proxies[p], built |-> applies + 1] # None
    BY <1>1, AbsenceAssumption
  <2> QED
    BY <1>1, <1>4, <2>1, <2>2
<1> QED
  BY <1>2, <1>3, <1>4

\* So are its groups.
LEMMA GroupsMade ==
  ASSUME CoreTyped, LiveProxies, LiveGroups, applies < MaxApplies,
         NEW d \in Desireds, NEW g \in Relays
  PROVE  /\ d.groups[g] = None => NextGroups(d)[g] = None
         /\ d.groups[g] # None =>
              /\ NextGroups(d)[g] # None
              /\ NextGroups(d)[g].key = d.groups[g]
              /\ NextGroups(d)[g].built \in 1 .. applies + 1
              /\ \/ NextGroups(d)[g] = groups[g] /\ SameProxies(d.groups[g].members, d)
                 \/ /\ NextGroups(d)[g].built = applies + 1
                    /\ NextGroups(d)[g].holds =
                         [p \in ToSet(d.groups[g].members) |-> NextProxies(d)[p].built]
<1> DEFINE kept == groups[g] # None /\ groups[g].key = d.groups[g]
                     /\ SameProxies(d.groups[g].members, d)
           holds == [p \in ToSet(d.groups[g].members) |-> NextProxies(d)[p].built]
<1>1. applies \in Nat /\ applies + 1 \in Builds /\ 1 .. applies + 1 \subseteq Builds
  BY BoundAssumption DEF CoreTyped, Builds
<1>2. CASE d.groups[g] = None
  BY <1>2 DEF NextGroups
<1>3. CASE d.groups[g] # None /\ kept
  <2>1. NextGroups(d)[g] = groups[g]
    BY <1>3 DEF NextGroups
  <2>2. groups[g].built \in 1 .. applies
    BY <1>3 DEF LiveGroups
  <2> QED
    BY <1>1, <1>3, <2>1, <2>2
<1>4. CASE d.groups[g] # None /\ ~kept
  <2>1. NextGroups(d)[g] = [key |-> d.groups[g], holds |-> holds, built |-> applies + 1]
    BY <1>4 DEF NextGroups
  <2>2. holds \in [ToSet(d.groups[g].members) -> Builds]
    BY <1>1, <1>4, MembersAreProxies, ProxiesMade
  <2> HIDE DEF holds
  <2>3. [key |-> d.groups[g], holds |-> holds, built |-> applies + 1] # None
    BY <1>1, <1>4, <2>2, AbsenceAssumption
  <2>4. NextGroups(d)[g].holds = holds
    BY <2>1
  <2> QED
    BY <1>1, <1>4, <2>1, <2>3, <2>4 DEF holds
<1> QED
  BY <1>2, <1>3, <1>4

\* Whether kept or built, a group of the next configuration holds its
\* proxies.
LEMMA HeldIsMade ==
  ASSUME CoreTyped, LiveProxies, LiveGroups, GroupsHoldLiveProxies, applies < MaxApplies,
         NEW d \in Desireds, NEW g \in Relays, NextGroups(d)[g] # None,
         NEW p \in ToSet(NextGroups(d)[g].key.members)
  PROVE  NextGroups(d)[g].holds[p] = NextProxies(d)[p].built
<1>1. d.groups[g] # None /\ NextGroups(d)[g].key = d.groups[g]
  BY GroupsMade
<1>2. p \in ToSet(d.groups[g].members)
  BY <1>1
<1>3. CASE NextGroups(d)[g] = groups[g] /\ SameProxies(d.groups[g].members, d)
  BY <1>1, <1>2, <1>3 DEF SameProxies, GroupsHoldLiveProxies
<1>4. CASE NextGroups(d)[g].holds = [q \in ToSet(d.groups[g].members) |-> NextProxies(d)[q].built]
  BY <1>2, <1>4
<1> QED
  BY <1>1, <1>3, <1>4, GroupsMade

-----------------------------------------------------------------------------
(* Objects *)

Objects == LiveProxies /\ LiveGroups /\ GroupsHoldLiveProxies

LEMMA ObjectsKept == Objects /\ UNCHANGED objects => Objects'
<1> SUFFICES ASSUME Objects, UNCHANGED objects PROVE Objects'
  OBVIOUS
<1> USE DEF Objects, objects
<1>1. LiveProxies'
  BY DEF LiveProxies
<1>2. LiveGroups'
  BY DEF LiveGroups
<1>3. GroupsHoldLiveProxies'
  BY DEF GroupsHoldLiveProxies
<1> QED
  BY <1>1, <1>2, <1>3

\* The conjuncts of Commit.
LEMMA Committing ==
  ASSUME Commit
  PROVE  /\ phase = "mark" /\ phase' = "idle" /\ applies' = applies + 1 /\ current' = next
         /\ proxies' = NextProxies(next) /\ groups' = NextGroups(next)
         /\ checking' = checking \ { <<g, groups[g].built>> : g \in Replaced(next) }
         /\ draining' = [c \in Conns |-> IF c \in MarkStale(next) THEN DrainTimeout ELSE draining[c]]
         /\ Rearm(MarkStale(next))
         /\ UNCHANGED <<table, rules, users>>
BY Zenon DEF Commit

LEMMA CommittingConns ==
  ASSUME Commit
  PROVE  conn' = [c \in Conns |->
           IF conn[c].pc \notin {"dialing", "open"} THEN conn[c]
           ELSE [conn[c] EXCEPT !.early = FALSE,
                                !.late = @ \/ conn[c].pc = "dialing",
                                !.moved = IF @ = None /\ Touches(c, next) THEN 0 ELSE @]]
BY Zenon DEF Commit

LEMMA ObjectsMade == CoreTyped /\ Objects /\ Commit => Objects'
<1> SUFFICES ASSUME CoreTyped, Objects, Commit PROVE Objects'
  OBVIOUS
<1>1. /\ applies < MaxApplies /\ applies' = applies + 1 /\ current' = next /\ next \in Desireds
      /\ proxies' = NextProxies(next) /\ groups' = NextGroups(next)
  BY Committing DEF CoreTyped
<1>2. next # None /\ applies \in Nat
  BY <1>1, AbsenceAssumption DEF CoreTyped, Builds
<1>3. LiveProxies'
  BY <1>1, <1>2, ProxiesMade DEF Objects, LiveProxies
<1>4. LiveGroups'
  BY <1>1, <1>2, GroupsMade DEF Objects, LiveGroups
<1>5. GroupsHoldLiveProxies'
  BY <1>1, HeldIsMade DEF Objects, GroupsHoldLiveProxies
<1> QED
  BY <1>3, <1>4, <1>5 DEF Objects

-----------------------------------------------------------------------------
(* Health checks *)

LEMMA ChecksStarted ==
  ASSUME ChecksTracked, NEW d \in Desireds, UpdateProxies(d)
  PROVE  ChecksTracked'
<1>1. /\ phase = "idle" /\ phase' = "rules" /\ next' = d /\ UNCHANGED objects
      /\ checking' = checking \cup FreshChecks(d)
  BY DEF UpdateProxies, FreshChecks
<1>2. checking = GroupChecks /\ checking' = GroupChecks \cup FreshChecks(d)
  BY <1>1 DEF ChecksTracked
<1>3. GroupChecks' = GroupChecks
  BY <1>1 DEF GroupChecks, objects
<1>4. Fresh(d)' = Fresh(d)
  BY <1>1 DEF Fresh, NextGroups, SameProxies, NextProxies, objects
<1>5. FreshChecks(next)' = FreshChecks(d)
  BY <1>1, <1>4 DEF FreshChecks, objects, Fresh, NextGroups, SameProxies, NextProxies
<1> QED
  BY <1>1, <1>2, <1>3, <1>5 DEF ChecksTracked

LEMMA ChecksMade == CoreTyped /\ Objects /\ ChecksTracked /\ Commit => ChecksTracked'
<1> SUFFICES ASSUME CoreTyped, Objects, ChecksTracked, Commit PROVE ChecksTracked'
  OBVIOUS
<1>1. /\ phase = "mark" /\ phase' = "idle" /\ applies < MaxApplies /\ next \in Desireds
      /\ groups' = NextGroups(next)
      /\ checking' = checking \ { <<g, groups[g].built>> : g \in Replaced(next) }
  BY Committing DEF CoreTyped
<1>2. applies \in Nat
  BY DEF CoreTyped, Builds
<1>3. \A g \in Relays : groups[g] # None => groups[g].built \in 1 .. applies
  BY DEF Objects, LiveGroups
<1>4. \A g \in Relays : groups'[g] # None =>
        groups'[g] = groups[g] \/ groups'[g].built = applies + 1
  BY <1>1, GroupsMade DEF Objects
<1>5. checking = GroupChecks \cup FreshChecks(next)
  BY <1>1 DEF ChecksTracked
<1>6. ASSUME NEW g \in Relays, NEW n
      PROVE  <<g, n>> \in checking' <=> groups'[g] # None /\ n = groups'[g].built
  <2>1. <<g, n>> \in GroupChecks <=> groups[g] # None /\ n = groups[g].built
    BY DEF GroupChecks
  <2>2. <<g, n>> \in FreshChecks(next)
          <=> groups'[g] # None /\ groups[g] # groups'[g] /\ n = applies + 1
    BY <1>1 DEF FreshChecks, Fresh
  <2>3. <<g, n>> \in { <<h, groups[h].built>> : h \in Replaced(next) }
          <=> groups[g] # None /\ groups[g] # groups'[g] /\ n = groups[g].built
    BY <1>1 DEF Replaced
  <2> QED
    BY <1>1, <1>2, <1>3, <1>4, <1>5, <2>1, <2>2, <2>3
<1>7. \A x \in checking' : \E g \in Relays, n \in Nat : x = <<g, n>>
  <2>1. \A x \in GroupChecks : \E g \in Relays, n \in Nat : x = <<g, n>>
    BY <1>2, <1>3 DEF GroupChecks
  <2>2. \A x \in FreshChecks(next) : \E g \in Relays, n \in Nat : x = <<g, n>>
    BY <1>2 DEF FreshChecks, Fresh
  <2> QED
    BY <1>1, <1>5, <2>1, <2>2
<1>8. checking' = GroupChecks'
  BY <1>6, <1>7 DEF GroupChecks
<1> QED
  BY <1>1, <1>8 DEF ChecksTracked

LEMMA ChecksKept ==
  ASSUME ChecksTracked, UNCHANGED <<objects, next, checking>>, phase = "idle" <=> phase' = "idle"
  PROVE  ChecksTracked'
<1>1. GroupChecks' = GroupChecks
  BY DEF GroupChecks, objects
<1>2. FreshChecks(next)' = FreshChecks(next)
  BY DEF FreshChecks, Fresh, NextGroups, SameProxies, NextProxies, objects
<1> QED
  BY <1>1, <1>2 DEF ChecksTracked

-----------------------------------------------------------------------------
(* mihomo *)

LEMMA RunningKept ==
  ASSUME Running, UNCHANGED <<objects, next, table>>,
         \/ UNCHANGED <<phase, rules, users>>
         \/ UpdateRules
         \/ PatchInboundListeners
  PROVE  Running'
<1>1. NextGroups(next)' = NextGroups(next)
  BY DEF NextGroups, SameProxies, NextProxies, objects
<1>2. InForce' = InForce
  BY DEF InForce, objects, NoRoutes
<1>3. UNCHANGED <<groups, next, table>>
  BY DEF objects
<1> QED
  BY <1>1, <1>2, <1>3 DEF Running, UpdateRules, PatchInboundListeners

LEMMA RunningStarted ==
  ASSUME Running, NEW d \in Desireds, UpdateProxies(d)
  PROVE  Running'
<1>1. /\ phase = "idle" /\ phase' = "rules" /\ next' = d
      /\ UNCHANGED <<objects, rules, users>> /\ table' = NextGroups(d)
  BY DEF UpdateProxies
<1>2. NextGroups(next)' = NextGroups(d)
  BY <1>1 DEF NextGroups, SameProxies, NextProxies, objects
<1>3. InForce' = InForce
  BY <1>1 DEF InForce, objects, NoRoutes
<1> QED
  BY <1>1, <1>2, <1>3 DEF Running

LEMMA RunningMade == CoreTyped /\ Running /\ Commit => Running'
<1> SUFFICES ASSUME CoreTyped, Running, Commit PROVE Running'
  OBVIOUS
<1>1. /\ phase = "mark" /\ phase' = "idle" /\ current' = next /\ next \in Desireds
      /\ groups' = NextGroups(next) /\ UNCHANGED <<table, rules, users>>
  BY Committing DEF CoreTyped
<1>2. InForce' = next.routes
  BY <1>1, AbsenceAssumption DEF InForce
<1> QED
  BY <1>1, <1>2 DEF Running

-----------------------------------------------------------------------------
(* Connections *)

\* The steps that leave the objects alone change one connection, its draining
\* and the timer.
LEMMA CoreTypeKept == CoreTyped /\ [Next]_vars => CoreTyped'
<1> SUFFICES ASSUME CoreTyped, [Next]_vars PROVE CoreTyped'
  OBVIOUS
<1> USE DEF CoreTyped
<1>1. CASE UNCHANGED vars
  BY <1>1 DEF vars, objects, switch
<1>2. ASSUME NEW c \in Conns, NEW r \in Routes, NEW p \in Proxies, Route(c, r, p)
      PROVE  CoreTyped'
  BY <1>2 DEF Route, Unused, objects, switch
<1>3. ASSUME NEW c \in Conns, Register(c)
      PROVE  CoreTyped'
  BY <1>3 DEF Register, objects, switch
<1>4. ASSUME NEW c \in Conns, Finish(c)
      PROVE  CoreTyped'
  BY <1>4 DEF Finish, Ended, Unused, objects, switch
<1>5. CASE Commit
  <2>1. /\ current' \in Desireds \cup {None} /\ applies' \in Builds
        /\ phase' = "idle"
    BY <1>5, Committing, BoundAssumption DEF Builds
  <2>2. draining' \in [Conns -> Left \cup {None}]
    BY <1>5, Committing, TimeoutAssumption DEF Left
  <2>3. timer' \in Left \cup {None}
    BY <1>5, <2>2, Committing, EarliestDeadline DEF Rearm
  <2>4. conn' = [c \in Conns |->
          IF conn[c].pc \notin {"dialing", "open"} THEN conn[c]
          ELSE [conn[c] EXCEPT !.early = FALSE,
                               !.late = @ \/ conn[c].pc = "dialing",
                               !.moved = IF @ = None /\ Touches(c, next) THEN 0 ELSE @]]
    BY <1>5, CommittingConns
  <2>5. \A c \in Conns :
          conn'[c] = [pc |-> conn'[c].pc, route |-> conn'[c].route, target |-> conn'[c].target,
                      proxy |-> conn'[c].proxy, built |-> conn'[c].built, early |-> conn'[c].early,
                      late |-> conn'[c].late, moved |-> conn'[c].moved]
    BY <2>4
  <2> QED
    BY <2>1, <2>2, <2>3, <2>4, <2>5
<1>6. CASE Tick
  <2>1. \A n \in Left \cup {None} : Less(n) \in Left \cup {None}
    BY TimeoutAssumption DEF Less, Left
  <2> QED
    BY <1>6, <2>1 DEF Tick, objects, switch
<1>7. CASE Sweep
  <2>1. draining' \in [Conns -> Left \cup {None}]
    BY <1>7 DEF Sweep
  <2>2. timer' \in Left \cup {None}
    BY <1>7, <2>1, EarliestDeadline DEF Sweep
  <2> QED
    BY <1>7, <2>1, <2>2 DEF Sweep, Ended, Unused, objects, switch
<1>8. ASSUME NEW d \in Desireds, UpdateProxies(d)
      PROVE  CoreTyped'
  BY <1>8 DEF UpdateProxies, objects
<1>9. CASE UpdateRules \/ PatchInboundListeners
  BY <1>9 DEF UpdateRules, PatchInboundListeners, objects
<1> QED
  BY <1>1, <1>2, <1>3, <1>4, <1>5, <1>6, <1>7, <1>8, <1>9 DEF Next

\* What the end of a switch does to a connection.
LEMMA ConnApplied ==
  ASSUME CoreTyped, Commit, NEW c \in Conns
  PROVE  /\ conn'[c].pc = conn[c].pc /\ conn'[c].route = conn[c].route
         /\ conn'[c].target = conn[c].target /\ conn'[c].proxy = conn[c].proxy
         /\ conn'[c].built = conn[c].built
         /\ Active(c) => /\ conn[c].moved = None /\ Touches(c, next) => conn'[c].moved = 0
                         /\ ~(conn[c].moved = None /\ Touches(c, next)) => conn'[c].moved = conn[c].moved
                         /\ conn[c].late \/ conn[c].pc = "dialing" => conn'[c].late
                         /\ ~conn'[c].early
<1> DEFINE late == conn[c].late \/ conn[c].pc = "dialing"
           moved == IF conn[c].moved = None /\ Touches(c, next) THEN 0 ELSE conn[c].moved
<1>1. CASE Active(c)
  <2>1. conn'[c] = [conn[c] EXCEPT !.early = FALSE, !.late = late, !.moved = moved]
    <3> DEFINE After(b) ==
          IF conn[b].pc \notin {"dialing", "open"} THEN conn[b]
          ELSE [conn[b] EXCEPT !.early = FALSE,
                               !.late = @ \/ conn[b].pc = "dialing",
                               !.moved = IF @ = None /\ Touches(b, next) THEN 0 ELSE @]
    <3>1. conn' = [b \in Conns |-> After(b)]
      BY CommittingConns
    <3>2. After(c) = [conn[c] EXCEPT !.early = FALSE, !.late = late, !.moved = moved]
      BY <1>1, Zenon DEF Active
    <3> HIDE DEF After, late, moved
    <3> QED
      BY <3>1, <3>2
  <2> HIDE DEF late, moved
  <2>2. /\ conn'[c].pc = conn[c].pc /\ conn'[c].route = conn[c].route
        /\ conn'[c].target = conn[c].target /\ conn'[c].proxy = conn[c].proxy
        /\ conn'[c].built = conn[c].built /\ conn'[c].early = FALSE
        /\ conn'[c].late = late /\ conn'[c].moved = moved
    BY <2>1 DEF CoreTyped
  <2> QED
    BY <2>2, Zenon DEF late, moved
<1>2. CASE ~Active(c)
  BY <1>2, CommittingConns DEF Active
<1> QED
  BY <1>1, <1>2

Connections == ActiveTyped /\ UnmovedAgree /\ EarlyAgree /\ UndrainedUnmoved /\ DrainedMoved

\* For a connection nothing has moved yet, being stale is being moved, unless
\* it was routed in the middle of the switch: then it may be stale without.
LEMMA StaleIsMoved ==
  ASSUME CoreTyped, Objects, Connections, phase = "mark",
         NEW c \in Conns, Active(c), conn[c].moved = None
  PROVE  /\ Moved(c, next) => current # None /\ Stale(c, next)
         /\ Stale(c, next) => Moved(c, next) \/ conn[c].early
<1>1. next \in Desireds /\ applies < MaxApplies /\ applies \in Nat
  BY DEF CoreTyped, Builds
<1>2. CASE conn[c].early
  <2> DEFINE g == conn[c].target.target
  <2>1. /\ current = None \/ current.routes[conn[c].route] = next.routes[conn[c].route]
             => conn[c].target = next.routes[conn[c].route]
        /\ next.groups[g] # None
        /\ conn[c].proxy \in ToSet(next.groups[g].members)
        /\ NextProxies(next)[conn[c].proxy].built = conn[c].built
    BY <1>2 DEF Connections, EarlyAgree
  <2>2. Moved(c, next) => next.routes[conn[c].route] # conn[c].target
    BY <2>1 DEF Moved
  <2> QED
    BY <1>2, <2>1, <2>2 DEF Stale
<1>3. CASE ~conn[c].early
  <2>1. /\ Agrees(c) /\ conn[c].target.target \in Relays /\ conn[c].proxy \in Proxies
        /\ conn[c].built \in 1 .. applies /\ current # None
    BY <1>3 DEF Connections, ActiveTyped, UnmovedAgree
  <2>2. next.groups[conn[c].target.target] # None
          /\ conn[c].proxy \in ToSet(next.groups[conn[c].target.target].members)
          => (proxies[conn[c].proxy] # NextProxies(next)[conn[c].proxy]
                <=> NextProxies(next)[conn[c].proxy].built # conn[c].built)
    <3> SUFFICES ASSUME next.groups[conn[c].target.target] # None,
                        conn[c].proxy \in ToSet(next.groups[conn[c].target.target].members)
                 PROVE  proxies[conn[c].proxy] # NextProxies(next)[conn[c].proxy]
                          <=> NextProxies(next)[conn[c].proxy].built # conn[c].built
      OBVIOUS
    <3>1. next.proxies[conn[c].proxy] # None
      BY <1>1, <2>1, MembersAreProxies
    <3>2. \/ NextProxies(next)[conn[c].proxy] = proxies[conn[c].proxy]
          \/ NextProxies(next)[conn[c].proxy].built = applies + 1
      BY <1>1, <2>1, <3>1, ProxiesMade DEF Objects
    <3>3. proxies[conn[c].proxy].built = conn[c].built /\ applies + 1 # conn[c].built
      BY <1>1, <2>1 DEF Agrees
    <3> QED
      BY <3>2, <3>3
  <2> QED
    BY <2>1, <2>2 DEF Stale, Moved, Agrees
<1> QED
  BY <1>2, <1>3

LEMMA ConnectionsMoved == CoreTyped /\ Objects /\ Connections /\ Commit => Connections'
<1> SUFFICES ASSUME CoreTyped, Objects, Connections, Commit
             PROVE  Connections'
  OBVIOUS
<1>1. /\ phase = "mark" /\ applies < MaxApplies /\ applies' = applies + 1 /\ current' = next
      /\ next \in Desireds /\ proxies' = NextProxies(next) /\ groups' = NextGroups(next)
      /\ draining' = [c \in Conns |-> IF c \in MarkStale(next) THEN DrainTimeout ELSE draining[c]]
  BY Committing DEF CoreTyped
<1>2. next # None /\ applies \in Nat /\ DrainTimeout \in Nat \ {0} /\ None \notin Left /\ 0 \in Left
  BY <1>1, AbsenceAssumption, TimeoutAssumption DEF CoreTyped, Builds, Left
<1>3. ActiveTyped'
  <2> SUFFICES ASSUME NEW c \in Conns, Active(c)'
               PROVE  /\ conn'[c].route \in Routes /\ conn'[c].target.target \in Relays
                      /\ conn'[c].proxy \in Proxies
                      /\ conn'[c].built \in 1 .. applies' + 1
                      /\ ~conn'[c].early => current' # None /\ conn'[c].built \in 1 .. applies'
                      /\ conn'[c].moved \in Left \cup {None}
    BY DEF ActiveTyped
  <2>1. Active(c)
    BY ConnApplied DEF Active
  <2>2. /\ conn[c].route \in Routes /\ conn[c].target.target \in Relays /\ conn[c].proxy \in Proxies
        /\ conn[c].built \in 1 .. applies + 1
        /\ conn[c].moved \in Left \cup {None}
    BY <2>1 DEF Connections, ActiveTyped
  <2> QED
    BY <1>1, <1>2, <2>1, <2>2, ConnApplied
<1>4. UnmovedAgree'
  <2> SUFFICES ASSUME NEW c \in Conns, Active(c)', conn'[c].moved = None
               PROVE  Agrees(c)'
    BY DEF UnmovedAgree
  <2>1. Active(c)
    BY ConnApplied DEF Active
  <2>2. ~Moved(c, next)
    BY <1>2, <2>1, ConnApplied DEF Touches
  <2>3. conn[c].target.target \in Relays /\ conn[c].proxy \in Proxies
    BY <2>1 DEF Connections, ActiveTyped
  <2>4. /\ next.groups[conn[c].target.target] # None
        /\ NextGroups(next)[conn[c].target.target] # None
        /\ NextGroups(next)[conn[c].target.target].key = next.groups[conn[c].target.target]
    BY <1>1, <2>2, <2>3, GroupsMade DEF Moved, Objects
  <2>5. Agrees(c)' <=>
          /\ current'.routes[conn'[c].route] = conn'[c].target
          /\ groups'[conn'[c].target.target] # None
          /\ conn'[c].proxy \in ToSet(groups'[conn'[c].target.target].key.members)
          /\ proxies'[conn'[c].proxy].built = conn'[c].built
    BY DEF Agrees
  <2> QED
    BY <1>1, <2>2, <2>4, <2>5, ConnApplied DEF Moved
<1>5. EarlyAgree'
  BY ConnApplied DEF EarlyAgree, Active
<1>6. UndrainedUnmoved'
  <2> SUFFICES ASSUME NEW c \in Conns, Active(c)', ~conn'[c].late, draining'[c] = None
               PROVE  conn'[c].moved = None
    BY DEF UndrainedUnmoved
  <2>1. Active(c) /\ conn[c].pc = "open" /\ ~conn[c].late
    BY ConnApplied DEF Active
  <2>2. c \notin MarkStale(next) /\ draining[c] = None
    BY <1>1, <1>2 DEF Left
  <2>3. conn[c].moved = None
    BY <2>1, <2>2 DEF Connections, UndrainedUnmoved
  <2>4. ~Moved(c, next)
    BY <1>1, <2>1, <2>2, <2>3, StaleIsMoved DEF MarkStale
  <2> QED
    BY <2>1, <2>2, <2>3, <2>4, ConnApplied DEF Touches
<1>7. DrainedMoved'
  <2> SUFFICES ASSUME NEW c \in Conns
               PROVE  /\ conn'[c].pc \in {"unused", "dialing"} => draining'[c] = None
                      /\ conn'[c].pc = "open" /\ draining'[c] # None =>
                           conn'[c].moved # None /\ conn'[c].moved + draining'[c] >= DrainTimeout
    BY DEF DrainedMoved
  <2>1. CASE conn[c].pc # "open"
    BY <1>1, <2>1, ConnApplied DEF Connections, DrainedMoved, MarkStale
  <2>2. CASE conn[c].pc = "open" /\ c \in MarkStale(next)
    <3>1. draining'[c] = DrainTimeout /\ Stale(c, next) /\ Active(c)
      BY <1>1, <2>2 DEF MarkStale, Active
    <3>2. conn[c].moved = None => Touches(c, next)
      BY <1>1, <2>2, <3>1, StaleIsMoved DEF Touches
    <3>3. conn'[c].moved \in Left
      BY <1>2, <3>1, <3>2, ConnApplied DEF Connections, ActiveTyped
    <3> QED
      BY <1>2, <2>2, <3>1, <3>3, ConnApplied DEF Left
  <2>3. CASE conn[c].pc = "open" /\ c \notin MarkStale(next)
    <3>1. draining'[c] = draining[c] /\ Active(c)
      BY <1>1, <2>3 DEF Active
    <3> QED
      BY <2>3, <3>1, ConnApplied DEF Connections, DrainedMoved
  <2> QED
    BY <2>1, <2>2, <2>3
<1> QED
  BY <1>3, <1>4, <1>5, <1>6, <1>7 DEF Connections

\* A connection of which nothing changed but that it goes on to a later place
\* is as before, also when a switch begins or goes on.
LEMMA ConnectionsKept ==
  ASSUME CoreTyped, Connections, UNCHANGED objects,
         phase = "idle" \/ (UNCHANGED next /\ phase' # "idle"),
         \A c \in Conns :
           /\ Active(c)' => /\ Active(c)
                            /\ conn'[c].route = conn[c].route /\ conn'[c].target = conn[c].target
                            /\ conn'[c].proxy = conn[c].proxy /\ conn'[c].built = conn[c].built
                            /\ conn'[c].early = conn[c].early /\ conn'[c].late = conn[c].late
                            /\ conn'[c].moved \in Left \cup {None}
                            /\ conn'[c].moved = None <=> conn[c].moved = None
                            /\ draining'[c] = None <=> draining[c] = None
           /\ conn'[c].pc = "unused" => conn[c].pc = "unused"
           /\ conn'[c].pc = "dialing" => conn[c].pc = "dialing"
           /\ ~Active(c)' => (draining[c] = None => draining'[c] = None)
  PROVE  /\ ActiveTyped' /\ UnmovedAgree' /\ EarlyAgree' /\ UndrainedUnmoved'
         /\ \A c \in Conns : conn'[c].pc \in {"unused", "dialing"} => draining'[c] = None
<1> USE DEF Connections
<1>1. ActiveTyped'
  BY DEF ActiveTyped, objects
<1>2. UnmovedAgree'
  <2> SUFFICES ASSUME NEW c \in Conns, Active(c)', ~conn'[c].early, conn'[c].moved = None
               PROVE  Agrees(c)'
    BY DEF UnmovedAgree
  <2>1. Agrees(c)
    BY DEF UnmovedAgree
  <2> QED
    BY <2>1 DEF Agrees, objects
<1>3. EarlyAgree'
  <2>1. NextProxies(next)' = [p \in Proxies |-> IF next'.proxies[p] = None THEN None
                               ELSE IF proxies[p] # None /\ proxies[p].key = next'.proxies[p]
                               THEN proxies[p]
                               ELSE [key |-> next'.proxies[p], built |-> applies + 1]]
    BY DEF NextProxies, objects
  <2>2. UNCHANGED next => NextProxies(next)' = NextProxies(next)
    BY <2>1 DEF NextProxies
  <2>3. ASSUME NEW c \in Conns, Active(c)', conn'[c].early
        PROVE  /\ phase # "idle" /\ UNCHANGED next /\ phase' # "idle"
               /\ conn'[c].target = conn[c].target
    BY <2>3 DEF EarlyAgree
  <2> QED
    BY <2>2, <2>3 DEF EarlyAgree, objects
<1>4. UndrainedUnmoved'
  BY DEF UndrainedUnmoved
<1>5. \A c \in Conns : conn'[c].pc \in {"unused", "dialing"} => draining'[c] = None
  BY DEF DrainedMoved, Active
<1> QED
  BY <1>1, <1>2, <1>3, <1>4, <1>5

\* A step of the switch, seen from the connections.
LEMMA SwitchKeeps ==
  ASSUME CoreTyped, Connections, UNCHANGED <<objects, conn, draining>>,
         phase = "idle" \/ (UNCHANGED next /\ phase' # "idle")
  PROVE  Connections'
<1>1. \A c \in Conns : Active(c)' <=> Active(c)
  BY DEF Active
<1>2. \A c \in Conns : Active(c) => conn[c].moved \in Left \cup {None}
  BY DEF Connections, ActiveTyped
<1>3. /\ ActiveTyped' /\ UnmovedAgree' /\ EarlyAgree' /\ UndrainedUnmoved'
  BY <1>1, <1>2, ConnectionsKept
<1>4. DrainedMoved'
  BY DEF Connections, DrainedMoved
<1> QED
  BY <1>3, <1>4 DEF Connections

\* A caller is routed to a group of one of the two configurations.
LEMMA RoutedTo ==
  ASSUME CoreTyped, Objects, Running, NEW c \in Conns, NEW r \in Routes, NEW p \in Proxies,
         Route(c, r, p)
  PROVE  LET g == rules[r].target IN
         /\ g \in Relays /\ table[g] # None /\ p \in ToSet(table[g].key.members)
         /\ phase = "idle" =>
              /\ current # None
              /\ current.routes[r] = [password |-> users[r].password, target |-> g]
              /\ proxies[p].built = table[g].holds[p] /\ table[g].holds[p] \in 1 .. applies
         /\ phase # "idle" =>
              /\ current = None \/ current.routes[r] = next.routes[r]
                   => next.routes[r] = [password |-> users[r].password, target |-> g]
              /\ next.groups[g] # None /\ p \in ToSet(next.groups[g].members)
              /\ NextProxies(next)[p].built = table[g].holds[p]
              /\ table[g].holds[p] \in 1 .. applies + 1
<1> DEFINE g == rules[r].target
<1>1. /\ users[r] # None /\ rules[r] # None /\ g # Reject /\ table[g] # None
      /\ p \in ToSet(table[g].key.members)
  BY DEF Route
<1>2. /\ \/ rules[r] = next.routes[r] /\ phase # "idle"
         \/ rules[r] = current.routes[r] /\ current # None
      /\ \/ users[r] = next.routes[r] /\ phase # "idle"
         \/ users[r] = current.routes[r] /\ current # None
      /\ phase # "mark" => current # None /\ users[r] = current.routes[r]
      /\ phase = "mark" => rules[r] = next.routes[r] /\ users[r] = next.routes[r]
      /\ phase = "idle" => rules[r] = current.routes[r]
  BY <1>1 DEF Running, InForce, NoRoutes, CoreTyped
<1>3. /\ current # None => current \in Desireds
      /\ phase # "idle" => next \in Desireds /\ applies < MaxApplies
  BY DEF CoreTyped
<1>4. \A d \in Desireds : d.routes[r] # None =>
        /\ d.routes[r] = [password |-> d.routes[r].password, target |-> d.routes[r].target]
        /\ d.routes[r].target # Reject =>
             d.routes[r].target \in Relays /\ d.groups[d.routes[r].target] # None
  BY DesiredsAssumption
<1>5. g \in Relays
  BY <1>1, <1>2, <1>3, <1>4
<1> HIDE DEF g
<1>6. CASE phase = "idle"
  <2>1. current # None /\ current.routes[r] = [password |-> users[r].password, target |-> g]
    BY <1>1, <1>2, <1>3, <1>4, <1>6 DEF g
  <2>2. table[g] = groups[g] /\ groups[g] # None
    BY <1>1, <1>6 DEF Running, g
  <2>3. current.groups[g] # None /\ groups[g].key = current.groups[g]
    BY <1>5, <2>1, <2>2 DEF Objects, LiveGroups
  <2>4. current.proxies[p] # None
    BY <1>1, <1>3, <1>5, <2>1, <2>2, <2>3, MembersAreProxies DEF g
  <2>5. groups[g].holds[p] = proxies[p].built /\ proxies[p].built \in 1 .. applies
    BY <1>1, <1>5, <2>1, <2>2, <2>4 DEF Objects, GroupsHoldLiveProxies, LiveProxies, g
  <2> QED
    BY <1>1, <1>5, <1>6, <2>1, <2>2, <2>5 DEF g
<1>7. CASE phase # "idle"
  <2>1. current = None \/ current.routes[r] = next.routes[r]
          => next.routes[r] = [password |-> users[r].password, target |-> g]
    BY <1>1, <1>2, <1>3, <1>4, <1>7 DEF g
  <2>2. table[g] = NextGroups(next)[g] /\ NextGroups(next)[g] # None
    BY <1>1, <1>7 DEF Running, g
  <2>3. next.groups[g] # None /\ NextGroups(next)[g].key = next.groups[g]
    BY <1>3, <1>5, <1>7, <2>2, GroupsMade DEF Objects
  <2>4. p \in ToSet(NextGroups(next)[g].key.members) /\ p \in ToSet(next.groups[g].members)
    BY <1>1, <2>2, <2>3 DEF g
  <2>5. NextGroups(next)[g].holds[p] = NextProxies(next)[p].built
    BY <1>3, <1>5, <1>7, <2>2, <2>4, HeldIsMade DEF Objects
  <2>6. next.proxies[p] # None
    BY <1>3, <1>5, <1>7, <2>3, <2>4, MembersAreProxies
  <2>7. NextProxies(next)[p].built \in 1 .. applies + 1
    BY <1>3, <1>7, <2>6, ProxiesMade DEF Objects
  <2> QED
    BY <1>1, <1>5, <1>7, <2>1, <2>2, <2>3, <2>4, <2>5, <2>7 DEF g
<1> QED
  BY <1>6, <1>7

LEMMA RouteKeeps ==
  ASSUME CoreTyped, Objects, Running, Connections,
         NEW c \in Conns, NEW r \in Routes, NEW p \in Proxies, Route(c, r, p)
  PROVE  Connections'
<1> DEFINE g == rules[r].target
           early == (phase # "idle")
<1>1. /\ conn[c] = Unused
      /\ conn' = [conn EXCEPT ![c] =
            [Unused EXCEPT !.pc = "dialing", !.route = r,
                           !.target = [password |-> users[r].password, target |-> g],
                           !.proxy = p, !.built = table[g].holds[p], !.early = early]]
      /\ UNCHANGED <<objects, switch, draining, timer>>
  BY DEF Route
<1>2. /\ conn'[c].pc = "dialing" /\ conn'[c].route = r
      /\ conn'[c].target = [password |-> users[r].password, target |-> g]
      /\ conn'[c].target.target = g
      /\ conn'[c].proxy = p /\ conn'[c].built = table[g].holds[p]
      /\ conn'[c].early = early /\ conn'[c].late = FALSE /\ conn'[c].moved = None
  BY <1>1 DEF Unused, CoreTyped
<1>3. \A b \in Conns \ {c} : conn'[b] = conn[b]
  BY <1>1 DEF CoreTyped
<1>4. draining[c] = None
  BY <1>1 DEF Unused, Connections, DrainedMoved
<1>5. /\ g \in Relays /\ table[g] # None /\ p \in ToSet(table[g].key.members)
      /\ phase = "idle" =>
           /\ current # None
           /\ current.routes[r] = [password |-> users[r].password, target |-> g]
           /\ proxies[p].built = table[g].holds[p] /\ table[g].holds[p] \in 1 .. applies
      /\ phase # "idle" =>
           /\ current = None \/ current.routes[r] = next.routes[r]
                => next.routes[r] = [password |-> users[r].password, target |-> g]
           /\ next.groups[g] # None /\ p \in ToSet(next.groups[g].members)
           /\ NextProxies(next)[p].built = table[g].holds[p]
           /\ table[g].holds[p] \in 1 .. applies + 1
  BY RoutedTo
<1>6. UNCHANGED <<current, proxies, groups, applies, draining, next, phase>>
  BY <1>1 DEF objects, switch
<1>7. NextProxies(next)' = NextProxies(next)
  BY <1>6 DEF NextProxies
<1>8. applies \in Nat
  BY DEF CoreTyped, Builds
<1> HIDE DEF g
<1>9. ActiveTyped'
  <2> SUFFICES ASSUME NEW b \in Conns, Active(b)'
               PROVE  /\ conn'[b].route \in Routes /\ conn'[b].target.target \in Relays
                      /\ conn'[b].proxy \in Proxies
                      /\ conn'[b].built \in 1 .. applies' + 1
                      /\ ~conn'[b].early => current' # None /\ conn'[b].built \in 1 .. applies'
                      /\ conn'[b].moved \in Left \cup {None}
    BY DEF ActiveTyped
  <2>1. CASE b = c
    <3>1. conn'[b].built \in 1 .. applies + 1 /\ (phase = "idle" => conn'[b].built \in 1 .. applies)
      BY <1>2, <1>5, <1>8, <2>1
    <3>2. ~conn'[b].early => phase = "idle"
      BY <1>2, <2>1
    <3> QED
      BY <1>2, <1>5, <1>6, <2>1, <3>1, <3>2
  <2>2. CASE b # c
    BY <1>3, <1>6, <2>2 DEF Connections, ActiveTyped, Active
  <2> QED
    BY <2>1, <2>2
<1>10. UnmovedAgree'
  <2> SUFFICES ASSUME NEW b \in Conns, Active(b)', ~conn'[b].early, conn'[b].moved = None
               PROVE  Agrees(b)'
    BY DEF UnmovedAgree
  <2>1. CASE b = c
    <3>1. phase = "idle"
      BY <1>2, <2>1
    <3>2. table[g] = groups[g]
      BY <3>1 DEF Running
    <3> QED
      BY <1>2, <1>5, <1>6, <2>1, <3>1, <3>2 DEF Agrees
  <2>2. CASE b # c
    <3>1. Agrees(b)
      BY <1>3, <2>2 DEF Connections, UnmovedAgree, Active
    <3> QED
      BY <1>3, <1>6, <2>2, <3>1 DEF Agrees
  <2> QED
    BY <2>1, <2>2
<1>11. EarlyAgree'
  <2> SUFFICES ASSUME NEW b \in Conns, Active(b)', conn'[b].early
               PROVE  LET h == conn'[b].target.target IN
                      /\ phase # "idle"
                      /\ conn'[b].moved = None
                      /\ current = None \/ current.routes[conn'[b].route] = next.routes[conn'[b].route]
                           => conn'[b].target = next.routes[conn'[b].route]
                      /\ next.groups[h] # None
                      /\ conn'[b].proxy \in ToSet(next.groups[h].members)
                      /\ NextProxies(next)[conn'[b].proxy].built = conn'[b].built
    BY <1>6, <1>7 DEF EarlyAgree
  <2>1. CASE b = c
    BY <1>2, <1>5, <2>1
  <2>2. CASE b # c
    BY <1>3, <2>2 DEF Connections, EarlyAgree, Active
  <2> QED
    BY <2>1, <2>2
<1>12. UndrainedUnmoved'
  BY <1>2, <1>3, <1>6 DEF Connections, UndrainedUnmoved, Active
<1>13. DrainedMoved'
  BY <1>2, <1>3, <1>4, <1>6 DEF Connections, DrainedMoved
<1> QED
  BY <1>9, <1>10, <1>11, <1>12, <1>13 DEF Connections

LEMMA RegisterKeeps ==
  ASSUME CoreTyped, Connections, NEW c \in Conns, Register(c)
  PROVE  Connections'
<1>1. UNCHANGED <<objects, next, phase, draining>> /\ conn[c].pc = "dialing"
  BY DEF Register, switch
<1>2. \A b \in Conns :
        /\ conn'[b].pc = IF b = c THEN "open" ELSE conn[b].pc
        /\ conn'[b].route = conn[b].route /\ conn'[b].target = conn[b].target
        /\ conn'[b].proxy = conn[b].proxy /\ conn'[b].built = conn[b].built
        /\ conn'[b].early = conn[b].early /\ conn'[b].late = conn[b].late
        /\ conn'[b].moved = conn[b].moved
  BY DEF Register, CoreTyped
<1>3. \A b \in Conns : Active(b)' <=> Active(b)
  BY <1>1, <1>2 DEF Active
<1>4. /\ ActiveTyped' /\ UnmovedAgree' /\ EarlyAgree' /\ UndrainedUnmoved'
      /\ \A b \in Conns : conn'[b].pc \in {"unused", "dialing"} => draining'[b] = None
  <2>1. \A b \in Conns : Active(b) => conn[b].moved \in Left \cup {None}
    BY DEF Connections, ActiveTyped
  <2> QED
    BY <1>1, <1>2, <1>3, <2>1, ConnectionsKept
<1>5. DrainedMoved'
  BY <1>1, <1>2, <1>4 DEF DrainedMoved, Connections
<1> QED
  BY <1>4, <1>5 DEF Connections

LEMMA FinishKeeps ==
  ASSUME CoreTyped, Connections, NEW c \in Conns, Finish(c)
  PROVE  Connections'
<1>1. UNCHANGED <<objects, next, phase, draining>>
  BY DEF Finish, switch
<1>2. \A b \in Conns : IF b = c THEN conn'[b].pc = "finished" ELSE conn'[b] = conn[b]
  BY DEF Finish, Ended, Unused, CoreTyped
<1>3. \A b \in Conns : /\ Active(b)' => Active(b) /\ conn'[b] = conn[b]
                       /\ conn'[b].pc = "unused" => conn[b].pc = "unused"
                       /\ conn'[b].pc = "dialing" => conn[b].pc = "dialing"
  BY <1>2 DEF Active
<1>4. /\ ActiveTyped' /\ UnmovedAgree' /\ EarlyAgree' /\ UndrainedUnmoved'
      /\ \A b \in Conns : conn'[b].pc \in {"unused", "dialing"} => draining'[b] = None
  <2>1. \A b \in Conns : Active(b) => conn[b].moved \in Left \cup {None}
    BY DEF Connections, ActiveTyped
  <2> QED
    BY <1>1, <1>3, <2>1, ConnectionsKept
<1>5. DrainedMoved'
  BY <1>1, <1>2, <1>4 DEF DrainedMoved, Connections
<1> QED
  BY <1>4, <1>5 DEF Connections

\* Time moves no connection.
LEMMA TickPlaces ==
  ASSUME CoreTyped, Tick, NEW b \in Conns
  PROVE  conn'[b].pc = conn[b].pc
BY DEF Tick, CoreTyped

LEMMA TickKeeps ==
  ASSUME CoreTyped, Connections, Tick
  PROVE  Connections'
<1>1. UNCHANGED <<objects, next, phase>> /\ \A b \in Conns : draining'[b] = Less(draining[b])
  BY DEF Tick, switch
<1>2. \A b \in Conns :
        /\ conn'[b].pc = conn[b].pc
        /\ conn'[b].route = conn[b].route /\ conn'[b].target = conn[b].target
        /\ conn'[b].proxy = conn[b].proxy /\ conn'[b].built = conn[b].built
        /\ conn'[b].early = conn[b].early /\ conn'[b].late = conn[b].late
        /\ conn'[b].moved = IF conn[b].moved = None \/ conn[b].moved = DrainTimeout
                            THEN conn[b].moved ELSE conn[b].moved + 1
  BY DEF Tick, CoreTyped
<1>3. DrainTimeout \in Nat \ {0} /\ None \notin Left
  BY TimeoutAssumption, AbsenceAssumption
<1>4. \A b \in Conns : /\ draining[b] \in Left \cup {None}
                       /\ draining'[b] = None <=> draining[b] = None
                       /\ draining[b] # None =>
                            draining'[b] \in Left /\ (draining[b] = 0 \/ draining'[b] = draining[b] - 1)
                       /\ draining[b] = 0 => draining'[b] = 0
  BY <1>1, <1>3 DEF Less, Left, CoreTyped
<1>5. \A b \in Conns : Active(b) =>
        /\ conn[b].moved \in Left \cup {None} /\ conn'[b].moved \in Left \cup {None}
        /\ conn'[b].moved = None <=> conn[b].moved = None
  BY <1>2, <1>3 DEF Connections, ActiveTyped, Left
<1>6. \A b \in Conns : Active(b)' <=> Active(b)
  BY <1>2 DEF Active
<1>7. /\ ActiveTyped' /\ UnmovedAgree' /\ EarlyAgree' /\ UndrainedUnmoved'
      /\ \A b \in Conns : conn'[b].pc \in {"unused", "dialing"} => draining'[b] = None
  BY <1>1, <1>2, <1>4, <1>5, <1>6, ConnectionsKept
<1>8. ASSUME NEW b \in Conns, conn'[b].pc = "open", draining'[b] # None
      PROVE  conn'[b].moved # None /\ conn'[b].moved + draining'[b] >= DrainTimeout
  <2>1. /\ draining[b] \in Left /\ draining[b] # None /\ conn[b].moved \in Left
        /\ conn[b].moved # None /\ conn[b].moved + draining[b] >= DrainTimeout
    BY <1>2, <1>4, <1>5, <1>8 DEF Connections, DrainedMoved, Active
  <2>2. conn'[b].moved = IF conn[b].moved = DrainTimeout THEN conn[b].moved ELSE conn[b].moved + 1
    BY <1>2, <2>1
  <2> QED
    BY <1>3, <1>4, <1>5, <1>8, <2>1, <2>2 DEF Left
<1> QED
  BY <1>7, <1>8 DEF Connections, DrainedMoved

LEMMA SweepKeeps ==
  ASSUME CoreTyped, Connections, Sweep
  PROVE  Connections'
<1> DEFINE due == { c \in Conns : conn[c].pc = "open" /\ draining[c] = 0 }
<1>1. /\ UNCHANGED <<objects, next, phase>>
      /\ conn' = [c \in Conns |-> IF c \in due THEN Ended("closed") ELSE conn[c]]
      /\ \A b \in Conns : draining'[b] = IF conn'[b].pc # "open" THEN None ELSE draining[b]
  BY DEF Sweep, switch
<1>2. \A b \in Conns : IF b \in due THEN conn'[b].pc = "closed" ELSE conn'[b] = conn[b]
  BY <1>1 DEF Ended, Unused
<1>3. \A b \in Conns : /\ Active(b)' => Active(b) /\ conn'[b] = conn[b]
                       /\ Active(b)' => (draining'[b] = None <=> draining[b] = None)
                       /\ ~Active(b)' => draining'[b] = None
  BY <1>1, <1>2 DEF Active, Connections, DrainedMoved
<1>4. \A b \in Conns : Active(b) => conn[b].moved \in Left \cup {None}
  BY DEF Connections, ActiveTyped
<1>5. /\ ActiveTyped' /\ UnmovedAgree' /\ EarlyAgree' /\ UndrainedUnmoved'
      /\ \A b \in Conns : conn'[b].pc \in {"unused", "dialing"} => draining'[b] = None
  <2> HIDE DEF due
  <2>1. \A b \in Conns : /\ conn'[b].pc = "unused" => conn[b].pc = "unused"
                         /\ conn'[b].pc = "dialing" => conn[b].pc = "dialing"
    BY <1>2
  <2>2. phase = "idle"
    BY DEF Sweep
  <2> QED
    BY <1>1, <1>3, <1>4, <2>1, <2>2, ConnectionsKept
<1>6. \A b \in Conns : conn'[b].pc = "open" => conn'[b] = conn[b] /\ draining'[b] = draining[b]
  BY <1>1, <1>2
<1>7. DrainedMoved'
  BY <1>5, <1>6 DEF DrainedMoved, Connections
<1> QED
  BY <1>5, <1>7 DEF Connections

-----------------------------------------------------------------------------
(* The timer *)

LEMMA TimerKept == CoreTyped /\ TimerCoversDeadlines /\ [Next]_vars => TimerCoversDeadlines'
<1> SUFFICES ASSUME CoreTyped, TimerCoversDeadlines, [Next]_vars, NEW c \in Conns, draining'[c] # None
             PROVE  timer' # None /\ timer' <= draining'[c]
  BY DEF TimerCoversDeadlines
<1>0. CoreTyped'
  BY CoreTypeKept
<1>1. ASSUME UNCHANGED <<draining, timer>>
      PROVE  timer' # None /\ timer' <= draining'[c]
  BY <1>1 DEF TimerCoversDeadlines
<1>2. ASSUME timer' = Earliest(draining')
      PROVE  timer' # None /\ timer' <= draining'[c]
  BY <1>0, <1>2, EarliestDeadline DEF CoreTyped
<1>3. CASE Commit
  <2>1. CASE MarkStale(next) = {}
    BY <1>1, <1>3, <2>1, Committing DEF Rearm, CoreTyped
  <2>2. CASE MarkStale(next) # {}
    BY <1>2, <1>3, <2>2, Committing DEF Rearm
  <2> QED
    BY <2>1, <2>2
<1>4. CASE Tick
  <2>1. draining'[c] = Less(draining[c]) /\ timer' = Less(timer)
    BY <1>4 DEF Tick
  <2>2. draining[c] # None
    BY <2>1 DEF Less
  <2>3. draining[c] \in Left /\ timer \in Left /\ timer # None /\ timer <= draining[c]
    BY <2>2 DEF CoreTyped, TimerCoversDeadlines
  <2> QED
    BY <2>1, <2>2, <2>3, TimeoutAssumption, AbsenceAssumption DEF Less, Left
<1>5. CASE Sweep
  BY <1>2, <1>5 DEF Sweep
<1>6. CASE UNCHANGED vars
  BY <1>1, <1>6 DEF vars
<1>7. ASSUME NEW b \in Conns,
             \/ \E r \in Routes, p \in Proxies : Route(b, r, p)
             \/ Register(b)
             \/ Finish(b)
      PROVE  timer' # None /\ timer' <= draining'[c]
  BY <1>1, <1>7 DEF Route, Register, Finish
<1>8. ASSUME UpdateRules \/ PatchInboundListeners \/ \E d \in Desireds : UpdateProxies(d)
      PROVE  timer' # None /\ timer' <= draining'[c]
  BY <1>1, <1>8 DEF UpdateProxies, UpdateRules, PatchInboundListeners
<1> QED
  BY <1>3, <1>4, <1>5, <1>6, <1>7, <1>8 DEF Next

-----------------------------------------------------------------------------
(* Theorems *)

IndInv ==
  CoreTyped /\ Objects /\ ChecksTracked /\ Running /\ Connections /\ TimerCoversDeadlines

LEMMA CoreInit == Init => IndInv
<1> SUFFICES ASSUME Init PROVE IndInv
  OBVIOUS
<1> USE DEF Init
<1>1. CoreTyped
  <2>1. \A c \in Conns :
          conn[c] = [pc |-> conn[c].pc, route |-> conn[c].route, target |-> conn[c].target,
                     proxy |-> conn[c].proxy, built |-> conn[c].built, early |-> conn[c].early,
                     late |-> conn[c].late, moved |-> conn[c].moved]
    BY DEF Unused
  <2>2. applies \in Builds /\ draining \in [Conns -> Left \cup {None}] /\ DOMAIN conn = Conns
    BY BoundAssumption DEF Builds
  <2> QED
    BY <2>1, <2>2 DEF CoreTyped
<1>2. Objects
  BY DEF Objects, LiveProxies, LiveGroups, GroupsHoldLiveProxies
<1>3. ChecksTracked /\ Running
  BY DEF ChecksTracked, GroupChecks, Running, InForce
<1>4. \A c \in Conns : conn[c].pc = "unused" /\ draining[c] = None
  BY DEF Unused
<1>5. Connections
  BY <1>4 DEF Connections, ActiveTyped, UnmovedAgree, EarlyAgree, UndrainedUnmoved, DrainedMoved, Active
<1>6. TimerCoversDeadlines
  BY DEF TimerCoversDeadlines
<1> QED
  BY <1>1, <1>2, <1>3, <1>5, <1>6 DEF IndInv

LEMMA CoreInvariant == IndInv /\ [Next]_vars => IndInv'
<1> SUFFICES ASSUME IndInv, [Next]_vars PROVE IndInv'
  OBVIOUS
<1>0. CoreTyped /\ Objects /\ ChecksTracked /\ Running /\ Connections
  BY DEF IndInv
<1>1. CoreTyped' /\ TimerCoversDeadlines'
  BY CoreTypeKept, TimerKept DEF IndInv
<1> SUFFICES Objects' /\ ChecksTracked' /\ Running' /\ Connections'
  BY <1>1 DEF IndInv
<1>2. ASSUME UNCHANGED <<objects, switch>>
      PROVE  Objects' /\ ChecksTracked' /\ Running'
  <2>1. UNCHANGED <<next, phase, checking, table, rules, users>>
    BY <1>2 DEF switch
  <2> QED
    BY <1>0, <1>2, <2>1, ObjectsKept, ChecksKept, RunningKept
<1>3. ASSUME NEW c \in Conns, NEW r \in Routes, NEW p \in Proxies, Route(c, r, p)
      PROVE  Objects' /\ ChecksTracked' /\ Running' /\ Connections'
  <2>1. UNCHANGED <<objects, switch>>
    BY <1>3 DEF Route
  <2> QED
    BY <1>0, <1>2, <1>3, <2>1, RouteKeeps
<1>4. ASSUME NEW c \in Conns, Register(c)
      PROVE  Objects' /\ ChecksTracked' /\ Running' /\ Connections'
  BY <1>0, <1>2, <1>4, RegisterKeeps DEF Register
<1>5. ASSUME NEW c \in Conns, Finish(c)
      PROVE  Objects' /\ ChecksTracked' /\ Running' /\ Connections'
  BY <1>0, <1>2, <1>5, FinishKeeps DEF Finish
<1>6. ASSUME NEW d \in Desireds, UpdateProxies(d)
      PROVE  Objects' /\ ChecksTracked' /\ Running' /\ Connections'
  <2>1. UNCHANGED <<objects, conn, draining>> /\ phase = "idle"
    BY <1>6 DEF UpdateProxies
  <2> QED
    BY <1>0, <1>6, <2>1, ObjectsKept, ChecksStarted, RunningStarted, SwitchKeeps
<1>7. CASE UpdateRules \/ PatchInboundListeners
  <2>1. /\ UNCHANGED <<objects, next, checking, table, conn, draining>>
        /\ phase # "idle" /\ phase' # "idle"
    BY <1>7 DEF UpdateRules, PatchInboundListeners
  <2> QED
    BY <1>0, <1>7, <2>1, ObjectsKept, ChecksKept, RunningKept, SwitchKeeps
<1>8. CASE Commit
  BY <1>0, <1>8, ObjectsMade, ChecksMade, RunningMade, ConnectionsMoved
<1>9. CASE Tick
  BY <1>0, <1>2, <1>9, TickKeeps DEF Tick
<1>10. CASE Sweep
  BY <1>0, <1>2, <1>10, SweepKeeps DEF Sweep
<1>11. CASE UNCHANGED vars
  <2>1. UNCHANGED <<objects, switch, conn, draining, next, phase>>
    BY <1>11 DEF vars, switch
  <2> QED
    BY <1>0, <1>2, <2>1, SwitchKeeps
<1> QED
  BY <1>3, <1>4, <1>5, <1>6, <1>7, <1>8, <1>9, <1>10, <1>11 DEF Next

LEMMA CoreAlways == Spec => []IndInv
BY CoreInit, CoreInvariant, PTL DEF Spec

\* The members a group hands connections to are the proxies in use.
THEOREM GroupsAreCurrent == Spec => []GroupsHoldLiveProxies
<1>1. IndInv => GroupsHoldLiveProxies
  BY DEF IndInv, Objects
<1> QED
  BY <1>1, CoreAlways, PTL

\* Between applies exactly the groups in use run health checks.
THEOREM ChecksAreCurrent == Spec => []ChecksMatchGroups
<1>1. IndInv => ChecksMatchGroups
  BY DEF IndInv, ChecksTracked, ChecksMatchGroups, GroupChecks
<1> QED
  BY <1>1, CoreAlways, PTL

\* Between applies an open connection off its route is being drained, unless
\* it was dialled while one marked the others.
THEOREM StaleAreDrained == Spec => []StaleIsDraining
<1>1. IndInv => StaleIsDraining
  <2> SUFFICES ASSUME IndInv, NEW c \in Conns,
                      phase = "idle", conn[c].pc = "open", ~conn[c].late, draining[c] = None
               PROVE  Agrees(c)
    BY DEF StaleIsDraining, Agrees
  <2> QED
    BY DEF IndInv, Connections, UndrainedUnmoved, UnmovedAgree, EarlyAgree, Active
<1> QED
  BY <1>1, CoreAlways, PTL

\* No deadline passes without the timer having fired.
THEOREM DeadlinesAreCovered == Spec => []TimerCoversDeadlines
<1>1. IndInv => TimerCoversDeadlines
  BY DEF IndInv
<1> QED
  BY <1>1, CoreAlways, PTL

\* A connection is closed only when a change moved it, or it was routed in the
\* middle of one of its route, and not before it had the whole timeout.
THEOREM NoneClosedEarly == Spec => NotClosedEarly
<1> DEFINE Early(c) == conn[c].pc = "open" /\ conn'[c].pc = "closed" => conn[c].moved = DrainTimeout
<1>1. IndInv /\ [Next]_vars => [\A c \in Conns : Early(c)]_vars
  <2> SUFFICES ASSUME IndInv, Next, NEW c \in Conns, conn[c].pc = "open", conn'[c].pc = "closed"
               PROVE  conn[c].moved = DrainTimeout
    OBVIOUS
  <2>1. CASE Sweep
    <3>1. draining[c] = 0
      BY <2>1 DEF Sweep, IndInv, CoreTyped
    <3> QED
      BY <3>1, TimeoutAssumption, AbsenceAssumption
      DEF IndInv, Connections, ActiveTyped, DrainedMoved, Active, Left
  <2>2. ASSUME Commit
        PROVE  FALSE
    BY <2>2, ConnApplied DEF IndInv
  <2>3. ASSUME Tick
        PROVE  FALSE
    BY <2>3, TickPlaces DEF IndInv
  <2>4. ASSUME NEW b \in Conns, NEW r \in Routes, NEW p \in Proxies, Route(b, r, p)
        PROVE  FALSE
    <3>1. conn[b] = Unused
          /\ conn' = [conn EXCEPT ![b] =
               [Unused EXCEPT !.pc = "dialing", !.route = r,
                              !.target = [password |-> users[r].password, target |-> rules[r].target],
                              !.proxy = p, !.built = table[rules[r].target].holds[p],
                              !.early = (phase # "idle")]]
      BY <2>4 DEF Route
    <3>2. conn'[b].pc = "dialing" /\ (c # b => conn'[c] = conn[c])
      BY <3>1 DEF Unused, IndInv, CoreTyped
    <3> QED
      BY <3>2
  <2>5. ASSUME NEW b \in Conns, Register(b) \/ Finish(b)
        PROVE  FALSE
    BY <2>5 DEF Register, Finish, Ended, Unused, IndInv, CoreTyped
  <2>6. ASSUME UpdateRules \/ PatchInboundListeners \/ \E d \in Desireds : UpdateProxies(d)
        PROVE  FALSE
    BY <2>6 DEF UpdateRules, PatchInboundListeners, UpdateProxies
  <2> QED
    BY <2>1, <2>2, <2>3, <2>4, <2>5, <2>6 DEF Next
<1> QED
  BY <1>1, CoreAlways, PTL DEF NotClosedEarly, Spec
=============================================================================
