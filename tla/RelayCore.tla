----------------------------- MODULE RelayCore ------------------------------
(***************************************************************************)
(* relay.core (internal/relay/core.go) and the sweep timer that           *)
(* Manager.Run keeps for it: how a new configuration replaces the objects *)
(* mihomo runs, and what becomes of the connections open at that time.    *)
(*                                                                         *)
(* A proxy or group is an object, told apart by the number of the apply   *)
(* that built it; an apply keeps the objects whose configuration and      *)
(* parts are unchanged.  An open connection whose route or upstream a     *)
(* change takes away is drained: it is closed after DrainTimeout unless   *)
(* it finishes first.                                                     *)
(*                                                                         *)
(* mihomo itself is external.  A connection is let in by a listener,      *)
(* routed by the rules to a group of the table, its upstream is dialled,  *)
(* and only then is it registered with the statistics manager, the one    *)
(* place where core.go can see it.  An apply replaces table, rules and    *)
(* listeners one after the other and only then looks for connections it   *)
(* has moved, while mihomo goes on with what it has at the moment: a      *)
(* connection may be routed by a mixture of two configurations, or by the *)
(* new one and yet be judged as if the old one had routed it.             *)
(***************************************************************************)
EXTENDS Integers, SequencesExt

CONSTANTS
  Proxies,       \* mihomo names of upstream proxies
  Relays,        \* relays, which are also the names of their groups
  Routes,        \* callers: listener and username
  Conns,         \* connections, each used once: mihomo's identifiers are unique
  Desireds,      \* configurations to apply, see below
  Reject,        \* the target of a route whose relay has no usable upstream
  None,          \* absence
  DrainTimeout,  \* drainTimeout in ticks
  MaxApplies     \* bound: at most this many applies

\* What Render makes: the configuration of each proxy, the type and members
\* of each group, and the password and target of each route.  Groups have
\* members, which are proxies; routes lead to groups.
ASSUME DesiredsAssumption ==
  \A d \in Desireds :
    /\ \A g \in Relays : d.groups[g] # None =>
         /\ d.groups[g].members \in Seq({ p \in Proxies : d.proxies[p] # None })
         /\ d.groups[g].members # <<>>
    /\ \A r \in Routes : d.routes[r] # None =>
         /\ d.routes[r] = [password |-> d.routes[r].password, target |-> d.routes[r].target]
         /\ \/ d.routes[r].target = Reject
            \/ d.routes[r].target \in Relays /\ d.groups[d.routes[r].target] # None
ASSUME TimeoutAssumption == DrainTimeout \in Nat \ {0}
ASSUME BoundAssumption == MaxApplies \in Nat

Builds == 0 .. MaxApplies
Left == 0 .. DrainTimeout

\* Objects and times are not absent.
ASSUME AbsenceAssumption ==
  /\ None \notin Left
  /\ \A d \in Desireds :
       /\ d # None
       /\ \A p \in Proxies, n \in Builds : [key |-> d.proxies[p], built |-> n] # None
       /\ \A g \in Relays : d.groups[g] # None =>
            \A n \in Builds, h \in [ToSet(d.groups[g].members) -> Builds] :
              [key |-> d.groups[g], holds |-> h, built |-> n] # None

VARIABLES
  current,   \* core.current
  proxies,   \* core.proxies
  groups,    \* core.groups
  checking,  \* the groups whose health checks run: names with build numbers
  applies,   \* successful applies so far
  next,      \* core.apply: the configuration it is switching to
  phase,     \* core.apply: what it does next, or "idle"
  table,     \* mihomo's groups, set by tunnel.UpdateProxies
  rules,     \* mihomo's rules, set by tunnel.UpdateRules: where routes lead
  users,     \* the users of mihomo's listeners: the callers that are let in
  conn,      \* conn[c]: what mihomo knows of connection c
  draining,  \* core.draining: ticks left until the deadline
  timer      \* Manager.Run, sweepTimer: ticks left until it fires

objects == <<current, proxies, groups, applies>>
switch == <<next, phase, checking, table, rules, users>>
vars == <<objects, switch, conn, draining, timer>>

\* The rest is history.  early says that c was routed during the switch that
\* is under way, late that connections were marked after c was routed and
\* before it was registered.  moved is the ticks, at most DrainTimeout, since
\* a switch ended that first disagreed with how c was routed or, if it was
\* routed during that switch, changed its route or its upstream.
Unused == [pc |-> "unused", route |-> None, target |-> None, proxy |-> None,
           built |-> 0, early |-> FALSE, late |-> FALSE, moved |-> None]

\* Where a connection that has ended came from no longer matters.
Ended(pc) == [Unused EXCEPT !.pc = pc]

NoRoutes == [r \in Routes |-> None]

Init ==
  /\ current = None
  /\ proxies = [p \in Proxies |-> None]
  /\ groups = [g \in Relays |-> None]
  /\ checking = {}
  /\ applies = 0
  /\ next = None
  /\ phase = "idle"
  /\ table = groups
  /\ rules = NoRoutes
  /\ users = NoRoutes
  /\ conn = [c \in Conns |-> Unused]
  /\ draining = [c \in Conns |-> None]
  /\ timer = None

-----------------------------------------------------------------------------
(* Connections *)

\* A listener lets a caller in, the rules lead it to a group, the group picks
\* one of its members.  What leads nowhere ends at the last rule, which
\* rejects it.
Route(c, r, p) ==
  /\ conn[c] = Unused
  /\ users[r] # None
  /\ rules[r] # None
  /\ LET g == rules[r].target IN
       /\ g # Reject
       /\ table[g] # None
       /\ p \in ToSet(table[g].key.members)
       /\ conn' = [conn EXCEPT ![c] =
            [Unused EXCEPT !.pc = "dialing", !.route = r,
                           !.target = [password |-> users[r].password, target |-> g],
                           !.proxy = p, !.built = table[g].holds[p],
                           !.early = (phase # "idle")]]
  /\ UNCHANGED <<objects, switch, draining, timer>>

\* The upstream answered: mihomo registers the connection.
Register(c) ==
  /\ conn[c].pc = "dialing"
  /\ conn' = [conn EXCEPT ![c].pc = "open"]
  /\ UNCHANGED <<objects, switch, draining, timer>>

\* The connection ends on its own.
Finish(c) ==
  /\ conn[c].pc \in {"dialing", "open"}
  /\ conn' = [conn EXCEPT ![c] = Ended("finished")]
  /\ UNCHANGED <<objects, switch, draining, timer>>

-----------------------------------------------------------------------------
(* core.apply *)

\* The proxies of d: those whose configuration is unchanged are kept.
NextProxies(d) ==
  [p \in Proxies |->
     IF d.proxies[p] = None THEN None
     ELSE IF proxies[p] # None /\ proxies[p].key = d.proxies[p]
     THEN proxies[p]
     ELSE [key |-> d.proxies[p], built |-> applies + 1]]

\* Mutant of SameProxies: the members' names are compared by the group's
\* own configuration, nothing else is looked at.
AnyProxies(members, d) == TRUE

SameProxies(members, d) ==
  \A p \in ToSet(members) : proxies[p] # None /\ proxies[p] = NextProxies(d)[p]

\* A group holds its members, so it is rebuilt whenever one of them is.
NextGroups(d) ==
  [g \in Relays |->
     IF d.groups[g] = None THEN None
     ELSE IF groups[g] # None /\ groups[g].key = d.groups[g]
                              /\ SameProxies(d.groups[g].members, d)
     THEN groups[g]
     ELSE [key   |-> d.groups[g],
           holds |-> [p \in ToSet(d.groups[g].members) |-> NextProxies(d)[p].built],
           built |-> applies + 1]]

\* Mutant of Replaced: only the groups that are gone are closed.
Removed(d) == { g \in Relays : groups[g] # None /\ d.groups[g] = None }

\* The groups whose objects are given up.
Replaced(d) == { g \in Relays : groups[g] # None /\ groups[g] # NextGroups(d)[g] }

Fresh(d) == { g \in Relays : NextGroups(d)[g] # None /\ groups[g] # NextGroups(d)[g] }

\* Mutant of Stale: a rebuilt upstream of the same name is not noticed.
StaleByName(c, d) ==
  LET g == conn[c].target.target IN
  \/ current.routes[conn[c].route] # d.routes[conn[c].route]
  \/ d.groups[g] = None
  \/ conn[c].proxy \notin ToSet(d.groups[g].members)

\* The change from current to d moves c off its route or its upstream, going
\* by the name of the upstream.
Stale(c, d) ==
  LET g == conn[c].target.target IN
  \/ current.routes[conn[c].route] # d.routes[conn[c].route]
  \/ d.groups[g] = None
  \/ conn[c].proxy \notin ToSet(d.groups[g].members)
  \/ proxies[conn[c].proxy] # NextProxies(d)[conn[c].proxy]

MarkStale(d) ==
  { c \in Conns : /\ current # None
                  /\ conn[c].pc = "open"
                  /\ draining[c] = None
                  /\ Stale(c, d) }

Earliest(left) ==
  LET deadlines == { left[c] : c \in Conns } \ {None}
  IN IF deadlines = {} THEN None ELSE Min(deadlines)

\* History: d is not how c was routed.
Moved(c, d) ==
  LET g == conn[c].target.target IN
  \/ d.routes[conn[c].route] # conn[c].target
  \/ d.groups[g] = None
  \/ conn[c].proxy \notin ToSet(d.groups[g].members)
  \/ NextProxies(d)[conn[c].proxy].built # conn[c].built

\* History: the change to d counts as one of c's route, rightly or because c
\* was routed in the middle of it.
Touches(c, d) == Moved(c, d) \/ (conn[c].early /\ c \in MarkStale(d))

\* Mutant of Rearm: every change drains for DrainTimeout from now.
RearmLater(stale) == timer' = IF stale = {} THEN timer ELSE DrainTimeout

\* Manager.apply looks at the timer only when it started to drain something.
Rearm(stale) == timer' = IF stale = {} THEN timer ELSE Earliest(draining')

\* Everything is built and parsed, or the apply fails and nothing happens.
\* The health checks of the new groups start, and mihomo gets the new table.
UpdateProxies(d) ==
  /\ phase = "idle"
  /\ applies < MaxApplies
  /\ d # current
  /\ next' = d
  /\ phase' = "rules"
  /\ checking' = checking \cup { <<g, applies + 1>> : g \in Fresh(d) }
  /\ table' = NextGroups(d)
  /\ UNCHANGED <<objects, rules, users, conn, draining, timer>>

UpdateRules ==
  /\ phase = "rules"
  /\ phase' = "listeners"
  /\ rules' = next.routes
  /\ UNCHANGED <<objects, next, checking, table, users, conn, draining, timer>>

PatchInboundListeners ==
  /\ phase = "listeners"
  /\ phase' = "mark"
  /\ users' = next.routes
  /\ UNCHANGED <<objects, next, checking, table, rules, conn, draining, timer>>

\* The health checks of the groups given up end, connections are marked, and
\* core takes note of what is in force now.
Commit ==
  LET stale == MarkStale(next) IN
  /\ phase = "mark"
  /\ applies' = applies + 1
  /\ current' = next
  /\ proxies' = NextProxies(next)
  /\ groups' = NextGroups(next)
  /\ checking' = checking \ { <<g, groups[g].built>> : g \in Replaced(next) }
  /\ draining' = [c \in Conns |-> IF c \in stale THEN DrainTimeout ELSE draining[c]]
  /\ Rearm(stale)
  /\ conn' = [c \in Conns |->
       IF conn[c].pc \notin {"dialing", "open"} THEN conn[c]
       ELSE [conn[c] EXCEPT
               !.early = FALSE,
               !.late  = @ \/ conn[c].pc = "dialing",
               !.moved = IF @ = None /\ Touches(c, next) THEN 0 ELSE @]]
  /\ next' = None
  /\ phase' = "idle"
  /\ UNCHANGED <<table, rules, users>>

-----------------------------------------------------------------------------
(* Time, and core.sweep *)

Less(n) == IF n = None \/ n = 0 THEN n ELSE n - 1

Tick ==
  /\ draining' = [c \in Conns |-> Less(draining[c])]
  /\ timer' = Less(timer)
  /\ conn' = [c \in Conns |->
       IF conn[c].moved = None \/ conn[c].moved = DrainTimeout THEN conn[c]
       ELSE [conn[c] EXCEPT !.moved = @ + 1]]
  /\ UNCHANGED <<objects, switch>>

\* Mutant of Sweep: everything draining is closed, due or not.
SweepAll ==
  LET due == { c \in Conns : conn[c].pc = "open" /\ draining[c] # None } IN
  /\ phase = "idle"
  /\ timer = 0
  /\ conn' = [c \in Conns |-> IF c \in due THEN Ended("closed") ELSE conn[c]]
  /\ draining' = [c \in Conns |-> None]
  /\ timer' = None
  /\ UNCHANGED <<objects, switch>>

\* Mutant of Sweep: the timer is not set again.
SweepOnce ==
  LET due == { c \in Conns : conn[c].pc = "open" /\ draining[c] = 0 } IN
  /\ phase = "idle"
  /\ timer = 0
  /\ conn' = [c \in Conns |-> IF c \in due THEN Ended("closed") ELSE conn[c]]
  /\ draining' = [c \in Conns |-> IF conn'[c].pc # "open" THEN None ELSE draining[c]]
  /\ timer' = None
  /\ UNCHANGED <<objects, switch>>

\* The timer fires: what is still open past its deadline is closed, what
\* has finished is forgotten, and the timer is set for the rest.
Sweep ==
  LET due == { c \in Conns : conn[c].pc = "open" /\ draining[c] = 0 } IN
  /\ phase = "idle"
  /\ timer = 0
  /\ conn' = [c \in Conns |-> IF c \in due THEN Ended("closed") ELSE conn[c]]
  /\ draining' = [c \in Conns |-> IF conn'[c].pc # "open" THEN None ELSE draining[c]]
  /\ timer' = Earliest(draining')
  /\ UNCHANGED <<objects, switch>>

-----------------------------------------------------------------------------
Next ==
  \/ \E c \in Conns, r \in Routes, p \in Proxies : Route(c, r, p)
  \/ \E c \in Conns : Register(c)
  \/ \E c \in Conns : Finish(c)
  \/ \E d \in Desireds : UpdateProxies(d)
  \/ UpdateRules
  \/ PatchInboundListeners
  \/ Commit
  \/ Tick
  \/ Sweep

\* Time goes on, Run takes the timer, and an apply runs to its end; no
\* connection has to finish.
Fairness ==
  /\ WF_vars(Tick)
  /\ WF_vars(Sweep)
  /\ WF_vars(UpdateRules \/ PatchInboundListeners \/ Commit)

Spec == Init /\ [][Next]_vars
FairSpec == Spec /\ Fairness

-----------------------------------------------------------------------------
(* Properties *)

TypeOK ==
  /\ current \in Desireds \cup {None}
  /\ \A p \in Proxies : proxies[p] # None =>
       proxies[p].key = current.proxies[p] /\ proxies[p].built \in Builds
  /\ \A g \in Relays : groups[g] # None =>
       groups[g].key = current.groups[g] /\ groups[g].built \in Builds
  /\ checking \subseteq Relays \X Builds
  /\ applies \in Builds
  /\ next \in Desireds \cup {None}
  /\ phase \in {"idle", "rules", "listeners", "mark"}
  /\ \A c \in Conns :
       /\ conn[c].pc \in {"unused", "dialing", "open", "finished", "closed"}
       /\ conn[c].built \in Builds
       /\ conn[c].early \in BOOLEAN /\ conn[c].late \in BOOLEAN
       /\ conn[c].moved \in Left \cup {None}
  /\ draining \in [Conns -> Left \cup {None}]
  /\ timer \in Left \cup {None}

\* A kept group hands out the proxies that are in use, never one that a
\* change has replaced.
GroupsHoldLiveProxies ==
  \A g \in Relays : groups[g] # None =>
    \A p \in ToSet(groups[g].key.members) : groups[g].holds[p] = proxies[p].built

\* Whenever no apply is under way, exactly the groups in use run health
\* checks, each one time: none is left behind by a change and none loses its
\* checks.
ChecksMatchGroups ==
  phase = "idle" =>
    checking = { <<g, groups[g].built>> : g \in { h \in Relays : groups[h] # None } }

\* Whenever no apply is under way, an open connection that is not being
\* drained runs as the present configuration would have it, through objects
\* in use, whatever mixture of configurations routed it.  Connections that
\* were being dialled when an apply marked others are the exception: it
\* cannot see them.
StaleIsDraining ==
  \A c \in Conns :
    phase = "idle" /\ conn[c].pc = "open" /\ ~conn[c].late /\ draining[c] = None =>
      LET g == conn[c].target.target IN
      /\ current.routes[conn[c].route] = conn[c].target
      /\ groups[g] # None
      /\ conn[c].proxy \in ToSet(groups[g].key.members)
      /\ proxies[conn[c].proxy].built = conn[c].built

\* Whenever something is draining the timer is set, and for no later than
\* the first deadline, although an apply that drains nothing leaves it alone
\* and one that does sets it anew.
TimerCoversDeadlines ==
  \A c \in Conns : draining[c] # None => timer # None /\ timer <= draining[c]

\* README.md, "Relay", "Hot reload": a connection is closed only if its route
\* changed, and gets the whole timeout from the change on, however often the
\* configuration changes in the meantime.  The exception is a connection
\* routed while an apply that changes its route or its upstream is under
\* way: the code takes it for one of before even if the new configuration
\* has routed it, and closes it a timeout later.
NotClosedEarly ==
  [][ \A c \in Conns :
        conn[c].pc = "open" /\ conn'[c].pc = "closed" => conn[c].moved = DrainTimeout ]_vars

\* README.md, "Relay", "Hot reload": only what changed is rebuilt.  A
\* connection routed before a change is drained only if its route changed or
\* its relay has no upstream of the same configuration any more, whatever it
\* is called.
UnchangedIsKept ==
  [][ \A c \in Conns :
        ~conn[c].early /\ draining[c] = None /\ draining'[c] # None =>
          \/ current.routes[conn[c].route] # current'.routes[conn[c].route]
          \/ groups'[conn[c].target.target] = None
          \/ \A p \in ToSet(groups'[conn[c].target.target].key.members) :
               proxies'[p].key # proxies[conn[c].proxy].key ]_vars

\* A connection that a change moved comes to its end.
DrainedComesToEnd ==
  \A c \in Conns :
    (conn[c].pc = "open" /\ conn[c].moved # None /\ ~conn[c].late)
      ~> conn[c].pc \in {"finished", "closed"}
=============================================================================
