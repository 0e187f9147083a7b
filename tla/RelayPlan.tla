------------------------------ MODULE RelayPlan -----------------------------
(***************************************************************************)
(* relay.NewPlan (internal/relay/plan.go): which relays of a              *)
(* configuration are used, and which listeners they share.                *)
(*                                                                         *)
(* mihomo tells callers apart by the port they reach and the username     *)
(* they give.  Relays whose callers could not be told apart are rejected, *)
(* the others share one listener per port.                                *)
(*                                                                         *)
(* NewPlan is a function; the module has one step, which computes it for  *)
(* the configuration of the initial state.                                *)
(***************************************************************************)
EXTENDS Integers, Sequences

CONSTANTS
  Names,      \* relay names
  Users,      \* usernames
  Passwords,  \* passwords
  Addresses,  \* listen addresses
  Ports,      \* port numbers in the configuration, integers
  OwnPort,    \* the port proxy-proxy itself listens on
  BadUsers,   \* usernames with a separator of mihomo's rule syntax
  Types,      \* downstream types in the configuration, known or not
  None,       \* no username, no password, no plan
  Configs     \* the configurations to plan for: sequences of relays

ASSUME NoneAssumption == None \notin Users /\ None \notin Passwords /\ None \notin Names
ASSUME PortsAssumption == Ports \subseteq Int /\ OwnPort \in Nat
ASSUME BadUsersAssumption == BadUsers \subseteq Users

\* config.Downstream, and config.Relay: sound says that the name, the
\* strategy and the upstreams of the relay are accepted.
Downstream == [typ : Types, listen : Addresses, port : Ports,
               username : Users \cup {None}, password : Passwords \cup {None}]
Relay == [name : Names, sound : BOOLEAN, downstream : Seq(Downstream)]

ASSUME ConfigsAssumption == Configs \subseteq Seq(Relay)

-----------------------------------------------------------------------------
(* Validation of one relay *)

\* The ports a listener may have.
PortNumbers == 1 .. 65535

\* The types a listener may have, and what an empty one stands for.
ListenerTypes == {"http", "socks5", "mixed"}
TypOf(d) == IF d.typ = "" THEN "mixed" ELSE d.typ

\* Mutant of CheckDownstream: proxy-proxy's own port is accepted.
CheckRangeOnly(d) ==
  /\ TypOf(d) \in ListenerTypes
  /\ d.port \in PortNumbers
  /\ d.username = None => d.password = None
  /\ d.username # None /\ d.password = None => TypOf(d) = "http"
  /\ d.username \notin BadUsers

CheckDownstream(d) ==
  /\ TypOf(d) \in ListenerTypes
  /\ d.port \in PortNumbers
  /\ d.port # OwnPort
  /\ d.username = None => d.password = None
  /\ d.username # None /\ d.password = None => TypOf(d) = "http"
  /\ d.username \notin BadUsers

\* Mutant of Fit: two passwords for one username go unnoticed.
FitAnyPassword(d, e) ==
  /\ d.listen = e.listen
  /\ (d.username = None) <=> (e.username = None)

\* Two downstreams of one relay on one port must fit in one listener.
Fit(d, e) ==
  /\ d.listen = e.listen
  /\ (d.username = None) <=> (e.username = None)
  /\ d.username = e.username => d.password = e.password

CheckOwnPorts(ds) ==
  \A i, j \in DOMAIN ds : j < i /\ ds[j].port = ds[i].port => Fit(ds[j], ds[i])

ValidateRelay(r) ==
  /\ r.sound
  /\ r.downstream # <<>>
  /\ \A i \in DOMAIN r.downstream : CheckDownstream(r.downstream[i])
  /\ CheckOwnPorts(r.downstream)

\* The relays whose name is theirs alone and which are valid.
Usable(relays) ==
  { i \in DOMAIN relays :
      /\ \A j \in DOMAIN relays : relays[j].name = relays[i].name => j = i
      /\ ValidateRelay(relays[i]) }

-----------------------------------------------------------------------------
(* Conflicts between relays *)

\* An endpoint is identified by its place: relay i, downstream j.
Endpoints(relays, kept) ==
  UNION { {i} \X DOMAIN relays[i].downstream : i \in kept }

At(relays, e) == relays[e[1]].downstream[e[2]]

OnPort(relays, eps, port) == { e \in eps : At(relays, e).port = port }

\* Mutant of RejectedOn: a port without authentication may be shared.
RejectedByUser(relays, list) ==
  LET OwnersOf(u) == { e[1] : e \in { f \in list : At(relays, f).username = u } }
  IN { e[1] : e \in { f \in list : \E u \in Users : f[1] \in OwnersOf(u) /\ OwnersOf(u) # {f[1]} } }

\* The relays rejected because of what meets on one port.
RejectedOn(relays, list) ==
  LET owners  == { e[1] : e \in list }
      listens == { At(relays, e).listen : e \in list }
      noAuth  == \E e \in list : At(relays, e).username = None
      OwnersOf(u) == { e[1] : e \in { f \in list : At(relays, f).username = u } }
  IN IF \A i, k \in owners : i = k
     THEN {}
     ELSE IF (\E a, b \in listens : a # b) \/ noAuth
     THEN owners
     ELSE { i \in owners : \E u \in Users :
              i \in OwnersOf(u) /\ \E k \in OwnersOf(u) : k # i }

FindConflicts(relays, eps) ==
  UNION { RejectedOn(relays, OnPort(relays, eps, At(relays, e).port)) : e \in eps }

Kept(relays) ==
  Usable(relays) \ FindConflicts(relays, Endpoints(relays, Usable(relays)))

-----------------------------------------------------------------------------
(* Listeners *)

Before(e, f) == e[1] < f[1] \/ (e[1] = f[1] /\ e[2] < f[2])

\* mihomo's listener types: a listener for several types is mixed.
TypeOf(relays, list, first) ==
  IF \A e \in list : TypOf(At(relays, e)) = TypOf(At(relays, first))
  THEN TypOf(At(relays, first))
  ELSE "mixed"

\* Mutant of UsersOf: every endpoint becomes a user.
UsersOfAll(relays, list) == list

\* The users of a listener: for each username, the first endpoint with it.
UsersOf(relays, list) ==
  { e \in list : \A f \in list :
      At(relays, f).username = At(relays, e).username => f = e \/ Before(e, f) }

\* The listener for the endpoints of one port.
Listener(relays, list) ==
  LET first == CHOOSE e \in list : \A f \in list : f = e \/ Before(e, f)
      noAuth == At(relays, first).username = None
  IN [typ    |-> TypeOf(relays, list, first),
      listen |-> At(relays, first).listen,
      port   |-> At(relays, first).port,
      relay  |-> IF noAuth THEN first[1] ELSE 0,
      users  |-> IF noAuth THEN {} ELSE UsersOf(relays, list)]

BuildListeners(relays, eps) ==
  { Listener(relays, OnPort(relays, eps, At(relays, e).port)) : e \in eps }

NewPlan(relays) ==
  [relays    |-> Kept(relays),
   listeners |-> BuildListeners(relays, Endpoints(relays, Kept(relays)))]

-----------------------------------------------------------------------------
VARIABLES
  relays,     \* cfg.Relays
  plan        \* the plan made of it

vars == <<relays, plan>>

Init ==
  /\ relays \in Configs
  /\ plan = None

Build ==
  /\ plan = None
  /\ plan' = NewPlan(relays)
  /\ UNCHANGED relays

Next == Build

Spec == Init /\ [][Next]_vars

-----------------------------------------------------------------------------
(* Properties *)

\* Two callers that mihomo could not tell apart, or two listeners that could
\* not be one: what the loops of findConflicts look for, for two endpoints.
Conflict(d, e) ==
  /\ d.port = e.port
  /\ \/ d.listen # e.listen
     \/ d.username = None
     \/ e.username = None
     \/ d.username = e.username

\* NewPlan: every relay in a downstream conflict is left out, and the other
\* relays are unaffected.  A valid relay is left out exactly when one of its
\* endpoints conflicts with one of another valid relay.
RejectsExactlyConflicts ==
  plan # None =>
    plan.relays =
      { i \in Usable(relays) :
          \A k \in Usable(relays) \ {i} :
            \A m \in DOMAIN relays[i].downstream, n \in DOMAIN relays[k].downstream :
              ~Conflict(relays[i].downstream[m], relays[k].downstream[n]) }

\* Every downstream of a relay in the plan works: the listener on its port
\* has its address and speaks its protocol, and a caller that gives its
\* username and password, or none where it has none, reaches its relay.
Serves(l, i, d) ==
  /\ l.port = d.port
  /\ l.listen = d.listen
  /\ l.typ \in {TypOf(d), "mixed"}
  /\ IF d.username = None
     THEN l.relay = i /\ l.users = {}
     ELSE l.relay = 0 /\ \E e \in l.users :
            /\ e[1] = i
            /\ At(relays, e).username = d.username
            /\ At(relays, e).password = d.password

EveryDownstreamServed ==
  plan # None =>
    \A i \in plan.relays : \A m \in DOMAIN relays[i].downstream :
      \E l \in plan.listeners : Serves(l, i, relays[i].downstream[m])

\* One listener per port, and on it one relay per username: mihomo's user
\* table is keyed by username alone.
NoAmbiguousCaller ==
  plan # None =>
    /\ \A l, m \in plan.listeners : l.port = m.port => l = m
    /\ \A l \in plan.listeners : \A e, f \in l.users :
         At(relays, e).username = At(relays, f).username => e = f
    /\ \A l \in plan.listeners : l.relay # 0 <=> l.users = {}

\* A plan has relays of the configuration, and listeners of known types on
\* real ports other than proxy-proxy's own, whose users are downstreams of
\* relays in the plan.
TypeOK ==
  plan # None =>
    /\ plan.relays \subseteq DOMAIN relays
    /\ \A l \in plan.listeners :
         /\ l.typ \in ListenerTypes
         /\ l.port \in PortNumbers \ {OwnPort}
         /\ l.users \subseteq Endpoints(relays, plan.relays)
=============================================================================
