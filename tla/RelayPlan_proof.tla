--------------------------- MODULE RelayPlan_proof --------------------------
(***************************************************************************)
(* What NewPlan makes of any configuration.                               *)
(*                                                                         *)
(* findConflicts rejects exactly the relays in a conflict: its loops work *)
(* port by port and on whole groups of relays, the property speaks of two *)
(* endpoints at a time.  Of the endpoints that are left, those on one port *)
(* have one address, and of each username one relay and one password; so  *)
(* the listeners, of which each takes its settings from some endpoint on  *)
(* its port, serve all of them.                                            *)
(***************************************************************************)
EXTENDS RelayPlan, WellFoundedInduction, TLAPS

\* The endpoints of the usable relays, and what the relays that have an
\* endpoint on its port get rejected for.
Ends(rs) == Endpoints(rs, Usable(rs))
ListAt(rs, e) == OnPort(rs, Ends(rs), At(rs, e).port)

\* Endpoint e of one relay is in conflict with endpoint f of another.
Meet(rs, e, f) == e[1] # f[1] /\ Conflict(At(rs, e), At(rs, f))

\* An endpoint is a relay's place and a downstream's place, and what is
\* there is a downstream.
LEMMA EndsType ==
  ASSUME NEW rs \in Seq(Relay), NEW e \in Ends(rs)
  PROVE  /\ e[1] \in Usable(rs)
         /\ e[2] \in DOMAIN rs[e[1]].downstream
         /\ e = <<e[1], e[2]>>
         /\ At(rs, e) \in Downstream
         /\ At(rs, e) = rs[e[1]].downstream[e[2]]
<1>1. PICK i \in Usable(rs) : e \in {i} \X DOMAIN rs[i].downstream
  BY DEF Ends, Endpoints
<1>2. e[1] = i /\ e[2] \in DOMAIN rs[i].downstream /\ e = <<e[1], e[2]>>
  BY <1>1
<1>3. rs[i] \in Relay
  BY DEF Usable
<1>4. rs[i].downstream \in Seq(Downstream)
  BY <1>3 DEF Relay
<1> QED
  BY <1>2, <1>4 DEF At

\* The converse: every downstream of a usable relay is an endpoint.
LEMMA EndsOf ==
  ASSUME NEW rs \in Seq(Relay), NEW i \in Usable(rs), NEW m \in DOMAIN rs[i].downstream
  PROVE  <<i, m>> \in Ends(rs) /\ At(rs, <<i, m>>) = rs[i].downstream[m]
BY DEF Ends, Endpoints, At

\* checkOwnPorts: two endpoints of one usable relay on one port fit in one
\* listener, and one username has one password.
LEMMA OwnEndsFit ==
  ASSUME NEW rs \in Seq(Relay), NEW e \in Ends(rs), NEW f \in Ends(rs),
         e[1] = f[1], At(rs, e).port = At(rs, f).port
  PROVE  /\ At(rs, e).listen = At(rs, f).listen
         /\ (At(rs, e).username = None) <=> (At(rs, f).username = None)
         /\ At(rs, e).username = At(rs, f).username => At(rs, e).password = At(rs, f).password
<1> DEFINE ds == rs[e[1]].downstream
<1>1. e[2] \in DOMAIN ds /\ f[2] \in DOMAIN ds /\ At(rs, e) = ds[e[2]] /\ At(rs, f) = ds[f[2]]
  BY EndsType
<1>2. rs[e[1]] \in Relay /\ CheckOwnPorts(ds)
  BY EndsType DEF Usable, ValidateRelay
<1>3. e[2] \in Nat /\ f[2] \in Nat
  BY <1>1, <1>2 DEF Relay
<1>4. CASE e[2] < f[2]
  BY <1>1, <1>2, <1>4 DEF CheckOwnPorts, Fit
<1>5. CASE f[2] < e[2]
  BY <1>1, <1>2, <1>5 DEF CheckOwnPorts, Fit
<1>6. CASE e[2] = f[2]
  BY <1>1, <1>6
<1> QED
  BY <1>3, <1>4, <1>5, <1>6

\* Endpoints that meet are rejected: the relay of e is among those rejected
\* because of the port of e.
LEMMA MeetingIsRejected ==
  ASSUME NEW rs \in Seq(Relay), NEW e \in Ends(rs), NEW f \in Ends(rs), Meet(rs, e, f)
  PROVE  e[1] \in RejectedOn(rs, ListAt(rs, e))
<1> DEFINE list == ListAt(rs, e)
           owners == { x[1] : x \in list }
           listens == { At(rs, x).listen : x \in list }
           noAuth == \E x \in list : At(rs, x).username = None
           OwnersOf(u) == { x[1] : x \in { y \in list : At(rs, y).username = u } }
<1>1. e \in list /\ f \in list
  BY DEF Meet, Conflict, ListAt, OnPort
<1>2. e[1] \in owners /\ f[1] \in owners /\ e[1] # f[1]
  BY <1>1 DEF Meet
<1>3. CASE (\E a, b \in listens : a # b) \/ noAuth
  <2>1. RejectedOn(rs, list) = owners
    BY <1>2, <1>3 DEF RejectedOn
  <2> QED
    BY <1>2, <2>1
<1>4. CASE ~((\E a, b \in listens : a # b) \/ noAuth)
  <2>1. RejectedOn(rs, list) =
          { i \in owners : \E u \in Users : i \in OwnersOf(u) /\ \E k \in OwnersOf(u) : k # i }
    BY <1>2, <1>4 DEF RejectedOn
  <2>2. At(rs, e).listen = At(rs, f).listen /\ At(rs, e).username # None /\ At(rs, f).username # None
    BY <1>1, <1>4
  <2>3. At(rs, e).username = At(rs, f).username
    BY <2>2 DEF Meet, Conflict
  <2> DEFINE u == At(rs, e).username
  <2>4. u \in Users
    BY <2>2, EndsType DEF Downstream
  <2>5. e[1] \in OwnersOf(u) /\ f[1] \in OwnersOf(u)
    BY <1>1, <2>3
  <2>6. \E k \in OwnersOf(u) : k # e[1]
    BY <1>2, <2>5
  <2>7. e[1] \in { i \in owners : \E w \in Users :
                    i \in OwnersOf(w) /\ \E k \in OwnersOf(w) : k # i }
    <3> HIDE DEF owners, OwnersOf, u
    <3> QED
      BY <1>2, <2>4, <2>5, <2>6
  <2> QED
    BY <2>1, <2>7
<1> QED
  BY <1>3, <1>4

\* Nothing else is: a relay rejected because of a port has an endpoint there
\* that meets one of another relay.
LEMMA RejectedMeets ==
  ASSUME NEW rs \in Seq(Relay), NEW o \in Ends(rs),
         NEW i \in RejectedOn(rs, ListAt(rs, o))
  PROVE  \E e, f \in Ends(rs) : e[1] = i /\ Meet(rs, e, f)
<1> DEFINE list == ListAt(rs, o)
           owners == { x[1] : x \in list }
           listens == { At(rs, x).listen : x \in list }
           noAuth == \E x \in list : At(rs, x).username = None
           OwnersOf(u) == { x[1] : x \in { y \in list : At(rs, y).username = u } }
<1>1. /\ list \subseteq Ends(rs)
      /\ \A x, y \in list : At(rs, x).port = At(rs, y).port
  BY DEF ListAt, OnPort
<1>2. ~(\A x, y \in owners : x = y)
  BY DEF RejectedOn
<1>3. i \in owners
  BY <1>2 DEF RejectedOn
<1>4. PICK g \in list : g[1] = i
  BY <1>3
<1>5. PICK h \in list : h[1] # i
  BY <1>2
<1>6. CASE \E a, b \in listens : a # b
  <2>1. PICK x \in list : At(rs, x).listen # At(rs, g).listen
    BY <1>6
  <2>2. x[1] # i
    BY <1>1, <1>4, <2>1, OwnEndsFit
  <2>3. Meet(rs, g, x)
    BY <1>1, <1>4, <2>1, <2>2 DEF Meet, Conflict
  <2> QED
    BY <1>1, <1>4, <2>3
<1>7. CASE noAuth
  <2>1. PICK x \in list : At(rs, x).username = None
    BY <1>7
  <2>2. CASE x[1] = i
    <3>1. Meet(rs, x, h)
      BY <1>1, <1>5, <2>1, <2>2 DEF Meet, Conflict
    <3> QED
      BY <1>1, <2>2, <3>1
  <2>3. CASE x[1] # i
    <3>1. Meet(rs, g, x)
      BY <1>1, <1>4, <2>1, <2>3 DEF Meet, Conflict
    <3> QED
      BY <1>1, <1>4, <3>1
  <2> QED
    BY <2>2, <2>3
<1>8. CASE ~((\E a, b \in listens : a # b) \/ noAuth)
  <2>1. RejectedOn(rs, list) =
          { j \in owners : \E u \in Users : j \in OwnersOf(u) /\ \E k \in OwnersOf(u) : k # j }
    BY <1>2, <1>8 DEF RejectedOn
  <2>2. PICK u \in Users : i \in OwnersOf(u) /\ \E k \in OwnersOf(u) : k # i
    BY <2>1
  <2>3. PICK x \in list : x[1] = i /\ At(rs, x).username = u
    BY <2>2
  <2>4. PICK y \in list : y[1] # i /\ At(rs, y).username = u
    BY <2>2
  <2>5. Meet(rs, x, y)
    BY <1>1, <2>3, <2>4 DEF Meet, Conflict
  <2> QED
    BY <1>1, <2>3, <2>5
<1> QED
  BY <1>6, <1>7, <1>8

\* The relays kept are the usable ones no endpoint of which meets one of
\* another usable relay.
LEMMA KeptAreUnmet ==
  ASSUME NEW rs \in Seq(Relay)
  PROVE  Kept(rs) =
           { i \in Usable(rs) :
               \A k \in Usable(rs) \ {i} :
                 \A m \in DOMAIN rs[i].downstream, n \in DOMAIN rs[k].downstream :
                   ~Conflict(rs[i].downstream[m], rs[k].downstream[n]) }
<1> DEFINE Unmet(i) == \A k \in Usable(rs) \ {i} :
             \A m \in DOMAIN rs[i].downstream, n \in DOMAIN rs[k].downstream :
               ~Conflict(rs[i].downstream[m], rs[k].downstream[n])
<1>1. ASSUME NEW i \in Kept(rs)
      PROVE  i \in Usable(rs) /\ Unmet(i)
  <2>1. i \in Usable(rs) /\ i \notin FindConflicts(rs, Ends(rs))
    BY DEF Kept, Ends
  <2>2. ASSUME NEW k \in Usable(rs) \ {i},
               NEW m \in DOMAIN rs[i].downstream, NEW n \in DOMAIN rs[k].downstream,
               Conflict(rs[i].downstream[m], rs[k].downstream[n])
        PROVE  FALSE
    <3> DEFINE e == <<i, m>>
               f == <<k, n>>
    <3>1. e \in Ends(rs) /\ f \in Ends(rs) /\ Meet(rs, e, f)
      BY <2>1, <2>2, EndsOf DEF Meet
    <3>2. e[1] \in RejectedOn(rs, ListAt(rs, e))
      BY <3>1, MeetingIsRejected
    <3>3. i \in FindConflicts(rs, Ends(rs))
      BY <3>1, <3>2 DEF FindConflicts, ListAt
    <3> QED
      BY <2>1, <3>3
  <2> QED
    BY <2>1, <2>2
<1>2. ASSUME NEW i \in Usable(rs), Unmet(i)
      PROVE  i \in Kept(rs)
  <2>1. SUFFICES ASSUME i \in FindConflicts(rs, Ends(rs)) PROVE FALSE
    BY DEF Kept, Ends
  <2>2. PICK o \in Ends(rs) : i \in RejectedOn(rs, ListAt(rs, o))
    BY <2>1 DEF FindConflicts, ListAt
  <2>3. PICK e \in Ends(rs), f \in Ends(rs) : e[1] = i /\ Meet(rs, e, f)
    BY <2>2, RejectedMeets
  <2>4. f[1] \in Usable(rs) \ {i} /\ e[2] \in DOMAIN rs[i].downstream
                                  /\ f[2] \in DOMAIN rs[f[1]].downstream
    BY <2>3, EndsType DEF Meet
  <2>5. Conflict(rs[i].downstream[e[2]], rs[f[1]].downstream[f[2]])
    BY <2>3, EndsType DEF Meet
  <2> QED
    BY <1>2, <2>4, <2>5
<1> QED
  BY <1>1, <1>2 DEF Kept

-----------------------------------------------------------------------------
(* Listeners *)

\* The endpoints of the relays that are kept, and those on a port.
KeptEnds(rs) == Endpoints(rs, Kept(rs))
KeptAt(rs, e) == OnPort(rs, KeptEnds(rs), At(rs, e).port)

\* A set of pairs of numbers has a first one.
LEMMA FirstPair ==
  ASSUME NEW list \in SUBSET (Nat \X Nat), list # {}
  PROVE  \E e \in list : \A f \in list : f = e \/ Before(e, f)
<1>1. ASSUME NEW S \in SUBSET Nat, S # {}
      PROVE  \E m \in S : \A n \in S : m <= n
  <2>1. PICK m \in S : \A n \in S : ~ (<<n, m>> \in OpToRel(<, Nat))
    BY <1>1, NatLessThanWellFounded, WFMin, Zenon
  <2>2. \A n \in S : ~ (n < m)
    BY <2>1, Zenon DEF OpToRel
  <2> QED
    BY <2>2
<1> DEFINE rows == { e[1] : e \in list }
<1>2. rows \in SUBSET Nat /\ rows # {}
  OBVIOUS
<1>3. PICK i \in rows : \A n \in rows : i <= n
  <2> HIDE DEF rows
  <2> QED
    BY <1>1, <1>2
<1> DEFINE columns == { e[2] : e \in { f \in list : f[1] = i } }
<1>4. columns \in SUBSET Nat /\ columns # {}
  BY <1>3
<1>5. PICK j \in columns : \A n \in columns : j <= n
  <2> HIDE DEF columns
  <2> QED
    BY <1>1, <1>4
<1>6. PICK e \in list : e[1] = i /\ e[2] = j
  BY <1>5
<1>7. ASSUME NEW f \in list
      PROVE  f = e \/ Before(e, f)
  <2>1. e \in Nat \X Nat /\ f \in Nat \X Nat /\ i <= f[1]
    BY <1>3
  <2>2. f[1] = i => j <= f[2]
    BY <1>5
  <2>3. f[1] = i /\ f[2] = j => f = e
    BY <1>6, <2>1
  <2> QED
    BY <1>6, <2>1, <2>2, <2>3 DEF Before
<1> QED
  BY <1>6, <1>7

\* The endpoints of kept relays are some of those of usable ones.
LEMMA KeptEndsType ==
  ASSUME NEW rs \in Seq(Relay)
  PROVE  /\ Kept(rs) \subseteq DOMAIN rs
         /\ KeptEnds(rs) \subseteq Ends(rs)
         /\ KeptEnds(rs) \subseteq Nat \X Nat
         /\ \A e \in KeptEnds(rs) : e[1] \in Kept(rs) /\ CheckDownstream(At(rs, e))
<1>1. Kept(rs) \subseteq Usable(rs) /\ Usable(rs) \subseteq DOMAIN rs /\ DOMAIN rs \subseteq Nat
  BY DEF Kept, Usable
<1>2. KeptEnds(rs) \subseteq Ends(rs)
  BY <1>1 DEF KeptEnds, Ends, Endpoints
<1>3. ASSUME NEW e \in KeptEnds(rs)
      PROVE  e \in Nat \X Nat /\ e[1] \in Kept(rs) /\ CheckDownstream(At(rs, e))
  <2>1. /\ e[1] \in Usable(rs) /\ e[2] \in DOMAIN rs[e[1]].downstream /\ e = <<e[1], e[2]>>
        /\ At(rs, e) = rs[e[1]].downstream[e[2]]
    BY <1>2, EndsType
  <2>2. rs[e[1]] \in Relay /\ ValidateRelay(rs[e[1]])
    BY <2>1 DEF Usable
  <2>3. e[2] \in Nat
    BY <2>1, <2>2 DEF Relay
  <2>4. e[1] \in Kept(rs)
    BY DEF KeptEnds, Endpoints
  <2>5. CheckDownstream(At(rs, e))
    BY <2>1, <2>2 DEF ValidateRelay
  <2> QED
    BY <1>1, <2>1, <2>3, <2>4, <2>5
<1> QED
  BY <1>1, <1>2, <1>3

\* Kept endpoints on one port have one address, and both have usernames or
\* none has one; those that have none, or the same, are of one relay and have
\* the same password.
LEMMA SharedPort ==
  ASSUME NEW rs \in Seq(Relay), NEW e \in KeptEnds(rs), NEW f \in KeptEnds(rs),
         At(rs, e).port = At(rs, f).port
  PROVE  /\ At(rs, e).listen = At(rs, f).listen
         /\ (At(rs, e).username = None) <=> (At(rs, f).username = None)
         /\ At(rs, e).username = At(rs, f).username =>
              e[1] = f[1] /\ At(rs, e).password = At(rs, f).password
<1>1. e \in Ends(rs) /\ f \in Ends(rs) /\ e[1] \in Kept(rs) /\ f[1] \in Kept(rs)
  BY KeptEndsType
<1>2. CASE e[1] = f[1]
  BY <1>1, <1>2, OwnEndsFit
<1>3. CASE e[1] # f[1]
  <2>1. e[1] \in Usable(rs) /\ f[1] \in Usable(rs) \ {e[1]}
    BY <1>1, <1>3 DEF Kept
  <2>2. ~Conflict(At(rs, e), At(rs, f))
    BY <1>1, <2>1, KeptAreUnmet, EndsType
  <2> QED
    BY <2>2 DEF Conflict
<1> QED
  BY <1>2, <1>3

\* The listener on the port of a kept endpoint takes its settings from an
\* endpoint there.
LEMMA ListenerOf ==
  ASSUME NEW rs \in Seq(Relay), NEW e \in KeptEnds(rs)
  PROVE  LET list == KeptAt(rs, e)
             l == Listener(rs, list)
         IN \E first \in list :
              /\ l.typ = TypeOf(rs, list, first)
              /\ l.listen = At(rs, first).listen
              /\ l.port = At(rs, first).port
              /\ l.relay = IF At(rs, first).username = None THEN first[1] ELSE 0
              /\ l.users = IF At(rs, first).username = None THEN {} ELSE UsersOf(rs, list)
<1> DEFINE list == KeptAt(rs, e)
           first == CHOOSE x \in list : \A f \in list : f = x \/ Before(x, f)
<1>1. list \in SUBSET (Nat \X Nat) /\ list # {}
  BY KeptEndsType DEF KeptAt, OnPort
<1>2. first \in list
  <2> HIDE DEF list
  <2> QED
    BY <1>1, FirstPair
<1>3. Listener(rs, list) =
        [typ    |-> TypeOf(rs, list, first),
         listen |-> At(rs, first).listen,
         port   |-> At(rs, first).port,
         relay  |-> IF At(rs, first).username = None THEN first[1] ELSE 0,
         users  |-> IF At(rs, first).username = None THEN {} ELSE UsersOf(rs, list)]
  BY DEF Listener
<1> HIDE DEF list, first
<1> QED
  BY <1>2, <1>3 DEF list

\* Of each username on a port, the first endpoint is a user.
LEMMA UserOf ==
  ASSUME NEW rs \in Seq(Relay), NEW e \in KeptEnds(rs), NEW f \in KeptAt(rs, e)
  PROVE  \E x \in UsersOf(rs, KeptAt(rs, e)) : At(rs, x).username = At(rs, f).username
<1> DEFINE same == { x \in KeptAt(rs, e) : At(rs, x).username = At(rs, f).username }
<1>1. same \in SUBSET (Nat \X Nat) /\ same # {}
  BY KeptEndsType DEF KeptAt, OnPort
<1>2. PICK x \in same : \A y \in same : y = x \/ Before(x, y)
  <2> HIDE DEF same
  <2> QED
    BY <1>1, FirstPair
<1>3. x \in UsersOf(rs, KeptAt(rs, e))
  BY <1>2 DEF UsersOf
<1> QED
  BY <1>2, <1>3

-----------------------------------------------------------------------------
\* The plan is none yet, or what NewPlan makes of a sequence of relays.
Planned ==
  /\ relays \in Seq(Relay)
  /\ plan # None => plan = NewPlan(relays)

\* A configuration has one plan, which nothing changes afterwards.
LEMMA PlanIsNewPlan == Spec => []Planned
<1>1. Init => Planned
  BY ConfigsAssumption DEF Init, Planned
<1>2. Planned /\ [Next]_vars => Planned'
  BY DEF Planned, Next, Build, vars
<1> QED
  BY <1>1, <1>2, PTL DEF Spec

\* NewPlan leaves out exactly the relays that conflict: in every plan, a valid
\* relay is missing if and only if one of its endpoints meets one of another
\* valid relay.
THEOREM ConflictsAreRejected == Spec => []RejectsExactlyConflicts
<1>1. Planned => RejectsExactlyConflicts
  BY KeptAreUnmet DEF Planned, RejectsExactlyConflicts, NewPlan
<1> QED
  BY <1>1, PlanIsNewPlan, PTL

\* Every downstream of a relay in the plan has a listener on its port with
\* its address and a type that speaks its protocol, and a user of it with its
\* username and password, or the relay itself where it has none.
THEOREM DownstreamsAreServed == Spec => []EveryDownstreamServed
<1>1. Planned => EveryDownstreamServed
  <2> SUFFICES ASSUME Planned, plan # None,
                      NEW i \in Kept(relays), NEW m \in DOMAIN relays[i].downstream
               PROVE  \E l \in BuildListeners(relays, KeptEnds(relays)) :
                        Serves(l, i, relays[i].downstream[m])
    BY DEF Planned, EveryDownstreamServed, NewPlan, KeptEnds
  <2> DEFINE e == <<i, m>>
             d == relays[i].downstream[m]
             list == KeptAt(relays, e)
             l == Listener(relays, list)
  <2>1. relays \in Seq(Relay) /\ e \in KeptEnds(relays) /\ At(relays, e) = d /\ e[1] = i
    BY DEF Planned, KeptEnds, Endpoints, At
  <2>2. e \in list /\ l \in BuildListeners(relays, KeptEnds(relays))
    BY <2>1 DEF KeptAt, OnPort, BuildListeners
  <2>3. \A x \in list : x \in KeptEnds(relays) /\ At(relays, x).port = At(relays, e).port
    BY DEF KeptAt, OnPort
  <2>4. PICK first \in list :
              /\ l.typ = TypeOf(relays, list, first)
              /\ l.listen = At(relays, first).listen
              /\ l.port = At(relays, first).port
              /\ l.relay = IF At(relays, first).username = None THEN first[1] ELSE 0
              /\ l.users = IF At(relays, first).username = None THEN {} ELSE UsersOf(relays, list)
    BY <2>1, ListenerOf
  <2> HIDE DEF e, d, list, l
  <2>5. l.port = d.port /\ l.listen = d.listen
    BY <2>1, <2>3, <2>4, SharedPort
  <2>6. l.typ \in {TypOf(d), "mixed"}
    BY <2>1, <2>2, <2>4 DEF TypeOf
  <2>7. ASSUME d.username = None
        PROVE  Serves(l, i, d)
    BY <2>1, <2>3, <2>4, <2>5, <2>6, <2>7, SharedPort DEF Serves
  <2>8. ASSUME d.username # None
        PROVE  Serves(l, i, d)
    <3>1. l.relay = 0 /\ l.users = UsersOf(relays, list)
      BY <2>1, <2>3, <2>4, <2>8, SharedPort
    <3>2. PICK x \in UsersOf(relays, list) : At(relays, x).username = d.username
      BY <2>1, <2>2, UserOf DEF list
    <3>3. x \in list
      BY DEF UsersOf
    <3>4. x[1] = i /\ At(relays, x).password = d.password
      BY <2>1, <2>3, <3>2, <3>3, SharedPort
    <3> QED
      BY <2>5, <2>6, <2>8, <3>1, <3>2, <3>4 DEF Serves
  <2>9. Serves(l, i, d)
    BY <2>7, <2>8
  <2> QED
    BY <2>2, <2>9 DEF d
<1> QED
  BY <1>1, PlanIsNewPlan, PTL

\* A listener of a plan is that of the port of some endpoint in the plan.
LEMMA PlanListener ==
  ASSUME Planned, plan # None, NEW l \in plan.listeners
  PROVE  \E e \in KeptEnds(relays) : l = Listener(relays, KeptAt(relays, e)) /\ l.port = At(relays, e).port
<1>1. relays \in Seq(Relay) /\ plan.listeners = BuildListeners(relays, KeptEnds(relays))
  BY DEF Planned, NewPlan, KeptEnds
<1>2. PICK e \in KeptEnds(relays) : l = Listener(relays, KeptAt(relays, e))
  BY <1>1 DEF BuildListeners, KeptAt
<1>3. l.port = At(relays, e).port
  BY <1>1, <1>2, ListenerOf DEF KeptAt, OnPort
<1> QED
  BY <1>2, <1>3

\* mihomo can tell the callers of a plan apart: a port has one listener, a
\* listener one user per username, and either users or a relay of its own.
THEOREM CallersAreTold == Spec => []NoAmbiguousCaller
<1>1. Planned => NoAmbiguousCaller
  <2> SUFFICES ASSUME Planned, plan # None, NEW l \in plan.listeners
               PROVE  /\ \A k \in plan.listeners : l.port = k.port => l = k
                      /\ \A x, y \in l.users :
                           At(relays, x).username = At(relays, y).username => x = y
                      /\ l.relay # 0 <=> l.users = {}
    BY DEF NoAmbiguousCaller
  <2>1. PICK e \in KeptEnds(relays) : /\ l = Listener(relays, KeptAt(relays, e))
                                      /\ l.port = At(relays, e).port
    BY PlanListener
  <2>2. relays \in Seq(Relay) /\ KeptAt(relays, e) \subseteq KeptEnds(relays)
    BY DEF Planned, KeptAt, OnPort
  <2>3. PICK first \in KeptAt(relays, e) :
              /\ l.relay = IF At(relays, first).username = None THEN first[1] ELSE 0
              /\ l.users = IF At(relays, first).username = None THEN {}
                           ELSE UsersOf(relays, KeptAt(relays, e))
    BY <2>1, <2>2, ListenerOf
  <2>4. ASSUME NEW k \in plan.listeners, l.port = k.port
        PROVE  l = k
    <3>1. PICK f \in KeptEnds(relays) : k = Listener(relays, KeptAt(relays, f)) /\ k.port = At(relays, f).port
      BY PlanListener
    <3>2. KeptAt(relays, e) = KeptAt(relays, f)
      BY <2>1, <2>4, <3>1 DEF KeptAt
    <3> QED
      BY <2>1, <3>1, <3>2
  <2>5. ASSUME NEW x \in l.users, NEW y \in l.users, At(relays, x).username = At(relays, y).username
        PROVE  x = y
    <3>1. x \in UsersOf(relays, KeptAt(relays, e)) /\ y \in UsersOf(relays, KeptAt(relays, e))
      BY <2>3
    <3>2. x \in Nat \X Nat /\ y \in Nat \X Nat
      BY <2>2, <3>1, KeptEndsType DEF UsersOf
    <3>3. (x = y \/ Before(x, y)) /\ (x = y \/ Before(y, x))
      BY <2>5, <3>1 DEF UsersOf
    <3> QED
      BY <3>2, <3>3 DEF Before
  <2>6. l.relay # 0 <=> l.users = {}
    <3>1. first[1] \in DOMAIN relays
      BY <2>2, KeptEndsType
    <3>2. first[1] # 0
      BY <2>2, <3>1
    <3>3. UsersOf(relays, KeptAt(relays, e)) # {}
      BY <2>2, UserOf
    <3> QED
      BY <2>3, <3>2, <3>3
  <2> QED
    BY <2>4, <2>5, <2>6
<1> QED
  BY <1>1, PlanIsNewPlan, PTL

\* A plan is of relays of the configuration, and has listeners of known types
\* on real ports that are not proxy-proxy's own, for downstreams of relays in
\* the plan.
THEOREM PlanTyped == Spec => []TypeOK
<1>1. Planned => TypeOK
  <2> SUFFICES ASSUME Planned, plan # None
               PROVE  /\ plan.relays \subseteq DOMAIN relays
                      /\ \A l \in plan.listeners :
                           /\ l.typ \in ListenerTypes
                           /\ l.port \in PortNumbers \ {OwnPort}
                           /\ l.users \subseteq Endpoints(relays, plan.relays)
    BY DEF TypeOK
  <2>1. relays \in Seq(Relay) /\ plan.relays = Kept(relays)
    BY DEF Planned, NewPlan
  <2>2. ASSUME NEW l \in plan.listeners
        PROVE  /\ l.typ \in ListenerTypes
               /\ l.port \in PortNumbers \ {OwnPort}
               /\ l.users \subseteq KeptEnds(relays)
    <3>1. PICK e \in KeptEnds(relays) : /\ l = Listener(relays, KeptAt(relays, e))
                                        /\ l.port = At(relays, e).port
      BY PlanListener
    <3>2. CheckDownstream(At(relays, e))
      BY <2>1, KeptEndsType
    <3>3. l.users \subseteq UsersOf(relays, KeptAt(relays, e))
      BY <2>1, <3>1, ListenerOf
    <3>4. UsersOf(relays, KeptAt(relays, e)) \subseteq KeptEnds(relays)
      BY DEF UsersOf, KeptAt, OnPort
    <3>5. At(relays, e).port \in PortNumbers \ {OwnPort}
      BY <3>2 DEF CheckDownstream
    <3>6. PICK first \in KeptAt(relays, e) : l.typ = TypeOf(relays, KeptAt(relays, e), first)
      BY <2>1, <3>1, ListenerOf
    <3>7. CheckDownstream(At(relays, first))
      BY <2>1, KeptEndsType DEF KeptAt, OnPort
    <3>8. l.typ \in ListenerTypes
      BY <3>6, <3>7 DEF CheckDownstream, TypeOf, ListenerTypes
    <3> QED
      BY <3>1, <3>3, <3>4, <3>5, <3>8
  <2> QED
    BY <2>1, <2>2, KeptEndsType DEF KeptEnds
<1> QED
  BY <1>1, PlanIsNewPlan, PTL
=============================================================================
