------------------------------ MODULE AggSpec -------------------------------
(***************************************************************************)
(* What agg.Store promises its readers: every call of Render answers, in  *)
(* one atomic step, with the payload of the node lists the store holds at *)
(* that moment.  There is no cache and no generation here, a call is not  *)
(* interrupted, and the bookkeeping of failures and headers is not seen.  *)
(***************************************************************************)
CONSTANTS
  Subs,         \* names of subscriptions
  Contents,     \* node lists one fetch may yield
  CacheKeys,    \* what callers ask for
  BodyOf(_, _), \* BodyOf(lists, k): the payload asked for by k
  Requests      \* concurrent callers of Render

VARIABLES
  lists,      \* lists[s]: the node list of sub s
  answer      \* answer[r]: the payload handed to caller r, or NoAnswer

specVars == <<lists, answer>>

NoAnswer == [body |-> <<>>, done |-> FALSE]

SpecInit ==
  /\ lists = [s \in Subs |-> <<>>]
  /\ answer = [r \in Requests |-> NoAnswer]

\* A refresh replaces the list of one sub.
Replace(s, nodes) ==
  /\ lists' = [lists EXCEPT ![s] = nodes]
  /\ UNCHANGED answer

\* A reload drops the lists of the subs that are no longer configured.
Drop(keep) ==
  /\ lists' = [s \in Subs |-> IF s \in keep THEN lists[s] ELSE <<>>]
  /\ UNCHANGED answer

Answer(r, k) ==
  /\ answer[r] = NoAnswer
  /\ answer' = [answer EXCEPT ![r] = [body |-> BodyOf(lists, k), done |-> TRUE]]
  /\ UNCHANGED lists

Leave(r) ==
  /\ answer[r] # NoAnswer
  /\ answer' = [answer EXCEPT ![r] = NoAnswer]
  /\ UNCHANGED lists

SpecNext ==
  \/ \E s \in Subs, nodes \in Contents : Replace(s, nodes)
  \/ \E keep \in SUBSET Subs : Drop(keep)
  \/ \E r \in Requests, k \in CacheKeys : Answer(r, k)
  \/ \E r \in Requests : Leave(r)

Spec == SpecInit /\ [][SpecNext]_specVars
=============================================================================
