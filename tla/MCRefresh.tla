----------------------------- MODULE MCRefresh ------------------------------
EXTENDS Refresh, TLC

CONSTANTS s1, s2, u1, u2, u3

\* s1 moves between an upstream with tags and one without validators, or
\* goes and s2 comes, whose upstream has dates.
MCConfigs == { s1 :> u1 @@ s2 :> None, s1 :> u2 @@ s2 :> None, s1 :> None @@ s2 :> u3 }
MCKind == u1 :> "etag" @@ u2 :> "none" @@ u3 :> "date"

\* The second document of the upstream with tags has no usable node, nor has
\* the first of the one with dates.
MCBarren == { <<u1, 1>>, <<u3, 0>> }

\* s1 moves between two upstreams with dates.
MCMovingDates == { s1 :> u1 @@ s2 :> None, s1 :> u2 @@ s2 :> None }
MCDates == [u \in Urls |-> "date"]
=============================================================================
