------------------------------ MODULE MCServer ------------------------------
EXTENDS Server, TLC

CONSTANTS s1, s2, k1, k2

Config(m1, m2, r1, r2) ==
  [minutes  |-> s1 :> m1 @@ s2 :> m2,
   resolved |-> k1 :> r1 @@ k2 :> r2]

\* k1 has both subs and k2 one; then s2 goes, and k2 with it; then both subs
\* are refreshed slowly and k1 is taken away.
MCConfigs == {
  Config(30, 180, {s1, s2}, {s2}),
  Config(200, 0, {s1}, None),
  Config(200, 130, None, {s2}) }
=============================================================================
