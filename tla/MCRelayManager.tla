--------------------------- MODULE MCRelayManager ---------------------------
EXTENDS RelayManager, TLC

CONSTANTS s1, s2, p0, p1, p2

\* Plan p0 has no relays; p1 reads one sub twice, for two of its relays.
MCSubsOf == p0 :> <<>> @@ p1 :> <<s1, s2, s1>> @@ p2 :> <<s2>>
MCHasRelays == p0 :> FALSE @@ p1 :> TRUE @@ p2 :> TRUE
=============================================================================
