------------------------------ MODULE FreeNames ------------------------------
(***************************************************************************)
(* Names made unique with a number.  Subscriptions without a name         *)
(* (internal/config), nodes in Clash output (internal/node) and proxies   *)
(* of mihomo (internal/relay) are all named by this loop.                  *)
(*                                                                         *)
(* A name is a sequence of parts: "a" is <<"a">>, and "a-2", "a 2" and    *)
(* "relay:a" are <<"a", 2>> and <<"relay", "a">>, whether they are given  *)
(* or made.  A made name can thus meet a given one.                        *)
(***************************************************************************)
EXTENDS Integers, SequencesExt

CONSTANT None   \* absence: of a name, a value, a result

\* A sequence, whatever it consists of.
IsSeq(x) == Len(x) \in Nat /\ x = [i \in 1 .. Len(x) |-> x[i]]

\* The first of base, base 2, base 3, ... that is not taken.
FreeName(base, taken) ==
  IF base \notin taken THEN base
  ELSE LET n == CHOOSE i \in 2 .. Cardinality(taken) + 2 :
                  /\ Append(base, i) \notin taken
                  /\ \A j \in 2 .. i - 1 : Append(base, j) \in taken
       IN Append(base, n)
=============================================================================
