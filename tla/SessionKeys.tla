---------------------------- MODULE SessionKeys ----------------------------
(***************************************************************************)
(* What the batching and the geofence adapter share: sessions are kept in  *)
(* maps from a LocationSessionKey, the client and an id that is generated  *)
(* once (gps/core/LocAdapterBase.h, generateSessionId).                    *)
(***************************************************************************)
EXTENDS Integers, FiniteSets, Functions

Key(c, id) == [client |-> c, id |-> id]

\* The map f after f[x] = v, and after erase(x)
With(f, x, v) == [y \in DOMAIN f \cup {x} |-> IF y = x THEN v ELSE f[y]]
Without(f, x) == Restrict(f, DOMAIN f \ {x})

\* The order in which a map of keys S is walked through: rank is what compares
\* them first.
Ascending(S, rank) ==
  CHOOSE s \in [1..Cardinality(S) -> S] :
    /\ IsInjective(s)
    /\ \A i, j \in DOMAIN s : i < j => rank[s[i]] <= rank[s[j]]
ById(keys) == Ascending(keys, [k \in keys |-> k.id])
=============================================================================
