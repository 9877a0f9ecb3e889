------------------------------- MODULE HashRing -------------------------------
(***************************************************************************)
(* Which bot worker owns a bot (bot_worker/consistent_hash.py).            *)
(*                                                                         *)
(* Every worker contributes `replicas` points to a sorted ring of MD5      *)
(* values, and a bot belongs to the worker whose point is the first at or  *)
(* after the bot's own hash, wrapping at the end.  The constants are the   *)
(* values that MD5 gives; no two of the points coincide.                   *)
(***************************************************************************)
EXTENDS Integers

CONSTANTS Worker,    \* worker identifiers (WORKER_ID, the pod's name)
          Bot,       \* bot identifiers (primary keys of the three bot tables)
          Points,    \* [Worker -> SUBSET Nat]: the hashes of "<worker>:<i>"
          Hash       \* [Bot -> Nat]: the hashes of the bots

ASSUME HashRingAssumption ==
  /\ Points \in [Worker -> (SUBSET Nat) \ {{}}]
  /\ \A v, w \in Worker : v # w => Points[v] \cap Points[w] = {}
  /\ Hash \in [Bot -> Nat]

\* The points of a ring that add_node was called on for each of the workers.
RingPoints(ring) == UNION {Points[w] : w \in ring}

\* get_node's bisect_left, which goes back to the first point when the hash is
\* past the last one.
First(points) == CHOOSE p \in points : \A q \in points : p <= q
NextPoint(points, hash) ==
  LET following == {p \in points : p >= hash}
  IN  First(IF following = {} THEN points ELSE following)

\* get_node: the worker of the ring that owns bot b.  The ring is never empty
\* where the callers use it: _rebuild_hash_ring always adds the worker itself.
GetNode(b, ring) ==
  CHOOSE w \in ring : NextPoint(RingPoints(ring), Hash[b]) \in Points[w]

\* get_keys_for_node: those of the given bots that worker w owns.
GetKeysForNode(w, ring, bots) == {b \in bots : GetNode(b, ring) = w}
===============================================================================
