-------------------------------- MODULE Tables --------------------------------
(***************************************************************************)
(* Tables of clients with a limit to their size, as the detectors keep     *)
(* them: a list of dated entries for each client, of which old ones are    *)
(* dropped, and heapq.nsmallest picks the clients to drop.                 *)
(***************************************************************************)
EXTENDS KeysAndTime, Sequences, FiniteSets, FiniteSetsExt, Functions

(***************************************************************************)
(* The choices of clients to drop from a table with too many of them: the  *)
(* ones with the smallest entries.  size is 0 for a client without one.    *)
(***************************************************************************)
Smallest(size, limit) ==
  LET tracked == {k \in Keys : size[k] # 0}
      excess == Cardinality(tracked) - limit
  IN IF excess <= 0 THEN {{}}
     ELSE {out \in kSubset(excess, tracked) :
             \A k \in out, l \in tracked \ out : size[k] <= size[l]}

\* the entries of a list from time t on; it is in order, so these are its
\* last ones
Since(list, t) ==
  SubSeq(list, 1 + Cardinality({i \in DOMAIN list : list[i].at < t}), Len(list))

Lengths(table) == [k \in Keys |-> Len(table[k])]

=============================================================================
