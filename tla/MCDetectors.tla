----------------------------- MODULE MCDetectors -----------------------------
(* TLC instance of Detectors. *)
EXTENDS Detectors, TLC

CONSTANTS k1, k2, k3, page, admin, http, ws

Clients == {k1, k2, k3}

\* Clients and paths are only told apart.
Symm == {f @@ g : f \in Permutations(Clients), g \in Permutations({page, admin})}

\* Two rows of three cells: item 2 meets item 1 in one row and item 3 in the
\* other.
CellOf == << <<0, 0, 1, 2>>, <<0, 1, 1, 2>> >>

\* Items 1 and 4 are the same to the filter; item 2 starts at their other
\* bucket, which is that of item 3, too.  The hashes have bits that the
\* numbers of buckets lack.
BucketOf == <<{1}, {0, 1}, {0}, {1}>>
FingerprintOf == <<1, 2, 3, 1>>
HashOf == <<{0, 5}, {0, 1}, {1, 7}>>

\* Two items to a register.
RegisterOf == <<1, 1, 2, 2>>
RankOf == <<1, 2, 1, 2>>

\* One websocket is enough to share a clock and a cleanup with the others.
OneSocket ==
  /\ SumFunction(Lengths(buckets[ws])) <= 1
  /\ \A k \in Keys : \A i \in DOMAIN buckets[ws][k] : buckets[ws][k][i].count = 1

=============================================================================
