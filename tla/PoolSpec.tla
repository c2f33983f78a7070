------------------------------ MODULE PoolSpec ------------------------------
(***************************************************************************)
(* What a pool of backends promises to its readers: an append-only list of *)
(* members, of at most Capacity, in which only the load score of a member  *)
(* ever changes.  A reader that remembers a position can rely on it: it    *)
(* names the same backend for ever.  Loader implements this, as long as    *)
(* registrations in a pool do not overlap.                                 *)
(***************************************************************************)
EXTENDS Naturals, Sequences

CONSTANTS Pools, IPs, Capacity, Scores

VARIABLE members    \* members[p]: the backends of pool p, oldest first

Member == [ip : IPs, load_score : Scores]

Init == members = [p \in Pools |-> <<>>]

Add(p, m) ==
    /\ Len(members[p]) < Capacity
    /\ members' = [members EXCEPT ![p] = Append(@, m)]

SetScore(p, i, load) ==
    members' = [members EXCEPT ![p][i].load_score = load]

Next ==
    \E p \in Pools :
        \/ \E m \in Member : Add(p, m)
        \/ \E i \in DOMAIN members[p], load \in Scores : SetScore(p, i, load)

Spec == Init /\ [][Next]_members
=============================================================================
