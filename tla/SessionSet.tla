----------------------------- MODULE SessionSet -----------------------------
(***************************************************************************)
(* What the session pool of the HTTP server promises its callers: a set of *)
(* socket descriptors that never holds more than Limit of them.  A caller  *)
(* adds a descriptor (refused when it is known or the set is full),        *)
(* removes one, or empties the set.  The limit is promised until another   *)
(* task's emptying overlaps with an addition or a removal; from then on    *)
(* only the next emptying that nobody overlaps restores it.  Slots and     *)
(* stacks are not visible.                                                 *)
(***************************************************************************)
EXTENDS Naturals, FiniteSets

CONSTANTS Fds,    \* socket descriptors lwIP can hand out
          Limit   \* how many of them the pool takes

VARIABLES live,     \* descriptors in the pool
          bounded   \* no emptying has been overlapped: the limit holds

Init == live = {} /\ bounded = TRUE

Add(fd) == /\ fd \notin live
           /\ bounded' => bounded /\ Cardinality(live) < Limit
           /\ live' = live \cup {fd}

Remove(fd) == /\ live' = live \ {fd}
              /\ bounded' => bounded

Empty == live' = {}

Overlap == bounded' = FALSE /\ UNCHANGED live

Next == \/ \E fd \in Fds : Add(fd) \/ Remove(fd)
        \/ Empty \/ Overlap

Spec == Init /\ [][Next]_<<live, bounded>>
=============================================================================
