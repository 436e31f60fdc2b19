------------------------------ MODULE AltApList ------------------------------
(***************************************************************************)
(* What a user of the alternative access points is promised: a list of at  *)
(* most Size of them, the newest first, that survives a restart once the   *)
(* command that changed it has saved it.                                   *)
(***************************************************************************)
EXTENDS Integers, Sequences

CONSTANTS APs, Size

VARIABLES
  list,   \* the list in use
  stored  \* the list a restart brings back

Lists == UNION {[1 .. n -> APs] : n \in 1 .. Size}

Init == list \in Lists /\ stored = list

\* A full list forgets its oldest member.
Add == \E a \in APs :
          /\ list' = <<a>> \o (IF Len(list) < Size THEN list ELSE SubSeq(list, 1, Size - 1))
          /\ UNCHANGED stored

KeepNewest == list' = <<Head(list)>> /\ UNCHANGED stored

Save == stored' = list /\ UNCHANGED list

Restart == list' = stored /\ UNCHANGED stored

Next == Add \/ KeepNewest \/ Save \/ Restart

Spec == Init /\ [][Next]_<<list, stored>>
==============================================================================
