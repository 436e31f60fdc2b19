--------------------------- MODULE FlashContract ---------------------------
(***************************************************************************)
(* What a firmware update may do to the flash, whoever carries it out: it  *)
(* fills partitions that are neither booted nor running, selects for the   *)
(* next boot a partition that holds a complete image, and the device       *)
(* restarts, at any time, into the selected partition.                     *)
(***************************************************************************)
CONSTANTS Partitions,
          Images       \* the complete images there are

VARIABLES content,     \* content[p]: what partition p holds
          boot,        \* the partition selected for the next boot
          running      \* the partition that runs

flash == <<content, boot, running>>

Init == /\ boot \in Partitions
        /\ running = boot
        /\ content[boot] \in Images

Fill(p) == /\ p \notin {boot, running}
           /\ DOMAIN content' = DOMAIN content
           /\ \A q \in Partitions \ {p} : content'[q] = content[q]
           /\ UNCHANGED <<boot, running>>

Select(p) == /\ content[p] \in Images
             /\ boot' = p
             /\ UNCHANGED <<content, running>>

Restart == /\ running' = boot
           /\ UNCHANGED <<content, boot>>

Next == \/ \E p \in Partitions : Fill(p) \/ Select(p)
        \/ Restart

Spec == Init /\ [][Next]_flash
=============================================================================
