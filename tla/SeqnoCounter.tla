--------------------------- MODULE SeqnoCounter ---------------------------
(***************************************************************************)
(* What a HighloadQueryId promises to its user: a counter that starts at   *)
(* 0, moves up by exactly one, refuses to move beyond Last, and can be     *)
(* written down and read back.  The number after Last exists but is never  *)
(* issued: it is kept for an emergency withdrawal.                         *)
(***************************************************************************)
EXTENDS Naturals

CONSTANT Last   \* a natural number: the largest one the counter issues

VARIABLES n,        \* the current number
          saved,    \* the number written down
          refused   \* the latest request for a next number was refused

vars == <<n, saved, refused>>

Init == n = 0 /\ saved = 0 /\ refused = FALSE

Advance == n < Last /\ n' = n + 1 /\ refused' = FALSE /\ saved' = saved

Refuse == n = Last /\ refused' = TRUE /\ UNCHANGED <<n, saved>>

Save == saved' = n /\ UNCHANGED <<n, refused>>

Restore == n' = saved /\ refused' = FALSE /\ saved' = saved

Next == Advance \/ Refuse \/ Save \/ Restore

Spec == Init /\ [][Next]_vars
===========================================================================
