--------------------------- MODULE RequestChannel ---------------------------
(***************************************************************************)
(* What one tonlib wrapper promises to the tasks that send requests        *)
(* through it.  A request is idle until it is made, then pending until it  *)
(* is answered or its caller gives up, and settled for good after that.    *)
(* The channel is asked to shut down once, asks its owner for a            *)
(* replacement at most once, and is finished only when no request is       *)
(* outstanding.  It answers nothing after that.                            *)
(***************************************************************************)
CONSTANT Requests

VARIABLES call,     \* call[r] is "idle", "pending", "done" or "cancelled"
          phase,    \* "open", "started" or "finished"
          asked,    \* the owner was asked for a replacement
          replaced  \* the owner uses another channel

vars == <<call, phase, asked, replaced>>

Outstanding == {r \in Requests : call[r] \in {"pending", "cancelled"}}

Init ==
    /\ call = [r \in Requests |-> "idle"]
    /\ phase = "open"
    /\ asked = FALSE
    /\ replaced = FALSE

Call(r) ==
    /\ ~ replaced
    /\ call[r] = "idle"
    /\ call' = [call EXCEPT ![r] = "pending"]
    /\ UNCHANGED <<phase, asked, replaced>>

GiveUp(r) ==
    /\ call[r] = "pending"
    /\ call' = [call EXCEPT ![r] = "cancelled"]
    /\ UNCHANGED <<phase, asked, replaced>>

\* The answer may be the last one a channel that shuts down waits for.
Answer(r) ==
    /\ call[r] = "pending"
    /\ phase # "finished"
    /\ call' = [call EXCEPT ![r] = "done"]
    /\ \/ phase' = phase
       \/ phase = "started" /\ Outstanding = {r} /\ phase' = "finished"
    /\ UNCHANGED <<asked, replaced>>

Start ==
    /\ phase = "open"
    /\ phase' = "started"
    /\ asked' \in BOOLEAN
    /\ UNCHANGED <<call, replaced>>

Replace ==
    /\ asked
    /\ replaced' = TRUE
    /\ UNCHANGED <<call, phase, asked>>

Finish ==
    /\ phase = "started"
    /\ Outstanding = {}
    /\ phase' = "finished"
    /\ UNCHANGED <<call, asked, replaced>>

Next ==
    \/ \E r \in Requests : Call(r) \/ GiveUp(r) \/ Answer(r)
    \/ Start \/ Replace \/ Finish

Spec == Init /\ [][Next]_vars
=============================================================================
