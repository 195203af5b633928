------------------------------- MODULE RetryAsync -------------------------------
(***************************************************************************)
(* A call of a function decorated with retry_async                         *)
(* (provider/_tonlibjson/_utils.py).  The wrapper goes through all its     *)
(* repeats, whether they succeed or not.  An attempt that fails may have   *)
(* had its effect before: an answer that came too late, say.               *)
(***************************************************************************)
EXTENDS Integers, Sequences

CONSTANT MaxRepeats   \* bound: repeats is chosen up to it

VARIABLES
    repeats, last_archval, raise_error,   \* arguments of the decorator
    attempts,    \* history: what came of each, [succeeds, takes_effect, archival]
    result,      \* the attempt whose result is held, 0 for None
    exception,   \* the attempt whose exception is held, 0 for None
    retry_pc     \* "trying", "returned" or "raised"

retryVars == <<repeats, last_archval, raise_error, attempts, result, exception, retry_pc>>

Init ==
    /\ repeats \in 0 .. MaxRepeats /\ last_archval \in BOOLEAN /\ raise_error \in BOOLEAN
    /\ attempts = << >> /\ result = 0 /\ exception = 0 /\ retry_pc = "trying"

\* Mutant: an exception is held until the end.
Held_until_end(succeeds) == IF succeeds THEN exception ELSE Len(attempts) + 1

\* A success clears the exception of the attempts before it.
Held(succeeds) == IF succeeds THEN 0 ELSE Len(attempts) + 1

Attempt(succeeds, takes_effect) ==
    LET i == Len(attempts) + 1 IN
    /\ retry_pc = "trying" /\ i <= repeats
    /\ attempts' = Append(attempts, [succeeds |-> succeeds, takes_effect |-> takes_effect,
                                     archival |-> last_archval /\ i = repeats])
    /\ result' = IF succeeds THEN i ELSE result
    /\ exception' = Held(succeeds)
    /\ UNCHANGED <<repeats, last_archval, raise_error, retry_pc>>

End ==
    /\ retry_pc = "trying" /\ Len(attempts) = repeats
    /\ retry_pc' = IF exception # 0 /\ raise_error THEN "raised" ELSE "returned"
    /\ UNCHANGED <<repeats, last_archval, raise_error, attempts, result, exception>>

Over == retry_pc # "trying" /\ UNCHANGED retryVars

Next ==
    \/ \E takes_effect \in BOOLEAN : Attempt(FALSE, takes_effect)
    \/ Attempt(TRUE, TRUE)
    \/ End
    \/ Over

Spec == Init /\ [][Next]_retryVars

-----------------------------------------------------------------------------
Succeeded == {i \in DOMAIN attempts : attempts[i].succeeds}

\* A success makes up for all failures before it: only a failure of the last
\* attempt, the one the archive may be asked in, is raised.  What is returned comes
\* from the latest success, an earlier attempt than the last one if that failed and
\* raise_error is off.
RetryKeepsSuccess ==
    /\ retry_pc # "trying" => Len(attempts) = repeats
    /\ retry_pc = "raised" => raise_error /\ repeats \notin Succeeded
    /\ retry_pc = "returned" /\ raise_error => repeats = 0 \/ result = repeats
    /\ retry_pc = "returned" =>
          IF Succeeded = {} THEN result = 0
          ELSE result \in Succeeded /\ \A i \in Succeeded : i <= result
    /\ \A i \in DOMAIN attempts : attempts[i].archival => i = repeats
=================================================================================
