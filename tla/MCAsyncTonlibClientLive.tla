------------------------ MODULE MCAsyncTonlibClientLive ------------------------
(***************************************************************************)
(* AsyncTonlibClient under fairness, and the capture of standard output    *)
(* (StdoutCapture) that each of its inits goes through.  A behaviour is    *)
(* about one of them; the other one stays as it is at the start.           *)
(***************************************************************************)
EXTENDS MCAsyncTonlibClient

CONSTANTS Clients, Rounds, LogLines, PipeSize, AppLines

VARIABLES part, fd1, round, inside, stdout, log, pipe, printed

C == INSTANCE StdoutCapture

captureVars == <<fd1, round, inside, stdout, log, pipe, printed>>
allVars == <<part, vars, captureVars>>

\* Bound: the calls the tasks make, one with a second request that follows
\* at once and one whose second request is made when the task likes.
LiveOps == t1 :> "run" @@ t2 :> "send"

PartsInit ==
    /\ part \in {"client", "capture"}
    /\ Init /\ op = LiveOps
    /\ C!Init

PartsNext ==
    \/ part = "client" /\ Next /\ UNCHANGED <<part, captureVars>>
    \/ part = "capture" /\ C!Next /\ UNCHANGED <<part, vars>>

\* Each has the fairness of its own module.
PartsFairness ==
    /\ part = "client" => Fairness
    /\ part = "capture" =>
         /\ \A c \in Clients : WF_captureVars(C!TonlibLogs(c))
         /\ \A k \in C!Captures : WF_captureVars(C!Exit(k))

PartsSpec == PartsInit /\ [][PartsNext]_allVars /\ PartsFairness

-----------------------------------------------------------------------------
\* The properties of StdoutCapture, as stated and explained there.
CaptureInv == C!CaptureInv
CaptureEnds == C!CaptureEnds
===============================================================================
