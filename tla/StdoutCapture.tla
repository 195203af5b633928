---------------------------- MODULE StdoutCapture ----------------------------
(***************************************************************************)
(* CtypesStdoutCapture (provider/_tonlibjson/_utils.py) as the clients'    *)
(* init uses it: standard output is a pipe while a client waits for tonlib *)
(* to answer setLogVerbosityLevel, and tonlib may log in the meantime.     *)
(* The descriptors 1 and 2 belong to the process, so all clients and the   *)
(* application share them.  Descriptor 2 is treated like 1 in the same     *)
(* two steps and is left out.                                              *)
(***************************************************************************)
EXTENDS Naturals

CONSTANTS
    Clients,   \* clients of one process
    Rounds,    \* how often a client runs init: once, then per reconnect
    LogLines,  \* lines tonlib writes before it answers
    PipeSize,  \* lines a pipe holds before a writer blocks
    AppLines   \* bound: lines the application prints into a pipe

Captures == Clients \X (1 .. Rounds)
Terminal == <<"terminal", 0>>   \* what descriptor 1 is when the process starts

VARIABLES
    fd1,     \* where descriptor 1 goes: Terminal or the pipe of a capture
    round,   \* round[c]: inits client c has started
    inside,  \* the captures between __enter__ and __exit__
    stdout,  \* stdout[k]: self._stdout, the duplicate made in __enter__
    log,     \* log[c]: lines the tonlib of client c still has to write
    pipe,    \* pipe[k]: lines in the pipe of capture k, which nobody reads
    printed  \* lines the application has printed into a pipe

vars == <<fd1, round, inside, stdout, log, pipe, printed>>

Init ==
    /\ fd1 = Terminal
    /\ round = [c \in Clients |-> 0]
    /\ inside = {}
    /\ stdout = [k \in Captures |-> Terminal]
    /\ log = [c \in Clients |-> 0]
    /\ pipe = [k \in Captures |-> 0]
    /\ printed = 0

Capturing(c) == \E k \in inside : k[1] = c

\* Mutant: one pair of pipes per client, made at its first capture.
Enter_shared_pipe(c) ==
    /\ ~ Capturing(c)
    /\ round[c] < Rounds
    /\ LET k == <<c, round[c] + 1>>
       IN  /\ stdout' = [stdout EXCEPT ![k] = fd1]
           /\ inside' = inside \cup {k}
    /\ fd1' = <<c, 1>>
    /\ round' = [round EXCEPT ![c] = @ + 1]
    /\ log' = [log EXCEPT ![c] = LogLines]
    /\ UNCHANGED <<pipe, printed>>

\* __enter__, and the request whose answer init awaits.
Enter(c) ==
    /\ ~ Capturing(c)
    /\ round[c] < Rounds
    /\ LET k == <<c, round[c] + 1>>
       IN  /\ stdout' = [stdout EXCEPT ![k] = fd1]
           /\ fd1' = k
           /\ inside' = inside \cup {k}
    /\ round' = [round EXCEPT ![c] = @ + 1]
    /\ log' = [log EXCEPT ![c] = LogLines]
    /\ UNCHANGED <<pipe, printed>>

\* A line on descriptor 1; the writer blocks while the pipe is full.
Write ==
    /\ fd1 # Terminal => pipe[fd1] < PipeSize
    /\ pipe' = IF fd1 = Terminal THEN pipe ELSE [pipe EXCEPT ![fd1] = @ + 1]

TonlibLogs(c) ==
    /\ log[c] > 0
    /\ log' = [log EXCEPT ![c] = @ - 1]
    /\ Write
    /\ UNCHANGED <<fd1, round, inside, stdout, printed>>

ApplicationPrints ==
    /\ fd1 # Terminal
    /\ printed < AppLines
    /\ printed' = printed + 1
    /\ Write
    /\ UNCHANGED <<fd1, round, inside, stdout, log>>

\* Mutant: the descriptor is left as it is.
Exit_leaves_pipe(k) ==
    /\ k \in inside
    /\ log[k[1]] = 0
    /\ inside' = inside \ {k}
    /\ UNCHANGED <<fd1, round, stdout, log, pipe, printed>>

\* tonlib answered and __exit__ runs.
Exit(k) ==
    /\ k \in inside
    /\ log[k[1]] = 0
    /\ fd1' = stdout[k]
    /\ inside' = inside \ {k}
    /\ UNCHANGED <<round, stdout, log, pipe, printed>>

Next ==
    \/ \E c \in Clients : Enter(c) \/ TonlibLogs(c)
    \/ ApplicationPrints
    \/ \E k \in Captures : Exit(k)

Spec == Init /\ [][Next]_vars

\* tonlib logs and answers unless its write blocks.
FairSpec ==
    /\ Spec
    /\ \A c \in Clients : WF_vars(TonlibLogs(c))
    /\ \A k \in Captures : WF_vars(Exit(k))

----------------------------------------------------------------------------
TypeOK ==
    /\ fd1 \in Captures \cup {Terminal}
    /\ round \in [Clients -> 0 .. Rounds]
    /\ inside \subseteq Captures
    /\ stdout \in [Captures -> Captures \cup {Terminal}]
    /\ log \in [Clients -> 0 .. LogLines]
    /\ pipe \in [Captures -> 0 .. PipeSize]
    /\ printed \in 0 .. AppLines

(* "put stdout back in place": whenever no init is capturing, descriptor 1 *)
(* is what it was before, so the application's output is seen again.       *)
StdoutBackInPlace == inside = {} => fd1 = Terminal

(* With one client it is, and no pipe ever holds more than it can.         *)
CaptureInv == TypeOK /\ StdoutBackInPlace

(* init gets out of the capture, as long as a pipe holds what tonlib and   *)
(* the application write into it: nobody reads the pipe, so each capture   *)
(* has to start with an empty one.                                         *)
CaptureEnds == \A k \in Captures : (k \in inside) ~> (k \notin inside)
=============================================================================
