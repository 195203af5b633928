-------------------------- MODULE AsyncTonlibClient --------------------------
(***************************************************************************)
(* AsyncTonlibClient (provider/_tonlibjson/_async/_client.py): the tasks   *)
(* of an application that share one client, the wrappers it goes through   *)
(* as they restart, and the tonlib instance behind each of them.           *)
(*                                                                         *)
(* A wrapper is used through what RequestChannel says of it: it may start  *)
(* to shut down at any moment, asks for a replacement at most once, and    *)
(* finishes when nothing is outstanding.  TonlibWrapper implements that.   *)
(*                                                                         *)
(* The calls modelled are the four shapes the client has: one request      *)
(* ("state", raw_get_account_state and all calls like it), smc.load then   *)
(* smc.runGetMethod ("run"), raw.createQuery then query.estimateFees       *)
(* ("fees"), raw.createQuery then an unawaited query.send ("send").        *)
(***************************************************************************)
EXTENDS Naturals, FiniteSets

CONSTANTS
    Tasks,        \* tasks of the application, one call each
    Addresses,    \* contracts and destinations
    Ids,          \* ids tonlib gives to what it loaded or created
    Budgets,      \* values of max_restarts the application may pass
    NoLimit,      \* max_restarts is None
    MaxInits,     \* bound: calls of init by the application
    MaxWrappers   \* bound: wrappers created

ASSUME BudgetsAssumption == Budgets \subseteq Nat \cup {NoLimit}
ASSUME NoLimitAssumption == NoLimit \notin Nat
ASSUME MaxWrappersAssumption == MaxWrappers \in Nat \ {0}
ASSUME MaxInitsAssumption == MaxInits \in Nat \ {0}
ASSUME NamesAssumption ==
    \A s \in {"none", "pending", "error", "raised", "unsent"} :
        s \notin Addresses /\ s \notin Ids

Wrappers == 1 .. MaxWrappers
None == 0                        \* tonlib_wrapper is None

TwoStep == {"run", "fees", "send"}
Ops == {"state"} \cup TwoStep

VARIABLES
    cur,      \* self.tonlib_wrapper
    created,  \* number of wrappers created
    inits,    \* how often the application called init
    phase,    \* phase[w]: shutdown_state of wrapper w, "open" for False
    hook,     \* hook[w]: "unset", "set", "scheduled", "ran" or "raised"
    budget,   \* budget[w]: max_restarts given to set_restart_hook
    initAt,   \* initAt[w]: where the call of init stands that created w
    initOn,   \* initOn[w]: the wrapper that call sent its init request to
    limit,    \* limit[w]: the max_restarts that call was given
    usable,   \* usable[w]: the tonlib of w has processed an init
    known,    \* known[w]: what that tonlib loaded or created, by id
    pc,       \* pc[t]: "idle", "first", "second", "unawaited" or "end"
    op,       \* op[t]: the call task t makes
    about,    \* about[t]: the address it is about
    at,       \* at[t]: the wrapper that has t's request
    answer,   \* answer[t]: what its future holds, "pending" before that
    id,       \* id[t]: the id t got from its first request
    source,   \* source[t]: the wrapper t got it from
    result    \* result[t]: how t's call ended

initVars == <<created, inits, initAt, initOn, limit>>
wrapVars == <<cur, phase, hook, budget, initVars>>
libVars  == <<usable, known>>
taskVars == <<pc, op, about, at, answer, id, source, result>>
vars == <<wrapVars, libVars, taskVars>>

Init ==
    /\ cur = None
    /\ created = 0
    /\ inits = 0
    /\ phase = [w \in Wrappers |-> "none"]
    /\ hook = [w \in Wrappers |-> "unset"]
    /\ budget = [w \in Wrappers |-> NoLimit]
    /\ initAt = [w \in Wrappers |-> "none"]
    /\ initOn = [w \in Wrappers |-> None]
    /\ limit = [w \in Wrappers |-> NoLimit]
    /\ usable = [w \in Wrappers |-> FALSE]
    /\ known = [w \in Wrappers |-> {}]
    /\ pc = [t \in Tasks |-> "idle"]
    /\ op \in [Tasks -> Ops]
    /\ about \in [Tasks -> Addresses]
    /\ at = [t \in Tasks |-> None]
    /\ answer = [t \in Tasks |-> "none"]
    /\ id = [t \in Tasks |-> "none"]
    /\ source = [t \in Tasks |-> None]
    /\ result = [t \in Tasks |-> "none"]

\* The requests of tasks and of inits that wrapper w has yet to answer.
Outstanding(w) ==
    \/ initAt[w] = "verbosity"
    \/ \E v \in Wrappers : initAt[v] = "init" /\ initOn[v] = w
    \/ \E t \in Tasks : at[t] = w /\ answer[t] = "pending"

----------------------------------------------------------------------------
(* init and reconnect.                                                     *)

\* init up to its first await: a wrapper is created, becomes the one every
\* task uses from now on, and is sent setLogVerbosityLevel.
StartWrapper(n) ==
    /\ created < MaxWrappers
    /\ created' = created + 1
    /\ cur' = created + 1
    /\ phase' = [phase EXCEPT ![created + 1] = "open"]
    /\ limit' = [limit EXCEPT ![created + 1] = n]
    /\ initAt' = [initAt EXCEPT ![created + 1] = "verbosity"]
    /\ UNCHANGED <<budget, initOn>>

\* init raises before that: in the constructor of the wrapper, or after it
\* (the keystore directory, the config), which leaves a wrapper whose two
\* tasks run and that nobody uses.
StartRaises(n) ==
    /\ \/ UNCHANGED <<created, phase, limit, initAt>>
       \/ /\ created < MaxWrappers
          /\ created' = created + 1
          /\ phase' = [phase EXCEPT ![created + 1] = "open"]
          /\ limit' = [limit EXCEPT ![created + 1] = n]
          /\ initAt' = [initAt EXCEPT ![created + 1] = "failed"]
    /\ UNCHANGED <<cur, budget, initOn>>

\* The application may call init again, at any time.
UserInit ==
    /\ inits < MaxInits
    /\ inits' = inits + 1
    /\ \E n \in Budgets : StartWrapper(n) \/ StartRaises(n)
    /\ UNCHANGED <<hook, libVars, taskVars>>

VerbosityAnswered(w) ==
    /\ initAt[w] = "verbosity"
    /\ phase[w] # "finished"
    /\ initAt' = [initAt EXCEPT ![w] = "verbose"]
    /\ UNCHANGED <<cur, created, inits, phase, hook, budget, initOn, limit,
                   libVars, taskVars>>

\* init goes on.  Its own request is executed on the wrapper the client uses
\* by now, which may have finished: then it is never answered.
InitSends(w) ==
    /\ initAt[w] = "verbose"
    /\ IF cur = None
       THEN /\ initAt' = [initAt EXCEPT ![w] = "failed"]    \* AttributeError
            /\ initOn' = initOn
       ELSE /\ initAt' = [initAt EXCEPT ![w] = "init"]
            /\ initOn' = [initOn EXCEPT ![w] = cur]
    /\ UNCHANGED <<cur, created, inits, phase, hook, budget, limit, libVars,
                   taskVars>>

\* tonlib processes the init, or refuses it.  Either way the answer is a
\* dict, and init goes on.
TonlibInits(w) ==
    /\ initAt[w] = "init"
    /\ phase[initOn[w]] # "finished"
    /\ initAt' = [initAt EXCEPT ![w] = "answered"]
    /\ usable' \in {usable, [usable EXCEPT ![initOn[w]] = TRUE]}
    /\ UNCHANGED <<cur, created, inits, phase, hook, budget, initOn, limit,
                   known, taskVars>>

\* Mutant: only the application's own init sets the hook.
InitReturns_hook_once(w) ==
    /\ initAt[w] = "answered"
    /\ initAt' = [initAt EXCEPT ![w] = "returned"]
    /\ IF cur = None \/ w # 1
       THEN UNCHANGED <<hook, budget>>
       ELSE /\ hook' = [hook EXCEPT ![cur] = "set"]
            /\ budget' = [budget EXCEPT ![cur] = limit[w]]
    /\ UNCHANGED <<cur, created, inits, phase, initOn, limit, libVars, taskVars>>

\* The hook is set on whatever wrapper the client uses by then.  One that has
\* called its hook does not look at it again.
InitReturns(w) ==
    /\ initAt[w] = "answered"
    /\ initAt' = [initAt EXCEPT ![w] = IF cur = None THEN "failed" ELSE "returned"]
    /\ IF cur # None /\ hook[cur] \in {"unset", "set"}
       THEN /\ hook' = [hook EXCEPT ![cur] = "set"]
            /\ budget' = [budget EXCEPT ![cur] = limit[w]]
       ELSE UNCHANGED <<hook, budget>>
    /\ UNCHANGED <<cur, created, inits, phase, initOn, limit, libVars, taskVars>>

\* Mutant: the wrapper's shutdown state is not tested.
Restart_unguarded(w) ==
    /\ phase[w] \in {"open", "started"}
    /\ phase' = [phase EXCEPT ![w] = "started"]
    /\ hook' = IF hook[w] # "unset" THEN [hook EXCEPT ![w] = "scheduled"]
                                     ELSE hook
    /\ UNCHANGED <<cur, budget, initVars, libVars, taskVars>>

\* A wrapper restarts: its request limit, or a failure.  Without a hook the
\* request for a new wrapper is lost.
Restart(w) ==
    /\ phase[w] = "open"
    /\ phase' = [phase EXCEPT ![w] = "started"]
    /\ hook' = IF hook[w] = "set" THEN [hook EXCEPT ![w] = "scheduled"]
                                   ELSE hook
    /\ UNCHANGED <<cur, budget, initVars, libVars, taskVars>>

LimitLeft(n) == IF n = NoLimit THEN NoLimit ELSE n - 1

\* Mutant: the limit is handed on as it came.
Reconnect_forgets_limit(w) ==
    /\ hook[w] = "scheduled"
    /\ hook' = [hook EXCEPT ![w] = "ran"]
    /\ StartWrapper(budget[w])
    /\ UNCHANGED <<inits, libVars, taskVars>>

Reconnect(w) ==
    /\ hook[w] = "scheduled"
    /\ hook' = [hook EXCEPT ![w] = "ran"]
    /\ \/ budget[w] # 0 /\ StartWrapper(LimitLeft(budget[w]))
       \/ /\ budget[w] = 0
          /\ cur' = None
          /\ UNCHANGED <<created, phase, budget, initAt, initOn, limit>>
    /\ UNCHANGED <<inits, libVars, taskVars>>

\* The task of the hook ends with the exception, which nobody sees.
ReconnectRaises(w) ==
    /\ hook[w] = "scheduled"
    /\ hook' = [hook EXCEPT ![w] = "raised"]
    /\ budget[w] # 0
    /\ StartRaises(LimitLeft(budget[w]))
    /\ UNCHANGED <<inits, libVars, taskVars>>

\* Mutant: what is outstanding is not looked at.
WrapperFinishes_early(w) ==
    /\ phase[w] = "started"
    /\ phase' = [phase EXCEPT ![w] = "finished"]
    /\ UNCHANGED <<cur, hook, budget, initVars, libVars, taskVars>>

WrapperFinishes(w) ==
    /\ phase[w] = "started"
    /\ ~ Outstanding(w)
    /\ phase' = [phase EXCEPT ![w] = "finished"]
    /\ UNCHANGED <<cur, hook, budget, initVars, libVars, taskVars>>

----------------------------------------------------------------------------
(* The calls of the application's tasks.                                   *)

\* self.tonlib_wrapper.execute(request), with the wrapper read just now.
\* When it is None the AttributeError ends the call.
Send(t, next) ==
    IF cur = None
    THEN /\ pc' = [pc EXCEPT ![t] = "end"]
         /\ result' = [result EXCEPT ![t] = "raised"]
         /\ UNCHANGED <<at, answer>>
    ELSE /\ pc' = [pc EXCEPT ![t] = next]
         /\ at' = [at EXCEPT ![t] = cur]
         /\ answer' = [answer EXCEPT ![t] = "pending"]
         /\ result' = result

Return(t, value) ==
    /\ pc' = [pc EXCEPT ![t] = "end"]
    /\ result' = [result EXCEPT ![t] = value]
    /\ UNCHANGED <<at, answer>>

\* The application calls the client once an init returned.
Begin(t) ==
    /\ pc[t] = "idle"
    /\ \E w \in Wrappers : initAt[w] = "returned"
    /\ Send(t, "first")
    /\ UNCHANGED <<wrapVars, libVars, op, about, id, source>>

\* raw_get_account_state and the like: whatever came back is returned, a
\* tonlib error as well.
StateAnswered(t) ==
    /\ pc[t] = "first" /\ op[t] = "state"
    /\ answer[t] \notin {"pending"}
    /\ Return(t, answer[t])
    /\ UNCHANGED <<wrapVars, libVars, op, about, id, source>>

\* _load_contract and _raw_create_query: an error is raised.
FirstFailed(t) ==
    /\ pc[t] = "first" /\ op[t] \in TwoStep
    /\ answer[t] = "error"
    /\ Return(t, "raised")
    /\ UNCHANGED <<wrapVars, libVars, op, about, id, source>>

\* Mutant: the second request takes some id, not its own.
SecondRequest_any_id(t) ==
    /\ pc[t] = "first" /\ op[t] \in {"run", "fees"}
    /\ answer[t] \in Ids
    /\ id' \in {[id EXCEPT ![t] = i] : i \in Ids}
    /\ source' = [source EXCEPT ![t] = at[t]]
    /\ Send(t, "second")
    /\ UNCHANGED <<wrapVars, libVars, op, about>>

\* Otherwise the id goes into the second request, which is executed on the
\* wrapper the client uses by now.
SecondRequest(t) ==
    /\ pc[t] = "first" /\ op[t] \in {"run", "fees"}
    /\ answer[t] \in Ids
    /\ id' = [id EXCEPT ![t] = answer[t]]
    /\ source' = [source EXCEPT ![t] = at[t]]
    /\ Send(t, "second")
    /\ UNCHANGED <<wrapVars, libVars, op, about>>

SecondAnswered(t) ==
    /\ pc[t] = "second"
    /\ answer[t] # "pending"
    /\ Return(t, answer[t])
    /\ UNCHANGED <<wrapVars, libVars, op, about, id, source>>

\* raw_create_and_send_query returns the coroutine of the second request
\* without awaiting it ...
CoroutineReturned(t) ==
    /\ pc[t] = "first" /\ op[t] = "send"
    /\ answer[t] \in Ids
    /\ id' = [id EXCEPT ![t] = answer[t]]
    /\ source' = [source EXCEPT ![t] = at[t]]
    /\ pc' = [pc EXCEPT ![t] = "unawaited"]
    /\ UNCHANGED <<wrapVars, libVars, op, about, at, answer, result>>

\* ... which runs only if the application awaits what it was given.
CoroutineAwaited(t) ==
    /\ pc[t] = "unawaited"
    /\ Send(t, "second")
    /\ UNCHANGED <<wrapVars, libVars, op, about, id, source>>

CoroutineDropped(t) ==
    /\ pc[t] = "unawaited"
    /\ Return(t, "unsent")
    /\ UNCHANGED <<wrapVars, libVars, op, about, id, source>>

----------------------------------------------------------------------------
(* tonlib.  Ids are numbers of the instance that gave them out: another    *)
(* instance may use the same number for something else.                    *)

Kind(o) == IF o = "run" THEN "smc" ELSE "query"

CanAnswer(t) == answer[t] = "pending" /\ phase[at[t]] # "finished"

SetAnswer(t, value) ==
    /\ answer' = [answer EXCEPT ![t] = value]
    /\ UNCHANGED <<wrapVars, usable, pc, op, about, at, id, source, result>>

\* Before init is processed every request ends in an error.
TonlibNotReady(t) ==
    /\ CanAnswer(t)
    /\ ~ usable[at[t]]
    /\ SetAnswer(t, "error") /\ known' = known

TonlibAnswersState(t) ==
    /\ CanAnswer(t) /\ usable[at[t]]
    /\ pc[t] = "first" /\ op[t] = "state"
    /\ SetAnswer(t, about[t]) /\ known' = known

TonlibLoads(t) ==
    /\ CanAnswer(t) /\ usable[at[t]]
    /\ pc[t] = "first" /\ op[t] \in TwoStep
    /\ \E i \in Ids :
         /\ \A k \in known[at[t]] : k.kind = Kind(op[t]) => k.id # i
         /\ known' = [known EXCEPT ![at[t]] =
                        @ \cup {[kind |-> Kind(op[t]), id |-> i, of |-> about[t]]}]
         /\ SetAnswer(t, i)

\* The object the id names in this instance, or an error.
TonlibUsesId(t) ==
    /\ CanAnswer(t) /\ usable[at[t]]
    /\ pc[t] = "second"
    /\ LET named == {k \in known[at[t]] : k.kind = Kind(op[t]) /\ k.id = id[t]}
       IN  IF named = {}
           THEN SetAnswer(t, "error")
           ELSE \E k \in named : SetAnswer(t, k.of)
    /\ known' = known

----------------------------------------------------------------------------
InitStep(w) ==
    VerbosityAnswered(w) \/ InitSends(w) \/ TonlibInits(w) \/ InitReturns(w)

CallStep(t) ==
    \/ StateAnswered(t) \/ FirstFailed(t) \/ SecondRequest(t)
    \/ SecondAnswered(t) \/ CoroutineReturned(t)

TonlibStep(t) ==
    \/ TonlibNotReady(t) \/ TonlibAnswersState(t)
    \/ TonlibLoads(t) \/ TonlibUsesId(t)

Next ==
    \/ UserInit
    \/ \E w \in Wrappers :
         \/ InitStep(w) \/ Restart(w) \/ WrapperFinishes(w)
         \/ Reconnect(w) \/ ReconnectRaises(w)
    \/ \E t \in Tasks :
         \/ Begin(t) \/ CallStep(t) \/ TonlibStep(t)
         \/ CoroutineAwaited(t) \/ CoroutineDropped(t)

Spec == Init /\ [][Next]_vars

\* The loop runs what can run and tonlib answers; when a wrapper restarts
\* and whether the application makes a call is up to them.
Fairness ==
    /\ \A w \in Wrappers :
         WF_vars(InitStep(w)) /\ WF_vars(Reconnect(w)) /\ WF_vars(WrapperFinishes(w))
    /\ \A t \in Tasks : WF_vars(CallStep(t)) /\ WF_vars(TonlibStep(t))

FairSpec == Spec /\ Fairness

----------------------------------------------------------------------------
InitStates ==
    {"none", "verbosity", "verbose", "init", "answered", "returned", "failed"}

Results == {"none", "raised", "error", "unsent"} \cup Addresses

TypeOK ==
    /\ cur \in Wrappers \cup {None} /\ created \in 0 .. MaxWrappers
    /\ inits \in 0 .. MaxInits
    /\ phase \in [Wrappers -> {"none", "open", "started", "finished"}]
    /\ hook \in [Wrappers -> {"unset", "set", "scheduled", "ran", "raised"}]
    /\ budget \in [Wrappers -> Nat \cup {NoLimit}]
    /\ initAt \in [Wrappers -> InitStates]
    /\ initOn \in [Wrappers -> Wrappers \cup {None}]
    /\ limit \in [Wrappers -> Nat \cup {NoLimit}]
    /\ usable \in [Wrappers -> BOOLEAN]
    /\ known \in [Wrappers -> SUBSET [kind : {"smc", "query"}, id : Ids, of : Addresses]]
    /\ pc \in [Tasks -> {"idle", "first", "second", "unawaited", "end"}]
    /\ op \in [Tasks -> Ops] /\ about \in [Tasks -> Addresses]
    /\ at \in [Tasks -> Wrappers \cup {None}]
    /\ answer \in [Tasks -> {"none", "pending", "error"} \cup Ids \cup Addresses]
    /\ id \in [Tasks -> Ids \cup {"none"}]
    /\ source \in [Tasks -> Wrappers \cup {None}]
    /\ result \in [Tasks -> Results]

(* At most one wrapper takes on new work for ever: every wrapper but the   *)
(* newest is shutting down, so no tonlib instance is leaked in an open     *)
(* state by reconnecting, not even one whose set-up raised.                *)
OlderWrappersShutDown ==
    \A w \in Wrappers : w < created => phase[w] \in {"started", "finished"}

(* init and the tasks agree on the wrapper: while init of a wrapper waits  *)
(* for tonlib, the client has not moved on to another one, so the init     *)
(* request and the hook go to the wrapper that init created.               *)
InitOwnsWrapper ==
    \A w \in Wrappers :
        /\ initAt[w] \in {"verbosity", "verbose", "init", "answered"} => cur = w
        /\ initAt[w] \in {"init", "answered", "returned"} => initOn[w] = w

(* One wrapper at a time is the client's: both of the above, with the      *)
(* types of the variables.  A second init of the application breaks them:  *)
(* it leaves the wrapper of the first one open.                            *)
WrapperInv ==
    TypeOK /\ (inits <= 1 => OlderWrappersShutDown /\ InitOwnsWrapper)

(* A client that is initialised once, with a limit of n restarts, uses at  *)
(* most n + 1 wrappers: the limit that an init is given goes down with     *)
(* each reconnect.                                                         *)
LimitCountsDown ==
    inits <= 1 =>
        \A v, w \in Wrappers :
            v < w /\ w <= created /\ limit[v] # NoLimit
                => limit[w] # NoLimit /\ limit[v] >= limit[w] + (w - v)

(* An answer about another address than the one asked for is possible      *)
(* only when the client changed its wrapper between the two requests of a  *)
(* call: within one wrapper no interleaving of calls mixes up their ids.   *)
MixedUpOnlyByReconnect ==
    \A t \in Tasks :
        /\ result[t] \in Addresses \ {about[t]} => op[t] # "state" /\ source[t] # at[t]
        /\ pc[t] = "second" /\ source[t] = at[t]
             => [kind |-> Kind(op[t]), id |-> id[t], of |-> about[t]] \in known[at[t]]

(* A request made on a wrapper that has not finished is answered, however  *)
(* the wrappers come and go.                                               *)
RequestsAnswered ==
    \A t \in Tasks :
        (answer[t] = "pending" /\ phase[at[t]] # "finished") ~> (answer[t] # "pending")

\* The client works: its wrapper takes on requests, the tonlib behind it has
\* processed an init, and a restart of it would be heard.
Works(w) == cur = w /\ phase[w] = "open" /\ usable[w] /\ hook[w] = "set"

\* The set-up of wrapper w came to nothing: init raised, or tonlib refused
\* it, or the wrapper began to shut down before it had a hook.
SetUpFailed(w) ==
    \/ initAt[w] = "failed"
    \/ initAt[w] = "returned" /\ ~ usable[w]
    \/ hook[w] = "unset" /\ phase[w] \in {"started", "finished"}

(* A restart that its hook hears leads to a client that works again, unless *)
(* it has used up its restarts or the one attempt to set up the next        *)
(* wrapper fails: nothing tries again, and the client stays as it is.       *)
RestartRecovers ==
    \A w \in Wrappers :
        (hook[w] = "scheduled" /\ created < MaxWrappers)
            ~> \/ cur = None
               \/ \E v \in Wrappers : v > w /\ (Works(v) \/ SetUpFailed(v))
               \/ hook[w] = "raised"
=============================================================================
