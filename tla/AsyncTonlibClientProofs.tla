------------------------ MODULE AsyncTonlibClientProofs ------------------------
(***************************************************************************)
(* What holds of a client, its wrappers and the tasks that share it, for   *)
(* any number of tasks, addresses, ids and reconnects, and of the capture  *)
(* of standard output by one client.                                       *)
(***************************************************************************)
EXTENDS MCAsyncTonlibClientLive, TLAPS

-----------------------------------------------------------------------------
(* The inductive invariant.                                                *)

WrapperTypes ==
    /\ cur \in Wrappers \cup {None} /\ created \in 0 .. MaxWrappers
    /\ inits \in 0 .. MaxInits
    /\ phase \in [Wrappers -> {"none", "open", "started", "finished"}]
    /\ hook \in [Wrappers -> {"unset", "set", "scheduled", "ran", "raised"}]
    /\ budget \in [Wrappers -> Nat \cup {NoLimit}]
    /\ initAt \in [Wrappers -> InitStates]
    /\ initOn \in [Wrappers -> Wrappers \cup {None}]
    /\ limit \in [Wrappers -> Nat \cup {NoLimit}]

\* Only the newest wrapper can have a hook that is still to run, and then it is
\* the client's; the hooks of all older ones have run, the last of them perhaps
\* in vain.
NewestInUse ==
    /\ inits = 0 => created = 0
    /\ \A w \in Wrappers : hook[w] \in {"set", "scheduled"} => cur = w
    /\ \A w \in Wrappers : w < created => hook[w] \in {"ran", "raised"}
    /\ \A w \in Wrappers :
          w > created => phase[w] = "none" /\ hook[w] = "unset" /\ initAt[w] = "none"

\* A hook is set when init has returned, with the limit that init was given, and
\* scheduled by a restart.
HooksFollow ==
    \A w \in Wrappers :
        /\ hook[w] # "unset" => initAt[w] = "returned" /\ budget[w] = limit[w]
        /\ hook[w] \in {"scheduled", "ran", "raised"} =>
              phase[w] \in {"started", "finished"}

LimitsGoDown ==
    \A v, w \in Wrappers :
        v < w /\ w <= created /\ limit[v] # NoLimit
            => limit[w] # NoLimit /\ limit[v] >= limit[w] + (w - v)

\* What holds while the application has called init once at most.
OneInit == NewestInUse /\ HooksFollow /\ InitOwnsWrapper /\ LimitsGoDown

WrapperIInv == WrapperTypes /\ (inits <= 1 => OneInit)

LibraryTypes ==
    /\ usable \in [Wrappers -> BOOLEAN]
    /\ known \in [Wrappers -> SUBSET [kind : {"smc", "query"}, id : Ids, of : Addresses]]

\* Within one tonlib an id of one kind names one thing.
IdsNameOne ==
    \A w \in Wrappers : \A j, k \in known[w] : j.kind = k.kind /\ j.id = k.id => j = k

TaskTypes ==
    /\ pc \in [Tasks -> {"idle", "first", "second", "unawaited", "end"}]
    /\ op \in [Tasks -> Ops] /\ about \in [Tasks -> Addresses]
    /\ at \in [Tasks -> Wrappers \cup {None}]
    /\ answer \in [Tasks -> {"none", "pending", "error"} \cup Ids \cup Addresses]
    /\ id \in [Tasks -> Ids \cup {"none"}]
    /\ source \in [Tasks -> Wrappers \cup {None}]
    /\ result \in [Tasks -> Results]

\* The tonlib of w has loaded or created under id i what task t is about.
Knows(w, t, i) == [kind |-> Kind(op[t]), id |-> i, of |-> about[t]] \in known[w]

\* What the future of a task's request may hold, by where the task stands.
Answers(t) ==
    /\ pc[t] \in {"idle", "end"} => answer[t] # "pending"
    /\ pc[t] # "end" => result[t] = "none"
    /\ pc[t] \in {"first", "second"} => at[t] \in Wrappers
    /\ pc[t] = "first" /\ op[t] = "state" => answer[t] \in {"pending", "error", about[t]}
    /\ pc[t] = "first" /\ op[t] \in TwoStep =>
          \/ answer[t] \in {"pending", "error"}
          \/ answer[t] \in Ids /\ Knows(at[t], t, answer[t])
    /\ pc[t] = "unawaited" =>
          /\ op[t] \in TwoStep /\ answer[t] \in Ids /\ id[t] \in Ids
          /\ source[t] = at[t] /\ at[t] \in Wrappers /\ Knows(at[t], t, id[t])
    /\ pc[t] = "second" =>
          /\ op[t] \in TwoStep /\ id[t] \in Ids
          /\ answer[t] \in {"pending", "error"} \cup Addresses
          /\ source[t] = at[t] => /\ Knows(at[t], t, id[t])
                                  /\ answer[t] \in {"pending", "error", about[t]}
    /\ result[t] \in Addresses \ {about[t]} => op[t] # "state" /\ source[t] # at[t]

TaskIInv ==
    LibraryTypes /\ IdsNameOne /\ TaskTypes /\ \A t \in Tasks : Answers(t)

IInv == WrapperIInv /\ TaskIInv

-----------------------------------------------------------------------------
\* The client's wrappers before its first init.
LEMMA InitWrappers == Init => WrapperIInv
<1> SUFFICES ASSUME Init PROVE WrapperIInv
  OBVIOUS
<1>1. WrapperTypes
  BY MaxWrappersAssumption, MaxInitsAssumption
     DEF Init, WrapperTypes, Wrappers, None, InitStates
<1>2. OneInit
  BY MaxWrappersAssumption
     DEF Init, OneInit, NewestInUse, HooksFollow, InitOwnsWrapper, LimitsGoDown,
         Wrappers, None
<1> QED
  BY <1>1, <1>2 DEF WrapperIInv

\* The tasks before their calls.
LEMMA InitTasks == Init => TaskIInv
BY NamesAssumption
   DEF Init, TaskIInv, LibraryTypes, IdsNameOne, TaskTypes, Answers, Wrappers, None, Results

-----------------------------------------------------------------------------
\* A step that makes a wrapper, with all its variables.
NewWrapper(n, state) ==
    /\ created < MaxWrappers
    /\ created' = created + 1
    /\ phase' = [phase EXCEPT ![created + 1] = "open"]
    /\ limit' = [limit EXCEPT ![created + 1] = n]
    /\ initAt' = [initAt EXCEPT ![created + 1] = state]
    /\ UNCHANGED <<budget, initOn>>

\* init starts: with a new wrapper that the client uses, or with one that nobody
\* uses, or with none.
LEMMA StartsAre ==
    ASSUME NEW n, StartWrapper(n) \/ StartRaises(n)
    PROVE  \/ NewWrapper(n, "verbosity") /\ cur' = created + 1
           \/ NewWrapper(n, "failed") /\ cur' = cur
           \/ UNCHANGED <<cur, created, phase, limit, initAt, budget, initOn>>
BY DEF StartWrapper, StartRaises, NewWrapper

\* The types, whatever made the wrapper.
LEMMA StartTypes ==
    ASSUME WrapperTypes, NEW n \in Nat \cup {NoLimit},
           StartWrapper(n) \/ StartRaises(n), inits' \in 0 .. MaxInits,
           hook' \in [Wrappers -> {"unset", "set", "scheduled", "ran", "raised"}]
    PROVE  WrapperTypes'
<1>1. created \in Nat /\ MaxWrappers \in Nat
  BY MaxWrappersAssumption DEF WrapperTypes
<1>2. ASSUME NEW state \in InitStates, NewWrapper(n, state),
             cur' \in {cur, created + 1}
      PROVE  WrapperTypes'
  <2>1. created + 1 \in Wrappers /\ created' \in 0 .. MaxWrappers
    BY <1>1, <1>2 DEF NewWrapper, Wrappers
  <2>2. cur' \in Wrappers \cup {None}
    BY <1>2, <2>1 DEF WrapperTypes
  <2>3. /\ phase' \in [Wrappers -> {"none", "open", "started", "finished"}]
        /\ initAt' \in [Wrappers -> InitStates]
        /\ limit' \in [Wrappers -> Nat \cup {NoLimit}]
    BY <1>2 DEF NewWrapper, WrapperTypes
  <2> QED
    BY <1>2, <2>1, <2>2, <2>3 DEF NewWrapper, WrapperTypes
<1>3. CASE UNCHANGED <<cur, created, phase, limit, initAt, budget, initOn>>
  BY <1>3 DEF WrapperTypes
<1>4. "verbosity" \in InitStates /\ "failed" \in InitStates
  BY DEF InitStates
<1> QED
  BY <1>2, <1>3, <1>4, StartsAre

\* A new wrapper becomes the client's, or is leaked, when the hooks of all others
\* have run.
LEMMA StartKeeps ==
    ASSUME WrapperTypes, OneInit, NEW n \in Nat \cup {NoLimit},
           StartWrapper(n) \/ StartRaises(n), inits' # 0,
           \A w \in Wrappers : w <= created => hook'[w] \in {"ran", "raised"},
           \A w \in Wrappers : w > created => hook'[w] = hook[w],
           \A w \in Wrappers : w <= created => initAt[w] = "returned",
           \A w \in Wrappers : w <= created => phase[w] \in {"started", "finished"},
           \A w \in Wrappers : w <= created => budget[w] = limit[w],
           created > 0 /\ limit[created] # NoLimit =>
               n # NoLimit /\ limit[created] >= n + 1
    PROVE  OneInit'
<1> USE DEF Wrappers, None
<1>0. created \in Nat /\ MaxWrappers \in Nat
  BY MaxWrappersAssumption DEF WrapperTypes
<1>1. ASSUME NEW state \in {"verbosity", "failed"}, NewWrapper(n, state),
             cur' = IF state = "verbosity" THEN created + 1 ELSE cur
      PROVE  OneInit'
  <2>1. /\ created' = created + 1 /\ created' \in Wrappers
        /\ phase' = [phase EXCEPT ![created'] = "open"]
        /\ limit' = [limit EXCEPT ![created'] = n]
        /\ initAt' = [initAt EXCEPT ![created'] = state]
        /\ UNCHANGED <<budget, initOn>>
    BY <1>0, <1>1 DEF NewWrapper
  <2>2. hook'[created'] = "unset"
    BY <1>0, <2>1 DEF OneInit, NewestInUse
  <2>3. NewestInUse'
    BY <1>0, <2>1, <2>2 DEF WrapperTypes, OneInit, NewestInUse
  <2>4. HooksFollow'
    BY <1>0, <2>1, <2>2 DEF WrapperTypes, OneInit, NewestInUse, HooksFollow
  <2>5. InitOwnsWrapper'
    <3>1. SUFFICES ASSUME NEW w \in Wrappers
                   PROVE  /\ initAt'[w] \in {"verbosity", "verbose", "init", "answered"}
                                => cur' = w
                          /\ initAt'[w] \in {"init", "answered", "returned"}
                                => initOn'[w] = w
      BY DEF InitOwnsWrapper
    <3>2. CASE w = created'
      BY <1>0, <1>1, <2>1, <3>2 DEF WrapperTypes
    <3>3. CASE w # created'
      <4>1. initAt'[w] = initAt[w] /\ initAt[w] \in {"none", "returned"}
        BY <1>0, <2>1, <3>3 DEF WrapperTypes, OneInit, NewestInUse
      <4> QED
        BY <2>1, <4>1 DEF OneInit, InitOwnsWrapper
    <3> QED
      BY <3>2, <3>3
  <2>6. LimitsGoDown'
    <3>1. SUFFICES ASSUME NEW v \in Wrappers, NEW w \in Wrappers,
                          v < w, w <= created', limit'[v] # NoLimit
                   PROVE  limit'[w] # NoLimit /\ limit'[v] >= limit'[w] + (w - v)
      BY DEF LimitsGoDown
    <3>2. v <= created /\ limit'[v] = limit[v] /\ limit[v] \in Nat
      BY <1>0, <2>1, <3>1 DEF WrapperTypes
    <3>3. CASE w <= created
      BY <1>0, <2>1, <3>1, <3>2, <3>3 DEF WrapperTypes, OneInit, LimitsGoDown
    <3>4. CASE w = created'
      <4>1. limit'[w] = n /\ created \in Wrappers
        BY <1>0, <2>1, <3>1, <3>2, <3>4 DEF WrapperTypes
      <4>2. limit[created] # NoLimit /\ limit[v] >= limit[created] + (created - v)
        BY <3>1, <3>2, <4>1, <1>0 DEF OneInit, LimitsGoDown
      <4>3. limit[created] \in Nat /\ n \in Nat
        BY <1>0, <4>1, <4>2 DEF WrapperTypes
      <4> QED
        BY <1>0, <2>1, <3>2, <3>4, <4>1, <4>2, <4>3
    <3> QED
      BY <1>0, <2>1, <3>1, <3>3, <3>4
  <2> QED
    BY <2>3, <2>4, <2>5, <2>6 DEF OneInit
<1>2. CASE UNCHANGED <<cur, created, phase, limit, initAt, budget, initOn>>
  <2>1. NewestInUse'
    BY <1>0, <1>2 DEF WrapperTypes, OneInit, NewestInUse
  <2>2. HooksFollow'
    BY <1>0, <1>2 DEF WrapperTypes, OneInit, NewestInUse, HooksFollow
  <2>3. InitOwnsWrapper' /\ LimitsGoDown'
    BY <1>2 DEF OneInit, InitOwnsWrapper, LimitsGoDown
  <2> QED
    BY <2>1, <2>2, <2>3 DEF OneInit
<1> QED
  BY <1>1, <1>2, StartsAre

\* The application's first init makes the first wrapper; after a second one only
\* the types are claimed.
LEMMA UserInitKeeps == ASSUME WrapperIInv, UserInit PROVE WrapperIInv'
<1>1. PICK n \in Budgets : StartWrapper(n) \/ StartRaises(n)
  BY DEF UserInit
<1>2. n \in Nat \cup {NoLimit}
  BY BudgetsAssumption
<1>3. hook' = hook /\ inits \in Nat /\ inits' = inits + 1 /\ inits' \in 0 .. MaxInits
  BY MaxInitsAssumption DEF UserInit, WrapperIInv, WrapperTypes
<1>4. WrapperTypes'
  BY <1>1, <1>2, <1>3, StartTypes DEF WrapperIInv, WrapperTypes
<1>5. ASSUME inits' <= 1 PROVE OneInit'
  <2>1. inits = 0 /\ OneInit
    BY <1>3, <1>5 DEF WrapperIInv
  <2>2. created = 0
    BY <2>1 DEF OneInit, NewestInUse
  <2> QED
    BY <1>1, <1>2, <1>3, <2>1, <2>2, StartKeeps DEF WrapperIInv, Wrappers
<1> QED
  BY <1>4, <1>5 DEF WrapperIInv

\* A wrapper goes through its init.
LEMMA InitStepKeeps ==
    ASSUME WrapperIInv, NEW w \in Wrappers, InitStep(w)
    PROVE  WrapperIInv'
<1> USE DEF Wrappers, None
<1>0. UNCHANGED <<cur, created, inits, phase, limit>>
  BY DEF InitStep, VerbosityAnswered, InitSends, TonlibInits, InitReturns
<1>1. WrapperTypes'
  BY DEF WrapperIInv, WrapperTypes, InitStates, InitStep, VerbosityAnswered, InitSends,
         TonlibInits, InitReturns
<1>2. SUFFICES ASSUME OneInit PROVE OneInit'
  BY <1>0, <1>1 DEF WrapperIInv
<1>3. /\ cur = w /\ hook[w] = "unset" /\ w = created
      /\ initAt[w] \in {"init", "answered"} => initOn[w] = w
      /\ initAt[w] \in {"verbosity", "verbose", "init", "answered"}
  <2>1. initAt[w] \in {"verbosity", "verbose", "init", "answered"}
    BY DEF InitStep, VerbosityAnswered, InitSends, TonlibInits, InitReturns
  <2> QED
    BY <1>2, <2>1 DEF WrapperIInv, WrapperTypes, OneInit, NewestInUse, HooksFollow,
                      InitOwnsWrapper
<1>4. LimitsGoDown'
  BY <1>0, <1>2 DEF OneInit, LimitsGoDown
<1>5. CASE VerbosityAnswered(w) \/ InitSends(w) \/ TonlibInits(w)
  <2>1. UNCHANGED <<hook, budget>>
    BY <1>5 DEF VerbosityAnswered, InitSends, TonlibInits
  <2>2. PICK state \in {"verbose", "init", "answered"} :
           initAt' = [initAt EXCEPT ![w] = state]
    BY <1>3, <1>5 DEF VerbosityAnswered, InitSends, TonlibInits
  <2>3. NewestInUse' /\ HooksFollow'
    BY <1>0, <1>2, <1>3, <2>1, <2>2
       DEF WrapperIInv, WrapperTypes, OneInit, NewestInUse, HooksFollow
  <2>4. /\ \A v \in Wrappers : v # w => initAt'[v] = initAt[v] /\ initOn'[v] = initOn[v]
        /\ initAt'[w] \in {"init", "answered", "returned"} => initOn'[w] = w
    <3>1. CASE VerbosityAnswered(w)
      BY <3>1 DEF VerbosityAnswered, WrapperIInv, WrapperTypes
    <3>2. CASE InitSends(w)
      BY <1>3, <3>2 DEF InitSends, WrapperIInv, WrapperTypes
    <3>3. CASE TonlibInits(w)
      BY <1>3, <3>3 DEF TonlibInits, WrapperIInv, WrapperTypes
    <3> QED
      BY <1>5, <3>1, <3>2, <3>3
  <2>5. InitOwnsWrapper'
    BY <1>0, <1>2, <1>3, <2>4 DEF OneInit, InitOwnsWrapper
  <2> QED
    BY <1>4, <2>3, <2>5 DEF OneInit
<1>6. CASE InitReturns(w)
  <2>0. cur # None /\ hook[cur] \in {"unset", "set"}
    BY <1>3
  <2>1. /\ initAt' = [initAt EXCEPT ![w] = "returned"]
        /\ hook' = [hook EXCEPT ![w] = "set"]
        /\ budget' = [budget EXCEPT ![w] = limit[w]] /\ initOn' = initOn
        /\ initAt[w] = "answered"
    BY <1>3, <1>6, <2>0 DEF InitReturns
  <2>2. NewestInUse' /\ HooksFollow'
    <3>1. NewestInUse'
      BY <1>0, <1>2, <1>3, <2>1 DEF WrapperIInv, WrapperTypes, OneInit, NewestInUse
    <3>2. HooksFollow'
      BY <1>0, <1>2, <1>3, <2>1 DEF WrapperIInv, WrapperTypes, OneInit, HooksFollow
    <3> QED
      BY <3>1, <3>2
  <2>3. InitOwnsWrapper'
    BY <1>0, <1>2, <1>3, <2>1 DEF WrapperIInv, WrapperTypes, OneInit, InitOwnsWrapper
  <2> QED
    BY <1>4, <2>2, <2>3 DEF OneInit
<1> QED
  BY <1>5, <1>6 DEF InitStep

\* A wrapper restarts or finishes.
LEMMA ShutdownKeeps ==
    ASSUME WrapperIInv, NEW w \in Wrappers, Restart(w) \/ WrapperFinishes(w)
    PROVE  WrapperIInv'
<1> USE DEF Wrappers, None
<1>1. UNCHANGED <<cur, created, inits, budget, initAt, initOn, limit>>
  BY DEF Restart, WrapperFinishes, initVars
<1>2. /\ phase[w] \in {"open", "started"}
      /\ phase' \in {[phase EXCEPT ![w] = s] : s \in {"started", "finished"}}
      /\ \/ hook' = hook
         \/ hook[w] = "set" /\ hook' = [hook EXCEPT ![w] = "scheduled"]
  BY DEF Restart, WrapperFinishes
<1>3. WrapperTypes'
  BY <1>1, <1>2 DEF WrapperIInv, WrapperTypes
<1>4. SUFFICES ASSUME OneInit PROVE OneInit'
  BY <1>1, <1>3 DEF WrapperIInv
<1>5. NewestInUse' /\ HooksFollow'
  <2>1. w <= created
    BY <1>2, <1>4 DEF WrapperIInv, WrapperTypes, OneInit, NewestInUse
  <2>2. PICK s \in {"started", "finished"} : phase' = [phase EXCEPT ![w] = s]
    BY <1>2
  <2>3. NewestInUse'
    BY <1>1, <1>2, <1>4, <2>1, <2>2 DEF WrapperIInv, WrapperTypes, OneInit, NewestInUse
  <2>4. HooksFollow'
    BY <1>1, <1>2, <1>4, <2>2 DEF WrapperIInv, WrapperTypes, OneInit, HooksFollow
  <2> QED
    BY <2>3, <2>4
<1>6. InitOwnsWrapper' /\ LimitsGoDown'
  BY <1>1, <1>4 DEF OneInit, InitOwnsWrapper, LimitsGoDown
<1> QED
  BY <1>5, <1>6 DEF OneInit

\* The hook of the newest wrapper makes the next one, with one restart less, or
\* leaves the client without a wrapper, or raises.
LEMMA ReconnectKeeps ==
    ASSUME WrapperIInv, NEW w \in Wrappers, Reconnect(w) \/ ReconnectRaises(w)
    PROVE  WrapperIInv'
<1> USE DEF Wrappers, None
<1>1. /\ hook[w] = "scheduled" /\ inits' = inits
      /\ hook' \in {[hook EXCEPT ![w] = s] : s \in {"ran", "raised"}}
      /\ \/ /\ budget[w] # 0
            /\ StartWrapper(LimitLeft(budget[w])) \/ StartRaises(LimitLeft(budget[w]))
         \/ cur' = None /\ UNCHANGED <<created, phase, budget, initAt, initOn, limit>>
  BY DEF Reconnect, ReconnectRaises
<1>2. /\ hook' \in [Wrappers -> {"unset", "set", "scheduled", "ran", "raised"}]
      /\ budget[w] \in Nat \cup {NoLimit}
  BY <1>1 DEF WrapperIInv, WrapperTypes
<1>3. budget[w] # 0 => LimitLeft(budget[w]) \in Nat \cup {NoLimit}
  BY <1>2, NoLimitAssumption DEF LimitLeft
<1>4. WrapperTypes'
  <2>1. CASE cur' = None /\ UNCHANGED <<created, phase, budget, initAt, initOn, limit>>
    BY <1>1, <1>2, <2>1 DEF WrapperIInv, WrapperTypes
  <2>2. inits' \in 0 .. MaxInits
    BY <1>1 DEF WrapperIInv, WrapperTypes
  <2> QED
    BY <1>1, <1>2, <1>3, <2>1, <2>2, StartTypes DEF WrapperIInv
<1>5. SUFFICES ASSUME OneInit PROVE OneInit'
  BY <1>1, <1>4 DEF WrapperIInv
<1>6. w = created /\ cur = w /\ created \in Nat /\ inits # 0
  BY <1>1, <1>5 DEF WrapperIInv, WrapperTypes, OneInit, NewestInUse
<1>7. /\ \A v \in Wrappers : v <= created => hook'[v] \in {"ran", "raised"}
      /\ \A v \in Wrappers : v > created => hook'[v] = hook[v]
  <2>1. PICK s \in {"ran", "raised"} : hook' = [hook EXCEPT ![w] = s]
    BY <1>1
  <2>2. \A v \in Wrappers : v < created => hook[v] \in {"ran", "raised"}
    BY <1>5 DEF OneInit, NewestInUse
  <2> QED
    BY <1>6, <2>1, <2>2 DEF WrapperIInv, WrapperTypes
<1>8. \A v \in Wrappers : v <= created =>
         /\ initAt[v] = "returned" /\ phase[v] \in {"started", "finished"}
         /\ budget[v] = limit[v]
  BY <1>1, <1>5, <1>6 DEF WrapperIInv, WrapperTypes, OneInit, NewestInUse, HooksFollow
<1>9. CASE /\ budget[w] # 0
           /\ StartWrapper(LimitLeft(budget[w])) \/ StartRaises(LimitLeft(budget[w]))
  <2>1. limit[created] # NoLimit =>
           /\ LimitLeft(budget[w]) # NoLimit
           /\ limit[created] >= LimitLeft(budget[w]) + 1
    BY <1>2, <1>6, <1>8, <1>9, NoLimitAssumption DEF LimitLeft
  <2> QED
    BY <1>1, <1>3, <1>5, <1>6, <1>7, <1>8, <1>9, <2>1, StartKeeps DEF WrapperIInv
<1>10. CASE cur' = None /\ UNCHANGED <<created, phase, budget, initAt, initOn, limit>>
  <2>1. NewestInUse'
    BY <1>1, <1>5, <1>6, <1>7, <1>10 DEF WrapperIInv, WrapperTypes, OneInit, NewestInUse
  <2>2. HooksFollow'
    BY <1>1, <1>5, <1>6, <1>7, <1>8, <1>10
       DEF WrapperIInv, WrapperTypes, OneInit, NewestInUse, HooksFollow
  <2>3. InitOwnsWrapper'
    BY <1>5, <1>6, <1>8, <1>10 DEF OneInit, NewestInUse, InitOwnsWrapper
  <2>4. LimitsGoDown'
    BY <1>5, <1>10 DEF OneInit, LimitsGoDown
  <2> QED
    BY <2>1, <2>2, <2>3, <2>4 DEF OneInit
<1> QED
  BY <1>1, <1>9, <1>10

\* What the wrappers do leaves the tasks and what they have loaded alone.
LEMMA WrappersLeaveTasks ==
    ASSUME TaskIInv, UNCHANGED <<known, taskVars>>, usable' \in [Wrappers -> BOOLEAN]
    PROVE  TaskIInv'
BY DEF taskVars, TaskIInv, LibraryTypes, IdsNameOne, TaskTypes, Answers, Knows, Kind, Results

-----------------------------------------------------------------------------
(* The tasks.                                                              *)

\* Only task t moves: the others keep what they may be answered.
LEMMA OthersKeep ==
    ASSUME NEW t \in Tasks, NEW u \in Tasks, u # t, Answers(u),
           UNCHANGED <<op, about>>,
           pc'[u] = pc[u], at'[u] = at[u], answer'[u] = answer[u], id'[u] = id[u],
           source'[u] = source[u], result'[u] = result[u],
           \A w \in Wrappers : known[w] \subseteq known'[w]
    PROVE  Answers(u)'
BY DEF Answers, Knows, Kind

\* A request is made, or there is no wrapper to make it on.
LEMMA SendKeeps ==
    ASSUME WrapperIInv, TaskIInv, NEW t \in Tasks, NEW next \in {"first", "second"},
           Send(t, next), UNCHANGED <<wrapVars, libVars, op, about>>,
           NEW i \in Ids \cup {"none"}, NEW w \in Wrappers \cup {None},
           id' = [id EXCEPT ![t] = i], source' = [source EXCEPT ![t] = w],
           pc[t] # "end", answer[t] # "pending",
           next = "second" =>
              op[t] \in TwoStep /\ i \in Ids /\ w \in Wrappers /\ Knows(w, t, i)
    PROVE  TaskIInv'
<1>1. LibraryTypes' /\ IdsNameOne'
  BY DEF libVars, TaskIInv, LibraryTypes, IdsNameOne
<1>2. CASE cur = None
  <2>1. /\ pc' = [pc EXCEPT ![t] = "end"] /\ result' = [result EXCEPT ![t] = "raised"]
        /\ UNCHANGED <<at, answer>>
    BY <1>2 DEF Send
  <2>2. TaskTypes'
    BY <2>1 DEF TaskIInv, TaskTypes, Results
  <2>3. Answers(t)'
    BY <2>1, NamesAssumption DEF TaskIInv, TaskTypes, Answers
  <2>4. \A u \in Tasks : u # t => Answers(u)'
    BY <2>1, OthersKeep DEF TaskIInv, TaskTypes, libVars
  <2> QED
    BY <1>1, <2>2, <2>3, <2>4 DEF TaskIInv
<1>3. CASE cur # None
  <2>1. /\ pc' = [pc EXCEPT ![t] = next] /\ at' = [at EXCEPT ![t] = cur]
        /\ answer' = [answer EXCEPT ![t] = "pending"] /\ result' = result
        /\ cur \in Wrappers
    BY <1>3 DEF Send, WrapperIInv, WrapperTypes
  <2>2. TaskTypes'
    BY <2>1 DEF TaskIInv, TaskTypes
  <2>3. result[t] \notin Addresses \ {about[t]}
    BY NamesAssumption DEF TaskIInv, Answers
  <2>4. Answers(t)'
    BY <2>1, <2>3 DEF TaskIInv, TaskTypes, Answers, Knows, Kind, libVars
  <2>5. \A u \in Tasks : u # t => Answers(u)'
    BY <2>1, OthersKeep DEF TaskIInv, TaskTypes, libVars
  <2> QED
    BY <1>1, <2>2, <2>4, <2>5 DEF TaskIInv
<1> QED
  BY <1>2, <1>3

\* A call ends, with what its last request was answered or without an answer.
LEMMA ReturnKeeps ==
    ASSUME TaskIInv, NEW t \in Tasks, NEW value \in Results, Return(t, value),
           UNCHANGED <<libVars, op, about, id, source>>, answer[t] # "pending",
           value \in Addresses \ {about[t]} => op[t] # "state" /\ source[t] # at[t]
    PROVE  TaskIInv'
<1>1. /\ pc' = [pc EXCEPT ![t] = "end"] /\ result' = [result EXCEPT ![t] = value]
      /\ UNCHANGED <<at, answer>>
  BY DEF Return
<1>2. LibraryTypes' /\ IdsNameOne'
  BY DEF libVars, TaskIInv, LibraryTypes, IdsNameOne
<1>3. TaskTypes'
  BY <1>1 DEF TaskIInv, TaskTypes
<1>4. Answers(t)'
  BY <1>1 DEF TaskIInv, TaskTypes, Answers
<1>5. \A u \in Tasks : u # t => Answers(u)'
  BY <1>1, OthersKeep DEF TaskIInv, TaskTypes, libVars
<1> QED
  BY <1>2, <1>3, <1>4, <1>5 DEF TaskIInv

\* What a task does: its calls begin, go on and end.
LEMMA TaskStepKeeps ==
    ASSUME WrapperIInv, TaskIInv, NEW t \in Tasks,
           Begin(t) \/ CallStep(t) \/ CoroutineAwaited(t) \/ CoroutineDropped(t)
    PROVE  TaskIInv'
<1>1. /\ Answers(t) /\ id[t] \in Ids \cup {"none"} /\ source[t] \in Wrappers \cup {None}
      /\ id = [id EXCEPT ![t] = id[t]] /\ source = [source EXCEPT ![t] = source[t]]
      /\ op[t] \in Ops
  BY DEF TaskIInv, TaskTypes
<1>2. CASE Begin(t)
  <2>1. pc[t] = "idle" /\ Send(t, "first") /\ UNCHANGED <<wrapVars, libVars, op, about, id, source>>
    BY <1>2 DEF Begin
  <2>2. answer[t] # "pending"
    BY <1>1, <2>1 DEF Answers
  <2> QED
    BY <1>1, <2>1, <2>2, SendKeeps
<1>3. CASE StateAnswered(t)
  <2>1. /\ pc[t] = "first" /\ op[t] = "state" /\ answer[t] # "pending"
        /\ Return(t, answer[t]) /\ UNCHANGED <<libVars, op, about, id, source>>
    BY <1>3 DEF StateAnswered
  <2>2. answer[t] \in {"error", about[t]} /\ about[t] \in Addresses
    BY <1>1, <2>1 DEF Answers, TaskIInv, TaskTypes
  <2>3. answer[t] \in Results /\ answer[t] \notin Addresses \ {about[t]}
    BY <2>2, NamesAssumption DEF Results
  <2> QED
    BY <2>1, <2>3, ReturnKeeps
<1>4. CASE FirstFailed(t)
  <2>1. /\ answer[t] = "error" /\ Return(t, "raised")
        /\ UNCHANGED <<libVars, op, about, id, source>>
    BY <1>4 DEF FirstFailed
  <2>2. "raised" \in Results /\ "raised" \notin Addresses
    BY NamesAssumption DEF Results
  <2> QED
    BY <2>1, <2>2, ReturnKeeps
<1>5. CASE SecondRequest(t)
  <2>1. /\ pc[t] = "first" /\ op[t] \in {"run", "fees"} /\ answer[t] \in Ids
        /\ id' = [id EXCEPT ![t] = answer[t]] /\ source' = [source EXCEPT ![t] = at[t]]
        /\ Send(t, "second") /\ UNCHANGED <<wrapVars, libVars, op, about>>
    BY <1>5 DEF SecondRequest
  <2>2. /\ op[t] \in TwoStep /\ answer[t] # "pending" /\ at[t] \in Wrappers
        /\ Knows(at[t], t, answer[t])
    BY <1>1, <2>1, NamesAssumption DEF Answers, TwoStep
  <2> QED
    BY <2>1, <2>2, SendKeeps
<1>6. CASE SecondAnswered(t)
  <2>1. /\ pc[t] = "second" /\ answer[t] # "pending" /\ Return(t, answer[t])
        /\ UNCHANGED <<libVars, op, about, id, source>>
    BY <1>6 DEF SecondAnswered
  <2>2. /\ op[t] \in TwoStep /\ answer[t] \in {"error"} \cup Addresses
        /\ source[t] = at[t] => answer[t] \in {"error", about[t]}
    BY <1>1, <2>1 DEF Answers
  <2>3. /\ answer[t] \in Results
        /\ answer[t] \in Addresses \ {about[t]} => op[t] # "state" /\ source[t] # at[t]
    BY <2>2, NamesAssumption DEF Results, TwoStep
  <2> QED
    BY <2>1, <2>3, ReturnKeeps
<1>7. CASE CoroutineReturned(t)
  <2>1. /\ pc[t] = "first" /\ op[t] = "send" /\ answer[t] \in Ids
        /\ id' = [id EXCEPT ![t] = answer[t]] /\ source' = [source EXCEPT ![t] = at[t]]
        /\ pc' = [pc EXCEPT ![t] = "unawaited"]
        /\ UNCHANGED <<libVars, op, about, at, answer, result>>
    BY <1>7 DEF CoroutineReturned
  <2>2. /\ op[t] \in TwoStep /\ answer[t] \notin {"pending", "error"} /\ at[t] \in Wrappers
        /\ Knows(at[t], t, answer[t])
    BY <1>1, <2>1, NamesAssumption DEF Answers, TwoStep
  <2>3. LibraryTypes' /\ IdsNameOne'
    BY <2>1 DEF libVars, TaskIInv, LibraryTypes, IdsNameOne
  <2>4. TaskTypes'
    BY <2>1 DEF TaskIInv, TaskTypes
  <2>5. Answers(t)'
    BY <1>1, <2>1, <2>2, NamesAssumption
       DEF TaskIInv, TaskTypes, Answers, Knows, Kind, libVars
  <2>6. \A u \in Tasks : u # t => Answers(u)'
    BY <2>1, OthersKeep DEF TaskIInv, TaskTypes, libVars
  <2> QED
    BY <2>3, <2>4, <2>5, <2>6 DEF TaskIInv
<1>8. CASE CoroutineAwaited(t)
  <2>1. /\ pc[t] = "unawaited" /\ Send(t, "second")
        /\ UNCHANGED <<wrapVars, libVars, op, about, id, source>>
    BY <1>8 DEF CoroutineAwaited
  <2>2. /\ op[t] \in TwoStep /\ answer[t] # "pending" /\ id[t] \in Ids
        /\ source[t] \in Wrappers /\ Knows(source[t], t, id[t])
    BY <1>1, <2>1, NamesAssumption DEF Answers
  <2> QED
    BY <1>1, <2>1, <2>2, SendKeeps
<1>9. CASE CoroutineDropped(t)
  <2>1. /\ pc[t] = "unawaited" /\ Return(t, "unsent")
        /\ UNCHANGED <<libVars, op, about, id, source>>
    BY <1>9 DEF CoroutineDropped
  <2>2. answer[t] # "pending" /\ "unsent" \in Results /\ "unsent" \notin Addresses
    BY <1>1, <2>1, NamesAssumption DEF Answers, Results
  <2> QED
    BY <2>1, <2>2, ReturnKeeps
<1> QED
  BY <1>2, <1>3, <1>4, <1>5, <1>6, <1>7, <1>8, <1>9 DEF CallStep

\* tonlib answers a request: with an error, the address it was about, a new id, or
\* what the id names.
LEMMA TonlibStepKeeps ==
    ASSUME TaskIInv, NEW t \in Tasks, TonlibStep(t)
    PROVE  TaskIInv'
<1>1. /\ UNCHANGED <<usable, pc, op, about, at, id, source, result>>
      /\ answer[t] = "pending" /\ pc[t] \in {"first", "second"} /\ at[t] \in Wrappers
      /\ Answers(t) /\ about[t] \in Addresses
  <2>1. Answers(t) /\ about[t] \in Addresses
    BY DEF TaskIInv, TaskTypes
  <2>2. answer[t] = "pending" /\ UNCHANGED <<usable, pc, op, about, at, id, source, result>>
    BY DEF TonlibStep, TonlibNotReady, TonlibAnswersState, TonlibLoads, TonlibUsesId,
           CanAnswer, SetAnswer
  <2>3. pc[t] \in {"first", "second"}
    BY <2>1, <2>2, NamesAssumption DEF TaskIInv, TaskTypes, Answers
  <2> QED
    BY <2>1, <2>2, <2>3 DEF Answers
<1>2. ASSUME NEW value \in {"error"} \cup Ids \cup Addresses,
             answer' = [answer EXCEPT ![t] = value],
             LibraryTypes', IdsNameOne', \A w \in Wrappers : known[w] \subseteq known'[w],
             pc[t] = "first" /\ op[t] = "state" => value \in {"error", about[t]},
             pc[t] = "first" /\ op[t] \in TwoStep =>
                value = "error" \/ (value \in Ids /\ Knows(at[t], t, value)'),
             pc[t] = "second" =>
                /\ value \in {"error"} \cup Addresses
                /\ source[t] = at[t] => value \in {"error", about[t]}
      PROVE  TaskIInv'
  <2>1. TaskTypes'
    BY <1>1, <1>2 DEF TaskIInv, TaskTypes
  <2>2. Answers(t)'
    BY <1>1, <1>2 DEF TaskIInv, TaskTypes, Answers, Knows, Kind
  <2>3. \A u \in Tasks : u # t => Answers(u)'
    BY <1>1, <1>2, OthersKeep DEF TaskIInv, TaskTypes
  <2> QED
    BY <1>2, <2>1, <2>2, <2>3 DEF TaskIInv
<1>3. known' = known =>
         LibraryTypes' /\ IdsNameOne' /\ \A w \in Wrappers : known[w] \subseteq known'[w]
  BY <1>1 DEF TaskIInv, LibraryTypes, IdsNameOne
<1>4. CASE TonlibNotReady(t)
  <2>1. answer' = [answer EXCEPT ![t] = "error"] /\ known' = known
    BY <1>4 DEF TonlibNotReady, SetAnswer
  <2> QED
    BY <1>2, <1>3, <2>1
<1>5. CASE TonlibAnswersState(t)
  <2>1. /\ answer' = [answer EXCEPT ![t] = about[t]] /\ known' = known
        /\ pc[t] = "first" /\ op[t] = "state"
    BY <1>5 DEF TonlibAnswersState, SetAnswer
  <2> QED
    BY <1>1, <1>2, <1>3, <2>1 DEF TwoStep
<1>6. CASE TonlibLoads(t)
  <2>1. PICK i \in Ids :
           /\ pc[t] = "first" /\ op[t] \in TwoStep
           /\ \A k \in known[at[t]] : k.kind = Kind(op[t]) => k.id # i
           /\ known' = [known EXCEPT ![at[t]] =
                 known[at[t]] \cup {[kind |-> Kind(op[t]), id |-> i, of |-> about[t]]}]
           /\ answer' = [answer EXCEPT ![t] = i]
    BY <1>6 DEF TonlibLoads, SetAnswer
  <2> DEFINE new == [kind |-> Kind(op[t]), id |-> i, of |-> about[t]]
  <2>2. known'[at[t]] = known[at[t]] \cup {new} /\ new \in known'[at[t]]
        /\ \A w \in Wrappers : w # at[t] => known'[w] = known[w]
    BY <1>1, <2>1 DEF TaskIInv, LibraryTypes
  <2>3. new \in [kind : {"smc", "query"}, id : Ids, of : Addresses]
    BY <1>1 DEF Kind
  <2>4. LibraryTypes'
    BY <1>1, <2>1, <2>3 DEF TaskIInv, LibraryTypes
  <2>5. IdsNameOne'
    <3>1. SUFFICES ASSUME NEW w \in Wrappers, NEW j \in known'[w], NEW k \in known'[w],
                          j.kind = k.kind, j.id = k.id
                   PROVE  j = k
      BY DEF IdsNameOne
    <3>2. CASE w # at[t] \/ (j # new /\ k # new)
      BY <2>2, <3>1, <3>2 DEF TaskIInv, IdsNameOne
    <3>3. CASE w = at[t] /\ (j = new \/ k = new)
      BY <2>1, <2>2, <3>1, <3>3
    <3> QED
      BY <3>2, <3>3
  <2>6. op[t] # "state" /\ Knows(at[t], t, i)'
    BY <1>1, <2>1, <2>2 DEF TwoStep, Knows, Kind
  <2>7. \A w \in Wrappers : known[w] \subseteq known'[w]
    BY <2>2
  <2> QED
    BY <1>2, <2>1, <2>4, <2>5, <2>6, <2>7
<1>7. CASE TonlibUsesId(t)
  <2> DEFINE named == {k \in known[at[t]] : k.kind = Kind(op[t]) /\ k.id = id[t]}
  <2>1. /\ pc[t] = "second" /\ known' = known
        /\ IF named = {} THEN answer' = [answer EXCEPT ![t] = "error"]
           ELSE \E k \in named : answer' = [answer EXCEPT ![t] = k.of]
    BY <1>7 DEF TonlibUsesId, SetAnswer
  <2>2. CASE answer' = [answer EXCEPT ![t] = "error"]
    BY <1>2, <1>3, <2>1, <2>2
  <2>3. ASSUME NEW k \in named, answer' = [answer EXCEPT ![t] = k.of]
        PROVE  TaskIInv'
    <3>1. k \in known[at[t]] /\ k.kind = Kind(op[t]) /\ k.id = id[t]
      OBVIOUS
    <3>2. k.of \in Addresses
      BY <1>1, <3>1 DEF TaskIInv, LibraryTypes
    <3>3. source[t] = at[t] => k.of = about[t]
      <4>1. ASSUME source[t] = at[t] PROVE k.of = about[t]
        <5>1. [kind |-> Kind(op[t]), id |-> id[t], of |-> about[t]] \in known[at[t]]
          BY <1>1, <2>1, <4>1 DEF Answers, Knows
        <5> QED
          BY <1>1, <3>1, <5>1 DEF TaskIInv, IdsNameOne
      <4> QED
        BY <4>1
    <3> QED
      BY <1>2, <1>3, <2>1, <2>3, <3>2, <3>3
  <2> QED
    BY <2>1, <2>2, <2>3
<1> QED
  BY <1>4, <1>5, <1>6, <1>7 DEF TonlibStep

-----------------------------------------------------------------------------
\* Every step of the client, its wrappers and its tasks keeps the invariant.
LEMMA NextKeeps == ASSUME IInv, [Next]_vars PROVE IInv'
<1>1. ASSUME UNCHANGED wrapVars PROVE WrapperIInv'
  BY <1>1 DEF wrapVars, initVars, IInv, WrapperIInv, WrapperTypes, OneInit, NewestInUse,
              HooksFollow, InitOwnsWrapper, LimitsGoDown
<1>2. CASE UserInit
  <2>1. UNCHANGED <<libVars, taskVars>>
    BY <1>2 DEF UserInit
  <2> QED
    BY <1>2, <2>1, UserInitKeeps, WrappersLeaveTasks DEF IInv, TaskIInv, LibraryTypes, libVars
<1>3. ASSUME NEW w \in Wrappers,
             \/ InitStep(w) \/ Restart(w) \/ WrapperFinishes(w)
             \/ Reconnect(w) \/ ReconnectRaises(w)
      PROVE  IInv'
  <2>1. UNCHANGED <<known, taskVars>> /\ usable' \in [Wrappers -> BOOLEAN]
    BY <1>3 DEF InitStep, VerbosityAnswered, InitSends, TonlibInits, InitReturns, Restart,
                Reconnect, ReconnectRaises, WrapperFinishes, libVars, IInv, TaskIInv,
                LibraryTypes
  <2> QED
    BY <1>3, <2>1, InitStepKeeps, ShutdownKeeps, ReconnectKeeps, WrappersLeaveTasks DEF IInv
<1>4. ASSUME NEW t \in Tasks,
             Begin(t) \/ CallStep(t) \/ CoroutineAwaited(t) \/ CoroutineDropped(t)
      PROVE  IInv'
  <2>1. UNCHANGED wrapVars
    BY <1>4 DEF Begin, CallStep, StateAnswered, FirstFailed, SecondRequest, SecondAnswered,
                CoroutineReturned, CoroutineAwaited, CoroutineDropped
  <2> QED
    BY <1>1, <1>4, <2>1, TaskStepKeeps DEF IInv
<1>5. ASSUME NEW t \in Tasks, TonlibStep(t)
      PROVE  IInv'
  <2>1. UNCHANGED wrapVars
    BY <1>5 DEF TonlibStep, TonlibNotReady, TonlibAnswersState, TonlibLoads, TonlibUsesId,
                SetAnswer
  <2> QED
    BY <1>1, <1>5, <2>1, TonlibStepKeeps DEF IInv
<1>6. CASE UNCHANGED vars
  BY <1>1, <1>6, WrappersLeaveTasks DEF vars, libVars, IInv, TaskIInv, LibraryTypes
<1> QED
  BY <1>2, <1>3, <1>4, <1>5, <1>6 DEF Next

\* Wrappers, libraries and tasks keep each other's part.
LEMMA Invariance == Spec => []IInv
<1>1. Init => IInv
  BY InitWrappers, InitTasks DEF IInv
<1> QED
  BY <1>1, NextKeeps, PTL DEF Spec

\* For a client that is initialised once, one wrapper at a time is the client's:
\* every older one is shutting down, and an init that waits for tonlib is the init
\* of the wrapper the tasks use (AsyncTonlibClient.init and reconnect).
THEOREM OneWrapper == Spec => []WrapperInv
<1>1. ASSUME IInv PROVE WrapperInv
  <2>1. TypeOK
    BY <1>1 DEF IInv, WrapperIInv, WrapperTypes, TaskIInv, LibraryTypes, TaskTypes, TypeOK
  <2>2. inits <= 1 => OlderWrappersShutDown
    BY <1>1 DEF IInv, WrapperIInv, OneInit, NewestInUse, HooksFollow, OlderWrappersShutDown
  <2>3. inits <= 1 => InitOwnsWrapper
    BY <1>1 DEF IInv, WrapperIInv, OneInit
  <2> QED
    BY <2>1, <2>2, <2>3 DEF WrapperInv
<1> QED
  BY <1>1, Invariance, PTL

\* The restart limit an init is given goes down with every reconnect, so that a
\* client initialised once with max_restarts = n makes at most n + 1 wrappers.
THEOREM RestartsLimited == Spec => []LimitCountsDown
<1>1. IInv => LimitCountsDown
  BY DEF IInv, WrapperIInv, OneInit, LimitsGoDown, LimitCountsDown
<1> QED
  BY <1>1, Invariance, PTL

\* However many tasks interleave their calls, an answer about another address than
\* the one asked for needs a reconnect between the two requests of a call.
THEOREM OwnAnswers == Spec => []MixedUpOnlyByReconnect
<1>1. IInv => MixedUpOnlyByReconnect
  BY DEF IInv, TaskIInv, Answers, Knows, MixedUpOnlyByReconnect
<1> QED
  BY <1>1, Invariance, PTL

-----------------------------------------------------------------------------
(* The capture of standard output by one client.                           *)

Bounds ==
    /\ Rounds \in Nat /\ LogLines \in Nat /\ PipeSize \in Nat /\ AppLines \in Nat

\* At most one capture is inside, descriptor 1 is its pipe, and it will put the
\* terminal back.
CaptureIInv ==
    /\ C!TypeOK
    /\ inside = {} => fd1 = C!Terminal
    /\ \A k \in inside : fd1 = k /\ stdout[k] = C!Terminal

\* The terminal is nobody's pipe: rounds are counted from 1.
LEMMA TerminalIsNoPipe == ASSUME Bounds PROVE C!Terminal \notin C!Captures
<1>1. SUFFICES ASSUME C!Terminal \in C!Captures PROVE FALSE
  OBVIOUS
<1>2. 0 \in 1 .. Rounds
  BY <1>1 DEF C!Terminal, C!Captures
<1> QED
  BY <1>2 DEF Bounds

\* The only client does not enter a capture while it is inside one.
LEMMA EnterKeeps ==
    ASSUME Bounds, NEW c, Clients = {c}, CaptureIInv, C!Enter(c)
    PROVE  CaptureIInv'
<1> DEFINE k == <<c, round[c] + 1>>
<1>1. inside = {}
  <2>1. SUFFICES ASSUME NEW j \in inside PROVE FALSE
    OBVIOUS
  <2>2. j[1] = c
    BY DEF CaptureIInv, C!TypeOK, C!Captures
  <2> QED
    BY <2>1, <2>2 DEF C!Enter, C!Capturing
<1>2. /\ stdout' = [stdout EXCEPT ![k] = fd1] /\ fd1' = k /\ inside' = inside \cup {k}
      /\ round' = [round EXCEPT ![c] = round[c] + 1] /\ log' = [log EXCEPT ![c] = LogLines]
      /\ UNCHANGED <<pipe, printed>> /\ round[c] < Rounds
  BY DEF C!Enter
<1>3. round[c] \in 0 .. Rounds /\ round[c] + 1 \in 1 .. Rounds /\ k \in C!Captures
  <2>1. round[c] \in 0 .. Rounds
    BY DEF CaptureIInv, C!TypeOK
  <2>2. round[c] + 1 \in 1 .. Rounds
    BY <1>2, <2>1 DEF Bounds
  <2> QED
    BY <2>1, <2>2 DEF C!Captures
<1>4. C!TypeOK'
  <2>1. round' \in [Clients -> 0 .. Rounds]
    BY <1>2, <1>3 DEF CaptureIInv, C!TypeOK, Bounds
  <2>2. log' \in [Clients -> 0 .. LogLines]
    BY <1>2 DEF CaptureIInv, C!TypeOK, Bounds
  <2>3. /\ fd1' \in C!Captures \cup {C!Terminal} /\ inside' \subseteq C!Captures
        /\ stdout' \in [C!Captures -> C!Captures \cup {C!Terminal}]
    BY <1>2, <1>3 DEF CaptureIInv, C!TypeOK
  <2> QED
    BY <1>2, <2>1, <2>2, <2>3 DEF CaptureIInv, C!TypeOK
<1>5. stdout'[k] = C!Terminal
  BY <1>1, <1>2, <1>3 DEF CaptureIInv, C!TypeOK
<1> QED
  BY <1>1, <1>2, <1>4, <1>5 DEF CaptureIInv

\* A line goes into a pipe that has room, or to the terminal.
LEMMA WriteKeeps ==
    ASSUME Bounds, CaptureIInv, C!Write
    PROVE  pipe' \in [C!Captures -> 0 .. PipeSize]
<1>1. CASE fd1 = C!Terminal
  BY <1>1 DEF C!Write, CaptureIInv, C!TypeOK
<1>2. CASE fd1 # C!Terminal
  <2>1. fd1 \in C!Captures /\ pipe[fd1] \in 0 .. PipeSize /\ pipe[fd1] < PipeSize
        /\ pipe' = [pipe EXCEPT ![fd1] = pipe[fd1] + 1]
    BY <1>2 DEF C!Write, CaptureIInv, C!TypeOK
  <2>2. pipe[fd1] + 1 \in 0 .. PipeSize
    BY <2>1 DEF Bounds
  <2> QED
    BY <2>1, <2>2 DEF CaptureIInv, C!TypeOK
<1> QED
  BY <1>1, <1>2

\* With one client standard output is put back in place and no pipe holds more than
\* it can, whatever tonlib and the application write (CtypesStdoutCapture).
THEOREM OneClientPutsBack ==
    ASSUME Bounds, NEW c, Clients = {c}
    PROVE  PartsSpec => []CaptureInv
<1>1. PartsInit => CaptureIInv
  BY DEF Bounds, PartsInit, C!Init, CaptureIInv, C!TypeOK
<1>2. ASSUME CaptureIInv, [PartsNext]_allVars
      PROVE  CaptureIInv'
  <2>1. CASE UNCHANGED captureVars
    BY <1>2, <2>1 DEF captureVars, CaptureIInv, C!TypeOK
  <2>2. CASE C!Enter(c)
    BY <1>2, <2>2, EnterKeeps
  <2>3. CASE C!TonlibLogs(c)
    <3>1. /\ log' = [log EXCEPT ![c] = log[c] - 1] /\ log[c] > 0 /\ C!Write
          /\ UNCHANGED <<fd1, round, inside, stdout, printed>>
      BY <2>3 DEF C!TonlibLogs
    <3>2. log' \in [Clients -> 0 .. LogLines]
      BY <1>2, <3>1 DEF CaptureIInv, C!TypeOK, Bounds
    <3> QED
      BY <1>2, <3>1, <3>2, WriteKeeps DEF CaptureIInv, C!TypeOK
  <2>4. CASE C!ApplicationPrints
    <3>1. /\ printed' \in 0 .. AppLines /\ C!Write
          /\ UNCHANGED <<fd1, round, inside, stdout, log>>
      BY <1>2, <2>4 DEF C!ApplicationPrints, CaptureIInv, C!TypeOK, Bounds
    <3> QED
      BY <1>2, <3>1, WriteKeeps DEF CaptureIInv, C!TypeOK
  <2>5. ASSUME NEW k \in C!Captures, C!Exit(k) PROVE CaptureIInv'
    <3>1. /\ k \in inside /\ fd1' = stdout[k] /\ inside' = inside \ {k}
          /\ UNCHANGED <<round, stdout, log, pipe, printed>>
      BY <2>5 DEF C!Exit
    <3>2. inside' = {} /\ fd1' = C!Terminal
      BY <1>2, <3>1 DEF CaptureIInv
    <3> QED
      BY <1>2, <3>1, <3>2 DEF CaptureIInv, C!TypeOK
  <2>6. PartsNext \/ UNCHANGED captureVars
    BY <1>2 DEF allVars
  <2>7. CASE C!Next
    BY <2>2, <2>3, <2>4, <2>5, <2>7 DEF C!Next
  <2> QED
    BY <2>1, <2>6, <2>7 DEF PartsNext
<1>3. CaptureIInv => CaptureInv
  BY DEF CaptureIInv, CaptureInv, C!CaptureInv, C!StdoutBackInPlace
<1> QED
  BY <1>1, <1>2, <1>3, PTL DEF PartsSpec
===============================================================================
