------------------------- MODULE ServerRunner_proofs -------------------------
(***************************************************************************)
(* Theorems about ServerRunner for every number of hooks, with their       *)
(* proofs.                                                                 *)
(***************************************************************************)
EXTENDS ServerRunner, TLAPS

(***************************************************************************)
(* What holds on any loops.                                                *)
(***************************************************************************)

\* What runs or is awaited was created by a start().
WorkInv ==
  /\ \A i \in Hooks : task[i] \in {"startup", "main"} => on[i] \in Hooks
  /\ \A c \in Hooks : Clearing(c) => awaits[c] \in Hooks
  /\ \A c \in Hooks : pc[c] = "idle" => task[c] = "none"
  /\ ref # None => task[ref] # "none"
  /\ \A i \in exiting : task[i] # "none"

\* Whoever clears the fields has told the sweep to stop, and until a start()
\* crosses it the sweep is not told to go on; nor is it once the server has
\* been told to exit, or is gone.
StopInv ==
  ~crossed =>
    /\ \A c \in Hooks : Clearing(c) => stop
    /\ ref # None /\ ref \in exiting => stop
    /\ ref = None => stop \/ \A i \in Hooks : ~Sweeping(i)

RunnerInv == TypeOK /\ WorkInv /\ StopInv

\* Nothing runs at first.
LEMMA InitRunnerInv == Init => RunnerInv
  BY LoopOfAssumption
     DEF Init, RunnerInv, TypeOK, HookPcs, TaskPcs, SweepPcs, WorkInv, StopInv,
         Clearing, Sweeping

\* How _serve()'s finally block leaves its task and the socket.
LEMMA FinallyEnds ==
  ASSUME TypeOK, NEW i \in Hooks, NEW end \in {"done", "cancelled"}, NEW up, NEW sockets,
         Finally(i, end, up, sockets)
  PROVE  /\ task' \in [Hooks -> TaskPcs]
         /\ task'[i] \in {"shutdown", "abort", "done", "cancelled"}
         /\ \A j \in Hooks : j # i => task'[j] = task[j]
         /\ listening' \subseteq sockets
  BY DEF Finally, TaskGoto, TypeOK, TaskPcs

\* A cancelled task is over or on its way out, and the others are not touched.
LEMMA CancelEnds ==
  ASSUME TypeOK, NEW i \in Hooks, Cancel(i)
  PROVE  /\ task' \in [Hooks -> TaskPcs]
         /\ task'[i] \in {"shutdown", "abort", "done", "cancelled"}
         /\ \A j \in Hooks : j # i => task'[j] = task[j]
         /\ listening' \subseteq listening
<1>1. CASE task[i] \in {"startup", "main"}
  BY <1>1, FinallyEnds DEF Cancel
<1>2. CASE task[i] \notin {"startup", "main"}
  BY <1>2 DEF Cancel, TaskGoto, TypeOK, TaskPcs
<1> QED
  BY <1>1, <1>2

\* Hooks and sweeps are not disturbed by a task that goes on.
LEMMA TaskStepKeeps ==
  ASSUME RunnerInv, NEW i \in Hooks, TaskStep(i)
  PROVE  RunnerInv'
<1>1. UNCHANGED <<fields, hookVars, exiting, sweep>> /\ task[i] # "none"
  BY DEF TaskStep, Launch, Bind, BindFails, MainOver, ShutdownOver
<1>2. /\ task' \in [Hooks -> TaskPcs] /\ task'[i] # "none"
      /\ \A j \in Hooks : j # i => task'[j] = task[j]
      /\ on' \in [Hooks -> Hooks \cup {None}]
      /\ \A j \in Hooks : task'[j] \in {"startup", "main"} => on'[j] \in Hooks
      /\ started' \subseteq Hooks /\ listening' \subseteq started'
  <2> USE DEF RunnerInv, TypeOK, WorkInv
  <2>1. CASE Launch(i)
    BY <2>1 DEF Launch, TaskGoto, TaskPcs
  <2>2. CASE Bind(i)
    <3> DEFINE up == started \cup {on[i]}
               sockets == listening \cup {on[i]}
    <3>1. task[i] = "startup" /\ on[i] \in Hooks /\ started' = up
      BY <2>2 DEF Bind
    <3>2. CASE ref # None /\ ref \notin exiting
      BY <2>2, <3>1, <3>2 DEF Bind, TaskGoto, TaskPcs
    <3>3. CASE ~(ref # None /\ ref \notin exiting)
      <4>1. Finally(i, "done", up, sockets) /\ UNCHANGED on
        BY <2>2, <3>3 DEF Bind
      <4> QED
        BY <3>1, <4>1, FinallyEnds
    <3> QED
      BY <3>2, <3>3
  <2>3. CASE BindFails(i) \/ MainOver(i)
    <3>1. Finally(i, "done", started, listening) /\ UNCHANGED <<on, started>>
      BY <2>3 DEF BindFails, MainOver
    <3> QED
      BY <3>1, FinallyEnds
  <2>4. CASE ShutdownOver(i)
    BY <2>4 DEF ShutdownOver, TaskGoto, TaskPcs
  <2> QED
    BY <2>1, <2>2, <2>3, <2>4 DEF TaskStep
<1> USE DEF fields, hookVars
<1>3. TypeOK'
  BY <1>1, <1>2 DEF RunnerInv, TypeOK
<1>4. WorkInv'
  BY <1>1, <1>2 DEF RunnerInv, TypeOK, WorkInv, Clearing
<1>5. StopInv'
  BY <1>1 DEF RunnerInv, StopInv, Clearing, Sweeping
<1> QED
  BY <1>3, <1>4, <1>5 DEF RunnerInv

\* The second half of drain(), the sweep having been told to stop.
LEMMA StopServerKeeps ==
  ASSUME RunnerInv, NEW c \in Hooks, StopServer(c),
         stop' \in BOOLEAN, crossed \/ stop' = TRUE,
         UNCHANGED <<crossed, task, on, started, listening, sweep>>
  PROVE  RunnerInv'
<1>1. /\ ref' \in {ref, None} /\ sweepRef' = None
      /\ exiting' \in {exiting, exiting \cup {ref}}
      /\ exiting' # exiting => ref # None
      /\ pc' \in [Hooks -> HookPcs] /\ awaits' \in [Hooks -> Hooks \cup {None}]
      /\ \A d \in Hooks : d # c => pc'[d] = pc[d] /\ awaits'[d] = awaits[d]
      /\ pc'[c] = "done" \/ (pc'[c] = "server" /\ awaits'[c] = ref /\ ref # None)
  BY DEF StopServer, Forget, End, Goto, RunnerInv, TypeOK, HookPcs
<1>2. TypeOK'
  BY <1>1 DEF RunnerInv, TypeOK
<1>3. WorkInv'
  BY <1>1 DEF RunnerInv, TypeOK, WorkInv, Clearing
<1>4. StopInv'
  BY DEF StopInv
<1> QED
  BY <1>2, <1>3, <1>4 DEF RunnerInv

\* The first half of drain(), which does the second at once if no sweep runs.
LEMMA BeginDrainKeeps ==
  ASSUME RunnerInv, NEW c \in Hooks, BeginDrain(c),
         UNCHANGED <<crossed, task, on, started, listening, sweep>>
  PROVE  RunnerInv'
<1>1. CASE StopServer(c)
  BY <1>1, StopServerKeeps DEF BeginDrain
<1>2. CASE /\ sweepRef # None
           /\ Goto(c, "sweep", sweepRef)
           /\ UNCHANGED <<ref, sweepRef, exiting>>
  <2>1. stop' = TRUE
    BY DEF BeginDrain
  <2>2. TypeOK'
    BY <1>2, <2>1 DEF RunnerInv, TypeOK, Goto, HookPcs
  <2>3. WorkInv'
    BY <1>2 DEF RunnerInv, TypeOK, WorkInv, Goto, Clearing
  <2>4. StopInv'
    BY <2>1 DEF StopInv
  <2> QED
    BY <2>2, <2>3, <2>4 DEF RunnerInv
<1> QED
  BY <1>1, <1>2 DEF BeginDrain

\* A hook that runs on, after a suspension.
LEMMA HookStepKeeps ==
  ASSUME RunnerInv, NEW c \in Hooks, HookStep(c)
  PROVE  RunnerInv'
<1> USE DEF fields, taskVars
<1>1. CASE Poll(c)
  <2>1. /\ UNCHANGED <<fields, crossed, on, started, exiting, sweep>>
        /\ pc[c] = "poll"
        /\ \A d \in Hooks : d # c => pc'[d] = pc[d] /\ awaits'[d] = awaits[d]
        /\ pc' \in [Hooks -> HookPcs] /\ awaits' \in [Hooks -> Hooks \cup {None}]
        /\ \/ pc'[c] = "done" /\ UNCHANGED <<task, listening>>
           \/ /\ pc'[c] = "reap" /\ awaits'[c] = ref /\ ref \in Hooks /\ ref \in exiting
              /\ UNCHANGED <<task, listening>> \/ (Alive(ref) /\ Cancel(ref))
    BY <1>1 DEF Poll, End, Goto, RunnerInv, TypeOK, HookPcs
  <2>2. /\ task' \in [Hooks -> TaskPcs]
        /\ \A j \in Hooks : task'[j] = "none" <=> task[j] = "none"
        /\ \A j \in Hooks : task'[j] \in {"startup", "main"} => task'[j] = task[j]
        /\ listening' \subseteq listening
    <3>1. CASE UNCHANGED <<task, listening>>
      BY <3>1 DEF RunnerInv, TypeOK
    <3>2. CASE ref \in Hooks /\ Alive(ref) /\ Cancel(ref)
      BY <3>2, CancelEnds DEF RunnerInv, Alive
    <3> QED
      BY <2>1, <3>1, <3>2
  <2>3. TypeOK'
    BY <2>1, <2>2 DEF RunnerInv, TypeOK
  <2>4. WorkInv'
    BY <2>1, <2>2 DEF RunnerInv, TypeOK, WorkInv, Clearing
  <2>5. StopInv'
    <3>1. \A d \in Hooks : Clearing(d)' => Clearing(d) \/ (d = c /\ ref # None /\ ref \in exiting)
      BY <2>1, LoopOfAssumption DEF Clearing
    <3>2. UNCHANGED <<ref, sweepRef, stop, crossed, exiting, sweep>>
      BY <2>1
    <3> QED
      BY <3>1, <3>2 DEF RunnerInv, StopInv, Sweeping
  <2> QED
    BY <2>3, <2>4, <2>5 DEF RunnerInv
<1>2. CASE Reap(c) \/ ServerOver(c)
  <2>1. /\ UNCHANGED <<sweepRef, stop, crossed, taskVars, sweep>>
        /\ Clearing(c) /\ ref' = None
        /\ pc' = [pc EXCEPT ![c] = "done"]
        /\ awaits' = [awaits EXCEPT ![c] = None]
    BY <1>2 DEF Reap, ServerOver, Clearing, Forget, End, Goto
  <2>2. TypeOK' /\ WorkInv'
    BY <2>1 DEF RunnerInv, TypeOK, WorkInv, HookPcs, Clearing
  <2>3. StopInv'
    BY <2>1 DEF RunnerInv, TypeOK, StopInv, Clearing, Sweeping
  <2> QED
    BY <2>2, <2>3 DEF RunnerInv
<1>3. CASE PollTimesOut(c)
  BY <1>3, BeginDrainKeeps DEF PollTimesOut
<1>4. CASE SweepOver(c) \/ SweepKilled(c)
  <2>1. /\ UNCHANGED <<stop, crossed, task, on, started, listening, sweep>>
        /\ Clearing(c)
        /\ StopServer(c) \/ (End(c) /\ UNCHANGED <<ref, sweepRef, exiting>>)
    BY <1>4 DEF SweepOver, SweepKilled, Clearing
  <2>2. stop \in BOOLEAN /\ (crossed \/ stop = TRUE)
    BY <2>1 DEF RunnerInv, TypeOK, StopInv
  <2>3. CASE StopServer(c)
    BY <2>1, <2>2, <2>3, StopServerKeeps
  <2>4. CASE End(c) /\ UNCHANGED <<ref, sweepRef, exiting>>
    <3>1. TypeOK' /\ WorkInv'
      BY <2>1, <2>4 DEF RunnerInv, TypeOK, WorkInv, HookPcs, Clearing, End, Goto
    <3>2. StopInv'
      BY <2>1, <2>4 DEF RunnerInv, TypeOK, StopInv, Clearing, Sweeping, End, Goto
    <3> QED
      BY <3>1, <3>2 DEF RunnerInv
  <2> QED
    BY <2>1, <2>3, <2>4
<1>5. CASE SweepTimesOut(c)
  <2>1. /\ UNCHANGED <<fields, crossed, taskVars>>
        /\ pc[c] = "sweep" /\ awaits[c] \in Hooks /\ sweep[awaits[c]] = "on"
        /\ sweep' = [sweep EXCEPT ![awaits[c]] = "cancelled"]
        /\ pc' = [pc EXCEPT ![c] = "sweepKill"]
        /\ awaits' = [awaits EXCEPT ![c] = awaits[c]]
    BY <1>5 DEF SweepTimesOut, Goto, Sweeping, RunnerInv, WorkInv, Clearing
  <2>2. TypeOK' /\ WorkInv'
    BY <2>1 DEF RunnerInv, TypeOK, WorkInv, HookPcs, SweepPcs, Clearing
  <2>3. StopInv'
    BY <2>1 DEF RunnerInv, TypeOK, StopInv, Clearing, Sweeping
  <2> QED
    BY <2>2, <2>3 DEF RunnerInv
<1>6. CASE ServerTimesOut(c)
  <2>1. /\ UNCHANGED <<fields, crossed, on, started, exiting, sweep>>
        /\ pc[c] = "server" /\ awaits[c] \in Hooks /\ Alive(awaits[c]) /\ Cancel(awaits[c])
        /\ pc' = [pc EXCEPT ![c] = "serverKill"]
        /\ awaits' = [awaits EXCEPT ![c] = awaits[c]]
    BY <1>6 DEF ServerTimesOut, Goto, RunnerInv, WorkInv, Clearing
  <2>2. /\ task' \in [Hooks -> TaskPcs]
        /\ \A j \in Hooks : task'[j] = "none" <=> task[j] = "none"
        /\ \A j \in Hooks : task'[j] \in {"startup", "main"} => task'[j] = task[j]
        /\ listening' \subseteq listening
    BY <2>1, CancelEnds DEF RunnerInv, Alive
  <2>3. TypeOK' /\ WorkInv'
    BY <2>1, <2>2 DEF RunnerInv, TypeOK, WorkInv, HookPcs, Clearing
  <2>4. StopInv'
    BY <2>1 DEF RunnerInv, TypeOK, StopInv, Clearing, Sweeping
  <2> QED
    BY <2>3, <2>4 DEF RunnerInv
<1> QED
  BY <1>1, <1>2, <1>3, <1>4, <1>5, <1>6 DEF HookStep

\* A new server is one that has not been told to exit.
LEMMA StartKeeps ==
  ASSUME RunnerInv, NEW c \in Hooks, Start(c)
  PROVE  RunnerInv'
<1>1. /\ UNCHANGED <<on, started, exiting, listening>>
      /\ pc[c] = "idle" /\ task[c] = "none" /\ c # None
      /\ crossed' = (crossed \/ \E d \in Hooks : Clearing(d))
  BY LoopOfAssumption DEF Start, Called, RunnerInv, WorkInv
<1>2. CASE End(c) /\ UNCHANGED <<fields, task, sweep>>
  <2>1. TypeOK' /\ WorkInv'
    BY <1>1, <1>2 DEF fields, RunnerInv, TypeOK, WorkInv, HookPcs, Clearing, End, Goto
  <2>2. StopInv'
    BY <1>1, <1>2 DEF fields, RunnerInv, TypeOK, StopInv, Clearing, Sweeping, End, Goto
  <2> QED
    BY <2>1, <2>2 DEF RunnerInv
<1>3. CASE ref' = c /\ TaskGoto(c, "new") /\ StartSweep(c) /\ Goto(c, "poll", None)
  <2> USE <1>3 DEF TaskGoto, StartSweep, Goto
  <2>1. TypeOK'
    BY <1>1 DEF RunnerInv, TypeOK, HookPcs, TaskPcs, SweepPcs
  <2>2. WorkInv'
    BY <1>1 DEF RunnerInv, TypeOK, WorkInv, Clearing
  <2>3. StopInv'
    <3> SUFFICES ASSUME ~crossed' PROVE StopInv'
      BY DEF StopInv
    <3>1. \A d \in Hooks : ~Clearing(d)
      BY <1>1
    <3>2. \A d \in Hooks : ~Clearing(d)'
      BY <3>1 DEF Clearing, RunnerInv, TypeOK
    <3>3. c \notin exiting
      BY <1>1 DEF RunnerInv, WorkInv
    <3> QED
      BY <1>1, <3>2, <3>3 DEF StopInv
  <2> QED
    BY <2>1, <2>2, <2>3 DEF RunnerInv
<1> QED
  BY <1>2, <1>3 DEF Start, Begin

\* Every step keeps the invariant.
LEMMA NextKeepsRunner == RunnerInv /\ [Next]_vars => RunnerInv'
<1> SUFFICES ASSUME RunnerInv, [Next]_vars PROVE RunnerInv'
  OBVIOUS
<1>1. ASSUME NEW c \in Hooks, Drain(c) PROVE RunnerInv'
  BY <1>1, BeginDrainKeeps DEF Drain
<1>2. ASSUME NEW i \in Hooks, SweepEnds(i) PROVE RunnerInv'
  <2> USE <1>2 DEF SweepEnds, fields, hookVars, taskVars
  <2>1. TypeOK' /\ WorkInv'
    BY DEF RunnerInv, TypeOK, WorkInv, SweepPcs, Clearing, Sweeping
  <2>2. StopInv'
    BY DEF RunnerInv, TypeOK, StopInv, Clearing, Sweeping
  <2> QED
    BY <2>1, <2>2 DEF RunnerInv
<1>3. CASE UNCHANGED vars
  BY <1>3 DEF vars, fields, hookVars, taskVars, RunnerInv, TypeOK, WorkInv, StopInv,
              Clearing, Sweeping
<1> QED
  BY <1>1, <1>2, <1>3, StartKeeps, HookStepKeeps, TaskStepKeeps DEF Next

(***************************************************************************)
(* What holds on one loop: a drain() that finds a server alive awaits it.  *)
(***************************************************************************)
OneLoopOnly == \A c, d \in Hooks : ~Foreign(c, d)

\* A task serves the server it was created for, and whoever is about to clear
\* the fields clears what it has awaited.
OwnInv ==
  ~crossed =>
    /\ \A i \in Hooks : task[i] \in {"startup", "main"} => on[i] = i
    /\ \A c \in Hooks : pc[c] \in {"reap", "server", "serverKill"} => ref \in {awaits[c], None}

KnownInv == RunnerInv /\ OwnInv /\ NoOrphan

\* _serve()'s finally block closes the one socket that is open.
LEMMA FinallyCloses ==
  ASSUME TypeOK, NEW i \in Hooks, NEW end, NEW up, NEW sockets,
         ref = i, Finally(i, end, up, sockets), sockets \subseteq {i}, sockets \subseteq up
  PROVE  listening' = {}
  BY LoopOfAssumption DEF Finally

\* So does a cancellation.
LEMMA CancelCloses ==
  ASSUME KnownInv, ~crossed, NEW i \in Hooks, ref = i, Cancel(i)
  PROVE  listening' = {}
<1>1. \A j \in listening : j = i /\ task[j] = "main"
  BY DEF KnownInv, RunnerInv, TypeOK, NoOrphan
<1>2. CASE task[i] \in {"startup", "main"}
  <2>1. Finally(i, "cancelled", started, listening)
    BY <1>2 DEF Cancel
  <2>2. listening \subseteq {i} /\ listening \subseteq started
    BY <1>1 DEF KnownInv, RunnerInv, TypeOK
  <2> QED
    BY <2>1, <2>2, FinallyCloses DEF KnownInv, RunnerInv
<1>3. CASE task[i] \notin {"startup", "main"}
  BY <1>1, <1>3 DEF Cancel
<1> QED
  BY <1>2, <1>3

\* A task that goes on serves the server the runner knows.
LEMMA TaskStepKnown ==
  ASSUME KnownInv, NEW i \in Hooks, TaskStep(i)
  PROVE  KnownInv'
<1>1. RunnerInv'
  BY TaskStepKeeps DEF KnownInv
<1> SUFFICES ASSUME ~crossed PROVE OwnInv' /\ NoOrphan'
  <2>1. crossed' = crossed
    BY DEF TaskStep, Launch, Bind, BindFails, MainOver, ShutdownOver, hookVars
  <2> QED
    BY <1>1, <2>1 DEF KnownInv, OwnInv, NoOrphan
<1>2. UNCHANGED <<fields, hookVars, exiting, sweep>> /\ Alive(i)
  BY DEF TaskStep, Launch, Bind, BindFails, MainOver, ShutdownOver, Alive
<1>3. /\ ref = i /\ i # None /\ listening \subseteq {i} /\ listening \subseteq started
      /\ \A j \in Hooks : j # i => ~Alive(j)
      /\ \A j \in listening : task[j] = "main"
      /\ task \in [Hooks -> TaskPcs] /\ on \in [Hooks -> Hooks \cup {None}]
      /\ task[i] \in {"startup", "main"} => on[i] = i
  BY <1>2, LoopOfAssumption DEF KnownInv, RunnerInv, TypeOK, NoOrphan, OwnInv
<1>4. /\ \A j \in Hooks : j # i => task'[j] = task[j] /\ on'[j] = on[j]
      /\ task'[i] \in {"startup", "main"} => on'[i] = i
      /\ listening' \subseteq {i} /\ (i \in listening' => task'[i] = "main")
  <2>1. CASE Launch(i)
    BY <1>3, <2>1 DEF Launch, TaskGoto
  <2>2. CASE Bind(i)
    <3> DEFINE up == started \cup {on[i]}
               sockets == listening \cup {on[i]}
    <3>1. task[i] = "startup" /\ on[i] = i /\ sockets \subseteq {i} /\ sockets \subseteq up
      BY <1>3, <2>2 DEF Bind
    <3>2. CASE ref # None /\ ref \notin exiting
      BY <1>3, <2>2, <3>1, <3>2 DEF Bind, TaskGoto
    <3>3. CASE ~(ref # None /\ ref \notin exiting)
      <4>1. Finally(i, "done", up, sockets) /\ UNCHANGED on
        BY <2>2, <3>3 DEF Bind
      <4>2. listening' = {}
        BY <1>3, <3>1, <4>1, FinallyCloses DEF KnownInv, RunnerInv
      <4> QED
        BY <4>1, <4>2, FinallyEnds DEF KnownInv, RunnerInv
    <3> QED
      BY <3>2, <3>3
  <2>3. CASE BindFails(i) \/ MainOver(i)
    <3>1. Finally(i, "done", started, listening) /\ UNCHANGED on
      BY <2>3 DEF BindFails, MainOver
    <3>2. listening' = {}
      BY <1>3, <3>1, FinallyCloses DEF KnownInv, RunnerInv
    <3> QED
      BY <3>1, <3>2, FinallyEnds DEF KnownInv, RunnerInv
  <2>4. CASE ShutdownOver(i)
    BY <1>3, <2>4 DEF ShutdownOver, TaskGoto
  <2> QED
    BY <2>1, <2>2, <2>3, <2>4 DEF TaskStep
<1>5. OwnInv'
  BY <1>2, <1>4 DEF KnownInv, OwnInv, fields, hookVars
<1>6. NoOrphan'
  BY <1>2, <1>3, <1>4 DEF NoOrphan, Alive, fields, hookVars
<1> QED
  BY <1>5, <1>6

\* A hook's end, or its forgetting of a server that is over, leaves none
\* behind.
LEMMA FieldsKnown ==
  ASSUME KnownInv, RunnerInv', ~crossed, NEW c \in Hooks,
         UNCHANGED <<crossed, task, on, listening>>,
         \/ ref' = ref
         \/ ref' = None /\ \A i \in Hooks : ~Alive(i),
         \A d \in Hooks : d # c => pc'[d] = pc[d] /\ awaits'[d] = awaits[d],
         pc'[c] \in {"reap", "server", "serverKill"} => ref' \in {awaits'[c], None}
  PROVE  KnownInv'
<1>1. OwnInv'
  BY DEF KnownInv, OwnInv
<1>2. NoOrphan'
  BY DEF KnownInv, NoOrphan, Alive, RunnerInv, TypeOK
<1> QED
  BY <1>1, <1>2 DEF KnownInv

\* drain() on the loop of the server: its second half.
LEMMA StopServerKnown ==
  ASSUME OneLoopOnly, KnownInv, RunnerInv', ~crossed, NEW c \in Hooks, StopServer(c),
         UNCHANGED <<crossed, task, on, started, listening, sweep>>
  PROVE  KnownInv'
<1>1. ref \in Hooks \cup {None} /\ task \in [Hooks -> TaskPcs]
      /\ pc \in [Hooks -> HookPcs] /\ awaits \in [Hooks -> Hooks \cup {None}]
  BY DEF KnownInv, RunnerInv, TypeOK
<1>2. CASE ref = None \/ Over(ref)
  <2>1. \A i \in Hooks : ~Alive(i)
    BY <1>1, <1>2, LoopOfAssumption DEF KnownInv, NoOrphan, Over, Alive
  <2>2. /\ ref' = None /\ pc'[c] = "done"
        /\ \A d \in Hooks : d # c => pc'[d] = pc[d] /\ awaits'[d] = awaits[d]
    BY <1>1, <1>2 DEF StopServer, Forget, End, Goto
  <2> QED
    BY <2>1, <2>2, FieldsKnown
<1>3. CASE ~(ref = None \/ Over(ref))
  <2>1. ref \in Hooks /\ ~Foreign(c, ref)
    BY <1>1, <1>3 DEF OneLoopOnly
  <2>2. /\ ref' = ref /\ awaits'[c] = ref
        /\ \A d \in Hooks : d # c => pc'[d] = pc[d] /\ awaits'[d] = awaits[d]
    BY <1>1, <1>3, <2>1 DEF StopServer, Goto
  <2> QED
    BY <2>2, FieldsKnown
<1> QED
  BY <1>2, <1>3

\* ... and its first.
LEMMA BeginDrainKnown ==
  ASSUME OneLoopOnly, KnownInv, RunnerInv', ~crossed, NEW c \in Hooks, BeginDrain(c),
         UNCHANGED <<crossed, task, on, started, listening, sweep>>
  PROVE  KnownInv'
<1>1. CASE StopServer(c)
  BY <1>1, StopServerKnown
<1>2. CASE Goto(c, "sweep", sweepRef) /\ UNCHANGED <<ref, sweepRef, exiting>>
  BY <1>2, FieldsKnown DEF Goto, KnownInv, RunnerInv, TypeOK
<1> QED
  BY <1>1, <1>2 DEF BeginDrain

\* A hook that runs on leaves no server behind.
LEMMA HookStepKnown ==
  ASSUME OneLoopOnly, KnownInv, NEW c \in Hooks, HookStep(c)
  PROVE  KnownInv'
<1> USE DEF fields, taskVars
<1>1. RunnerInv'
  BY HookStepKeeps DEF KnownInv
<1> SUFFICES ASSUME ~crossed PROVE KnownInv'
  <2>1. crossed' = crossed
    BY DEF HookStep, Poll, Reap, PollTimesOut, SweepOver, SweepTimesOut, SweepKilled,
           ServerTimesOut, ServerOver
  <2> QED
    BY <1>1, <2>1 DEF KnownInv, OwnInv, NoOrphan
<1>2. /\ pc \in [Hooks -> HookPcs] /\ awaits \in [Hooks -> Hooks \cup {None}]
      /\ task \in [Hooks -> TaskPcs] /\ listening \subseteq Hooks
      /\ ref \in Hooks \cup {None} /\ None \notin Hooks
      /\ \A d \in Hooks : Clearing(d) => awaits[d] \in Hooks
      /\ \A i \in Hooks : Alive(i) => ref = i
  BY LoopOfAssumption DEF KnownInv, RunnerInv, TypeOK, WorkInv, NoOrphan
\* A hook cancels the server that the runner knows.
<1>3. ASSUME NEW i \in Hooks, i = ref, Cancel(i),
             UNCHANGED <<fields, crossed, on>>,
             \A d \in Hooks : d # c => pc'[d] = pc[d] /\ awaits'[d] = awaits[d],
             awaits'[c] = i
      PROVE  KnownInv'
  <2>1. /\ \A j \in Hooks : j # i => task'[j] = task[j]
        /\ task'[i] \notin {"startup", "main"}
        /\ listening' = {}
    BY <1>3, CancelEnds, CancelCloses DEF KnownInv, RunnerInv
  <2>2. OwnInv'
    BY <1>3, <2>1 DEF KnownInv, OwnInv
  <2>3. NoOrphan'
    BY <1>2, <1>3, <2>1 DEF NoOrphan, Alive
  <2> QED
    BY <1>1, <2>2, <2>3 DEF KnownInv
<1>4. CASE Poll(c)
  <2>1. CASE End(c) /\ UNCHANGED <<task, listening>>
    BY <1>1, <1>2, <1>4, <2>1, FieldsKnown DEF Poll, End, Goto
  <2>2. CASE ref # None /\ UNCHANGED <<task, listening>> /\ Goto(c, "reap", ref)
    BY <1>1, <1>2, <1>4, <2>2, FieldsKnown DEF Poll, Goto
  <2>3. CASE ref # None /\ Cancel(ref) /\ Goto(c, "reap", ref)
    BY <1>2, <1>3, <1>4, <2>3 DEF Poll, Goto
  <2> QED
    BY <1>4, <2>1, <2>2, <2>3 DEF Poll
<1>5. CASE Reap(c) \/ ServerOver(c)
  <2>1. /\ pc[c] \in {"reap", "server", "serverKill"} /\ Over(awaits[c])
        /\ ref' = None /\ UNCHANGED <<crossed, task, on, listening>>
        /\ pc'[c] = "done"
        /\ \A d \in Hooks : d # c => pc'[d] = pc[d] /\ awaits'[d] = awaits[d]
    BY <1>2, <1>5 DEF Reap, ServerOver, Forget, End, Goto
  <2>2. ref \in {awaits[c], None}
    BY <2>1 DEF KnownInv, OwnInv
  <2>3. \A i \in Hooks : ~Alive(i)
    BY <1>2, <2>1, <2>2 DEF Over, Alive
  <2> QED
    BY <1>1, <2>1, <2>3, FieldsKnown
<1>6. CASE PollTimesOut(c)
  BY <1>1, <1>6, BeginDrainKnown DEF PollTimesOut
<1>7. CASE SweepOver(c) \/ SweepKilled(c)
  <2>1. CASE StopServer(c)
    BY <1>1, <1>7, <2>1, StopServerKnown DEF SweepOver, SweepKilled
  <2>2. CASE End(c) /\ UNCHANGED <<ref, sweepRef, exiting>>
    BY <1>1, <1>2, <1>7, <2>2, FieldsKnown DEF SweepOver, SweepKilled, End, Goto
  <2> QED
    BY <1>7, <2>1, <2>2 DEF SweepOver, SweepKilled
<1>8. CASE SweepTimesOut(c)
  BY <1>1, <1>2, <1>8, FieldsKnown DEF SweepTimesOut, Goto
<1>9. CASE ServerTimesOut(c)
  <2>1. awaits[c] \in Hooks /\ ref = awaits[c]
    BY <1>2, <1>9 DEF ServerTimesOut, Clearing
  <2> QED
    BY <1>2, <1>3, <1>9, <2>1 DEF ServerTimesOut, Goto
<1> QED
  BY <1>4, <1>5, <1>6, <1>7, <1>8, <1>9 DEF HookStep

\* A start() that crosses no hook leaves no server behind: there is none alive.
LEMMA StartKnown ==
  ASSUME KnownInv, NEW c \in Hooks, Start(c)
  PROVE  KnownInv'
<1>1. RunnerInv'
  BY StartKeeps DEF KnownInv
<1> SUFFICES ASSUME ~crossed' PROVE OwnInv' /\ NoOrphan'
  BY <1>1 DEF KnownInv, OwnInv, NoOrphan
<1>2. /\ ~crossed /\ \A d \in Hooks : ~Clearing(d)
      /\ UNCHANGED <<on, started, exiting, listening>>
      /\ pc[c] = "idle"
  BY DEF Start, Called
<1>3. /\ pc \in [Hooks -> HookPcs] /\ awaits \in [Hooks -> Hooks \cup {None}]
      /\ task \in [Hooks -> TaskPcs] /\ listening \subseteq Hooks
      /\ None \notin Hooks
  BY LoopOfAssumption DEF KnownInv, RunnerInv, TypeOK
<1>4. CASE End(c) /\ UNCHANGED <<fields, task, sweep>>
  <2>1. UNCHANGED <<crossed, task, on, listening, ref>>
    BY <1>1, <1>2, <1>4 DEF KnownInv, RunnerInv, TypeOK, fields
  <2>2. /\ pc'[c] = "done"
        /\ \A d \in Hooks : d # c => pc'[d] = pc[d] /\ awaits'[d] = awaits[d]
    BY <1>3, <1>4 DEF End, Goto
  <2>3. KnownInv'
    BY <1>1, <1>2, <2>1, <2>2, FieldsKnown
  <2> QED
    BY <2>3 DEF KnownInv
<1>5. CASE /\ ~(ref # None /\ Alive(ref))
           /\ ref' = c /\ TaskGoto(c, "new") /\ Goto(c, "poll", None)
  <2>1. \A i \in Hooks : ~Alive(i) /\ i \notin listening
    BY <1>2, <1>3, <1>5 DEF KnownInv, NoOrphan, Alive
  <2>2. /\ task'[c] = "new" /\ \A i \in Hooks : i # c => task'[i] = task[i]
        /\ pc'[c] = "poll" /\ \A d \in Hooks : d # c => pc'[d] = pc[d]
    BY <1>3, <1>5 DEF TaskGoto, Goto
  <2>3. OwnInv'
    BY <1>2, <2>2 DEF KnownInv, OwnInv, Clearing
  <2>4. NoOrphan'
    BY <1>2, <1>5, <2>1, <2>2 DEF NoOrphan, Alive
  <2> QED
    BY <2>3, <2>4
<1> QED
  BY <1>4, <1>5 DEF Start, Begin

\* Every step of hooks on one loop keeps the invariant.
LEMMA NextKeepsKnown ==
  ASSUME OneLoopOnly
  PROVE  KnownInv /\ [Next]_vars => KnownInv'
<1> SUFFICES ASSUME KnownInv, [Next]_vars PROVE KnownInv'
  OBVIOUS
<1>1. RunnerInv'
  BY NextKeepsRunner DEF KnownInv
<1>2. ASSUME NEW c \in Hooks, Drain(c) PROVE KnownInv'
  <2>1. CASE crossed
    BY <1>1, <1>2, <2>1 DEF Drain, KnownInv, OwnInv, NoOrphan
  <2>2. CASE ~crossed
    BY <1>1, <1>2, <2>2, BeginDrainKnown DEF Drain
  <2> QED
    BY <2>1, <2>2
<1>3. ASSUME NEW i \in Hooks, SweepEnds(i) PROVE KnownInv'
  BY <1>1, <1>3
     DEF SweepEnds, fields, hookVars, taskVars, KnownInv, OwnInv, NoOrphan, Alive
<1>4. CASE UNCHANGED vars
  BY <1>1, <1>4
     DEF vars, fields, hookVars, taskVars, KnownInv, OwnInv, NoOrphan, Alive
<1> QED
  BY <1>2, <1>3, <1>4, StartKnown, HookStepKnown, TaskStepKnown DEF Next

(***************************************************************************)
(* The theorems.                                                           *)
(***************************************************************************)

\* Every reachable state satisfies the invariant, on however many loops.
THEOREM RunnerAlways == Spec => []RunnerInv
  BY InitRunnerInv, NextKeepsRunner, PTL DEF Spec

\* Variables keep their types; a socket is open only for a server that has
\* started, and there is a sweep for every task.
THEOREM RunnerTypeCorrect == Spec => []TypeOK
<1>1. RunnerInv => TypeOK
  BY DEF RunnerInv
<1> QED
  BY <1>1, RunnerAlways, PTL

\* When ServerRunner of src/lifecycle.py has forgotten its server, its sweep is
\* over or has been told to stop.
THEOREM SweepsEndToo == Spec => []SweepStopsToo
<1>1. RunnerInv => SweepStopsToo
  BY DEF RunnerInv, StopInv, SweepStopsToo
<1> QED
  BY <1>1, RunnerAlways, PTL

\* With all hooks on one loop, which is what start()'s check for a running
\* server relies on: unless a start() crosses a hook that clears the fields,
\* the runner knows every server that is alive and every socket that is open.
THEOREM NoServerLeftBehind ==
  ASSUME OneLoopOnly
  PROVE  Spec => []NoOrphan
<1>1. Init => KnownInv
  <2> SUFFICES ASSUME Init PROVE KnownInv
    OBVIOUS
  <2>1. OwnInv /\ NoOrphan
    BY DEF Init, OwnInv, NoOrphan, Alive
  <2> QED
    BY <2>1, InitRunnerInv DEF KnownInv
<1>2. KnownInv /\ [Next]_vars => KnownInv'
  BY NextKeepsKnown
<1>3. KnownInv => NoOrphan
  BY DEF KnownInv
<1> QED
  BY <1>1, <1>2, <1>3, PTL DEF Spec
=============================================================================
