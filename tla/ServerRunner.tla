--------------------------- MODULE ServerRunner ---------------------------
(***************************************************************************)
(* The server's life: class ServerRunner of src/lifecycle.py under the     *)
(* session hooks that call start() and drain(), and the thread that starts *)
(* it at load (src/__init__.py).                                           *)
(*                                                                         *)
(* A server is named by the start() that created it: its uvicorn.Server,   *)
(* its task and its sweep.  The runner's fields are shared: the coroutines *)
(* read them again after every suspension, and whoever is last to write    *)
(* one wins.  _server and _task are always set and cleared together.       *)
(*                                                                         *)
(* A step is what a coroutine does between two suspensions; a task that is *)
(* cancelled gets the CancelledError in that step.  With one loop that is  *)
(* how they interleave; the steps of two loops do so more finely.          *)
(***************************************************************************)
EXTENDS Naturals, Sequences

CONSTANTS LoopOf,  \* the event loop each hook runs on
          None

\* Calls of _on_session_start and _on_session_end, numbered as they come.
Hooks == DOMAIN LoopOf

ASSUME LoopOfAssumption == LoopOf \in Seq(Nat) /\ None \notin Hooks

VARIABLES ref,       \* _server and _task
          sweepRef,  \* _sweep_task
          stop,      \* whether the event _stop_sweep is set
          pc,        \* where each hook stands
          awaits,    \* the server whose task or sweep it awaits
          crossed,   \* whether a start() began while a hook was clearing
          task,      \* where each server's task stands
          on,        \* the server whose startup or main_loop it runs
          started,   \* uvicorn's started flags
          exiting,   \* uvicorn's should_exit flags
          listening, \* servers with an open socket
          sweep      \* where each server's sweep stands

fields   == <<ref, sweepRef, stop>>
hookVars == <<pc, awaits, crossed>>
taskVars == <<task, on, started, exiting, listening>>
vars     == <<fields, hookVars, taskVars, sweep>>

HookPcs  == {"idle", "poll", "reap", "sweep", "sweepKill", "server",
             "serverKill", "done"}
\* "abort" is a shutdown on the way out of a cancellation.
TaskPcs  == {"none", "new", "startup", "main", "shutdown", "abort", "done",
             "cancelled"}
SweepPcs == {"none", "on", "done", "cancelled"}

Over(i)       == task[i] \in {"done", "cancelled"}
Alive(i)      == task[i] \notin {"none", "done", "cancelled"}
Sweeping(i)   == sweep[i] = "on"
Clearing(c)   == pc[c] \in {"reap", "sweep", "sweepKill", "server", "serverKill"}
Foreign(c, i) == LoopOf[c] # LoopOf[i]

Init ==
  /\ ref = None /\ sweepRef = None /\ stop = FALSE
  /\ pc = [c \in Hooks |-> "idle"]
  /\ awaits = [c \in Hooks |-> None]
  /\ crossed = FALSE
  /\ task = [i \in Hooks |-> "none"]
  /\ on = [i \in Hooks |-> None]
  /\ started = {} /\ exiting = {} /\ listening = {}
  /\ sweep = [i \in Hooks |-> "none"]

Goto(c, label, i) ==
  /\ pc' = [pc EXCEPT ![c] = label]
  /\ awaits' = [awaits EXCEPT ![c] = i]

End(c) == Goto(c, "done", None)

Forget == ref' = None

Called(c) == pc[c] = "idle" /\ \A d \in Hooks : d < c => pc[d] # "idle"

---------------------------------------------------------------------------
(* _serve(), which reads _server anew at every turn.                       *)

TaskGoto(i, label) == task' = [task EXCEPT ![i] = label]

\* The finally block: an AttributeError if there is no _server any more, its
\* shutdown() if it has started, which first closes the listening socket.
Finally(i, end, up, open) ==
  IF ref # None /\ ref \in up
  THEN /\ TaskGoto(i, IF end = "cancelled" THEN "abort" ELSE "shutdown")
       /\ listening' = open \ {ref}
  ELSE /\ TaskGoto(i, IF ref = None THEN "done" ELSE end)
       /\ listening' = open

\* A task not yet begun is dropped; a shutdown is broken off.
Cancel(i) ==
  IF task[i] \in {"startup", "main"}
  THEN Finally(i, "cancelled", started, listening)
  ELSE TaskGoto(i, "cancelled") /\ UNCHANGED listening

Launch(i) ==
  /\ task[i] = "new"
  /\ TaskGoto(i, IF ref = None THEN "done" ELSE "startup")
  /\ on' = [on EXCEPT ![i] = ref]
  /\ UNCHANGED <<fields, hookVars, started, exiting, listening, sweep>>

\* startup() binds the port and sets started, and _serve() goes on.
Bind(i) ==
  LET up == started \cup {on[i]}
      open == listening \cup {on[i]}
  IN
  /\ task[i] = "startup" /\ listening = {}
  /\ started' = up
  /\ IF ref # None /\ ref \notin exiting
     THEN /\ TaskGoto(i, "main")
          /\ on' = [on EXCEPT ![i] = ref]
          /\ listening' = open
     ELSE Finally(i, "done", up, open) /\ UNCHANGED on
  /\ UNCHANGED <<fields, hookVars, exiting, sweep>>

\* The port is taken, by a server of this runner or by another process.
BindFails(i) ==
  /\ task[i] = "startup"
  /\ Finally(i, "done", started, listening)
  /\ UNCHANGED <<fields, hookVars, on, started, exiting, sweep>>

MainOver(i) ==
  /\ task[i] = "main" /\ on[i] \in exiting
  /\ Finally(i, "done", started, listening)
  /\ UNCHANGED <<fields, hookVars, on, started, exiting, sweep>>

\* The last connection is gone.
ShutdownOver(i) ==
  /\ task[i] \in {"shutdown", "abort"}
  /\ TaskGoto(i, IF task[i] = "abort" THEN "cancelled" ELSE "done")
  /\ UNCHANGED <<fields, hookVars, on, started, exiting, listening, sweep>>

\* The sweep, which reads _stop_sweep anew at every turn.
SweepEnds(i) ==
  /\ Sweeping(i) /\ stop
  /\ sweep' = [sweep EXCEPT ![i] = "done"]
  /\ UNCHANGED <<fields, hookVars, taskVars>>

---------------------------------------------------------------------------
(* drain().                                                                *)

\* Variant for the checks: the fields are cleared without waiting.
StopServerAtOnce(c) ==
  /\ sweepRef' = None
  /\ exiting' = exiting \cup ({ref} \ {None})
  /\ Forget /\ End(c)

\* The second half, once the sweep is over.  Awaiting a task of another loop
\* raises at once, which drain swallows.
StopServer(c) ==
  /\ sweepRef' = None
  /\ IF ref = None \/ Over(ref)
     THEN Forget /\ End(c) /\ UNCHANGED exiting
     ELSE /\ exiting' = exiting \cup {ref}
          /\ IF Foreign(c, ref)
             THEN Forget /\ End(c)
             ELSE Goto(c, "server", ref) /\ UNCHANGED ref

\* Variant for the checks: the sweep is left alone.
BeginDrainSilent(c) ==
  /\ UNCHANGED stop
  /\ StopServer(c)

BeginDrain(c) ==
  /\ stop' = TRUE
  /\ IF sweepRef # None /\ Sweeping(sweepRef) /\ ~Foreign(c, sweepRef)
     THEN Goto(c, "sweep", sweepRef) /\ UNCHANGED <<ref, sweepRef, exiting>>
     ELSE StopServer(c)

Drain(c) ==
  /\ Called(c)
  /\ BeginDrain(c)
  /\ UNCHANGED <<crossed, task, on, started, listening, sweep>>

\* A sweep that another drain has cancelled makes this one raise a
\* CancelledError, which nothing here catches.
SweepOver(c) ==
  /\ pc[c] = "sweep"
  /\ \/ sweep[awaits[c]] = "done" /\ StopServer(c)
     \/ sweep[awaits[c]] = "cancelled" /\ End(c) /\ UNCHANGED <<ref, sweepRef, exiting>>
  /\ UNCHANGED <<stop, crossed, task, on, started, listening, sweep>>

\* The timeout: the sweep is cancelled and awaited again.
SweepTimesOut(c) ==
  /\ pc[c] = "sweep" /\ Sweeping(awaits[c])
  /\ sweep' = [sweep EXCEPT ![awaits[c]] = "cancelled"]
  /\ Goto(c, "sweepKill", awaits[c])
  /\ UNCHANGED <<fields, crossed, taskVars>>

SweepKilled(c) ==
  /\ pc[c] = "sweepKill"
  /\ StopServer(c)
  /\ UNCHANGED <<stop, crossed, task, on, started, listening, sweep>>

ServerTimesOut(c) ==
  /\ pc[c] = "server" /\ Alive(awaits[c])
  /\ Cancel(awaits[c])
  /\ Goto(c, "serverKill", awaits[c])
  /\ UNCHANGED <<fields, crossed, on, started, exiting, sweep>>

\* The finally block clears the fields, also when the task was cancelled by
\* another hook and the CancelledError passes through.
ServerOver(c) ==
  /\ pc[c] \in {"server", "serverKill"} /\ Over(awaits[c])
  /\ Forget
  /\ End(c)
  /\ UNCHANGED <<sweepRef, stop, crossed, taskVars, sweep>>

---------------------------------------------------------------------------
(* start().                                                                *)

StartSweep(c) ==
  /\ sweepRef' = c /\ stop' = FALSE
  /\ sweep' = [sweep EXCEPT ![c] = "on"]

\* Variant for the checks: the sweep is armed before the server is looked at.
BeginSweepFirst(c) ==
  /\ StartSweep(c)
  /\ IF ref # None /\ Alive(ref)
     THEN End(c) /\ UNCHANGED <<ref, task>>
     ELSE ref' = c /\ TaskGoto(c, "new") /\ Goto(c, "poll", None)

\* A no-op if the server runs; otherwise a new server, its task and its sweep.
Begin(c) ==
  IF ref # None /\ Alive(ref)
  THEN End(c) /\ UNCHANGED <<fields, task, sweep>>
  ELSE ref' = c /\ TaskGoto(c, "new") /\ StartSweep(c) /\ Goto(c, "poll", None)

Start(c) ==
  /\ Called(c)
  /\ crossed' = (crossed \/ \E d \in Hooks : Clearing(d))
  /\ Begin(c)
  /\ UNCHANGED <<on, started, exiting, listening>>

\* One look at _server: none (an AttributeError, which the hook swallows),
\* listening, or told to exit before it listened.
Poll(c) ==
  /\ pc[c] = "poll"
  /\ \/ (ref = None \/ ref \in started) /\ End(c) /\ UNCHANGED <<task, listening>>
     \/ /\ ref # None /\ ref \in exiting \ started
        /\ IF Alive(ref) THEN Cancel(ref) ELSE UNCHANGED <<task, listening>>
        /\ Goto(c, "reap", ref)
  /\ UNCHANGED <<fields, crossed, on, started, exiting, sweep>>

Reap(c) ==
  /\ pc[c] = "reap" /\ Over(awaits[c])
  /\ Forget
  /\ End(c)
  /\ UNCHANGED <<sweepRef, stop, crossed, taskVars, sweep>>

\* Variant for the checks: start() polls for as long as it takes.
PollForever(c) == pc[c] = "poll" /\ FALSE /\ UNCHANGED vars

\* start() has polled 200 times: it drains, then raises.
PollTimesOut(c) ==
  /\ pc[c] = "poll"
  /\ BeginDrain(c)
  /\ UNCHANGED <<crossed, task, on, started, listening, sweep>>

---------------------------------------------------------------------------
HookStep(c) ==
  \/ Poll(c) \/ Reap(c) \/ PollTimesOut(c)
  \/ SweepOver(c) \/ SweepTimesOut(c) \/ SweepKilled(c)
  \/ ServerTimesOut(c) \/ ServerOver(c)

TaskStep(i) ==
  Launch(i) \/ Bind(i) \/ BindFails(i) \/ MainOver(i) \/ ShutdownOver(i)

Next ==
  \/ \E c \in Hooks : Start(c) \/ Drain(c) \/ HookStep(c)
  \/ \E i \in Hooks : TaskStep(i) \/ SweepEnds(i)

Spec == Init /\ [][Next]_vars

(* The loop runs what is ready and every timer; uvicorn's shutdown ends when
   the connections have closed, which their close timeout bounds. *)
FairSpec ==
  /\ Spec
  /\ \A c \in Hooks : WF_vars(HookStep(c)) /\ WF_vars(TaskStep(c)) /\ WF_vars(SweepEnds(c))

---------------------------------------------------------------------------
TypeOK ==
  /\ {ref, sweepRef} \subseteq Hooks \cup {None}
  /\ stop \in BOOLEAN /\ crossed \in BOOLEAN
  /\ pc \in [Hooks -> HookPcs]
  /\ awaits \in [Hooks -> Hooks \cup {None}]
  /\ task \in [Hooks -> TaskPcs]
  /\ on \in [Hooks -> Hooks \cup {None}]
  /\ started \subseteq Hooks /\ exiting \subseteq Hooks
  /\ listening \subseteq started
  /\ sweep \in [Hooks -> SweepPcs]
  /\ \A i \in Hooks : sweep[i] = "none" <=> task[i] = "none"

\* Unless a start() has crossed a hook that clears the fields, the runner knows
\* every server that is alive, and one that listens is served: none is left
\* behind that nothing can stop.
NoOrphan ==
  ~crossed => \A i \in Hooks :
    /\ Alive(i) => ref = i
    /\ i \in listening => ref = i /\ task[i] = "main"

\* When the runner has forgotten its server, no sweep is left either, or it has
\* been told to stop.
SweepStopsToo ==
  ~crossed /\ ref = None => stop \/ \A i \in Hooks : ~Sweeping(i)

\* Every start() and drain() ends, whatever crosses it.
HooksEnd == \A c \in Hooks : pc[c] # "idle" ~> pc[c] = "done"
===========================================================================
