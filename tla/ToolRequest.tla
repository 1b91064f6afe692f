---------------------------- MODULE ToolRequest ----------------------------
(***************************************************************************)
(* The agent's tools node_exec, node_read and node_write (src/tools.py):   *)
(* an HTTP request to the server with a timeout, sent again with           *)
(* exponential backoff when the failure looks transient.                   *)
(*                                                                         *)
(* The server is RequestContract, one request of it per attempt: it gives  *)
(* the tool an answer ("ok"), a refusal or loss ("unreachable": a body     *)
(* with code 404 whose reason says "not connected", or the plain 500 of an *)
(* endpoint that crashed, which is not JSON), or an error whose body does  *)
(* not say so ("gave_up": its own timeout, a failed send).                 *)
(*                                                                         *)
(* Time is counted in units.  The clock does not pass a timer that is due, *)
(* a response that is ready or a task that can run: the loop and the       *)
(* loopback connection take no time.  The send of a frame to the node may  *)
(* take any time, and the endpoint's timer starts only when it is over.    *)
(***************************************************************************)
EXTENDS Integers

CONSTANTS Nodes, Sessions, None,
          Tools,            \* calls of the three tools
          MaxRetries,       \* max_retries
          Timeouts,         \* the values of timeout_ms an agent may pass
          ExitCodes,        \* with what a command may end
          Slack,            \* what the tool adds to its timeout: 5 s
          ToolDefault,      \* DEFAULT_EXEC_TIMEOUT_SECONDS: 60 s
          EndpointDefault,  \* the endpoints' 30 s
          Backoff,          \* retry_backoff_seconds
          BackoffCap        \* the longest pause: 30 s

Attempts == Tools \X (0..MaxRetries)

\* The fields of a node's result that matter here.
Results == [status : {"ok"}, exit_code : ExitCodes] \cup [status : {"error"}]

ASSUME ToolAssumption ==
  /\ MaxRetries \in Nat
  /\ Timeouts \subseteq Nat \ {0}
  /\ {Slack, ToolDefault, EndpointDefault, Backoff, BackoffCap} \subseteq Nat \ {0}
  /\ None \notin Timeouts \cup Sessions \cup Results

VARIABLES holder, phase, node, session,  \* the server: see RequestContract
          retired,  \* sessions that have held a name: none does so twice
          sending,  \* requests whose frame the endpoint is still sending
          held,     \* how long that took, counted up to Margin
          age,      \* how long the endpoint of each has waited for the reply
          ran,      \* requests their node has carried out
          result,   \* what the node answered to each
          pc,       \* where each tool call stands
          tries,    \* number of the attempt it is at, from 0
          target,   \* the node it is about
          kind,     \* "exec", or "transfer" for node_read and node_write
          timeout,  \* timeout_ms it was called with, or None
          elapsed,  \* time since it sent its request or began to pause
          report    \* what it told the agent

serverVars == <<holder, phase, node, session>>
nodeVars   == <<retired, ran, result>>
toolVars   == <<pc, tries, target, kind, timeout, report>>
sendVars   == <<sending, held, age>>
vars       == <<serverVars, nodeVars, toolVars, sendVars, elapsed>>

Server == INSTANCE RequestContract WITH Calls <- Attempts

Reports == {"none", "success", "failure", "unreachable", "error"}
Final   == {"ok", "unreachable", "gave_up"}

Current(t) == <<t, tries[t]>>
InFlight(a) == phase[a] \in {"open", "answered", "lost"}
Refused(a)  == phase[a] = "unreachable" /\ session[a] = None  \* the 404
Crashed(a)  == phase[a] = "unreachable" /\ session[a] # None  \* the plain 500

\* The endpoint of exec takes the tool's timeout, the other two do not.
EndpointTimeout(a) ==
  IF kind[a[1]] = "exec" /\ timeout[a[1]] # None THEN timeout[a[1]] ELSE EndpointDefault

ClientTimeout(t) ==
  (IF timeout[t] # None THEN timeout[t] ELSE ToolDefault) + Slack

\* How long a send may take for the endpoint's timer to end before the tool's,
\* and whether it took longer.  For a transfer whose timeout_ms is 25 seconds
\* or less no send is short enough.
Margin(a) == ClientTimeout(a[1]) - EndpointTimeout(a)
Stuck(a)  == held[a] >= Margin(a)

\* Variant for the checks: the pause is not capped.
DelayUncapped(k) == Backoff * 2^k

Delay(k) == LET d == Backoff * 2^k IN IF d < BackoffCap THEN d ELSE BackoffCap

Init ==
  /\ Server!Init
  /\ retired = {} /\ ran = {}
  /\ result = [a \in Attempts |-> None]
  /\ sending = {}
  /\ held = [a \in Attempts |-> 0]
  /\ age = [a \in Attempts |-> 0]
  /\ pc = [t \in Tools |-> "idle"]
  /\ tries = [t \in Tools |-> 0]
  /\ target = [t \in Tools |-> None]
  /\ kind = [t \in Tools |-> "exec"]
  /\ timeout = [t \in Tools |-> None]
  /\ elapsed = [t \in Tools |-> 0]
  /\ report = [t \in Tools |-> "none"]

---------------------------------------------------------------------------
(* The tool.                                                               *)

End(t, r) ==
  /\ pc' = [pc EXCEPT ![t] = "done"]
  /\ report' = [report EXCEPT ![t] = r]

\* A failure that looks transient: pause, unless this was the last attempt.
TryAgain(t, r) ==
  IF tries[t] < MaxRetries
  THEN pc' = [pc EXCEPT ![t] = "pause"] /\ UNCHANGED report
  ELSE End(t, r)

\* The request reaches the server, whose endpoint runs up to its first
\* suspension: the node is looked up and the frame handed to its socket.  Or
\* no server listens, and the connection is refused.
Send(t, k, n) ==
  /\ \/ Server!Accept(<<t, k>>, n) /\ sending' = sending \cup {<<t, k>>}
     \/ /\ \/ Server!Refuse(<<t, k>>, n)
           \/ Server!Fail(<<t, k>>, n)
           \/ UNCHANGED serverVars
        /\ UNCHANGED sending
  /\ pc' = [pc EXCEPT ![t] = "wait"]
  /\ tries' = [tries EXCEPT ![t] = k]
  /\ elapsed' = [elapsed EXCEPT ![t] = 0]
  /\ UNCHANGED <<nodeVars, held, age, report>>

Call(t, n, k, limit) ==
  /\ pc[t] = "idle"
  /\ target' = [target EXCEPT ![t] = n]
  /\ kind' = [kind EXCEPT ![t] = k]
  /\ timeout' = [timeout EXCEPT ![t] = limit]
  /\ Send(t, 0, n)

\* Variant for the checks: the attempts are not counted.
RetryUncounted(t) ==
  /\ pc[t] = "pause" /\ elapsed[t] = Delay(tries[t])
  /\ Send(t, tries[t], target[t])
  /\ UNCHANGED <<target, kind, timeout>>

Retry(t) ==
  /\ pc[t] = "pause" /\ elapsed[t] = Delay(tries[t])
  /\ Send(t, tries[t] + 1, target[t])
  /\ UNCHANGED <<target, kind, timeout>>

\* dict.get with a default.
Get(r, key, default) == IF key \in DOMAIN r THEN r[key] ELSE default

\* What the tool makes of the node's result.  The endpoint has wrapped it in a
\* body of status "ok", and the status of the result itself is not looked at.
Reported(t, r) ==
  IF kind[t] = "transfer" \/ Get(r, "returncode", 0) = 0 THEN "success" ELSE "failure"

\* Variants for the checks: every failure is sent again; the status of the
\* body is not looked at.
ReceiveAnyFailure(t) ==
  /\ pc[t] = "wait"
  /\ \/ phase[Current(t)] = "ok" /\ End(t, Reported(t, result[Current(t)]))
     \/ phase[Current(t)] \notin {"open", "answered", "lost", "ok"}
           /\ TryAgain(t, "unreachable")
  /\ elapsed' = [elapsed EXCEPT ![t] = 0]
  /\ UNCHANGED <<serverVars, nodeVars, sendVars, tries, target, kind, timeout>>

ReceiveAnyBody(t) ==
  /\ pc[t] = "wait"
  /\ \/ phase[Current(t)] \in {"ok", "gave_up"} /\ End(t, "success")
     \/ phase[Current(t)] = "unreachable" /\ TryAgain(t, "unreachable")
  /\ elapsed' = [elapsed EXCEPT ![t] = 0]
  /\ UNCHANGED <<serverVars, nodeVars, sendVars, tries, target, kind, timeout>>

Receive(t) ==
  /\ pc[t] = "wait"
  /\ \/ phase[Current(t)] = "ok" /\ End(t, Reported(t, result[Current(t)]))
     \/ phase[Current(t)] = "gave_up" /\ End(t, "error")
     \/ Refused(Current(t)) /\ TryAgain(t, "unreachable")
     \/ Crashed(Current(t)) /\ TryAgain(t, "error")
     \/ phase[Current(t)] = "idle" /\ TryAgain(t, "error")
  /\ elapsed' = [elapsed EXCEPT ![t] = 0]
  /\ UNCHANGED <<serverVars, nodeVars, sendVars, tries, target, kind, timeout>>

\* Variant for the checks: httpx is given the timeout without the slack.
ClientTimesOutEarly(t) ==
  /\ pc[t] = "wait" /\ elapsed[t] = ClientTimeout(t) - Slack
  /\ TryAgain(t, "error")
  /\ elapsed' = [elapsed EXCEPT ![t] = 0]
  /\ UNCHANGED <<serverVars, nodeVars, sendVars, tries, target, kind, timeout>>

\* httpx raises; the endpoint goes on, for nothing tells it.
ClientTimesOut(t) ==
  /\ pc[t] = "wait" /\ elapsed[t] = ClientTimeout(t)
  /\ TryAgain(t, "error")
  /\ elapsed' = [elapsed EXCEPT ![t] = 0]
  /\ UNCHANGED <<serverVars, nodeVars, sendVars, tries, target, kind, timeout>>

---------------------------------------------------------------------------
(* The server and the nodes.                                               *)

\* A node connects, is replaced or goes; each connection registers once.
Hold(n, s) ==
  /\ s \notin retired
  /\ Server!Hold(n, s)
  /\ retired' = retired \cup ({s} \ {None})
  /\ UNCHANGED <<ran, result, toolVars, sendVars, elapsed>>

\* The node carries out a frame it was sent, however late it gets it.
Run(a) ==
  /\ session[a] # None /\ a \notin ran
  /\ ran' = ran \cup {a}
  /\ UNCHANGED <<serverVars, retired, result, toolVars, sendVars, elapsed>>

\* It answers what it has carried out, perhaps with its last frame.
Answer(a, r) ==
  /\ a \in ran
  /\ Server!Answer(a) \/ Server!AnswerAndRelease(node[a], a)
  /\ result' = [result EXCEPT ![a] = r]
  /\ UNCHANGED <<retired, ran, toolVars, sendVars, elapsed>>

\* The send is over: the endpoint begins to wait, with its timer.
FrameSent(a) ==
  /\ a \in sending
  /\ sending' = sending \ {a}
  /\ UNCHANGED <<serverVars, nodeVars, toolVars, held, age, elapsed>>

\* The send fails after all, though the node may have the frame.
SendFails(a) ==
  /\ a \in sending
  /\ Server!GiveUp(a)
  /\ sending' = sending \ {a}
  /\ UNCHANGED <<nodeVars, toolVars, held, age, elapsed>>

Return(a) ==
  /\ a \notin sending
  /\ Server!Return(a)
  /\ age' = [age EXCEPT ![a] = 0]
  /\ UNCHANGED <<nodeVars, toolVars, sending, held, elapsed>>

EndpointGivesUp(a) ==
  /\ a \notin sending
  /\ phase[a] = "open" /\ age[a] = EndpointTimeout(a)
  /\ Server!GiveUp(a)
  /\ age' = [age EXCEPT ![a] = 0]
  /\ UNCHANGED <<nodeVars, toolVars, sending, held, elapsed>>

---------------------------------------------------------------------------
\* Nothing is due: neither a task that can run nor a timer.
Idle ==
  /\ \A a \in Attempts : InFlight(a) /\ a \notin sending =>
       phase[a] = "open" /\ age[a] < EndpointTimeout(a)
  /\ \A t \in Tools :
       /\ pc[t] = "wait" => InFlight(Current(t)) /\ elapsed[t] < ClientTimeout(t)
       /\ pc[t] = "pause" => elapsed[t] < Delay(tries[t])

Tick ==
  /\ Idle
  /\ \E t \in Tools : pc[t] \in {"wait", "pause"}
  /\ held' = [a \in Attempts |->
                IF a \in sending /\ ~Stuck(a) THEN held[a] + 1 ELSE held[a]]
  /\ age' = [a \in Attempts |->
               IF InFlight(a) /\ a \notin sending THEN age[a] + 1 ELSE 0]
  /\ elapsed' = [t \in Tools |->
                   IF pc[t] \in {"wait", "pause"} THEN elapsed[t] + 1 ELSE 0]
  /\ UNCHANGED <<serverVars, nodeVars, toolVars, sending>>

ToolStep(t) ==
  \/ \E n \in Nodes, k \in {"exec", "transfer"}, limit \in Timeouts \cup {None} :
       Call(t, n, k, limit)
  \/ Retry(t) \/ Receive(t) \/ ClientTimesOut(t)

ServerStep(a) == FrameSent(a) \/ SendFails(a) \/ Return(a) \/ EndpointGivesUp(a)

NodeStep ==
  \/ \E n \in Nodes, s \in Sessions \cup {None} : Hold(n, s)
  \/ \E a \in Attempts : Run(a) \/ \E r \in Results : Answer(a, r)

Next ==
  \/ \E t \in Tools : ToolStep(t)
  \/ \E a \in Attempts : ServerStep(a)
  \/ NodeStep
  \/ Tick

Spec == Init /\ [][Next]_vars

(* Tools and endpoints run on, and so does the clock; a send may never end. *)
FairSpec ==
  /\ Spec
  /\ \A t \in Tools : WF_vars(Retry(t)) /\ WF_vars(Receive(t)) /\ WF_vars(ClientTimesOut(t))
  /\ \A a \in Attempts : WF_vars(Return(a)) /\ WF_vars(EndpointGivesUp(a))
  /\ WF_vars(Tick)

---------------------------------------------------------------------------
TypeOK ==
  /\ holder \in [Nodes -> Sessions \cup {None}]
  /\ phase \in [Attempts -> {"idle", "open", "answered", "lost"} \cup Final]
  /\ node \in [Attempts -> Nodes \cup {None}]
  /\ session \in [Attempts -> Sessions \cup {None}]
  /\ retired \in SUBSET Sessions
  /\ sending \in SUBSET Attempts
  /\ held \in [Attempts -> Nat]
  /\ age \in [Attempts -> Nat]
  /\ \A a \in Attempts : age[a] <= EndpointTimeout(a)
  /\ ran \in SUBSET Attempts
  /\ result \in [Attempts -> Results \cup {None}]
  /\ pc \in [Tools -> {"idle", "wait", "pause", "done"}]
  /\ tries \in [Tools -> 0..MaxRetries]
  /\ target \in [Tools -> Nodes \cup {None}]
  /\ kind \in [Tools -> {"exec", "transfer"}]
  /\ timeout \in [Tools -> Timeouts \cup {None}]
  /\ elapsed \in [Tools -> Nat]
  /\ \A t \in Tools : pc[t] = "pause" => elapsed[t] <= BackoffCap
  /\ report \in [Tools -> Reports]

\* A request is sent again only when server or node could not be reached: never
\* after an answer and never while the endpoint still waits or after its
\* timeout, when the node may be at work on it.  Except of a send that was
\* stuck, which leaves the endpoint behind the tool.
RepeatedOnlyIfUnreachable ==
  \A t \in Tools, k \in 0..MaxRetries :
    k < tries[t] /\ ~Stuck(<<t, k>>) => phase[<<t, k>>] \in {"idle", "unreachable"}

\* A node may carry out one call twice, but never twice on one connection,
\* unless the send of the earlier attempt was stuck.
RerunOnOtherSession ==
  \A a, b \in ran :
    a[1] = b[1] /\ a[2] < b[2] /\ ~Stuck(a) => session[a] # session[b]

\* What the agent is told has its grounds.  It hears of success or failure only
\* if the node carried out the attempt the tool was waiting for, and its reply
\* to that attempt arrived; that the node is unreachable only if the name had
\* no session at the last of all attempts; of another error only after all
\* attempts, or when the server gave up.
ReportHasGrounds ==
  \A t \in Tools : LET a == Current(t) IN
    /\ report[t] \in {"success", "failure"} =>
         a \in ran /\ phase[a] = "ok" /\ result[a] # None
    /\ report[t] = "unreachable" => tries[t] = MaxRetries /\ Refused(a)
    /\ report[t] = "error" => tries[t] = MaxRetries \/ phase[a] = "gave_up"

\* Every tool call ends, whatever the node does.
ToolsEnd == \A t \in Tools : pc[t] = "wait" ~> pc[t] = "done"
===========================================================================
