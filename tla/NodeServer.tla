---------------------------- MODULE NodeServer ----------------------------
(***************************************************************************)
(* The server as its event loop runs it: the /ws/nodes handler of each     *)
(* connection (src/wsserver/server.py, handlers.py), the calls that relay  *)
(* a request over a node's socket and await the reply (the HTTP endpoints  *)
(* of server.py and NodeEnvironment of src/environment.py), and the sweep  *)
(* that closes silent connections (src/lifecycle.py), all on one registry. *)
(*                                                                         *)
(* A step is what one task does between two suspensions.  A task suspends  *)
(* where the code awaits something outside the loop: a receive, a send, a  *)
(* close, a timer or a future.  A send or close on a socket the server has *)
(* already closed raises at once and does not suspend, nor does the next   *)
(* receive_json; a receive already under way when the server closes the    *)
(* socket can still return one message.                                    *)
(***************************************************************************)
EXTENDS NodeRegistry

CONSTANTS EnvCalls,  \* the calls made through NodeEnvironment, not HTTP
          CliNodes   \* the names the operator pairs or revokes meanwhile

ASSUME EnvCallsAssumption == EnvCalls \subseteq Calls
ASSUME CliNodesAssumption == CliNodes \subseteq Nodes

VARIABLES reg,         \* the NodeRegistry
          paired,      \* names with a live token
          pc,          \* where each connection's handler is suspended
          name,        \* node_name each session said hello with
          closed,      \* sockets the server has called close() on
          gone,        \* sockets whose peer or transport is gone
          sweepQueue,  \* candidates of the sweep not reached yet
          sweepBusy,   \* the candidate whose close is being awaited
          callPc,      \* where each call is suspended
          target,      \* node each call asks for
          via,         \* session a call's request frame was written to
          outcome      \* how each call ended

sessionVars == <<pc, name, closed, gone>>
sweepVars   == <<sweepQueue, sweepBusy>>
callVars    == <<callPc, target, via, outcome>>
vars        == <<reg, paired, sessionVars, sweepVars, callVars>>

\* A handler is registered from register() to its finally block.
RegisteredPcs == {"replacing", "authOk", "recv", "pong", "limited", "closing"}
SessionPcs    == {"new", "hello", "auth", "done"} \cup RegisteredPcs
CallPcs       == {"idle", "sending", "waiting", "expired", "done"}
Outcomes      == {"none", "ok", "not_connected", "send_failed", "timeout",
                  "crashed", "cancelled"}

Registered(s) == pc[s] \in RegisteredPcs

Init ==
  /\ reg = EmptyRegistry
  /\ paired = Nodes
  /\ pc = [s \in Sessions |-> "new"]
  /\ name = [s \in Sessions |-> None]
  /\ closed = {} /\ gone = {}
  /\ sweepQueue = {} /\ sweepBusy = None
  /\ callPc = [c \in Calls |-> "idle"]
  /\ target = [c \in Calls |-> None]
  /\ via = [c \in Calls |-> None]
  /\ outcome = [c \in Calls |-> "none"]

---------------------------------------------------------------------------
(* The connection handler.                                                 *)

Goto(s, label) == pc' = [pc EXCEPT ![s] = label]

\* Variant for the checks: no finally block.
LeaveRegistered(s, r) ==
  /\ reg' = r
  /\ Goto(s, "done")
  /\ gone' = gone \cup {s}
  /\ UNCHANGED closed

\* The handler ends: its finally block unregisters, and the server drops the
\* transport of a handler that returned or raised.
Leave(s, r) ==
  /\ reg' = Unregister(r, name[s], s)
  /\ Goto(s, "done")
  /\ gone' = gone \cup {s}
  /\ UNCHANGED closed

\* Back to receive_json, which raises if the server has closed the socket.
Proceed(s, r) ==
  IF s \in closed
  THEN Leave(s, r)
  ELSE reg' = r /\ Goto(s, "recv") /\ UNCHANGED <<closed, gone>>

\* The limiter refuses: notify the node and close, unless both would raise.
Deny(s, r) ==
  IF s \in closed
  THEN Leave(s, r)
  ELSE reg' = r /\ Goto(s, "limited") /\ UNCHANGED <<closed, gone>>

Accept(s) ==
  /\ pc[s] = "new"
  /\ Goto(s, "hello")
  /\ UNCHANGED <<reg, paired, name, closed, gone, sweepVars, callVars>>

\* A valid hello of a compatible major version; hello_ack is sent.
RecvHello(s, n) ==
  /\ pc[s] = "hello"
  /\ name' = [name EXCEPT ![s] = n]
  /\ Goto(s, "auth")
  /\ UNCHANGED <<reg, paired, closed, gone, sweepVars, callVars>>

\* Timeout, disconnect, malformed or unexpected message, version or name
\* mismatch, unknown token: the socket is closed before anything is kept.
Reject(s) ==
  /\ pc[s] \in {"hello", "auth"}
  /\ Goto(s, "done")
  /\ closed' = closed \cup {s}
  /\ UNCHANGED <<reg, paired, name, gone, sweepVars, callVars>>

\* Variant for the checks: the replaced session's socket is left open.
RecvAuthKeepsPrevious(s) ==
  /\ pc[s] = "auth"
  /\ name[s] \in paired
  /\ reg' = Register(reg, name[s], s)
  /\ Goto(s, "authOk")
  /\ UNCHANGED <<paired, name, closed, gone, sweepVars, callVars>>

\* A valid auth.  Registering comes first, then the close of the session it
\* replaces, then auth_ok.
RecvAuth(s) ==
  LET previous == reg.connections[name[s]] IN
  /\ pc[s] = "auth"
  /\ name[s] \in paired
  /\ reg' = Register(reg, name[s], s)
  /\ IF previous = None \/ previous \in closed
     THEN Goto(s, "authOk") /\ UNCHANGED closed
     ELSE Goto(s, "replacing") /\ closed' = closed \cup {previous}
  /\ UNCHANGED <<paired, name, gone, sweepVars, callVars>>

PreviousClosed(s) ==
  /\ pc[s] = "replacing"
  /\ IF s \in closed
     THEN Leave(s, reg)
     ELSE Goto(s, "authOk") /\ UNCHANGED <<reg, closed, gone>>
  /\ UNCHANGED <<paired, name, sweepVars, callVars>>

AuthOkSent(s) ==
  /\ pc[s] = "authOk"
  /\ Proceed(s, reg)
  /\ UNCHANGED <<paired, name, sweepVars, callVars>>

\* Variant for the checks: a receive that only the peer's end wakes.
DisconnectByPeerOnly(s) ==
  /\ pc[s] = "recv"
  /\ s \in gone
  /\ Leave(s, reg)
  /\ UNCHANGED <<paired, name, sweepVars, callVars>>

\* receive_json raises: the socket closed or dropped.
Disconnect(s) ==
  /\ pc[s] = "recv"
  /\ s \in closed \cup gone
  /\ Leave(s, reg)
  /\ UNCHANGED <<paired, name, sweepVars, callVars>>

\* A frame that is not JSON raises before the heartbeat is touched; JSON that
\* is not an object raises after (raw.get).  Both end the handler.
RecvMalformed(s) ==
  /\ pc[s] = "recv"
  /\ \E r \in {reg, TouchHeartbeat(reg, name[s])} : Leave(s, r)
  /\ UNCHANGED <<paired, name, sweepVars, callVars>>

RecvPing(s) ==
  /\ pc[s] = "recv"
  /\ LET r == TouchHeartbeat(reg, name[s]) IN
     IF s \in closed
     THEN Leave(s, r)
     ELSE reg' = r /\ Goto(s, "pong") /\ UNCHANGED <<closed, gone>>
  /\ UNCHANGED <<paired, name, sweepVars, callVars>>

\* The pong is out; the ping still counts against the rate limit.
PongSent(s) ==
  /\ pc[s] = "pong"
  /\ Proceed(s, reg) \/ Deny(s, reg)
  /\ UNCHANGED <<paired, name, sweepVars, callVars>>

\* A reply, possibly late or repeated.  It is looked up by the name of the
\* handler and the request id alone, so it may arrive on any session of the
\* name, a replaced one included; an id is known once its frame was written.
RecvResult(s, c) ==
  /\ pc[s] = "recv"
  /\ via[c] # None
  /\ Proceed(s, CompleteWaiter(TouchHeartbeat(reg, name[s]), name[s], c))
  /\ UNCHANGED <<paired, name, sweepVars, callVars>>

\* Any other object: counted as a heartbeat and dropped.
RecvOther(s) ==
  /\ pc[s] = "recv"
  /\ Proceed(s, TouchHeartbeat(reg, name[s]))
  /\ UNCHANGED <<paired, name, sweepVars, callVars>>

RecvOverLimit(s) ==
  /\ pc[s] = "recv"
  /\ Deny(s, TouchHeartbeat(reg, name[s]))
  /\ UNCHANGED <<paired, name, sweepVars, callVars>>

LimitNotified(s) ==
  /\ pc[s] = "limited"
  /\ IF s \in closed
     THEN Leave(s, reg)
     ELSE /\ closed' = closed \cup {s}
          /\ Goto(s, "closing")
          /\ UNCHANGED <<reg, gone>>
  /\ UNCHANGED <<paired, name, sweepVars, callVars>>

LimitClosed(s) ==
  /\ pc[s] = "closing"
  /\ Leave(s, reg)
  /\ UNCHANGED <<paired, name, sweepVars, callVars>>

---------------------------------------------------------------------------
(* A relayed request.                                                      *)

EndCall(c, result) ==
  /\ callPc' = [callPc EXCEPT ![c] = "done"]
  /\ outcome' = [outcome EXCEPT ![c] = result]

\* get, register_waiter and the start of send_json, with no suspension
\* between them.
StartCall(c, n) ==
  LET conn == reg.connections[n] IN
  /\ callPc[c] = "idle"
  /\ target' = [target EXCEPT ![c] = n]
  /\ CASE conn = None ->
            EndCall(c, "not_connected") /\ UNCHANGED <<reg, via>>
       [] conn # None /\ conn \in closed ->
            /\ reg' = UnregisterWaiter(RegisterWaiter(reg, n, c), n, c)
            /\ EndCall(c, "send_failed")
            /\ UNCHANGED via
       [] OTHER ->
            /\ reg' = RegisterWaiter(reg, n, c)
            /\ via' = [via EXCEPT ![c] = conn]
            /\ callPc' = [callPc EXCEPT ![c] = "sending"]
            /\ UNCHANGED outcome
  /\ UNCHANGED <<paired, sessionVars, sweepVars>>

\* wait_for returns the future's result or raises its exception.  The HTTP
\* endpoints catch Exception, which _WaiterCancelled is not.
Settle(c) ==
  EndCall(c, IF reg.future[c] = "result" THEN "ok"
             ELSE IF c \in EnvCalls THEN "not_connected" ELSE "crashed")

SendDone(c) ==
  /\ callPc[c] = "sending"
  /\ IF reg.future[c] = "pending"
     THEN callPc' = [callPc EXCEPT ![c] = "waiting"] /\ UNCHANGED outcome
     ELSE Settle(c)
  /\ UNCHANGED <<reg, paired, target, via, sessionVars, sweepVars>>

SendFailed(c) ==
  /\ callPc[c] = "sending"
  /\ via[c] \in closed \cup gone
  /\ reg' = UnregisterWaiter(reg, target[c], c)
  /\ EndCall(c, "send_failed")
  /\ UNCHANGED <<paired, target, via, sessionVars, sweepVars>>

Resume(c) ==
  /\ callPc[c] = "waiting"
  /\ reg.future[c] \in {"result", "lost"}
  /\ Settle(c)
  /\ UNCHANGED <<reg, paired, target, via, sessionVars, sweepVars>>

\* Variant for the checks: the future is awaited without a timeout.
NoTimer(c) == callPc[c] = "waiting" /\ FALSE /\ UNCHANGED vars

\* wait_for's timer fires: it cancels the future, and the task resumes later.
\* A result that arrived in the same turn of the loop may still be dropped.
TimerFires(c) ==
  /\ callPc[c] = "waiting"
  /\ reg' = CancelFuture(reg, c)
  /\ callPc' = [callPc EXCEPT ![c] = "expired"]
  /\ UNCHANGED <<paired, target, via, outcome, sessionVars, sweepVars>>

TimedOut(c) ==
  /\ callPc[c] = "expired"
  /\ reg' = UnregisterWaiter(reg, target[c], c)
  /\ EndCall(c, "timeout")
  /\ UNCHANGED <<paired, target, via, sessionVars, sweepVars>>

\* The task that awaits NodeEnvironment is cancelled.  No handler there
\* catches CancelledError, so the waiter table keeps the key.
CancelCaller(c) ==
  /\ c \in EnvCalls
  /\ callPc[c] \in {"sending", "waiting", "expired"}
  /\ reg' = IF callPc[c] = "waiting" THEN CancelFuture(reg, c) ELSE reg
  /\ EndCall(c, "cancelled")
  /\ UNCHANGED <<paired, target, via, sessionVars, sweepVars>>

---------------------------------------------------------------------------
(* The stale-connection sweep.                                             *)

\* Variant for the checks: the candidates are logged but not closed.
SweepSkips(candidates) ==
  sweepQueue' = {} /\ sweepBusy' = None /\ UNCHANGED closed

\* Candidates already closed are passed over without suspending; the close of
\* the next one is awaited.  The snapshot's order is left open.
SweepOn(candidates) ==
  LET live == candidates \ closed IN
  IF live = {}
  THEN sweepQueue' = {} /\ sweepBusy' = None /\ UNCHANGED closed
  ELSE \E s \in live : /\ sweepQueue' = live \ {s}
                       /\ sweepBusy' = s
                       /\ closed' = closed \cup {s}

SweepTick ==
  /\ sweepBusy = None
  /\ Stale(reg) # {}
  /\ SweepOn(Stale(reg))
  /\ UNCHANGED <<reg, paired, pc, name, gone, callVars>>

SweepClosed ==
  /\ sweepBusy # None
  /\ SweepOn(sweepQueue)
  /\ UNCHANGED <<reg, paired, pc, name, gone, callVars>>

---------------------------------------------------------------------------
(* The environment: the clock, the peers, the operator's CLI.              *)

HeartbeatLapses(n) ==
  /\ IsConnected(reg, n) /\ n \notin reg.overdue
  /\ reg' = [reg EXCEPT !.overdue = @ \cup {n}]
  /\ UNCHANGED <<paired, sessionVars, sweepVars, callVars>>

PeerGone(s) ==
  /\ pc[s] \notin {"new", "done"}
  /\ s \notin gone
  /\ gone' = gone \cup {s}
  /\ UNCHANGED <<reg, paired, pc, name, closed, sweepVars, callVars>>

Pair(n) ==
  /\ n \in CliNodes \ paired
  /\ paired' = paired \cup {n}
  /\ UNCHANGED <<reg, sessionVars, sweepVars, callVars>>

Revoke(n) ==
  /\ n \in CliNodes \cap paired
  /\ paired' = paired \ {n}
  /\ UNCHANGED <<reg, sessionVars, sweepVars, callVars>>

---------------------------------------------------------------------------
SessionStep(s) ==
  \/ Accept(s) \/ (\E n \in Nodes : RecvHello(s, n)) \/ Reject(s)
  \/ RecvAuth(s) \/ PreviousClosed(s) \/ AuthOkSent(s)
  \/ Disconnect(s) \/ RecvMalformed(s) \/ RecvPing(s) \/ PongSent(s)
  \/ (\E c \in Calls : RecvResult(s, c)) \/ RecvOther(s)
  \/ RecvOverLimit(s) \/ LimitNotified(s) \/ LimitClosed(s)

CallStep(c) ==
  \/ (\E n \in Nodes : StartCall(c, n))
  \/ SendDone(c) \/ SendFailed(c) \/ Resume(c)
  \/ TimerFires(c) \/ TimedOut(c) \/ CancelCaller(c)

SweepStep == SweepTick \/ SweepClosed

EnvironmentStep ==
  \/ \E n \in Nodes : HeartbeatLapses(n) \/ Pair(n) \/ Revoke(n)
  \/ \E s \in Sessions : PeerGone(s)

Next ==
  \/ \E s \in Sessions : SessionStep(s)
  \/ \E c \in Calls : CallStep(c)
  \/ SweepStep
  \/ EnvironmentStep

Spec == Init /\ [][Next]_vars

(* A handler is resumed when what it awaits is over: uvicorn's keepalive and
   close timeout bound every send and close, wait_for bounds both handshake
   receives, and the frames queued before a disconnect are finitely many. *)
SessionFairness(s) ==
  /\ WF_vars(Reject(s) \/ RecvAuth(s) \/ \E n \in Nodes : RecvHello(s, n))
  /\ WF_vars(PreviousClosed(s))
  /\ WF_vars(AuthOkSent(s))
  /\ WF_vars(PongSent(s))
  /\ WF_vars(LimitNotified(s))
  /\ WF_vars(LimitClosed(s))
  /\ SF_vars(Disconnect(s))

(* The same bound on a request's send; the loop runs woken tasks and timers. *)
CallFairness(c) ==
  /\ WF_vars(SendDone(c) \/ SendFailed(c))
  /\ WF_vars(Resume(c))
  /\ WF_vars(TimerFires(c))
  /\ WF_vars(TimedOut(c))

(* The sweep loop never stops before the server does. *)
SweepFairness ==
  /\ WF_vars(SweepTick)
  /\ WF_vars(SweepClosed)

Fairness ==
  /\ \A s \in Sessions : SessionFairness(s)
  /\ \A c \in Calls : CallFairness(c)
  /\ SweepFairness

FairSpec == Spec /\ Fairness

---------------------------------------------------------------------------
TypeOK ==
  /\ reg \in Registry
  /\ paired \in SUBSET Nodes
  /\ pc \in [Sessions -> SessionPcs]
  /\ name \in [Sessions -> Nodes \cup {None}]
  /\ closed \in SUBSET Sessions
  /\ gone \in SUBSET Sessions
  /\ sweepQueue \in SUBSET Sessions
  /\ sweepBusy \in Sessions \cup {None}
  /\ callPc \in [Calls -> CallPcs]
  /\ target \in [Calls -> Nodes \cup {None}]
  /\ via \in [Calls -> Sessions \cup {None}]
  /\ outcome \in [Calls -> Outcomes]

InFlight(c) == callPc[c] \in {"sending", "waiting", "expired"}

\* The slot of a name is held by a handler of that very name which has not
\* reached its finally block: no entry outlives its handler.
SlotHeldByHandler ==
  \A n \in Nodes : IsConnected(reg, n) =>
    /\ Registered(reg.connections[n])
    /\ name[reg.connections[n]] = n

\* A handler that is registered but has lost its slot has had its socket
\* closed: a replaced session is never left open beside its successor.
NoPhantomSession ==
  \A s \in Sessions :
    Registered(s) /\ reg.connections[name[s]] # s => s \in closed

\* Every key of the waiter table belongs to a request written to the session
\* that holds the slot now, so whatever ends that session reaches it.
WaitersOfHolder ==
  \A n \in Nodes, c \in Calls :
    <<n, c>> \in reg.waiters =>
      /\ target[c] = n
      /\ via[c] = reg.connections[n]

\* A caller that is still waiting can still be woken: its future is keyed in
\* the table, and the session it was sent on still holds the slot.
PendingOnHolder ==
  \A c \in Calls :
    callPc[c] \in {"sending", "waiting"} /\ reg.future[c] = "pending" =>
      /\ <<target[c], c>> \in reg.waiters
      /\ reg.connections[target[c]] = via[c]

\* No key outlives its request, except that of a cancelled caller.
WaiterHasOwner ==
  \A n \in Nodes, c \in Calls :
    <<n, c>> \in reg.waiters =>
      InFlight(c) \/ (callPc[c] = "done" /\ outcome[c] = "cancelled")

---------------------------------------------------------------------------
\* A slot is emptied only by the handler that holds it, on its way out: the
\* late finally block of a replaced session never evicts its successor.
SlotReleasedByOwner ==
  [][\A n \in Nodes :
       IsConnected(reg, n) /\ ~IsConnected(reg', n) =>
         pc'[reg.connections[n]] = "done"]_vars

\* A request is answered only from a frame received under its node's own name,
\* and only while the session it was written to holds the slot: no other
\* node's reply completes it, and none that comes after it was lost.
AnsweredUnderName ==
  [][\A c \in Calls :
       reg.future[c] = "pending" /\ reg'.future[c] = "result" =>
         /\ \E s \in Sessions : pc[s] = "recv" /\ name[s] = target[c]
         /\ reg.connections[target[c]] = via[c]]_vars

\* A request is failed as lost only when its session loses the slot: the end
\* of an older session never fails the requests of the current one.
LostOnlyWithSession ==
  [][\A c \in Calls :
       reg.future[c] = "pending" /\ reg'.future[c] = "lost" =>
         /\ reg.connections[target[c]] = via[c]
         /\ reg'.connections[target[c]] # via[c]]_vars

\* Every request ends, whatever becomes of its node.
CallsEnd == \A c \in Calls : InFlight(c) ~> callPc[c] = "done"

\* A registered session whose socket closed or dropped is unregistered.
DeadSessionLeaves ==
  \A s \in Sessions :
    Registered(s) /\ s \in closed \cup gone ~> pc[s] = "done"

\* A silent node does not stay in the table: it speaks or is swept.
SilentNodeSwept == \A n \in Nodes : n \in reg.overdue ~> n \notin reg.overdue

---------------------------------------------------------------------------
(* How the server's state appears to a caller.                             *)

Phase(c) ==
  CASE callPc[c] = "idle" -> "idle"
    [] callPc[c] = "expired" -> "gave_up"
    [] callPc[c] = "done" ->
         CASE outcome[c] = "ok" -> "ok"
           [] outcome[c] \in {"not_connected", "crashed"} -> "unreachable"
           [] OTHER -> "gave_up"
    [] OTHER ->
         CASE reg.future[c] = "pending" -> "open"
           [] reg.future[c] = "result" -> "answered"
           [] OTHER -> "lost"

Contract == INSTANCE RequestContract
  WITH holder <- reg.connections, phase <- [c \in Calls |-> Phase(c)],
       node <- target, session <- via

\* The server keeps the contract: each of its steps is a step of
\* RequestContract or changes nothing a caller can observe.
KeepsContract == Contract!Spec
===========================================================================
