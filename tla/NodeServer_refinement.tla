----------------------- MODULE NodeServer_refinement -----------------------
(***************************************************************************)
(* What a step of NodeServer may do, for every set of names, sessions and  *)
(* calls: the action properties, and that each step is a step of           *)
(* RequestContract or changes nothing a caller can observe.  All of it     *)
(* from the inductive invariant of NodeServer_proofs.                      *)
(***************************************************************************)
EXTENDS NodeServer_proofs

(***************************************************************************)
(* The kinds of steps.                                                     *)
(***************************************************************************)

\* What a handler has done to the registry on one message: nothing a caller
\* notices, or one waiter of its own slot has been given its result.
Heard(s, r) ==
  /\ Mild(r)
  /\ \A c \in Calls : r.future[c] # reg.future[c] =>
       pc[s] = "recv" /\ <<name[s], c>> \in reg.waiters
  /\ \A c, d \in Calls :
       r.future[c] # reg.future[c] /\ r.future[d] # reg.future[d] => c = d

\* A call that has not begun has no session.
Unsent == \A c \in Calls : callPc[c] = "idle" => via[c] = None

ContractInv == IndInv /\ Unsent

\* On a message the handler has heard nothing, a heartbeat or a reply.
LEMMA MessagesAreHeard ==
  ASSUME IndInv, NEW s \in Sessions, Registered(s)
  PROVE  /\ Heard(s, reg)
         /\ Heard(s, TouchHeartbeat(reg, name[s]))
         /\ \A c \in Calls : pc[s] = "recv" =>
              Heard(s, CompleteWaiter(TouchHeartbeat(reg, name[s]), name[s], c))
<1>1. name[s] \in Nodes /\ reg \in Registry
  BY DEF IndInv, TypeOK, Named, Registered
<1> DEFINE n == name[s]
           t == TouchHeartbeat(reg, n)
<1> HIDE DEF n
<1>2. n \in Nodes
  BY <1>1 DEF n
<1>3. Mild(reg) /\ Mild(t) /\ \A c \in Calls : Mild(CompleteWaiter(t, n, c))
  BY <1>2, MessagesAreMild
<1>4. /\ t \in Registry
      /\ t.waiters = reg.waiters
      /\ t.future = reg.future
  BY <1>1, <1>2, TouchFields
<1> HIDE DEF t
<1>5. Heard(s, reg) /\ Heard(s, t)
  BY <1>3, <1>4 DEF Heard
<1>6. ASSUME NEW c \in Calls, pc[s] = "recv"
      PROVE  Heard(s, CompleteWaiter(t, n, c))
  <2> DEFINE q == CompleteWaiter(t, n, c)
  <2>1. q.future = [reg.future EXCEPT ![c] =
                      IF <<n, c>> \in reg.waiters /\ reg.future[c] = "pending"
                      THEN "result" ELSE reg.future[c]]
    BY <1>2, <1>4, CompleteFields
  <2>2. Mild(q)
    BY <1>3
  <2> HIDE DEF q
  <2>3. reg.future \in [Calls -> FutureStates]
    BY <1>1 DEF Registry
  <2>4. \A d \in Calls : q.future[d] # reg.future[d] =>
          d = c /\ <<n, c>> \in reg.waiters
    BY <2>1, <2>3
  <2>5. Heard(s, q)
    BY <1>6, <2>2, <2>4 DEF Heard, n
  <2> QED
    BY <2>5 DEF q
<1> QED
  BY <1>5, <1>6 DEF t, n

\* A step of a handler leaves the registry alone, registers, or hears a
\* message and stays or leaves.
LEMMA SessionStepKinds ==
  ASSUME IndInv, NEW s \in Sessions, SessionStep(s)
  PROVE  /\ UNCHANGED callVars
         /\ \/ reg' = reg
            \/ RecvAuth(s)
            \/ /\ Registered(s)
               /\ \E r \in Registry : Heard(s, r) /\ (reg' = r \/ Leave(s, r))
<1>1. UNCHANGED callVars
  BY DEF SessionStep, Accept, RecvHello, Reject, RecvAuth, PreviousClosed,
         AuthOkSent, Disconnect, RecvMalformed, RecvPing, PongSent, RecvResult,
         RecvOther, RecvOverLimit, LimitNotified, LimitClosed
<1> DEFINE Kind == \/ reg' = reg
                   \/ RecvAuth(s)
                   \/ /\ Registered(s)
                      /\ \E r \in Registry : Heard(s, r) /\ (reg' = r \/ Leave(s, r))
<1> SUFFICES Kind
  BY <1>1
<1>2. CASE Accept(s) \/ Reject(s) \/ RecvAuth(s) \/ \E n \in Nodes : RecvHello(s, n)
  BY <1>2 DEF Accept, Reject, RecvHello
<1>3. ASSUME NEW r, Registered(s), Heard(s, r),
             reg' = r \/ Leave(s, r) \/ Proceed(s, r) \/ Deny(s, r)
      PROVE  Kind
  <2>1. reg' = r \/ Leave(s, r)
    BY <1>3 DEF Proceed, Deny
  <2>2. r \in Registry
    BY <1>3 DEF Heard, Mild
  <2> QED
    BY <1>3, <2>1, <2>2
<1>4. CASE PreviousClosed(s) \/ AuthOkSent(s) \/ Disconnect(s) \/ PongSent(s)
           \/ LimitNotified(s) \/ LimitClosed(s)
  <2>1. Registered(s)
    BY <1>4 DEF PreviousClosed, AuthOkSent, Disconnect, PongSent, LimitNotified,
                LimitClosed, Registered, RegisteredPcs
  <2>2. reg' = reg \/ Leave(s, reg) \/ Proceed(s, reg) \/ Deny(s, reg)
    BY <1>4 DEF PreviousClosed, AuthOkSent, Disconnect, PongSent, LimitNotified,
                LimitClosed
  <2> QED
    BY <1>3, <2>1, <2>2, MessagesAreHeard
<1>5. CASE RecvMalformed(s) \/ RecvPing(s) \/ RecvOther(s) \/ RecvOverLimit(s)
  <2> DEFINE t == TouchHeartbeat(reg, name[s])
  <2>1. Registered(s)
    BY <1>5 DEF RecvMalformed, RecvPing, RecvOther, RecvOverLimit, Registered,
                RegisteredPcs
  <2>2. PICK r \in {reg, t} : reg' = r \/ Leave(s, r) \/ Proceed(s, r) \/ Deny(s, r)
    BY <1>5 DEF RecvMalformed, RecvPing, RecvOther, RecvOverLimit
  <2>3. Heard(s, r)
    BY <2>1, MessagesAreHeard
  <2> HIDE DEF Kind
  <2> QED
    BY <1>3, <2>1, <2>2, <2>3
<1>6. ASSUME NEW c \in Calls, RecvResult(s, c) PROVE Kind
  <2> DEFINE r == CompleteWaiter(TouchHeartbeat(reg, name[s]), name[s], c)
  <2>1. /\ Registered(s) /\ pc[s] = "recv"
        /\ Proceed(s, r)
    BY <1>6 DEF RecvResult, Registered, RegisteredPcs
  <2>2. Heard(s, r)
    BY <2>1, MessagesAreHeard
  <2> HIDE DEF r, Kind
  <2> QED
    BY <1>3, <2>1, <2>2
<1> QED
  BY <1>2, <1>4, <1>5, <1>6 DEF SessionStep

\* The slot of n passes to h, or to nobody, and with it go the waiters of n
\* that the message heard as r has not answered.
Passes(n, h, r) ==
  /\ reg.connections[n] # h
  /\ reg'.connections = [reg.connections EXCEPT ![n] = h]
  /\ \A c \in Calls :
       reg'.future[c] = IF <<n, c>> \in reg.waiters /\ r.future[c] = "pending"
                        THEN "lost" ELSE r.future[c]

\* Registering passes the slot on to the newcomer.
LEMMA RegisterPasses ==
  ASSUME IndInv, NEW s \in Sessions, RecvAuth(s)
  PROVE  name[s] \in Nodes /\ Passes(name[s], s, reg)
<1> DEFINE n == name[s]
<1>1. n \in Nodes /\ reg \in Registry /\ pc[s] = "auth" /\ reg' = Register(reg, n, s)
  BY DEF IndInv, TypeOK, Named, RecvAuth
<1>2. ~Registered(s)
  BY <1>1 DEF Registered, RegisteredPcs
<1> HIDE DEF n
<1>3. reg.connections[n] # s
  <2> SUFFICES ASSUME reg.connections[n] = s PROVE FALSE
    OBVIOUS
  <2>1. IsConnected(reg, n)
    BY NoneAssumption DEF IsConnected
  <2> QED
    BY <1>1, <1>2, <2>1 DEF IndInv, SlotHeldByHandler
<1>4. /\ reg'.connections = [reg.connections EXCEPT ![n] = s]
      /\ reg.connections[n] = None => reg'.future = reg.future
      /\ reg.connections[n] # None =>
           \A c \in Calls :
             reg'.future[c] = IF <<n, c>> \in reg.waiters /\ reg.future[c] = "pending"
                              THEN "lost" ELSE reg.future[c]
  BY <1>1, <1>3, RegisterFields
<1>5. reg.connections[n] = None => \A c \in Calls : <<n, c>> \notin reg.waiters
  BY <1>1, NoneAssumption DEF IndInv, WaitersOfHolder, KeysUnsettled
<1>6. Passes(n, s, reg)
  BY <1>3, <1>4, <1>5 DEF Passes
<1> QED
  BY <1>1, <1>6 DEF n

\* Leaving releases the slot if it is still the handler's own.
LEMMA LeavePasses ==
  ASSUME IndInv, NEW s \in Sessions, Registered(s),
         NEW r \in Registry, Heard(s, r), Leave(s, r)
  PROVE  \/ reg' = r
         \/ /\ reg.connections[name[s]] = s
            /\ pc'[s] = "done"
            /\ Passes(name[s], None, r)
<1> DEFINE n == name[s]
           q == Unregister(r, n, s)
<1>1. n \in Nodes /\ reg' = q /\ pc'[s] = "done"
  BY DEF IndInv, TypeOK, Named, Registered, Leave, Goto
<1> HIDE DEF n
<1>2. /\ r.connections[n] # s => q = r
      /\ r.connections[n] = s =>
           /\ q.connections = [r.connections EXCEPT ![n] = None]
           /\ \A c \in Calls :
                q.future[c] = IF <<n, c>> \in r.waiters /\ r.future[c] = "pending"
                              THEN "lost" ELSE r.future[c]
  BY <1>1, UnregisterFields
<1> HIDE DEF q
<1>3. r.connections = reg.connections
  BY DEF Heard, Mild
<1>4. CASE reg.connections[n] = s
  <2>1. \A c \in Calls : r.future[c] = "pending" =>
          (<<n, c>> \in r.waiters <=> <<n, c>> \in reg.waiters)
    BY <1>1 DEF Heard, Mild
  <2>2. reg.connections[n] # None
    BY <1>4, NoneAssumption
  <2>3. Passes(n, None, r)
    BY <1>1, <1>2, <1>3, <1>4, <2>1, <2>2 DEF Passes
  <2> QED
    BY <1>1, <1>4, <2>3 DEF n
<1>5. CASE reg.connections[n] # s
  BY <1>1, <1>2, <1>3, <1>5
<1> QED
  BY <1>4, <1>5

\* So a step of a handler keeps the slots, or passes its name's slot on to the
\* handler, or releases it.
LEMMA SessionStepEffect ==
  ASSUME IndInv, NEW s \in Sessions, SessionStep(s)
  PROVE  /\ UNCHANGED callVars
         /\ \/ reg' = reg
            \/ Registered(s) /\ Heard(s, reg')
            \/ name[s] \in Nodes /\ Passes(name[s], s, reg)
            \/ /\ Registered(s)
               /\ reg.connections[name[s]] = s
               /\ pc'[s] = "done"
               /\ \E r \in Registry : Heard(s, r) /\ Passes(name[s], None, r)
<1>1. CASE RecvAuth(s)
  BY <1>1, RegisterPasses, SessionStepKinds
<1>2. ASSUME NEW r \in Registry, Registered(s), Heard(s, r), reg' = r \/ Leave(s, r)
      PROVE  \/ Registered(s) /\ Heard(s, reg')
             \/ /\ Registered(s)
                /\ reg.connections[name[s]] = s
                /\ pc'[s] = "done"
                /\ \E q \in Registry : Heard(s, q) /\ Passes(name[s], None, q)
  BY <1>2, LeavePasses
<1> QED
  BY <1>1, <1>2, SessionStepKinds

\* A step of a call keeps the slots, and settles no future but by cancelling
\* its own.
LEMMA CallStepEffect ==
  ASSUME IndInv, NEW c \in Calls, CallStep(c)
  PROVE  /\ reg'.connections = reg.connections
         /\ \A d \in Calls :
              \/ reg'.future[d] = reg.future[d]
              \/ d = c /\ reg'.future[d] \in {"pending", "cancelled"}
<1>1. reg \in Registry /\ reg.future \in [Calls -> FutureStates]
  BY DEF IndInv, TypeOK, Registry
<1>2. ASSUME NEW n \in Nodes, StartCall(c, n)
      PROVE  /\ reg'.connections = reg.connections
             /\ \A d \in Calls : d # c => reg'.future[d] = reg.future[d]
             /\ reg'.future[c] \in {reg.future[c], "pending"}
  <2> DEFINE r == RegisterWaiter(reg, n, c)
  <2>1. reg' = reg \/ reg' = r \/ reg' = UnregisterWaiter(r, n, c)
    BY <1>2 DEF StartCall
  <2>2. /\ r \in Registry
        /\ r.connections = reg.connections
        /\ r.future = [reg.future EXCEPT ![c] = "pending"]
    BY <1>1, RegisterWaiterFields
  <2> HIDE DEF r
  <2>3. /\ UnregisterWaiter(r, n, c).connections = r.connections
        /\ UnregisterWaiter(r, n, c).future = r.future
    BY <2>2, UnregisterWaiterFields
  <2> QED
    BY <1>1, <2>1, <2>2, <2>3
<1>3. CASE SendDone(c) \/ Resume(c)
  BY <1>3 DEF SendDone, Resume
<1>4. CASE SendFailed(c) \/ TimedOut(c)
  <2>1. target[c] \in Nodes
    BY <1>4 DEF SendFailed, TimedOut, IndInv, Sent, InFlight
  <2>2. reg' = UnregisterWaiter(reg, target[c], c)
    BY <1>4 DEF SendFailed, TimedOut
  <2> QED
    BY <1>1, <2>1, <2>2, UnregisterWaiterFields
<1>5. CASE TimerFires(c) \/ CancelCaller(c)
  <2>1. reg' \in {reg, CancelFuture(reg, c)}
    BY <1>5 DEF TimerFires, CancelCaller
  <2> QED
    BY <1>1, <2>1 DEF CancelFuture, Registry
<1> QED
  BY <1>2, <1>3, <1>4, <1>5 DEF CallStep

\* The sweep and the environment touch neither the calls nor, in the registry,
\* anything but the heartbeats.
LEMMA OtherStepEffect ==
  ASSUME IndInv, SweepStep \/ EnvironmentStep \/ UNCHANGED vars
  PROVE  /\ UNCHANGED callVars
         /\ reg'.connections = reg.connections
         /\ reg'.future = reg.future
<1>1. reg \in Registry
  BY DEF IndInv, TypeOK
<1> QED
  BY <1>1 DEF SweepStep, SweepTick, SweepClosed, EnvironmentStep, HeartbeatLapses,
              Pair, Revoke, PeerGone, vars, Registry

(***************************************************************************)
(* The action properties.                                                  *)
(***************************************************************************)

\* Of the slots and the futures, a step changes what one session or one call
\* may change, or nothing.
LEMMA StepKinds ==
  ASSUME IndInv, [Next]_vars
  PROVE  \/ \E s \in Sessions : SessionStep(s)
         \/ \E c \in Calls : CallStep(c)
         \/ SweepStep \/ EnvironmentStep \/ UNCHANGED vars
  BY DEF Next

\* A message that is heard keeps the slots and answers a request only if it came
\* under the request's name, while the session it went to still holds the slot.
LEMMA HeardUnderName ==
  ASSUME IndInv, NEW s \in Sessions, Registered(s), NEW r, Heard(s, r), NEW c \in Calls,
         r.future[c] # reg.future[c]
  PROVE  /\ reg.future[c] = "pending" /\ r.future[c] = "result"
         /\ pc[s] = "recv" /\ target[c] = name[s]
         /\ reg.connections[target[c]] = via[c]
<1>1. /\ pc[s] = "recv" /\ <<name[s], c>> \in reg.waiters
      /\ name[s] \in Nodes
      /\ reg.future[c] = "pending" /\ r.future[c] = "result"
  BY DEF Heard, Mild, IndInv, Named, Registered
<1> QED
  BY <1>1 DEF IndInv, WaitersOfHolder

\* A slot is emptied only by its own handler, on its way out (the session
\* guard of unregister).
LEMMA ReleaseStep ==
  IndInv /\ [Next]_vars =>
    [\A n \in Nodes :
       IsConnected(reg, n) /\ ~IsConnected(reg', n) =>
         pc'[reg.connections[n]] = "done"]_vars
<1> SUFFICES ASSUME IndInv, [Next]_vars, NEW n \in Nodes,
                    reg.connections[n] # None, reg'.connections[n] = None
             PROVE  pc'[reg.connections[n]] = "done"
  BY DEF IsConnected
<1>1. reg.connections \in [Nodes -> Sessions \cup {None}]
  BY DEF IndInv, TypeOK, Registry
<1>2. ASSUME NEW s \in Sessions, SessionStep(s)
      PROVE  pc'[reg.connections[n]] = "done"
  <2>1. CASE Heard(s, reg')
    BY <2>1 DEF Heard, Mild
  <2>2. CASE Passes(name[s], s, reg)
    BY <1>1, <2>2, NoneAssumption DEF Passes
  <2>3. ASSUME NEW r \in Registry, Passes(name[s], None, r),
               reg.connections[name[s]] = s, pc'[s] = "done"
        PROVE  pc'[reg.connections[n]] = "done"
    BY <1>1, <2>3 DEF Passes
  <2> QED
    BY <1>2, <2>1, <2>2, <2>3, SessionStepEffect
<1>3. ASSUME NEW c \in Calls, CallStep(c)
      PROVE  pc'[reg.connections[n]] = "done"
  BY <1>3, CallStepEffect
<1>4. CASE SweepStep \/ EnvironmentStep \/ UNCHANGED vars
  BY <1>4, OtherStepEffect
<1> QED
  BY <1>2, <1>3, <1>4, StepKinds

\* A future gets its result only from a frame just received under its name,
\* while the session of the request holds the slot.
LEMMA AnswerStep ==
  IndInv /\ [Next]_vars =>
    [\A c \in Calls :
       reg.future[c] = "pending" /\ reg'.future[c] = "result" =>
         /\ \E s \in Sessions : pc[s] = "recv" /\ name[s] = target[c]
         /\ reg.connections[target[c]] = via[c]]_vars
<1> DEFINE Answerable(c) == /\ \E s \in Sessions : pc[s] = "recv" /\ name[s] = target[c]
                            /\ reg.connections[target[c]] = via[c]
<1> SUFFICES ASSUME IndInv, [Next]_vars, NEW c \in Calls,
                    reg.future[c] = "pending", reg'.future[c] = "result"
             PROVE  Answerable(c)
  OBVIOUS
<1>1. ASSUME NEW s \in Sessions, SessionStep(s)
      PROVE  Answerable(c)
  <2>1. CASE Registered(s) /\ Heard(s, reg')
    BY <2>1, HeardUnderName
  <2>2. CASE Passes(name[s], s, reg)
    BY <2>2 DEF Passes
  <2>3. ASSUME NEW r \in Registry, Registered(s), Heard(s, r), Passes(name[s], None, r)
        PROVE  Answerable(c)
    <3>1. r.future[c] = "result"
      BY <2>3 DEF Passes
    <3> QED
      BY <2>3, <3>1, HeardUnderName
  <2> QED
    BY <1>1, <2>1, <2>2, <2>3, SessionStepEffect
<1>2. ASSUME NEW d \in Calls, CallStep(d)
      PROVE  FALSE
  BY <1>2, CallStepEffect
<1>3. CASE SweepStep \/ EnvironmentStep \/ UNCHANGED vars
  BY <1>3, OtherStepEffect
<1> QED
  BY <1>1, <1>2, <1>3, StepKinds

\* A future is failed as lost only in the step in which its session loses the
\* slot, to another session or to none.
LEMMA LossStep ==
  IndInv /\ [Next]_vars =>
    [\A c \in Calls :
       reg.future[c] = "pending" /\ reg'.future[c] = "lost" =>
         /\ reg.connections[target[c]] = via[c]
         /\ reg'.connections[target[c]] # via[c]]_vars
<1> SUFFICES ASSUME IndInv, [Next]_vars, NEW c \in Calls,
                    reg.future[c] = "pending", reg'.future[c] = "lost"
             PROVE  /\ reg.connections[target[c]] = via[c]
                    /\ reg'.connections[target[c]] # via[c]
  OBVIOUS
<1>1. reg.connections \in [Nodes -> Sessions \cup {None}]
  BY DEF IndInv, TypeOK, Registry
<1>2. ASSUME NEW n \in Nodes, NEW h, NEW r, Passes(n, h, r), r.future[c] # "lost"
      PROVE  /\ reg.connections[target[c]] = via[c]
             /\ reg'.connections[target[c]] # via[c]
  <2>1. <<n, c>> \in reg.waiters
    BY <1>2 DEF Passes
  <2>2. target[c] = n /\ via[c] = reg.connections[n]
    BY <2>1 DEF IndInv, WaitersOfHolder
  <2> QED
    BY <1>1, <1>2, <2>2 DEF Passes
<1>3. ASSUME NEW s \in Sessions, SessionStep(s)
      PROVE  /\ reg.connections[target[c]] = via[c]
             /\ reg'.connections[target[c]] # via[c]
  <2>1. CASE Registered(s) /\ Heard(s, reg')
    BY <2>1, HeardUnderName
  <2>2. CASE name[s] \in Nodes /\ Passes(name[s], s, reg)
    BY <1>2, <2>2
  <2>3. ASSUME NEW r \in Registry, Registered(s), Heard(s, r), Passes(name[s], None, r)
        PROVE  /\ reg.connections[target[c]] = via[c]
               /\ reg'.connections[target[c]] # via[c]
    <3>1. r.future[c] \in {"pending", "result"}
      BY <2>3, HeardUnderName
    <3>2. name[s] \in Nodes
      BY <2>3 DEF IndInv, Named, Registered
    <3> QED
      BY <1>2, <2>3, <3>1, <3>2
  <2> QED
    BY <1>3, <2>1, <2>2, <2>3, SessionStepEffect
<1>4. ASSUME NEW d \in Calls, CallStep(d)
      PROVE  FALSE
  BY <1>4, CallStepEffect
<1>5. CASE SweepStep \/ EnvironmentStep \/ UNCHANGED vars
  BY <1>5, OtherStepEffect
<1> QED
  BY <1>3, <1>4, <1>5, StepKinds

\* The late finally block of a replaced session never evicts its successor:
\* whoever empties a slot is the handler that held it (unregister).
THEOREM OwnersRelease == Spec => SlotReleasedByOwner
  BY SpecIndInv, ReleaseStep, PTL DEF Spec, SlotReleasedByOwner

\* A reply completes a request only if it is received under the name of the
\* request's node, and while the session the request was written to still holds
\* the slot: a session replaced since answers for nobody but, by an id that is
\* not its own, its successor (route_inbound, complete_waiter).
THEOREM AnswersUnderName == Spec => AnsweredUnderName
  BY SpecIndInv, AnswerStep, PTL DEF Spec, AnsweredUnderName

\* The end of an older session never fails the requests of the current one
\* (fail_node_waiters behind the guard of unregister).
THEOREM LossesFollowSlot == Spec => LostOnlyWithSession
  BY SpecIndInv, LossStep, PTL DEF Spec, LostOnlyWithSession

(***************************************************************************)
(* The refinement of RequestContract.                                      *)
(***************************************************************************)

\* A caller that still waits on its future.
Waiting(c) == callPc[c] \in {"sending", "waiting"}

\* Only such a caller's request is open, answered or lost, by its future.
LEMMA PhaseOfWaiting ==
  ASSUME IndInv, NEW c \in Calls
  PROVE  /\ Waiting(c) =>
              Phase(c) = IF reg.future[c] = "pending" THEN "open"
                         ELSE IF reg.future[c] = "result" THEN "answered" ELSE "lost"
         /\ ~Waiting(c) => Phase(c) \notin {"open", "answered", "lost"}
         /\ callPc[c] = "idle" <=> Phase(c) = "idle"
  BY DEF Waiting, Phase, IndInv, TypeOK, CallPcs

\* What a caller observes depends on its own progress and its own future, and
\* on the future only while it waits.
LEMMA PhaseFrame ==
  ASSUME IndInv, NEW c \in Calls, callPc'[c] = callPc[c], outcome'[c] = outcome[c],
         Waiting(c) => reg'.future[c] = reg.future[c]
  PROVE  Phase(c)' = Phase(c)
  BY DEF Waiting, Phase, IndInv, TypeOK, CallPcs

\* The mapping of a step that leaves the calls to themselves.
LEMMA PhaseOfFuture ==
  ASSUME NEW c \in Calls, Waiting(c), callPc'[c] = callPc[c]
  PROVE  Phase(c)' = IF reg'.future[c] = "pending" THEN "open"
                     ELSE IF reg'.future[c] = "result" THEN "answered" ELSE "lost"
  BY DEF Waiting, Phase

\* A slot that passes on is the contract's PassOn, with the one request that was
\* still answered, if any.
LEMMA PassesMapsToPassOn ==
  ASSUME IndInv, NEW n \in Nodes, NEW h, NEW r, Mild(r), Passes(n, h, r),
         UNCHANGED callVars,
         NEW A, \A c \in Calls :
           c \in A <=> Waiting(c) /\ reg.future[c] = "pending" /\ r.future[c] = "result"
  PROVE  Contract!PassOn(n, h, A)
<1> USE DEF callVars
<1>1. ASSUME NEW c \in Calls
      PROVE  Phase(c)' = IF c \in A THEN "answered"
                         ELSE IF Phase(c) = "open" /\ target[c] = n THEN "lost"
                         ELSE Phase(c)
  <2>1. CASE ~Waiting(c)
    BY <2>1, PhaseFrame, PhaseOfWaiting
  <2>2. CASE Waiting(c) /\ reg.future[c] # "pending"
    <3>1. r.future[c] = reg.future[c]
      BY <2>2 DEF Mild
    <3>2. reg'.future[c] = reg.future[c]
      BY <2>2, <3>1 DEF Passes
    <3> QED
      BY <2>2, <3>1, <3>2, PhaseFrame, PhaseOfWaiting
  <2>3. CASE Waiting(c) /\ reg.future[c] = "pending"
    <3>1. <<n, c>> \in reg.waiters <=> target[c] = n
      BY <2>3 DEF Waiting, IndInv, WaitersOfHolder, PendingOnHolder
    <3>2. r.future[c] \in {"pending", "result"}
      BY <2>3 DEF Mild
    <3>3. reg'.future[c] = IF r.future[c] = "result" THEN "result"
                           ELSE IF target[c] = n THEN "lost" ELSE "pending"
      BY <3>1, <3>2 DEF Passes
    <3> QED
      BY <2>3, <3>2, <3>3, PhaseOfFuture, PhaseOfWaiting
  <2> QED
    BY <2>1, <2>2, <2>3
<1>2. [c \in Calls |-> Phase(c)]' =
        [c \in Calls |-> IF c \in A THEN "answered"
                         ELSE IF c \in Contract!Open(n) THEN "lost"
                         ELSE [d \in Calls |-> Phase(d)][c]]
  BY <1>1 DEF Contract!Open
<1> QED
  BY <1>2 DEF Contract!PassOn, Passes

\* A step that keeps the slots and changes what at most one caller observes.
LEMMA MoveMaps ==
  ASSUME NEW c \in Calls, NEW p, Phase(c)' = p,
         \A d \in Calls : d # c => Phase(d)' = Phase(d)
  PROVE  [d \in Calls |-> Phase(d)]' = [[d \in Calls |-> Phase(d)] EXCEPT ![c] = p]
  OBVIOUS

\* A step of a handler keeps the contract.
LEMMA SessionStepMaps ==
  ASSUME IndInv, NEW s \in Sessions, SessionStep(s)
  PROVE  [Contract!Next]_(Contract!vars)
<1> USE DEF callVars
<1>1. UNCHANGED callVars
  BY SessionStepEffect
<1>2. CASE reg' = reg
  <2>1. \A c \in Calls : Phase(c)' = Phase(c)
    BY <1>1, <1>2, PhaseFrame
  <2> QED
    BY <1>1, <1>2, <2>1 DEF Contract!vars
<1>3. CASE Registered(s) /\ Heard(s, reg')
  <2>1. reg'.connections = reg.connections
    BY <1>3 DEF Heard, Mild
  <2>2. CASE \A c \in Calls : Waiting(c) => reg'.future[c] = reg.future[c]
    <3>1. \A c \in Calls : Phase(c)' = Phase(c)
      BY <1>1, <2>2, PhaseFrame
    <3> QED
      BY <1>1, <2>1, <3>1 DEF Contract!vars
  <2>3. ASSUME NEW c \in Calls, Waiting(c), reg'.future[c] # reg.future[c]
        PROVE  Contract!Answer(c)
    <3>1. /\ reg.future[c] = "pending" /\ reg'.future[c] = "result"
          /\ reg.connections[target[c]] = via[c]
      BY <1>3, <2>3, HeardUnderName
    <3>2. \A d \in Calls : d # c => reg'.future[d] = reg.future[d]
      BY <1>3, <2>3 DEF Heard
    <3>3. Phase(c) = "open" /\ Phase(c)' = "answered"
      BY <1>1, <2>3, <3>1, PhaseOfWaiting, PhaseOfFuture
    <3>4. \A d \in Calls : d # c => Phase(d)' = Phase(d)
      BY <1>1, <3>2, PhaseFrame
    <3>5. [d \in Calls |-> Phase(d)]' = [[d \in Calls |-> Phase(d)] EXCEPT ![c] = "answered"]
      BY <3>3, <3>4, MoveMaps
    <3> QED
      BY <1>1, <2>1, <3>1, <3>3, <3>5 DEF Contract!Answer, Contract!Move
  <2> QED
    BY <2>2, <2>3 DEF Contract!Next
<1>4. CASE name[s] \in Nodes /\ Passes(name[s], s, reg)
  <2>1. Mild(reg)
    BY <1>4, MessagesAreMild
  <2>2. Contract!PassOn(name[s], s, {})
    BY <1>1, <1>4, <2>1, PassesMapsToPassOn
  <2> QED
    BY <1>4, <2>2 DEF Contract!Hold, Contract!Next
<1>5. ASSUME NEW r \in Registry, Registered(s), Heard(s, r), Passes(name[s], None, r)
      PROVE  Contract!Next
  <2> DEFINE n == name[s]
             A == {c \in Calls : /\ Waiting(c) /\ reg.future[c] = "pending"
                                 /\ r.future[c] = "result"}
  <2>1. n \in Nodes
    BY <1>5 DEF IndInv, Named, Registered
  <2>2. Contract!PassOn(n, None, A)
    BY <1>1, <1>5, <2>1, PassesMapsToPassOn DEF Heard
  <2>3. CASE A = {}
    BY <2>1, <2>2, <2>3 DEF Contract!Hold, Contract!Next
  <2>4. ASSUME NEW c \in A
        PROVE  Contract!AnswerAndRelease(n, c)
    <3>1. A = {c}
      BY <1>5 DEF Heard
    <3>2. Phase(c) = "open" /\ target[c] = n
      BY <1>5, HeardUnderName, PhaseOfWaiting
    <3> QED
      BY <2>2, <3>1, <3>2 DEF Contract!AnswerAndRelease, Contract!Open
  <2> QED
    BY <2>1, <2>3, <2>4 DEF Contract!Next
<1> QED
  BY <1>2, <1>3, <1>4, <1>5, SessionStepEffect

\* A step of one call changes what no other caller observes.
LEMMA OthersFrame ==
  ASSUME IndInv, NEW c \in Calls, CallStep(c), NEW d \in Calls, d # c
  PROVE  callPc'[d] = callPc[d] /\ Phase(d)' = Phase(d)
<1>1. callPc'[d] = callPc[d] /\ outcome'[d] = outcome[d]
  BY DEF CallStep, StartCall, SendDone, SendFailed, Resume, TimerFires, TimedOut,
         CancelCaller, Settle, EndCall, IndInv, TypeOK
<1>2. reg'.future[d] = reg.future[d]
  BY CallStepEffect
<1> QED
  BY <1>1, <1>2, PhaseFrame

\* A request that is made is accepted, refused or failed.
LEMMA StartMaps ==
  ASSUME ContractInv, NEW c \in Calls, NEW n \in Nodes, StartCall(c, n)
  PROVE  Contract!Next
<1> DEFINE conn == reg.connections[n]
           phases == [d \in Calls |-> Phase(d)]
<1>1. /\ callPc[c] = "idle" /\ Phase(c) = "idle" /\ via[c] = None
      /\ via \in [Calls -> Sessions \cup {None}]
      /\ callPc \in [Calls -> CallPcs] /\ outcome \in [Calls -> Outcomes]
      /\ reg \in Registry
  BY PhaseOfWaiting DEF StartCall, ContractInv, Unsent, IndInv, TypeOK
<1>2. /\ reg'.connections = reg.connections
      /\ target' = [target EXCEPT ![c] = n]
  BY CallStepEffect DEF StartCall, CallStep, ContractInv
<1>3. \A d \in Calls : d # c => Phase(d)' = Phase(d)
  BY OthersFrame DEF CallStep, ContractInv
<1>4. ASSUME NEW p, Phase(c)' = p
      PROVE  phases' = [phases EXCEPT ![c] = p]
  BY <1>3, <1>4
<1>5. CASE conn = None
  <2>1. callPc'[c] = "done" /\ outcome'[c] = "not_connected" /\ via' = via
    BY <1>1, <1>5 DEF StartCall, EndCall
  <2>2. Phase(c)' = "unreachable"
    BY <2>1 DEF Phase
  <2>3. via' = [via EXCEPT ![c] = None]
    BY <1>1, <2>1
  <2>4. phases' = [phases EXCEPT ![c] = "unreachable"]
    BY <1>4, <2>2
  <2>5. Contract!Refuse(c, n)
    BY <1>1, <1>2, <1>5, <2>3, <2>4 DEF Contract!Refuse, Contract!Ask
  <2> QED
    BY <2>5 DEF Contract!Next
<1>6. CASE conn # None /\ conn \in closed
  <2>1. callPc'[c] = "done" /\ outcome'[c] = "send_failed" /\ via' = via
    BY <1>1, <1>6 DEF StartCall, EndCall
  <2>2. Phase(c)' = "gave_up"
    BY <2>1 DEF Phase
  <2>3. via' = [via EXCEPT ![c] = None]
    BY <1>1, <2>1
  <2>4. phases' = [phases EXCEPT ![c] = "gave_up"]
    BY <1>4, <2>2
  <2>5. Contract!Fail(c, n)
    BY <1>1, <1>2, <1>6, <2>3, <2>4 DEF Contract!Fail, Contract!Ask
  <2> QED
    BY <2>5 DEF Contract!Next
<1>7. CASE conn # None /\ conn \notin closed
  <2>1. /\ callPc'[c] = "sending" /\ via' = [via EXCEPT ![c] = conn]
        /\ reg' = RegisterWaiter(reg, n, c)
    BY <1>1, <1>7 DEF StartCall
  <2>2. reg.future \in [Calls -> FutureStates]
    BY <1>1 DEF Registry
  <2>3. reg'.future[c] = "pending"
    <3>1. reg \in Registry
      BY <1>1
    <3>2. RegisterWaiter(reg, n, c).future = [reg.future EXCEPT ![c] = "pending"]
      BY <3>1, RegisterWaiterFields
    <3> QED
      BY <2>1, <2>2, <3>2
  <2>4. Phase(c)' = "open"
    BY <2>1, <2>3 DEF Phase
  <2>5. phases' = [phases EXCEPT ![c] = "open"]
    BY <1>4, <2>4
  <2>6. Contract!Accept(c, n)
    BY <1>1, <1>2, <1>7, <2>1, <2>5 DEF Contract!Accept, Contract!Ask
  <2> QED
    BY <2>6 DEF Contract!Next
<1> QED
  BY <1>5, <1>6, <1>7

\* A step of a call keeps the contract.
LEMMA CallStepMaps ==
  ASSUME ContractInv, NEW c \in Calls, CallStep(c)
  PROVE  [Contract!Next]_(Contract!vars)
<1> DEFINE phases == [d \in Calls |-> Phase(d)]
<1>1. /\ IndInv
      /\ callPc \in [Calls -> CallPcs] /\ outcome \in [Calls -> Outcomes]
  BY DEF ContractInv, IndInv, TypeOK
<1>2. reg'.connections = reg.connections
  BY <1>1, CallStepEffect
<1>3. \A d \in Calls : d # c => Phase(d)' = Phase(d)
  BY <1>1, OthersFrame
<1>4. ASSUME NEW p, Phase(c)' = p
      PROVE  phases' = [phases EXCEPT ![c] = p]
  BY <1>3, <1>4
<1>5. ASSUME NEW p, Phase(c)' = p,
             \/ Phase(c) = "answered" /\ p = "ok"
             \/ Phase(c) = "lost" /\ p = "unreachable"
             \/ Phase(c) \in {"open", "answered", "lost"} /\ p = "gave_up",
             UNCHANGED <<target, via>>
      PROVE  Contract!Return(c) \/ Contract!GiveUp(c)
  <2>1. phases' = [phases EXCEPT ![c] = p]
    BY <1>4, <1>5
  <2> QED
    BY <1>2, <1>5, <2>1 DEF Contract!Return, Contract!GiveUp, Contract!Move
<1>6. ASSUME Phase(c)' = Phase(c), UNCHANGED <<target, via>>
      PROVE  UNCHANGED Contract!vars
  BY <1>2, <1>3, <1>6 DEF Contract!vars
<1>7. ASSUME NEW n \in Nodes, StartCall(c, n)
      PROVE  Contract!Next
  BY <1>7, StartMaps
<1>8. ASSUME Waiting(c), reg.future[c] # "pending", Settle(c), UNCHANGED <<target, via>>
      PROVE  Contract!Return(c) \/ Contract!GiveUp(c)
  <2>1. reg.future[c] \in {"result", "lost"}
    BY <1>1, <1>8 DEF Waiting, IndInv, Sent
  <2>2. /\ callPc'[c] = "done"
        /\ outcome'[c] = IF reg.future[c] = "result" THEN "ok"
                         ELSE IF c \in EnvCalls THEN "not_connected" ELSE "crashed"
    BY <1>1, <1>8 DEF Settle, EndCall
  <2>3. Phase(c)' = IF reg.future[c] = "result" THEN "ok" ELSE "unreachable"
    BY <2>1, <2>2 DEF Phase
  <2>4. Phase(c) = IF reg.future[c] = "result" THEN "answered" ELSE "lost"
    BY <1>1, <1>8, <2>1, PhaseOfWaiting
  <2> QED
    BY <1>5, <1>8, <2>3, <2>4
<1>9. CASE SendDone(c) \/ Resume(c)
  <2>1. CASE reg.future[c] = "pending"
    <3>1. SendDone(c)
      BY <1>9, <2>1 DEF Resume
    <3>2. /\ Waiting(c) /\ callPc'[c] = "waiting"
          /\ reg' = reg /\ UNCHANGED <<target, via>>
      BY <1>1, <2>1, <3>1 DEF SendDone, Waiting
    <3>3. Phase(c) = "open" /\ Phase(c)' = "open"
      BY <1>1, <2>1, <3>2, PhaseOfWaiting DEF Phase
    <3> QED
      BY <1>6, <3>2, <3>3
  <2>2. CASE reg.future[c] # "pending"
    <3>1. Waiting(c) /\ Settle(c) /\ UNCHANGED <<target, via>>
      BY <1>9, <2>2 DEF SendDone, Resume, Waiting
    <3> QED
      BY <1>8, <2>2, <3>1 DEF Contract!Next
  <2> QED
    BY <2>1, <2>2
<1>10. CASE SendFailed(c) \/ TimerFires(c) \/ TimedOut(c) \/ CancelCaller(c)
  <2>1. /\ Waiting(c) \/ callPc[c] = "expired"
        /\ \/ callPc'[c] = "expired"
           \/ callPc'[c] = "done" /\ outcome'[c] \in {"send_failed", "timeout", "cancelled"}
        /\ UNCHANGED <<target, via>>
    BY <1>1, <1>10 DEF SendFailed, TimerFires, TimedOut, CancelCaller, EndCall, Waiting
  <2>2. Phase(c)' = "gave_up"
    BY <2>1 DEF Phase
  <2>3. CASE Waiting(c)
    <3>1. Phase(c) \in {"open", "answered", "lost"}
      BY <1>1, <2>3, PhaseOfWaiting
    <3> QED
      BY <1>5, <2>1, <2>2, <3>1 DEF Contract!Next
  <2>4. CASE callPc[c] = "expired"
    <3>1. Phase(c) = "gave_up"
      BY <2>4 DEF Phase
    <3> QED
      BY <1>6, <2>1, <2>2, <3>1
  <2> QED
    BY <2>1, <2>3, <2>4
<1> QED
  BY <1>7, <1>9, <1>10 DEF CallStep

\* Every step keeps the contract, and a call that has not begun has no session.
LEMMA NextMaps ==
  ASSUME ContractInv, [Next]_vars
  PROVE  [Contract!Next]_(Contract!vars) /\ Unsent'
<1>1. IndInv /\ Unsent
  BY DEF ContractInv
<1>2. ASSUME NEW s \in Sessions, SessionStep(s)
      PROVE  [Contract!Next]_(Contract!vars) /\ Unsent'
  BY <1>1, <1>2, SessionStepMaps, SessionStepEffect DEF Unsent, callVars
<1>3. ASSUME NEW c \in Calls, CallStep(c)
      PROVE  [Contract!Next]_(Contract!vars) /\ Unsent'
  <2>1. \A d \in Calls : callPc'[d] = "idle" => callPc[d] = "idle" /\ via'[d] = via[d]
    BY <1>1, <1>3 DEF CallStep, StartCall, SendDone, SendFailed, Resume, TimerFires,
         TimedOut, CancelCaller, Settle, EndCall, IndInv, TypeOK
  <2> QED
    BY <1>1, <1>3, <2>1, CallStepMaps DEF Unsent
<1>4. CASE SweepStep \/ EnvironmentStep \/ UNCHANGED vars
  <2>1. /\ UNCHANGED callVars
        /\ reg'.connections = reg.connections
        /\ reg'.future = reg.future
    BY <1>1, <1>4, OtherStepEffect
  <2>2. \A c \in Calls : Phase(c)' = Phase(c)
    BY <1>1, <2>1, PhaseFrame DEF callVars
  <2> QED
    BY <1>1, <2>1, <2>2 DEF Contract!vars, Unsent, callVars
<1> QED
  BY <1>1, <1>2, <1>3, <1>4, StepKinds

\* NodeServer implements RequestContract: a request belongs to the session that
\* held the name when it was accepted, is answered only while that session does,
\* and is lost in the step in which the session gives the name up, whatever the
\* tasks, the waiter table and the timers do in between.
THEOREM ServerKeepsContract == Spec => KeepsContract
<1>1. Init => ContractInv /\ Contract!Init
  <2> SUFFICES ASSUME Init PROVE ContractInv /\ Contract!Init
    OBVIOUS
  <2>1. IndInv
    BY InitIndInv
  <2>2. \A c \in Calls : callPc[c] = "idle" /\ via[c] = None /\ Phase(c) = "idle"
    BY DEF Init, Phase
  <2> QED
    BY <2>1, <2>2 DEF ContractInv, Unsent, Contract!Init, Init, EmptyRegistry
<1>2. ContractInv /\ [Next]_vars => ContractInv' /\ [Contract!Next]_(Contract!vars)
  BY NextKeepsIndInv, NextMaps DEF ContractInv
<1> QED
  BY <1>1, <1>2, PTL DEF Spec, KeepsContract, Contract!Spec
=============================================================================
