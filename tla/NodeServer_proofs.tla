------------------------- MODULE NodeServer_proofs -------------------------
(***************************************************************************)
(* Theorems about NodeServer for every set of names, sessions and calls,   *)
(* with their proofs.                                                      *)
(***************************************************************************)
EXTENDS NodeServer, TLAPS

(***************************************************************************)
(* What each registry method returns, field by field.                      *)
(***************************************************************************)

\* Failing a node's waiters leaves the slots alone, drops the node's keys and
\* leaves none of the futures they keyed pending.
LEMMA FailFields ==
  ASSUME NEW r \in Registry, NEW n \in Nodes
  PROVE  LET q == FailNodeWaiters(r, n) IN
         /\ q \in Registry
         /\ q.connections = r.connections
         /\ q.overdue = r.overdue
         /\ q.waiters = {w \in r.waiters : w[1] # n}
         /\ \A c \in Calls :
              q.future[c] = IF <<n, c>> \in r.waiters /\ r.future[c] = "pending"
                            THEN "lost" ELSE r.future[c]
  BY DEF FailNodeWaiters, Registry, FutureStates

\* Registering a session installs it and fails the waiters of the one it
\* replaces.
LEMMA RegisterFields ==
  ASSUME NEW r \in Registry, NEW n \in Nodes, NEW s \in Sessions
  PROVE  LET q == Register(r, n, s) IN
         /\ q \in Registry
         /\ q.connections = [r.connections EXCEPT ![n] = s]
         /\ r.connections[n] \in {None, s} =>
              q.waiters = r.waiters /\ q.future = r.future
         /\ r.connections[n] \notin {None, s} =>
              /\ q.waiters = {w \in r.waiters : w[1] # n}
              /\ \A c \in Calls :
                   q.future[c] = IF <<n, c>> \in r.waiters /\ r.future[c] = "pending"
                                 THEN "lost" ELSE r.future[c]
<1> DEFINE installed == [r EXCEPT !.connections[n] = s, !.overdue = @ \ {n}]
<1>1. /\ installed \in Registry
      /\ installed.connections = [r.connections EXCEPT ![n] = s]
      /\ installed.waiters = r.waiters
      /\ installed.future = r.future
  BY DEF Registry
<1>2. CASE r.connections[n] \in {None, s}
  BY <1>1, <1>2 DEF Register
<1>3. CASE r.connections[n] \notin {None, s}
  <2>1. Register(r, n, s) = FailNodeWaiters(installed, n)
    BY <1>3 DEF Register
  <2> HIDE DEF installed
  <2> QED
    BY <1>1, <1>3, <2>1, FailFields
<1> QED
  BY <1>2, <1>3

\* Unregistering clears the slot and fails its waiters if the session holds
\* it, and changes nothing otherwise.
LEMMA UnregisterFields ==
  ASSUME NEW r \in Registry, NEW n \in Nodes, NEW s \in Sessions
  PROVE  LET q == Unregister(r, n, s) IN
         /\ q \in Registry
         /\ r.connections[n] # s => q = r
         /\ r.connections[n] = s =>
              /\ q.connections = [r.connections EXCEPT ![n] = None]
              /\ q.waiters = {w \in r.waiters : w[1] # n}
              /\ \A c \in Calls :
                   q.future[c] = IF <<n, c>> \in r.waiters /\ r.future[c] = "pending"
                                 THEN "lost" ELSE r.future[c]
<1> DEFINE cleared == [r EXCEPT !.connections[n] = None, !.overdue = @ \ {n}]
<1>1. /\ cleared \in Registry
      /\ cleared.connections = [r.connections EXCEPT ![n] = None]
      /\ cleared.waiters = r.waiters
      /\ cleared.future = r.future
  BY DEF Registry
<1>2. CASE r.connections[n] = s
  <2>1. Unregister(r, n, s) = FailNodeWaiters(cleared, n)
    BY <1>2 DEF Unregister
  <2> HIDE DEF cleared
  <2> QED
    BY <1>1, <1>2, <2>1, FailFields
<1>3. CASE r.connections[n] # s
  BY <1>3 DEF Unregister
<1> QED
  BY <1>2, <1>3

\* A heartbeat changes neither the slots nor the waiters.
LEMMA TouchFields ==
  ASSUME NEW r \in Registry, NEW n \in Nodes
  PROVE  LET q == TouchHeartbeat(r, n) IN
         /\ q \in Registry
         /\ q.connections = r.connections
         /\ q.waiters = r.waiters
         /\ q.future = r.future
  BY DEF TouchHeartbeat, Registry

\* A reply removes the key and resolves the future if the key was there.
LEMMA CompleteFields ==
  ASSUME NEW r \in Registry, NEW n \in Nodes, NEW c \in Calls
  PROVE  LET q == CompleteWaiter(r, n, c) IN
         /\ q \in Registry
         /\ q.connections = r.connections
         /\ q.waiters = r.waiters \ {<<n, c>>}
         /\ q.future = [r.future EXCEPT ![c] =
                          IF <<n, c>> \in r.waiters /\ r.future[c] = "pending"
                          THEN "result" ELSE r.future[c]]
  BY DEF CompleteWaiter, Registry, FutureStates

\* Registering a waiter adds its key with a pending future.
LEMMA RegisterWaiterFields ==
  ASSUME NEW r \in Registry, NEW n \in Nodes, NEW c \in Calls
  PROVE  LET q == RegisterWaiter(r, n, c) IN
         /\ q \in Registry
         /\ q.connections = r.connections
         /\ q.waiters = r.waiters \cup {<<n, c>>}
         /\ q.future = [r.future EXCEPT ![c] = "pending"]
<1> DEFINE keys == r.waiters \cup {<<n, c>>}
           states == [r.future EXCEPT ![c] = "pending"]
<1>1. RegisterWaiter(r, n, c) = [r EXCEPT !.waiters = keys, !.future = states]
  BY DEF RegisterWaiter, Registry
<1>2. keys \in SUBSET (Nodes \X Calls) /\ states \in [Calls -> FutureStates]
  BY DEF Registry, FutureStates
<1> HIDE DEF keys, states
<1>3. /\ RegisterWaiter(r, n, c) \in Registry
      /\ RegisterWaiter(r, n, c).connections = r.connections
      /\ RegisterWaiter(r, n, c).waiters = keys
      /\ RegisterWaiter(r, n, c).future = states
  BY <1>1, <1>2 DEF Registry
<1> QED
  BY <1>3 DEF keys, states

\* Unregistering a waiter removes its key and leaves its future as it is.
LEMMA UnregisterWaiterFields ==
  ASSUME NEW r \in Registry, NEW n \in Nodes, NEW c \in Calls
  PROVE  LET q == UnregisterWaiter(r, n, c) IN
         /\ q \in Registry
         /\ q.connections = r.connections
         /\ q.waiters = r.waiters \ {<<n, c>>}
         /\ q.future = r.future
  BY DEF UnregisterWaiter, Registry

(***************************************************************************)
(* The inductive invariant.                                                *)
(***************************************************************************)

\* A handler past hello has a name.
Named ==
  \A s \in Sessions : pc[s] \in {"auth"} \cup RegisteredPcs => name[s] \in Nodes

\* A request in flight was written to a session; while its caller has not
\* given up, its future has not been cancelled.
Sent ==
  \A c \in Calls :
    /\ InFlight(c) => target[c] \in Nodes /\ via[c] \in Sessions
    /\ callPc[c] \in {"sending", "waiting"} =>
         reg.future[c] \in {"pending", "result", "lost"}

\* A key is popped by whatever settles its future.
KeysUnsettled ==
  \A n \in Nodes, c \in Calls :
    <<n, c>> \in reg.waiters =>
      /\ via[c] \in Sessions
      /\ reg.future[c] \in {"pending", "cancelled"}

IndInv ==
  /\ TypeOK
  /\ Named
  /\ Sent
  /\ KeysUnsettled
  /\ SlotHeldByHandler
  /\ NoPhantomSession
  /\ WaitersOfHolder
  /\ WaiterHasOwner
  /\ PendingOnHolder

\* Initially no session is registered and no request is in flight.
LEMMA InitIndInv == Init => IndInv
<1> SUFFICES ASSUME Init PROVE IndInv
  OBVIOUS
<1>1. EmptyRegistry \in Registry
  BY DEF EmptyRegistry, Registry, FutureStates
<1>2. TypeOK
  BY <1>1 DEF Init, TypeOK, SessionPcs, CallPcs, Outcomes
<1>3. Named /\ Sent /\ KeysUnsettled
  BY DEF Init, Named, Sent, KeysUnsettled, InFlight, RegisteredPcs, EmptyRegistry
<1>4. SlotHeldByHandler /\ NoPhantomSession /\ WaitersOfHolder
  BY DEF Init, SlotHeldByHandler, NoPhantomSession, WaitersOfHolder,
         IsConnected, Registered, RegisteredPcs, EmptyRegistry
<1>5. WaiterHasOwner /\ PendingOnHolder
  BY DEF Init, WaiterHasOwner, PendingOnHolder, EmptyRegistry
<1> QED
  BY <1>2, <1>3, <1>4, <1>5 DEF IndInv

(***************************************************************************)
(* Steps of a registered handler.  Before it loops or leaves, a handler    *)
(* has at most touched a heartbeat and completed one waiter: a registry    *)
(* with the same slots, in which a key that is left has its future as it   *)
(* was and a future that is pending has its key.                           *)
(***************************************************************************)
Mild(r) ==
  /\ r \in Registry
  /\ r.connections = reg.connections
  /\ \A n \in Nodes, c \in Calls :
       /\ <<n, c>> \in r.waiters =>
            <<n, c>> \in reg.waiters /\ r.future[c] = reg.future[c]
       /\ <<n, c>> \in reg.waiters /\ r.future[c] = "pending" =>
            <<n, c>> \in r.waiters
  /\ \A c \in Calls :
       \/ r.future[c] = reg.future[c]
       \/ reg.future[c] = "pending" /\ r.future[c] = "result"

\* What a handler does to the registry on one message is mild.
LEMMA MessagesAreMild ==
  ASSUME IndInv, NEW n \in Nodes
  PROVE  /\ Mild(reg)
         /\ Mild(TouchHeartbeat(reg, n))
         /\ \A c \in Calls : Mild(CompleteWaiter(TouchHeartbeat(reg, n), n, c))
<1>1. reg \in Registry
  BY DEF IndInv, TypeOK
<1>2. Mild(reg)
  BY <1>1 DEF Mild
<1> DEFINE t == TouchHeartbeat(reg, n)
<1>3. /\ t \in Registry
      /\ t.connections = reg.connections
      /\ t.waiters = reg.waiters
      /\ t.future = reg.future
  BY <1>1, TouchFields
<1> HIDE DEF t
<1>4. Mild(t)
  BY <1>3 DEF Mild
<1>5. ASSUME NEW c \in Calls PROVE Mild(CompleteWaiter(t, n, c))
  <2> DEFINE q == CompleteWaiter(t, n, c)
  <2>1. /\ q \in Registry
        /\ q.connections = reg.connections
        /\ q.waiters = reg.waiters \ {<<n, c>>}
        /\ q.future = [reg.future EXCEPT ![c] =
                         IF <<n, c>> \in reg.waiters /\ reg.future[c] = "pending"
                         THEN "result" ELSE reg.future[c]]
    BY <1>3, CompleteFields
  <2> HIDE DEF q
  <2>2. reg.future \in [Calls -> FutureStates]
    BY <1>1 DEF Registry
  <2>3. \A m \in Nodes : <<m, c>> \in reg.waiters => m = target[c]
    BY DEF IndInv, WaitersOfHolder
  <2>4. \A e \in Calls :
          q.future[e] = IF e = c /\ <<n, c>> \in reg.waiters /\ reg.future[c] = "pending"
                        THEN "result" ELSE reg.future[e]
    BY <2>1, <2>2
  <2>5. \A m \in Nodes, e \in Calls :
          <<m, e>> \in q.waiters <=> <<m, e>> \in reg.waiters /\ ~(m = n /\ e = c)
    BY <2>1
  <2>6. Mild(q)
    BY <2>1, <2>3, <2>4, <2>5 DEF Mild
  <2> QED
    BY <2>6 DEF q
<1> QED
  BY <1>2, <1>4, <1>5 DEF t

\* A handler that stays in its loop keeps the invariant.
LEMMA StayKeepsIndInv ==
  ASSUME IndInv, NEW s \in Sessions, Registered(s),
         NEW r, Mild(r), NEW l \in RegisteredPcs,
         reg' = r, Goto(s, l),
         closed' \in {closed, closed \cup {s}}, gone' = gone,
         UNCHANGED <<paired, name, sweepVars, callVars>>
  PROVE  IndInv'
<1> USE DEF Goto, callVars, sweepVars
<1>1. TypeOK'
  BY DEF IndInv, TypeOK, Mild, SessionPcs
<1>2. Named'
  BY DEF IndInv, TypeOK, Named, Registered
<1>3. Sent'
  BY DEF IndInv, Sent, InFlight, Mild
<1>4. KeysUnsettled'
  BY DEF IndInv, KeysUnsettled, Mild
<1>5. SlotHeldByHandler'
  BY DEF IndInv, TypeOK, SlotHeldByHandler, Mild, IsConnected, Registered
<1>6. NoPhantomSession'
  BY DEF IndInv, TypeOK, NoPhantomSession, Mild, Registered
<1>7. WaitersOfHolder' /\ WaiterHasOwner'
  BY DEF IndInv, WaitersOfHolder, WaiterHasOwner, Mild, InFlight
<1>8. PendingOnHolder'
  BY DEF IndInv, PendingOnHolder, Sent, Mild, InFlight
<1> QED
  BY <1>1, <1>2, <1>3, <1>4, <1>5, <1>6, <1>7, <1>8 DEF IndInv

\* A handler that leaves keeps it: if it holds its slot, the slot and every
\* waiter of the name go with it; if it was replaced, nothing else does.
LEMMA LeaveKeepsIndInv ==
  ASSUME IndInv, NEW s \in Sessions, Registered(s),
         NEW r, Mild(r), Leave(s, r),
         UNCHANGED <<paired, name, sweepVars, callVars>>
  PROVE  IndInv'
<1> USE DEF Goto, callVars, sweepVars
<1> DEFINE n == name[s]
           q == Unregister(r, n, s)
<1>1. n \in Nodes /\ r \in Registry
  BY DEF IndInv, Named, Registered, Mild
<1>2. /\ reg' = q
      /\ pc' = [pc EXCEPT ![s] = "done"]
      /\ gone' = gone \cup {s}
      /\ closed' = closed
  BY DEF Leave
<1> HIDE DEF n
<1>3. /\ q \in Registry
      /\ r.connections[n] # s => q = r
      /\ r.connections[n] = s =>
           /\ q.connections = [r.connections EXCEPT ![n] = None]
           /\ q.waiters = {w \in r.waiters : w[1] # n}
           /\ \A c \in Calls :
                q.future[c] = IF <<n, c>> \in r.waiters /\ r.future[c] = "pending"
                              THEN "lost" ELSE r.future[c]
  BY <1>1, UnregisterFields
<1> HIDE DEF q
<1>4. /\ r.connections \in [Nodes -> Sessions \cup {None}]
      /\ r.connections = reg.connections
  BY <1>1 DEF Registry, Mild
<1>5. /\ \A m \in Nodes, c \in Calls :
           <<m, c>> \in q.waiters <=>
             <<m, c>> \in r.waiters /\ (r.connections[n] = s => m # n)
      /\ \A m \in Nodes :
           q.connections[m] = IF m = n /\ r.connections[n] = s
                              THEN None ELSE r.connections[m]
  BY <1>1, <1>3, <1>4
<1>6. \A m \in Nodes, c \in Calls : <<m, c>> \in r.waiters => target[c] = m
  BY DEF IndInv, WaitersOfHolder, Mild
<1>7. TypeOK'
  BY <1>2, <1>3 DEF IndInv, TypeOK, SessionPcs
<1>8. Named'
  BY <1>2 DEF IndInv, TypeOK, Named, RegisteredPcs
<1>9. Sent'
  BY <1>2, <1>3 DEF IndInv, Sent, InFlight, Mild
<1>10. KeysUnsettled'
  <2> SUFFICES ASSUME NEW m \in Nodes, NEW c \in Calls, <<m, c>> \in q.waiters
               PROVE  via[c] \in Sessions /\ q.future[c] \in {"pending", "cancelled"}
    BY <1>2 DEF KeysUnsettled
  <2>1. <<m, c>> \in r.waiters /\ (r.connections[n] = s => m # n)
    BY <1>5
  <2>2. /\ via[c] \in Sessions
        /\ r.future[c] \in {"pending", "cancelled"}
    BY <2>1 DEF IndInv, KeysUnsettled, Mild
  <2>3. q.future[c] = r.future[c]
    BY <1>1, <1>3, <1>6, <2>1
  <2> QED
    BY <2>2, <2>3
<1>11. SlotHeldByHandler'
  <2> SUFFICES ASSUME NEW m \in Nodes, q.connections[m] # None
               PROVE  /\ pc'[q.connections[m]] \in RegisteredPcs
                      /\ name[q.connections[m]] = m
    BY <1>2 DEF SlotHeldByHandler, IsConnected, Registered
  <2>1. /\ q.connections[m] = reg.connections[m]
        /\ m = n => reg.connections[n] # s
    BY <1>1, <1>4, <1>5
  <2>2. /\ Registered(reg.connections[m])
        /\ name[reg.connections[m]] = m
        /\ reg.connections[m] \in Sessions
    BY <1>4, <2>1 DEF IndInv, SlotHeldByHandler, IsConnected
  <2>3. reg.connections[m] # s
    BY <2>1, <2>2 DEF n
  <2> QED
    BY <1>2, <2>1, <2>2, <2>3 DEF Registered, IndInv, TypeOK
<1>12. NoPhantomSession'
  <2> SUFFICES ASSUME NEW t \in Sessions, Registered(t)', q.connections[name[t]] # t
               PROVE  t \in closed
    BY <1>2 DEF NoPhantomSession
  <2>1. t # s /\ Registered(t)
    BY <1>2 DEF Registered, RegisteredPcs, IndInv, TypeOK
  <2>2. name[t] \in Nodes
    BY <2>1 DEF IndInv, Named, Registered
  <2>3. reg.connections[name[t]] # t
    BY <1>4, <1>5, <2>1, <2>2
  <2> QED
    BY <2>1, <2>3 DEF IndInv, NoPhantomSession
<1>13. WaitersOfHolder' /\ WaiterHasOwner'
  BY <1>1, <1>2, <1>4, <1>5 DEF IndInv, WaitersOfHolder, WaiterHasOwner, Mild, InFlight
<1>14. PendingOnHolder'
  <2> SUFFICES ASSUME NEW c \in Calls, callPc[c] \in {"sending", "waiting"},
                      q.future[c] = "pending"
               PROVE  /\ <<target[c], c>> \in q.waiters
                      /\ q.connections[target[c]] = via[c]
    BY <1>2 DEF PendingOnHolder
  <2>1. target[c] \in Nodes
    BY DEF IndInv, Sent, InFlight
  <2>2. /\ r.future[c] = "pending"
        /\ r.connections[n] = s => <<n, c>> \notin r.waiters
    BY <1>3
  <2>3. /\ <<target[c], c>> \in r.waiters
        /\ reg.connections[target[c]] = via[c]
    BY <2>1, <2>2 DEF IndInv, PendingOnHolder, Mild
  <2> QED
    BY <1>4, <1>5, <2>1, <2>2, <2>3
<1> QED
  BY <1>7, <1>8, <1>9, <1>10, <1>11, <1>12, <1>13, <1>14 DEF IndInv

\* A handler about to loop, or about to deny a message, keeps it.
LEMMA LoopKeepsIndInv ==
  ASSUME IndInv, NEW s \in Sessions, Registered(s),
         NEW r, Mild(r), Proceed(s, r) \/ Deny(s, r),
         UNCHANGED <<paired, name, sweepVars, callVars>>
  PROVE  IndInv'
<1>1. CASE s \in closed
  BY <1>1, LeaveKeepsIndInv DEF Proceed, Deny
<1>2. CASE s \notin closed
  <2>1. PICK l \in {"recv", "limited"} :
          reg' = r /\ Goto(s, l) /\ UNCHANGED <<closed, gone>>
    BY <1>2 DEF Proceed, Deny
  <2>2. l \in RegisteredPcs
    BY DEF RegisteredPcs
  <2> QED
    BY <2>1, <2>2, StayKeepsIndInv
<1> QED
  BY <1>1, <1>2

\* A handler that is not registered yet touches nothing the others rely on.
LEMMA HandshakeKeepsIndInv ==
  ASSUME IndInv, NEW s \in Sessions, pc[s] \in {"new", "hello", "auth"},
         NEW l \in {"hello", "auth", "done"}, Goto(s, l),
         \/ name' = name /\ l # "auth"
         \/ \E n \in Nodes : name' = [name EXCEPT ![s] = n],
         closed' \in {closed, closed \cup {s}},
         UNCHANGED <<reg, paired, gone, sweepVars, callVars>>
  PROVE  IndInv'
<1> USE DEF Goto, callVars, sweepVars
<1>1. ~Registered(s)
  BY DEF Registered, RegisteredPcs
<1>2. TypeOK'
  BY DEF IndInv, TypeOK, SessionPcs
<1>3. Named'
  BY DEF IndInv, TypeOK, Named, RegisteredPcs
<1>4. Sent' /\ KeysUnsettled'
  BY DEF IndInv, Sent, KeysUnsettled, InFlight
<1>5. SlotHeldByHandler'
  BY <1>1 DEF IndInv, TypeOK, Registry, SlotHeldByHandler, IsConnected, Registered
<1>6. NoPhantomSession'
  BY <1>1 DEF IndInv, TypeOK, NoPhantomSession, Registered, RegisteredPcs
<1>7. WaitersOfHolder' /\ WaiterHasOwner' /\ PendingOnHolder'
  BY DEF IndInv, WaitersOfHolder, WaiterHasOwner, PendingOnHolder, InFlight
<1> QED
  BY <1>2, <1>3, <1>4, <1>5, <1>6, <1>7 DEF IndInv

\* Registering keeps it: the previous holder's waiters are gone before anyone
\* else runs, and its socket is closed in the same step.
LEMMA RecvAuthKeepsIndInv ==
  ASSUME IndInv, NEW s \in Sessions, RecvAuth(s)
  PROVE  IndInv'
<1> USE DEF callVars, sweepVars
<1> DEFINE n == name[s]
           q == Register(reg, n, s)
           previous == reg.connections[n]
<1>1. n \in Nodes /\ reg \in Registry /\ pc[s] = "auth"
  BY DEF IndInv, TypeOK, Named, RecvAuth
<1>2. PICK l \in {"authOk", "replacing"} : pc' = [pc EXCEPT ![s] = l]
  BY DEF RecvAuth, Goto
<1>3. /\ reg' = q
      /\ closed \subseteq closed'
      /\ closed' \subseteq closed \cup {previous}
      /\ previous # None => previous \in closed'
      /\ UNCHANGED <<paired, name, gone, sweepVars, callVars>>
  BY DEF RecvAuth
<1>4. l \in RegisteredPcs /\ ~Registered(s)
  BY <1>1, <1>2 DEF RegisteredPcs, Registered
<1> HIDE DEF n
<1>5. /\ q \in Registry
      /\ q.connections = [reg.connections EXCEPT ![n] = s]
      /\ reg.connections[n] \in {None, s} =>
           q.waiters = reg.waiters /\ q.future = reg.future
      /\ reg.connections[n] \notin {None, s} =>
           /\ q.waiters = {w \in reg.waiters : w[1] # n}
           /\ \A c \in Calls :
                q.future[c] = IF <<n, c>> \in reg.waiters /\ reg.future[c] = "pending"
                              THEN "lost" ELSE reg.future[c]
  BY <1>1, RegisterFields
<1> HIDE DEF q
<1>6. /\ reg.connections \in [Nodes -> Sessions \cup {None}]
      /\ previous # s
      /\ previous \in Sessions \cup {None}
  <2>1. reg.connections \in [Nodes -> Sessions \cup {None}]
    BY <1>1 DEF Registry
  <2>2. previous \in Sessions \cup {None}
    BY <1>1, <2>1
  <2>3. ASSUME previous = s PROVE FALSE
    <3>1. reg.connections[n] # None
      BY <2>3, NoneAssumption
    <3> QED
      BY <1>1, <1>4, <2>3, <3>1 DEF IndInv, SlotHeldByHandler, IsConnected
  <2> QED
    BY <2>1, <2>2, <2>3
<1>7. \A m \in Nodes, c \in Calls :
        <<m, c>> \in reg.waiters => target[c] = m /\ via[c] = reg.connections[m]
                                   /\ via[c] # None
  BY NoneAssumption DEF IndInv, WaitersOfHolder, KeysUnsettled
<1>8. \A m \in Nodes, c \in Calls :
        <<m, c>> \in q.waiters <=> <<m, c>> \in reg.waiters /\ m # n
  <2>1. CASE previous = None
    BY <1>1, <1>5, <1>7, <2>1
  <2>2. CASE previous # None
    BY <1>5, <1>6, <2>2
  <2> QED
    BY <2>1, <2>2
<1>9. /\ \A m \in Nodes :
           q.connections[m] = IF m = n THEN s ELSE reg.connections[m]
      /\ \A c \in Calls :
           q.future[c] = IF <<n, c>> \in reg.waiters /\ reg.future[c] = "pending"
                         THEN "lost" ELSE reg.future[c]
  BY <1>1, <1>5, <1>6, <1>7
<1>10. TypeOK'
  <2>1. closed' \in SUBSET Sessions
    BY <1>3, <1>6 DEF IndInv, TypeOK, RecvAuth
  <2> QED
    BY <1>2, <1>3, <1>4, <1>5, <2>1 DEF IndInv, TypeOK, SessionPcs
<1>11. Named'
  BY <1>1, <1>2, <1>3 DEF IndInv, TypeOK, Named, n
<1>12. Sent'
  BY <1>3, <1>9 DEF IndInv, Sent, InFlight
<1>13. KeysUnsettled'
  <2> SUFFICES ASSUME NEW m \in Nodes, NEW c \in Calls, <<m, c>> \in q.waiters
               PROVE  via[c] \in Sessions /\ q.future[c] \in {"pending", "cancelled"}
    BY <1>3 DEF KeysUnsettled
  <2>1. <<m, c>> \in reg.waiters /\ m # n
    BY <1>8
  <2>2. <<n, c>> \notin reg.waiters
    BY <1>1, <1>7, <2>1
  <2> QED
    BY <1>9, <2>1, <2>2 DEF IndInv, KeysUnsettled
<1>14. SlotHeldByHandler'
  BY <1>1, <1>2, <1>3, <1>4, <1>6, <1>9
     DEF IndInv, TypeOK, SlotHeldByHandler, IsConnected, Registered, n
<1>15. NoPhantomSession'
  <2> SUFFICES ASSUME NEW t \in Sessions, pc'[t] \in RegisteredPcs,
                      q.connections[name[t]] # t
               PROVE  t \in closed'
    BY <1>3 DEF NoPhantomSession, Registered
  <2>1. t # s /\ Registered(t)
    BY <1>1, <1>2, <1>9 DEF Registered, IndInv, TypeOK, n
  <2>2. name[t] \in Nodes
    BY <2>1 DEF IndInv, Named, Registered
  <2>3. CASE reg.connections[name[t]] = t
    BY <1>3, <1>6, <1>9, <2>2, <2>3, NoneAssumption
  <2>4. CASE reg.connections[name[t]] # t
    BY <1>3, <2>1, <2>4 DEF IndInv, NoPhantomSession
  <2> QED
    BY <2>3, <2>4
<1>16. WaitersOfHolder' /\ WaiterHasOwner'
  BY <1>3, <1>8, <1>9 DEF IndInv, WaitersOfHolder, WaiterHasOwner, InFlight
<1>17. PendingOnHolder'
  BY <1>3, <1>7, <1>8, <1>9 DEF IndInv, PendingOnHolder, Sent, InFlight
<1> QED
  BY <1>10, <1>11, <1>12, <1>13, <1>14, <1>15, <1>16, <1>17 DEF IndInv

(***************************************************************************)
(* Steps of a call, of the sweep and of the environment.                   *)
(***************************************************************************)

\* Steps that leave the slots and the handlers alone.
LEMMA SlotsFrame ==
  ASSUME IndInv, reg'.connections = reg.connections,
         pc' = pc, name' = name, closed \subseteq closed'
  PROVE  Named' /\ SlotHeldByHandler' /\ NoPhantomSession'
  BY DEF IndInv, Named, SlotHeldByHandler, NoPhantomSession, IsConnected, Registered

\* Steps that touch, of the registry, only the heartbeats.
LEMMA FrameKeepsIndInv ==
  ASSUME IndInv, reg' \in Registry,
         reg'.connections = reg.connections,
         reg'.waiters = reg.waiters, reg'.future = reg.future,
         UNCHANGED <<pc, name, callVars>>,
         closed \subseteq closed', closed' \subseteq Sessions, gone' \subseteq Sessions,
         paired' \subseteq Nodes, sweepQueue' \subseteq Sessions,
         sweepBusy' \in Sessions \cup {None}
  PROVE  IndInv'
<1> USE DEF callVars
<1>1. TypeOK'
  BY DEF IndInv, TypeOK
<1>2. Named' /\ SlotHeldByHandler' /\ NoPhantomSession'
  BY SlotsFrame
<1>3. Sent' /\ KeysUnsettled'
  BY DEF IndInv, Sent, KeysUnsettled, InFlight
<1>4. WaitersOfHolder' /\ WaiterHasOwner' /\ PendingOnHolder'
  BY DEF IndInv, WaitersOfHolder, WaiterHasOwner, PendingOnHolder, InFlight
<1> QED
  BY <1>1, <1>2, <1>3, <1>4 DEF IndInv

\* A step of one call that moves it on, keeps the slots and the other calls'
\* waiters, and leaves a key of its own only if it goes on or is cancelled.
LEMMA CallKeepsIndInv ==
  ASSUME IndInv, NEW c \in Calls, InFlight(c),
         NEW l \in {"waiting", "expired", "done"}, callPc' = [callPc EXCEPT ![c] = l],
         NEW o \in Outcomes, outcome' = [outcome EXCEPT ![c] = o],
         reg' \in Registry, reg'.connections = reg.connections,
         \A n \in Nodes, d \in Calls :
           d # c => (<<n, d>> \in reg'.waiters <=> <<n, d>> \in reg.waiters),
         \A d \in Calls : d # c => reg'.future[d] = reg.future[d],
         \A n \in Nodes :
           <<n, c>> \in reg'.waiters =>
             /\ <<n, c>> \in reg.waiters
             /\ l = "done" => o = "cancelled"
             /\ reg'.future[c] \in {"pending", "cancelled"},
         l = "waiting" => callPc[c] = "sending" /\ reg' = reg,
         UNCHANGED <<paired, target, via, sessionVars, sweepVars>>
  PROVE  IndInv'
<1> USE DEF sessionVars, sweepVars
<1>1. TypeOK'
  BY DEF IndInv, TypeOK, CallPcs
<1>2. Named' /\ SlotHeldByHandler' /\ NoPhantomSession'
  BY SlotsFrame
<1>3. /\ \A d \in Calls : callPc'[d] = IF d = c THEN l ELSE callPc[d]
      /\ \A d \in Calls : outcome'[d] = IF d = c THEN o ELSE outcome[d]
  BY DEF IndInv, TypeOK
<1>4. Sent'
  BY <1>3 DEF IndInv, Sent, InFlight
<1>5. KeysUnsettled'
  BY DEF IndInv, KeysUnsettled
<1>6. WaitersOfHolder'
  BY DEF IndInv, WaitersOfHolder
<1>7. WaiterHasOwner'
  BY <1>3 DEF IndInv, WaiterHasOwner, InFlight
<1>8. PendingOnHolder'
  <2> SUFFICES ASSUME NEW d \in Calls, callPc'[d] \in {"sending", "waiting"},
                      reg'.future[d] = "pending"
               PROVE  /\ <<target[d], d>> \in reg'.waiters
                      /\ reg.connections[target[d]] = via[d]
    BY DEF PendingOnHolder
  <2>1. target[d] \in Nodes
    BY <1>3 DEF IndInv, Sent, InFlight
  <2>2. CASE d = c
    BY <1>3, <2>2 DEF IndInv, PendingOnHolder, Sent, InFlight
  <2>3. CASE d # c
    BY <1>3, <2>1, <2>3 DEF IndInv, PendingOnHolder
  <2> QED
    BY <2>2, <2>3
<1> QED
  BY <1>1, <1>2, <1>4, <1>5, <1>6, <1>7, <1>8 DEF IndInv

\* Starting a request adds a key for the session that holds the slot.
LEMMA StartKeepsIndInv ==
  ASSUME IndInv, NEW c \in Calls, NEW n \in Nodes, StartCall(c, n)
  PROVE  IndInv'
<1> USE DEF sessionVars, sweepVars
<1> DEFINE conn == reg.connections[n]
           r == RegisterWaiter(reg, n, c)
<1>1. /\ callPc[c] = "idle"
      /\ target' = [target EXCEPT ![c] = n]
      /\ UNCHANGED <<paired, sessionVars, sweepVars>>
  BY DEF StartCall
<1>2. \A m \in Nodes : <<m, c>> \notin reg.waiters
  BY <1>1 DEF IndInv, WaiterHasOwner, InFlight
<1>3. reg \in Registry /\ conn \in Sessions \cup {None}
  <2>1. reg \in Registry
    BY DEF IndInv, TypeOK
  <2>2. reg.connections \in [Nodes -> Sessions \cup {None}]
    BY <2>1 DEF Registry
  <2> QED
    BY <2>1, <2>2
<1>4. \A d \in Calls : target'[d] = IF d = c THEN n ELSE target[d]
  BY <1>1 DEF IndInv, TypeOK
<1>5. /\ r \in Registry
      /\ r.connections = reg.connections
      /\ r.waiters = reg.waiters \cup {<<n, c>>}
      /\ r.future = [reg.future EXCEPT ![c] = "pending"]
  BY <1>3, RegisterWaiterFields
<1> HIDE DEF r
<1> DEFINE u == UnregisterWaiter(r, n, c)
<1>9. /\ u \in Registry
      /\ u.connections = r.connections
      /\ u.waiters = r.waiters \ {<<n, c>>}
      /\ u.future = r.future
  BY <1>5, UnregisterWaiterFields
<1> HIDE DEF u
<1>6. reg.future \in [Calls -> FutureStates]
  BY <1>3 DEF Registry
<1>7. CASE \/ conn = None
           \/ conn # None /\ conn \in closed
  <2>1. PICK o \in {"not_connected", "send_failed"} :
          /\ callPc' = [callPc EXCEPT ![c] = "done"]
          /\ outcome' = [outcome EXCEPT ![c] = o]
          /\ via' = via
    BY <1>7 DEF StartCall, EndCall
  <2>2. reg' = reg \/ reg' = u
    BY <1>7 DEF StartCall, r, u
  <2>3. /\ reg' \in Registry
        /\ reg'.connections = reg.connections
        /\ reg'.waiters = reg.waiters
        /\ \A d \in Calls : d # c => reg'.future[d] = reg.future[d]
    BY <1>2, <1>3, <1>5, <1>6, <1>9, <2>2
  <2>4. /\ \A d \in Calls : callPc'[d] = IF d = c THEN "done" ELSE callPc[d]
        /\ \A d \in Calls : outcome'[d] = IF d = c THEN o ELSE outcome[d]
    BY <2>1 DEF IndInv, TypeOK
  <2>5. TypeOK'
    BY <1>1, <2>1, <2>3 DEF IndInv, TypeOK, CallPcs, Outcomes
  <2>6. Named' /\ SlotHeldByHandler' /\ NoPhantomSession'
    BY <1>1, <2>3, SlotsFrame
  <2>7. Sent' /\ KeysUnsettled'
    BY <1>2, <1>4, <2>1, <2>3, <2>4 DEF IndInv, Sent, KeysUnsettled, InFlight
  <2>8. WaitersOfHolder' /\ WaiterHasOwner'
    BY <1>2, <1>4, <2>1, <2>3, <2>4
       DEF IndInv, WaitersOfHolder, WaiterHasOwner, InFlight
  <2>9. PendingOnHolder'
    BY <1>4, <2>1, <2>3, <2>4 DEF IndInv, PendingOnHolder
  <2> QED
    BY <2>5, <2>6, <2>7, <2>8, <2>9 DEF IndInv
<1>8. CASE conn # None /\ conn \notin closed
  <2>1. /\ reg' = r
        /\ via' = [via EXCEPT ![c] = conn]
        /\ callPc' = [callPc EXCEPT ![c] = "sending"]
        /\ outcome' = outcome
    BY <1>8 DEF StartCall, r
  <2>2. /\ \A d \in Calls : callPc'[d] = IF d = c THEN "sending" ELSE callPc[d]
        /\ \A d \in Calls : via'[d] = IF d = c THEN conn ELSE via[d]
        /\ \A d \in Calls : r.future[d] = IF d = c THEN "pending" ELSE reg.future[d]
        /\ \A m \in Nodes, d \in Calls :
             <<m, d>> \in r.waiters <=> <<m, d>> \in reg.waiters \/ (m = n /\ d = c)
    BY <1>5, <1>6, <2>1 DEF IndInv, TypeOK
  <2>3. TypeOK'
    BY <1>1, <1>3, <1>5, <1>8, <2>1 DEF IndInv, TypeOK, CallPcs
  <2>4. Named' /\ SlotHeldByHandler' /\ NoPhantomSession'
    BY <1>1, <1>5, <2>1, SlotsFrame
  <2>5. Sent' /\ KeysUnsettled'
    BY <1>2, <1>3, <1>4, <1>8, <2>1, <2>2 DEF IndInv, Sent, KeysUnsettled, InFlight
  <2>6. WaitersOfHolder' /\ WaiterHasOwner'
    BY <1>2, <1>4, <1>5, <2>1, <2>2
       DEF IndInv, WaitersOfHolder, WaiterHasOwner, InFlight
  <2>7. PendingOnHolder'
    <3> SUFFICES ASSUME NEW d \in Calls, callPc'[d] \in {"sending", "waiting"},
                        r.future[d] = "pending"
                 PROVE  /\ <<target'[d], d>> \in r.waiters
                        /\ reg.connections[target'[d]] = via'[d]
      BY <1>5, <2>1 DEF PendingOnHolder
    <3>1. CASE d = c
      BY <1>4, <1>5, <2>2, <3>1
    <3>2. CASE d # c
      BY <1>4, <1>5, <2>2, <3>2 DEF IndInv, PendingOnHolder
    <3> QED
      BY <3>1, <3>2
  <2> QED
    BY <2>3, <2>4, <2>5, <2>6, <2>7 DEF IndInv
<1> QED
  BY <1>7, <1>8

\* Every step of a call keeps the invariant.
LEMMA CallStepKeepsIndInv ==
  ASSUME IndInv, NEW c \in Calls, CallStep(c)
  PROVE  IndInv'
<1> USE DEF sessionVars, sweepVars
<1>1. /\ reg \in Registry
      /\ reg.future \in [Calls -> FutureStates]
  BY DEF IndInv, TypeOK, Registry
<1>2. \A n \in Nodes : <<n, c>> \in reg.waiters =>
        n = target[c] /\ reg.future[c] \in {"pending", "cancelled"}
  BY DEF IndInv, WaitersOfHolder, KeysUnsettled
<1>4. ASSUME InFlight(c)
      PROVE  target[c] \in Nodes
  BY <1>4 DEF IndInv, Sent
<1>5. ASSUME NEW n \in Nodes, StartCall(c, n) PROVE IndInv'
  BY <1>5, StartKeepsIndInv
<1>6. ASSUME InFlight(c), reg.future[c] \in {"result", "lost"}, Settle(c),
             UNCHANGED <<reg, paired, target, via, sessionVars, sweepVars>>
      PROVE  IndInv'
  <2>1. PICK o \in Outcomes : outcome' = [outcome EXCEPT ![c] = o]
    BY <1>6 DEF Settle, EndCall, Outcomes
  <2>2. callPc' = [callPc EXCEPT ![c] = "done"]
    BY <1>6 DEF Settle, EndCall
  <2> QED
    BY <1>1, <1>2, <1>6, <2>1, <2>2, CallKeepsIndInv
<1>7. CASE SendDone(c)
  <2>1. InFlight(c) /\ reg.future[c] \in {"pending", "result", "lost"}
    BY <1>7 DEF SendDone, InFlight, IndInv, Sent
  <2>2. CASE reg.future[c] = "pending"
    <3>1. /\ callPc[c] = "sending"
          /\ callPc' = [callPc EXCEPT ![c] = "waiting"]
          /\ outcome' = [outcome EXCEPT ![c] = outcome[c]]
          /\ outcome[c] \in Outcomes
          /\ UNCHANGED <<reg, paired, target, via, sessionVars, sweepVars>>
      BY <1>7, <2>2 DEF SendDone, IndInv, TypeOK
    <3> QED
      BY <1>1, <1>2, <2>1, <2>2, <3>1, CallKeepsIndInv
  <2>3. CASE reg.future[c] # "pending"
    BY <1>6, <1>7, <2>1, <2>3 DEF SendDone
  <2> QED
    BY <2>2, <2>3
<1>8. CASE Resume(c)
  BY <1>6, <1>8 DEF Resume, InFlight
<1>9. ASSUME InFlight(c), reg' = UnregisterWaiter(reg, target[c], c),
             NEW o \in Outcomes, EndCall(c, o),
             UNCHANGED <<paired, target, via, sessionVars, sweepVars>>
      PROVE  IndInv'
  <2>1. /\ reg' \in Registry
        /\ reg'.connections = reg.connections
        /\ reg'.waiters = reg.waiters \ {<<target[c], c>>}
        /\ reg'.future = reg.future
    <3>1. target[c] \in Nodes
      BY <1>4, <1>9
    <3> QED
      BY <1>1, <1>9, <3>1, UnregisterWaiterFields
  <2>2. /\ callPc' = [callPc EXCEPT ![c] = "done"]
        /\ outcome' = [outcome EXCEPT ![c] = o]
    BY <1>9 DEF EndCall
  <2> QED
    BY <1>2, <1>9, <2>1, <2>2, CallKeepsIndInv
<1>10. CASE SendFailed(c)
  BY <1>9, <1>10 DEF SendFailed, InFlight, Outcomes
<1>11. CASE TimedOut(c)
  BY <1>9, <1>11 DEF TimedOut, InFlight, Outcomes
<1>12. /\ CancelFuture(reg, c) \in Registry
       /\ CancelFuture(reg, c).connections = reg.connections
       /\ CancelFuture(reg, c).waiters = reg.waiters
       /\ \A d \in Calls : d # c => CancelFuture(reg, c).future[d] = reg.future[d]
       /\ reg.future[c] \in {"pending", "cancelled"} =>
            CancelFuture(reg, c).future[c] \in {"pending", "cancelled"}
  <2>1. /\ CancelFuture(reg, c) \in Registry
        /\ CancelFuture(reg, c).connections = reg.connections
        /\ CancelFuture(reg, c).waiters = reg.waiters
        /\ CancelFuture(reg, c).future =
             [reg.future EXCEPT ![c] = IF reg.future[c] = "pending"
                                       THEN "cancelled" ELSE reg.future[c]]
    BY <1>1 DEF CancelFuture, Registry, FutureStates
  <2> QED
    BY <1>1, <2>1
<1>13. CASE TimerFires(c)
  <2>1. /\ InFlight(c)
        /\ callPc' = [callPc EXCEPT ![c] = "expired"]
        /\ outcome' = [outcome EXCEPT ![c] = outcome[c]]
        /\ outcome[c] \in Outcomes
        /\ reg' = CancelFuture(reg, c)
        /\ UNCHANGED <<paired, target, via, sessionVars, sweepVars>>
    BY <1>13 DEF TimerFires, InFlight, IndInv, TypeOK
  <2> QED
    BY <1>2, <1>12, <2>1, CallKeepsIndInv
<1>14. CASE CancelCaller(c)
  <2>1. /\ InFlight(c)
        /\ callPc' = [callPc EXCEPT ![c] = "done"]
        /\ outcome' = [outcome EXCEPT ![c] = "cancelled"]
        /\ "cancelled" \in Outcomes
        /\ reg' \in {reg, CancelFuture(reg, c)}
        /\ UNCHANGED <<paired, target, via, sessionVars, sweepVars>>
    BY <1>14 DEF CancelCaller, EndCall, InFlight, Outcomes
  <2> QED
    BY <1>1, <1>2, <1>12, <2>1, CallKeepsIndInv
<1> QED
  BY <1>5, <1>7, <1>8, <1>10, <1>11, <1>13, <1>14 DEF CallStep

\* Every step of a connection's handler keeps the invariant.
LEMMA SessionStepKeepsIndInv ==
  ASSUME IndInv, NEW s \in Sessions, SessionStep(s)
  PROVE  IndInv'
<1>1. ASSUME Registered(s) PROVE name[s] \in Nodes
  BY <1>1 DEF IndInv, Named, Registered
<1>2. CASE Accept(s)
  BY <1>2, HandshakeKeepsIndInv DEF Accept
<1>3. ASSUME NEW n \in Nodes, RecvHello(s, n) PROVE IndInv'
  BY <1>3, HandshakeKeepsIndInv DEF RecvHello
<1>4. CASE Reject(s)
  BY <1>4, HandshakeKeepsIndInv DEF Reject
<1>5. CASE RecvAuth(s)
  BY <1>5, RecvAuthKeepsIndInv
<1>6. CASE PreviousClosed(s)
  <2>1. Registered(s) /\ "authOk" \in RegisteredPcs
    BY <1>6 DEF PreviousClosed, Registered, RegisteredPcs
  <2>2. Mild(reg)
    BY <1>1, <2>1, MessagesAreMild
  <2>3. CASE s \in closed
    BY <1>6, <2>1, <2>2, <2>3, LeaveKeepsIndInv DEF PreviousClosed
  <2>4. CASE s \notin closed
    BY <1>6, <2>1, <2>2, <2>4, StayKeepsIndInv DEF PreviousClosed
  <2> QED
    BY <2>3, <2>4
<1>7. CASE AuthOkSent(s) \/ PongSent(s)
  <2>1. /\ Registered(s)
        /\ Proceed(s, reg) \/ Deny(s, reg)
        /\ UNCHANGED <<paired, name, sweepVars, callVars>>
    BY <1>7 DEF AuthOkSent, PongSent, Registered, RegisteredPcs
  <2> QED
    BY <1>1, <2>1, MessagesAreMild, LoopKeepsIndInv
<1>8. CASE Disconnect(s) \/ LimitClosed(s)
  <2>1. /\ Registered(s)
        /\ Leave(s, reg)
        /\ UNCHANGED <<paired, name, sweepVars, callVars>>
    BY <1>8 DEF Disconnect, LimitClosed, Registered, RegisteredPcs
  <2> QED
    BY <1>1, <2>1, MessagesAreMild, LeaveKeepsIndInv
<1>9. CASE RecvMalformed(s)
  <2>1. /\ Registered(s)
        /\ UNCHANGED <<paired, name, sweepVars, callVars>>
    BY <1>9 DEF RecvMalformed, Registered, RegisteredPcs
  <2>2. PICK r \in {reg, TouchHeartbeat(reg, name[s])} : Leave(s, r)
    BY <1>9 DEF RecvMalformed
  <2>3. Mild(r)
    BY <1>1, <2>1, MessagesAreMild
  <2> QED
    BY <2>1, <2>2, <2>3, LeaveKeepsIndInv
<1>10. CASE RecvPing(s)
  <2> DEFINE r == TouchHeartbeat(reg, name[s])
  <2>1. /\ Registered(s) /\ "pong" \in RegisteredPcs
        /\ UNCHANGED <<paired, name, sweepVars, callVars>>
    BY <1>10 DEF RecvPing, Registered, RegisteredPcs
  <2>2. Mild(r)
    BY <1>1, <2>1, MessagesAreMild
  <2>3. \/ Leave(s, r)
        \/ reg' = r /\ Goto(s, "pong") /\ UNCHANGED <<closed, gone>>
    BY <1>10 DEF RecvPing
  <2> HIDE DEF r
  <2> QED
    BY <2>1, <2>2, <2>3, LeaveKeepsIndInv, StayKeepsIndInv
<1>11. ASSUME NEW c \in Calls, RecvResult(s, c) PROVE IndInv'
  <2>1. /\ Registered(s)
        /\ Proceed(s, CompleteWaiter(TouchHeartbeat(reg, name[s]), name[s], c))
        /\ UNCHANGED <<paired, name, sweepVars, callVars>>
    BY <1>11 DEF RecvResult, Registered, RegisteredPcs
  <2> QED
    BY <1>1, <2>1, MessagesAreMild, LoopKeepsIndInv
<1>12. CASE RecvOther(s) \/ RecvOverLimit(s)
  <2> DEFINE r == TouchHeartbeat(reg, name[s])
  <2>1. /\ Registered(s)
        /\ Proceed(s, r) \/ Deny(s, r)
        /\ UNCHANGED <<paired, name, sweepVars, callVars>>
    BY <1>12 DEF RecvOther, RecvOverLimit, Registered, RegisteredPcs
  <2> QED
    BY <1>1, <2>1, MessagesAreMild, LoopKeepsIndInv
<1>13. CASE LimitNotified(s)
  <2>1. /\ Registered(s) /\ "closing" \in RegisteredPcs
        /\ UNCHANGED <<paired, name, sweepVars, callVars>>
    BY <1>13 DEF LimitNotified, Registered, RegisteredPcs
  <2>2. Mild(reg)
    BY <1>1, <2>1, MessagesAreMild
  <2>3. CASE s \in closed
    BY <1>13, <2>1, <2>2, <2>3, LeaveKeepsIndInv DEF LimitNotified
  <2>4. CASE s \notin closed
    BY <1>13, <2>1, <2>2, <2>4, StayKeepsIndInv DEF LimitNotified
  <2> QED
    BY <2>3, <2>4
<1> QED
  BY <1>2, <1>3, <1>4, <1>5, <1>6, <1>7, <1>8, <1>9, <1>10, <1>11, <1>12, <1>13
     DEF SessionStep
\* Every step keeps the invariant.
LEMMA NextKeepsIndInv == IndInv /\ [Next]_vars => IndInv'
<1> SUFFICES ASSUME IndInv, [Next]_vars PROVE IndInv'
  OBVIOUS
<1>1. ASSUME NEW s \in Sessions, SessionStep(s) PROVE IndInv'
  BY <1>1, SessionStepKeepsIndInv
<1>2. ASSUME NEW c \in Calls, CallStep(c) PROVE IndInv'
  BY <1>2, CallStepKeepsIndInv
<1>3. reg \in Registry
  BY DEF IndInv, TypeOK
<1>4. ASSUME SweepStep PROVE IndInv'
  <2>1. Stale(reg) \subseteq Sessions
    BY <1>3 DEF Stale, Registry, IsConnected
  <2>2. \E candidates \in SUBSET Sessions : SweepOn(candidates)
    BY <1>4, <2>1 DEF SweepStep, SweepTick, SweepClosed, IndInv, TypeOK
  <2>3. /\ closed \subseteq closed' /\ closed' \subseteq Sessions
        /\ sweepQueue' \subseteq Sessions
        /\ sweepBusy' \in Sessions \cup {None}
    BY <2>2 DEF SweepOn, IndInv, TypeOK
  <2>4. UNCHANGED <<reg, paired, pc, name, gone, callVars>>
    BY <1>4 DEF SweepStep, SweepTick, SweepClosed
  <2> QED
    BY <1>3, <2>3, <2>4, FrameKeepsIndInv DEF IndInv, TypeOK
<1>5. ASSUME EnvironmentStep PROVE IndInv'
  <2>1. ASSUME NEW n \in Nodes, HeartbeatLapses(n) PROVE IndInv'
    <3>1. /\ reg' \in Registry
          /\ reg'.connections = reg.connections
          /\ reg'.waiters = reg.waiters
          /\ reg'.future = reg.future
      BY <1>3, <2>1 DEF HeartbeatLapses, Registry
    <3> QED
      BY <2>1, <3>1, FrameKeepsIndInv
         DEF HeartbeatLapses, sessionVars, sweepVars, IndInv, TypeOK
  <2>2. ASSUME NEW n \in Nodes, Pair(n) \/ Revoke(n) PROVE IndInv'
    BY <1>3, <2>2, FrameKeepsIndInv
       DEF Pair, Revoke, sessionVars, sweepVars, IndInv, TypeOK
  <2>3. ASSUME NEW s \in Sessions, PeerGone(s) PROVE IndInv'
    BY <1>3, <2>3, FrameKeepsIndInv DEF PeerGone, sweepVars, IndInv, TypeOK
  <2> QED
    BY <1>5, <2>1, <2>2, <2>3 DEF EnvironmentStep
<1>6. CASE UNCHANGED vars
  BY <1>3, <1>6, FrameKeepsIndInv DEF vars, sessionVars, sweepVars, IndInv, TypeOK
<1> QED
  BY <1>1, <1>2, <1>4, <1>5, <1>6 DEF Next

(***************************************************************************)
(* The theorems.                                                           *)
(***************************************************************************)

\* The inductive invariant holds of every behaviour of the server.
THEOREM SpecIndInv == Spec => []IndInv
<1>1. Init => IndInv
  BY InitIndInv
<1>2. IndInv /\ [Next]_vars => IndInv'
  BY NextKeepsIndInv
<1> QED
  BY <1>1, <1>2, PTL DEF Spec

\* Every variable keeps its type.
THEOREM TypeCorrect == Spec => []TypeOK
<1>1. IndInv => TypeOK
  BY DEF IndInv
<1> QED
  BY <1>1, SpecIndInv, PTL

\* No entry of the table of connections outlives the handler that made it
\* (the finally block of node_ws_endpoint and the session guard of unregister).
THEOREM SlotsAreHeld == Spec => []SlotHeldByHandler
<1>1. IndInv => SlotHeldByHandler
  BY DEF IndInv
<1> QED
  BY <1>1, SpecIndInv, PTL

\* A session that is replaced by a newer one of its name is closed.
THEOREM NoPhantoms == Spec => []NoPhantomSession
<1>1. IndInv => NoPhantomSession
  BY DEF IndInv
<1> QED
  BY <1>1, SpecIndInv, PTL

\* No key of the waiter table is left from a session that lost its slot.
THEOREM WaitersFollowSlot == Spec => []WaitersOfHolder
<1>1. IndInv => WaitersOfHolder
  BY DEF IndInv
<1> QED
  BY <1>1, SpecIndInv, PTL

\* Only the request of a cancelled caller can leave its key behind.
THEOREM WaitersAreOwned == Spec => []WaiterHasOwner
<1>1. IndInv => WaiterHasOwner
  BY DEF IndInv
<1> QED
  BY <1>1, SpecIndInv, PTL

\* No caller waits on a session that can no longer answer: while its future
\* is pending, the session its request was written to holds the slot and the
\* waiter table has its key.
THEOREM PendingCanBeWoken == Spec => []PendingOnHolder
<1>1. IndInv => PendingOnHolder
  BY DEF IndInv
<1> QED
  BY <1>1, SpecIndInv, PTL
============================================================================
