--------------------------- MODULE NodeRegistry ---------------------------
(***************************************************************************)
(* The in-memory table of live node connections and of the futures of the  *)
(* requests in flight: class NodeRegistry of src/registry.py.              *)
(*                                                                         *)
(* Every method of the class takes the asyncio lock, but none awaits while *)
(* holding it, so the lock is never contended and taking it never gives    *)
(* the event loop to another task: each method, and a chain of calls with  *)
(* nothing else awaited in between, is one step of the loop.  A method is  *)
(* therefore a function of the registry's state, and a task that calls     *)
(* several of them before it next suspends composes the functions.         *)
(*                                                                         *)
(* A session stands for the NodeConnection object and its websocket, which *)
(* session_id identifies; a call stands for its request id (a UUIDv4, so   *)
(* never reused).  last_heartbeat is kept only as far as the code reads    *)
(* it: whether it is older than the staleness threshold.                   *)
(***************************************************************************)

CONSTANTS Nodes,      \* names a node can be paired under
          Sessions,   \* WebSocket connections, by session_id
          Calls,      \* requests, by request id
          None        \* Python's None

ASSUME NoneAssumption == None \notin Sessions /\ None \notin Nodes

FutureStates == {"none", "pending", "result", "lost", "cancelled"}

\* connections: the session that holds each name's slot; overdue: the names
\* whose entry has a last_heartbeat past the cutoff; waiters: the keys
\* (name, request id) of the waiter table; future: the state of the future
\* made for each request.
Registry == [connections : [Nodes -> Sessions \cup {None}],
             overdue     : SUBSET Nodes,
             waiters     : SUBSET (Nodes \X Calls),
             future      : [Calls -> FutureStates]]

EmptyRegistry == [connections |-> [n \in Nodes |-> None],
                  overdue     |-> {},
                  waiters     |-> {},
                  future      |-> [c \in Calls |-> "none"]]

---------------------------------------------------------------------------
IsConnected(r, n) == r.connections[n] # None

\* Variant for the checks: the keys are popped and nobody is woken.
PopNodeWaiters(r, n) == [r EXCEPT !.waiters = {w \in @ : w[1] # n}]

\* Variant for the checks: the waiters of every name are failed.
FailAllWaiters(r, n) ==
  [r EXCEPT !.waiters = {},
            !.future  = [c \in Calls |-> IF @[c] = "pending" THEN "lost" ELSE @[c]]]

\* Pops every key of the node, then wakes each future still pending with
\* _WaiterCancelled ("lost").
FailNodeWaiters(r, n) ==
  [r EXCEPT !.waiters = {w \in @ : w[1] # n},
            !.future  = [c \in Calls |->
                           IF <<n, c>> \in r.waiters /\ @[c] = "pending"
                           THEN "lost" ELSE @[c]]]

\* Variant for the checks: the requests of the replaced session stay pending.
RegisterKeepsWaiters(r, n, s) ==
  [r EXCEPT !.connections[n] = s, !.overdue = @ \ {n}]

\* Variant for the checks: the slot collects the sessions of the name.
RegisterBoth(r, n, s) == [r EXCEPT !.connections[n] = {@, s}, !.overdue = @ \ {n}]

Register(r, n, s) ==
  LET installed == [r EXCEPT !.connections[n] = s, !.overdue = @ \ {n}]
  IN  IF r.connections[n] \in {None, s}
      THEN installed ELSE FailNodeWaiters(installed, n)

\* Variants for the checks: no session guard; the waiters failed before the
\* guard is looked at; the waiters of the departing session kept.
UnregisterAnySession(r, n, s) ==
  IF IsConnected(r, n)
  THEN FailNodeWaiters([r EXCEPT !.connections[n] = None, !.overdue = @ \ {n}], n)
  ELSE r

UnregisterFailsFirst(r, n, s) ==
  LET failed == FailNodeWaiters(r, n)
  IN  IF r.connections[n] = s
      THEN [failed EXCEPT !.connections[n] = None, !.overdue = @ \ {n}]
      ELSE failed

UnregisterKeepsWaiters(r, n, s) ==
  IF r.connections[n] = s
  THEN [r EXCEPT !.connections[n] = None, !.overdue = @ \ {n}]
  ELSE r

\* The session guard: only the session that still holds the slot clears it.
Unregister(r, n, s) ==
  IF r.connections[n] = s
  THEN FailNodeWaiters([r EXCEPT !.connections[n] = None, !.overdue = @ \ {n}], n)
  ELSE r

\* Keyed by name alone: the entry bumped is whichever holds the slot now.
TouchHeartbeat(r, n) == [r EXCEPT !.overdue = @ \ {n}]

Stale(r) == {r.connections[n] : n \in {m \in r.overdue : IsConnected(r, m)}}

RegisterWaiter(r, n, c) ==
  [r EXCEPT !.waiters = @ \cup {<<n, c>>}, !.future[c] = "pending"]

\* Variant for the checks: the waiter is found by its request id alone.
CompleteAnyName(r, n, c) ==
  [r EXCEPT !.waiters = {w \in @ : w[2] # c},
            !.future[c] = IF @ = "pending" /\ \E m \in Nodes : <<m, c>> \in r.waiters
                          THEN "result" ELSE @]

CompleteWaiter(r, n, c) ==
  [r EXCEPT !.waiters = @ \ {<<n, c>>},
            !.future[c] = IF <<n, c>> \in r.waiters /\ @ = "pending"
                          THEN "result" ELSE @]

\* Variant for the checks: the key is not removed.
UnregisterNothing(r, n, c) == r

UnregisterWaiter(r, n, c) == [r EXCEPT !.waiters = @ \ {<<n, c>>}]

\* Future.cancel, by wait_for's timer or by the caller's own cancellation: a
\* no-op on a future that is done, and the key stays in the table.
CancelFuture(r, c) ==
  [r EXCEPT !.future[c] = IF @ = "pending" THEN "cancelled" ELSE @]
===========================================================================
