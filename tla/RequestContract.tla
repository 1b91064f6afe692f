------------------------- MODULE RequestContract -------------------------
(***************************************************************************)
(* What the server promises to whoever sends a request to a node, without  *)
(* the waiter table, the futures and the tasks that keep the promise.      *)
(*                                                                         *)
(* A name has at most one session at a time.  A request accepted for a     *)
(* name belongs to the session that held it then: it can be answered only  *)
(* while that session holds the name, and it is lost in the very step in   *)
(* which the session gives the name up.  The caller is told of an answer,  *)
(* or that the node is unreachable, only when that is what happened; it    *)
(* may give up at any time.                                                *)
(***************************************************************************)
CONSTANTS Nodes, Sessions, Calls, None

VARIABLES holder,    \* session that holds each name, or None
          phase,     \* where each request stands
          node,      \* name each request was made for
          session    \* session it was accepted on

vars == <<holder, phase, node, session>>

Open(n) == {c \in Calls : phase[c] = "open" /\ node[c] = n}

Init ==
  /\ holder = [n \in Nodes |-> None]
  /\ phase = [c \in Calls |-> "idle"]
  /\ node = [c \in Calls |-> None]
  /\ session = [c \in Calls |-> None]

\* The name passes to another session, or to none.  The departing session may
\* answer one last request; the others it had are lost.
PassOn(n, s, lastAnswered) ==
  /\ holder[n] # s
  /\ holder' = [holder EXCEPT ![n] = s]
  /\ phase' = [c \in Calls |->
                 IF c \in lastAnswered THEN "answered"
                 ELSE IF c \in Open(n) THEN "lost" ELSE phase[c]]
  /\ UNCHANGED <<node, session>>

Hold(n, s) == PassOn(n, s, {})
AnswerAndRelease(n, c) == c \in Open(n) /\ PassOn(n, None, {c})

Ask(c, n, p, s) ==
  /\ phase[c] = "idle"
  /\ phase' = [phase EXCEPT ![c] = p]
  /\ node' = [node EXCEPT ![c] = n]
  /\ session' = [session EXCEPT ![c] = s]
  /\ UNCHANGED holder

Accept(c, n) == holder[n] # None /\ Ask(c, n, "open", holder[n])
Refuse(c, n) == holder[n] = None /\ Ask(c, n, "unreachable", None)
Fail(c, n)   == holder[n] # None /\ Ask(c, n, "gave_up", None)

Move(c, from, to) ==
  /\ phase[c] \in from
  /\ phase' = [phase EXCEPT ![c] = to]
  /\ UNCHANGED <<holder, node, session>>

Answer(c) == /\ phase[c] = "open" /\ holder[node[c]] = session[c]
             /\ Move(c, {"open"}, "answered")
Return(c) == Move(c, {"answered"}, "ok") \/ Move(c, {"lost"}, "unreachable")
GiveUp(c) == Move(c, {"open", "answered", "lost"}, "gave_up")

Next ==
  \/ \E n \in Nodes, s \in Sessions \cup {None} : Hold(n, s)
  \/ \E n \in Nodes, c \in Calls :
       \/ AnswerAndRelease(n, c)
       \/ Accept(c, n) \/ Refuse(c, n) \/ Fail(c, n)
  \/ \E c \in Calls : Answer(c) \/ Return(c) \/ GiveUp(c)

Spec == Init /\ [][Next]_vars
===========================================================================
