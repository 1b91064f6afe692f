---------------------------- MODULE RateLimiter ----------------------------
(***************************************************************************)
(* The sliding-window rate limiter of the connection handler: class        *)
(* _RateLimiter of src/ratelimit.py.  Time is counted in units of the      *)
(* clock; check() neither suspends nor takes a lock, so a call is one      *)
(* step.  A name with an empty deque is a name that is not in the dict:    *)
(* check() deletes the key of a deque it has emptied.  A limiter whose     *)
(* max_calls is not positive is left out: it answers True and keeps no     *)
(* state.                                                                  *)
(***************************************************************************)
EXTENDS Integers, Sequences

CONSTANTS Nodes,      \* node names
          MaxCalls,   \* max_calls
          Window,     \* window_seconds, in clock units
          Horizon     \* bound: the clock stops here

ASSUME LimiterAssumption ==
  /\ MaxCalls \in Nat \ {0}
  /\ Window \in Nat \ {0}
  /\ Horizon \in Nat

VARIABLES now,        \* the monotonic clock
          windows,    \* the deque of each name
          accepted,   \* every call the limiter let through, by name
          refused     \* the names refused at the present instant

vars == <<now, windows, accepted, refused>>

Init ==
  /\ now = 0
  /\ windows = [n \in Nodes |-> <<>>]
  /\ accepted = [n \in Nodes |-> <<>>]
  /\ refused = {}

\* Variants for the checks: a call exactly Window old is kept; one call too
\* many is dropped.
EvictStrictly(w, cutoff) ==
  LET expired == {k \in 0..Len(w) : \A i \in 1..k : w[i] < cutoff}
      keep == CHOOSE k \in expired : \A i \in expired : i <= k
  IN  SubSeq(w, keep + 1, Len(w))

EvictOneMore(w, cutoff) ==
  LET expired == {k \in 0..Len(w) : \A i \in 1..(k-1) : w[i] <= cutoff}
      keep == CHOOSE k \in expired : \A i \in expired : i <= k
  IN  SubSeq(w, keep + 1, Len(w))

\* popleft while the head is not younger than the cutoff.
Evict(w, cutoff) ==
  LET expired == {k \in 0..Len(w) : \A i \in 1..k : w[i] <= cutoff}
      keep == CHOOSE k \in expired : \A i \in expired : i <= k
  IN  SubSeq(w, keep + 1, Len(w))

Accept(n, w) ==
  /\ windows' = [windows EXCEPT ![n] = Append(w, now)]
  /\ accepted' = [accepted EXCEPT ![n] = Append(@, now)]
  /\ UNCHANGED refused

\* Variant for the checks: the refused call is recorded.
RefuseRecorded(n, w) ==
  /\ windows' = [windows EXCEPT ![n] = Append(w, now)]
  /\ refused' = refused \cup {n}
  /\ UNCHANGED accepted

\* A refused call is not recorded, but what was evicted stays evicted.
Refuse(n, w) ==
  /\ windows' = [windows EXCEPT ![n] = w]
  /\ refused' = refused \cup {n}
  /\ UNCHANGED accepted

Check(n) ==
  LET live == Evict(windows[n], now - Window) IN
  /\ IF Len(live) >= MaxCalls THEN Refuse(n, live) ELSE Accept(n, live)
  /\ UNCHANGED now

\* Variant for the checks: a wall clock, which may be set back.
WallClockTick ==
  /\ now < Horizon
  /\ now' \in {now - 1, now + 1}
  /\ refused' = {}
  /\ UNCHANGED <<windows, accepted>>

Tick ==
  /\ now < Horizon
  /\ now' = now + 1
  /\ refused' = {}
  /\ UNCHANGED <<windows, accepted>>

Next == (\E n \in Nodes : Check(n)) \/ Tick

Spec == Init /\ [][Next]_vars

---------------------------------------------------------------------------
TypeOK ==
  /\ now \in 0..Horizon
  /\ windows \in [Nodes -> Seq(0..Horizon)]
  /\ accepted \in [Nodes -> Seq(0..Horizon)]
  /\ refused \in SUBSET Nodes

\* No span shorter than the window holds more than MaxCalls accepted calls,
\* wherever it starts: call number k + MaxCalls comes a window after call k.
CapPerWindow ==
  \A n \in Nodes : \A k \in 1..(Len(accepted[n]) - MaxCalls) :
    accepted[n][k + MaxCalls] >= accepted[n][k] + Window

\* A node is refused only when it has used up its budget: MaxCalls of its
\* calls were accepted within the last window.
RefusedOnlyOverCap ==
  \A n \in refused :
    /\ Len(accepted[n]) >= MaxCalls
    /\ accepted[n][Len(accepted[n]) - MaxCalls + 1] > now - Window

\* The memory of a name is bounded by the cap, and holds no call that was
\* not accepted: it is the tail of the accepted calls.
WindowIsRecentTail ==
  \A n \in Nodes :
    LET w == windows[n]  a == accepted[n] IN
    /\ Len(w) <= MaxCalls
    /\ Len(w) <= Len(a)
    /\ w = SubSeq(a, Len(a) - Len(w) + 1, Len(a))
===========================================================================
