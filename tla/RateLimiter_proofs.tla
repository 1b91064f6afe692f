-------------------------- MODULE RateLimiter_proofs --------------------------
(***************************************************************************)
(* Theorems about RateLimiter for every set of names, every cap and every  *)
(* window, with their proofs.                                              *)
(***************************************************************************)
EXTENDS RateLimiter, SequenceTheorems, FiniteSetTheorems, TLAPS

\* A set of naturals that is bounded and not empty has a greatest element.
LEMMA GreatestOf ==
  ASSUME NEW L \in Nat, NEW E, E \subseteq 0..L, E # {}
  PROVE  \E k \in E : \A i \in E : i <= k
<1> DEFINE above(k) == (k+1)..L
           T == {above(k) : k \in E}
<1>1. IsFiniteSet(1..L)
  BY FS_Interval
<1>2. IsWellFoundedOn(StrictSubsetOrdering(1..L), SUBSET (1..L))
  BY <1>1, FS_StrictSubsetOrderingWellFounded, FS_FiniteSubsetsOfFinite
<1>3. T \subseteq SUBSET (1..L) /\ T # {}
  <2>1. \A k \in E : above(k) \in SUBSET (1..L)
    OBVIOUS
  <2> HIDE DEF above
  <2> QED
    BY <2>1
<1>4. PICK x \in T : \A y \in T : ~ (<<y, x>> \in StrictSubsetOrdering(1..L))
  <2> HIDE DEF T
  <2> QED
    BY <1>2, <1>3, WFMin
<1>5. PICK k \in E : x = above(k)
  OBVIOUS
<1>6. ASSUME NEW i \in E, ~(i <= k)
      PROVE  FALSE
  <2>1. above(i) \in T /\ above(i) \in SUBSET (1..L) /\ above(k) \in SUBSET (1..L)
    OBVIOUS
  <2>2. above(i) \subseteq above(k)
    BY <1>6
  <2>3. i \in above(k) /\ i \notin above(i)
    BY <1>6
  <2>4. <<above(i), above(k)>> \in StrictSubsetOrdering(1..L)
    BY <2>1, <2>2, <2>3 DEF StrictSubsetOrdering
  <2> QED
    BY <1>4, <1>5, <2>1, <2>4
<1> QED
  BY <1>6

\* Eviction cuts a window in two: what goes is not younger than the cutoff,
\* and what is first to stay is.
LEMMA EvictCuts ==
  ASSUME NEW w \in Seq(0..Horizon), NEW cutoff \in Int
  PROVE  \E k \in 0..Len(w) :
           /\ Evict(w, cutoff) \in Seq(0..Horizon)
           /\ Len(Evict(w, cutoff)) = Len(w) - k
           /\ \A i \in 1..(Len(w) - k) : Evict(w, cutoff)[i] = w[k + i]
           /\ \A i \in 1..k : w[i] <= cutoff
           /\ k < Len(w) => w[k + 1] > cutoff
<1> DEFINE expired == {k \in 0..Len(w) : \A i \in 1..k : w[i] <= cutoff}
           keep == CHOOSE k \in expired : \A i \in expired : i <= k
<1>1. Len(w) \in Nat /\ \A i \in 1..Len(w) : w[i] \in 0..Horizon
  BY LenProperties, ElementOfSeq
<1>2. 0 \in expired
  BY <1>1
<1>3. \E k \in expired : \A i \in expired : i <= k
  BY <1>1, <1>2, GreatestOf
<1>4. keep \in expired /\ \A i \in expired : i <= keep
  BY <1>3
<1>5. keep \in 0..Len(w) /\ \A i \in 1..keep : w[i] <= cutoff
  BY <1>4
<1>6. keep < Len(w) => w[keep + 1] > cutoff
  <2> SUFFICES ASSUME keep < Len(w), ~(w[keep + 1] > cutoff) PROVE FALSE
    OBVIOUS
  <2> HIDE DEF keep
  <2>1. keep + 1 \in 0..Len(w)
    BY <1>1, <1>5
  <2>2. \A i \in 1..(keep + 1) : i \in 1..keep \/ i = keep + 1
    BY <1>5
  <2>3. w[keep + 1] <= cutoff
    BY LimiterAssumption, <1>1, <1>5, <2>1
  <2>4. keep + 1 \in expired
    BY <1>5, <2>1, <2>2, <2>3
  <2> QED
    BY <1>4, <1>5, <2>4
<1>7. Evict(w, cutoff) = SubSeq(w, keep + 1, Len(w))
  BY DEF Evict
<1> HIDE DEF keep, expired
<1>8. \A i \in (keep + 1)..Len(w) : w[i] \in 0..Horizon
  BY <1>1, <1>5
<1>9. /\ Evict(w, cutoff) \in Seq(0..Horizon)
      /\ Len(Evict(w, cutoff)) = Len(w) - keep
      /\ \A i \in 1..(Len(w) - keep) : Evict(w, cutoff)[i] = w[keep + i]
  <2>1. /\ SubSeq(w, keep + 1, Len(w)) \in Seq(0..Horizon)
        /\ Len(SubSeq(w, keep + 1, Len(w))) =
             IF keep + 1 <= Len(w) THEN Len(w) - (keep + 1) + 1 ELSE 0
        /\ \A i \in 1..(Len(w) - (keep + 1) + 1) :
             SubSeq(w, keep + 1, Len(w))[i] = w[(keep + 1) + i - 1]
    BY <1>1, <1>5, <1>8, SubSeqProperties
  <2> QED
    BY <1>1, <1>5, <1>7, <2>1
<1> QED
  BY <1>5, <1>6, <1>9

(***************************************************************************)
(* The inductive invariant: the deque of a name is the tail of its         *)
(* accepted calls, and every call before that tail is a window old.        *)
(***************************************************************************)
Gone(n) == Len(accepted[n]) - Len(windows[n])

WindowInv ==
  \A n \in Nodes :
    /\ Len(windows[n]) <= MaxCalls
    /\ Len(windows[n]) <= Len(accepted[n])
    /\ \A i \in 1..Len(windows[n]) : windows[n][i] = accepted[n][Gone(n) + i]
    /\ \A i \in 1..Gone(n) : accepted[n][i] <= now - Window

LimiterInv == TypeOK /\ WindowInv /\ CapPerWindow /\ RefusedOnlyOverCap

\* No call was made at first.
LEMMA InitLimiterInv == Init => LimiterInv
<1> SUFFICES ASSUME Init PROVE LimiterInv
  OBVIOUS
<1> USE LimiterAssumption
<1>1. << >> \in Seq(0..Horizon) /\ Len(<< >>) = 0
  BY EmptySeq
<1>2. TypeOK
  BY <1>1 DEF Init, TypeOK
<1>3. \A n \in Nodes : Len(windows[n]) = 0 /\ Len(accepted[n]) = 0
  BY <1>1 DEF Init
<1>4. WindowInv
  <2> SUFFICES ASSUME NEW n \in Nodes
               PROVE  /\ Len(windows[n]) <= MaxCalls
                      /\ Len(windows[n]) <= Len(accepted[n])
                      /\ \A i \in 1..Len(windows[n]) : windows[n][i] = accepted[n][Gone(n) + i]
                      /\ \A i \in 1..Gone(n) : accepted[n][i] <= now - Window
    BY DEF WindowInv
  <2>1. Len(windows[n]) = 0 /\ Len(accepted[n]) = 0 /\ Gone(n) = 0
    BY <1>3 DEF Gone
  <2>2. 1..Len(windows[n]) = {} /\ 1..Gone(n) = {}
    BY <2>1
  <2> QED
    BY <2>1, <2>2
<1>5. CapPerWindow /\ RefusedOnlyOverCap
  BY <1>3 DEF Init, CapPerWindow, RefusedOnlyOverCap
<1> QED
  BY <1>2, <1>4, <1>5 DEF LimiterInv

\* A call: it is let through only when the one MaxCalls before it has been
\* evicted, and refused only when none of the last MaxCalls has.
LEMMA CheckKeeps ==
  ASSUME LimiterInv, NEW n \in Nodes, Check(n)
  PROVE  LimiterInv'
<1> DEFINE w == windows[n]
           a == accepted[n]
           live == Evict(w, now - Window)
           L == Len(a)
<1> USE LimiterAssumption
<1>1. /\ now \in 0..Horizon /\ now - Window \in Int
      /\ w \in Seq(0..Horizon) /\ a \in Seq(0..Horizon)
      /\ windows \in [Nodes -> Seq(0..Horizon)]
      /\ accepted \in [Nodes -> Seq(0..Horizon)]
      /\ refused \in SUBSET Nodes
  BY DEF LimiterInv, TypeOK
<1>2. /\ Len(w) \in Nat /\ L \in Nat
      /\ \A i \in 1..L : a[i] \in 0..Horizon
  BY <1>1, LenProperties, ElementOfSeq
<1>3. /\ Len(w) <= MaxCalls /\ Len(w) <= L
      /\ \A i \in 1..Len(w) : w[i] = a[(L - Len(w)) + i]
      /\ \A i \in 1..(L - Len(w)) : a[i] <= now - Window
  BY DEF LimiterInv, WindowInv, Gone
<1>4. PICK k \in 0..Len(w) :
           /\ live \in Seq(0..Horizon)
           /\ Len(live) = Len(w) - k
           /\ \A i \in 1..(Len(w) - k) : live[i] = w[k + i]
           /\ \A i \in 1..k : w[i] <= now - Window
           /\ k < Len(w) => w[k + 1] > now - Window
  BY <1>1, EvictCuts
<1> DEFINE gone == L - Len(live)
<1> HIDE DEF live, w, a, L
<1>5. /\ Len(live) \in Nat /\ Len(live) <= Len(w)
      /\ gone \in 0..L /\ gone = (L - Len(w)) + k
  BY <1>2, <1>3, <1>4
<1>6. /\ L \in Nat /\ Len(live) \in Nat /\ MaxCalls \in Nat \ {0}
       /\ Len(live) <= L /\ Len(live) <= MaxCalls
       /\ gone = L - Len(live)
  BY <1>2, <1>3, <1>5
<1>7. live \in Seq(0..Horizon) /\ now \in 0..Horizon
  BY <1>1, <1>4
<1> HIDE DEF gone
<1>8. \A i \in 1..gone : a[i] <= now - Window
  <2> SUFFICES ASSUME NEW i \in 1..gone PROVE a[i] <= now - Window
    OBVIOUS
  <2>1. CASE i <= L - Len(w)
    BY <1>2, <1>3, <1>5, <2>1
  <2>2. CASE i > L - Len(w)
    <3> DEFINE j == i - (L - Len(w))
    <3>1. j \in 1..k /\ j \in 1..Len(w) /\ i = (L - Len(w)) + j
      BY <1>2, <1>3, <1>5, <2>2
    <3> HIDE DEF j
    <3> QED
      BY <1>3, <1>4, <3>1
  <2> QED
    BY <1>2, <1>5, <2>1, <2>2
<1>9. \A i \in 1..Len(live) : live[i] = a[gone + i]
  <2> SUFFICES ASSUME NEW i \in 1..Len(live) PROVE live[i] = a[gone + i]
    OBVIOUS
  <2>1. k + i \in 1..Len(w) /\ i \in 1..(Len(w) - k)
    BY <1>2, <1>4, <1>5
  <2>2. live[i] = w[k + i] /\ w[k + i] = a[(L - Len(w)) + (k + i)]
    BY <1>3, <1>4, <2>1
  <2>3. (L - Len(w)) + (k + i) = gone + i
    BY <1>2, <1>4, <1>5
  <2> QED
    BY <2>2, <2>3
<1>10. gone < L => a[gone + 1] > now - Window
  <2> SUFFICES ASSUME gone < L PROVE a[gone + 1] > now - Window
    OBVIOUS
  <2>1. k < Len(w) /\ k + 1 \in 1..Len(w) /\ (L - Len(w)) + (k + 1) = gone + 1
    BY <1>2, <1>4, <1>5
  <2> QED
    BY <1>3, <1>4, <2>1
<1>11. now' = now
  BY DEF Check
<1>12. CASE Len(live) >= MaxCalls
  <2>1. /\ windows' = [windows EXCEPT ![n] = live]
        /\ refused' = refused \cup {n}
        /\ accepted' = accepted
    BY <1>12 DEF Check, Refuse, live, w
  <2>2. TypeOK'
    BY <1>1, <1>4, <1>11, <2>1 DEF TypeOK
  <2>3. WindowInv'
    <3> SUFFICES ASSUME NEW m \in Nodes
                 PROVE  /\ Len(windows'[m]) <= MaxCalls
                        /\ Len(windows'[m]) <= Len(accepted'[m])
                        /\ \A i \in 1..Len(windows'[m]) : windows'[m][i] = accepted'[m][Gone(m)' + i]
                        /\ \A i \in 1..Gone(m)' : accepted'[m][i] <= now' - Window
      BY DEF WindowInv
    <3>1. CASE m = n
      BY <1>1, <1>2, <1>3, <1>5, <1>8, <1>9, <1>11, <2>1, <3>1 DEF gone, a, L, Gone
    <3>2. CASE m # n
      BY <1>1, <1>11, <2>1, <3>2 DEF LimiterInv, WindowInv, Gone
    <3> QED
      BY <3>1, <3>2
  <2>4. RefusedOnlyOverCap'
    <3>1. L >= MaxCalls /\ gone < L /\ gone = L - MaxCalls
      BY <1>12, <1>6
    <3> QED
      BY <1>10, <1>11, <2>1, <3>1 DEF LimiterInv, RefusedOnlyOverCap, a, L
  <2>5. CapPerWindow'
    BY <2>1 DEF LimiterInv, CapPerWindow
  <2> QED
    BY <2>2, <2>3, <2>4, <2>5 DEF LimiterInv
<1>13. CASE ~(Len(live) >= MaxCalls)
  <2>1. /\ windows' = [windows EXCEPT ![n] = Append(live, now)]
        /\ accepted' = [accepted EXCEPT ![n] = Append(a, now)]
        /\ refused' = refused
    BY <1>1, <1>13 DEF Check, Accept, live, w, a
  <2>2. /\ Append(a, now) \in Seq(0..Horizon)
        /\ Len(Append(a, now)) = L + 1
        /\ \A i \in 1..L : Append(a, now)[i] = a[i]
        /\ Append(a, now)[L + 1] = now
    BY <1>1, AppendProperties DEF L
  <2>3. /\ Append(live, now) \in Seq(0..Horizon)
        /\ Len(Append(live, now)) = Len(live) + 1
        /\ \A i \in 1..Len(live) : Append(live, now)[i] = live[i]
        /\ Append(live, now)[Len(live) + 1] = now
    BY <1>7, AppendProperties
  <2> DEFINE aa == Append(a, now)
             ll == Append(live, now)
  <2> HIDE DEF aa, ll
  <2>4. /\ windows'[n] = ll /\ accepted'[n] = aa
        /\ \A m \in Nodes : m # n => windows'[m] = windows[m] /\ accepted'[m] = accepted[m]
    BY <1>1, <2>1 DEF aa, ll
  <2>5. TypeOK'
    BY <1>1, <1>11, <2>1, <2>2, <2>3 DEF TypeOK
  <2>6. WindowInv'
    <3> SUFFICES ASSUME NEW m \in Nodes
                 PROVE  /\ Len(windows'[m]) <= MaxCalls
                        /\ Len(windows'[m]) <= Len(accepted'[m])
                        /\ \A i \in 1..Len(windows'[m]) : windows'[m][i] = accepted'[m][Gone(m)' + i]
                        /\ \A i \in 1..Gone(m)' : accepted'[m][i] <= now' - Window
      BY DEF WindowInv
    <3>1. CASE m = n
      <4>1. Len(ll) = Len(live) + 1 /\ Len(aa) = L + 1 /\ Len(aa) - Len(ll) = gone
        BY <1>2, <1>5, <2>2, <2>3 DEF aa, ll, gone
      <4>2. \A i \in 1..Len(ll) : ll[i] = aa[gone + i]
        <5> SUFFICES ASSUME NEW i \in 1..Len(ll) PROVE ll[i] = aa[gone + i]
          OBVIOUS
        <5>1. CASE i = Len(live) + 1
          <6>1. gone + i = L + 1
            BY <1>2, <1>5, <5>1 DEF gone
          <6> QED
            BY <2>2, <2>3, <5>1, <6>1 DEF aa, ll
        <5>2. CASE i # Len(live) + 1
          <6>1. i \in 1..Len(live) /\ gone + i \in 1..L
            BY <1>2, <1>5, <4>1, <5>2 DEF gone
          <6> QED
            BY <1>9, <2>2, <2>3, <6>1 DEF aa, ll
        <5> QED
          BY <5>1, <5>2
      <4>3. \A i \in 1..gone : aa[i] <= now - Window
        BY <1>2, <1>5, <1>8, <2>2 DEF aa
      <4>4. Len(ll) <= MaxCalls /\ Len(ll) <= Len(aa)
        BY <1>2, <1>3, <1>5, <1>13, <4>1
      <4> QED
        BY <1>11, <2>4, <3>1, <4>1, <4>2, <4>3, <4>4 DEF Gone
    <3>2. CASE m # n
      BY <1>11, <2>4, <3>2 DEF LimiterInv, WindowInv, Gone
    <3> QED
      BY <3>1, <3>2
  <2>7. MaxCalls <= L => L + 1 - MaxCalls \in 1..gone
    BY <1>2, <1>5, <1>13 DEF gone
  <2>8. RefusedOnlyOverCap'
    <3>1. n \notin refused
      <4>1. n \in refused => MaxCalls <= L /\ a[(L - MaxCalls) + 1] > now - Window
        BY DEF LimiterInv, RefusedOnlyOverCap, a, L
      <4>2. MaxCalls <= L => a[(L - MaxCalls) + 1] \in Int /\ a[(L - MaxCalls) + 1] <= now - Window
        BY <1>2, <1>8, <2>7
      <4> QED
        BY <1>1, <4>1, <4>2
    <3> QED
      BY <1>1, <1>11, <2>1, <2>4, <3>1 DEF LimiterInv, RefusedOnlyOverCap
  <2>9. CapPerWindow'
    <3> SUFFICES ASSUME NEW m \in Nodes, NEW i \in 1..(Len(accepted'[m]) - MaxCalls)
                 PROVE  accepted'[m][i + MaxCalls] >= accepted'[m][i] + Window
      BY DEF CapPerWindow
    <3>1. CASE m # n
      BY <2>4, <3>1 DEF LimiterInv, CapPerWindow
    <3>2. CASE m = n /\ i + MaxCalls # L + 1
      <4>1. i \in 1..L /\ i + MaxCalls \in 1..L /\ i \in 1..(L - MaxCalls)
        <5>1. Len(accepted'[m]) = L + 1
          BY <2>2, <2>4, <3>2 DEF aa
        <5> QED
          BY <1>6, <3>2, <5>1
      <4>2. a[i + MaxCalls] >= a[i] + Window
        BY <4>1 DEF LimiterInv, CapPerWindow, a, L
      <4> QED
        BY <2>2, <2>4, <3>2, <4>1, <4>2 DEF aa
    <3>3. CASE m = n /\ i + MaxCalls = L + 1
      <4>1. i \in 1..gone /\ i \in 1..L
        BY <1>2, <1>5, <2>7, <3>3
      <4>2. a[i] <= now - Window /\ a[i] \in Int
        BY <1>2, <1>8, <4>1
      <4>3. aa[i] = a[i] /\ aa[i + MaxCalls] = now
        BY <2>2, <3>3, <4>1 DEF aa
      <4> QED
        BY <1>7, <2>4, <3>3, <4>2, <4>3
    <3> QED
      BY <3>1, <3>2, <3>3
  <2> QED
    BY <2>5, <2>6, <2>8, <2>9 DEF LimiterInv
<1> QED
  BY <1>12, <1>13

\* Time passes: what was a window old stays so, and the instant's refusals are
\* forgotten.
LEMMA ClockKeeps == ASSUME LimiterInv, Tick PROVE LimiterInv'
<1> USE LimiterAssumption
<1>1. /\ now \in 0..Horizon /\ now' = now + 1 /\ now' \in 0..Horizon
      /\ windows' = windows /\ accepted' = accepted /\ refused' = {}
  BY DEF Tick, LimiterInv, TypeOK
<1>2. TypeOK'
  BY <1>1 DEF LimiterInv, TypeOK
<1>3. WindowInv'
  <2> SUFFICES ASSUME NEW n \in Nodes
               PROVE  /\ Len(windows[n]) <= MaxCalls
                      /\ Len(windows[n]) <= Len(accepted[n])
                      /\ \A i \in 1..Len(windows[n]) : windows[n][i] = accepted[n][Gone(n) + i]
                      /\ \A i \in 1..Gone(n) : accepted[n][i] <= now' - Window
    BY <1>1 DEF WindowInv, Gone
  <2>1. /\ Len(windows[n]) <= MaxCalls
        /\ Len(windows[n]) <= Len(accepted[n])
        /\ \A i \in 1..Len(windows[n]) : windows[n][i] = accepted[n][Gone(n) + i]
        /\ \A i \in 1..Gone(n) : accepted[n][i] <= now - Window
    BY DEF LimiterInv, WindowInv
  <2>2. /\ windows[n] \in Seq(0..Horizon) /\ accepted[n] \in Seq(0..Horizon)
    BY DEF LimiterInv, TypeOK
  <2>3. /\ Len(windows[n]) \in Nat /\ Len(accepted[n]) \in Nat
        /\ \A i \in 1..Len(accepted[n]) : accepted[n][i] \in Int
    BY <2>2, LenProperties, ElementOfSeq
  <2>4. \A i \in 1..Gone(n) : i \in 1..Len(accepted[n])
    BY <2>1, <2>3 DEF Gone
  <2>5. ASSUME NEW i \in 1..Gone(n) PROVE accepted[n][i] <= now' - Window
    <3>1. accepted[n][i] \in Int /\ accepted[n][i] <= now - Window
      BY <2>1, <2>3, <2>4
    <3> QED
      BY <1>1, <3>1
  <2> QED
    BY <2>1, <2>5
<1>4. CapPerWindow' /\ RefusedOnlyOverCap'
  BY <1>1 DEF LimiterInv, CapPerWindow, RefusedOnlyOverCap
<1> QED
  BY <1>2, <1>3, <1>4 DEF LimiterInv

\* The invariant holds in every reachable state.
THEOREM LimiterAlways == Spec => []LimiterInv
<1>1. LimiterInv /\ UNCHANGED vars => LimiterInv'
  BY DEF vars, LimiterInv, TypeOK, WindowInv, Gone, CapPerWindow, RefusedOnlyOverCap
<1>2. LimiterInv /\ [Next]_vars => LimiterInv'
  BY <1>1, CheckKeeps, ClockKeeps DEF Next
<1> QED
  BY <1>2, InitLimiterInv, PTL DEF Spec

\* The limiter's variables keep their types.
THEOREM LimiterTypeCorrect == Spec => []TypeOK
<1>1. LimiterInv => TypeOK
  BY DEF LimiterInv
<1> QED
  BY <1>1, LimiterAlways, PTL

\* check() of src/ratelimit.py lets through at most MaxCalls calls of a name in
\* any span shorter than the window, wherever the span starts.
THEOREM AtMostCapPerWindow == Spec => []CapPerWindow
<1>1. LimiterInv => CapPerWindow
  BY DEF LimiterInv
<1> QED
  BY <1>1, LimiterAlways, PTL

\* ... and refuses a call only when MaxCalls of that name's calls were let
\* through within the last window.
THEOREM NoEarlyRefusal == Spec => []RefusedOnlyOverCap
<1>1. LimiterInv => RefusedOnlyOverCap
  BY DEF LimiterInv
<1> QED
  BY <1>1, LimiterAlways, PTL

\* The deque of a name holds at most MaxCalls times, the latest accepted.
THEOREM MemoryIsRecentTail == Spec => []WindowIsRecentTail
<1>1. LimiterInv => WindowIsRecentTail
  <2> SUFFICES ASSUME LimiterInv, NEW n \in Nodes
               PROVE  /\ Len(windows[n]) <= MaxCalls
                      /\ Len(windows[n]) <= Len(accepted[n])
                      /\ windows[n] = SubSeq(accepted[n],
                                             Len(accepted[n]) - Len(windows[n]) + 1,
                                             Len(accepted[n]))
    BY DEF WindowIsRecentTail
  <2> DEFINE w == windows[n]
             a == accepted[n]
             first == Len(a) - Len(w) + 1
  <2>1. w \in Seq(0..Horizon) /\ a \in Seq(0..Horizon)
    BY DEF LimiterInv, TypeOK
  <2>2. /\ Len(w) \in Nat /\ Len(a) \in Nat
        /\ \A i \in 1..Len(a) : a[i] \in 0..Horizon
    BY <2>1, LenProperties, ElementOfSeq
  <2>3. /\ Len(w) <= MaxCalls /\ Len(w) <= Len(a)
        /\ \A i \in 1..Len(w) : w[i] = a[(Len(a) - Len(w)) + i]
    BY DEF LimiterInv, WindowInv, Gone
  <2> HIDE DEF w, a
  <2>4. first \in Int /\ Len(a) \in Int /\ \A i \in first..Len(a) : a[i] \in 0..Horizon
    BY <2>2, <2>3
  <2>5. /\ SubSeq(a, first, Len(a)) \in Seq(0..Horizon)
        /\ Len(SubSeq(a, first, Len(a))) = IF first <= Len(a) THEN Len(a) - first + 1 ELSE 0
        /\ \A i \in 1..(Len(a) - first + 1) : SubSeq(a, first, Len(a))[i] = a[first + i - 1]
    BY <2>4, SubSeqProperties
  <2>6. Len(SubSeq(a, first, Len(a))) = Len(w) /\ Len(a) - first + 1 = Len(w)
    BY <2>2, <2>3, <2>5
  <2>7. \A i \in 1..Len(w) : first + i - 1 = (Len(a) - Len(w)) + i
    BY <2>2
  <2>8. \A i \in 1..Len(w) : w[i] = SubSeq(a, first, Len(a))[i]
    BY <2>3, <2>5, <2>6, <2>7
  <2>9. w = SubSeq(a, first, Len(a))
    BY <2>1, <2>5, <2>6, <2>8, SeqEqual
  <2> QED
    BY <2>3, <2>9 DEF w, a
<1> QED
  BY <1>1, LimiterAlways, PTL
=============================================================================
