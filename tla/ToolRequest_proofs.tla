------------------------- MODULE ToolRequest_proofs -------------------------
(***************************************************************************)
(* Theorems about ToolRequest for every set of tools, nodes and sessions,  *)
(* every number of retries and all timeouts, with their proofs.            *)
(***************************************************************************)
EXTENDS ToolRequest, TLAPS

(***************************************************************************)
(* The inductive invariant.                                                *)
(***************************************************************************)

\* An attempt that was not made leaves no trace, and a call that has not begun
\* has made none.
NotMade ==
  /\ \A a \in Attempts : phase[a] = "idle" => session[a] = None
  /\ \A t \in Tools :
       /\ \A k \in 0..MaxRetries :
            k > tries[t] \/ pc[t] = "idle" => phase[<<t, k>>] = "idle"
       /\ pc[t] = "idle" => tries[t] = 0
       /\ pc[t] # "idle" => target[t] \in Nodes
       /\ report[t] # "none" => pc[t] = "done"

\* The tool's timer runs through the send and then together with the
\* endpoint's, which ends first unless the send was stuck.
SendInv ==
  /\ \A a \in Attempts : phase[a] = "idle" => held[a] = 0
  /\ \A a \in Attempts : ~InFlight(a) => age[a] = 0 /\ a \notin sending
  /\ \A a \in sending : age[a] = 0

Timers ==
  \A t \in Tools : pc[t] = "wait" /\ ~Stuck(Current(t)) =>
    /\ InFlight(Current(t)) => elapsed[t] = held[Current(t)] + age[Current(t)]
    /\ elapsed[t] < ClientTimeout(t)

\* A tool goes on to another attempt only after one that reached nobody.
PauseInv ==
  \A t \in Tools : pc[t] = "pause" =>
    /\ tries[t] < MaxRetries
    /\ ~Stuck(Current(t)) => phase[Current(t)] \in {"idle", "unreachable"}

\* Nothing is answered that was not run.
AnsweredInv ==
  \A a \in Attempts : phase[a] \in {"answered", "ok"} => a \in ran /\ result[a] # None

\* A session holds one name at most and only once; what waits, waits on a
\* holder; and a request that was lost was lost with its session.
Gone(s) == s \in retired /\ \A n \in Nodes : holder[n] # s

SessionInv ==
  /\ \A n \in Nodes : holder[n] # None => holder[n] \in retired
  /\ \A m, n \in Nodes : holder[m] = holder[n] /\ holder[m] # None => m = n
  /\ \A a \in Attempts : session[a] # None => session[a] \in retired
  /\ \A a \in Attempts : phase[a] = "open" =>
       /\ node[a] \in Nodes
       /\ session[a] = holder[node[a]] /\ session[a] # None
  /\ \A a \in Attempts :
       phase[a] \in {"lost", "unreachable"} /\ session[a] # None => Gone(session[a])

\* No attempt shares its session with an earlier one whose send was not stuck.
OtherSession ==
  \A t \in Tools, k, l \in 0..MaxRetries :
    k < l /\ ~Stuck(<<t, k>>) /\ session[<<t, k>>] # None =>
      session[<<t, k>>] # session[<<t, l>>]

RanInv == \A a \in ran : session[a] # None

ToolInv ==
  /\ TypeOK
  /\ NotMade
  /\ SendInv
  /\ Timers
  /\ PauseInv
  /\ AnsweredInv
  /\ SessionInv
  /\ OtherSession
  /\ RanInv
  /\ RepeatedOnlyIfUnreachable
  /\ ReportHasGrounds

\* The invariant names the attempts of a call by their numbers.
LEMMA AttemptsOf ==
  /\ \A t \in Tools, k \in 0..MaxRetries : <<t, k>> \in Attempts
  /\ \A a \in Attempts : a[1] \in Tools /\ a[2] \in 0..MaxRetries /\ a = <<a[1], a[2]>>
  BY DEF Attempts

\* The timeouts are times, and what is left between them is the margin.
LEMMA TimerRange ==
  ASSUME TypeOK
  PROVE  /\ \A a \in Attempts : EndpointTimeout(a) \in Nat \ {0} /\ Margin(a) \in Int
         /\ \A t \in Tools :
              /\ Current(t) \in Attempts
              /\ ClientTimeout(t) \in Nat
              /\ Margin(Current(t)) = ClientTimeout(t) - EndpointTimeout(Current(t))
<1>1. \A t \in Tools : timeout[t] = None \/ timeout[t] \in Nat \ {0}
  BY ToolAssumption DEF TypeOK
<1>2. \A t \in Tools : Current(t) \in Attempts /\ Current(t)[1] = t
  BY DEF TypeOK, Current, Attempts
<1>3. Slack \in Nat \ {0} /\ ToolDefault \in Nat \ {0} /\ EndpointDefault \in Nat \ {0}
  BY ToolAssumption
<1>4. \A a \in Attempts : EndpointTimeout(a) \in Nat \ {0}
  BY <1>1, <1>3, AttemptsOf DEF EndpointTimeout
<1>5. \A t \in Tools : ClientTimeout(t) \in Nat
  BY <1>1, <1>3 DEF ClientTimeout
<1> QED
  BY <1>2, <1>4, <1>5, AttemptsOf DEF Margin

\* A pause is a time, and not longer than the cap.
LEMMA DelayBound ==
  ASSUME NEW k \in 0..MaxRetries
  PROVE  Delay(k) \in Int /\ Delay(k) <= BackoffCap
<1>1. k \in Nat /\ Backoff \in Nat /\ BackoffCap \in Nat
  BY ToolAssumption
<1>2. 2^k \in Int
  BY <1>1
<1> QED
  BY <1>1, <1>2 DEF Delay

\* Nothing has been sent at first.
LEMMA InitToolInv == Init => ToolInv
<1> SUFFICES ASSUME Init PROVE ToolInv
  OBVIOUS
<1> USE ToolAssumption DEF Init, Server!Init
<1>1. \A t \in Tools : Current(t) \in Attempts
  BY DEF Current, Attempts
<1>2. TypeOK
  <2>1. \A a \in Attempts : EndpointTimeout(a) \in Nat
    BY AttemptsOf DEF EndpointTimeout
  <2> QED
    BY <2>1 DEF TypeOK, Final, Reports
<1>3. NotMade
  BY AttemptsOf DEF NotMade
<1>4. SendInv /\ Timers /\ PauseInv
  BY DEF SendInv, Timers, PauseInv
<1>5. AnsweredInv /\ SessionInv /\ RanInv
  BY DEF AnsweredInv, SessionInv, RanInv
<1>6. OtherSession
  BY AttemptsOf DEF OtherSession
<1>7. RepeatedOnlyIfUnreachable /\ ReportHasGrounds
  BY AttemptsOf DEF RepeatedOnlyIfUnreachable, ReportHasGrounds
<1> QED
  BY <1>2, <1>3, <1>4, <1>5, <1>6, <1>7 DEF ToolInv

(***************************************************************************)
(* Steps of the server and the nodes.                                      *)
(***************************************************************************)

\* The tools are not disturbed by a step that moves on requests in flight.
LEMMA ServerSideKeeps ==
  ASSUME ToolInv, TypeOK',
         UNCHANGED <<toolVars, held, elapsed, session>>,
         sending' \subseteq sending,
         \A a \in Attempts :
           /\ phase'[a] = phase[a] \/ (InFlight(a) /\ phase'[a] # "idle")
           /\ age'[a] = IF InFlight(a)' THEN age[a] ELSE 0
           /\ ~InFlight(a)' => a \notin sending'
           /\ phase'[a] \in {"answered", "ok"} => a \in ran' /\ result'[a] # None,
         \A a \in ran' : session[a] # None
  PROVE  /\ NotMade' /\ SendInv' /\ Timers' /\ PauseInv' /\ AnsweredInv'
         /\ OtherSession' /\ RanInv'
         /\ RepeatedOnlyIfUnreachable' /\ ReportHasGrounds'
<1> USE DEF toolVars
<1>1. \A t \in Tools : Current(t) \in Attempts /\ Current(t)' = Current(t)
  BY TimerRange DEF ToolInv, Current
<1>2. \A t \in Tools, k \in 0..MaxRetries : <<t, k>> \in Attempts
  BY AttemptsOf
<1>3. /\ \A a : Stuck(a)' <=> Stuck(a)
      /\ \A t \in Tools : ClientTimeout(t)' = ClientTimeout(t)
  BY DEF Stuck, Margin, ClientTimeout, EndpointTimeout
<1>4. \A a \in Attempts : InFlight(a)' => InFlight(a)
  BY DEF InFlight
<1>5. NotMade'
  BY <1>2 DEF ToolInv, NotMade, InFlight
<1>6. SendInv'
  <2>1. \A a \in sending' : a \in Attempts /\ age[a] = 0
    BY DEF ToolInv, TypeOK, SendInv
  <2>2. \A a \in Attempts : phase'[a] = "idle" => held'[a] = 0
    BY DEF ToolInv, SendInv
  <2> QED
    BY <2>1, <2>2 DEF SendInv, InFlight
<1>7. Timers'
  <2> SUFFICES ASSUME NEW t \in Tools, pc[t] = "wait", ~Stuck(Current(t))
               PROVE  /\ InFlight(Current(t))' => elapsed[t] = held[Current(t)] + age'[Current(t)]
                      /\ elapsed[t] < ClientTimeout(t)
    BY <1>1, <1>3 DEF Timers, InFlight
  <2> QED
    BY <1>1, <1>4 DEF ToolInv, Timers
<1>8. PauseInv'
  BY <1>1, <1>3 DEF ToolInv, PauseInv, InFlight
<1>9. AnsweredInv' /\ RanInv'
  BY DEF AnsweredInv, RanInv
<1>10. OtherSession'
  BY <1>3 DEF ToolInv, OtherSession
<1>11. RepeatedOnlyIfUnreachable'
  BY <1>2, <1>3 DEF ToolInv, RepeatedOnlyIfUnreachable, InFlight
<1>12. ReportHasGrounds'
  BY <1>1 DEF ToolInv, ReportHasGrounds, Refused, InFlight
<1> QED
  BY <1>5, <1>6, <1>7, <1>8, <1>9, <1>10, <1>11, <1>12

\* An endpoint that moves its own request on.
LEMMA MoveKeeps ==
  ASSUME ToolInv, NEW a \in Attempts, InFlight(a),
         NEW p \in {"answered", "ok", "unreachable", "gave_up"},
         Server!Move(a, {phase[a]}, p),
         p \in {"answered", "ok"} => a \in ran /\ result'[a] # None,
         p = "unreachable" => phase[a] = "lost",
         age' \in [Attempts -> Nat],
         \A b \in Attempts : age'[b] = IF b = a /\ p # "answered" THEN 0 ELSE age[b],
         sending' \subseteq sending, p # "answered" => a \notin sending',
         UNCHANGED <<retired, ran, toolVars, held, elapsed>>,
         result' \in [Attempts -> Results \cup {None}],
         \A b \in Attempts : result[b] # None => result'[b] # None
  PROVE  ToolInv'
<1> USE DEF toolVars
<1>1. /\ \A b \in Attempts : phase'[b] = IF b = a THEN p ELSE phase[b]
      /\ phase' = [phase EXCEPT ![a] = p]
      /\ UNCHANGED <<holder, node, session>>
      /\ age \in [Attempts -> Nat]
  BY DEF Server!Move, ToolInv, TypeOK
<1>2. \A b \in Attempts : age'[b] = IF InFlight(b)' THEN age[b] ELSE 0
  BY <1>1 DEF InFlight, ToolInv, SendInv
<1>3. \A b \in Attempts : EndpointTimeout(b) \in Nat \ {0} /\ EndpointTimeout(b)' = EndpointTimeout(b)
  BY TimerRange DEF ToolInv, EndpointTimeout
<1>4. TypeOK'
  <2>1. \A b \in Attempts : age'[b] <= EndpointTimeout(b)
    BY <1>1, <1>2, <1>3 DEF ToolInv, TypeOK
  <2>2. phase' \in [Attempts -> {"idle", "open", "answered", "lost"} \cup Final]
    BY <1>1 DEF ToolInv, TypeOK, Final
  <2>3. sending' \in SUBSET Attempts
    BY DEF ToolInv, TypeOK
  <2> QED
    BY <1>1, <1>3, <2>1, <2>2, <2>3 DEF ToolInv, TypeOK
<1>5. SessionInv'
  <2>1. \A s : Gone(s)' = Gone(s)
    BY <1>1 DEF Gone
  <2> QED
    BY <1>1, <2>1 DEF ToolInv, SessionInv
<1>6. \A b \in Attempts : phase'[b] \in {"answered", "ok"} => b \in ran /\ result'[b] # None
  BY <1>1 DEF ToolInv, AnsweredInv
<1>7. \A b \in Attempts : phase'[b] = phase[b] \/ (InFlight(b) /\ phase'[b] # "idle")
  BY <1>1
<1>8. \A b \in Attempts : ~InFlight(b)' => b \notin sending'
  <2> SUFFICES ASSUME NEW b \in Attempts, ~InFlight(b)' PROVE b \notin sending'
    OBVIOUS
  <2>1. CASE b = a
    BY <1>1, <2>1 DEF InFlight
  <2>2. CASE b # a
    BY <1>1, <2>2 DEF InFlight, ToolInv, SendInv
  <2> QED
    BY <2>1, <2>2
<1> QED
  BY <1>1, <1>2, <1>4, <1>5, <1>6, <1>7, <1>8, ServerSideKeeps DEF ToolInv, RanInv

\* A name that passes on takes its open requests with it, and its session does
\* not come back.
LEMMA PassOnKeeps ==
  ASSUME ToolInv, NEW n \in Nodes, NEW s \in Sessions \cup {None},
         NEW A \in SUBSET Server!Open(n), Server!PassOn(n, s, A),
         A \subseteq ran, s \notin retired,
         retired' = retired \cup ({s} \ {None}),
         result' \in [Attempts -> Results \cup {None}],
         \A b \in Attempts : b \in A \/ result[b] # None => result'[b] # None,
         UNCHANGED <<ran, toolVars, sendVars, elapsed>>
  PROVE  ToolInv'
<1> USE DEF toolVars, sendVars
<1>1. /\ \A b \in Attempts :
           phase'[b] = IF b \in A THEN "answered"
                       ELSE IF phase[b] = "open" /\ node[b] = n THEN "lost" ELSE phase[b]
      /\ phase' = [b \in Attempts |->
                     IF b \in A THEN "answered"
                     ELSE IF phase[b] = "open" /\ node[b] = n THEN "lost" ELSE phase[b]]
      /\ A \subseteq {b \in Attempts : phase[b] = "open" /\ node[b] = n}
      /\ UNCHANGED <<node, session>>
      /\ holder' = [holder EXCEPT ![n] = s]
      /\ holder \in [Nodes -> Sessions \cup {None}]
  BY DEF Server!PassOn, Server!Open, ToolInv, TypeOK
<1>2. \A b \in Attempts : InFlight(b)' <=> InFlight(b)
  BY <1>1 DEF InFlight
<1>3. \A b \in Attempts : EndpointTimeout(b)' = EndpointTimeout(b)
  BY DEF EndpointTimeout
<1>4. TypeOK'
  <2>1. phase' \in [Attempts -> {"idle", "open", "answered", "lost"} \cup Final]
    BY <1>1 DEF ToolInv, TypeOK
  <2> QED
    BY <1>1, <1>3, <2>1 DEF ToolInv, TypeOK
<1>5. SessionInv'
  <2>1. \A m \in Nodes : holder'[m] = IF m = n THEN s ELSE holder[m]
    BY <1>1
  <2>2. /\ \A m \in Nodes : holder[m] # None => holder[m] \in retired
        /\ \A m, k \in Nodes : holder[m] = holder[k] /\ holder[m] # None => m = k
        /\ \A a \in Attempts : session[a] # None => session[a] \in retired
    BY DEF ToolInv, SessionInv
  <2>3. /\ \A m \in Nodes : holder'[m] # None => holder'[m] \in retired'
        /\ \A m, k \in Nodes : holder'[m] = holder'[k] /\ holder'[m] # None => m = k
        /\ \A a \in Attempts : session[a] # None => session[a] \in retired'
    BY <2>1, <2>2
  <2>4. \A a \in Attempts : phase'[a] = "open" =>
          node[a] \in Nodes /\ session[a] = holder'[node[a]] /\ session[a] # None
    BY <1>1, <2>1 DEF ToolInv, SessionInv
  <2>5. ASSUME NEW a \in Attempts, phase[a] = "open", node[a] = n
        PROVE  Gone(session[a])'
    <3>1. session[a] = holder[n] /\ session[a] # None /\ session[a] \in retired
      BY <2>2, <2>5 DEF ToolInv, SessionInv
    <3>2. \A m \in Nodes : holder'[m] # session[a]
      BY <2>1, <2>2, <3>1
    <3> QED
      BY <1>1, <3>1, <3>2 DEF Gone
  <2>6. ASSUME NEW a \in Attempts, phase'[a] \in {"lost", "unreachable"}, session[a] # None
        PROVE  Gone(session[a])'
    <3>1. CASE phase[a] \in {"lost", "unreachable"}
      <4>1. Gone(session[a])
        BY <2>6, <3>1 DEF ToolInv, SessionInv
      <4>2. Gone(session[a])' <=> (session[a] \in retired' /\ \A m \in Nodes : holder'[m] # session[a])
        BY <1>1 DEF Gone
      <4> QED
        BY <2>1, <2>6, <4>1, <4>2 DEF Gone
    <3>2. CASE phase[a] = "open" /\ node[a] = n
      BY <2>5, <3>2
    <3> QED
      BY <1>1, <2>6, <3>1, <3>2
  <2> QED
    BY <1>1, <2>3, <2>4, <2>6 DEF SessionInv
<1>6. \A b \in Attempts :
        /\ phase'[b] = phase[b] \/ (InFlight(b) /\ phase'[b] # "idle")
        /\ age'[b] = IF InFlight(b)' THEN age[b] ELSE 0
        /\ ~InFlight(b)' => b \notin sending
        /\ phase'[b] \in {"answered", "ok"} => b \in ran /\ result'[b] # None
  BY <1>1, <1>2 DEF InFlight, ToolInv, SendInv, AnsweredInv
<1> QED
  BY <1>1, <1>4, <1>5, <1>6, ServerSideKeeps DEF ToolInv, RanInv

\* Every step of the nodes.
LEMMA NodeStepKeeps == ASSUME ToolInv, NodeStep PROVE ToolInv'
<1>1. ASSUME NEW n \in Nodes, NEW s \in Sessions \cup {None}, Hold(n, s)
      PROVE  ToolInv'
  <2>1. s \notin retired /\ Server!PassOn(n, s, {})
    BY <1>1 DEF Hold, Server!Hold
  <2> QED
    BY <1>1, <2>1, PassOnKeeps DEF Hold, nodeVars, ToolInv, TypeOK
<1>2. ASSUME NEW a \in Attempts, Run(a)
      PROVE  ToolInv'
  <2> USE DEF Run, serverVars, toolVars, sendVars
  <2>1. TypeOK' /\ SessionInv'
    BY <1>2 DEF ToolInv, TypeOK, EndpointTimeout, SessionInv, Gone
  <2>2. \A b \in Attempts :
          /\ age'[b] = IF InFlight(b)' THEN age[b] ELSE 0
          /\ ~InFlight(b)' => b \notin sending
          /\ phase'[b] \in {"answered", "ok"} => b \in ran' /\ result'[b] # None
    BY <1>2 DEF ToolInv, SendInv, InFlight, AnsweredInv
  <2> QED
    BY <1>2, <2>1, <2>2, ServerSideKeeps DEF ToolInv, RanInv
<1>3. ASSUME NEW a \in Attempts, NEW r \in Results, Answer(a, r)
      PROVE  ToolInv'
  <2>1. /\ a \in ran
        /\ result' \in [Attempts -> Results \cup {None}]
        /\ \A b \in Attempts : b = a \/ result[b] # None => result'[b] # None
        /\ UNCHANGED <<retired, ran, toolVars, sendVars, elapsed>>
    BY <1>3, ToolAssumption DEF Answer, ToolInv, TypeOK
  <2>2. CASE Server!Answer(a)
    <3>1. phase[a] = "open" /\ Server!Move(a, {phase[a]}, "answered")
      BY <2>2 DEF Server!Answer, Server!Move
    <3>2. age \in [Attempts -> Nat]
      BY DEF ToolInv, TypeOK
    <3> QED
      BY <2>1, <3>1, <3>2, MoveKeeps DEF InFlight, sendVars
  <2>3. CASE Server!AnswerAndRelease(node[a], a)
    <3>1. /\ {a} \in SUBSET Server!Open(node[a])
          /\ Server!PassOn(node[a], None, {a})
      BY <2>3 DEF Server!AnswerAndRelease
    <3>2. phase[a] = "open"
      BY <3>1 DEF Server!Open
    <3>3. node[a] \in Nodes /\ None \notin retired
      BY <3>2, ToolAssumption DEF ToolInv, TypeOK, SessionInv
    <3> QED
      BY <2>1, <3>1, <3>3, PassOnKeeps
  <2> QED
    BY <1>3, <2>2, <2>3 DEF Answer
<1> QED
  BY <1>1, <1>2, <1>3 DEF NodeStep

\* Every step of an endpoint.
LEMMA ServerStepKeeps ==
  ASSUME ToolInv, NEW a \in Attempts, ServerStep(a)
  PROVE  ToolInv'
<1>1. ASSUME NEW p \in {"ok", "unreachable", "gave_up"}, InFlight(a),
             Server!Move(a, {phase[a]}, p),
             p = "ok" => phase[a] = "answered",
             p = "unreachable" => phase[a] = "lost",
             a \notin sending', sending' \subseteq sending,
             age' = [age EXCEPT ![a] = 0],
             UNCHANGED <<nodeVars, toolVars, held, elapsed>>
      PROVE  ToolInv'
  <2>1. /\ age' \in [Attempts -> Nat]
        /\ \A b \in Attempts : age'[b] = IF b = a /\ p # "answered" THEN 0 ELSE age[b]
    BY <1>1 DEF ToolInv, TypeOK
  <2>2. result' \in [Attempts -> Results \cup {None}] /\ UNCHANGED <<retired, ran, result>>
    BY <1>1 DEF nodeVars, ToolInv, TypeOK
  <2>3. p \in {"answered", "ok"} => a \in ran /\ result'[a] # None
    BY <1>1, <2>2 DEF ToolInv, AnsweredInv
  <2> QED
    BY <1>1, <2>1, <2>2, <2>3, MoveKeeps
<1>2. CASE Return(a)
  <2>1. \/ phase[a] = "answered" /\ Server!Move(a, {phase[a]}, "ok")
        \/ phase[a] = "lost" /\ Server!Move(a, {phase[a]}, "unreachable")
    BY <1>2 DEF Return, Server!Return, Server!Move
  <2> QED
    BY <1>1, <1>2, <2>1 DEF Return, InFlight
<1>3. CASE EndpointGivesUp(a)
  <2>1. InFlight(a) /\ Server!Move(a, {phase[a]}, "gave_up")
    BY <1>3 DEF EndpointGivesUp, Server!GiveUp, Server!Move, InFlight
  <2> QED
    BY <1>1, <1>3, <2>1 DEF EndpointGivesUp
<1>4. CASE SendFails(a)
  <2>1. InFlight(a) /\ Server!Move(a, {phase[a]}, "gave_up")
    BY <1>4 DEF SendFails, Server!GiveUp, Server!Move, InFlight
  <2>2. age' = [age EXCEPT ![a] = 0]
    BY <1>4 DEF SendFails, ToolInv, TypeOK, SendInv
  <2>3. a \notin sending' /\ sending' \subseteq sending
    BY <1>4 DEF SendFails
  <2> QED
    BY <1>1, <1>4, <2>1, <2>2, <2>3 DEF SendFails
<1>5. CASE FrameSent(a)
  <2> USE DEF FrameSent, serverVars, nodeVars, toolVars
  <2>1. TypeOK' /\ SessionInv'
    BY <1>5 DEF ToolInv, TypeOK, EndpointTimeout, SessionInv, Gone
  <2>2. \A b \in Attempts :
          /\ age'[b] = IF InFlight(b)' THEN age[b] ELSE 0
          /\ ~InFlight(b)' => b \notin sending'
          /\ phase'[b] \in {"answered", "ok"} => b \in ran' /\ result'[b] # None
    BY <1>5 DEF ToolInv, SendInv, InFlight, AnsweredInv
  <2> QED
    BY <1>5, <2>1, <2>2, ServerSideKeeps DEF ToolInv, RanInv
<1> QED
  BY <1>2, <1>3, <1>4, <1>5 DEF ServerStep

\* A tick of the clock.  A send that is stuck after it makes no promise; one
\* that is not has left the endpoint time enough.
LEMMA TickKeeps == ASSUME ToolInv, Tick PROVE ToolInv'
<1> USE DEF Tick, serverVars, nodeVars, toolVars
<1>1. \A t \in Tools : Current(t) \in Attempts /\ Current(t)' = Current(t)
  BY TimerRange DEF ToolInv, Current
<1>2. /\ \A a \in Attempts :
           /\ EndpointTimeout(a) \in Nat \ {0} /\ EndpointTimeout(a)' = EndpointTimeout(a)
           /\ Margin(a) \in Int /\ Margin(a)' = Margin(a)
      /\ \A t \in Tools :
           /\ ClientTimeout(t) \in Nat /\ ClientTimeout(t)' = ClientTimeout(t)
           /\ Margin(Current(t)) = ClientTimeout(t) - EndpointTimeout(Current(t))
  BY TimerRange DEF ToolInv, EndpointTimeout, ClientTimeout, Margin
<1>3. /\ age \in [Attempts -> Nat] /\ elapsed \in [Tools -> Nat] /\ held \in [Attempts -> Nat]
      /\ \A a \in Attempts : InFlight(a)' <=> InFlight(a)
      /\ \A a \in Attempts :
           /\ age'[a] = IF InFlight(a) /\ a \notin sending THEN age[a] + 1 ELSE 0
           /\ held'[a] = IF a \in sending /\ ~Stuck(a) THEN held[a] + 1 ELSE held[a]
      /\ \A t \in Tools : pc[t] \in {"wait", "pause"} => elapsed'[t] = elapsed[t] + 1
  BY DEF ToolInv, TypeOK, InFlight
<1>4. \A a \in Attempts : ~Stuck(a)' => ~Stuck(a)
  BY <1>2, <1>3 DEF Stuck
<1>5. TypeOK'
  <2>1. \A a \in Attempts : age'[a] <= EndpointTimeout(a)
    BY <1>2, <1>3 DEF Idle
  <2>2. ASSUME NEW t \in Tools, pc[t] = "pause"
        PROVE  elapsed'[t] <= BackoffCap
    <3>1. elapsed[t] \in Nat /\ tries[t] \in 0..MaxRetries /\ BackoffCap \in Nat
      BY ToolAssumption DEF ToolInv, TypeOK
    <3>2. elapsed[t] < Delay(tries[t])
      BY <2>2 DEF Idle
    <3>3. elapsed'[t] = elapsed[t] + 1
      BY <1>3, <2>2
    <3>4. Delay(tries[t]) \in Int /\ Delay(tries[t]) <= BackoffCap
      BY <3>1, DelayBound
    <3> QED
      BY <3>1, <3>2, <3>3, <3>4
  <2>3. /\ age' \in [Attempts -> Nat]
        /\ held' \in [Attempts -> Nat]
        /\ elapsed' \in [Tools -> Nat]
    BY <1>3
  <2> QED
    BY <1>2, <2>1, <2>2, <2>3 DEF ToolInv, TypeOK
<1>6. SendInv'
  <2>1. \A a \in sending : a \in Attempts
    BY DEF ToolInv, TypeOK
  <2>2. \A a \in Attempts : phase[a] = "idle" => a \notin sending /\ held[a] = 0
    BY DEF ToolInv, SendInv, InFlight
  <2>3. \A a \in Attempts : ~InFlight(a) => a \notin sending
    BY DEF ToolInv, SendInv
  <2> QED
    BY <1>3, <2>1, <2>2, <2>3 DEF SendInv
<1>7. Timers'
  <2> SUFFICES ASSUME NEW t \in Tools, pc[t] = "wait", ~Stuck(Current(t))'
               PROVE  /\ elapsed'[t] = held'[Current(t)] + age'[Current(t)]
                      /\ elapsed'[t] < ClientTimeout(t)
    BY <1>1, <1>2 DEF Timers, Stuck
  <2> DEFINE a == Current(t)
  <2>1. a \in Attempts /\ InFlight(a) /\ ~Stuck(a) /\ held'[a] < Margin(a)
    BY <1>1, <1>2, <1>3, <1>4 DEF Idle, Stuck
  <2>2. elapsed[t] = held[a] + age[a]
    BY <2>1 DEF ToolInv, Timers
  <2> HIDE DEF a
  <2>3. CASE a \in sending
    <3>1. age[a] = 0 /\ age'[a] = 0 /\ held'[a] = held[a] + 1
      BY <1>3, <2>1, <2>3 DEF ToolInv, SendInv
    <3> QED
      BY <1>2, <1>3, <2>1, <2>2, <3>1 DEF a
  <2>4. CASE a \notin sending
    <3>1. age'[a] = age[a] + 1 /\ held'[a] = held[a] /\ age[a] < EndpointTimeout(a)
      BY <1>3, <2>1, <2>4 DEF Idle
    <3> QED
      BY <1>2, <1>3, <2>1, <2>2, <3>1 DEF a
  <2> QED
    BY <2>3, <2>4 DEF a
<1>8. /\ NotMade' /\ AnsweredInv' /\ RanInv' /\ ReportHasGrounds'
  BY <1>1 DEF ToolInv, NotMade, AnsweredInv, RanInv, ReportHasGrounds, Refused
<1>9. /\ PauseInv' /\ OtherSession' /\ RepeatedOnlyIfUnreachable'
  BY <1>1, <1>4, AttemptsOf DEF ToolInv, PauseInv, OtherSession, RepeatedOnlyIfUnreachable
<1>10. SessionInv'
  BY DEF ToolInv, SessionInv, Gone
<1> QED
  BY <1>5, <1>6, <1>7, <1>8, <1>9, <1>10 DEF ToolInv

(***************************************************************************)
(* Steps of the tools.                                                     *)
(***************************************************************************)

\* A tool that stops waiting pauses or reports, and touches nothing else.
LEMMA WaitEndKeeps ==
  ASSUME ToolInv, NEW t \in Tools, pc[t] = "wait",
         elapsed' = [elapsed EXCEPT ![t] = 0],
         UNCHANGED <<serverVars, nodeVars, sendVars, tries, target, kind, timeout>>,
         \/ /\ tries[t] < MaxRetries
            /\ ~Stuck(Current(t)) => phase[Current(t)] \in {"idle", "unreachable"}
            /\ pc' = [pc EXCEPT ![t] = "pause"]
            /\ UNCHANGED report
         \/ \E r \in Reports :
              /\ r \in {"success", "failure"} =>
                   /\ Current(t) \in ran /\ phase[Current(t)] = "ok"
                   /\ result[Current(t)] # None
              /\ r = "unreachable" => tries[t] = MaxRetries /\ Refused(Current(t))
              /\ r = "error" => tries[t] = MaxRetries \/ phase[Current(t)] = "gave_up"
              /\ End(t, r)
  PROVE  ToolInv'
<1> USE DEF serverVars, nodeVars, sendVars
<1>1. /\ \A u \in Tools : Current(u)' = Current(u)
      /\ \A u \in Tools : ClientTimeout(u)' = ClientTimeout(u)
      /\ \A a : EndpointTimeout(a)' = EndpointTimeout(a)
      /\ \A a : Stuck(a)' <=> Stuck(a)
  BY DEF Current, Stuck, Margin, ClientTimeout, EndpointTimeout
<1>2. /\ \A u \in Tools : u # t => /\ pc'[u] = pc[u] /\ report'[u] = report[u]
                                   /\ elapsed'[u] = elapsed[u]
      /\ pc'[t] \in {"pause", "done"} /\ elapsed'[t] = 0
      /\ pc' \in [Tools -> {"idle", "wait", "pause", "done"}]
      /\ report' \in [Tools -> Reports]
      /\ elapsed' \in [Tools -> Nat]
      /\ report'[t] # "none" => pc'[t] = "done"
  BY DEF End, ToolInv, TypeOK, NotMade
<1>3. TypeOK'
  <2>1. \A u \in Tools : pc'[u] = "pause" => elapsed'[u] <= BackoffCap
    BY <1>2, ToolAssumption DEF ToolInv, TypeOK
  <2> QED
    BY <1>1, <1>2, <2>1 DEF ToolInv, TypeOK
<1>4. NotMade'
  <2>1. \A u \in Tools : pc'[u] = "idle" <=> pc[u] = "idle"
    BY <1>2
  <2> QED
    BY <1>2, <2>1 DEF ToolInv, NotMade
<1>5. SendInv'
  BY DEF ToolInv, SendInv, InFlight
<1>6. Timers'
  BY <1>1, <1>2 DEF ToolInv, Timers, InFlight
<1>7. PauseInv'
  BY <1>1, <1>2 DEF ToolInv, PauseInv, End
<1>8. SessionInv'
  BY DEF ToolInv, SessionInv, Gone
<1>9. AnsweredInv' /\ RanInv'
  BY DEF ToolInv, AnsweredInv, RanInv
<1>10. OtherSession' /\ RepeatedOnlyIfUnreachable'
  BY <1>1 DEF ToolInv, OtherSession, RepeatedOnlyIfUnreachable
<1>11. ReportHasGrounds'
  <2>1. report'[t] # "none" =>
          \E r \in Reports :
              /\ r \in {"success", "failure"} =>
                   /\ Current(t) \in ran /\ phase[Current(t)] = "ok"
                   /\ result[Current(t)] # None
              /\ r = "unreachable" => tries[t] = MaxRetries /\ Refused(Current(t))
              /\ r = "error" => tries[t] = MaxRetries \/ phase[Current(t)] = "gave_up"
              /\ report'[t] = r
    BY DEF End, ToolInv, TypeOK, NotMade
  <2> QED
    BY <1>1, <1>2, <2>1 DEF ToolInv, ReportHasGrounds, Refused
<1> QED
  BY <1>3, <1>4, <1>5, <1>6, <1>7, <1>8, <1>9, <1>10, <1>11 DEF ToolInv

\* The tool has its response, or stops waiting for it.
LEMMA WaitStepKeeps ==
  ASSUME ToolInv, NEW t \in Tools, Receive(t) \/ ClientTimesOut(t)
  PROVE  ToolInv'
<1>1. Current(t) \in Attempts /\ tries[t] \in 0..MaxRetries
  BY TimerRange DEF ToolInv, TypeOK
<1>2. /\ pc[t] = "wait"
      /\ elapsed' = [elapsed EXCEPT ![t] = 0]
      /\ UNCHANGED <<serverVars, nodeVars, sendVars, tries, target, kind, timeout>>
  BY DEF Receive, ClientTimesOut
<1>3. ASSUME NEW r \in {"unreachable", "error"}, TryAgain(t, r),
             ~Stuck(Current(t)) => phase[Current(t)] \in {"idle", "unreachable"},
             r = "unreachable" => Refused(Current(t))
      PROVE  ToolInv'
  <2>1. CASE tries[t] < MaxRetries
    BY <1>2, <1>3, <2>1, WaitEndKeeps DEF TryAgain
  <2>2. CASE ~(tries[t] < MaxRetries)
    <3>1. tries[t] = MaxRetries /\ End(t, r) /\ r \in Reports
      BY <1>1, <1>3, <2>2, ToolAssumption DEF TryAgain, Reports
    <3> QED
      BY <1>2, <1>3, <3>1, WaitEndKeeps
  <2> QED
    BY <2>1, <2>2
<1>4. CASE ClientTimesOut(t)
  <2>1. Stuck(Current(t))
    <3>1. elapsed[t] = ClientTimeout(t) /\ ClientTimeout(t) \in Nat
      BY <1>4, TimerRange DEF ClientTimesOut, ToolInv
    <3>2. ~Stuck(Current(t)) => elapsed[t] < ClientTimeout(t)
      BY <1>2 DEF ToolInv, Timers
    <3> QED
      BY <3>1, <3>2
  <2> QED
    BY <1>3, <1>4, <2>1 DEF ClientTimesOut
<1>5. CASE Receive(t)
  <2>1. CASE phase[Current(t)] = "ok" /\ End(t, Reported(t, result[Current(t)]))
    <3>1. Reported(t, result[Current(t)]) \in {"success", "failure"}
      BY DEF Reported
    <3>2. Current(t) \in ran /\ result[Current(t)] # None
      BY <1>1, <2>1 DEF ToolInv, AnsweredInv
    <3> QED
      BY <1>2, <2>1, <3>1, <3>2, WaitEndKeeps DEF Reports
  <2>2. CASE phase[Current(t)] = "gave_up" /\ End(t, "error")
    BY <1>2, <2>2, WaitEndKeeps DEF Reports
  <2>3. CASE \/ Refused(Current(t)) /\ TryAgain(t, "unreachable")
             \/ Crashed(Current(t)) /\ TryAgain(t, "error")
             \/ phase[Current(t)] = "idle" /\ TryAgain(t, "error")
    BY <1>3, <2>3 DEF Refused, Crashed
  <2> QED
    BY <1>5, <2>1, <2>2, <2>3 DEF Receive
<1> QED
  BY <1>4, <1>5

\* What a new attempt changes at the server: the entry of that attempt.
LEMMA SendFields ==
  ASSUME ToolInv, NEW t \in Tools, NEW k \in 0..MaxRetries, NEW n \in Nodes,
         phase[<<t, k>>] = "idle", Send(t, k, n)
  PROVE  /\ phase' \in [Attempts -> {"idle", "open", "answered", "lost"} \cup Final]
         /\ node' \in [Attempts -> Nodes \cup {None}]
         /\ session' \in [Attempts -> Sessions \cup {None}]
         /\ sending' \in SUBSET Attempts
         /\ UNCHANGED holder
         /\ \A b \in sending' : b \in sending \/ (b = <<t, k>> /\ phase'[b] = "open")
         /\ \A b \in Attempts : b # <<t, k>> =>
              phase'[b] = phase[b] /\ node'[b] = node[b] /\ session'[b] = session[b]
         /\ \/ /\ phase'[<<t, k>>] = "open" /\ node'[<<t, k>>] = n
               /\ session'[<<t, k>>] = holder[n] /\ holder[n] # None
            \/ /\ phase'[<<t, k>>] \in {"idle", "unreachable", "gave_up"}
               /\ session'[<<t, k>>] = None
<1>1. <<t, k>> \in Attempts
  BY AttemptsOf
<1>2. /\ phase \in [Attempts -> {"idle", "open", "answered", "lost"} \cup Final]
      /\ node \in [Attempts -> Nodes \cup {None}]
      /\ session \in [Attempts -> Sessions \cup {None}]
      /\ holder[n] \in Sessions \cup {None}
  BY DEF ToolInv, TypeOK
<1>3. CASE UNCHANGED serverVars /\ UNCHANGED sending
  BY <1>1, <1>2, <1>3 DEF serverVars, ToolInv, NotMade, TypeOK
<1>4. ASSUME NEW p \in {"open", "unreachable", "gave_up"}, NEW s \in Sessions \cup {None},
             Server!Ask(<<t, k>>, n, p, s),
             p = "open" => /\ s = holder[n] /\ s # None
                           /\ sending' = sending \cup {<<t, k>>},
             p # "open" => s = None /\ UNCHANGED sending
      PROVE  /\ phase' \in [Attempts -> {"idle", "open", "answered", "lost"} \cup Final]
             /\ node' \in [Attempts -> Nodes \cup {None}]
             /\ session' \in [Attempts -> Sessions \cup {None}]
             /\ sending' \in SUBSET Attempts
             /\ UNCHANGED holder
             /\ \A b \in sending' : b \in sending \/ (b = <<t, k>> /\ phase'[b] = "open")
             /\ \A b \in Attempts : b # <<t, k>> =>
                  phase'[b] = phase[b] /\ node'[b] = node[b] /\ session'[b] = session[b]
             /\ \/ /\ phase'[<<t, k>>] = "open" /\ node'[<<t, k>>] = n
                   /\ session'[<<t, k>>] = holder[n] /\ holder[n] # None
                \/ /\ phase'[<<t, k>>] \in {"idle", "unreachable", "gave_up"}
                   /\ session'[<<t, k>>] = None
  BY <1>1, <1>2, <1>4 DEF Server!Ask, Final, ToolInv, TypeOK
<1> QED
  BY <1>2, <1>3, <1>4 DEF Send, Server!Accept, Server!Refuse, Server!Fail

\* A tool sends its first attempt or its next one: the attempts before it
\* reached nobody, and their sessions are gone.
LEMMA SendKeeps ==
  ASSUME ToolInv, NEW t \in Tools, NEW k \in 0..MaxRetries, NEW n \in Nodes,
         \/ pc[t] = "idle" /\ k = 0
         \/ pc[t] = "pause" /\ k = tries[t] + 1 /\ UNCHANGED <<target, kind, timeout>>,
         Send(t, k, n),
         target' \in [Tools -> Nodes \cup {None}], target'[t] = n,
         kind' \in [Tools -> {"exec", "transfer"}],
         timeout' \in [Tools -> Timeouts \cup {None}],
         \A u \in Tools : u # t => /\ target'[u] = target[u]
                                   /\ kind'[u] = kind[u]
                                   /\ timeout'[u] = timeout[u]
  PROVE  ToolInv'
<1> DEFINE a == <<t, k>>
<1>1. a \in Attempts /\ (\A l \in 0..MaxRetries : <<t, l>> = a <=> l = k)
      /\ (\A u \in Tools, l \in 0..MaxRetries : u # t => <<u, l>> # a)
  BY AttemptsOf
<1>2. \A l \in 0..MaxRetries : l >= k => phase[<<t, l>>] = "idle"
  BY ToolAssumption DEF ToolInv, NotMade, TypeOK
<1>3. \A l \in 0..MaxRetries : l < k =>
        tries[t] \in 0..MaxRetries /\ l <= tries[t] /\ k = tries[t] + 1
        /\ UNCHANGED <<target, kind, timeout>> /\ pc[t] = "pause"
  BY ToolAssumption DEF ToolInv, TypeOK
<1>4. \A l \in 0..MaxRetries :
        l < k /\ ~Stuck(<<t, l>>)' => phase[<<t, l>>] \in {"idle", "unreachable"}
  <2> SUFFICES ASSUME NEW l \in 0..MaxRetries, l < k, ~Stuck(<<t, l>>)'
               PROVE  phase[<<t, l>>] \in {"idle", "unreachable"}
    OBVIOUS
  <2>1. ~Stuck(<<t, l>>) /\ pc[t] = "pause"
    BY <1>3 DEF Stuck, Margin, ClientTimeout, EndpointTimeout, Send
  <2>2. CASE l < tries[t]
    BY <2>1, <2>2 DEF ToolInv, RepeatedOnlyIfUnreachable
  <2>3. CASE l = tries[t]
    BY <2>1, <2>3 DEF ToolInv, PauseInv, Current
  <2> QED
    BY <1>3, <2>2, <2>3
<1>5. phase[a] = "idle"
  BY <1>2
<1>6. /\ phase' \in [Attempts -> {"idle", "open", "answered", "lost"} \cup Final]
      /\ node' \in [Attempts -> Nodes \cup {None}]
      /\ session' \in [Attempts -> Sessions \cup {None}]
      /\ sending' \in SUBSET Attempts
      /\ UNCHANGED holder
      /\ \A b \in sending' : b \in sending \/ (b = a /\ phase'[b] = "open")
      /\ \A b \in Attempts : b # a =>
           phase'[b] = phase[b] /\ node'[b] = node[b] /\ session'[b] = session[b]
      /\ \/ /\ phase'[a] = "open" /\ node'[a] = n
            /\ session'[a] = holder[n] /\ holder[n] # None
         \/ /\ phase'[a] \in {"idle", "unreachable", "gave_up"}
            /\ session'[a] = None
  BY <1>5, SendFields
<1>7. /\ UNCHANGED <<retired, ran, result, held, age, report>>
      /\ \A u \in Tools : u # t =>
           pc'[u] = pc[u] /\ tries'[u] = tries[u] /\ elapsed'[u] = elapsed[u]
      /\ pc'[t] = "wait" /\ tries'[t] = k /\ elapsed'[t] = 0
      /\ pc' \in [Tools -> {"idle", "wait", "pause", "done"}]
      /\ tries' \in [Tools -> 0..MaxRetries]
      /\ elapsed' \in [Tools -> Nat]
  BY DEF Send, nodeVars, ToolInv, TypeOK
<1>8. age[a] = 0 /\ held[a] = 0 /\ report[t] = "none"
  BY <1>1, <1>5 DEF ToolInv, SendInv, NotMade, InFlight
<1> HIDE DEF a
<1>9. \A b \in Attempts : EndpointTimeout(b)' \in Nat /\
        (b[1] # t => EndpointTimeout(b)' = EndpointTimeout(b))
  <2>1. \A b \in Attempts : b[1] \in Tools
    BY AttemptsOf
  <2>2. /\ \A u \in Tools : timeout'[u] = None \/ timeout'[u] \in Nat
        /\ EndpointDefault \in Nat
    BY ToolAssumption
  <2> QED
    BY <2>1, <2>2 DEF EndpointTimeout
<1>10. \A u \in Tools : u # t => Current(u)' = Current(u) /\ Current(u) # a
                                 /\ Current(u)[1] = u /\ Current(u) \in Attempts
  BY <1>1, <1>7 DEF Current, Attempts, a, ToolInv, TypeOK
<1>11. Current(t)' = a
  BY <1>7 DEF Current, a
<1>12. UNCHANGED <<target, kind, timeout>> \/ \A l \in 0..MaxRetries : phase[<<t, l>>] = "idle"
  BY DEF ToolInv, NotMade
<1>13. TypeOK'
  <2>1. \A b \in Attempts : age'[b] <= EndpointTimeout(b)'
    <3> SUFFICES ASSUME NEW b \in Attempts PROVE age[b] <= EndpointTimeout(b)'
      BY <1>7
    <3>1. CASE b[1] # t
      BY <1>9, <3>1 DEF ToolInv, TypeOK
    <3>2. CASE UNCHANGED <<target, kind, timeout>>
      BY <3>2 DEF ToolInv, TypeOK, EndpointTimeout
    <3>3. CASE b[1] = t /\ \A l \in 0..MaxRetries : phase[<<t, l>>] = "idle"
      <4>1. age[b] = 0
        BY <3>3, AttemptsOf DEF ToolInv, SendInv, InFlight
      <4> QED
        BY <1>9, <4>1
    <3> QED
      BY <1>12, <3>1, <3>2, <3>3
  <2>2. \A u \in Tools : pc'[u] = "pause" => elapsed'[u] <= BackoffCap
    BY <1>7 DEF ToolInv, TypeOK
  <2> QED
    BY <1>6, <1>7, <2>1, <2>2 DEF ToolInv, TypeOK
<1>14. NotMade'
  <2>1. \A b \in Attempts : phase'[b] = "idle" => session'[b] = None
    BY <1>6 DEF ToolInv, NotMade
  <2>2. \A l \in 0..MaxRetries : l > k => phase'[<<t, l>>] = "idle"
    BY <1>1, <1>2, <1>6, AttemptsOf
  <2>3. \A u \in Tools, l \in 0..MaxRetries : u # t => phase'[<<u, l>>] = phase[<<u, l>>]
    BY <1>1, <1>6, AttemptsOf
  <2> QED
    BY <1>7, <1>8, <2>1, <2>2, <2>3 DEF ToolInv, NotMade
<1>15. SendInv' /\ Timers'
  <2>1. SendInv'
    <3>1. ASSUME NEW b \in Attempts, ~InFlight(b)'
          PROVE  age[b] = 0 /\ b \notin sending'
      <4>1. CASE b = a
        <5>1. a \notin sending /\ phase'[a] # "open"
          BY <1>1, <1>5, <3>1, <4>1 DEF ToolInv, SendInv, InFlight
        <5> QED
          BY <1>6, <1>8, <4>1, <5>1
      <4>2. CASE b # a
        <5>1. ~InFlight(b)
          BY <1>6, <3>1, <4>2 DEF InFlight
        <5> QED
          BY <1>6, <4>2, <5>1 DEF ToolInv, SendInv
      <4> QED
        BY <4>1, <4>2
    <3>2. \A b \in sending' : age[b] = 0
      BY <1>6, <1>8 DEF ToolInv, SendInv
    <3>3. \A b \in Attempts : phase'[b] = "idle" => held[b] = 0
      BY <1>6, <1>8 DEF ToolInv, SendInv
    <3> QED
      BY <1>7, <3>1, <3>2, <3>3 DEF SendInv
  <2>2. /\ held'[a] + age'[a] = elapsed'[t]
        /\ ~Stuck(a)' => elapsed'[t] < ClientTimeout(t)'
    <3>1. timeout'[t] = None \/ timeout'[t] \in Nat \ {0}
      BY ToolAssumption
    <3>2. /\ EndpointTimeout(a)' \in Nat \ {0} /\ ClientTimeout(t)' \in Nat
          /\ Margin(a)' = ClientTimeout(t)' - EndpointTimeout(a)'
      BY <3>1, ToolAssumption DEF a, EndpointTimeout, ClientTimeout, Margin
    <3> QED
      BY <1>7, <1>8, <3>2 DEF Stuck
  <2>3. ASSUME NEW u \in Tools, u # t, pc[u] = "wait", ~Stuck(Current(u))'
        PROVE  /\ InFlight(Current(u))' => elapsed[u] = held[Current(u)] + age[Current(u)]
               /\ elapsed[u] < ClientTimeout(u)'
    <3>1. /\ InFlight(Current(u))' <=> InFlight(Current(u))
          /\ Stuck(Current(u))' <=> Stuck(Current(u))
          /\ ClientTimeout(u)' = ClientTimeout(u)
      BY <1>6, <1>7, <1>10, <2>3 DEF InFlight, Stuck, Margin, ClientTimeout, EndpointTimeout
    <3> QED
      BY <2>3, <3>1 DEF ToolInv, Timers
  <2>4. Timers'
    <3> SUFFICES ASSUME NEW u \in Tools, pc'[u] = "wait", ~Stuck(Current(u))'
                 PROVE  /\ InFlight(Current(u))' =>
                             elapsed'[u] = held'[Current(u)'] + age'[Current(u)']
                        /\ elapsed'[u] < ClientTimeout(u)'
      BY DEF Timers
    <3>1. CASE u = t
      BY <1>11, <2>2, <3>1
    <3>2. CASE u # t
      BY <1>7, <1>10, <2>3, <3>2
    <3> QED
      BY <3>1, <3>2
  <2> QED
    BY <2>1, <2>4
<1>16. PauseInv'
  <2> SUFFICES ASSUME NEW u \in Tools, u # t, pc[u] = "pause"
               PROVE  /\ tries[u] < MaxRetries
                      /\ ~Stuck(Current(u))' => phase'[Current(u)] \in {"idle", "unreachable"}
    BY <1>7, <1>10 DEF PauseInv
  <2>1. Stuck(Current(u))' <=> Stuck(Current(u))
    BY <1>7, <1>10 DEF Stuck, Margin, ClientTimeout, EndpointTimeout
  <2> QED
    BY <1>6, <1>10, <2>1 DEF ToolInv, PauseInv
<1>17. AnsweredInv' /\ RanInv'
  <2>1. a \notin ran
    BY <1>1, <1>5 DEF ToolInv, NotMade, RanInv
  <2> QED
    BY <1>6, <1>7, <2>1 DEF ToolInv, AnsweredInv, RanInv, TypeOK
<1>18. SessionInv'
  <2>1. \A r : Gone(r)' <=> Gone(r)
    BY <1>6, <1>7 DEF Gone
  <2> QED
    BY <1>6, <1>7, <2>1 DEF ToolInv, SessionInv
<1>19. OtherSession'
  <2> SUFFICES ASSUME NEW u \in Tools, NEW i \in 0..MaxRetries, NEW l \in 0..MaxRetries,
                      i < l, ~Stuck(<<u, i>>)', session'[<<u, i>>] # None
               PROVE  session'[<<u, i>>] # session'[<<u, l>>]
    BY DEF OtherSession
  <2> USE AttemptsOf
  <2>1. CASE u # t
    <3>1. ~Stuck(<<u, i>>)
      BY <1>7, <2>1 DEF Stuck, Margin, ClientTimeout, EndpointTimeout
    <3> QED
      BY <1>1, <1>6, <2>1, <3>1 DEF ToolInv, OtherSession
  <2>2. CASE u = t /\ l > k
    <3>1. session'[<<t, l>>] = None
      BY <1>1, <1>2, <1>6, <2>2 DEF ToolInv, NotMade
    <3> QED
      BY <2>2, <3>1
  <2>3. CASE u = t /\ l <= k
    <3>1. i < k
      BY <2>3
    <3>2. session'[<<t, i>>] = session[<<t, i>>]
      BY <1>1, <1>6, <3>1
    <3>3. phase[<<t, i>>] \in {"idle", "unreachable"}
      BY <1>4, <2>3, <3>1
    <3>4. Gone(session[<<t, i>>])
      BY <2>3, <3>2, <3>3 DEF ToolInv, SessionInv, NotMade
    <3>5. CASE l < k
      <4>1. ~Stuck(<<t, i>>)
        BY <1>3, <1>7, <2>3, <3>1 DEF Stuck, Margin, ClientTimeout, EndpointTimeout
      <4> QED
        BY <1>1, <1>6, <2>3, <3>2, <3>5, <4>1 DEF ToolInv, OtherSession
    <3>6. CASE l = k
      <4>1. session'[<<t, l>>] \in {holder[n], None}
        BY <1>6, <3>6 DEF a
      <4>2. session[<<t, i>>] \notin {holder[n], None}
        BY <2>3, <3>2, <3>4 DEF Gone
      <4> QED
        BY <2>3, <3>2, <4>1, <4>2
    <3> QED
      BY <2>3, <3>5, <3>6
  <2> QED
    BY <2>1, <2>2, <2>3
<1>20. RepeatedOnlyIfUnreachable'
  <2> SUFFICES ASSUME NEW u \in Tools, NEW l \in 0..MaxRetries,
                      l < tries'[u], ~Stuck(<<u, l>>)'
               PROVE  phase'[<<u, l>>] \in {"idle", "unreachable"}
    BY DEF RepeatedOnlyIfUnreachable
  <2> USE AttemptsOf
  <2>1. CASE u # t
    <3>1. ~Stuck(<<u, l>>)
      BY <1>7, <2>1 DEF Stuck, Margin, ClientTimeout, EndpointTimeout
    <3> QED
      BY <1>1, <1>6, <1>7, <2>1, <3>1 DEF ToolInv, RepeatedOnlyIfUnreachable
  <2>2. CASE u = t
    BY <1>1, <1>4, <1>6, <1>7, <2>2
  <2> QED
    BY <2>1, <2>2
<1>21. ReportHasGrounds'
  BY <1>6, <1>7, <1>8, <1>10, <1>11 DEF ToolInv, ReportHasGrounds, Refused
<1> QED
  BY <1>13, <1>14, <1>15, <1>16, <1>17, <1>18, <1>19, <1>20, <1>21 DEF ToolInv

\* Every step of a tool.
LEMMA ToolStepKeeps ==
  ASSUME ToolInv, NEW t \in Tools, ToolStep(t)
  PROVE  ToolInv'
<1>1. ASSUME NEW n \in Nodes, NEW k \in {"exec", "transfer"},
             NEW limit \in Timeouts \cup {None}, Call(t, n, k, limit)
      PROVE  ToolInv'
  <2>1. 0 \in 0..MaxRetries
    BY ToolAssumption
  <2>2. /\ pc[t] = "idle" /\ Send(t, 0, n)
        /\ target' \in [Tools -> Nodes \cup {None}] /\ target'[t] = n
        /\ kind' \in [Tools -> {"exec", "transfer"}]
        /\ timeout' \in [Tools -> Timeouts \cup {None}]
        /\ \A u \in Tools : u # t => /\ target'[u] = target[u]
                                     /\ kind'[u] = kind[u]
                                     /\ timeout'[u] = timeout[u]
    BY <1>1 DEF Call, ToolInv, TypeOK
  <2> QED
    BY <2>1, <2>2, SendKeeps
<1>2. CASE Retry(t)
  <2>1. tries[t] + 1 \in 0..MaxRetries
    BY <1>2, ToolAssumption DEF Retry, ToolInv, TypeOK, PauseInv
  <2>2. /\ pc[t] = "pause" /\ Send(t, tries[t] + 1, target[t])
        /\ UNCHANGED <<target, kind, timeout>>
        /\ target[t] \in Nodes
    BY <1>2 DEF Retry, ToolInv, NotMade
  <2>3. /\ target' \in [Tools -> Nodes \cup {None}]
        /\ kind' \in [Tools -> {"exec", "transfer"}]
        /\ timeout' \in [Tools -> Timeouts \cup {None}]
    BY <2>2 DEF ToolInv, TypeOK
  <2> QED
    BY <2>1, <2>2, <2>3, SendKeeps
<1>3. CASE Receive(t) \/ ClientTimesOut(t)
  BY <1>3, WaitStepKeeps
<1> QED
  BY <1>1, <1>2, <1>3 DEF ToolStep

\* The invariant is inductive.
LEMMA NextKeepsTool == ToolInv /\ [Next]_vars => ToolInv'
<1> SUFFICES ASSUME ToolInv, [Next]_vars PROVE ToolInv'
  OBVIOUS
<1>1. CASE UNCHANGED vars
  <2> USE <1>1 DEF vars, serverVars, nodeVars, toolVars, sendVars
  <2>1. TypeOK' /\ NotMade' /\ SessionInv'
    BY DEF ToolInv, TypeOK, NotMade, SessionInv, Gone, EndpointTimeout
  <2>2. /\ \A a : Stuck(a)' <=> Stuck(a)
        /\ \A t \in Tools : Current(t)' = Current(t) /\ ClientTimeout(t)' = ClientTimeout(t)
    BY DEF Stuck, Margin, ClientTimeout, EndpointTimeout, Current
  <2>3. SendInv' /\ Timers' /\ PauseInv'
    BY <2>2 DEF ToolInv, SendInv, Timers, PauseInv, InFlight
  <2>4. AnsweredInv' /\ OtherSession' /\ RanInv'
    BY <2>2 DEF ToolInv, AnsweredInv, OtherSession, RanInv
  <2>5. RepeatedOnlyIfUnreachable' /\ ReportHasGrounds'
    BY <2>2 DEF ToolInv, RepeatedOnlyIfUnreachable, ReportHasGrounds, Refused
  <2> QED
    BY <2>1, <2>3, <2>4, <2>5 DEF ToolInv
<1> QED
  BY <1>1, ToolStepKeeps, ServerStepKeeps, NodeStepKeeps, TickKeeps DEF Next

\* ... so every reachable state satisfies it.
THEOREM ToolAlways == Spec => []ToolInv
  BY InitToolInv, NextKeepsTool, PTL DEF Spec

\* Variables keep their types; no endpoint is open for longer than its
\* timeout, and no pause is longer than the cap.
THEOREM ToolTypeCorrect == Spec => []TypeOK
<1>1. ToolInv => TypeOK
  BY DEF ToolInv
<1> QED
  BY <1>1, ToolAlways, PTL

\* The retry loop of src/tools.py sends a request again only when server or
\* node could not be reached: never after an answer, never while the endpoint
\* still waits, never after the endpoint's timeout; unless its send took so
\* long that the endpoint's timer was left behind the tool's.
THEOREM RepeatsAreSafe == Spec => []RepeatedOnlyIfUnreachable
<1>1. ToolInv => RepeatedOnlyIfUnreachable
  BY DEF ToolInv
<1> QED
  BY <1>1, ToolAlways, PTL

\* If a node carries out two attempts of a call, and the send of the first was
\* not stuck, it got them on two connections: the second was sent when the
\* first's session was gone.
THEOREM RerunsOnOtherSession == Spec => []RerunOnOtherSession
<1>1. ToolInv => RerunOnOtherSession
  <2> SUFFICES ASSUME ToolInv, NEW a \in ran, NEW b \in ran,
                      a[1] = b[1], a[2] < b[2], ~Stuck(a)
               PROVE  session[a] # session[b]
    BY DEF RerunOnOtherSession
  <2>1. a \in Attempts /\ b \in Attempts /\ session[a] # None
    BY DEF ToolInv, TypeOK, RanInv
  <2>2. /\ a[1] \in Tools /\ a[2] \in 0..MaxRetries /\ b[2] \in 0..MaxRetries
        /\ a = <<a[1], a[2]>> /\ b = <<a[1], b[2]>>
    BY <2>1, AttemptsOf
  <2> QED
    BY <2>1, <2>2 DEF ToolInv, OtherSession
<1> QED
  BY <1>1, ToolAlways, PTL

\* What a tool tells the agent has its grounds: behind a success or a failure
\* there is a reply to the attempt waited for, behind "unreachable" a name
\* without a session at the last of all attempts, and behind another error all
\* attempts or a server that gave up.
THEOREM ReportsHaveGrounds == Spec => []ReportHasGrounds
<1>1. ToolInv => ReportHasGrounds
  BY DEF ToolInv
<1> QED
  BY <1>1, ToolAlways, PTL
=============================================================================
