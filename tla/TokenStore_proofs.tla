------------------------- MODULE TokenStore_proofs -------------------------
(***************************************************************************)
(* Theorems about TokenStore for every set of names, commands, scripts and *)
(* inodes, with their proofs.                                              *)
(***************************************************************************)
EXTENDS TokenStore, SequenceTheorems, TLAPS

\* No two live records of one name.
Unique(contents) ==
  \A r, s \in contents :
    r.name = s.name /\ ~r.revoked /\ ~s.revoked => r = s

\* A command under way has a name and an operation to do, and one that is
\* about to write a new record has read no live record of the name.
Underway ==
  \A p \in Commands :
    /\ pc[p] \notin {"idle"} \cup Ended =>
         name[p] \in Names /\ todo[p] # <<>>
    /\ pc[p] = "read" => ~Refuses(p, snapshot[p])

\* Whatever any process may still write is as good as what the file holds:
\* the invariant does not depend on the lock.
StoreInv ==
  /\ TypeOK
  /\ Underway
  /\ Unique(records)
  /\ Unique(serverRead)
  /\ \A p \in Commands : Unique(snapshot[p])

\* An operation that is not refused keeps one live record per name.
LEMMA AppliedUnique ==
  ASSUME NEW p \in Commands, NEW contents \in SUBSET Records,
         Unique(contents), name[p] \in Names, Head(todo[p]) \in Ops,
         ~Refuses(p, contents)
  PROVE  Applied(p, contents) \in SUBSET Records /\ Unique(Applied(p, contents))
<1> DEFINE mine == {r \in contents : r.name = name[p]}
           fresh == [name |-> name[p], token |-> p, revoked |-> FALSE]
           struck == {[r EXCEPT !.revoked = TRUE] : r \in mine}
<1>1. CASE Head(todo[p]) = "create"
  <2>1. Applied(p, contents) = contents \cup {fresh}
    BY <1>1 DEF Applied
  <2>2. fresh \in Records /\ fresh.name = name[p]
    BY DEF Records
  <2>3. \A r \in contents : r.name = name[p] => r.revoked
    BY <1>1 DEF Refuses, Paired
  <2> HIDE DEF fresh
  <2> QED
    BY <2>1, <2>2, <2>3 DEF Unique
<1>2. CASE Head(todo[p]) = "delete"
  <2>1. Applied(p, contents) = contents \ mine
    BY <1>2 DEF Applied
  <2> QED
    BY <2>1 DEF Unique
<1>3. CASE Head(todo[p]) = "revoke"
  <2>1. Applied(p, contents) = (contents \ mine) \cup struck
    BY <1>3 DEF Applied
  <2>2. \A r \in struck : r \in Records /\ r.revoked
    BY DEF Records
  <2> HIDE DEF struck
  <2> QED
    BY <2>1, <2>2 DEF Unique
<1> QED
  BY <1>1, <1>2, <1>3 DEF Ops

\* The store starts empty.
LEMMA InitStoreInv == Init => StoreInv
<1> SUFFICES ASSUME Init PROVE StoreInv
  OBVIOUS
<1>1. TypeOK
  BY DEF Init, AtRest, TypeOK, Pcs
<1>2. Underway
  BY DEF Init, AtRest, Underway
<1>3. Unique(records) /\ Unique(serverRead) /\ \A p \in Commands : Unique(snapshot[p])
  BY DEF Init, AtRest, Unique
<1> QED
  BY <1>1, <1>2, <1>3 DEF StoreInv

\* A step of a command keeps the invariant.
LEMMA CommandKeepsStoreInv ==
  ASSUME StoreInv, NEW p \in Commands, CommandStep(p)
  PROVE  StoreInv'
<1> USE DEF file, serverVars, Goto, Leave
<1>1. ASSUME NEW n \in Names, NEW script \in Scripts, Start(p, n, script)
      PROVE  StoreInv'
  <2>1. script \in Seq(Ops) /\ script # <<>>
    BY ScriptsAssumption
  <2>2. TypeOK'
    BY <1>1, <2>1 DEF Start, StoreInv, TypeOK, Pcs
  <2>3. Underway'
    BY <1>1, <2>1 DEF Start, StoreInv, TypeOK, Underway, Ended, Refuses
  <2> QED
    BY <1>1, <2>2, <2>3 DEF Start, StoreInv
<1>2. CASE Open(p) \/ Lock(p)
  <2>1. TypeOK'
    BY <1>2 DEF Open, Lock, StoreInv, TypeOK, Pcs
  <2>2. Underway'
    BY <1>2 DEF Open, Lock, StoreInv, TypeOK, Underway, Ended, Refuses
  <2> QED
    BY <1>2, <2>1, <2>2 DEF Open, Lock, StoreInv
<1>3. CASE Read(p)
  <2>1. TypeOK'
    BY <1>3 DEF Read, StoreInv, TypeOK, Pcs, Ended
  <2>2. Underway'
    BY <1>3 DEF Read, StoreInv, TypeOK, Underway, Ended, Refuses
  <2>3. \A q \in Commands : Unique(snapshot[q])'
    BY <1>3 DEF Read, StoreInv, TypeOK, Unique
  <2> QED
    BY <1>3, <2>1, <2>2, <2>3 DEF Read, StoreInv
<1>4. CASE Replace(p)
  <2>1. /\ name[p] \in Names /\ todo[p] \in Seq(Ops) /\ todo[p] # <<>>
        /\ snapshot[p] \in SUBSET Records /\ Unique(snapshot[p])
        /\ ~Refuses(p, snapshot[p])
    BY <1>4 DEF Replace, StoreInv, TypeOK, Underway, Ended
  <2>5. Head(todo[p]) \in Ops
    BY <2>1, HeadTailProperties
  <2>2. records' \in SUBSET Records /\ Unique(records')
    BY <1>4, <2>1, <2>5, AppliedUnique DEF Replace, ReplaceFile
  <2>3. TypeOK'
    BY <1>4, <2>2 DEF Replace, ReplaceFile, StoreInv, TypeOK, Pcs
  <2>4. Underway'
    BY <1>4 DEF Replace, StoreInv, TypeOK, Underway, Ended, Refuses
  <2> QED
    BY <1>4, <2>2, <2>3, <2>4 DEF Replace, StoreInv
<1>5. CASE Finish(p)
  <2>1. todo[p] \in Seq(Ops) /\ todo[p] # <<>> /\ name[p] \in Names
    BY <1>5 DEF Finish, StoreInv, TypeOK, Underway, Ended
  <2>2. /\ Tail(todo[p]) \in Seq(Ops)
        /\ Len(todo[p]) # 1 => Tail(todo[p]) # <<>>
    <3> DEFINE rest == Tail(todo[p])
    <3>1. rest \in Seq(Ops) /\ Len(rest) = Len(todo[p]) - 1 /\ Len(todo[p]) \in Nat
      BY <2>1, HeadTailProperties, LenProperties
    <3> HIDE DEF rest
    <3>2. Len(todo[p]) # 1 => Len(rest) # 0
      BY <3>1
    <3>3. Len(todo[p]) # 1 => rest # <<>>
      BY <3>2
    <3> QED
      BY <3>1, <3>3 DEF rest
  <2>3. {r.token : r \in {s \in snapshot[p] : s.name = name[p]}} \subseteq Commands
    BY DEF StoreInv, TypeOK, Records
  <2>4. TypeOK'
    BY <1>5, <2>2, <2>3 DEF Finish, StoreInv, TypeOK, Pcs, Ended
  <2>5. Underway'
    BY <1>5, <2>1, <2>2 DEF Finish, StoreInv, TypeOK, Underway, Ended, Refuses
  <2> QED
    BY <1>5, <2>4, <2>5 DEF Finish, StoreInv
<1>6. CASE WriteFails(p) \/ Kill(p)
  <2>1. TypeOK'
    BY <1>6 DEF WriteFails, Kill, StoreInv, TypeOK, Pcs, Ended
  <2>2. Underway'
    BY <1>6 DEF WriteFails, Kill, StoreInv, TypeOK, Underway, Ended, Refuses
  <2> QED
    BY <1>6, <2>1, <2>2 DEF WriteFails, Kill, StoreInv
<1> QED
  BY <1>1, <1>2, <1>3, <1>4, <1>5, <1>6 DEF CommandStep, Step

\* A step of the server's validate keeps the invariant.
LEMMA ServerKeepsStoreInv ==
  ASSUME StoreInv, ServerStep
  PROVE  StoreInv'
<1> USE DEF commandVars
<1>1. TypeOK'
  BY DEF ServerStep, Authenticate, Stamp, StampFails, ReplaceFile, file,
         StoreInv, TypeOK
<1>2. Underway'
  BY DEF ServerStep, Authenticate, Stamp, StampFails, StoreInv, Underway, Refuses
<1>3. Unique(records') /\ Unique(serverRead')
  BY DEF ServerStep, Authenticate, Stamp, StampFails, ReplaceFile, file,
         StoreInv, Unique
<1>4. \A p \in Commands : Unique(snapshot[p])'
  BY DEF ServerStep, Authenticate, Stamp, StampFails, StoreInv
<1> QED
  BY <1>1, <1>2, <1>3, <1>4 DEF StoreInv

\* The invariant holds of every behaviour of the processes.
THEOREM SpecStoreInv == Spec => []StoreInv
<1>1. StoreInv /\ [Next]_vars => StoreInv'
  <2> SUFFICES ASSUME StoreInv, [Next]_vars PROVE StoreInv'
    OBVIOUS
  <2>1. CASE Next
    BY <2>1, CommandKeepsStoreInv, ServerKeepsStoreInv DEF Next
  <2>2. CASE UNCHANGED vars
    BY <2>2 DEF vars, file, serverVars, commandVars, StoreInv, TypeOK, Underway,
                Refuses, Unique
  <2> QED
    BY <2>1, <2>2
<1> QED
  BY <1>1, InitStoreInv, PTL DEF Spec

\* Every variable keeps its type.
THEOREM StoreTypeCorrect == Spec => []TypeOK
<1>1. StoreInv => TypeOK
  BY DEF StoreInv
<1> QED
  BY <1>1, SpecStoreInv, PTL

\* However the processes interleave, and though their locks do not exclude
\* each other, the file never holds two live tokens of one name (FR-1.5).
THEOREM OneLiveTokenPerName == Spec => []OneLiveToken
<1>1. StoreInv => OneLiveToken
  BY DEF StoreInv, Unique, OneLiveToken
<1> QED
  BY <1>1, SpecStoreInv, PTL

---------------------------------------------------------------------------
(***************************************************************************)
(* Deleted tokens.  Two more facts are inductive: who still has the file   *)
(* itself locked has read what is in it, and a token is nowhere before its *)
(* command has written it.                                                 *)
(***************************************************************************)

\* An inode that a process has open is not free, so that the path names it
\* still only if nobody has written since.
FreshRead ==
  \A p \in Commands : pc[p] = "read" /\ opened[p] = inode => snapshot[p] = records

CreateLast ==
  \A p \in Commands : \A i \in 1..(Len(todo[p]) - 1) : todo[p][i] # "create"

\* The command may have written its token.
Made(p) == pc[p] \in Ended \/ (pc[p] = "written" /\ Head(todo[p]) = "create")

MadeOnly(contents) == \A r \in contents : Made(r.token)

TokensMade ==
  /\ MadeOnly(records) /\ MadeOnly(serverRead)
  /\ \A p \in Commands : MadeOnly(snapshot[p])
  /\ \A q \in dropped : Made(q)

DropInv == StoreInv /\ FreshRead /\ CreateLast /\ TokensMade

\* A command that has written its token has nothing left to do.
LEMMA MadeStays ==
  ASSUME DropInv, [Next]_vars, NEW q \in Commands, Made(q)
  PROVE  Made(q)'
<1> USE DEF file, serverVars, commandVars, Goto, Leave
<1>1. CASE UNCHANGED vars
  BY <1>1 DEF vars, Made
<1>2. CASE ServerStep
  BY <1>2 DEF ServerStep, Authenticate, Stamp, StampFails, Made
<1>3. ASSUME NEW p \in Commands, CommandStep(p)
      PROVE  Made(q)'
  <2>1. pc \in [Commands -> Pcs] /\ todo \in [Commands -> Seq(Ops)]
    BY DEF DropInv, StoreInv, TypeOK
  <2>2. pc[p] \notin Ended
    BY <1>3 DEF CommandStep, Step, Start, Open, Lock, Read, Replace, Finish, WriteFails, Kill, Ended
  <2>3. CASE p # q
    <3>1. pc'[q] = pc[q] /\ todo'[q] = todo[q]
      BY <1>3, <2>1, <2>3 DEF CommandStep, Step, Start, Open, Lock, Read, Replace, Finish,
           WriteFails, Kill
    <3> QED
      BY <3>1 DEF Made
  <2>4. CASE p = q
    <3>1. pc[p] = "written" /\ Head(todo[p]) = "create"
      BY <2>2, <2>4 DEF Made
    <3>2. Finish(p) \/ WriteFails(p) \/ Kill(p)
      BY <1>3, <3>1 DEF CommandStep, Step, Start, Open, Lock, Read, Replace
    <3>3. CASE Finish(p)
      <4>1. todo[p] \in Seq(Ops) /\ todo[p] # <<>>
        BY <2>1, <3>1 DEF DropInv, StoreInv, Underway, Ended
      <4>2. Len(todo[p]) \in Nat /\ Len(todo[p]) # 0 /\ Head(todo[p]) = todo[p][1]
        BY <4>1, LenProperties, HeadTailProperties, EmptySeq
      <4>3. Len(todo[p]) = 1
        <5>1. \A i \in 1..(Len(todo[p]) - 1) : todo[p][i] # "create"
          BY DEF DropInv, CreateLast
        <5>2. todo[p][1] = "create"
          BY <3>1, <4>2
        <5>3. \A n \in Nat \ {0} : n = 1 \/ 1 \in 1..(n - 1)
          OBVIOUS
        <5> QED
          BY <4>2, <5>1, <5>2, <5>3, Zenon
      <4>4. pc'[p] = "done"
        BY <2>1, <3>3, <4>3 DEF Finish
      <4> QED
        BY <2>4, <4>4 DEF Made, Ended
    <3>4. CASE WriteFails(p) \/ Kill(p)
      <4>1. pc'[p] \in {"failed", "killed"}
        BY <2>1, <3>4 DEF WriteFails, Kill
      <4> QED
        BY <2>4, <4>1 DEF Made, Ended
    <3> QED
      BY <3>2, <3>3, <3>4
  <2> QED
    BY <2>3, <2>4
<1> QED
  BY <1>1, <1>2, <1>3 DEF Next

\* What an operation writes holds the tokens it read and, if it is a create,
\* its own.
LEMMA AppliedTokens ==
  ASSUME NEW p \in Commands, NEW contents \in SUBSET Records, Head(todo[p]) \in Ops
  PROVE  \A r \in Applied(p, contents) :
           \/ r \in contents
           \/ r.token = p /\ Head(todo[p]) = "create"
           \/ r.revoked /\ \E s \in contents : r.token = s.token
<1> DEFINE mine == {r \in contents : r.name = name[p]}
           fresh == [name |-> name[p], token |-> p, revoked |-> FALSE]
           struck == {[r EXCEPT !.revoked = TRUE] : r \in mine}
<1>1. CASE Head(todo[p]) = "create"
  <2>1. Applied(p, contents) = contents \cup {fresh}
    BY <1>1 DEF Applied
  <2> QED
    BY <1>1, <2>1
<1>2. CASE Head(todo[p]) = "delete"
  <2>1. Applied(p, contents) = contents \ mine
    BY <1>2 DEF Applied
  <2> QED
    BY <2>1
<1>3. CASE Head(todo[p]) = "revoke"
  <2>1. Applied(p, contents) = (contents \ mine) \cup struck
    BY <1>3 DEF Applied
  <2>2. \A r \in struck : r.revoked /\ \E s \in contents : r.token = s.token
    BY DEF Records
  <2> HIDE DEF struck
  <2> QED
    BY <2>1, <2>2
<1> QED
  BY <1>1, <1>2, <1>3 DEF Ops

\* Every step keeps the two facts.
LEMMA NextKeepsDropInv ==
  ASSUME DropInv, [Next]_vars, StoreInv'
  PROVE  DropInv'
<1> USE DEF file, serverVars, commandVars, Goto, Leave
<1>1. /\ pc \in [Commands -> Pcs] /\ todo \in [Commands -> Seq(Ops)]
      /\ opened \in [Commands -> Inodes \cup {None}]
      /\ records \in SUBSET Records /\ serverRead \in SUBSET Records
      /\ snapshot \in [Commands -> SUBSET Records] /\ dropped \subseteq Commands
      /\ \A r \in Records : r.token \in Commands
  BY DEF DropInv, StoreInv, TypeOK, Records
<1>2. /\ \A q \in Commands : Made(q) => Made(q)'
      /\ TokensMade /\ FreshRead /\ CreateLast /\ StoreInv
  BY MadeStays DEF DropInv
<1>3. ASSUME NEW contents \in SUBSET Records, MadeOnly(contents)
      PROVE  \A r \in contents : Made(r.token)'
  BY <1>1, <1>2, <1>3 DEF MadeOnly
<1>4. CASE UNCHANGED vars
  BY <1>2, <1>4 DEF vars, DropInv, FreshRead, CreateLast, TokensMade, MadeOnly, Made
<1>5. CASE ServerStep
  <2>1. FreshRead'
    BY <1>2, <1>5 DEF ServerStep, Authenticate, Stamp, StampFails, ReplaceFile, Free, FreshRead
  <2>2. CreateLast'
    BY <1>2, <1>5 DEF ServerStep, Authenticate, Stamp, StampFails, CreateLast
  <2>3. TokensMade'
    <3>1. /\ records' \in {records, serverRead} /\ serverRead' \in {records, serverRead, {}}
          /\ snapshot' = snapshot /\ dropped' = dropped
      BY <1>5 DEF ServerStep, Authenticate, Stamp, StampFails, ReplaceFile
    <3> QED
      BY <1>1, <1>2, <1>3, <3>1 DEF TokensMade, MadeOnly
  <2> QED
    BY <2>1, <2>2, <2>3 DEF DropInv
<1>6. ASSUME NEW p \in Commands, CommandStep(p)
      PROVE  DropInv'
  <2>1. FreshRead'
    <3>1. CASE Replace(p)
      <4>1. \A q \in Commands : opened'[q] # inode'
        BY <3>1 DEF Replace, ReplaceFile, Free
      <4> QED
        BY <4>1 DEF FreshRead
    <3>2. CASE Read(p)
      BY <1>1, <1>2, <3>2 DEF Read, FreshRead
    <3>3. CASE Open(p)
      <4>1. pc'[p] # "read" /\ records' = records /\ snapshot' = snapshot
        BY <1>1, <3>3 DEF Open
      <4>2. ASSUME NEW q \in Commands, q # p
            PROVE  /\ pc'[q] = pc[q] /\ opened'[q] = opened[q]
                   /\ inode' = inode \/ opened[q] # inode'
        BY <1>1, <3>3, <4>2 DEF Open, Free
      <4> QED
        BY <1>2, <4>1, <4>2 DEF FreshRead
    <3>4. CASE ~Replace(p) /\ ~Read(p) /\ ~Open(p)
      <4>1. /\ pc'[p] # "read" /\ UNCHANGED <<inode, records, snapshot>>
            /\ \A q \in Commands \ {p} : pc'[q] = pc[q] /\ opened'[q] = opened[q]
        BY <1>1, <1>6, <3>4 DEF CommandStep, Step, Start, Lock, Finish, WriteFails, Kill
      <4> QED
        BY <1>2, <4>1 DEF FreshRead
    <3> QED
      BY <3>1, <3>2, <3>3, <3>4
  <2>2. CreateLast'
    <3>1. ASSUME NEW n \in Names, NEW script \in Scripts, Start(p, n, script)
          PROVE  CreateLast'
      <4>1. \A q \in Commands : todo'[q] = todo[q] \/ todo'[q] = script
        BY <1>1, <3>1 DEF Start
      <4> QED
        BY <1>2, <4>1, CreateLastAssumption DEF CreateLast
    <3>2. CASE Finish(p)
      <4>1. todo[p] \in Seq(Ops) /\ todo[p] # <<>>
        BY <1>1, <1>2, <3>2 DEF Finish, StoreInv, Underway, Ended
      <4>2. PICK rest : rest = Tail(todo[p])
        OBVIOUS
      <4>3. /\ Len(todo[p]) \in Nat /\ Len(rest) = Len(todo[p]) - 1
            /\ \A i \in 1..Len(rest) : rest[i] = todo[p][i + 1]
        BY <4>1, <4>2, LenProperties, HeadTailProperties
      <4>4. /\ todo'[p] = rest
            /\ \A q \in Commands \ {p} : todo'[q] = todo[q]
        BY <1>1, <3>2, <4>2 DEF Finish
      <4>5. ASSUME NEW i \in 1..(Len(rest) - 1)
            PROVE  rest[i] # "create"
        <5>1. i \in 1..Len(rest) /\ i + 1 \in 1..(Len(todo[p]) - 1)
          BY <4>3
        <5>2. todo[p][i + 1] # "create"
          BY <1>2, <5>1 DEF CreateLast
        <5> QED
          BY <4>3, <5>1, <5>2
      <4> QED
        BY <1>2, <4>4, <4>5 DEF CreateLast
    <3>3. CASE UNCHANGED todo
      BY <1>2, <3>3 DEF CreateLast
    <3> QED
      BY <1>6, <3>1, <3>2, <3>3 DEF CommandStep, Step, Open, Lock, Read, Replace, WriteFails, Kill
  <2>3. TokensMade'
    <3>1. CASE Replace(p)
      <4>1. pc[p] = "read" /\ records' = Applied(p, snapshot[p]) /\ pc'[p] = "written" /\ todo' = todo
        BY <1>1, <3>1 DEF Replace, ReplaceFile
      <4>2. snapshot[p] \in SUBSET Records /\ Head(todo[p]) \in Ops
        <5>1. todo[p] \in Seq(Ops) /\ todo[p] # <<>>
          BY <1>1, <1>2, <4>1 DEF StoreInv, Underway, Ended
        <5> QED
          BY <1>1, <5>1, HeadTailProperties
      <4>3. Head(todo[p]) = "create" => Made(p)'
        BY <4>1 DEF Made
      <4>4. \A s \in snapshot[p] : Made(s.token)'
        BY <1>2, <1>3, <4>2 DEF TokensMade
      <4>5. \A r \in records' : Made(r.token)'
        BY <4>1, <4>2, <4>3, <4>4, AppliedTokens
      <4>6. UNCHANGED <<serverRead, snapshot, dropped>>
        BY <3>1 DEF Replace
      <4> QED
        BY <1>1, <1>2, <1>3, <4>5, <4>6 DEF TokensMade, MadeOnly
    <3>2. CASE Read(p)
      <4>1. /\ UNCHANGED <<records, serverRead, dropped>>
            /\ \A q \in Commands : snapshot'[q] \in {snapshot[q], records}
        BY <1>1, <3>2 DEF Read
      <4>2. \A q \in Commands : \A r \in snapshot'[q] : Made(r.token)'
        BY <1>1, <1>2, <1>3, <4>1 DEF TokensMade
      <4> QED
        BY <1>1, <1>2, <1>3, <4>1, <4>2 DEF TokensMade, MadeOnly
    <3>3. CASE Finish(p)
      <4>1. UNCHANGED <<records, serverRead, snapshot>>
        BY <3>3 DEF Finish
      <4>2. \A q \in dropped' : q \in dropped \/ \E r \in snapshot[p] : q = r.token
        BY <3>3 DEF Finish
      <4>3. \A r \in snapshot[p] : Made(r.token)'
        BY <1>1, <1>2, <1>3 DEF TokensMade
      <4>4. \A q \in dropped' : Made(q)'
        BY <1>1, <1>2, <4>2, <4>3 DEF TokensMade
      <4> QED
        BY <1>1, <1>2, <1>3, <4>1, <4>4 DEF TokensMade, MadeOnly
    <3>4. CASE UNCHANGED <<records, serverRead, snapshot, dropped>>
      BY <1>1, <1>2, <1>3, <3>4 DEF TokensMade, MadeOnly
    <3> QED
      BY <1>6, <3>1, <3>2, <3>3, <3>4 DEF CommandStep, Step, Start, Open, Lock, WriteFails, Kill
  <2> QED
    BY <1>6, <2>1, <2>2, <2>3 DEF DropInv
<1> QED
  BY <1>4, <1>5, <1>6 DEF Next

\* However the commands and the server's validate interleave, a token whose
\* deletion was reported comes back by a stamp, or by a command whose lock was
\* that of a file replaced since.
THEOREM DeletedComesBackByRaceOnly == Spec => DeletedReturnsByRace
<1> DEFINE Returns ==
      \A r \in records' \ records : ~r.revoked /\ r.token \in dropped =>
        \/ serverPc = "stamping" /\ serverPc' = "idle"
        \/ \E p \in Commands :
             pc[p] = "read" /\ pc'[p] = "written" /\ opened[p] # inode
<1>1. Init => DropInv
  <2> SUFFICES ASSUME Init PROVE DropInv
    OBVIOUS
  <2>1. \A p \in Commands : Len(todo[p]) = 0
    BY EmptySeq DEF Init, AtRest
  <2>2. CreateLast
    BY <2>1 DEF CreateLast
  <2> QED
    BY <2>2, InitStoreInv DEF Init, AtRest, DropInv, FreshRead, TokensMade, MadeOnly
<1>2. DropInv /\ StoreInv' /\ [Next]_vars => DropInv'
  BY NextKeepsDropInv
<1>3. DropInv /\ [Next]_vars => [Returns]_vars
  <2> SUFFICES ASSUME DropInv, Next,
                      NEW r \in records' \ records, ~r.revoked, r.token \in dropped
               PROVE  \/ serverPc = "stamping" /\ serverPc' = "idle"
                      \/ \E p \in Commands :
                           pc[p] = "read" /\ pc'[p] = "written" /\ opened[p] # inode
    OBVIOUS
  <2> USE DEF file, serverVars, commandVars, Goto, Leave
  <2>1. CASE ServerStep
    BY <2>1 DEF ServerStep, Authenticate, Stamp, StampFails
  <2>2. ASSUME NEW p \in Commands, CommandStep(p)
        PROVE  pc[p] = "read" /\ pc'[p] = "written" /\ opened[p] # inode
    <3>1. Replace(p)
      BY <2>2 DEF CommandStep, Step, Start, Open, Lock, Read, Finish, WriteFails, Kill
    <3>2. /\ pc \in [Commands -> Pcs] /\ todo \in [Commands -> Seq(Ops)]
          /\ snapshot \in [Commands -> SUBSET Records]
      BY DEF DropInv, StoreInv, TypeOK
    <3>3. /\ pc[p] = "read" /\ pc'[p] = "written" /\ records' = Applied(p, snapshot[p])
      BY <3>1, <3>2 DEF Replace, ReplaceFile
    <3>4. todo[p] \in Seq(Ops) /\ todo[p] # <<>>
      BY <3>2, <3>3 DEF DropInv, StoreInv, Underway, Ended
    <3>5. Head(todo[p]) \in Ops
      BY <3>4, HeadTailProperties
    <3>6. r \in snapshot[p] \/ r.token = p
      BY <3>2, <3>3, <3>5, AppliedTokens
    <3>7. r.token # p
      BY <3>3 DEF DropInv, TokensMade, Made, Ended
    <3>8. snapshot[p] # records
      BY <3>6, <3>7
    <3> QED
      BY <3>3, <3>8 DEF DropInv, FreshRead
  <2> QED
    BY <2>1, <2>2 DEF Next
<1> QED
  BY <1>1, <1>2, <1>3, SpecStoreInv, PTL DEF Spec, DeletedReturnsByRace
============================================================================
