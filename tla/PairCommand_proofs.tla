------------------------- MODULE PairCommand_proofs -------------------------
(***************************************************************************)
(* Theorems about PairCommand for every number of commands, keys and       *)
(* lines, with their proofs.                                               *)
(***************************************************************************)
EXTENDS PairCommand, TokenStore_proofs, FiniteSetTheorems

\* A command that has not got its key has not begun with the store, and one
\* that has begun has a key.
KeyInv ==
  \A p \in Commands :
    /\ keyPc[p] # "ready" => pc[p] = "idle"
    /\ keyPc[p] = "ready" /\ pc[p] # "killed" => key[p] # None

\* Nobody shares the lock of an inode.
LockInv ==
  /\ \A p \in Commands :
       pc[p] \in {"flock", "locked", "read", "written"} => opened[p] \in Inodes
  /\ \A p, q \in Commands :
       /\ pc[p] \in {"locked", "read", "written"} /\ pc[q] \in {"locked", "read", "written"}
       /\ opened[p] = opened[q]
       => p = q

\* Until the first write everybody has the same inode open, so that their locks
\* do exclude each other.
FirstInode ==
  storeKey = None =>
    \A p \in Commands : pc[p] \in {"flock", "locked", "read"} => opened[p] = inode

\* What was decrypted is encrypted with the same key again.
CryptInv ==
  \A p \in Commands :
    /\ pc[p] = "read" => storeKey \in {None, key[p]}
    /\ pc[p] \in {"written", "done"} => storeKey = key[p]

PairInv ==
  /\ StoreInv
  /\ PairTypeOK
  /\ KeyInv
  /\ LockInv
  /\ FirstInode
  /\ CryptInv

\* The first line that sets the key sets it to a key or to nothing.
LEMMA FirstValueType ==
  ASSUME NEW lines \in Seq(Lines)
  PROVE  FirstValue(lines) \in Keys \cup {None}
<1> DEFINE First(i) == lines[i] # Other /\ \A j \in 1..(i - 1) : lines[j] = Other
           first == CHOOSE i \in DOMAIN lines : First(i)
<1>1. DOMAIN lines = 1..Len(lines) /\ Len(lines) \in Nat /\ \A i \in 1..Len(lines) : lines[i] \in Lines
  BY LenProperties, ElementOfSeq
<1>2. ASSUME NEW i \in DOMAIN lines, First(i), lines[i] # Blank
      PROVE  lines[first] \in Keys
  <2>1. first \in DOMAIN lines /\ First(first)
    BY <1>2
  <2> HIDE DEF first
  <2>2. i \in Nat /\ first \in Nat /\ i \in 1..Len(lines) /\ first \in 1..Len(lines)
    BY <1>1, <2>1
  <2>3. ~(first < i)
    <3>1. first < i => first \in 1..(i - 1)
      BY <1>1, <2>2
    <3> QED
      BY <1>2, <2>1, <3>1
  <2>4. ~(i < first)
    <3>1. i < first => i \in 1..(first - 1)
      BY <1>1, <2>2
    <3> QED
      BY <1>2, <2>1, <3>1
  <2>5. first = i
    BY <2>2, <2>3, <2>4
  <2> QED
    BY <1>1, <1>2, <2>2, <2>5 DEF Lines
<1>3. FirstValue(lines) = IF \E i \in DOMAIN lines : First(i) /\ lines[i] # Blank
                          THEN lines[first] ELSE None
  BY DEF FirstValue
<1> HIDE DEF First, first
<1> QED
  BY <1>2, <1>3

\* The operator's store is as it was left, and no command has begun.
LEMMA InitPairInv == PairInit => PairInv
<1> SUFFICES ASSUME PairInit PROVE PairInv
  OBVIOUS
<1>1. inode \in Inodes \cup {None}
  <2>1. Inodes # {}
    <3>1. Cardinality({}) = 0 /\ Cardinality(Commands) \in Nat
      BY FS_EmptySet, FS_CardinalityType, InodesAssumption
    <3> QED
      BY <3>1, InodesAssumption
  <2> QED
    BY <2>1 DEF PairInit
<1>2. StoreInv
  <2>1. TypeOK
    BY <1>1 DEF PairInit, AtRest, TypeOK, Pcs
  <2>2. Underway
    BY DEF PairInit, AtRest, Underway
  <2>3. Unique(records) /\ Unique(serverRead) /\ \A p \in Commands : Unique(snapshot[p])
    BY DEF PairInit, AtRest, Unique
  <2> QED
    BY <2>1, <2>2, <2>3 DEF StoreInv
<1>3. PairTypeOK
  <2>1. \A f \in FirstFiles : f \in Seq(Lines)
    <3>1. {OldKey, Other, Blank} \subseteq Lines
      BY DEF Lines, Keys
    <3> QED
      BY <3>1, PairAssumption, SeqMonotonic
  <2>2. <<>> \in Seq(Lines)
    BY EmptySeq
  <2>3. envFile \in Seq(Lines) /\ readable \in BOOLEAN /\ text \in [Commands -> Seq(Lines)]
    BY <2>1, <2>2 DEF PairInit
  <2>4. exported \in Keys \cup {None} /\ storeKey \in Keys \cup {None}
    BY DEF PairInit, Keys
  <2>5. keyPc \in [Commands -> KeyPcs] /\ key \in [Commands -> Keys \cup {None}]
        /\ status \in [Commands -> Statuses]
    BY DEF PairInit, KeyPcs, Statuses
  <2> QED
    BY <1>2, <2>3, <2>4, <2>5 DEF StoreInv, PairTypeOK
<1>4. KeyInv /\ LockInv /\ FirstInode /\ CryptInv
  BY DEF PairInit, AtRest, KeyInv, LockInv, FirstInode, CryptInv
<1> QED
  BY <1>2, <1>3, <1>4 DEF PairInv

\* The steps of a command, by what they change of the store.
StoreMoves(p) ==
  \/ \E n \in Names, script \in Scripts : StartPair(p, n, script) \/ StartRevoke(p, n, script)
  \/ StoreStep(p) \/ KillPair(p)

KeyMoves(p) == ScanKey(p) \/ Reread(p) \/ WriteKey(p) \/ WriteKeyFails(p) \/ Export(p)

\* The store's own invariant does not depend on the keys.
LEMMA PairKeepsStoreInv ==
  ASSUME StoreInv, NEW p \in Commands, StoreMoves(p)
  PROVE  StoreInv'
<1>1. CASE CommandStep(p)
  BY <1>1, CommandKeepsStoreInv
<1>2. CASE /\ Leave(p, "failed") \/ Leave(p, "killed")
           /\ UNCHANGED <<file, serverVars, todo, name, snapshot, dropped>>
  <2> USE DEF file, serverVars, Goto, Leave
  <2>1. TypeOK'
    BY <1>2 DEF StoreInv, TypeOK, Pcs, Ended
  <2>2. Underway'
    BY <1>2 DEF StoreInv, TypeOK, Underway, Ended, Refuses
  <2> QED
    BY <1>2, <2>1, <2>2 DEF StoreInv
<1> QED
  BY <1>1, <1>2 DEF StoreMoves, StartPair, StartRevoke, StoreStep, ReadStore, ReplaceStore, OtherStep,
     KillPair, CommandStep, Step

\* Getting the key leaves the store alone.
LEMMA KeyMovesKeep ==
  ASSUME PairInv, NEW p \in Commands, KeyMoves(p)
  PROVE  PairInv'
<1>1. /\ StoreInv /\ PairTypeOK /\ KeyInv /\ LockInv /\ FirstInode /\ CryptInv
      /\ keyPc \in [Commands -> KeyPcs] /\ text \in [Commands -> Seq(Lines)]
      /\ key \in [Commands -> Keys \cup {None}] /\ status \in [Commands -> Statuses]
      /\ envFile \in Seq(Lines) /\ readable \in BOOLEAN /\ exported \in Keys \cup {None}
      /\ storeKey \in Keys \cup {None}
  BY DEF PairInv, PairTypeOK
<1>2. UNCHANGED <<vars, storeKey>>
  BY DEF KeyMoves, ScanKey, Reread, WriteKey, WriteKeyFails, Export
<1>3. UNCHANGED <<inode, records, serverPc, serverRead, pc, todo, name, opened, snapshot, dropped, storeKey>>
  BY <1>2 DEF vars, file, serverVars, commandVars
<1>4. StoreInv' /\ LockInv' /\ FirstInode'
  <2>1. StoreInv'
    BY <1>1, <1>3 DEF StoreInv, TypeOK, Underway, Refuses, Unique
  <2>2. LockInv' /\ FirstInode'
    BY <1>1, <1>3 DEF LockInv, FirstInode
  <2> QED
    BY <2>1, <2>2
\* What a command may come to hold as its key, and where it goes then.
<1>5. /\ \/ UNCHANGED <<key, keyPc>>
         \/ /\ keyPc[p] # "ready"
            /\ UNCHANGED key
            /\ \E l \in {"reread", "write"} : keyPc' = [keyPc EXCEPT ![p] = l]
         \/ /\ keyPc[p] # "ready"
            /\ \E k \in Keys : key' = [key EXCEPT ![p] = k]
            /\ keyPc' = [keyPc EXCEPT ![p] = "ready"]
      /\ \/ UNCHANGED status
         \/ \E r \in Statuses : status' = [status EXCEPT ![p] = r]
  <2>1. p \in Keys
    BY DEF Keys
  <2>2. CASE ScanKey(p)
    <3>1. PICK found : found = FirstValue(LinesRead)
      OBVIOUS
    <3>2. found \in Keys \cup {None}
      <4>1. LinesRead \in Seq(Lines)
        BY <1>1, EmptySeq DEF LinesRead
      <4> QED
        BY <3>1, <4>1, FirstValueType
    <3>3. CASE found = None
      BY <2>2, <3>1, <3>3 DEF ScanKey
    <3>4. CASE found # None
      BY <2>2, <3>1, <3>2, <3>4 DEF ScanKey, HaveKey, Statuses
    <3> QED
      BY <3>3, <3>4
  <2>3. CASE Reread(p)
    BY <2>3 DEF Reread
  <2>4. CASE WriteKey(p) \/ WriteKeyFails(p)
    BY <2>1, <2>4 DEF WriteKey, WriteKeyFails, HaveKey, Statuses
  <2>5. CASE Export(p)
    BY <2>5 DEF Export, keyVars
  <2> QED
    BY <2>2, <2>3, <2>4, <2>5 DEF KeyMoves
<1>6. PairTypeOK'
  <2>1. TypeOK'
    BY <1>4 DEF StoreInv
  <2>2. /\ keyPc' \in [Commands -> KeyPcs]
        /\ key' \in [Commands -> Keys \cup {None}] /\ status' \in [Commands -> Statuses]
    BY <1>1, <1>5 DEF KeyPcs
  <2>3. envFile' \in Seq(Lines)
    <3>1. CASE WriteKey(p)
      <4>1. p \in Lines /\ text[p] \in Seq(Lines)
        BY <1>1 DEF Lines, Keys
      <4>2. Append(text[p], p) \in Seq(Lines)
        BY <4>1, AppendProperties
      <4> QED
        BY <3>1, <4>2 DEF WriteKey
    <3>2. CASE UNCHANGED envFile
      BY <1>1, <3>2
    <3> QED
      BY <3>1, <3>2 DEF KeyMoves, ScanKey, Reread, WriteKeyFails, Export
  <2>4. text' \in [Commands -> Seq(Lines)]
    <3>1. LinesRead \in Seq(Lines)
      BY <1>1, EmptySeq DEF LinesRead
    <3> HIDE DEF LinesRead
    <3>2. text' = text \/ text' = [text EXCEPT ![p] = LinesRead]
      BY DEF KeyMoves, ScanKey, Reread, WriteKey, WriteKeyFails, Export, keyVars
    <3> QED
      BY <1>1, <3>1, <3>2
  <2>5. readable' \in BOOLEAN /\ exported' \in Keys \cup {None} /\ storeKey' \in Keys \cup {None}
    <3>1. p \in Keys
      BY DEF Keys
    <3> QED
      BY <1>1, <1>3, <3>1 DEF KeyMoves, ScanKey, Reread, WriteKey, WriteKeyFails, Export, operatorVars
  <2> QED
    BY <2>1, <2>2, <2>3, <2>4, <2>5 DEF PairTypeOK
<1>7. KeyInv'
  BY <1>1, <1>3, <1>5, PairAssumption DEF KeyInv
<1>8. CryptInv'
  <2>1. \A q \in Commands : pc[q] # "idle" => key'[q] = key[q]
    BY <1>1, <1>5 DEF KeyInv
  <2> QED
    BY <1>1, <1>3, <2>1 DEF CryptInv
<1> QED
  BY <1>4, <1>6, <1>7, <1>8 DEF PairInv

\* What a step on the store may do to the inodes, the locks and the keys.
StoreEffect(p) ==
  \/ /\ pc[p] = "idle" /\ pc' = [pc EXCEPT ![p] = "open"]
     /\ UNCHANGED <<inode, opened, storeKey>>
     /\ \/ keyPc[p] = "ready" /\ UNCHANGED <<key, keyPc>>
        \/ /\ \E k \in Keys : key' = [key EXCEPT ![p] = k]
           /\ keyPc' = [keyPc EXCEPT ![p] = "ready"]
  \/ /\ pc[p] = "open" /\ pc' = [pc EXCEPT ![p] = "flock"]
     /\ inode' \in Inodes /\ opened' = [opened EXCEPT ![p] = inode']
     /\ inode # None => inode' = inode
     /\ UNCHANGED <<storeKey, key, keyPc>>
  \/ /\ pc[p] = "flock" /\ pc' = [pc EXCEPT ![p] = "locked"]
     /\ \A q \in Commands \ {p} : ~HoldsLock(q, opened[p])
     /\ UNCHANGED <<inode, opened, storeKey, key, keyPc>>
  \/ /\ pc[p] = "locked" /\ pc' = [pc EXCEPT ![p] = "read"]
     /\ storeKey \in {None, key[p]}
     /\ UNCHANGED <<inode, opened, storeKey, key, keyPc>>
  \/ /\ pc[p] = "read" /\ pc' = [pc EXCEPT ![p] = "written"]
     /\ storeKey' = key[p]
     /\ UNCHANGED <<opened, key, keyPc>>
  \/ /\ pc[p] \notin Ended
     /\ \E l \in Ended \cup {"open"} :
          /\ pc' = [pc EXCEPT ![p] = l]
          /\ l = "done" => pc[p] = "written"
          /\ l = "killed" \/ keyPc[p] = "ready"
     /\ opened' = [opened EXCEPT ![p] = None]
     /\ keyPc' = [keyPc EXCEPT ![p] = "ready"]
     /\ UNCHANGED <<inode, storeKey, key>>

\* Every step on the store has one of those effects.
LEMMA StoreMovesEffect ==
  ASSUME PairInv, NEW p \in Commands, StoreMoves(p)
  PROVE  StoreEffect(p)
<1> USE DEF Ended, Goto, Leave, file, keyVars, commandVars
<1>1. /\ keyPc \in [Commands -> KeyPcs] /\ KeyInv /\ inode \in Inodes \cup {None}
      /\ pc \in [Commands -> Pcs]
  BY DEF PairInv, PairTypeOK, TypeOK
<1>2. pc[p] # "idle" => keyPc[p] = "ready" /\ keyPc = [keyPc EXCEPT ![p] = "ready"]
  BY <1>1 DEF KeyInv
<1>3. ASSUME NEW n \in Names, NEW script \in Scripts,
             StartPair(p, n, script) \/ StartRevoke(p, n, script)
      PROVE  StoreEffect(p)
  BY <1>3 DEF StartPair, StartRevoke, Loaded, Start, StoreEffect
<1>4. CASE ReadStore(p)
  <2>1. CASE Decrypts(p)
    <3>1. Read(p) /\ UNCHANGED <<storeKey, key, keyPc>>
      BY <1>4, <2>1 DEF ReadStore
    <3>2. CASE Refuses(p, records)
      BY <1>2, <3>1, <3>2 DEF Read, StoreEffect
    <3>3. CASE ~Refuses(p, records)
      BY <2>1, <3>1, <3>3 DEF Read, Decrypts, StoreEffect
    <3> QED
      BY <3>2, <3>3
  <2>2. CASE ~Decrypts(p)
    BY <1>2, <1>4, <2>2 DEF ReadStore, StoreEffect
  <2> QED
    BY <2>1, <2>2
<1>5. CASE ReplaceStore(p)
  BY <1>5 DEF ReplaceStore, Replace, StoreEffect
<1>6. CASE OtherStep(p)
  <2>1. UNCHANGED <<storeKey, key, keyPc>>
    BY <1>6 DEF OtherStep
  <2>2. CASE Open(p)
    BY <1>1, <2>1, <2>2 DEF Open, StoreEffect
  <2>3. CASE Lock(p)
    BY <2>1, <2>3 DEF Lock, StoreEffect
  <2>4. CASE Finish(p)
    BY <1>2, <2>1, <2>4 DEF Finish, StoreEffect
  <2>5. CASE WriteFails(p)
    BY <1>2, <2>1, <2>5 DEF WriteFails, StoreEffect
  <2> QED
    BY <1>6, <2>2, <2>3, <2>4, <2>5 DEF OtherStep
<1>7. CASE KillPair(p)
  BY <1>7 DEF KillPair, Kill, StoreEffect
<1> QED
  BY <1>3, <1>4, <1>5, <1>6, <1>7 DEF StoreMoves, StoreStep

\* A step on the store keeps the locks apart, and the inode that everybody has
\* open until the first write.
LEMMA StoreMovesKeepLocks ==
  ASSUME PairInv, NEW p \in Commands, StoreEffect(p)
  PROVE  LockInv' /\ FirstInode'
<1>1. /\ LockInv /\ FirstInode /\ KeyInv /\ pc \in [Commands -> Pcs]
      /\ opened \in [Commands -> Inodes \cup {None}] /\ None \notin Inodes
  BY InodesAssumption DEF PairInv, PairTypeOK, TypeOK
<1>2. LockInv'
  <2>1. CASE /\ pc[p] = "open" /\ pc' = [pc EXCEPT ![p] = "flock"]
             /\ inode' \in Inodes /\ opened' = [opened EXCEPT ![p] = inode']
    BY <1>1, <2>1 DEF LockInv
  <2>2. CASE /\ pc[p] = "flock" /\ pc' = [pc EXCEPT ![p] = "locked"]
             /\ \A q \in Commands \ {p} : ~HoldsLock(q, opened[p])
             /\ UNCHANGED opened
    BY <1>1, <2>2 DEF LockInv, HoldsLock
  <2>3. CASE /\ UNCHANGED opened
             /\ \/ pc[p] = "idle" /\ pc' = [pc EXCEPT ![p] = "open"]
                \/ pc[p] = "locked" /\ pc' = [pc EXCEPT ![p] = "read"]
                \/ pc[p] = "read" /\ pc' = [pc EXCEPT ![p] = "written"]
    BY <1>1, <2>3 DEF LockInv
  <2>4. CASE /\ \E l \in Ended \cup {"open"} : pc' = [pc EXCEPT ![p] = l]
             /\ opened' = [opened EXCEPT ![p] = None]
    BY <1>1, <2>4 DEF LockInv, Ended
  <2> QED
    BY <2>1, <2>2, <2>3, <2>4 DEF StoreEffect
<1>3. FirstInode'
  <2>1. CASE pc[p] = "read" /\ storeKey' = key[p] /\ key[p] # None
    BY <2>1 DEF FirstInode
  <2>2. CASE /\ pc[p] = "open" /\ pc' = [pc EXCEPT ![p] = "flock"]
             /\ inode' \in Inodes /\ opened' = [opened EXCEPT ![p] = inode']
             /\ inode # None => inode' = inode
             /\ UNCHANGED storeKey
    BY <1>1, <2>2 DEF LockInv, FirstInode
  <2>3. CASE /\ UNCHANGED <<inode, opened, storeKey>>
             /\ \/ pc[p] = "idle" /\ pc' = [pc EXCEPT ![p] = "open"]
                \/ pc[p] = "flock" /\ pc' = [pc EXCEPT ![p] = "locked"]
                \/ pc[p] = "locked" /\ pc' = [pc EXCEPT ![p] = "read"]
    BY <1>1, <2>3 DEF FirstInode
  <2>4. CASE /\ \E l \in Ended \cup {"open"} : pc' = [pc EXCEPT ![p] = l]
             /\ opened' = [opened EXCEPT ![p] = None]
             /\ UNCHANGED <<inode, storeKey>>
    BY <1>1, <2>4 DEF FirstInode, Ended
  <2>5. pc[p] = "read" => key[p] # None
    BY <1>1 DEF KeyInv
  <2> QED
    BY <2>1, <2>2, <2>3, <2>4, <2>5 DEF StoreEffect
<1> QED
  BY <1>2, <1>3

\* A step on the store leaves every command that has come to the write with
\* the key of the store: the first to write found nobody else with the lock.
LEMMA StoreMovesKeepKeys ==
  ASSUME PairInv, NEW p \in Commands, StoreEffect(p)
  PROVE  KeyInv' /\ CryptInv' /\ (storeKey # None => storeKey' = storeKey)
<1>1. /\ LockInv /\ FirstInode /\ KeyInv /\ CryptInv /\ pc \in [Commands -> Pcs]
      /\ keyPc \in [Commands -> KeyPcs] /\ key \in [Commands -> Keys \cup {None}]
  BY DEF PairInv, PairTypeOK, TypeOK
<1>2. KeyInv'
  <2>1. \A q \in Commands : q # p => pc'[q] = pc[q] /\ keyPc'[q] = keyPc[q] /\ key'[q] = key[q]
    BY <1>1 DEF StoreEffect
  <2>2. /\ keyPc'[p] # "ready" => pc'[p] = "idle"
        /\ keyPc'[p] = "ready" /\ pc'[p] # "killed" => key'[p] # None
    BY <1>1, PairAssumption DEF StoreEffect, KeyInv, Ended
  <2> QED
    BY <1>1, <2>1, <2>2 DEF KeyInv
<1>3. CASE /\ pc[p] = "read" /\ pc' = [pc EXCEPT ![p] = "written"]
           /\ storeKey' = key[p] /\ UNCHANGED key
  <2>1. storeKey # None => storeKey' = storeKey
    BY <1>1, <1>3 DEF CryptInv
  <2>2. ASSUME NEW q \in Commands, q # p, pc[q] \in {"read", "written", "done"}
        PROVE  storeKey # None
    <3>1. CASE pc[q] = "read"
      BY <1>1, <1>3, <2>2, <3>1 DEF FirstInode, LockInv
    <3>2. CASE pc[q] \in {"written", "done"}
      BY <1>1, <3>2 DEF CryptInv, KeyInv
    <3> QED
      BY <2>2, <3>1, <3>2
  <2>3. CryptInv'
    BY <1>1, <1>3, <2>1, <2>2 DEF CryptInv
  <2> QED
    BY <1>2, <2>1, <2>3
<1>4. CASE /\ pc[p] = "locked" /\ pc' = [pc EXCEPT ![p] = "read"]
           /\ storeKey \in {None, key[p]} /\ UNCHANGED <<storeKey, key>>
  BY <1>1, <1>2, <1>4 DEF CryptInv
<1>5. CASE /\ UNCHANGED storeKey
           /\ \/ UNCHANGED key
              \/ pc[p] = "idle" /\ \E k \in Keys : key' = [key EXCEPT ![p] = k]
           /\ \E l \in (Ended \cup {"open", "flock", "locked"}) :
                pc' = [pc EXCEPT ![p] = l] /\ (l = "done" => pc[p] = "written" /\ UNCHANGED key)
  BY <1>1, <1>2, <1>5 DEF CryptInv, Ended
<1> QED
  BY <1>3, <1>4, <1>5 DEF StoreEffect, Ended

\* A step on the store keeps the invariant, and never changes the key of a
\* store that has one.
LEMMA StoreMovesKeep ==
  ASSUME PairInv, NEW p \in Commands, StoreMoves(p)
  PROVE  PairInv' /\ (storeKey # None => storeKey' = storeKey)
<1>1. StoreInv'
  BY PairKeepsStoreInv DEF PairInv
<1>2. StoreEffect(p)
  BY StoreMovesEffect
<1>3. /\ LockInv' /\ FirstInode' /\ KeyInv' /\ CryptInv'
      /\ storeKey # None => storeKey' = storeKey
  BY <1>2, StoreMovesKeepLocks, StoreMovesKeepKeys
<1>4. PairTypeOK'
  <2>1. PairTypeOK
    BY DEF PairInv
  <2>2. UNCHANGED <<envFile, operatorVars, text, status>>
    BY DEF StoreMoves, StartPair, StartRevoke, StoreStep, ReadStore, ReplaceStore, OtherStep,
       KillPair, keyVars
  <2>3. envFile' \in Seq(Lines) /\ text' \in [Commands -> Seq(Lines)]
    BY <2>1, <2>2 DEF PairTypeOK
  <2>4. /\ readable' \in BOOLEAN /\ exported' \in Keys \cup {None}
        /\ status' \in [Commands -> Statuses]
    BY <2>1, <2>2 DEF PairTypeOK, operatorVars
  <2>5. keyPc' \in [Commands -> KeyPcs] /\ key' \in [Commands -> Keys \cup {None}]
    BY <1>2, <2>1 DEF PairTypeOK, StoreEffect, KeyPcs
  <2>6. storeKey' \in Keys \cup {None}
    BY <1>2, <2>1 DEF PairTypeOK, StoreEffect
  <2>7. TypeOK'
    BY <1>1 DEF StoreInv
  <2> QED
    BY <2>3, <2>4, <2>5, <2>6, <2>7 DEF PairTypeOK
<1> QED
  BY <1>1, <1>3, <1>4 DEF PairInv

\* Every step keeps the invariant and the key of the store.
LEMMA PairNextKeeps ==
  ASSUME PairInv, [PairNext]_pairVars
  PROVE  PairInv' /\ (storeKey # None => storeKey' = storeKey)
<1>1. CASE UNCHANGED pairVars
  <2>1. UNCHANGED <<inode, records, serverPc, serverRead, pc, todo, name, opened, snapshot, dropped,
                    envFile, readable, exported, storeKey, keyPc, text, key, status>>
    BY <1>1 DEF pairVars, vars, file, serverVars, commandVars, operatorVars, keyVars
  <2>2. StoreInv' /\ TypeOK'
    BY <2>1 DEF PairInv, StoreInv, TypeOK, Underway, Refuses, Unique
  <2>3. PairTypeOK'
    BY <2>1, <2>2 DEF PairInv, PairTypeOK
  <2>4. KeyInv' /\ LockInv' /\ FirstInode' /\ CryptInv'
    BY <2>1 DEF PairInv, KeyInv, LockInv, FirstInode, CryptInv
  <2> QED
    BY <2>1, <2>2, <2>3, <2>4 DEF PairInv
<1>2. ASSUME NEW p \in Commands, KeyMoves(p)
      PROVE  PairInv' /\ (storeKey # None => storeKey' = storeKey)
  BY <1>2, KeyMovesKeep DEF KeyMoves, ScanKey, Reread, WriteKey, WriteKeyFails, Export
<1>3. ASSUME NEW p \in Commands, StoreMoves(p)
      PROVE  PairInv' /\ (storeKey # None => storeKey' = storeKey)
  BY <1>3, StoreMovesKeep
<1>4. PairNext => \E p \in Commands : KeyMoves(p) \/ StoreMoves(p)
  BY DEF PairNext, KeyStep, KeyMoves, StoreMoves
<1> QED
  BY <1>1, <1>2, <1>3, <1>4

\* The invariant holds however many commands race for the two files.
THEOREM PairAlways == PairSpec => []PairInv
<1>1. PairInv /\ [PairNext]_pairVars => PairInv'
  BY PairNextKeeps
<1> QED
  BY InitPairInv, <1>1, PTL DEF PairSpec

\* Every variable keeps the type of what it stands for.
THEOREM PairTypeCorrect == PairSpec => []PairTypeOK
<1>1. PairInv => PairTypeOK
  BY DEF PairInv
<1> QED
  BY <1>1, PairAlways, PTL

\* Of the commands that report success none is left with a key that does not
\* decrypt the store (_cmd_pair generates one without looking at the store).
THEOREM DoneKeysHold == PairSpec => []DoneUnderStoreKey
<1>1. PairInv => DoneUnderStoreKey
  BY DEF PairInv, CryptInv, DoneUnderStoreKey
<1> QED
  BY <1>1, PairAlways, PTL

\* No interleaving re-encrypts the store with another key: TokenStore decrypts
\* what it replaces, and the first two writers share one lock.
THEOREM StoreKeyStays == PairSpec => StoreKeyKept
<1>1. PairInv /\ [PairNext]_pairVars => [storeKey # None => storeKey' = storeKey]_pairVars
  BY PairNextKeeps
<1> QED
  BY <1>1, PairAlways, PTL DEF PairSpec, StoreKeyKept

---------------------------------------------------------------------------
(* Two commands of one operation each do not undo each other's writes.     *)

TwoSingle ==
  /\ \E a, b : Commands \subseteq {a, b}
  /\ \A script \in Scripts : Len(script) = 1

\* Until one of the two has written, both have the same inode open, which the
\* path names; so one that is about to write has read what the file holds.
ApartInv ==
  \A p \in Commands :
    /\ pc[p] \notin {"idle"} \cup Ended => Len(todo[p]) = 1
    /\ pc[p] = "read" => snapshot[p] = records
    /\ \A q \in Commands \ {p} :
         /\ pc[p] \in {"idle", "open", "flock", "locked", "read"}
         /\ pc[q] \in {"flock", "locked", "read"}
         => opened[q] = inode

\* A step of one of the two keeps them apart.
LEMMA StoreMovesKeepApart ==
  ASSUME TwoSingle, PairInv, ApartInv, NEW p \in Commands, StoreMoves(p)
  PROVE  ApartInv'
<1> USE DEF file, commandVars, Goto, Leave
<1>1. /\ LockInv /\ pc \in [Commands -> Pcs] /\ todo \in [Commands -> Seq(Ops)]
      /\ opened \in [Commands -> Inodes \cup {None}] /\ snapshot \in [Commands -> SUBSET Records]
      /\ None \notin Inodes
  BY InodesAssumption DEF PairInv, PairTypeOK, TypeOK
<1>2. ASSUME NEW n \in Names, NEW script \in Scripts, Start(p, n, script)
      PROVE  ApartInv'
  <2>1. Len(script) = 1
    BY DEF TwoSingle
  <2>2. todo'[p] = script /\ \A q \in Commands \ {p} : todo'[q] = todo[q]
    BY <1>1, <1>2 DEF Start
  <2>3. pc[p] = "idle" /\ pc' = [pc EXCEPT ![p] = "open"]
        /\ UNCHANGED <<inode, records, opened, snapshot>>
    BY <1>2 DEF Start
  <2> QED
    BY <1>1, <2>1, <2>2, <2>3 DEF ApartInv
<1>3. CASE Open(p)
  <2>1. pc[p] = "open" /\ pc' = [pc EXCEPT ![p] = "flock"] /\ UNCHANGED <<records, todo, snapshot>>
    BY <1>3 DEF Open
  <2>2. inode' \in Inodes /\ opened' = [opened EXCEPT ![p] = inode'] /\ (inode # None => inode' = inode)
    <3>1. inode \in Inodes \cup {None}
      BY DEF PairInv, PairTypeOK, TypeOK
    <3> QED
      BY <1>3, <3>1 DEF Open
  <2> QED
    BY <1>1, <2>1, <2>2 DEF ApartInv, LockInv, Ended
<1>4. CASE Lock(p)
  BY <1>1, <1>4 DEF Lock, ApartInv, Ended
<1>5. CASE Read(p)
  <2>1. /\ pc[p] = "locked" /\ UNCHANGED <<inode, records, todo>>
        /\ snapshot' = [snapshot EXCEPT ![p] = records]
    BY <1>5 DEF Read
  <2>2. \/ pc' = [pc EXCEPT ![p] = "refused"] /\ opened' = [opened EXCEPT ![p] = None]
        \/ pc' = [pc EXCEPT ![p] = "read"] /\ UNCHANGED opened
    BY <1>5 DEF Read
  <2> QED
    BY <1>1, <2>1, <2>2 DEF ApartInv, Ended
\* The other one, if it has read too, would hold the same lock.
<1>6. CASE Replace(p)
  <2>1. pc[p] = "read" /\ pc' = [pc EXCEPT ![p] = "written"] /\ UNCHANGED <<todo, opened, snapshot>>
    BY <1>6 DEF Replace
  <2>2. ASSUME NEW q \in Commands \ {p} PROVE pc[q] # "read"
    BY <1>1, <2>1, <2>2 DEF ApartInv, LockInv
  <2>3. \A q, r \in Commands \ {p} : q = r
    BY DEF TwoSingle
  <2> QED
    BY <1>1, <2>1, <2>2, <2>3 DEF ApartInv, Ended
<1>7. CASE Finish(p)
  <2>1. pc' = [pc EXCEPT ![p] = "done"] /\ opened' = [opened EXCEPT ![p] = None]
    BY <1>7 DEF Finish, ApartInv, Ended
  <2>2. UNCHANGED <<inode, records, snapshot>> /\ \A q \in Commands \ {p} : todo'[q] = todo[q]
    BY <1>1, <1>7 DEF Finish
  <2> QED
    BY <1>1, <2>1, <2>2 DEF ApartInv, Ended
<1>8. CASE /\ \E l \in Ended : Leave(p, l)
           /\ UNCHANGED <<file, todo, name, snapshot, dropped>>
  BY <1>1, <1>8 DEF ApartInv, Ended
<1>9. \/ \E n \in Names, script \in Scripts : Start(p, n, script)
      \/ Open(p) \/ Lock(p) \/ Read(p) \/ Replace(p) \/ Finish(p)
      \/ /\ \E l \in Ended : Leave(p, l)
         /\ UNCHANGED <<file, todo, name, snapshot, dropped>>
  BY DEF StoreMoves, StartPair, StartRevoke, StoreStep, ReadStore, ReplaceStore, OtherStep,
     WriteFails, KillPair, Kill, Ended
<1> QED
  BY <1>2, <1>3, <1>4, <1>5, <1>6, <1>7, <1>8, <1>9

\* While two commands of one operation each race, nothing that one writes is
\* undone by the other: their flock excludes them although it is taken on an
\* inode that _mutate replaces.
THEOREM TwoWritersLoseNothing ==
  ASSUME TwoSingle
  PROVE  PairSpec => NoLostUpdate
<1>1. PairInit => ApartInv
  BY DEF PairInit, AtRest, ApartInv
<1>2. PairInv /\ ApartInv /\ [PairNext]_pairVars => ApartInv'
  <2>1. ASSUME ApartInv, UNCHANGED vars PROVE ApartInv'
    BY <2>1 DEF ApartInv, vars, file, serverVars, commandVars
  <2>2. PairNext => UNCHANGED vars \/ \E p \in Commands : StoreMoves(p)
    BY DEF PairNext, KeyStep, StoreMoves, ScanKey, Reread, WriteKey, WriteKeyFails, Export
  <2> QED
    BY <2>1, <2>2, StoreMovesKeepApart DEF pairVars
<1>3. ApartInv => [\A p \in Commands :
                     pc[p] = "read" /\ pc'[p] = "written" => snapshot[p] = records]_vars
  BY DEF ApartInv
<1> QED
  BY InitPairInv, PairNextKeeps, <1>1, <1>2, <1>3, PTL DEF PairSpec, NoLostUpdate

---------------------------------------------------------------------------
(* The lines of the .env file.                                             *)

\* What a pairing is about to write back has the lines that the file has; of a
\* file that cannot be read nothing was read.
TextInv ==
  \A p \in Commands : keyPc[p] = "write" =>
    /\ readable => Own(text[p]) = Own(envFile)
    /\ ~readable => text[p] = <<>>

\* The line a pairing appends is its own.
LEMMA AppendKeepsOwn ==
  ASSUME NEW lines \in Seq(Lines), NEW p \in Commands
  PROVE  Own(Append(lines, p)) = Own(lines)
<1>1. /\ Append(lines, p) \in Seq(Lines)
      /\ Len(Append(lines, p)) = Len(lines) + 1
      /\ \A i \in 1..Len(lines) : Append(lines, p)[i] = lines[i]
      /\ Append(lines, p)[Len(lines) + 1] = p
  <2>1. p \in Lines
    BY DEF Lines, Keys
  <2> QED
    BY <2>1, AppendProperties
<1>2. PICK longer : longer = Append(lines, p)
  OBVIOUS
<1>3. DOMAIN lines = 1..Len(lines) /\ DOMAIN longer = 1..(Len(lines) + 1) /\ Len(lines) \in Nat
  BY <1>1, <1>2, LenProperties
<1>4. ASSUME NEW i
      PROVE  (i \in DOMAIN longer /\ longer[i] \notin Commands) <=> (i \in DOMAIN lines /\ lines[i] \notin Commands)
  <2>1. CASE i = Len(lines) + 1
    BY <1>1, <1>2, <1>3, <2>1
  <2>2. CASE i # Len(lines) + 1
    <3>1. i \in DOMAIN longer <=> i \in DOMAIN lines
      BY <1>3, <2>2
    <3>2. i \in DOMAIN lines => longer[i] = lines[i]
      BY <1>1, <1>2, <1>3
    <3> QED
      BY <3>1, <3>2
  <2> QED
    BY <2>1, <2>2
<1>5. \A i \in DOMAIN lines : longer[i] = lines[i]
  BY <1>1, <1>2, <1>3
<1>6. {j \in DOMAIN longer : longer[j] \notin Commands} = {j \in DOMAIN lines : lines[j] \notin Commands}
  BY <1>4
<1>7. Own(longer) = Own(lines)
  BY <1>5, <1>6 DEF Own
<1> QED
  BY <1>2, <1>7

\* Writing the file keeps its lines, if they could be read.
LEMMA NextKeepsLines ==
  ASSUME PairTypeOK, TextInv, [PairNext]_pairVars
  PROVE  TextInv' /\ (readable => Own(envFile') = Own(envFile))
<1>1. keyPc \in [Commands -> KeyPcs] /\ text \in [Commands -> Seq(Lines)] /\ readable \in BOOLEAN
  BY DEF PairTypeOK
<1>2. CASE UNCHANGED <<envFile, readable, text, keyPc>>
  BY <1>2 DEF TextInv
<1>3. ASSUME NEW p \in Commands, UNCHANGED <<envFile, readable, text>>,
             \E l \in {"reread", "ready"} : keyPc' = [keyPc EXCEPT ![p] = l]
      PROVE  TextInv' /\ (readable => Own(envFile') = Own(envFile))
  BY <1>1, <1>3 DEF TextInv
<1>4. ASSUME NEW p \in Commands, Reread(p)
      PROVE  TextInv' /\ (readable => Own(envFile') = Own(envFile))
  <2>1. UNCHANGED <<envFile, readable>>
    BY <1>4 DEF Reread, operatorVars
  <2>2. text'[p] = IF readable THEN envFile ELSE <<>>
    BY <1>1, <1>4 DEF Reread, LinesRead
  <2>3. \A q \in Commands \ {p} : text'[q] = text[q] /\ keyPc'[q] = keyPc[q]
    BY <1>1, <1>4 DEF Reread
  <2> QED
    BY <1>1, <2>1, <2>2, <2>3 DEF TextInv
<1>5. ASSUME NEW p \in Commands, WriteKey(p)
      PROVE  TextInv' /\ (readable => Own(envFile') = Own(envFile))
  <2>1. /\ keyPc[p] = "write" /\ UNCHANGED text /\ readable' = TRUE
        /\ keyPc' = [keyPc EXCEPT ![p] = "ready"]
        /\ envFile' = Append(text[p], p)
    BY <1>5 DEF WriteKey, HaveKey
  <2>2. Own(envFile') = Own(text[p])
    BY <1>1, <2>1, AppendKeepsOwn
  <2>3. \A q \in Commands : keyPc[q] = "write" => Own(text[q]) = Own(text[p])
    BY <1>1, <2>1 DEF TextInv
  <2>4. TextInv'
    BY <1>1, <2>1, <2>2, <2>3 DEF TextInv
  <2>5. readable => Own(envFile') = Own(envFile)
    BY <2>1, <2>2 DEF TextInv
  <2> QED
    BY <2>4, <2>5
<1>6. ASSUME PairNext
      PROVE  \/ UNCHANGED <<envFile, readable, text, keyPc>>
             \/ \E p \in Commands :
                  \/ Reread(p) \/ WriteKey(p)
                  \/ /\ UNCHANGED <<envFile, readable, text>>
                     /\ \E l \in {"reread", "ready"} : keyPc' = [keyPc EXCEPT ![p] = l]
  BY <1>6 DEF PairNext, KeyStep, StoreStep, ScanKey, WriteKeyFails, HaveKey, Export, StartPair,
     StartRevoke, ReadStore, ReplaceStore, OtherStep, KillPair, operatorVars, keyVars
<1>7. UNCHANGED pairVars => UNCHANGED <<envFile, readable, text, keyPc>>
  BY DEF pairVars, operatorVars, keyVars
<1> QED
  BY <1>2, <1>3, <1>4, <1>5, <1>6, <1>7

\* Racing pairings lose each other's keys but none of the operator's lines:
\* ensure_fernet_key_in_env writes back what it read, and nothing else adds or
\* removes a line.
THEOREM OperatorsLinesStay == PairSpec => OtherLinesKept
<1>1. PairInit => TextInv
  BY DEF PairInit, TextInv
<1>2. PairInv => PairTypeOK
  BY DEF PairInv
<1>3. PairTypeOK /\ TextInv /\ [PairNext]_pairVars
        => TextInv' /\ [readable => Own(envFile') = Own(envFile)]_pairVars
  BY NextKeepsLines
<1> QED
  BY PairAlways, <1>1, <1>2, <1>3, PTL DEF PairSpec, OtherLinesKept
=============================================================================
