---------------------------- MODULE TokenStore ----------------------------
(***************************************************************************)
(* The encrypted token file and the processes that share it: class         *)
(* TokenStore of src/tokens.py, the pair and revoke commands of            *)
(* src/cli.py that change it, each in a process of its own, and the        *)
(* server, which stamps last_used_at on every successful authentication.   *)
(*                                                                         *)
(* A write goes to a temporary file that os.replace puts in the place of   *)
(* the old one, so readers see whole files, and the path names another     *)
(* inode after each write.  flock, on the other hand, is held on the inode *)
(* that was opened: what is kept of the file system is which inode the     *)
(* path names, which inode each process has open, and the records.  A      *)
(* crash leaves at most a temporary file that nothing reads.               *)
(***************************************************************************)
EXTENDS Naturals, Sequences, FiniteSets

CONSTANTS Names,      \* node names
          Commands,   \* processes that change the store, one command each
          Scripts,    \* the operations a command may consist of, in order
          AuthNames,  \* names of the nodes that authenticate meanwhile
          Inodes,     \* inodes of the file system
          None

\* The CLI's pair is create, its pair --force delete then create, its revoke
\* delete; the store's own revoke keeps the record and marks it.
Ops == {"create", "delete", "revoke"}

ASSUME ScriptsAssumption == Scripts \subseteq Seq(Ops) \ {<<>>}
\* A command generates at most one token, in its last operation.
ASSUME CreateLastAssumption ==
  \A script \in Scripts : \A i \in 1..(Len(script) - 1) : script[i] # "create"
ASSUME AuthNamesAssumption == AuthNames \subseteq Names
ASSUME InodesAssumption ==
  /\ None \notin Inodes
  /\ IsFiniteSet(Commands) /\ IsFiniteSet(Inodes)
  /\ Cardinality(Commands) + 1 < Cardinality(Inodes)

VARIABLES inode,      \* inode the path names, or None
          records,    \* records in the file at the path
          pc,         \* where each command stands
          todo,       \* operations each command has left
          name,       \* name each command is about
          opened,     \* inode whose lock each command asked for
          snapshot,   \* records each command read
          serverPc,   \* where validate() stands in the server
          serverRead, \* records validate() read
          dropped     \* tokens whose deletion a command has reported

file        == <<inode, records>>
serverVars  == <<serverPc, serverRead>>
commandVars == <<pc, todo, name, opened, snapshot, dropped>>
vars        == <<file, serverVars, commandVars>>

\* The secret is named by the command that generated it.
Records == [name : Names, token : Commands, revoked : BOOLEAN]

Ended == {"done", "refused", "failed", "killed"}
Pcs   == {"idle", "open", "flock", "locked", "read", "written"} \cup Ended

\* No process is at work; the file is empty, or missing.
AtRest ==
  /\ records = {}
  /\ pc = [p \in Commands |-> "idle"]
  /\ todo = [p \in Commands |-> <<>>]
  /\ name = [p \in Commands |-> None]
  /\ opened = [p \in Commands |-> None]
  /\ snapshot = [p \in Commands |-> {}]
  /\ serverPc = "idle" /\ serverRead = {}
  /\ dropped = {}

Init == inode = None /\ AtRest

Goto(p, label) == pc' = [pc EXCEPT ![p] = label]

\* An inode is free when neither the path nor an open descriptor refers to it.
Free(i) == i # inode /\ \A p \in Commands : opened[p] # i

\* os.replace: the path now names the inode of the temporary file.
ReplaceFile(contents) ==
  /\ \E i \in Inodes : Free(i) /\ inode' = i
  /\ records' = contents

---------------------------------------------------------------------------
(* What each operation makes of the records it read.                       *)

Paired(n, contents) == \E r \in contents : r.name = n /\ ~r.revoked

\* Variant for the checks: pairing a name again is not refused.
NeverRefuses(p, contents) == FALSE

Refuses(p, contents) == Head(todo[p]) = "create" /\ Paired(name[p], contents)

\* Variant for the checks: the new record's fields are swapped.
AppliedSwapped(p, contents) ==
  contents \cup {[name |-> p, token |-> name[p], revoked |-> FALSE]}

Applied(p, contents) ==
  LET mine == {r \in contents : r.name = name[p]} IN
  CASE Head(todo[p]) = "create" ->
         contents \cup {[name |-> name[p], token |-> p, revoked |-> FALSE]}
    [] Head(todo[p]) = "delete" -> contents \ mine
    [] Head(todo[p]) = "revoke" ->
         (contents \ mine) \cup {[r EXCEPT !.revoked = TRUE] : r \in mine}

---------------------------------------------------------------------------
(* A command: for each operation, _mutate under the file lock.             *)

Start(p, n, script) ==
  /\ pc[p] = "idle"
  /\ Goto(p, "open")
  /\ name' = [name EXCEPT ![p] = n]
  /\ todo' = [todo EXCEPT ![p] = script]
  /\ UNCHANGED <<file, serverVars, opened, snapshot, dropped>>

\* The path is opened, an empty file being created if there is none.
Open(p) ==
  /\ pc[p] = "open"
  /\ IF inode = None
     THEN \E i \in Inodes : Free(i) /\ inode' = i /\ opened' = [opened EXCEPT ![p] = i]
     ELSE opened' = [opened EXCEPT ![p] = inode] /\ UNCHANGED inode
  /\ Goto(p, "flock")
  /\ UNCHANGED <<records, serverVars, todo, name, snapshot, dropped>>

\* Past flock and not closed yet.
HoldsLock(p, i) == pc[p] \notin {"open", "flock"} /\ opened[p] = i

\* Variant for the checks: the lock is taken whoever holds it.
LockAnyway(p) ==
  /\ pc[p] = "flock"
  /\ Goto(p, "locked")
  /\ UNCHANGED <<file, serverVars, todo, name, opened, snapshot, dropped>>

\* flock is granted on the inode opened, whatever the path names by now.
Lock(p) ==
  /\ pc[p] = "flock"
  /\ ~ \E q \in Commands \ {p} : HoldsLock(q, opened[p])
  /\ Goto(p, "locked")
  /\ UNCHANGED <<file, serverVars, todo, name, opened, snapshot, dropped>>

\* Variant for the checks: the descriptor is never closed.
LeaveOpen(p, label) == Goto(p, label) /\ UNCHANGED opened

\* Closing the descriptor, by the finally block or the kernel, unlocks.
Leave(p, label) ==
  /\ Goto(p, label)
  /\ opened' = [opened EXCEPT ![p] = None]

\* Variant for the checks: a command reads the file once and keeps what it read.
ReadCached(p) ==
  /\ pc[p] = "locked"
  /\ snapshot' = [snapshot EXCEPT ![p] = IF @ = {} THEN records ELSE @]
  /\ IF Refuses(p, records)
     THEN Leave(p, "refused")
     ELSE Goto(p, "read") /\ UNCHANGED opened
  /\ UNCHANGED <<file, serverVars, todo, name, dropped>>

\* The path, not the descriptor that is locked, is read.
Read(p) ==
  /\ pc[p] = "locked"
  /\ snapshot' = [snapshot EXCEPT ![p] = records]
  /\ IF Refuses(p, records)
     THEN Leave(p, "refused")
     ELSE Goto(p, "read") /\ UNCHANGED opened
  /\ UNCHANGED <<file, serverVars, todo, name, dropped>>

Replace(p) ==
  /\ pc[p] = "read"
  /\ ReplaceFile(Applied(p, snapshot[p]))
  /\ Goto(p, "written")
  /\ UNCHANGED <<serverVars, todo, name, opened, snapshot, dropped>>

\* The operation returns; the command goes on to its next one, if any.
Finish(p) ==
  /\ pc[p] = "written"
  /\ Leave(p, IF Len(todo[p]) = 1 THEN "done" ELSE "open")
  /\ todo' = [todo EXCEPT ![p] = Tail(@)]
  /\ dropped' = IF Head(todo[p]) = "create" THEN dropped
                ELSE dropped \cup {r.token : r \in {s \in snapshot[p] : s.name = name[p]}}
  /\ UNCHANGED <<file, serverVars, name, snapshot>>

\* The disk refuses: the command fails, before os.replace or, if it is the
\* directory that cannot be opened for fsync, after it.
WriteFails(p) ==
  /\ pc[p] \in {"read", "written"}
  /\ Leave(p, "failed")
  /\ UNCHANGED <<file, serverVars, todo, name, snapshot, dropped>>

Kill(p) ==
  /\ pc[p] \notin Ended \cup {"idle"}
  /\ Leave(p, "killed")
  /\ UNCHANGED <<file, serverVars, todo, name, snapshot, dropped>>

---------------------------------------------------------------------------
(* validate() in the server, which takes no lock.                          *)

\* A node presents the live token of its name.
Authenticate(n) ==
  /\ serverPc = "idle"
  /\ Paired(n, records)
  /\ serverPc' = "stamping"
  /\ serverRead' = records
  /\ UNCHANGED <<file, commandVars>>

\* The records read, one of them stamped, replace the file.
Stamp ==
  /\ serverPc = "stamping"
  /\ ReplaceFile(serverRead)
  /\ serverPc' = "idle" /\ serverRead' = {}
  /\ UNCHANGED commandVars

\* The write fails and the error is swallowed, or the server is killed.
StampFails ==
  /\ serverPc = "stamping"
  /\ serverPc' = "idle" /\ serverRead' = {}
  /\ UNCHANGED <<file, commandVars>>

---------------------------------------------------------------------------
Step(p) ==
  \/ Open(p) \/ Lock(p) \/ Read(p) \/ Replace(p) \/ Finish(p) \/ WriteFails(p)

CommandStep(p) ==
  \/ (\E n \in Names, script \in Scripts : Start(p, n, script))
  \/ Step(p)
  \/ Kill(p)

ServerStep == (\E n \in AuthNames : Authenticate(n)) \/ Stamp \/ StampFails

Next == (\E p \in Commands : CommandStep(p)) \/ ServerStep

Spec == Init /\ [][Next]_vars

---------------------------------------------------------------------------
TypeOK ==
  /\ inode \in Inodes \cup {None}
  /\ records \in SUBSET Records
  /\ pc \in [Commands -> Pcs]
  /\ todo \in [Commands -> Seq(Ops)]
  /\ name \in [Commands -> Names \cup {None}]
  /\ opened \in [Commands -> Inodes \cup {None}]
  /\ snapshot \in [Commands -> SUBSET Records]
  /\ serverPc \in {"idle", "stamping"}
  /\ serverRead \in SUBSET Records
  /\ dropped \in SUBSET Commands

\* A name has at most one live token, even where writers overwrite each other.
OneLiveToken ==
  \A r, s \in records :
    r.name = s.name /\ ~r.revoked /\ ~s.revoked => r = s

\* What a command writes it computed from what the file still holds: no
\* change made since it read is undone.
NoLostUpdate ==
  [][\A p \in Commands :
       pc[p] = "read" /\ pc'[p] = "written" => snapshot[p] = records]_vars

\* A deleted token comes back only by a stamp, which takes no lock, or by a
\* command that waited for the lock of a file which has since been replaced:
\* whoever holds the lock of the file itself has read what is in it.
DeletedReturnsByRace ==
  [][\A r \in records' \ records : ~r.revoked /\ r.token \in dropped =>
       \/ serverPc = "stamping" /\ serverPc' = "idle"
       \/ \E p \in Commands :
            pc[p] = "read" /\ pc'[p] = "written" /\ opened[p] # inode]_vars
===========================================================================
