------------------------------ MODULE AuditLog ------------------------------
(***************************************************************************)
(* The audit log: class AuditWriter of src/audit.py and its process-wide   *)
(* instance.  The file name with suffix ".s" is slot s, the active log is  *)
(* slot 0.  A file is the sequence of its rows, a row is its number in the *)
(* order of the calls of record().  The writer's lock spans a whole        *)
(* record(), so one record() is under way at a time; its file operations   *)
(* are steps of their own, because the purge takes no lock (and another    *)
(* process may run it), an operation may fail and the process may end      *)
(* between two.  fsync, whose failure is swallowed, is part of Write.      *)
(***************************************************************************)
EXTENDS Integers, Sequences, Functions

CONSTANTS Keep,       \* keep
          Limit,      \* max_bytes, in rows
          MaxRows,    \* bound: calls of record()
          MaxFaults   \* bound: failed file operations and killed processes

ASSUME LogAssumption ==
  /\ Keep \in Nat
  /\ Limit \in Nat \ {0}
  /\ MaxRows \in Nat
  /\ MaxFaults \in Nat

\* With keep = 0 the rotation still leaves a file in slot 1.
Top == IF Keep = 0 THEN 1 ELSE Keep

VARIABLES disk,       \* slot |-> rows, for the files that exist
          open,       \* _file is not None
          buffer,     \* rows of failed writes that _file still holds
          closed,     \* _closed
          pc,         \* where the current record() is
          slot,       \* loop variable of the rotation's shift
          row,        \* the last row that was offered
          reported,   \* rows for which record() returned True
          todo,       \* slots the purge has listed and not yet looked at
          doomed,     \* slot whose file the purge found expired; 0: none
          cutoff,     \* rows up to this one are past retention_days
          purged,     \* rows the purge has deleted
          faults,     \* failures and kills so far
          broken      \* rotations that stopped in their shift

writer == <<open, buffer, closed>>
purge == <<todo, doomed, cutoff, purged>>
vars == <<disk, writer, pc, slot, row, reported, purge, faults, broken>>

Pcs == {"idle", "open", "close", "drop", "shift", "reopen", "write"}

Init ==
  /\ disk = [s \in {} |-> <<>>]
  /\ open = FALSE /\ buffer = <<>> /\ closed = FALSE
  /\ pc = "idle" /\ slot = 0 /\ row = 0 /\ reported = {}
  /\ todo = {} /\ doomed = 0 /\ cutoff = 0 /\ purged = {}
  /\ faults = 0 /\ broken = 0

Goto(l) == pc' = l

Fault ==
  /\ faults < MaxFaults
  /\ faults' = faults + 1

\* File operations: unlink and rename of what may not exist, open with O_CREAT.
Unlink(d, s) == Restrict(d, DOMAIN d \ {s})

Rename(d, s, t) ==
  IF s \in DOMAIN d
  THEN [u \in (DOMAIN d \ {s}) \cup {t} |-> IF u = t THEN d[s] ELSE d[u]]
  ELSE d

Create(d) == [s \in DOMAIN d \cup {0} |-> IF s \in DOMAIN d THEN d[s] ELSE <<>>]

\* Variant for the checks: the active log is copied and left as it is.
CopyActive(d) ==
  IF 0 \in DOMAIN d
  THEN [u \in DOMAIN d \cup {1} |-> IF u = 1 THEN d[0] ELSE d[u]]
  ELSE d

MoveActive(d) == Rename(d, 0, 1)

---------------------------------------------------------------------------
\* record()

\* A closed writer drops the row.
Record ==
  /\ pc = "idle"
  /\ row < MaxRows
  /\ row' = row + 1
  /\ Goto(IF closed THEN "idle" ELSE "open")
  /\ UNCHANGED <<disk, writer, slot, reported, purge, faults, broken>>

\* Variant for the checks: the row that would reach the limit is counted in.
RotateEarly(d) == Len(d[0]) + 1 >= Limit

\* The size is that of the file on disk; buffered rows do not count.
ShouldRotate(d) == Len(d[0]) >= Limit

EnsureOpen ==
  /\ pc = "open"
  /\ disk' = Create(disk)
  /\ open' = TRUE
  /\ Goto(IF ShouldRotate(disk') THEN "close" ELSE "write")
  /\ UNCHANGED <<buffer, closed, slot, row, reported, purge, faults, broken>>

\* An AuditError or OSError ends the record(), which returns False.
OpenFails ==
  /\ pc \in {"open", "reopen"} /\ ~open
  /\ Fault
  /\ Goto("idle")
  /\ UNCHANGED <<disk, writer, slot, row, reported, purge, broken>>

\* The row reaches the file behind the rows of earlier failed writes.
Write ==
  /\ pc = "write"
  /\ disk' = [disk EXCEPT ![0] = Append(@ \o buffer, row)]
  /\ buffer' = <<>>
  /\ reported' = reported \cup {row}
  /\ Goto("idle")
  /\ UNCHANGED <<open, closed, slot, row, purge, faults, broken>>

\* A failed flush leaves the row in the file object's buffer.
WriteFails ==
  /\ pc = "write"
  /\ Fault
  /\ buffer' = Append(buffer, row)
  /\ Goto("idle")
  /\ UNCHANGED <<disk, open, closed, slot, row, reported, purge, broken>>

---------------------------------------------------------------------------
\* _rotate_locked()

\* flush and close; a failure of either is swallowed, the buffer is gone.
CloseFile ==
  /\ open' = FALSE
  /\ buffer' = <<>>
  /\ \/ /\ disk' = IF open THEN [disk EXCEPT ![0] = @ \o buffer] ELSE disk
        /\ UNCHANGED faults
     \/ /\ buffer # <<>>
        /\ Fault
        /\ UNCHANGED disk

CloseActive ==
  /\ pc = "close"
  /\ CloseFile
  /\ Goto("drop")
  /\ UNCHANGED <<closed, slot, row, reported, purge, broken>>

\* Variant for the checks: the chain is one slot too long.
DropBeyond ==
  /\ pc = "drop"
  /\ disk' = Unlink(disk, Keep + 1)
  /\ slot' = Keep
  /\ Goto("shift")
  /\ UNCHANGED <<writer, row, reported, purge, faults, broken>>

\* Unlink the file in slot Keep.  With keep = 0 that is ".0", which never is.
DropOldest ==
  /\ pc = "drop"
  /\ disk' = IF Keep = 0 THEN disk ELSE Unlink(disk, Keep)
  /\ slot' = Keep - 1
  /\ Goto("shift")
  /\ UNCHANGED <<writer, row, reported, purge, faults, broken>>

\* Variants for the checks: from 1 up; a rename that fails is passed over.
ShiftUpwards ==
  /\ pc = "shift" /\ slot >= 1
  /\ disk' = Rename(disk, Keep - slot, Keep - slot + 1)
  /\ slot' = slot - 1
  /\ UNCHANGED <<writer, pc, row, reported, purge, faults, broken>>

ShiftOn ==
  /\ pc = "shift" /\ slot >= 1
  /\ \/ disk' = Rename(disk, slot, slot + 1) /\ UNCHANGED faults
     \/ UNCHANGED disk /\ Fault
  /\ slot' = slot - 1
  /\ UNCHANGED <<writer, pc, row, reported, purge, broken>>

\* .i -> .(i+1), for i from Keep - 1 down to 1.
Shift ==
  /\ pc = "shift" /\ slot >= 1
  /\ disk' = Rename(disk, slot, slot + 1)
  /\ slot' = slot - 1
  /\ UNCHANGED <<writer, pc, row, reported, purge, faults, broken>>

\* The active log becomes slot 1.
ShiftActive ==
  /\ pc = "shift" /\ slot < 1
  /\ disk' = MoveActive(disk)
  /\ Goto("reopen")
  /\ UNCHANGED <<writer, slot, row, reported, purge, faults, broken>>

\* An unlink, a test for existence or a rename fails, the last also because the
\* purge took the file after the test: the active log stays closed, the row is
\* dropped, and the next record() finds the slots as they are.
RotationFails ==
  /\ pc \in {"drop", "shift"}
  /\ Fault
  /\ broken' = IF pc = "shift" THEN broken + 1 ELSE broken
  /\ Goto("idle")
  /\ UNCHANGED <<disk, writer, slot, row, reported, purge>>

Reopen ==
  /\ pc = "reopen"
  /\ disk' = Create(disk)
  /\ open' = TRUE
  /\ Goto("write")
  /\ UNCHANGED <<buffer, closed, slot, row, reported, purge, faults, broken>>

---------------------------------------------------------------------------
\* close(), the singleton, and the end of the process

Close ==
  /\ pc = "idle" /\ ~closed
  /\ closed' = TRUE
  /\ CloseFile
  /\ UNCHANGED <<pc, slot, row, reported, purge, broken>>

\* After reset_default_audit_writer the next session builds a new writer.
NewWriter ==
  /\ pc = "idle" /\ closed
  /\ closed' = FALSE
  /\ UNCHANGED <<disk, open, buffer, pc, slot, row, reported, purge, faults, broken>>

\* The process ends anywhere and is started again.
Kill ==
  /\ Fault
  /\ open' = FALSE /\ buffer' = <<>> /\ closed' = FALSE
  /\ broken' = IF pc = "shift" THEN broken + 1 ELSE broken
  /\ Goto("idle")
  /\ UNCHANGED <<disk, slot, row, reported, purge>>

---------------------------------------------------------------------------
\* purge_expired_rotations()

Expired(file) == file[Len(file)] <= cutoff

\* Compute the cutoff and list the rotated files.
PurgeStart ==
  /\ todo = {} /\ doomed = 0
  /\ cutoff' \in cutoff..row
  /\ todo' = DOMAIN disk \ {0}
  /\ UNCHANGED <<disk, writer, pc, slot, row, reported, doomed, purged, faults, broken>>

\* Look at the modification time of the next name, if it is still there.
PurgeStat ==
  /\ doomed = 0
  /\ \E s \in todo :
       /\ \A t \in todo : s <= t
       /\ doomed' = IF s \in DOMAIN disk /\ Expired(disk[s]) THEN s ELSE 0
       /\ todo' = todo \ {s}
  /\ UNCHANGED <<disk, writer, pc, slot, row, reported, cutoff, purged, faults, broken>>

\* Unlink whatever has the name by now.
PurgeUnlink ==
  /\ doomed # 0
  /\ disk' = Unlink(disk, doomed)
  /\ purged' = IF doomed \in DOMAIN disk THEN purged \cup Range(disk[doomed]) ELSE purged
  /\ doomed' = 0
  /\ UNCHANGED <<writer, pc, slot, row, reported, todo, cutoff, faults, broken>>

\* A file that cannot be unlinked is skipped.
PurgeUnlinkFails ==
  /\ doomed # 0
  /\ Fault
  /\ doomed' = 0
  /\ UNCHANGED <<disk, writer, pc, slot, row, reported, todo, cutoff, purged, broken>>

RecordStep ==
  \/ Record \/ EnsureOpen \/ OpenFails \/ Write \/ WriteFails
  \/ CloseActive \/ DropOldest \/ Shift \/ ShiftActive \/ RotationFails \/ Reopen

PurgeStep == PurgeStart \/ PurgeStat \/ PurgeUnlink \/ PurgeUnlinkFails

Next == RecordStep \/ PurgeStep \/ Close \/ NewWriter \/ Kill

Spec == Init /\ [][Next]_vars

---------------------------------------------------------------------------
OnDisk == UNION {Range(disk[s]) : s \in DOMAIN disk}

TypeOK ==
  /\ DOMAIN disk \subseteq 0..Top
  /\ \A s \in DOMAIN disk : disk[s] \in Seq(1..row)
  /\ open \in BOOLEAN /\ closed \in BOOLEAN
  /\ buffer \in Seq(1..row)
  /\ pc \in Pcs
  /\ slot \in (-1)..Top
  /\ row \in 0..MaxRows
  /\ reported \subseteq 1..row /\ purged \subseteq 1..row
  /\ todo \subseteq 1..Top /\ doomed \in 0..Top
  /\ cutoff \in 0..row
  /\ faults \in 0..MaxFaults /\ broken \in 0..faults

\* Read from the oldest file to the active one, the rows are in the order of
\* the calls and none is there twice, whatever failed and wherever the process
\* was killed.
RowsInOrder ==
  \A s, t \in DOMAIN disk : \A i \in DOMAIN disk[s], j \in DOMAIN disk[t] :
    (s > t \/ (s = t /\ i < j)) => disk[s][i] < disk[t][j]

\* No rotation spends a slot on a file that is not full.
RotatedAreFull == \A s \in DOMAIN disk \ {0} : Len(disk[s]) >= Limit

\* A row that record() reported as written stays readable until Top files'
\* worth of rows have been written after it, or the purge deletes it; each
\* rotation that breaks off in its shift costs at most one file of that.
RecentRowsKept ==
  \A r \in reported :
    \/ r \in OnDisk \cup purged
    \/ row - r > (Top - broken) * Limit

\* A step takes rows off the disk only with the oldest file, or with the one
\* file the purge unlinks in that step.
RowsLeaveByAge ==
  [][\A s \in DOMAIN disk :
       \/ Range(disk[s]) \subseteq OnDisk'
       \/ s = Top
       \/ s = doomed /\ doomed' = 0]_vars
=============================================================================
