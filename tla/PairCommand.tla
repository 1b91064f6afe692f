---------------------------- MODULE PairCommand ----------------------------
(***************************************************************************)
(* The pair and revoke commands as the operator runs them: the Fernet key  *)
(* first, from the file ~/.hermes/.env or generated and appended to it     *)
(* (src/env.py, _cmd_pair of src/cli.py), then the TokenStore under that   *)
(* key.  The server takes no part: AuthNames is empty.                     *)
(*                                                                         *)
(* The .env file is a sequence of lines; of each only matters whether it   *)
(* sets the key variable, and to what.  The file is read twice, to look    *)
(* for the key and to append to it, and replaced as a whole, without a     *)
(* lock.  A key is named by the command that generated it.                 *)
(***************************************************************************)
EXTENDS TokenStore

CONSTANTS OldKey,     \* a key from before
          Other,      \* a line that sets another variable
          Blank,      \* a line that sets the key to nothing
          FirstFiles  \* what the .env file may hold at first

Keys  == Commands \cup {OldKey}
Lines == Keys \cup {Other, Blank}

ASSUME PairAssumption ==
  /\ AuthNames = {}
  /\ FirstFiles \subseteq Seq({OldKey, Other, Blank})
  /\ None \notin Keys
  /\ {OldKey, Other, Blank} \cap Commands = {}

VARIABLES envFile,   \* the lines of the .env file; none if it is missing
          readable,  \* whether the operator may read it
          exported,  \* the key in the operator's shell, or None
          storeKey,  \* key the token file is encrypted with; None if empty
          keyPc,     \* where each command stands with the key
          text,      \* the lines each command read to append to
          key,       \* the key in each command's environment
          status     \* EnvWriteResult.status

operatorVars == <<readable, exported>>
keyVars      == <<keyPc, text, key, status>>
pairVars     == <<vars, envFile, storeKey, operatorVars, keyVars>>

\* The key is ready before the store is opened, and revoke generates none.
KeyPcs   == {"scan", "reread", "write", "ready"}
Statuses == {"none", "present", "wrote", "failed"}

\* A store from before is encrypted with the old key, which the operator still
\* has in the file or in the shell; the names it holds are other ones.
PairInit ==
  /\ envFile \in FirstFiles
  /\ readable \in BOOLEAN
  /\ exported \in {None, OldKey}
  /\ AtRest
  /\ storeKey \in {None} \cup
       {k \in {OldKey} : exported = k \/ \E i \in DOMAIN envFile : envFile[i] = k}
  /\ inode = IF storeKey = None THEN None ELSE CHOOSE i \in Inodes : TRUE
  /\ keyPc = [p \in Commands |-> "scan"]
  /\ text = [p \in Commands |-> <<>>]
  /\ key = [p \in Commands |-> None]
  /\ status = [p \in Commands |-> "none"]

---------------------------------------------------------------------------
(* ensure_fernet_key_in_env.                                               *)

\* The first line that sets the variable counts, even if it sets it to nothing.
FirstValue(lines) ==
  LET First(i) == lines[i] # Other /\ \A j \in 1..(i - 1) : lines[j] = Other IN
  IF \E i \in DOMAIN lines : First(i) /\ lines[i] # Blank
  THEN lines[CHOOSE i \in DOMAIN lines : First(i)]
  ELSE None

\* A file that cannot be read has no lines.
LinesRead == IF readable THEN envFile ELSE <<>>

HaveKey(p, k, result) ==
  /\ key' = [key EXCEPT ![p] = k]
  /\ status' = [status EXCEPT ![p] = result]
  /\ keyPc' = [keyPc EXCEPT ![p] = "ready"]

\* The file is scanned; what the shell exports is not looked at.
ScanKey(p) ==
  LET found == FirstValue(LinesRead) IN
  /\ keyPc[p] = "scan" /\ pc[p] = "idle"
  /\ IF found = None
     THEN keyPc' = [keyPc EXCEPT ![p] = "reread"] /\ UNCHANGED <<key, status>>
     ELSE HaveKey(p, found, "present")
  /\ UNCHANGED <<vars, envFile, storeKey, operatorVars, text>>

Reread(p) ==
  /\ keyPc[p] = "reread"
  /\ text' = [text EXCEPT ![p] = LinesRead]
  /\ keyPc' = [keyPc EXCEPT ![p] = "write"]
  /\ UNCHANGED <<vars, envFile, storeKey, operatorVars, key, status>>

\* Variant for the checks: the file is overwritten, not appended to.
WriteKeyOver(p) ==
  /\ keyPc[p] = "write"
  /\ envFile' = <<p>> /\ readable' = TRUE
  /\ HaveKey(p, p, "wrote")
  /\ UNCHANGED <<vars, storeKey, exported, text>>

\* What was read and the new key replace the file, which is then this user's.
WriteKey(p) ==
  /\ keyPc[p] = "write"
  /\ envFile' = Append(text[p], p)
  /\ readable' = TRUE
  /\ HaveKey(p, p, "wrote")
  /\ UNCHANGED <<vars, storeKey, exported, text>>

\* The pairing goes on with the key, which it shows to the operator.
WriteKeyFails(p) ==
  /\ keyPc[p] = "write"
  /\ HaveKey(p, p, "failed")
  /\ UNCHANGED <<vars, envFile, storeKey, operatorVars, text>>

\* The operator does what the warning says.
Export(p) ==
  /\ status[p] = "failed" /\ exported # p
  /\ exported' = p
  /\ UNCHANGED <<vars, envFile, storeKey, readable, keyVars>>

---------------------------------------------------------------------------
(* The token store under the key.                                          *)

IsPair(script) == script[Len(script)] = "create"

StartPair(p, n, script) ==
  /\ keyPc[p] = "ready" /\ IsPair(script)
  /\ Start(p, n, script)
  /\ UNCHANGED <<envFile, storeKey, operatorVars, keyVars>>

\* The keys a command may find in its environment: the shell's own, or one that
\* the host has loaded from the file.
Loaded == ({exported} \cup {LinesRead[i] : i \in DOMAIN LinesRead}) \cap Keys

\* revoke uses the key of its environment and does nothing without one.
StartRevoke(p, n, script) ==
  /\ keyPc[p] = "scan" /\ ~IsPair(script)
  /\ Start(p, n, script)
  /\ \E k \in Loaded : key' = [key EXCEPT ![p] = k]
  /\ keyPc' = [keyPc EXCEPT ![p] = "ready"]
  /\ UNCHANGED <<envFile, storeKey, operatorVars, text, status>>

\* Variant for the checks: a store that does not decrypt is taken as it is.
AlwaysDecrypts(p) == TRUE

Decrypts(p) == storeKey \in {None, key[p]}

ReadStore(p) ==
  /\ IF Decrypts(p)
     THEN Read(p)
     ELSE /\ pc[p] = "locked"
          /\ Leave(p, "failed")
          /\ UNCHANGED <<file, serverVars, todo, name, snapshot, dropped>>
  /\ UNCHANGED <<envFile, storeKey, operatorVars, keyVars>>

ReplaceStore(p) ==
  /\ Replace(p)
  /\ storeKey' = key[p]
  /\ UNCHANGED <<envFile, operatorVars, keyVars>>

OtherStep(p) ==
  /\ Open(p) \/ Lock(p) \/ Finish(p) \/ WriteFails(p)
  /\ UNCHANGED <<envFile, storeKey, operatorVars, keyVars>>

\* Killed at any point; the key file is whole before and after.
KillPair(p) ==
  /\ \/ Kill(p)
     \/ /\ pc[p] = "idle" /\ keyPc[p] # "scan"
        /\ Leave(p, "killed")
        /\ UNCHANGED <<file, serverVars, todo, name, snapshot, dropped>>
  /\ keyPc' = [keyPc EXCEPT ![p] = "ready"]
  /\ UNCHANGED <<envFile, storeKey, operatorVars, text, key, status>>

---------------------------------------------------------------------------
KeyStep(p) ==
  \/ Reread(p) \/ WriteKey(p) \/ WriteKeyFails(p)
  \/ \E n \in Names, script \in Scripts : StartPair(p, n, script)

StoreStep(p) == ReadStore(p) \/ ReplaceStore(p) \/ OtherStep(p)

PairNext ==
  \E p \in Commands :
    \/ ScanKey(p) \/ KeyStep(p) \/ Export(p)
    \/ \E n \in Names, script \in Scripts : StartRevoke(p, n, script)
    \/ StoreStep(p) \/ KillPair(p)

PairSpec == PairInit /\ [][PairNext]_pairVars

\* A command that was started runs on.
FairPairSpec ==
  /\ PairSpec
  /\ \A p \in Commands : WF_pairVars(KeyStep(p)) /\ WF_pairVars(StoreStep(p))

---------------------------------------------------------------------------
PairTypeOK ==
  /\ TypeOK
  /\ envFile \in Seq(Lines)
  /\ readable \in BOOLEAN
  /\ exported \in Keys \cup {None}
  /\ storeKey \in Keys \cup {None}
  /\ keyPc \in [Commands -> KeyPcs]
  /\ text \in [Commands -> Seq(Lines)]
  /\ key \in [Commands -> Keys \cup {None}]
  /\ status \in [Commands -> Statuses]

\* Whoever was told that a command succeeded can rely on its key: the token
\* file is encrypted with it, now and later.  Two pairings that each generated
\* a key never both succeed.
DoneUnderStoreKey == \A p \in Commands : pc[p] = "done" => key[p] = storeKey

\* A token file with a key is never encrypted again with another one, whichever
\* keys the commands that race for it hold.
StoreKeyKept == [][storeKey # None => storeKey' = storeKey]_pairVars

\* The lines that no pairing generated, with their places.
Own(lines) == {<<i, lines[i]>> : i \in {j \in DOMAIN lines : lines[j] \notin Commands}}

\* The operator's own lines stay where they are through every interleaving of
\* pairings, unless the file could not be read.
OtherLinesKept == [][readable => Own(envFile') = Own(envFile)]_pairVars

\* A command that has begun ends: lock, key file and token file hold none up.
PairsEnd == \A p \in Commands : keyPc[p] # "scan" ~> pc[p] \in Ended
===========================================================================
