# TLA+ models of hermes-nodes-plugin

Formal models of the server side of the plugin: TLA+ modules translated from
the Python source, TLC configurations that check them on small instances, and
theorems that TLAPS proves for every instance. `PROJECT.json` maps each
definition to the lines it models and lists the runs, the findings and the
hazards.

## The system

The plugin lets an agent run commands, read and write files on remote *nodes*.
A node dials in over a WebSocket, proves itself with a token and stays
connected; requests are relayed to it over that socket.

| Part | State | Operations | Talks to |
|---|---|---|---|
| **Node registry** `registry.py` | name → live connection with its `last_heartbeat`; (name, request id) → future of the request | register, unregister, touch_heartbeat, stale, register/complete/unregister/fail waiters | called by the three parts below, all on one event loop |
| **Connection handler** `wsserver/server.py`, `handlers.py` | one task per WebSocket: hello → auth → register → receive loop → unregister | handshake, ping, routing replies to waiters, rate limit | registry, token store, rate limiter, the peer |
| **Request relay** `wsserver/server.py` (HTTP), `environment.py` | one task per request: look up, register a waiter, send, wait | exec, read, write | registry, the node's WebSocket, audit log |
| **Stale sweep** `lifecycle.py` | one task: a snapshot of silent nodes, closed one by one | one pass per interval | registry, the sockets |
| **Rate limiter** `ratelimit.py` | a deque of call times per name | check | called by the handler |
| **Token store** `tokens.py` | an encrypted file, replaced on every write, locked with `flock` | create, revoke, delete, validate | the CLI processes and the server share the file |
| **CLI** `cli.py` | none | pair, pair --force, revoke, list, status | token store, key file |
| **Server runner** `lifecycle.py`, `__init__.py` | uvicorn task, sweep task, singleton | start, drain, session hooks, auto-start thread | everything above |
| **Audit log** `audit.py` | open file, rotated siblings | record, rotate, purge, close | request relay, runner |
| **Agent tools** `tools.py` | none | HTTP request with retry and backoff | the HTTP endpoints |
| **Key file** `env.py` | one line of `~/.hermes/.env` | read or generate the Fernet key | CLI |
| **Configuration** `config.py` | none | read once | all |

What is hard here:

* Everything in the server runs on one event loop, so the only interleavings
  are at awaits. The registry's methods never await anything that is not
  immediately available, so each is one step; what happens *between* a
  handler's awaits (the close of a replaced socket, a send that is suspended,
  a future that is woken before its caller runs) is where things go wrong.
* A name can be taken over while its previous session is still unwinding and
  while requests are in flight on the old socket.
* A reply, the request's timer, the loss of the node and the cancellation of
  the caller race for one future and one entry of the waiter table.
* A rotation of the audit log is a chain of renames that may stop anywhere, and
  a purge deletes by name among them.
* The token file is changed by several processes with a lock that some of
  them do not take, on an inode that every write replaces; its key is in a file
  that is rewritten with no lock at all.
* An agent's tool repeats requests whose fate it does not know, against a
  server that runs a timer of its own.
* The session hooks start and drain one server through fields they share, and
  read again after every suspension; one of them may run on another loop.

What makes the parts correct: a slot belongs to a live handler of its own
name; a replaced session is shut; a departing session takes only what is its
own with it; a waiting caller can always be woken, by the session it was sent
on and no other; every request ends; silent nodes do not stay. The limiter
bounds every span as long as a window and refuses nobody who is below the
cap. The audit log keeps its rows in order and loses only the oldest. The
token file never has two live tokens of one name, stays under one key, and no
writer undoes what another wrote. A tool sends a command again only when it did
not reach the node or went down with its connection, as long as its send was
not stuck, and reports nothing without grounds.
Every start and drain ends, and leaves no server or sweep that nothing can stop.

## The modules

| Module | Models | |
|---|---|---|
| `NodeRegistry` | class `NodeRegistry` | its methods as functions of a registry record |
| `NodeServer` | handlers, relay and sweep on one registry | the state machine; the safety, action and liveness properties |
| `RequestContract` | – | what a caller is promised, without the machinery |
| `NodeServerClaims` | – | a statement of the documents that a run refutes |
| `NodeServer_proofs`, `NodeServer_refinement` | – | theorems about `NodeServer`: what always holds, and what a step may do |
| `RateLimiter` | class `_RateLimiter` | the sliding window |
| `TokenStore` | class `TokenStore`, the CLI's commands | the file, its inodes and locks, the processes |
| `TokenStore_proofs` | – | theorems about `TokenStore` |
| `PairCommand` | `ensure_fernet_key_in_env`, `_cmd_pair`, `_cmd_revoke` | the key file and the shell, on top of `TokenStore` |
| `AuditLog` | class `AuditWriter` and its singleton | the files of the log, one `record`, one purge |
| `ToolRequest` | `node_exec`, `node_read`, `node_write` and their retry loop | on top of `RequestContract`, with a clock |
| `ServerRunner` | class `ServerRunner`, the session hooks, the auto-start thread | hooks, server tasks and sweeps around shared fields |
| `RateLimiter_proofs`, `PairCommand_proofs`, `AuditLog_proofs`, `ToolRequest_proofs`, `ServerRunner_proofs` | – | theorems about those modules |
| `ToolRequestClaims`, `ServerRunnerClaims` | – | statements that a run refutes |
| `MC...` | – | the instances TLC checks, one module per component |

Definitions called a *variant for the checks* are plausible bugs (a dropped
guard, a missing reset). They are used by nothing; `PROJECT.json` pairs each
property with one that breaks it, which shows that the property can fail.

### NodeRegistry and NodeServer

The registry is one record: `connections` (which session holds each name),
`overdue` (names whose `last_heartbeat` is past the threshold: the only thing
the code reads of the time stamp), `waiters` (the keys) and `future` (the
state of the future of each request). A session stands for the
`NodeConnection`, its WebSocket and its `session_id`; a call for its request
id, which is a UUID and never reused. The methods take an `asyncio.Lock` but
never await while they hold it, so it is never contended; a chain of calls
between two awaits is a composition of functions inside one action.

A step of `NodeServer` is what one task does between two suspensions:

| Actions | Code |
|---|---|
| `Accept`, `RecvHello`, `RecvAuth`, `Reject` | handshake of `ws_nodes`; `Reject` stands for all its refusals, which keep nothing |
| `RecvAuth`, `PreviousClosed`, `AuthOkSent` | register, then the close of the replaced session, then `auth_ok`: two suspensions after registration |
| `RecvPing`/`PongSent`, `RecvResult`, `RecvOther`, `RecvOverLimit`/`LimitNotified`/`LimitClosed`, `RecvMalformed`, `Disconnect` | the receive loop; every way out goes through `Leave`, the `finally` block |
| `StartCall`, `SendDone`, `SendFailed`, `Resume`, `TimerFires`, `TimedOut`, `CancelCaller` | the three endpoints and `NodeEnvironment`'s methods, which differ in what they catch (`Settle`) and in whether the caller can be cancelled (`EnvCalls`) |
| `SweepTick`, `SweepClosed` | the snapshot, then one awaited close after another |
| `HeartbeatLapses`, `PeerGone`, `Pair`, `Revoke` | the clock, the peers and the operator |

A send or close on a socket that the server has closed raises at once, and the
next `receive_json` raises too, so these do not suspend; a receive that was
already suspended may still return one message. A reply is looked up by the
handler's name and the request id alone, so `RecvResult` lets it come on any
session, a replaced one included. The limiter is a choice here
(a frame may be over the limit or not) and a module of its own. Left out: the
contents of messages, field validation, the audit rows, the decoding of
results, the cancellation of a handler at shutdown.

`RequestContract` keeps of this only who holds a name and where each request
stands. A request belongs to the session that held the name when it was
accepted; it can be answered only while that session does, and is lost in the
very step in which the session gives the name up. `NodeServer` instantiates it
with `holder <- reg.connections`, and the phase of a call read off its program
counter, future and outcome (`Phase`).

### RateLimiter

Time is an integer clock; `check` is one step. `accepted` is a history variable
with every call that was let through, `refused` the names refused at the
present instant. The window of a name is the deque; an empty deque is an absent
key, because `check` deletes the key of a deque it empties.

### TokenStore

Of the file system the model keeps which inode the path names, which inode
each process has open and the records. `_mutate` is `Open` (which creates the
file), `Lock` (on the inode opened), `Read` (of the path), `Replace`, `Finish`;
it may fail (`WriteFails`) or be killed anywhere (`Kill`). A command is a
script of operations: `pair` is create, `pair --force` delete then create,
`revoke` delete. `validate` in the server is `Authenticate` and `Stamp`: it
reads the records and writes them all back, without a lock. Encryption,
hashing, time stamps and corrupt files are left out; so is the in-process lock,
since each command is a process of its own. `dropped` is a history variable: the
tokens whose deletion a command has reported.

### PairCommand

The pair command from its first line: `ScanKey` looks for the key in
`~/.hermes/.env`, `Reread` and `WriteKey` read the file again and replace it
with one line more, and then the command is a `TokenStore` command whose reads
need the key the file was encrypted with (`Decrypts`) and whose writes encrypt
with its own. A key is named by the command that generated it, and of a line
only matters whether it sets the variable and to which key. The operator may
export a key that could not be saved (`Export`); revoke uses a key of its
environment, the shell's or one the host has loaded from the file (`Loaded`). The
file may be missing, unreadable, or set the variable to nothing, and a
store from before may be under an old key (`PairInit`). Left out: quoting,
comments and the name of the variable.

### ToolRequest

A tool call is up to `MaxRetries` + 1 requests of `RequestContract`, each
`<<tool, attempt>>`: the server promises what `NodeServer` was shown to keep, and
this module adds the two clients of that promise, the tool and the node. The
tool sends, waits with its own timeout (`ClientTimesOut`; the endpoint, which is
not told, goes on), pauses (`Delay`) and sends again after a failure that looks
transient (`TryAgain`). The node runs whatever it was sent, once, as late as it
likes (`Run`), and answers or not. The endpoint first sends the frame, for any
length of time or for ever (`sending`, `FrameSent`, `SendFails`), while the tool's
timer runs; its own timer starts after that. `held` counts how long a send took,
up to the `Margin` by which the tool's timeout exceeds the endpoint's: a send that
took as long is `Stuck`. Time is counted in units and does not pass
what is due (`Idle`), so that the order of the endpoint's timer, the tool's timer
and the pauses is that of their lengths and of the sends; it is what
`RepeatedOnlyIfUnreachable` depends on. A server that is down refuses the
connection (`Send`). Left out: the conversion of contents, `node_list`, and a
server process that dies in the middle of a request.

### ServerRunner

A server is named by the `start` that created it: its uvicorn `Server`, its task
(`task`) and its sweep (`sweep`). `ref` and `sweepRef` are the runner's fields,
which every coroutine reads again after every suspension: a task that was
created for one server may find another in `_server`, or none (`Launch`, `Bind`,
`Finally`). A hook is a call of `_on_session_start` (`Start`, then `Poll` up to
its timeout) or `_on_session_end` (`Drain`, then the sweep, then the server, with
a timeout, a cancellation and a second wait for each). `LoopOf` gives the event
loop each hook runs on; a task runs on that of the hook that created it, and a
hook of another loop cannot await it. uvicorn's `startup`, `main_loop` and
`shutdown` are modelled from their use: the port, `started`, `should_exit`, and a
shutdown that waits for the last connection. Left out: the building of the app,
TLS, the port probe, and the standalone script, which starts a runner the same
way and never drains it.

### AuditLog

`disk` maps the slots whose files exist to their rows; slot 0 is the active
log, slot `s` the file with suffix `.s`. A row is its number in the order of the
`record` calls, and sizes are counted in rows. The writer's lock spans a whole
`record`, so there is one at a time, but each of its file operations is a step
(`EnsureOpen`, `CloseActive`, `DropOldest`, `Shift`, `ShiftActive`, `Reopen`,
`Write`): any may fail, the process may be killed between two (`Kill`), and the
purge, which takes no lock, may look or delete between two (`PurgeStat`,
`PurgeUnlink`). A row whose flush failed was reported lost but is still in
`_file`'s buffer and reaches the disk later (`buffer`). `cutoff` says which rows
are past the retention; a file's modification time is that of its last row.
Left out: the contents of rows, lines that were written in part, a failing
`fstat` (no rotation then), file modes, and a second process that writes to
the same path.

## The runs

The runs whose actors are finite in number and used once each (sessions, calls,
commands, tools, hooks) turn the deadlock check off: the instance comes to rest
when they are used up. The clock of `MCRateLimiter` stops at `Horizon` but names
go on calling, and in `MCAuditLog` a purge can always be run again, so there the
deadlock check is on.

| Run | Instance | Shows |
|---|---|---|
| `handover` | 1 name, 3 sessions, 1 call | `SlotHeldByHandler`, `NoPhantomSession`, `SlotReleasedByOwner`: takeovers, also of a session that is itself still taking over; `KeepsContract`: the server implements `RequestContract` |
| `calls` | 2 names, 2 sessions, 1 HTTP and 1 environment call | `TypeOK`, `WaitersOfHolder`, `PendingOnHolder`, `WaiterHasOwner`: the waiter table through timeouts, cancellations, failed sends and replacements; `LostOnlyWithSession`, `AnsweredUnderName`: names do not disturb each other, and nothing is answered after it was lost |
| `progress` | 1 name, paired and revoked meanwhile, 2 sessions, 1 call, fair | `CallsEnd`, `DeadSessionLeaves`, `SilentNodeSwept` |
| `cap` | 2 names, cap 2, window 2, clock to 6 | `CapPerWindow`, `RefusedOnlyOverCap`, `WindowIsRecentTail`, `TypeOK` |
| `mixed` | 1 name, 3 commands of any script, the server | `OneLiveToken`, `TypeOK`; `DeletedReturnsByRace`: a deleted token comes back only by the server's stamp or by a command that holds the lock of a file since replaced |
| `pairs` | 2 names, 2 commands of one operation with their keys, 3 first key files or no file to read, fair | `DoneUnderStoreKey`, `StoreKeyKept`, `OtherLinesKept`: key file and token file agree through every race, failure and kill; `NoLostUpdate`, `PairsEnd`, `PairTypeOK` |
| `audit` | 3 slots, files of 1 row, 6 rows, 2 faults | `RowsInOrder`, `RotatedAreFull`, `RecentRowsKept`, `RowsLeaveByAge`, `TypeOK`: rotations that break off anywhere, with the purge at any moment |
| `retry` | 1 tool, 2 attempts, 1 node, 2 sessions, fair | `RepeatedOnlyIfUnreachable`, `RerunOnOtherSession`, `ReportHasGrounds`, `TypeOK`: with sends of any length; `ToolsEnd`, also when a send never ends |
| `runner` | 3 hooks on one loop, each a start or a drain, fair | `NoOrphan`, `SweepStopsToo`, `HooksEnd`, `TypeOK` |

Why the bounds are enough to meet the interesting cases: a takeover needs two
sessions; a takeover of a session that is still waiting for the socket it
replaced to close, whose own predecessor has not unwound yet, needs three. Two
calls are needed for one to be failed while the other is answered or expires;
two names for one name's end to hit the other's requests. A cap and a window
of 2 over a clock of 6 give three full windows, with calls exactly one window
apart. Three commands are what it takes for one to hold the lock of the old
inode and another that of the new one. Three slots give the shift two renames,
so that their order matters; the fifth row of one-row files is the first whose
rotation drops a file, and two faults let a rotation break off twice in a row.

Two commands race for key and lock; what a third does to the lock is said below.
The first key files of `pairs` are the
combinations that `FirstValue` tells apart. The lengths of `retry` keep what the
code's are to each other: an exec's short timeout (1) is the endpoint's too and
leaves a margin of the slack (1); the endpoints' default (2) is below the tool's (3,
and the slack), which leaves a longer margin (2); and for a transfer with a short
timeout the endpoint's is not below the tool's, which leaves none. So sends that
end within the margin, at it and beyond it all occur. The pause is 1 (2,
capped). One retry is enough to repeat without end if it were not counted, and two
sessions are what a repetition needs to find the node on another one; a retry
after a retry is left to the theorems, which are about any number.
Three hooks let a drain and a start cross while a third waits for either.

`NoLostUpdate` and `StoreKeyKept` are checked where the code keeps them and
nowhere else: for two commands of one operation each. The first to lock replaces the inode; the
other waits on the old one and is alone when it gets it. A third command, or
the second operation of `pair --force`, opens the new inode and is not kept
out. `RepeatedOnlyIfUnreachable` and `RerunOnOtherSession` hold after attempts
whose send was not `Stuck`, and `NoOrphan` and
`SweepStopsToo` until a `start()` crosses a hook that is about to clear the
fields (`crossed`); the next section says what happens otherwise.

### What the code does not keep

Each of these runs checks one statement of the repository and ends in a
counterexample; `findings` in `PROJECT.json` quotes the statement.

`RecentRowsKept` also says what a rotation that keeps failing costs: each attempt
deletes the oldest file first and shifts what it can, and the next attempt starts
over, so that `keep` failures in the last rename leave nothing but the active
log.

| Run | Statement | What happens instead |
|---|---|---|
| `crash` | all exceptions become structured errors (FR-6.1) | `_WaiterCancelled` is a `BaseException`, which the endpoints do not catch |
| `report` | `node_exec` returns the exit code (`schemas.py`) | the tool reads `returncode`, the node sends `exit_code`: every reply is a success, a result of status `error` too |
| `thread` | drain awaits the background task | by default the server runs on the loop of the auto-start thread; the drain of another loop cannot await it, forgets it at once, and the task then never shuts the socket |

Other divergences the models show, on which no run is spent.

*Token file.* The lock does not exclude: `flock` is taken on the inode the path
named when it was opened, every write replaces that inode, and of three commands
two can be inside at once, against the comments of `_mutate` and `_file_lock`
(`Lock`, `Replace`). `delete` promises that `validate` is false from then on; a
stamp that read before it writes the token back, and drops a record that a
pairing stored meanwhile (`Stamp`).

*Key file.* `_cmd_pair` says an existing key is never regenerated. It is, if it
is only exported in the shell, if a line before it sets the variable to
nothing, if the file cannot be read (the other lines are then lost too), or if
another pairing saves its own between the two reads (`ScanKey`, `WriteKey`). The
pairing then fails at the token store that is under the old key
(`DoneUnderStoreKey`), but `.env` is changed.

*Tools.* `node_read` returns `path_not_allowed` for a path the node refuses,
says its schema. It does not: like `node_write` it looks at the status of the
endpoint's body, not at that of the result in it (`Reported`), so that a refused read
is an empty file and a refused write zero bytes written, both without an error.
`ReportHasGrounds` therefore says that a reply came, and not that the report agrees with
it. The schema says exec's timeout defaults to 60 s; without `timeout_ms`
the endpoint gives up after 30 (`EndpointTimeout`). The endpoints of read and
write always wait 30 s, so with a `timeout_ms` below 25 s the tool gives up first
and sends the transfer again while the first is still running. The same happens
to any request whose `send_json` is blocked for longer than the five seconds by
which the tool waits longer, because the endpoint's timer starts only after the
send: the first frame is still queued when the second is handed to the same
socket, and the node may run both (`Stuck`). A `timeout_ms` of 0, which the schema forbids, means thirty
seconds to the endpoint and five to the tool. A send that failed is
reported, not repeated, and the node may have the frame all the same
(`SendFails`); a node lost mid-command crashes
the endpoint, and its plain 500 makes the tool run the command again.
The HTTP endpoints write no audit row, so no tool call is in the audit log; nor
does a cancelled call of `NodeEnvironment` (`CancelCaller`), though
`_read_or_write` says that a row is written on every exit path.

*Runner.* A `start()` that begins while a drain, or a start that gave up, is
between its last wait and the clearing of the fields gets its server cleared away
with them: it listens, or holds on to the task, and nothing can stop it
(`crossed`). After a failed bind the sweep runs on without a server until the
start gives up five seconds later. A drain whose sweep or server is cancelled by
another hook ends with a `CancelledError`, which the hook's `except Exception`
lets through (`SweepOver`, `ServerOver`).

*Audit log.* The purge looks at a file's age and unlinks by name, without the lock
of the rotation, which may put a younger file there in between
(`PurgeStat`, `PurgeUnlink`).

*Replies.* `complete_waiter` does not ask which session a reply came on: a frame
that a replaced session was still receiving completes a request of its successor,
if it carries that request's id (`RecvResult`). What the server promises is not
touched: the request is open and its own session holds the slot
(`AnsweredUnderName`, `KeepsContract`).

*The rest.* Revoking a name
does not drop its connection, as FR-1.4 wants (`Revoke` changes no connection);
a caller that is cancelled leaves its key in the waiter table until its node
goes, though `register_waiter` asks callers to remove it (`WaiterHasOwner` has to
except it); with `keep` = 0 one rotated file is kept, not none (`Top`), and a
writer that was closed at session end drops the rows of environments that still
hold it (`Record`); the sweep closes a
node that spoke since the snapshot was taken, and logs it as idle
(`SweepClosed` does not look at `overdue`); a node gets requests before its
`auth_ok`, while the socket it replaced is being closed (`RecvAuth` comes
before `AuthOkSent`); a replaced session's last frame refreshes its
successor's heartbeat (`TouchHeartbeat` takes a name); a frame that is JSON
but not an object ends the connection, though `route_inbound` promises to log
it and go on (`RecvMalformed`); and the limiter prunes a name only at its own next
call (`Check`).

### Fairness

`progress` assumes that a handler is resumed once what it awaits is over.
Sends and closes end because uvicorn bounds them (keepalive ping and close
timeout), the two receives of the handshake because of `wait_for`; a request's
timer fires because the loop runs its timers; the sweep's loop runs until the
server stops. `Disconnect` is strongly fair: the frames queued ahead of a
disconnect are finitely many, but while one is being handled the receive is
not enabled. No peer, no operator and no clock is assumed to do anything.

`pairs` assumes that a process that was started runs on and that the kernel
grants a lock that is free. It does not assume that processes survive: a
killed one has ended, and its descriptor is closed.

`retry` assumes that tools and endpoints go on when they can and that the clock
ticks; no node is assumed to connect, run or answer anything, and no send to
end. `runner` assumes
that the loop runs its tasks and its timers: polls and waits are bounded by
constants, and a shutdown by uvicorn's own timeouts on its connections. That
nothing more is needed is the point of `HooksEnd`: no wait of one hook rests on
another hook's going on beyond what the loop gives it.

## The theorems

Every invariant and every action property of the runs is also a theorem, for
every set of names, sessions, calls, commands, tools and hooks and every cap,
window, timeout and size. The assumptions are those stated with the constants:
`None` is not a session, name, inode, timeout or result; the calls of `NodeEnvironment` are
calls; a script is a non-empty sequence of operations, of which at most the last
creates a token (`CreateLastAssumption`, true of the three scripts that the CLI
has); commands and inodes are finitely many and there are inodes to spare; caps,
windows and timeouts are positive. Two theorems have a hypothesis of their own, `OneLoopOnly` and
`TwoSingle`, which are said below; the instances of the runs satisfy both.

None of the properties is inductive alone. Each component has an invariant
that is, and TLC checked it on the component's instance before it was proved.
The proofs have the same shape throughout: a lemma for each operator or action
(or one that says what kinds of step there are), one for `Next`, and the
theorems as consequences.

**`NodeServer_proofs`**: `TypeCorrect`, `SlotsAreHeld`, `NoPhantoms`,
`WaitersFollowSlot`, `WaitersAreOwned`, `PendingCanBeWoken`. The inductive
invariant `IndInv` adds three facts: a session past the hello has a
name (`Named`); a call in flight has a target and a session it was written to, and
its future is not cancelled before its timer fires (`Sent`); and a key of the waiter table stands for a future that nobody has answered
or failed: it is pending, or cancelled by its own caller (`KeysUnsettled`). The
safety invariants then hold each other up: a waiter follows the slot because
`register` and `unregister` fail the waiters in the same step in which they
change the slot; a caller can be woken because its key leaves the table only
together with the settling of its future.

**`NodeServer_refinement`**: the action properties `OwnersRelease`,
`AnswersUnderName`, `LossesFollowSlot`, and `ServerKeepsContract`, that `NodeServer`
implements `RequestContract`. The steps fall into a few kinds by what they do to
the registry: a message that is heard changes at most one future, of a request
made under that handler's name; a session that passes the slot on, or leaves it, fails
exactly the waiters of the slot in that step; all other steps concern one call.
Under `IndInv`, and with `Unsent` (a call that has not begun has no session),
each kind maps to one step of the contract or to none.

**`TokenStore_proofs`**: `StoreTypeCorrect`, `OneLiveTokenPerName`,
`DeletedComesBackByRaceOnly`. The lock is of no
use to the second, since it does not exclude: the invariant `StoreInv` says
that what the file holds, what the server has read and what each command has
read are all free of double tokens, and that a command about to write has not
read a live token of its name. What anyone may write is then as good as what
is there, in whatever order the writes come. The third needs `DropInv` on top:
whoever has the inode open that the path names has read what is in the file
(`FreshRead`), and a token is nowhere before its command has made it, which is
the command's last act (`TokensMade`, `CreateLast`); so the token that is back
was read before it was deleted.

**`PairCommand_proofs`**: `PairTypeCorrect`, `DoneKeysHold`, `StoreKeyStays` for
any number of commands, though their locks do not exclude. What saves the key is
`FirstInode`: until the first write everybody has the same inode open, where the
lock does exclude (`LockInv`), so there is one first writer; and whoever comes
later has decrypted what it replaces (`CryptInv`). `OperatorsLinesStay` rests on
`TextInv`: what a pairing is about to write back has the lines of the operator
that the file has now, because no pairing removes one.
`TwoWritersLoseNothing` has the hypothesis `TwoSingle`, at most two commands and
each of one operation, because with a third the property is false (see above): the two
have the same inode open until one of them has written (`ApartInv`).

**`RateLimiter_proofs`**: `LimiterTypeCorrect`, `AtMostCapPerWindow`,
`NoEarlyRefusal`, `MemoryIsRecentTail`. The deque is the tail of the accepted
calls, and every accepted call before the tail is a window old (`WindowInv`): the cap
for every span is then the cap for the span that ends in the new call.

**`ToolRequest_proofs`**: `ToolTypeCorrect`, `RepeatsAreSafe`,
`RerunsOnOtherSession`, `ReportsHaveGrounds`. The tool's clock runs through the
send and then together with the endpoint's (`SendInv`), which ends first unless
the send was stuck (`Timers`), so the tool goes on to another attempt only after the
endpoint has reported a refusal or a loss (`PauseInv`); a request that was lost was lost with its session, which never
holds a name again (`SessionInv`).

**`ServerRunner_proofs`**: `RunnerTypeCorrect` and `SweepsEndToo` on any number
of event loops, from `RunnerInv`: whoever clears the fields has told the sweep
to stop (`StopInv`). `NoServerLeftBehind` has the hypothesis `OneLoopOnly`,
that every hook runs on the same loop, since the run `thread` shows what happens
otherwise: only then does a drain that finds a server await it, and clears
what it has awaited (`OwnInv`).

**`AuditLog_proofs`**: `LogTypeCorrect`, `RowsStayInOrder`, `RotationsAreFull`,
`RecentRowsStay`, `RowsLeaveWithTheirFile`, for every `keep` (zero included), size of
file and number of faults. Where the writer stands in a rotation decides which
files exist (`WriterInv`: the slot that a shift fills is empty), the rows go up
from the oldest file to the row that is to come (`OrderInv`), and between a file in
slot `s` and the active one there are as many full files as `s` says, less one for
each rotation that broke off (`AgeInv`). That last one bounds
how old a row must be before the rotation drops it, which is `RecentRowsKept`.

tlapm 1.4.5 gives its SMT solver an axiom about sequences that is too strong for
functions whose domain is not `1..n` (any `S` with `DOMAIN S = 1..N` has length `N`, *and
conversely*). All these proofs were also run with that axiom reduced to its
sound direction, and hold.

**Only model-checked.** All liveness: `CallsEnd`, `DeadSessionLeaves`,
`SilentNodeSwept`, `ToolsEnd`, `PairsEnd` and `HooksEnd` need fairness and
`ENABLED`, which TLAPS does not handle. That the findings are reachable is shown by
the runs that end in a counterexample; a theorem could only say the opposite.

## Not modelled

Configuration and its validation (a pure reading of a file and the environment,
done anew by whoever asks and kept by no one but the runner), the schemas, the
error classes and the manifest (no state); the port probe of the auto-start, whose
loser takes the failed bind that `ServerRunner` has; `hermes node list` and
`status`, which only read. Of what is modelled, the contents of messages and
files: JSON shapes, encodings, time stamps, hashes, and of encryption all but
which key.

## Plan

Done: the registry with the handlers, relay and sweep on it, because every
request depends on it; the limiter; the token store and the key file; the audit
log; the tools; the runner; and the theorems about all of them. What is left:

1. A theorem that composes `ServerKeepsContract` with those about the tools.
2. `AuditLog` with a second writing process, and the environments that keep a
   closed writer.
3. `NoOrphan` with a start that crosses a hook: which servers exactly are lost.
