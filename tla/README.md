# TLA+ models of ftp2sftp

ftp2sftp is a gateway: FTP clients log in with a user and password, and every
command is carried out on an SFTP server. This directory holds TLA+ models of
its core, TLC configurations that check them on small instances, and proofs
that TLAPS checks for all instances. `PROJECT.json` records which definition
models which lines, what each run checks and which hazards it is about.

## Inventory

| Component (source) | State | Operations | Hard because |
|---|---|---|---|
| transfer (`internal/transfer`) | `UploadHandle`: written, failed, closed; the temporary file on the server | NewUpload, Write, Seek, TransferError, Close | an upload is many round trips, each may fail or lose its answer; Close commits or cleans up |
| sftpclient (`internal/sftpclient`) | SSH and SFTP connection | Stat, CreateTemp, Commit, Rename, Remove, OpenRead, ReadDir, Mkdir, RemoveDirectory | Commit and Rename check first and act later; no deadlines |
| session (`internal/session`) | `sftp`, `closed` under `mu` | SFTP (dials lazily), InvalidateSFTP, IsConnected, Close | shared by the control loop and by the goroutine of a transfer |
| gateway (`internal/ftpserver/gateway.go`) | `activeConnections`, `sessions`, `conns`, `shuttingDown`, metrics | ClientConnected, AuthUser, ClientDisconnected, PrepareShutdown, WaitForSessions, CloseAllConnections | counters that all connections and main share |
| client driver (`internal/ftpserver/clientdriver.go`) | none of its own | one method per FTP command, GetHandle, maybeInvalidate | undoes slots and gauges on every error path |
| authorization (`internal/authorization`) | gate: slots in use per user | Check*, TryAcquire, Release | shared by all sessions of a user |
| auth (`internal/auth`) | `state`, `calls` of two limiters | Authenticate, Allow, RecordFailure, RecordSuccess, sweep | a slow password comparison lies between asking and recording |
| main (`cmd/ftp2sftp/main.go`) | two servers' error channels, a timer | run, shutdown, readinessCheck, probeUserSFTP, runHealthcheck | two goroutines wait for the same deadline; a probe opens four things in turn |
| `config` subcommand (`cmd/ftp2sftp/cli.go`) | none | check-connectivity, validate, hash-password | goes on after a failure |
| health (`internal/health`) | `alive` | SetAlive, three handlers, Shutdown | a readiness check outlasts its timeout; shutdown waits for handlers |
| sshclient (`internal/sshclient`) | a socket with a deadline | Dial | fails half way; the deadline must be lifted |
| filesystem (`internal/filesystem`) | none | ResolveVirtual, ToRemote, ToVirtual, WithinRoot | a pure algorithm with many corner cases |
| config (`internal/config`) | none | Load: applyDefaults, Validate | limits and ranges at their edges |
| errors, observability | counters and gauges | | |

How they interact: the FTP library (ftpserverlib) runs one control loop per
connection and calls the gateway; AuthUser builds a session and a client
driver; the driver asks the session for its SFTP client and hands transfers to
`transfer`; a transfer runs in a goroutine of its own, so that
ClientDisconnected may run under it; all sessions of a user share a gate and a
remote directory, and all connections share the gateway's counters with main.

What makes each component correct: an upload becomes visible whole or not at
all, and costs nothing once it is over (transfer, sftpclient, authorization);
a connection's SFTP client is closed when the connection is gone (session);
counts are exact (gateway); a lock holds and ends (auth); shutdown ends
(main, health) and a failure of a server ends the process; an answer of /readyz
or check-connectivity is true; a path means what a walk through the tree would
mean, a listing shows what is there (filesystem, sftpclient); what Load accepts
can be run (config).

## Modules

| Module | Models | Instantiated by |
|---|---|---|
| `AtomicStore` | abstract: a name space in which STOR, RNTO and DELE are atomic | `Upload` (`Store`) |
| `Upload` | transfer, sftpclient, authorization and the connection of a session, for several sessions of one user | `MCUpload` |
| `UploadProofs` | theorems about `Upload` | |
| `Gateway` | gateway, session and shutdown, for several connections | `MCGateway` |
| `GatewayProofs` | theorems about `Gateway` | |
| `AuthLimiter` | Authenticate and the limiters, for several logins | |
| `LimiterHistory` | `AuthLimiter` with the history of failures and locks that its properties need | `MCLimiterHistory` |
| `LimiterProofs` | theorems about `AuthLimiter` | |
| `LimiterHistoryProofs` | theorems about `LimiterHistory`; extends `LimiterProofs` | |
| `PathMapper` | the paths of filesystem, and a reference for them | |
| `Counting` | induction over sets of numbers, and counting by it | |
| `PathProofs` | theorems about `PathMapper`; extends `Counting` | |
| `RemoteTree` | Stat, LIST, MKD and RMD of several sessions over a directory tree with links; extends `PathMapper` | `MCRemoteTree` |
| `RemoteTreeProofs` | theorems about `RemoteTree`; extends `PathProofs` | |
| `Config` | defaults and validation of a configuration | |
| `Process` | run, shutdown, the health server, probes and commands; extends `Config` | `MCProcess` |
| `ProcessProofs` | theorems about `Process` and `Config` | |

Operators that a comment calls *Mutant* are not used by the specifications.
Each is a plausible mistake in the operator that follows it, and shows that a
property is able to fail: put in its place, TLC reports a violation.

### Upload

Sessions of one user share `final` (files under final names), `temp` (files
under temporary names), `gate` and `pending`
(`temporary_files_pending`). A session has one command in progress (`job`,
`pc`), the fields `written` and `failed` of its `UploadHandle`, and an SFTP
connection `conn` that is `"none"`, `"up"`, `"down"` or `"ending"`. A file is the pair
*chunks written, chunks its client meant to send*: this is all the properties
tell apart. The temporary name is a function of the final name and the session,
as in `TempPath`.

Each action is at most one effective round trip, so the steps of Commit
(`Check`, `Exists`, `RemoveTarget`, `Rename`) interleave with those of all
other sessions. A round trip is `Served`, `Refused` (an error without effect)
or its `ReplyLost` (it has an effect, the caller sees an error, and the
connection is dead). `Commit` and `Rename` of the client make the same calls
and share their actions; they differ in the source and in what follows an error.
A leading Lstat that cannot change the outcome otherwise (Stat, Remove,
OpenRead) is part of the round trip it guards.

`Faults` selects which of refusals, losses of connections and disconnecting
clients occur. When a client disconnects, Session.Close closes the SFTP client
before the SSH connection, and the first waits for the server to end the channel:
later requests fail at once, but one that is on its way (`MayAwait`) goes on
waiting (`"ending"`) until the server answers it or ends the channel
(`ChannelEnds`). `landed` and `left` are history variables: the rename of this
upload took effect; the temporary names whose upload ended without removing them.

### Gateway

Each connection has a control loop (`control`) and a command (`worker`); main
is a third kind of process. An action is what happens between two accesses to
shared state: an atomic operation or a section under `Session.mu` or `connsMu`.
So ClientConnected is `LoadShuttingDown`, `CountConnection`,
`UncountConnection` or `Register`, and ClientDisconnected is `Unregister`,
`AskConnected`, `CloseSession`, `CloseReturns`, `SessionDone`; maybeInvalidate is
`OperationTimesOut`, `InvalidateSFTP`, `InvalidateReturns`, `InvalidateDone`. `sftp` distinguishes a client
that works, one whose connection is dead, and one on which a command has failed
for that reason. `Session.mu` is modelled where it matters: a command keeps it while
the connector dials and while InvalidateSFTP closes the client (`MuHeld`),
Session.Close while it closes the client (`CloseHoldsMu`), and whoever else needs it
waits. Dial ends in time; `OpenSubsystem` (sftpclient.New) and the closing of a
client whose server is alive may not. `Background` are the
connections whose control loop may end under a command (as it may for transfers
and listings); `MaxLogins` bounds the logins on one connection; `Losses` turns
broken connections on. The select of `shutdown` is modelled with its blocking: a
case that becomes ready first is the one taken, and if both are ready on arrival
either is. `late` is a history variable: logins after sessions.Wait returned.

### AuthLimiter

A login is a sequence of calls, each a section under a limiter's mutex. Times
are distances from now that saturate just above the largest value the code
compares them with, so there is no bound on the clock: `age` is now −
windowStart, `left` is lockedUntil − now, `idle` is now − lastActivity. 32 and
256 are the constants `Cap` and `SweepEvery`. `shadow` is a history variable:
the entries as they would be without any sweep.

`LimiterHistory` adds, without restricting any step, how often each key has
failed since its last success (`recent`) and been left unlocked by that (`free`),
both counted for every n over the last n ticks of a window, and the keys that
were locked when a login began and have been since (`found`).

### PathMapper and RemoteTree

A path is a string split at its slashes; "", "." and ".." are parts like others,
"NUL" stands for a part with a NUL byte, and `BeginsOf` says which names continue
others as strings, so that a comparison of prefixes without a slash would be
noticed. path.Clean and path.Join are operators on such paths; Clean takes the
parts one by one (`Take`), as a recursive function. The reference is independent
of them: it has neither recursion nor a stack, and asks for each name whether
some stretch that follows it has more ".." than names; such a name is left again.

In `RemoteTree` sessions send commands with paths; each round trip is a step: the
check of the last name for a link that leads outside, then the operation; a
listing comes entry by entry, then every link in it is checked. Meanwhile `Others`
(uploads, RNTO, other sessions, other users of the server) make, move here, remove
or replace anything that is no directory with something in it, links with any text
of `Texts` included. `seen` and `relinked` are history variables: the names that were
in the directory at some time, or all the time, of a LIST; whether a link was put at
the path of a command after its check. `node` gives every path of the server a kind,
`text` a link its text, which `Named` resolves as checkNoEscapingSymlink does. The
server has clean absolute paths, and what exists is in a directory
(`SitesAssumption`). A path leads through at most one link (`LinkAssumption`): a text
that runs through a second link is the residual risk that the code accepts.

### Config and Process

`Config` has one operator per function of `internal/config`; a string is
abstracted to what the code asks of it. Durations are not validated by the code:
negative ones are accepted and taken as the code takes them.

`Process` is one gateway process from reading its file to its exit: `main` is
where run is, `ftp` and `health` are the two servers, `job` what the handlers of
the health server and the commands of an operator are doing. A readiness check
and check-connectivity walk the same list with the same probe (`DialFiles`,
`DialConnect`, `DialHandshake`, `OpenSubsystem`, `Ping`), which stops the one at
its first failure and not the other. Time passes in ticks; a dial step cannot
outlast its timeout, a readiness check starts no probe after its own, and takes no
time but the time it waits for a server. What Validate has found out about the
files of a user may have changed when a dial reads them, and of the passphrase file
it has found out nothing; so `DialFiles` may always fail. A signal
before signal.Notify kills the process. The drain of FTP sessions takes some
time here; that it ends is `ShutdownTerminates` of `Gateway`.

### Assumptions about libraries

The libraries are not part of the repository; what the models assume of them
is read off the way the code uses them. ftpserverlib runs the commands of a
connection one after the other, transfers and listings in goroutines of their
own; at the end of the control loop it calls ClientDisconnected, also for a
connection that was rejected, does not wait for the transfer, and closes the
data connection, so that TransferError and Close follow. If Seek fails it closes
the handle without TransferError. It accepts USER and PASS again after a login.
The end of the data connection is the end of the file, as FTP has it. The SFTP
server's posix-rename replaces atomically and its plain rename refuses to
replace. When a connection is lost, pending and later operations on it fail. The
SFTP client's Close ends its side of the channel and waits until the server has
ended the other or the connection is dead.

## Runs

Passing runs:

| Run | Shows | Instance |
|---|---|---|
| `UploadStore` | `TypeOK`, `FinalWhole`, `NoReplace`; `StoreIsAtomic`: STOR, RNTO and DELE implement AtomicStore | 2 sessions, 2 names; neither posix-rename nor overwrite; connections break, answers are lost |
| `UploadRemoveRename` | `AccountingExact`, `PendingCoversTemps`, `FailureTruthful`, and under fairness `DisconnectEndsCommand`, on the remove-then-rename path | 2 sessions, 1 name; overwrite without posix-rename; every fault, REST, downloads |
| `UploadNoFault` | `AccountingExact` at the limit of the gate, `FinalWhole`, `NeverBothLost` | 3 sessions for 2 slots, 2 names; overwrite without posix-rename; transfers fail, round trips do not |
| `Gateway` | `TypeOK`, `AdmissionExact`, `SessionsBalanced`, `GoneHoldsNoClient`, `GaugeDrift`, `DrainComplete`, and under fairness `ShutdownTerminates`, `DisconnectCompletes` | 2 connections for 1 place, one login each; the commands of one may outlive its control loop; broken connections |
| `Limiter` | `TypeOK`, `SweepInvisible`, `GuessesBounded`, `LockJustified`, `NewcomersCannotUnlock`, and under fairness `LockExpires` | 2 concurrent logins, threshold 3, window 1, lockout 1, cap 2, a sweep every 2 calls |
| `RemoteTree` | `TypeOK`, `PathMeansWalk`, `RoundTrip`, `FollowsInside`, `ListingFaithful` | 1 session of every command and others who change the tree; every path of up to 3 parts out of 6 |
| `Process` | `TypeOK`, `AcceptedIsUsable`, `NoProbeLeak`, `ReadyTruthful`, `ReadyzDialBounded`, `ConnectivityTruthful`, and under fairness `ProcessExits`, `FailureNoticed` | 1 request and 1 command at a time, 2 users; files with up to two fields changed |

Runs that find what the code does to differ from what its comments, documents
or tests say (`findings` in `PROJECT.json` quotes the line):

| Run | Property violated | What happens |
|---|---|---|
| `UploadRest` | `FinalWhole` | REST then STOR: Seek refuses, Close commits an empty file |
| `UploadOrphan` | `EveryTempCounted` | a connection breaks; the one attempt to remove the temporary file fails on it too, and the gauge counts the file as gone |
| `GatewayRelogin` | `SessionsBalanced` | a second login adds to the WaitGroup and replaces the session without closing it |
| `GatewayDeadClient` | `NoFailedClientKept` | the error of a dead connection is not one maybeInvalidate acts upon |
| `ReadyzOverrun` | `ReadyzInTime` | with the code's own 5 and 3 seconds, a check that connects and shakes hands slowly outlasts its timeout, because handleReadyz waits for it |

The conditions of some passing runs are needed, which is worth knowing. The
first three items change constants and give a violation; the others say how
far a property goes and why no further:

- `UploadNoFault` with `Faults = {"loss"}` or `{"refuse"}`: `NeverBothLost`. The
  rename fails after the target was removed, and Close removes the temporary file
  too, so the old version and the new one are both lost. ADR 0005 (lines 56-60)
  accepts that the name is absent for a moment between Remove and Rename; it does not
  speak of this.
- `UploadStore` with `HasPosixRename = TRUE`: `NoReplace`. The target appears between
  rejectIfExists (`client.go:187`) and PosixRename (`client.go:192`), and is replaced,
  although `policy.go:73` lets only CheckOverwrite permit that.
- `Gateway` with `MaxLogins = 2`: `GoneHoldsNoClient`, besides
  `SessionsBalanced`.
- `GaugeDrift` allows what really happens: a transfer dials, or a listing
  invalidates, between IsConnected and the decrement of ClientDisconnected, and
  `sftp_connections_active` stays wrong by one. Without `Background` the bound is
  zero.
- `GuessesBounded` is tight: 2 * MaxFailures - 4 is violated. The comment at
  `limiter.go:9` speaks of a sliding window, which would allow MaxFailures - 1.
- `DisconnectEndsCommand` and `DisconnectCompletes` have exceptions that are needed,
  all of them a server that is alive and does not answer: it never opens the SFTP
  subsystem, or never ends the channel of a client that InvalidateSFTP or
  Session.Close is closing under `Session.mu`, or never answers the one request that
  was on its way. `docs/security/security-model.md:220-224` says that such a server
  blocks an operation for good; that the end of the FTP connection does not help is
  what these properties add.
- `DrainComplete` is about a drain that ends by itself. At the deadline
  WaitForSessions returns because of the same channel as shutdown, so nothing waits
  for the connections that CloseAllConnections has just closed, and the process may
  exit with clients still open, against `gateway.go:341-346`.
- `PendingCoversTemps` excepts the files in `left`: those whose removal, or whose
  creation, was a round trip that failed. `UploadOrphan` shows that it must.
- `ReadyzDialBounded` bounds the time a readiness check dials, not the time it
  takes: Ping and sftpclient.New have no deadline and run in the handler, so
  `/readyz` may never answer, and `client.go:387-390` asks callers to run Ping in a
  goroutine. `ReadyzOverrun` is the disagreement with `health/server.go:17-19`.
- `AcceptedIsUsable` says nothing of `privateKeyPassphraseFile`: it is read at
  `dial.go:131` and never validated, so a configuration may be accepted with which a
  user cannot reach his server.
- `FollowsInside` has a second exception, a link put at the path itself between the
  check and the operation: without it TLC finds CWD following such a link outside.
  RNTO can put one there, since its text may lead elsewhere from its new place, and
  so can other users of the server. `security-model.md:100-112` names links in the
  directories of a path as the residual risk, not this one.
- `FollowsInside` looks at paths without links in their directories, because the
  code checks the last name only (`client.go:313-319` names this residual risk).
  For the same reason `ListingFaithful` promises only of a directory that was not
  reached through a link that no link in it is shown that leads outside.

**Bounds.** Two sessions and one contested name suffice for every race between
two multi-step operations; the second name is there for RNTO, the third session
for a gate that is full. Payloads of one and two chunks with a limit of one give
an empty, a partial, a whole and an oversized file. Two connections for one place
let one be rejected while the other is counted or leaves. Threshold 3 is the
smallest at which a window that restarts allows more than one that slides.
Window, lockout and cap are small but such that a lock can outlive a tick, be
prolonged to its cap, and expire within and after the window. Paths of three
parts suffice to leave the root, to climb above the top and to come back. A job
of `Process` shares nothing with other jobs but the process itself, so one handler
and one command show what several would; two users are needed for a walk that fails
half way, and a readiness timeout of two ticks lets a probe begin before it and
end after it. `ReadyzOverrun` has the code's own timeouts. No run limits the number of commands, requests or logins of a
session in time, except `MaxLogins`. Sessions are interchangeable and are
declared symmetric in the runs without liveness.

**Deadlock.** A state in which all clients have left, or the process has
exited, has no successor; `Upload` and `Gateway` runs do not check for deadlock.
`AuthLimiter` can always tick, a session of `RemoteTree` can always send a
command, and an operator can always run one in `Process`: these runs check it.

**Fairness.** `Upload`: a round trip over a live connection may hang for ever,
because the code sets no deadline; over a dead one it returns its error, and the
data connection of a client that has gone breaks. `Gateway`: main, the timer,
the goroutine of WaitForSessions and ClientDisconnected run, Dial returns because
it has a deadline, and closing a client returns if its connection is dead
(`ClosesDeadClient`); nothing is assumed of clients, other commands, sftpclient.New
or a live server, so that closing a client of such a server may take for ever. `AuthLimiter`: time passes. `Process`: run goes on,
the drain ends, a job that waits for nobody goes on, dial steps return by their
timeouts, and time passes; the last is
strong fairness, because a tick waits for a dial step whose time has come.
Nothing is assumed of Ping, sftpclient.New, signals, failures or requests.

## Proofs

`UploadProofs` (for any sets of sessions, names and payloads, any limit and any
faults):

- `TypeCorrect`: `Spec => []TypeOK`. Which step belongs to which command is part
  of it, because the accounting is read off the command in progress.
- `Accounting`: `Spec => []AccountingExact`. Beginning a command adds one session
  to the set that the gate counts, ending it removes one, everything else keeps
  the set: three lemmas (`CommandBegins`, `CommandEnds`, `CommandGoesOn`) and a
  case split by step.
- `FinalNamesWhole`: if clients do not send REST before STOR, `Spec =>
  []FinalWhole`. FinalWhole is not inductive: the file that a rename moves must
  be known to be whole. The strengthening `UploadInv` says that from Close on an
  upload that is not marked as failed has its whole file under its temporary
  name (`Staged`), that nobody else can touch that name because it contains the
  session (`OthersApart`), and that a rename is reached along the way the
  permissions prescribe (`Routed`).
- `PlainRenameNeverReplaces`: without posix-rename, `Spec => NoReplace`. The
  server refuses to replace, and this is all that protects the file: the checks
  before it are stale when they are used.
- `ReplacingTakesARace`: with posix-rename as well, if the server refuses nothing
  (`"refuse" \notin Faults`) and no two sessions are between their look at the same
  target and their rename to it at the same time (`RaceFree`), `Spec => NoReplace`.
  This says how far the race between the look and the rename reaches. A lone session, for one,
  is safe, even when its connection breaks or answers are lost: an error of the
  look is taken for "there is no target", but over a broken connection no rename
  follows (`TargetFree`). Both conditions are needed: two sessions refute the
  theorem without the second (see above), and without the first a refused Stat is followed by
  a rename that replaces.
- `AtomicWithoutRaces`: under the same two conditions, with posix-rename and
  without REST before STOR, `Spec => StoreIsAtomic` for all permissions.
- `ImplementsAtomicStore`: if the server has posix-rename exactly when the user
  may overwrite, and without REST before STOR, `Spec => StoreIsAtomic`. The two
  combinations left out are posix-rename without overwriting, which the
  race refutes and `AtomicWithoutRaces` shows under its conditions, and overwriting
  without posix-rename, which removes the target first. Both theorems rest on one
  lemma about a step (`AtomicStep`), which asks that every rename that takes effect
  is permitted when it does.
  The combination with posix-rename is shown by this theorem alone; `UploadStore`
  checks the other one.
- `FailedUploadsTruthful`: `Spec => FailureTruthful`, for all faults. An upload that
  is not over although its rename took effect is at its cleanup, and its
  connection is lost and stays so (`LandedDown`); so the cleanup cannot remove
  anything.
- `PendingCovers`: `Spec => []PendingCoversTemps`, for all faults. A temporary file
  that is not in `left` belongs to the upload in progress under its name
  (`TempOwned`), so these files are at most the uploads that `Accounting` counts.
- `OverwriteNeverLosesBoth`: if no round trip fails and without REST before STOR,
  `Spec => []NeverBothLost`. While an old version is gone, some upload is about to
  rename its own file to that name (`Replaced`), and that file is whole by
  `UploadInv`; other uploads may remove or replace the name meanwhile.

`GatewayProofs` (for any connections, limit, logins and commands beside the
control loop):

- `GatewayTypeCorrect`: `Spec => []TypeOK`. That no counter falls below zero is not
  inductive by itself: it follows from what the counters count, so the types are
  proved with integers first (`Typed`).
- `Admission`: `Spec => []AdmissionExact`, inductive with the types: each atomic
  operation on the counter moves one connection into or out of the set it counts.
- `SessionsCounted`, `NoClientOutlivesConnection`: if a connection logs in once
  (`MaxLogins = 1`), `SessionsBalanced` and `GoneHoldsNoClient`. The condition is
  needed: `GatewayRelogin` refutes the first without it, and `MaxLogins = 2` the
  second. `SessionInv` says what
  `Session.mu` achieves: the session that a command dials for is open and without
  a client (`MuExcludes`), and the one ClientDisconnected has closed stays without.
- `DrainWaits`: for any number of logins, when WaitForSessions has returned, every
  connection with a session that began before is gone (`WaitSaw`); with one
  login, `DrainComplete`. A second login adds to the WaitGroup once too often,
  never too seldom (`WaitGroupCovers`), so the drain may wait until its deadline but
  does not end early.
- `GaugeDriftBounded`: `Spec => []GaugeDrift`. A bound on an absolute value is not
  inductive: the invariant `GaugeInv` names the connections that made the gauge
  too high and those that made it too low, and says that a connection gets into
  one of the sets only once and only by a command beside its control loop.

`ProcessProofs` (for any handlers, commands, users, files and timeouts). One
invariant, `ProcessInv`, serves all theorems: how far each job has walked the
users it was asked about and what it has found (`WalkOK`, `AnswerOK`), what it has
spent and has left of its dial (`TimeOK`), where a socket is open (`SocketOK`), and
that a readiness check runs only between the start and the end of the health
server, so that the users it walks do not change under it (`ReadyzOK`).

- `ProcessTypeCorrect`, `ProbesCloseTheirSockets`, `ReadyzTruthful`,
  `ReadyzDialsBounded`, `ExitCodeTruthful`: `TypeOK`, `NoProbeLeak`,
  `ReadyTruthful`, `ReadyzDialBounded`, `ConnectivityTruthful`. The exit code
  is compared with the set of names whose probe succeeded; this needs that names
  are distinct, as validation ensures, because the command goes on after a failure.
  The bound needs that dialling time never exceeds the age of a check, so that
  the last probe begins with less than the timeout spent.
- `LoadAcceptsUsable`: `Spec => []AcceptedIsUsable`, for any set of files of the
  type `ConfigFile` (`FilesAssumption`): the integers of a file are any integers. Of
  the files that a dial reads, the passphrase file of a key is the one that may be
  missing (`Unreadable`).

`LimiterProofs` (for any keys, logins and thresholds):

- `LimiterTypeCorrect`: `Spec => []TypeOK`; no lockout exceeds `Cap` times the
  basic one.
- `SweepChangesNothing`: `Spec => []SweepInvisible`. The invariant `SweepInv`
  relates each key to its shadow: they are equal, or the key was swept and what
  the shadow still has is *spent*, its window over and its lock too. That a stale
  entry is spent needs a second fact, `Aged`: a window begins no later than the
  last activity in it.
- `SequentialLocksHold`: if logins do not overlap, `Spec => LockHolds`: a lock
  ends only when its time is over. The condition is needed: a login that passed
  Allow before the key was locked clears the entry when it succeeds
  (`limiter.go:99`), or restarts the window when it fails late. The invariant `ClearInv`
  says which keys of a login are known to be unlocked at which of its steps.

`LimiterHistoryProofs` (for any keys, logins, thresholds, windows and lockouts; every
behaviour of `LimiterHistory` is one of `AuthLimiter`, so `LimiterProofs` applies):

- `GuessingIsBounded`: `HSpec => []GuessesBounded`. The bound says nothing of the
  entries; `HistoryInv` says how an entry and the history are related. All failures of
  an open window are as recent as its beginning, and one of them exactly; what
  still counts of the window before lacks that window's first failure, which is
  older than a window (`WindowOK`). So there are at most MaxFailures - 1 of the
  one and MaxFailures - 2 of the other. A swept or cleared entry leaves nothing
  that counts.
- `LocksAreJustified`: `HSpec => LockJustified`, from the same invariant.
- `OnlyEarlierLoginsUnlock`: `HSpec => NewcomersCannotUnlock`. A login that found
  one of its keys locked does not get past Allow for that key while the lock
  lasts (`FoundInv`); this is the part of `SequentialLocksHold` that remains when
  logins overlap.

`Counting` and `PathProofs` (for any roots and any paths, of any length). What a
recursive function computes needs induction. The library's induction theorems
take an operator, which the provers do not instantiate; `SetInduction` says the same
of a set instead: a set of numbers that contains 0 and the successors of its
members contains all numbers, since the others have a least one. The set is then
written out where the lemma is used.

- `CleanMeansWalk`: for every sequence of parts, Clean of the absolute path ends at
  exactly the names that the reference says the walk does not leave, in that
  order. First, the recursion of Clean has a solution (`TakingExists`) and its
  values are what `Take` makes of them (`CleanTakes`). The invariant of the
  recursion is `Stack`: the parts taken so far are the names that no stretch up to
  here has left, in ascending order of their positions. That ".." takes back the last
  of them and no other is the heart of it (`StackShrinks`): a name before the last
  one has that one in between, so every stretch from it has a name more to lose
  (`BelowNext`). Positions in the result are counted by `IncreasingCounts`.
- `MappingRoundTrips`: ToRemote maps a clean path inside the virtual root to a
  clean one inside the remote root, and ToVirtual maps that one back. It rests on
  `CleanKeepsNames` (a path of names is left alone) and `CleanIsCanonical` (Clean
  returns such a path).

`RemoteTreeProofs` (for any tree, sessions and arguments):

- `PathsContained`: `Spec => []TypeOK`: every command acts inside the remote root,
  and no session leaves its virtual root. It needs nothing of path.Clean, because
  ResolveVirtual and ToRemote test what they return with WithinRoot.
- `ChecksHold`: `Spec => []FollowsInside`. The link check is stale when the command
  acts. `CheckedOK` says what is left of it: unless a link was put at the path since
  (`relinked`), a link that is there is the one that was checked, so its text leads
  inside, and if there is none the path is what it says. That a link is looked at
  where it lies, and not through another, needs that what exists is in a directory
  (`TreeOK`); that the place it leads to holds no second link is `LinkAssumption`.
- `ListingsFaithful`: `Spec => []ListingFaithful`. `ReadingOK` relates what a LIST has
  read to what was there at some time and all the time since it began.
- `PathsMeanWalks`: `Spec => []PathMeansWalk`, and `NamesRoundTrip`: `Spec =>
  []RoundTrip`, for all sets of arguments, from the two theorems of `PathProofs`. They
  hold of a session because its current directory is clean, which is inductive only
  together with the directory that a CWD in progress is about to set (`DirsClean`).

The assumptions are the named `ASSUME`s of `Upload`, `Gateway`, `AuthLimiter`,
`PathMapper`, `RemoteTree` and `Process`, which TLC evaluates on every run.

Only model-checked are the six liveness properties (`DisconnectEndsCommand`,
`ShutdownTerminates`, `DisconnectCompletes`, `LockExpires`, `ProcessExits`,
`FailureNoticed`), which need fairness and are outside what the prover handles.

## Not modelled

- `hash-password` and the parsing of arguments: terminal input and output.
- YAML syntax, host keys, signatures and bcrypt, which are libraries': outcomes.
- Links to links, and links in the directories of a path beyond what
  `FollowsInside` says.
- The names of `Upload` are opaque; directories and files meet in `RemoteTree`
  only through others who create and remove files.
- The drain inside `Process` and the health server inside `Gateway`: each has
  the other as a single step.
- The sizes of a transfer's buffers, hashes, byte counts, durations, log text,
  `/metrics` and counters that are only incremented.

## Plan

Every safety property that a run checks is a theorem, for every value of the
constants that meets the named assumptions. What could be added:

1. A bound on `left`: how many temporary files can stay behind, in terms of the
   connections that were lost. This needs a history of connections.
2. Files and directories in one name space, so that the commands of `Upload` and
   `RemoteTree` meet.
