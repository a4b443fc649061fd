------------------------------- MODULE Gateway -------------------------------
(***************************************************************************)
(* The life of FTP connections, of their sessions and of the sessions'     *)
(* SFTP clients in one gateway process, and the graceful shutdown of main. *)
(*                                                                         *)
(* A connection has two goroutines: the control loop of the FTP library,   *)
(* which calls ClientConnected, AuthUser and at the end ClientDisconnected,*)
(* and a worker for the command in progress.  They share the session and,  *)
(* with all other connections and main, the gateway's counters.  An action *)
(* is what happens between two accesses to shared state that another       *)
(* goroutine can interleave with: an atomic operation or a section under   *)
(* Session.mu or connsMu.                                                  *)
(***************************************************************************)
EXTENDS Integers, FiniteSets

CONSTANTS
    Conns,            \* FTP connections
    MaxConnections,   \* server.maxConnections
    MaxLogins,        \* bound: successful USER/PASS on one connection
    Background,       \* connections that run commands beside the control loop
    Losses            \* SSH connections may break

ASSUME GatewayAssumption ==
    /\ IsFiniteSet(Conns)
    /\ MaxConnections \in Nat \ {0}
    /\ MaxLogins \in Nat \ {0}
    /\ Background \subseteq Conns
    /\ Losses \in BOOLEAN

(* The k-th session of connection c.                                       *)
AllSessions == Conns \X (1..MaxLogins)

VARIABLES
    main,           \* where run and shutdown stand
    listening,      \* the FTP listener accepts
    shuttingDown,   \* Gateway.shuttingDown
    deadline,       \* deadlineCh is closed
    finished,       \* WaitForSessions: sessions.Wait() has returned
    drained,        \* shutdown: drained is closed
    control,        \* where a connection's control loop stands
    worker,         \* where the command of a connection stands
    logins,         \* sessions the connection has begun; cs.sess is the last
    registered,     \* Gateway.conns
    killed,         \* connections CloseAllConnections closed
    active,         \* Gateway.activeConnections
    sessions,       \* the counter of the WaitGroup Gateway.sessions
    sftp,           \* Session.sftp: "none" (nil), "up", "dead", "failed"
    closed,         \* Session.closed
    was,            \* ClientDisconnected: wasConnected
    gauge,          \* metric sftp_connections_active
    late            \* history: connections that log in after sessions.Wait()

exitVars == <<main, listening, shuttingDown, deadline, finished, drained>>
connVars == <<logins, registered, killed, active, sessions>>
sftpVars == <<sftp, closed, was, gauge, late>>
vars == <<main, listening, shuttingDown, deadline, finished, drained, control, worker,
          logins, registered, killed, active, sessions, sftp, closed, was, gauge, late>>

Admitting == {"arrived", "passed", "over", "counted"}
Ending    == {"ending", "asked", "closing", "releasing", "closed"}

Init ==
    /\ main = "serving"
    /\ listening = TRUE
    /\ shuttingDown = FALSE
    /\ deadline = FALSE
    /\ finished = FALSE
    /\ drained = FALSE
    /\ control = [c \in Conns |-> "new"]
    /\ worker = [c \in Conns |-> "idle"]
    /\ logins = [c \in Conns |-> 0]
    /\ registered = {}
    /\ killed = {}
    /\ active = 0
    /\ sessions = 0
    /\ sftp = [x \in AllSessions |-> "none"]
    /\ closed = [x \in AllSessions |-> FALSE]
    /\ was = [c \in Conns |-> FALSE]
    /\ gauge = 0
    /\ late = {}

(* The goroutines run until main has returned.                             *)
Running == main # "exit"

Control(c, from, to) ==
    /\ Running
    /\ control[c] = from
    /\ control' = [control EXCEPT ![c] = to]

Worker(c, from, to) ==
    /\ Running
    /\ worker[c] = from
    /\ worker' = [worker EXCEPT ![c] = to]

(* connState.sess: the session of the last login.                          *)
Sess(c) == <<c, logins[c]>>

-----------------------------------------------------------------------------
(***************************************************************************)
(* ClientConnected.                                                        *)
(***************************************************************************)

(* The library accepts a connection and calls ClientConnected.             *)
Accept(c) ==
    /\ listening
    /\ Control(c, "new", "arrived")
    /\ UNCHANGED <<exitVars, worker, connVars, sftpVars>>

(* shuttingDown.Load(): the decision may be old when it is acted upon.     *)
LoadShuttingDown(c) ==
    /\ Control(c, "arrived", IF shuttingDown THEN "rejected" ELSE "passed")
    /\ UNCHANGED <<exitVars, worker, connVars, sftpVars>>

(* Mutant: the limit is compared with the number before the increment.     *)
CountConnectionLate(c) ==
    /\ active' = active + 1
    /\ Control(c, "passed", IF active > MaxConnections THEN "over" ELSE "counted")
    /\ UNCHANGED <<exitVars, worker, logins, registered, killed, sessions, sftpVars>>

(* activeConnections.Add(1), and its result compared with the limit.       *)
CountConnection(c) ==
    /\ active' = active + 1
    /\ Control(c, "passed", IF active + 1 > MaxConnections THEN "over" ELSE "counted")
    /\ UNCHANGED <<exitVars, worker, logins, registered, killed, sessions, sftpVars>>

(* activeConnections.Add(-1) for a connection over the limit.              *)
UncountConnection(c) ==
    /\ active' = active - 1
    /\ Control(c, "over", "rejected")
    /\ UNCHANGED <<exitVars, worker, logins, registered, killed, sessions, sftpVars>>

(* SetExtra, and the connection is added to conns.                         *)
Register(c) ==
    /\ registered' = registered \cup {c}
    /\ Control(c, "counted", "up")
    /\ UNCHANGED <<exitVars, worker, logins, killed, active, sessions, sftpVars>>

-----------------------------------------------------------------------------
(***************************************************************************)
(* AuthUser and the commands of a session.                                 *)
(***************************************************************************)

(* A successful USER/PASS.  The library lets a client log in again, and    *)
(* AuthUser then replaces cs.sess.  shuttingDown is not looked at, and the *)
(* password check may be under way when the connection is killed.          *)
AuthUser(c) ==
    /\ Running
    /\ control[c] = "up"
    /\ worker[c] = "idle"
    /\ logins[c] < MaxLogins
    /\ logins' = [logins EXCEPT ![c] = @ + 1]
    /\ sessions' = sessions + 1
    /\ late' = IF finished THEN late \cup {c} ELSE late
    /\ UNCHANGED <<exitVars, control, worker, registered, killed, active, sftp, closed, was, gauge>>

(* The library starts a command that needs the SFTP connection.            *)
BeginCommand(c) ==
    /\ control[c] = "up"
    /\ c \notin killed
    /\ logins[c] > 0
    /\ Worker(c, "idle", "begun")
    /\ UNCHANGED <<exitVars, control, connVars, sftpVars>>

(* Session.Close holds Session.mu while it closes the SFTP client.         *)
CloseHoldsMu(c) == control[c] = "releasing"

(* Mutant: a closed session dials again.                                   *)
SFTPIgnoresClosed(c) ==
    /\ ~CloseHoldsMu(c)
    /\ \/ Worker(c, "begun", "using") /\ sftp[Sess(c)] # "none"
       \/ Worker(c, "begun", "dialing") /\ sftp[Sess(c)] = "none"
    /\ UNCHANGED <<exitVars, control, connVars, sftpVars>>

(* Session.SFTP takes Session.mu: refused on a closed session, otherwise   *)
(* the client there is, or the connector is called for a new one.          *)
SFTP(c) ==
    /\ ~CloseHoldsMu(c)
    /\ \/ Worker(c, "begun", "idle") /\ closed[Sess(c)]
       \/ Worker(c, "begun", "using") /\ ~closed[Sess(c)] /\ sftp[Sess(c)] # "none"
       \/ Worker(c, "begun", "dialing") /\ ~closed[Sess(c)] /\ sftp[Sess(c)] = "none"
    /\ UNCHANGED <<exitVars, control, connVars, sftpVars>>

(* Mutant: Session.mu is held until the operation returns.                 *)
MuHeldThroughout(c) == worker[c] \in {"dialing", "opening", "using", "discarding"}

(* A command holds Session.mu while the connector runs and while           *)
(* InvalidateSFTP closes the client.                                       *)
MuHeld(c) == worker[c] \in {"dialing", "opening", "discarding"}

(* sshclient.Dial returns, at the latest when its time is over: TCP and    *)
(* the handshake have a deadline, which is lifted when they have succeeded.*)
Dial(c) ==
    /\ Worker(c, "dialing", "opening") \/ Worker(c, "dialing", "idle")
    /\ UNCHANGED <<exitVars, control, connVars, sftpVars>>

(* sftpclient.New returns, if it does: it waits for the server without a   *)
(* deadline.  The connector counts the new client and the session keeps it.*)
OpenSubsystem(c) ==
    /\ \/ /\ Worker(c, "opening", "idle")
          /\ UNCHANGED <<sftp, gauge>>
       \/ /\ Worker(c, "opening", "using")
          /\ sftp' = [sftp EXCEPT ![Sess(c)] = "up"]
          /\ gauge' = gauge + 1
    /\ UNCHANGED <<exitVars, control, connVars, closed, was, late>>

(* The operation succeeds, or fails for a reason of its own.               *)
OperationReturns(c) ==
    /\ Worker(c, "using", "idle")
    /\ sftp[Sess(c)] \in {"up", "none"}
    /\ UNCHANGED <<exitVars, control, connVars, sftpVars>>

(* The operation finds the connection dead.  translateError makes this     *)
(* KindInternal or io.EOF, for which maybeInvalidate does nothing.         *)
OperationFindsDead(c) ==
    /\ Worker(c, "using", "idle")
    /\ sftp[Sess(c)] \in {"dead", "failed"}
    /\ sftp' = [sftp EXCEPT ![Sess(c)] = "failed"]
    /\ UNCHANGED <<exitVars, control, connVars, closed, was, gauge, late>>

(* The operation times out, and maybeInvalidate asks IsConnected under     *)
(* Session.mu ...                                                          *)
OperationTimesOut(c) ==
    /\ ~CloseHoldsMu(c)
    /\ Worker(c, "using", IF sftp[Sess(c)] # "none" THEN "invalidating" ELSE "idle")
    /\ UNCHANGED <<exitVars, control, connVars, sftpVars>>

(* ... then calls InvalidateSFTP, which takes Session.mu again and closes  *)
(* the client, if there still is one, ...                                  *)
InvalidateSFTP(c) ==
    /\ ~CloseHoldsMu(c)
    /\ Worker(c, "invalidating", IF sftp[Sess(c)] = "none" THEN "uncounting" ELSE "discarding")
    /\ UNCHANGED <<exitVars, control, connVars, sftpVars>>

(* ... waits, with Session.mu held, until the server has ended the SFTP    *)
(* channel or the connection is dead, and drops the client, ...            *)
InvalidateReturns(c) ==
    /\ Worker(c, "discarding", "uncounting")
    /\ sftp' = [sftp EXCEPT ![Sess(c)] = "none"]
    /\ UNCHANGED <<exitVars, control, connVars, closed, was, gauge, late>>

(* Mutant: the gauge is not decremented.                                   *)
InvalidateKeepsGauge(c) ==
    /\ Worker(c, "uncounting", "idle")
    /\ UNCHANGED <<exitVars, control, connVars, sftpVars>>

(* ... and decrements the gauge, whatever InvalidateSFTP has found.        *)
InvalidateDone(c) ==
    /\ Worker(c, "uncounting", "idle")
    /\ gauge' = gauge - 1
    /\ UNCHANGED <<exitVars, control, connVars, sftp, closed, was, late>>

(* The SFTP server or the network breaks an SSH connection.                *)
ConnectionLost(x) ==
    /\ Running
    /\ Losses
    /\ sftp[x] = "up"
    /\ sftp' = [sftp EXCEPT ![x] = "dead"]
    /\ UNCHANGED <<exitVars, control, worker, connVars, closed, was, gauge, late>>

-----------------------------------------------------------------------------
(***************************************************************************)
(* The end of a connection: ClientDisconnected.                            *)
(***************************************************************************)

(* The client leaves, or CloseAllConnections has closed its connection;    *)
(* the control loop notices between two commands it runs itself, and at    *)
(* any time under one that has a goroutine of its own.                     *)
ControlEnds(c) ==
    /\ c \in Background \/ worker[c] = "idle"
    /\ Control(c, "up", "ending")
    /\ UNCHANGED <<exitVars, worker, connVars, sftpVars>>

(* Mutant: a connection that was never counted is uncounted.               *)
DisconnectRejectedUncounts(c) ==
    /\ Control(c, "rejected", "gone")
    /\ registered' = registered \ {c}
    /\ active' = active - 1
    /\ UNCHANGED <<exitVars, worker, logins, killed, sessions, sftpVars>>

(* ClientDisconnected of a rejected connection finds no connState.         *)
DisconnectRejected(c) ==
    /\ Control(c, "rejected", "gone")
    /\ registered' = registered \ {c}
    /\ UNCHANGED <<exitVars, worker, logins, killed, active, sessions, sftpVars>>

(* The connection is removed from conns and uncounted.                     *)
Unregister(c) ==
    /\ Control(c, "ending", IF logins[c] > 0 THEN "asked" ELSE "gone")
    /\ registered' = registered \ {c}
    /\ active' = active - 1
    /\ UNCHANGED <<exitVars, worker, logins, killed, sessions, sftpVars>>

(* wasConnected := cs.sess.IsConnected(), once Session.mu is free          *)
AskConnected(c) ==
    /\ ~MuHeld(c)
    /\ Control(c, "asked", "closing")
    /\ was' = [was EXCEPT ![c] = sftp[Sess(c)] # "none"]
    /\ UNCHANGED <<exitVars, worker, connVars, sftp, closed, gauge, late>>

(* cs.sess.Close(), once Session.mu is free, ...                           *)
CloseSession(c) ==
    /\ ~MuHeld(c)
    /\ Control(c, "closing", IF sftp[Sess(c)] = "none" THEN "closed" ELSE "releasing")
    /\ closed' = [closed EXCEPT ![Sess(c)] = TRUE]
    /\ UNCHANGED <<exitVars, worker, connVars, sftp, was, gauge, late>>

(* ... which closes the client with Session.mu held: that takes until the  *)
(* server has ended the SFTP channel or the connection is dead.            *)
CloseReturns(c) ==
    /\ Control(c, "releasing", "closed")
    /\ sftp' = [sftp EXCEPT ![Sess(c)] = "none"]
    /\ UNCHANGED <<exitVars, worker, connVars, closed, was, gauge, late>>

(* Mutant: Done is called only for sessions that were connected.           *)
SessionDoneIfConnected(c) ==
    /\ Control(c, "closed", "gone")
    /\ gauge' = IF was[c] THEN gauge - 1 ELSE gauge
    /\ sessions' = IF was[c] THEN sessions - 1 ELSE sessions
    /\ UNCHANGED <<exitVars, worker, logins, registered, killed, active, sftp, closed, was, late>>

(* The gauge is decremented if wasConnected, and sessions.Done().          *)
SessionDone(c) ==
    /\ Control(c, "closed", "gone")
    /\ gauge' = IF was[c] THEN gauge - 1 ELSE gauge
    /\ sessions' = sessions - 1
    /\ UNCHANGED <<exitVars, worker, logins, registered, killed, active, sftp, closed, was, late>>

-----------------------------------------------------------------------------
(***************************************************************************)
(* run and shutdown.                                                       *)
(***************************************************************************)

Main(from, to) == main = from /\ main' = to

(* A signal, or one of the two servers stops: run calls shutdown.          *)
Signal ==
    /\ Main("serving", "prepare")
    /\ UNCHANGED <<listening, shuttingDown, deadline, finished, drained, control, worker,
                   connVars, sftpVars>>

PrepareShutdown ==
    /\ Main("prepare", "stop")
    /\ shuttingDown' = TRUE
    /\ UNCHANGED <<listening, deadline, finished, drained, control, worker, connVars, sftpVars>>

(* srv.Stop(); then the timer and the goroutine that waits are started.    *)
StopListening ==
    /\ Main("stop", "drain")
    /\ listening' = FALSE
    /\ UNCHANGED <<shuttingDown, deadline, finished, drained, control, worker, connVars, sftpVars>>

Draining == main \in {"drain", "blocked", "force", "wait"}

(* shutdown's select takes a channel that is closed already, any one if    *)
(* both are, and blocks if none is.                                        *)
Select ==
    /\ \/ drained /\ Main("drain", "clean")
       \/ deadline /\ Main("drain", "force")
       \/ ~drained /\ ~deadline /\ Main("drain", "blocked")
    /\ UNCHANGED <<listening, shuttingDown, deadline, finished, drained, control, worker,
                   connVars, sftpVars>>

(* The first channel to be closed wakes the blocked select for its case.   *)
Wake(case) == main' = IF main = "blocked" THEN case ELSE main

DeadlineFires ==
    /\ Draining
    /\ ~deadline
    /\ deadline' = TRUE
    /\ Wake("force")
    /\ UNCHANGED <<listening, shuttingDown, finished, drained, control, worker, connVars, sftpVars>>

(* Mutant: waits for the SFTP connections instead of the sessions.         *)
WaitReturnsForGauge ==
    /\ Draining
    /\ ~finished
    /\ gauge = 0
    /\ finished' = TRUE
    /\ UNCHANGED <<main, listening, shuttingDown, deadline, drained, control, worker,
                   connVars, sftpVars>>

(* WaitForSessions: sessions.Wait() returns in its goroutine.              *)
WaitReturns ==
    /\ Draining
    /\ ~finished
    /\ sessions = 0
    /\ finished' = TRUE
    /\ UNCHANGED <<main, listening, shuttingDown, deadline, drained, control, worker,
                   connVars, sftpVars>>

(* Mutant: WaitForSessions ignores the deadline.                           *)
WaitForSessionsForever ==
    /\ Draining
    /\ ~drained
    /\ finished
    /\ drained' = TRUE
    /\ Wake("clean")
    /\ UNCHANGED <<listening, shuttingDown, deadline, finished, control, worker, connVars, sftpVars>>

(* WaitForSessions returns and drained is closed.                          *)
WaitForSessions ==
    /\ Draining
    /\ ~drained
    /\ finished \/ deadline
    /\ drained' = TRUE
    /\ Wake("clean")
    /\ UNCHANGED <<listening, shuttingDown, deadline, finished, control, worker, connVars, sftpVars>>

CloseAllConnections ==
    /\ Main("force", "wait")
    /\ killed' = registered
    /\ UNCHANGED <<listening, shuttingDown, deadline, finished, drained, control, worker,
                   logins, registered, active, sessions, sftpVars>>

(* After "all sessions drained cleanly", or <-drained; the health server   *)
(* is stopped and the process exits.                                       *)
Exit ==
    /\ Main("clean", "exit") \/ (drained /\ Main("wait", "exit"))
    /\ UNCHANGED <<listening, shuttingDown, deadline, finished, drained, control, worker,
                   connVars, sftpVars>>

-----------------------------------------------------------------------------
Disconnecting(c) ==
    DisconnectRejected(c) \/ Unregister(c) \/ AskConnected(c) \/ CloseSession(c) \/ SessionDone(c)

Connection(c) ==
    \/ Accept(c) \/ LoadShuttingDown(c) \/ CountConnection(c) \/ UncountConnection(c)
    \/ Register(c) \/ AuthUser(c) \/ ControlEnds(c) \/ Disconnecting(c) \/ CloseReturns(c)

Command(c) ==
    \/ BeginCommand(c) \/ SFTP(c) \/ Dial(c) \/ OpenSubsystem(c) \/ OperationReturns(c)
    \/ OperationFindsDead(c) \/ OperationTimesOut(c)
    \/ InvalidateSFTP(c) \/ InvalidateReturns(c) \/ InvalidateDone(c)

Shutdown ==
    \/ PrepareShutdown \/ StopListening \/ Select \/ DeadlineFires
    \/ WaitReturns \/ WaitForSessions \/ CloseAllConnections \/ Exit

Next ==
    \/ \E c \in Conns : Connection(c) \/ Command(c)
    \/ \E x \in AllSessions : ConnectionLost(x)
    \/ Signal
    \/ Shutdown

Spec == Init /\ [][Next]_vars

(* Closing a client whose connection is dead waits for nobody.             *)
ClosesDeadClient(c) ==
    /\ logins[c] > 0
    /\ sftp[Sess(c)] # "up"
    /\ CloseReturns(c) \/ InvalidateReturns(c)

(* main, the timer and the goroutine of WaitForSessions make progress,     *)
(* ClientDisconnected does while Session.mu is free, a dial ends, and      *)
(* closing an SFTP client ends once its connection is dead.  Nothing is    *)
(* assumed of clients, of a live SFTP server or of sftpclient.New.         *)
FairSpec ==
    /\ Spec
    /\ WF_vars(Shutdown)
    /\ \A c \in Conns :
          /\ WF_vars(Disconnecting(c))
          /\ WF_vars(Dial(c))
          /\ WF_vars(ClosesDeadClient(c))

-----------------------------------------------------------------------------
(***************************************************************************)
(* Properties.                                                             *)
(***************************************************************************)

(* The values of the variables.                                            *)
TypeOK ==
    /\ main \in {"serving", "prepare", "stop", "drain", "blocked", "force", "wait",
                 "clean", "exit"}
    /\ {listening, shuttingDown, deadline, finished, drained} \subseteq BOOLEAN
    /\ control \in [Conns -> {"new", "up", "rejected", "gone"} \cup Admitting \cup Ending]
    /\ worker \in [Conns -> {"idle", "begun", "dialing", "opening", "using", "invalidating",
                             "discarding", "uncounting"}]
    /\ logins \in [Conns -> 0..MaxLogins]
    /\ registered \in SUBSET Conns
    /\ killed \in SUBSET Conns
    /\ active \in Nat
    /\ sessions \in Nat
    /\ sftp \in [AllSessions -> {"none", "up", "dead", "failed"}]
    /\ closed \in [AllSessions -> BOOLEAN]
    /\ was \in [Conns -> BOOLEAN]
    /\ gauge \in Int
    /\ late \in SUBSET Conns

Counted  == {c \in Conns : control[c] \in {"over", "counted", "up", "ending"}}
Admitted == {c \in Conns : control[c] \in {"counted", "up", "ending"}}

(* However ClientConnected and ClientDisconnected of many connections      *)
(* interleave, activeConnections counts each connection once, conns holds  *)
(* only connections that are counted, and never more than maxConnections   *)
(* are admitted (gateway.go:155-169, 178-190).                             *)
AdmissionExact ==
    /\ active = Cardinality(Counted)
    /\ registered = {c \in Conns : control[c] \in {"up", "ending"}}
    /\ Cardinality(Admitted) <= MaxConnections

(* Connections that have a session to be waited for.                       *)
LoggedIn == {c \in Conns : logins[c] > 0 /\ control[c] # "gone"}

(* sessions.Done balances sessions.Add: the WaitGroup counts the           *)
(* connections that have a session and are not gone (gateway.go:204, 240). *)
SessionsBalanced == sessions = Cardinality(LoggedIn)

(* A connection that is gone has left no SFTP client behind, even if a     *)
(* command of it was dialling while ClientDisconnected ran                 *)
(* (session.go:97-117, 146-164).                                           *)
GoneHoldsNoClient ==
    \A c \in Conns :
        control[c] = "gone" => \A k \in 1..MaxLogins : sftp[<<c, k>>] = "none"

(* Connections whose ClientDisconnected may have raced a command.          *)
Raced == {c \in Background : control[c] \in {"closing", "releasing", "closed", "gone"}}

(* sftp_connections_active is the number of SFTP clients that sessions     *)
(* hold, plus the ones maybeInvalidate and ClientDisconnected have dropped *)
(* and have yet to subtract.  Each connection whose last command ran       *)
(* beside its control loop may leave it wrong by one, for good, and by no  *)
(* more; without such connections it is exact (clientdriver.go:71-82,      *)
(* gateway.go:193-201, metrics.go:97).                                     *)
GaugeDrift ==
    LET held     == Cardinality({x \in AllSessions : sftp[x] # "none"})
        leaving  == Cardinality({c \in Conns : control[c] = "closed" /\ was[c]})
        dropped  == Cardinality({c \in Conns : worker[c] = "uncounting"})
        drift    == gauge - held - leaving - dropped
    IN  drift \in -Cardinality(Raced)..Cardinality(Raced)

(* When sessions.Wait() has returned, every session begun until then is    *)
(* closed and holds no SFTP client, although AuthUser does not look at     *)
(* shuttingDown: only logins that come after it are cut off by the exit    *)
(* (gateway.go:240, 293, main.go:155).                                     *)
DrainComplete ==
    finished =>
        \A c \in Conns \ late : logins[c] > 0 =>
            control[c] = "gone" /\ \A k \in 1..MaxLogins : sftp[<<c, k>>] = "none"

(* When a command has failed because its connection is dead, the session   *)
(* does not keep that client (clientdriver.go:66-82).                      *)
NoFailedClientKept ==
    \A c \in Conns : worker[c] = "idle" /\ logins[c] > 0 => sftp[Sess(c)] # "failed"

(* Once begun, shutdown ends: clients that stay, commands that hang and    *)
(* sessions nobody closes cannot hold it up beyond the deadline            *)
(* (main.go:145-163).                                                      *)
ShutdownTerminates == main # "serving" ~> main = "exit"

(* A live server keeps Session.mu from everyone else: it does not open the *)
(* SFTP subsystem, or does not end the channel of a client being closed.   *)
ServerHoldsMu(c) ==
    \/ worker[c] = "opening"
    \/ (worker[c] = "discarding" \/ CloseHoldsMu(c)) /\ sftp[Sess(c)] = "up"

(* ClientDisconnected completes although it needs Session.mu, under which  *)
(* commands dial and clients are closed, unless a live server that stopped *)
(* answering keeps it for good (session.go:97-133, 146-164,                *)
(* client.go:52-70, docs/security/security-model.md:220-224).              *)
DisconnectCompletes ==
    \A c \in Conns :
        control[c] = "ending" ~> \/ control[c] = "gone"
                                \/ main = "exit"
                                \/ []ServerHoldsMu(c)
=============================================================================
