-------------------------------- MODULE Process --------------------------------
(***************************************************************************)
(* The process: cmd/ftp2sftp's run and shutdown, the health server of      *)
(* internal/health, and the commands an operator runs beside the gateway   *)
(* ("-healthcheck", "config check-connectivity", "config validate").       *)
(* FTP sessions are module Gateway's; here they only take time to drain.   *)
(*                                                                         *)
(* A handler is a request to the health server, a command a process of its *)
(* own; both are jobs that may walk the list of users and probe each one's *)
(* SFTP server (readinessCheck, probeUserSFTP, sshclient.Dial).            *)
(***************************************************************************)
EXTENDS Config, FiniteSets, SequencesExt

CONSTANTS Handlers,          \* requests the health server serves at a time
          Commands,          \* commands an operator runs at a time
          Files,             \* what the configuration file may say
          ReadinessTimeout,  \* readinessTimeout of health.NewServer
          DialTimeout,       \* ConnectTimeout of a probe
          ShutdownGrace      \* the timeout run gives healthSrv.Shutdown

ASSUME FilesAssumption == Files \subseteq ConfigFile

ASSUME TimesAssumption ==
    {ReadinessTimeout, DialTimeout, ShutdownGrace} \subseteq Nat \ {0}

VARIABLES main,     \* where run() is
          cfg,      \* the configuration, until the gateway is built from it
          gateway,  \* what the health server keeps of it
          alive,    \* health.Server.alive
          ftp,      \* the FTP accept loop
          health,   \* the health server's listener
          grace,    \* what is left of the health server's shutdown timeout
          job       \* the handlers and the commands

servers == <<alive, ftp, health, grace>>
vars == <<main, cfg, gateway, servers, job>>

Jobs == Handlers \cup Commands
Kinds == {"readyz", "healthz", "connectivity", "healthcheck", "validate"}
Names(c) == [i \in DOMAIN c.users |-> c.users[i].username]

(* What Load may return: a configuration with its defaults that Validate   *)
(* finds no problem in.  Load also fails if the file cannot be read.       *)
Loaded == {c \in {applyDefaults(f) : f \in Files} : Validate(c) = {}}

NoConfig == <<>>
NoGateway == [required |-> FALSE, users |-> <<>>]

(* asked are the users to probe, at the one being probed, good those whose *)
(* probe succeeded; answer is an HTTP status or an exit code; age is how   *)
(* long ago the readiness check began, counted to just past its timeout,   *)
(* timer what is left of a dial step, spent the time spent dialling.       *)
Idle == [kind |-> "readyz", step |-> "idle", asked |-> <<>>, at |-> 0, good |-> {},
         failed |-> FALSE, socket |-> FALSE, answer |-> -1, age |-> 0, timer |-> 0, spent |-> 0]

Begun(kind, asked) == [Idle EXCEPT !.kind = kind, !.step = "next", !.asked = asked, !.at = 1]
Answered(j, answer) == [j EXCEPT !.step = "done", !.answer = answer]

Dialling(j) == j.step \in {"connect", "handshake"}
Serving(h) == job[h].step \notin {"idle", "done"}

(* The longest a readiness check may dial: it starts no probe once its     *)
(* timeout has passed, and a probe connects and shakes hands within one    *)
(* dial timeout each.                                                      *)
DialBound == ReadinessTimeout - 1 + 2 * DialTimeout

Init ==
    /\ main = "start" /\ cfg = NoConfig /\ gateway = NoGateway
    /\ alive = FALSE /\ ftp = "off" /\ health = "off" /\ grace = ShutdownGrace
    /\ job = [j \in Jobs |-> Idle]

-----------------------------------------------------------------------------
(***************************************************************************)
(* run.                                                                    *)
(***************************************************************************)

Main(from, to) == main = from /\ main' = to

(* The end of the process takes its goroutines and sockets with it.        *)
Exit ==
    /\ main' = "exit"
    /\ cfg' = NoConfig
    /\ alive' = FALSE /\ ftp' = "off" /\ health' = "off"
    /\ job' = [j \in Jobs |-> IF j \in Handlers THEN Idle ELSE job[j]]
    /\ UNCHANGED <<gateway, grace>>

Load ==
    /\ Main("start", "loaded")
    /\ cfg' \in Loaded
    /\ UNCHANGED <<gateway, servers, job>>

(* The file is missing, is no YAML, or Validate finds problems.            *)
LoadFails == main = "start" /\ Exit

(* ftpserver.New and health.NewServer, then srv.Listen.                    *)
Listen ==
    /\ Main("loaded", "bound")
    /\ gateway' = [required |-> cfg.readinessRequiresSftp, users |-> Names(cfg)]
    /\ cfg' = NoConfig
    /\ ftp' = "serving" /\ health' = "starting"
    /\ UNCHANGED <<alive, grace, job>>

ListenFails == main = "loaded" /\ Exit

SetAlive ==
    /\ Main("bound", "serving")
    /\ alive' = TRUE
    /\ UNCHANGED <<cfg, gateway, ftp, health, grace, job>>

(* Mutant: nobody reads ftpServeErr.                                       *)
StopOnIgnoresFTP == main = "serving" /\ health = "failed" /\ main' = "lower" /\ alive' = alive

(* run's select on the two servers' errors.  For the FTP server it lowers  *)
(* alive itself.                                                           *)
StopOn ==
    /\ Main("serving", "lower")
    /\ \/ ftp = "failed" /\ alive' = FALSE
       \/ health = "failed" /\ alive' = alive

ServerStopped == StopOn /\ UNCHANGED <<cfg, gateway, ftp, health, grace, job>>

(* SIGTERM or SIGINT.  Until signal.Notify it kills the process.           *)
Signal == Main("serving", "lower") /\ UNCHANGED <<cfg, gateway, servers, job>>
SignalKills == main \in {"start", "loaded", "bound"} /\ Exit

(* shutdown: SetAlive(false), PrepareShutdown and srv.Stop.                *)
StopServing ==
    /\ Main("lower", "drain")
    /\ alive' = FALSE
    /\ ftp' = "stopped"
    /\ UNCHANGED <<cfg, gateway, health, grace, job>>

(* WaitForSessions has returned; healthSrv.Shutdown closes the listener.   *)
Drained ==
    /\ Main("drain", "shutdown")
    /\ health' = "closed"
    /\ UNCHANGED <<cfg, gateway, alive, ftp, grace, job>>

(* Mutant: Shutdown is given context.Background().                         *)
ShutdownReturnsOnlyIdle == \A h \in Handlers : ~Serving(h)

(* Shutdown returns when no request is being served, or after its timeout. *)
ShutdownReturns == (\A h \in Handlers : ~Serving(h)) \/ grace = 0

ShutdownComplete == main = "shutdown" /\ ShutdownReturns /\ Exit

-----------------------------------------------------------------------------
(***************************************************************************)
(* The two servers, external to this code.                                 *)
(***************************************************************************)

(* ListenAndServe binds its address, which Validate has not looked at.     *)
HealthListens ==
    /\ health = "starting"
    /\ health' \in {"serving", "failed"}
    /\ UNCHANGED <<main, cfg, gateway, alive, ftp, grace, job>>

ServerFails ==
    /\ \/ ftp = "serving" /\ ftp' = "failed" /\ UNCHANGED health
       \/ health = "serving" /\ health' = "failed" /\ UNCHANGED ftp
    /\ UNCHANGED <<main, cfg, gateway, alive, grace, job>>

-----------------------------------------------------------------------------
(***************************************************************************)
(* The handlers of the health server.                                      *)
(***************************************************************************)

Job(j, record) == job' = [job EXCEPT ![j] = record] /\ UNCHANGED <<main, cfg, gateway, servers>>

handleHealthz(h) ==
    /\ health = "serving" /\ job[h] = Idle
    /\ Job(h, Answered(Begun("healthz", <<>>), IF alive THEN 200 ELSE 503))

handleReadyz(h) ==
    /\ health = "serving" /\ job[h] = Idle
    /\ LET check == Begun("readyz", gateway.users)
       IN Job(h, IF ~alive THEN Answered(check, 503)
                 ELSE IF gateway.required THEN check ELSE Answered(check, 200))

-----------------------------------------------------------------------------
(***************************************************************************)
(* The commands.                                                           *)
(***************************************************************************)

(* Each starts with Load; a check-connectivity may be asked for one user,  *)
(* and returns 2 if there is none of that name.                            *)
CommandLoadFails(k) ==
    /\ job[k] = Idle
    /\ \E kind \in {"connectivity", "healthcheck", "validate"} :
           Job(k, Answered([Begun(kind, <<>>) EXCEPT !.failed = TRUE], 1))

cmdConfigValidate(k) == job[k] = Idle /\ Loaded # {} /\ Job(k, Answered(Begun("validate", <<>>), 0))

cmdConfigCheckConnectivity(k) ==
    /\ job[k] = Idle
    /\ \E names \in {Names(c) : c \in Loaded} :
          \/ Job(k, Begun("connectivity", names))
          \/ \E name \in ToSet(names) : Job(k, Begun("connectivity", <<name>>))
          \/ Job(k, Answered(Begun("connectivity", <<>>), 2))

(* The request to /healthz is answered, refused, or times out.             *)
runHealthcheck(k) ==
    /\ job[k] = Idle /\ Loaded # {}
    /\ Job(k, Begun("healthcheck", <<>>))

HealthcheckReturns(k) ==
    /\ job[k].kind = "healthcheck" /\ job[k].step = "next"
    /\ \/ health = "serving" /\ alive /\ Job(k, Answered(job[k], 0))
       \/ Job(k, Answered([job[k] EXCEPT !.failed = TRUE], 1))

-----------------------------------------------------------------------------
(***************************************************************************)
(* readinessCheck and check-connectivity walk the users.                   *)
(***************************************************************************)

Walks(j) == job[j].kind \in {"readyz", "connectivity"} /\ job[j].step = "next"
AtEnd(j) == job[j].at > Len(job[j].asked)

(* Mutant: the context is not asked between two users.                     *)
ContextAliveAlways(j) == TRUE

(* ctx.Err() == nil; a command has no context.                             *)
ContextAlive(j) == job[j].kind = "readyz" => job[j].age < ReadinessTimeout

NextUser(j) ==
    /\ Walks(j) /\ ~AtEnd(j) /\ ContextAlive(j)
    /\ Job(j, [job[j] EXCEPT !.step = "files"])

(* The readiness timeout has passed, or the client has gone.               *)
ContextDone(j) ==
    /\ Walks(j) /\ ~AtEnd(j) /\ job[j].kind = "readyz"
    /\ Job(j, Answered([job[j] EXCEPT !.failed = TRUE], 503))

WalkEnds(j) ==
    /\ Walks(j) /\ AtEnd(j)
    /\ Job(j, Answered(job[j], IF job[j].kind = "readyz" THEN 200
                               ELSE IF job[j].failed THEN 1 ELSE 0))

(* Mutant: a later success hides an earlier failure.                       *)
SucceededClears(j) ==
    [j EXCEPT !.good = @ \cup {j.asked[j.at]}, !.at = @ + 1, !.step = "next", !.failed = FALSE]

(* A probe has returned nil ...                                            *)
Succeeded(j) ==
    [j EXCEPT !.good = @ \cup {j.asked[j.at]}, !.at = @ + 1, !.step = "next"]

(* ... or an error, which ends a readiness check but not the command.      *)
Failed(j) ==
    IF j.kind = "readyz" THEN Answered([j EXCEPT !.failed = TRUE], 503)
    ELSE [j EXCEPT !.failed = TRUE, !.at = @ + 1, !.step = "next"]

-----------------------------------------------------------------------------
(***************************************************************************)
(* probeUserSFTP: Dial, New, Ping, Close.                                  *)
(***************************************************************************)

(* knownhosts.New, and buildAuthMethods with the files it reads.  What     *)
(* Validate has seen of them may have changed, the passphrase file it has  *)
(* not looked at.                                                          *)
DialFiles(j) ==
    /\ job[j].step = "files"
    /\ \/ Job(j, Failed(job[j]))
       \/ Job(j, [job[j] EXCEPT !.step = "connect", !.timer = DialTimeout])

DialConnect(j) ==
    /\ job[j].step = "connect"
    /\ \/ Job(j, Failed([job[j] EXCEPT !.timer = 0]))
       \/ Job(j, [job[j] EXCEPT !.step = "handshake", !.timer = DialTimeout, !.socket = TRUE])

(* Mutant: the deadline set for the handshake stays on the connection.     *)
DialHandshakeKeepsDeadline(j) ==
    /\ job[j].step = "handshake"
    /\ \/ Job(j, Failed([job[j] EXCEPT !.timer = 0, !.socket = FALSE]))
       \/ Job(j, [job[j] EXCEPT !.step = "open"])

(* The deadline is lifted when the handshake has succeeded.                *)
DialHandshake(j) ==
    /\ job[j].step = "handshake"
    /\ \/ Job(j, Failed([job[j] EXCEPT !.timer = 0, !.socket = FALSE]))
       \/ Job(j, [job[j] EXCEPT !.timer = 0, !.step = "open"])

(* Mutant: New does not close the SSH connection it could not use.         *)
OpenSubsystemLeaks(j) ==
    /\ job[j].step = "open"
    /\ \/ Job(j, Failed(job[j]))
       \/ Job(j, [job[j] EXCEPT !.step = "ping"])

(* sftpclient.New, which has no deadline.                                  *)
OpenSubsystem(j) ==
    /\ job[j].step = "open"
    /\ \/ Job(j, Failed([job[j] EXCEPT !.socket = FALSE]))
       \/ Job(j, [job[j] EXCEPT !.step = "ping"])

(* Mutant: probeUserSFTP returns the error of Close.                       *)
PingIgnored(j) ==
    /\ job[j].step = "ping"
    /\ LET closed == [job[j] EXCEPT !.socket = FALSE]
       IN \/ Job(j, [Succeeded(closed) EXCEPT !.good = job[j].good])
          \/ Job(j, Succeeded(closed))

(* Ping, which has none either, and Close whatever it returned.            *)
Ping(j) ==
    /\ job[j].step = "ping"
    /\ LET closed == [job[j] EXCEPT !.socket = FALSE]
       IN Job(j, Failed(closed)) \/ Job(j, Succeeded(closed))

(* The client has its answer, or the command its exit code.                *)
Finish(j) == job[j].step = "done" /\ Job(j, Idle)

-----------------------------------------------------------------------------
Older(j) ==
    [j EXCEPT !.age = IF j.kind = "readyz" /\ j.step \notin {"idle", "done"} /\ @ <= ReadinessTimeout
                      THEN @ + 1 ELSE @,
              !.timer = IF Dialling(j) THEN @ - 1 ELSE @,
              !.spent = IF j.kind = "readyz" /\ Dialling(j) /\ @ <= DialBound THEN @ + 1 ELSE @]

(* Time passes while a readiness check waits for a server, not between two *)
(* waits; a dial step whose timeout has come has ended.                    *)
Tick ==
    /\ \A j \in Jobs : job[j].kind = "readyz" => job[j].step \notin {"next", "files"}
    /\ \A j \in Jobs : Dialling(job[j]) => job[j].timer > 0
    /\ job' = [j \in Jobs |-> Older(job[j])]
    /\ grace' = IF main = "shutdown" /\ grace > 0 THEN grace - 1 ELSE grace
    /\ <<job, grace>>' # <<job, grace>>
    /\ UNCHANGED <<main, cfg, gateway, alive, ftp, health>>

Run ==
    \/ Load \/ LoadFails \/ Listen \/ ListenFails \/ SetAlive \/ ServerStopped \/ Signal
    \/ SignalKills \/ StopServing \/ Drained \/ ShutdownComplete

Handler(h) == handleHealthz(h) \/ handleReadyz(h)

Command(k) ==
    \/ CommandLoadFails(k) \/ cmdConfigValidate(k) \/ cmdConfigCheckConnectivity(k)
    \/ runHealthcheck(k) \/ HealthcheckReturns(k)

Walk(j) == NextUser(j) \/ ContextDone(j) \/ WalkEnds(j)
Probe(j) == DialFiles(j) \/ DialConnect(j) \/ DialHandshake(j) \/ OpenSubsystem(j) \/ Ping(j)

Next ==
    \/ Run \/ HealthListens \/ ServerFails \/ Tick
    \/ \E h \in Handlers : Handler(h)
    \/ \E k \in Commands : Command(k)
    \/ \E j \in Jobs : Walk(j) \/ Probe(j) \/ Finish(j)

Spec == Init /\ [][Next]_vars

(* run goes on, shutdown's drain ends (module Gateway's                    *)
(* ShutdownTerminates), the clock runs, a job that waits for nobody takes  *)
(* its next step and a dial returns by its timeout.                        *)
(* Nothing is assumed of OpenSubsystem and Ping, which may wait for ever,  *)
(* of signals, of requests, or of the two servers' failures.               *)
Fairness ==
    /\ WF_vars(Load \/ LoadFails) /\ WF_vars(Listen \/ ListenFails) /\ WF_vars(SetAlive)
    /\ WF_vars(ServerStopped) /\ WF_vars(StopServing) /\ WF_vars(Drained)
    /\ WF_vars(ShutdownComplete)
    /\ SF_vars(Tick)
    /\ \A j \in Jobs : /\ WF_vars(Walk(j) \/ DialFiles(j))
                       /\ WF_vars(DialConnect(j) \/ DialHandshake(j))

FairSpec == Spec /\ Fairness

-----------------------------------------------------------------------------
(* Every variable keeps to its values; only a dial step has a timer.       *)
TypeOK ==
    /\ main \in {"start", "loaded", "bound", "serving", "lower", "drain", "shutdown", "exit"}
    /\ main = "loaded" <=> cfg # NoConfig
    /\ gateway.required \in BOOLEAN
    /\ alive \in BOOLEAN
    /\ ftp \in {"off", "serving", "failed", "stopped"}
    /\ health \in {"off", "starting", "serving", "failed", "closed"}
    /\ grace \in 0..ShutdownGrace
    /\ \A j \in Jobs :
          /\ job[j].kind \in Kinds
          /\ job[j].step \in {"idle", "next", "files", "connect", "handshake", "open", "ping", "done"}
          /\ job[j].good \subseteq ToSet(job[j].asked)
          /\ job[j].timer \in 0..(IF Dialling(job[j]) THEN DialTimeout ELSE 0)
          /\ job[j].age \in 0..(ReadinessTimeout + 1)
          /\ job[j].answer \in {-1, 0, 1, 2, 200, 503}

(* What Load lets through has at least one connection and one transfer,    *)
(* ports that exist and as many passive ones as connections, and for each  *)
(* user, who has a name of his own, one and only one way to log in at the  *)
(* SFTP server and a virtual root that stays where it is written.  Of the  *)
(* files that Dial reads for him one alone can be missing: Validate never  *)
(* looks at the passphrase file of his key (load.go:14-32,                 *)
(* validate.go:15-200, dial.go:46-58, 94-145).                             *)
AcceptedIsUsable ==
    main = "loaded" =>
        /\ cfg.maxConnections >= 1
        /\ {cfg.controlPort, cfg.passivePortStart, cfg.passivePortEnd} \subseteq Ports
        /\ Cardinality(cfg.passivePortStart..cfg.passivePortEnd) >= cfg.maxConnections
        /\ cfg.temporarySuffix # ""
        /\ Cardinality(ToSet(Names(cfg))) = Len(cfg.users)
        /\ cfg.users # <<>>
        /\ \A u \in ToSet(cfg.users) :
              /\ u.username # "" /\ u.maxConcurrentTransfers >= 1
              /\ AuthMethod(u) # "none" /\ (u.key = "" \/ u.password = "")
              /\ Unreadable(u) \subseteq {"passphrase"}
              /\ u.virtualRoot = "abs"

(* A probe closes what it opened on every path out of it: a job that is    *)
(* not inside a probe holds no socket (main.go:205-229, dial.go:75-87,     *)
(* client.go:36-47).                                                       *)
NoProbeLeak ==
    \A j \in Jobs : job[j].socket => job[j].step \in {"handshake", "open", "ping"}

(* /readyz answers 200 under readinessRequiresSftp only if the probe of    *)
(* every configured user succeeded for this request (health/server.go:     *)
(* 102-125, main.go:183-197).                                              *)
ReadyTruthful ==
    \A h \in Handlers : job[h].kind = "readyz" /\ job[h].answer = 200 /\ gateway.required
                            => job[h].good = ToSet(gateway.users)

(* What the deadlines of a readiness check come to: it may be dialling     *)
(* past its timeout, but not for longer than two dial timeouts, however    *)
(* many users there are, because the context is asked between users        *)
(* (main.go:183-197, dial.go:66-87).  It says nothing of the time in       *)
(* OpenSubsystem and Ping, which have no deadline: see ReadyzInTime.       *)
ReadyzDialBounded == \A h \in Handlers : job[h].spent <= DialBound

(* Violated.  What health/server.go:17-19 says of the readiness timeout: a *)
(* check never runs for longer, whatever it does.  The context ends, but   *)
(* handleReadyz waits for the check, and a probe never looks at it         *)
(* (health/server.go:111-114, main.go:183-229).                            *)
ReadyzInTime ==
    \A h \in Handlers :
        job[h].kind = "readyz" /\ Serving(h) => job[h].age <= ReadinessTimeout

(* check-connectivity exits with 0 only if the probe of every user it was  *)
(* asked about succeeded, and with 1 only if one of them did not or the    *)
(* configuration is bad (cli.go:177-209).                                  *)
ConnectivityTruthful ==
    \A k \in Commands :
        LET j == job[k]
        IN  j.kind = "connectivity" =>
                /\ j.answer = 0 => j.good = ToSet(j.asked) /\ j.asked # <<>>
                /\ j.answer = 1 => j.asked = <<>> \/ j.good # ToSet(j.asked)

(* Once shutdown has begun the process exits, though a handler of the      *)
(* health server may be waiting for an SFTP server that never answers      *)
(* (main.go:128-175).                                                      *)
ProcessExits == main = "lower" ~> main = "exit"

(* If the FTP accept loop or the health server ends by itself, alive is    *)
(* lowered for good, also when it ends before run has raised it            *)
(* (main.go:97-118).                                                       *)
FailureNoticed == []("failed" \in {ftp, health} => <>[](~alive))
=============================================================================
