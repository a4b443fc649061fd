----------------------------- MODULE ProcessProofs -----------------------------
(***************************************************************************)
(* What holds of Process for every number of handlers, commands and users, *)
(* every set of configuration files and all timeouts.                      *)
(***************************************************************************)
EXTENDS Process, FiniteSetTheorems, TLAPS

Steps == {"idle", "next", "files", "connect", "handshake", "open", "ping", "done"}
Probing == {"files", "connect", "handshake", "open", "ping"}

Answers == {-1, 0, 1, 2, 200, 503}

(* The fields of a job and their values.                                   *)
IsJob(j) ==
    /\ DOMAIN j = {"kind", "step", "asked", "at", "good", "failed", "socket", "answer", "age",
                   "timer", "spent"}
    /\ j.kind \in Kinds /\ j.step \in Steps /\ j.asked \in Seq(STRING) /\ j.at \in Nat
    /\ j.good \in SUBSET STRING /\ j.failed \in BOOLEAN /\ j.socket \in BOOLEAN
    /\ j.answer \in Answers /\ j.age \in 0..(ReadinessTimeout + 1)
    /\ j.timer \in Nat /\ j.spent \in Nat

(* How far a job has walked the users it was asked about: those it has     *)
(* passed are good unless it has failed, and one is not if it has.  The    *)
(* command goes on after a failure, and relies on the names being distinct.*)
WalkOK(j) ==
    /\ j.step # "idle" => j.at \in 1..(Len(j.asked) + 1)
    /\ j.step \in Probing => j.at <= Len(j.asked) /\ j.kind \in {"readyz", "connectivity"}
    /\ \A x \in j.good : \E i \in DOMAIN j.asked : i < j.at /\ j.asked[i] = x
    /\ ~j.failed => \A i \in DOMAIN j.asked : i < j.at => j.asked[i] \in j.good
    /\ j.kind = "connectivity" =>
          /\ \A i, k \in DOMAIN j.asked : j.asked[i] = j.asked[k] => i = k
          /\ j.failed /\ j.asked # <<>> =>
                \E i \in DOMAIN j.asked : i < j.at /\ j.asked[i] \notin j.good
          /\ j.step \notin {"idle", "done"} => j.asked # <<>>

(* What a job answers, and what it has found until then, in a process      *)
(* whose health server knows g of the configuration.                       *)
AnswerOK(j, g) ==
    /\ j.answer # -1 => j.step = "done"
    /\ j.kind = "readyz" /\ j.step \notin {"idle", "done"} => ~j.failed /\ j.asked = g.users
    /\ j.kind = "readyz" /\ j.answer = 200 /\ g.required => j.good = ToSet(g.users)
    /\ j.kind = "connectivity" =>
          /\ j.answer = 0 => j.good = ToSet(j.asked) /\ j.asked # <<>>
          /\ j.answer = 1 => j.asked = <<>> \/ j.good # ToSet(j.asked)

(* The time a readiness check has spent dialling, and what is left of its  *)
(* dial, by the step it is at.                                             *)
TimeOK(j) ==
    /\ j.timer <= (IF Dialling(j) THEN DialTimeout ELSE 0)
    /\ j.kind # "readyz" => j.spent = 0
    /\ j.step # "done" /\ j.age < ReadinessTimeout => j.spent <= j.age
    /\ j.step = "files" => j.spent <= ReadinessTimeout - 1
    /\ j.step = "connect" => j.spent + j.timer <= ReadinessTimeout - 1 + DialTimeout
    /\ j.step = "handshake" => j.spent + j.timer <= DialBound
    /\ j.spent <= DialBound

SocketOK(j) == j.socket => j.step \in {"handshake", "open", "ping"}

JobOK(j, g) == IsJob(j) /\ WalkOK(j) /\ AnswerOK(j, g) /\ TimeOK(j) /\ SocketOK(j)

(* The configuration is there only while run holds one it has accepted,    *)
(* and a readiness check runs only in a handler of a server that is up.    *)
RunOK ==
    /\ main \in {"start", "loaded", "bound", "serving", "lower", "drain", "shutdown", "exit"}
    /\ IF main = "loaded" THEN cfg \in Loaded ELSE cfg = NoConfig
    /\ gateway \in [required : BOOLEAN, users : Seq(STRING)]
    /\ alive \in BOOLEAN
    /\ ftp \in {"off", "serving", "failed", "stopped"}
    /\ health \in {"off", "starting", "serving", "failed", "closed"}
    /\ grace \in 0..ShutdownGrace
    /\ main \in {"start", "loaded", "exit"} => health = "off"

ReadyzRunning(j) == job[j].kind = "readyz" /\ job[j].step # "idle"

ReadyzOK ==
    \A j \in Jobs : ReadyzRunning(j) => j \in Handlers /\ main \notin {"start", "loaded", "exit"}

ProcessInv ==
    /\ RunOK
    /\ ReadyzOK
    /\ DOMAIN job = Jobs
    /\ \A j \in Jobs : JobOK(job[j], gateway)

-----------------------------------------------------------------------------
(* What Load returns.                                                      *)

(* A port is a positive number.                                            *)
LEMMA PortPositive ==
    ASSUME NEW p \in Ports
    PROVE  p \in Int /\ p > 0
BY SMT DEF Ports

(* Users as applyDefaults leaves them.                                     *)
DefaultedUser == {UserDefaults(u) : u \in UserConfig}

(* Of a user applyDefaults changes only what has a default.                *)
LEMMA UserDefaultsFields ==
    ASSUME NEW u \in DefaultedUser
    PROVE  u.username \in STRING /\ u.maxConcurrentTransfers \in Int
<1>1. PICK v \in UserConfig : u = UserDefaults(v)
  BY DEF DefaultedUser
<1>2. u.username = v.username /\ u.maxConcurrentTransfers = Default(v.maxConcurrentTransfers, 0, 4)
  BY <1>1, SMT DEF UserDefaults, UserConfig
<1>3. v.username \in STRING /\ v.maxConcurrentTransfers \in Int
  BY SMT DEF UserConfig
<1> QED BY <1>2, <1>3, SMT DEF Default

(* So it is with the rest of the file.                                     *)
LEMMA DefaultsFields ==
    ASSUME NEW f \in ConfigFile
    PROVE  LET c == applyDefaults(f)
           IN  /\ {c.controlPort, c.passivePortStart, c.passivePortEnd, c.maxConnections} \subseteq Int
               /\ c.readinessRequiresSftp \in BOOLEAN
               /\ c.users \in Seq(DefaultedUser)
               /\ c # NoConfig
<1> DEFINE c == applyDefaults(f)
<1>1. /\ c.controlPort = f.controlPort /\ c.passivePortStart = f.passivePortStart
      /\ c.passivePortEnd = f.passivePortEnd /\ c.maxConnections = f.maxConnections
      /\ c.readinessRequiresSftp = f.readinessRequiresSftp
  BY SMT DEF applyDefaults, ConfigFile
<1>2. /\ f.controlPort \in Int /\ f.passivePortStart \in Int /\ f.passivePortEnd \in Int
      /\ f.maxConnections \in Int /\ f.readinessRequiresSftp \in BOOLEAN /\ f.users \in Seq(UserConfig)
  BY SMT DEF ConfigFile
<1>3. c.users = [i \in DOMAIN f.users |-> UserDefaults(f.users[i])]
  BY SMT DEF applyDefaults, ConfigFile
<1>4. c.users \in Seq(DefaultedUser)
  BY <1>2, <1>3 DEF DefaultedUser
<1>5. c # NoConfig
  <2>1. "users" \in DOMAIN c
    <3> DEFINE idle == Default(f.idleTimeout, 0, 300)
               data == Default(f.dataConnectionTimeout, 0, 30)
               shutdown == Default(f.shutdownTimeout, 0, 15)
               buffer == Default(f.bufferSize, 0, 65536)
               suffix == Default(f.temporarySuffix, "", ".part")
               level == Default(f.logLevel, "", "info")
               format == Default(f.logFormat, "", "json")
               address == Default(f.healthAddress, "", ":8080")
               users == [i \in DOMAIN f.users |-> UserDefaults(f.users[i])]
    <3>1. c = [f EXCEPT !.idleTimeout = idle, !.dataConnectionTimeout = data,
                        !.shutdownTimeout = shutdown, !.bufferSize = buffer,
                        !.temporarySuffix = suffix, !.logLevel = level, !.logFormat = format,
                        !.healthAddress = address, !.users = users]
      BY SMT DEF applyDefaults
    <3> HIDE DEF c, idle, data, shutdown, buffer, suffix, level, format, address, users
    <3>2. DOMAIN c = DOMAIN f
      BY <3>1, Zenon
    <3>3. "users" \in DOMAIN f
      BY SMT DEF ConfigFile
    <3> QED BY <3>2, <3>3, Zenon
  <2>2. DOMAIN NoConfig = {}
    BY SMT DEF NoConfig
  <2> HIDE DEF c
  <2> QED BY <2>1, <2>2, Zenon
<1> QED BY <1>1, <1>2, <1>4, <1>5

(* A configuration that Load returns is one that Validate has accepted.    *)
LEMMA LoadedFields ==
    ASSUME NEW c \in Loaded
    PROVE  /\ {c.controlPort, c.passivePortStart, c.passivePortEnd, c.maxConnections} \subseteq Int
           /\ c.readinessRequiresSftp \in BOOLEAN
           /\ c.users \in Seq(DefaultedUser)
           /\ c # NoConfig
           /\ Validate(c) = {}
BY DefaultsFields, FilesAssumption DEF Loaded

(* What it means that the server's part has no problem.                    *)
LEMMA ServerValid ==
    ASSUME NEW c \in Loaded, validateServer(c) = {}
    PROVE  /\ {c.controlPort, c.passivePortStart, c.passivePortEnd} \subseteq Ports
           /\ c.maxConnections >= 1
           /\ c.passivePortEnd - c.passivePortStart + 1 >= c.maxConnections
           /\ c.passivePortEnd > c.passivePortStart
<1>1. /\ c.controlPort \in Int /\ c.passivePortStart \in Int /\ c.passivePortEnd \in Int
      /\ c.maxConnections \in Int
  BY LoadedFields
<1>2. /\ c.controlPort \in Ports /\ c.passivePortStart \in Ports /\ c.passivePortEnd \in Ports
      /\ ~(c.maxConnections < 1)
  BY DEF validateServer, If
<1>3. ~(c.passivePortStart > 0 /\ c.passivePortEnd > 0 /\
         (c.passivePortEnd <= c.passivePortStart
          \/ c.passivePortEnd - c.passivePortStart + 1 < c.maxConnections))
  BY DEF validateServer, If
<1>4. c.passivePortStart > 0 /\ c.passivePortEnd > 0
  BY <1>2, PortPositive
<1>5. /\ c.maxConnections >= 1 /\ c.passivePortEnd > c.passivePortStart
      /\ c.passivePortEnd - c.passivePortStart + 1 >= c.maxConnections
  BY <1>1, <1>2, <1>3, <1>4, SMT
<1> QED BY <1>2, <1>5, Zenon

(* What it means that a user has no problem.                               *)
LEMMA UserValid ==
    ASSUME NEW u \in DefaultedUser, validateUser(u) = {}
    PROVE  /\ u.username # "" /\ u.maxConcurrentTransfers >= 1
           /\ AuthMethod(u) # "none" /\ (u.key = "" \/ u.password = "")
           /\ Unreadable(u) \subseteq {"passphrase"}
           /\ u.virtualRoot = "abs"
<1>1. u.maxConcurrentTransfers \in Int
  BY UserDefaultsFields
<1>2. /\ ~(u.username = "") /\ ~(u.maxConcurrentTransfers <= 0)
      /\ u.virtualRoot \in {"abs", "dotdot"} /\ ~(u.virtualRoot = "dotdot")
      /\ validateSFTPTarget(u) = {}
  BY DEF validateUser, If
<1>3. /\ ~(u.key = "" /\ u.password = "") /\ ~(u.key # "" /\ u.password # "")
      /\ ~(u.key \notin {"", "file"} /\ u.password = "") /\ ~(u.knownHosts # "file")
  BY <1>2 DEF validateSFTPTarget, If
<1>4. u.maxConcurrentTransfers >= 1
  <2>1. ~(u.maxConcurrentTransfers <= 0)
    BY <1>2, Zenon
  <2> QED BY <1>1, <2>1, SMT
<1>5. AuthMethod(u) # "none" /\ (AuthMethod(u) = "key" => u.key = "file")
  BY <1>3 DEF AuthMethod
<1>6. Unreadable(u) \subseteq {"passphrase"}
  BY <1>3, <1>5 DEF Unreadable, If
<1> QED BY <1>2, <1>3, <1>4, <1>5, <1>6

(* What it means that the list of users has none.                          *)
LEMMA UsersValid ==
    ASSUME NEW c \in Loaded
    PROVE  /\ c.users \in Seq(DefaultedUser) /\ c.users # <<>>
           /\ \A i, k \in DOMAIN c.users : c.users[i].username = c.users[k].username => i = k
           /\ \A i \in DOMAIN c.users : validateUser(c.users[i]) = {}
<1>1. Validate(c) = {} /\ c.users \in Seq(DefaultedUser)
  BY LoadedFields
<1>2. /\ ~(c.users = <<>>)
      /\ ~(\E i, k \in DOMAIN c.users : i < k /\ c.users[i].username = c.users[k].username)
      /\ UNION {validateUser(c.users[i]) : i \in DOMAIN c.users} = {}
  BY <1>1 DEF Validate, If
<1>3. \A i \in DOMAIN c.users : validateUser(c.users[i]) = {}
  BY <1>2
<1>4. ASSUME NEW i \in DOMAIN c.users, NEW k \in DOMAIN c.users,
             c.users[i].username = c.users[k].username
      PROVE  i = k
  <2>1. i \in Int /\ k \in Int
    BY <1>1
  <2>2. ~(i < k) /\ ~(k < i)
    BY <1>2, <1>4
  <2> QED BY <2>1, <2>2
<1> QED BY <1>1, <1>2, <1>3, <1>4

(* The names of the users: distinct, at least one.                         *)
LEMMA NamesDistinct ==
    ASSUME NEW c \in Loaded
    PROVE  /\ Names(c) \in Seq(STRING) /\ Len(Names(c)) = Len(c.users) /\ Names(c) # <<>>
           /\ \A i, k \in DOMAIN Names(c) : Names(c)[i] = Names(c)[k] => i = k
<1>1. c.users \in Seq(DefaultedUser)
  BY UsersValid
<1>2. DOMAIN Names(c) = DOMAIN c.users /\ \A i \in DOMAIN c.users : Names(c)[i] = c.users[i].username
  BY DEF Names
<1>3. \A i \in DOMAIN c.users : c.users[i].username \in STRING
  BY <1>1, UserDefaultsFields
<1>4. Names(c) \in Seq(STRING) /\ Len(Names(c)) = Len(c.users)
  BY <1>1, <1>3 DEF Names
<1>5. Names(c) # <<>>
  BY <1>1, <1>4, UsersValid
<1> QED BY <1>2, <1>4, <1>5, UsersValid

-----------------------------------------------------------------------------
(* What becomes of a job's record.                                         *)

(* A sequence of one.                                                      *)
LEMMA OneInSeq ==
    ASSUME NEW S, NEW x \in S
    PROVE  <<x>> \in Seq(S)
OBVIOUS

(* The elements of a sequence of names.                                    *)
LEMMA ToSetFacts ==
    ASSUME NEW s \in Seq(STRING)
    PROVE  /\ \A x : x \in ToSet(s) <=> \E i \in DOMAIN s : s[i] = x
           /\ DOMAIN s = 1..Len(s) /\ Len(s) \in Nat
           /\ ToSet(s) \subseteq STRING
BY DEF ToSet

(* The times are positive numbers.                                         *)
LEMMA Times ==
    /\ ReadinessTimeout \in Nat /\ DialTimeout \in Nat /\ ShutdownGrace \in Nat
    /\ ReadinessTimeout >= 1 /\ DialTimeout >= 1 /\ ShutdownGrace >= 1
    /\ DialBound \in Nat /\ DialBound = ReadinessTimeout - 1 + 2 * DialTimeout
    /\ ReadinessTimeout - 1 + DialTimeout <= DialBound
<1>1. /\ ReadinessTimeout \in Nat /\ DialTimeout \in Nat /\ ShutdownGrace \in Nat
      /\ ReadinessTimeout >= 1 /\ DialTimeout >= 1 /\ ShutdownGrace >= 1
  BY TimesAssumption
<1> QED BY <1>1 DEF DialBound

(* No job is a job in order.                                               *)
LEMMA IdleOK ==
    ASSUME NEW g
    PROVE  JobOK(Idle, g) /\ Idle.step = "idle"
<1>1. IsJob(Idle)
  BY Times DEF Idle, IsJob, Kinds, Steps, Answers
<1>2. /\ Idle.step = "idle" /\ Idle.kind = "readyz" /\ Idle.asked = <<>> /\ Idle.good = {}
      /\ Idle.failed = FALSE /\ Idle.socket = FALSE /\ Idle.answer = -1 /\ Idle.age = 0
      /\ Idle.timer = 0 /\ Idle.spent = 0
  BY DEF Idle
<1>3. WalkOK(Idle) /\ AnswerOK(Idle, g) /\ SocketOK(Idle)
  BY <1>2 DEF WalkOK, AnswerOK, SocketOK, Probing
<1>4. TimeOK(Idle)
  BY <1>2, Times DEF TimeOK, Dialling
<1> QED BY <1>1, <1>2, <1>3, <1>4 DEF JobOK

(* A job begins at the first of the users it is asked about.               *)
LEMMA BegunFields ==
    ASSUME NEW kind \in Kinds, NEW asked \in Seq(STRING), NEW j, j = Begun(kind, asked)
    PROVE  /\ IsJob(j)
           /\ j.kind = kind /\ j.step = "next" /\ j.asked = asked /\ j.at = 1 /\ j.good = {}
           /\ ~j.failed /\ ~j.socket /\ j.answer = -1 /\ j.age = 0
           /\ j.timer = 0 /\ j.spent = 0
<1>1. IsJob(Idle)
  BY IdleOK DEF JobOK
<1>2. IsJob(j)
  BY <1>1, SMT DEF Begun, IsJob, Steps
<1>3. /\ j.kind = kind /\ j.step = "next" /\ j.asked = asked /\ j.at = 1 /\ j.good = {}
      /\ ~j.failed /\ ~j.socket /\ j.answer = -1 /\ j.age = 0
      /\ j.timer = 0 /\ j.spent = 0
  BY SMT DEF Begun, Idle
<1> QED BY <1>2, <1>3

(* That is a job in order.                                                 *)
LEMMA BegunOK ==
    ASSUME NEW g, NEW kind \in Kinds, NEW asked \in Seq(STRING),
           kind = "readyz" => asked = g.users,
           kind = "connectivity" =>
              asked # <<>> /\ \A i, k \in DOMAIN asked : asked[i] = asked[k] => i = k
    PROVE  JobOK(Begun(kind, asked), g)
<1> SUFFICES ASSUME NEW j, j = Begun(kind, asked) PROVE JobOK(j, g)
  OBVIOUS
<1>1. /\ IsJob(j)
      /\ j.kind = kind /\ j.step = "next" /\ j.asked = asked /\ j.at = 1 /\ j.good = {}
      /\ ~j.failed /\ ~j.socket /\ j.answer = -1 /\ j.age = 0
      /\ j.timer = 0 /\ j.spent = 0
  BY BegunFields
<1>2. WalkOK(j)
  BY <1>1 DEF WalkOK, Probing
<1>3. AnswerOK(j, g) /\ SocketOK(j)
  BY <1>1 DEF AnswerOK, SocketOK
<1>4. TimeOK(j)
  BY <1>1, Times DEF TimeOK, Dialling
<1> QED BY <1>1, <1>2, <1>3, <1>4 DEF JobOK

(* A command that ends without asking about any user.                      *)
LEMMA PlainDone ==
    ASSUME NEW g, NEW j, IsJob(j), j.step = "done", j.asked = <<>>, j.at = 1, j.good = {},
           ~j.socket, j.timer = 0, j.spent = 0, j.kind # "readyz",
           j.kind = "connectivity" => j.answer # 0
    PROVE  JobOK(j, g)
<1>1. WalkOK(j)
  BY DEF WalkOK, Probing
<1>2. AnswerOK(j, g) /\ SocketOK(j)
  BY DEF AnswerOK, SocketOK
<1>3. TimeOK(j)
  BY Times DEF TimeOK, Dialling
<1> QED BY <1>1, <1>2, <1>3 DEF JobOK

(* A job ends where it is.                                                 *)
LEMMA ConcludeOK ==
    ASSUME NEW g, NEW j, JobOK(j, g), j.step # "idle", NEW q, IsJob(q),
           q.kind = j.kind, q.asked = j.asked, q.at = j.at, q.good = j.good, q.spent = j.spent,
           q.step = "done", ~q.socket, q.timer = 0,
           (q.failed <=> j.failed) \/ (q.failed /\ q.kind # "connectivity"),
           q.kind = "readyz" /\ q.answer = 200 /\ g.required => q.good = ToSet(g.users),
           q.kind = "connectivity" =>
              /\ q.answer = 0 => q.good = ToSet(q.asked) /\ q.asked # <<>>
              /\ q.answer = 1 => q.asked = <<>> \/ q.good # ToSet(q.asked)
    PROVE  JobOK(q, g)
<1>1. WalkOK(q)
  BY DEF JobOK, WalkOK, Probing
<1>2. AnswerOK(q, g) /\ SocketOK(q)
  BY DEF AnswerOK, SocketOK
<1>3. TimeOK(q)
  BY Times DEF JobOK, TimeOK, Dialling, IsJob
<1> QED BY <1>1, <1>2, <1>3 DEF JobOK

(* A job goes on to another step of a probe.                               *)
LEMMA MoveOK ==
    ASSUME NEW g, NEW j, JobOK(j, g), j.step \notin {"idle", "done"}, NEW q, IsJob(q),
           q.kind = j.kind, q.asked = j.asked, q.at = j.at, q.good = j.good,
           q.failed <=> j.failed, q.answer = j.answer,
           q.step \in Probing, q.at <= Len(q.asked), q.kind \in {"readyz", "connectivity"},
           TimeOK(q), SocketOK(q)
    PROVE  JobOK(q, g)
<1>1. WalkOK(q)
  BY DEF JobOK, WalkOK, Probing
<1>2. AnswerOK(q, g)
  BY DEF JobOK, AnswerOK, Probing
<1> QED BY <1>1, <1>2 DEF JobOK

(* An answer changes the step and the answer only.                         *)
LEMMA AnsweredFields ==
    ASSUME NEW j, IsJob(j), NEW a \in Answers, NEW q, q = Answered(j, a)
    PROVE  /\ IsJob(q)
           /\ q.kind = j.kind /\ q.asked = j.asked /\ q.at = j.at /\ q.good = j.good
           /\ q.age = j.age /\ q.timer = j.timer /\ q.spent = j.spent
           /\ (q.failed <=> j.failed) /\ (q.socket <=> j.socket)
           /\ q.step = "done" /\ q.answer = a
<1>1. IsJob(q)
  BY SMT DEF Answered, IsJob, Steps
<1>2. /\ q.kind = j.kind /\ q.asked = j.asked /\ q.at = j.at /\ q.good = j.good
      /\ q.age = j.age /\ q.timer = j.timer /\ q.spent = j.spent
      /\ (q.failed <=> j.failed) /\ (q.socket <=> j.socket)
      /\ q.step = "done" /\ q.answer = a
  BY SMT DEF Answered, IsJob
<1> QED BY <1>1, <1>2

(* A walk at its end has passed every user.                                *)
LEMMA WalkedAll ==
    ASSUME NEW g, NEW j, JobOK(j, g), j.step # "idle", j.at > Len(j.asked)
    PROVE  /\ ~j.failed => j.good = ToSet(j.asked)
           /\ j.failed /\ j.kind = "connectivity" => j.asked = <<>> \/ j.good # ToSet(j.asked)
<1>1. /\ DOMAIN j.asked = 1..Len(j.asked) /\ Len(j.asked) \in Nat /\ j.at \in Nat
      /\ \A x : x \in ToSet(j.asked) <=> \E i \in DOMAIN j.asked : j.asked[i] = x
  BY ToSetFacts DEF JobOK, IsJob
<1>2. \A i \in DOMAIN j.asked : i < j.at
  BY <1>1
<1>3. \A x \in j.good : x \in ToSet(j.asked)
  BY <1>1 DEF JobOK, WalkOK
<1>4. ~j.failed => \A x \in ToSet(j.asked) : x \in j.good
  BY <1>1, <1>2 DEF JobOK, WalkOK
<1>5. j.failed /\ j.kind = "connectivity" /\ j.asked # <<>> =>
         \E x \in ToSet(j.asked) : x \notin j.good
  BY <1>1 DEF JobOK, WalkOK
<1> QED BY <1>3, <1>4, <1>5

(* A probe that succeeds makes its user good.                              *)
LEMMA SucceededOK ==
    ASSUME NEW g, NEW j, JobOK(j, g), j.step \in Probing, ~j.socket, j.timer = 0
    PROVE  JobOK(Succeeded(j), g) /\ Succeeded(j).kind = j.kind
<1> SUFFICES ASSUME NEW q, q = Succeeded(j) PROVE JobOK(q, g) /\ q.kind = j.kind
  OBVIOUS
<1>1. /\ IsJob(j) /\ j.at \in 1..Len(j.asked) /\ Len(j.asked) \in Nat
      /\ DOMAIN j.asked = 1..Len(j.asked) /\ j.asked[j.at] \in STRING
  BY DEF JobOK, WalkOK, IsJob, Probing
<1>2. IsJob(q)
  BY <1>1, SMT DEF Succeeded, IsJob, Steps
<1>3. /\ q.kind = j.kind /\ q.asked = j.asked /\ q.at = j.at + 1
      /\ q.good = j.good \cup {j.asked[j.at]}
      /\ q.age = j.age /\ q.timer = j.timer /\ q.spent = j.spent
      /\ (q.failed <=> j.failed) /\ (q.socket <=> j.socket)
      /\ q.step = "next" /\ q.answer = j.answer
  BY <1>1, SMT DEF Succeeded, IsJob
<1>4. WalkOK(q)
  <2>1. q.at \in 1..(Len(q.asked) + 1)
    BY <1>1, <1>3
  <2>2. \A x \in q.good : \E i \in DOMAIN q.asked : i < q.at /\ q.asked[i] = x
    BY <1>1, <1>3 DEF JobOK, WalkOK
  <2>3. ~q.failed => \A i \in DOMAIN q.asked : i < q.at => q.asked[i] \in q.good
    BY <1>1, <1>3 DEF JobOK, WalkOK
  <2>4. q.kind = "connectivity" /\ q.failed /\ q.asked # <<>> =>
           \E i \in DOMAIN q.asked : i < q.at /\ q.asked[i] \notin q.good
    BY <1>1, <1>3 DEF JobOK, WalkOK
  <2> QED BY <1>3, <2>1, <2>2, <2>3, <2>4 DEF JobOK, WalkOK, Probing
<1>5. AnswerOK(q, g) /\ SocketOK(q)
  BY <1>3 DEF JobOK, AnswerOK, SocketOK, Probing
<1>6. TimeOK(q)
  BY <1>3, Times DEF JobOK, TimeOK, Dialling, Probing
<1> QED BY <1>2, <1>3, <1>4, <1>5, <1>6 DEF JobOK

(* A probe that fails ends a readiness check, and lets the command go on.  *)
LEMMA FailedOK ==
    ASSUME NEW g, NEW j, JobOK(j, g), j.step \in Probing, NEW p, IsJob(p),
           p.kind = j.kind, p.asked = j.asked, p.at = j.at, p.good = j.good, p.spent = j.spent,
           p.failed <=> j.failed, p.answer = j.answer, p.age = j.age, p.step = j.step,
           ~p.socket, p.timer = 0
    PROVE  JobOK(Failed(p), g) /\ Failed(p).kind = j.kind
<1> SUFFICES ASSUME NEW q, q = Failed(p) PROVE JobOK(q, g) /\ q.kind = j.kind
  OBVIOUS
<1>1. /\ IsJob(j) /\ j.at \in 1..Len(j.asked) /\ Len(j.asked) \in Nat
      /\ DOMAIN j.asked = 1..Len(j.asked) /\ j.kind \in {"readyz", "connectivity"}
  BY DEF JobOK, WalkOK, IsJob, Probing
<1>2. IsJob(q)
  BY SMT DEF Failed, Answered, IsJob, Steps, Answers
<1>3. CASE j.kind = "readyz"
  <2>1. /\ q.kind = p.kind /\ q.asked = p.asked /\ q.at = p.at /\ q.good = p.good
        /\ q.timer = p.timer /\ q.spent = p.spent /\ q.failed /\ (q.socket <=> p.socket)
        /\ q.step = "done" /\ q.answer = 503
    BY <1>3, SMT DEF Failed, Answered, IsJob
  <2>2. JobOK(q, g)
    BY <1>2, <1>3, <2>1, ConcludeOK DEF Probing
  <2> QED BY <2>1, <2>2
<1>4. CASE j.kind = "connectivity"
  <2>1. /\ q.kind = p.kind /\ q.asked = p.asked /\ q.at = p.at + 1 /\ q.good = p.good
        /\ q.timer = p.timer /\ q.spent = p.spent /\ q.failed /\ (q.socket <=> p.socket)
        /\ q.step = "next" /\ q.answer = p.answer /\ q.age = p.age
    BY <1>4, SMT DEF Failed, IsJob
  <2>2. WalkOK(q)
    <3>1. q.at \in 1..(Len(q.asked) + 1)
      BY <1>1, <2>1
    <3>2. \A x \in q.good : \E i \in DOMAIN q.asked : i < q.at /\ q.asked[i] = x
      BY <1>1, <2>1 DEF JobOK, WalkOK
    <3>3. \A x \in j.good : \E i \in DOMAIN j.asked : i < j.at /\ j.asked[i] = x
      BY DEF JobOK, WalkOK
    <3>4. \A i, k \in DOMAIN j.asked : j.asked[i] = j.asked[k] => i = k
      BY <1>4 DEF JobOK, WalkOK
    <3>5. j.asked[j.at] \notin j.good
      BY <1>1, <3>3, <3>4
    <3>6. \E i \in DOMAIN q.asked : i < q.at /\ q.asked[i] \notin q.good
      BY <1>1, <2>1, <3>5
    <3> QED BY <1>4, <2>1, <3>1, <3>2, <3>6 DEF JobOK, WalkOK, Probing
  <2>3. AnswerOK(q, g) /\ SocketOK(q)
    BY <1>4, <2>1 DEF JobOK, AnswerOK, SocketOK, Probing
  <2>4. TimeOK(q)
    BY <1>4, <2>1, Times DEF JobOK, TimeOK, Dialling, Probing
  <2> QED BY <1>2, <2>1, <2>2, <2>3, <2>4 DEF JobOK
<1> QED BY <1>1, <1>3, <1>4

(* Time passes: what a dial step has left becomes what it has spent.       *)
LEMMA OlderOK ==
    ASSUME NEW g, NEW j, JobOK(j, g), Dialling(j) => j.timer > 0
    PROVE  JobOK(Older(j), g) /\ Older(j).kind = j.kind /\ Older(j).step = j.step
<1> SUFFICES ASSUME NEW q, q = Older(j)
             PROVE  JobOK(q, g) /\ q.kind = j.kind /\ q.step = j.step
  OBVIOUS
<1> DEFINE age == IF j.kind = "readyz" /\ j.step \notin {"idle", "done"} /\ j.age <= ReadinessTimeout
                  THEN j.age + 1 ELSE j.age
           timer == IF Dialling(j) THEN j.timer - 1 ELSE j.timer
           spent == IF j.kind = "readyz" /\ Dialling(j) /\ j.spent <= DialBound
                    THEN j.spent + 1 ELSE j.spent
<1>1. q = [j EXCEPT !.age = age, !.timer = timer, !.spent = spent]
  BY DEF Older
<1>2. IsJob(j) /\ j.age \in 0..(ReadinessTimeout + 1) /\ j.timer \in Nat /\ j.spent \in Nat
  BY DEF JobOK, IsJob
<1>3. age \in 0..(ReadinessTimeout + 1) /\ timer \in Nat /\ spent \in Nat
  BY <1>2, Times
<1>4. /\ timer <= (IF Dialling(j) THEN DialTimeout ELSE 0)
      /\ j.kind # "readyz" => spent = 0
      /\ j.step # "done" /\ age < ReadinessTimeout => spent <= age
      /\ j.step = "files" => spent <= ReadinessTimeout - 1
      /\ j.step = "connect" => spent + timer <= ReadinessTimeout - 1 + DialTimeout
      /\ j.step = "handshake" => spent + timer <= DialBound
      /\ spent <= DialBound
  <2>1. TimeOK(j)
    BY DEF JobOK
  <2>2. CASE ~Dialling(j)
    BY <1>2, <2>1, <2>2, Times DEF TimeOK, Dialling
  <2>3. CASE Dialling(j) /\ j.kind # "readyz"
    BY <1>2, <2>1, <2>3, Times DEF TimeOK, Dialling
  <2>4. CASE Dialling(j) /\ j.kind = "readyz"
    <3>1. /\ spent = j.spent + 1 /\ timer = j.timer - 1 /\ j.timer > 0 /\ j.timer <= DialTimeout
          /\ age = IF j.age <= ReadinessTimeout THEN j.age + 1 ELSE j.age
      BY <2>1, <2>4 DEF TimeOK, Dialling
    <3> HIDE DEF age, timer, spent
    <3> QED BY <1>2, <2>1, <2>4, <3>1, Times DEF TimeOK, Dialling
  <2> QED BY <2>2, <2>3, <2>4
<1> HIDE DEF age, timer, spent
<1>5. IsJob(q)
  BY <1>1, <1>2, <1>3, SMT DEF IsJob
<1>6. /\ q.kind = j.kind /\ q.asked = j.asked /\ q.at = j.at /\ q.good = j.good
      /\ q.age = age /\ q.timer = timer /\ q.spent = spent /\ q.step = j.step
      /\ (q.failed <=> j.failed) /\ (q.socket <=> j.socket) /\ q.answer = j.answer
  BY <1>1, <1>2, SMT DEF IsJob
<1>7. WalkOK(q) /\ AnswerOK(q, g) /\ SocketOK(q)
  BY <1>6 DEF JobOK, WalkOK, AnswerOK, SocketOK
<1>8. TimeOK(q)
  BY <1>4, <1>6 DEF TimeOK, Dialling
<1> QED BY <1>5, <1>6, <1>7, <1>8 DEF JobOK

(* A job that has failed is a job with another flag.                       *)
LEMMA MarkedFields ==
    ASSUME NEW j, IsJob(j), NEW q, q = [j EXCEPT !.failed = TRUE]
    PROVE  /\ IsJob(q)
           /\ q.kind = j.kind /\ q.asked = j.asked /\ q.at = j.at /\ q.good = j.good
           /\ q.age = j.age /\ q.timer = j.timer /\ q.spent = j.spent
           /\ q.failed /\ (q.socket <=> j.socket) /\ q.step = j.step /\ q.answer = j.answer
<1>1. IsJob(q)
  BY SMT DEF IsJob
<1>2. /\ q.kind = j.kind /\ q.asked = j.asked /\ q.at = j.at /\ q.good = j.good
      /\ q.age = j.age /\ q.timer = j.timer /\ q.spent = j.spent
      /\ q.failed /\ (q.socket <=> j.socket) /\ q.step = j.step /\ q.answer = j.answer
  BY SMT DEF IsJob
<1> QED BY <1>1, <1>2

(* A command that answers at once.                                         *)
LEMMA PlainAnswer ==
    ASSUME NEW g, NEW kind \in Kinds \ {"readyz"}, NEW a \in Answers, kind = "connectivity" => a # 0,
           NEW b, b = Begun(kind, <<>>), NEW p, p = b \/ p = [b EXCEPT !.failed = TRUE]
    PROVE  JobOK(Answered(p, a), g) /\ Answered(p, a).kind = kind
<1> SUFFICES ASSUME NEW r, r = Answered(p, a) PROVE JobOK(r, g) /\ r.kind = kind
  OBVIOUS
<1>1. /\ IsJob(b) /\ b.kind = kind /\ b.asked = <<>> /\ b.at = 1 /\ b.good = {}
      /\ ~b.socket /\ b.timer = 0 /\ b.spent = 0
  <2>1. PICK none : none = <<>>
    OBVIOUS
  <2>2. none \in Seq(STRING) /\ kind \in Kinds /\ b = Begun(kind, none)
    BY <2>1
  <2>3. /\ IsJob(b) /\ b.kind = kind /\ b.asked = none /\ b.at = 1 /\ b.good = {}
        /\ ~b.socket /\ b.timer = 0 /\ b.spent = 0
    BY <2>2, BegunFields
  <2> QED BY <2>1, <2>3
<1>2. /\ IsJob(p) /\ p.kind = kind /\ p.asked = <<>> /\ p.at = 1 /\ p.good = {}
      /\ ~p.socket /\ p.timer = 0 /\ p.spent = 0
  BY <1>1, MarkedFields
<1>3. /\ IsJob(r) /\ r.kind = kind /\ r.asked = <<>> /\ r.at = 1 /\ r.good = {}
      /\ ~r.socket /\ r.timer = 0 /\ r.spent = 0 /\ r.step = "done" /\ r.answer = a
  BY <1>2, AnsweredFields
<1> QED BY <1>3, PlainDone

(* A job that holds nothing answers.                                       *)
LEMMA AnswerNow ==
    ASSUME NEW g, NEW j, JobOK(j, g), j.step # "idle", ~j.socket, j.timer = 0, NEW a \in Answers,
           NEW p, p = j \/ (p = [j EXCEPT !.failed = TRUE] /\ j.kind # "connectivity"),
           j.kind = "readyz" /\ a = 200 /\ g.required => j.good = ToSet(g.users),
           j.kind = "connectivity" =>
              /\ a = 0 => j.good = ToSet(j.asked) /\ j.asked # <<>>
              /\ a = 1 => j.asked = <<>> \/ j.good # ToSet(j.asked)
    PROVE  JobOK(Answered(p, a), g) /\ Answered(p, a).kind = j.kind
<1> SUFFICES ASSUME NEW q, q = Answered(p, a) PROVE JobOK(q, g) /\ q.kind = j.kind
  OBVIOUS
<1>1. IsJob(j)
  BY DEF JobOK
<1>2. /\ IsJob(p) /\ p.kind = j.kind /\ p.asked = j.asked /\ p.at = j.at /\ p.good = j.good
      /\ p.timer = 0 /\ p.spent = j.spent /\ ~p.socket
      /\ (p.failed <=> j.failed) \/ (p.failed /\ p.kind # "connectivity")
  <2>1. CASE p = j
    BY <1>1, <2>1
  <2>2. CASE p = [j EXCEPT !.failed = TRUE] /\ j.kind # "connectivity"
    BY <1>1, <2>2, MarkedFields
  <2> QED BY <2>1, <2>2
<1>3. /\ IsJob(q) /\ q.kind = j.kind /\ q.asked = j.asked /\ q.at = j.at /\ q.good = j.good
      /\ q.timer = 0 /\ q.spent = j.spent /\ ~q.socket /\ q.step = "done" /\ q.answer = a
      /\ (q.failed <=> j.failed) \/ (q.failed /\ q.kind # "connectivity")
  BY <1>2, AnsweredFields
<1>4. WalkOK(q)
  BY <1>3 DEF JobOK, WalkOK, Probing
<1>5. AnswerOK(q, g) /\ SocketOK(q)
  BY <1>3 DEF AnswerOK, SocketOK
<1>6. TimeOK(q)
  BY <1>3, Times DEF JobOK, TimeOK, Dialling, IsJob
<1> QED BY <1>3, <1>4, <1>5, <1>6 DEF JobOK

-----------------------------------------------------------------------------
(* Steps.                                                                  *)

(* A step of one job needs only that job to be looked at.                  *)
LEMMA JobStep ==
    ASSUME ProcessInv, NEW j \in Jobs, NEW r, Job(j, r), JobOK(r, gateway),
           r.kind = "readyz" /\ r.step # "idle" =>
              j \in Handlers /\ main \notin {"start", "loaded", "exit"}
    PROVE  ProcessInv'
<1>1. UNCHANGED <<main, cfg, gateway, alive, ftp, health, grace>> /\ job' = [job EXCEPT ![j] = r]
  BY DEF Job, servers
<1>2. DOMAIN job' = Jobs /\ \A i \in Jobs : job'[i] = IF i = j THEN r ELSE job[i]
  BY <1>1 DEF ProcessInv
<1>3. RunOK'
  BY <1>1 DEF ProcessInv, RunOK
<1>4. ReadyzOK'
  BY <1>1, <1>2 DEF ProcessInv, ReadyzOK, ReadyzRunning
<1>5. \A i \in Jobs : JobOK(job'[i], gateway')
  BY <1>1, <1>2 DEF ProcessInv
<1> QED BY <1>2, <1>3, <1>4, <1>5 DEF ProcessInv

(* A job that goes on stays in the same handler.                           *)
LEMMA JobGoesOn ==
    ASSUME ProcessInv, NEW j \in Jobs, NEW r, Job(j, r), JobOK(r, gateway),
           r.kind = job[j].kind, job[j].step # "idle"
    PROVE  ProcessInv'
<1>1. r.kind = "readyz" => j \in Handlers /\ main \notin {"start", "loaded", "exit"}
  BY DEF ProcessInv, ReadyzOK, ReadyzRunning
<1> QED BY <1>1, JobStep

(* The health server's handlers.                                           *)
LEMMA HandlerStep ==
    ASSUME ProcessInv, NEW h \in Handlers, Handler(h)
    PROVE  ProcessInv'
<1>0. h \in Jobs /\ main \notin {"start", "loaded", "exit"} /\ gateway.users \in Seq(STRING)
  BY DEF Jobs, Handler, handleHealthz, handleReadyz, ProcessInv, RunOK
<1>1. CASE handleHealthz(h)
  <2>1. PICK a \in Answers : Job(h, Answered(Begun("healthz", <<>>), a))
    BY <1>1 DEF handleHealthz, Answers
  <2>2. /\ JobOK(Answered(Begun("healthz", <<>>), a), gateway)
        /\ Answered(Begun("healthz", <<>>), a).kind = "healthz"
    BY PlainAnswer DEF Kinds
  <2> QED BY <1>0, <2>1, <2>2, JobStep
<1>2. CASE handleReadyz(h)
  <2> DEFINE b == Begun("readyz", gateway.users)
  <2>1. b.kind = "readyz" /\ ~b.socket /\ b.timer = 0 /\ b.step = "next"
    BY <1>0, BegunFields DEF Kinds
  <2>2. JobOK(b, gateway)
    BY <1>0, BegunOK DEF Kinds
  <2>3. \/ Job(h, b)
        \/ Job(h, Answered(b, 503))
        \/ Job(h, Answered(b, 200)) /\ ~gateway.required
    BY <1>2 DEF handleReadyz
  <2> HIDE DEF b
  <2>4. CASE Job(h, b)
    BY <1>0, <2>1, <2>2, <2>4, JobStep
  <2>5. ASSUME NEW a \in {200, 503}, Job(h, Answered(b, a)), a = 200 => ~gateway.required
        PROVE  ProcessInv'
    <3>1. JobOK(Answered(b, a), gateway)
      BY <2>1, <2>2, <2>5, AnswerNow DEF Answers
    <3> QED BY <1>0, <2>5, <3>1, JobStep
  <2> QED BY <2>3, <2>4, <2>5
<1> QED BY <1>1, <1>2 DEF Handler

(* The operator's commands.                                                *)
LEMMA CommandStep ==
    ASSUME ProcessInv, NEW k \in Commands, Command(k)
    PROVE  ProcessInv'
<1>0. k \in Jobs
  BY DEF Jobs
<1>1. ASSUME NEW kind \in Kinds \ {"readyz"}, NEW a \in Answers, kind = "connectivity" => a # 0,
             \/ Job(k, Answered(Begun(kind, <<>>), a))
             \/ Job(k, Answered([Begun(kind, <<>>) EXCEPT !.failed = TRUE], a))
      PROVE  ProcessInv'
  <2>1. PICK p : /\ p = Begun(kind, <<>>) \/ p = [Begun(kind, <<>>) EXCEPT !.failed = TRUE]
                 /\ Job(k, Answered(p, a))
    BY <1>1
  <2>2. JobOK(Answered(p, a), gateway) /\ Answered(p, a).kind = kind
    BY <1>1, <2>1, PlainAnswer
  <2> QED BY <1>0, <2>1, <2>2, JobStep
<1>2. CASE CommandLoadFails(k)
  BY <1>1, <1>2 DEF CommandLoadFails, Kinds, Answers
<1>3. CASE cmdConfigValidate(k)
  <2>1. Job(k, Answered(Begun("validate", <<>>), 0))
    BY <1>3 DEF cmdConfigValidate
  <2>2. "validate" \in Kinds \ {"readyz"} /\ 0 \in Answers /\ "validate" # "connectivity"
    BY DEF Kinds, Answers
  <2> QED BY <1>1, <2>1, <2>2
<1>4. ASSUME NEW kind \in {"connectivity", "healthcheck"}, NEW asked \in Seq(STRING),
             kind = "connectivity" =>
                asked # <<>> /\ \A i, n \in DOMAIN asked : asked[i] = asked[n] => i = n,
             NEW r, r = Begun(kind, asked), Job(k, r)
      PROVE  ProcessInv'
  <2>1. JobOK(r, gateway) /\ r.kind = kind
    <3>1. kind \in Kinds /\ kind # "readyz"
      BY <1>4 DEF Kinds
    <3>2. JobOK(r, gateway)
      BY <1>4, <3>1, BegunOK
    <3>3. r.kind = kind
      BY <1>4, <3>1, BegunFields
    <3> QED BY <3>2, <3>3
  <2> QED BY <1>0, <1>4, <2>1, JobStep
<1>5. CASE runHealthcheck(k)
  <2>1. <<>> \in Seq(STRING)
    OBVIOUS
  <2> QED BY <1>4, <1>5, <2>1 DEF runHealthcheck
<1>6. CASE cmdConfigCheckConnectivity(k)
  <2>1. PICK c \in Loaded :
          \/ Job(k, Begun("connectivity", Names(c)))
          \/ \E name \in ToSet(Names(c)) : Job(k, Begun("connectivity", <<name>>))
          \/ Job(k, Answered(Begun("connectivity", <<>>), 2))
    BY <1>6 DEF cmdConfigCheckConnectivity
  <2>2. /\ Names(c) \in Seq(STRING) /\ Names(c) # <<>>
        /\ \A i, n \in DOMAIN Names(c) : Names(c)[i] = Names(c)[n] => i = n
    BY NamesDistinct
  <2>3. CASE Job(k, Begun("connectivity", Names(c)))
    BY <1>4, <2>2, <2>3
  <2>4. ASSUME NEW name \in ToSet(Names(c)), Job(k, Begun("connectivity", <<name>>)) PROVE ProcessInv'
    <3>1. name \in STRING
      BY <2>2, ToSetFacts
    <3>2. PICK one : one = <<name>>
      OBVIOUS
    <3>3. one \in Seq(STRING)
      BY <3>1, <3>2, OneInSeq
    <3>4. DOMAIN one = {1}
      BY <3>2
    <3>5. one # <<>> /\ \A i, n \in DOMAIN one : i = n
      BY <3>2, <3>4
    <3> QED BY <1>4, <2>4, <3>2, <3>3, <3>5
  <2>5. CASE Job(k, Answered(Begun("connectivity", <<>>), 2))
    <3>1. "connectivity" \in Kinds \ {"readyz"} /\ 2 \in Answers /\ 2 # 0
      BY DEF Kinds, Answers
    <3> QED BY <1>1, <2>5, <3>1
  <2> QED BY <2>1, <2>3, <2>4, <2>5
<1>7. CASE HealthcheckReturns(k)
  <2>1. /\ job[k].kind = "healthcheck" /\ job[k].step = "next" /\ JobOK(job[k], gateway)
        /\ ~job[k].socket /\ job[k].timer = 0
    BY <1>0, <1>7 DEF HealthcheckReturns, ProcessInv, JobOK, SocketOK, TimeOK, Dialling, IsJob
  <2>2. PICK a \in Answers : \/ Job(k, Answered(job[k], a))
                             \/ Job(k, Answered([job[k] EXCEPT !.failed = TRUE], a))
    BY <1>7 DEF HealthcheckReturns, Answers
  <2>3. PICK p : Job(k, Answered(p, a)) /\ (p = job[k] \/ p = [job[k] EXCEPT !.failed = TRUE])
    BY <2>2
  <2>4. JobOK(Answered(p, a), gateway) /\ Answered(p, a).kind = job[k].kind
    BY <2>1, <2>3, AnswerNow
  <2> QED BY <1>0, <2>1, <2>3, <2>4, JobGoesOn
<1> QED BY <1>2, <1>3, <1>5, <1>6, <1>7 DEF Command

(* The walk from user to user.                                             *)
LEMMA WalkStep ==
    ASSUME ProcessInv, NEW j \in Jobs, Walk(j)
    PROVE  ProcessInv'
<1>1. /\ JobOK(job[j], gateway) /\ IsJob(job[j]) /\ job[j].step = "next"
      /\ job[j].kind \in {"readyz", "connectivity"}
  BY DEF Walk, NextUser, ContextDone, WalkEnds, Walks, ProcessInv, JobOK
<1>2. ~job[j].socket /\ job[j].timer = 0
  BY <1>1 DEF JobOK, SocketOK, TimeOK, Dialling, IsJob
<1>3. CASE NextUser(j)
  <2>1. PICK q : Job(j, q) /\ q = [job[j] EXCEPT !.step = "files"]
    BY <1>3 DEF NextUser
  <2>2. IsJob(q)
    BY <1>1, <2>1, SMT DEF IsJob, Steps
  <2>3. /\ q.kind = job[j].kind /\ q.asked = job[j].asked /\ q.at = job[j].at
        /\ q.good = job[j].good /\ q.age = job[j].age /\ q.timer = job[j].timer
        /\ q.spent = job[j].spent /\ (q.failed <=> job[j].failed)
        /\ (q.socket <=> job[j].socket) /\ q.step = "files" /\ q.answer = job[j].answer
    BY <1>1, <2>1, SMT DEF IsJob
  <2>4. q.at <= Len(q.asked)
    <3>1. job[j].at \in Nat /\ Len(job[j].asked) \in Nat /\ ~(job[j].at > Len(job[j].asked))
      BY <1>1, <1>3 DEF IsJob, NextUser, AtEnd
    <3> QED BY <2>3, <3>1
  <2>5. TimeOK(q)
    BY <1>1, <1>2, <1>3, <2>3, Times DEF NextUser, ContextAlive, JobOK, TimeOK, IsJob, Dialling
  <2>6. SocketOK(q)
    BY <1>2, <2>3 DEF SocketOK
  <2>7. JobOK(q, gateway)
    BY <1>1, <2>2, <2>3, <2>4, <2>5, <2>6, MoveOK DEF Probing
  <2> QED BY <1>1, <2>1, <2>3, <2>7, JobGoesOn
<1>4. CASE ContextDone(j)
  <2>1. PICK p : p = [job[j] EXCEPT !.failed = TRUE] /\ Job(j, Answered(p, 503))
    BY <1>4 DEF ContextDone
  <2>2. job[j].kind = "readyz" /\ 503 \in Answers
    BY <1>4 DEF ContextDone, Answers
  <2>3. JobOK(Answered(p, 503), gateway) /\ Answered(p, 503).kind = job[j].kind
    BY <1>1, <1>2, <2>1, <2>2, AnswerNow
  <2> QED BY <1>1, <2>1, <2>3, JobGoesOn
<1>5. CASE WalkEnds(j)
  <2>1. PICK a \in Answers : /\ Job(j, Answered(job[j], a))
                             /\ a = IF job[j].kind = "readyz" THEN 200
                                    ELSE IF job[j].failed THEN 1 ELSE 0
    BY <1>5 DEF WalkEnds, Answers
  <2>2. /\ ~job[j].failed => job[j].good = ToSet(job[j].asked)
        /\ job[j].failed /\ job[j].kind = "connectivity" =>
              job[j].asked = <<>> \/ job[j].good # ToSet(job[j].asked)
    BY <1>1, <1>5, WalkedAll DEF WalkEnds, AtEnd
  <2>3. /\ job[j].kind = "readyz" => ~job[j].failed /\ job[j].asked = gateway.users
        /\ job[j].kind = "connectivity" => job[j].asked # <<>>
    BY <1>1 DEF JobOK, AnswerOK, WalkOK
  <2>4. JobOK(Answered(job[j], a), gateway) /\ Answered(job[j], a).kind = job[j].kind
    BY <1>1, <1>2, <2>1, <2>2, <2>3, AnswerNow
  <2> QED BY <1>1, <2>1, <2>4, JobGoesOn
<1> QED BY <1>3, <1>4, <1>5 DEF Walk

(* A probe: each step fails with what it had opened closed, or goes on.    *)
LEMMA ProbeStep ==
    ASSUME ProcessInv, NEW j \in Jobs, Probe(j)
    PROVE  ProcessInv'
<1>1. JobOK(job[j], gateway) /\ IsJob(job[j]) /\ job[j].step \in Probing
  BY DEF Probe, DialFiles, DialConnect, DialHandshake, OpenSubsystem, Ping, ProcessInv, JobOK,
         Probing
<1>2. /\ job[j].kind \in {"readyz", "connectivity"} /\ job[j].at <= Len(job[j].asked)
      /\ job[j].step \notin {"idle", "done"}
  BY <1>1 DEF JobOK, WalkOK, Probing
<1>3. ASSUME NEW p, IsJob(p), Job(j, Failed(p)),
             p.kind = job[j].kind, p.asked = job[j].asked, p.at = job[j].at,
             p.good = job[j].good, p.spent = job[j].spent, p.failed <=> job[j].failed,
             p.answer = job[j].answer, p.age = job[j].age, p.step = job[j].step,
             ~p.socket, p.timer = 0
      PROVE  ProcessInv'
  <2>1. JobOK(Failed(p), gateway) /\ Failed(p).kind = job[j].kind
    BY <1>1, <1>3, FailedOK
  <2> QED BY <1>2, <1>3, <2>1, JobGoesOn
<1>4. ASSUME NEW q, Job(j, q), IsJob(q),
             q.kind = job[j].kind, q.asked = job[j].asked, q.at = job[j].at,
             q.good = job[j].good, q.failed <=> job[j].failed, q.answer = job[j].answer,
             q.step \in Probing, TimeOK(q), SocketOK(q)
      PROVE  ProcessInv'
  <2>1. JobOK(q, gateway)
    BY <1>1, <1>2, <1>4, MoveOK
  <2> QED BY <1>2, <1>4, <2>1, JobGoesOn
<1>5. TimeOK(job[j]) /\ SocketOK(job[j])
  BY <1>1 DEF JobOK
<1>6. CASE DialFiles(j)
  <2>1. job[j].step = "files"
    BY <1>6 DEF DialFiles
  <2>2. ASSUME NEW q, q = job[j], Job(j, Failed(q)) PROVE ProcessInv'
    <3>1. IsJob(q)
      BY <1>1, <2>2, SMT DEF IsJob
    <3>2. /\ q.kind = job[j].kind /\ q.asked = job[j].asked /\ q.at = job[j].at
          /\ q.good = job[j].good /\ q.spent = job[j].spent /\ q.age = job[j].age
          /\ (q.failed <=> job[j].failed) /\ q.answer = job[j].answer
          /\ q.step = job[j].step /\ q.timer = job[j].timer /\ (q.socket <=> job[j].socket)
      BY <1>1, <2>2, SMT DEF IsJob
    <3>3. ~q.socket /\ q.timer = 0
      BY <1>1, <1>5, <2>1, <3>2 DEF SocketOK, TimeOK, Dialling, IsJob
    <3> QED BY <1>3, <2>2, <3>1, <3>2, <3>3
  <2>3. ASSUME NEW q, q = [job[j] EXCEPT !.step = "connect", !.timer = DialTimeout], Job(j, q) PROVE ProcessInv'
    <3>1. IsJob(q)
      BY <1>1, <2>3, Times, SMT DEF IsJob, Steps
    <3>2. /\ q.kind = job[j].kind /\ q.asked = job[j].asked /\ q.at = job[j].at
          /\ q.good = job[j].good /\ q.spent = job[j].spent /\ q.age = job[j].age
          /\ (q.failed <=> job[j].failed) /\ q.answer = job[j].answer
          /\ q.step = "connect" /\ q.timer = DialTimeout /\ (q.socket <=> job[j].socket)
      BY <1>1, <2>3, SMT DEF IsJob
    <3>3. TimeOK(q)
      BY <1>1, <1>5, <2>1, <3>2, Times DEF TimeOK, Dialling, IsJob
    <3>4. SocketOK(q)
      BY <1>5, <2>1, <3>2 DEF SocketOK
    <3>5. q.step \in Probing
      BY <3>2 DEF Probing
    <3> QED BY <1>4, <2>3, <3>1, <3>2, <3>3, <3>4, <3>5
  <2> QED BY <1>6, <2>2, <2>3 DEF DialFiles
<1>7. CASE DialConnect(j)
  <2>1. job[j].step = "connect"
    BY <1>7 DEF DialConnect
  <2>2. ASSUME NEW q, q = [job[j] EXCEPT !.timer = 0], Job(j, Failed(q)) PROVE ProcessInv'
    <3>1. IsJob(q)
      BY <1>1, <2>2, SMT DEF IsJob
    <3>2. /\ q.kind = job[j].kind /\ q.asked = job[j].asked /\ q.at = job[j].at
          /\ q.good = job[j].good /\ q.spent = job[j].spent /\ q.age = job[j].age
          /\ (q.failed <=> job[j].failed) /\ q.answer = job[j].answer
          /\ q.step = job[j].step /\ q.timer = 0 /\ (q.socket <=> job[j].socket)
      BY <1>1, <2>2, SMT DEF IsJob
    <3>3. ~q.socket /\ q.timer = 0
      BY <1>1, <1>5, <2>1, <3>2 DEF SocketOK, TimeOK, Dialling, IsJob
    <3> QED BY <1>3, <2>2, <3>1, <3>2, <3>3
  <2>3. ASSUME NEW q, q = [job[j] EXCEPT !.step = "handshake", !.timer = DialTimeout, !.socket = TRUE], Job(j, q) PROVE ProcessInv'
    <3>1. IsJob(q)
      BY <1>1, <2>3, Times, SMT DEF IsJob, Steps
    <3>2. /\ q.kind = job[j].kind /\ q.asked = job[j].asked /\ q.at = job[j].at
          /\ q.good = job[j].good /\ q.spent = job[j].spent /\ q.age = job[j].age
          /\ (q.failed <=> job[j].failed) /\ q.answer = job[j].answer
          /\ q.step = "handshake" /\ q.timer = DialTimeout /\ q.socket
      BY <1>1, <2>3, SMT DEF IsJob
    <3>3. TimeOK(q)
      BY <1>1, <1>5, <2>1, <3>2, Times DEF TimeOK, Dialling, IsJob
    <3>4. SocketOK(q)
      BY <1>5, <2>1, <3>2 DEF SocketOK
    <3>5. q.step \in Probing
      BY <3>2 DEF Probing
    <3> QED BY <1>4, <2>3, <3>1, <3>2, <3>3, <3>4, <3>5
  <2> QED BY <1>7, <2>2, <2>3 DEF DialConnect
<1>8. CASE DialHandshake(j)
  <2>1. job[j].step = "handshake"
    BY <1>8 DEF DialHandshake
  <2>2. ASSUME NEW q, q = [job[j] EXCEPT !.timer = 0, !.socket = FALSE], Job(j, Failed(q)) PROVE ProcessInv'
    <3>1. IsJob(q)
      BY <1>1, <2>2, SMT DEF IsJob
    <3>2. /\ q.kind = job[j].kind /\ q.asked = job[j].asked /\ q.at = job[j].at
          /\ q.good = job[j].good /\ q.spent = job[j].spent /\ q.age = job[j].age
          /\ (q.failed <=> job[j].failed) /\ q.answer = job[j].answer
          /\ q.step = job[j].step /\ q.timer = 0 /\ ~q.socket
      BY <1>1, <2>2, SMT DEF IsJob
    <3>3. ~q.socket /\ q.timer = 0
      BY <1>1, <1>5, <2>1, <3>2 DEF SocketOK, TimeOK, Dialling, IsJob
    <3> QED BY <1>3, <2>2, <3>1, <3>2, <3>3
  <2>3. ASSUME NEW q, q = [job[j] EXCEPT !.timer = 0, !.step = "open"], Job(j, q) PROVE ProcessInv'
    <3>1. IsJob(q)
      BY <1>1, <2>3, Times, SMT DEF IsJob, Steps
    <3>2. /\ q.kind = job[j].kind /\ q.asked = job[j].asked /\ q.at = job[j].at
          /\ q.good = job[j].good /\ q.spent = job[j].spent /\ q.age = job[j].age
          /\ (q.failed <=> job[j].failed) /\ q.answer = job[j].answer
          /\ q.step = "open" /\ q.timer = 0 /\ (q.socket <=> job[j].socket)
      BY <1>1, <2>3, SMT DEF IsJob
    <3>3. TimeOK(q)
      BY <1>1, <1>5, <2>1, <3>2, Times DEF TimeOK, Dialling, IsJob
    <3>4. SocketOK(q)
      BY <1>5, <2>1, <3>2 DEF SocketOK
    <3>5. q.step \in Probing
      BY <3>2 DEF Probing
    <3> QED BY <1>4, <2>3, <3>1, <3>2, <3>3, <3>4, <3>5
  <2> QED BY <1>8, <2>2, <2>3 DEF DialHandshake
<1>9. CASE OpenSubsystem(j)
  <2>1. job[j].step = "open"
    BY <1>9 DEF OpenSubsystem
  <2>2. ASSUME NEW q, q = [job[j] EXCEPT !.socket = FALSE], Job(j, Failed(q)) PROVE ProcessInv'
    <3>1. IsJob(q)
      BY <1>1, <2>2, SMT DEF IsJob
    <3>2. /\ q.kind = job[j].kind /\ q.asked = job[j].asked /\ q.at = job[j].at
          /\ q.good = job[j].good /\ q.spent = job[j].spent /\ q.age = job[j].age
          /\ (q.failed <=> job[j].failed) /\ q.answer = job[j].answer
          /\ q.step = job[j].step /\ q.timer = job[j].timer /\ ~q.socket
      BY <1>1, <2>2, SMT DEF IsJob
    <3>3. ~q.socket /\ q.timer = 0
      BY <1>1, <1>5, <2>1, <3>2 DEF SocketOK, TimeOK, Dialling, IsJob
    <3> QED BY <1>3, <2>2, <3>1, <3>2, <3>3
  <2>3. ASSUME NEW q, q = [job[j] EXCEPT !.step = "ping"], Job(j, q) PROVE ProcessInv'
    <3>1. IsJob(q)
      BY <1>1, <2>3, Times, SMT DEF IsJob, Steps
    <3>2. /\ q.kind = job[j].kind /\ q.asked = job[j].asked /\ q.at = job[j].at
          /\ q.good = job[j].good /\ q.spent = job[j].spent /\ q.age = job[j].age
          /\ (q.failed <=> job[j].failed) /\ q.answer = job[j].answer
          /\ q.step = "ping" /\ q.timer = job[j].timer /\ (q.socket <=> job[j].socket)
      BY <1>1, <2>3, SMT DEF IsJob
    <3>3. TimeOK(q)
      BY <1>1, <1>5, <2>1, <3>2, Times DEF TimeOK, Dialling, IsJob
    <3>4. SocketOK(q)
      BY <1>5, <2>1, <3>2 DEF SocketOK
    <3>5. q.step \in Probing
      BY <3>2 DEF Probing
    <3> QED BY <1>4, <2>3, <3>1, <3>2, <3>3, <3>4, <3>5
  <2> QED BY <1>9, <2>2, <2>3 DEF OpenSubsystem
<1>10. CASE Ping(j)
  <2>1. PICK q : /\ job[j].step = "ping" /\ q = [job[j] EXCEPT !.socket = FALSE]
                 /\ Job(j, Failed(q)) \/ Job(j, Succeeded(q))
    BY <1>10 DEF Ping
  <2>2. IsJob(q)
    BY <1>1, <2>1, SMT DEF IsJob
  <2>3. /\ q.kind = job[j].kind /\ q.asked = job[j].asked /\ q.at = job[j].at
          /\ q.good = job[j].good /\ q.spent = job[j].spent /\ q.age = job[j].age
          /\ (q.failed <=> job[j].failed) /\ q.answer = job[j].answer
          /\ q.step = job[j].step /\ q.timer = job[j].timer /\ ~q.socket
    BY <1>1, <2>1, SMT DEF IsJob
  <2>4. q.timer = 0
    BY <1>1, <1>5, <2>1, <2>3 DEF TimeOK, Dialling, IsJob
  <2>5. CASE Job(j, Failed(q))
    BY <1>3, <2>2, <2>3, <2>4, <2>5
  <2>6. CASE Job(j, Succeeded(q))
    <3>1. TimeOK(q)
      BY <1>5, <2>1, <2>3 DEF TimeOK, Dialling
    <3>2. SocketOK(q)
      BY <2>3 DEF SocketOK
    <3>3. JobOK(q, gateway)
      BY <1>1, <1>2, <2>2, <2>3, <3>1, <3>2, MoveOK
    <3>4. JobOK(Succeeded(q), gateway) /\ Succeeded(q).kind = q.kind
      BY <1>1, <2>3, <2>4, <3>3, SucceededOK
    <3> QED BY <1>2, <2>3, <2>6, <3>4, JobGoesOn
  <2> QED BY <2>1, <2>5, <2>6
<1> QED BY <1>6, <1>7, <1>8, <1>9, <1>10 DEF Probe

(* A job is over.                                                          *)
LEMMA FinishStep ==
    ASSUME ProcessInv, NEW j \in Jobs, Finish(j)
    PROVE  ProcessInv'
<1>1. Job(j, Idle)
  BY DEF Finish
<1>2. JobOK(Idle, gateway) /\ Idle.step = "idle"
  BY IdleOK
<1> QED BY <1>1, <1>2, JobStep

(* The clock.                                                              *)
LEMMA TickStep ==
    ASSUME ProcessInv, Tick
    PROVE  ProcessInv'
<1>1. /\ UNCHANGED <<main, cfg, gateway, alive, ftp, health>>
      /\ job' = [j \in Jobs |-> Older(job[j])]
      /\ grace' = IF main = "shutdown" /\ grace > 0 THEN grace - 1 ELSE grace
      /\ \A j \in Jobs : Dialling(job[j]) => job[j].timer > 0
  BY DEF Tick
<1>2. DOMAIN job' = Jobs /\ \A j \in Jobs : job'[j] = Older(job[j])
  BY <1>1
<1>3. \A j \in Jobs : /\ JobOK(job'[j], gateway)
                      /\ job'[j].kind = job[j].kind /\ job'[j].step = job[j].step
  BY <1>1, <1>2, OlderOK DEF ProcessInv
<1>4. RunOK'
  <2>1. grace' \in 0..ShutdownGrace
    BY <1>1, Times DEF ProcessInv, RunOK
  <2> QED BY <1>1, <2>1 DEF ProcessInv, RunOK
<1>5. ReadyzOK'
  BY <1>1, <1>3 DEF ProcessInv, ReadyzOK, ReadyzRunning
<1> QED BY <1>1, <1>2, <1>3, <1>4, <1>5 DEF ProcessInv

(* The end of the process ends its handlers.                               *)
LEMMA ExitStep ==
    ASSUME ProcessInv, Exit
    PROVE  ProcessInv'
<1>1. /\ main' = "exit" /\ cfg' = NoConfig /\ alive' = FALSE /\ ftp' = "off" /\ health' = "off"
      /\ gateway' = gateway /\ grace' = grace
      /\ job' = [j \in Jobs |-> IF j \in Handlers THEN Idle ELSE job[j]]
  BY DEF Exit
<1>2. DOMAIN job' = Jobs /\ \A j \in Jobs : job'[j] = IF j \in Handlers THEN Idle ELSE job[j]
  BY <1>1
<1>3. RunOK'
  BY <1>1 DEF ProcessInv, RunOK
<1>4. ReadyzOK'
  BY <1>2, IdleOK DEF ProcessInv, ReadyzOK, ReadyzRunning
<1>5. \A j \in Jobs : JobOK(job'[j], gateway')
  BY <1>1, <1>2, IdleOK DEF ProcessInv
<1> QED BY <1>2, <1>3, <1>4, <1>5 DEF ProcessInv

(* run builds the gateway before any readiness check has begun.            *)
LEMMA ListenStep ==
    ASSUME ProcessInv, Listen
    PROVE  ProcessInv'
<1>1. /\ main = "loaded" /\ main' = "bound" /\ cfg' = NoConfig
      /\ gateway' = [required |-> cfg.readinessRequiresSftp, users |-> Names(cfg)]
      /\ ftp' = "serving" /\ health' = "starting" /\ UNCHANGED <<alive, grace, job>>
  BY DEF Listen, Main
<1>2. cfg \in Loaded
  BY <1>1 DEF ProcessInv, RunOK
<1>3. RunOK'
  <2>1. cfg.readinessRequiresSftp \in BOOLEAN
    BY <1>2, LoadedFields
  <2>2. Names(cfg) \in Seq(STRING)
    BY <1>2, NamesDistinct
  <2>3. gateway' \in [required : BOOLEAN, users : Seq(STRING)]
    BY <1>1, <2>1, <2>2
  <2> QED BY <1>1, <2>3 DEF ProcessInv, RunOK
<1>4. \A j \in Jobs : ~ReadyzRunning(j)
  BY <1>1 DEF ProcessInv, ReadyzOK
<1>5. ReadyzOK'
  BY <1>1, <1>4 DEF ReadyzOK, ReadyzRunning
<1>6. ASSUME NEW j \in Jobs PROVE JobOK(job[j], gateway')
  <2>1. JobOK(job[j], gateway)
    BY DEF ProcessInv
  <2>2. job[j].kind = "readyz" => job[j].step = "idle"
    BY <1>4 DEF ReadyzRunning
  <2>3. AnswerOK(job[j], gateway')
    BY <2>1, <2>2 DEF JobOK, AnswerOK
  <2> QED BY <2>1, <2>3 DEF JobOK
<1> QED BY <1>1, <1>3, <1>5, <1>6 DEF ProcessInv

(* run, the two servers, and steps that leave the jobs alone.              *)
LEMMA RunStep ==
    ASSUME ProcessInv, Run \/ HealthListens \/ ServerFails \/ UNCHANGED vars
    PROVE  ProcessInv'
<1>1. CASE LoadFails \/ ListenFails \/ SignalKills \/ ShutdownComplete
  BY <1>1, ExitStep DEF LoadFails, ListenFails, SignalKills, ShutdownComplete
<1>2. CASE Listen
  BY <1>2, ListenStep
<1>3. CASE \/ Load \/ SetAlive \/ ServerStopped \/ Signal \/ StopServing \/ Drained
           \/ HealthListens \/ ServerFails \/ UNCHANGED vars
  <2>1. UNCHANGED <<gateway, grace, job>>
    BY <1>3 DEF Load, SetAlive, ServerStopped, Signal, StopServing, Drained, HealthListens,
                ServerFails, vars, servers
  <2>2. main \in {"start", "loaded", "exit"} \/ main' \notin {"start", "loaded", "exit"}
    BY <1>3 DEF Load, SetAlive, ServerStopped, Signal, StopServing, Drained, HealthListens,
                ServerFails, vars, servers, Main, StopOn
  <2>3. ReadyzOK'
    <3>1. main' \in {"start", "loaded", "exit"} => main \in {"start", "loaded", "exit"}
      BY <2>2
    <3> QED BY <2>1, <3>1 DEF ProcessInv, ReadyzOK, ReadyzRunning
  <2>4. RunOK'
    <3>1. CASE Load
      BY <3>1 DEF Load, Main, servers, ProcessInv, RunOK
    <3>2. CASE SetAlive
      BY <3>2 DEF SetAlive, Main, ProcessInv, RunOK
    <3>3. CASE ServerStopped
      BY <3>3 DEF ServerStopped, StopOn, Main, ProcessInv, RunOK
    <3>4. CASE Signal
      BY <3>4 DEF Signal, Main, servers, ProcessInv, RunOK
    <3>5. CASE StopServing
      BY <3>5 DEF StopServing, Main, ProcessInv, RunOK
    <3>6. CASE Drained
      BY <3>6 DEF Drained, Main, ProcessInv, RunOK
    <3>7. CASE HealthListens
      BY <3>7 DEF HealthListens, ProcessInv, RunOK
    <3>8. CASE ServerFails
      BY <3>8 DEF ServerFails, ProcessInv, RunOK
    <3>9. CASE UNCHANGED vars
      BY <3>9 DEF vars, servers, ProcessInv, RunOK
    <3> QED BY <1>3, <3>1, <3>2, <3>3, <3>4, <3>5, <3>6, <3>7, <3>8, <3>9
  <2> QED BY <2>1, <2>3, <2>4 DEF ProcessInv
<1> QED BY <1>1, <1>2, <1>3 DEF Run

(* The inductive invariant holds.                                          *)
LEMMA ProcessInvariant == Spec => []ProcessInv
<1>1. Init => ProcessInv
  <2> SUFFICES ASSUME Init PROVE ProcessInv
    OBVIOUS
  <2>1. DOMAIN job = Jobs /\ \A j \in Jobs : job[j] = Idle
    BY DEF Init
  <2>2. \A j \in Jobs : JobOK(job[j], gateway)
    BY <2>1, IdleOK
  <2>3. ReadyzOK
    BY <2>1, IdleOK DEF ReadyzOK, ReadyzRunning
  <2>4. <<>> \in Seq(STRING)
    OBVIOUS
  <2>5. gateway \in [required : BOOLEAN, users : Seq(STRING)]
    BY <2>4 DEF Init, NoGateway
  <2>6. RunOK
    <3>1. grace \in 0..ShutdownGrace
      BY Times DEF Init
    <3>2. alive \in BOOLEAN /\ main = "start" /\ cfg = NoConfig /\ ftp = "off" /\ health = "off"
      BY DEF Init
    <3> QED BY <2>5, <3>1, <3>2 DEF RunOK
  <2> QED BY <2>1, <2>2, <2>3, <2>6 DEF ProcessInv
<1>2. ProcessInv /\ [Next]_vars => ProcessInv'
  BY RunStep, TickStep, HandlerStep, CommandStep, WalkStep, ProbeStep, FinishStep DEF Next
<1> QED BY <1>1, <1>2, PTL DEF Spec

-----------------------------------------------------------------------------
(* What the runs check, for every value of the constants.                  *)

(* Every variable keeps to its values, and only a dial step has a timer    *)
(* (main.go:51-229, health/server.go:39-125, cli.go:130-209).              *)
THEOREM ProcessTypeCorrect == Spec => []TypeOK
<1>1. ProcessInv => TypeOK
  <2> SUFFICES ASSUME ProcessInv PROVE TypeOK
    OBVIOUS
  <2>1. main = "loaded" <=> cfg # NoConfig
    BY LoadedFields DEF ProcessInv, RunOK
  <2>2. gateway.required \in BOOLEAN
    BY DEF ProcessInv, RunOK
  <2>3. ASSUME NEW j \in Jobs
        PROVE  /\ job[j].kind \in Kinds
               /\ job[j].step \in Steps
               /\ job[j].good \subseteq ToSet(job[j].asked)
               /\ job[j].timer \in 0..(IF Dialling(job[j]) THEN DialTimeout ELSE 0)
               /\ job[j].age \in 0..(ReadinessTimeout + 1)
               /\ job[j].answer \in Answers
    <3>1. IsJob(job[j]) /\ WalkOK(job[j]) /\ TimeOK(job[j])
      BY DEF ProcessInv, JobOK
    <3>2. /\ job[j].kind \in Kinds /\ job[j].step \in Steps /\ job[j].age \in 0..(ReadinessTimeout + 1)
          /\ job[j].answer \in Answers /\ job[j].asked \in Seq(STRING)
      BY <3>1 DEF IsJob
    <3>3. job[j].good \subseteq ToSet(job[j].asked)
      BY <3>1, <3>2, ToSetFacts DEF WalkOK
    <3>4. job[j].timer \in 0..(IF Dialling(job[j]) THEN DialTimeout ELSE 0)
      BY <3>1, Times DEF TimeOK, IsJob
    <3> QED BY <3>2, <3>3, <3>4
  <2> QED BY <2>1, <2>2, <2>3 DEF ProcessInv, RunOK, TypeOK, Steps, Answers
<1> QED BY <1>1, ProcessInvariant, PTL

(* Distinct names are as many as there are users.                          *)
LEMMA DistinctCount ==
    ASSUME NEW s \in Seq(STRING), \A i, k \in DOMAIN s : s[i] = s[k] => i = k
    PROVE  Cardinality(ToSet(s)) = Len(s)
<1>1. DOMAIN s = 1..Len(s) /\ Len(s) \in Nat
  BY ToSetFacts
<1>2. s \in Bijection(1..Len(s), ToSet(s))
  <2>1. s \in [1..Len(s) -> ToSet(s)]
    BY <1>1, ToSetFacts
  <2>2. \A x \in ToSet(s) : \E i \in 1..Len(s) : s[i] = x
    BY <1>1, ToSetFacts
  <2>3. \A i, k \in 1..Len(s) : s[i] = s[k] => i = k
    BY <1>1
  <2>4. s \in Injection(1..Len(s), ToSet(s))
    BY <1>1, <2>1, <2>3 DEF Injection, IsInjective
  <2>5. s \in Surjection(1..Len(s), ToSet(s))
    BY <2>1, <2>2 DEF Surjection
  <2> QED BY <2>4, <2>5 DEF Bijection
<1>3. ExistsBijection(1..Len(s), ToSet(s))
  BY <1>2 DEF ExistsBijection
<1> QED BY <1>1, <1>3, FS_CountingElements

(* Whatever the file says, what Load accepts has connections, transfers    *)
(* and passive ports to serve them, distinct users, and for each one and   *)
(* only one way to log in at the SFTP server; of the files that his dial   *)
(* reads, the passphrase file alone has not been looked at (load.go:14-32, *)
(* validate.go:15-200, dial.go:46-58, 94-145).                             *)
THEOREM LoadAcceptsUsable == Spec => []AcceptedIsUsable
<1>1. ProcessInv => AcceptedIsUsable
  <2> SUFFICES ASSUME ProcessInv, main = "loaded"
               PROVE  /\ cfg.maxConnections >= 1
                      /\ {cfg.controlPort, cfg.passivePortStart, cfg.passivePortEnd} \subseteq Ports
                      /\ Cardinality(cfg.passivePortStart..cfg.passivePortEnd) >= cfg.maxConnections
                      /\ cfg.temporarySuffix # ""
                      /\ Cardinality(ToSet(Names(cfg))) = Len(cfg.users)
                      /\ cfg.users # <<>>
                      /\ \A u \in ToSet(cfg.users) :
                            /\ u.username # "" /\ u.maxConcurrentTransfers >= 1
                            /\ AuthMethod(u) # "none" /\ (u.key = "" \/ u.password = "")
                            /\ Unreadable(u) \subseteq {"passphrase"}
                            /\ u.virtualRoot = "abs"
    BY DEF AcceptedIsUsable
  <2>1. PICK c \in Loaded : c = cfg
    BY DEF ProcessInv, RunOK
  <2>2. Validate(c) = {}
    BY LoadedFields
  <2>3. validateServer(c) = {} /\ validateTransfer(c) = {}
    BY <2>2, Zenon DEF Validate
  <2>4. /\ {c.controlPort, c.passivePortStart, c.passivePortEnd} \subseteq Ports
        /\ c.maxConnections >= 1
        /\ c.passivePortEnd - c.passivePortStart + 1 >= c.maxConnections
        /\ c.passivePortEnd > c.passivePortStart
    BY <2>3, ServerValid
  <2>5. Cardinality(c.passivePortStart..c.passivePortEnd) >= c.maxConnections
    <3>1. c.passivePortStart \in Int /\ c.passivePortEnd \in Int
      BY LoadedFields
    <3>2. Cardinality(c.passivePortStart..c.passivePortEnd) =
             IF c.passivePortStart > c.passivePortEnd THEN 0
             ELSE c.passivePortEnd - c.passivePortStart + 1
      BY <3>1, FS_Interval
    <3> QED BY <2>4, <3>1, <3>2
  <2>6. c.temporarySuffix # ""
    <3> DEFINE buffer == If(c.bufferSize < 4096, "bufferSize")
               suffix == If(c.temporarySuffix = "", "temporarySuffix")
    <3>1. validateTransfer(c) = buffer \cup suffix
      BY DEF validateTransfer
    <3>2. c.temporarySuffix = "" => suffix = {"temporarySuffix"}
      BY DEF If
    <3> HIDE DEF buffer, suffix
    <3> QED BY <2>3, <3>1, <3>2
  <2>7. Cardinality(ToSet(Names(c))) = Len(c.users)
    BY NamesDistinct, DistinctCount
  <2>8. c.users # <<>>
    BY UsersValid
  <2>9. \A u \in ToSet(c.users) : u \in DefaultedUser /\ validateUser(u) = {}
    <3>1. c.users \in Seq(DefaultedUser) /\ \A i \in DOMAIN c.users : validateUser(c.users[i]) = {}
      BY UsersValid
    <3>2. ASSUME NEW u \in ToSet(c.users) PROVE \E i \in DOMAIN c.users : c.users[i] = u
      BY <3>2 DEF ToSet
    <3>3. \A i \in DOMAIN c.users : c.users[i] \in DefaultedUser
      BY <3>1
    <3> QED BY <3>1, <3>2, <3>3
  <2> QED BY <2>1, <2>4, <2>5, <2>6, <2>7, <2>8, <2>9, UserValid
<1> QED BY <1>1, ProcessInvariant, PTL

(* No path out of a probe leaves its socket open (main.go:205-229,         *)
(* dial.go:75-87, client.go:36-47).                                        *)
THEOREM ProbesCloseTheirSockets == Spec => []NoProbeLeak
<1>1. ProcessInv => NoProbeLeak
  BY DEF ProcessInv, JobOK, SocketOK, NoProbeLeak
<1> QED BY <1>1, ProcessInvariant, PTL

(* /readyz says 200 under readinessRequiresSftp only when the probe of     *)
(* every configured user succeeded for this very request                   *)
(* (health/server.go:102-125, main.go:183-197).                            *)
THEOREM ReadyzTruthful == Spec => []ReadyTruthful
<1>1. ProcessInv => ReadyTruthful
  BY DEF ProcessInv, Jobs, JobOK, AnswerOK, ReadyTruthful
<1> QED BY <1>1, ProcessInvariant, PTL

(* A readiness check dials for no longer than its timeout and one probe,   *)
(* however many users there are.  That bounds only the steps of a probe    *)
(* that have a deadline (main.go:183-197, dial.go:66-87).                  *)
THEOREM ReadyzDialsBounded == Spec => []ReadyzDialBounded
<1>1. ProcessInv => ReadyzDialBounded
  BY DEF ProcessInv, Jobs, JobOK, TimeOK, ReadyzDialBounded
<1> QED BY <1>1, ProcessInvariant, PTL

(* The exit code of check-connectivity tells exactly whether every probe   *)
(* it made succeeded, for any number of users (cli.go:177-209).            *)
THEOREM ExitCodeTruthful == Spec => []ConnectivityTruthful
<1>1. ProcessInv => ConnectivityTruthful
  BY DEF ProcessInv, Jobs, JobOK, AnswerOK, ConnectivityTruthful
<1> QED BY <1>1, ProcessInvariant, PTL

=============================================================================
