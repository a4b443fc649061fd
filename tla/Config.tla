-------------------------------- MODULE Config --------------------------------
(***************************************************************************)
(* internal/config: what Load makes of a configuration file.               *)
(*                                                                         *)
(* A configuration is a record with the fields of the file.  Of a string   *)
(* its value says what the code asks of it: an address or a name is "" or  *)
(* not, a path is "abs", "rel" or "dotdot" (absolute, with ".." in it), a  *)
(* file name says what lies there ("file", "dir", "missing"), a password   *)
(* hash is a "bcrypt" one or not.                                          *)
(***************************************************************************)
EXTENDS Integers, Sequences

Ports == 1..65535

(* A user with his SFTP target, and the whole file.                        *)
UserConfig ==
    [username : STRING, passwordHash : STRING, virtualRoot : STRING, maxFileSize : Int,
     maxConcurrentTransfers : Int, host : STRING, sftpPort : Int, sftpUser : STRING,
     rootPath : STRING, knownHosts : STRING, key : STRING, passphrase : STRING,
     password : STRING, connectTimeout : Int, readDirTimeout : Int]

ConfigFile ==
    [listenAddress : STRING, controlPort : Int, passiveAddress : STRING,
     passivePortStart : Int, passivePortEnd : Int, maxConnections : Int,
     idleTimeout : Int, dataConnectionTimeout : Int, shutdownTimeout : Int, bufferSize : Int,
     temporarySuffix : STRING, logLevel : STRING, logFormat : STRING, healthAddress : STRING,
     readinessRequiresSftp : BOOLEAN, users : Seq(UserConfig)]

(* A field that is absent or zero takes its default.                       *)
Default(value, zero, default) == IF value = zero THEN default ELSE value

UserDefaults(u) ==
    [u EXCEPT !.virtualRoot = Default(@, "", "abs"),
              !.sftpPort = Default(@, 0, 22),
              !.connectTimeout = Default(@, 0, 10),
              !.readDirTimeout = Default(@, 0, 60),
              !.maxConcurrentTransfers = Default(@, 0, 4)]

applyDefaults(c) ==
    [c EXCEPT !.idleTimeout = Default(@, 0, 300),
              !.dataConnectionTimeout = Default(@, 0, 30),
              !.shutdownTimeout = Default(@, 0, 15),
              !.bufferSize = Default(@, 0, 65536),
              !.temporarySuffix = Default(@, "", ".part"),
              !.logLevel = Default(@, "", "info"),
              !.logFormat = Default(@, "", "json"),
              !.healthAddress = Default(@, "", ":8080"),
              !.users = [i \in DOMAIN @ |-> UserDefaults(@[i])]]

(* The names of the problems for which the condition holds.                *)
If(condition, problem) == IF condition THEN {problem} ELSE {}

(* Mutant: the passive range is counted without its last port.             *)
validateServerShort(c) ==
    If(c.listenAddress = "", "listenAddress")
    \cup If(c.controlPort \notin Ports, "controlPort")
    \cup If(c.passiveAddress = "", "passiveAddress")
    \cup If(c.passivePortStart \notin Ports, "passivePortStart")
    \cup If(c.passivePortEnd \notin Ports, "passivePortEnd")
    \cup If(c.passivePortStart > 0 /\ c.passivePortEnd > 0 /\
            (c.passivePortEnd <= c.passivePortStart
             \/ c.passivePortEnd - c.passivePortStart + 2 < c.maxConnections), "passiveRange")
    \cup If(c.maxConnections < 1, "maxConnections")

validateServer(c) ==
    If(c.listenAddress = "", "listenAddress")
    \cup If(c.controlPort \notin Ports, "controlPort")
    \cup If(c.passiveAddress = "", "passiveAddress")
    \cup If(c.passivePortStart \notin Ports, "passivePortStart")
    \cup If(c.passivePortEnd \notin Ports, "passivePortEnd")
    \cup If(c.passivePortStart > 0 /\ c.passivePortEnd > 0 /\
            (c.passivePortEnd <= c.passivePortStart
             \/ c.passivePortEnd - c.passivePortStart + 1 < c.maxConnections), "passiveRange")
    \cup If(c.maxConnections < 1, "maxConnections")

validateTransfer(c) ==
    If(c.bufferSize < 4096, "bufferSize") \cup If(c.temporarySuffix = "", "temporarySuffix")

validateObservability(c) ==
    If(c.logFormat \notin {"json", "text"}, "logFormat")
    \cup If(c.logLevel \notin {"debug", "info", "warn", "error"}, "logLevel")

validateSFTPTarget(u) ==
    If(u.host = "", "host")
    \cup If(u.sftpPort \notin Ports, "sftpPort")
    \cup If(u.sftpUser = "", "sftpUser")
    \cup If(u.rootPath \notin {"abs", "dotdot"}, "rootPath")
    \cup If(u.knownHosts # "file", "knownHosts")
    \cup If(u.key = "" /\ u.password = "", "noAuthentication")
    \cup If(u.key # "" /\ u.password # "", "twoAuthentications")
    \cup If(u.key \notin {"", "file"} /\ u.password = "", "key")

validateUser(u) ==
    If(u.username = "", "username")
    \cup If(u.passwordHash # "bcrypt", "passwordHash")
    \cup If(u.virtualRoot \notin {"abs", "dotdot"}, "virtualRootRelative")
    \cup If(u.virtualRoot = "dotdot", "virtualRootDots")
    \cup If(u.maxFileSize <= 0, "maxFileSize")
    \cup If(u.maxConcurrentTransfers <= 0, "maxConcurrentTransfers")
    \cup validateSFTPTarget(u)

(* Validate collects every problem there is.                               *)
Validate(c) ==
    validateServer(c) \cup validateTransfer(c) \cup validateObservability(c)
    \cup If(c.users = <<>>, "users")
    \cup If(\E i, j \in DOMAIN c.users : i < j /\ c.users[i].username = c.users[j].username,
            "duplicateUser")
    \cup UNION {validateUser(c.users[i]) : i \in DOMAIN c.users}

(* buildAuthMethods: the one method Dial will use, or none.                *)
AuthMethod(u) ==
    IF u.key # "" THEN "key" ELSE IF u.password # "" THEN "password" ELSE "none"

(* knownhosts.New and loadSigner: the files that Dial needs and cannot     *)
(* read.  A key has a passphrase only if the file says where it is.        *)
Unreadable(u) ==
    If(u.knownHosts # "file", "knownHosts")
    \cup If(AuthMethod(u) = "key" /\ u.key # "file", "key")
    \cup If(AuthMethod(u) = "key" /\ u.passphrase \notin {"", "file"}, "passphrase")
=============================================================================
