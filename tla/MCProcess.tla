------------------------------ MODULE MCProcess ------------------------------
(* A configuration with two users, and what becomes of it when up to two   *)
(* fields outside the users, or up to two of the first user's, are written *)
(* otherwise.                                                              *)
EXTENDS Process

User(name) ==
    [username |-> name, passwordHash |-> "bcrypt", virtualRoot |-> "", maxFileSize |-> 1,
     maxConcurrentTransfers |-> 0, host |-> "host", sftpPort |-> 0, sftpUser |-> "user",
     rootPath |-> "abs", knownHosts |-> "file", key |-> "file", passphrase |-> "",
     password |-> "", connectTimeout |-> 0, readDirTimeout |-> 0]

Base ==
    [listenAddress |-> "any", controlPort |-> 2121, passiveAddress |-> "host",
     passivePortStart |-> 50000, passivePortEnd |-> 50001, maxConnections |-> 2,
     idleTimeout |-> 0, dataConnectionTimeout |-> 0, shutdownTimeout |-> 0, bufferSize |-> 0,
     temporarySuffix |-> "", logLevel |-> "", logFormat |-> "", healthAddress |-> "",
     readinessRequiresSftp |-> TRUE, users |-> <<User("u1"), User("u2")>>]

(* The records that differ from this one in one field.                     *)
Altered(record, values) ==
    UNION {{[record EXCEPT ![f] = v] : v \in values[f]} : f \in DOMAIN values}

ServerValues ==
    [listenAddress |-> {""}, controlPort |-> {0, 65536}, passiveAddress |-> {""},
     passivePortStart |-> {0, 49999, 50001, 65536}, passivePortEnd |-> {-1, 50000, 65535, 65536},
     maxConnections |-> {-1, 0, 1, 3}, shutdownTimeout |-> {-1, 5}, bufferSize |-> {1, 4096},
     temporarySuffix |-> {".tmp"}, logLevel |-> {"loud"}, logFormat |-> {"xml"},
     healthAddress |-> {"bad"}, readinessRequiresSftp |-> {FALSE},
     users |-> {<<>>, <<User("u1")>>, <<User("u1"), User("u1")>>}]

UserValues ==
    [username |-> {"", "u2"}, passwordHash |-> {"", "plain"}, virtualRoot |-> {"abs", "rel", "dotdot"},
     maxFileSize |-> {0, -1}, maxConcurrentTransfers |-> {-1, 1}, host |-> {""},
     sftpPort |-> {-1, 65536}, sftpUser |-> {""}, rootPath |-> {"", "rel"},
     knownHosts |-> {"", "dir", "missing"}, key |-> {"", "dir", "missing"},
     passphrase |-> {"file", "missing"}, password |-> {"secret"}]

AlteredUser(u) == LET once == Altered(u, UserValues) IN once \cup UNION {Altered(v, UserValues) : v \in once}

MCFiles ==
    LET once == {Base} \cup Altered(Base, ServerValues)
    IN  once
        \cup UNION {Altered(c, ServerValues) : c \in once}
        \cup {[Base EXCEPT !.users = <<u, User("u2")>>] : u \in AlteredUser(User("u1"))}
=============================================================================
