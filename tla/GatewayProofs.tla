----------------------------- MODULE GatewayProofs -----------------------------
(***************************************************************************)
(* What holds of Gateway for every number of connections, every limit and  *)
(* every number of logins, whichever connections run commands beside their *)
(* control loops.                                                          *)
(***************************************************************************)
EXTENDS Gateway, FiniteSetTheorems, TLAPS

(* The types, with the counters as integers: that they never fall below    *)
(* zero follows from what they count.                                      *)
Typed ==
    /\ main \in {"serving", "prepare", "stop", "drain", "blocked", "force", "wait",
                 "clean", "exit"}
    /\ {listening, shuttingDown, deadline, finished, drained} \subseteq BOOLEAN
    /\ control \in [Conns -> {"new", "up", "rejected", "gone"} \cup Admitting \cup Ending]
    /\ worker \in [Conns -> {"idle", "begun", "dialing", "opening", "using", "invalidating",
                             "discarding", "uncounting"}]
    /\ logins \in [Conns -> 0..MaxLogins]
    /\ registered \in SUBSET Conns
    /\ killed \in SUBSET Conns
    /\ active \in Int
    /\ sessions \in Int
    /\ sftp \in [AllSessions -> {"none", "up", "dead", "failed"}]
    /\ closed \in [AllSessions -> BOOLEAN]
    /\ was \in [Conns -> BOOLEAN]
    /\ gauge \in Int
    /\ late \in SUBSET Conns

(* How far a connection has come in relation to its sessions.              *)
LoginOrder(c) ==
    /\ control[c] \in {"new", "rejected"} \cup Admitting => logins[c] = 0
    /\ control[c] \in {"asked", "closing", "releasing", "closed"} => logins[c] > 0
    /\ worker[c] # "idle" => logins[c] > 0
    /\ c \notin Background /\ control[c] # "up" => worker[c] = "idle"

(* Session.mu keeps ClientDisconnected and a command that dials or         *)
(* discards apart: the session a command dials for is open and has no      *)
(* client, the one it discards a client of has it still, and the one that  *)
(* ClientDisconnected has closed has none.                                 *)
MuExcludes(c) ==
    /\ MuHeld(c) => control[c] \notin {"releasing", "closed", "gone"}
    /\ worker[c] \in {"dialing", "opening"} => sftp[Sess(c)] = "none"
    /\ worker[c] = "discarding" => sftp[Sess(c)] # "none"
    /\ control[c] = "releasing" => closed[Sess(c)] /\ sftp[Sess(c)] # "none"
    /\ control[c] \in {"closed", "gone"} /\ logins[c] > 0 =>
          closed[Sess(c)] /\ sftp[Sess(c)] = "none"
    /\ \A k \in 1..MaxLogins : k > logins[c] => sftp[<<c, k>>] = "none"

(* What ClientDisconnected and maybeInvalidate have read of the session is *)
(* still true, unless a command runs beside the control loop or the        *)
(* session has been closed.                                                *)
ReadsFresh(c) ==
    /\ worker[c] = "invalidating" =>
          sftp[Sess(c)] # "none" \/ control[c] \in {"closed", "gone"}
    /\ c \notin Background /\ control[c] \in {"closing", "releasing"} =>
          (was[c] <=> sftp[Sess(c)] # "none")

SessionInv == \A c \in Conns : LoginOrder(c) /\ MuExcludes(c) /\ ReadsFresh(c)

(* The WaitGroup counts at least the connections that have a session.      *)
WaitGroupCovers == Cardinality(LoggedIn) <= sessions

(* sessions.Wait() has seen the sessions begun before it returned.         *)
WaitSaw == finished => \A c \in Conns \ late : logins[c] > 0 => control[c] = "gone"

Held    == {x \in AllSessions : sftp[x] # "none"}
Leaving == {c \in Conns : control[c] = "closed" /\ was[c]}
Dropped == {c \in Conns : worker[c] = "uncounting"}
Due     == Cardinality(Held) + Cardinality(Leaving) + Cardinality(Dropped)

(* The gauge is what GaugeDrift subtracts, one more for each connection of *)
(* a set P and one less for each of a set M.  Only closing the session can *)
(* bring a connection into P, and a connection that may yet decrement the  *)
(* gauge for a client that is gone is not in M.                            *)
Drifts(P, M) ==
    /\ P \subseteq {c \in Background : control[c] \in {"closed", "gone"}}
    /\ M \subseteq {c \in Background : control[c] \in {"closed", "gone"} /\ worker[c] # "invalidating"}
    /\ gauge = Due + Cardinality(P) - Cardinality(M)

GaugeInv == \E P, M \in SUBSET Conns : Drifts(P, M)

-----------------------------------------------------------------------------
(* Types.                                                                  *)

(* The initial state is well typed.                                        *)
LEMMA TypedInit == Init => Typed
<1> SUFFICES ASSUME Init PROVE Typed
  OBVIOUS
<1>1. logins \in [Conns -> 0..MaxLogins]
  BY GatewayAssumption DEF Init
<1>2. closed \in [AllSessions -> BOOLEAN] /\ was \in [Conns -> BOOLEAN]
  BY DEF Init
<1>3. {listening, shuttingDown, deadline, finished, drained} \subseteq BOOLEAN
  BY DEF Init
<1> QED BY <1>1, <1>2, <1>3 DEF Init, Typed

(* What a connection's control loop does keeps the types.                  *)
LEMMA TypedConnection ==
    ASSUME Typed, NEW c \in Conns, Connection(c)
    PROVE  Typed'
<1>1. CASE Accept(c) \/ LoadShuttingDown(c)
  BY <1>1 DEF Accept, LoadShuttingDown, Control, Typed, exitVars, connVars, sftpVars, Admitting
<1>2. CASE CountConnection(c) \/ UncountConnection(c) \/ Register(c)
  BY <1>2 DEF CountConnection, UncountConnection, Register, Control, Typed, exitVars, sftpVars,
              Admitting
<1>3. CASE AuthUser(c)
  BY <1>3, GatewayAssumption DEF AuthUser, Typed, exitVars
<1>4. CASE ControlEnds(c)
  BY <1>4 DEF ControlEnds, Control, Typed, exitVars, connVars, sftpVars, Ending
<1>5. CASE DisconnectRejected(c) \/ Unregister(c)
  BY <1>5 DEF DisconnectRejected, Unregister, Control, Typed, exitVars, sftpVars, Ending
<1>6. CASE AskConnected(c) \/ CloseSession(c) \/ CloseReturns(c)
  BY <1>6 DEF AskConnected, CloseSession, CloseReturns, Control, Typed, exitVars, connVars, Ending
<1>7. CASE SessionDone(c)
  BY <1>7 DEF SessionDone, Control, Typed, exitVars
<1> QED BY <1>1, <1>2, <1>3, <1>4, <1>5, <1>6, <1>7 DEF Connection, Disconnecting

(* What a command does keeps the types.                                    *)
LEMMA TypedCommand ==
    ASSUME Typed, NEW c \in Conns, Command(c)
    PROVE  Typed'
<1>1. CASE BeginCommand(c) \/ SFTP(c) \/ Dial(c)
  BY <1>1 DEF BeginCommand, SFTP, Dial, Worker, Typed, exitVars, connVars, sftpVars
<1>2. CASE OperationReturns(c) \/ OperationFindsDead(c) \/ OperationTimesOut(c)
  BY <1>2 DEF OperationReturns, OperationFindsDead, OperationTimesOut, Worker, Typed, exitVars,
              connVars, sftpVars
<1>3. CASE OpenSubsystem(c) \/ InvalidateSFTP(c) \/ InvalidateReturns(c) \/ InvalidateDone(c)
  BY <1>3 DEF OpenSubsystem, InvalidateSFTP, InvalidateReturns, InvalidateDone, Worker, Typed,
              exitVars, connVars, sftpVars
<1> QED BY <1>1, <1>2, <1>3 DEF Command

(* What main and the network do keeps the types.                           *)
LEMMA TypedRest ==
    ASSUME Typed, Signal \/ Shutdown \/ \E x \in AllSessions : ConnectionLost(x)
    PROVE  Typed'
<1>1. CASE \E x \in AllSessions : ConnectionLost(x)
  BY <1>1 DEF ConnectionLost, Typed, exitVars, connVars
<1>2. CASE Signal \/ PrepareShutdown \/ StopListening \/ Select \/ DeadlineFires
  BY <1>2 DEF Signal, PrepareShutdown, StopListening, Select, DeadlineFires, Main, Wake, Typed,
              connVars, sftpVars
<1>3. CASE WaitReturns \/ WaitForSessions \/ CloseAllConnections \/ Exit
  BY <1>3 DEF WaitReturns, WaitForSessions, CloseAllConnections, Exit, Main, Wake, Typed,
              connVars, sftpVars
<1> QED BY <1>1, <1>2, <1>3 DEF Shutdown

(* Every step keeps the types.                                             *)
LEMMA TypedNext == Typed /\ [Next]_vars => Typed'
<1>1. CASE UNCHANGED vars
  BY <1>1 DEF vars, Typed
<1> QED BY <1>1, TypedConnection, TypedCommand, TypedRest DEF Next

-----------------------------------------------------------------------------
(* The sessions of a connection.                                           *)

(* A step of connection c leaves the other connections' sessions alone.    *)
Others(c) ==
    \A d \in Conns \ {c} :
        /\ control'[d] = control[d] /\ worker'[d] = worker[d]
        /\ logins'[d] = logins[d] /\ was'[d] = was[d]
        /\ \A k \in 1..MaxLogins :
              sftp'[<<d, k>>] = sftp[<<d, k>>] /\ closed'[<<d, k>>] = closed[<<d, k>>]

ConnInv(c) == LoginOrder(c) /\ MuExcludes(c) /\ ReadsFresh(c)

(* The last session of a connection that has logged in is a session.       *)
LEMMA SessIsSession ==
    ASSUME Typed, NEW c \in Conns, logins[c] > 0
    PROVE  Sess(c) \in AllSessions /\ logins[c] \in 1..MaxLogins
BY GatewayAssumption DEF Typed, Sess, AllSessions

(* So only the connection that takes the step has to be looked at.         *)
LEMMA ConnFrame ==
    ASSUME Typed, SessionInv, NEW c \in Conns, Others(c), ConnInv(c)'
    PROVE  SessionInv'
<1> SUFFICES ASSUME NEW d \in Conns, d # c PROVE ConnInv(d)'
  BY DEF SessionInv, ConnInv
<1>1. ConnInv(d)
  BY DEF SessionInv, ConnInv
<1>2. control'[d] = control[d] /\ worker'[d] = worker[d] /\ logins'[d] = logins[d] /\ was'[d] = was[d]
  BY DEF Others
<1>3. logins[d] > 0 => sftp'[Sess(d)] = sftp[Sess(d)] /\ closed'[Sess(d)] = closed[Sess(d)]
  BY SessIsSession DEF Others, Sess
<1>4. Sess(d)' = Sess(d)
  BY <1>2 DEF Sess
<1>5. LoginOrder(d)'
  BY <1>1, <1>2 DEF ConnInv, LoginOrder
<1>6. MuExcludes(d)'
  <2>1. \A k \in 1..MaxLogins : k > logins'[d] => sftp'[<<d, k>>] = "none"
    BY <1>1, <1>2 DEF ConnInv, MuExcludes, Others
  <2> QED BY <1>1, <1>2, <1>3, <1>4, <2>1 DEF ConnInv, LoginOrder, MuExcludes, MuHeld
<1>7. ReadsFresh(d)'
  BY <1>1, <1>2, <1>3, <1>4 DEF ConnInv, LoginOrder, ReadsFresh
<1> QED BY <1>5, <1>6, <1>7 DEF ConnInv

(* What a connection's control loop does keeps its sessions in order.      *)
LEMMA SessionConnection ==
    ASSUME Typed, SessionInv, NEW c \in Conns, Connection(c)
    PROVE  SessionInv'
<1> USE DEF Others, exitVars, connVars, sftpVars
<1>1. LoginOrder(c) /\ MuExcludes(c) /\ ReadsFresh(c)
  BY DEF SessionInv
<1>2. CASE Accept(c) \/ LoadShuttingDown(c) \/ CountConnection(c) \/ UncountConnection(c)
           \/ Register(c) \/ DisconnectRejected(c) \/ Unregister(c)
  <2>1. Others(c)
    BY <1>2 DEF Accept, LoadShuttingDown, CountConnection, UncountConnection, Register, Control,
                DisconnectRejected, Unregister, Typed
  <2>2. UNCHANGED <<worker, logins, was, sftp, closed>> /\ UNCHANGED Sess(c)
    BY <1>2 DEF Accept, LoadShuttingDown, CountConnection, UncountConnection, Register,
                DisconnectRejected, Unregister, Sess
  <2>3. /\ control[c] \in {"new", "rejected", "ending"} \cup Admitting
        /\ control'[c] \in {"rejected", "up", "asked", "gone"} \cup Admitting
        /\ control[c] = "ending" =>
              control'[c] = IF logins[c] > 0 THEN "asked" ELSE "gone"
        /\ control[c] # "ending" => control'[c] # "asked"
    BY <1>2 DEF Accept, LoadShuttingDown, CountConnection, UncountConnection, Register, Control,
                DisconnectRejected, Unregister, Typed, Admitting
  <2>4. LoginOrder(c)'
    BY <1>1, <2>2, <2>3 DEF LoginOrder, Admitting, Typed
  <2>5. MuExcludes(c)'
    BY <1>1, <2>2, <2>3 DEF LoginOrder, MuExcludes, MuHeld, Admitting, Typed
  <2>6. ReadsFresh(c)'
    BY <1>1, <2>2, <2>3 DEF LoginOrder, ReadsFresh, Admitting, Typed
  <2> QED BY <2>1, <2>4, <2>5, <2>6, ConnFrame DEF ConnInv
<1>3. CASE AuthUser(c)
  <2>1. Others(c)
    BY <1>3 DEF AuthUser, Typed
  <2>2. /\ control'[c] = "up" /\ worker'[c] = "idle" /\ logins'[c] = logins[c] + 1
        /\ UNCHANGED sftp /\ logins[c] \in Nat
    BY <1>3 DEF AuthUser, Typed
  <2>3. LoginOrder(c)' /\ ReadsFresh(c)'
    BY <2>2 DEF LoginOrder, ReadsFresh, Admitting
  <2>4. MuExcludes(c)'
    BY <1>1, <2>2 DEF MuExcludes, MuHeld
  <2> QED BY <2>1, <2>3, <2>4, ConnFrame DEF ConnInv
<1>4. CASE ControlEnds(c)
  <2>1. Others(c)
    BY <1>4 DEF ControlEnds, Control, Typed
  <2>2. /\ control[c] = "up" /\ control'[c] = "ending"
        /\ UNCHANGED <<worker, logins, was, sftp, closed>> /\ UNCHANGED Sess(c)
        /\ c \in Background \/ worker[c] = "idle"
    BY <1>4 DEF ControlEnds, Control, Typed, Sess
  <2>3. ConnInv(c)'
    BY <1>1, <2>2 DEF ConnInv, LoginOrder, MuExcludes, MuHeld, ReadsFresh, Admitting
  <2> QED BY <2>1, <2>3, ConnFrame
<1>5. CASE AskConnected(c)
  <2>1. Others(c)
    BY <1>5 DEF AskConnected, Control, Typed
  <2>2. /\ control[c] = "asked" /\ control'[c] = "closing"
        /\ was'[c] = (sftp[Sess(c)] # "none")
        /\ UNCHANGED <<worker, logins, sftp, closed>> /\ UNCHANGED Sess(c)
    BY <1>5 DEF AskConnected, Control, Typed, Sess
  <2>3. ConnInv(c)'
    BY <1>1, <2>2 DEF ConnInv, LoginOrder, MuExcludes, MuHeld, ReadsFresh, Admitting
  <2> QED BY <2>1, <2>3, ConnFrame
<1>6. CASE CloseSession(c)
  <2>1. Sess(c) \in AllSessions /\ logins[c] > 0
    BY <1>1, <1>6, SessIsSession DEF CloseSession, Control, LoginOrder
  <2>2. Others(c)
    BY <1>6 DEF CloseSession, Control, Typed, Sess, AllSessions
  <2>3. /\ control[c] = "closing" /\ ~MuHeld(c)
        /\ control'[c] = IF sftp[Sess(c)] = "none" THEN "closed" ELSE "releasing"
        /\ UNCHANGED <<worker, logins, was, sftp>> /\ UNCHANGED Sess(c)
        /\ closed'[Sess(c)]
    BY <1>6, <2>1 DEF CloseSession, Control, Typed, Sess, AllSessions
  <2>4. LoginOrder(c)'
    BY <1>1, <2>3 DEF LoginOrder, Admitting
  <2>5. MuExcludes(c)' /\ ReadsFresh(c)'
    BY <1>1, <2>1, <2>3 DEF MuExcludes, MuHeld, ReadsFresh
  <2> QED BY <2>2, <2>4, <2>5, ConnFrame DEF ConnInv
<1>8. CASE CloseReturns(c)
  <2>1. Sess(c) \in AllSessions /\ logins[c] > 0
    BY <1>1, <1>8, SessIsSession DEF CloseReturns, Control, LoginOrder
  <2>2. Others(c)
    BY <1>8 DEF CloseReturns, Control, Typed, Sess, AllSessions
  <2>3. /\ control[c] = "releasing" /\ control'[c] = "closed"
        /\ UNCHANGED <<worker, logins, closed>> /\ UNCHANGED Sess(c)
        /\ sftp'[Sess(c)] = "none"
        /\ \A k \in 1..MaxLogins : k > logins[c] => sftp'[<<c, k>>] = sftp[<<c, k>>]
    BY <1>8, <2>1 DEF CloseReturns, Control, Typed, Sess, AllSessions
  <2>4. LoginOrder(c)'
    BY <1>1, <2>3 DEF LoginOrder, Admitting
  <2>5. MuExcludes(c)' /\ ReadsFresh(c)'
    BY <1>1, <2>1, <2>3 DEF MuExcludes, MuHeld, ReadsFresh
  <2> QED BY <2>2, <2>4, <2>5, ConnFrame DEF ConnInv
<1>7. CASE SessionDone(c)
  <2>1. Others(c)
    BY <1>7 DEF SessionDone, Control, Typed
  <2>2. /\ control[c] = "closed" /\ control'[c] = "gone"
        /\ UNCHANGED <<worker, logins, was, sftp, closed>> /\ UNCHANGED Sess(c)
    BY <1>7 DEF SessionDone, Control, Typed, Sess
  <2>3. ConnInv(c)'
    BY <1>1, <2>2 DEF ConnInv, LoginOrder, MuExcludes, MuHeld, ReadsFresh, Admitting
  <2> QED BY <2>1, <2>3, ConnFrame
<1> QED BY <1>2, <1>3, <1>4, <1>5, <1>6, <1>7, <1>8 DEF Connection, Disconnecting

(* What a command does keeps the session it works on in order.             *)
LEMMA SessionCommand ==
    ASSUME Typed, SessionInv, NEW c \in Conns, Command(c)
    PROVE  SessionInv'
<1> USE DEF Others, exitVars, connVars, sftpVars
<1>1. LoginOrder(c) /\ MuExcludes(c) /\ ReadsFresh(c)
  BY DEF SessionInv
<1>2. CASE BeginCommand(c) \/ SFTP(c) \/ Dial(c) \/ OperationReturns(c) \/ OperationTimesOut(c)
           \/ InvalidateSFTP(c) \/ InvalidateDone(c)
  <2>0. Others(c) /\ UNCHANGED <<control, logins, was, sftp, closed>> /\ UNCHANGED Sess(c)
    BY <1>2 DEF BeginCommand, SFTP, Dial, OperationReturns, OperationTimesOut, InvalidateSFTP,
                InvalidateDone, Worker, Typed, Sess
  <2>1. /\ logins[c] > 0
        /\ c \notin Background => control[c] = "up"
    BY <1>1, <1>2 DEF BeginCommand, SFTP, Dial, OperationReturns, OperationTimesOut, InvalidateSFTP,
                InvalidateDone, Worker, Typed, LoginOrder
  <2>2. /\ worker'[c] = "dialing" => ~closed[Sess(c)] /\ sftp[Sess(c)] = "none"
        /\ worker'[c] = "opening" => worker[c] = "dialing"
        /\ worker'[c] = "invalidating" => sftp[Sess(c)] # "none"
        /\ worker'[c] = "discarding" => sftp[Sess(c)] # "none"
        /\ worker'[c] \in {"dialing", "discarding"} => control[c] # "releasing"
    BY <1>2 DEF BeginCommand, SFTP, Dial, OperationReturns, OperationTimesOut, InvalidateSFTP,
                InvalidateDone, Worker, Typed, CloseHoldsMu
  <2>3. LoginOrder(c)'
    BY <1>1, <2>0, <2>1 DEF LoginOrder
  <2>4. MuExcludes(c)'
    BY <1>1, <2>0, <2>1, <2>2 DEF MuExcludes, MuHeld
  <2>5. ReadsFresh(c)'
    BY <1>1, <2>0, <2>2 DEF ReadsFresh
  <2> QED BY <2>0, <2>3, <2>4, <2>5, ConnFrame DEF ConnInv
<1>3. CASE OpenSubsystem(c) \/ OperationFindsDead(c) \/ InvalidateReturns(c)
  <2>1. logins[c] > 0 /\ Sess(c) \in AllSessions /\ (c \notin Background => control[c] = "up")
    BY <1>1, <1>3, SessIsSession DEF OpenSubsystem, OperationFindsDead, InvalidateReturns, Worker,
                                     LoginOrder
  <2>2. Others(c)
    BY <1>3 DEF OpenSubsystem, OperationFindsDead, InvalidateReturns, Worker, Typed, Sess, AllSessions
  <2>3. /\ UNCHANGED <<control, logins, was, closed>> /\ UNCHANGED Sess(c)
        /\ worker[c] # "idle" /\ worker'[c] \in {"idle", "using", "uncounting"}
        /\ \A k \in 1..MaxLogins : k > logins[c] => sftp'[<<c, k>>] = sftp[<<c, k>>]
    BY <1>3, <2>1 DEF OpenSubsystem, OperationFindsDead, InvalidateReturns, Worker, Typed, Sess,
                      AllSessions
  <2>4. /\ control[c] \in {"closed", "gone"} => sftp'[Sess(c)] = "none"
        /\ control[c] = "releasing" => sftp'[Sess(c)] # "none"
    BY <1>1, <1>3, <2>1 DEF OpenSubsystem, OperationFindsDead, InvalidateReturns, Worker, Typed,
                            MuExcludes, MuHeld
  <2>5. LoginOrder(c)' /\ ReadsFresh(c)'
    BY <1>1, <2>1, <2>3 DEF LoginOrder, ReadsFresh
  <2>6. MuExcludes(c)'
    BY <1>1, <2>3, <2>4 DEF MuExcludes, MuHeld
  <2> QED BY <2>2, <2>5, <2>6, ConnFrame DEF ConnInv
<1> QED BY <1>2, <1>3 DEF Command

(* Whatever step is taken, the sessions stay in order.                     *)
LEMMA SessionNext == Typed /\ SessionInv /\ [Next]_vars => SessionInv'
<1> SUFFICES ASSUME Typed, SessionInv, [Next]_vars PROVE SessionInv'
  OBVIOUS
<1>1. CASE UNCHANGED <<control, worker, logins, was, sftp, closed>>
  BY <1>1 DEF SessionInv, LoginOrder, MuExcludes, ReadsFresh, MuHeld, Sess
<1>2. CASE \E x \in AllSessions : ConnectionLost(x)
  <2>1. PICK x \in AllSessions : ConnectionLost(x)
    BY <1>2
  <2>2. UNCHANGED <<control, worker, logins, was, closed>>
    BY <2>1 DEF ConnectionLost, connVars
  <2>3. \A y \in AllSessions : sftp'[y] = "none" <=> sftp[y] = "none"
    BY <2>1 DEF ConnectionLost, Typed
  <2>4. ASSUME NEW c \in Conns PROVE ConnInv(c)'
    <3>1. ConnInv(c) /\ UNCHANGED Sess(c)
      BY <2>2 DEF SessionInv, ConnInv, Sess
    <3>2. logins[c] > 0 => (sftp'[Sess(c)] = "none" <=> sftp[Sess(c)] = "none")
      BY <2>3, SessIsSession
    <3>3. \A k \in 1..MaxLogins : sftp'[<<c, k>>] = "none" <=> sftp[<<c, k>>] = "none"
      BY <2>3 DEF AllSessions
    <3> QED BY <2>2, <3>1, <3>2, <3>3 DEF ConnInv, LoginOrder, MuExcludes, ReadsFresh, MuHeld
  <2> QED BY <2>4 DEF SessionInv, ConnInv
<1>3. CASE Signal \/ Shutdown
  <2>1. UNCHANGED <<control, worker, logins, was, sftp, closed>>
    BY <1>3 DEF Signal, Shutdown, PrepareShutdown, StopListening, Select, DeadlineFires, WaitReturns,
                WaitForSessions, CloseAllConnections, Exit, connVars, sftpVars
  <2> QED BY <1>1, <2>1
<1> QED BY <1>1, <1>2, <1>3, SessionConnection, SessionCommand DEF Next, vars

(* The sessions are in order to begin with.                                *)
LEMMA SessionInit == Init => SessionInv
<1> SUFFICES ASSUME Init, NEW c \in Conns PROVE ConnInv(c)
  BY DEF SessionInv, ConnInv
<1>1. control[c] = "new" /\ worker[c] = "idle" /\ logins[c] = 0
  BY DEF Init
<1>2. \A k \in 1..MaxLogins : sftp[<<c, k>>] = "none"
  BY DEF Init, AllSessions
<1> QED BY <1>1, <1>2 DEF ConnInv, LoginOrder, MuExcludes, ReadsFresh, MuHeld

(* Types and sessions, in every reachable state.                           *)
LEMMA SessionsInOrder == Spec => [](Typed /\ SessionInv)
<1>1. Init => Typed /\ SessionInv
  BY TypedInit, SessionInit
<1>2. Typed /\ SessionInv /\ [Next]_vars => (Typed /\ SessionInv)'
  BY TypedNext, SessionNext
<1> QED BY <1>1, <1>2, PTL DEF Spec

-----------------------------------------------------------------------------
(* Admission.                                                              *)

(* The sets of connections that are counted are finite.                    *)
LEMMA CountedFinite ==
    /\ IsFiniteSet(Counted) /\ Cardinality(Counted) \in Nat
    /\ IsFiniteSet(Admitted) /\ Cardinality(Admitted) <= Cardinality(Counted)
<1>1. IsFiniteSet(Counted)
  BY GatewayAssumption, FS_Subset DEF Counted
<1>2. Admitted \in SUBSET Counted
  BY DEF Counted, Admitted
<1> QED BY <1>1, <1>2, FS_Subset, FS_CardinalityType

(* A step that neither counts, uncounts nor admits keeps AdmissionExact.   *)
LEMMA AdmissionFrame ==
    ASSUME AdmissionExact, active' = active, Counted' = Counted,
           registered' = {c \in Conns : control'[c] \in {"up", "ending"}},
           Admitted' = Admitted
    PROVE  AdmissionExact'
BY DEF AdmissionExact

(* Each step of ClientConnected and ClientDisconnected keeps the count.    *)
LEMMA AdmissionConnection ==
    ASSUME Typed, AdmissionExact, NEW c \in Conns, Connection(c)
    PROVE  AdmissionExact'
<1> USE DEF exitVars, connVars, sftpVars
<1>1. CASE Accept(c) \/ LoadShuttingDown(c) \/ AskConnected(c) \/ CloseSession(c) \/ CloseReturns(c)
           \/ SessionDone(c)
  <2>1. UNCHANGED <<active, registered>>
    BY <1>1 DEF Accept, LoadShuttingDown, AskConnected, CloseSession, CloseReturns, SessionDone
  <2>2. Counted' = Counted /\ Admitted' = Admitted
        /\ {d \in Conns : control'[d] \in {"up", "ending"}} = {d \in Conns : control[d] \in {"up", "ending"}}
    BY <1>1 DEF Accept, LoadShuttingDown, AskConnected, CloseSession, CloseReturns, SessionDone,
                Control, Typed, Counted, Admitted
  <2> QED BY <2>1, <2>2, AdmissionFrame DEF AdmissionExact
<1>2. CASE AuthUser(c)
  BY <1>2 DEF AuthUser, AdmissionExact, Counted, Admitted
<1>3. CASE ControlEnds(c) \/ DisconnectRejected(c) \/ Register(c)
  <2>1. UNCHANGED active
    BY <1>3 DEF ControlEnds, DisconnectRejected, Register
  <2>2. Counted' = Counted /\ Admitted' = Admitted
    BY <1>3 DEF ControlEnds, DisconnectRejected, Register, Control, Typed, Counted, Admitted
  <2>3. registered' = {d \in Conns : control'[d] \in {"up", "ending"}}
    BY <1>3 DEF ControlEnds, DisconnectRejected, Register, Control, Typed, AdmissionExact
  <2> QED BY <2>1, <2>2, <2>3, AdmissionFrame
<1>4. CASE CountConnection(c)
  <2>1. Counted' = Counted \cup {c} /\ c \notin Counted
    BY <1>4 DEF CountConnection, Control, Typed, Counted
  <2>2. active' = Cardinality(Counted')
    BY <1>4, <2>1, FS_AddElement, CountedFinite DEF CountConnection, AdmissionExact
  <2>3. Cardinality(Admitted') <= MaxConnections
    <3>1. CASE active' <= MaxConnections
      <4>1. Cardinality(Admitted') <= Cardinality(Counted') /\ IsFiniteSet(Admitted')
            /\ IsFiniteSet(Counted')
        BY <2>1, CountedFinite, FS_Subset, FS_AddElement DEF Counted, Admitted
      <4> QED BY <2>2, <3>1, <4>1, FS_CardinalityType, GatewayAssumption
    <3>2. CASE ~(active' <= MaxConnections)
      <4>0. active + 1 > MaxConnections
        BY <1>4, <3>2, GatewayAssumption DEF CountConnection, Typed
      <4>1. control' = [control EXCEPT ![c] = "over"] /\ control[c] = "passed"
        BY <1>4, <4>0 DEF CountConnection, Control
      <4>2. Admitted' = Admitted
        BY <4>1 DEF Admitted, Typed
      <4> QED BY <4>2 DEF AdmissionExact
    <3> QED BY <3>1, <3>2
  <2>4. registered' = {d \in Conns : control'[d] \in {"up", "ending"}}
    BY <1>4 DEF CountConnection, Control, Typed, AdmissionExact
  <2> QED BY <2>2, <2>3, <2>4 DEF AdmissionExact
<1>5. CASE UncountConnection(c) \/ Unregister(c)
  <2>1. Counted' = Counted \ {c} /\ c \in Counted
    BY <1>5 DEF UncountConnection, Unregister, Control, Typed, Counted
  <2>2. active' = Cardinality(Counted')
    BY <1>5, <2>1, FS_RemoveElement, CountedFinite DEF UncountConnection, Unregister, AdmissionExact
  <2>3. Cardinality(Admitted') <= MaxConnections
    <3>1. Admitted' \in SUBSET Admitted
      BY <1>5 DEF UncountConnection, Unregister, Control, Typed, Admitted
    <3>2. Cardinality(Admitted') <= Cardinality(Admitted) /\ IsFiniteSet(Admitted')
      BY <3>1, CountedFinite, FS_Subset
    <3> QED BY <3>2, CountedFinite, FS_CardinalityType, GatewayAssumption DEF AdmissionExact
  <2>4. registered' = {d \in Conns : control'[d] \in {"up", "ending"}}
    BY <1>5 DEF UncountConnection, Unregister, Control, Typed, AdmissionExact
  <2> QED BY <2>2, <2>3, <2>4 DEF AdmissionExact
<1> QED BY <1>1, <1>2, <1>3, <1>4, <1>5 DEF Connection, Disconnecting

(* No other step touches a count.                                          *)
LEMMA AdmissionNext == Typed /\ AdmissionExact /\ [Next]_vars => AdmissionExact'
<1> SUFFICES ASSUME Typed, AdmissionExact, [Next]_vars PROVE AdmissionExact'
  OBVIOUS
<1>1. CASE UNCHANGED <<control, registered, active>>
  BY <1>1 DEF AdmissionExact, Counted, Admitted
<1>2. CASE \E c \in Conns : Command(c)
  <2>1. UNCHANGED <<control, registered, active>>
    BY <1>2 DEF Command, BeginCommand, SFTP, Dial, OpenSubsystem, OperationReturns,
                OperationFindsDead, OperationTimesOut, InvalidateSFTP, InvalidateReturns,
                InvalidateDone, connVars
  <2> QED BY <1>1, <2>1
<1>3. CASE Signal \/ Shutdown \/ \E x \in AllSessions : ConnectionLost(x)
  <2>1. UNCHANGED <<control, registered, active>>
    BY <1>3 DEF Signal, Shutdown, PrepareShutdown, StopListening, Select, DeadlineFires, WaitReturns,
                WaitForSessions, CloseAllConnections, Exit, ConnectionLost, connVars
  <2> QED BY <1>1, <2>1
<1> QED BY <1>1, <1>2, <1>3, AdmissionConnection DEF Next, vars

(* ClientConnected and ClientDisconnected keep activeConnections exact and *)
(* admit at most maxConnections, however many connections come and go and  *)
(* in whichever order their atomic operations fall (gateway.go:155-190).   *)
THEOREM Admission == Spec => []AdmissionExact
<1>1. Init => AdmissionExact
  <2> SUFFICES ASSUME Init PROVE AdmissionExact
    OBVIOUS
  <2>1. Counted = {} /\ Admitted = {} /\ registered = {c \in Conns : control[c] \in {"up", "ending"}}
    BY DEF Init, Counted, Admitted
  <2> QED BY <2>1, FS_EmptySet, GatewayAssumption DEF Init, AdmissionExact
<1>2. Typed /\ AdmissionExact /\ [Next]_vars => AdmissionExact'
  BY AdmissionNext
<1> QED BY <1>1, <1>2, SessionsInOrder, PTL DEF Spec

-----------------------------------------------------------------------------
(* The WaitGroup.                                                          *)

(* The set of connections that have a session is finite.                   *)
LEMMA LoggedInFinite == IsFiniteSet(LoggedIn) /\ Cardinality(LoggedIn) \in Nat
<1>1. IsFiniteSet(LoggedIn)
  BY GatewayAssumption, FS_Subset DEF LoggedIn
<1> QED BY <1>1, FS_CardinalityType

(* Only AuthUser and the end of ClientDisconnected change who has a        *)
(* session, and with it the WaitGroup's counter.                           *)
LEMMA LoggedInNext ==
    ASSUME Typed, SessionInv, [Next]_vars
    PROVE  \/ UNCHANGED <<LoggedIn, sessions>>
           \/ \E c \in Conns : /\ LoggedIn' = LoggedIn \cup {c} /\ sessions' = sessions + 1
                               /\ logins[c] < MaxLogins
           \/ \E c \in LoggedIn : LoggedIn' = LoggedIn \ {c} /\ sessions' = sessions - 1
<1>1. CASE UNCHANGED <<control, logins, sessions>>
  BY <1>1 DEF LoggedIn
<1>2. ASSUME NEW c \in Conns, Connection(c)
      PROVE  \/ UNCHANGED <<LoggedIn, sessions>>
             \/ LoggedIn' = LoggedIn \cup {c} /\ sessions' = sessions + 1 /\ logins[c] < MaxLogins
             \/ c \in LoggedIn /\ LoggedIn' = LoggedIn \ {c} /\ sessions' = sessions - 1
  <2> USE DEF exitVars, connVars, sftpVars
  <2>1. CASE Accept(c) \/ LoadShuttingDown(c) \/ CountConnection(c) \/ UncountConnection(c)
             \/ Register(c) \/ ControlEnds(c) \/ AskConnected(c) \/ CloseSession(c)
             \/ CloseReturns(c)
    BY <2>1 DEF Accept, LoadShuttingDown, CountConnection, UncountConnection, Register, ControlEnds,
                AskConnected, CloseSession, CloseReturns, Control, Typed, LoggedIn
  <2>2. CASE DisconnectRejected(c) \/ Unregister(c)
    <3>1. UNCHANGED sessions /\ UNCHANGED logins /\ logins[c] \in Nat
      BY <2>2 DEF DisconnectRejected, Unregister, Typed
    <3>2. control' = [control EXCEPT ![c] = control'[c]] /\ control[c] # "gone"
      BY <2>2 DEF DisconnectRejected, Unregister, Control, Typed
    <3>3. logins[c] > 0 => control'[c] # "gone"
      BY <2>2 DEF DisconnectRejected, Unregister, Control, Typed, SessionInv, LoginOrder
    <3>4. LoggedIn' = LoggedIn
      BY <3>1, <3>2, <3>3 DEF LoggedIn, Typed
    <3> QED BY <3>1, <3>4
  <2>3. CASE AuthUser(c)
    BY <2>3 DEF AuthUser, Typed, LoggedIn
  <2>4. CASE SessionDone(c)
    <3>1. logins[c] > 0
      BY <2>4 DEF SessionDone, Control, SessionInv, LoginOrder
    <3> QED BY <2>4, <3>1 DEF SessionDone, Control, Typed, LoggedIn
  <2> QED BY <1>2, <2>1, <2>2, <2>3, <2>4 DEF Connection, Disconnecting
<1>3. CASE \E c \in Conns : Command(c)
  <2>1. UNCHANGED <<control, logins, sessions>>
    BY <1>3 DEF Command, BeginCommand, SFTP, Dial, OpenSubsystem, OperationReturns,
                OperationFindsDead, OperationTimesOut, InvalidateSFTP, InvalidateReturns,
                InvalidateDone, connVars
  <2> QED BY <1>1, <2>1
<1>4. CASE Signal \/ Shutdown \/ \E x \in AllSessions : ConnectionLost(x)
  <2>1. UNCHANGED <<control, logins, sessions>>
    BY <1>4 DEF Signal, Shutdown, PrepareShutdown, StopListening, Select, DeadlineFires, WaitReturns,
                WaitForSessions, CloseAllConnections, Exit, ConnectionLost, connVars
  <2> QED BY <1>1, <2>1
<1>5. CASE \E c \in Conns : Connection(c)
  <2>1. PICK c \in Conns : Connection(c)
    BY <1>5
  <2> QED BY <1>2, <2>1
<1> QED BY <1>1, <1>3, <1>4, <1>5 DEF Next, vars

(* A login adds one to both sides, and one to the counter alone when the   *)
(* connection was logged in; Done takes one from both.                     *)
LEMMA WaitGroupNext ==
    /\ Typed /\ SessionInv /\ WaitGroupCovers /\ [Next]_vars => WaitGroupCovers'
    /\ MaxLogins = 1 /\ Typed /\ SessionInv /\ SessionsBalanced /\ [Next]_vars => SessionsBalanced'
<1> SUFFICES ASSUME Typed, SessionInv, [Next]_vars
             PROVE  /\ WaitGroupCovers => WaitGroupCovers'
                    /\ MaxLogins = 1 /\ SessionsBalanced => SessionsBalanced'
  OBVIOUS
<1>1. CASE UNCHANGED <<LoggedIn, sessions>>
  BY <1>1 DEF WaitGroupCovers, SessionsBalanced
<1>2. ASSUME NEW c \in Conns, LoggedIn' = LoggedIn \cup {c}, sessions' = sessions + 1,
             logins[c] < MaxLogins
      PROVE  /\ WaitGroupCovers => WaitGroupCovers'
             /\ MaxLogins = 1 /\ SessionsBalanced => SessionsBalanced'
  <2>1. Cardinality(LoggedIn') = IF c \in LoggedIn THEN Cardinality(LoggedIn)
                                 ELSE Cardinality(LoggedIn) + 1
    BY <1>2, FS_AddElement, LoggedInFinite
  <2>2. MaxLogins = 1 => c \notin LoggedIn
    BY <1>2 DEF LoggedIn, Typed
  <2> QED BY <1>2, <2>1, <2>2, LoggedInFinite DEF WaitGroupCovers, SessionsBalanced, Typed
<1>3. ASSUME NEW c \in LoggedIn, LoggedIn' = LoggedIn \ {c}, sessions' = sessions - 1
      PROVE  /\ WaitGroupCovers => WaitGroupCovers'
             /\ MaxLogins = 1 /\ SessionsBalanced => SessionsBalanced'
  <2>1. Cardinality(LoggedIn') = Cardinality(LoggedIn) - 1
    BY <1>3, FS_RemoveElement, LoggedInFinite
  <2> QED BY <1>3, <2>1, LoggedInFinite DEF WaitGroupCovers, SessionsBalanced, Typed
<1> QED BY <1>1, <1>2, <1>3, LoggedInNext

(* The WaitGroup's counter, in every reachable state.                      *)
LEMMA WaitGroup == Spec => [](WaitGroupCovers /\ (MaxLogins = 1 => SessionsBalanced))
<1> DEFINE Inv == WaitGroupCovers /\ (MaxLogins = 1 => SessionsBalanced)
<1>1. Init => Inv
  <2> SUFFICES ASSUME Init PROVE sessions = 0 /\ Cardinality(LoggedIn) = 0
    BY DEF WaitGroupCovers, SessionsBalanced
  <2>1. LoggedIn = {}
    BY DEF Init, LoggedIn
  <2> QED BY <2>1, FS_EmptySet DEF Init
<1>2. Typed /\ SessionInv /\ Inv /\ [Next]_vars => Inv'
  BY WaitGroupNext
<1> QED BY <1>1, <1>2, SessionsInOrder, PTL DEF Spec

(* Where no client logs in twice, each sessions.Add has its sessions.Done: *)
(* the WaitGroup counts the connections that have a session, for any       *)
(* number of connections (gateway.go:204, 240).                            *)
THEOREM SessionsCounted == Spec => [](MaxLogins = 1 => SessionsBalanced)
<1>1. WaitGroupCovers /\ (MaxLogins = 1 => SessionsBalanced) => (MaxLogins = 1 => SessionsBalanced)
  OBVIOUS
<1> QED BY <1>1, WaitGroup, PTL

(* The types of all variables; neither counter falls below zero, which     *)
(* would make WaitGroup.Done panic (gateway.go:155-205).                   *)
THEOREM GatewayTypeCorrect == Spec => []TypeOK
<1>1. Typed /\ AdmissionExact /\ WaitGroupCovers => TypeOK
  <2> SUFFICES ASSUME Typed, AdmissionExact, WaitGroupCovers PROVE TypeOK
    OBVIOUS
  <2>1. active \in Nat
    BY CountedFinite DEF AdmissionExact
  <2>2. sessions \in Nat
    BY LoggedInFinite DEF WaitGroupCovers, Typed
  <2> QED BY <2>1, <2>2 DEF Typed, TypeOK
<1> QED BY <1>1, SessionsInOrder, Admission, WaitGroup, PTL

-----------------------------------------------------------------------------
(* What is left of sessions.                                               *)

(* A connection that is gone and has logged in once at most holds nothing. *)
LEMMA GoneReleased ==
    ASSUME Typed, SessionInv, MaxLogins = 1, NEW c \in Conns, control[c] = "gone"
    PROVE  \A k \in 1..MaxLogins : sftp[<<c, k>>] = "none"
<1>1. MuExcludes(c) /\ logins[c] \in 0..1
  BY DEF SessionInv, Typed
<1>2. CASE logins[c] = 0
  BY <1>1, <1>2 DEF MuExcludes
<1>3. CASE logins[c] = 1
  BY <1>1, <1>3 DEF MuExcludes, Sess
<1> QED BY <1>1, <1>2, <1>3

(* Where no client logs in twice, a connection that is gone has left no    *)
(* SFTP client behind: Session.mu keeps Close from falling between the     *)
(* dial of a command and its assignment (session.go:97-117, 146-164).      *)
THEOREM NoClientOutlivesConnection == Spec => [](MaxLogins = 1 => GoneHoldsNoClient)
<1>1. Typed /\ SessionInv => (MaxLogins = 1 => GoneHoldsNoClient)
  BY GoneReleased DEF GoneHoldsNoClient
<1> QED BY <1>1, SessionsInOrder, PTL

(* sessions.Wait() returns when all sessions have ended, and later logins  *)
(* are marked late.                                                        *)
LEMMA WaitSawNext == Typed /\ SessionInv /\ WaitGroupCovers /\ WaitSaw /\ [Next]_vars => WaitSaw'
<1> SUFFICES ASSUME Typed, SessionInv, WaitGroupCovers, WaitSaw, [Next]_vars PROVE WaitSaw'
  OBVIOUS
<1> USE DEF exitVars, connVars, sftpVars
<1>1. CASE UNCHANGED <<finished, control, logins, late>>
  BY <1>1 DEF WaitSaw
<1>2. CASE \E c \in Conns : Connection(c)
  <2>1. PICK c \in Conns : Connection(c)
    BY <1>2
  <2>2. CASE AuthUser(c)
    BY <2>2 DEF AuthUser, WaitSaw, Typed
  <2>3. CASE ~AuthUser(c)
    <3>1. UNCHANGED <<finished, logins, late>>
      BY <2>1, <2>3 DEF Connection, Disconnecting, Accept, LoadShuttingDown, CountConnection,
            UncountConnection, Register, ControlEnds, DisconnectRejected, Unregister, AskConnected,
            CloseSession, CloseReturns, SessionDone
    <3>2. control[c] # "gone" /\ control' = [control EXCEPT ![c] = control'[c]]
      BY <2>1, <2>3 DEF Connection, Disconnecting, Accept, LoadShuttingDown, CountConnection,
            UncountConnection, Register, ControlEnds, DisconnectRejected, Unregister, AskConnected,
            CloseSession, CloseReturns, SessionDone, Control, Typed
    <3> QED BY <3>1, <3>2 DEF WaitSaw, Typed
  <2> QED BY <2>2, <2>3
<1>3. CASE \E c \in Conns : Command(c)
  <2>1. UNCHANGED <<finished, control, logins, late>>
    BY <1>3 DEF Command, BeginCommand, SFTP, Dial, OpenSubsystem, OperationReturns,
                OperationFindsDead, OperationTimesOut, InvalidateSFTP, InvalidateReturns,
                InvalidateDone
  <2> QED BY <1>1, <2>1
<1>4. CASE WaitReturns
  <2>1. Cardinality(LoggedIn) = 0
    BY <1>4, LoggedInFinite DEF WaitReturns, WaitGroupCovers
  <2>2. LoggedIn = {}
    BY <2>1, LoggedInFinite, FS_EmptySet
  <2>3. UNCHANGED <<control, logins, late>>
    BY <1>4 DEF WaitReturns
  <2> QED BY <2>2, <2>3 DEF WaitSaw, LoggedIn
<1>5. CASE \/ Signal \/ PrepareShutdown \/ StopListening \/ Select \/ DeadlineFires
           \/ WaitForSessions \/ CloseAllConnections \/ Exit
           \/ \E x \in AllSessions : ConnectionLost(x)
  <2>1. UNCHANGED <<finished, control, logins, late>>
    BY <1>5 DEF Signal, PrepareShutdown, StopListening, Select, DeadlineFires,
                WaitForSessions, CloseAllConnections, Exit, ConnectionLost
  <2> QED BY <1>1, <2>1
<1> QED BY <1>1, <1>2, <1>3, <1>4, <1>5 DEF Next, Shutdown, vars

(* The graceful drain waits for every session begun before sessions.Wait() *)
(* returned, whenever clients log in while it runs; the release of their   *)
(* clients needs that none logs in twice (gateway.go:240, 293).            *)
THEOREM DrainWaits == Spec => [](WaitSaw /\ (MaxLogins = 1 => DrainComplete))
<1>1. Init => WaitSaw
  BY DEF Init, WaitSaw
<1>2. Typed /\ SessionInv /\ WaitSaw => WaitSaw /\ (MaxLogins = 1 => DrainComplete)
  BY GoneReleased DEF WaitSaw, DrainComplete
<1>3. WaitGroupCovers /\ (MaxLogins = 1 => SessionsBalanced) => WaitGroupCovers
  OBVIOUS
<1> QED BY <1>1, <1>2, <1>3, WaitSawNext, SessionsInOrder, WaitGroup, PTL DEF Spec

-----------------------------------------------------------------------------
(* The gauge.                                                              *)

(* What the gauge counts is finite.                                        *)
LEMMA GaugeFinite ==
    /\ IsFiniteSet(Held) /\ IsFiniteSet(Leaving) /\ IsFiniteSet(Dropped)
    /\ {Cardinality(Held), Cardinality(Leaving), Cardinality(Dropped)} \subseteq Nat
<1>1. IsFiniteSet(AllSessions)
  <2>1. IsFiniteSet(Conns) /\ IsFiniteSet(1..MaxLogins)
    BY GatewayAssumption, FS_Interval
  <2> QED BY <2>1, FS_Product, Zenon DEF AllSessions
<1>2. IsFiniteSet(Held) /\ IsFiniteSet(Leaving) /\ IsFiniteSet(Dropped)
  BY <1>1, GatewayAssumption, FS_Subset DEF Held, Leaving, Dropped
<1> QED BY <1>2, FS_CardinalityType

(* And so is what is due, before a step and after it.                      *)
LEMMA DueNat == Due \in Nat /\ Due' \in Nat
<1>1. Due \in Nat
  BY GaugeFinite DEF Due
<1>2. (Due \in Nat)'
  BY <1>1, PTL
<1> QED BY <1>1, <1>2

(* So is every set of connections.                                         *)
LEMMA ConnsFinite ==
    ASSUME NEW S \in SUBSET Conns
    PROVE  IsFiniteSet(S) /\ Cardinality(S) \in Nat
BY GatewayAssumption, FS_Subset, FS_CardinalityType

(* A step that brings no connection out of "closed" or "gone", makes none  *)
(* of them invalidate, and counts what it changes keeps the drift.         *)
LEMMA DriftFrame ==
    ASSUME NEW P \in SUBSET Conns, NEW M \in SUBSET Conns, Drifts(P, M),
           \A d \in Conns : control[d] \in {"closed", "gone"} => control'[d] \in {"closed", "gone"},
           \A d \in M : worker'[d] # "invalidating",
           gauge' - gauge = Due' - Due,
           gauge \in Int, gauge' \in Int
    PROVE  Drifts(P, M)'
<1>1. gauge' = Due' + Cardinality(P) - Cardinality(M)
  BY DueNat, ConnsFinite DEF Drifts
<1> QED BY <1>1 DEF Drifts

(* A command adds a client to the gauge and to what sessions hold, and     *)
(* takes it from both, in two steps, unless the session was closed before. *)
LEMMA GaugeCommand ==
    ASSUME Typed, SessionInv, GaugeInv, NEW c \in Conns, Command(c)
    PROVE  GaugeInv'
<1> USE DEF exitVars, connVars, sftpVars
<1>1. PICK P \in SUBSET Conns, M \in SUBSET Conns : Drifts(P, M)
  BY DEF GaugeInv
<1>2. LoginOrder(c) /\ MuExcludes(c) /\ ReadsFresh(c)
  BY DEF SessionInv
<1>3. UNCHANGED <<control, was, Leaving>>
  BY DEF Command, BeginCommand, SFTP, Dial, OpenSubsystem, OperationReturns,
         OperationFindsDead, OperationTimesOut, InvalidateSFTP, InvalidateReturns, InvalidateDone,
         Leaving
<1>4. gauge \in Int /\ gauge' \in Int
  BY TypedCommand DEF Typed
<1>5. CASE BeginCommand(c) \/ SFTP(c) \/ Dial(c) \/ OperationReturns(c) \/ OperationTimesOut(c)
           \/ OperationFindsDead(c)
  <2>1. UNCHANGED gauge
    BY <1>5 DEF BeginCommand, SFTP, Dial, OperationReturns, OperationTimesOut, OperationFindsDead
  <2>2. Held' = Held /\ Dropped' = Dropped
    <3>1. Held' = Held
      BY <1>5 DEF BeginCommand, SFTP, Dial, OperationReturns, OperationTimesOut, OperationFindsDead,
                  Held, Typed
    <3>2. /\ worker' = [worker EXCEPT ![c] = worker'[c]]
          /\ worker[c] # "uncounting" /\ worker'[c] # "uncounting"
      BY <1>5 DEF BeginCommand, SFTP, Dial, OperationReturns, OperationTimesOut, OperationFindsDead,
                  Worker, Typed
    <3> QED BY <3>1, <3>2 DEF Dropped, Typed
  <2>3. ASSUME NEW d \in M PROVE worker'[d] # "invalidating"
    <3>1. control[d] \in {"closed", "gone"} /\ worker[d] # "invalidating"
      BY <1>1 DEF Drifts
    <3>2. CASE d # c
      BY <1>5, <3>1, <3>2 DEF BeginCommand, SFTP, Dial, OperationReturns, OperationTimesOut,
                              OperationFindsDead, Worker, Typed
    <3>3. CASE d = c
      <4>1. worker[c] # "idle" => sftp[Sess(c)] = "none"
        BY <1>2, <3>1, <3>3 DEF LoginOrder, MuExcludes
      <4> QED BY <1>5, <3>1, <3>3, <4>1 DEF BeginCommand, SFTP, Dial, OperationReturns,
                              OperationTimesOut, OperationFindsDead, Worker, Typed
    <3> QED BY <3>2, <3>3
  <2>4. gauge' - gauge = Due' - Due
    BY <1>3, <1>4, <2>1, <2>2, DueNat DEF Due
  <2>5. Drifts(P, M)'
    BY <1>1, <1>3, <1>4, <2>3, <2>4, DriftFrame
  <2> QED BY <2>5 DEF GaugeInv
<1>6. CASE OpenSubsystem(c)
  <2>1. Sess(c) \in AllSessions /\ Sess(c) \notin Held
    BY <1>2, <1>6, SessIsSession DEF OpenSubsystem, Worker, LoginOrder, MuExcludes, Held
  <2>2. \/ Held' = Held /\ gauge' = gauge
        \/ Held' = Held \cup {Sess(c)} /\ gauge' = gauge + 1
    BY <1>6, <2>1 DEF OpenSubsystem, Held, Typed
  <2>3. Dropped' = Dropped
    BY <1>6 DEF OpenSubsystem, Worker, Dropped, Typed
  <2>4. Cardinality(Held') - Cardinality(Held) = gauge' - gauge /\ Cardinality(Held') \in Nat
    <3>1. CASE Held' = Held /\ gauge' = gauge
      BY <1>4, <3>1, GaugeFinite
    <3>2. CASE Held' = Held \cup {Sess(c)} /\ gauge' = gauge + 1
      <4>1. Cardinality(Held') = Cardinality(Held) + 1
        BY <2>1, <3>2, GaugeFinite, FS_AddElement
      <4> QED BY <1>4, <3>2, <4>1, GaugeFinite
    <3> QED BY <2>2, <3>1, <3>2
  <2>5. gauge' - gauge = Due' - Due
    BY <1>3, <1>4, <2>3, <2>4, GaugeFinite DEF Due
  <2>6. \A d \in M : worker'[d] # "invalidating"
    BY <1>1, <1>6 DEF OpenSubsystem, Worker, Typed, Drifts
  <2>7. Drifts(P, M)'
    BY <1>1, <1>3, <1>4, <2>5, <2>6, DriftFrame
  <2> QED BY <2>7 DEF GaugeInv
<1>7. CASE InvalidateReturns(c)
  <2>1. Sess(c) \in AllSessions /\ Sess(c) \in Held /\ c \notin Dropped
    BY <1>2, <1>7, SessIsSession DEF InvalidateReturns, Worker, LoginOrder, MuExcludes, Held, Dropped
  <2>2. /\ Held' = Held \ {Sess(c)} /\ Dropped' = Dropped \cup {c} /\ gauge' = gauge
        /\ worker' = [worker EXCEPT ![c] = "uncounting"]
    BY <1>7, <2>1 DEF InvalidateReturns, Worker, Held, Dropped, Typed
  <2>3. Cardinality(Held') = Cardinality(Held) - 1 /\ Cardinality(Dropped') = Cardinality(Dropped) + 1
    BY <2>1, <2>2, GaugeFinite, FS_RemoveElement, FS_AddElement
  <2>4. gauge' - gauge = Due' - Due
    BY <1>3, <1>4, <2>2, <2>3, GaugeFinite DEF Due
  <2>5. \A d \in M : worker'[d] # "invalidating"
    BY <1>1, <2>2 DEF Typed, Drifts
  <2>6. Drifts(P, M)'
    BY <1>1, <1>3, <1>4, <2>4, <2>5, DriftFrame
  <2> QED BY <2>6 DEF GaugeInv
<1>8. CASE InvalidateDone(c)
  <2>1. /\ c \in Dropped /\ Dropped' = Dropped \ {c} /\ gauge' = gauge - 1 /\ Held' = Held
        /\ worker' = [worker EXCEPT ![c] = "idle"]
    BY <1>8 DEF InvalidateDone, Worker, Held, Dropped, Typed
  <2>2. Cardinality(Dropped') = Cardinality(Dropped) - 1
    BY <2>1, GaugeFinite, FS_RemoveElement
  <2>3. gauge' - gauge = Due' - Due
    BY <1>3, <1>4, <2>1, <2>2, GaugeFinite DEF Due
  <2>4. \A d \in M : worker'[d] # "invalidating"
    BY <1>1, <2>1 DEF Typed, Drifts
  <2>5. Drifts(P, M)'
    BY <1>1, <1>3, <1>4, <2>3, <2>4, DriftFrame
  <2> QED BY <2>5 DEF GaugeInv
<1>9. CASE InvalidateSFTP(c)
  <2>1. Sess(c) \in AllSessions /\ c \notin M /\ c \notin Dropped /\ worker[c] = "invalidating"
    BY <1>1, <1>2, <1>9, SessIsSession DEF InvalidateSFTP, Worker, LoginOrder, Drifts, Dropped
  <2>2. gauge' = gauge /\ Held' = Held
    BY <1>9 DEF InvalidateSFTP, Held
  <2>3. CASE sftp[Sess(c)] # "none"
    <3>1. worker' = [worker EXCEPT ![c] = "discarding"]
      BY <1>9, <2>3 DEF InvalidateSFTP, Worker
    <3>2. Dropped' = Dropped /\ \A d \in M : worker'[d] # "invalidating"
      BY <1>1, <2>1, <3>1 DEF Dropped, Typed, Drifts
    <3>3. gauge' - gauge = Due' - Due
      BY <1>3, <1>4, <2>2, <3>2, DueNat DEF Due
    <3>4. Drifts(P, M)'
      BY <1>1, <1>3, <1>4, <3>2, <3>3, DriftFrame
    <3> QED BY <3>4 DEF GaugeInv
  <2>4. CASE sftp[Sess(c)] = "none"
    <3>1. worker' = [worker EXCEPT ![c] = "uncounting"]
      BY <1>9, <2>4 DEF InvalidateSFTP, Worker
    <3>2. c \in Background /\ control[c] \in {"closed", "gone"}
      BY <1>2, <2>1, <2>4 DEF ReadsFresh, LoginOrder
    <3>3. Dropped' = Dropped \cup {c}
      BY <3>1 DEF Dropped, Typed
    <3>4. Cardinality(Dropped') = Cardinality(Dropped) + 1
      BY <2>1, <3>3, GaugeFinite, FS_AddElement
    <3>5. Due' = Due + 1
      BY <1>3, <2>2, <3>4, GaugeFinite DEF Due
    <3>6. gauge' = Due + Cardinality(P) - Cardinality(M) /\ Due \in Nat
          /\ Cardinality(P) \in Nat /\ Cardinality(M) \in Nat
      BY <1>1, <2>2, DueNat, ConnsFinite DEF Drifts
    <3>7. CASE c \in P
      <4>1. Cardinality(P \ {c}) = Cardinality(P) - 1 /\ P \ {c} \in SUBSET Conns
        BY <3>7, ConnsFinite, FS_RemoveElement
      <4>2. gauge' = Due' + Cardinality(P \ {c}) - Cardinality(M)
        BY <3>5, <3>6, <4>1
      <4>3. Drifts(P \ {c}, M)'
        BY <1>1, <1>3, <3>1, <4>2 DEF Drifts, Typed
      <4> QED BY <4>1, <4>3 DEF GaugeInv
    <3>8. CASE c \notin P
      <4>1. Cardinality(M \cup {c}) = Cardinality(M) + 1 /\ M \cup {c} \in SUBSET Conns
        BY <2>1, ConnsFinite, FS_AddElement
      <4>2. gauge' = Due' + Cardinality(P) - Cardinality(M \cup {c})
        BY <3>5, <3>6, <4>1
      <4>3. Drifts(P, M \cup {c})'
        BY <1>1, <1>3, <3>1, <3>2, <4>2 DEF Drifts, Typed
      <4> QED BY <4>1, <4>3 DEF GaugeInv
    <3> QED BY <3>7, <3>8
  <2> QED BY <2>3, <2>4
<1> QED BY <1>5, <1>6, <1>7, <1>8, <1>9 DEF Command

(* ClientDisconnected is where the gauge and the sessions part: what it    *)
(* read of the session may be old when the session is closed.  It finds    *)
(* a client that is gone ...                                               *)
LEMMA GaugeClose ==
    ASSUME Typed, SessionInv, GaugeInv, NEW c \in Conns, CloseSession(c)
    PROVE  GaugeInv'
<1>1. PICK P \in SUBSET Conns, M \in SUBSET Conns : Drifts(P, M)
  BY DEF GaugeInv
<1>2. LoginOrder(c) /\ MuExcludes(c) /\ ReadsFresh(c)
  BY DEF SessionInv
<1>3. /\ control[c] = "closing" /\ UNCHANGED <<worker, was, gauge, Held, Dropped>>
      /\ control' = [control EXCEPT ![c] = IF sftp[Sess(c)] = "none" THEN "closed" ELSE "releasing"]
  BY DEF CloseSession, Control, Held, Dropped, connVars
<1>4. c \notin Leaving /\ c \notin P /\ c \notin M
  BY <1>1, <1>3 DEF Leaving, Drifts
<1>5. /\ P \subseteq {d \in Background : control'[d] \in {"closed", "gone"}}
      /\ M \subseteq {d \in Background : control'[d] \in {"closed", "gone"} /\ worker'[d] # "invalidating"}
  BY <1>1, <1>3, <1>4 DEF Drifts, Typed
<1>6. /\ gauge' = Due + Cardinality(P) - Cardinality(M) /\ Due \in Nat
      /\ Cardinality(P) \in Nat /\ Cardinality(M) \in Nat
  BY <1>1, <1>3, DueNat, ConnsFinite DEF Drifts
<1>7. CASE sftp[Sess(c)] # "none" \/ ~was[c]
  <2>1. Leaving' = Leaving
    BY <1>3, <1>7 DEF Leaving, Typed
  <2>2. Due' = Due
    BY <1>3, <2>1 DEF Due
  <2> QED BY <1>5, <1>6, <2>2 DEF GaugeInv, Drifts
<1>8. CASE sftp[Sess(c)] = "none" /\ was[c]
  <2>1. Leaving' = Leaving \cup {c}
    BY <1>3, <1>8 DEF Leaving, Typed
  <2>2. Cardinality(Leaving') = Cardinality(Leaving) + 1
    BY <1>4, <2>1, GaugeFinite, FS_AddElement
  <2>3. Due' = Due + 1
    BY <1>3, <2>2, GaugeFinite DEF Due
  <2>4. c \in Background /\ worker'[c] # "invalidating" /\ control'[c] = "closed"
    BY <1>2, <1>3, <1>8 DEF ReadsFresh, Typed
  <2>5. Cardinality(M \cup {c}) = Cardinality(M) + 1 /\ M \cup {c} \in SUBSET Conns
    BY <1>4, ConnsFinite, FS_AddElement
  <2>6. gauge' = Due' + Cardinality(P) - Cardinality(M \cup {c})
    BY <1>6, <2>3, <2>5
  <2>7. Drifts(P, M \cup {c})'
    BY <1>5, <2>4, <2>6 DEF Drifts
  <2> QED BY <2>5, <2>7 DEF GaugeInv
<1> QED BY <1>7, <1>8

(* ... or one that it knows nothing of.                                    *)
LEMMA GaugeCloseReturns ==
    ASSUME Typed, SessionInv, GaugeInv, NEW c \in Conns, CloseReturns(c)
    PROVE  GaugeInv'
<1>1. PICK P \in SUBSET Conns, M \in SUBSET Conns : Drifts(P, M)
  BY DEF GaugeInv
<1>2. LoginOrder(c) /\ MuExcludes(c) /\ ReadsFresh(c)
  BY DEF SessionInv
<1>3. Sess(c) \in AllSessions /\ Sess(c) \in Held
  BY <1>2, SessIsSession DEF CloseReturns, Control, LoginOrder, MuExcludes, Held
<1>4. /\ control[c] = "releasing" /\ control' = [control EXCEPT ![c] = "closed"]
      /\ UNCHANGED <<worker, was, gauge, Dropped>>
      /\ Held' = Held \ {Sess(c)}
  BY <1>3 DEF CloseReturns, Control, Typed, Held, Dropped, connVars
<1>5. Leaving' = IF was[c] THEN Leaving \cup {c} ELSE Leaving
  BY <1>4 DEF Leaving, Typed
<1>6. c \notin Leaving /\ c \notin P /\ c \notin M
  BY <1>1, <1>4 DEF Leaving, Drifts
<1>7. /\ P \subseteq {d \in Background : control'[d] \in {"closed", "gone"}}
      /\ M \subseteq {d \in Background : control'[d] \in {"closed", "gone"} /\ worker'[d] # "invalidating"}
  BY <1>1, <1>4 DEF Drifts, Typed
<1>8. /\ Cardinality(Held') = Cardinality(Held) - 1
      /\ Cardinality(Leaving') = IF was[c] THEN Cardinality(Leaving) + 1 ELSE Cardinality(Leaving)
  BY <1>3, <1>4, <1>5, <1>6, GaugeFinite, FS_AddElement, FS_RemoveElement
<1>9. Due' = IF was[c] THEN Due ELSE Due - 1
  BY <1>4, <1>8, GaugeFinite DEF Due
<1>10. /\ gauge' = Due + Cardinality(P) - Cardinality(M) /\ Due \in Nat
       /\ Cardinality(P) \in Nat /\ Cardinality(M) \in Nat
  BY <1>1, <1>4, DueNat, ConnsFinite DEF Drifts
<1>11. CASE was[c]
  BY <1>7, <1>9, <1>10, <1>11 DEF GaugeInv, Drifts
<1>12. CASE ~was[c]
  <2>1. c \in Background /\ control'[c] = "closed"
    BY <1>2, <1>3, <1>4, <1>12 DEF ReadsFresh, Held, Typed
  <2>2. Cardinality(P \cup {c}) = Cardinality(P) + 1 /\ P \cup {c} \in SUBSET Conns
    BY <1>6, ConnsFinite, FS_AddElement
  <2>3. gauge' = Due' + Cardinality(P \cup {c}) - Cardinality(M)
    BY <1>9, <1>10, <1>12, <2>2
  <2>4. Drifts(P \cup {c}, M)'
    BY <1>7, <2>1, <2>3 DEF Drifts
  <2> QED BY <2>2, <2>4 DEF GaugeInv
<1> QED BY <1>11, <1>12

(* The other steps of a connection move the gauge with what it counts.     *)
LEMMA GaugeConnection ==
    ASSUME Typed, SessionInv, GaugeInv, NEW c \in Conns, Connection(c),
           ~CloseSession(c), ~CloseReturns(c)
    PROVE  GaugeInv'
<1> USE DEF exitVars, connVars, sftpVars
<1>1. PICK P \in SUBSET Conns, M \in SUBSET Conns : Drifts(P, M)
  BY DEF GaugeInv
<1>2. UNCHANGED <<worker, sftp, Held, Dropped>>
  BY DEF Connection, Disconnecting, Accept, LoadShuttingDown, CountConnection, UncountConnection,
         Register, AuthUser, ControlEnds, DisconnectRejected, Unregister, AskConnected, SessionDone,
         Held, Dropped
<1>3. \A d \in M : worker'[d] # "invalidating"
  BY <1>1, <1>2 DEF Drifts
<1>4. gauge \in Int /\ gauge' \in Int
  BY TypedConnection DEF Typed
<1>5. CASE SessionDone(c)
  <2>1. /\ control[c] = "closed" /\ control' = [control EXCEPT ![c] = "gone"]
        /\ gauge' = (IF was[c] THEN gauge - 1 ELSE gauge) /\ UNCHANGED was
    BY <1>5 DEF SessionDone, Control
  <2>2. /\ Leaving' = Leaving \ {c} /\ (c \in Leaving <=> was[c])
        /\ \A d \in Conns : control[d] \in {"closed", "gone"} => control'[d] \in {"closed", "gone"}
    BY <2>1 DEF Leaving, Typed
  <2>3. Cardinality(Leaving') = IF was[c] THEN Cardinality(Leaving) - 1 ELSE Cardinality(Leaving)
    BY <2>2, GaugeFinite, FS_RemoveElement
  <2>4. gauge' - gauge = Due' - Due
    BY <1>2, <1>4, <2>1, <2>3, GaugeFinite DEF Due
  <2>5. Drifts(P, M)'
    BY <1>1, <1>3, <1>4, <2>2, <2>4, DriftFrame
  <2> QED BY <2>5 DEF GaugeInv
<1>6. CASE ~SessionDone(c)
  <2>1. UNCHANGED gauge
    BY <1>6 DEF Connection, Disconnecting, Accept, LoadShuttingDown, CountConnection,
         UncountConnection, Register, AuthUser, ControlEnds, DisconnectRejected, Unregister,
         AskConnected
  <2>2. /\ Leaving' = Leaving
        /\ \A d \in Conns : control[d] \in {"closed", "gone"} => control'[d] \in {"closed", "gone"}
    BY <1>6 DEF Connection, Disconnecting, Accept, LoadShuttingDown, CountConnection,
         UncountConnection, Register, AuthUser, ControlEnds, DisconnectRejected, Unregister,
         AskConnected, Control, Typed, Leaving
  <2>3. gauge' - gauge = Due' - Due
    BY <1>2, <1>4, <2>1, <2>2, DueNat DEF Due
  <2>4. Drifts(P, M)'
    BY <1>1, <1>3, <1>4, <2>2, <2>3, DriftFrame
  <2> QED BY <2>4 DEF GaugeInv
<1> QED BY <1>5, <1>6

(* Every step keeps the gauge within what the races leave.                 *)
LEMMA GaugeNext == Typed /\ SessionInv /\ GaugeInv /\ [Next]_vars => GaugeInv'
<1> SUFFICES ASSUME Typed, SessionInv, GaugeInv, [Next]_vars PROVE GaugeInv'
  OBVIOUS
<1>1. CASE UNCHANGED <<control, worker, was, gauge, Held>>
  BY <1>1 DEF GaugeInv, Drifts, Due, Leaving, Dropped
<1>2. CASE \E x \in AllSessions : ConnectionLost(x)
  <2>1. UNCHANGED <<control, worker, was, gauge, Held>>
    BY <1>2 DEF ConnectionLost, Held, Typed
  <2> QED BY <1>1, <2>1
<1>3. CASE Signal \/ Shutdown \/ UNCHANGED vars
  <2>1. UNCHANGED <<control, worker, was, gauge, Held>>
    BY <1>3 DEF Signal, Shutdown, PrepareShutdown, StopListening, Select, DeadlineFires, WaitReturns,
                WaitForSessions, CloseAllConnections, Exit, connVars, sftpVars, vars, Held
  <2> QED BY <1>1, <2>1
<1>4. CASE \E c \in Conns : Connection(c)
  BY <1>4, GaugeConnection, GaugeClose, GaugeCloseReturns
<1> QED BY <1>2, <1>3, <1>4, GaugeCommand DEF Next

(* sftp_connections_active is wrong by at most the number of connections   *)
(* whose last command raced ClientDisconnected, and exact when there is    *)
(* none, for any number of connections and logins and whatever happens to  *)
(* SFTP connections (clientdriver.go:77, gateway.go:193-201).              *)
THEOREM GaugeDriftBounded == Spec => []GaugeDrift
<1>1. Init => GaugeInv
  <2> SUFFICES ASSUME Init PROVE Drifts({}, {})
    BY DEF GaugeInv
  <2>1. Held = {} /\ Leaving = {} /\ Dropped = {} /\ gauge = 0
    BY DEF Init, Held, Leaving, Dropped
  <2> QED BY <2>1, FS_EmptySet DEF Drifts, Due
<1>2. Typed /\ GaugeInv => GaugeDrift
  <2> SUFFICES ASSUME Typed, GaugeInv PROVE GaugeDrift
    OBVIOUS
  <2>1. PICK P \in SUBSET Conns, M \in SUBSET Conns : Drifts(P, M)
    BY DEF GaugeInv
  <2>2. Raced \in SUBSET Conns /\ P \in SUBSET Raced /\ M \in SUBSET Raced
    BY <2>1, GatewayAssumption DEF Raced, Drifts
  <2>3. Cardinality(P) <= Cardinality(Raced) /\ Cardinality(M) <= Cardinality(Raced)
    BY <2>2, ConnsFinite, FS_Subset
  <2>4. {Cardinality(P), Cardinality(M), Cardinality(Raced)} \subseteq Nat
    BY <2>2, ConnsFinite
  <2>5. gauge = Cardinality(Held) + Cardinality(Leaving) + Cardinality(Dropped)
                + Cardinality(P) - Cardinality(M)
    BY <2>1 DEF Drifts, Due
  <2>6. gauge - Cardinality(Held) - Cardinality(Leaving) - Cardinality(Dropped)
            \in -Cardinality(Raced)..Cardinality(Raced)
    BY <2>3, <2>4, <2>5, GaugeFinite
  <2> QED BY <2>6 DEF GaugeDrift, Held, Leaving, Dropped
<1> QED BY <1>1, <1>2, GaugeNext, SessionsInOrder, PTL DEF Spec

=============================================================================
