----------------------------- MODULE UploadProofs -----------------------------
(***************************************************************************)
(* What holds of Upload for every number of sessions, names and slots,     *)
(* every set of payloads, permissions and faults.                          *)
(***************************************************************************)
EXTENDS Upload, FiniteSetTheorems, TLAPS

(* A command in progress is never NoJob.                                   *)
LEMMA JobFacts ==
    /\ NoJob.cmd = "none"
    /\ NoJob \notin Jobs
    /\ \A c \in {"STOR", "RNTO", "RETR"}, p, q \in Paths, k \in Nat :
          LET j == [cmd |-> c, src |-> p, dst |-> q, size |-> k]
          IN  j \in Jobs /\ j.cmd = c
    /\ \A j \in Jobs : j.src \in Paths /\ j.dst \in Paths /\ j.size \in Nat
<1>1. NoJob.cmd = "none"
  BY DEF NoJob
<1>2. NoJob \notin Jobs
  BY <1>1 DEF Jobs
<1>3. \A c \in {"STOR", "RNTO", "RETR"}, p, q \in Paths, k \in Nat :
          LET j == [cmd |-> c, src |-> p, dst |-> q, size |-> k]
          IN  j \in Jobs /\ j.cmd = c
  BY DEF Jobs
<1>4. \A j \in Jobs : j.src \in Paths /\ j.dst \in Paths /\ j.size \in Nat
  BY DEF Jobs
<1> QED BY <1>1, <1>2, <1>3, <1>4

USE DEF remote, handle, metered

-----------------------------------------------------------------------------
(* Type correctness.                                                       *)

(* However a round trip ends, the connection keeps its type.               *)
LEMMA ConnType ==
    ASSUME NetOK, NEW s \in Sessions,
           Served(s) \/ Refused(s) \/ ReplyLost(s) \/ Invalidated(s)
    PROVE  conn' \in [Sessions -> {"none", "up", "ending", "down"}]
BY DEF NetOK, Served, Refused, ReplyLost, Invalidated

(* A command that goes on stays at one of its steps.                       *)
LEMMA CommandGoesOn ==
    ASSUME CommandOK, NEW s \in Sessions, NEW step,
           \/ job[s].cmd = "STOR" /\ step \in StorSteps
           \/ job[s].cmd = "RNTO" /\ step \in Renaming
           \/ job[s].cmd = "RETR" /\ step \in RetrSteps,
           GoTo(s, step), UNCHANGED job,
           written' \in [Sessions -> Nat],
           failed' \in [Sessions -> BOOLEAN],
           landed' \in [Sessions -> BOOLEAN]
    PROVE  CommandOK'
<1>1. pc' \in [Sessions -> {"idle"} \cup StorSteps \cup RetrSteps]
  BY DEF GoTo, CommandOK, StorSteps
<1>2. ASSUME NEW x \in Sessions PROVE AtStep(x)'
  <2>1. CASE x = s
    BY <2>1, JobFacts DEF CommandOK, AtStep, GoTo, Jobs
  <2>2. CASE x # s
    BY <2>2 DEF CommandOK, AtStep, GoTo
  <2> QED BY <2>1, <2>2
<1> QED BY <1>1, <1>2 DEF CommandOK

(* A command that ends leaves its session idle.                            *)
LEMMA CommandEnds ==
    ASSUME CommandOK, NEW s \in Sessions, Return(s)
    PROVE  CommandOK'
<1>1. ASSUME NEW x \in Sessions PROVE AtStep(x)'
  BY JobFacts DEF CommandOK, AtStep, Return, GoTo
<1> QED BY <1>1 DEF CommandOK, Return, GoTo

(* A command that begins is at a step of its own.                          *)
LEMMA CommandBegins ==
    ASSUME CommandOK, NEW s \in Sessions, NEW step, NEW c, NEW p \in Paths,
           NEW q \in Paths, NEW k \in Nat,
           \/ c = "STOR" /\ step \in StorSteps
           \/ c = "RNTO" /\ step \in Renaming
           \/ c = "RETR" /\ step \in RetrSteps,
           Begin(s, step, c, p, q, k)
    PROVE  CommandOK'
<1> DEFINE j == [cmd |-> c, src |-> p, dst |-> q, size |-> k]
<1>1. j \in Jobs /\ j.cmd = c
  BY JobFacts
<1>2. job' = [job EXCEPT ![s] = j]
  BY DEF Begin
<1> HIDE DEF j
<1>3. pc' \in [Sessions -> {"idle"} \cup StorSteps \cup RetrSteps]
  BY DEF Begin, GoTo, CommandOK, StorSteps
<1>4. ASSUME NEW x \in Sessions PROVE AtStep(x)'
  <2>1. CASE x = s
    BY <2>1, <1>1, <1>2 DEF CommandOK, AtStep, Begin, GoTo
  <2>2. CASE x # s
    BY <2>2, <1>2 DEF CommandOK, AtStep, Begin, GoTo
  <2> QED BY <2>1, <2>2
<1> QED BY <1>1, <1>2, <1>3, <1>4 DEF CommandOK, Begin

(* Which command a session is doing, by its step.                          *)
LEMMA CommandByStep ==
    ASSUME CommandOK, NEW s \in Sessions
    PROVE  /\ pc[s] = "idle" => job[s] = NoJob
           /\ pc[s] \in {"stat", "create", "open", "copy", "close", "cleanup"} =>
                 job[s] \in Jobs /\ job[s].cmd = "STOR"
           /\ pc[s] \in Renaming =>
                 job[s] \in Jobs /\ job[s].cmd \in {"STOR", "RNTO"}
           /\ pc[s] \in RetrSteps => job[s] \in Jobs /\ job[s].cmd = "RETR"
BY DEF CommandOK, AtStep, StorSteps, RetrSteps, Renaming, Copying

USE DEF StorSteps, RetrSteps, Renaming, Copying

(* The initial state is well typed.                                        *)
LEMMA TypeInit == Init => TypeOK
BY DEF Init, TypeOK, RemoteOK, CommandOK, NetOK, CountOK, AtStep, Files, File, Original

(* The environment's steps that leave commands and files alone.            *)
LEMMA TypeNet ==
    ASSUME TypeOK, NEW s \in Sessions,
           SFTP(s) \/ CommandTimesOut(s) \/ ClientDisconnected(s) \/ ConnectionLost(s)
           \/ ChannelEnds(s)
    PROVE  TypeOK'
<1>1. UNCHANGED <<final, temp, left, pc, job, written, failed, landed, phase, gate, pending>>
  BY DEF SFTP, CommandTimesOut, ClientDisconnected, ConnectionLost, ChannelEnds
<1>2. NetOK'
  BY DEF TypeOK, NetOK, SFTP, CommandTimesOut, Invalidated, ClientDisconnected, ConnectionLost,
     ChannelEnds
<1> QED BY <1>1, <1>2 DEF TypeOK, RemoteOK, CommandOK, CountOK, AtStep

(* The commands of clients keep the types.                                 *)
LEMMA TypeBegin ==
    ASSUME TypeOK, NEW s \in Sessions,
           \/ \E p \in Paths, k \in Payloads : beginUpload(s, p, k)
           \/ \E p, q \in Paths : beginRename(s, p, q)
           \/ \E p \in Paths : beginDownload(s, p)
    PROVE  TypeOK'
<1>1. ASSUME NEW p \in Paths, NEW k \in Payloads, beginUpload(s, p, k) PROVE TypeOK'
  <2>1. k \in Nat
    BY UploadAssumption
  <2>2. CommandOK'
    BY <1>1, <2>1, CommandBegins DEF beginUpload, TypeOK
  <2> QED BY <1>1, <2>2 DEF beginUpload, TryAcquire, TypeOK, RemoteOK, NetOK, CountOK
<1>2. ASSUME NEW p \in Paths, NEW q \in Paths, beginRename(s, p, q) PROVE TypeOK'
  <2>1. CommandOK'
    BY <1>2, CommandBegins DEF beginRename, TypeOK
  <2> QED BY <1>2, <2>1 DEF beginRename, TypeOK, RemoteOK, NetOK, CountOK
<1>3. ASSUME NEW p \in Paths, beginDownload(s, p) PROVE TypeOK'
  <2>1. CommandOK'
    BY <1>3, CommandBegins DEF beginDownload, TypeOK
  <2> QED BY <1>3, <2>1 DEF beginDownload, TryAcquire, TypeOK, RemoteOK, NetOK, CountOK
<1> QED BY <1>1, <1>2, <1>3

(* The steps of the data connection keep the types.                        *)
LEMMA TypeData ==
    ASSUME TypeOK, NEW s \in Sessions, Data(s)
    PROVE  TypeOK'
<1>1. ASSUME Seek(s) \/ TransferOpen(s) \/ EndOfData(s) PROVE TypeOK'
  <2>1. CommandOK'
    BY <1>1, CommandByStep, CommandGoesOn DEF Seek, TransferOpen, EndOfData, TypeOK, CommandOK
  <2> QED BY <1>1, <2>1 DEF Seek, TransferOpen, EndOfData, TypeOK, RemoteOK, NetOK, CountOK
<1>2. ASSUME Write(s) PROVE TypeOK'
  <2>1. job[s] \in Jobs /\ job[s].cmd = "STOR"
    BY <1>2, CommandByStep DEF Write, TypeOK
  <2>2. RemoteOK'
    BY <1>2, <2>1, JobFacts DEF Write, Extended, TypeOK, RemoteOK, CommandOK, Files, File
  <2>3. CASE Fail(s, "close")
    <3>1. CommandOK'
      BY <2>1, <2>3, CommandGoesOn DEF Fail, TypeOK, CommandOK
    <3> QED BY <1>2, <2>2, <3>1, ConnType DEF Write, TypeOK, NetOK, CountOK
  <2>4. CASE UNCHANGED <<pc, job, failed, landed>> /\ written' = [written EXCEPT ![s] = @ + 1]
    <3>1. CommandOK'
      BY <2>4 DEF TypeOK, CommandOK, AtStep
    <3> QED BY <1>2, <2>2, <3>1, ConnType DEF Write, TypeOK, NetOK, CountOK
  <2> QED BY <1>2, <2>3, <2>4 DEF Write
<1>3. ASSUME TransferError(s) PROVE TypeOK'
  <2>1. CommandOK'
    BY <1>3, CommandByStep, CommandGoesOn DEF TransferError, Fail, TypeOK, CommandOK
  <2> QED BY <1>3, <2>1 DEF TransferError, TypeOK, RemoteOK, NetOK, CountOK
<1>4. ASSUME CloseDownload(s) PROVE TypeOK'
  BY <1>4, CommandEnds DEF CloseDownload, Release, TypeOK, RemoteOK, NetOK, CountOK
<1> QED BY <1>1, <1>2, <1>3, <1>4 DEF Data

(* The steps the gateway takes by itself keep the types.                   *)
LEMMA TypeServer ==
    ASSUME TypeOK, NEW s \in Sessions, Server(s)
    PROVE  TypeOK'
<1>1. ASSUME StatFinal(s) PROVE TypeOK'
  <2>1. CommandOK'
    BY <1>1, CommandByStep, CommandGoesOn, CommandEnds DEF StatFinal, AbortUpload, TypeOK,
       CommandOK
  <2>2. NetOK' /\ CountOK'
    BY <1>1, ConnType DEF StatFinal, AbortUpload, Release, TypeOK, NetOK, CountOK
  <2> QED BY <1>1, <2>1, <2>2 DEF StatFinal, TypeOK, RemoteOK
<1>2. ASSUME CreateTemp(s) PROVE TypeOK'
  <2>1. job[s] \in Jobs /\ job[s].cmd = "STOR"
    BY <1>2, CommandByStep DEF CreateTemp, TypeOK
  <2>2. CommandOK'
    BY <1>2, <2>1, CommandGoesOn, CommandEnds DEF CreateTemp, AbortUpload, TypeOK, CommandOK
  <2>3. NetOK' /\ CountOK'
    BY <1>2, ConnType DEF CreateTemp, AbortUpload, Release, TypeOK, NetOK, CountOK
  <2>4. RemoteOK'
    <3>1. TempPath(s) \in Paths \X Sessions
      BY <2>1, JobFacts DEF TempPath
    <3>2. left' \subseteq Paths \X Sessions
      BY <1>2, <3>1 DEF CreateTemp, TypeOK, RemoteOK
    <3>3. temp' \in [Paths \X Sessions -> Files]
      BY <1>2, <2>1, JobFacts DEF CreateTemp, Truncated, TypeOK, RemoteOK, Files, File
    <3> QED BY <1>2, <3>2, <3>3 DEF CreateTemp, TypeOK, RemoteOK
  <2> QED BY <2>2, <2>3, <2>4 DEF TypeOK
<1>3. ASSUME CloseFile(s) PROVE TypeOK'
  <2>1. CommandOK'
    BY <1>3, CommandByStep, CommandGoesOn DEF CloseFile, Fail, TypeOK, CommandOK
  <2>2. NetOK' /\ CountOK'
    BY <1>3, ConnType DEF CloseFile, TypeOK, NetOK, CountOK
  <2> QED BY <1>3, <2>1, <2>2 DEF CloseFile, TypeOK, RemoteOK
<1>4. ASSUME Cleanup(s) PROVE TypeOK'
  <2>1. CommandOK'
    BY <1>4, CommandEnds DEF Cleanup, Finish, TypeOK
  <2>2. NetOK' /\ CountOK'
    BY <1>4, ConnType DEF Cleanup, Finish, Release, TypeOK, NetOK, CountOK
  <2>3. RemoteOK'
    <3>1. TempPath(s) \in Paths \X Sessions
      BY <1>4, CommandByStep, JobFacts DEF Cleanup, TempPath, TypeOK
    <3>2. left' \subseteq Paths \X Sessions
      BY <1>4, <3>1 DEF Cleanup, TypeOK, RemoteOK
    <3>3. temp' \in [Paths \X Sessions -> Files]
      BY <1>4 DEF Cleanup, TypeOK, RemoteOK, Files
    <3> QED BY <1>4, <3>2, <3>3 DEF Cleanup, TypeOK, RemoteOK
  <2> QED BY <2>1, <2>2, <2>3 DEF TypeOK
<1>5. ASSUME GiveUp(s), pc[s] \in Renaming PROVE CommandOK'
  BY <1>5, CommandByStep, CommandGoesOn, CommandEnds DEF GiveUp, TypeOK, CommandOK
<1>6. ASSUME Check(s) PROVE TypeOK'
  <2>1. CommandOK'
    BY <1>5, <1>6, CommandByStep, CommandGoesOn DEF Check, TypeOK, CommandOK
  <2>2. NetOK' /\ CountOK'
    BY <1>6, ConnType DEF Check, RefusedCommand, TypeOK, NetOK, CountOK
  <2> QED BY <1>6, <2>1, <2>2 DEF Check, TypeOK, RemoteOK
<1>7. ASSUME Exists(s) PROVE TypeOK'
  <2>1. CommandOK'
    BY <1>5, <1>7, CommandByStep, CommandGoesOn DEF Exists, TypeOK, CommandOK
  <2>2. NetOK' /\ CountOK'
    BY <1>7, ConnType DEF Exists, TypeOK, NetOK, CountOK
  <2> QED BY <1>7, <2>1, <2>2 DEF Exists, TypeOK, RemoteOK
<1>8. ASSUME RemoveTarget(s) PROVE TypeOK'
  <2>1. CommandOK'
    BY <1>5, <1>8, CommandByStep, CommandGoesOn DEF RemoveTarget, TypeOK, CommandOK
  <2>2. NetOK' /\ CountOK'
    BY <1>8, ConnType DEF RemoveTarget, RefusedCommand, TypeOK, NetOK, CountOK
  <2>3. RemoteOK'
    BY <1>8 DEF RemoveTarget, TypeOK, RemoteOK, Files
  <2> QED BY <2>1, <2>2, <2>3 DEF TypeOK
<1>9. ASSUME Rename(s) PROVE TypeOK'
  <2>1. CommandOK'
    BY <1>5, <1>9, CommandByStep, CommandGoesOn, CommandEnds
       DEF Rename, RenameDone, Finish, TypeOK, CommandOK
  <2>2. NetOK' /\ CountOK'
    BY <1>9, ConnType DEF Rename, RenameDone, Finish, Release, RefusedCommand, TypeOK, NetOK,
       CountOK
  <2>3. RemoteOK'
    <3>1. left' = left
      BY <1>9 DEF Rename
    <3>2. /\ TempPath(s) \in Paths \X Sessions
          /\ Source(s) \in Files
      BY <1>9, CommandByStep, JobFacts DEF Rename, Source, TempPath, TypeOK, RemoteOK
    <3>3. CASE Moved(s)
      BY <3>1, <3>2, <3>3 DEF Moved, TypeOK, RemoteOK, Files
    <3>4. CASE UNCHANGED <<final, temp>>
      BY <3>1, <3>4 DEF TypeOK, RemoteOK
    <3> QED BY <1>9, <3>3, <3>4 DEF Rename
  <2> QED BY <2>1, <2>2, <2>3 DEF TypeOK
<1>10. ASSUME OpenRead(s) PROVE TypeOK'
  <2>1. CommandOK'
    BY <1>10, CommandByStep, CommandGoesOn, CommandEnds DEF OpenRead, TypeOK, CommandOK
  <2>2. NetOK' /\ CountOK'
    BY <1>10, ConnType DEF OpenRead, Release, TypeOK, NetOK, CountOK
  <2> QED BY <1>10, <2>1, <2>2 DEF OpenRead, TypeOK, RemoteOK
<1> QED BY <1>1, <1>2, <1>3, <1>4, <1>6, <1>7, <1>8, <1>9, <1>10 DEF Server

(* Every step keeps the type invariant.                                    *)
LEMMA TypeNext == TypeOK /\ [Next]_vars => TypeOK'
<1> SUFFICES ASSUME TypeOK, [Next]_vars PROVE TypeOK'
  OBVIOUS
<1>1. CASE UNCHANGED vars
  BY <1>1 DEF vars, TypeOK, RemoteOK, CommandOK, NetOK, CountOK, AtStep
<1>2. ASSUME NEW s \in Sessions, NEW p \in Paths, Remove(s, p) PROVE TypeOK'
  <2>1. CommandOK'
    BY <1>2 DEF Remove, TypeOK, CommandOK, AtStep
  <2>2. NetOK' /\ CountOK'
    BY <1>2, ConnType DEF Remove, TypeOK, NetOK, CountOK
  <2>3. RemoteOK'
    BY <1>2 DEF Remove, TypeOK, RemoteOK, Files
  <2> QED BY <2>1, <2>2, <2>3 DEF TypeOK
<1> QED
  BY <1>1, <1>2, TypeBegin, TypeNet, TypeData, TypeServer DEF Next, Client

(* Type correctness of the gateway's file commands: every variable keeps   *)
(* its type and every session stays at a step of the command it is doing.  *)
THEOREM TypeCorrect == Spec => []TypeOK
BY TypeInit, TypeNext, PTL DEF Spec

-----------------------------------------------------------------------------
(* The gate and temporary_files_pending.                                   *)

(* The sets that are counted are finite.                                   *)
LEMMA Counted == IsFiniteSet(Uploading) /\ IsFiniteSet(Transferring)
BY UploadAssumption, FS_Subset DEF Uploading, Transferring

(* A command that does not transfer changes no count.                      *)
LEMMA CountsKept ==
    ASSUME AccountingExact, NEW s \in Sessions, CommandOK,
           UNCHANGED <<gate, pending>>,
           \/ UNCHANGED job
           \/ /\ job[s].cmd \notin {"STOR", "RETR"}
              /\ \E j : job' = [job EXCEPT ![s] = j] /\ j.cmd \notin {"STOR", "RETR"}
    PROVE  AccountingExact'
<1>1. \A x \in Sessions : /\ job'[x].cmd = "STOR" <=> job[x].cmd = "STOR"
                          /\ job'[x].cmd = "RETR" <=> job[x].cmd = "RETR"
  BY DEF CommandOK
<1>2. Uploading' = Uploading /\ Transferring' = Transferring
  BY <1>1 DEF Uploading, Transferring
<1> QED BY <1>2 DEF AccountingExact

(* An idle session that acquires a slot becomes a transfer.                *)
LEMMA CountsUp ==
    ASSUME AccountingExact, CommandOK, CountOK, NEW s \in Sessions, pc[s] = "idle",
           NEW j, job' = [job EXCEPT ![s] = j], TryAcquire,
           \/ j.cmd = "STOR" /\ pending' = pending + 1
           \/ j.cmd = "RETR" /\ pending' = pending
    PROVE  AccountingExact'
<1>1. s \notin Uploading /\ s \notin Transferring
  BY CommandByStep, JobFacts DEF Uploading, Transferring
<1>2. Transferring' = Transferring \cup {s}
  BY DEF Transferring, CommandOK
<1>3. gate' = Cardinality(Transferring)' /\ gate' <= MaxConcurrentTransfers
  <2>1. Cardinality(Transferring \cup {s}) = Cardinality(Transferring) + 1
    BY <1>1, Counted, FS_AddElement
  <2> QED BY <1>2, <2>1, UploadAssumption DEF AccountingExact, TryAcquire, CountOK
<1>4. pending' = Cardinality(Uploading)'
  <2>1. CASE j.cmd = "STOR"
    <3>1. Uploading' = Uploading \cup {s}
      BY <2>1 DEF Uploading, CommandOK
    <3> QED BY <1>1, <2>1, <3>1, Counted, FS_AddElement, FS_CardinalityType DEF AccountingExact
  <2>2. CASE j.cmd = "RETR"
    <3>1. Uploading' = Uploading
      BY <1>1, <2>2 DEF Uploading, CommandOK
    <3> QED BY <2>2, <3>1 DEF AccountingExact
  <2> QED BY <2>1, <2>2
<1> QED BY <1>3, <1>4 DEF AccountingExact

(* A transfer that ends gives its slot back: Release finds the gate in     *)
(* use, so it is never the no-op it is on an unused gate.                  *)
LEMMA CountsDown ==
    ASSUME AccountingExact, CommandOK, CountOK, NEW s \in Sessions, Return(s), Release,
           \/ job[s].cmd = "STOR" /\ pending' = pending - 1
           \/ job[s].cmd = "RETR" /\ pending' = pending
    PROVE  AccountingExact'
<1>1. s \in Transferring /\ Transferring' = Transferring \ {s}
  BY JobFacts DEF Transferring, CommandOK, Return
<1>2. gate' = Cardinality(Transferring)' /\ gate' <= MaxConcurrentTransfers
  <2>1. Cardinality(Transferring \ {s}) = Cardinality(Transferring) - 1
    BY <1>1, Counted, FS_RemoveElement
  <2>2. Cardinality(Transferring \ {s}) \in Nat
    BY Counted, FS_RemoveElement, FS_CardinalityType
  <2> QED BY <1>1, <2>1, <2>2, UploadAssumption DEF AccountingExact, Release, CountOK
<1>3. pending' = Cardinality(Uploading)'
  <2>1. CASE job[s].cmd = "STOR"
    <3>1. s \in Uploading /\ Uploading' = Uploading \ {s}
      BY <2>1, JobFacts DEF Uploading, CommandOK, Return
    <3> QED BY <2>1, <3>1, Counted, FS_RemoveElement DEF AccountingExact
  <2>2. CASE job[s].cmd = "RETR"
    <3>1. Uploading' = Uploading
      BY <2>2, JobFacts DEF Uploading, CommandOK, Return
    <3> QED BY <2>2, <3>1 DEF AccountingExact
  <2> QED BY <2>1, <2>2
<1> QED BY <1>2, <1>3 DEF AccountingExact

(* At the start nothing is counted.                                        *)
LEMMA AccountingInit == Init => AccountingExact
<1> SUFFICES ASSUME Init PROVE AccountingExact
  OBVIOUS
<1>1. Uploading = {} /\ Transferring = {}
  BY JobFacts DEF Init, Uploading, Transferring
<1> QED BY <1>1, FS_EmptySet, UploadAssumption DEF Init, AccountingExact

(* Every step keeps the counts: one case per action that begins or ends a  *)
(* command, the others leave jobs and counts alone.                        *)
LEMMA AccountingNext ==
    TypeOK /\ AccountingExact /\ [Next]_vars => AccountingExact'
<1> SUFFICES ASSUME TypeOK, AccountingExact, [Next]_vars PROVE AccountingExact'
  OBVIOUS
<1> USE DEF TypeOK
<1>1. CASE UNCHANGED vars
  BY <1>1 DEF vars, AccountingExact, Uploading, Transferring
<1>2. ASSUME NEW s \in Sessions, NEW p \in Paths, NEW k \in Payloads, beginUpload(s, p, k)
      PROVE  AccountingExact'
  <2> DEFINE j == [cmd |-> "STOR", src |-> p, dst |-> p, size |-> k]
  <2>1. job' = [job EXCEPT ![s] = j] /\ j.cmd = "STOR"
    BY <1>2 DEF beginUpload, Begin
  <2> HIDE DEF j
  <2> QED BY <1>2, <2>1, CountsUp DEF beginUpload, Ready
<1>3. ASSUME NEW s \in Sessions, NEW p \in Paths, beginDownload(s, p)
      PROVE  AccountingExact'
  <2> DEFINE j == [cmd |-> "RETR", src |-> p, dst |-> p, size |-> 0]
  <2>1. job' = [job EXCEPT ![s] = j] /\ j.cmd = "RETR"
    BY <1>3 DEF beginDownload, Begin
  <2> HIDE DEF j
  <2> QED BY <1>3, <2>1, CountsUp DEF beginDownload, Ready
<1>4. ASSUME NEW s \in Sessions, NEW p \in Paths, NEW q \in Paths, beginRename(s, p, q)
      PROVE  AccountingExact'
  <2> DEFINE j == [cmd |-> "RNTO", src |-> p, dst |-> q, size |-> 0]
  <2>1. job' = [job EXCEPT ![s] = j] /\ j.cmd = "RNTO"
    BY <1>4 DEF beginRename, Begin
  <2> HIDE DEF j
  <2>2. job[s].cmd = "none"
    BY <1>4, CommandByStep, JobFacts DEF beginRename, Ready
  <2> QED BY <1>4, <2>1, <2>2, CountsKept DEF beginRename
<1>5. ASSUME NEW s \in Sessions,
             \/ \E p \in Paths : Remove(s, p)
             \/ SFTP(s) \/ CommandTimesOut(s) \/ ClientDisconnected(s) \/ ConnectionLost(s)
           \/ ChannelEnds(s)
             \/ Seek(s) \/ TransferOpen(s) \/ Write(s) \/ EndOfData(s) \/ TransferError(s)
             \/ CloseFile(s)
      PROVE  AccountingExact'
  <2>1. UNCHANGED <<job, gate, pending>>
    BY <1>5 DEF Remove, SFTP, CommandTimesOut, ClientDisconnected, ConnectionLost, ChannelEnds,
       Seek,
                TransferOpen, Write, EndOfData, TransferError, Fail, CloseFile
  <2> QED BY <2>1, CountsKept
<1>6. ASSUME NEW s \in Sessions, StatFinal(s) \/ CreateTemp(s)
      PROVE  AccountingExact'
  <2>1. job[s].cmd = "STOR"
    BY <1>6, CommandByStep DEF StatFinal, CreateTemp
  <2> QED BY <1>6, <2>1, CountsKept, CountsDown DEF StatFinal, CreateTemp, AbortUpload
<1>7. ASSUME NEW s \in Sessions, OpenRead(s) \/ CloseDownload(s)
      PROVE  AccountingExact'
  <2>1. job[s].cmd = "RETR"
    BY <1>7, CommandByStep DEF OpenRead, CloseDownload
  <2> QED BY <1>7, <2>1, CountsKept, CountsDown DEF OpenRead, CloseDownload
<1>8. ASSUME NEW s \in Sessions, Cleanup(s)
      PROVE  AccountingExact'
  BY <1>8, CommandByStep, CountsDown DEF Cleanup, Finish
<1>9. ASSUME NEW s \in Sessions, pc[s] \in Renaming, UNCHANGED <<gate, pending>>,
             GiveUp(s) \/ (Return(s) /\ job[s].cmd # "STOR")
      PROVE  AccountingExact'
  <2>1. CASE UNCHANGED job
    BY <1>9, <2>1, CountsKept
  <2>2. CASE Return(s) /\ job[s].cmd # "STOR"
    <3>1. job[s].cmd = "RNTO"
      BY <1>9, <2>2, CommandByStep
    <3> QED BY <1>9, <2>2, <3>1, CountsKept, JobFacts DEF Return
  <2> QED BY <1>9, <2>1, <2>2 DEF GiveUp
<1>10. ASSUME NEW s \in Sessions, Check(s) \/ Exists(s) \/ RemoveTarget(s)
      PROVE  AccountingExact'
  <2>1. /\ pc[s] \in Renaming
        /\ UNCHANGED <<gate, pending>>
        /\ UNCHANGED job \/ GiveUp(s)
    BY <1>10 DEF Check, Exists, RemoveTarget
  <2> QED BY <1>9, <2>1, CountsKept
<1>11. ASSUME NEW s \in Sessions, Rename(s)
      PROVE  AccountingExact'
  <2>1. CASE Finish(s, "committed") /\ job[s].cmd = "STOR"
    BY <2>1, CountsDown DEF Finish
  <2>2. CASE /\ UNCHANGED <<gate, pending>>
             /\ UNCHANGED job \/ GiveUp(s) \/ (Return(s) /\ job[s].cmd # "STOR")
    BY <1>9, <1>11, <2>2, CountsKept DEF Rename
  <2> QED BY <1>11, <2>1, <2>2 DEF Rename, RenameDone
<1> QED
  BY <1>1, <1>2, <1>3, <1>4, <1>5, <1>6, <1>7, <1>8, <1>10, <1>11
     DEF Next, Client, Data, Server

(* Slots and pending uploads are counted exactly, whatever fails.          *)
THEOREM Accounting == Spec => []AccountingExact
BY TypeCorrect, AccountingInit, AccountingNext, PTL DEF Spec

-----------------------------------------------------------------------------
(***************************************************************************)
(* What a final name may show.  FinalWhole is not inductive: that a commit *)
(* publishes a complete file rests on what the temporary file of an upload *)
(* holds at each step of its handle.                                       *)
(***************************************************************************)

Within(k) == MaxFileSize > 0 => k <= MaxFileSize

(* The temporary file of session s at each step of its upload.             *)
Staged(s) ==
    /\ pc[s] \in {"idle", "stat", "create", "open"} => written[s] = 0
    /\ pc[s] \in Copying =>
          /\ temp[TempPath(s)] = [n |-> written[s], of |-> job[s].size]
          /\ Within(written[s])
    /\ pc[s] = "close" /\ ~failed[s] => temp[TempPath(s)] \in Complete
    /\ pc[s] \in Renaming /\ job[s].cmd = "STOR" => temp[TempPath(s)] \in Complete
    /\ job[s].cmd = "STOR" => job[s].size \in Payloads

(* Which way the rename goes, and that the policy allowed the command.     *)
Routed(s) ==
    /\ pc[s] = "exists" => ~(HasPosixRename /\ Overwrite)
    /\ pc[s] = "remove" => Overwrite /\ ~HasPosixRename
    /\ job[s].cmd = "STOR" => AllowUpload
    /\ job[s].cmd = "RNTO" => AllowRename

FinalComplete == \A p \in Paths : final[p] \in Complete \cup {Original, NoFile}

UploadInv ==
    /\ FinalComplete
    /\ \A s \in Sessions : Staged(s)
    /\ \A s \in Sessions : Routed(s)

(* The files AtomicStore may publish are whole, and so is the original.    *)
LEMMA CompleteFiles ==
    /\ \A f \in Complete : f # NoFile /\ Whole(f)
    /\ \A k \in Payloads : Within(k) => [n |-> k, of |-> k] \in Complete
    /\ Original # NoFile /\ Whole(Original)
<1>1. Original \in File /\ Whole(Original)
  BY UploadAssumption DEF Original, File, Whole
<1>2. \A f \in Complete : f \in File /\ Whole(f)
  BY UploadAssumption DEF Complete, File, Whole
<1>3. \A k \in Payloads : Within(k) => [n |-> k, of |-> k] \in Complete
  BY DEF Complete, Within
<1> QED BY <1>1, <1>2, <1>3, UploadAssumption

(* What a step of session s leaves alone of the other sessions.            *)
Others(s) ==
    \A x \in Sessions \ {s} :
        /\ pc'[x] = pc[x]
        /\ job'[x] = job[x]
        /\ written'[x] = written[x]
        /\ failed'[x] = failed[x]
        /\ \A p \in Paths : temp'[<<p, x>>] = temp[<<p, x>>]

(* A step of s leaves the command and the files of other sessions alone.   *)
LEMMA OthersApart ==
    ASSUME TypeOK, NEW s \in Sessions, Client(s) \/ Data(s) \/ Server(s)
    PROVE  Others(s)
<1>1. \A x \in Sessions \ {s} :
         /\ pc'[x] = pc[x]
         /\ job'[x] = job[x]
         /\ written'[x] = written[x]
         /\ failed'[x] = failed[x]
  BY DEF TypeOK, CommandOK, Client, Data, Server, beginUpload, beginRename, beginDownload,
         Begin, Remove, SFTP, CommandTimesOut, ClientDisconnected, ConnectionLost, ChannelEnds,
         Seek,
         TransferOpen, Write, EndOfData, TransferError, Fail, CloseDownload, StatFinal,
         CreateTemp, AbortUpload, CloseFile, Check, Exists, RemoveTarget, Rename,
         RenameDone, Finish, GiveUp, Cleanup, OpenRead, Return, GoTo
<1>2. \A x \in Sessions \ {s}, p \in Paths : temp'[<<p, x>>] = temp[<<p, x>>]
  BY DEF TypeOK, RemoteOK, Client, Data, Server, beginUpload, beginRename, beginDownload,
         Remove, SFTP, CommandTimesOut, ClientDisconnected, ConnectionLost, ChannelEnds, Seek,
         TransferOpen, Write, Extended, EndOfData, TransferError, CloseDownload, StatFinal,
         CreateTemp, Truncated, CloseFile, Check, Exists, RemoveTarget, Rename, Moved,
         Cleanup, OpenRead, TempPath
<1> QED BY <1>1, <1>2 DEF Others

(* What a step does not touch stays as it was.                             *)
LEMMA OthersKeep ==
    ASSUME TypeOK, NEW s \in Sessions, Others(s), NEW x \in Sessions \ {s},
           Staged(x), Routed(x)
    PROVE  Staged(x)' /\ Routed(x)'
<1>1. job[x] \in Jobs \/ job[x] = NoJob
  BY DEF TypeOK, CommandOK
<1>2. CASE job[x] \in Jobs
  <2>1. temp'[TempPath(x)'] = temp[TempPath(x)]
    BY <1>2, JobFacts DEF Others, TempPath
  <2> QED BY <2>1 DEF Others, Staged, Routed, TempPath
<1>3. CASE job[x] = NoJob
  <2>1. pc[x] = "idle"
    BY <1>3, JobFacts DEF TypeOK, CommandOK, AtStep
  <2> QED BY <1>3, <2>1, JobFacts DEF Others, Staged, Routed
<1> QED BY <1>1, <1>2, <1>3

(* A session that becomes idle has nothing staged.                         *)
LEMMA ReturnStaged ==
    ASSUME TypeOK, NEW s \in Sessions, Return(s)
    PROVE  Staged(s)' /\ Routed(s)'
BY JobFacts DEF TypeOK, CommandOK, Return, GoTo, Staged, Routed

(* The inductive invariant holds initially.                                *)
LEMMA UploadInit == Init => UploadInv
BY JobFacts DEF Init, UploadInv, FinalComplete, Staged, Routed

(* A step of session s keeps what its own upload has staged.               *)
LEMMA StagedByClient ==
    ASSUME TypeOK, NEW s \in Sessions, Staged(s), Routed(s), Client(s)
    PROVE  Staged(s)' /\ Routed(s)'
<1>1. ASSUME NEW p \in Paths, NEW k \in Payloads, beginUpload(s, p, k)
      PROVE  Staged(s)' /\ Routed(s)'
  <2>1. job'[s].cmd = "STOR" /\ job'[s].size = k
    BY <1>1 DEF beginUpload, Begin, TypeOK, CommandOK
  <2>2. pc'[s] \in {"stat", "create"} /\ written'[s] = 0
    BY <1>1 DEF beginUpload, Begin, Ready, GoTo, TypeOK, CommandOK, Staged
  <2> QED BY <1>1, <2>1, <2>2 DEF Staged, Routed, beginUpload
<1>2. ASSUME NEW p \in Paths, NEW q \in Paths, beginRename(s, p, q)
      PROVE  Staged(s)' /\ Routed(s)'
  <2>1. job'[s].cmd = "RNTO" /\ pc'[s] = "check"
    BY <1>2 DEF beginRename, Begin, GoTo, TypeOK, CommandOK
  <2> QED BY <1>2, <2>1 DEF Staged, Routed, beginRename
<1>3. ASSUME NEW p \in Paths, beginDownload(s, p)
      PROVE  Staged(s)' /\ Routed(s)'
  <2>1. job'[s].cmd = "RETR" /\ pc'[s] = "openread"
    BY <1>3 DEF beginDownload, Begin, GoTo, TypeOK, CommandOK
  <2> QED BY <2>1 DEF Staged, Routed
<1>4. ASSUME \/ \E p \in Paths : Remove(s, p)
             \/ SFTP(s) \/ CommandTimesOut(s) \/ ClientDisconnected(s) \/ ConnectionLost(s)
           \/ ChannelEnds(s)
      PROVE  Staged(s)' /\ Routed(s)'
  <2>1. UNCHANGED <<temp, pc, job, written, failed>>
    BY <1>4 DEF Remove, SFTP, CommandTimesOut, ClientDisconnected, ConnectionLost, ChannelEnds
  <2> QED BY <2>1 DEF Staged, Routed, TempPath
<1> QED BY <1>1, <1>2, <1>3, <1>4 DEF Client

(* The data connection keeps a session's file staged.                      *)
LEMMA StagedByData ==
    ASSUME TypeOK, ~RestBeforeStor, NEW s \in Sessions, Staged(s), Routed(s), Data(s)
    PROVE  Staged(s)' /\ Routed(s)'
<1>1. ASSUME CloseDownload(s) PROVE Staged(s)' /\ Routed(s)'
  BY <1>1, ReturnStaged DEF CloseDownload
<1>2. CASE ~CloseDownload(s)
  <2>1. /\ job[s] \in Jobs
        /\ job[s].cmd = "STOR"
        /\ UNCHANGED job
        /\ TempPath(s)' = TempPath(s)
        /\ TempPath(s) \in Paths \X Sessions
    BY <1>2, CommandByStep, JobFacts DEF Data, Seek, TransferOpen, Write, EndOfData,
       TransferError, Fail, TypeOK, TempPath
  <2>2. CASE TransferOpen(s)
    BY <2>1, <2>2 DEF TransferOpen, GoTo, TypeOK, CommandOK, Staged, Routed
  <2>3. CASE EndOfData(s)
    BY <2>1, <2>3, CompleteFiles DEF EndOfData, GoTo, TypeOK, CommandOK, Staged, Routed
  <2>4. ASSUME Fail(s, "close") PROVE Staged(s)' /\ Routed(s)'
    BY <2>1, <2>4 DEF Fail, GoTo, TypeOK, CommandOK, Staged, Routed
  <2>5. CASE Write(s) /\ ~Fail(s, "close")
    <3>1. /\ pc[s] = "copy"
          /\ UNCHANGED <<pc, failed>>
          /\ written'[s] = written[s] + 1
          /\ written[s] \in Nat
          /\ Within(written'[s])
      BY <2>5, UploadAssumption DEF Write, Exceeds, Within, TypeOK, CommandOK
    <3>2. temp'[TempPath(s)] = [n |-> written[s] + 1, of |-> job[s].size]
      BY <2>1, <2>5 DEF Write, Extended, TypeOK, RemoteOK
    <3> QED BY <2>1, <3>1, <3>2 DEF Staged, Routed
  <2> QED BY <1>2, <2>2, <2>3, <2>4, <2>5 DEF Data, Seek, TransferError
<1> QED BY <1>1, <1>2

(* The gateway's own steps keep a session's file staged.                   *)
LEMMA StagedByServer ==
    ASSUME TypeOK, NEW s \in Sessions, Staged(s), Routed(s), Server(s)
    PROVE  Staged(s)' /\ Routed(s)'
<1>1. CASE Return(s)
  BY <1>1, ReturnStaged
<1>2. CASE ~Return(s)
  <2>1. /\ job[s] \in Jobs
        /\ UNCHANGED job
        /\ TempPath(s)' = TempPath(s)
        /\ TempPath(s) \in Paths \X Sessions
    BY <1>2, CommandByStep, JobFacts DEF Server, StatFinal, CreateTemp, AbortUpload,
       CloseFile, Fail, Check, Exists, RemoveTarget, Rename, RenameDone, Finish, GiveUp,
       Cleanup, OpenRead, TypeOK, TempPath
  <2>2. CASE StatFinal(s)
    BY <1>2, <2>1, <2>2 DEF StatFinal, AbortUpload, GoTo, TypeOK, CommandOK, Staged, Routed
  <2>3. CASE CreateTemp(s)
    <3>1. /\ pc'[s] = "open"
          /\ UNCHANGED <<written, failed>>
          /\ temp'[TempPath(s)] = [n |-> 0, of |-> job[s].size]
      BY <1>2, <2>1, <2>3 DEF CreateTemp, AbortUpload, Truncated, GoTo, TypeOK, CommandOK,
         RemoteOK
    <3>2. Within(0)
      BY UploadAssumption DEF Within
    <3> QED BY <2>1, <2>3, <3>1, <3>2 DEF CreateTemp, Staged, Routed
  <2>4. CASE CloseFile(s)
    BY <2>1, <2>4 DEF CloseFile, Fail, GoTo, TypeOK, CommandOK, Staged, Routed
  <2>5. CASE Check(s)
    BY <1>2, <2>1, <2>5 DEF Check, GiveUp, GoTo, TypeOK, CommandOK, Staged, Routed
  <2>6. CASE Exists(s)
    BY <1>2, <2>1, <2>6 DEF Exists, GiveUp, GoTo, TypeOK, CommandOK, Staged, Routed
  <2>7. CASE RemoveTarget(s)
    BY <1>2, <2>1, <2>7 DEF RemoveTarget, GiveUp, GoTo, TypeOK, CommandOK, Staged, Routed
  <2>8. CASE Rename(s)
    <3>1. pc'[s] = "cleanup"
      BY <1>2, <2>8 DEF Rename, RenameDone, Finish, GiveUp, GoTo, TypeOK, CommandOK
    <3> QED BY <2>1, <3>1 DEF Staged, Routed
  <2>9. CASE OpenRead(s)
    <3>1. pc'[s] = "read" /\ job[s].cmd = "RETR"
      BY <1>2, <2>9, CommandByStep DEF OpenRead, GoTo, TypeOK, CommandOK
    <3> QED BY <2>1, <3>1 DEF Staged, Routed
  <2> QED BY <1>2, <2>2, <2>3, <2>4, <2>5, <2>6, <2>7, <2>8, <2>9
          DEF Server, Cleanup, Finish
<1> QED BY <1>1, <1>2

(* Only RNTO and DELE, and a commit of what is staged, touch final names.  *)
LEMMA FinalStays ==
    ASSUME TypeOK, FinalComplete, NEW s \in Sessions, Staged(s),
           Client(s) \/ Data(s) \/ Server(s)
    PROVE  FinalComplete'
<1>1. ASSUME UNCHANGED final PROVE FinalComplete'
  BY <1>1 DEF FinalComplete
<1>2. ASSUME NEW p \in Paths, Remove(s, p) PROVE FinalComplete'
  BY <1>2 DEF Remove, FinalComplete, TypeOK, RemoteOK
<1>3. ASSUME RemoveTarget(s) PROVE FinalComplete'
  BY <1>3 DEF RemoveTarget, FinalComplete, TypeOK, RemoteOK
<1>4. ASSUME Rename(s) PROVE FinalComplete'
  <2>1. job[s] \in Jobs /\ job[s].cmd \in {"STOR", "RNTO"}
    BY <1>4, CommandByStep DEF Rename, TypeOK
  <2>2. job[s].src \in Paths /\ job[s].dst \in Paths
    BY <2>1, JobFacts
  <2>3. Source(s) \in Complete \cup {Original, NoFile}
    BY <1>4, <2>1, <2>2 DEF Rename, Source, Staged, FinalComplete
  <2>4. CASE Moved(s)
    <3>1. ASSUME NEW p \in Paths
          PROVE  final'[p] \in {final[p], NoFile, Source(s)}
      BY <2>1, <2>2, <2>4 DEF Moved, TypeOK, RemoteOK
    <3> QED BY <2>3, <3>1 DEF FinalComplete
  <2> QED BY <1>1, <1>4, <2>4 DEF Rename
<1> QED
  BY <1>1, <1>2, <1>3, <1>4
     DEF Client, Data, Server, beginUpload, beginRename, beginDownload, SFTP,
         CommandTimesOut, ClientDisconnected, ConnectionLost, ChannelEnds, Seek, TransferOpen,
         Write,
         EndOfData, TransferError, CloseDownload, StatFinal, CreateTemp, CloseFile, Check,
         Exists, Cleanup, OpenRead

(* The inductive step, for gateways whose clients send no REST before STOR. *)
LEMMA UploadNext ==
    ASSUME ~RestBeforeStor
    PROVE  TypeOK /\ UploadInv /\ [Next]_vars => UploadInv'
<1> SUFFICES ASSUME TypeOK, UploadInv, [Next]_vars PROVE UploadInv'
  OBVIOUS
<1>1. CASE UNCHANGED vars
  BY <1>1 DEF vars, UploadInv, FinalComplete, Staged, Routed, TempPath
<1>2. ASSUME NEW s \in Sessions, Client(s) \/ Data(s) \/ Server(s)
      PROVE  UploadInv'
  <2>1. FinalComplete'
    BY <1>2, FinalStays DEF UploadInv
  <2>2. ASSUME NEW x \in Sessions PROVE Staged(x)' /\ Routed(x)'
    <3>1. CASE x = s
      BY <1>2, <3>1, StagedByClient, StagedByData, StagedByServer DEF UploadInv
    <3>2. CASE x # s
      BY <1>2, <3>2, OthersApart, OthersKeep DEF UploadInv
    <3> QED BY <3>1, <3>2
  <2> QED BY <2>1, <2>2 DEF UploadInv
<1> QED BY <1>1, <1>2 DEF Next

(* The inductive invariant holds throughout.                               *)
LEMMA UploadInvariant ==
    ASSUME ~RestBeforeStor
    PROVE  Spec => [](TypeOK /\ UploadInv)
BY TypeCorrect, UploadInit, UploadNext, PTL DEF Spec

(* No incomplete or oversized file ever shows under a final name, whatever *)
(* the server, the permissions and the faults, as long as no client sends  *)
(* REST before STOR.                                                       *)
THEOREM FinalNamesWhole == ~RestBeforeStor => (Spec => []FinalWhole)
<1> SUFFICES ASSUME ~RestBeforeStor PROVE Spec => []FinalWhole
  OBVIOUS
<1>1. UploadInv => FinalWhole
  BY CompleteFiles DEF UploadInv, FinalComplete, FinalWhole
<1> QED BY <1>1, UploadInvariant, PTL

-----------------------------------------------------------------------------
(* Without posix-rename the server itself refuses to rename over a file,   *)
(* so a user who may not overwrite never does.                             *)
THEOREM PlainRenameNeverReplaces == ~HasPosixRename => (Spec => NoReplace)
<1> SUFFICES ASSUME ~HasPosixRename PROVE Spec => NoReplace
  OBVIOUS
<1> DEFINE Keeps == ~Overwrite =>
              \A p \in Paths : final[p] # NoFile => final'[p] \in {final[p], NoFile}
<1>1. ASSUME TypeOK, [Next]_vars PROVE [Keeps]_vars
  <2>1. ASSUME UNCHANGED final PROVE Keeps
    BY <2>1
  <2>2. ASSUME NEW s \in Sessions, (\E p \in Paths : Remove(s, p)) \/ RemoveTarget(s)
        PROVE  Keeps
    BY <1>1, <2>2 DEF Remove, RemoveTarget, TypeOK, RemoteOK
  <2>3. ASSUME NEW s \in Sessions, Rename(s) PROVE Keeps
    <3>1. CASE CanRename(s) /\ Moved(s)
      BY <1>1, <3>1 DEF CanRename, Moved, TypeOK, RemoteOK
    <3> QED BY <2>1, <2>3, <3>1 DEF Rename
  <2> QED
    BY <1>1, <2>1, <2>2, <2>3
       DEF Next, Client, Data, Server, beginUpload, beginRename, beginDownload, SFTP,
           CommandTimesOut, ClientDisconnected, ConnectionLost, ChannelEnds, Seek,
           TransferOpen, Write,
           EndOfData, TransferError, CloseDownload, StatFinal, CreateTemp, CloseFile, Check,
           Exists, Cleanup, OpenRead
<1>2. Spec => [][Keeps]_vars
  BY <1>1, TypeCorrect, PTL DEF Spec
<1> QED BY <1>2 DEF NoReplace

-----------------------------------------------------------------------------
(* Refinement.                                                             *)

(* A session that is about to rename over a live connection may.           *)
MayRename(s) ==
    /\ pc[s] = "rename"
    /\ conn[s] \in {"up", "ending"}
    /\ CanRename(s)
    => Overwrite \/ final[job[s].dst] = NoFile

(* If nothing is removed before a rename, and every rename is permitted,   *)
(* a step changes the final names as one step of AtomicStore, if at all.   *)
LEMMA AtomicStep ==
    ASSUME TypeOK, UploadInv, [Next]_vars, HasPosixRename \/ ~Overwrite,
           \A s \in Sessions : MayRename(s)
    PROVE  [Store!Next]_final
<1>1. ASSUME NEW s \in Sessions, NEW p \in Paths, Remove(s, p)
      PROVE  Store!Next
  BY <1>1 DEF Remove, Store!Next, Store!Delete
<1>2. ASSUME NEW s \in Sessions, RemoveTarget(s) PROVE FALSE
  BY <1>2 DEF RemoveTarget, UploadInv, Routed
<1>3. ASSUME NEW s \in Sessions, Rename(s) PROVE [Store!Next]_final
  <2>1. job[s] \in Jobs /\ job[s].cmd \in {"STOR", "RNTO"}
    BY <1>3, CommandByStep DEF Rename, TypeOK
  <2>2. job[s].src \in Paths /\ job[s].dst \in Paths
    BY <2>1, JobFacts
  <2>3. CASE CanRename(s) /\ Moved(s) /\ (Served(s) \/ ReplyLost(s))
    <3>0. Store!MayReplace(job[s].dst)
      BY <1>3, <2>3 DEF Rename, Served, ReplyLost, MayRename, Store!MayReplace
    <3>1. CASE job[s].cmd = "STOR"
      <4>1. Source(s) \in Complete /\ AllowUpload
        BY <1>3, <2>3, <3>1 DEF Rename, Source, UploadInv, Staged, Routed
      <4>2. Store!Publish(job[s].dst)
        BY <2>3, <3>0, <3>1, <4>1 DEF Moved, Store!Publish
      <4> QED BY <2>2, <4>2 DEF Store!Next
    <3>2. CASE job[s].cmd = "RNTO"
      <4>1. AllowRename
        BY <3>2 DEF UploadInv, Routed
      <4>2. Store!Move(job[s].src, job[s].dst)
        BY <2>3, <3>0, <3>2, <4>1 DEF CanRename, Moved, Source, Store!Move
      <4> QED BY <2>2, <4>2 DEF Store!Next
    <3> QED BY <2>1, <3>1, <3>2
  <2>4. CASE UNCHANGED final
    BY <2>4
  <2> QED BY <1>3, <2>3, <2>4 DEF Rename
<1> QED
  BY <1>1, <1>2, <1>3
     DEF vars, Next, Client, Data, Server, beginUpload, beginRename, beginDownload, SFTP,
         CommandTimesOut, ClientDisconnected, ConnectionLost, ChannelEnds, Seek, TransferOpen,
         Write,
         EndOfData, TransferError, CloseDownload, StatFinal, CreateTemp, CloseFile, Check,
         Exists, Cleanup, OpenRead

(* If overwriting is allowed exactly where the server can do it atomically *)
(* the final names behave as AtomicStore says: every STOR, RNTO and DELE   *)
(* is one atomic, permitted change or none, whatever fails on the way.     *)
THEOREM ImplementsAtomicStore ==
    (HasPosixRename <=> Overwrite) /\ ~RestBeforeStor => (Spec => StoreIsAtomic)
<1> SUFFICES ASSUME HasPosixRename <=> Overwrite, ~RestBeforeStor
             PROVE  Spec => StoreIsAtomic
  OBVIOUS
<1>1. Init => Store!Init
  BY DEF Init, Store!Init
<1>2. \A s \in Sessions : MayRename(s)
  BY DEF MayRename, CanRename
<1>3. TypeOK /\ UploadInv /\ [Next]_vars => [Store!Next]_final
  BY <1>2, AtomicStep
<1>4. Spec => Store!Spec
  BY <1>1, <1>3, UploadInvariant, PTL DEF Spec, Store!Spec
<1> QED BY <1>4 DEF StoreIsAtomic

-----------------------------------------------------------------------------
(***************************************************************************)
(* What a failed upload may have done.  A rename that took effect leaves   *)
(* its upload at the cleanup, and without a connection to clean up with.   *)
(***************************************************************************)

LandedDown(s) == landed[s] => pc[s] = "cleanup" /\ conn[s] = "down"

(* The upload whose rename took effect stays cut off from the server.      *)
LEMMA LandedNext ==
    ASSUME TypeOK, [Next]_vars, NEW x \in Sessions, LandedDown(x)
    PROVE  LandedDown(x)'
<1>1. CASE UNCHANGED vars
  BY <1>1 DEF vars, LandedDown
<1>2. ASSUME NEW s \in Sessions, Client(s) \/ Data(s) \/ Server(s), x # s PROVE LandedDown(x)'
  <2>1. pc'[x] = pc[x]
    BY <1>2, OthersApart DEF Others
  <2>2. landed'[x] = landed[x] /\ conn'[x] = conn[x]
    BY <1>2 DEF TypeOK, CommandOK, NetOK, Client, Data, Server, beginUpload, beginRename,
       beginDownload, Begin, Remove, SFTP, CommandTimesOut, ClientDisconnected, ConnectionLost,
       ChannelEnds,
       Seek, TransferOpen, Write, EndOfData, TransferError, Fail, CloseDownload, StatFinal,
       CreateTemp, AbortUpload, CloseFile, Check, Exists, RemoveTarget, Rename, RenameDone,
       Finish, GiveUp, Cleanup, OpenRead, Return, Served, Refused, ReplyLost, Invalidated,
       RefusedCommand
  <2> QED BY <2>1, <2>2 DEF LandedDown
<1>3. CASE Client(x)
  BY <1>3 DEF TypeOK, CommandOK, NetOK, LandedDown, Client, beginUpload, beginRename,
     beginDownload, Begin, Ready, Remove, SFTP, CommandTimesOut, ClientDisconnected,
     ConnectionLost, ChannelEnds
<1>4. CASE Data(x)
  BY <1>4 DEF TypeOK, CommandOK, LandedDown, Data, Seek, TransferOpen, Write, EndOfData,
     TransferError, Fail, CloseDownload, Return
<1>5. CASE Server(x)
  <2>1. CASE Rename(x)
    <3>1. CASE ReplyLost(x) /\ GoTo(x, "cleanup")
      BY <3>1 DEF TypeOK, CommandOK, NetOK, LandedDown, ReplyLost, GoTo
    <3> QED BY <2>1, <3>1 DEF TypeOK, CommandOK, LandedDown, Rename, RenameDone, Finish, GiveUp,
        Return
  <2>2. CASE ~Rename(x)
    BY <1>5, <2>2 DEF TypeOK, CommandOK, LandedDown, Server, StatFinal, CreateTemp, AbortUpload,
       CloseFile, Fail, Check, Exists, RemoveTarget, GiveUp, Cleanup, Finish, OpenRead, Return
  <2> QED BY <2>1, <2>2
<1> QED BY <1>1, <1>2, <1>3, <1>4, <1>5 DEF Next

(* An upload that reports "failed" although its rename took effect has     *)
(* lost its connection and removed nothing, so what it published stays     *)
(* (upload.go:202-212), whatever the server, the permissions and faults.   *)
THEOREM FailedUploadsTruthful == Spec => FailureTruthful
<1> DEFINE Truthful == \A s \in Sessions :
              /\ phase[s] = "none"
              /\ phase'[s] = "failed"
              /\ landed[s]
              => conn[s] = "down" /\ UNCHANGED <<final, temp>>
           Inv == TypeOK /\ \A s \in Sessions : LandedDown(s)
<1>1. Init => \A s \in Sessions : LandedDown(s)
  BY DEF Init, LandedDown
<1>2. Inv /\ [Next]_vars => (\A s \in Sessions : LandedDown(s))'
  BY LandedNext
<1>3. Inv /\ [Next]_vars => [Truthful]_vars
  <2> SUFFICES ASSUME Inv, [Next]_vars, NEW x \in Sessions,
                      phase[x] = "none", phase'[x] = "failed", landed[x]
               PROVE  conn[x] = "down" /\ UNCHANGED <<final, temp>>
    OBVIOUS
  <2>1. pc[x] = "cleanup" /\ conn[x] = "down"
    BY DEF LandedDown
  <2>2. PICK s \in Sessions : Client(s) \/ Data(s) \/ Server(s)
    BY DEF Next, vars
  <2>3. (Cleanup(s) /\ s = x) \/ Rename(x)
    BY <2>2 DEF TypeOK, NetOK, Client, Data, Server, beginUpload, beginRename, beginDownload,
       Remove, SFTP, CommandTimesOut, ClientDisconnected, ConnectionLost, ChannelEnds, Seek,
       TransferOpen,
       Write, EndOfData, TransferError, CloseDownload, StatFinal, CreateTemp, CloseFile, Check,
       Exists, RemoveTarget, Rename, RenameDone, Cleanup, Finish, OpenRead
  <2>4. Cleanup(x)
    BY <2>1, <2>3 DEF Rename
  <2> QED BY <2>1, <2>4 DEF Cleanup, Served, ReplyLost
<1>4. Spec => [][Truthful]_vars
  BY <1>1, <1>2, <1>3, TypeCorrect, PTL DEF Spec
<1> QED BY <1>4 DEF FailureTruthful

-----------------------------------------------------------------------------
(***************************************************************************)
(* What is left of an upload that is over: nothing, unless the creation or *)
(* the removal of its temporary file failed.                               *)
(***************************************************************************)

(* A temporary file belongs to an upload in progress under its name, or    *)
(* its upload ended with a round trip that failed.                         *)
TempOwned(s) ==
    \A p \in Paths : temp[<<p, s>>] # NoFile =>
        \/ <<p, s>> \in left
        \/ /\ job[s].cmd = "STOR" /\ job[s].dst = p
           /\ pc[s] \in {"open", "copy", "close", "cleanup"} \cup Renaming

(* A step of session s changes no name of another session in left.         *)
LEMMA LeftApart ==
    ASSUME TypeOK, NEW s \in Sessions, Client(s) \/ Data(s) \/ Server(s),
           NEW x \in Sessions \ {s}, NEW p \in Paths, <<p, x>> \in left
    PROVE  <<p, x>> \in left'
BY DEF Client, Data, Server, beginUpload, beginRename, beginDownload, Remove, SFTP,
   CommandTimesOut, ClientDisconnected, ConnectionLost, ChannelEnds, Seek, TransferOpen, Write,
   EndOfData, TransferError, CloseDownload, StatFinal, CreateTemp, CloseFile, Check, Exists,
   RemoveTarget, Rename, Cleanup, OpenRead, TempPath

(* What the temporary names hold of a session whose step is over.          *)
LEMMA OwnTempNext ==
    ASSUME TypeOK, NEW s \in Sessions, TempOwned(s), Client(s) \/ Data(s) \/ Server(s)
    PROVE  TempOwned(s)'
<1>1. /\ job[s] \in Jobs => job[s].dst \in Paths /\ TempPath(s) \in Paths \X Sessions
      /\ TempPath(s) = <<job[s].dst, s>>
  BY JobFacts DEF TempPath
<1>2. ASSUME pc[s] \in {"idle", "stat", "create"} \cup RetrSteps, UNCHANGED <<temp, left>>
      PROVE  TempOwned(s)'
  BY <1>2 DEF TempOwned
<1>3. CASE Client(s)
  <2>1. UNCHANGED <<temp, left>>
    BY <1>3 DEF Client, beginUpload, beginRename, Remove, beginDownload, SFTP, CommandTimesOut,
       ClientDisconnected, ConnectionLost, ChannelEnds
  <2>2. CASE UNCHANGED <<pc, job>>
    BY <2>1, <2>2 DEF TempOwned
  <2>3. CASE pc[s] = "idle"
    BY <1>2, <2>1, <2>3
  <2> QED BY <1>3, <2>2, <2>3 DEF Client, beginUpload, beginRename, Remove, beginDownload, Ready,
      SFTP, CommandTimesOut, ClientDisconnected, ConnectionLost, ChannelEnds
<1>4. CASE Data(s)
  <2>1. CASE CloseDownload(s)
    BY <1>2, <2>1 DEF CloseDownload
  <2>2. CASE ~CloseDownload(s)
    <3>1. job[s] \in Jobs /\ job[s].cmd = "STOR" /\ UNCHANGED <<job, left>>
      BY <1>4, <2>2, CommandByStep DEF Data, Seek, TransferOpen, Write, EndOfData, TransferError,
         Fail, TypeOK
    <3>2. pc'[s] \in {"copy", "close"}
      BY <1>4, <2>2 DEF Data, Seek, TransferOpen, Write, EndOfData, TransferError, Fail, GoTo,
         TypeOK, CommandOK
    <3>3. \A p \in Paths : p # job[s].dst => temp'[<<p, s>>] = temp[<<p, s>>]
      BY <1>1, <1>4, <2>2, <3>1 DEF Data, Seek, TransferOpen, Write, Extended, EndOfData,
         TransferError, TypeOK, RemoteOK
    <3> QED BY <3>1, <3>2, <3>3 DEF TempOwned
  <2> QED BY <2>1, <2>2
<1>5. CASE Server(s)
  <2>1. CASE StatFinal(s) \/ OpenRead(s)
    BY <1>2, <2>1 DEF StatFinal, OpenRead
  <2>2. CASE CreateTemp(s)
    <3>1. job[s] \in Jobs /\ job[s].cmd = "STOR" /\ pc[s] = "create"
      BY <2>2, CommandByStep DEF CreateTemp, TypeOK
    <3>2. CASE UNCHANGED <<temp, left>>
      BY <1>2, <3>1, <3>2
    <3>3. CASE Truncated(s) /\ left' = left \cup {TempPath(s)}
      <4>1. \A p \in Paths : p # job[s].dst => temp'[<<p, s>>] = temp[<<p, s>>]
        BY <1>1, <3>1, <3>3 DEF Truncated, TypeOK, RemoteOK
      <4> QED BY <1>1, <3>1, <3>3, <4>1 DEF TempOwned
    <3>4. CASE Truncated(s) /\ left' = left \ {TempPath(s)} /\ GoTo(s, "open") /\ UNCHANGED job
      <4>1. \A p \in Paths : p # job[s].dst => temp'[<<p, s>>] = temp[<<p, s>>]
        BY <1>1, <3>1, <3>4 DEF Truncated, TypeOK, RemoteOK
      <4>2. pc'[s] = "open"
        BY <3>4 DEF GoTo, TypeOK, CommandOK
      <4> QED BY <1>1, <3>1, <3>4, <4>1, <4>2 DEF TempOwned
    <3> QED BY <2>2, <3>2, <3>3, <3>4 DEF CreateTemp
  <2>3. CASE Cleanup(s)
    <3>1. job[s] \in Jobs
      BY <2>3, CommandByStep DEF Cleanup, TypeOK
    <3>2. CASE temp' = [temp EXCEPT ![TempPath(s)] = NoFile] /\ left' = left
      BY <1>1, <3>1, <3>2 DEF TempOwned, TypeOK, RemoteOK
    <3>3. CASE /\ temp' = temp
               /\ left' = IF temp[TempPath(s)] = NoFile THEN left ELSE left \cup {TempPath(s)}
      BY <1>1, <3>1, <3>3 DEF TempOwned
    <3> QED BY <2>3, <3>2, <3>3 DEF Cleanup
  <2>4. ASSUME pc[s] \in Renaming \cup {"close"}, UNCHANGED <<temp, left>>,
               GiveUp(s) \/ UNCHANGED job,
               pc'[s] \in Renaming \cup {"cleanup", "idle"}, UNCHANGED job => pc'[s] # "idle"
        PROVE  TempOwned(s)'
    <3>1. CASE job[s].cmd = "STOR"
      BY <2>4, <3>1 DEF TempOwned, GiveUp
    <3>2. CASE job[s].cmd # "STOR"
      BY <2>4, <3>2 DEF TempOwned
    <3> QED BY <3>1, <3>2
  <2>5. CASE CloseFile(s) \/ Check(s) \/ Exists(s) \/ RemoveTarget(s)
    <3>1. /\ pc[s] \in Renaming \cup {"close"}
          /\ UNCHANGED <<temp, left>>
          /\ GiveUp(s) \/ UNCHANGED job
      BY <2>5 DEF CloseFile, Fail, Check, Exists, RemoveTarget
    <3>2. pc'[s] \in Renaming \cup {"cleanup", "idle"}
      BY <2>5 DEF CloseFile, Fail, Check, Exists, RemoveTarget, GiveUp, Return, GoTo, TypeOK,
         CommandOK
    <3>3. UNCHANGED job => pc'[s] # "idle"
      BY <2>5, CommandByStep, JobFacts DEF CloseFile, Fail, Check, Exists, RemoveTarget, GiveUp,
         Return, GoTo, TypeOK, CommandOK
    <3> QED BY <2>4, <3>1, <3>2, <3>3
  <2>6. CASE Rename(s)
    <3>1. job[s] \in Jobs /\ pc[s] = "rename" /\ left' = left
      BY <2>6, CommandByStep DEF Rename, TypeOK
    <3>2. CASE Moved(s) /\ job[s].cmd = "STOR"
      BY <1>1, <3>1, <3>2 DEF Moved, TempOwned, TypeOK, RemoteOK
    <3>3. CASE Moved(s) /\ job[s].cmd # "STOR"
      BY <3>1, <3>3 DEF Moved, TempOwned
    <3>4. CASE GiveUp(s) /\ temp' = temp
      <4>1. pc'[s] \in {"cleanup", "idle"}
        BY <3>4 DEF GiveUp, Return, GoTo, TypeOK, CommandOK
      <4>2. UNCHANGED job => pc'[s] # "idle"
        BY <3>1, <3>4, JobFacts DEF GiveUp, Return, GoTo, TypeOK, CommandOK
      <4> QED BY <2>4, <3>1, <3>4, <4>1, <4>2
    <3> QED BY <2>6, <3>2, <3>3, <3>4 DEF Rename
  <2> QED BY <1>5, <2>1, <2>2, <2>3, <2>5, <2>6 DEF Server
<1> QED BY <1>3, <1>4, <1>5

(* Every temporary file is accounted for, whatever fails.                  *)
LEMMA TempsOwned == Spec => [](\A s \in Sessions : TempOwned(s))
<1> DEFINE Owned == \A s \in Sessions : TempOwned(s)
<1>1. Init => Owned
  BY DEF Init, TempOwned
<1>2. ASSUME TypeOK, Owned, [Next]_vars PROVE Owned'
  <2>1. CASE UNCHANGED vars
    BY <1>2, <2>1 DEF vars, TempOwned
  <2>2. ASSUME NEW s \in Sessions, Client(s) \/ Data(s) \/ Server(s),
               NEW x \in Sessions
        PROVE  TempOwned(x)'
    <3>1. CASE x = s
      BY <1>2, <2>2, <3>1, OwnTempNext
    <3>2. CASE x # s
      <4>1. Others(s)
        BY <1>2, <2>2, OthersApart
      <4>2. \A p \in Paths : <<p, x>> \in left => <<p, x>> \in left'
        BY <1>2, <2>2, <3>2, LeftApart
      <4> QED BY <1>2, <3>2, <4>1, <4>2 DEF TempOwned, Others
    <3> QED BY <3>1, <3>2
  <2> QED BY <1>2, <2>1, <2>2 DEF Next
<1> HIDE DEF Owned
<1>3. Spec => []Owned
  BY <1>1, <1>2, TypeCorrect, PTL DEF Spec
<1> QED BY <1>3 DEF Owned

(* Whatever the faults, temporary_files_pending counts every temporary     *)
(* file on the server but those an upload left because a round trip of its *)
(* own failed, for any number of sessions and names (metrics.go:101,       *)
(* upload.go:37-69, 150-219).                                              *)
THEOREM PendingCovers == Spec => []PendingCoversTemps
<1>1. (\A s \in Sessions : TempOwned(s)) /\ AccountingExact => PendingCoversTemps
  <2> SUFFICES ASSUME \A s \in Sessions : TempOwned(s), AccountingExact
               PROVE  PendingCoversTemps
    OBVIOUS
  <2> DEFINE Own == Temps \ left
             owner == [k \in Own |-> k[2]]
  <2>1. ASSUME NEW k \in Own
        PROVE  k[2] \in Uploading /\ k = <<job[k[2]].dst, k[2]>>
    <3>1. PICK p \in Paths, s \in Sessions : k = <<p, s>>
      BY DEF Temps
    <3>2. temp[<<p, s>>] # NoFile /\ k[2] = s /\ <<p, s>> \notin left
      BY <3>1 DEF Temps
    <3> QED BY <3>1, <3>2 DEF TempOwned, Uploading
  <2>2. owner \in [Own -> Uploading]
    BY <2>1
  <2>3. \A a, b \in Own : owner[a] = owner[b] => a = b
    BY <2>1
  <2>4. owner \in Injection(Own, Uploading)
    BY <2>2, <2>3 DEF Injection, IsInjective
  <2>5. Cardinality(Own) <= Cardinality(Uploading)
    <3> HIDE DEF Own, owner
    <3> QED BY <2>4, Counted, FS_Injection
  <2> QED BY <2>5 DEF AccountingExact, PendingCoversTemps
<1> QED BY <1>1, Accounting, TempsOwned, PTL

-----------------------------------------------------------------------------
(***************************************************************************)
(* When no round trip fails a version that an overwrite has removed is     *)
(* being replaced.                                                         *)
(***************************************************************************)

(* No connection is dead or being closed.                                  *)
NoneDown == \A s \in Sessions : conn[s] \notin {"down", "ending"}

(* A name is empty only under an upload that will rename its file to it.   *)
Replaced(p) ==
    \/ final[p] # NoFile
    \/ \E s \in Sessions : pc[s] = "rename" /\ job[s].cmd = "STOR" /\ job[s].dst = p

(* Without faults a round trip is answered.                                *)
LEMMA AlwaysServed ==
    ASSUME Faults = {}, NoneDown, NEW s \in Sessions
    PROVE  ~Refused(s) /\ ~ReplyLost(s) /\ ~Invalidated(s) /\ ~RefusedCommand(s)
BY DEF NoneDown, Refused, ReplyLost, Invalidated, RefusedCommand

(* Without faults no connection ends.                                      *)
LEMMA FaultlessInvariant ==
    ASSUME Faults = {}
    PROVE  Spec => []NoneDown
<1>1. Init => NoneDown
  BY DEF Init, NoneDown
<1>2. ASSUME TypeOK, NoneDown, [Next]_vars PROVE NoneDown'
  <2>1. CASE UNCHANGED vars
    BY <1>2, <2>1 DEF vars, NoneDown
  <2>2. ASSUME NEW s \in Sessions, Client(s) \/ Data(s) \/ Server(s) PROVE NoneDown'
    <3>1. conn' = conn \/ conn' = [conn EXCEPT ![s] = "up"]
      BY <1>2, <2>2, AlwaysServed DEF NoneDown, Client, Data, Server, beginUpload, beginRename,
         beginDownload, Remove, SFTP, CommandTimesOut, ClientDisconnected, ConnectionLost,
         ChannelEnds, Seek, TransferOpen, Write, EndOfData, TransferError, CloseDownload,
         StatFinal, CreateTemp, CloseFile, Check, Exists, RemoveTarget, Rename, Cleanup,
         OpenRead, Served
    <3> QED BY <1>2, <3>1 DEF NoneDown, TypeOK, NetOK
  <2> QED BY <1>2, <2>1, <2>2 DEF Next
<1> QED BY <1>1, <1>2, TypeCorrect, PTL DEF Spec

(* An upload that empties a name is about to rename its file to it.        *)
LEMMA ReplacedNext ==
    ASSUME Faults = {}, ~AllowDelete, ~AllowRename, TypeOK, UploadInv, NoneDown, [Next]_vars,
           NEW p \in Paths, Replaced(p)
    PROVE  Replaced(p)'
<1>1. CASE UNCHANGED vars
  BY <1>1 DEF vars, Replaced
<1>2. ASSUME NEW s \in Sessions, Client(s) \/ Data(s) \/ Server(s) PROVE Replaced(p)'
  <2>1. CASE RemoveTarget(s)
    <3>1. job[s] \in Jobs /\ job[s].cmd = "STOR" /\ pc[s] = "remove"
      BY <2>1, CommandByStep DEF RemoveTarget, TypeOK, UploadInv, Routed
    <3>2. CASE final' = [final EXCEPT ![job[s].dst] = NoFile] /\ GoTo(s,
    "rename") /\ UNCHANGED job
      <4>1. pc'[s] = "rename" /\ job' = job
        BY <3>2 DEF GoTo, TypeOK, CommandOK
      <4>2. CASE job[s].dst = p
        BY <3>1, <4>1, <4>2 DEF Replaced
      <4>3. CASE job[s].dst # p /\ final[p] # NoFile
        BY <3>2, <4>3 DEF Replaced, TypeOK, RemoteOK
      <4>4. CASE final[p] = NoFile
        <5>1. PICK x \in Sessions : pc[x] = "rename" /\ job[x].cmd = "STOR" /\ job[x].dst = p
          BY <4>4 DEF Replaced
        <5>2. pc'[x] = "rename" /\ job'[x] = job[x]
          BY <3>1, <3>2, <5>1 DEF GoTo, TypeOK, CommandOK
        <5> QED BY <5>1, <5>2 DEF Replaced
      <4> QED BY <4>2, <4>3, <4>4
    <3>3. CASE final' = final /\ UNCHANGED job
      <4>1. \A x \in Sessions : pc[x] = "rename" => pc'[x] = "rename"
        BY <1>2, <3>1, OthersApart DEF Others
      <4> QED BY <3>3, <4>1 DEF Replaced
    <3> QED BY <2>1, <3>1, <3>2, <3>3, AlwaysServed DEF RemoveTarget, GiveUp
  <2>2. CASE Rename(s)
    <3>1. job[s] \in Jobs /\ job[s].cmd = "STOR" /\ pc[s] = "rename"
      BY <2>2, CommandByStep DEF Rename, TypeOK, UploadInv, Routed
    <3>2. Source(s) # NoFile /\ job[s].dst \in Paths
      BY <3>1, CompleteFiles, JobFacts DEF UploadInv, Staged, Source
    <3>3. CASE CanRename(s) /\ Moved(s)
      <4>1. CASE job[s].dst = p
        BY <3>1, <3>2, <3>3, <4>1 DEF Moved, Replaced, TypeOK, RemoteOK
      <4>2. CASE job[s].dst # p
        <5>1. final'[p] = final[p]
          BY <3>1, <3>3, <4>2 DEF Moved, TypeOK, RemoteOK
        <5>2. \A x \in Sessions : job[x].dst = p => pc'[x] = pc[x] /\ job'[x] = job[x]
          BY <1>2, <4>2, OthersApart DEF Others
        <5> QED BY <5>1, <5>2 DEF Replaced
      <4> QED BY <4>1, <4>2
    <3>4. CASE ~CanRename(s) /\ final' = final
      <4>1. final[job[s].dst] # NoFile
        BY <3>2, <3>4 DEF CanRename
      <4>2. CASE final[p] # NoFile
        BY <3>4, <4>2 DEF Replaced
      <4>3. CASE final[p] = NoFile
        <5>1. \A x \in Sessions : job[x].dst = p => pc'[x] = pc[x] /\ job'[x] = job[x]
          BY <1>2, <4>1, <4>3, OthersApart DEF Others
        <5> QED BY <3>4, <5>1 DEF Replaced
      <4> QED BY <4>2, <4>3
    <3> QED BY <2>2, <3>3, <3>4, AlwaysServed DEF Rename
  <2>3. CASE ~RemoveTarget(s) /\ ~Rename(s)
    <3>1. final' = final
      BY <1>2, <2>3 DEF Client, Data, Server, beginUpload, beginRename,
         beginDownload, Remove, SFTP, CommandTimesOut, ClientDisconnected, ConnectionLost,
         ChannelEnds, Seek,
         TransferOpen, Write, EndOfData, TransferError, CloseDownload, StatFinal, CreateTemp,
         CloseFile, Check, Exists, Cleanup, OpenRead
    <3>2. pc[s] = "rename" => UNCHANGED <<pc, job>>
      BY <1>2, <2>3 DEF Client, Data, Server, beginUpload, beginRename, Ready,
         beginDownload, Remove, SFTP, CommandTimesOut, ClientDisconnected, ConnectionLost,
         ChannelEnds, Seek,
         TransferOpen, Write, EndOfData, TransferError, CloseDownload, StatFinal, CreateTemp,
         CloseFile, Check, Exists, Cleanup, OpenRead
    <3>3. \A x \in Sessions : pc[x] = "rename" => pc'[x] = pc[x] /\ job'[x] = job[x]
      BY <1>2, <3>2, OthersApart DEF Others
    <3> QED BY <3>1, <3>3 DEF Replaced
  <2> QED BY <2>1, <2>2, <2>3
<1> QED BY <1>1, <1>2 DEF Next

(* As long as no round trip fails and no client sends REST before STOR,    *)
(* remove-then-rename never leaves a name without a complete version, for  *)
(* any number of sessions that overwrite the same name (client.go:172-177).*)
THEOREM OverwriteNeverLosesBoth ==
    Faults = {} /\ ~RestBeforeStor => (Spec => []NeverBothLost)
<1> SUFFICES ASSUME Faults = {}, ~RestBeforeStor PROVE Spec => []NeverBothLost
  OBVIOUS
<1> DEFINE Kept == ~AllowDelete /\ ~AllowRename => \A p \in Seeded : Replaced(p)
<1>1. Init => Kept
  BY CompleteFiles, UploadAssumption DEF Init, Replaced
<1>2. TypeOK /\ UploadInv /\ NoneDown /\ Kept /\ [Next]_vars => Kept'
  BY ReplacedNext, UploadAssumption
<1>3. TypeOK /\ UploadInv /\ Kept => NeverBothLost
  <2> SUFFICES ASSUME TypeOK, UploadInv, Kept, ~AllowDelete, ~AllowRename, NEW p \in Seeded,
                      final[p] = NoFile
               PROVE  \E s \in Sessions : temp[<<p, s>>] # NoFile /\ Whole(temp[<<p, s>>])
    BY DEF NeverBothLost
  <2>1. PICK s \in Sessions : pc[s] = "rename" /\ job[s].cmd = "STOR" /\ job[s].dst = p
    BY DEF Replaced
  <2>2. temp[<<p, s>>] \in Complete
    BY <2>1 DEF UploadInv, Staged, TempPath
  <2> QED BY <2>2, CompleteFiles
<1> QED BY <1>1, <1>2, <1>3, UploadInvariant, FaultlessInvariant, PTL DEF Spec


-----------------------------------------------------------------------------
(***************************************************************************)
(* What it takes to replace a file without permission.  posix-rename       *)
(* replaces its target, so nothing but the look at the target before it    *)
(* protects a file; the target may appear between the two.                 *)
(***************************************************************************)

(* No two sessions are about to rename to the same name at the same time.  *)
RaceFree ==
    \A s, t \in Sessions :
        s # t /\ pc[s] = "rename" /\ pc[t] = "rename" => job[s].dst # job[t].dst

(* A session that may not overwrite and can reach the server to rename has *)
(* found its target free, and the target still is.                         *)
TargetFree(s) ==
    pc[s] = "rename" /\ conn[s] \in {"up", "ending"} /\ ~Overwrite =>
        final[job[s].dst] = NoFile

(* What a step does to a final name: empties it, leaves it, or renames a   *)
(* file to it.                                                             *)
LEMMA FinalStep ==
    ASSUME TypeOK, NEW s \in Sessions, Client(s) \/ Data(s) \/ Server(s), NEW p \in Paths
    PROVE  \/ final'[p] \in {final[p], NoFile}
           \/ pc[s] = "rename" /\ conn[s] \in {"up", "ending"} /\ CanRename(s) /\ p = job[s].dst
<1>1. CASE (\E q \in Paths : Remove(s, q)) \/ RemoveTarget(s)
  BY <1>1 DEF Remove, RemoveTarget, TypeOK, RemoteOK
<1>2. CASE Rename(s)
  <2>1. CASE CanRename(s) /\ Moved(s) /\ (Served(s) \/ ReplyLost(s))
    <3>1. pc[s] = "rename" /\ conn[s] \in {"up", "ending"}
      BY <1>2, <2>1 DEF Rename, Served, ReplyLost
    <3>2. p # job[s].dst => final'[p] \in {final[p], NoFile}
      BY <2>1 DEF Moved, TypeOK, RemoteOK
    <3> QED BY <2>1, <3>1, <3>2
  <2>2. CASE UNCHANGED final
    BY <2>2
  <2> QED BY <1>2, <2>1, <2>2 DEF Rename
<1>3. CASE UNCHANGED final
  BY <1>3
<1> QED
  BY <1>1, <1>2, <1>3
     DEF Client, Data, Server, beginUpload, beginRename, beginDownload, SFTP,
         CommandTimesOut, ClientDisconnected, ConnectionLost, ChannelEnds, Seek, TransferOpen,
         Write,
         EndOfData, TransferError, CloseDownload, StatFinal, CreateTemp, CloseFile, Check,
         Exists, Cleanup, OpenRead

(* A session arrives at its rename, or stays there.                        *)
LEMMA ArrivesFree ==
    ASSUME TypeOK, "refuse" \notin Faults, NEW x \in Sessions, TargetFree(x),
           Client(x) \/ Data(x) \/ Server(x)
    PROVE  TargetFree(x)'
<1>1. CASE Client(x)
  BY <1>1 DEF TypeOK, CommandOK, NetOK, TargetFree, Client, beginUpload, beginRename,
     beginDownload, Begin, GoTo, Ready, Remove, SFTP, CommandTimesOut, ClientDisconnected,
     ConnectionLost, ChannelEnds
<1>2. CASE Data(x)
  BY <1>2 DEF TypeOK, CommandOK, TargetFree, Data, Seek, TransferOpen, Write, EndOfData,
     TransferError, Fail, CloseDownload, Return, GoTo
<1>3. CASE Check(x)
  BY <1>3 DEF TypeOK, CommandOK, TargetFree, Check, GiveUp, Return, GoTo
<1>4. CASE Exists(x)
  BY <1>4 DEF TypeOK, CommandOK, TargetFree, Exists, GiveUp, Return, GoTo, Served, Refused
<1>5. CASE RemoveTarget(x)
  <2>1. job[x].dst \in Paths
    BY <1>5, CommandByStep, JobFacts DEF RemoveTarget, TypeOK
  <2> QED BY <1>5, <2>1 DEF TypeOK, CommandOK, RemoteOK, TargetFree, RemoveTarget, GiveUp,
             Return, GoTo
<1>6. CASE Rename(x)
  BY <1>6 DEF TypeOK, CommandOK, TargetFree, Rename, RenameDone, Finish, GiveUp, Return, GoTo
<1>7. CASE StatFinal(x) \/ CreateTemp(x) \/ CloseFile(x) \/ Cleanup(x) \/ OpenRead(x)
  BY <1>7 DEF TypeOK, CommandOK, TargetFree, StatFinal, CreateTemp, AbortUpload, CloseFile,
     Fail, Cleanup, Finish, OpenRead, Return, GoTo
<1> QED BY <1>1, <1>2, <1>3, <1>4, <1>5, <1>6, <1>7 DEF Server

(* A target that has been found free stays free.                           *)
LEMMA TargetFreeNext ==
    ASSUME TypeOK, "refuse" \notin Faults, RaceFree, [Next]_vars,
           NEW x \in Sessions, TargetFree(x)
    PROVE  TargetFree(x)'
<1>1. CASE UNCHANGED vars
  BY <1>1 DEF vars, TargetFree
<1>2. ASSUME NEW s \in Sessions, Client(s) \/ Data(s) \/ Server(s), x # s PROVE TargetFree(x)'
  <2>1. pc'[x] = pc[x] /\ job'[x] = job[x]
    BY <1>2, OthersApart DEF Others
  <2>2. conn'[x] = conn[x]
    BY <1>2 DEF TypeOK, CommandOK, NetOK, Client, Data, Server, beginUpload, beginRename,
       beginDownload, Begin, Remove, SFTP, CommandTimesOut, ClientDisconnected, ConnectionLost,
       ChannelEnds,
       Seek, TransferOpen, Write, EndOfData, TransferError, Fail, CloseDownload, StatFinal,
       CreateTemp, AbortUpload, CloseFile, Check, Exists, RemoveTarget, Rename, RenameDone,
       Finish, GiveUp, Cleanup, OpenRead, Return, Served, Refused, ReplyLost, Invalidated,
       RefusedCommand
  <2>3. CASE pc[x] = "rename"
    <3>1. job[x].dst \in Paths
      BY <2>3, CommandByStep, JobFacts DEF TypeOK
    <3>2. pc[s] = "rename" => job[s].dst # job[x].dst
      BY <1>2, <2>3 DEF RaceFree
    <3>3. final'[job[x].dst] \in {final[job[x].dst], NoFile}
      BY <1>2, <3>1, <3>2, FinalStep
    <3> QED BY <2>1, <2>2, <3>3 DEF TargetFree
  <2>4. CASE pc[x] # "rename"
    BY <2>1, <2>4 DEF TargetFree
  <2> QED BY <2>3, <2>4
<1>3. ASSUME Client(x) \/ Data(x) \/ Server(x) PROVE TargetFree(x)'
  BY <1>3, ArrivesFree
<1> QED BY <1>1, <1>2, <1>3 DEF Next

(* Without a race every target that has been found free stays free.        *)
LEMMA TargetsFree ==
    ASSUME "refuse" \notin Faults
    PROVE  Spec /\ []RaceFree => [](\A s \in Sessions : TargetFree(s))
<1> DEFINE Free == \A s \in Sessions : TargetFree(s)
<1>1. Init => Free
  BY DEF Init, TargetFree
<1>2. TypeOK /\ RaceFree /\ Free /\ [Next]_vars => Free'
  BY TargetFreeNext
<1> HIDE DEF Free
<1>3. Spec /\ []RaceFree => []Free
  BY <1>1, <1>2, TypeCorrect, PTL DEF Spec
<1> QED BY <1>3 DEF Free

(* With posix-rename, too, a user who may not overwrite never does, unless *)
(* two sessions race between their look at the same target and their       *)
(* rename to it, or the server answers the look with an error, which       *)
(* rejectIfExists takes for "not found" (client.go:184-197, 219-225,       *)
(* 281-294).  Broken connections and lost answers do no harm.              *)
THEOREM ReplacingTakesARace ==
    "refuse" \notin Faults => (Spec /\ []RaceFree => NoReplace)
<1> SUFFICES ASSUME "refuse" \notin Faults PROVE Spec /\ []RaceFree => NoReplace
  OBVIOUS
<1> DEFINE Keeps == ~Overwrite =>
              \A p \in Paths : final[p] # NoFile => final'[p] \in {final[p], NoFile}
           Free == \A s \in Sessions : TargetFree(s)
<1>1. ASSUME TypeOK, Free, [Next]_vars PROVE [Keeps]_vars
  <2>1. ASSUME NEW s \in Sessions, Client(s) \/ Data(s) \/ Server(s),
               ~Overwrite, NEW p \in Paths, final[p] # NoFile
        PROVE  final'[p] \in {final[p], NoFile}
    BY <1>1, <2>1, FinalStep DEF TargetFree
  <2> QED BY <1>1, <2>1 DEF Next
<1>2. Spec /\ []RaceFree => []Free
  BY TargetsFree
<1> HIDE DEF Free
<1>3. Spec /\ []RaceFree => [][Keeps]_vars
  BY <1>1, <1>2, TypeCorrect, PTL DEF Spec
<1> QED BY <1>3 DEF NoReplace

(* On a server with posix-rename the same two conditions are all that      *)
(* atomicity needs, whatever the permissions: every STOR, RNTO and DELE is *)
(* one atomic, permitted change of the final names, or none.               *)
THEOREM AtomicWithoutRaces ==
    HasPosixRename /\ ~RestBeforeStor /\ "refuse" \notin Faults
        => (Spec /\ []RaceFree => StoreIsAtomic)
<1> SUFFICES ASSUME HasPosixRename, ~RestBeforeStor, "refuse" \notin Faults
             PROVE  Spec /\ []RaceFree => StoreIsAtomic
  OBVIOUS
<1> DEFINE Free == \A s \in Sessions : TargetFree(s)
<1>1. Init => Store!Init
  BY DEF Init, Store!Init
<1>2. TypeOK /\ UploadInv /\ Free /\ [Next]_vars => [Store!Next]_final
  <2>1. Free => \A s \in Sessions : MayRename(s)
    BY DEF TargetFree, MayRename
  <2> QED BY <2>1, AtomicStep
<1>3. Spec /\ []RaceFree => []Free
  BY TargetsFree
<1> HIDE DEF Free
<1>4. Spec /\ []RaceFree => Store!Spec
  BY <1>1, <1>2, <1>3, UploadInvariant, PTL DEF Spec, Store!Spec
<1> QED BY <1>4 DEF StoreIsAtomic

=============================================================================
