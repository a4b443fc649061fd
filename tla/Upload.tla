-------------------------------- MODULE Upload --------------------------------
(***************************************************************************)
(* The file commands of one FTP user of the gateway against the remote     *)
(* SFTP server: STOR with its temporary name and commit, RNTO, DELE, and   *)
(* RETR as far as it competes for the user's transfer slots.               *)
(*                                                                         *)
(* Several sessions of the same user run concurrently.  Each has its own   *)
(* SFTP connection and one command in progress; they share the remote      *)
(* name space, the user's ConcurrencyGate and the metrics.  Every action   *)
(* is at most one effective SFTP round trip of one session, so everything  *)
(* the gateway does in several round trips interleaves with the others.    *)
(* A round trip may be refused by the server, fail because the connection  *)
(* is dead, or take effect although its answer is lost.                    *)
(***************************************************************************)
EXTENDS Integers, FiniteSets

CONSTANTS
    Sessions,               \* FTP sessions of the user
    Paths,                  \* final remote names
    Seeded,                 \* names that hold a file at the start
    NoFile,                 \* a remote name that does not exist
    Payloads,               \* sizes, in chunks, of the files clients send
    MaxFileSize,            \* permissions.maxFileSize, 0 = no limit
    MaxConcurrentTransfers, \* users[].maxConcurrentTransfers
    AllowUpload, AllowDownload, AllowDelete, AllowRename,
    Overwrite,              \* permissions.allowOverwrite
    HasPosixRename,         \* the server offers posix-rename@openssh.com
    RestBeforeStor,         \* clients may send REST before STOR
    Faults                  \* subset of {"refuse", "loss", "disconnect"}

(* A remote file: n of the of chunks its client meant to send.             *)
File == [n : Nat, of : Nat]

(* The file that is there before the first command.                        *)
Original == [n |-> 0, of |-> 0]

ASSUME UploadAssumption ==
    /\ IsFiniteSet(Sessions)
    /\ Seeded \subseteq Paths
    /\ NoFile \notin File
    /\ Payloads \subseteq Nat
    /\ MaxFileSize \in Nat
    /\ MaxConcurrentTransfers \in Nat \ {0}
    /\ {AllowUpload, AllowDownload, AllowDelete, AllowRename, Overwrite,
        HasPosixRename, RestBeforeStor} \subseteq BOOLEAN
    /\ Faults \subseteq {"refuse", "loss", "disconnect"}

VARIABLES
    final,      \* the remote files under their final names
    temp,       \* the remote files under temporary names, <<final name, session>>
    left,       \* history: temporary names whose upload ended without removing them
    pc,         \* where the command of a session stands
    job,        \* the command in progress: [cmd, src, dst, size]
    written,    \* UploadHandle.written
    failed,     \* UploadHandle.failed
    landed,     \* history: the upload's rename took effect on the server
    phase,      \* Result.Phase last reported through OnComplete
    conn,       \* the SFTP client: "none" (nil), "up", "down" (dead), "ending"
                \* (being closed, with a request of the session unanswered)
    closed,     \* Session.closed
    gate,       \* slots of the user's ConcurrencyGate in use
    pending     \* metric temporary_files_pending

remote  == <<final, temp, left>>
handle  == <<job, written, failed, landed>>
metered == <<gate, pending>>
vars    == <<final, temp, left, pc, job, written, failed, landed, phase, conn, closed,
             gate, pending>>

Files == File \cup {NoFile}

(* Steps of the copy loop, of Commit and Rename, of an upload altogether,  *)
(* and of a download.                                                      *)
Copying   == {"open", "copy"}
Renaming  == {"check", "exists", "remove", "rename"}
StorSteps == {"stat", "create", "close", "cleanup"} \cup Copying \cup Renaming
RetrSteps == {"openread", "read"}

Jobs == [cmd : {"STOR", "RNTO", "RETR"}, src : Paths, dst : Paths, size : Nat]

NoJob == [cmd |-> "none"]

(* The temporary name of the upload a session is doing: it is derived from *)
(* the final name and the session, not from the transfer.                  *)
TempPath(s) == <<job[s].dst, s>>

Init ==
    /\ final = [p \in Paths |-> IF p \in Seeded THEN Original ELSE NoFile]
    /\ temp = [k \in Paths \X Sessions |-> NoFile]
    /\ left = {}
    /\ pc = [s \in Sessions |-> "idle"]
    /\ job = [s \in Sessions |-> NoJob]
    /\ written = [s \in Sessions |-> 0]
    /\ failed = [s \in Sessions |-> FALSE]
    /\ landed = [s \in Sessions |-> FALSE]
    /\ phase = [s \in Sessions |-> "none"]
    /\ conn = [s \in Sessions |-> "none"]
    /\ closed = [s \in Sessions |-> FALSE]
    /\ gate = 0
    /\ pending = 0

-----------------------------------------------------------------------------
(***************************************************************************)
(* How an SFTP round trip of session s can end.                            *)
(***************************************************************************)

(* It takes effect and the answer arrives.  The answer to a request made   *)
(* before the client was closed is the last one that client gets.          *)
Served(s) ==
    \/ conn[s] = "up" /\ UNCHANGED conn
    \/ conn[s] = "ending" /\ conn' = [conn EXCEPT ![s] = "down"]

(* It returns an error and has no effect: the server refuses it, or the    *)
(* connection is dead.                                                     *)
Refused(s) == (conn[s] = "down" \/ "refuse" \in Faults) /\ UNCHANGED conn

(* It takes effect, the connection breaks before the answer arrives, and   *)
(* the caller sees an error.                                               *)
ReplyLost(s) ==
    /\ conn[s] \in {"up", "ending"}
    /\ "loss" \in Faults
    /\ conn' = [conn EXCEPT ![s] = "down"]

GoTo(s, step) == pc' = [pc EXCEPT ![s] = step]

(* A command begins.  src and dst are names, size is what the client means *)
(* to send.                                                                *)
Begin(s, step, cmd, src, dst, size) ==
    /\ GoTo(s, step)
    /\ job' = [job EXCEPT ![s] = [cmd |-> cmd, src |-> src, dst |-> dst, size |-> size]]
    /\ UNCHANGED <<written, failed, landed>>

(* Mutant: the job of the command that ended is not dropped.               *)
ReturnKeepsJob(s) ==
    /\ GoTo(s, "idle")
    /\ UNCHANGED <<job, written, failed, landed>>

(* The command of s is over and its handle is dropped.                     *)
Return(s) ==
    /\ GoTo(s, "idle")
    /\ job' = [job EXCEPT ![s] = NoJob]
    /\ written' = [written EXCEPT ![s] = 0]
    /\ failed' = [failed EXCEPT ![s] = FALSE]
    /\ landed' = [landed EXCEPT ![s] = FALSE]

(* Mutant: one slot too many.                                              *)
TryAcquireBeyond == gate <= MaxConcurrentTransfers /\ gate' = gate + 1

(* ConcurrencyGate.TryAcquire and Release: Release of an unused gate is a  *)
(* no-op.                                                                  *)
TryAcquire == gate < MaxConcurrentTransfers /\ gate' = gate + 1
Release    == gate' = IF gate > 0 THEN gate - 1 ELSE 0

-----------------------------------------------------------------------------
(***************************************************************************)
(* The session's connection.                                               *)
(***************************************************************************)

(* Session.SFTP dials on first use; a closed session never dials.  The     *)
(* command that made the call may then be refused by the policy or by the  *)
(* gate, which leaves nothing but the connection behind.                   *)
SFTP(s) ==
    /\ pc[s] = "idle"
    /\ ~closed[s]
    /\ conn[s] = "none"
    /\ conn' = [conn EXCEPT ![s] = "up"]
    /\ UNCHANGED <<remote, pc, handle, phase, closed, metered>>

(* May session s start a command that needs its SFTP connection?           *)
Ready(s) == pc[s] = "idle" /\ ~closed[s] /\ conn[s] # "none"

(* maybeInvalidate after an error of a command other than STOR and RETR: a *)
(* timeout discards the client so that the next command dials; any other   *)
(* error, that of a dead connection included, leaves the client in place.  *)
Invalidated(s) ==
    /\ "loss" \in Faults
    /\ conn' = [conn EXCEPT ![s] = "none"]

(* STAT, LIST, MKD or RMD runs into a timeout.                             *)
CommandTimesOut(s) ==
    /\ Ready(s)
    /\ Invalidated(s)
    /\ UNCHANGED <<remote, pc, handle, phase, closed, metered>>

(* The SSH connection breaks while nothing is in flight.                   *)
ConnectionLost(s) ==
    /\ "loss" \in Faults
    /\ conn[s] = "up"
    /\ conn' = [conn EXCEPT ![s] = "down"]
    /\ UNCHANGED <<remote, pc, handle, phase, closed, metered>>

(* Mutant: the session is closed, its SFTP client is not.                  *)
ClientDisconnectedKeepsClient(s) ==
    /\ "disconnect" \in Faults
    /\ ~closed[s]
    /\ job[s].cmd # "RNTO"
    /\ closed' = [closed EXCEPT ![s] = TRUE]
    /\ UNCHANGED <<remote, pc, handle, phase, conn, metered>>

(* Mutant: the size limit is compared before the chunk is added.           *)
ExceedsLate(s) == MaxFileSize > 0 /\ written[s] > MaxFileSize

(* Would one more chunk exceed the limit on the size of a file?            *)
Exceeds(s) == MaxFileSize > 0 /\ written[s] + 1 > MaxFileSize

(* A request of the session's transfer may be on its way to the server.    *)
MayAwait(s) ==
    /\ pc[s] \notin {"idle", "open"}
    /\ pc[s] = "copy" => written[s] < job[s].size /\ ~Exceeds(s)

(* The control connection ends and ClientDisconnected closes the session,  *)
(* also under a STOR or RETR, which runs in a goroutine of its own.  RNTO  *)
(* runs in the control connection's own goroutine and ends first.  Closing *)
(* the SFTP client makes every later request fail, but it ends the SSH     *)
(* connection only after the server has ended the SFTP channel: a request  *)
(* already on its way goes on waiting for its answer.                      *)
ClientDisconnected(s) ==
    /\ "disconnect" \in Faults
    /\ ~closed[s]
    /\ job[s].cmd # "RNTO"
    /\ closed' = [closed EXCEPT ![s] = TRUE]
    /\ \/ conn' = [conn EXCEPT ![s] = IF @ = "none" THEN "none" ELSE "down"]
       \/ /\ conn[s] = "up"
          /\ MayAwait(s)
          /\ conn' = [conn EXCEPT ![s] = "ending"]
    /\ UNCHANGED <<remote, pc, handle, phase, metered>>

(* The server ends the channel, or the connection breaks, under a request  *)
(* that is still waiting: the request returns an error.                    *)
ChannelEnds(s) ==
    /\ conn[s] = "ending"
    /\ conn' = [conn EXCEPT ![s] = "down"]
    /\ UNCHANGED <<remote, pc, handle, phase, closed, metered>>

-----------------------------------------------------------------------------
(***************************************************************************)
(* STOR: GetHandle, beginUpload and NewUpload.                             *)
(***************************************************************************)

beginUpload(s, p, k) ==
    /\ Ready(s)
    /\ AllowUpload
    /\ TryAcquire
    /\ pending' = pending + 1
    /\ Begin(s, IF Overwrite THEN "create" ELSE "stat", "STOR", p, p, k)
    /\ phase' = [phase EXCEPT ![s] = "none"]
    /\ UNCHANGED <<remote, conn, closed>>

(* Mutant: the slot is not released when NewUpload fails.                  *)
AbortUploadKeepsSlot(s) ==
    /\ pending' = pending - 1
    /\ UNCHANGED gate
    /\ Return(s)

(* NewUpload failed: no handle exists and beginUpload undoes its counts.   *)
AbortUpload(s) ==
    /\ pending' = pending - 1
    /\ Release
    /\ Return(s)

(* Without overwrite, an existing target is a conflict before any byte is  *)
(* sent; an error other than "not found" aborts as well.                   *)
StatFinal(s) ==
    /\ pc[s] = "stat"
    /\ \/ /\ Served(s)
          /\ final[job[s].dst] = NoFile
          /\ GoTo(s, "create")
          /\ UNCHANGED <<handle, metered>>
       \/ /\ Served(s)
          /\ final[job[s].dst] # NoFile
          /\ AbortUpload(s)
       \/ /\ Refused(s)
          /\ AbortUpload(s)
    /\ UNCHANGED <<remote, phase, closed>>

(* O_CREATE|O_TRUNC of the temporary name.                                 *)
Truncated(s) == temp' = [temp EXCEPT ![TempPath(s)] = [n |-> 0, of |-> job[s].size]]

(* Mutant: the target of an overwrite is removed before the data arrive.   *)
CreateTempRemovesTarget(s) ==
    /\ pc[s] = "create"
    /\ Served(s)
    /\ Truncated(s)
    /\ final' = [final EXCEPT ![job[s].dst] = NoFile]
    /\ GoTo(s, "open")
    /\ UNCHANGED <<left, handle, phase, closed, metered>>

CreateTemp(s) ==
    /\ pc[s] = "create"
    /\ \/ /\ Served(s)
          /\ Truncated(s)
          /\ left' = left \ {TempPath(s)}
          /\ GoTo(s, "open")
          /\ UNCHANGED <<handle, metered>>
       \/ /\ Refused(s)
          /\ AbortUpload(s)
          /\ UNCHANGED <<temp, left>>
       \/ /\ ReplyLost(s)
          /\ Truncated(s)
          /\ left' = left \cup {TempPath(s)}
          /\ AbortUpload(s)
    /\ UNCHANGED <<final, phase, closed>>

-----------------------------------------------------------------------------
(***************************************************************************)
(* STOR: the FTP library drives the handle.                                *)
(***************************************************************************)

(* A REST offset given before STOR: Seek refuses it without marking the    *)
(* upload as failed, and the library then just closes the handle.          *)
Seek(s) ==
    /\ RestBeforeStor
    /\ pc[s] = "open"
    /\ GoTo(s, "close")
    /\ UNCHANGED <<remote, handle, phase, conn, closed, metered>>

(* The library has opened the data connection and starts copying.          *)
TransferOpen(s) ==
    /\ pc[s] = "open"
    /\ GoTo(s, "copy")
    /\ UNCHANGED <<remote, handle, phase, conn, closed, metered>>

Fail(s, step) ==
    /\ failed' = [failed EXCEPT ![s] = TRUE]
    /\ GoTo(s, step)
    /\ UNCHANGED <<job, written, landed>>

Extended(s) ==
    temp' = [temp EXCEPT ![TempPath(s)] =
                [n |-> written[s] + 1, of |-> job[s].size]]

Write(s) ==
    /\ pc[s] = "copy"
    /\ written[s] < job[s].size
    /\ \/ /\ Exceeds(s)
          /\ Fail(s, "close")
          /\ UNCHANGED <<temp, conn>>
       \/ /\ ~Exceeds(s)
          /\ Served(s)
          /\ Extended(s)
          /\ written' = [written EXCEPT ![s] = @ + 1]
          /\ UNCHANGED <<pc, job, failed, landed>>
       \/ /\ ~Exceeds(s)
          /\ Refused(s)
          /\ Fail(s, "close")
          /\ UNCHANGED temp
       \/ /\ ~Exceeds(s)
          /\ ReplyLost(s)
          /\ Extended(s)
          /\ Fail(s, "close")
    /\ UNCHANGED <<final, left, phase, closed, metered>>

(* The client has sent everything and closes the data connection.          *)
EndOfData(s) ==
    /\ pc[s] = "copy"
    /\ written[s] = job[s].size
    /\ GoTo(s, "close")
    /\ UNCHANGED <<remote, handle, phase, conn, closed, metered>>

(* Mutant: the upload is not marked as failed.                             *)
TransferErrorIgnored(s) ==
    /\ pc[s] \in Copying
    /\ GoTo(s, "close")
    /\ UNCHANGED <<remote, handle, phase, conn, closed, metered>>

(* The data connection cannot be opened or breaks, or the client sends     *)
(* ABOR: the library calls TransferError and then Close, once no Write is  *)
(* waiting any more.                                                       *)
TransferError(s) ==
    /\ pc[s] \in Copying
    /\ conn[s] # "ending"
    /\ Fail(s, "close")
    /\ UNCHANGED <<remote, phase, conn, closed, metered>>

-----------------------------------------------------------------------------
(***************************************************************************)
(* UploadHandle.Close: close the file, then commit it or remove it.        *)
(***************************************************************************)

CloseFile(s) ==
    /\ pc[s] = "close"
    /\ \/ /\ Served(s)
          /\ GoTo(s, IF failed[s] THEN "cleanup" ELSE "check")
          /\ UNCHANGED handle
       \/ /\ Refused(s)
          /\ Fail(s, "cleanup")
    /\ UNCHANGED <<remote, phase, closed, metered>>

(* OnComplete (recordTransfer) and the deferred Release.                   *)
Finish(s, result) ==
    /\ phase' = [phase EXCEPT ![s] = result]
    /\ pending' = pending - 1
    /\ Release
    /\ Return(s)

(* Mutant: the temporary file of a failed upload is left behind.           *)
CleanupLeavesTemp(s) ==
    /\ pc[s] = "cleanup"
    /\ Served(s)
    /\ Finish(s, "failed")
    /\ UNCHANGED <<remote, closed>>

(* The best-effort removal of the temporary file; its error is dropped.    *)
Cleanup(s) ==
    /\ pc[s] = "cleanup"
    /\ \/ /\ (Served(s) \/ ReplyLost(s))
          /\ temp' = [temp EXCEPT ![TempPath(s)] = NoFile]
          /\ UNCHANGED left
       \/ /\ Refused(s)
          /\ left' = IF temp[TempPath(s)] = NoFile THEN left
                     ELSE left \cup {TempPath(s)}
          /\ UNCHANGED temp
    /\ Finish(s, "failed")
    /\ UNCHANGED <<final, closed>>

-----------------------------------------------------------------------------
(***************************************************************************)
(* Client.Commit and Client.Rename make the same round trips.  They differ *)
(* in where the file comes from and in what follows an error: Close        *)
(* removes the temporary file, RNTO just reports it.                       *)
(***************************************************************************)

Source(s) == IF job[s].cmd = "STOR" THEN temp[TempPath(s)] ELSE final[job[s].src]

(* A round trip of Commit or Rename fails in a way that leaves the         *)
(* connection as the outcome conn' of the round trip says.                 *)
GiveUp(s) ==
    IF job[s].cmd = "STOR"
    THEN GoTo(s, "cleanup") /\ UNCHANGED handle
    ELSE Return(s)

(* The error of a round trip that had no effect, with RNTO's               *)
(* maybeInvalidate.                                                        *)
RefusedCommand(s) ==
    \/ Refused(s)
    \/ /\ job[s].cmd = "RNTO"
       /\ Invalidated(s)

(* checkNoEscapingSymlink on the names the client gave.                    *)
Check(s) ==
    /\ pc[s] = "check"
    /\ \/ /\ Served(s)
          /\ GoTo(s, IF HasPosixRename /\ Overwrite THEN "rename" ELSE "exists")
          /\ UNCHANGED handle
       \/ /\ RefusedCommand(s)
          /\ GiveUp(s)
    /\ UNCHANGED <<remote, phase, closed, metered>>

(* rejectIfExists, or the Stat that looks for a target to remove.  Any     *)
(* error of that Stat counts as "there is no target".                      *)
Exists(s) ==
    /\ pc[s] = "exists"
    /\ \/ /\ Served(s)
          /\ final[job[s].dst] # NoFile
          /\ Overwrite
          /\ GoTo(s, "remove")
          /\ UNCHANGED handle
       \/ /\ Served(s)
          /\ final[job[s].dst] # NoFile
          /\ ~Overwrite
          /\ GiveUp(s)
       \/ /\ (Served(s) /\ final[job[s].dst] = NoFile) \/ Refused(s)
          /\ GoTo(s, "rename")
          /\ UNCHANGED handle
    /\ UNCHANGED <<remote, phase, closed, metered>>

(* Without posix-rename the target of an overwrite is removed first.       *)
RemoveTarget(s) ==
    /\ pc[s] = "remove"
    /\ \/ /\ Served(s)
          /\ final[job[s].dst] # NoFile
          /\ final' = [final EXCEPT ![job[s].dst] = NoFile]
          /\ GoTo(s, "rename")
          /\ UNCHANGED handle
       \/ /\ ReplyLost(s)
          /\ final' = [final EXCEPT ![job[s].dst] = NoFile]
          /\ GiveUp(s)
       \/ /\ RefusedCommand(s) \/ (Served(s) /\ final[job[s].dst] = NoFile)
          /\ GiveUp(s)
          /\ UNCHANGED final
    /\ UNCHANGED <<temp, left, phase, closed, metered>>

(* Mutant: a rename that replaces its target is used throughout.           *)
CanRenameAlways(s) == Source(s) # NoFile

(* The server accepts the rename: posix-rename replaces the target, the    *)
(* plain SFTP rename does not.                                             *)
CanRename(s) ==
    /\ Source(s) # NoFile
    /\ HasPosixRename \/ final[job[s].dst] = NoFile

Moved(s) ==
    IF job[s].cmd = "STOR"
    THEN /\ final' = [final EXCEPT ![job[s].dst] = Source(s)]
         /\ temp' = [temp EXCEPT ![TempPath(s)] = NoFile]
    ELSE /\ final' = [final EXCEPT ![job[s].src] = NoFile,
                                  ![job[s].dst] = Source(s)]
         /\ UNCHANGED temp

(* Mutant: Close takes a successful Commit for a failed one.               *)
RenameDoneAsFailure(s) ==
    /\ GoTo(s, "cleanup")
    /\ landed' = [landed EXCEPT ![s] = TRUE]
    /\ UNCHANGED <<job, written, failed, phase, metered>>

RenameDone(s) ==
    IF job[s].cmd = "STOR"
    THEN Finish(s, "committed")
    ELSE Return(s) /\ UNCHANGED <<phase, metered>>

Rename(s) ==
    /\ pc[s] = "rename"
    /\ \/ /\ Served(s)
          /\ CanRename(s)
          /\ Moved(s)
          /\ RenameDone(s)
          /\ UNCHANGED left
       \/ /\ ReplyLost(s)
          /\ CanRename(s)
          /\ Moved(s)
          /\ IF job[s].cmd = "STOR"
             THEN /\ GoTo(s, "cleanup")
                  /\ landed' = [landed EXCEPT ![s] = TRUE]
                  /\ UNCHANGED <<job, written, failed>>
             ELSE Return(s)
          /\ UNCHANGED <<left, phase, metered>>
       \/ /\ RefusedCommand(s) \/ (Served(s) /\ ~CanRename(s))
          /\ GiveUp(s)
          /\ UNCHANGED <<remote, phase, metered>>
    /\ UNCHANGED closed

-----------------------------------------------------------------------------
(***************************************************************************)
(* RNTO, DELE and RETR.                                                    *)
(***************************************************************************)

beginRename(s, p, q) ==
    /\ Ready(s)
    /\ AllowRename
    /\ Begin(s, "check", "RNTO", p, q, 0)
    /\ UNCHANGED <<remote, phase, conn, closed, metered>>

(* DELE; a refusal changes nothing but, on a timeout, the connection.      *)
Remove(s, p) ==
    /\ Ready(s)
    /\ AllowDelete
    /\ Served(s) \/ ReplyLost(s)
    /\ final[p] # NoFile
    /\ final' = [final EXCEPT ![p] = NoFile]
    /\ UNCHANGED <<temp, left, pc, handle, phase, closed, metered>>

beginDownload(s, p) ==
    /\ Ready(s)
    /\ AllowDownload
    /\ TryAcquire
    /\ Begin(s, "openread", "RETR", p, p, 0)
    /\ UNCHANGED <<remote, phase, conn, closed, pending>>

OpenRead(s) ==
    /\ pc[s] = "openread"
    /\ \/ /\ Served(s)
          /\ final[job[s].src] # NoFile
          /\ GoTo(s, "read")
          /\ UNCHANGED <<handle, gate>>
       \/ /\ Refused(s) \/ (Served(s) /\ final[job[s].src] = NoFile)
          /\ Release
          /\ Return(s)
    /\ UNCHANGED <<remote, phase, closed, pending>>

(* DownloadHandle.Close, after the last byte or after an error, once no    *)
(* Read is waiting any more.                                               *)
CloseDownload(s) ==
    /\ pc[s] = "read"
    /\ conn[s] # "ending"
    /\ Release
    /\ Return(s)
    /\ UNCHANGED <<remote, phase, conn, closed, pending>>

-----------------------------------------------------------------------------
(* What clients and their network do.                                      *)
Client(s) ==
    \/ \E p \in Paths, k \in Payloads : beginUpload(s, p, k)
    \/ \E p, q \in Paths : beginRename(s, p, q)
    \/ \E p \in Paths : Remove(s, p)
    \/ \E p \in Paths : beginDownload(s, p)
    \/ SFTP(s)
    \/ CommandTimesOut(s)
    \/ ClientDisconnected(s)
    \/ ConnectionLost(s)
    \/ ChannelEnds(s)

(* What the data connection does to a transfer.                            *)
Data(s) ==
    \/ Seek(s)
    \/ TransferOpen(s)
    \/ Write(s)
    \/ EndOfData(s)
    \/ TransferError(s)
    \/ CloseDownload(s)

(* What the gateway does by itself once a command has begun.               *)
Server(s) ==
    \/ StatFinal(s)
    \/ CreateTemp(s)
    \/ CloseFile(s)
    \/ Check(s)
    \/ Exists(s)
    \/ RemoveTarget(s)
    \/ Rename(s)
    \/ Cleanup(s)
    \/ OpenRead(s)

Next == \E s \in Sessions : Client(s) \/ Data(s) \/ Server(s)

Spec == Init /\ [][Next]_vars

(* A round trip over a live connection may take for ever: the gateway sets *)
(* no deadline, and closing the client does not end it either.  Over a     *)
(* dead one it returns its error, and the data connection of a client that *)
(* has gone breaks.                                                        *)
Fairness ==
    \A s \in Sessions :
        /\ WF_vars(conn[s] = "down" /\ Server(s))
        /\ WF_vars(closed[s] /\ (TransferError(s) \/ CloseDownload(s)))

FairSpec == Spec /\ Fairness

-----------------------------------------------------------------------------
(***************************************************************************)
(* Properties.                                                             *)
(***************************************************************************)

RemoteOK ==
    /\ final \in [Paths -> Files]
    /\ temp \in [Paths \X Sessions -> Files]
    /\ left \subseteq Paths \X Sessions

(* The command of session s is at a step of that command.                  *)
AtStep(s) ==
    \/ job[s] = NoJob /\ pc[s] = "idle"
    \/ /\ job[s] \in Jobs
       /\ \/ job[s].cmd = "STOR" /\ pc[s] \in StorSteps
          \/ job[s].cmd = "RNTO" /\ pc[s] \in Renaming
          \/ job[s].cmd = "RETR" /\ pc[s] \in RetrSteps

CommandOK ==
    /\ pc \in [Sessions -> {"idle"} \cup StorSteps \cup RetrSteps]
    /\ job \in [Sessions -> Jobs \cup {NoJob}]
    /\ written \in [Sessions -> Nat]
    /\ failed \in [Sessions -> BOOLEAN]
    /\ landed \in [Sessions -> BOOLEAN]
    /\ \A s \in Sessions : AtStep(s)

NetOK ==
    /\ phase \in [Sessions -> {"none", "failed", "committed"}]
    /\ conn \in [Sessions -> {"none", "up", "ending", "down"}]
    /\ closed \in [Sessions -> BOOLEAN]

CountOK == gate \in Nat /\ pending \in Int

(* The values of the variables, and which step belongs to which command.   *)
TypeOK == RemoteOK /\ CommandOK /\ NetOK /\ CountOK

Uploading == {s \in Sessions : job[s].cmd = "STOR"}
Transferring == {s \in Sessions : job[s].cmd \in {"STOR", "RETR"}}

(* Whatever fails, every transfer in progress holds one slot of the gate   *)
(* and gives it back once, and temporary_files_pending counts the uploads  *)
(* in progress: no slot or count leaks on an error path of beginUpload,    *)
(* beginDownload or Close (clientdriver.go:372-405, upload.go:160-219).    *)
AccountingExact ==
    /\ gate = Cardinality(Transferring)
    /\ gate <= MaxConcurrentTransfers
    /\ pending = Cardinality(Uploading)

Whole(f) == f.n = f.of /\ (MaxFileSize > 0 => f.n <= MaxFileSize)

(* No final name ever shows a file that is incomplete or exceeds the size  *)
(* limit, whichever way an upload ends (upload.go:33-36).                  *)
FinalWhole == \A p \in Paths : final[p] # NoFile => Whole(final[p])

(* Without allowOverwrite no STOR or RNTO changes a file that exists; only *)
(* DELE and a rename away empty its name (NewUpload, Commit, Rename).      *)
NoReplace ==
    [][~Overwrite =>
          \A p \in Paths : final[p] # NoFile => final'[p] \in {final[p], NoFile}]_vars

(* An upload reports "failed" although its rename took effect only if the  *)
(* connection broke under it, and then it has not removed what it          *)
(* published (upload.go:202-212).                                          *)
FailureTruthful ==
    [][\A s \in Sessions :
          /\ phase[s] = "none"
          /\ phase'[s] = "failed"
          /\ landed[s]
          => conn[s] = "down" /\ UNCHANGED <<final, temp>>]_vars

(* If users may not delete or rename, a name that held a file always has a *)
(* complete version on the server, if only under the temporary name of an  *)
(* upload that is about to replace it (client.go:172-177).                 *)
NeverBothLost ==
    ~AllowDelete /\ ~AllowRename =>
        \A p \in Seeded :
            \/ final[p] # NoFile
            \/ \E s \in Sessions :
                  temp[<<p, s>>] # NoFile /\ Whole(temp[<<p, s>>])

Temps == {k \in Paths \X Sessions : temp[k] # NoFile}

(* Whatever fails, temporary_files_pending counts every temporary file on  *)
(* the server but those whose upload ended with a removal or a creation    *)
(* that failed: no other way out of NewUpload or Close leaves a file       *)
(* (upload.go:37-69, 150-219).                                            *)
PendingCoversTemps == Cardinality(Temps \ left) <= pending

(* temporary_files_pending counts every temporary upload file that is "not *)
(* yet committed or cleaned up" (metrics.go:101).                          *)
EveryTempCounted == Cardinality(Temps) <= pending

(* When its client is gone a session's command comes to an end, and so it  *)
(* gives back its slot, unless the server neither answers the one request  *)
(* that was on its way nor ends the channel: closing the session makes     *)
(* every later request fail, but cannot end that one (session.go:146-164,  *)
(* client.go:52-70, docs/security/security-model.md:220-224).              *)
DisconnectEndsCommand ==
    \A s \in Sessions :
        closed[s] ~> (pc[s] = "idle" \/ [](conn[s] = "ending"))

(* The contents AtomicStore may publish.                                   *)
Complete == {[n |-> k, of |-> k] : k \in {j \in Payloads : MaxFileSize > 0 => j <= MaxFileSize}}

Store == INSTANCE AtomicStore WITH store <- final, Contents <- Complete

(* Seen through the final names, every STOR, RNTO and DELE is one atomic   *)
(* step the permissions allow, or nothing at all.                          *)
StoreIsAtomic == Store!Spec
=============================================================================
