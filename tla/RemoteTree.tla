------------------------------ MODULE RemoteTree ------------------------------
(***************************************************************************)
(* CWD, LIST, MKD and RMD of FTP sessions over the directory tree of the   *)
(* SFTP server, which others change at the same time.                      *)
(*                                                                         *)
(* A command first maps the path its client gave (PathMapper), then makes  *)
(* its round trips one by one: the check for a symbolic link that leads    *)
(* outside, then the operation.  A listing arrives in several pages, then  *)
(* every link in it is checked with round trips of its own.                *)
(***************************************************************************)
EXTENDS PathMapper

CONSTANTS
    Sessions,       \* FTP sessions of one user
    Args,           \* paths that clients send with a command
    Probes,         \* paths to compare ResolveVirtual with its reference on
    Start,          \* the tree at the start: a kind for every possible path
    StartText,      \* the texts of its links
    Texts,          \* the texts that links have
    May,            \* bound: what others may make of a path
    Suffixed,       \* names that contain transfer.temporarySuffix
    Marked,         \* names that contain the suffix and "-": temporary names
    AllowMkdir, AllowDelete

ASSUME TreeAssumption ==
    /\ Args \cup Probes \subseteq AllPaths
    /\ Marked \subseteq Suffixed
    /\ {AllowMkdir, AllowDelete} \subseteq BOOLEAN
    /\ Texts \subseteq AllPaths \ {EmptyPath}

VARIABLES
    node,       \* what is at each path of the server
    text,       \* the text of the link at a path
    cwd,        \* the virtual directory of a session
    op,         \* its command in progress
    seen,       \* history: names in the directory at times of a LIST
    relinked    \* history: a link was put at its path after the check

vars == <<node, text, cwd, op, seen, relinked>>
treeVars == <<node, text>>

Sites == DOMAIN Start
NoOp == [cmd |-> "none"]
NoNames == [ever |-> {}, plain |-> {}, stray |-> {}]

Init ==
    /\ node = Start
    /\ text = StartText
    /\ cwd = [s \in Sessions |-> VirtualRoot]
    /\ op = [s \in Sessions |-> NoOp]
    /\ seen = [s \in Sessions |-> NoNames]
    /\ relinked = [s \in Sessions |-> FALSE]

-----------------------------------------------------------------------------
(***************************************************************************)
(* The SFTP server: links in the directories of a path are followed, one   *)
(* at its end only by operations that say so.                              *)
(***************************************************************************)
Kind(p) == IF p \in Sites THEN node[p] ELSE "none"

Upto(p, n) == Path(TRUE, SubSeq(p.segs, 1, n))

(* The server has clean absolute paths, and what exists is in a directory. *)
ASSUME SitesAssumption ==
    /\ Start \in [Sites -> {"none", "dir", "file", "link"}]
    /\ May \in [Sites -> SUBSET {"none", "dir", "file", "link"}]
    /\ StartText \in [Sites -> Texts \cup {EmptyPath}]
    /\ \A p \in Sites : Start[p] = "link" => "link" \in May[p] /\ StartText[p] \in Texts
    /\ \A p \in Sites : /\ p.segs \in Seq(STRING)
                        /\ p = Path(TRUE, p.segs)
                        /\ p = Clean(p)
                        /\ \A i \in 0..(Len(p.segs) - 1) :
                              /\ Upto(p, i) \in Sites
                              /\ Start[p] # "none" => Start[Upto(p, i)] = "dir"

(* The place that a text names to someone who finds it in a link at p.     *)
Named(p, words) == Clean(IF words.abs THEN words ELSE Join(Dir(p), words))

(* On the way to a place that a link leads to, at it and below it there    *)
(* are no links: a path never leads through more than one.                 *)
ASSUME LinkAssumption ==
    LET linked == {p \in Sites : "link" \in May[p]} IN
    \A p, q \in linked : \A words \in Texts :
        LET to == Named(p, words).segs
            both == 1..(IF Len(to) < Len(q.segs) THEN Len(to) ELSE Len(q.segs))
        IN  \E i \in both : to[i] # q.segs[i]

(* Where the link at p leads.                                              *)
LeadsTo(p) == Named(p, text[p])

(* The path without links in its first n names.                            *)
Followed(p, n) ==
    LET links == {i \in 1..n : Kind(Upto(p, i)) = "link"}
    IN  IF links = {} THEN p
        ELSE LET i == CHOOSE j \in links : \A k \in links : j <= k
             IN  Path(TRUE, LeadsTo(Upto(p, i)).segs \o SubSeq(p.segs, i + 1, Len(p.segs)))

Entry(p) == Followed(p, Len(p.segs) - 1)
Object(p) == Followed(p, Len(p.segs))

NameOf(p) == p.segs[Len(p.segs)]
Parent(p) == Upto(p, Len(p.segs) - 1)
Children(d) == {p \in Sites : p # Slash /\ Parent(p) = d}
NamesOf(nodes, d, kinds) == {NameOf(p) : p \in {q \in Children(d) : nodes[q] \in kinds}}
Child(d, name) == Path(TRUE, Append(d.segs, name))

-----------------------------------------------------------------------------
(***************************************************************************)
(* Commands.                                                               *)
(***************************************************************************)

(* The path the library hands to the driver.                               *)
AbsPath(s, arg) == IF arg.abs THEN Clean(arg) ELSE Join(cwd[s], arg)

(* resolveAndContain and remotePath                                        *)
Virtual(s, arg) == ResolveVirtual(Slash, AbsPath(s, arg))

Begin(s, cmd, arg, step) ==
    /\ op[s] = NoOp
    /\ Virtual(s, arg) # Invalid
    /\ ToRemote(Virtual(s, arg)) # Invalid
    /\ op' = [op EXCEPT ![s] = [cmd |-> cmd, step |-> step, virtual |-> Virtual(s, arg),
                                remote |-> ToRemote(Virtual(s, arg))]]
    /\ UNCHANGED <<treeVars, cwd>>

BeginStat(s, arg) == Begin(s, "STAT", arg, "check")
BeginList(s, arg) == Begin(s, "LIST", arg, "check")
BeginMkdir(s, arg) == AllowMkdir /\ Begin(s, "MKD", arg, "act")
BeginRemoveDir(s, arg) == AllowDelete /\ Begin(s, "RMD", arg, "check")

At(s, cmd, step) == op[s].cmd = cmd /\ op[s].step = step

End(s) == op' = [op EXCEPT ![s] = NoOp]

(* Mutant: the text of a link is read from the link, not its directory.    *)
EscapesFromItself(p) ==
    /\ Kind(Entry(p)) = "link"
    /\ LET words == text[Entry(p)]
           resolved == Clean(IF words.abs THEN words ELSE Join(p, words))
       IN  ~WithinRoot(RemoteRoot, resolved)

(* What checkNoEscapingSymlink finds out: the path is a link, and its text *)
(* names a place outside the root.  Only the last name is looked at.       *)
Escapes(p) ==
    /\ Kind(Entry(p)) = "link"
    /\ ~WithinRoot(RemoteRoot, Named(p, text[Entry(p)]))

Check(s) ==
    /\ op[s] # NoOp
    /\ op[s].step = "check"
    /\ ~Escapes(op[s].remote)
    /\ op' = [op EXCEPT ![s].step = "act"]
    /\ UNCHANGED <<treeVars, cwd>>

(* Any round trip may return an error, or none in time: the command ends   *)
(* with it.  A path that Escapes ends in the same way.                     *)
Fails(s) ==
    /\ op[s] # NoOp
    /\ op[s].step \in {"check", "act", "read"}
    /\ End(s)
    /\ UNCHANGED <<treeVars, cwd>>

(* Mutant: the library is given the remote path.                           *)
StatRemote(s) ==
    /\ At(s, "STAT", "act")
    /\ Kind(Object(op[s].remote)) # "none"
    /\ cwd' = [cwd EXCEPT ![s] = IF Kind(Object(op[s].remote)) = "dir" THEN op[s].remote ELSE @]
    /\ End(s)
    /\ UNCHANGED treeVars

(* Stat; the library makes a directory the current one (CWD).              *)
Stat(s) ==
    /\ At(s, "STAT", "act")
    /\ Kind(Object(op[s].remote)) # "none"
    /\ cwd' = [cwd EXCEPT ![s] = IF Kind(Object(op[s].remote)) = "dir" THEN op[s].virtual ELSE @]
    /\ End(s)
    /\ UNCHANGED treeVars

(* Mkdir: nothing is checked before it; the server refuses a name in use.  *)
Mkdir(s) ==
    LET p == Entry(op[s].remote) IN
    /\ At(s, "MKD", "act")
    /\ p \in Sites
    /\ node[p] = "none"
    /\ Kind(Parent(p)) = "dir"
    /\ node' = [node EXCEPT ![p] = "dir"]
    /\ End(s)
    /\ UNCHANGED <<text, cwd>>

(* RemoveDirectory: the server refuses one that is not empty.              *)
RemoveDirectory(s) ==
    LET p == Entry(op[s].remote) IN
    /\ At(s, "RMD", "act")
    /\ Kind(p) = "dir"
    /\ \A q \in Children(p) : node[q] = "none"
    /\ node' = [node EXCEPT ![p] = "none"]
    /\ End(s)
    /\ UNCHANGED <<text, cwd>>

-----------------------------------------------------------------------------
(***************************************************************************)
(* LIST: ReadDir of the driver and of the client.                          *)
(***************************************************************************)

(* ReadDirContext begins; todo are the names it has yet to come to.        *)
OpenDir(s) ==
    LET d == Object(op[s].remote) IN
    /\ At(s, "LIST", "act")
    /\ Kind(d) = "dir"
    /\ op' = [op EXCEPT ![s] = [cmd |-> "LIST", step |-> "read", remote |-> op[s].remote,
                                dir |-> d, todo |-> {NameOf(p) : p \in Children(d)},
                                plain |-> {}, links |-> {}]]
    /\ UNCHANGED <<treeVars, cwd>>

(* The server comes to a name, and lists what is there at that time.       *)
ReadEntry(s) ==
    /\ At(s, "LIST", "read")
    /\ \E n \in op[s].todo :
          LET kind == Kind(Child(op[s].dir, n)) IN
          op' = [op EXCEPT ![s].todo = @ \ {n},
                           ![s].plain = IF kind \in {"dir", "file"} THEN @ \cup {n} ELSE @,
                           ![s].links = IF kind = "link" THEN @ \cup {n} ELSE @]
    /\ UNCHANGED <<treeVars, cwd>>

(* The end of the directory: from here the links are checked one by one.   *)
EndOfDir(s) ==
    /\ At(s, "LIST", "read")
    /\ op[s].todo = {}
    /\ op' = [op EXCEPT ![s].step = "links"]
    /\ UNCHANGED <<treeVars, cwd>>

(* A link is kept if its check says so, or if it is gone by now, and left  *)
(* out without a word if the check fails for any reason.                   *)
CheckLink(s) ==
    /\ At(s, "LIST", "links")
    /\ \E n \in op[s].links :
          \/ /\ ~Escapes(Join(op[s].remote, Path(FALSE, <<n>>)))
             /\ op' = [op EXCEPT ![s].links = @ \ {n}, ![s].plain = @ \cup {n}]
          \/ op' = [op EXCEPT ![s].links = @ \ {n}]
    /\ UNCHANGED <<treeVars, cwd>>

(* Mutant: names with the suffix are taken for temporary ones.             *)
VisibleWithoutSuffix(names) == names \ Suffixed

(* The driver leaves out the names that contain the marker.                *)
Visible(names) == names \ Marked

ListReturns(s) ==
    /\ At(s, "LIST", "links")
    /\ op[s].links = {}
    /\ op' = [op EXCEPT ![s] = [cmd |-> "LIST", step |-> "reply", remote |-> op[s].remote,
                                dir |-> op[s].dir, shown |-> Visible(op[s].plain)]]
    /\ UNCHANGED <<treeVars, cwd>>

Reply(s) ==
    /\ At(s, "LIST", "reply")
    /\ End(s)
    /\ UNCHANGED <<treeVars, cwd>>

-----------------------------------------------------------------------------
(* Uploads, RNTO, other sessions and other users of the server: what is no *)
(* directory with something in it is made, moved here, removed or replaced.*)
Others(p) ==
    /\ Kind(Parent(p)) = "dir"
    /\ \A q \in Children(p) : node[q] = "none"
    /\ \E kind \in May[p], words \in Texts \cup {EmptyPath} :
          /\ kind = "link" <=> words # EmptyPath
          /\ node' = [node EXCEPT ![p] = kind]
          /\ text' = [text EXCEPT ![p] = words]
    /\ UNCHANGED <<cwd, op>>

Inside(p) == Positions(RemoteRoot) \subseteq Positions(p)

(* The links of a directory that lead outside.                             *)
Strays(nodes, words, d) ==
    {NameOf(p) : p \in {q \in Children(d) : nodes[q] = "link" /\ ~Inside(Named(q, words[q]))}}

(* Until a LIST replies, seen keeps the names that are in its directory at *)
(* some time, and those that are plain entries, or links that lead         *)
(* outside, all the time.                                                  *)
WatchList ==
    seen' = [s \in Sessions |->
        IF op'[s] = NoOp \/ op'[s].step \in {"check", "act"} THEN NoNames
        ELSE IF op'[s].step = "reply" THEN seen[s]
        ELSE LET d == op'[s].dir
                 plain == NamesOf(node', d, {"dir", "file"})
                 stray == Strays(node', text', d)
                 first == op[s].step = "act"
             IN  [ever |-> seen[s].ever \cup plain \cup NamesOf(node', d, {"link"}),
                  plain |-> IF first THEN plain ELSE seen[s].plain \cap plain,
                  stray |-> IF first THEN stray ELSE seen[s].stray \cap stray]]

(* A link appears at p, or another one takes its place.                    *)
LinkPut(p) ==
    /\ p \in Sites
    /\ node'[p] = "link"
    /\ node[p] # "link" \/ text'[p] # text[p]

WatchLink ==
    relinked' = [s \in Sessions |->
        /\ op'[s] # NoOp
        /\ op'[s].step = "act"
        /\ relinked[s] \/ LinkPut(op'[s].remote)]

Session(s) ==
    \/ \E arg \in Args : BeginStat(s, arg) \/ BeginList(s, arg) \/ BeginMkdir(s, arg)
                         \/ BeginRemoveDir(s, arg)
    \/ Check(s) \/ Fails(s) \/ Stat(s) \/ Mkdir(s) \/ RemoveDirectory(s)
    \/ OpenDir(s) \/ ReadEntry(s) \/ EndOfDir(s) \/ CheckLink(s) \/ ListReturns(s) \/ Reply(s)

Next ==
    /\ (\E s \in Sessions : Session(s)) \/ (\E p \in Sites : Others(p))
    /\ WatchList
    /\ WatchLink

Spec == Init /\ [][Next]_vars

-----------------------------------------------------------------------------
(***************************************************************************)
(* Properties.                                                             *)
(***************************************************************************)

(* The values of the variables; no path leaves its root.                   *)
TypeOK ==
    /\ node \in [Sites -> {"none", "dir", "file", "link"}]
    /\ text \in [Sites -> Texts \cup {EmptyPath}]
    /\ relinked \in [Sessions -> BOOLEAN]
    /\ \A s \in Sessions :
          /\ WithinRoot(VirtualRoot, cwd[s])
          /\ op[s] = NoOp \/ WithinRoot(RemoteRoot, op[s].remote)
          /\ seen[s].plain \cup seen[s].stray \subseteq seen[s].ever

(* Sessions that may begin a command.                                      *)
Idle == {s \in Sessions : op[s] = NoOp}

(* Whatever mixture of names, "", "." and ".." a client sends, the driver  *)
(* acts on the path that walking the tree from the current directory leads *)
(* to, and refuses exactly the ones that end outside the virtual root or   *)
(* in a name that no server can have.  The current directory is clean      *)
(* (mapper.go:52-76, 133-145).                                             *)
PathMeansWalk ==
    \A s \in Idle : cwd[s] = Clean(cwd[s]) /\ \A arg \in Probes :
        LET walk == WalkFrom(cwd[s], arg)
            outside == ~(Positions(VirtualRoot) \subseteq walk)
            unnameable == \E w \in walk : w[2] = "NUL"
        IN  IF outside \/ unnameable
            THEN Virtual(s, arg) = Invalid
            ELSE Virtual(s, arg).abs /\ Positions(Virtual(s, arg)) = walk

(* A virtual path and its remote path determine each other, and the remote *)
(* path lies under the remote root: no two paths of a client meet in one   *)
(* remote path, and ToVirtual, which only the tests call, finds back from  *)
(* it (mapper.go:80-115).                                                  *)
RoundTrip ==
    \A s \in Idle, arg \in Probes :
        LET v == Virtual(s, arg) IN
        v # Invalid => /\ Positions(RemoteRoot) \subseteq Positions(ToRemote(v))
                       /\ ToVirtual(ToRemote(v)) = v

(* Whatever others do to the tree between the check of a CWD or LIST and   *)
(* its operation, the operation follows no link out of the remote root,    *)
(* with two exceptions: a directory on its path is a link, which the check *)
(* does not look at, or somebody put a link at the path itself after the   *)
(* check (client.go:79-95, 111-124, 313-353).                              *)
FollowsInside ==
    \A s \in Sessions :
        LET p == op[s].remote IN
        /\ At(s, "STAT", "act") \/ At(s, "LIST", "act")
        /\ p \in Sites
        /\ Entry(p) = p
        /\ ~relinked[s]
        => Inside(Object(p))

(* A LIST that succeeds while others create, remove and replace entries    *)
(* shows only names that were there, no temporary file of an upload and,   *)
(* unless the directory was reached through a link, no link that led       *)
(* outside all the time, and it shows every file and directory that was    *)
(* there all the time (client.go:111-139, clientdriver.go:306-319).        *)
ListingFaithful ==
    \A s \in Sessions :
        At(s, "LIST", "reply") =>
            /\ op[s].shown \subseteq seen[s].ever \ Marked
            /\ seen[s].plain \ Marked \subseteq op[s].shown
            /\ op[s].dir = op[s].remote => op[s].shown \cap seen[s].stray = {}
=============================================================================
