------------------------------ MODULE PathMapper ------------------------------
(***************************************************************************)
(* internal/filesystem: the paths of FTP clients, and where they lie on    *)
(* the SFTP server.                                                        *)
(*                                                                         *)
(* A path is a string split at its slashes: abs says whether it begins     *)
(* with one, segs are the parts, in which "" (two slashes, or one at the   *)
(* end), "." and ".." stand for themselves.  "NUL" stands for a part that  *)
(* contains a NUL byte.  BeginsOf relates names as strings: a pair of      *)
(* names of which the second continues the first.                          *)
(***************************************************************************)
EXTENDS Integers, Sequences, FiniteSets
LOCAL INSTANCE SequencesExt

CONSTANTS
    VirtualRootConfig,  \* users[].virtualRoot, a path
    RootPathConfig,     \* users[].sftp.rootPath, a path
    BeginsOf            \* pairs of names, the first a proper prefix of the second

AllPaths == [abs : BOOLEAN, segs : Seq(STRING)]

ASSUME RootsAssumption == {VirtualRootConfig, RootPathConfig} \subseteq AllPaths

Path(abs, segs) == [abs |-> abs, segs |-> segs]

Slash == Path(TRUE, <<>>)
EmptyPath == Path(FALSE, <<>>)

(* A path that is refused with KindInvalidPath.                            *)
Invalid == [abs |-> FALSE, segs |-> <<"NUL">>]

(* path.Clean: the parts are taken from the left, ".." takes back the last *)
(* one, and at the top of an absolute path nothing.                        *)
Take(abs, done, seg) ==
    IF seg \in {"", "."} THEN done
    ELSE IF seg # ".." \/ (~abs /\ (done = <<>> \/ Last(done) = ".."))
    THEN Append(done, seg)
    ELSE IF done = <<>> THEN done ELSE Front(done)

Clean(p) ==
    LET taken[n \in 0..Len(p.segs)] ==
            IF n = 0 THEN <<>> ELSE Take(p.abs, taken[n - 1], p.segs[n])
    IN  Path(p.abs, taken[Len(p.segs)])

(* path.Join of two elements; an empty one does not count.                 *)
Join(p, q) == Clean(IF p = EmptyPath THEN q ELSE Path(p.abs, p.segs \o q.segs))

(* path.Clean("/" + p)                                                     *)
Rooted(p) == Clean(Path(TRUE, p.segs))

(* path.Dir                                                                *)
Dir(p) == Clean(Path(p.abs, IF p.segs = <<>> THEN <<>> ELSE Front(p.segs)))

(* cleanRoot of the two roots                                              *)
VirtualRoot == Rooted(VirtualRootConfig)
RemoteRoot == Rooted(RootPathConfig)

(* Mutant: strings.HasPrefix(p, root), without the slash.                  *)
WithinRootBySpelling(root, p) ==
    \/ root = Slash /\ p.abs
    \/ p = root
    \/ LET n == Len(root.segs) IN
       /\ root.abs = p.abs
       /\ n <= Len(p.segs)
       /\ \A i \in 1..n :
             \/ root.segs[i] = p.segs[i]
             \/ i = n /\ <<root.segs[i], p.segs[i]>> \in BeginsOf

(* WithinRoot: p is root or continues it after a slash.                    *)
WithinRoot(root, p) ==
    \/ root = Slash /\ p.abs
    \/ p = root
    \/ root # Slash /\ root.abs = p.abs /\ IsStrictPrefix(root.segs, p.segs)

(* What is left of p when root and the next slash are trimmed off.         *)
Trimmed(root, p) == Path(FALSE, SubSeq(p.segs, Len(root.segs) + 1, Len(p.segs)))

ResolveVirtual(cwd, arg) ==
    LET joined == IF arg.abs THEN arg
                  ELSE Join(IF cwd = EmptyPath THEN VirtualRoot ELSE cwd, arg)
        resolved == Rooted(joined)
    IN  IF Contains(arg.segs, "NUL") \/ ~WithinRoot(VirtualRoot, resolved)
        THEN Invalid ELSE resolved

(* Mutant: the virtual root is not trimmed off.                            *)
ToRemoteUntrimmed(v) ==
    LET remote == Clean(Join(RemoteRoot, Path(FALSE, v.segs)))
    IN  IF WithinRoot(VirtualRoot, v) /\ WithinRoot(RemoteRoot, remote)
        THEN remote ELSE Invalid

ToRemote(v) ==
    LET remote == Clean(Join(RemoteRoot, Trimmed(VirtualRoot, v)))
    IN  IF WithinRoot(VirtualRoot, v) /\ WithinRoot(RemoteRoot, remote)
        THEN remote ELSE Invalid

ToVirtual(r) ==
    LET cleaned == Rooted(r)
    IN  IF WithinRoot(RemoteRoot, cleaned)
        THEN Clean(Join(VirtualRoot, Trimmed(RemoteRoot, cleaned))) ELSE Invalid

-----------------------------------------------------------------------------
(***************************************************************************)
(* Reference: what a path means to someone who walks a tree.  A part that  *)
(* is a name is left again when, from it on, some stretch has more ".."    *)
(* than names; the walk ends at the names that are not left.               *)
(***************************************************************************)
IsName(seg) == seg \notin {"", ".", ".."}

NamesIn(segs, i, j) == Cardinality({k \in i..j : IsName(segs[k])})
UpsIn(segs, i, j) == Cardinality({k \in i..j : segs[k] = ".."})

Stays(segs, i) ==
    /\ IsName(segs[i])
    /\ \A j \in (i + 1)..Len(segs) : UpsIn(segs, i + 1, j) <= NamesIn(segs, i + 1, j)

WalkFrom(start, arg) ==
    LET all   == IF arg.abs THEN arg.segs ELSE start.segs \o arg.segs
        kept  == {i \in DOMAIN all : Stays(all, i)}
    IN  {<<Cardinality({j \in kept : j <= i}), all[i]>> : i \in kept}

(* The names of a clean path with their positions, to compare with a walk. *)
Positions(p) == {<<i, p.segs[i]>> : i \in DOMAIN p.segs}
=============================================================================
