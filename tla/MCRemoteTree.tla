----------------------------- MODULE MCRemoteTree -----------------------------
(* A user whose virtual root /v lies at /srv of the server, next to the    *)
(* directories /srvx and /d.  /srv holds two directories, a file whose     *)
(* name ends in the suffix, a place for a temporary file and one for a     *)
(* link; there is another one in the directory /srv/g.  The text "../d"    *)
(* leads from there to /srv/d, and from /srv/in outside, to /d.            *)
EXTENDS RemoteTree, TLC

Abs(segs) == Path(TRUE, segs)
Rel(segs) == Path(FALSE, segs)

MCVirtualRoot == Abs(<<"v", "">>)
MCRootPath == Abs(<<"tmp", "..", "srv">>)
MCBeginsOf == {<<"v", "vx">>, <<"srv", "srvx">>}

LinkSites == {Abs(<<"srv", "in">>), Abs(<<"srv", "g", "l">>)}
FileSites == {Abs(<<"srv", "f.part-1">>), Abs(<<"srv", "d", "f">>)}
DirSites  == {Abs(<<"srv", "g">>)}

MCTexts == {Abs(<<"srv", ".", "d">>), Rel(<<"..", "d">>)}

MCStart ==
    [p \in {Slash, Abs(<<"srv">>), Abs(<<"srvx">>), Abs(<<"d">>), Abs(<<"srv", "d">>)} \cup DirSites
         |-> "dir"]
    @@ [p \in LinkSites |-> "link"]
    @@ [p \in {Abs(<<"srv", "f.part">>)} |-> "file"]
    @@ [p \in FileSites |-> "none"]

MCStartText == [p \in DOMAIN MCStart |-> IF p \in LinkSites THEN Rel(<<"..", "d">>) ELSE EmptyPath]

MCMay == [p \in DOMAIN MCStart |->
             CASE p \in LinkSites -> {"none", "file", "link"}
               [] p \in FileSites -> {"none", "file"}
               [] p \in DirSites  -> {"none", "dir"}
               [] OTHER -> {}]

Names == {"", ".", "..", "v", "vx", "NUL"}
MCProbes == [abs : BOOLEAN, segs : UNION {[1..n -> Names] : n \in 0..3}]
MCArgs == {Rel(<<"..", "v", "">>), Rel(<<"d">>), Rel(<<"in">>), Abs(<<"v", "g">>),
           Abs(<<"v", "g", "l">>), Rel(<<"in", "f">>)}
=============================================================================
