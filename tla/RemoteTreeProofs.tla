--------------------------- MODULE RemoteTreeProofs ---------------------------
(***************************************************************************)
(* Proofs about RemoteTree, for every tree, any number of sessions and     *)
(* every set of arguments: what the paths of commands mean, where commands  *)
(* act, and what a LIST shows.                                             *)
(***************************************************************************)
EXTENDS RemoteTree, PathProofs
LOCAL INSTANCE SequencesExt

Plain == {"dir", "file"}
Kinds == {"none", "dir", "file", "link"}

-----------------------------------------------------------------------------
(***************************************************************************)
(* The inductive invariant.                                                *)
(***************************************************************************)

(* What exists is in a directory, and links have texts.                    *)
TreeOK ==
    /\ node \in [Sites -> Kinds]
    /\ text \in [Sites -> Texts \cup {EmptyPath}]
    /\ \A p \in Sites :
          /\ node[p] = "link" => text[p] \in Texts
          /\ node[p] # "none" => \A i \in 0..(Len(p.segs) - 1) : node[Upto(p, i)] = "dir"

(* The fields that a command has.                                          *)
FieldsOK(q) ==
    /\ q.cmd \in {"STAT", "LIST", "MKD", "RMD"}
    /\ \/ /\ q.step \in {"check", "act"}
          /\ {"cmd", "step", "virtual", "remote"} \subseteq DOMAIN q
       \/ /\ q.cmd = "LIST" /\ q.step \in {"read", "links"}
          /\ {"cmd", "step", "remote", "dir", "todo", "plain", "links"} \subseteq DOMAIN q
       \/ q.cmd = "LIST" /\ q.step = "reply"

(* A command addresses a path inside.                                      *)
CommandOK(q) ==
    /\ FieldsOK(q)
    /\ WithinRoot(RemoteRoot, q.remote)
    /\ q.cmd = "STAT" => WithinRoot(VirtualRoot, q.virtual)

(* What a LIST in progress has come to, and what has been seen meanwhile.  *)
ReadingOK(q, w) ==
    q.step \in {"read", "links"} =>
        /\ q.dir \in Sites
        /\ q.plain \cup q.links \subseteq w.ever
        /\ w.plain \subseteq q.plain \cup (IF q.step = "read" THEN q.todo ELSE {})
        /\ q.dir = q.remote => q.plain \cap w.stray = {}

(* What the reply of a LIST shows, and what has been seen.                 *)
ShownOK(q, w) ==
    q.step = "reply" =>
        /\ q.shown \subseteq w.ever \ Marked
        /\ w.plain \ Marked \subseteq q.shown
        /\ q.dir = q.remote => q.shown \cap w.stray = {}

SessionOK(s) ==
    /\ WithinRoot(VirtualRoot, cwd[s])
    /\ seen[s].plain \cup seen[s].stray \subseteq seen[s].ever
    /\ op[s] # NoOp => /\ CommandOK(op[s])
                       /\ ReadingOK(op[s], seen[s])
                       /\ ShownOK(op[s], seen[s])

TreeInv ==
    /\ TreeOK
    /\ DOMAIN op = Sessions /\ DOMAIN cwd = Sessions /\ DOMAIN seen = Sessions
    /\ relinked \in [Sessions -> BOOLEAN]
    /\ \A s \in Sessions : SessionOK(s)

-----------------------------------------------------------------------------
(***************************************************************************)
(* Paths of the server.                                                    *)
(***************************************************************************)

(* A path is its names.                                                    *)
LEMMA PathFacts ==
    ASSUME NEW abs, NEW segs
    PROVE  Path(abs, segs).abs = abs /\ Path(abs, segs).segs = segs
BY DEF Path

(* The shape of a path of the server.                                      *)
LEMMA SiteFacts ==
    ASSUME NEW p \in Sites
    PROVE  /\ p.segs \in Seq(STRING) /\ Len(p.segs) \in Nat
           /\ p = Path(TRUE, p.segs) /\ p.abs = TRUE /\ p = Clean(p)
           /\ p # Slash => Len(p.segs) > 0
<1>1. p.segs \in Seq(STRING) /\ p = Path(TRUE, p.segs) /\ p = Clean(p)
    BY SitesAssumption
<1>2. p.abs = TRUE
    BY <1>1, PathFacts
<1>3. p.segs = <<>> => p = Slash
    BY <1>1 DEF Slash
<1>4. Len(p.segs) \in Nat /\ (p.segs # <<>> => Len(p.segs) > 0)
    BY <1>1
<1>. QED BY <1>1, <1>2, <1>3, <1>4

(* The last name of a path that is extended, and what it extends.          *)
LEMMA ChildFacts ==
    ASSUME NEW d \in Sites, NEW n, Child(d, n) \in Sites
    PROVE  /\ Parent(Child(d, n)) = d /\ NameOf(Child(d, n)) = n
           /\ Child(d, n) # Slash /\ Child(d, n) \in Children(d)
<1>. SUFFICES ASSUME NEW c, c = Child(d, n)
              PROVE  Parent(c) = d /\ NameOf(c) = n /\ c # Slash /\ c \in Children(d)
    OBVIOUS
<1>1. d.segs \in Seq(STRING) /\ d = Path(TRUE, d.segs)
    BY SiteFacts
<1>2. c \in Sites /\ c.segs \in Seq(STRING)
    BY SiteFacts
<1>3. c.segs = Append(d.segs, n)
    BY PathFacts DEF Child
<1>4. DOMAIN c.segs = 1..(Len(d.segs) + 1) /\ Len(c.segs) = Len(d.segs) + 1
    <2>1. DOMAIN Append(d.segs, n) = 1..(Len(d.segs) + 1) /\ Len(d.segs) \in Nat
        BY <1>1
    <2>. QED BY <1>2, <1>3, <2>1
<1>5. n = c.segs[Len(d.segs) + 1] /\ n \in STRING
    BY <1>1, <1>2, <1>3, <1>4
<1>6. SubSeq(c.segs, 1, Len(c.segs) - 1) = d.segs
    BY <1>1, <1>3, <1>4, <1>5
<1>7. Parent(c) = d
    BY <1>1, <1>6 DEF Parent, Upto
<1>8. NameOf(c) = n
    BY <1>4, <1>5 DEF NameOf
<1>9. c # Slash
    <2>1. Slash.segs = <<>>
        BY PathFacts DEF Slash
    <2>2. Len(<<>>) = 0 /\ Len(d.segs) \in Nat
        BY <1>1
    <2>. QED BY <1>4, <2>1, <2>2
<1>. QED BY <1>2, <1>7, <1>8, <1>9 DEF Children

(* An entry of a directory is what its name makes of the directory.        *)
LEMMA ChildOfParent ==
    ASSUME NEW d \in Sites, NEW p \in Children(d)
    PROVE  p \in Sites /\ Child(d, NameOf(p)) = p
<1>1. p \in Sites /\ p # Slash /\ Parent(p) = d
    BY DEF Children
<1>2. p.segs \in Seq(STRING) /\ p = Path(TRUE, p.segs) /\ Len(p.segs) \in Nat /\ Len(p.segs) > 0
    BY <1>1, SiteFacts
<1>3. d.segs = SubSeq(p.segs, 1, Len(p.segs) - 1)
    BY <1>1, PathFacts DEF Parent, Upto
<1>4. Append(SubSeq(p.segs, 1, Len(p.segs) - 1), p.segs[Len(p.segs)]) = p.segs
    BY <1>2
<1>. QED BY <1>1, <1>2, <1>3, <1>4 DEF Child, NameOf

(* A name is listed if there is something of its kind in the directory.    *)
LEMMA NamesFacts ==
    ASSUME NEW d \in Sites, NEW tree, NEW kinds, NEW n
    PROVE  n \in NamesOf(tree, d, kinds) <=> Child(d, n) \in Sites /\ tree[Child(d, n)] \in kinds
<1>1. ASSUME n \in NamesOf(tree, d, kinds)
      PROVE  Child(d, n) \in Sites /\ tree[Child(d, n)] \in kinds
    <2>1. PICK p \in Children(d) : tree[p] \in kinds /\ n = NameOf(p)
        BY <1>1 DEF NamesOf
    <2>. QED BY <2>1, ChildOfParent
<1>2. ASSUME Child(d, n) \in Sites, tree[Child(d, n)] \in kinds
      PROVE  n \in NamesOf(tree, d, kinds)
    BY <1>2, ChildFacts DEF NamesOf
<1>. QED BY <1>1, <1>2

(* A link that leads outside is one of the links.                          *)
LEMMA StraysFacts ==
    ASSUME NEW d \in Sites, NEW nodes, NEW words, NEW n \in Strays(nodes, words, d)
    PROVE  /\ Child(d, n) \in Sites /\ nodes[Child(d, n)] = "link"
           /\ ~Inside(Named(Child(d, n), words[Child(d, n)]))
           /\ n \in NamesOf(nodes, d, {"link"})
<1>1. PICK p \in Children(d) : /\ nodes[p] = "link" /\ ~Inside(Named(p, words[p]))
                               /\ n = NameOf(p)
    BY DEF Strays
<1>. QED BY <1>1, ChildOfParent DEF NamesOf

(* The directories of a path.                                              *)
LEMMA UptoFacts ==
    ASSUME NEW p \in Sites, NEW i \in 0..Len(p.segs)
    PROVE  /\ Upto(p, i) \in Sites
           /\ Upto(p, i).segs = SubSeq(p.segs, 1, i) /\ Len(Upto(p, i).segs) = i
           /\ i = Len(p.segs) => Upto(p, i) = p
           /\ \A j \in 0..i : Upto(Upto(p, i), j) = Upto(p, j)
           /\ i > 0 => Parent(Upto(p, i)) = Upto(p, i - 1)
<1>1. p.segs \in Seq(STRING) /\ Len(p.segs) \in Nat /\ p = Path(TRUE, p.segs)
    BY SiteFacts
<1>2. Upto(p, i).segs = SubSeq(p.segs, 1, i)
    BY PathFacts DEF Upto
<1>3. i = Len(p.segs) => Upto(p, i) = p
    BY <1>1, SubSeqFull DEF Upto
<1>4. Upto(p, i) \in Sites
    <2>1. CASE i = Len(p.segs)
        BY <1>3, <2>1
    <2>2. CASE i # Len(p.segs)
        <3>1. i \in 0..(Len(p.segs) - 1)
            BY <1>1, <2>2
        <3>. QED BY <3>1, SitesAssumption
    <2>. QED BY <2>1, <2>2
<1>5. Len(SubSeq(p.segs, 1, i)) = i
    BY <1>1
<1>6. ASSUME NEW j \in 0..i PROVE Upto(Upto(p, i), j) = Upto(p, j)
    <2>1. SubSeq(SubSeq(p.segs, 1, i), 1, j) = SubSeq(p.segs, 1, j)
        BY <1>1
    <2>. QED BY <1>2, <2>1 DEF Upto
<1>7. ASSUME i > 0 PROVE Parent(Upto(p, i)) = Upto(p, i - 1)
    <2>1. i - 1 \in 0..i
        BY <1>1, <1>7
    <2>. QED BY <1>2, <1>5, <1>6, <2>1 DEF Parent
<1>. QED BY <1>2, <1>3, <1>4, <1>5, <1>6, <1>7

-----------------------------------------------------------------------------
(***************************************************************************)
(* The tree.                                                               *)
(***************************************************************************)

(* Something without entries appears, vanishes or is replaced.             *)
LEMMA TreePut ==
    ASSUME TreeOK, NEW p \in Sites, NEW k \in Kinds, NEW words \in Texts \cup {EmptyPath},
           k = "none" \/ Kind(Parent(p)) = "dir",
           \A q \in Children(p) : node[q] = "none",
           k = "link" => words \in Texts,
           node' = [node EXCEPT ![p] = k], text' = [text EXCEPT ![p] = words]
    PROVE  TreeOK'
<1>1. /\ node \in [Sites -> Kinds] /\ node' \in [Sites -> Kinds] /\ node'[p] = k
      /\ \A q \in Sites : q # p => node'[q] = node[q] /\ text'[q] = text[q]
      /\ text' \in [Sites -> Texts \cup {EmptyPath}] /\ text'[p] = words
    BY DEF TreeOK
<1>2. \A q \in Sites : node'[q] = "link" => text'[q] \in Texts
    BY <1>1 DEF TreeOK
<1>3. ASSUME NEW q \in Sites, q # p, node'[q] # "none", NEW i \in 0..(Len(q.segs) - 1)
      PROVE  node'[Upto(q, i)] = "dir"
    <2>0. /\ Len(q.segs) \in Nat /\ i \in 0..Len(q.segs) /\ Upto(q, i) \in Sites
          /\ i + 1 \in 0..Len(q.segs)
        BY UptoFacts, SiteFacts
    <2>1. node[q] # "none" /\ node[Upto(q, i)] = "dir"
        BY <1>1, <1>3 DEF TreeOK
    <2>2. ASSUME Upto(q, i) = p PROVE FALSE
        <3>. DEFINE c == Upto(q, i + 1)
        <3>1. /\ c \in Sites /\ Len(c.segs) = i + 1
              /\ i + 1 > 0 /\ (i + 1) - 1 = i /\ Parent(c) = Upto(q, (i + 1) - 1)
              /\ i + 1 = Len(q.segs) => c = q
            BY <2>0, UptoFacts
        <3>2. c # Slash
            <4>1. Slash.segs = <<>> /\ Len(<<>>) = 0
                BY PathFacts DEF Slash
            <4>. QED BY <2>0, <3>1, <4>1
        <3>3. c \in Children(p)
            BY <2>2, <3>1, <3>2 DEF Children
        <3>4. node[c] = "none"
            BY <3>3
        <3>5. CASE i + 1 = Len(q.segs)
            BY <2>1, <3>1, <3>4, <3>5
        <3>6. CASE i + 1 # Len(q.segs)
            <4>1. i + 1 \in 0..(Len(q.segs) - 1)
                BY <2>0, <3>6
            <4>. QED BY <2>1, <3>4, <4>1 DEF TreeOK
        <3>. QED BY <3>5, <3>6
    <2>. QED BY <1>1, <2>0, <2>1, <2>2
<1>4. ASSUME k # "none", NEW i \in 0..(Len(p.segs) - 1)
      PROVE  node'[Upto(p, i)] = "dir"
    <2>. DEFINE m == Len(p.segs) - 1
    <2>1. Len(p.segs) \in Nat /\ m \in Nat /\ m \in 0..Len(p.segs) /\ i \in 0..m /\ i \in 0..Len(p.segs)
        BY <1>4, SiteFacts
    <2>2. /\ Parent(p) = Upto(p, m) /\ Upto(p, m) \in Sites
          /\ Len(Upto(p, m).segs) = m /\ Upto(Upto(p, m), i) = Upto(p, i)
          /\ Upto(p, i) \in Sites /\ Len(Upto(p, i).segs) = i
        BY <2>1, UptoFacts DEF Parent
    <2>3. node[Upto(p, m)] = "dir"
        BY <1>4, <2>2 DEF Kind
    <2>4. node[Upto(p, i)] = "dir"
        <3>1. CASE i = m
            BY <2>3, <3>1
        <3>2. CASE i # m
            <4>1. i \in 0..(Len(Upto(p, m).segs) - 1)
                BY <2>1, <2>2, <3>2
            <4>2. node[Upto(Upto(p, m), i)] = "dir"
                BY <2>2, <2>3, <4>1 DEF TreeOK
            <4>. QED BY <2>2, <4>2
        <3>. QED BY <3>1, <3>2
    <2>5. Upto(p, i) # p
        BY <2>1, <2>2
    <2>. QED BY <1>1, <2>2, <2>4, <2>5
<1>. QED BY <1>1, <1>2, <1>3, <1>4 DEF TreeOK

(* There is nothing in what is no directory.                               *)
LEMMA NothingIn ==
    ASSUME TreeOK, NEW p \in Sites, node[p] # "dir"
    PROVE  \A q \in Children(p) : node[q] = "none"
<1>. SUFFICES ASSUME NEW q \in Children(p), node[q] # "none" PROVE FALSE
    OBVIOUS
<1>1. q \in Sites /\ q # Slash /\ Parent(q) = p
    BY DEF Children
<1>2. Len(q.segs) - 1 \in 0..(Len(q.segs) - 1)
    <2>1. Len(q.segs) \in Nat /\ Len(q.segs) > 0
        BY <1>1, SiteFacts
    <2>. QED BY <2>1
<1>3. node[Upto(q, Len(q.segs) - 1)] = "dir"
    BY <1>1, <1>2 DEF TreeOK
<1>. QED BY <1>1, <1>3 DEF Parent

(* Every step leaves a tree.                                               *)
LEMMA TreeNext ==
    ASSUME TreeOK, [Next]_vars
    PROVE  TreeOK'
<1>1. CASE UNCHANGED <<node, text>>
    BY <1>1 DEF TreeOK
<1>2. ASSUME NEW s \in Sessions, Mkdir(s) PROVE TreeOK'
    <2>. DEFINE p == Entry(op[s].remote)
    <2>1. /\ p \in Sites /\ node[p] = "none" /\ Kind(Parent(p)) = "dir"
          /\ node' = [node EXCEPT ![p] = "dir"] /\ UNCHANGED text
        BY <1>2 DEF Mkdir
    <2>. HIDE DEF p
    <2>2. text' = [text EXCEPT ![p] = text[p]] /\ text[p] \in Texts \cup {EmptyPath}
        BY <2>1 DEF TreeOK
    <2>3. \A q \in Children(p) : node[q] = "none"
        BY <2>1, NothingIn
    <2>4. "dir" \in Kinds
        BY DEF Kinds
    <2>. QED BY <2>1, <2>2, <2>3, <2>4, TreePut
<1>3. ASSUME NEW s \in Sessions, RemoveDirectory(s) PROVE TreeOK'
    <2>. DEFINE p == Entry(op[s].remote)
    <2>1. /\ Kind(p) = "dir" /\ \A q \in Children(p) : node[q] = "none"
          /\ node' = [node EXCEPT ![p] = "none"] /\ UNCHANGED text
        BY <1>3 DEF RemoveDirectory
    <2>. HIDE DEF p
    <2>2. p \in Sites
        BY <2>1 DEF Kind
    <2>3. text' = [text EXCEPT ![p] = text[p]] /\ text[p] \in Texts \cup {EmptyPath}
        BY <2>1, <2>2 DEF TreeOK
    <2>4. "none" \in Kinds
        BY DEF Kinds
    <2>. QED BY <2>1, <2>2, <2>3, <2>4, TreePut
<1>4. ASSUME NEW p \in Sites, Others(p) PROVE TreeOK'
    <2>1. PICK kind \in May[p], words \in Texts \cup {EmptyPath} :
              /\ kind = "link" <=> words # EmptyPath
              /\ node' = [node EXCEPT ![p] = kind] /\ text' = [text EXCEPT ![p] = words]
        BY <1>4 DEF Others
    <2>2. kind \in Kinds
        BY SitesAssumption DEF Kinds
    <2>3. Kind(Parent(p)) = "dir" /\ \A q \in Children(p) : node[q] = "none"
        BY <1>4 DEF Others
    <2>. QED BY <2>1, <2>2, <2>3, TreePut
<1>5. ASSUME NEW s \in Sessions, Session(s), ~Mkdir(s), ~RemoveDirectory(s)
      PROVE  UNCHANGED <<node, text>>
    BY <1>5 DEF Session, BeginStat, BeginList, BeginMkdir, BeginRemoveDir, Begin, Check, Fails,
                Stat, OpenDir, ReadEntry, EndOfDir, CheckLink, ListReturns, Reply, treeVars
<1>. QED BY <1>1, <1>2, <1>3, <1>4, <1>5 DEF Next, vars

(* What exists is entered without following a link.                        *)
LEMMA ExistingIsEntry ==
    ASSUME TreeOK, NEW p \in Sites, node[p] # "none"
    PROVE  Entry(p) = p
<1>1. Len(p.segs) \in Nat
    BY SiteFacts
<1>2. \A i \in 1..(Len(p.segs) - 1) : i \in 0..(Len(p.segs) - 1) /\ Upto(p, i) \in Sites
    BY <1>1, UptoFacts
<1>3. {i \in 1..(Len(p.segs) - 1) : Kind(Upto(p, i)) = "link"} = {}
    BY <1>2 DEF TreeOK, Kind
<1>. QED BY <1>3 DEF Entry, Followed

-----------------------------------------------------------------------------
(***************************************************************************)
(* Commands.                                                               *)
(***************************************************************************)

(* ToRemote and ResolveVirtual refuse what leaves the root.                *)
LEMMA MappedInside ==
    ASSUME NEW c, NEW arg, NEW v
    PROVE  /\ ToRemote(v) # Invalid => WithinRoot(RemoteRoot, ToRemote(v))
           /\ ResolveVirtual(c, arg) # Invalid => WithinRoot(VirtualRoot, ResolveVirtual(c, arg))
BY DEF ToRemote, ResolveVirtual

(* What is seen of a directory that is being listed, and of no other.      *)
LEMMA WatchFacts ==
    ASSUME WatchList, NEW s \in Sessions, NEW q, q = op'[s], NEW w, w = seen'[s]
    PROVE  /\ q = NoOp \/ q.step \in {"check", "act"} =>
                  w.ever = {} /\ w.plain = {} /\ w.stray = {}
           /\ q # NoOp /\ q.step \in {"read", "links"} =>
                  /\ w.ever = seen[s].ever \cup NamesOf(node', q.dir, Plain)
                                           \cup NamesOf(node', q.dir, {"link"})
                  /\ w.plain = IF op[s].step = "act" THEN NamesOf(node', q.dir, Plain)
                               ELSE seen[s].plain \cap NamesOf(node', q.dir, Plain)
                  /\ w.stray = IF op[s].step = "act" THEN Strays(node', text', q.dir)
                               ELSE seen[s].stray \cap Strays(node', text', q.dir)
<1>1. w = IF q = NoOp \/ q.step \in {"check", "act"} THEN NoNames
          ELSE IF q.step = "reply" THEN seen[s]
          ELSE [ever |-> seen[s].ever \cup NamesOf(node', q.dir, Plain)
                                      \cup NamesOf(node', q.dir, {"link"}),
                plain |-> IF op[s].step = "act" THEN NamesOf(node', q.dir, Plain)
                          ELSE seen[s].plain \cap NamesOf(node', q.dir, Plain),
                stray |-> IF op[s].step = "act" THEN Strays(node', text', q.dir)
                          ELSE seen[s].stray \cap Strays(node', text', q.dir)]
    BY DEF WatchList, Plain
<1>. QED BY <1>1 DEF NoNames

(* Nothing more is seen once the listing is ready.                         *)
LEMMA WatchReply ==
    ASSUME WatchList, NEW s \in Sessions, op'[s] # NoOp, op'[s].step = "reply"
    PROVE  seen'[s] = seen[s]
BY DEF WatchList

(* A command that has not reached its listing has seen nothing.            *)
LEMMA NothingSeen ==
    ASSUME WatchList, NEW s \in Sessions, WithinRoot(VirtualRoot, cwd'[s]),
           op'[s] = NoOp \/ (op'[s].step \in {"check", "act"} /\ CommandOK(op'[s]))
    PROVE  SessionOK(s)'
<1>1. PICK q, w : q = op'[s] /\ w = seen'[s]
    OBVIOUS
<1>2. w.ever = {} /\ w.plain = {} /\ w.stray = {}
    BY <1>1, WatchFacts
<1>3. q # NoOp => /\ CommandOK(q) /\ q.step \in {"check", "act"}
                  /\ ReadingOK(q, w) /\ ShownOK(q, w)
    BY <1>1 DEF ReadingOK, ShownOK
<1>. QED BY <1>1, <1>2, <1>3 DEF SessionOK

(* A session that another one, or somebody else, leaves alone.             *)
LEMMA Unmoved ==
    ASSUME WatchList, NEW s \in Sessions, SessionOK(s), op'[s] = op[s], cwd'[s] = cwd[s]
    PROVE  SessionOK(s)'
<1>0. PICK q, w, v : q = op'[s] /\ w = seen'[s] /\ v = seen[s]
    OBVIOUS
<1>1. /\ WithinRoot(VirtualRoot, cwd'[s]) /\ v.plain \cup v.stray \subseteq v.ever
      /\ q # NoOp => CommandOK(q) /\ ReadingOK(q, v) /\ ShownOK(q, v)
    BY <1>0 DEF SessionOK
<1>2. q # NoOp => CommandOK(q)
    BY <1>1
<1>3. CASE q = NoOp \/ q.step \in {"check", "act"}
    BY <1>0, <1>1, <1>2, <1>3, NothingSeen
<1>4. CASE q # NoOp /\ q.step = "reply"
    <2>1. w = v
        BY <1>0, <1>4, WatchReply
    <2>2. ReadingOK(q, w)
        BY <1>4 DEF ReadingOK
    <2>. QED BY <1>0, <1>1, <1>2, <1>4, <2>1, <2>2 DEF SessionOK
<1>5. CASE q # NoOp /\ q.step \in {"read", "links"}
    <2>1. /\ w.ever = v.ever \cup NamesOf(node', q.dir, Plain) \cup NamesOf(node', q.dir, {"link"})
          /\ w.plain = v.plain \cap NamesOf(node', q.dir, Plain)
          /\ w.stray = v.stray \cap Strays(node', text', q.dir)
        BY <1>0, <1>5, WatchFacts
    <2>2. ReadingOK(q, v)
        BY <1>1, <1>5
    <2>3. ReadingOK(q, w)
        <3>1. w.plain \subseteq v.plain /\ w.stray \subseteq v.stray /\ v.ever \subseteq w.ever
            BY <2>1
        <3>. QED BY <1>5, <2>2, <3>1 DEF ReadingOK
    <2>4. ShownOK(q, w)
        BY <1>5 DEF ShownOK
    <2>5. w.plain \cup w.stray \subseteq w.ever
        BY <1>1, <2>1
    <2>. QED BY <1>0, <1>1, <1>2, <2>3, <2>4, <2>5 DEF SessionOK
<1>6. q # NoOp => FieldsOK(q)
    BY <1>1 DEF CommandOK
<1>. QED BY <1>3, <1>4, <1>5, <1>6 DEF FieldsOK

(* A command begins, with a path inside.                                   *)
LEMMA BeginStep ==
    ASSUME TreeInv, WatchList, NEW s \in Sessions, NEW cmd, NEW arg, NEW step,
           Begin(s, cmd, arg, step),
           \/ cmd \in {"STAT", "LIST", "RMD"} /\ step = "check"
           \/ cmd = "MKD" /\ step = "act"
    PROVE  SessionOK(s)'
<1>1. PICK q, v, r : /\ v = Virtual(s, arg) /\ r = ToRemote(Virtual(s, arg))
                     /\ q = [cmd |-> cmd, step |-> step, virtual |-> v, remote |-> r]
    OBVIOUS
<1>2. op'[s] = q /\ UNCHANGED cwd
    BY <1>1 DEF Begin, TreeInv
<1>3. WithinRoot(RemoteRoot, r) /\ WithinRoot(VirtualRoot, v)
    BY <1>1, MappedInside DEF Begin, Virtual
<1>4. /\ q.cmd = cmd /\ q.step = step /\ q.virtual = v /\ q.remote = r
      /\ DOMAIN q = {"cmd", "step", "virtual", "remote"}
    BY <1>1
<1>5. CommandOK(q)
    BY <1>3, <1>4 DEF CommandOK, FieldsOK
<1>6. WithinRoot(VirtualRoot, cwd'[s])
    BY <1>2 DEF TreeInv, SessionOK
<1>. QED BY <1>2, <1>4, <1>5, <1>6, NothingSeen

(* The place that a text names has a clean path.                           *)
LEMMA NamedCanonical ==
    ASSUME NEW p \in Sites, NEW words \in Texts
    PROVE  Canonical(Named(p, words))
<1>1. p.segs \in Seq(STRING) /\ p.abs = TRUE /\ words \in AllPaths
    BY SiteFacts, TreeAssumption
<1>2. Canonical(Dir(p))
    <2>1. (IF p.segs = <<>> THEN <<>> ELSE Front(p.segs)) \in Seq(STRING)
        <3>1. CASE p.segs # <<>>
            <4>1. Front(p.segs) = SubSeq(p.segs, 1, Len(p.segs) - 1)
                BY DEF Front
            <4>2. SubSeq(p.segs, 1, Len(p.segs) - 1) \in Seq(STRING)
                BY <1>1, <3>1
            <4>. QED BY <3>1, <4>1, <4>2
        <3>2. CASE p.segs = <<>>
            BY <1>1, <3>2
        <3>. QED BY <3>1, <3>2
    <2>. QED BY <1>1, <2>1, CleanIsCanonical DEF Dir
<1>. DEFINE q == IF words.abs THEN Clean(words) ELSE Join(Dir(p), words)
<1>3. Canonical(q)
    BY <1>1, <1>2, ArgumentMeansWalk
<1>4. CASE words.abs
    BY <1>3, <1>4 DEF Named
<1>5. CASE ~words.abs
    <2>1. q = Join(Dir(p), words) /\ Named(p, words) = Clean(q)
        BY <1>5 DEF Named
    <2>. QED BY <1>3, <2>1, CleanKeepsNames
<1>. QED BY <1>4, <1>5

(* The check looks at a link as it is, since what exists is in a directory,*)
(* and compares the place it leads to.                                     *)
LEMMA CheckedLink ==
    ASSUME TreeOK, NEW p \in Sites, node[p] = "link", ~Escapes(p)
    PROVE  Inside(LeadsTo(p))
<1>1. Entry(p) = p
    BY ExistingIsEntry
<1>2. WithinRoot(RemoteRoot, Named(p, text[p]))
    BY <1>1 DEF Escapes, Kind
<1>3. Canonical(Named(p, text[p]))
    BY NamedCanonical DEF TreeOK
<1>. QED BY <1>2, <1>3, RootsCanonical, WithinRootPositions DEF Inside, LeadsTo

(* A command passes its check.                                             *)
LEMMA CheckStep ==
    ASSUME TreeInv, WatchList, NEW s \in Sessions, Check(s)
    PROVE  SessionOK(s)'
<1>1. PICK q, p : p = op[s] /\ q = [p EXCEPT !.step = "act"]
    OBVIOUS
<1>2. /\ op'[s] = q /\ UNCHANGED <<node, text, cwd>> /\ p # NoOp /\ p.step = "check"
      /\ CommandOK(p)
      /\ WithinRoot(VirtualRoot, cwd[s])
    BY <1>1 DEF Check, treeVars, TreeInv, SessionOK
<1>3. /\ p.cmd \in {"STAT", "LIST", "MKD", "RMD"}
      /\ {"cmd", "step", "virtual", "remote"} \subseteq DOMAIN p
    BY <1>2 DEF CommandOK, FieldsOK
<1>4. /\ q.cmd = p.cmd /\ q.step = "act" /\ q.virtual = p.virtual /\ q.remote = p.remote
      /\ DOMAIN q = DOMAIN p
    BY <1>1, <1>3
<1>5. FieldsOK(q)
    BY <1>3, <1>4 DEF FieldsOK
<1>7. CommandOK(q)
    BY <1>2, <1>4, <1>5 DEF CommandOK
<1>. QED BY <1>2, <1>4, <1>7, NothingSeen

(* A command ends; CWD makes a virtual path the current directory.         *)
LEMMA EndStep ==
    ASSUME TreeInv, WatchList, NEW s \in Sessions,
           Fails(s) \/ Stat(s) \/ Mkdir(s) \/ RemoveDirectory(s) \/ Reply(s)
    PROVE  SessionOK(s)'
<1>1. op'[s] = NoOp
    BY DEF Fails, Stat, Mkdir, RemoveDirectory, Reply, End, TreeInv
<1>2. WithinRoot(VirtualRoot, cwd[s]) /\ DOMAIN cwd = Sessions
      /\ (op[s] # NoOp => CommandOK(op[s]))
    BY DEF TreeInv, SessionOK
<1>3. CASE UNCHANGED cwd
    BY <1>1, <1>2, <1>3, NothingSeen
<1>4. CASE Stat(s)
    <2>1. op[s].cmd = "STAT" /\ op[s] # NoOp
        BY <1>4 DEF Stat, At, NoOp
    <2>2. WithinRoot(VirtualRoot, op[s].virtual)
        BY <1>2, <2>1 DEF CommandOK
    <2>3. cwd'[s] = op[s].virtual \/ cwd'[s] = cwd[s]
        BY <1>2, <1>4 DEF Stat
    <2>. QED BY <1>1, <1>2, <2>2, <2>3, NothingSeen
<1>. QED BY <1>3, <1>4 DEF Fails, Mkdir, RemoveDirectory, Reply

(* A LIST opens its directory.                                             *)
LEMMA OpenDirStep ==
    ASSUME TreeInv, WatchList, NEW s \in Sessions, OpenDir(s)
    PROVE  SessionOK(s)'
<1>1. PICK q, w, p, d, todo :
          /\ p = op[s] /\ w = seen'[s] /\ d = Object(p.remote)
          /\ todo = {NameOf(c) : c \in Children(d)}
          /\ q = [cmd |-> "LIST", step |-> "read", remote |-> p.remote, dir |-> d,
                  todo |-> todo, plain |-> {}, links |-> {}]
    OBVIOUS
<1>2. /\ op'[s] = q /\ UNCHANGED <<node, text, cwd>> /\ p # NoOp /\ p.step = "act" /\ p.cmd = "LIST"
      /\ Kind(d) = "dir" /\ CommandOK(p)
      /\ WithinRoot(VirtualRoot, cwd[s])
    BY <1>1 DEF OpenDir, treeVars, TreeInv, SessionOK, At, NoOp
<1>3. d \in Sites
    BY <1>2 DEF Kind
<1>4. /\ q.cmd = "LIST" /\ q.step = "read" /\ q.remote = p.remote /\ q.dir = d
      /\ q.todo = todo /\ q.plain = {} /\ q.links = {}
      /\ DOMAIN q = {"cmd", "step", "remote", "dir", "todo", "plain", "links"}
    BY <1>1
<1>5. q # NoOp
    BY <1>4 DEF NoOp
<1>6. /\ w.ever = seen[s].ever \cup NamesOf(node', d, Plain) \cup NamesOf(node', d, {"link"})
      /\ w.plain = NamesOf(node', d, Plain)
      /\ w.stray = Strays(node', text', d)
    <2>1. q = op'[s] /\ w = seen'[s] /\ q.step \in {"read", "links"} /\ op[s].step = "act"
        BY <1>1, <1>2, <1>4
    <2>2. /\ w.ever = seen[s].ever \cup NamesOf(node', q.dir, Plain)
                                   \cup NamesOf(node', q.dir, {"link"})
          /\ w.plain = NamesOf(node', q.dir, Plain)
          /\ w.stray = Strays(node', text', q.dir)
        BY <1>5, <2>1, WatchFacts
    <2>. QED BY <1>4, <2>2
<1>7. CommandOK(q)
    <2>1. FieldsOK(q)
        BY <1>4 DEF FieldsOK
    <2>2. WithinRoot(RemoteRoot, q.remote)
        BY <1>2, <1>4 DEF CommandOK
    <2>. QED BY <1>4, <2>1, <2>2 DEF CommandOK
<1>8. ReadingOK(q, w)
    <2>1. NamesOf(node', d, Plain) \subseteq todo
        BY <1>1 DEF NamesOf
    <2>. QED BY <1>3, <1>4, <1>6, <2>1 DEF ReadingOK
<1>9. ShownOK(q, w)
    BY <1>4 DEF ShownOK
<1>10. w.plain \cup w.stray \subseteq w.ever
    <2>1. Strays(node', text', d) \subseteq NamesOf(node', d, {"link"})
        BY <1>3, StraysFacts
    <2>. QED BY <1>6, <2>1
<1>. QED BY <1>1, <1>2, <1>7, <1>8, <1>9, <1>10 DEF SessionOK

(* What a LIST that goes on knows of its directory, before and after.      *)
LEMMA ListingFacts ==
    ASSUME TreeInv, WatchList, NEW s \in Sessions, UNCHANGED <<node, text, cwd>>,
           op[s].cmd = "LIST", op[s].step \in {"read", "links"},
           op'[s] # NoOp, op'[s].step \in {"read", "links"}
    PROVE  /\ op[s].dir \in Sites
           /\ seen'[s].plain \subseteq seen[s].plain
           /\ seen'[s].stray \subseteq seen[s].stray
           /\ seen[s].ever \subseteq seen'[s].ever
           /\ NamesOf(node', op'[s].dir, Plain) \subseteq seen'[s].ever
           /\ NamesOf(node', op'[s].dir, {"link"}) \subseteq seen'[s].ever
           /\ seen'[s].plain \subseteq NamesOf(node', op'[s].dir, Plain)
           /\ seen'[s].stray \subseteq Strays(node', text', op'[s].dir)
<1>0. PICK p, q, v, w : p = op[s] /\ q = op'[s] /\ v = seen[s] /\ w = seen'[s]
    OBVIOUS
<1>1. p # NoOp
    BY <1>0 DEF NoOp
<1>2. ReadingOK(p, v)
    BY <1>0, <1>1 DEF TreeInv, SessionOK
<1>3. p.dir \in Sites
    BY <1>0, <1>2 DEF ReadingOK
<1>4. /\ w.ever = v.ever \cup NamesOf(node', q.dir, Plain) \cup NamesOf(node', q.dir, {"link"})
      /\ w.plain = v.plain \cap NamesOf(node', q.dir, Plain)
      /\ w.stray = v.stray \cap Strays(node', text', q.dir)
    BY <1>0, WatchFacts
<1>. QED BY <1>0, <1>3, <1>4

(* A LIST goes on with what it knows of its directory.                     *)
LEMMA ListGoesOn ==
    ASSUME TreeInv, NEW s \in Sessions, UNCHANGED <<node, text, cwd>>,
           op[s].cmd = "LIST", op[s].step \in {"read", "links"},
           op'[s].cmd = "LIST", op'[s].step \in {"read", "links"},
           op'[s].remote = op[s].remote, DOMAIN op'[s] = DOMAIN op[s],
           seen'[s].plain \subseteq seen[s].plain, seen'[s].stray \subseteq seen[s].stray,
           seen[s].ever \subseteq seen'[s].ever,
           ReadingOK(op'[s], seen'[s])
    PROVE  SessionOK(s)'
<1>0. PICK p, q, v, w : p = op[s] /\ q = op'[s] /\ v = seen[s] /\ w = seen'[s]
    OBVIOUS
<1>1. p # NoOp
    BY <1>0 DEF NoOp
<1>2. /\ CommandOK(p) /\ WithinRoot(VirtualRoot, cwd'[s])
      /\ v.plain \cup v.stray \subseteq v.ever
    BY <1>0, <1>1 DEF TreeInv, SessionOK
<1>3. FieldsOK(q)
    <2>1. FieldsOK(p)
        BY <1>2 DEF CommandOK
    <2>. QED BY <1>0, <2>1 DEF FieldsOK
<1>4. WithinRoot(RemoteRoot, q.remote)
    BY <1>0, <1>2 DEF CommandOK
<1>5. CommandOK(q)
    BY <1>0, <1>3, <1>4 DEF CommandOK
<1>6. ShownOK(q, w)
    BY <1>0 DEF ShownOK
<1>7. w.plain \cup w.stray \subseteq w.ever
    BY <1>0, <1>2
<1>. QED BY <1>0, <1>2, <1>5, <1>6, <1>7 DEF SessionOK

(* The server comes to a name.                                             *)
LEMMA ReadEntryStep ==
    ASSUME TreeInv, WatchList, NEW s \in Sessions, ReadEntry(s)
    PROVE  SessionOK(s)'
<1>0. PICK p, q, v, w : p = op[s] /\ q = op'[s] /\ v = seen[s] /\ w = seen'[s]
    OBVIOUS
<1>1. /\ p.cmd = "LIST" /\ p.step = "read" /\ UNCHANGED <<node, text, cwd>> /\ s \in DOMAIN op
      /\ p # NoOp
    BY <1>0 DEF ReadEntry, treeVars, At, TreeInv, NoOp
<1>2. /\ CommandOK(p) /\ ReadingOK(p, v)
      /\ {"cmd", "step", "remote", "dir", "todo", "plain", "links"} \subseteq DOMAIN p
    BY <1>0, <1>1 DEF TreeInv, SessionOK, CommandOK, FieldsOK
<1>3. PICK n \in p.todo :
          LET kind == Kind(Child(p.dir, n)) IN
          q = [p EXCEPT !.todo = @ \ {n},
                        !.plain = IF kind \in {"dir", "file"} THEN @ \cup {n} ELSE @,
                        !.links = IF kind = "link" THEN @ \cup {n} ELSE @]
    BY <1>0, <1>1 DEF ReadEntry
<1>4. PICK kind : kind = Kind(Child(p.dir, n))
    OBVIOUS
<1>5. /\ q.cmd = "LIST" /\ q.step = "read" /\ q.remote = p.remote /\ q.dir = p.dir
      /\ q.todo = p.todo \ {n} /\ DOMAIN q = DOMAIN p
      /\ q.plain = IF kind \in Plain THEN p.plain \cup {n} ELSE p.plain
      /\ q.links = IF kind = "link" THEN p.links \cup {n} ELSE p.links
    BY <1>1, <1>2, <1>3, <1>4 DEF Plain
<1>6. q # NoOp
    BY <1>5 DEF NoOp
<1>7. /\ p.dir \in Sites
      /\ w.plain \subseteq v.plain /\ w.stray \subseteq v.stray /\ v.ever \subseteq w.ever
      /\ NamesOf(node', q.dir, Plain) \subseteq w.ever
      /\ NamesOf(node', q.dir, {"link"}) \subseteq w.ever
      /\ w.plain \subseteq NamesOf(node', q.dir, Plain)
      /\ w.stray \subseteq Strays(node', text', q.dir)
    BY <1>0, <1>1, <1>5, <1>6, ListingFacts
<1>8. /\ kind \in Plain <=> n \in NamesOf(node', q.dir, Plain)
      /\ kind = "link" <=> n \in NamesOf(node', q.dir, {"link"})
    BY <1>1, <1>4, <1>5, <1>7, NamesFacts DEF Kind, Plain
<1>9. ~(kind \in Plain /\ kind = "link")
    BY DEF Plain
<1>10. ReadingOK(q, w)
    <2>1. /\ p.plain \cup p.links \subseteq v.ever
          /\ v.plain \subseteq p.plain \cup p.todo
          /\ p.dir = p.remote => p.plain \cap v.stray = {}
        BY <1>1, <1>2 DEF ReadingOK
    <2>2. q.plain \cup q.links \subseteq w.ever
        BY <1>5, <1>7, <1>8, <2>1
    <2>3. w.plain \subseteq q.plain \cup q.todo
        BY <1>5, <1>7, <1>8, <2>1
    <2>4. kind \in Plain => n \notin w.stray
        BY <1>1, <1>5, <1>7, <1>8, <1>9, StraysFacts
    <2>5. q.plain \cap w.stray \subseteq p.plain \cap v.stray
        BY <1>5, <1>7, <2>4
    <2>. QED BY <1>5, <1>7, <2>1, <2>2, <2>3, <2>5 DEF ReadingOK
<1>. QED BY <1>0, <1>1, <1>5, <1>6, <1>7, <1>10, ListGoesOn

(* The directory has been read.                                            *)
LEMMA EndOfDirStep ==
    ASSUME TreeInv, WatchList, NEW s \in Sessions, EndOfDir(s)
    PROVE  SessionOK(s)'
<1>0. PICK p, q, v, w : p = op[s] /\ q = op'[s] /\ v = seen[s] /\ w = seen'[s]
    OBVIOUS
<1>1. /\ p.cmd = "LIST" /\ p.step = "read" /\ UNCHANGED <<node, text, cwd>> /\ s \in DOMAIN op
      /\ p # NoOp /\ p.todo = {}
    BY <1>0 DEF EndOfDir, treeVars, At, TreeInv, NoOp
<1>2. /\ CommandOK(p) /\ ReadingOK(p, v)
      /\ {"cmd", "step", "remote", "dir", "todo", "plain", "links"} \subseteq DOMAIN p
    BY <1>0, <1>1 DEF TreeInv, SessionOK, CommandOK, FieldsOK
<1>3. q = [p EXCEPT !.step = "links"]
    BY <1>0, <1>1 DEF EndOfDir
<1>5. /\ q.cmd = "LIST" /\ q.step = "links" /\ q.remote = p.remote /\ q.dir = p.dir
      /\ DOMAIN q = DOMAIN p /\ q.plain = p.plain /\ q.links = p.links
    BY <1>1, <1>2, <1>3
<1>6. q # NoOp
    BY <1>5 DEF NoOp
<1>7. /\ p.dir \in Sites
      /\ w.plain \subseteq v.plain /\ w.stray \subseteq v.stray /\ v.ever \subseteq w.ever
      /\ w.plain \subseteq NamesOf(node', q.dir, Plain)
      /\ w.stray \subseteq Strays(node', text', q.dir)
    BY <1>0, <1>1, <1>5, <1>6, ListingFacts
<1>10. ReadingOK(q, w)
    <2>1. /\ p.plain \cup p.links \subseteq v.ever
          /\ v.plain \subseteq p.plain \cup p.todo
          /\ p.dir = p.remote => p.plain \cap v.stray = {}
        BY <1>1, <1>2 DEF ReadingOK
    <2>2. q.plain \cup q.links \subseteq w.ever /\ w.plain \subseteq q.plain
        BY <1>1, <1>5, <1>7, <2>1
    <2>3. q.plain \cap w.stray \subseteq p.plain \cap v.stray
        BY <1>5, <1>7
    <2>. QED BY <1>5, <1>7, <2>1, <2>2, <2>3 DEF ReadingOK
<1>. QED BY <1>0, <1>1, <1>5, <1>6, <1>7, <1>10, ListGoesOn

(* The path that is checked for a name in the directory that was asked for.*)
LEMMA JoinedChild ==
    ASSUME NEW d \in Sites, NEW n, Child(d, n) \in Sites
    PROVE  Join(d, Path(FALSE, <<n>>)) = Child(d, n)
<1>1. d.segs \in Seq(STRING) /\ d.abs = TRUE
    BY SiteFacts
<1>2. d # EmptyPath
    <2>1. EmptyPath.abs = FALSE
        BY PathFacts DEF EmptyPath
    <2>. QED BY <1>1, <2>1
<1>3. d.segs \o <<n>> = Append(d.segs, n)
    <2>1. NameOf(Child(d, n)) = n /\ Child(d, n).segs \in Seq(STRING)
          /\ Child(d, n).segs = Append(d.segs, n)
        BY ChildFacts, SiteFacts, PathFacts DEF Child
    <2>2. n \in STRING
        <3>1. Child(d, n) # Slash
            BY ChildFacts
        <3>2. Len(Child(d, n).segs) > 0
            BY <3>1, SiteFacts
        <3>. QED BY <2>1, <3>2 DEF NameOf
    <2>. QED BY <1>1, <2>2
<1>4. Join(d, Path(FALSE, <<n>>)) = Clean(Child(d, n))
    BY <1>1, <1>2, <1>3, PathFacts DEF Join, Child
<1>. QED BY <1>4, SiteFacts

(* A link is kept or left out.                                             *)
LEMMA CheckLinkStep ==
    ASSUME TreeInv, WatchList, NEW s \in Sessions, CheckLink(s)
    PROVE  SessionOK(s)'
<1>0. PICK p, q, v, w : p = op[s] /\ q = op'[s] /\ v = seen[s] /\ w = seen'[s]
    OBVIOUS
<1>1. /\ p.cmd = "LIST" /\ p.step = "links" /\ UNCHANGED <<node, text, cwd>> /\ s \in DOMAIN op
      /\ p # NoOp /\ TreeOK
    BY <1>0 DEF CheckLink, treeVars, At, TreeInv, NoOp
<1>2. /\ CommandOK(p) /\ ReadingOK(p, v)
      /\ {"cmd", "step", "remote", "dir", "todo", "plain", "links"} \subseteq DOMAIN p
    BY <1>0, <1>1 DEF TreeInv, SessionOK, CommandOK, FieldsOK
<1>3. PICK n \in p.links :
          \/ /\ ~Escapes(Join(p.remote, Path(FALSE, <<n>>)))
             /\ q = [p EXCEPT !.links = @ \ {n}, !.plain = @ \cup {n}]
          \/ q = [p EXCEPT !.links = @ \ {n}]
    BY <1>0, <1>1 DEF CheckLink
<1>4. q.plain = p.plain \/ (q.plain = p.plain \cup {n} /\ ~Escapes(Join(p.remote, Path(FALSE, <<n>>))))
    BY <1>2, <1>3
<1>5. /\ q.cmd = "LIST" /\ q.step = "links" /\ q.remote = p.remote /\ q.dir = p.dir
      /\ DOMAIN q = DOMAIN p /\ q.links = p.links \ {n}
    BY <1>1, <1>2, <1>3
<1>6. q # NoOp
    BY <1>5 DEF NoOp
<1>7. /\ p.dir \in Sites
      /\ w.plain \subseteq v.plain /\ w.stray \subseteq v.stray /\ v.ever \subseteq w.ever
      /\ w.plain \subseteq NamesOf(node', q.dir, Plain)
      /\ w.stray \subseteq Strays(node', text', q.dir)
    BY <1>0, <1>1, <1>5, <1>6, ListingFacts
<1>8. ASSUME p.dir = p.remote, n \in w.stray, ~Escapes(Join(p.remote, Path(FALSE, <<n>>)))
      PROVE  FALSE
    <2>1. n \in Strays(node, text, p.dir)
        BY <1>1, <1>5, <1>7, <1>8
    <2>2. /\ Child(p.dir, n) \in Sites /\ node[Child(p.dir, n)] = "link"
          /\ ~Inside(Named(Child(p.dir, n), text[Child(p.dir, n)]))
        BY <1>7, <2>1, StraysFacts
    <2>3. ~Escapes(Child(p.dir, n))
        BY <1>7, <1>8, <2>2, JoinedChild
    <2>. QED BY <1>1, <2>2, <2>3, CheckedLink DEF LeadsTo
<1>10. ReadingOK(q, w)
    <2>1. /\ p.plain \cup p.links \subseteq v.ever
          /\ v.plain \subseteq p.plain
          /\ p.dir = p.remote => p.plain \cap v.stray = {}
        BY <1>1, <1>2 DEF ReadingOK
    <2>2. q.plain \cup q.links \subseteq w.ever /\ w.plain \subseteq q.plain
        BY <1>4, <1>5, <1>7, <2>1
    <2>3. p.dir = p.remote => q.plain \cap w.stray = {}
        BY <1>4, <1>7, <1>8, <2>1
    <2>. QED BY <1>5, <1>7, <2>2, <2>3 DEF ReadingOK
<1>. QED BY <1>0, <1>1, <1>5, <1>6, <1>7, <1>10, ListGoesOn

(* The listing is ready.                                                   *)
LEMMA ListReturnsStep ==
    ASSUME TreeInv, WatchList, NEW s \in Sessions, ListReturns(s)
    PROVE  SessionOK(s)'
<1>0. PICK p, q, v, w : p = op[s] /\ q = op'[s] /\ v = seen[s] /\ w = seen'[s]
    OBVIOUS
<1>1. /\ p.cmd = "LIST" /\ p.step = "links" /\ UNCHANGED <<node, text, cwd>> /\ s \in DOMAIN op
      /\ p # NoOp
    BY <1>0 DEF ListReturns, treeVars, At, TreeInv, NoOp
<1>2. /\ CommandOK(p) /\ ReadingOK(p, v)
      /\ WithinRoot(VirtualRoot, cwd[s]) /\ v.plain \cup v.stray \subseteq v.ever
    BY <1>0, <1>1 DEF TreeInv, SessionOK
<1>3. q = [cmd |-> "LIST", step |-> "reply", remote |-> p.remote, dir |-> p.dir,
           shown |-> p.plain \ Marked]
    BY <1>0, <1>1 DEF ListReturns, Visible
<1>4. /\ q.cmd = "LIST" /\ q.step = "reply" /\ q.remote = p.remote /\ q.dir = p.dir
      /\ q.shown = p.plain \ Marked
    BY <1>3
<1>5. q # NoOp
    BY <1>4 DEF NoOp
<1>6. w = v
    BY <1>0, <1>4, <1>5, WatchReply
<1>7. CommandOK(q)
    <2>1. FieldsOK(q)
        BY <1>4 DEF FieldsOK
    <2>2. WithinRoot(RemoteRoot, q.remote)
        BY <1>1, <1>2, <1>4 DEF CommandOK
    <2>. QED BY <1>4, <2>1, <2>2 DEF CommandOK
<1>8. ShownOK(q, w)
    <2>1. /\ p.plain \cup p.links \subseteq v.ever
          /\ v.plain \subseteq p.plain
          /\ p.dir = p.remote => p.plain \cap v.stray = {}
        BY <1>1, <1>2 DEF ReadingOK
    <2>. QED BY <1>4, <1>6, <2>1 DEF ShownOK
<1>9. ReadingOK(q, w)
    BY <1>4 DEF ReadingOK
<1>. QED BY <1>0, <1>1, <1>2, <1>6, <1>7, <1>8, <1>9 DEF SessionOK

-----------------------------------------------------------------------------
(***************************************************************************)
(* The theorems.                                                           *)
(***************************************************************************)

(* A step of a session leaves that session and the others as they must be. *)
LEMMA SessionNext ==
    ASSUME TreeInv, WatchList, NEW s \in Sessions, Session(s), NEW t \in Sessions
    PROVE  SessionOK(t)'
<1>1. CASE t = s
    <2>1. CASE \E arg \in Args : BeginStat(s, arg) \/ BeginList(s, arg) \/ BeginMkdir(s, arg)
                                 \/ BeginRemoveDir(s, arg)
        <3>1. \E arg \in Args, cmd \in {"STAT", "LIST", "MKD", "RMD"}, step \in {"check", "act"} :
                  /\ Begin(s, cmd, arg, step)
                  /\ \/ cmd \in {"STAT", "LIST", "RMD"} /\ step = "check"
                     \/ cmd = "MKD" /\ step = "act"
            BY <2>1 DEF BeginStat, BeginList, BeginMkdir, BeginRemoveDir
        <3>. QED BY <1>1, <3>1, BeginStep
    <2>. QED BY <1>1, <2>1, CheckStep, EndStep, OpenDirStep, ReadEntryStep, EndOfDirStep,
                CheckLinkStep, ListReturnsStep DEF Session
<1>2. CASE t # s
    <2>1. op'[t] = op[t] /\ cwd'[t] = cwd[t]
        BY <1>2 DEF TreeInv, Session, BeginStat, BeginList, BeginMkdir, BeginRemoveDir, Begin,
                    Check, Fails, Stat, Mkdir, RemoveDirectory, OpenDir, ReadEntry, EndOfDir,
                    CheckLink, ListReturns, Reply, End
    <2>2. SessionOK(t)
        BY DEF TreeInv
    <2>. QED BY <2>1, <2>2, Unmoved
<1>. QED BY <1>1, <1>2

(* Every step keeps the invariant.                                         *)
LEMMA TreeInvNext == TreeInv /\ [Next]_vars => TreeInv'
<1>. SUFFICES ASSUME TreeInv, [Next]_vars PROVE TreeInv'
    OBVIOUS
<1>1. TreeOK'
    BY TreeNext DEF TreeInv
<1>2. CASE UNCHANGED vars
    BY <1>2 DEF vars, TreeInv, TreeOK, SessionOK
<1>3. CASE Next
    <2>0. WatchList /\ WatchLink
        BY <1>3 DEF Next
    <2>1. DOMAIN seen' = Sessions /\ relinked' \in [Sessions -> BOOLEAN]
        <3>1. \A s \in Sessions : relinked'[s] \in BOOLEAN
            BY <2>0 DEF WatchLink
        <3>. QED BY <2>0, <3>1 DEF WatchList, WatchLink
    <2>2. ASSUME NEW s \in Sessions, Session(s) PROVE TreeInv'
        <3>1. DOMAIN op' = Sessions /\ DOMAIN cwd' = Sessions
            BY <2>2 DEF TreeInv, Session, BeginStat, BeginList, BeginMkdir, BeginRemoveDir,
                        Begin, Check, Fails, Stat, Mkdir, RemoveDirectory, OpenDir, ReadEntry,
                        EndOfDir, CheckLink, ListReturns, Reply, End
        <3>2. \A t \in Sessions : SessionOK(t)'
            BY <1>1, <2>0, <2>2, SessionNext
        <3>. QED BY <1>1, <2>1, <3>1, <3>2 DEF TreeInv
    <2>3. ASSUME NEW p \in Sites, Others(p) PROVE TreeInv'
        <3>1. UNCHANGED <<cwd, op>>
            BY <2>3 DEF Others
        <3>2. \A t \in Sessions : SessionOK(t)'
            BY <1>1, <2>0, <3>1, Unmoved DEF TreeInv
        <3>. QED BY <1>1, <2>1, <3>1, <3>2 DEF TreeInv
    <2>. QED BY <1>3, <2>2, <2>3 DEF Next
<1>. QED BY <1>2, <1>3

(* The invariant holds.                                                    *)
LEMMA TreeInvariant == Spec => []TreeInv
<1>1. Init => TreeInv
    <2>. SUFFICES ASSUME Init PROVE TreeInv
        OBVIOUS
    <2>1. TreeOK
        BY SitesAssumption DEF Init, TreeOK, Kinds
    <2>2. \A s \in Sessions : SessionOK(s)
        BY DEF Init, SessionOK, NoNames, WithinRoot
    <2>. QED BY <2>1, <2>2 DEF Init, TreeInv
<1>. QED BY <1>1, TreeInvNext, PTL DEF Spec

(* Whatever clients send, the current directory stays inside the virtual   *)
(* root, and every command acts on a path inside the remote root           *)
(* (mapper.go:52-115).                                                     *)
THEOREM PathsContained == Spec => []TypeOK
<1>1. TreeInv => TypeOK
    BY DEF TreeInv, TreeOK, Kinds, SessionOK, CommandOK, TypeOK
<1>. QED BY <1>1, TreeInvariant, PTL

(* A path inside the root continues it.                                    *)
LEMMA InsideContinues ==
    ASSUME NEW p \in Sites, WithinRoot(RemoteRoot, p)
    PROVE  Positions(RemoteRoot) \subseteq Positions(p)
<1>. DEFINE r == RemoteRoot.segs
<1>0. r \in Seq(STRING) /\ p.segs \in Seq(STRING)
    BY RootsCanonical, CanonicalFields, SiteFacts
<1>1. CASE RemoteRoot = Slash
    <2>1. r = <<>>
        BY <1>1, PathFacts DEF Slash
    <2>2. DOMAIN r = {}
        BY <2>1
    <2>. QED BY <2>2 DEF Positions
<1>2. CASE p = RemoteRoot
    BY <1>2
<1>3. CASE IsStrictPrefix(r, p.segs)
    <2>1. Len(r) <= Len(p.segs) /\ SubSeq(r, 1, Len(r)) = SubSeq(p.segs, 1, Len(r))
        BY <1>3 DEF IsStrictPrefix, IsPrefix
    <2>2. ASSUME NEW i \in DOMAIN r PROVE i \in DOMAIN p.segs /\ r[i] = p.segs[i]
        <3>1. i \in 1..Len(r) /\ i \in 1..Len(p.segs) /\ Len(r) \in Nat
            BY <1>0, <2>1
        <3>2. SubSeq(r, 1, Len(r))[i] = r[i] /\ SubSeq(p.segs, 1, Len(r))[i] = p.segs[i]
            BY <1>0, <2>1, <3>1
        <3>. QED BY <1>0, <2>1, <3>1, <3>2
    <2>. QED BY <2>2 DEF Positions
<1>. QED BY <1>1, <1>2, <1>3 DEF WithinRoot

(* The object of a link is the place it leads to.                          *)
LEMMA ObjectOfLink ==
    ASSUME TreeOK, NEW p \in Sites, node[p] = "link", Len(p.segs) > 0
    PROVE  Positions(Object(p)) = Positions(LeadsTo(p))
<1>. DEFINE n == Len(p.segs)
            links == {i \in 1..n : Kind(Upto(p, i)) = "link"}
<1>1. n \in Nat /\ Upto(p, n) = p /\ p.segs \in Seq(STRING)
    <2>1. n \in Nat /\ p.segs \in Seq(STRING)
        BY SiteFacts
    <2>2. n \in 0..n
        BY <2>1
    <2>. QED BY <2>1, <2>2, UptoFacts
<1>2. LeadsTo(p).segs \in Seq(STRING)
    BY NamedCanonical, CanonicalFields DEF TreeOK, LeadsTo
<1>3. links = {n}
    <2>1. \A i \in 1..n : i # n => i \in 0..(n - 1) /\ i \in 0..n
        BY <1>1
    <2>2. \A i \in 1..n : i # n => Kind(Upto(p, i)) = "dir"
        BY <2>1, UptoFacts DEF TreeOK, Kind
    <2>3. Kind(Upto(p, n)) = "link" /\ n \in 1..n
        BY <1>1 DEF Kind
    <2>. QED BY <2>2, <2>3
<1>4. (CHOOSE j \in links : \A k \in links : j <= k) = n
    <2>. HIDE DEF links
    <2>1. \E j \in links : \A k \in links : j <= k
        BY <1>1, <1>3
    <2>. QED BY <1>3, <2>1
<1>5. Object(p) = Path(TRUE, LeadsTo(p).segs \o SubSeq(p.segs, n + 1, n))
    <2>1. links # {}
        BY <1>3
    <2>. QED BY <1>1, <1>4, <2>1 DEF Object, Followed
<1>6. SubSeq(p.segs, n + 1, n) = <<>>
    BY <1>1, SubSeqEmpty
<1>7. LeadsTo(p).segs \o <<>> = LeadsTo(p).segs
    BY <1>2
<1>8. Object(p).segs = LeadsTo(p).segs
    <2>1. Object(p) = Path(TRUE, LeadsTo(p).segs)
        BY <1>5, <1>6, <1>7
    <2>. QED BY <2>1 DEF Path
<1>. QED BY <1>8 DEF Positions

(* The object of what is no link is what the path enters.                  *)
LEMMA ObjectOfEntry ==
    ASSUME NEW p \in Sites, node[p] # "link" \/ Len(p.segs) = 0
    PROVE  Object(p) = Entry(p)
<1>. DEFINE n == Len(p.segs)
<1>1. n \in Nat /\ Upto(p, n) = p
    BY SiteFacts, UptoFacts
<1>2. {i \in 1..n : Kind(Upto(p, i)) = "link"} = {i \in 1..(n - 1) : Kind(Upto(p, i)) = "link"}
    <2>1. \A i \in 1..n : i # n => i \in 1..(n - 1)
        BY <1>1
    <2>2. \A i \in 1..(n - 1) : i \in 1..n
        BY <1>1
    <2>3. n \in 1..n => Kind(Upto(p, n)) # "link"
        BY <1>1 DEF Kind
    <2>. QED BY <2>1, <2>2, <2>3
<1>. DEFINE L(m) == {i \in 1..m : Kind(Upto(p, i)) = "link"}
            By(links) ==
                IF links = {} THEN p
                ELSE LET i == CHOOSE j \in links : \A k \in links : j <= k
                     IN  Path(TRUE, LeadsTo(Upto(p, i)).segs \o SubSeq(p.segs, i + 1, Len(p.segs)))
<1>3. Object(p) = By(L(n)) /\ Entry(p) = By(L(n - 1))
    BY DEF Object, Entry, Followed
<1>. HIDE DEF By
<1>. QED BY <1>2, <1>3

(* A link at the path of a checked command leads inside, unless it was put *)
(* there after the check.                                                  *)
CheckedOK(s) ==
    /\ At(s, "STAT", "act") \/ At(s, "LIST", "act")
    /\ op[s].remote \in Sites
    /\ node[op[s].remote] = "link"
    /\ ~relinked[s]
    => Inside(LeadsTo(op[s].remote))

(* Only the check takes a CWD or a LIST to its operation.                  *)
LEMMA OnlyCheckActs ==
    ASSUME TreeInv, NEW s \in Sessions, Session(s),
           op'[s].cmd \in {"STAT", "LIST"}, op'[s].step = "act"
    PROVE  Check(s) /\ op'[s].remote = op[s].remote
<1>0. DOMAIN op = Sessions /\ (op[s] # NoOp => FieldsOK(op[s]))
    BY DEF TreeInv, SessionOK, CommandOK
<1>1. ASSUME \E arg \in Args : BeginStat(s, arg) \/ BeginList(s, arg) \/ BeginMkdir(s, arg)
                               \/ BeginRemoveDir(s, arg)
      PROVE  FALSE
    <2>1. PICK arg \in Args, cmd \in {"STAT", "LIST", "MKD", "RMD"}, step \in {"check", "act"} :
              /\ Begin(s, cmd, arg, step)
              /\ \/ cmd \in {"STAT", "LIST", "RMD"} /\ step = "check"
                 \/ cmd = "MKD" /\ step = "act"
        BY <1>1 DEF BeginStat, BeginList, BeginMkdir, BeginRemoveDir
    <2>2. op'[s].cmd = cmd /\ op'[s].step = step
        BY <1>0, <2>1 DEF Begin
    <2>. QED BY <2>1, <2>2
<1>2. ~(Fails(s) \/ Stat(s) \/ Mkdir(s) \/ RemoveDirectory(s) \/ Reply(s))
    BY <1>0 DEF Fails, Stat, Mkdir, RemoveDirectory, Reply, End, NoOp
<1>3. ~(OpenDir(s) \/ ListReturns(s))
    BY <1>0 DEF OpenDir, ListReturns
<1>4. ASSUME ReadEntry(s) \/ EndOfDir(s) \/ CheckLink(s) PROVE FALSE
    <2>0. At(s, "LIST", "read") \/ At(s, "LIST", "links")
        BY <1>4 DEF ReadEntry, EndOfDir, CheckLink
    <2>1. op[s].cmd = "LIST" /\ op[s].step \in {"read", "links"}
        BY <2>0 DEF At
    <2>2. op[s] # NoOp
        BY <2>1 DEF NoOp
    <2>3. {"cmd", "step", "todo", "plain", "links"} \subseteq DOMAIN op[s]
        BY <1>0, <2>1, <2>2 DEF FieldsOK
    <2>4. op'[s].step \in {"read", "links"}
        <3>1. CASE ReadEntry(s)
            BY <1>0, <2>1, <2>3, <3>1 DEF ReadEntry
        <3>2. CASE EndOfDir(s)
            BY <1>0, <2>1, <2>3, <3>2 DEF EndOfDir
        <3>3. CASE CheckLink(s)
            BY <1>0, <2>1, <2>3, <3>3 DEF CheckLink
        <3>. QED BY <1>4, <3>1, <3>2, <3>3
    <2>. QED BY <2>4
<1>5. Check(s)
    BY <1>1, <1>2, <1>3, <1>4 DEF Session
<1>6. op'[s].remote = op[s].remote
    <2>1. op[s] # NoOp /\ op[s].step = "check"
        BY <1>5 DEF Check
    <2>2. {"cmd", "step", "virtual", "remote"} \subseteq DOMAIN op[s]
        BY <1>0, <2>1 DEF FieldsOK
    <2>3. op'[s] = [op[s] EXCEPT !.step = "act"]
        BY <1>0, <1>5 DEF Check
    <2>. QED BY <2>2, <2>3
<1>. QED BY <1>5, <1>6

(* A step of a session leaves the others' commands alone.                  *)
LEMMA OthersUntouched ==
    ASSUME TreeInv, NEW s \in Sessions, Session(s), NEW t \in Sessions, t # s
    PROVE  op'[t] = op[t] /\ cwd'[t] = cwd[t]
BY DEF TreeInv, Session, BeginStat, BeginList, BeginMkdir, BeginRemoveDir, Begin, Check, Fails,
       Stat, Mkdir, RemoveDirectory, OpenDir, ReadEntry, EndOfDir, CheckLink, ListReturns, Reply, End

(* What a check has found stays true of the link it has found it of.       *)
LEMMA CheckedNext ==
    ASSUME TreeInv, Next, NEW t \in Sessions, CheckedOK(t)
    PROVE  CheckedOK(t)'
<1>. SUFFICES ASSUME NEW q, q = op'[t], q.cmd \in {"STAT", "LIST"}, q.step = "act",
                     NEW p, p = q.remote, p \in Sites, node'[p] = "link", ~relinked'[t]
              PROVE  Inside(Named(p, text'[p]))
    BY DEF CheckedOK, At, LeadsTo
<1>1. q # NoOp
    BY DEF NoOp
<1>2. ~relinked[t] /\ ~LinkPut(p)
    BY <1>1 DEF Next, WatchLink
<1>3. node[p] = "link" /\ text'[p] = text[p]
    BY <1>2 DEF LinkPut
<1>4. CASE op'[t] = op[t]
    BY <1>2, <1>3, <1>4 DEF CheckedOK, At, LeadsTo
<1>5. CASE op'[t] # op[t]
    <2>1. PICK s \in Sessions : Session(s)
        BY <1>5 DEF Next, Others
    <2>2. s = t
        BY <1>5, <2>1, OthersUntouched
    <2>3. Check(t) /\ op[t].remote = p
        BY <2>1, <2>2, OnlyCheckActs
    <2>4. Inside(LeadsTo(p))
        BY <1>3, <2>3, CheckedLink DEF Check, TreeInv
    <2>. QED BY <1>3, <2>4 DEF LeadsTo
<1>. QED BY <1>4, <1>5

(* For every tree, any number of sessions and whatever links others make,  *)
(* move or replace at any time: a CWD or LIST that has passed its check    *)
(* follows a link out of the remote root only if a directory on its path   *)
(* is a link, or if a link was put at the path itself after the check      *)
(* (client.go:79-95, 111-124, 313-353).                                    *)
THEOREM ChecksHold == Spec => []FollowsInside
<1>. DEFINE Checked == \A s \in Sessions : CheckedOK(s)
<1>1. Init => Checked
    BY DEF Init, CheckedOK, At, NoOp
<1>2. TreeInv /\ Checked /\ [Next]_vars => Checked'
    <2>1. ASSUME UNCHANGED vars, Checked PROVE Checked'
        BY <2>1 DEF vars, CheckedOK, At, LeadsTo
    <2>. QED BY <2>1, CheckedNext
<1>3. ASSUME TreeInv, Checked PROVE FollowsInside
    <2>. SUFFICES ASSUME NEW s \in Sessions, NEW p, p = op[s].remote,
                         At(s, "STAT", "act") \/ At(s, "LIST", "act"),
                         p \in Sites, Entry(p) = p, ~relinked[s]
                  PROVE  Inside(Object(p))
        BY DEF FollowsInside
    <2>0. op[s] # NoOp
        BY DEF At, NoOp
    <2>1. CommandOK(op[s]) /\ TreeOK
        BY <1>3, <2>0 DEF TreeInv, SessionOK
    <2>2. WithinRoot(RemoteRoot, p) /\ (node[p] = "link" => Inside(LeadsTo(p)))
        BY <1>3, <2>1 DEF CommandOK, CheckedOK
    <2>3. Len(p.segs) \in Nat
        BY SiteFacts
    <2>4. CASE node[p] = "link" /\ Len(p.segs) > 0
        BY <2>1, <2>2, <2>4, ObjectOfLink DEF Inside
    <2>5. CASE node[p] # "link" \/ Len(p.segs) = 0
        BY <2>2, <2>5, ObjectOfEntry, InsideContinues DEF Inside
    <2>. QED BY <2>3, <2>4, <2>5
<1>. QED BY <1>1, <1>2, <1>3, TreeInvariant, PTL DEF Spec

(* A LIST that succeeds, while any number of others make, move, replace    *)
(* and remove entries of the directory, shows only names that were there,  *)
(* no temporary file and, unless the directory was reached through a link, *)
(* no link that led outside all the time, and it shows all that was there  *)
(* the whole time (client.go:111-139, clientdriver.go:306-319).            *)
THEOREM ListingsFaithful == Spec => []ListingFaithful
<1>1. ASSUME TreeInv PROVE ListingFaithful
    <2>. SUFFICES ASSUME NEW s \in Sessions, At(s, "LIST", "reply")
                  PROVE  /\ op[s].shown \subseteq seen[s].ever \ Marked
                         /\ seen[s].plain \ Marked \subseteq op[s].shown
                         /\ op[s].dir = op[s].remote => op[s].shown \cap seen[s].stray = {}
        BY DEF ListingFaithful
    <2>1. op[s] # NoOp /\ op[s].step = "reply"
        BY DEF At, NoOp
    <2>2. ShownOK(op[s], seen[s])
        BY <1>1, <2>1 DEF TreeInv, SessionOK
    <2>. QED BY <2>1, <2>2 DEF ShownOK
<1>. QED BY <1>1, TreeInvariant, PTL

-----------------------------------------------------------------------------
(***************************************************************************)
(* What the paths of commands mean.                                        *)
(***************************************************************************)

(* The current directory of a session is clean, and so is the directory    *)
(* that a CWD in progress is about to make the current one.                *)
DirsClean ==
    \A s \in Sessions :
        /\ Canonical(cwd[s])
        /\ op[s] # NoOp /\ op[s].cmd = "STAT" => Canonical(op[s].virtual)

(* What the driver makes of an argument: the place that the walk leads to, *)
(* unless it is outside or no server can name it.                          *)
LEMMA DriverPath ==
    ASSUME NEW s \in Sessions, Canonical(cwd[s]), NEW arg \in AllPaths
    PROVE  /\ Canonical(AbsPath(s, arg))
           /\ Positions(AbsPath(s, arg)) = WalkFrom(cwd[s], arg)
           /\ Virtual(s, arg) =
                 IF \/ \E i \in 1..Len(AbsPath(s, arg).segs) : AbsPath(s, arg).segs[i] = "NUL"
                    \/ ~WithinRoot(VirtualRoot, AbsPath(s, arg))
                 THEN Invalid ELSE AbsPath(s, arg)
           /\ AbsPath(s, arg) # Invalid
<1>1. Canonical(AbsPath(s, arg)) /\ Positions(AbsPath(s, arg)) = WalkFrom(cwd[s], arg)
    BY ArgumentMeansWalk DEF AbsPath
<1>. QED BY <1>1, ResolvesItself DEF Virtual

(* A command that begins takes a clean path.                               *)
LEMMA BeginClean ==
    ASSUME TreeInv, DirsClean, NEW s \in Sessions, NEW cmd, NEW arg \in Args, NEW step,
           Begin(s, cmd, arg, step)
    PROVE  Canonical(op'[s].virtual) /\ UNCHANGED cwd
<1>1. arg \in AllPaths /\ Canonical(cwd[s])
    BY TreeAssumption DEF DirsClean
<1>2. Canonical(Virtual(s, arg))
    BY <1>1, DriverPath DEF Begin
<1>3. op'[s].virtual = Virtual(s, arg)
    BY DEF Begin, TreeInv
<1>. QED BY <1>2, <1>3 DEF Begin

(* A step of a session keeps its own directory clean, and the others'.     *)
LEMMA SessionClean ==
    ASSUME TreeInv, DirsClean, NEW s \in Sessions, Session(s), NEW t \in Sessions
    PROVE  /\ Canonical(cwd'[t])
           /\ op'[t] # NoOp /\ op'[t].cmd = "STAT" => Canonical(op'[t].virtual)
<1>0. /\ Canonical(cwd[t])
      /\ op[t] # NoOp /\ op[t].cmd = "STAT" => Canonical(op[t].virtual)
      /\ DOMAIN op = Sessions /\ DOMAIN cwd = Sessions
      /\ op[s] # NoOp => FieldsOK(op[s])
    BY DEF DirsClean, TreeInv, SessionOK, CommandOK
<1>1. CASE t # s
    <2>1. op'[t] = op[t] /\ cwd'[t] = cwd[t]
        BY <1>1 DEF TreeInv, Session, BeginStat, BeginList, BeginMkdir, BeginRemoveDir, Begin,
                    Check, Fails, Stat, Mkdir, RemoveDirectory, OpenDir, ReadEntry, EndOfDir,
                    CheckLink, ListReturns, Reply, End
    <2>. QED BY <1>0, <2>1
<1>2. CASE t = s /\ \E arg \in Args : BeginStat(s, arg) \/ BeginList(s, arg)
                                      \/ BeginMkdir(s, arg) \/ BeginRemoveDir(s, arg)
    <2>1. \E arg \in Args, cmd \in {"STAT", "LIST", "MKD", "RMD"}, step \in {"check", "act"} :
              Begin(s, cmd, arg, step)
        BY <1>2 DEF BeginStat, BeginList, BeginMkdir, BeginRemoveDir
    <2>2. Canonical(op'[s].virtual) /\ UNCHANGED cwd
        BY <2>1, BeginClean
    <2>. QED BY <1>0, <1>2, <2>2
<1>3. CASE t = s /\ Check(s)
    <2>1. op[s] # NoOp /\ op[s].step = "check" /\ UNCHANGED cwd
        BY <1>3 DEF Check
    <2>2. {"cmd", "step", "virtual", "remote"} \subseteq DOMAIN op[s]
        BY <1>0, <2>1 DEF FieldsOK
    <2>3. op'[s] = [op[s] EXCEPT !.step = "act"]
        BY <1>0, <1>3 DEF Check
    <2>4. op'[s].cmd = op[s].cmd /\ op'[s].virtual = op[s].virtual
        BY <2>2, <2>3
    <2>. QED BY <1>0, <1>3, <2>1, <2>4
<1>4. CASE t = s /\ Stat(s)
    <2>1. op'[s] = NoOp /\ (cwd'[s] = op[s].virtual \/ cwd'[s] = cwd[s])
        BY <1>0, <1>4 DEF Stat, End
    <2>2. op[s].cmd = "STAT" /\ op[s] # NoOp
        BY <1>4 DEF Stat, At, NoOp
    <2>. QED BY <1>0, <1>4, <2>1, <2>2
<1>5. CASE t = s /\ (Fails(s) \/ Mkdir(s) \/ RemoveDirectory(s) \/ Reply(s))
    <2>1. op'[s] = NoOp /\ UNCHANGED cwd
        BY <1>0, <1>5 DEF Fails, Mkdir, RemoveDirectory, Reply, End
    <2>. QED BY <1>0, <1>5, <2>1
<1>6. CASE t = s /\ (OpenDir(s) \/ ListReturns(s))
    <2>1. op'[s].cmd = "LIST" /\ UNCHANGED cwd
        BY <1>0, <1>6 DEF OpenDir, ListReturns
    <2>. QED BY <1>0, <1>6, <2>1
<1>7. CASE t = s /\ (ReadEntry(s) \/ EndOfDir(s) \/ CheckLink(s))
    <2>0. At(s, "LIST", "read") \/ At(s, "LIST", "links")
        BY <1>7 DEF ReadEntry, EndOfDir, CheckLink
    <2>1. /\ op[s].cmd = "LIST" /\ op[s].step \in {"read", "links"} /\ op[s] # NoOp
          /\ UNCHANGED cwd
        <3>1. op[s].cmd = "LIST" /\ op[s].step \in {"read", "links"}
            BY <2>0 DEF At
        <3>2. op[s] # NoOp
            BY <3>1 DEF NoOp
        <3>3. UNCHANGED cwd
            BY <1>7 DEF ReadEntry, EndOfDir, CheckLink
        <3>. QED BY <3>1, <3>2, <3>3
    <2>2. {"cmd", "step", "todo", "plain", "links"} \subseteq DOMAIN op[s]
        BY <1>0, <2>1 DEF FieldsOK
    <2>3. op'[s].cmd = "LIST"
        <3>1. CASE ReadEntry(s)
            BY <1>0, <2>1, <2>2, <3>1 DEF ReadEntry
        <3>2. CASE EndOfDir(s)
            BY <1>0, <2>1, <2>2, <3>2 DEF EndOfDir
        <3>3. CASE CheckLink(s)
            BY <1>0, <2>1, <2>2, <3>3 DEF CheckLink
        <3>. QED BY <1>7, <3>1, <3>2, <3>3
    <2>. QED BY <1>0, <1>7, <2>1, <2>3
<1>. QED BY <1>1, <1>2, <1>3, <1>4, <1>5, <1>6, <1>7 DEF Session

(* Current directories stay clean.                                         *)
LEMMA DirsStayClean == Spec => []DirsClean
<1>1. Init => DirsClean
    BY RootsCanonical DEF Init, DirsClean
<1>2. TreeInv /\ DirsClean /\ [Next]_vars => DirsClean'
    <2>. SUFFICES ASSUME TreeInv, DirsClean, [Next]_vars PROVE DirsClean'
        OBVIOUS
    <2>1. CASE UNCHANGED vars
        BY <2>1 DEF vars, DirsClean
    <2>2. ASSUME NEW s \in Sessions, Session(s) PROVE DirsClean'
        BY <2>2, SessionClean DEF DirsClean
    <2>3. ASSUME NEW p \in Sites, Others(p) PROVE DirsClean'
        BY <2>3 DEF Others, DirsClean
    <2>. QED BY <2>1, <2>2, <2>3 DEF Next
<1>. QED BY <1>1, <1>2, TreeInvariant, PTL DEF Spec

(* For every argument and every history of a session, whatever mixture of  *)
(* names, "", "." and ".." it is, the driver acts on the path that walking *)
(* from the current directory leads to, and refuses exactly the arguments  *)
(* that end outside the virtual root or in a name that no server can have  *)
(* (mapper.go:52-76, 133-145).                                             *)
THEOREM PathsMeanWalks == Spec => []PathMeansWalk
<1>1. ASSUME DirsClean PROVE PathMeansWalk
    <2>1. ASSUME NEW s \in Sessions PROVE Canonical(cwd[s]) /\ cwd[s] = Clean(cwd[s])
        BY <1>1, <2>1, CleanKeepsNames DEF DirsClean
    <2>2. ASSUME NEW s \in Sessions, NEW arg \in Probes, NEW walk, walk = WalkFrom(cwd[s], arg)
          PROVE  IF ~(Positions(VirtualRoot) \subseteq walk) \/ \E w \in walk : w[2] = "NUL"
                 THEN Virtual(s, arg) = Invalid
                 ELSE Virtual(s, arg).abs /\ Positions(Virtual(s, arg)) = walk
        <3>0. PICK p : p = AbsPath(s, arg)
            OBVIOUS
        <3>1. arg \in AllPaths
            BY TreeAssumption
        <3>2. /\ Canonical(p) /\ Positions(p) = walk
              /\ Virtual(s, arg) = IF \/ \E i \in 1..Len(p.segs) : p.segs[i] = "NUL"
                                      \/ ~WithinRoot(VirtualRoot, p)
                                   THEN Invalid ELSE p
            BY <2>1, <2>2, <3>0, <3>1, DriverPath
        <3>3. WithinRoot(VirtualRoot, p) <=> Positions(VirtualRoot) \subseteq walk
            BY <3>2, RootsCanonical, WithinRootPositions
        <3>4. p.abs = TRUE /\ DOMAIN p.segs = 1..Len(p.segs)
            BY <3>2, CanonicalFields
        <3>5. (\E i \in 1..Len(p.segs) : p.segs[i] = "NUL") <=> \E w \in walk : w[2] = "NUL"
            <4>1. walk = {<<i, p.segs[i]>> : i \in 1..Len(p.segs)}
                BY <3>2, <3>4 DEF Positions
            <4>2. ASSUME NEW i \in 1..Len(p.segs), p.segs[i] = "NUL"
                  PROVE  \E w \in walk : w[2] = "NUL"
                <5>1. <<i, p.segs[i]>> \in walk /\ <<i, p.segs[i]>>[2] = "NUL"
                    BY <4>1, <4>2
                <5>. QED BY <5>1
            <4>3. ASSUME NEW w \in walk, w[2] = "NUL"
                  PROVE  \E i \in 1..Len(p.segs) : p.segs[i] = "NUL"
                <5>1. PICK i \in 1..Len(p.segs) : w = <<i, p.segs[i]>>
                    BY <4>1, <4>3
                <5>2. w[2] = p.segs[i]
                    BY <5>1
                <5>. QED BY <4>3, <5>2
            <4>. QED BY <4>2, <4>3
        <3>. QED BY <3>2, <3>3, <3>4, <3>5
    <2>. QED BY <2>1, <2>2 DEF PathMeansWalk, Idle
<1>. QED BY <1>1, DirsStayClean, PTL

(* Whatever an argument resolves to has a remote path under the remote     *)
(* root, and ToVirtual, which only the tests call, maps that remote path   *)
(* back to it: no two paths of a client meet in one remote path            *)
(* (mapper.go:80-115).                                                     *)
THEOREM NamesRoundTrip == Spec => []RoundTrip
<1>1. ASSUME DirsClean PROVE RoundTrip
    <2>1. ASSUME NEW s \in Sessions, NEW arg \in Probes, NEW v, v = Virtual(s, arg), v # Invalid
          PROVE  /\ Positions(RemoteRoot) \subseteq Positions(ToRemote(v))
                 /\ ToVirtual(ToRemote(v)) = v
        <3>1. arg \in AllPaths /\ Canonical(cwd[s])
            BY <1>1, TreeAssumption DEF DirsClean
        <3>2. Canonical(v) /\ WithinRoot(VirtualRoot, v)
            BY <2>1, <3>1, DriverPath
        <3>3. /\ Canonical(ToRemote(v)) /\ WithinRoot(RemoteRoot, ToRemote(v))
              /\ ToVirtual(ToRemote(v)) = v
            BY <3>2, MappingRoundTrips
        <3>. QED BY <3>3, RootsCanonical, WithinRootPositions
    <2>. QED BY <2>1 DEF RoundTrip, Idle
<1>. QED BY <1>1, DirsStayClean, PTL

=============================================================================
