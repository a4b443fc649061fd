------------------------------ MODULE PathProofs ------------------------------
(***************************************************************************)
(* What the operators of PathMapper compute, for paths of any length: that *)
(* path.Clean ends where a walk through the tree ends, and that virtual    *)
(* and remote paths determine each other.                                  *)
(***************************************************************************)
EXTENDS PathMapper, Counting, SequenceTheorems, FiniteSetTheorems, TLAPS
LOCAL INSTANCE SequencesExt

-----------------------------------------------------------------------------
(***************************************************************************)
(* The recursion in path.Clean.                                            *)
(***************************************************************************)

(* g is what path.Clean has taken after each of the first k parts.         *)
Taking(p, k, g) ==
    g = [n \in 0..k |-> IF n = 0 THEN <<>> ELSE Take(p.abs, g[n - 1], p.segs[n])]

(* The recursion in Clean defines a function.                              *)
LEMMA TakingExists ==
    ASSUME NEW p
    PROVE  \A k \in Nat : \E g : Taking(p, k, g)
<1> DEFINE S == {k \in Nat : \E g : Taking(p, k, g)}
<1>1. 0 \in S
  <2> DEFINE g == [n \in 0..0 |-> <<>>]
  <2>1. Taking(p, 0, g)
    BY DEF Taking
  <2> QED BY <2>1
<1>2. ASSUME NEW k \in Nat, k \in S PROVE k + 1 \in S
  <2>1. PICK g : Taking(p, k, g)
    BY <1>2
  <2> DEFINE h == [n \in 0..(k + 1) |-> IF n <= k THEN g[n]
                                        ELSE Take(p.abs, g[k], p.segs[k + 1])]
             Body(n) == IF n = 0 THEN <<>> ELSE Take(p.abs, h[n - 1], p.segs[n])
  <2>2. ASSUME NEW n \in 0..(k + 1) PROVE h[n] = Body(n)
    <3>1. CASE n = k + 1
      BY <3>1
    <3>2. CASE n <= k
      <4>1. g[n] = IF n = 0 THEN <<>> ELSE Take(p.abs, g[n - 1], p.segs[n])
        BY <2>1, <3>2 DEF Taking
      <4>2. h[n] = g[n] /\ (n # 0 => h[n - 1] = g[n - 1])
        BY <3>2
      <4> QED BY <4>1, <4>2
    <3> QED BY <3>1, <3>2
  <2>3. h = [n \in 0..(k + 1) |-> Body(n)]
    BY <2>2
  <2>4. Taking(p, k + 1, h)
    BY <2>3 DEF Taking
  <2> QED BY <2>4
<1> HIDE DEF S
<1>3. Nat \subseteq S
  BY <1>1, <1>2, SetInduction
<1> QED BY <1>3 DEF S

(* Clean is the end of that recursion.                                     *)
LEMMA CleanTakes ==
    ASSUME NEW p, p.segs \in Seq(STRING)
    PROVE  \E g : /\ g[0] = <<>>
                  /\ \A n \in 0..(Len(p.segs) - 1) :
                        g[n + 1] = Take(p.abs, g[n], p.segs[n + 1])
                  /\ Clean(p) = Path(p.abs, g[Len(p.segs)])
<1> DEFINE g == CHOOSE f : Taking(p, Len(p.segs), f)
<1>1. Len(p.segs) \in Nat
  OBVIOUS
<1>2. Taking(p, Len(p.segs), g)
  BY <1>1, TakingExists, Zenon
<1>3. g = CHOOSE f : f = [n \in 0..Len(p.segs) |->
                              IF n = 0 THEN <<>> ELSE Take(p.abs, f[n - 1], p.segs[n])]
  BY Zenon DEF Taking
<1>4. Clean(p) = Path(p.abs, g[Len(p.segs)])
  BY <1>3, Zenon DEF Clean
<1> HIDE DEF g
<1>5. g[0] = <<>>
  BY <1>1, <1>2 DEF Taking
<1>6. ASSUME NEW n \in 0..(Len(p.segs) - 1)
      PROVE  g[n + 1] = Take(p.abs, g[n], p.segs[n + 1])
  <2>1. n + 1 \in 0..Len(p.segs) /\ n + 1 # 0 /\ (n + 1) - 1 = n
    BY <1>1
  <2> QED BY <1>2, <2>1 DEF Taking
<1> QED BY <1>4, <1>5, <1>6

-----------------------------------------------------------------------------
(***************************************************************************)
(* Paths of names.                                                         *)
(***************************************************************************)

AllNames(segs) == segs \in Seq(STRING) /\ \A i \in 1..Len(segs) : IsName(segs[i])

(* An absolute path without "", "." and "..".                              *)
Canonical(p) == p = Path(TRUE, p.segs) /\ AllNames(p.segs)

(* Clean leaves a path of names as it is.                                  *)
LEMMA CleanKeepsNames ==
    ASSUME NEW p, Canonical(p)
    PROVE  Clean(p) = p
<1> DEFINE segs == p.segs
           len == Len(segs)
<1>1. segs \in Seq(STRING) /\ len \in Nat /\ p.abs = TRUE
  BY DEF Canonical, AllNames, Path
<1>2. PICK g : /\ g[0] = <<>>
               /\ \A n \in 0..(len - 1) : g[n + 1] = Take(TRUE, g[n], segs[n + 1])
               /\ Clean(p) = Path(TRUE, g[len])
  BY <1>1, CleanTakes
<1> DEFINE S == {n \in Nat : n <= len => g[n] = SubSeq(segs, 1, n)}
<1>3. 0 \in S
  <2>1. SubSeq(segs, 1, 0) = <<>>
    BY SubSeqEmpty
  <2> QED BY <1>2, <2>1
<1>4. ASSUME NEW n \in Nat, n \in S PROVE n + 1 \in S
  <2> SUFFICES ASSUME n + 1 <= len PROVE g[n + 1] = SubSeq(segs, 1, n + 1)
    OBVIOUS
  <2>1. g[n] = SubSeq(segs, 1, n) /\ n \in 0..(len - 1)
    BY <1>1, <1>4
  <2>2. IsName(segs[n + 1]) /\ segs[n + 1] \in STRING
    BY <1>1, <2>1 DEF Canonical, AllNames
  <2>3. g[n + 1] = Append(SubSeq(segs, 1, n), segs[n + 1])
    BY <1>2, <2>1, <2>2 DEF Take, IsName
  <2>4. SubSeq(segs, 1, n + 1) = Append(SubSeq(segs, 1, n), segs[n + 1])
    BY <1>1, <2>1
  <2> QED BY <2>3, <2>4
<1> HIDE DEF S
<1>5. len \in S
  BY <1>1, <1>3, <1>4, SetInduction
<1>6. g[len] = SubSeq(segs, 1, len) /\ SubSeq(segs, 1, len) = segs
  BY <1>1, <1>5 DEF S
<1> QED BY <1>2, <1>6 DEF Canonical

-----------------------------------------------------------------------------
(***************************************************************************)
(* Clean and the walk.                                                     *)
(***************************************************************************)

(* How one more part changes the numbers of names and of "..".             *)
LEMMA CountsGrow ==
    ASSUME NEW segs, NEW i \in Nat, NEW n \in Nat, i <= n + 1
    PROVE  /\ NamesIn(segs, i, n) \in Nat /\ UpsIn(segs, i, n) \in Nat
           /\ NamesIn(segs, i, n + 1)
                  = NamesIn(segs, i, n) + (IF IsName(segs[n + 1]) THEN 1 ELSE 0)
           /\ UpsIn(segs, i, n + 1)
                  = UpsIn(segs, i, n) + (IF segs[n + 1] = ".." THEN 1 ELSE 0)
<1> DEFINE N == {k \in Nat : IsName(segs[k])}
           U == {k \in Nat : segs[k] = ".."}
<1>1. \A m \in Nat : /\ {k \in i..m : IsName(segs[k])} = {k \in i..m : k \in N}
                     /\ {k \in i..m : segs[k] = ".."} = {k \in i..m : k \in U}
  OBVIOUS
<1>2. /\ n + 1 \in N <=> IsName(segs[n + 1])
      /\ n + 1 \in U <=> segs[n + 1] = ".."
  OBVIOUS
<1>3. \A m \in Nat : /\ NamesIn(segs, i, m) = Cardinality({k \in i..m : k \in N})
                     /\ UpsIn(segs, i, m) = Cardinality({k \in i..m : k \in U})
  BY <1>1 DEF NamesIn, UpsIn
<1> HIDE DEF N, U
<1>4. /\ Cardinality({k \in i..n : k \in N}) \in Nat
      /\ Cardinality({k \in i..(n + 1) : k \in N})
             = Cardinality({k \in i..n : k \in N}) + (IF n + 1 \in N THEN 1 ELSE 0)
  BY CountGrows
<1>5. /\ Cardinality({k \in i..n : k \in U}) \in Nat
      /\ Cardinality({k \in i..(n + 1) : k \in U})
             = Cardinality({k \in i..n : k \in U}) + (IF n + 1 \in U THEN 1 ELSE 0)
  BY CountGrows
<1>6. n + 1 \in Nat
  OBVIOUS
<1> QED BY <1>2, <1>3, <1>4, <1>5, <1>6

(* The walk along the first n parts has not left the name at i.            *)
StaysUpto(segs, i, n) ==
    /\ IsName(segs[i])
    /\ \A j \in (i + 1)..n : UpsIn(segs, i + 1, j) <= NamesIn(segs, i + 1, j)

(* How far the walk is, after n parts, below the name at i.                *)
Below(segs, i, n) == NamesIn(segs, i + 1, n) - UpsIn(segs, i + 1, n)

(* After n parts Clean has taken the names at the positions at, which are  *)
(* the ones that the walk has not left, in their order.                    *)
Stack(segs, n, done, at) ==
    /\ done \in Seq(STRING) /\ at \in Seq(1..n) /\ Len(at) = Len(done)
    /\ \A m \in 1..Len(at) : done[m] = segs[at[m]] /\ Below(segs, at[m], n) = Len(at) - m
    /\ \A l, m \in 1..Len(at) : l < m => at[l] < at[m]
    /\ \A i \in 1..n : StaysUpto(segs, i, n) <=> \E m \in 1..Len(at) : at[m] = i

(* The next part.                                                          *)
LEMMA BelowNext ==
    ASSUME NEW segs, NEW n \in Nat, NEW i \in 1..n
    PROVE  /\ Below(segs, i, n) \in Int
           /\ Below(segs, i, n + 1) = Below(segs, i, n) + (IF IsName(segs[n + 1]) THEN 1 ELSE 0)
                                                        - (IF segs[n + 1] = ".." THEN 1 ELSE 0)
           /\ StaysUpto(segs, i, n + 1) <=> StaysUpto(segs, i, n) /\ Below(segs, i, n + 1) >= 0
<1>1. i + 1 \in Nat /\ i + 1 <= n + 1 /\ i + 1 <= (n + 1) + 1 /\ n + 1 \in Nat
  OBVIOUS
<1>2. /\ NamesIn(segs, i + 1, n) \in Nat /\ UpsIn(segs, i + 1, n) \in Nat
      /\ NamesIn(segs, i + 1, n + 1) \in Nat /\ UpsIn(segs, i + 1, n + 1) \in Nat
      /\ NamesIn(segs, i + 1, n + 1)
             = NamesIn(segs, i + 1, n) + (IF IsName(segs[n + 1]) THEN 1 ELSE 0)
      /\ UpsIn(segs, i + 1, n + 1)
             = UpsIn(segs, i + 1, n) + (IF segs[n + 1] = ".." THEN 1 ELSE 0)
  BY <1>1, CountsGrow
<1>3. (i + 1)..(n + 1) = ((i + 1)..n) \cup {n + 1}
  OBVIOUS
<1>4. Below(segs, i, n + 1) >= 0 <=> UpsIn(segs, i + 1, n + 1) <= NamesIn(segs, i + 1, n + 1)
  BY <1>2 DEF Below
<1>5. StaysUpto(segs, i, n + 1) <=> StaysUpto(segs, i, n) /\ Below(segs, i, n + 1) >= 0
  BY <1>3, <1>4 DEF StaysUpto
<1> QED BY <1>2, <1>5 DEF Below


(* The walk has no names below its end.                                    *)
LEMMA BelowItself ==
    ASSUME NEW segs, NEW n \in Nat, IsName(segs[n])
    PROVE  Below(segs, n, n) = 0 /\ StaysUpto(segs, n, n)
<1>1. (n + 1)..n = {}
  OBVIOUS
<1>2. NamesIn(segs, n + 1, n) = 0 /\ UpsIn(segs, n + 1, n) = 0
  BY <1>1, FS_EmptySet DEF NamesIn, UpsIn
<1> QED BY <1>1, <1>2 DEF Below, StaysUpto

(* "" and "." change nothing.                                              *)
LEMMA StackSkips ==
    ASSUME NEW segs, NEW n \in Nat, NEW done, NEW at, Stack(segs, n, done, at),
           ~IsName(segs[n + 1]), segs[n + 1] # ".."
    PROVE  Stack(segs, n + 1, done, at)
<1>2. /\ done \in Seq(STRING) /\ at \in Seq(1..n) /\ Len(at) = Len(done) /\ Len(at) \in Nat
      /\ \A m \in 1..Len(at) : at[m] \in 1..n
  BY DEF Stack
<1>3. at \in Seq(1..(n + 1))
  BY <1>2, SeqMonotonic
<1>4. \A i \in 1..n : /\ Below(segs, i, n + 1) = Below(segs, i, n)
                      /\ StaysUpto(segs, i, n + 1) <=>
                            StaysUpto(segs, i, n) /\ Below(segs, i, n) >= 0
  BY BelowNext
<1>5. \A m \in 1..Len(at) : Below(segs, at[m], n + 1) = Len(at) - m
  BY <1>2, <1>4 DEF Stack
<1>6. ASSUME NEW i \in 1..(n + 1)
      PROVE  StaysUpto(segs, i, n + 1) <=> \E m \in 1..Len(at) : at[m] = i
  <2>1. CASE i = n + 1
    BY <1>2, <2>1 DEF StaysUpto
  <2>2. CASE i \in 1..n
    BY <1>2, <1>4, <2>2 DEF Stack
  <2> QED BY <2>1, <2>2
<1> QED BY <1>2, <1>3, <1>5, <1>6 DEF Stack

(* A name is taken.                                                        *)
LEMMA StackGrows ==
    ASSUME NEW segs, NEW n \in Nat, NEW done, NEW at, Stack(segs, n, done, at),
           IsName(segs[n + 1]), segs[n + 1] \in STRING
    PROVE  Stack(segs, n + 1, Append(done, segs[n + 1]), Append(at, n + 1))
<1> DEFINE more == Append(at, n + 1)
           next == Append(done, segs[n + 1])
<1>1. segs[n + 1] # ".."
  BY DEF IsName
<1>2. /\ done \in Seq(STRING) /\ at \in Seq(1..n) /\ Len(at) = Len(done) /\ Len(at) \in Nat
      /\ \A m \in 1..Len(at) : at[m] \in 1..n
  BY DEF Stack
<1>3. at \in Seq(1..(n + 1))
  BY <1>2, SeqMonotonic
<1>4. /\ more \in Seq(1..(n + 1)) /\ Len(more) = Len(at) + 1
      /\ \A m \in 1..Len(at) : more[m] = at[m]
      /\ more[Len(at) + 1] = n + 1
  BY <1>2, <1>3, AppendProperties
<1>5. /\ next \in Seq(STRING) /\ Len(next) = Len(done) + 1
      /\ \A m \in 1..Len(done) : next[m] = done[m]
      /\ next[Len(done) + 1] = segs[n + 1]
  BY <1>2, AppendProperties
<1> HIDE DEF more, next
<1>6. \A i \in 1..n : /\ Below(segs, i, n) \in Int
                      /\ Below(segs, i, n + 1) = Below(segs, i, n) + 1
                      /\ StaysUpto(segs, i, n + 1) <=>
                            StaysUpto(segs, i, n) /\ Below(segs, i, n) + 1 >= 0
  BY <1>1, BelowNext
<1>7. Below(segs, n + 1, n + 1) = 0 /\ StaysUpto(segs, n + 1, n + 1)
  BY BelowItself
<1>8. ASSUME NEW m \in 1..Len(more)
      PROVE  next[m] = segs[more[m]] /\ Below(segs, more[m], n + 1) = Len(more) - m
  <2>1. CASE m = Len(at) + 1
    BY <1>2, <1>4, <1>5, <1>7, <2>1
  <2>2. CASE m \in 1..Len(at)
    <3>1. at[m] \in 1..n /\ done[m] = segs[at[m]] /\ Below(segs, at[m], n) = Len(at) - m
      BY <2>2, <1>2 DEF Stack
    <3>2. Below(segs, at[m], n + 1) = Len(at) - m + 1
      BY <1>6, <3>1
    <3> QED BY <1>2, <1>4, <1>5, <2>2, <3>1, <3>2
  <2> QED BY <1>2, <1>4, <2>1, <2>2
<1>9. ASSUME NEW l \in 1..Len(more), NEW m \in 1..Len(more), l < m
      PROVE  more[l] < more[m]
  <2>1. l \in 1..Len(at) /\ more[l] = at[l] /\ at[l] \in 1..n
    BY <1>2, <1>4, <1>9
  <2>2. CASE m = Len(at) + 1
    BY <1>4, <2>1, <2>2
  <2>3. CASE m \in 1..Len(at)
    BY <1>4, <1>9, <2>1, <2>3 DEF Stack
  <2> QED BY <1>2, <1>4, <2>2, <2>3
<1>10. ASSUME NEW i \in 1..(n + 1)
       PROVE  StaysUpto(segs, i, n + 1) <=> \E m \in 1..Len(more) : more[m] = i
  <2>1. CASE i = n + 1
    BY <1>2, <1>4, <1>7, <2>1
  <2>2. CASE i \in 1..n
    <3>1. StaysUpto(segs, i, n) <=> \E m \in 1..Len(at) : at[m] = i
      BY <2>2 DEF Stack
    <3>2. (\E m \in 1..Len(more) : more[m] = i) <=> \E m \in 1..Len(at) : at[m] = i
      <4>1. ASSUME NEW m \in 1..Len(more), more[m] = i PROVE m \in 1..Len(at) /\ at[m] = i
        BY <1>2, <1>4, <2>2, <4>1
      <4>2. ASSUME NEW m \in 1..Len(at) PROVE m \in 1..Len(more) /\ more[m] = at[m]
        BY <1>2, <1>4
      <4> QED BY <4>1, <4>2
    <3>3. (\E m \in 1..Len(at) : at[m] = i) => Below(segs, i, n) >= 0
      BY <1>2 DEF Stack
    <3> QED BY <1>6, <2>2, <3>1, <3>2, <3>3
  <2> QED BY <2>1, <2>2
<1> QED BY <1>2, <1>4, <1>5, <1>8, <1>9, <1>10 DEF Stack, more, next


(* ".." at the top changes nothing.                                        *)
LEMMA StackStaysEmpty ==
    ASSUME NEW segs, NEW n \in Nat, NEW at, Stack(segs, n, <<>>, at),
           ~IsName(segs[n + 1])
    PROVE  Stack(segs, n + 1, <<>>, at)
<1>1. /\ <<>> \in Seq(STRING) /\ at \in Seq(1..n) /\ Len(at) = 0
      /\ \A i \in 1..n : ~StaysUpto(segs, i, n)
  BY DEF Stack
<1>2. at \in Seq(1..(n + 1))
  BY <1>1, SeqMonotonic
<1>3. \A i \in 1..(n + 1) : ~StaysUpto(segs, i, n + 1)
  <2>1. \A i \in 1..n : ~StaysUpto(segs, i, n + 1)
    BY <1>1, BelowNext
  <2>2. ~StaysUpto(segs, n + 1, n + 1)
    BY DEF StaysUpto
  <2> QED BY <2>1, <2>2
<1> QED BY <1>1, <1>2, <1>3 DEF Stack

(* ".." takes back the last name.                                          *)
LEMMA StackShrinks ==
    ASSUME NEW segs, NEW n \in Nat, NEW done, NEW at, Stack(segs, n, done, at),
           done # <<>>, ~IsName(segs[n + 1]), segs[n + 1] = ".."
    PROVE  Stack(segs, n + 1, SubSeq(done, 1, Len(done) - 1), SubSeq(at, 1, Len(at) - 1))
<1> DEFINE fewer == SubSeq(at, 1, Len(at) - 1)
           next == SubSeq(done, 1, Len(done) - 1)
<1>1. /\ done \in Seq(STRING) /\ at \in Seq(1..n) /\ Len(at) = Len(done)
      /\ Len(at) \in Nat /\ Len(at) > 0
      /\ \A m \in 1..Len(at) : at[m] \in 1..n
  BY DEF Stack
<1>2. at \in Seq(1..(n + 1))
  BY <1>1, SeqMonotonic
<1>3. /\ fewer \in Seq(1..(n + 1)) /\ Len(fewer) = Len(at) - 1
      /\ \A m \in 1..Len(fewer) : fewer[m] = at[m]
  BY <1>1, <1>2
<1>4. /\ next \in Seq(STRING) /\ Len(next) = Len(done) - 1
      /\ \A m \in 1..Len(next) : next[m] = done[m]
  BY <1>1
<1> HIDE DEF fewer, next
<1>5. \A i \in 1..n : /\ Below(segs, i, n) \in Int
                      /\ Below(segs, i, n + 1) = Below(segs, i, n) - 1
                      /\ StaysUpto(segs, i, n + 1) <=>
                            StaysUpto(segs, i, n) /\ Below(segs, i, n) - 1 >= 0
  <2> TAKE i \in 1..n
  <2>1. /\ Below(segs, i, n) \in Int
        /\ Below(segs, i, n + 1) = Below(segs, i, n) + 0 - 1
        /\ StaysUpto(segs, i, n + 1) <=> StaysUpto(segs, i, n) /\ Below(segs, i, n + 1) >= 0
    BY BelowNext
  <2> QED BY <2>1
<1>6. ASSUME NEW m \in 1..Len(fewer)
      PROVE  next[m] = segs[fewer[m]] /\ Below(segs, fewer[m], n + 1) = Len(fewer) - m
  <2>1. /\ m \in 1..Len(at) /\ fewer[m] = at[m] /\ next[m] = done[m]
        /\ at[m] \in 1..n
    BY <1>1, <1>3, <1>4
  <2>2. done[m] = segs[at[m]] /\ Below(segs, at[m], n) = Len(at) - m
    BY <2>1 DEF Stack
  <2>3. Below(segs, at[m], n + 1) = Len(at) - m - 1
    BY <1>5, <2>1, <2>2
  <2> QED BY <1>1, <1>3, <2>1, <2>2, <2>3
<1>7. ASSUME NEW l \in 1..Len(fewer), NEW m \in 1..Len(fewer), l < m
      PROVE  fewer[l] < fewer[m]
  <2>1. l \in 1..Len(at) /\ m \in 1..Len(at)
    BY <1>1, <1>3
  <2> QED BY <1>3, <1>7, <2>1 DEF Stack
<1>8. ASSUME NEW i \in 1..(n + 1)
      PROVE  StaysUpto(segs, i, n + 1) <=> \E m \in 1..Len(fewer) : fewer[m] = i
  <2>1. CASE i = n + 1
    <3>1. ~StaysUpto(segs, i, n + 1)
      BY <2>1 DEF StaysUpto
    <3>2. \A m \in 1..Len(fewer) : fewer[m] # i
      BY <1>1, <1>3, <2>1
    <3> QED BY <3>1, <3>2
  <2>2. CASE i \in 1..n
    <3>1. StaysUpto(segs, i, n) <=> \E m \in 1..Len(at) : at[m] = i
      BY <2>2 DEF Stack
    <3>2. ASSUME NEW m \in 1..Len(fewer), fewer[m] = i PROVE StaysUpto(segs, i, n + 1)
      <4>1. m \in 1..Len(at) /\ at[m] = i /\ Len(at) - m >= 1
        BY <1>1, <1>3, <3>2
      <4>2. Below(segs, i, n) = Len(at) - m
        BY <4>1 DEF Stack
      <4> QED BY <1>5, <2>2, <3>1, <4>1, <4>2
    <3>3. ASSUME StaysUpto(segs, i, n + 1) PROVE \E m \in 1..Len(fewer) : fewer[m] = i
      <4>1. StaysUpto(segs, i, n) /\ Below(segs, i, n) - 1 >= 0
        BY <1>5, <2>2, <3>3
      <4>2. PICK m \in 1..Len(at) : at[m] = i
        BY <3>1, <4>1
      <4>3. Below(segs, i, n) = Len(at) - m
        BY <4>2 DEF Stack
      <4>4. m \in 1..Len(fewer)
        BY <1>1, <1>3, <4>1, <4>3
      <4> QED BY <1>3, <4>2, <4>4
    <3> QED BY <3>2, <3>3
  <2> QED BY <2>1, <2>2
<1>9. Len(fewer) = Len(next)
  BY <1>1, <1>3, <1>4
<1> QED BY <1>3, <1>4, <1>6, <1>7, <1>8, <1>9 DEF Stack, fewer, next

(* Clean takes exactly the names that the walk does not leave.             *)
LEMMA CleanStack ==
    ASSUME NEW segs \in Seq(STRING)
    PROVE  \E at : Stack(segs, Len(segs), Clean(Path(TRUE, segs)).segs, at)
<1> DEFINE len == Len(segs)
<1>1. Path(TRUE, segs).segs = segs /\ Path(TRUE, segs).abs = TRUE /\ len \in Nat
  BY DEF Path
<1>2. PICK g : /\ g[0] = <<>>
               /\ \A n \in 0..(len - 1) : g[n + 1] = Take(TRUE, g[n], segs[n + 1])
               /\ Clean(Path(TRUE, segs)) = Path(TRUE, g[len])
  <2>1. \E g : /\ g[0] = <<>>
               /\ \A n \in 0..(Len(Path(TRUE, segs).segs) - 1) :
                     g[n + 1] = Take(Path(TRUE, segs).abs, g[n], Path(TRUE, segs).segs[n + 1])
               /\ Clean(Path(TRUE, segs)) = Path(Path(TRUE, segs).abs, g[Len(Path(TRUE, segs).segs)])
    BY <1>1, CleanTakes
  <2> QED BY <1>1, <2>1
<1> DEFINE S == {n \in Nat : n <= len => \E at : Stack(segs, n, g[n], at)}
<1>3. 0 \in S
  <2>1. <<>> \in Seq(STRING) /\ <<>> \in Seq(1..0) /\ Len(<<>>) = 0 /\ 1..0 = {}
    OBVIOUS
  <2>2. Stack(segs, 0, <<>>, <<>>)
    BY <2>1 DEF Stack
  <2> QED BY <1>2, <2>2
<1>4. ASSUME NEW n \in Nat, n \in S PROVE n + 1 \in S
  <2> SUFFICES ASSUME n + 1 <= len PROVE \E at : Stack(segs, n + 1, g[n + 1], at)
    OBVIOUS
  <2>1. n \in 0..(len - 1) /\ n + 1 \in 1..len
    BY <1>1
  <2>2. PICK at : Stack(segs, n, g[n], at)
    BY <1>1, <1>4
  <2>3. segs[n + 1] \in STRING
    BY <2>1
  <2>4. g[n + 1] = Take(TRUE, g[n], segs[n + 1])
    BY <1>2, <2>1
  <2>5. CASE IsName(segs[n + 1])
    <3>1. g[n + 1] = Append(g[n], segs[n + 1])
      BY <2>4, <2>5 DEF Take, IsName
    <3> QED BY <2>2, <2>3, <2>5, <3>1, StackGrows
  <2>6. CASE ~IsName(segs[n + 1]) /\ segs[n + 1] # ".."
    <3>1. g[n + 1] = g[n]
      BY <2>4, <2>6 DEF Take, IsName
    <3> QED BY <2>2, <2>6, <3>1, StackSkips
  <2>7. CASE segs[n + 1] = ".." /\ g[n] = <<>>
    <3>1. ~IsName(segs[n + 1])
      BY <2>7 DEF IsName
    <3>2. g[n + 1] = <<>>
      BY <2>4, <2>7 DEF Take
    <3> QED BY <2>2, <2>7, <3>1, <3>2, StackStaysEmpty
  <2>8. CASE segs[n + 1] = ".." /\ g[n] # <<>>
    <3>1. ~IsName(segs[n + 1])
      BY <2>8 DEF IsName
    <3>2. g[n + 1] = SubSeq(g[n], 1, Len(g[n]) - 1)
      BY <2>4, <2>8 DEF Take, Front
    <3> QED BY <2>2, <2>8, <3>1, <3>2, StackShrinks
  <2> QED BY <2>5, <2>6, <2>7, <2>8
<1> HIDE DEF S
<1>5. len \in S
  BY <1>1, <1>3, <1>4, SetInduction
<1>6. Clean(Path(TRUE, segs)).segs = g[len]
  BY <1>2 DEF Path
<1>7. \E at : Stack(segs, len, g[len], at)
  BY <1>1, <1>5 DEF S
<1> QED BY <1>6, <1>7


(* What Clean returns for an absolute path has only names.                 *)
LEMMA CleanIsCanonical ==
    ASSUME NEW segs \in Seq(STRING)
    PROVE  Canonical(Clean(Path(TRUE, segs)))
<1> DEFINE c == Clean(Path(TRUE, segs))
<1>1. PICK at : Stack(segs, Len(segs), c.segs, at)
  BY CleanStack
<1>2. c = Path(TRUE, c.segs)
  BY DEF Clean, Path
<1> HIDE DEF c
<1>3. c.segs \in Seq(STRING) /\ at \in Seq(1..Len(segs)) /\ Len(at) = Len(c.segs)
  BY <1>1 DEF Stack
<1>4. ASSUME NEW m \in 1..Len(c.segs) PROVE IsName(c.segs[m])
  <2>1. m \in 1..Len(at) /\ at[m] \in 1..Len(segs)
    BY <1>3
  <2>2. c.segs[m] = segs[at[m]]
    BY <1>1, <2>1 DEF Stack
  <2>3. StaysUpto(segs, at[m], Len(segs))
    BY <1>1, <2>1 DEF Stack
  <2> QED BY <2>2, <2>3 DEF StaysUpto
<1> QED BY <1>2, <1>3, <1>4 DEF Canonical, AllNames, c

(* path.Clean of an absolute path of any length ends where a walk through  *)
(* the tree from its top ends (path.Clean, as used by mapper.go:52-145).   *)
THEOREM CleanMeansWalk ==
    \A segs \in Seq(STRING) :
        Positions(Clean(Path(TRUE, segs))) = WalkFrom(Slash, Path(TRUE, segs))
<1> TAKE segs \in Seq(STRING)
<1> DEFINE c == Clean(Path(TRUE, segs))
           n == Len(segs)
           kept == {i \in DOMAIN segs : Stays(segs, i)}
           Place(i) == Cardinality({j \in kept : j <= i})
<1>1. n \in Nat /\ DOMAIN segs = 1..n
  OBVIOUS
<1>2. PICK at : Stack(segs, n, c.segs, at)
  BY CleanStack
<1> HIDE DEF c
<1>3. /\ c.segs \in Seq(STRING) /\ at \in Seq(1..n) /\ Len(at) = Len(c.segs)
      /\ \A k, l \in 1..Len(at) : k < l => at[k] < at[l]
      /\ \A m \in 1..Len(at) : c.segs[m] = segs[at[m]] /\ at[m] \in 1..n
      /\ DOMAIN c.segs = 1..Len(at)
  BY <1>2 DEF Stack
<1>4. kept = {i \in 1..n : \E l \in 1..Len(at) : at[l] = i}
  <2>1. \A i \in 1..n : Stays(segs, i) <=> StaysUpto(segs, i, n)
    BY DEF Stays, StaysUpto
  <2> QED BY <1>1, <1>2, <2>1 DEF Stack
<1>5. ASSUME NEW m \in 1..Len(at) PROVE Place(at[m]) = m
  <2>1. {j \in kept : j <= at[m]} = {i \in 1..n : (\E l \in 1..Len(at) : at[l] = i) /\ i <= at[m]}
    BY <1>4
  <2>2. Cardinality({i \in 1..n : (\E l \in 1..Len(at) : at[l] = i) /\ i <= at[m]}) = m
    BY <1>1, <1>3, IncreasingCounts
  <2> QED BY <2>1, <2>2
<1>6. WalkFrom(Slash, Path(TRUE, segs)) = {<<Place(i), segs[i]>> : i \in kept}
  BY DEF WalkFrom, Path
<1>7. Positions(c) = {<<m, c.segs[m]>> : m \in 1..Len(at)}
  BY <1>3 DEF Positions
<1> HIDE DEF kept, Place
<1>8. \A m \in 1..Len(at) : /\ at[m] \in kept /\ Place(at[m]) = m
                            /\ c.segs[m] = segs[at[m]]
  BY <1>3, <1>4, <1>5
<1>9. \A i \in kept : \E m \in 1..Len(at) : at[m] = i
  BY <1>4
<1>10. {<<m, c.segs[m]>> : m \in 1..Len(at)} = {<<Place(i), segs[i]>> : i \in kept}
  BY <1>8, <1>9
<1> QED BY <1>6, <1>7, <1>10 DEF c


-----------------------------------------------------------------------------
(***************************************************************************)
(* Roots, and what lies within them.                                       *)
(***************************************************************************)

(* cleanRoot makes a root canonical.                                       *)
LEMMA RootsCanonical == Canonical(VirtualRoot) /\ Canonical(RemoteRoot)
<1>1. VirtualRootConfig.segs \in Seq(STRING) /\ RootPathConfig.segs \in Seq(STRING)
  BY RootsAssumption DEF AllPaths
<1> QED BY <1>1, CleanIsCanonical DEF VirtualRoot, RemoteRoot, Rooted

(* A canonical path is an absolute one of names.                           *)
LEMMA CanonicalFields ==
    ASSUME NEW p, Canonical(p)
    PROVE  /\ p = Path(TRUE, p.segs) /\ p.abs = TRUE /\ p.segs \in Seq(STRING)
           /\ Len(p.segs) \in Nat /\ DOMAIN p.segs = 1..Len(p.segs)
           /\ \A i \in 1..Len(p.segs) : p.segs[i] \in STRING /\ IsName(p.segs[i])
<1>1. p = Path(TRUE, p.segs) /\ p.segs \in Seq(STRING) /\ \A i \in 1..Len(p.segs) : IsName(p.segs[i])
  BY DEF Canonical, AllNames
<1>2. p.abs = TRUE
  BY <1>1 DEF Path
<1>3. \A s \in Seq(STRING) : Len(s) \in Nat /\ DOMAIN s = 1..Len(s)
  OBVIOUS
<1>4. \A s \in Seq(STRING) : \A i \in 1..Len(s) : s[i] \in STRING
  OBVIOUS
<1>5. Len(p.segs) \in Nat /\ DOMAIN p.segs = 1..Len(p.segs)
  BY <1>1, <1>3
<1>6. \A i \in 1..Len(p.segs) : p.segs[i] \in STRING
  BY <1>1, <1>4
<1> QED BY <1>1, <1>2, <1>5, <1>6

(* To lie within a root is to begin with its names.                        *)
LEMMA WithinRootBegins ==
    ASSUME NEW root, Canonical(root), NEW p, Canonical(p)
    PROVE  WithinRoot(root, p) <=> /\ Len(root.segs) <= Len(p.segs)
                                   /\ \A i \in 1..Len(root.segs) : root.segs[i] = p.segs[i]
<1> DEFINE r == root.segs
           s == p.segs
<1>1. /\ root = Path(TRUE, r) /\ root.abs = TRUE /\ r \in Seq(STRING) /\ Len(r) \in Nat
      /\ p = Path(TRUE, s) /\ p.abs = TRUE /\ s \in Seq(STRING) /\ Len(s) \in Nat
  BY CanonicalFields
<1>2. root = Slash <=> r = <<>>
  BY <1>1 DEF Slash, Path
<1>3. p = root <=> s = r
  BY <1>1
<1> HIDE DEF r, s
<1>4. SubSeq(r, 1, Len(r)) = r
  BY <1>1
<1>5. ASSUME Len(r) <= Len(s)
      PROVE  SubSeq(s, 1, Len(r)) = r <=> \A i \in 1..Len(r) : r[i] = s[i]
  <2>1. /\ SubSeq(s, 1, Len(r)) \in Seq(STRING) /\ Len(SubSeq(s, 1, Len(r))) = Len(r)
        /\ \A i \in 1..Len(r) : SubSeq(s, 1, Len(r))[i] = s[i]
    BY <1>1, <1>5
  <2>2. (\A i \in 1..Len(r) : r[i] = s[i]) => SubSeq(s, 1, Len(r)) = r
    BY <1>1, <2>1, SeqEqual
  <2> QED BY <2>1, <2>2
<1>6. IsStrictPrefix(r, s) <=> Len(r) <= Len(s) /\ r = SubSeq(s, 1, Len(r)) /\ r # s
  BY <1>4 DEF IsStrictPrefix, IsPrefix
<1>7. WithinRoot(root, p) <=> Len(r) <= Len(s) /\ SubSeq(s, 1, Len(r)) = r
  <2>1. WithinRoot(root, p) <=> r = <<>> \/ s = r \/ IsStrictPrefix(r, s)
    BY <1>1, <1>2, <1>3, <1>6 DEF WithinRoot, r, s
  <2>2. r = <<>> => Len(r) <= Len(s) /\ SubSeq(s, 1, Len(r)) = r
    BY <1>1
  <2>3. s = r => Len(r) <= Len(s) /\ SubSeq(s, 1, Len(r)) = r
    BY <1>1, <1>4
  <2> QED BY <1>6, <2>1, <2>2, <2>3
<1> QED BY <1>5, <1>7 DEF r, s

(* In terms of the reference: the walk begins with the root's names.       *)
LEMMA WithinRootPositions ==
    ASSUME NEW root, Canonical(root), NEW p, Canonical(p)
    PROVE  WithinRoot(root, p) <=> Positions(root) \subseteq Positions(p)
<1> DEFINE r == root.segs
           s == p.segs
<1>1. /\ Len(r) \in Nat /\ DOMAIN r = 1..Len(r)
      /\ Len(s) \in Nat /\ DOMAIN s = 1..Len(s)
  BY CanonicalFields
<1>2. WithinRoot(root, p) <=> Len(r) <= Len(s) /\ \A i \in 1..Len(r) : r[i] = s[i]
  BY WithinRootBegins
<1>3. /\ Positions(root) = {<<i, r[i]>> : i \in 1..Len(r)}
      /\ Positions(p) = {<<i, s[i]>> : i \in 1..Len(s)}
  BY <1>1 DEF Positions
<1> HIDE DEF r, s
<1>4. ASSUME Positions(root) \subseteq Positions(p), NEW i \in 1..Len(r)
      PROVE  i \in 1..Len(s) /\ r[i] = s[i]
  <2>1. <<i, r[i]>> \in Positions(p)
    BY <1>3, <1>4
  <2>2. PICK j \in 1..Len(s) : <<i, r[i]>> = <<j, s[j]>>
    BY <1>3, <2>1
  <2> QED BY <2>2
<1>5. ASSUME Positions(root) \subseteq Positions(p) PROVE Len(r) <= Len(s)
  <2>1. CASE Len(r) = 0
    BY <1>1, <2>1
  <2>2. CASE Len(r) # 0
    BY <1>1, <1>4, <1>5, <2>2
  <2> QED BY <2>1, <2>2
<1>6. ASSUME Len(r) <= Len(s), \A i \in 1..Len(r) : r[i] = s[i]
      PROVE  Positions(root) \subseteq Positions(p)
  BY <1>1, <1>3, <1>6
<1> QED BY <1>2, <1>4, <1>5, <1>6

(* One sequence of names after another.                                    *)
LEMMA ConcatFacts ==
    ASSUME NEW b \in Seq(STRING), NEW t \in Seq(STRING)
    PROVE  /\ b \o t \in Seq(STRING) /\ Len(b \o t) = Len(b) + Len(t)
           /\ \A i \in 1..Len(b) : (b \o t)[i] = b[i]
           /\ \A i \in 1..Len(t) : (b \o t)[Len(b) + i] = t[i]
<1>1. b \o t \in Seq(STRING) /\ Len(b \o t) = Len(b) + Len(t)
  OBVIOUS
<1>2. \A i \in 1..Len(b) : (b \o t)[i] = b[i]
  OBVIOUS
<1>3. \A i \in 1..Len(t) : (b \o t)[Len(b) + i] = t[i]
  OBVIOUS
<1> QED BY <1>1, <1>2, <1>3

(* What is left after trimming a root off, put under a root.               *)
LEMMA TrimmedJoins ==
    ASSUME NEW root, Canonical(root), NEW p, Canonical(p), WithinRoot(root, p),
           NEW base, Canonical(base)
    PROVE  LET q == Path(TRUE, base.segs \o Trimmed(root, p).segs)
           IN  /\ Clean(Join(base, Trimmed(root, p))) = q
               /\ Canonical(q) /\ WithinRoot(base, q)
               /\ Trimmed(base, q) = Trimmed(root, p)
               /\ base = root => q = p
<1> DEFINE r == root.segs
           s == p.segs
           b == base.segs
           t == SubSeq(s, Len(r) + 1, Len(s))
           q == Path(TRUE, b \o t)
<1>1. /\ r \in Seq(STRING) /\ Len(r) \in Nat /\ b \in Seq(STRING) /\ Len(b) \in Nat
      /\ s \in Seq(STRING) /\ Len(s) \in Nat
      /\ \A i \in 1..Len(b) : IsName(b[i])
      /\ \A i \in 1..Len(s) : IsName(s[i])
      /\ base = Path(TRUE, b) /\ p = Path(TRUE, s) /\ base.abs = TRUE
  BY CanonicalFields
<1>2. Len(r) <= Len(s) /\ \A i \in 1..Len(r) : r[i] = s[i]
  BY WithinRootBegins
<1>3. Trimmed(root, p) = Path(FALSE, t) /\ Trimmed(root, p).segs = t
  BY DEF Trimmed, Path
<1>4. base # EmptyPath
  BY <1>1 DEF EmptyPath, Path
<1>5. Join(base, Trimmed(root, p)) = Clean(q)
  <2>1. Path(base.abs, base.segs \o Trimmed(root, p).segs) = q
    BY <1>1, <1>3
  <2> QED BY <1>4, <2>1 DEF Join
<1> HIDE DEF r, s, b
<1>6. /\ t \in Seq(STRING) /\ Len(t) = Len(s) - Len(r)
      /\ \A i \in 1..Len(t) : t[i] = s[Len(r) + i]
  BY <1>1, <1>2
<1> HIDE DEF t
<1>7. /\ b \o t \in Seq(STRING) /\ Len(b \o t) = Len(b) + Len(t)
      /\ \A i \in 1..Len(b) : (b \o t)[i] = b[i]
      /\ \A i \in 1..Len(t) : (b \o t)[Len(b) + i] = t[i]
  BY <1>1, <1>6, ConcatFacts
<1>8. Len(t) \in Nat
  BY <1>6
<1>9. ASSUME NEW i \in 1..Len(b \o t) PROVE IsName((b \o t)[i])
  <2>1. CASE i \in 1..Len(b)
    BY <1>1, <1>7, <2>1
  <2>2. CASE i \notin 1..Len(b)
    <3>1. i - Len(b) \in 1..Len(t) /\ i = Len(b) + (i - Len(b))
      BY <1>1, <1>7, <1>8, <2>2
    <3>2. (b \o t)[i] = t[i - Len(b)]
      BY <1>7, <3>1
    <3>3. Len(r) + (i - Len(b)) \in 1..Len(s)
      BY <1>1, <1>6, <3>1
    <3> QED BY <1>1, <1>6, <3>1, <3>2, <3>3
  <2> QED BY <2>1, <2>2
<1>10. Canonical(q) /\ q.segs = b \o t
  BY <1>7, <1>9 DEF Canonical, AllNames, Path
<1>11. WithinRoot(base, q)
  <2>1. Len(b) <= Len(b \o t) /\ \A i \in 1..Len(b) : b[i] = (b \o t)[i]
    BY <1>1, <1>7, <1>8
  <2> QED BY <1>10, <2>1, WithinRootBegins DEF b
<1>12. Clean(q) = q
  BY <1>10, CleanKeepsNames
<1>13. SubSeq(b \o t, Len(b) + 1, Len(b \o t)) = t
  BY <1>1, <1>6, <1>7, <1>8
<1>14. Trimmed(base, q) = Path(FALSE, t)
  BY <1>10, <1>13 DEF Trimmed, b
<1>15. ASSUME b = r PROVE b \o t = s
  <2>1. Len(b \o t) = Len(s)
    BY <1>1, <1>6, <1>7, <1>15
  <2>2. ASSUME NEW i \in 1..Len(s) PROVE (b \o t)[i] = s[i]
    <3>1. CASE i \in 1..Len(r)
      BY <1>2, <1>7, <1>15, <3>1
    <3>2. CASE i \notin 1..Len(r)
      <4>1. i - Len(r) \in 1..Len(t) /\ i = Len(r) + (i - Len(r))
        BY <1>1, <1>6, <3>2
      <4> QED BY <1>6, <1>7, <1>15, <4>1
    <3> QED BY <3>1, <3>2
  <2> QED BY <1>1, <1>7, <2>1, <2>2, SeqEqual
<1>16. base = root => q = p
  BY <1>1, <1>15 DEF b, r
<1> QED BY <1>3, <1>5, <1>10, <1>11, <1>12, <1>14, <1>16 DEF b


(* A virtual path and its remote path determine each other: ToRemote puts  *)
(* a clean path inside the virtual root to a clean place inside the remote *)
(* root, and ToVirtual takes it back (mapper.go:80-115).                   *)
THEOREM MappingRoundTrips ==
    \A v : Canonical(v) /\ WithinRoot(VirtualRoot, v) =>
        /\ Canonical(ToRemote(v)) /\ WithinRoot(RemoteRoot, ToRemote(v))
        /\ ToVirtual(ToRemote(v)) = v
<1> SUFFICES ASSUME NEW v, Canonical(v), WithinRoot(VirtualRoot, v)
             PROVE  /\ Canonical(ToRemote(v)) /\ WithinRoot(RemoteRoot, ToRemote(v))
                    /\ ToVirtual(ToRemote(v)) = v
  OBVIOUS
<1> DEFINE left == Trimmed(VirtualRoot, v)
           q == Path(TRUE, RemoteRoot.segs \o left.segs)
<1>1. Canonical(VirtualRoot) /\ Canonical(RemoteRoot)
  BY RootsCanonical
<1>2. /\ Clean(Join(RemoteRoot, left)) = q
      /\ Canonical(q) /\ WithinRoot(RemoteRoot, q)
      /\ Trimmed(RemoteRoot, q) = left
  BY <1>1, TrimmedJoins
<1>3. Clean(Join(VirtualRoot, left)) = v
  <2>1. /\ Clean(Join(VirtualRoot, left)) = Path(TRUE, VirtualRoot.segs \o left.segs)
        /\ Path(TRUE, VirtualRoot.segs \o left.segs) = v
    BY <1>1, TrimmedJoins
  <2> QED BY <2>1
<1> HIDE DEF left, q
<1>4. ToRemote(v) = q
  BY <1>2 DEF ToRemote, left
<1>5. Rooted(q) = q
  <2>1. q = Path(TRUE, q.segs)
    BY <1>2, CanonicalFields
  <2> QED BY <1>2, <2>1, CleanKeepsNames DEF Rooted
<1>6. ToVirtual(q) = v
  BY <1>2, <1>3, <1>5 DEF ToVirtual
<1> QED BY <1>2, <1>4, <1>6

(* What resolveAndContain makes of the path that the library gives it.     *)
LEMMA ResolvesItself ==
    ASSUME NEW p, Canonical(p)
    PROVE  /\ p # Invalid
           /\ ResolveVirtual(Slash, p) =
                 IF (\E i \in 1..Len(p.segs) : p.segs[i] = "NUL") \/ ~WithinRoot(VirtualRoot, p)
                 THEN Invalid ELSE p
<1>1. p = Path(TRUE, p.segs) /\ p.abs = TRUE
  BY CanonicalFields
<1>2. Rooted(p) = p
  BY <1>1, CleanKeepsNames DEF Rooted
<1>3. p # Invalid
  BY <1>1 DEF Invalid
<1> QED BY <1>1, <1>2, <1>3 DEF ResolveVirtual, Contains

(* The library's path for an argument, in a current directory that is      *)
(* clean, is clean and names what the walk from that directory leads to.   *)
LEMMA ArgumentMeansWalk ==
    ASSUME NEW dir, Canonical(dir), NEW arg \in AllPaths
    PROVE  LET p == IF arg.abs THEN Clean(arg) ELSE Join(dir, arg)
           IN  Canonical(p) /\ Positions(p) = WalkFrom(dir, arg)
<1> DEFINE all == IF arg.abs THEN arg.segs ELSE dir.segs \o arg.segs
           p == IF arg.abs THEN Clean(arg) ELSE Join(dir, arg)
<1>1. /\ dir = Path(TRUE, dir.segs) /\ dir.abs = TRUE /\ dir.segs \in Seq(STRING)
      /\ arg.segs \in Seq(STRING) /\ arg = Path(arg.abs, arg.segs) /\ arg.abs \in BOOLEAN
  BY CanonicalFields DEF AllPaths, Path
<1>2. all \in Seq(STRING)
  BY <1>1, ConcatFacts
<1>3. p = Clean(Path(TRUE, all))
  <2>1. CASE arg.abs
    BY <1>1, <2>1
  <2>2. CASE ~arg.abs
    <3>1. dir # EmptyPath
      BY <1>1 DEF EmptyPath, Path
    <3> QED BY <1>1, <2>2, <3>1 DEF Join
  <2> QED BY <2>1, <2>2
<1>4. WalkFrom(dir, arg) = WalkFrom(Slash, Path(TRUE, all))
  BY DEF WalkFrom, Path
<1> HIDE DEF all, p
<1>5. Canonical(p) /\ Positions(p) = WalkFrom(dir, arg)
  BY <1>2, <1>3, <1>4, CleanIsCanonical, CleanMeansWalk
<1> QED BY <1>5 DEF p

=============================================================================
