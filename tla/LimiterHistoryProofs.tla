------------------------- MODULE LimiterHistoryProofs -------------------------
(***************************************************************************)
(* What the limiters' entries say of what really happened, for any number  *)
(* of logins and keys and for every threshold, window and lockout.         *)
(***************************************************************************)
EXTENDS LimiterHistory, LimiterProofs

(* A count over the last n ticks grows with n.                             *)
IsCount(c) == c \in [Span -> Nat] /\ \A m, n \in Span : m <= n => c[m] <= c[n]

(* How many of the failures in an entry's window left the key unlocked.    *)
FreeIn(e) == IF e.failures < MaxFailures THEN e.failures ELSE MaxFailures - 1

(* What an entry knows of the failures r and f that the history counts.    *)
(* All failures of an open window are as recent as its beginning, the      *)
(* first of them exactly; those of the window before it that still count   *)
(* lack at least that window's first one.                                  *)
WindowOK(e, r, f) ==
    e.age <= Window =>
        /\ r[e.age] >= e.failures
        /\ f[e.age] = FreeIn(e)
        /\ MaxFailures > 1 => /\ e.age > 0 => f[e.age - 1] < FreeIn(e)
                              /\ f[Window] <= FreeIn(e) + MaxFailures - 2

EntryOK(e, r, f) ==
    /\ e = None \/ MaxFailures = 1 => f[Window] = 0
    /\ e # None =>
          /\ e.failures >= 1
          /\ e.failures < MaxFailures => e.left = 0
          /\ \A n \in Span : n < e.idle => f[n] = 0
          /\ WindowOK(e, r, f)
          /\ MaxFailures > 1 /\ e.age > Window => f[0] = 0 /\ f[Window] <= MaxFailures - 2

HistoryInv ==
    /\ recent \in [Keys -> [Span -> Nat]]
    /\ free \in [Keys -> [Span -> Nat]]
    /\ \A k \in Keys : IsCount(recent[k]) /\ IsCount(free[k]) /\ EntryOK(state[k], recent[k], free[k])

(* A login that found a key of its own locked has not yet been allowed.    *)
FoundInv ==
    /\ found \in [Attempts -> SUBSET Keys]
    /\ \A a \in Attempts : \A k \in found[a] :
          /\ Locked(state[k])
          /\ k = login[a][1] => pc[a] \in {"sweepIP", "allowIP"}
          /\ k = login[a][2] => pc[a] \in {"sweepIP", "allowIP", "sweepUser", "allowUser"}

-----------------------------------------------------------------------------
(***************************************************************************)
(* What a failure and a tick do to one key.                                *)
(***************************************************************************)

(* The spans begin with 0 and end with the window.                         *)
LEMMA SpanEnds == Window \in Nat /\ 0 \in Span /\ Window \in Span /\ Span \subseteq Nat
BY LimiterAssumption DEF Span

(* What is in the spans.                                                   *)
LEMMA SpanMember == \A n \in Nat : n <= Window => n \in Span
BY LimiterAssumption DEF Span

(* The spans have no gaps.                                                 *)
LEMMA SpanBelow ==
    ASSUME NEW n \in Span, n # 0
    PROVE  n - 1 \in Span /\ (n - 1) + 1 = n
BY LimiterAssumption DEF Span

(* No failure is a count.                                                  *)
LEMMA NeverCounts == IsCount(Never) /\ Never \in [Span -> Nat] /\ \A n \in Span : Never[n] = 0
BY SpanEnds DEF IsCount, Never

(* One more failure leaves a count a count.                                *)
LEMMA OnceMoreCounts ==
    ASSUME NEW c, IsCount(c)
    PROVE  /\ IsCount(OnceMore(c)) /\ OnceMore(c) \in [Span -> Nat]
           /\ \A n \in Span : OnceMore(c)[n] = c[n] + 1
<1>. SUFFICES ASSUME NEW d, d = OnceMore(c)
              PROVE  IsCount(d) /\ d \in [Span -> Nat] /\ \A n \in Span : d[n] = c[n] + 1
    OBVIOUS
<1>1. c \in [Span -> Nat] /\ \A m, n \in Span : m <= n => c[m] <= c[n]
    BY DEF IsCount
<1>2. d = [n \in Span |-> c[n] + 1]
    BY DEF OnceMore
<1>3. d \in [Span -> Nat] /\ \A n \in Span : d[n] = c[n] + 1
    BY <1>1, <1>2
<1>4. ASSUME NEW m \in Span, NEW n \in Span, m <= n PROVE d[m] <= d[n]
    <2>1. c[m] <= c[n] /\ c[m] \in Nat /\ c[n] \in Nat
        BY <1>1, <1>4
    <2>. QED BY <1>3, <2>1
<1>. QED BY <1>3, <1>4 DEF IsCount

(* A tick leaves a count a count, and what it counted a tick further away. *)
LEMMA TickLaterCounts ==
    ASSUME NEW c, IsCount(c)
    PROVE  /\ IsCount(TickLater(c)) /\ TickLater(c) \in [Span -> Nat]
           /\ TickLater(c)[0] = 0
           /\ \A n \in Span : n + 1 \in Span => TickLater(c)[n + 1] = c[n]
           /\ TickLater(c)[Window] <= c[Window]
<1>. SUFFICES ASSUME NEW d, d = TickLater(c)
              PROVE  /\ IsCount(d) /\ d \in [Span -> Nat] /\ d[0] = 0
                     /\ \A n \in Span : n + 1 \in Span => d[n + 1] = c[n]
                     /\ d[Window] <= c[Window]
    OBVIOUS
<1>1. c \in [Span -> Nat] /\ \A m, n \in Span : m <= n => c[m] <= c[n]
    BY DEF IsCount
<1>2. \A n \in Span : d[n] = IF n = 0 THEN 0 ELSE c[n - 1]
    BY DEF TickLater
<1>3. \A n \in Span : n # 0 => n - 1 \in Span /\ n - 1 <= n
    BY SpanEnds DEF Span
<1>4. d \in [Span -> Nat]
    <2>1. DOMAIN d = Span /\ d = [n \in Span |-> d[n]]
        BY DEF TickLater
    <2>2. \A n \in Span : d[n] \in Nat
        BY <1>1, <1>2, <1>3
    <2>. QED BY <2>1, <2>2
<1>5. ASSUME NEW m \in Span, NEW n \in Span, m <= n PROVE d[m] <= d[n]
    <2>1. CASE m = 0
        BY <1>2, <1>4, <2>1, SpanEnds
    <2>2. CASE m # 0
        <3>1. n # 0 /\ m - 1 <= n - 1 /\ m - 1 \in Span /\ n - 1 \in Span
            BY <1>3, <1>5, <2>2, SpanEnds
        <3>2. c[m - 1] <= c[n - 1]
            BY <1>1, <3>1
        <3>. QED BY <1>2, <2>2, <3>1, <3>2
    <2>. QED BY <2>1, <2>2
<1>6. d[0] = 0
    BY <1>2, SpanEnds
<1>7. ASSUME NEW n \in Span, n + 1 \in Span PROVE d[n + 1] = c[n]
    BY <1>2, <1>7, SpanEnds
<1>8. d[Window] <= c[Window]
    <2>1. CASE Window = 0
        BY <1>1, <1>6, <2>1, SpanEnds
    <2>2. CASE Window # 0
        BY <1>1, <1>2, <1>3, <2>2, SpanEnds
    <2>. QED BY <2>1, <2>2
<1>. QED BY <1>4, <1>5, <1>6, <1>7, <1>8 DEF IsCount

(* The lockout of a key is never empty.                                    *)
LEMMA LockoutForPositive ==
    ASSUME NEW n \in Nat, n >= MaxFailures
    PROVE  LockoutFor(n) > 0
<1>. DEFINE m == n - MaxFailures + 1
            u == IF m > Cap THEN Cap ELSE m
<1>1. Lockout \in Nat /\ Lockout >= 1 /\ u \in Nat /\ 1 <= u
    BY LimiterAssumption
<1>2. LockoutFor(n) = Lockout * u
    BY DEF LockoutFor
<1>. HIDE DEF u
<1>3. Lockout * 1 <= Lockout * u /\ Lockout * u \in Nat
    BY <1>1, TimesMonotone
<1>. QED BY <1>1, <1>2, <1>3

(* The entry that a failure leaves.                                        *)
LEMMA RecordedFacts ==
    ASSUME NEW e \in Entry \cup {None}, NEW q, q = Recorded(e)
    PROVE  /\ q \in Entry /\ q # None /\ q.idle = 0
           /\ e = None \/ e.age > Window => q.failures = 1 /\ q.age = 0
           /\ ~(e = None \/ e.age > Window) => q.failures = e.failures + 1 /\ q.age = e.age
           /\ q.failures >= MaxFailures => q.left > 0
           /\ q.failures < MaxFailures =>
                  q.left = IF e = None \/ e.age > Window THEN 0 ELSE e.left
<1>1. q \in Entry /\ q # None
    BY RecordedType, NoneIsNoEntry
<1>. DEFINE fresh == e = None \/ e.age > Window
            s == IF fresh THEN [failures |-> 0, age |-> 0, left |-> 0, idle |-> 0] ELSE e
            n == s.failures + 1
<1>2. q = [failures |-> n, age |-> s.age,
           left |-> IF n >= MaxFailures THEN LockoutFor(n) ELSE s.left, idle |-> 0]
    BY DEF Recorded
<1>3. n \in Nat
    BY DEF Entry
<1>4. fresh => n = 1 /\ s.age = 0 /\ s.left = 0
    OBVIOUS
<1>5. ~fresh => n = e.failures + 1 /\ s.age = e.age /\ s.left = e.left
    OBVIOUS
<1>. HIDE DEF s, n
<1>6. n >= MaxFailures => LockoutFor(n) > 0
    BY <1>3, LockoutForPositive
<1>7. /\ q.failures = n /\ q.age = s.age /\ q.idle = 0
      /\ q.left = IF n >= MaxFailures THEN LockoutFor(n) ELSE s.left
    BY <1>2
<1>8. n < MaxFailures => ~(n >= MaxFailures)
    BY <1>3, LimiterAssumption
<1>. QED BY <1>1, <1>4, <1>5, <1>6, <1>7, <1>8

(* What an entry knows is still true after one more failure.               *)
LEMMA RecordedEntryOK ==
    ASSUME NEW e \in Entry \cup {None}, NEW r, NEW f, IsCount(r), IsCount(f), EntryOK(e, r, f),
           NEW q, q = Recorded(e), NEW g, g = IF Locked(q) THEN f ELSE OnceMore(f)
    PROVE  /\ IsCount(g) /\ EntryOK(q, OnceMore(r), g)
           /\ Locked(q) => OnceMore(r)[Window] >= MaxFailures
<1>. SUFFICES ASSUME NEW p, p = OnceMore(r)
              PROVE  /\ IsCount(g) /\ EntryOK(q, p, g)
                     /\ Locked(q) => p[Window] >= MaxFailures
    OBVIOUS
<1>0. /\ MaxFailures \in Nat /\ MaxFailures >= 1 /\ Window \in Nat
      /\ 0 \in Span /\ Window \in Span /\ Span \subseteq Nat
      /\ f \in [Span -> Nat] /\ r \in [Span -> Nat]
      /\ \A m, n \in Span : m <= n => f[m] <= f[n]
      /\ \A m, n \in Span : m <= n => r[m] <= r[n]
    BY LimiterAssumption, SpanEnds DEF IsCount
<1>1. /\ q \in Entry /\ q # None /\ q.idle = 0 /\ q.failures \in Nat
      /\ e = None \/ e.age > Window => q.failures = 1 /\ q.age = 0
      /\ ~(e = None \/ e.age > Window) => q.failures = e.failures + 1 /\ q.age = e.age
      /\ q.failures >= MaxFailures => q.left > 0
      /\ q.failures < MaxFailures =>
             q.left = IF e = None \/ e.age > Window THEN 0 ELSE e.left
    BY RecordedFacts DEF Entry
<1>2. /\ p \in [Span -> Nat] /\ \A n \in Span : p[n] = r[n] + 1
      /\ IsCount(g) /\ g \in [Span -> Nat]
      /\ Locked(q) => g = f
      /\ ~Locked(q) => \A n \in Span : g[n] = f[n] + 1
    BY OnceMoreCounts, <1>0
<1>3. CASE e = None \/ e.age > Window
    <2>1. q.failures = 1 /\ q.age = 0
        BY <1>1, <1>3
    <2>2. MaxFailures = 1 => f[Window] = 0
        BY DEF EntryOK
    <2>3. MaxFailures > 1 => f[0] = 0 /\ f[Window] <= MaxFailures - 2
        <3>1. CASE e = None
            BY <3>1, <1>0 DEF EntryOK
        <3>2. CASE e # None
            BY <3>2, <1>0, <1>3 DEF EntryOK
        <3>. QED BY <3>1, <3>2
    <2>4. CASE MaxFailures = 1
        <3>1. Locked(q)
            BY <1>1, <2>1, <2>4 DEF Locked
        <3>2. f[Window] = 0 /\ f[0] = 0
            BY <1>0, <2>2, <2>4
        <3>3. WindowOK(q, p, g)
            BY <1>0, <1>2, <2>1, <2>4, <3>1, <3>2 DEF WindowOK, FreeIn
        <3>4. EntryOK(q, p, g)
            BY <1>0, <1>1, <1>2, <2>1, <2>4, <3>1, <3>2, <3>3 DEF EntryOK
        <3>. QED BY <1>0, <1>2, <2>4, <3>4
    <2>5. CASE MaxFailures > 1
        <3>1. ~Locked(q) /\ q.left = 0
            BY <1>0, <1>1, <1>3, <2>1, <2>5 DEF Locked
        <3>2. g[0] = 1 /\ g[Window] = f[Window] + 1 /\ p[0] >= 1
            BY <1>0, <1>2, <2>3, <2>5, <3>1
        <3>3. WindowOK(q, p, g)
            BY <1>0, <2>1, <2>3, <2>5, <3>2 DEF WindowOK, FreeIn
        <3>4. EntryOK(q, p, g)
            BY <1>0, <1>1, <2>1, <2>5, <3>1, <3>3 DEF EntryOK
        <3>. QED BY <1>2, <3>1, <3>4
    <2>. QED BY <1>0, <2>4, <2>5
<1>4. CASE ~(e = None \/ e.age > Window)
    <2>0. e \in Entry /\ e # None /\ e.age \in Span /\ e.failures \in Nat /\ e.left \in Nat
        BY <1>0, <1>4, Bounds DEF Entry, Span
    <2>1. q.failures = e.failures + 1 /\ q.age = e.age
        BY <1>1, <1>4
    <2>2. /\ e.failures >= 1 /\ (e.failures < MaxFailures => e.left = 0)
          /\ r[e.age] >= e.failures /\ f[e.age] = FreeIn(e)
          /\ MaxFailures = 1 => f[Window] = 0
          /\ MaxFailures > 1 => /\ e.age > 0 => f[e.age - 1] < FreeIn(e)
                                /\ f[Window] <= FreeIn(e) + MaxFailures - 2
        <3>1. e.age <= Window
            BY <2>0 DEF Span
        <3>2. /\ WindowOK(e, r, f) /\ e.failures >= 1 /\ (MaxFailures = 1 => f[Window] = 0)
              /\ e.failures < MaxFailures => e.left = 0
            BY <2>0 DEF EntryOK
        <3>. QED BY <3>1, <3>2 DEF WindowOK
    <2>3. /\ p[e.age] >= q.failures /\ p[Window] >= p[e.age]
          /\ p[e.age] \in Nat /\ p[Window] \in Nat
        <3>1. /\ r[e.age] \in Nat /\ r[Window] \in Nat /\ r[e.age] <= r[Window]
              /\ p[e.age] = r[e.age] + 1 /\ p[Window] = r[Window] + 1
            <4>1. e.age <= Window
                BY <2>0 DEF Span
            <4>. QED BY <1>0, <1>2, <2>0, <4>1
        <3>. QED BY <2>0, <2>1, <2>2, <3>1
    <2>4. CASE q.failures >= MaxFailures
        <3>1. Locked(q) /\ g = f
            BY <1>1, <1>2, <2>4 DEF Locked
        <3>2. FreeIn(q) = FreeIn(e)
            BY <1>0, <1>1, <2>0, <2>1, <2>4 DEF FreeIn
        <3>3. WindowOK(q, p, g)
            BY <2>1, <2>2, <2>3, <3>1, <3>2 DEF WindowOK
        <3>4. EntryOK(q, p, g)
            BY <1>0, <1>1, <1>4, <2>0, <2>1, <2>2, <2>4, <3>1, <3>3 DEF EntryOK
        <3>5. p[Window] >= MaxFailures
            BY <1>0, <1>1, <2>3, <2>4
        <3>. QED BY <1>2, <3>4, <3>5
    <2>5. CASE q.failures < MaxFailures
        <3>1. q.left = 0 /\ ~Locked(q) /\ MaxFailures > 1
            BY <1>0, <1>1, <1>4, <2>0, <2>1, <2>2, <2>5 DEF Locked
        <3>2. FreeIn(q) = FreeIn(e) + 1 /\ FreeIn(e) = e.failures
            BY <1>0, <2>0, <2>1, <2>5 DEF FreeIn
        <3>3. g[e.age] = f[e.age] + 1 /\ g[Window] = f[Window] + 1
            BY <1>0, <1>2, <2>0, <3>1
        <3>4. e.age > 0 => g[e.age - 1] = f[e.age - 1] + 1
            <4>1. e.age > 0 => e.age - 1 \in Span
                BY <1>0, <2>0 DEF Span
            <4>. QED BY <1>2, <3>1, <4>1
        <3>5. e.age > 0 => f[e.age - 1] \in Nat
            <4>1. e.age > 0 => e.age - 1 \in Span
                BY <1>0, <2>0 DEF Span
            <4>. QED BY <1>0, <4>1
        <3>6. WindowOK(q, p, g)
            BY <1>0, <2>0, <2>1, <2>2, <2>3, <3>1, <3>2, <3>3, <3>4, <3>5 DEF WindowOK
        <3>7. EntryOK(q, p, g)
            BY <1>0, <1>1, <1>4, <2>0, <2>1, <3>1, <3>6 DEF EntryOK
        <3>. QED BY <1>2, <3>1, <3>7
    <2>. QED BY <1>0, <1>1, <2>4, <2>5
<1>. QED BY <1>3, <1>4

(* What an entry knows is still true a tick later.                         *)
LEMMA OlderEntryOK ==
    ASSUME NEW e \in Entry \cup {None}, NEW r, NEW f, IsCount(r), IsCount(f), EntryOK(e, r, f)
    PROVE  EntryOK(Older(e), TickLater(r), TickLater(f))
<1>. SUFFICES ASSUME NEW q, q = Older(e), NEW p, p = TickLater(r), NEW g, g = TickLater(f)
              PROVE  EntryOK(q, p, g)
    OBVIOUS
<1>0. /\ MaxFailures \in Nat /\ MaxFailures >= 1 /\ Window \in Nat
      /\ 0 \in Span /\ Window \in Span /\ Span \subseteq Nat
      /\ f \in [Span -> Nat] /\ r \in [Span -> Nat]
    BY LimiterAssumption, SpanEnds DEF IsCount
<1>1. /\ p \in [Span -> Nat] /\ g \in [Span -> Nat] /\ g[0] = 0
      /\ \A n \in Span : n + 1 \in Span => p[n + 1] = r[n] /\ g[n + 1] = f[n]
      /\ g[Window] <= f[Window]
    BY TickLaterCounts
<1>2. e = None \/ MaxFailures = 1 => g[Window] = 0
    <2>1. e = None \/ MaxFailures = 1 => f[Window] = 0
        BY DEF EntryOK
    <2>. QED BY <1>0, <1>1, <2>1
<1>3. CASE e = None
    <2>1. q = None
        BY <1>3 DEF Older
    <2>. QED BY <1>2, <1>3, <2>1 DEF EntryOK
<1>4. CASE e # None
    <2>0. /\ e \in Entry /\ e.failures \in Nat /\ e.age \in Nat /\ e.age <= Window + 1
          /\ e.left \in Nat /\ e.idle \in Nat /\ e.idle <= Retention + 1 /\ Retention \in Nat
        BY <1>0, <1>4, Bounds DEF Entry
    <2>1. /\ q \in Entry /\ q # None
          /\ q.age = IF e.age + 1 > Window + 1 THEN Window + 1 ELSE e.age + 1
          /\ q.left = IF e.left > 0 THEN e.left - 1 ELSE 0
          /\ q.idle = IF e.idle + 1 > Retention + 1 THEN Retention + 1 ELSE e.idle + 1
        BY <2>0, OlderFacts, NoneIsNoEntry
    <2>2. q.failures = e.failures
        BY <1>4, <2>0 DEF Older, Entry
    <2>3. /\ e.failures >= 1 /\ (e.failures < MaxFailures => e.left = 0)
          /\ \A n \in Span : n < e.idle => f[n] = 0
          /\ MaxFailures > 1 /\ e.age > Window => f[Window] <= MaxFailures - 2
          /\ WindowOK(e, r, f)
        BY <1>4 DEF EntryOK
    <2>4. FreeIn(q) = FreeIn(e) /\ FreeIn(e) \in Nat /\ FreeIn(e) <= MaxFailures - 1
          /\ (MaxFailures > 1 => FreeIn(e) >= 1)
        BY <1>0, <2>0, <2>2, <2>3 DEF FreeIn
    <2>5. ASSUME NEW n \in Span, n < q.idle PROVE g[n] = 0
        <3>1. CASE n = 0
            BY <1>1, <3>1
        <3>2. CASE n # 0
            <4>1. n - 1 \in Span /\ (n - 1) + 1 = n /\ n \in Nat
                BY <3>2, SpanBelow, SpanEnds
            <4>3. q.idle <= e.idle + 1 /\ q.idle \in Nat
                BY <2>0, <2>1
            <4>4. n - 1 < e.idle
                BY <2>0, <2>5, <4>1, <4>3
            <4>2. g[(n - 1) + 1] = f[n - 1]
                BY <1>1, <4>1
            <4>. QED BY <2>3, <4>1, <4>2, <4>4
        <3>. QED BY <3>1, <3>2
    <2>6. CASE e.age < Window
        <3>1. q.age = e.age + 1 /\ e.age \in Span /\ q.age \in Span /\ q.age <= Window
            <4>1. q.age = e.age + 1 /\ q.age \in Nat /\ q.age <= Window
                BY <1>0, <2>0, <2>1, <2>6
            <4>2. e.age \in Nat /\ e.age <= Window
                BY <1>0, <2>0, <2>6
            <4>. QED BY <4>1, <4>2, SpanMember
        <3>2. p[q.age] = r[e.age] /\ g[q.age] = f[e.age]
            BY <1>1, <3>1
        <3>3. /\ r[e.age] >= e.failures /\ f[e.age] = FreeIn(e)
              /\ MaxFailures > 1 => /\ e.age > 0 => f[e.age - 1] < FreeIn(e)
                                    /\ f[Window] <= FreeIn(e) + MaxFailures - 2
            BY <1>0, <2>0, <2>3, <2>6 DEF WindowOK
        <3>4. MaxFailures > 1 => g[q.age - 1] < FreeIn(q)
            <4>. SUFFICES ASSUME MaxFailures > 1 PROVE g[e.age] < FreeIn(e)
                BY <2>0, <2>4, <3>1
            <4>1. CASE e.age = 0
                BY <1>1, <2>4, <4>1
            <4>2. CASE e.age # 0
                <5>1. e.age - 1 \in Span /\ (e.age - 1) + 1 = e.age
                    BY <2>0, <3>1, <4>2, SpanBelow
                <5>2. g[(e.age - 1) + 1] = f[e.age - 1]
                    BY <1>1, <3>1, <5>1
                <5>. QED BY <2>0, <3>3, <4>2, <5>1, <5>2
            <4>. QED BY <4>1, <4>2
        <3>5. MaxFailures > 1 => g[Window] <= FreeIn(q) + MaxFailures - 2
            BY <1>0, <1>1, <2>4, <3>3
        <3>6. WindowOK(q, p, g)
            BY <2>2, <2>4, <3>2, <3>3, <3>4, <3>5 DEF WindowOK
        <3>7. ~(q.age > Window)
            BY <1>0, <2>0, <3>1
        <3>8. q.failures < MaxFailures => q.left = 0
            BY <2>1, <2>2, <2>3
        <3>. QED BY <1>2, <1>4, <2>1, <2>2, <2>3, <2>5, <3>6, <3>7, <3>8 DEF EntryOK
    <2>7. CASE e.age >= Window
        <3>1. q.age = Window + 1
            BY <1>0, <2>0, <2>1, <2>7
        <3>2. MaxFailures > 1 => g[Window] <= MaxFailures - 2
            <4>. SUFFICES ASSUME MaxFailures > 1 PROVE g[Window] <= MaxFailures - 2
                OBVIOUS
            <4>1. CASE e.age > Window
                BY <1>0, <1>1, <2>3, <4>1
            <4>2. CASE e.age = Window /\ Window = 0
                BY <1>0, <1>1, <4>2
            <4>3. CASE e.age = Window /\ Window # 0
                <5>1. Window - 1 \in Span /\ (Window - 1) + 1 = Window
                    BY <1>0, <4>3 DEF Span
                <5>2. g[(Window - 1) + 1] = f[Window - 1] /\ f[Window - 1] \in Nat
                    BY <1>0, <1>1, <5>1
                <5>3. f[Window - 1] < FreeIn(e)
                    BY <1>0, <2>3, <4>3 DEF WindowOK
                <5>. QED BY <1>0, <2>4, <5>1, <5>2, <5>3
            <4>. QED BY <1>0, <2>0, <2>7, <4>1, <4>2, <4>3
        <3>3. WindowOK(q, p, g)
            BY <1>0, <3>1 DEF WindowOK
        <3>4. q.failures < MaxFailures => q.left = 0
            BY <2>1, <2>2, <2>3
        <3>. QED BY <1>1, <1>2, <1>4, <2>1, <2>2, <2>3, <2>5, <3>2, <3>3, <3>4 DEF EntryOK
    <2>. QED BY <1>0, <2>0, <2>6, <2>7
<1>. QED BY <1>3, <1>4

(* An entry that is swept has no failure within the window.                *)
LEMMA StaleEntryOK ==
    ASSUME NEW e \in Entry, NEW r, NEW f, EntryOK(e, r, f), Stale(e)
    PROVE  EntryOK(None, r, f)
<1>1. Window \in Span /\ Window \in Nat /\ Retention \in Nat /\ Retention >= Window /\ e.idle \in Nat
    BY SpanEnds, Bounds, LimiterAssumption DEF Retention, Entry
<1>2. Window < e.idle /\ e # None
    BY <1>1, NoneIsNoEntry DEF Stale
<1>3. f[Window] = 0
    BY <1>1, <1>2 DEF EntryOK
<1>. QED BY <1>3 DEF EntryOK

-----------------------------------------------------------------------------
(***************************************************************************)
(* What a step does to one key.                                            *)
(***************************************************************************)

(* The history of a key follows the outcome that the step records.         *)
LEMMA RememberFacts ==
    ASSUME Remember, NEW k \in Keys
    PROVE  /\ recent'[k] = IF SucceedsNow(k) THEN Never
                           ELSE IF FailsNow(k) THEN OnceMore(recent[k])
                           ELSE IF pc' = pc THEN TickLater(recent[k]) ELSE recent[k]
           /\ free'[k] = IF SucceedsNow(k) THEN Never
                         ELSE IF FailsNow(k)
                              THEN (IF Locked(state'[k]) THEN free[k] ELSE OnceMore(free[k]))
                         ELSE IF pc' = pc THEN TickLater(free[k]) ELSE free[k]
BY DEF Remember, Counted

(* A step of a login moves that login and no other one.                    *)
LEMMA OneSteps ==
    ASSUME TypeOK, NEW a \in Attempts, Authenticate(a)
    PROVE  /\ Stepped(a) /\ pc' # pc
           /\ \A b \in Attempts : Stepped(b) => b = a
<1>1. pc \in [Attempts -> LoginSteps]
    BY DEF TypeOK, LoginSteps
<1>2. \E from \in LoginSteps, to \in LoginSteps : from # to /\ GoTo(a, from, to)
    BY DEF Authenticate, Begin, SweepOccasionally, Allow, Compare, RecordFailure,
           RecordSuccess, LoginSteps
<1>3. PICK from \in LoginSteps, to \in LoginSteps : from # to /\ GoTo(a, from, to)
    BY <1>2
<1>4. pc[a] = from /\ pc'[a] = to /\ \A b \in Attempts : b # a => pc'[b] = pc[b]
    BY <1>1, <1>3 DEF GoTo
<1>. QED BY <1>3, <1>4 DEF Stepped

(* What a step may do to an entry and to the counts of its key.            *)
Ages(k) ==
    /\ state'[k] = Older(state[k])
    /\ recent'[k] = TickLater(recent[k])
    /\ free'[k] = TickLater(free[k])

Fails(k) ==
    /\ state'[k] = Recorded(state[k])
    /\ recent'[k] = OnceMore(recent[k])
    /\ free'[k] = IF Locked(state'[k]) THEN free[k] ELSE OnceMore(free[k])

Succeeds(k) == state'[k] = None /\ recent'[k] = Never /\ free'[k] = Never

Stays(k) ==
    /\ state'[k] = state[k] \/ (state'[k] = None /\ state[k] # None /\ Stale(state[k]))
    /\ recent'[k] = recent[k]
    /\ free'[k] = free[k]

(* Every step does one of these, to every key.                             *)
LEMMA KeySteps ==
    ASSUME TypeOK, HNext, NEW k \in Keys
    PROVE  \/ Tick /\ Ages(k)
           \/ \E a \in Attempts :
                  /\ Authenticate(a)
                  /\ \/ Fails(k) /\ \/ pc[a] = "failIP" /\ k = login[a][1]
                                    \/ pc[a] = "failUser" /\ k = login[a][2]
                     \/ Succeeds(k) /\ \/ pc[a] = "succeedIP" /\ k = login[a][1]
                                       \/ pc[a] = "succeedUser" /\ k = login[a][2]
                     \/ Stays(k)
<1>0. Next /\ Remember
    BY DEF HNext
<1>1. CASE Tick
    <2>1. pc' = pc /\ state'[k] = Older(state[k])
        BY <1>1 DEF Tick
    <2>2. ~SucceedsNow(k) /\ ~FailsNow(k)
        BY <2>1 DEF SucceedsNow, FailsNow, Stepped
    <2>. QED BY <1>0, <1>1, <2>1, <2>2, RememberFacts DEF Ages
<1>2. ASSUME NEW a \in Attempts, Authenticate(a)
      PROVE  \/ Fails(k) /\ \/ pc[a] = "failIP" /\ k = login[a][1]
                            \/ pc[a] = "failUser" /\ k = login[a][2]
             \/ Succeeds(k) /\ \/ pc[a] = "succeedIP" /\ k = login[a][1]
                               \/ pc[a] = "succeedUser" /\ k = login[a][2]
             \/ Stays(k)
    <2>1. Stepped(a) /\ pc' # pc /\ \A b \in Attempts : Stepped(b) => b = a
        BY <1>2, OneSteps
    <2>. DEFINE F == \/ pc[a] = "failIP" /\ k = login[a][1]
                     \/ pc[a] = "failUser" /\ k = login[a][2]
                S == \/ pc[a] = "succeedIP" /\ k = login[a][1]
                     \/ pc[a] = "succeedUser" /\ k = login[a][2]
    <2>2. (FailsNow(k) <=> F) /\ (SucceedsNow(k) <=> S) /\ ~(F /\ S)
        BY <2>1 DEF FailsNow, SucceedsNow
    <2>3. /\ S => recent'[k] = Never /\ free'[k] = Never
          /\ F => /\ recent'[k] = OnceMore(recent[k])
                  /\ free'[k] = IF Locked(state'[k]) THEN free[k] ELSE OnceMore(free[k])
          /\ ~S /\ ~F => recent'[k] = recent[k] /\ free'[k] = free[k]
        BY <1>0, <2>1, <2>2, RememberFacts
    <2>4. state \in [Keys -> Entry \cup {None}] /\ login[a][1] \in Keys /\ login[a][2] \in Keys
        BY LoginKeys DEF TypeOK
    <2>5. CASE pc[a] \in {"failIP", "failUser"}
        <3>1. \/ RecordFailure(a, login[a][1], "failIP", "failUser") /\ pc[a] = "failIP"
              \/ RecordFailure(a, login[a][2], "failUser", "idle") /\ pc[a] = "failUser"
            BY <1>2, <2>5 DEF Authenticate, Begin, SweepOccasionally, Allow, Compare,
                              RecordSuccess, RecordFailure, GoTo
        <3>2. F => state'[k] = Recorded(state[k])
            BY <2>4, <3>1 DEF RecordFailure
        <3>3. ~F => state'[k] = state[k]
            BY <2>4, <3>1 DEF RecordFailure
        <3>4. ~S
            BY <2>5
        <3>. HIDE DEF F, S
        <3>5. (Fails(k) /\ F) \/ Stays(k)
            BY <2>3, <3>2, <3>3, <3>4 DEF Fails, Stays
        <3>. QED BY <3>5 DEF F
    <2>6. CASE pc[a] \in {"succeedIP", "succeedUser"}
        <3>1. \/ RecordSuccess(a, login[a][1], "succeedIP", "succeedUser") /\ pc[a] = "succeedIP"
              \/ RecordSuccess(a, login[a][2], "succeedUser", "idle") /\ pc[a] = "succeedUser"
            BY <1>2, <2>6 DEF Authenticate, Begin, SweepOccasionally, Allow, Compare,
                              RecordSuccess, RecordFailure, GoTo
        <3>2. S => state'[k] = None
            BY <2>4, <3>1 DEF RecordSuccess
        <3>3. ~S => state'[k] = state[k]
            BY <2>4, <3>1 DEF RecordSuccess
        <3>4. ~F
            BY <2>6
        <3>. HIDE DEF F, S
        <3>5. (Succeeds(k) /\ S) \/ Stays(k)
            BY <2>3, <3>2, <3>3, <3>4 DEF Succeeds, Stays
        <3>. QED BY <3>5 DEF S
    <2>7. CASE pc[a] \notin {"failIP", "failUser", "succeedIP", "succeedUser"}
        <3>1. \/ state' = state
              \/ \E l \in Limiters : state' = Swept(l)
            BY <1>2, <2>7 DEF Authenticate, Begin, SweepOccasionally, Allow, Compare,
                              RecordSuccess, RecordFailure, GoTo, Limiters
        <3>2. state'[k] = state[k] \/ (state'[k] = None /\ state[k] # None /\ Stale(state[k]))
            BY <3>1 DEF Swept
        <3>3. ~F /\ ~S
            BY <2>7
        <3>. QED BY <2>3, <3>2, <3>3 DEF Stays
    <2>. QED BY <2>5, <2>6, <2>7
<1>. QED BY <1>0, <1>1, <1>2 DEF Next

-----------------------------------------------------------------------------
(***************************************************************************)
(* Failures and locks.                                                     *)
(***************************************************************************)

(* A step keeps what is known of one key.                                  *)
LEMMA HistoryStep ==
    ASSUME TypeOK, HistoryInv, HNext, NEW k \in Keys
    PROVE  /\ IsCount(recent'[k]) /\ IsCount(free'[k])
           /\ EntryOK(state'[k], recent'[k], free'[k])
<1>0. /\ state[k] \in Entry \cup {None}
      /\ IsCount(recent[k]) /\ IsCount(free[k])
      /\ EntryOK(state[k], recent[k], free[k])
    BY DEF TypeOK, HistoryInv
<1>1. CASE Ages(k)
    BY <1>0, <1>1, TickLaterCounts, OlderEntryOK DEF Ages
<1>2. CASE Fails(k)
    <2>1. PICK q, g : q = Recorded(state[k]) /\ g = IF Locked(q) THEN free[k] ELSE OnceMore(free[k])
        OBVIOUS
    <2>2. IsCount(g) /\ EntryOK(q, OnceMore(recent[k]), g)
        BY <1>0, <2>1, RecordedEntryOK
    <2>3. state'[k] = q /\ recent'[k] = OnceMore(recent[k]) /\ free'[k] = g
        BY <1>2, <2>1 DEF Fails
    <2>. QED BY <1>0, <2>2, <2>3, OnceMoreCounts
<1>3. CASE Succeeds(k)
    <2>1. EntryOK(None, Never, Never)
        BY NeverCounts, SpanEnds DEF EntryOK
    <2>. QED BY <1>3, <2>1, NeverCounts DEF Succeeds
<1>4. CASE Stays(k)
    <2>1. CASE state'[k] = state[k]
        BY <1>0, <1>4, <2>1 DEF Stays
    <2>2. CASE state'[k] = None /\ state[k] # None /\ Stale(state[k])
        BY <1>0, <1>4, <2>2, StaleEntryOK DEF Stays
    <2>. QED BY <1>4, <2>1, <2>2 DEF Stays
<1>. QED BY <1>1, <1>2, <1>3, <1>4, KeySteps

(* What is known of every key stays known.                                 *)
LEMMA HistoryNext ==
    ASSUME TypeOK, HistoryInv, [HNext]_hvars
    PROVE  HistoryInv'
<1>1. CASE HNext
    <2>1. \A k \in Keys : /\ IsCount(recent'[k]) /\ IsCount(free'[k])
                          /\ EntryOK(state'[k], recent'[k], free'[k])
        BY <1>1, HistoryStep
    <2>2. \A k \in Keys : recent'[k] \in [Span -> Nat] /\ free'[k] \in [Span -> Nat]
        BY <2>1 DEF IsCount
    <2>3. recent' = [k \in Keys |-> recent'[k]] /\ free' = [k \in Keys |-> free'[k]]
        BY <1>1 DEF HNext, Remember
    <2>. QED BY <2>1, <2>2, <2>3 DEF HistoryInv
<1>2. CASE UNCHANGED hvars
    BY <1>2 DEF hvars, vars, HistoryInv
<1>. QED BY <1>1, <1>2

(* The keys of a login that begins, and where it goes until it is allowed. *)
LEMMA EarlySteps ==
    ASSUME TypeOK, NEW a \in Attempts, Authenticate(a)
    PROVE  /\ pc[a] = "idle" => pc'[a] = "sweepIP"
           /\ pc[a] = "sweepIP" => pc'[a] = "allowIP"
           /\ pc[a] = "allowIP" =>
                  pc'[a] = IF Locked(state[login[a][1]]) THEN "idle" ELSE "sweepUser"
           /\ pc[a] = "sweepUser" => pc'[a] = "allowUser"
           /\ pc[a] = "allowUser" =>
                  pc'[a] = IF Locked(state[login[a][2]]) THEN "idle" ELSE "compare"
           /\ pc[a] # "idle" => login' = login
           /\ \A b \in Attempts : b # a => login'[b] = login[b] /\ pc'[b] = pc[b]
<1>1. pc \in [Attempts -> LoginSteps] /\ login \in [Attempts -> IPs \X Users]
    BY DEF TypeOK, LoginSteps
<1>2. /\ pc[a] # "idle" => login' = login
      /\ \A b \in Attempts : b # a => login'[b] = login[b] /\ pc'[b] = pc[b]
    BY <1>1 DEF Authenticate, Begin, SweepOccasionally, Allow, Compare, RecordFailure,
                RecordSuccess, GoTo
<1>. QED BY <1>1, <1>2 DEF Authenticate, Begin, SweepOccasionally, Allow, Compare,
                           RecordFailure, RecordSuccess, GoTo

(* A login that found a key locked is still not past Allow.                *)
LEMMA FoundNext ==
    ASSUME TypeOK, FoundInv, [HNext]_hvars
    PROVE  FoundInv'
<1>1. CASE UNCHANGED hvars
    BY <1>1 DEF hvars, vars, FoundInv
<1>2. CASE HNext
    <2>0. Next /\ found' = [a \in Attempts |-> {k \in Keys :
              /\ pc'[a] # "idle" /\ (pc[a] = "idle" \/ k \in found[a]) /\ Locked(state'[k])}]
        BY <1>2 DEF HNext, Remember
    <2>1. found' \in [Attempts -> SUBSET Keys]
        BY <2>0
    <2>2. ASSUME NEW a \in Attempts, NEW k \in found'[a]
          PROVE  /\ Locked(state'[k])
                 /\ k = login'[a][1] => pc'[a] \in {"sweepIP", "allowIP"}
                 /\ k = login'[a][2] => pc'[a] \in {"sweepIP", "allowIP", "sweepUser", "allowUser"}
        <3>1. pc'[a] # "idle" /\ (pc[a] = "idle" \/ k \in found[a]) /\ Locked(state'[k])
            BY <2>0
        <3>2. k \in found[a] =>
                  /\ Locked(state[k])
                  /\ k = login[a][1] => pc[a] \in {"sweepIP", "allowIP"}
                  /\ k = login[a][2] => pc[a] \in {"sweepIP", "allowIP", "sweepUser", "allowUser"}
            BY DEF FoundInv
        <3>3. CASE pc'[a] = pc[a] /\ login'[a] = login[a]
            BY <3>1, <3>2, <3>3
        <3>4. CASE Authenticate(a)
            BY <3>1, <3>2, <3>4, EarlySteps
        <3>5. CASE Tick
            BY <3>3, <3>5 DEF Tick
        <3>6. ASSUME NEW b \in Attempts, Authenticate(b), b # a
              PROVE  pc'[a] = pc[a] /\ login'[a] = login[a]
            BY <3>6, EarlySteps
        <3>. QED BY <2>0, <3>1, <3>3, <3>4, <3>5, <3>6 DEF Next
    <2>. QED BY <2>1, <2>2 DEF FoundInv
<1>. QED BY <1>1, <1>2

(* The history restricts no step: the limiter with a memory is a limiter.  *)
LEMMA HistoryRestrictsNothing == HSafe => Spec
<1>1. HInit => Init
    BY DEF HInit
<1>2. [HNext]_hvars => [Next]_vars
    BY DEF HNext, hvars
<1>. QED BY <1>1, <1>2, PTL DEF HSafe, Spec

(* The counts, the entries and the locks found are as the invariants say.  *)
LEMMA HistoryInvariant == HSafe => [](TypeOK /\ HistoryInv /\ FoundInv)
<1>1. HInit => HistoryInv
    <2>. SUFFICES ASSUME HInit PROVE HistoryInv
        OBVIOUS
    <2>1. EntryOK(None, Never, Never)
        BY NeverCounts, SpanEnds DEF EntryOK
    <2>. QED BY <2>1, NeverCounts DEF HInit, Init, HistoryInv
<1>2. HInit => FoundInv
    BY DEF HInit, FoundInv
<1>3. HSafe => []TypeOK
    BY HistoryRestrictsNothing, LimiterTypeCorrect, PTL
<1>4. TypeOK /\ HistoryInv /\ [HNext]_hvars => HistoryInv'
    BY HistoryNext
<1>5. TypeOK /\ FoundInv /\ [HNext]_hvars => FoundInv'
    BY FoundNext
<1>. QED BY <1>1, <1>2, <1>3, <1>4, <1>5, PTL DEF HSafe

(* Within any time of the window's length and without a success, at most   *)
(* 2 * MaxFailures - 3 failures leave a key unlocked, whatever the         *)
(* thresholds and however many logins overlap (limiter.go:66-90).          *)
THEOREM GuessingIsBounded == HSpec => []GuessesBounded
<1>1. ASSUME TypeOK, HistoryInv PROVE GuessesBounded
    <2>. SUFFICES ASSUME NEW k \in Keys
                  PROVE  free[k][Window] = 0 \/ free[k][Window] <= 2 * MaxFailures - 3
        BY DEF GuessesBounded
    <2>1. PICK e, r, f : e = state[k] /\ r = recent[k] /\ f = free[k]
        OBVIOUS
    <2>2. e \in Entry \cup {None} /\ EntryOK(e, r, f) /\ f[Window] \in Nat
        BY <1>1, <2>1, SpanEnds DEF TypeOK, HistoryInv
    <2>3. MaxFailures \in Nat /\ MaxFailures >= 1
        BY LimiterAssumption
    <2>4. CASE e = None \/ MaxFailures = 1
        BY <2>1, <2>2, <2>4 DEF EntryOK
    <2>5. CASE e \in Entry /\ e # None /\ MaxFailures > 1
        <3>1. /\ e.age \in Int /\ e.failures \in Nat /\ Window \in Nat
              /\ e.age > Window => f[Window] <= MaxFailures - 2
              /\ e.age <= Window => f[Window] <= FreeIn(e) + MaxFailures - 2
            BY <2>2, <2>5, LimiterAssumption DEF EntryOK, WindowOK, Entry
        <3>2. FreeIn(e) \in Nat /\ FreeIn(e) <= MaxFailures - 1
            BY <2>3, <2>5, <3>1 DEF FreeIn
        <3>. QED BY <2>1, <2>2, <2>3, <2>5, <3>1, <3>2
    <2>. QED BY <2>2, <2>3, <2>4, <2>5
<1>. QED BY <1>1, HistoryInvariant, PTL DEF HSpec

(* Nobody is locked out, or for longer, for old failures, whatever the     *)
(* thresholds and however many logins overlap (limiter.go:66-90).          *)
THEOREM LocksAreJustified == HSpec => LockJustified
<1>. DEFINE Justified ==
         \A k \in Keys :
             Locked(state'[k]) /\ (~Locked(state[k]) \/ state'[k].left > state[k].left)
                 => recent'[k][Window] >= MaxFailures
<1>1. ASSUME TypeOK, HistoryInv, HNext PROVE Justified
    <2>. SUFFICES ASSUME NEW k \in Keys, Locked(state'[k]),
                         ~Locked(state[k]) \/ state'[k].left > state[k].left
                  PROVE  recent'[k][Window] >= MaxFailures
        OBVIOUS
    <2>1. /\ state[k] \in Entry \cup {None}
          /\ IsCount(recent[k]) /\ IsCount(free[k])
          /\ EntryOK(state[k], recent[k], free[k])
        BY <1>1 DEF TypeOK, HistoryInv
    <2>2. CASE Ages(k)
        <3>1. state'[k] = Older(state[k]) /\ state[k] \in Entry
            BY <2>1, <2>2 DEF Ages, Older, Locked
        <3>2. state[k].left \in Nat
            BY <3>1, Bounds DEF Entry
        <3>. QED BY <3>1, <3>2, OlderFacts, NoneIsNoEntry DEF Locked
    <2>3. CASE Fails(k)
        <3>1. PICK q, g : /\ q = Recorded(state[k])
                          /\ g = IF Locked(q) THEN free[k] ELSE OnceMore(free[k])
            OBVIOUS
        <3>2. Locked(q) => OnceMore(recent[k])[Window] >= MaxFailures
            BY <2>1, <3>1, RecordedEntryOK
        <3>. QED BY <2>3, <3>1, <3>2 DEF Fails
    <2>4. CASE Succeeds(k)
        BY <2>4 DEF Succeeds, Locked
    <2>5. CASE Stays(k)
        <3>1. state'[k] = state[k]
            BY <2>5 DEF Stays, Locked
        <3>2. state[k].left \in Nat
            BY <2>1, <3>1, Bounds DEF Entry, Locked
        <3>. QED BY <3>1, <3>2
    <2>. QED BY <1>1, <2>2, <2>3, <2>4, <2>5, KeySteps
<1>2. TypeOK /\ HistoryInv /\ [HNext]_hvars => [Justified]_hvars
    BY <1>1
<1>3. HSafe => [][Justified]_hvars
    BY <1>2, HistoryInvariant, PTL DEF HSafe
<1>. QED BY <1>3, PTL DEF HSpec, LockJustified

(* A login that begins on a locked key neither removes nor shortens that   *)
(* lock (limiter.go:99, authenticator.go:55).                              *)
THEOREM OnlyEarlierLoginsUnlock == HSpec => NewcomersCannotUnlock
<1>. DEFINE Keeps ==
         \A a \in Attempts, k \in Keys :
             Stepped(a) /\ k \in found[a] => /\ Locked(state'[k])
                                             /\ state'[k].left >= state[k].left
<1>1. ASSUME TypeOK, FoundInv, HNext PROVE Keeps
    <2>. SUFFICES ASSUME NEW a \in Attempts, NEW k \in Keys, Stepped(a), k \in found[a]
                  PROVE  Locked(state'[k]) /\ state'[k].left >= state[k].left
        OBVIOUS
    <2>1. /\ Locked(state[k])
          /\ k = login[a][1] => pc[a] \in {"sweepIP", "allowIP"}
          /\ k = login[a][2] => pc[a] \in {"sweepIP", "allowIP", "sweepUser", "allowUser"}
        BY <1>1 DEF FoundInv
    <2>2. ~Tick
        BY DEF Tick, Stepped
    <2>3. PICK b \in Attempts :
              /\ Authenticate(b)
              /\ \/ pc[b] \in {"failIP", "succeedIP"} /\ k = login[b][1]
                 \/ pc[b] \in {"failUser", "succeedUser"} /\ k = login[b][2]
                 \/ Stays(k)
        BY <1>1, <2>2, KeySteps
    <2>4. a = b
        BY <1>1, <2>3, OneSteps
    <2>5. Stays(k)
        BY <2>1, <2>3, <2>4
    <2>6. state[k] \in Entry /\ state[k].left \in Nat /\ state[k].left > 0
        BY <1>1, <2>1, Bounds DEF TypeOK, Entry, Locked
    <2>7. state'[k] = state[k]
        BY <2>5, <2>6 DEF Stays, Stale
    <2>. QED BY <2>1, <2>6, <2>7
<1>2. TypeOK /\ FoundInv /\ [HNext]_hvars => [Keeps]_hvars
    BY <1>1
<1>3. HSafe => [][Keeps]_hvars
    BY <1>2, HistoryInvariant, PTL DEF HSafe
<1>. QED BY <1>3, PTL DEF HSpec, NewcomersCannotUnlock

=============================================================================
