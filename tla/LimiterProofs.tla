---------------------------- MODULE LimiterProofs ----------------------------
(***************************************************************************)
(* Proofs about AuthLimiter, for any number of logins, keys and for every  *)
(* threshold, window and lockout.                                          *)
(***************************************************************************)
EXTENDS AuthLimiter, TLAPS

-----------------------------------------------------------------------------
(* Multiplication by a natural number is monotonic.                        *)
LEMMA TimesMonotone ==
    ASSUME NEW a \in Nat, NEW b \in Nat, NEW c \in Nat, b <= c
    PROVE  a * b <= a * c /\ a * b \in Nat /\ a * c \in Nat
<1>1. PICK d \in Nat : c = b + d
    BY c - b \in Nat, c = b + (c - b)
<1>2. a * (b + d) = a * b + a * d /\ a * d \in Nat /\ a * b \in Nat
    OBVIOUS
<1>. QED BY <1>1, <1>2

(* The bounds of the saturating counters are natural numbers.              *)
LEMMA Bounds == Lockout * Cap \in Nat /\ Retention \in Nat
<1>1. Lockout * Cap \in Nat
    BY LimiterAssumption, Lockout \in Nat, Cap \in Nat, TimesMonotone
<1>. QED BY <1>1, LimiterAssumption DEF Retention

(* No entry is mistaken for an absent one.                                 *)
LEMMA NoneIsNoEntry == None \notin Entry
<1>1. Entry \subseteq [failures : Nat, age : Nat, left : Nat, idle : Nat]
    BY Bounds, LimiterAssumption DEF Entry
<1>. QED BY <1>1, LimiterAssumption

(* A lockout is at most Cap times the basic one.                           *)
LEMMA LockoutForType ==
    ASSUME NEW n \in Nat, n >= MaxFailures
    PROVE  LockoutFor(n) \in 0..(Lockout * Cap)
<1>. DEFINE m == n - MaxFailures + 1
            u == IF m > Cap THEN Cap ELSE m
<1>1. m \in Nat /\ Cap \in Nat /\ Lockout \in Nat
    BY LimiterAssumption
<1>2. u \in Nat /\ u <= Cap
    BY <1>1
<1>3. LockoutFor(n) = Lockout * u
    BY DEF LockoutFor
<1>. HIDE DEF u
<1>4. Lockout * u <= Lockout * Cap /\ Lockout * u \in Nat
    BY <1>1, <1>2, TimesMonotone
<1>. QED BY <1>3, <1>4, Bounds

(* Recording a failure gives an entry without idle time.                   *)
LEMMA RecordedType ==
    ASSUME NEW e \in Entry \cup {None}
    PROVE  Recorded(e) \in Entry
<1>. DEFINE s == IF e = None \/ e.age > Window
                 THEN [failures |-> 0, age |-> 0, left |-> 0, idle |-> 0] ELSE e
            n == s.failures + 1
<1>1. s \in Entry
    BY Bounds, LimiterAssumption DEF Entry
<1>2. n \in Nat
    BY <1>1 DEF Entry
<1>3. (IF n >= MaxFailures THEN LockoutFor(n) ELSE s.left) \in 0..(Lockout * Cap)
    BY <1>1, <1>2, LockoutForType DEF Entry
<1>4. Recorded(e) = [failures |-> n, age |-> s.age,
                     left |-> IF n >= MaxFailures THEN LockoutFor(n) ELSE s.left,
                     idle |-> 0]
    BY DEF Recorded
<1>5. s.age \in 0..(Window + 1)
    BY <1>1 DEF Entry
<1>. HIDE DEF s, n
<1>6. 0 \in 0..(Retention + 1)
    BY Bounds
<1>. QED BY <1>2, <1>3, <1>4, <1>5, <1>6 DEF Entry

(* The fields of an entry after a tick.                                    *)
LEMMA OlderFacts ==
    ASSUME NEW e \in Entry
    PROVE  /\ Older(e) \in Entry
           /\ Older(e).age = IF e.age + 1 > Window + 1 THEN Window + 1 ELSE e.age + 1
           /\ Older(e).left = IF e.left > 0 THEN e.left - 1 ELSE 0
           /\ Older(e).idle = IF e.idle + 1 > Retention + 1 THEN Retention + 1
                                                            ELSE e.idle + 1
<1>1. e # None
    BY NoneIsNoEntry
<1>2. /\ e.failures \in Nat /\ e.age \in 0..(Window + 1)
      /\ e.left \in 0..(Lockout * Cap) /\ e.idle \in 0..(Retention + 1)
      /\ Window \in Nat /\ Retention \in Nat /\ Lockout * Cap \in Nat
    BY Bounds, LimiterAssumption DEF Entry
<1>3. Older(e) = [e EXCEPT !.age = UpTo(@ + 1, Window + 1),
                           !.left = IF @ > 0 THEN @ - 1 ELSE 0,
                           !.idle = UpTo(@ + 1, Retention + 1)]
    BY <1>1 DEF Older
<1>4. Older(e) = [failures |-> e.failures, age |-> UpTo(e.age + 1, Window + 1),
                  left |-> IF e.left > 0 THEN e.left - 1 ELSE 0,
                  idle |-> UpTo(e.idle + 1, Retention + 1)]
    BY <1>3 DEF Entry
<1>5. /\ UpTo(e.age + 1, Window + 1) \in 0..(Window + 1)
      /\ (IF e.left > 0 THEN e.left - 1 ELSE 0) \in 0..(Lockout * Cap)
      /\ UpTo(e.idle + 1, Retention + 1) \in 0..(Retention + 1)
    BY <1>2 DEF UpTo
<1>6. Older(e) \in Entry
    BY <1>2, <1>4, <1>5 DEF Entry
<1>. QED BY <1>4, <1>6 DEF UpTo

-----------------------------------------------------------------------------
(***************************************************************************)
(* Type correctness.                                                       *)
(***************************************************************************)

LoginSteps == {"idle", "sweepIP", "allowIP", "sweepUser", "allowUser",
               "compare", "failIP", "failUser", "succeedIP", "succeedUser"}

(* The keys of a login are keys.                                           *)
LEMMA LoginKeys ==
    ASSUME TypeOK, NEW a \in Attempts
    PROVE  login[a][1] \in IPs /\ login[a][2] \in Users
           /\ login[a][1] \in Keys /\ login[a][2] \in Keys
BY DEF TypeOK, Keys

(* What a section of Limiter may do: sweep, or set one key.                *)
LEMMA TypeSections ==
    ASSUME TypeOK, NEW a \in Attempts, NEW from, NEW to \in LoginSteps,
           NEW key \in Keys, NEW l \in Limiters,
           \/ SweepOccasionally(a, l, from, to)
           \/ Allow(a, key, from, to)
           \/ RecordFailure(a, key, from, to)
           \/ RecordSuccess(a, key, from, to)
    PROVE  TypeOK'
<1>. USE DEF TypeOK
<1>1. pc' \in [Attempts -> LoginSteps]
    BY DEF SweepOccasionally, Allow, RecordFailure, RecordSuccess, GoTo, LoginSteps
<1>2. login' \in [Attempts -> IPs \X Users]
    BY DEF SweepOccasionally, Allow, RecordFailure, RecordSuccess
<1>3. CASE SweepOccasionally(a, l, from, to)
    <2>1. \A c \in Int : (c + 1) % SweepEvery \in 0..(SweepEvery - 1)
        BY LimiterAssumption
    <2>2. calls' \in [Limiters -> 0..(SweepEvery - 1)]
        BY <1>3, <2>1 DEF SweepOccasionally
    <2>3. Swept(l) \in [Keys -> Entry \cup {None}]
        BY DEF Swept
    <2>4. state' \in [Keys -> Entry \cup {None}] /\ UNCHANGED shadow
        BY <1>3, <2>3 DEF SweepOccasionally
    <2>. QED BY <1>1, <1>2, <2>2, <2>4 DEF LoginSteps
<1>4. CASE Allow(a, key, from, to)
    BY <1>1, <1>2, <1>4 DEF Allow, LoginSteps
<1>5. CASE RecordFailure(a, key, from, to)
    <2>1. Recorded(state[key]) \in Entry /\ Recorded(shadow[key]) \in Entry
        BY RecordedType
    <2>2. /\ state' \in [Keys -> Entry \cup {None}]
          /\ shadow' \in [Keys -> Entry \cup {None}]
        BY <1>5, <2>1 DEF RecordFailure
    <2>. QED BY <1>1, <1>2, <1>5, <2>2 DEF RecordFailure, LoginSteps
<1>6. CASE RecordSuccess(a, key, from, to)
    BY <1>1, <1>2, <1>6 DEF RecordSuccess, LoginSteps
<1>. QED BY <1>3, <1>4, <1>5, <1>6

(* A tick keeps the types.                                                 *)
LEMMA TypeTick == TypeOK /\ Tick => TypeOK'
<1>. SUFFICES ASSUME TypeOK, Tick PROVE TypeOK'
    OBVIOUS
<1>1. \A e \in Entry \cup {None} : Older(e) \in Entry \cup {None}
    BY OlderFacts DEF Older
<1>. QED BY <1>1 DEF TypeOK, Tick

(* Every variable of the limiter keeps its type.                           *)
THEOREM LimiterTypeCorrect == Spec => []TypeOK
<1>1. Init => TypeOK
    BY LimiterAssumption DEF Init, TypeOK, Limiters
<1>2. ASSUME TypeOK, [Next]_vars PROVE TypeOK'
    <2>1. CASE Tick
        BY <1>2, <2>1, TypeTick
    <2>2. ASSUME NEW a \in Attempts, Authenticate(a) PROVE TypeOK'
        <3>. USE <1>2, LoginKeys DEF Limiters, LoginSteps
        <3>1. CASE \E ip \in IPs, user \in Users : Begin(a, ip, user)
            BY <3>1 DEF Begin, GoTo, TypeOK
        <3>2. CASE Compare(a)
            BY <3>2 DEF Compare, GoTo, TypeOK
        <3>3. CASE \/ SweepOccasionally(a, "byIP", "sweepIP", "allowIP")
                   \/ SweepOccasionally(a, "byUser", "sweepUser", "allowUser")
            BY <3>3, TypeSections
        <3>4. CASE \/ Allow(a, login[a][1], "allowIP", "sweepUser")
                   \/ Allow(a, login[a][2], "allowUser", "compare")
            BY <3>4, TypeSections
        <3>5. CASE \/ RecordFailure(a, login[a][1], "failIP", "failUser")
                   \/ RecordFailure(a, login[a][2], "failUser", "idle")
            BY <3>5, TypeSections
        <3>6. CASE \/ RecordSuccess(a, login[a][1], "succeedIP", "succeedUser")
                   \/ RecordSuccess(a, login[a][2], "succeedUser", "idle")
            BY <3>6, TypeSections
        <3>. QED BY <2>2, <3>1, <3>2, <3>3, <3>4, <3>5, <3>6 DEF Authenticate
    <2>3. CASE UNCHANGED vars
        BY <1>2, <2>3 DEF vars, TypeOK
    <2>. QED BY <1>2, <2>1, <2>2, <2>3 DEF Next
<1>. QED BY <1>1, <1>2, PTL DEF Spec

-----------------------------------------------------------------------------
(***************************************************************************)
(* The sweep is invisible.  A key that has been swept differs from its     *)
(* unswept shadow only by an entry that no longer counts, and an entry     *)
(* idle for longer than the window has a window that is over.              *)
(***************************************************************************)

(* The entry means the same as none.                                       *)
Spent(e) == e # None /\ e.age > Window /\ e.left = 0

(* The window began before the last activity, up to saturation.            *)
Aged(e) == e # None => e.idle <= e.age \/ e.age > Window

Alike(k) ==
    /\ state[k] = shadow[k] \/ (state[k] = None /\ Spent(shadow[k]))
    /\ Aged(shadow[k])

SweepInv == \A k \in Keys : Alike(k)

(* A spent entry records a failure as an absent one does, and locks none.  *)
LEMMA SpentIsNone ==
    ASSUME NEW e, Spent(e)
    PROVE  Recorded(e) = Recorded(None) /\ ~Locked(e) /\ ~Locked(None)
BY DEF Spent, Recorded, Locked

(* The invariant says what the property says.                              *)
LEMMA AlikeActsAlike == SweepInv => SweepInvisible
<1>. SUFFICES ASSUME SweepInv, NEW k \in Keys
              PROVE  /\ Locked(state[k]) = Locked(shadow[k])
                     /\ Recorded(state[k]) = Recorded(shadow[k])
    BY DEF SweepInvisible
<1>1. CASE state[k] = shadow[k]
    BY <1>1
<1>2. CASE state[k] = None /\ Spent(shadow[k])
    <2>1. ~Locked(shadow[k]) /\ ~Locked(state[k])
        BY <1>2, SpentIsNone
    <2>2. Locked(shadow[k]) \in BOOLEAN /\ Locked(state[k]) \in BOOLEAN
        BY DEF Locked
    <2>3. Recorded(state[k]) = Recorded(shadow[k])
        BY <1>2, SpentIsNone
    <2>. QED BY <2>1, <2>2, <2>3
<1>. QED BY <1>1, <1>2 DEF SweepInv, Alike

(* A failure just recorded is not idle.                                    *)
LEMMA RecordedAged ==
    ASSUME NEW e \in Entry \cup {None}
    PROVE  Aged(Recorded(e))
<1>1. Recorded(e) \in Entry
    BY RecordedType
<1>2. Recorded(e).idle = 0
    BY DEF Recorded
<1>. QED BY <1>1, <1>2 DEF Aged, Entry

(* An entry the sweep drops is spent.                                      *)
LEMMA StaleIsSpent ==
    ASSUME NEW e \in Entry, Aged(e), Stale(e)
    PROVE  Spent(e)
<1>1. /\ e.age \in Int /\ e.idle \in Int /\ Window \in Nat /\ Retention >= Window
      /\ Retention \in Nat
    BY Bounds, LimiterAssumption DEF Entry, Retention
<1>. QED BY <1>1, NoneIsNoEntry DEF Aged, Stale, Spent

(* Time keeps a spent entry spent and an aged one aged.                    *)
LEMMA OlderKeeps ==
    ASSUME NEW e \in Entry
    PROVE  (Spent(e) => Spent(Older(e))) /\ (Aged(e) => Aged(Older(e)))
<1>1. /\ e.age \in 0..(Window + 1) /\ e.idle \in 0..(Retention + 1)
      /\ Window \in Nat /\ Retention \in Nat
    BY Bounds, LimiterAssumption DEF Entry
<1>2. Older(e) # None /\ e # None
    BY OlderFacts, NoneIsNoEntry
<1>. QED BY <1>1, <1>2, OlderFacts DEF Spent, Aged

(* Each section keeps every key alike its shadow.                          *)
LEMMA SweepSections ==
    ASSUME TypeOK, SweepInv, NEW a \in Attempts, NEW from, NEW to,
           NEW key \in Keys, NEW l \in Limiters,
           \/ SweepOccasionally(a, l, from, to)
           \/ RecordFailure(a, key, from, to)
           \/ RecordSuccess(a, key, from, to)
    PROVE  SweepInv'
<1>. SUFFICES ASSUME NEW k \in Keys PROVE Alike(k)'
    BY DEF SweepInv
<1>1. /\ Alike(k) /\ Alike(key)
      /\ state[k] \in Entry \cup {None} /\ shadow[k] \in Entry \cup {None}
      /\ state[key] \in Entry \cup {None} /\ shadow[key] \in Entry \cup {None}
    BY DEF SweepInv, TypeOK
<1>2. CASE SweepOccasionally(a, l, from, to)
    <2>1. state' = Swept(l) \/ state' = state
        BY <1>2 DEF SweepOccasionally
    <2>2. shadow' = shadow
        BY <1>2 DEF SweepOccasionally
    <2>3. \/ state'[k] = state[k]
          \/ state'[k] = None /\ state[k] # None /\ Stale(state[k])
        BY <2>1 DEF Swept
    <2>4. CASE state'[k] = state[k]
        BY <1>1, <2>2, <2>4 DEF Alike
    <2>5. CASE state'[k] = None /\ state[k] # None /\ Stale(state[k])
        <3>1. state[k] = shadow[k] /\ Aged(shadow[k])
            BY <1>1, <2>5 DEF Alike
        <3>2. Spent(shadow[k])
            BY <1>1, <2>5, <3>1, StaleIsSpent
        <3>. QED BY <2>2, <2>5, <3>1, <3>2 DEF Alike
    <2>. QED BY <2>3, <2>4, <2>5
<1>3. CASE RecordFailure(a, key, from, to)
    <2>1. CASE k = key
        <3>1. state'[k] = Recorded(state[k]) /\ shadow'[k] = Recorded(shadow[k])
            BY <1>3, <2>1 DEF RecordFailure, TypeOK
        <3>2. Recorded(state[k]) = Recorded(shadow[k])
            BY <1>1, SpentIsNone DEF Alike
        <3>3. Aged(shadow'[k])
            BY <1>1, <3>1, RecordedAged
        <3>. QED BY <3>1, <3>2, <3>3 DEF Alike
    <2>2. CASE k # key
        <3>1. state'[k] = state[k] /\ shadow'[k] = shadow[k]
            BY <1>3, <2>2 DEF RecordFailure, TypeOK
        <3>. QED BY <1>1, <3>1 DEF Alike
    <2>. QED BY <2>1, <2>2
<1>4. CASE RecordSuccess(a, key, from, to)
    <2>1. \/ state'[k] = None /\ shadow'[k] = None
          \/ state'[k] = state[k] /\ shadow'[k] = shadow[k]
        BY <1>4 DEF RecordSuccess, TypeOK
    <2>. QED BY <1>1, <2>1 DEF Alike, Aged
<1>. QED BY <1>2, <1>3, <1>4

(* A tick keeps every key alike its shadow.                                *)
LEMMA SweepTick == TypeOK /\ SweepInv /\ Tick => SweepInv'
<1>. SUFFICES ASSUME TypeOK, SweepInv, Tick, NEW k \in Keys PROVE Alike(k)'
    BY DEF SweepInv
<1>1. Alike(k) /\ shadow[k] \in Entry \cup {None}
    BY DEF SweepInv, TypeOK
<1>2. state'[k] = Older(state[k]) /\ shadow'[k] = Older(shadow[k])
    BY DEF Tick
<1>3. Older(None) = None
    BY DEF Older
<1>4. CASE shadow[k] = None
    BY <1>1, <1>2, <1>3, <1>4 DEF Alike, Spent, Aged
<1>5. CASE shadow[k] \in Entry
    BY <1>1, <1>2, <1>3, <1>5, OlderKeeps DEF Alike
<1>. QED BY <1>1, <1>4, <1>5

(* The sweep of stale entries never changes what Allow answers or          *)
(* RecordFailure counts, whatever the window, the lockout and the number   *)
(* of calls between sweeps.                                                *)
THEOREM SweepChangesNothing == Spec => []SweepInvisible
<1>1. Init => SweepInv
    BY DEF Init, SweepInv, Alike, Aged
<1>2. ASSUME TypeOK, SweepInv, [Next]_vars PROVE SweepInv'
    <2>1. CASE Tick
        BY <1>2, <2>1, SweepTick
    <2>2. CASE UNCHANGED <<state, shadow>>
        BY <1>2, <2>2 DEF SweepInv, Alike
    <2>3. ASSUME NEW a \in Attempts, Authenticate(a) PROVE SweepInv'
        <3>. USE <1>2, LoginKeys DEF Limiters
        <3>1. CASE UNCHANGED <<state, shadow>>
            BY <2>2, <3>1
        <3>2. CASE \/ SweepOccasionally(a, "byIP", "sweepIP", "allowIP")
                   \/ SweepOccasionally(a, "byUser", "sweepUser", "allowUser")
            BY <3>2, SweepSections
        <3>3. CASE \/ RecordFailure(a, login[a][1], "failIP", "failUser")
                   \/ RecordFailure(a, login[a][2], "failUser", "idle")
            BY <3>3, SweepSections
        <3>4. CASE \/ RecordSuccess(a, login[a][1], "succeedIP", "succeedUser")
                   \/ RecordSuccess(a, login[a][2], "succeedUser", "idle")
            BY <3>4, SweepSections
        <3>. QED BY <2>3, <3>1, <3>2, <3>3, <3>4 DEF Authenticate, Begin, Allow, Compare
    <2>. QED BY <1>2, <2>1, <2>2, <2>3 DEF Next, vars
<1>3. Spec => [](TypeOK /\ SweepInv)
    BY <1>1, <1>2, LimiterTypeCorrect, PTL DEF Spec
<1>. QED BY <1>3, AlikeActsAlike, PTL

-----------------------------------------------------------------------------
(***************************************************************************)
(* A lock holds if logins do not overlap: a login that gets as far as      *)
(* recording its outcome has found its keys unlocked, and nobody else has  *)
(* locked them since.                                                      *)
(***************************************************************************)

(* A lock ends only by the passage of its time: no login, no sweep and no  *)
(* new window shortens it (limiter.go:34-35).                              *)
LockHolds ==
    [][\A k \in Keys :
          Locked(state[k]) => /\ state'[k] # None
                              /\ state'[k].left >= state[k].left - 1]_vars

(* No two logins overlap.                                                 *)
Sequential == \A a, b \in Attempts : a = b

ClearIP(a) ==
    pc[a] \in {"sweepUser", "allowUser", "compare", "failIP", "succeedIP"} =>
        ~Locked(state[login[a][1]])

ClearUser(a) ==
    pc[a] \in {"compare", "failIP", "failUser", "succeedIP", "succeedUser"} =>
        ~Locked(state[login[a][2]])

ClearInv == \A a \in Attempts : ClearIP(a) /\ ClearUser(a)

(* Neither time nor a sweep locks a key.                                   *)
LEMMA StaysClear ==
    ASSUME TypeOK, NEW k \in Keys, ~Locked(state[k]),
           Tick \/ \E l \in Limiters : state' = Swept(l) \/ state' = state
    PROVE  ~Locked(state'[k])
<1>1. state[k] \in Entry \cup {None}
    BY DEF TypeOK
<1>2. CASE Tick
    <2>1. state'[k] = Older(state[k])
        BY <1>2 DEF Tick
    <2>2. CASE state[k] = None
        BY <2>1, <2>2 DEF Older, Locked
    <2>3. CASE state[k] \in Entry
        <3>1. state[k].left = 0
            BY <2>3, NoneIsNoEntry, Bounds DEF Locked, Entry
        <3>. QED BY <2>1, <2>3, <3>1, OlderFacts DEF Locked
    <2>. QED BY <1>1, <2>2, <2>3
<1>3. CASE \E l \in Limiters : state' = Swept(l) \/ state' = state
    <2>1. state'[k] = state[k] \/ state'[k] = None
        BY <1>3 DEF Swept
    <2>. QED BY <2>1 DEF Locked
<1>. QED BY <1>2, <1>3

(* A step of a login that is alone keeps its keys clear.                   *)
LEMMA ClearStep ==
    ASSUME TypeOK, ClearInv, Sequential, [Next]_vars
    PROVE  ClearInv'
<1>. SUFFICES ASSUME NEW a \in Attempts PROVE (ClearIP(a) /\ ClearUser(a))'
    BY DEF ClearInv
<1>. DEFINE ip == login[a][1]
            user == login[a][2]
<1>0. /\ ClearIP(a) /\ ClearUser(a)
      /\ ip \in IPs /\ user \in Users /\ ip \in Keys /\ user \in Keys /\ ip # user
      /\ pc \in [Attempts -> LoginSteps] /\ state \in [Keys -> Entry \cup {None}]
    BY LoginKeys, LimiterAssumption DEF ClearInv, TypeOK, LoginSteps
<1>1. CASE Tick
    BY <1>0, <1>1, StaysClear DEF Tick, ClearIP, ClearUser
<1>2. CASE UNCHANGED vars
    BY <1>0, <1>2 DEF vars, ClearIP, ClearUser
<1>3. CASE \E i \in IPs, u \in Users : Begin(a, i, u)
    <2>1. pc'[a] = "sweepIP"
        BY <1>0, <1>3 DEF Begin, GoTo
    <2>. QED BY <2>1 DEF ClearIP, ClearUser
<1>4. CASE \/ SweepOccasionally(a, "byIP", "sweepIP", "allowIP")
           \/ SweepOccasionally(a, "byUser", "sweepUser", "allowUser")
    <2>1. /\ \E l \in Limiters : state' = Swept(l) \/ state' = state
          /\ login' = login
        BY <1>4 DEF SweepOccasionally, Limiters
    <2>2. \/ pc[a] = "sweepIP" /\ pc'[a] = "allowIP"
          \/ pc[a] = "sweepUser" /\ pc'[a] = "allowUser"
        BY <1>0, <1>4 DEF SweepOccasionally, GoTo
    <2>3. ~Locked(state[ip]) => ~Locked(state'[ip])
        BY <1>0, <2>1, StaysClear
    <2>. QED BY <1>0, <2>1, <2>2, <2>3 DEF ClearIP, ClearUser
<1>5. CASE \/ Allow(a, ip, "allowIP", "sweepUser")
           \/ Allow(a, user, "allowUser", "compare")
    <2>1. \/ pc'[a] = "idle"
          \/ pc[a] = "allowIP" /\ pc'[a] = "sweepUser" /\ ~Locked(state[ip])
          \/ pc[a] = "allowUser" /\ pc'[a] = "compare" /\ ~Locked(state[user])
        BY <1>0, <1>5 DEF Allow, GoTo
    <2>2. UNCHANGED <<state, login>>
        BY <1>5 DEF Allow
    <2>. QED BY <1>0, <2>1, <2>2 DEF ClearIP, ClearUser
<1>6. CASE Compare(a)
    <2>1. pc[a] = "compare" /\ pc'[a] \in {"failIP", "succeedIP"} /\ UNCHANGED <<state, login>>
        BY <1>0, <1>6 DEF Compare, GoTo
    <2>. QED BY <1>0, <2>1 DEF ClearIP, ClearUser
<1>7. CASE \/ RecordFailure(a, ip, "failIP", "failUser")
           \/ RecordSuccess(a, ip, "succeedIP", "succeedUser")
    <2>1. /\ pc[a] \in {"failIP", "succeedIP"} /\ pc'[a] \in {"failUser", "succeedUser"}
          /\ state'[user] = state[user] /\ login' = login
        BY <1>0, <1>7 DEF RecordFailure, RecordSuccess, GoTo
    <2>. QED BY <1>0, <2>1 DEF ClearIP, ClearUser
<1>8. CASE \/ RecordFailure(a, user, "failUser", "idle")
           \/ RecordSuccess(a, user, "succeedUser", "idle")
    <2>1. pc'[a] = "idle"
        BY <1>0, <1>8 DEF RecordFailure, RecordSuccess, GoTo
    <2>. QED BY <2>1 DEF ClearIP, ClearUser
<1>. QED BY <1>1, <1>2, <1>3, <1>4, <1>5, <1>6, <1>7, <1>8
         DEF Next, Authenticate, Sequential

(* No tick, sweep or step of a login with clear keys shortens a lock.      *)
LEMMA LockHoldsStep ==
    ASSUME TypeOK, ClearInv, [Next]_vars, NEW k \in Keys, Locked(state[k])
    PROVE  state'[k] # None /\ state'[k].left >= state[k].left - 1
<1>0. state[k] \in Entry /\ state[k].left \in Nat /\ state[k].left > 0
    BY Bounds DEF TypeOK, Locked, Entry
<1>1. CASE state'[k] = state[k]
    BY <1>0, <1>1, NoneIsNoEntry
<1>2. CASE Tick
    <2>1. state'[k] = Older(state[k])
        BY <1>2 DEF Tick
    <2>. QED BY <1>0, <2>1, OlderFacts, NoneIsNoEntry
<1>3. ASSUME NEW a \in Attempts, Authenticate(a), state'[k] # state[k]
      PROVE  FALSE
    <2>1. ClearIP(a) /\ ClearUser(a)
        BY DEF ClearInv
    <2>2. CASE UNCHANGED state
        BY <1>3, <2>2
    <2>3. CASE \E l, from, to : SweepOccasionally(a, l, from, to)
        <3>1. Stale(state[k])
            BY <1>3, <2>3 DEF SweepOccasionally, Swept
        <3>. QED BY <1>0, <3>1 DEF Stale
    <2>4. CASE \/ RecordFailure(a, login[a][1], "failIP", "failUser")
               \/ RecordSuccess(a, login[a][1], "succeedIP", "succeedUser")
        <3>1. k = login[a][1]
            BY <1>3, <2>4 DEF RecordFailure, RecordSuccess, TypeOK
        <3>2. pc[a] \in {"failIP", "succeedIP"}
            BY <2>4 DEF RecordFailure, RecordSuccess, GoTo
        <3>. QED BY <2>1, <3>1, <3>2 DEF ClearIP
    <2>5. CASE \/ RecordFailure(a, login[a][2], "failUser", "idle")
               \/ RecordSuccess(a, login[a][2], "succeedUser", "idle")
        <3>1. k = login[a][2]
            BY <1>3, <2>5 DEF RecordFailure, RecordSuccess, TypeOK
        <3>2. pc[a] \in {"failUser", "succeedUser"}
            BY <2>5 DEF RecordFailure, RecordSuccess, GoTo
        <3>. QED BY <2>1, <3>1, <3>2 DEF ClearUser
    <2>. QED BY <1>3, <2>2, <2>3, <2>4, <2>5 DEF Authenticate, Begin, Allow, Compare
<1>. QED BY <1>1, <1>2, <1>3 DEF Next, vars

(* Without overlapping logins a lock ends only by the passage of its time, *)
(* whatever the thresholds.                                                *)
THEOREM SequentialLocksHold == Sequential => (Spec => LockHolds)
<1>. SUFFICES ASSUME Sequential PROVE Spec => LockHolds
    OBVIOUS
<1>1. Init => ClearInv
    BY DEF Init, ClearInv, ClearIP, ClearUser
<1>2. TypeOK /\ ClearInv /\ [Next]_vars => ClearInv'
    BY ClearStep
<1>3. Spec => [](TypeOK /\ ClearInv)
    BY <1>1, <1>2, LimiterTypeCorrect, PTL DEF Spec
<1>4. ASSUME TypeOK, ClearInv, [Next]_vars
      PROVE  [\A k \in Keys :
                 Locked(state[k]) => /\ state'[k] # None
                                     /\ state'[k].left >= state[k].left - 1]_vars
    BY <1>4, LockHoldsStep
<1>. QED BY <1>3, <1>4, PTL DEF Spec, LockHolds
==============================================================================
