----------------------------- MODULE AuthLimiter -----------------------------
(***************************************************************************)
(* Authenticator.Authenticate and its two Limiters, by client address and  *)
(* by user name, under concurrent logins.                                  *)
(*                                                                         *)
(* A login is a sequence of calls, each a section under the mutex of one   *)
(* Limiter, with a password comparison in between that takes long: other   *)
(* logins and the clock move on.  Times are kept as distances from now,    *)
(* which Tick moves, and saturate just above the largest value that the    *)
(* code compares them with; so the clock needs no bound.                   *)
(***************************************************************************)
EXTENDS Integers

CONSTANTS
    IPs, Users,     \* client addresses, user names that clients try
    Known,          \* the user names that are configured
    Attempts,       \* connections that log in concurrently
    MaxFailures,    \* authMaxFailures
    Window,         \* authWindow, in ticks
    Lockout,        \* authLockout, in ticks
    Cap,            \* 32: the largest multiple of Lockout
    SweepEvery,     \* 256: calls of Allow between two sweeps
    None            \* a key that is not in Limiter.state

ASSUME LimiterAssumption ==
    /\ Known \subseteq Users
    /\ IPs \cap Users = {}
    /\ MaxFailures \in Nat \ {0}
    /\ Window \in Nat
    /\ Lockout \in Nat \ {0}
    /\ Cap \in Nat \ {0}
    /\ SweepEvery \in Nat \ {0}
    /\ None \notin [failures : Nat, age : Nat, left : Nat, idle : Nat]

VARIABLES
    state,      \* Limiter.state of both limiters
    calls,      \* Limiter.calls, modulo SweepEvery
    pc,         \* where Authenticate stands
    login,      \* its arguments, <<clientIP, username>>
    shadow      \* history: what state would be without any sweep

vars == <<state, calls, pc, login, shadow>>

Keys == IPs \cup Users

Limiters == {"byIP", "byUser"}

KeysOf(l) == IF l = "byIP" THEN IPs ELSE Users

(* How long an entry without activity is kept: window + lockout*32.        *)
Retention == Window + Lockout * Cap

(* attemptState: age = now - windowStart, left = lockedUntil - now or 0,   *)
(* idle = now - lastActivity.                                              *)
Entry == [failures : Nat, age : 0..(Window + 1), left : 0..(Lockout * Cap),
          idle : 0..(Retention + 1)]

Init ==
    /\ state = [k \in Keys |-> None]
    /\ calls = [l \in Limiters |-> 0]
    /\ pc = [a \in Attempts |-> "idle"]
    /\ login \in [Attempts -> IPs \X Users]
    /\ shadow = state

-----------------------------------------------------------------------------
(***************************************************************************)
(* The sections of Limiter.                                                *)
(***************************************************************************)

(* now.Before(s.lockedUntil)                                               *)
Locked(e) == e # None /\ e.left > 0

(* Mutant: the multiplier is not capped.                                   *)
LockoutForUncapped(failures) == Lockout * (failures - MaxFailures + 1)

(* The lockout for a number of failures: each one beyond the threshold     *)
(* makes it longer, up to Cap times.                                       *)
LockoutFor(failures) ==
    LET multiplier == failures - MaxFailures + 1
    IN  Lockout * (IF multiplier > Cap THEN Cap ELSE multiplier)

(* Mutant: the failure that reaches the limit does not lock yet.           *)
RecordedLocksLate(e) ==
    LET s == IF e = None \/ e.age > Window
             THEN [failures |-> 0, age |-> 0, left |-> 0, idle |-> 0]
             ELSE e
        n == s.failures + 1
    IN  [failures |-> n,
         age |-> s.age,
         left |-> IF n > MaxFailures THEN LockoutFor(n) ELSE s.left,
         idle |-> 0]

(* Mutant: failures add up although the window is over.                    *)
RecordedForgetsNothing(e) ==
    LET s == IF e = None THEN [failures |-> 0, age |-> 0, left |-> 0, idle |-> 0] ELSE e
        n == s.failures + 1
    IN  [failures |-> n,
         age |-> s.age,
         left |-> IF n >= MaxFailures THEN LockoutFor(n) ELSE s.left,
         idle |-> 0]

(* RecordFailure: the window restarts if the last one is over.             *)
Recorded(e) ==
    LET s == IF e = None \/ e.age > Window
             THEN [failures |-> 0, age |-> 0, left |-> 0, idle |-> 0]
             ELSE e
        n == s.failures + 1
    IN  [failures |-> n,
         age |-> s.age,
         left |-> IF n >= MaxFailures THEN LockoutFor(n) ELSE s.left,
         idle |-> 0]

(* Mutant: an entry is dropped as soon as its lock is over.                *)
StaleEarly(e) == e.left = 0

(* sweepOccasionally drops an entry that has been idle for long and is not *)
(* locked.                                                                 *)
Stale(e) == e.idle > Retention /\ e.left = 0

Swept(l) ==
    [k \in Keys |-> IF k \in KeysOf(l) /\ state[k] # None /\ Stale(state[k])
                    THEN None ELSE state[k]]

-----------------------------------------------------------------------------
(***************************************************************************)
(* Authenticate.                                                           *)
(***************************************************************************)

GoTo(a, from, to) == pc[a] = from /\ pc' = [pc EXCEPT ![a] = to]

Begin(a, ip, user) ==
    /\ GoTo(a, "idle", "sweepIP")
    /\ login' = [login EXCEPT ![a] = <<ip, user>>]
    /\ UNCHANGED <<state, calls, shadow>>

(* Allow, first section: every SweepEvery-th call sweeps.                  *)
SweepOccasionally(a, l, from, to) ==
    /\ GoTo(a, from, to)
    /\ calls' = [calls EXCEPT ![l] = (@ + 1) % SweepEvery]
    /\ state' = IF calls'[l] = 0 THEN Swept(l) ELSE state
    /\ UNCHANGED <<login, shadow>>

(* Mutant: an attempt on a locked key starts the longest lockout again.    *)
AllowProlongsLock(a, key, from, to) ==
    /\ GoTo(a, from, IF Locked(state[key]) THEN "idle" ELSE to)
    /\ state' = IF Locked(state[key]) THEN [state EXCEPT ![key].left = Lockout * Cap] ELSE state
    /\ UNCHANGED <<calls, login, shadow>>

(* Allow, second section: a locked key ends the login, and counts nothing. *)
Allow(a, key, from, to) ==
    /\ GoTo(a, from, IF Locked(state[key]) THEN "idle" ELSE to)
    /\ UNCHANGED <<state, calls, login, shadow>>

(* The comparison with the stored hash, or with dummyHash for a user that  *)
(* is not known, which never succeeds.                                     *)
Compare(a) ==
    /\ \/ GoTo(a, "compare", "failIP")
       \/ login[a][2] \in Known /\ GoTo(a, "compare", "succeedIP")
    /\ UNCHANGED <<state, calls, login, shadow>>

RecordFailure(a, key, from, to) ==
    /\ GoTo(a, from, to)
    /\ state' = [state EXCEPT ![key] = Recorded(@)]
    /\ shadow' = [shadow EXCEPT ![key] = Recorded(@)]
    /\ UNCHANGED <<calls, login>>

RecordSuccess(a, key, from, to) ==
    /\ GoTo(a, from, to)
    /\ state' = [state EXCEPT ![key] = None]
    /\ shadow' = [shadow EXCEPT ![key] = None]
    /\ UNCHANGED <<calls, login>>

(* Mutant: the limiter of the user name is not asked.                      *)
AuthenticateAsksIPOnly(a) ==
    \/ \E ip \in IPs, user \in Users : Begin(a, ip, user)
    \/ SweepOccasionally(a, "byIP", "sweepIP", "allowIP")
    \/ Allow(a, login[a][1], "allowIP", "compare")
    \/ Compare(a)
    \/ RecordFailure(a, login[a][1], "failIP", "failUser")
    \/ RecordFailure(a, login[a][2], "failUser", "idle")
    \/ RecordSuccess(a, login[a][1], "succeedIP", "succeedUser")
    \/ RecordSuccess(a, login[a][2], "succeedUser", "idle")

Authenticate(a) ==
    \/ \E ip \in IPs, user \in Users : Begin(a, ip, user)
    \/ SweepOccasionally(a, "byIP", "sweepIP", "allowIP")
    \/ Allow(a, login[a][1], "allowIP", "sweepUser")
    \/ SweepOccasionally(a, "byUser", "sweepUser", "allowUser")
    \/ Allow(a, login[a][2], "allowUser", "compare")
    \/ Compare(a)
    \/ RecordFailure(a, login[a][1], "failIP", "failUser")
    \/ RecordFailure(a, login[a][2], "failUser", "idle")
    \/ RecordSuccess(a, login[a][1], "succeedIP", "succeedUser")
    \/ RecordSuccess(a, login[a][2], "succeedUser", "idle")

UpTo(n, max) == IF n > max THEN max ELSE n

Older(e) ==
    IF e = None THEN None
    ELSE [e EXCEPT !.age = UpTo(@ + 1, Window + 1),
                   !.left = IF @ > 0 THEN @ - 1 ELSE 0,
                   !.idle = UpTo(@ + 1, Retention + 1)]

Tick ==
    /\ state' = [k \in Keys |-> Older(state[k])]
    /\ shadow' = [k \in Keys |-> Older(shadow[k])]
    /\ UNCHANGED <<calls, pc, login>>

Next == Tick \/ \E a \in Attempts : Authenticate(a)

Spec == Init /\ [][Next]_vars

(* Time passes.  Nothing is assumed of the clients.                        *)
FairSpec == Spec /\ WF_vars(Tick)

-----------------------------------------------------------------------------
(***************************************************************************)
(* Properties.                                                             *)
(***************************************************************************)

(* The values of the variables.                                            *)
TypeOK ==
    /\ state \in [Keys -> Entry \cup {None}]
    /\ shadow \in [Keys -> Entry \cup {None}]
    /\ calls \in [Limiters -> 0..(SweepEvery - 1)]
    /\ pc \in [Attempts -> {"idle", "sweepIP", "allowIP", "sweepUser", "allowUser",
                            "compare", "failIP", "failUser", "succeedIP", "succeedUser"}]
    /\ login \in [Attempts -> IPs \X Users]

(* The sweep only saves memory: for every key, now and at any later time,  *)
(* the next Allow answers and the next RecordFailure counts as if no entry *)
(* had ever been swept (limiter.go:105-120).                               *)
SweepInvisible ==
    \A k \in Keys :
        /\ Locked(state[k]) = Locked(shadow[k])
        /\ Recorded(state[k]) = Recorded(shadow[k])

(* A lock ends: attempts on a locked key do not prolong it, and those that *)
(* were under way when it was set are finitely many (authenticator.go:55). *)
LockExpires == \A k \in Keys : Locked(state[k]) ~> ~Locked(state[k])
==============================================================================
