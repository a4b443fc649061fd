--------------------------- MODULE LimiterHistory ---------------------------
(***************************************************************************)
(* AuthLimiter with a memory: when each key failed, and which locks a      *)
(* login found when it began.  The variables here record what the steps of *)
(* AuthLimiter do and restrict none of them, so that the properties can    *)
(* compare the entries of the limiters with what really happened.          *)
(***************************************************************************)
EXTENDS AuthLimiter

VARIABLES
    recent,     \* how often a key failed in the last n ticks, without a success since
    free,       \* how often it failed then and was left unlocked
    found       \* the keys locked without a break since a login began

hvars == <<vars, recent, free, found>>

(* Counts over the last n ticks, for every n within the window.            *)
Span == 0..Window
Never == [n \in Span |-> 0]
OnceMore(count) == [n \in Span |-> count[n] + 1]
TickLater(count) == [n \in Span |-> IF n = 0 THEN 0 ELSE count[n - 1]]

HInit ==
    /\ Init
    /\ recent = [k \in Keys |-> Never]
    /\ free = [k \in Keys |-> Never]
    /\ found = [a \in Attempts |-> {}]

(* The step of a login, and the key that the step records an outcome for.  *)
Stepped(a) == pc'[a] # pc[a]

FailsNow(k) ==
    \E a \in Attempts : /\ Stepped(a)
                        /\ \/ pc[a] = "failIP" /\ k = login[a][1]
                           \/ pc[a] = "failUser" /\ k = login[a][2]

SucceedsNow(k) ==
    \E a \in Attempts : /\ Stepped(a)
                        /\ \/ pc[a] = "succeedIP" /\ k = login[a][1]
                           \/ pc[a] = "succeedUser" /\ k = login[a][2]

(* What becomes of a count of the failures of k, if this one counts.       *)
Counted(count, k, counts) ==
    IF SucceedsNow(k) THEN Never
    ELSE IF FailsNow(k) THEN (IF counts THEN OnceMore(count) ELSE count)
    ELSE IF pc' = pc THEN TickLater(count) ELSE count

Remember ==
    /\ recent' = [k \in Keys |-> Counted(recent[k], k, TRUE)]
    /\ free' = [k \in Keys |-> Counted(free[k], k, ~Locked(state'[k]))]
    /\ found' = [a \in Attempts |->
           {k \in Keys : /\ pc'[a] # "idle"
                         /\ pc[a] = "idle" \/ k \in found[a]
                         /\ Locked(state'[k])}]

HNext == Next /\ Remember

HSafe == HInit /\ [][HNext]_hvars

(* Time passes.  Nothing is assumed of the clients.                        *)
HSpec == HSafe /\ WF_hvars(Tick /\ Remember)

-----------------------------------------------------------------------------
(***************************************************************************)
(* Properties.                                                             *)
(***************************************************************************)

(* Nobody is locked out for old failures: when a key is locked, or its     *)
(* lock becomes longer, MaxFailures attempts since its last success have   *)
(* failed within the window (limiter.go:66-90).                            *)
LockJustified ==
    [][\A k \in Keys :
          Locked(state'[k]) /\ (~Locked(state[k]) \/ state'[k].left > state[k].left)
              => recent'[k][Window] >= MaxFailures]_hvars

(* What the limiters allow, since the window restarts and does not slide:  *)
(* within any time of the window's length and without a success, at most   *)
(* 2 * MaxFailures - 3 attempts on a key fail and leave it unlocked.  (A   *)
(* sliding window would leave MaxFailures - 1.)  The bound is reached when *)
(* all but the first failure of one window come at its end (limiter.go:74).*)
GuessesBounded ==
    \A k \in Keys : free[k][Window] = 0 \/ free[k][Window] <= 2 * MaxFailures - 3

(* A login that begins while one of its keys is locked cannot shorten a    *)
(* lock that it found; only logins that were past Allow already can, when  *)
(* they record their outcome late (limiter.go:99, authenticator.go:55).    *)
NewcomersCannotUnlock ==
    [][\A a \in Attempts, k \in Keys :
          Stepped(a) /\ k \in found[a] => /\ Locked(state'[k])
                                          /\ state'[k].left >= state[k].left]_hvars
=============================================================================
