---------------------------- MODULE RateLimiter -----------------------------
(***************************************************************************)
(* The two limiters that a request for a limited route passes: the global  *)
(* one of app.ts, which runs before authentication and so knows nobody,    *)
(* and the one of the route (rateLimiter.ts).  Each keeps its counts in    *)
(* the memory of the process (express-rate-limit's MemoryStore): a key's   *)
(* window starts with its first hit and is not extended by later ones.     *)
(* Time passes in ticks; a window is a number of ticks.                    *)
(***************************************************************************)
EXTENDS Integers, FiniteSetsExt

CONSTANTS
    Clients,      \* pairs of an address and a user agent
    Users,
    GlobalLimit, GlobalWindow,
    RouteLimit, RouteWindow,
    MaxRestarts   \* how often the process restarts (a bound)

ASSUME LimitsAssumption ==
    /\ GlobalLimit \in Nat \ {0} /\ RouteLimit \in Nat \ {0}
    /\ GlobalWindow \in Nat \ {0} /\ RouteWindow \in Nat \ {0}

\* keyGenerator: req.user is not set yet when the global limiter runs.
GlobalKey(c) == <<"global", c, "anonymous">>
RouteKey(c, u) == <<"route", c, u>>

Keys == {GlobalKey(c) : c \in Clients} \union {RouteKey(c, u) : c \in Clients, u \in Users}

Limit(k)  == IF k[1] = "global" THEN GlobalLimit ELSE RouteLimit
Window(k) == IF k[1] = "global" THEN GlobalWindow ELSE RouteWindow

VARIABLES
    hits,      \* totalHits of a key; beyond its limit no more is told apart
    left,      \* ticks until its resetTime, 0 when that has passed
    recent,    \* what was let through, by its age in ticks, for one window
    restarts

limiterVars == <<hits, left, recent, restarts>>

Ages(k) == 0 .. Window(k) - 1
NoneRecent(k) == [a \in Ages(k) |-> 0]

LimiterInit ==
    /\ hits = [k \in Keys |-> 0]
    /\ left = [k \in Keys |-> 0]
    /\ recent = [k \in Keys |-> NoneRecent(k)]
    /\ restarts = 0

\* Mutant: the window starts anew with every hit.
LeftExtended(k) == Window(k)

\* increment: a key whose resetTime has passed starts a window.
Left(k) == IF left[k] = 0 THEN Window(k) ELSE left[k]

\* Mutant: the count goes on from window to window.
HitsKept(k) == IF hits[k] > Limit(k) THEN hits[k] ELSE hits[k] + 1

Hits(k) ==
    IF left[k] = 0 THEN 1
    ELSE IF hits[k] > Limit(k) THEN hits[k] ELSE hits[k] + 1

\* Mutant: one request more than the limit.
PassesOneMore(k) == Hits(k) <= Limit(k) + 1
Passes(k) == Hits(k) <= Limit(k)

\* The keys of S are counted, and those of P let the request through.
Count(S, P) ==
    /\ hits' = [k \in Keys |-> IF k \in S THEN Hits(k) ELSE hits[k]]
    /\ left' = [k \in Keys |-> IF k \in S THEN Left(k) ELSE left[k]]
    /\ recent' = [k \in Keys |-> IF k \in P THEN [recent[k] EXCEPT ![0] = @ + 1] ELSE recent[k]]
    /\ UNCHANGED restarts

\* 429 from the global limiter: the route never sees the request.
RefusedGlobally(c) ==
    LET g == GlobalKey(c)
    IN  ~Passes(g) /\ Count({g}, {})

RefusedOnRoute(c, u) ==
    LET g == GlobalKey(c)
        k == RouteKey(c, u)
    IN  Passes(g) /\ ~Passes(k) /\ Count({g, k}, {g})

Admitted(c, u) ==
    LET g == GlobalKey(c)
        k == RouteKey(c, u)
    IN  Passes(g) /\ Passes(k) /\ Count({g, k}, {g, k})

\* Another route, or a request that fails to authenticate.
Elsewhere(c) ==
    LET g == GlobalKey(c)
    IN  Passes(g) /\ Count({g}, {g})

Tick ==
    /\ left' = [k \in Keys |-> IF left[k] = 0 THEN 0 ELSE left[k] - 1]
    /\ recent' = [k \in Keys |-> [a \in Ages(k) |-> IF a = 0 THEN 0 ELSE recent[k][a - 1]]]
    /\ UNCHANGED <<hits, restarts>>

Restart ==
    /\ restarts < MaxRestarts
    /\ restarts' = restarts + 1
    /\ hits' = [k \in Keys |-> 0] /\ left' = [k \in Keys |-> 0]
    /\ UNCHANGED recent

LimiterNext ==
    \/ \E c \in Clients :
         \/ RefusedGlobally(c) \/ Elsewhere(c)
         \/ \E u \in Users : RefusedOnRoute(c, u) \/ Admitted(c, u)
    \/ Tick \/ Restart

\* The clock does not stop; nobody is obliged to send anything.
LimiterSpec == LimiterInit /\ [][LimiterNext]_limiterVars /\ WF_limiterVars(Tick)

-----------------------------------------------------------------------------
(* Properties *)

LetThrough(k) == MapThenSumSet(LAMBDA a : recent[k][a], Ages(k))
Over(k) == left[k] > 0 /\ hits[k] > Limit(k)

\* In any period as long as its window a key gets at most twice its limit
\* through, once for each window the period touches, and once more for each
\* restart, which forgets the counts.
WindowBound == \A k \in Keys : LetThrough(k) <= Limit(k) * (2 + restarts)

\* A key is refused only if it got its whole limit through within one window:
\* what was refused, or refused by the other limiter, is not held against it.
RefusedForCause == \A k \in Keys : Over(k) => LetThrough(k) >= Limit(k)

\* Who is over the limit is let in again, however hard it goes on trying.
ShutOutEnds == \A k \in Keys : Over(k) ~> ~Over(k)

=============================================================================
