------------------------------ MODULE RateLimiter ------------------------------
(***************************************************************************)
(* The gateway's rate limiter (services/gateway/app/rate_limit.py): for    *)
(* each client the times of the requests that it let through.  A request is*)
(* counted in one step of the event loop, before the handler is awaited.   *)
(* GET /health and preflight requests pass uncounted, and are no step here.*)
(***************************************************************************)
EXTENDS Naturals, Sequences, FiniteSets

CONSTANTS Clients,
          Limit,        \* requests_per_minute
          Window,       \* _window_seconds
          LastTime      \* bound: the clock

ASSUME LimiterAssumption ==
    Limit \in Nat \ {0} /\ Window \in Nat \ {0} /\ LastTime \in Nat

VARIABLES clock,        \* time.monotonic
          hits,         \* _hits
          passed,       \* history: when each request passed, by client
          refused       \* history: who was refused, and when

limiterVars == <<clock, hits, passed, refused>>

LimiterTypeOK ==
    /\ clock \in 0 .. LastTime
    /\ \A c \in Clients :
          hits[c] \in Seq(0 .. clock) /\ passed[c] \in Seq(0 .. clock)
    /\ refused \subseteq Clients \X (0 .. clock)

LimiterInit ==
    /\ clock = 0
    /\ hits = [c \in Clients |-> <<>>]
    /\ passed = [c \in Clients |-> <<>>]
    /\ refused = {}

Tick ==
    /\ clock < LastTime
    /\ clock' = clock + 1
    /\ UNCHANGED <<hits, passed, refused>>

(* What is left of a client's deque after those at its front that are      *)
(* older than age are popped, one by one.                                  *)
Popped(c, age) ==
    LET Old(i) == hits[c][i] + age < clock
        n == CHOOSE k \in 0 .. Len(hits[c]) :
               /\ \A i \in 1 .. k : Old(i)
               /\ k < Len(hits[c]) => ~Old(k + 1)
    IN SubSeq(hits[c], n + 1, Len(hits[c]))

(* Mutant: a hit as old as the window is dropped too late. *)
RecentLater(c) == Popped(c, Window + 1)

Recent(c) == Popped(c, Window)

Dispatch(c) ==
    /\ IF Len(Recent(c)) >= Limit
         THEN /\ hits' = [hits EXCEPT ![c] = Recent(c)]
              /\ refused' = refused \cup {<<c, clock>>}
              /\ UNCHANGED passed
         ELSE /\ hits' = [hits EXCEPT ![c] = Append(Recent(c), clock)]
              /\ passed' = [passed EXCEPT ![c] = Append(@, clock)]
              /\ UNCHANGED refused
    /\ UNCHANGED clock

(* The counts are in memory.                                               *)
GatewayRestart ==
    /\ hits' = [c \in Clients |-> <<>>]
    /\ passed' = [c \in Clients |-> <<>>] /\ refused' = {}
    /\ UNCHANGED clock

LimiterNext ==
    \/ Tick \/ GatewayRestart
    \/ \E c \in Clients : Dispatch(c)

LimiterSpec == LimiterInit /\ [][LimiterNext]_limiterVars

-----------------------------------------------------------------------------
PassedBetween(c, from, to) ==
    Cardinality({i \in 1 .. Len(passed[c]) : passed[c][i] \in from .. to})

(* Since the gateway was started, a client is let through at most Limit    *)
(* times in any window, both its ends included; and it is only refused when*)
(* it was let through as often in the window that ends with the refusal,   *)
(* however often it was refused before: refusals are not counted, nor what *)
(* others do.                                                              *)
LimitIsExact ==
    /\ \A c \in Clients, t \in 0 .. clock :
          PassedBetween(c, t, t + Window) <= Limit
    /\ \A r \in refused :
          PassedBetween(r[1], IF r[2] < Window THEN 0 ELSE r[2] - Window, r[2])
             = Limit
=============================================================================
