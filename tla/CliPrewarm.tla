------------------------------ MODULE CliPrewarm ------------------------------
(***************************************************************************)
(* The warm-up of a CLI provider (cli-prewarm.ts and its effect in            *)
(* Composer.tsx): when a route, a session with its provider, has settled for  *)
(* a second, one cycle of at most MaxAttempts requests is made.  The sets      *)
(* that keep cycles apart outlive the route.  A deadline that passes is a     *)
(* step; times are left out.                                                 *)
(***************************************************************************)
EXTENDS Naturals, FiniteSets

CONSTANTS None, Sids, Providers,
          CatalogIds,      \* CLI_CATALOG_IDS
          MaxAttempts,     \* CLI_PREWARM_MAX_ATTEMPTS
          MaxMoves         \* bound: changes of the route and of what it waits for

VARIABLES
  route, ready,        \* the session and provider on screen; model known and no stream
  timer,               \* the route the timer was armed for
  cycles,              \* the calls of runCliPrewarm under way
  inFlight, providerInFlight, succeeded, cooldowns,
  failures,            \* history: requests of a provider that failed since it answered or cooled
  moves

warmVars == <<route, ready, timer, cycles, inFlight, providerInFlight, succeeded, cooldowns,
              failures, moves>>

Routes == [sid : Sids, provider : Providers]

Init == /\ route = None /\ ready = FALSE /\ timer = None /\ cycles = {}
        /\ inFlight = {} /\ providerInFlight = {} /\ succeeded = {} /\ cooldowns = {}
        /\ failures = [p \in Providers |-> 0] /\ moves = 0

-------------------------------------------------------------------------------
\* The effect: the timer of the route left is cleared, one for the route shown armed.
Rerun(next, is) ==
  /\ moves < MaxMoves /\ moves' = moves + 1
  /\ route' = next /\ ready' = is
  /\ timer' = IF next # None /\ next.provider \in CatalogIds /\ is THEN next ELSE None
  /\ UNCHANGED <<cycles, inFlight, providerInFlight, succeeded, cooldowns, failures>>

Show(next) == next # route /\ \E is \in BOOLEAN : Rerun(next, is)
Turn == Rerun(route, ~ready)

\* Mutant: only the same route is kept from a second cycle.
MutMayStart(r) == r.provider \notin cooldowns /\ r \notin succeeded \cup inFlight

\* runCliPrewarm: nothing for a provider that cools or is being warmed, or a route that
\* was warmed.
MayStart(r) == /\ r.provider \notin cooldowns
               /\ r \notin succeeded \cup inFlight
               /\ r.provider \notin providerInFlight

TimerFires ==
  /\ timer # None
  /\ timer' = None
  /\ IF MayStart(timer)
     THEN /\ cycles' = cycles \cup {[route |-> timer, attempt |-> 1, waits |-> FALSE]}
          /\ inFlight' = inFlight \cup {timer}
          /\ providerInFlight' = providerInFlight \cup {timer.provider}
     ELSE UNCHANGED <<cycles, inFlight, providerInFlight>>
  /\ UNCHANGED <<route, ready, succeeded, cooldowns, failures, moves>>

-------------------------------------------------------------------------------
\* prewarmWithRetry.

Ended(c) == /\ cycles' = cycles \ {c}
            /\ inFlight' = inFlight \ {c.route}
            /\ providerInFlight' = providerInFlight \ {c.route.provider}

Warmed(c) == /\ ~c.waits
             /\ Ended(c)
             /\ succeeded' = succeeded \cup {c.route}
             /\ failures' = [failures EXCEPT ![c.route.provider] = 0]
             /\ UNCHANGED <<route, ready, timer, cooldowns, moves>>

\* A refusal, an answer that is not ok, or no answer.
Failed(c) ==
  /\ ~c.waits
  /\ failures' = [failures EXCEPT ![c.route.provider] = @ + 1]
  /\ IF c.attempt < MaxAttempts
     THEN /\ cycles' = (cycles \ {c}) \cup {[c EXCEPT !.waits = TRUE]}
          /\ UNCHANGED <<inFlight, providerInFlight, cooldowns>>
     ELSE Ended(c) /\ cooldowns' = cooldowns \cup {c.route.provider}
  /\ UNCHANGED <<route, ready, timer, succeeded, moves>>

Retries(c) ==
  /\ c.waits
  /\ cycles' = (cycles \ {c}) \cup {[route |-> c.route, attempt |-> c.attempt + 1, waits |-> FALSE]}
  /\ UNCHANGED <<route, ready, timer, inFlight, providerInFlight, succeeded, cooldowns, failures, moves>>

\* clearExpiredCooldowns.
Cooled(p) ==
  /\ p \in cooldowns
  /\ cooldowns' = cooldowns \ {p}
  /\ failures' = [failures EXCEPT ![p] = 0]
  /\ UNCHANGED <<route, ready, timer, cycles, inFlight, providerInFlight, succeeded, moves>>

Next == \/ Turn \/ TimerFires
        \/ \E next \in Routes \cup {None} : Show(next)
        \/ \E c \in cycles : Warmed(c) \/ Failed(c) \/ Retries(c)
        \/ \E p \in Providers : Cooled(p)

Spec == Init /\ [][Next]_warmVars

-------------------------------------------------------------------------------
\* However fast the user goes through sessions: a provider gets one request at a time,
\* no more than a cycle of failures before it is left alone, none while it is, and none
\* for a route that was warmed; and nothing is held back once no cycle is under way
\* (runCliPrewarm, prewarmWithRetry).
WarmSparing ==
  /\ \A c, d \in cycles : c.route.provider = d.route.provider => c = d
  /\ inFlight = {c.route : c \in cycles}
  /\ providerInFlight = {c.route.provider : c \in cycles}
  /\ \A c \in cycles : c.route \notin succeeded /\ c.route.provider \notin cooldowns
  /\ \A p \in Providers : failures[p] <= MaxAttempts

\* A route that has settled is warmed: what comes while its provider is busy with another
\* session is dropped and not tried again.  It does not hold.
SettledIsWarmed ==
  route # None /\ route.provider \in CatalogIds /\ ready =>
    timer = route \/ route \in inFlight \cup succeeded \/ route.provider \in cooldowns
================================================================================
