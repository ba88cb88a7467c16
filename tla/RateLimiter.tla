---------------------------- MODULE RateLimiter ----------------------------
(***************************************************************************)
(* The rate limiter of the REST server (internal/server/rest/middleware.go *)
(* lines 18-112): a channel of tokens per client address, and a goroutine  *)
(* per request let in that gives its token back after 1/rps of a second.   *)
(*                                                                         *)
(* A limiter is a channel on the heap: a request keeps the one it looked   *)
(* up while the map may get another.  Time is the flag `stale': nobody     *)
(* touched the limiter for three intervals of Cleanup (15 minutes as       *)
(* configured), so no token of it is still out.                            *)
(***************************************************************************)
EXTENDS Integers, FiniteSets, Functions

CONSTANTS HttpRequests,     \* requests that may be in the middleware at once
          Addresses,    \* client addresses
          Limiters,     \* identities of the limiters made
          NoLimiter,    \* the map has none, or a request holds none
          BurstSize     \* tokens of a limiter

ASSUME BurstAssumption ==
  BurstSize \in Nat \ {0} /\ NoLimiter \notin Limiters \cup Addresses

VARIABLES clients,      \* rl.clients
          made,         \* ghost: the limiters made, each with its address
          tokens,       \* tokens in the channel of a limiter
          out,          \* goroutines that will give one back
          stale,        \* limiters whose lastAccess is too long ago
          req,          \* each request: its address, step and limiter
          cleaned       \* ghost: addresses whose limiter Cleanup removed

limiterVars == <<clients, made, tokens, out, stale, req, cleaned>>
channels == <<made, tokens, out>>

LimiterTypeOK ==
  /\ clients \in [Addresses -> Limiters \cup {NoLimiter}]
  /\ made \in [Limiters -> Addresses \cup {NoLimiter}]
  /\ tokens \in [Limiters -> 0..BurstSize] /\ out \in [Limiters -> 0..BurstSize]
  /\ stale \subseteq Limiters /\ cleaned \subseteq Addresses
  /\ req \in [HttpRequests -> [at : {"none", "found", "missed", "has"},
                           from : Addresses \cup {NoLimiter}, with : Limiters \cup {NoLimiter}]]

NoRequest == [at |-> "none", from |-> NoLimiter, with |-> NoLimiter]

LimiterInit ==
  /\ clients = [a \in Addresses |-> NoLimiter]
  /\ made = [l \in Limiters |-> NoLimiter]
  /\ tokens = [l \in Limiters |-> 0] /\ out = [l \in Limiters |-> 0]
  /\ stale = {} /\ cleaned = {}
  /\ req = [r \in HttpRequests |-> NoRequest]

Unmade == {l \in Limiters : made[l] = NoLimiter}
Has(r, l) == req' = [req EXCEPT ![r].with = l, ![r].at = "has"]

-----------------------------------------------------------------------------
(* getClientLimiter: a lookup, and a second critical section.              *)

Lookup(r, a) ==
  /\ req[r].at = "none"
  /\ req' = [req EXCEPT ![r] = [at |-> IF clients[a] = NoLimiter THEN "missed" ELSE "found",
                                from |-> a, with |-> clients[a]]]
  /\ UNCHANGED <<clients, channels, stale, cleaned>>

\* Whether the map still has the limiter is not looked at.
TouchLimiter(r) ==
  /\ req[r].at = "found"
  /\ stale' = stale \ {req[r].with}
  /\ req' = [req EXCEPT ![r].at = "has"]
  /\ UNCHANGED <<clients, channels, cleaned>>

\* Another request made it meanwhile; its lastAccess stays.
FindAfterAll(r) ==
  /\ req[r].at = "missed" /\ clients[req[r].from] # NoLimiter
  /\ Has(r, clients[req[r].from])
  /\ UNCHANGED <<clients, channels, stale, cleaned>>

MakeFor(r, l) ==
  /\ made' = [made EXCEPT ![l] = req[r].from]
  /\ tokens' = [tokens EXCEPT ![l] = BurstSize]
  /\ clients' = [clients EXCEPT ![req[r].from] = l]
  /\ Has(r, l)
  /\ UNCHANGED <<out, stale, cleaned>>

\* Mutant: without the second look at the map.
MakeUnchecked(r, l) ==
  /\ req[r].at = "missed" /\ l \in Unmade
  /\ MakeFor(r, l)

Make(r, l) ==
  /\ req[r].at = "missed" /\ l \in Unmade /\ clients[req[r].from] = NoLimiter
  /\ MakeFor(r, l)

-----------------------------------------------------------------------------
(* Middleware, the goroutines that give tokens back, and Cleanup.          *)

\* With a token the request goes on to the handlers, without one it is refused.
LetInOrRefuse(r) ==
  LET l == req[r].with IN
  /\ req[r].at = "has"
  /\ IF tokens[l] > 0
     THEN /\ tokens' = [tokens EXCEPT ![l] = @ - 1] /\ out' = [out EXCEPT ![l] = @ + 1]
     ELSE UNCHANGED <<tokens, out>>
  /\ req' = [req EXCEPT ![r] = NoRequest]
  /\ UNCHANGED <<clients, made, stale, cleaned>>

\* The send would block on a full channel.
GiveBack(l) ==
  /\ out[l] > 0 /\ tokens[l] < BurstSize
  /\ out' = [out EXCEPT ![l] = @ - 1] /\ tokens' = [tokens EXCEPT ![l] = @ + 1]
  /\ UNCHANGED <<clients, made, stale, req, cleaned>>

\* A long time passes without a request.
GrowStale(l) ==
  /\ made[l] # NoLimiter /\ out[l] = 0
  /\ \A r \in HttpRequests : req[r].at = "none"
  /\ stale' = stale \cup {l}
  /\ UNCHANGED <<clients, channels, req, cleaned>>

CleanupTick ==
  LET gone == {a \in Addresses : clients[a] \in stale} IN
  /\ gone # {}
  /\ clients' = [a \in Addresses |-> IF a \in gone THEN NoLimiter ELSE clients[a]]
  /\ cleaned' = cleaned \cup gone
  /\ UNCHANGED <<channels, stale, req>>

LimiterNext ==
  \/ CleanupTick
  \/ \E l \in Limiters : GiveBack(l) \/ GrowStale(l)
  \/ \E r \in HttpRequests : \/ TouchLimiter(r) \/ FindAfterAll(r) \/ LetInOrRefuse(r)
                         \/ \E a \in Addresses : Lookup(r, a)
                         \/ \E l \in Limiters : Make(r, l)

LimiterSpec == LimiterInit /\ [][LimiterNext]_limiterVars

-----------------------------------------------------------------------------
(* Properties.                                                             *)

LetIn(a) == SumFunctionOnSet(out, {l \in Limiters : made[l] = a})

\* Within the time a token takes to come back, a client gets at most BurstSize
\* requests in: two first requests that come at once end up with one limiter.  When
\* Cleanup removes a limiter between the two halves of getClientLimiter he has two.
BurstUntilCleanup == \A a \in Addresses \ cleaned : LetIn(a) <= BurstSize
=============================================================================
