--------------------------- MODULE RegistryCache ---------------------------
(***************************************************************************)
(* The MCP server's in-memory cache of the event-type registry             *)
(* (nt-mcp/src/registry_cache.rs).  The first calls of list_event_types    *)
(* fetch and wait; later ones are answered from the cache and may spawn a  *)
(* throttled refresh.  The server runs on tokio's current-thread runtime,  *)
(* so that what happens between two awaits is one step; fetches overlap    *)
(* and complete in any order, while the registry itself moves on.          *)
(***************************************************************************)
EXTENDS Naturals

CONSTANTS
  Calls,       \* invocations of list_event_types
  Interval,    \* min_refresh_interval
  Timeout,     \* HTTP_TIMEOUT of the shared client
  MaxVersion,  \* bound: registry versions 1..MaxVersion
  MaxTime      \* bound: the clock runs from 1 to MaxTime

ASSUME BoundsAssumption ==
  Interval \in Nat /\ Timeout \in Nat /\ MaxVersion \in Nat \ {0} /\ MaxTime \in Nat \ {0}

VARIABLES
  pc,        \* idle; waiting for a cold fetch; answered "ok" or "error"
  rows,      \* the registry version an "ok" call was answered with
  fetch,     \* the one fetch a call makes: its own, or the refresh it spawns
  resp,      \* the version in the fetch's response
  sentAt,    \* when the fetch was sent
  cache,     \* the version cached; 0 is None
  last,      \* last_refresh_at; 0 is None
  now,       \* Instant::now()
  server,    \* the version the registry is at: external
  since,     \* history: when the registry got to each version
  spawnedAt, \* history: when a call spawned a refresh; 0 for never
  earlier,   \* history: the calls answered "ok" when a call came in
  held       \* history: the cache when a call was answered

vars == <<pc, rows, fetch, resp, sentAt, cache, last, now, server, since, spawnedAt,
          earlier, held>>

Versions == 1..MaxVersion

-----------------------------------------------------------------------------
Init ==
  /\ pc = [c \in Calls |-> "idle"]
  /\ rows = [c \in Calls |-> 0]
  /\ fetch = [c \in Calls |-> "none"]
  /\ resp = [c \in Calls |-> 0]
  /\ sentAt = [c \in Calls |-> 0]
  /\ cache = 0
  /\ last = 0
  /\ now = 1
  /\ server = 1
  /\ since = [v \in Versions |-> 1]
  /\ spawnedAt = [c \in Calls |-> 0]
  /\ earlier = [c \in Calls |-> {}]
  /\ held = [c \in Calls |-> 0]

PastThrottleWindow == last = 0 \/ now >= last + Interval

(* Slip: the window starts over only when a refresh brings something.      *)
MaybeSpawnRefresh_NoStamp(c) ==
  IF PastThrottleWindow
    THEN /\ fetch' = [fetch EXCEPT ![c] = "queued"]
         /\ spawnedAt' = [spawnedAt EXCEPT ![c] = now]
         /\ UNCHANGED last
    ELSE UNCHANGED <<last, fetch, spawnedAt>>

(* maybe_spawn_refresh: last_refresh_at is checked and set under its lock. *)
MaybeSpawnRefresh(c) ==
  IF PastThrottleWindow
    THEN /\ last' = now
         /\ fetch' = [fetch EXCEPT ![c] = "queued"]
         /\ spawnedAt' = [spawnedAt EXCEPT ![c] = now]
    ELSE UNCHANGED <<last, fetch, spawnedAt>>

ComesIn(c) ==
  /\ pc[c] = "idle"
  /\ earlier' = [earlier EXCEPT ![c] = {d \in Calls : pc[d] = "ok"}]

(* list() on a warm cache: the snapshot is returned without an await.      *)
ListWarm(c) ==
  /\ cache # 0
  /\ ComesIn(c)
  /\ pc' = [pc EXCEPT ![c] = "ok"]
  /\ rows' = [rows EXCEPT ![c] = cache]
  /\ held' = [held EXCEPT ![c] = cache]
  /\ MaybeSpawnRefresh(c)
  /\ UNCHANGED <<resp, sentAt, cache, now, server, since>>

(* list() on an empty cache, up to the await.                              *)
ListCold(c) ==
  /\ cache = 0
  /\ ComesIn(c)
  /\ pc' = [pc EXCEPT ![c] = "waiting"]
  /\ fetch' = [fetch EXCEPT ![c] = "sent"]
  /\ sentAt' = [sentAt EXCEPT ![c] = now]
  /\ UNCHANGED <<rows, resp, cache, last, now, server, since, spawnedAt, held>>

(* The spawned task is polled for the first time.                          *)
PollRefresh(c) ==
  /\ fetch[c] = "queued"
  /\ fetch' = [fetch EXCEPT ![c] = "sent"]
  /\ sentAt' = [sentAt EXCEPT ![c] = now]
  /\ UNCHANGED <<pc, rows, resp, cache, last, now, server, since, spawnedAt, earlier, held>>

(* Slip: only the refresh writes the cache.                                *)
Commit_RefreshOnly(c) == IF pc[c] = "waiting" THEN UNCHANGED cache ELSE cache' = resp[c]

Commit(c) == cache' = resp[c]

(* The fetch returns rows: commit them, and answer a waiting call.         *)
FetchReturns(c) ==
  /\ fetch[c] = "answered"
  /\ fetch' = [fetch EXCEPT ![c] = "done"]
  /\ Commit(c)
  /\ IF pc[c] = "waiting"
       THEN /\ pc' = [pc EXCEPT ![c] = "ok"]
            /\ rows' = [rows EXCEPT ![c] = resp[c]]
            /\ held' = [held EXCEPT ![c] = resp[c]]
       ELSE UNCHANGED <<pc, rows, held>>
  /\ UNCHANGED <<resp, sentAt, last, now, server, since, spawnedAt, earlier>>

(* Slip: the error of a spawned refresh goes nowhere, and neither does     *)
(* that of a cold fetch.                                                   *)
FetchFails_Swallowed(c) ==
  /\ fetch[c] \in {"sent", "answered"} /\ pc[c] = "ok"
  /\ fetch' = [fetch EXCEPT ![c] = "done"]
  /\ UNCHANGED <<pc, rows, resp, sentAt, cache, last, now, server, since, spawnedAt, earlier,
                 held>>

(* A broken connection, HTTP_TIMEOUT, 401/403, another non-2xx status or a *)
(* body that is no registry: a waiting call fails, a refresh is swallowed. *)
FetchFails(c) ==
  /\ fetch[c] \in {"sent", "answered"}
  /\ fetch' = [fetch EXCEPT ![c] = "done"]
  /\ IF pc[c] = "waiting"
       THEN /\ pc' = [pc EXCEPT ![c] = "error"]
            /\ held' = [held EXCEPT ![c] = cache]
       ELSE UNCHANGED <<pc, held>>
  /\ UNCHANGED <<rows, resp, sentAt, cache, last, now, server, since, spawnedAt, earlier>>

-----------------------------------------------------------------------------
(* The registry server (external) and the clock                            *)

Respond(c) ==
  /\ fetch[c] = "sent"
  /\ fetch' = [fetch EXCEPT ![c] = "answered"]
  /\ resp' = [resp EXCEPT ![c] = server]
  /\ UNCHANGED <<pc, rows, sentAt, cache, last, now, server, since, spawnedAt, earlier, held>>

RegistryChanges ==
  /\ server < MaxVersion
  /\ server' = server + 1
  /\ since' = [since EXCEPT ![server + 1] = now]
  /\ UNCHANGED <<pc, rows, fetch, resp, sentAt, cache, last, now, spawnedAt, earlier, held>>

(* Slip: a client without a timeout, a request may hang for ever.          *)
Tick_NoTimeout ==
  /\ now < MaxTime
  /\ now' = now + 1
  /\ UNCHANGED <<pc, rows, fetch, resp, sentAt, cache, last, server, since, spawnedAt, earlier,
                 held>>

(* No fetch is still open when the client's timeout has passed.            *)
Tick ==
  /\ now < MaxTime
  /\ \A c \in Calls : fetch[c] \in {"sent", "answered"} => now < sentAt[c] + Timeout
  /\ now' = now + 1
  /\ UNCHANGED <<pc, rows, fetch, resp, sentAt, cache, last, server, since, spawnedAt, earlier,
                 held>>

CallStep(c) ==
  \/ ListWarm(c) \/ ListCold(c) \/ PollRefresh(c) \/ FetchReturns(c) \/ FetchFails(c)
  \/ Respond(c)

Next ==
  \/ \E c \in Calls : CallStep(c)
  \/ RegistryChanges
  \/ Tick

Spec == Init /\ [][Next]_vars

(* The runtime polls what is ready, and the client's timeout ends a fetch  *)
(* that the registry does not answer.                                      *)
Fairness ==
  \A c \in Calls : WF_vars(PollRefresh(c)) /\ WF_vars(FetchReturns(c) \/ FetchFails(c))

FairSpec == Spec /\ Fairness

-----------------------------------------------------------------------------
TypeOK ==
  /\ pc \in [Calls -> {"idle", "waiting", "ok", "error"}]
  /\ rows \in [Calls -> 0..MaxVersion]
  /\ fetch \in [Calls -> {"none", "queued", "sent", "answered", "done"}]
  /\ resp \in [Calls -> 0..MaxVersion]
  /\ sentAt \in [Calls -> 0..MaxTime]
  /\ cache \in 0..MaxVersion
  /\ last \in 0..MaxTime
  /\ now \in 1..MaxTime
  /\ server \in Versions
  /\ since \in [Versions -> 1..MaxTime]
  /\ spawnedAt \in [Calls -> 0..MaxTime]
  /\ earlier \in [Calls -> SUBSET Calls]
  /\ held \in [Calls -> 0..MaxVersion]

(* Once one call has been answered, no call that comes in later fails, and *)
(* each is answered with a registry that has existed: failed refreshes,    *)
(* late cold fetches and the throttle take nothing away.                   *)
OnceAnsweredAlwaysAnswered ==
  \A c \in Calls : /\ pc[c] = "error" => earlier[c] = {}
                   /\ pc[c] = "ok" => rows[c] \in 1..server

(* A busy session does not become one GET per call: two refreshes are      *)
(* spawned at least an interval apart.                                     *)
RefreshesSpaced ==
  \A c, d \in Calls :
     c # d /\ spawnedAt[c] # 0 /\ spawnedAt[d] # 0 =>
       spawnedAt[c] >= spawnedAt[d] + Interval \/ spawnedAt[d] >= spawnedAt[c] + Interval

(* Responses may be committed out of order, but not without limit: rows    *)
(* that give way to older ones had been out for no longer than the client's *)
(* timeout.                                                                *)
RegressionIsBounded ==
  [][cache' < cache => now <= since[cache] + Timeout]_vars

(* Every call is answered and every refresh ends, whatever the registry    *)
(* does.                                                                   *)
EveryFetchEnds ==
  \A c \in Calls : /\ pc[c] = "waiting" ~> pc[c] \in {"ok", "error"}
                   /\ fetch[c] = "queued" ~> fetch[c] = "done"

-----------------------------------------------------------------------------
(* The inductive invariant behind the safety properties                    *)

Open(c) == fetch[c] \in {"sent", "answered"}

(* Once there is an answer there is a cache, and a waiting call came in    *)
(* before the first.                                                       *)
WarmInv ==
  /\ cache <= server
  /\ \A c \in Calls : /\ pc[c] = "ok" => cache # 0
                      /\ pc[c] \in {"idle", "waiting"} => earlier[c] = {}
                      /\ fetch[c] = "queued" => pc[c] = "ok"
                      /\ pc[c] = "idle" => fetch[c] = "none"

(* A response is at most as old as its request, which is within its time.  *)
FetchInv ==
  /\ \A v \in Versions : since[v] <= now
  /\ \A v, w \in Versions : v <= w /\ w <= server => since[v] <= since[w]
  /\ \A c \in Calls : Open(c) => sentAt[c] <= now /\ now <= sentAt[c] + Timeout
  /\ \A c \in Calls : fetch[c] = "answered" =>
       /\ resp[c] \in 1..server
       /\ \A v \in Versions : resp[c] < v /\ v <= server => sentAt[c] <= since[v]

ThrottleInv ==
  \A c \in Calls : spawnedAt[c] <= last /\ last <= now /\ (pc[c] = "idle" => spawnedAt[c] = 0)

IInv == /\ TypeOK /\ WarmInv /\ FetchInv /\ ThrottleInv
        /\ OnceAnsweredAlwaysAnswered /\ RefreshesSpaced

-----------------------------------------------------------------------------
(* Statements of the repository the code does not live up to               *)

(* registry_cache.rs:11-13: "a transient registry failure must NOT         *)
(* propagate to the user-facing tool result when the cache already has     *)
(* data".                                                                  *)
FailureStaysHidden == \A c \in Calls : pc[c] = "error" => held[c] = 0
============================================================================
