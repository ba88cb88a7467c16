--------------------------- MODULE ProviderCache ---------------------------
(***************************************************************************)
(* A model provider behind retries and a cache (internal/providers/cache.go*)
(* and retry.go).  The cache has a lock; CachedProvider.Chat looks up, asks*)
(* the provider and stores in three steps, so callers interleave.          *)
(*                                                                         *)
(* A request is its cache key and what the key leaves out (system prompt,  *)
(* stop sequences, tool choice, response format): requests with one key may*)
(* differ, and get each other's answers.  An answer is the request it was  *)
(* made for.  The clock counts the calls of Set; entries live for Ttl.     *)
(***************************************************************************)
EXTENDS Integers, FiniteSets, FiniteSetsExt

CONSTANTS ChatCallers,  \* goroutines that call Chat
          Prompts,      \* the requests
          KeyOf,        \* the cache key of each
          CacheSize,    \* maxSize
          Ttl,          \* ttl
          MaxAttempts,  \* of the retries
          MaxTime       \* bound on the clock

CacheKeys == {KeyOf[p] : p \in Prompts}

VARIABLES store,        \* the entries, by key
          now,          \* the time
          chat,         \* the call each caller is in
          lastUse       \* ghost: when each key was last set or hit

cacheVars == <<store, now, chat, lastUse>>

NoChat == [at |-> "idle"]

CacheInit ==
  /\ store = <<>> /\ now = 0
  /\ chat = [c \in ChatCallers |-> NoChat]
  /\ lastUse = [k \in CacheKeys |-> 0]

\* The entries that have expired at the time t.
Expired(t) == {k \in DOMAIN store : t > store[k].expiresAt}

\* InMemoryCache.Set, at the time t: at the limit the expired entries go, and if
\* there is still no room the one that expires first; also when the key is
\* there already.
Evicted(t) ==
  IF Cardinality(DOMAIN store) < CacheSize THEN {}
  ELSE LET kept == DOMAIN store \ Expired(t)
       IN  IF Cardinality(kept) < CacheSize THEN Expired(t)
           ELSE Expired(t) \cup
                {CHOOSE k \in kept : \A j \in kept : store[k].expiresAt <= store[j].expiresAt}

CacheSet(k, answer, t) ==
  store' = [j \in (DOMAIN store \ Evicted(t)) \cup {k} |->
              IF j = k THEN [value |-> answer, expiresAt |-> t + Ttl] ELSE store[j]]

\* Chat: InMemoryCache.Get, which drops the entry when it has expired.
Lookup(c, p) ==
  LET k == KeyOf[p]
      hit == k \in DOMAIN store \ Expired(now)
  IN  /\ chat[c] = NoChat
      /\ chat' = [chat EXCEPT ![c] =
           IF hit THEN [at |-> "returned", prompt |-> p, answer |-> store[k].value, tries |-> 0]
           ELSE [at |-> "asks", prompt |-> p, answer |-> p, tries |-> 0]]
      /\ store' = [j \in DOMAIN store \ ({k} \cap Expired(now)) |-> store[j]]
      /\ lastUse' = IF hit THEN [lastUse EXCEPT ![k] = now] ELSE lastUse
      /\ UNCHANGED now

\* RetryableProvider.Chat: an error that can be retried, while attempts are left.
TryAgain(c) ==
  /\ chat[c].at = "asks" /\ chat[c].tries + 1 < MaxAttempts
  /\ chat' = [chat EXCEPT ![c].tries = @ + 1]
  /\ UNCHANGED <<store, now, lastUse>>

\* Another error, the last attempt, or the context is done: nothing is stored.
AskFails(c) ==
  /\ chat[c].at = "asks"
  /\ chat' = [chat EXCEPT ![c] = NoChat]
  /\ UNCHANGED <<store, now, lastUse>>

Answered(c) ==
  /\ chat[c].at = "asks"
  /\ chat' = [chat EXCEPT ![c].at = "stores"]
  /\ UNCHANGED <<store, now, lastUse>>

StoreAnswer(c) ==
  /\ chat[c].at = "stores" /\ now < MaxTime
  /\ now' = now + 1
  /\ CacheSet(KeyOf[chat[c].prompt], chat[c].prompt, now + 1)
  /\ lastUse' = [lastUse EXCEPT ![KeyOf[chat[c].prompt]] = now + 1]
  /\ chat' = [chat EXCEPT ![c].at = "returned"]

ChatReturns(c) ==
  /\ chat[c].at = "returned"
  /\ chat' = [chat EXCEPT ![c] = NoChat]
  /\ UNCHANGED <<store, now, lastUse>>

TimePasses ==
  /\ now < MaxTime
  /\ now' = now + 1
  /\ UNCHANGED <<store, chat, lastUse>>

CacheNext ==
  \/ \E c \in ChatCallers : \/ \E p \in Prompts : Lookup(c, p)
                            \/ TryAgain(c) \/ AskFails(c) \/ Answered(c)
                            \/ StoreAnswer(c) \/ ChatReturns(c)
  \/ TimePasses

CacheSpec == CacheInit /\ [][CacheNext]_cacheVars

-----------------------------------------------------------------------------
(* Properties.                                                             *)

\* ARCHITECTURE.md: "Cache with LRU eviction".  An entry that is evicted before
\* it expires is the one that was used least recently.  It is not: a hit does
\* not save an entry, the oldest one goes.
EvictsLeastRecentlyUsed ==
  [][\A k \in DOMAIN store \ DOMAIN store' :
       k \notin Expired(now') =>
         \A j \in DOMAIN store \cap DOMAIN store' : lastUse[k] <= lastUse[j]]_cacheVars
=============================================================================
