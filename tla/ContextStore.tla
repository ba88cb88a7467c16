---------------------------- MODULE ContextStore ----------------------------
(***************************************************************************)
(* The tiered context store (internal/context/store): a hot tier with a    *)
(* byte limit and least-recently-used eviction, a warm tier whose entries  *)
(* expire, a cold tier.  Each tier has a lock; Get, Set and Delete of the  *)
(* store go from tier to tier without a lock over the whole, so callers    *)
(* interleave between the tiers.                                           *)
(*                                                                         *)
(* An entry is its key and its content.  Contents in Unencodable cannot be *)
(* marshalled to JSON, the one error of the built-in tiers.  Subscribers,  *)
(* queries and snapshots are left out.                                     *)
(***************************************************************************)
EXTENDS Integers, Sequences, FiniteSets, SequencesExt

CONSTANTS Clerks,       \* goroutines that use the store
          KeysOf,       \* the keys each of them uses
          Contents,     \* what an entry may hold
          Absent,       \* no entry
          Unencodable,  \* contents for which json.Marshal fails
          Bytes,        \* estimateSize of an entry, by content
          HotBytes      \* maxBytes of the hot tier

Keys == UNION {KeysOf[c] : c \in Clerks}

ASSUME StoreAssumption ==
  /\ KeysOf \in [Clerks -> SUBSET Keys]
  /\ Absent \notin Contents
  /\ Unencodable \subseteq Contents
  /\ Bytes \in [Contents -> Nat \ {0}]
  /\ HotBytes \in Nat

VARIABLES hot,          \* content of each key in the hot tier
          lru,          \* keys of the hot tier, the most recently used first
          hotSize,      \* s.current
          warm, cold,   \* content of each key in the other tiers
          clerk,        \* the call each clerk is in
          legit         \* ghost: what a Get of each key may return

storeVars == <<hot, lru, hotSize, warm, cold, clerk, legit>>

Entry == Contents \cup {Absent}
NoCall == [call |-> "none", at |-> "none", key |-> Absent, content |-> Absent]
Calls == [call : {"get", "set", "delete"},
          at : {"hot", "warm", "cold", "fillHot", "fillBoth", "fillWarm", "returned"},
          key : Keys, content : Entry]

StoreTypeOK ==
  /\ hot \in [Keys -> Entry] /\ warm \in [Keys -> Entry] /\ cold \in [Keys -> Entry]
  /\ lru \in Seq(Keys)
  /\ hotSize \in Int
  /\ clerk \in [Clerks -> Calls \cup {NoCall}]
  /\ legit \in [Keys -> SUBSET Entry]

StoreInit ==
  /\ hot = [k \in Keys |-> Absent] /\ warm = hot /\ cold = hot
  /\ lru = <<>> /\ hotSize = 0
  /\ clerk = [c \in Clerks |-> NoCall]
  /\ legit = [k \in Keys |-> {Absent}]

-----------------------------------------------------------------------------
(* The hot tier.                                                           *)

SizeIn(tier, k) == IF tier[k] = Absent THEN 0 ELSE Bytes[tier[k]]
SizeOf(tier, ks) == SumFunctionOnSet([k \in Keys |-> SizeIn(tier, k)], ks)

\* HotStore.Get of a key that is there.
Touch(k) == lru' = <<k>> \o RemoveFirst(lru, k)

\* HotStore.Set with evict, base being s.current without the entry that is
\* replaced: entries leave from the back of the list until the new one fits, or
\* none is left.
HotPut(k, v, base) ==
  LET rest == RemoveFirst(lru, k)
      size(n) == base - SizeOf(hot, Range(SubSeq(rest, n + 1, Len(rest)))) + Bytes[v]
      kept == Max({0} \cup {n \in 1..Len(rest) : size(n) <= HotBytes})
  IN  /\ lru' = <<k>> \o SubSeq(rest, 1, kept)
      /\ hot' = [j \in Keys |-> IF j = k THEN v
                                ELSE IF j \in Range(SubSeq(rest, 1, kept)) THEN hot[j]
                                ELSE Absent]
      /\ hotSize' = size(kept)

\* Mutant: the entry that is replaced stays counted.
HotSetCountsTwice(k, v) == HotPut(k, v, hotSize)

HotSet(k, v) == HotPut(k, v, hotSize - SizeIn(hot, k))

HotDelete(k) ==
  /\ hot' = [hot EXCEPT ![k] = Absent]
  /\ lru' = RemoveFirst(lru, k)
  /\ hotSize' = hotSize - SizeIn(hot, k)

-----------------------------------------------------------------------------
(* Get, Set and Delete of the store.                                       *)

Goes(c, at) == clerk' = [clerk EXCEPT ![c].at = at]
Finds(c, v, at) == clerk' = [clerk EXCEPT ![c].content = v, ![c].at = at]
Returns(c) == Goes(c, "returned")
hotVars == <<hot, lru, hotSize>>

GetHot(c, k) ==
  /\ clerk[c] = NoCall
  /\ IF hot[k] # Absent
     THEN /\ Touch(k)
          /\ clerk' = [clerk EXCEPT ![c] =
               [call |-> "get", at |-> "returned", key |-> k, content |-> hot[k]]]
     ELSE /\ clerk' = [clerk EXCEPT ![c] =
               [call |-> "get", at |-> "warm", key |-> k, content |-> Absent]]
          /\ UNCHANGED lru
  /\ UNCHANGED <<hot, hotSize, warm, cold, legit>>

GetWarm(c) ==
  /\ clerk[c].call = "get" /\ clerk[c].at = "warm"
  /\ LET v == warm[clerk[c].key]
     IN  Finds(c, v, IF v # Absent THEN "fillHot" ELSE "cold")
  /\ UNCHANGED <<hotVars, warm, cold, legit>>

GetCold(c) ==
  /\ clerk[c].call = "get" /\ clerk[c].at = "cold"
  /\ LET v == cold[clerk[c].key]
     IN  Finds(c, v, IF v # Absent THEN "fillBoth" ELSE "returned")
  /\ UNCHANGED <<hotVars, warm, cold, legit>>

\* What was found further down is put into the hot tier.
FillHot(c) ==
  /\ clerk[c].call = "get" /\ clerk[c].at \in {"fillHot", "fillBoth"}
  /\ HotSet(clerk[c].key, clerk[c].content)
  /\ Goes(c, IF clerk[c].at = "fillBoth" THEN "fillWarm" ELSE "returned")
  /\ UNCHANGED <<warm, cold, legit>>

FillWarm(c) ==
  /\ clerk[c].call = "get" /\ clerk[c].at = "fillWarm"
  /\ warm' = [warm EXCEPT ![clerk[c].key] = clerk[c].content]
  /\ Returns(c)
  /\ UNCHANGED <<hotVars, cold, legit>>

SetHot(c, k, v) ==
  /\ clerk[c] = NoCall
  /\ HotSet(k, v)
  /\ clerk' = [clerk EXCEPT ![c] =
       [call |-> "set", at |-> "warm", key |-> k, content |-> v]]
  /\ UNCHANGED <<warm, cold, legit>>

\* When the entry cannot be encoded Set returns an error here: the hot tier
\* has the new entry, the other two have what they had.
SetWarm(c) ==
  /\ clerk[c].call = "set" /\ clerk[c].at = "warm"
  /\ LET k == clerk[c].key
         v == clerk[c].content
     IN  IF v \in Unencodable
         THEN /\ legit' = [legit EXCEPT ![k] = @ \cup {v}]
              /\ Returns(c)
              /\ UNCHANGED warm
         ELSE /\ warm' = [warm EXCEPT ![k] = v]
              /\ Goes(c, "cold")
              /\ UNCHANGED legit
  /\ UNCHANGED <<hotVars, cold>>

SetCold(c) ==
  /\ clerk[c].call = "set" /\ clerk[c].at = "cold"
  /\ cold' = [cold EXCEPT ![clerk[c].key] = clerk[c].content]
  /\ legit' = [legit EXCEPT ![clerk[c].key] = {clerk[c].content}]
  /\ Returns(c)
  /\ UNCHANGED <<hotVars, warm>>

\* Delete looks the entry up first, for the subscribers.
DeleteBegin(c, k) ==
  /\ clerk[c] = NoCall
  /\ IF hot[k] # Absent THEN Touch(k) ELSE UNCHANGED lru
  /\ clerk' = [clerk EXCEPT ![c] =
       [call |-> "delete", at |-> "hot", key |-> k, content |-> Absent]]
  /\ UNCHANGED <<hot, hotSize, warm, cold, legit>>

DeleteHot(c) ==
  /\ clerk[c].call = "delete" /\ clerk[c].at = "hot"
  /\ HotDelete(clerk[c].key)
  /\ Goes(c, "warm")
  /\ UNCHANGED <<warm, cold, legit>>

DeleteWarm(c) ==
  /\ clerk[c].call = "delete" /\ clerk[c].at = "warm"
  /\ warm' = [warm EXCEPT ![clerk[c].key] = Absent]
  /\ Goes(c, "cold")
  /\ UNCHANGED <<hotVars, cold, legit>>

\* Mutant: the cold tier keeps what was deleted.
DeleteColdNot(c) ==
  /\ clerk[c].call = "delete" /\ clerk[c].at = "cold"
  /\ legit' = [legit EXCEPT ![clerk[c].key] = {Absent}]
  /\ Returns(c)
  /\ UNCHANGED <<hotVars, warm, cold>>

DeleteCold(c) ==
  /\ clerk[c].call = "delete" /\ clerk[c].at = "cold"
  /\ cold' = [cold EXCEPT ![clerk[c].key] = Absent]
  /\ legit' = [legit EXCEPT ![clerk[c].key] = {Absent}]
  /\ Returns(c)
  /\ UNCHANGED <<hotVars, warm>>

Leaves(c) ==
  /\ clerk[c].at = "returned"
  /\ clerk' = [clerk EXCEPT ![c] = NoCall]
  /\ UNCHANGED <<hotVars, warm, cold, legit>>

\* The time to live of a warm entry is over.
Expire(k) ==
  /\ warm[k] # Absent
  /\ warm' = [warm EXCEPT ![k] = Absent]
  /\ UNCHANGED <<hotVars, cold, clerk, legit>>

ClerkStep(c) ==
  \/ \E k \in KeysOf[c] : GetHot(c, k) \/ DeleteBegin(c, k)
  \/ \E k \in KeysOf[c], v \in Contents : SetHot(c, k, v)
  \/ GetWarm(c) \/ GetCold(c) \/ FillHot(c) \/ FillWarm(c)
  \/ SetWarm(c) \/ SetCold(c)
  \/ DeleteHot(c) \/ DeleteWarm(c) \/ DeleteCold(c)
  \/ Leaves(c)

StoreNext == \/ \E c \in Clerks : ClerkStep(c)
             \/ \E k \in Keys : Expire(k)

StoreSpec == StoreInit /\ [][StoreNext]_storeVars

-----------------------------------------------------------------------------
(* Properties.                                                             *)

Private(c, k) == k \in KeysOf[c] /\ \A d \in Clerks \ {c} : k \notin KeysOf[d]

\* For a key that one caller alone uses the store is a map, whatever the others
\* do to keys of theirs and to shared ones, and whatever is evicted or expires:
\* Get returns what was set last, or nothing after a Delete.  A Set that
\* returned an error may or may not have taken effect.
OwnKeysAreAMap ==
  \A c \in Clerks :
    (clerk[c].call = "get" /\ clerk[c].at = "returned" /\ Private(c, clerk[c].key))
      => clerk[c].content \in legit[clerk[c].key]

\* The hot tier's byte count is that of its entries, its list names each of
\* them once, and it is within the limit unless a single entry is larger.
HotWithinLimit ==
  /\ hotSize = SizeOf(hot, Range(lru))
  /\ IsInjective(lru) /\ Range(lru) = {k \in Keys : hot[k] # Absent}
  /\ hotSize <= HotBytes \/ Len(lru) = 1
=============================================================================
