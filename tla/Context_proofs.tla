--------------------------- MODULE Context_proofs ---------------------------
(***************************************************************************)
(* Proofs about the context layer (internal/context): the tiered store,    *)
(* the knowledge graph and the sessions.                                   *)
(***************************************************************************)
EXTENDS ContextStore, KnowledgeGraph, Session, DataLemmas

(***************************************************************************)
(* For a key of its own a caller finds in the store what it set last       *)
(* (OwnKeysAreAMap), for any number of callers, keys and contents.  The    *)
(* inductive invariant says, for the key k of the caller c, what each tier *)
(* may hold at each point of c's calls on k; no other caller writes k, it  *)
(* can only evict it from the hot tier.                                    *)
(***************************************************************************)

-----------------------------------------------------------------------------
(* Types.                                                                  *)

ContentsTyped ==
  /\ hot \in [Keys -> Entry] /\ warm \in [Keys -> Entry] /\ cold \in [Keys -> Entry]
  /\ legit \in [Keys -> SUBSET Entry]
  /\ clerk \in [Clerks -> Calls \cup {NoCall}]
  /\ \A c \in Clerks : clerk[c] # NoCall => clerk[c].key \in KeysOf[c]

\* HotSet gives the key its content; other keys keep theirs or are evicted.
LEMMA HotSetContents ==
  ASSUME hot \in [Keys -> Entry], NEW k \in Keys, NEW v \in Entry, HotSet(k, v)
  PROVE  /\ hot' \in [Keys -> Entry]
         /\ hot'[k] = v
         /\ \A j \in Keys : j # k => hot'[j] \in {hot[j], Absent}
<1>1. \A j \in Keys : hot'[j] \in Entry
  BY DEF HotSet, HotPut, Entry
<1>2. \A j \in Keys : j # k => hot'[j] \in {hot[j], Absent}
  BY DEF HotSet, HotPut
<1> QED
  BY <1>1, <1>2 DEF HotSet, HotPut

LEMMA HotDeleteContents ==
  ASSUME hot \in [Keys -> Entry], NEW k \in Keys, HotDelete(k)
  PROVE  /\ hot' \in [Keys -> Entry]
         /\ hot'[k] = Absent
         /\ \A j \in Keys : j # k => hot'[j] = hot[j]
BY DEF HotDelete, Entry

\* What a clerk is asked for is a key of its own.
LEMMA KeysAreKeys ==
  ASSUME NEW c \in Clerks, NEW k \in KeysOf[c]
  PROVE  k \in Keys
BY DEF Keys

\* A clerk in a call works on a key it uses, with a content.
LEMMA InCall ==
  ASSUME ContentsTyped, NEW c \in Clerks, clerk[c] # NoCall
  PROVE  /\ clerk[c].key \in KeysOf[c] /\ clerk[c].key \in Keys
         /\ clerk[c].content \in Entry
BY KeysAreKeys DEF ContentsTyped, Calls

\* A step of the clerk c leaves the types alone if it leaves c in a call on a
\* key of c, or in none.
LEMMA ClerkTyped ==
  ASSUME ContentsTyped, NEW c \in Clerks, NEW r \in Calls \cup {NoCall},
         r # NoCall => r.key \in KeysOf[c], clerk' = [clerk EXCEPT ![c] = r]
  PROVE  /\ clerk' \in [Clerks -> Calls \cup {NoCall}]
         /\ \A d \in Clerks : clerk'[d] # NoCall => clerk'[d].key \in KeysOf[d]
BY DEF ContentsTyped

\* Every step of a clerk keeps the types.
LEMMA ClerkStepTyped ==
  ASSUME ContentsTyped, NEW c \in Clerks, ClerkStep(c)
  PROVE  ContentsTyped'
<1> USE DEF ContentsTyped
<1>1. ASSUME NEW k \in KeysOf[c], GetHot(c, k)
      PROVE  ContentsTyped'
  BY <1>1, KeysAreKeys DEF GetHot, Calls, NoCall, Entry
<1>2. ASSUME NEW k \in KeysOf[c], NEW v \in Contents, SetHot(c, k, v)
      PROVE  ContentsTyped'
  BY <1>2, KeysAreKeys, HotSetContents DEF SetHot, Calls, NoCall, Entry
<1>3. ASSUME NEW k \in KeysOf[c], DeleteBegin(c, k)
      PROVE  ContentsTyped'
  BY <1>3, KeysAreKeys DEF DeleteBegin, Calls, NoCall, Entry
<1>4. CASE GetWarm(c)
  BY <1>4, InCall DEF GetWarm, Finds, hotVars, Calls, NoCall, Entry
<1>5. CASE GetCold(c)
  BY <1>5, InCall DEF GetCold, Finds, hotVars, Calls, NoCall, Entry
<1>6. CASE FillHot(c)
  BY <1>6, InCall, HotSetContents DEF FillHot, Goes, Calls, NoCall, Entry
<1>7. CASE FillWarm(c)
  BY <1>7, InCall DEF FillWarm, Returns, Goes, hotVars, Calls, NoCall, Entry
<1>8. CASE SetWarm(c)
  BY <1>8, InCall DEF SetWarm, Goes, Returns, hotVars, Calls, NoCall, Entry
<1>9. CASE SetCold(c)
  BY <1>9, InCall DEF SetCold, Returns, Goes, hotVars, Calls, NoCall, Entry
<1>10. CASE DeleteHot(c)
  BY <1>10, InCall, HotDeleteContents DEF DeleteHot, Goes, Calls, NoCall, Entry
<1>11. CASE DeleteWarm(c)
  BY <1>11, InCall DEF DeleteWarm, Goes, hotVars, Calls, NoCall, Entry
<1>12. CASE DeleteCold(c)
  BY <1>12, InCall DEF DeleteCold, Returns, Goes, hotVars, Calls, NoCall, Entry
<1>13. CASE Leaves(c)
  BY <1>13, InCall DEF Leaves, hotVars, Calls, NoCall, Entry
<1> QED
  BY <1>1, <1>2, <1>3, <1>4, <1>5, <1>6, <1>7, <1>8, <1>9, <1>10, <1>11, <1>12, <1>13 DEF ClerkStep

-----------------------------------------------------------------------------
(* The tiers, and the calls of c on a key k of its own.                    *)

During(c, k, kind, ats) == clerk[c].key = k /\ clerk[c].call = kind /\ clerk[c].at \in ats

\* While c sets k the hot tier has the new content or has evicted it, and from
\* the second tier on so has the warm tier; a Delete works its way down in the
\* same order.  Otherwise the warm tier has the content of the cold one or
\* nothing.  What a Get has read further down is still there.
Own(c, k) ==
  /\ cold[k] \in legit[k]
  /\ During(c, k, "set", {"warm", "cold"}) => hot[k] \in {Absent, clerk[c].content}
  /\ During(c, k, "set", {"cold"}) => warm[k] \in {Absent, clerk[c].content}
  /\ During(c, k, "delete", {"warm", "cold"}) => hot[k] = Absent
  /\ During(c, k, "delete", {"cold"}) => warm[k] = Absent
  /\ ~During(c, k, "set", {"cold"}) => warm[k] \in {Absent, cold[k]}
  /\ ~During(c, k, "set", {"warm", "cold"}) => hot[k] \in legit[k] \cup {Absent}
  /\ During(c, k, "get", {"fillHot", "fillBoth", "fillWarm"}) => clerk[c].content = cold[k]
  /\ During(c, k, "get", {"returned"}) => clerk[c].content \in legit[k]

\* What others do to k is to let it leave the upper tiers.
LEMMA EvictionKeepsOwn ==
  ASSUME NEW c, NEW k, Own(c, k),
         clerk'[c] = clerk[c], cold'[k] = cold[k], legit'[k] = legit[k],
         hot'[k] \in {hot[k], Absent}, warm'[k] \in {warm[k], Absent}
  PROVE  Own(c, k)'
BY DEF Own, During

\* The steps of the caller itself, on k or on another key.
LEMMA OwnStep ==
  ASSUME ContentsTyped, NEW c \in Clerks, NEW k \in KeysOf[c], Own(c, k), ClerkStep(c)
  PROVE  Own(c, k)'
<1> k \in Keys
  BY KeysAreKeys
<1> USE DEF ContentsTyped, Own, During
<1>1. ASSUME NEW j \in KeysOf[c], GetHot(c, j)
      PROVE  Own(c, k)'
  BY <1>1, KeysAreKeys DEF GetHot, NoCall, Entry
<1>2. ASSUME NEW j \in KeysOf[c], NEW v \in Contents, SetHot(c, j, v)
      PROVE  Own(c, k)'
  BY <1>2, KeysAreKeys, HotSetContents DEF SetHot, NoCall, Entry
<1>3. ASSUME NEW j \in KeysOf[c], DeleteBegin(c, j)
      PROVE  Own(c, k)'
  BY <1>3, KeysAreKeys DEF DeleteBegin, NoCall, Entry
<1>4. CASE GetWarm(c)
  BY <1>4, InCall DEF GetWarm, Finds, hotVars, NoCall, Entry
<1>5. CASE GetCold(c)
  BY <1>5, InCall DEF GetCold, Finds, hotVars, NoCall, Entry
<1>6. CASE FillHot(c)
  BY <1>6, InCall, HotSetContents DEF FillHot, Goes, NoCall, Entry
<1>7. CASE FillWarm(c)
  BY <1>7, InCall DEF FillWarm, Returns, Goes, hotVars, NoCall, Entry
<1>8. CASE SetWarm(c)
  <2> DEFINE j == clerk[c].key
             v == clerk[c].content
  <2>1. clerk[c].call = "set" /\ clerk[c].at = "warm" /\ j \in Keys
    BY <1>8, InCall DEF SetWarm, NoCall
  <2>2. hot' = hot /\ cold' = cold
    BY <1>8 DEF SetWarm, hotVars
  <2>3. CASE v \in Unencodable
    <3>1. /\ legit' = [legit EXCEPT ![j] = @ \cup {v}]
          /\ clerk' = [clerk EXCEPT ![c].at = "returned"]
          /\ warm' = warm
      BY <1>8, <2>3 DEF SetWarm, Returns, Goes
    <3>2. clerk'[c].key = j /\ clerk'[c].call = "set" /\ clerk'[c].at = "returned"
      BY <2>1, <3>1
    <3>3. legit[k] \subseteq legit'[k] /\ (j = k => v \in legit'[k])
      BY <2>1, <3>1
    <3> QED
      BY <2>1, <2>2, <3>1, <3>2, <3>3
  <2>4. CASE v \notin Unencodable
    <3>1. /\ warm' = [warm EXCEPT ![j] = v]
          /\ clerk' = [clerk EXCEPT ![c].at = "cold"]
          /\ legit' = legit
      BY <1>8, <2>4 DEF SetWarm, Goes
    <3>2. /\ clerk'[c].key = j /\ clerk'[c].call = "set" /\ clerk'[c].at = "cold"
          /\ clerk'[c].content = v
      BY <2>1, <3>1
    <3>3. warm'[j] = v /\ (j # k => warm'[k] = warm[k])
      BY <2>1, <3>1
    <3> QED
      BY <2>1, <2>2, <3>1, <3>2, <3>3
  <2> QED
    BY <2>3, <2>4
<1>9. CASE SetCold(c)
  BY <1>9, InCall DEF SetCold, Returns, Goes, hotVars, NoCall, Entry
<1>10. CASE DeleteHot(c)
  BY <1>10, InCall, HotDeleteContents DEF DeleteHot, Goes, NoCall, Entry
<1>11. CASE DeleteWarm(c)
  BY <1>11, InCall DEF DeleteWarm, Goes, hotVars, NoCall, Entry
<1>12. CASE DeleteCold(c)
  BY <1>12, InCall DEF DeleteCold, Returns, Goes, hotVars, NoCall, Entry
<1>13. CASE Leaves(c)
  BY <1>13, InCall DEF Leaves, hotVars, NoCall, Entry
<1> QED
  BY <1>1, <1>2, <1>3, <1>4, <1>5, <1>6, <1>7, <1>8, <1>9, <1>10, <1>11, <1>12, <1>13 DEF ClerkStep

\* The steps of another caller, which does not use k.
LEMMA OtherStep ==
  ASSUME ContentsTyped, NEW c \in Clerks, NEW k \in KeysOf[c], Private(c, k), Own(c, k),
         NEW d \in Clerks, d # c, ClerkStep(d)
  PROVE  Own(c, k)'
<1>1. k \in Keys /\ k \notin KeysOf[d]
  BY KeysAreKeys DEF Private
<1> SUFFICES /\ clerk'[c] = clerk[c] /\ cold'[k] = cold[k] /\ legit'[k] = legit[k]
             /\ hot'[k] \in {hot[k], Absent} /\ warm'[k] \in {warm[k], Absent}
  BY EvictionKeepsOwn
<1> USE <1>1 DEF ContentsTyped
<1>2. ASSUME NEW j \in KeysOf[d], GetHot(d, j)
      PROVE  /\ clerk'[c] = clerk[c] /\ cold'[k] = cold[k] /\ legit'[k] = legit[k]
             /\ hot'[k] \in {hot[k], Absent} /\ warm'[k] \in {warm[k], Absent}
  BY <1>2, KeysAreKeys DEF GetHot
<1>3. ASSUME NEW j \in KeysOf[d], NEW v \in Contents, SetHot(d, j, v)
      PROVE  /\ clerk'[c] = clerk[c] /\ cold'[k] = cold[k] /\ legit'[k] = legit[k]
             /\ hot'[k] \in {hot[k], Absent} /\ warm'[k] \in {warm[k], Absent}
  BY <1>3, KeysAreKeys, HotSetContents DEF SetHot, Entry
<1>4. ASSUME NEW j \in KeysOf[d], DeleteBegin(d, j)
      PROVE  /\ clerk'[c] = clerk[c] /\ cold'[k] = cold[k] /\ legit'[k] = legit[k]
             /\ hot'[k] \in {hot[k], Absent} /\ warm'[k] \in {warm[k], Absent}
  BY <1>4, KeysAreKeys DEF DeleteBegin
<1>5. CASE GetWarm(d)
  BY <1>5, InCall DEF GetWarm, Finds, hotVars, NoCall
<1>6. CASE GetCold(d)
  BY <1>6, InCall DEF GetCold, Finds, hotVars, NoCall
<1>7. CASE FillHot(d)
  BY <1>7, InCall, HotSetContents DEF FillHot, Goes, NoCall
<1>8. CASE FillWarm(d)
  BY <1>8, InCall DEF FillWarm, Returns, Goes, hotVars, NoCall
<1>9. CASE SetWarm(d)
  BY <1>9, InCall DEF SetWarm, Goes, Returns, hotVars, NoCall
<1>10. CASE SetCold(d)
  BY <1>10, InCall DEF SetCold, Returns, Goes, hotVars, NoCall
<1>11. CASE DeleteHot(d)
  BY <1>11, InCall, HotDeleteContents DEF DeleteHot, Goes, NoCall
<1>12. CASE DeleteWarm(d)
  BY <1>12, InCall DEF DeleteWarm, Goes, hotVars, NoCall
<1>13. CASE DeleteCold(d)
  BY <1>13, InCall DEF DeleteCold, Returns, Goes, hotVars, NoCall
<1>14. CASE Leaves(d)
  BY <1>14, InCall DEF Leaves, hotVars, NoCall
<1> QED
  BY <1>2, <1>3, <1>4, <1>5, <1>6, <1>7, <1>8, <1>9, <1>10, <1>11, <1>12, <1>13, <1>14 DEF ClerkStep

-----------------------------------------------------------------------------
OwnInv == /\ ContentsTyped
          /\ \A c \in Clerks : \A k \in KeysOf[c] : Private(c, k) => Own(c, k)

\* Whatever other callers do, and whatever is evicted or expires: a Get of a key
\* that one caller alone uses returns what that caller set last.
THEOREM OwnKeysAlways == StoreSpec => []OwnKeysAreAMap
<1>1. StoreInit => OwnInv
  BY KeysAreKeys DEF StoreInit, OwnInv, ContentsTyped, Own, During, NoCall, Entry
<1>2. ASSUME OwnInv, [StoreNext]_storeVars
      PROVE  OwnInv'
  <2>1. ASSUME NEW d \in Clerks, ClerkStep(d)
        PROVE  OwnInv'
    <3>1. ContentsTyped'
      BY <1>2, <2>1, ClerkStepTyped DEF OwnInv
    <3>2. ASSUME NEW c \in Clerks, NEW k \in KeysOf[c], Private(c, k)
          PROVE  Own(c, k)'
      BY <1>2, <2>1, <3>2, OwnStep, OtherStep DEF OwnInv
    <3> QED
      BY <3>1, <3>2 DEF OwnInv, Private
  <2>2. ASSUME NEW j \in Keys, Expire(j)
        PROVE  OwnInv'
    <3>1. ContentsTyped'
      BY <1>2, <2>2 DEF OwnInv, ContentsTyped, Expire, hotVars, Entry
    <3>2. ASSUME NEW c \in Clerks, NEW k \in KeysOf[c], Private(c, k)
          PROVE  Own(c, k)'
      BY <1>2, <2>2, <3>2, KeysAreKeys, EvictionKeepsOwn
         DEF OwnInv, ContentsTyped, Expire, hotVars
    <3> QED
      BY <3>1, <3>2 DEF OwnInv, Private
  <2>3. CASE UNCHANGED storeVars
    BY <1>2, <2>3 DEF OwnInv, ContentsTyped, Own, During, Private, storeVars
  <2> QED
    BY <1>2, <2>1, <2>2, <2>3 DEF StoreNext
<1>3. OwnInv => OwnKeysAreAMap
  BY DEF OwnInv, OwnKeysAreAMap, Own, During, Private
<1> QED
  BY <1>1, <1>2, <1>3, PTL DEF StoreSpec

-----------------------------------------------------------------------------
(***************************************************************************)
(* The hot tier stays within its limit (HotWithinLimit). What its size     *)
(* counts is a sum over the keys in the LRU list; the invariant adds that  *)
(* the list has each key once and that what a Get moves up is an entry. An *)
(* entry is put in front of the keys that stay, which are a front of the   *)
(* list: a sum over the front and one over the back is the sum over the    *)
(* whole.                                                                  *)
(***************************************************************************)

\* What a Get puts into the hot tier is an entry.
FillsWithEntries ==
  \A c \in Clerks : (clerk[c].call = "get" /\ clerk[c].at \in {"fillHot", "fillBoth"})
                      => clerk[c].content \in Contents

HotInv == ContentsTyped /\ FillsWithEntries /\ lru \in Seq(Keys) /\ HotWithinLimit

\* An empty tier is within its limit.
LEMMA HotInit == StoreInit => HotInv
<1> SUFFICES ASSUME StoreInit PROVE HotInv
  OBVIOUS
<1>1. ContentsTyped /\ FillsWithEntries
  BY DEF StoreInit, ContentsTyped, FillsWithEntries, NoCall, Entry
<1>2. lru \in Seq(Keys) /\ IsInjective(lru) /\ Range(lru) = {}
  BY DEF StoreInit, IsInjective, Range
<1>3. SizeOf(hot, {}) = 0
  BY FS_EmptySet, SumProperties DEF SizeOf, IntsOn
<1>4. HotWithinLimit
  <2>1. hotSize = 0 /\ {k \in Keys : hot[k] # Absent} = {} /\ 0 <= HotBytes
    BY StoreAssumption DEF StoreInit
  <2> QED
    BY <2>1, <1>2, <1>3 DEF HotWithinLimit
<1> QED
  BY <1>1, <1>2, <1>4 DEF HotInv

\* The sizes in a tier are natural numbers, so they can be added up.
LEMMA SizesAdd ==
  ASSUME NEW tier \in [Keys -> Entry]
  PROVE  /\ \A k \in Keys : SizeIn(tier, k) \in Nat
         /\ \A T \in SUBSET Keys : IntsOn([k \in Keys |-> SizeIn(tier, k)], T)
BY StoreAssumption DEF SizeIn, Entry, IntsOn

\* The size of the entries of T is that of k and of the others; and that of S \cup T.
WithOne(tier, T, k) == SizeOf(tier, T) = SizeIn(tier, k) + SizeOf(tier, T \ {k})
InParts(tier, S, T) == SizeOf(tier, S \cup T) = SizeOf(tier, S) + SizeOf(tier, T)

LEMMA SizeWith ==
  ASSUME NEW tier \in [Keys -> Entry], NEW T \in SUBSET Keys, IsFiniteSet(T), NEW k \in T
  PROVE  WithOne(tier, T, k)
<1> DEFINE f == [j \in Keys |-> SizeIn(tier, j)]
<1>1. IntsOn(f, T)
  BY SizesAdd
<1>2. f[k] = SizeIn(tier, k)
  OBVIOUS
<1> HIDE DEF f
<1>3. OnTop(f, T, k)
  BY <1>1, SumProperties
<1> QED
  BY <1>2, <1>3 DEF WithOne, OnTop, SizeOf, f

LEMMA SizeIsInt ==
  ASSUME NEW tier \in [Keys -> Entry], NEW T \in SUBSET Keys, IsFiniteSet(T)
  PROVE  SizeOf(tier, T) \in Int
BY SizesAdd, SumProperties DEF SizeOf

LEMMA SizeOfParts ==
  ASSUME NEW tier \in [Keys -> Entry], NEW S \in SUBSET Keys, NEW T \in SUBSET Keys,
         IsFiniteSet(S \cup T), S \cap T = {}
  PROVE  InParts(tier, S, T)
<1> DEFINE f == [j \in Keys |-> SizeIn(tier, j)]
           W == S \cup T
<1>1. IntsOn(f, W) /\ IsFiniteSet(W) /\ S \in SUBSET W /\ T \in SUBSET W
  BY SizesAdd
<1> HIDE DEF f, W
<1>2. SumFunctionOnSet(f, S \cup T) = SumFunctionOnSet(f, S) + SumFunctionOnSet(f, T)
  BY <1>1, SumUnion
<1> QED
  BY <1>2 DEF InParts, SizeOf, f

\* The size depends on the entries of T alone.
LEMMA SizeAgrees ==
  ASSUME NEW tier \in [Keys -> Entry], NEW other \in [Keys -> Entry],
         NEW T \in SUBSET Keys, IsFiniteSet(T), \A k \in T : other[k] = tier[k]
  PROVE  SizeOf(other, T) = SizeOf(tier, T)
<1> DEFINE f == [j \in Keys |-> SizeIn(tier, j)]
           g == [j \in Keys |-> SizeIn(other, j)]
<1>1. IntsOn(f, T)
  BY SizesAdd
<1>2. \A k \in T : g[k] = f[k]
  BY DEF SizeIn
<1> HIDE DEF f, g
<1>3. SumFunctionOnSet(g, T) = SumFunctionOnSet(f, T)
  BY <1>1, <1>2, SumAgrees
<1> QED
  BY <1>3 DEF SizeOf, f, g

\* The size without an entry for k, whether there is one or not.
LEMMA SizeWithout ==
  ASSUME hot \in [Keys -> Entry], lru \in Seq(Keys), HotWithinLimit, NEW k \in Keys
  PROVE  hotSize - SizeIn(hot, k) = SizeOf(hot, Range(lru) \ {k})
<1>1. hotSize = SizeOf(hot, Range(lru)) /\ Range(lru) = {j \in Keys : hot[j] # Absent}
  BY DEF HotWithinLimit
<1>2. IsFiniteSet(Range(lru)) /\ Range(lru) \in SUBSET Keys
  BY ListIsFinite
<1>3. SizeIn(hot, k) \in Int
  BY SizesAdd
<1>4. SizeOf(hot, Range(lru) \ {k}) \in Int
  BY <1>2, SizeIsInt, FS_Subset
<1>5. CASE k \in Range(lru)
  <2>1. SizeOf(hot, Range(lru)) = SizeIn(hot, k) + SizeOf(hot, Range(lru) \ {k})
    <3>1. WithOne(hot, Range(lru), k)
      BY <1>2, <1>5, SizeWith
    <3> QED
      BY <3>1 DEF WithOne
  <2> DEFINE all == SizeOf(hot, Range(lru))
             others == SizeOf(hot, Range(lru) \ {k})
             its == SizeIn(hot, k)
  <2>2. all = its + others /\ hotSize = all /\ its \in Int /\ others \in Int
    BY <2>1, <1>1, <1>3, <1>4
  <2> HIDE DEF all, others, its
  <2>3. hotSize - its = others
    BY <2>2
  <2> QED
    BY <2>3 DEF others, its
<1>6. CASE k \notin Range(lru)
  <2>1. SizeIn(hot, k) = 0 /\ Range(lru) \ {k} = Range(lru)
    BY <1>6, <1>1 DEF SizeIn
  <2> DEFINE others == SizeOf(hot, Range(lru) \ {k})
             its == SizeIn(hot, k)
  <2>2. hotSize = others /\ its = 0 /\ others \in Int
    BY <2>1, <1>1, <1>4
  <2> HIDE DEF others, its
  <2>3. hotSize - its = others
    BY <2>2
  <2> QED
    BY <2>3 DEF others, its
<1> QED
  BY <1>5, <1>6

\* A key that is used moves to the front.
LEMMA TouchKeepsLimit ==
  ASSUME lru \in Seq(Keys), HotWithinLimit, NEW k \in Keys, hot[k] # Absent,
         Touch(k), UNCHANGED <<hot, hotSize>>
  PROVE  lru' \in Seq(Keys) /\ HotWithinLimit'
<1> DEFINE rest == RemoveFirst(lru, k)
<1>1. k \in Range(lru) /\ IsInjective(lru) /\ Len(lru) \in Nat
  BY DEF HotWithinLimit
<1>2. /\ rest \in Seq(Keys) /\ IsInjective(rest) /\ Range(rest) = Range(lru) \ {k}
      /\ Len(rest) = Len(lru) - 1
  BY <1>1, RemoveFirstWhole
<1>3. lru' = <<k>> \o rest
  BY DEF Touch
<1> HIDE DEF rest
<1>4. /\ lru' \in Seq(Keys) /\ IsInjective(lru') /\ Range(lru') = Range(rest) \cup {k}
      /\ Len(lru') = Len(rest) + 1
  BY <1>2, <1>3, PutInFront
<1>5. Range(lru') = Range(lru) /\ Len(lru') = Len(lru)
  BY <1>1, <1>2, <1>4
<1> QED
  BY <1>4, <1>5 DEF HotWithinLimit, SizeOf, SizeIn

\* What is deleted is no longer counted, nor is what was not there.
LEMMA DeleteKeepsLimit ==
  ASSUME hot \in [Keys -> Entry], lru \in Seq(Keys), HotWithinLimit, NEW k \in Keys,
         HotDelete(k)
  PROVE  lru' \in Seq(Keys) /\ HotWithinLimit'
<1> DEFINE rest == RemoveFirst(lru, k)
<1>1. IsInjective(lru) /\ Len(lru) \in Nat /\ Range(lru) = {j \in Keys : hot[j] # Absent}
  BY DEF HotWithinLimit
<1>2. /\ rest \in Seq(Keys) /\ IsInjective(rest) /\ Range(rest) = Range(lru) \ {k}
      /\ Len(rest) = IF k \in Range(lru) THEN Len(lru) - 1 ELSE Len(lru)
  BY <1>1, RemoveFirstWhole
<1>3. lru' = rest /\ hot' = [hot EXCEPT ![k] = Absent] /\ hotSize' = hotSize - SizeIn(hot, k)
  BY DEF HotDelete
<1> HIDE DEF rest
<1>4. IsFiniteSet(Range(rest)) /\ Range(rest) \in SUBSET Keys
  BY <1>2, ListIsFinite
<1>5. hot' \in [Keys -> Entry] /\ \A j \in Range(rest) : hot'[j] = hot[j]
  BY <1>2, <1>3 DEF Entry
<1>6. SizeOf(hot', Range(rest)) = SizeOf(hot, Range(rest))
  BY <1>4, <1>5, SizeAgrees
<1>7. hotSize' = SizeOf(hot', Range(rest))
  BY <1>2, <1>3, <1>6, SizeWithout
<1>8. Range(rest) = {j \in Keys : hot'[j] # Absent}
  BY <1>1, <1>2, <1>3
<1>9. hotSize' <= HotBytes \/ Len(rest) = 1
  <2>1. hotSize \in Int /\ SizeIn(hot, k) \in Nat /\ HotBytes \in Nat
    <3>1. IsFiniteSet(Range(lru)) /\ Range(lru) \in SUBSET Keys
      BY ListIsFinite
    <3> QED
      BY <3>1, SizeIsInt, SizesAdd, StoreAssumption DEF HotWithinLimit
  <2>2. CASE hotSize <= HotBytes
    BY <2>1, <2>2, <1>3
  <2>3. CASE Len(lru) = 1 /\ k \in Range(lru)
    <3>1. rest = <<>>
      BY <2>3, <1>2
    <3>2. Range(rest) = {}
      BY <3>1 DEF Range
    <3>3. SizeOf(hot', {}) = 0
      BY FS_EmptySet, SumProperties DEF SizeOf, IntsOn
    <3> QED
      BY <3>2, <3>3, <1>7, <2>1
  <2>4. CASE Len(lru) = 1 /\ k \notin Range(lru)
    BY <2>4, <1>2
  <2> QED
    BY <2>2, <2>3, <2>4 DEF HotWithinLimit
<1> QED
  BY <1>2, <1>3, <1>7, <1>8, <1>9 DEF HotWithinLimit

\* A new entry goes to the front, and as many of the others stay as fit with it.
LEMMA SetKeepsLimit ==
  ASSUME hot \in [Keys -> Entry], lru \in Seq(Keys), HotWithinLimit, NEW k \in Keys,
         NEW v \in Contents, HotSet(k, v)
  PROVE  lru' \in Seq(Keys) /\ HotWithinLimit'
<1> DEFINE rest == RemoveFirst(lru, k)
           base == hotSize - SizeIn(hot, k)
           size(n) == base - SizeOf(hot, Range(SubSeq(rest, n + 1, Len(rest)))) + Bytes[v]
           fits == {0} \cup {n \in 1..Len(rest) : size(n) <= HotBytes}
           kept == Max(fits)
           front == SubSeq(rest, 1, kept)
           back == SubSeq(rest, kept + 1, Len(rest))
<1>1. IsInjective(lru) /\ Range(lru) = {j \in Keys : hot[j] # Absent}
  BY DEF HotWithinLimit
<1>2. /\ rest \in Seq(Keys) /\ IsInjective(rest) /\ Range(rest) = Range(lru) \ {k}
      /\ Len(rest) \in Nat
  BY <1>1, RemoveFirstWhole
<1>3. base = SizeOf(hot, Range(rest))
  BY <1>2, SizeWithout
<1>4. /\ lru' = <<k>> \o front
      /\ hot' = [j \in Keys |-> IF j = k THEN v ELSE IF j \in Range(front) THEN hot[j] ELSE Absent]
      /\ hotSize' = size(kept)
  BY DEF HotSet, HotPut
<1>5. kept \in 0..Len(rest) /\ (kept # 0 => size(kept) <= HotBytes)
  <2>1. fits \in SUBSET (0..Len(rest)) /\ fits # {}
    BY <1>2
  <2>2. kept \in fits
    <3> HIDE DEF fits
    <3> QED
      BY <1>2, <2>1, GreatestNatural
  <2> HIDE DEF kept
  <2> QED
    BY <2>1, <2>2
<1>6. hotSize' = base - SizeOf(hot, Range(back)) + Bytes[v] /\ (kept # 0 => hotSize' <= HotBytes)
  BY <1>4, <1>5
<1> HIDE DEF rest, base, size, fits, kept
<1>7. /\ front \in Seq(Keys) /\ Len(front) = kept /\ IsInjective(front)
      /\ Range(front) \cup Range(back) = Range(rest)
      /\ Range(front) \cap Range(back) = {}
      /\ Range(back) \subseteq Keys
  BY <1>2, <1>5, CutInTwo
<1> HIDE DEF front, back
<1>8. /\ Range(front) \in SUBSET Keys /\ Range(back) \in SUBSET Keys
      /\ IsFiniteSet(Range(front)) /\ IsFiniteSet(Range(back))
      /\ IsFiniteSet(Range(front) \cup Range(back))
  <2>1. IsFiniteSet(Range(rest)) /\ Range(rest) \subseteq Keys
    BY <1>2, ListIsFinite
  <2>2. Range(front) \subseteq Range(rest) /\ Range(back) \subseteq Range(rest)
    BY <1>7
  <2> QED
    BY <1>7, <2>1, <2>2, FS_Subset
<1>9. hotSize' = SizeOf(hot, Range(front)) + Bytes[v]
  <2>1. base = SizeOf(hot, Range(front)) + SizeOf(hot, Range(back))
    <3>1. InParts(hot, Range(front), Range(back))
      BY <1>7, <1>8, SizeOfParts
    <3> QED
      BY <1>3, <1>7, <3>1 DEF InParts
  <2>2. /\ SizeOf(hot, Range(front)) \in Int /\ SizeOf(hot, Range(back)) \in Int
        /\ Bytes[v] \in Int
    BY <1>8, SizeIsInt, StoreAssumption
  <2> QED
    BY <1>6, <2>1, <2>2
<1>10. k \notin Range(front)
  BY <1>2, <1>7
<1>11. /\ lru' \in Seq(Keys) /\ IsInjective(lru') /\ Range(lru') = Range(front) \cup {k}
       /\ Len(lru') = kept + 1
  BY <1>4, <1>7, <1>10, PutInFront
<1>12. /\ hot' \in [Keys -> Entry] /\ hot'[k] = v
       /\ \A j \in Range(front) : hot'[j] = hot[j]
  BY <1>4, <1>10, <1>8 DEF Entry
<1>13. Range(lru') = {j \in Keys : hot'[j] # Absent}
  BY <1>1, <1>2, <1>4, <1>7, <1>8, <1>11, StoreAssumption
<1>14. hotSize' = SizeOf(hot', Range(lru'))
  <2> DEFINE T == Range(front) \cup {k}
  <2>1. T \in SUBSET Keys /\ IsFiniteSet(T) /\ k \in T /\ T \ {k} = Range(front)
    BY <1>8, <1>10, FS_AddElement
  <2>2. SizeOf(hot', T) = SizeIn(hot', k) + SizeOf(hot', Range(front))
    <3> HIDE DEF T
    <3>1. WithOne(hot', T, k)
      BY <1>12, <2>1, SizeWith
    <3> QED
      BY <2>1, <3>1 DEF WithOne
  <2>3. SizeIn(hot', k) = Bytes[v]
    BY <1>12, StoreAssumption DEF SizeIn
  <2>4. SizeOf(hot', Range(front)) = SizeOf(hot, Range(front))
    BY <1>8, <1>12, SizeAgrees
  <2>5. SizeOf(hot, Range(front)) \in Int /\ Bytes[v] \in Int
    BY <1>8, SizeIsInt, StoreAssumption
  <2> QED
    BY <1>9, <1>11, <2>2, <2>3, <2>4, <2>5
<1>15. hotSize' <= HotBytes \/ Len(lru') = 1
  BY <1>6, <1>11
<1> QED
  BY <1>11, <1>13, <1>14, <1>15 DEF HotWithinLimit

\* Every step of the store keeps the invariant; few touch the hot tier.
LEMMA HotNext == HotInv /\ [StoreNext]_storeVars => HotInv'
<1> SUFFICES ASSUME HotInv, [StoreNext]_storeVars PROVE HotInv'
  OBVIOUS
<1> USE DEF HotInv
<1>1. CASE UNCHANGED storeVars
  BY <1>1 DEF storeVars, ContentsTyped, FillsWithEntries, HotWithinLimit, SizeOf, SizeIn
<1>2. ASSUME NEW k \in Keys, Expire(k)
      PROVE  HotInv'
  BY <1>2 DEF Expire, hotVars, ContentsTyped, FillsWithEntries, HotWithinLimit, SizeOf, SizeIn,
     Entry
<1>3. ASSUME NEW c \in Clerks, ClerkStep(c)
      PROVE  HotInv'
  <2>1. ContentsTyped'
    BY <1>3, ClerkStepTyped
  <2>2. FillsWithEntries'
    <3> USE DEF FillsWithEntries, ContentsTyped
    <3>1. CASE \E k \in KeysOf[c] : GetHot(c, k) \/ DeleteBegin(c, k)
      BY <3>1 DEF GetHot, DeleteBegin, NoCall
    <3>2. CASE \E k \in KeysOf[c], v \in Contents : SetHot(c, k, v)
      BY <3>2 DEF SetHot
    <3>3. CASE GetWarm(c)
      <4>1. clerk[c].key \in Keys
        BY <3>3, InCall DEF GetWarm, NoCall
      <4> QED
        BY <3>3, <4>1 DEF GetWarm, Finds, Entry, Calls, NoCall
    <3>4. CASE GetCold(c)
      <4>1. clerk[c].key \in Keys
        BY <3>4, InCall DEF GetCold, NoCall
      <4> QED
        BY <3>4, <4>1 DEF GetCold, Finds, Entry, Calls, NoCall
    <3>5. CASE FillHot(c)
      BY <3>5 DEF FillHot, Goes, Calls, NoCall
    <3>6. CASE FillWarm(c) \/ SetWarm(c) \/ SetCold(c)
      BY <3>6 DEF FillWarm, SetWarm, SetCold, Goes, Returns, Calls, NoCall
    <3>7. CASE DeleteHot(c)
      BY <3>7 DEF DeleteHot, Goes, Calls, NoCall
    <3>8. CASE DeleteWarm(c)
      BY <3>8 DEF DeleteWarm, Goes, Calls, NoCall
    <3>9. CASE DeleteCold(c)
      BY <3>9 DEF DeleteCold, Goes, Returns, Calls, NoCall
    <3>10. CASE Leaves(c)
      BY <3>10 DEF Leaves, NoCall
    <3> QED
      BY <1>3, <3>1, <3>2, <3>3, <3>4, <3>5, <3>6, <3>7, <3>8, <3>9, <3>10 DEF ClerkStep
  <2>3. \/ UNCHANGED hotVars
        \/ \E k \in Keys : hot[k] # Absent /\ Touch(k) /\ UNCHANGED <<hot, hotSize>>
        \/ \E k \in Keys : HotDelete(k)
        \/ \E k \in Keys, v \in Contents : HotSet(k, v)
    <3>1. \A k \in KeysOf[c] : k \in Keys
      BY KeysAreKeys
    <3>2. clerk[c] # NoCall => clerk[c].key \in Keys
      BY InCall
    <3>3. CASE FillHot(c)
      BY <3>2, <3>3 DEF FillHot, FillsWithEntries, NoCall
    <3>4. CASE DeleteHot(c)
      BY <3>2, <3>4 DEF DeleteHot, NoCall
    <3>5. CASE \E k \in KeysOf[c] : GetHot(c, k) \/ DeleteBegin(c, k)
      BY <3>1, <3>5 DEF GetHot, DeleteBegin, hotVars
    <3>6. CASE \E k \in KeysOf[c], v \in Contents : SetHot(c, k, v)
      BY <3>1, <3>6 DEF SetHot
    <3> QED
      BY <1>3, <3>3, <3>4, <3>5, <3>6
      DEF ClerkStep, GetWarm, GetCold, FillWarm, SetWarm, SetCold, DeleteWarm, DeleteCold, Leaves
  <2>4. lru' \in Seq(Keys) /\ HotWithinLimit'
    <3>1. hot \in [Keys -> Entry]
      BY DEF ContentsTyped
    <3>2. CASE UNCHANGED hotVars
      BY <3>2 DEF hotVars, HotWithinLimit, SizeOf, SizeIn
    <3> QED
      BY <2>3, <3>1, <3>2, TouchKeepsLimit, DeleteKeepsLimit, SetKeepsLimit
  <2> QED
    BY <2>1, <2>2, <2>4
<1> QED
  BY <1>1, <1>2, <1>3 DEF StoreNext

\* The hot tier never holds more bytes than its limit, counts each of them once, and
\* its list names each entry once (property HotWithinLimit; tiered_store.go, the hot
\* store), for any number of callers, keys and contents of any size.
THEOREM HotAlwaysWithinLimit == StoreSpec => []HotWithinLimit
<1>1. HotInv => HotWithinLimit
  BY DEF HotInv
<1> QED
  BY HotInit, HotNext, <1>1, PTL DEF StoreSpec

-----------------------------------------------------------------------------
(***************************************************************************)
(* EdgesHaveEnds is inductive as it stands: no step needs to know anything *)
(* else of the state.                                                      *)
(***************************************************************************)

\* CreateNode only adds a node, and CreateEdge an edge between nodes that are
\* there, to the graph and to its source's list.
LEMMA CreateKeepsEnds ==
  ASSUME EdgesHaveEnds, UNCHANGED deleted,
         \/ \E n : CreateNode(n)
         \/ \E from, to, w : CreateEdge(from, to, w)
         \/ UNCHANGED <<nodes, edges, adj>>
  PROVE  EdgesHaveEnds'
<1>1. CASE \E n : CreateNode(n)
  BY <1>1 DEF EdgesHaveEnds, CreateNode, HasEnds
<1>2. ASSUME NEW from, NEW to, NEW w, CreateEdge(from, to, w)
      PROVE  EdgesHaveEnds'
  <2>1. PICK id \in EdgeIds :
          LET e == [id |-> id, from |-> from, to |-> to, weight |-> w]
          IN  edges' = edges \cup {e} /\ adj' = adj \cup {e}
    BY <1>2 DEF CreateEdge
  <2> DEFINE e == [id |-> id, from |-> from, to |-> to, weight |-> w]
  <2>2. edges' = edges \cup {e} /\ adj' = adj \cup {e} /\ nodes' = nodes
    BY <1>2, <2>1 DEF CreateEdge
  <2>3. e.from \in nodes /\ e.to \in nodes
    BY <1>2 DEF CreateEdge, HasEnds
  <2> HIDE DEF e
  <2> QED
    BY <2>2, <2>3 DEF EdgesHaveEnds, HasEnds
<1>3. CASE UNCHANGED <<nodes, edges, adj>>
  BY <1>3 DEF EdgesHaveEnds, HasEnds
<1> QED
  BY <1>1, <1>2, <1>3

\* DeleteNode takes the edges of the node out of the graph and out of the lists
\* of the others; what stays in a list without being in the graph left the node.
LEMMA DeleteNodeKeepsEnds ==
  ASSUME EdgesHaveEnds, NEW n, DeleteNode(n)
  PROVE  EdgesHaveEnds'
<1>1. /\ nodes' = nodes \ {n}
      /\ edges' = {e \in edges : e.from # n /\ e.to # n}
      /\ adj' = {e \in adj : e.to # n}
      /\ deleted' = deleted \cup {n}
  BY DEF DeleteNode
<1>2. \A e \in edges' : e.from \in nodes' /\ e.to \in nodes' /\ e \in adj'
  BY <1>1 DEF EdgesHaveEnds, HasEnds
<1>3. \A e \in adj' : e.to \in nodes'
  BY <1>1 DEF EdgesHaveEnds
<1>4. \A e \in adj' \ edges' : e.from \in deleted'
  BY <1>1 DEF EdgesHaveEnds
<1> QED
  BY <1>2, <1>3, <1>4 DEF EdgesHaveEnds, HasEnds

LEMMA DeleteEdgeKeepsEnds ==
  ASSUME EdgesHaveEnds, NEW id, DeleteEdge(id)
  PROVE  EdgesHaveEnds'
BY DEF EdgesHaveEnds, DeleteEdge, HasEnds

\* The store never holds an edge without its nodes, in the graph or in a list,
\* whatever is created, recorded and deleted in whatever order, and a list holds
\* more than the graph only for a node that was deleted.
THEOREM EdgesHaveEndsAlways == KnowledgeSpec => []EdgesHaveEnds
<1>1. KnowledgeInit => EdgesHaveEnds
  BY DEF KnowledgeInit, EdgesHaveEnds
<1>2. ASSUME EdgesHaveEnds, [KnowledgeNext]_graphStoreVars
      PROVE  EdgesHaveEnds'
  <2>1. ASSUME NEW n \in Named, AddNode(n)
        PROVE  EdgesHaveEnds'
    BY <1>2, <2>1, CreateKeepsEnds DEF AddNode
  <2>2. ASSUME NEW n \in NodeIds, DeleteNode(n)
        PROVE  EdgesHaveEnds'
    BY <1>2, <2>2, DeleteNodeKeepsEnds
  <2>3. ASSUME NEW from \in NodeIds, NEW to \in NodeIds, NEW w \in Weights,
               AddEdge(from, to, w)
        PROVE  EdgesHaveEnds'
    BY <1>2, <2>3, CreateKeepsEnds DEF AddEdge
  <2>4. ASSUME NEW id \in EdgeIds, DeleteEdge(id)
        PROVE  EdgesHaveEnds'
    BY <1>2, <2>4, DeleteEdgeKeepsEnds
  <2>5. ASSUME NEW d \in Decisions, NEW targets, StartRecording(d, targets)
        PROVE  EdgesHaveEnds'
    BY <1>2, <2>5, CreateKeepsEnds DEF StartRecording
  <2>6. CASE RecordEdge
    <3>1. UNCHANGED deleted
      BY <2>6 DEF RecordEdge
    <3>2. \/ CreateEdge(recording.decision, Head(recording.targets), 0)
          \/ UNCHANGED <<nodes, edges, adj>>
      BY <2>6 DEF RecordEdge
    <3> QED
      BY <1>2, <3>1, <3>2, CreateKeepsEnds
  <2>7. CASE UNCHANGED graphStoreVars
    BY <1>2, <2>7, CreateKeepsEnds DEF graphStoreVars
  <2> QED
    BY <1>2, <2>1, <2>2, <2>3, <2>4, <2>5, <2>6, <2>7 DEF KnowledgeNext
<1> QED
  BY <1>1, <1>2, PTL DEF KnowledgeSpec

-----------------------------------------------------------------------------
(***************************************************************************)
(* ShortestPath (internal/context/knowledge/traversal.go) finds the        *)
(* cheapest paths (PathsAreShortest), for any graph.  The loop keeps       *)
(* SearchOK: no visited node is farther than one that is not (Levelled),   *)
(* whatever a visited node leads to is no farther than by way of it        *)
(* (Relaxed), and prev describes a tree of ways whose costs are the        *)
(* distances (Treed).  When it ends it knows Enough of the goal: no way is *)
(* cheaper than the distance found, and Trace goes back along the tree.    *)
(***************************************************************************)

-----------------------------------------------------------------------------
(* The graph.                                                              *)

\* There is an edge from a to b.
Arc(a, b) == \E e \in edges : e.from = a /\ e.to = b

\* A graph without leftovers of deleted nodes.
Tidy == KnowledgeTypeOK /\ EdgesHaveEnds /\ adj = edges

\* In such a graph edges join nodes that are there, GetNeighbors gives the ends of a
\* node's edges, and the weight ShortestPath gives a step is never negative.
LEMMA StepsAlongArcs ==
  ASSUME Tidy
  PROVE  /\ \A a, b : Arc(a, b) => a \in nodes /\ b \in nodes
         /\ \A n : Neighbours(n) = {m \in nodes : Arc(n, m)}
         /\ \A a, b : StepWeight(a, b) \in Nat
<1>1. \A e \in edges : e.from \in nodes /\ e.to \in nodes /\ e.weight \in Nat
  <2>1. \A e \in edges : e.from \in nodes /\ e.to \in nodes
    BY DEF Tidy, EdgesHaveEnds, HasEnds
  <2>2. \A e \in edges : e \in Edges
    BY DEF Tidy, KnowledgeTypeOK
  <2>3. \A e \in edges : e.weight \in Weights \cup {0}
    BY <2>2 DEF Edges
  <2>4. Weights \cup {0} \subseteq Nat
    BY KnowledgeAssumption
  <2> QED
    BY <2>1, <2>3, <2>4
<1>2. \A a, b : Arc(a, b) => a \in nodes /\ b \in nodes
  BY <1>1 DEF Arc
<1>3. ASSUME NEW n
      PROVE  Neighbours(n) = {m \in nodes : Arc(n, m)}
  BY DEF Neighbours, Arc, Tidy
<1>4. ASSUME NEW a, NEW b
      PROVE  StepWeight(a, b) \in Nat
  <2> DEFINE between == {e \in edges : e.from = a /\ e.to = b}
  <2>1. CASE between = {}
    BY <2>1 DEF StepWeight
  <2>2. CASE between # {}
    <3>1. (CHOOSE e \in between : TRUE) \in between
      BY <2>2
    <3> QED
      BY <1>1, <2>2, <3>1 DEF StepWeight
  <2> QED
    BY <2>1, <2>2
<1> QED
  BY <1>2, <1>3, <1>4

-----------------------------------------------------------------------------
(* A turn of the loop.                                                     *)

Unvisited(s) == DOMAIN s.dist \ s.visited
\* The nodes whose distance is the least of those not visited; the loop takes one.
Near(s) == {n \in Unvisited(s) : \A m \in Unvisited(s) : s.dist[n] <= s.dist[m]}
Nearest(s) == CHOOSE m \in Near(s) : TRUE

\* The loop has ended.
Stops(s, goal) == Near(s) = {} \/ Nearest(s) = goal \/ Cardinality(s.visited) >= VisitLimit

\* The nodes that are reached more cheaply through n.
Better(s, n) ==
  {m \in Neighbours(n) : m \notin DOMAIN s.dist \/ s.dist[n] + StepWeight(n, m) < s.dist[m]}

\* From s to t, n is visited.
Visited(s, n, t) ==
  /\ t.visited = s.visited \cup {n}
  /\ DOMAIN t.dist = DOMAIN s.dist \cup Better(s, n)
  /\ \A m \in Better(s, n) : t.dist[m] = s.dist[n] + StepWeight(n, m)
  /\ \A m \in DOMAIN s.dist \ Better(s, n) : t.dist[m] = s.dist[m]
  /\ \A m \in NodeIds : t.prev[m] = IF m \in Better(s, n) THEN n ELSE s.prev[m]

SearchStates == [visited : SUBSET NodeIds,
                 dist : UNION {[S -> Nat] : S \in SUBSET NodeIds},
                 prev : [NodeIds -> NodeIds \cup {None}]]

\* A turn after the loop has ended changes nothing.
LEMMA RelaxStops ==
  ASSUME NEW s, NEW goal, Stops(s, goal)
  PROVE  Relax(s, goal) = s
BY DEF Relax, Stops, Near, Nearest, Unvisited

\* Any other turn visits one of the nearest nodes, and nothing else.
LEMMA RelaxVisits ==
  ASSUME Tidy, NEW s \in SearchStates, NEW goal, ~Stops(s, goal)
  PROVE  /\ Nearest(s) \in Near(s) /\ Relax(s, goal) \in SearchStates
         /\ Visited(s, Nearest(s), Relax(s, goal))
<1> DEFINE n == Nearest(s)
           t == [visited |-> s.visited \cup {n},
                 dist |-> [m \in DOMAIN s.dist \cup Better(s, n) |->
                    IF m \in Better(s, n) THEN s.dist[n] + StepWeight(n, m) ELSE s.dist[m]],
                 prev |-> [m \in NodeIds |-> IF m \in Better(s, n) THEN n ELSE s.prev[m]]]
<1>1. n \in Near(s)
  BY DEF Stops, Nearest
<1>2. Relax(s, goal) = t
  BY DEF Relax, Stops, Near, Nearest, Unvisited, Better
<1>3. /\ s.visited \subseteq NodeIds /\ DOMAIN s.dist \subseteq NodeIds
      /\ s.dist \in [DOMAIN s.dist -> Nat] /\ s.prev \in [NodeIds -> NodeIds \cup {None}]
  BY DEF SearchStates
<1>4. n \in NodeIds /\ n \in DOMAIN s.dist
  BY <1>1, <1>3 DEF Near, Unvisited
<1>5. Better(s, n) \subseteq NodeIds /\ \A m : StepWeight(n, m) \in Nat
  BY StepsAlongArcs DEF Better, Neighbours, Tidy, KnowledgeTypeOK
<1> HIDE DEF n
<1>6. t \in SearchStates
  <2>1. t.visited \in SUBSET NodeIds
    BY <1>3, <1>4
  <2>2. t.dist \in [DOMAIN s.dist \cup Better(s, n) -> Nat]
    BY <1>3, <1>4, <1>5
  <2>3. t.dist \in UNION {[S -> Nat] : S \in SUBSET NodeIds}
    BY <1>3, <1>5, <2>2
  <2>4. t.prev \in [NodeIds -> NodeIds \cup {None}]
    BY <1>3, <1>4
  <2> QED
    BY <2>1, <2>3, <2>4 DEF SearchStates
<1>7. Visited(s, n, t)
  BY DEF Visited
<1> QED
  BY <1>1, <1>2, <1>6, <1>7 DEF n

-----------------------------------------------------------------------------
(* The invariant.                                                          *)

\* A way from `from' to m along the tree that prev describes: its nodes but the last
\* have been visited, and each was reached from the one before it.
TreePath(s, p, from, m) ==
  /\ p \in Seq(nodes) /\ Len(p) \in Nat \ {0} /\ p[1] = from /\ p[Len(p)] = m
  /\ \A i, j \in 1..Len(p) : p[i] = p[j] => i = j
  /\ \A i \in 1..(Len(p) - 1) :
       /\ p[i] \in s.visited /\ Arc(p[i], p[i + 1]) /\ s.prev[p[i + 1]] = p[i]
       /\ s.dist[p[i + 1]] = s.dist[p[i]] + StepWeight(p[i], p[i + 1])

\* Only nodes that are there have a distance, the start has 0 and no node before it.
Distances(s, from) ==
  /\ s.visited \subseteq DOMAIN s.dist /\ DOMAIN s.dist \subseteq nodes
  /\ \A m \in DOMAIN s.dist : s.dist[m] \in Nat
  /\ from \in DOMAIN s.dist /\ s.dist[from] = 0 /\ s.prev[from] = None

\* No visited node is farther than one that is not.
Levelled(s) == \A v \in s.visited : \A u \in Unvisited(s) : s.dist[v] <= s.dist[u]

\* Whatever a visited node leads to is no farther than by way of it.
Relaxed(s) ==
  \A v \in s.visited : \A m \in nodes : Arc(v, m) =>
    m \in DOMAIN s.dist /\ s.dist[m] <= s.dist[v] + StepWeight(v, m)

\* Every node that has a distance is at the end of a way along the tree.
Treed(s, from) == \A m \in DOMAIN s.dist : \E p : TreePath(s, p, from, m)

SearchOK(s, from) ==
  Distances(s, from) /\ Levelled(s) /\ Relaxed(s) /\ Treed(s, from)

\* The search begins so.
LEMMA StartIsOK ==
  ASSUME Tidy, NEW from \in nodes
  PROVE  StartAt(from) \in SearchStates /\ SearchOK(StartAt(from), from)
         /\ StartAt(from).visited = {}
<1> DEFINE s == StartAt(from)
<1>1. /\ s.visited = {} /\ DOMAIN s.dist = {from} /\ s.dist[from] = 0
      /\ s.dist \in [{from} -> Nat] /\ s.prev = [n \in NodeIds |-> None] /\ from \in NodeIds
  BY DEF StartAt, Tidy, KnowledgeTypeOK
<1>2. s \in SearchStates
  <2>1. s.dist \in UNION {[S -> Nat] : S \in SUBSET NodeIds}
    BY <1>1
  <2>2. s.prev \in [NodeIds -> NodeIds \cup {None}] /\ s.visited \in SUBSET NodeIds
    BY <1>1
  <2>3. s = [visited |-> s.visited, dist |-> s.dist, prev |-> s.prev]
    BY DEF StartAt
  <2> HIDE DEF s
  <2> QED
    BY <2>1, <2>2, <2>3 DEF SearchStates
<1> HIDE DEF s
<1>3. Distances(s, from) /\ Levelled(s) /\ Relaxed(s)
  BY <1>1 DEF Distances, Levelled, Relaxed
<1>4. TreePath(s, <<from>>, from, from)
  <2>1. <<from>> \in Seq(nodes) /\ Len(<<from>>) = 1 /\ <<from>>[1] = from
    OBVIOUS
  <2> QED
    BY <2>1 DEF TreePath
<1>5. Treed(s, from)
  BY <1>1, <1>4 DEF Treed
<1> QED
  BY <1>1, <1>2, <1>3, <1>5 DEF SearchOK, s

\* A turn: the nearest node is visited.
LEMMA VisitKeeps ==
  ASSUME Tidy, NEW from \in nodes, NEW s, SearchOK(s, from), NEW n \in Near(s), NEW t,
         Visited(s, n, t)
  PROVE  SearchOK(t, from)
<1> DEFINE B == Better(s, n)
           w(m) == StepWeight(n, m)
<1>1. /\ n \in DOMAIN s.dist /\ n \notin s.visited /\ n \in nodes
      /\ \A u \in DOMAIN s.dist \ s.visited : s.dist[n] <= s.dist[u]
      /\ \A m \in DOMAIN s.dist : s.dist[m] \in Nat
      /\ s.visited \subseteq DOMAIN s.dist /\ DOMAIN s.dist \subseteq nodes
      /\ from \in DOMAIN s.dist /\ s.dist[from] = 0 /\ s.prev[from] = None
  BY DEF SearchOK, Distances, Near, Unvisited
<1>2. nodes \subseteq NodeIds /\ \A a, b : StepWeight(a, b) \in Nat
  BY StepsAlongArcs DEF Tidy, KnowledgeTypeOK
<1>3. \A m : m \in B <=> /\ m \in nodes /\ Arc(n, m)
                         /\ m \notin DOMAIN s.dist \/ s.dist[n] + w(m) < s.dist[m]
  BY StepsAlongArcs DEF Better
<1>4. \A v \in s.visited : s.dist[v] <= s.dist[n]
  BY <1>1 DEF SearchOK, Levelled, Unvisited
<1>5. \A m \in s.visited \cup {n, from} : m \notin B
  <2>1. \A m \in DOMAIN s.dist : s.dist[m] <= s.dist[n] => ~(s.dist[n] + w(m) < s.dist[m])
    BY <1>1, <1>2
  <2>2. \A m \in s.visited \cup {n, from} : m \in DOMAIN s.dist /\ s.dist[m] <= s.dist[n]
    BY <1>1, <1>4
  <2> QED
    BY <1>3, <2>1, <2>2
<1>6. /\ t.visited = s.visited \cup {n} /\ DOMAIN t.dist = DOMAIN s.dist \cup B
      /\ \A m \in B : t.dist[m] = s.dist[n] + w(m)
      /\ \A m \in DOMAIN s.dist \ B : t.dist[m] = s.dist[m]
      /\ \A m \in nodes : t.prev[m] = IF m \in B THEN n ELSE s.prev[m]
  BY <1>2 DEF Visited
<1> HIDE DEF B, w
<1>7. \A m \in s.visited \cup {n, from} : t.dist[m] = s.dist[m] /\ t.prev[m] = s.prev[m]
  BY <1>1, <1>5, <1>6
<1>8. \A m \in DOMAIN t.dist : t.dist[m] \in Nat /\ (m \in B => s.dist[n] <= t.dist[m])
  BY <1>1, <1>2, <1>6 DEF w
<1>9. Distances(t, from)
  BY <1>1, <1>3, <1>6, <1>7, <1>8 DEF Distances
<1>10. Levelled(t)
  <2> SUFFICES ASSUME NEW v \in t.visited, NEW u \in DOMAIN t.dist \ t.visited
               PROVE  t.dist[v] <= t.dist[u]
    BY DEF Levelled, Unvisited
  <2>1. t.dist[v] = s.dist[v] /\ s.dist[v] <= s.dist[n] /\ v \in DOMAIN s.dist
    BY <1>1, <1>4, <1>6, <1>7
  <2>2. s.dist[n] <= t.dist[u] /\ t.dist[u] \in Nat
    BY <1>1, <1>6, <1>8
  <2> QED
    BY <1>1, <2>1, <2>2
<1>11. Relaxed(t)
  <2> SUFFICES ASSUME NEW v \in t.visited, NEW m \in nodes, Arc(v, m)
               PROVE  m \in DOMAIN t.dist /\ t.dist[m] <= t.dist[v] + StepWeight(v, m)
    BY DEF Relaxed
  <2>1. t.dist[v] = s.dist[v] /\ v \in DOMAIN s.dist
    BY <1>1, <1>6, <1>7
  <2>2. CASE v = n
    <3>1. CASE m \in B
      BY <1>1, <1>2, <1>6, <2>1, <2>2, <3>1 DEF w
    <3>2. CASE m \notin B
      BY <1>1, <1>2, <1>3, <1>6, <2>1, <2>2, <3>2 DEF w
    <3> QED
      BY <3>1, <3>2
  <2>3. CASE v \in s.visited
    <3>1. m \in DOMAIN s.dist /\ s.dist[m] <= s.dist[v] + StepWeight(v, m)
      BY <2>3 DEF SearchOK, Relaxed
    <3>2. t.dist[m] <= s.dist[m]
      <4>1. CASE m \in B
        <5>1. s.dist[n] + w(m) < s.dist[m]
          BY <1>3, <3>1, <4>1
        <5>2. t.dist[m] = s.dist[n] + w(m) /\ w(m) \in Nat
          BY <1>2, <1>6, <4>1 DEF w
        <5> QED
          BY <1>1, <3>1, <5>1, <5>2
      <4>2. CASE m \notin B
        <5>1. t.dist[m] = s.dist[m]
          BY <1>6, <3>1, <4>2
        <5> QED
          BY <1>1, <3>1, <5>1
      <4> QED
        BY <4>1, <4>2
    <3>3. t.dist[m] \in Nat /\ s.dist[m] \in Nat /\ s.dist[v] \in Nat /\ StepWeight(v, m) \in Nat
      BY <1>1, <1>2, <1>6, <1>8, <2>1, <3>1
    <3> QED
      BY <1>6, <2>1, <3>1, <3>2, <3>3
  <2> QED
    BY <1>6, <2>2, <2>3
<1>12. Treed(t, from)
  <2> SUFFICES ASSUME NEW m \in DOMAIN t.dist
               PROVE  \E p : TreePath(t, p, from, m)
    BY DEF Treed
  <2>1. ASSUME NEW p, NEW k \in DOMAIN s.dist, TreePath(s, p, from, k), k \notin B
        PROVE  TreePath(t, p, from, k)
    <3>1. ASSUME NEW i \in 1..(Len(p) - 1)
          PROVE  /\ p[i] \in t.visited /\ t.prev[p[i + 1]] = p[i]
                 /\ t.dist[p[i + 1]] = t.dist[p[i]] + StepWeight(p[i], p[i + 1])
      <4>1. /\ p[i] \in s.visited /\ s.prev[p[i + 1]] = p[i]
            /\ s.dist[p[i + 1]] = s.dist[p[i]] + StepWeight(p[i], p[i + 1])
        BY <2>1 DEF TreePath
      <4>2. p[i + 1] \in s.visited \/ p[i + 1] = k
        <5>1. Len(p) \in Nat /\ p[Len(p)] = k
          BY <2>1 DEF TreePath
        <5>2. i + 1 \in 1..(Len(p) - 1) \/ i + 1 = Len(p)
          BY <5>1
        <5> QED
          BY <2>1, <5>1, <5>2 DEF TreePath
      <4>3. t.dist[p[i + 1]] = s.dist[p[i + 1]] /\ t.prev[p[i + 1]] = s.prev[p[i + 1]]
        BY <1>1, <1>6, <1>7, <2>1, <4>2
      <4> QED
        BY <1>6, <1>7, <4>1, <4>3
    <3> QED
      BY <2>1, <3>1 DEF TreePath
  <2>2. CASE m \notin B
    <3>1. m \in DOMAIN s.dist
      BY <1>6, <2>2
    <3>2. PICK p : TreePath(s, p, from, m)
      BY <3>1 DEF SearchOK, Treed
    <3> QED
      BY <2>1, <2>2, <3>1, <3>2
  <2>3. CASE m \in B
    <3>1. PICK p : TreePath(s, p, from, n)
      BY <1>1 DEF SearchOK, Treed
    <3>2. TreePath(t, p, from, n)
      BY <1>1, <1>5, <2>1, <3>1
    <3> DEFINE l == Len(p)
               q == Append(p, m)
    <3>3. p \in Seq(nodes) /\ l \in Nat \ {0} /\ p[1] = from /\ p[l] = n /\ m \in nodes
      BY <1>3, <2>3, <3>1 DEF TreePath
    <3>4. /\ q \in Seq(nodes) /\ Len(q) = l + 1 /\ q[l + 1] = m
          /\ \A i \in 1..l : q[i] = p[i]
      BY <3>3
    <3>5. \A i \in 1..l : p[i] # m
      <4>1. \A i \in 1..l : p[i] \in s.visited \/ p[i] = n
        <5>1. \A i \in 1..l : i \in 1..(l - 1) \/ i = l
          BY <3>3
        <5> QED
          BY <3>1, <3>3, <5>1 DEF TreePath
      <4> QED
        BY <1>5, <2>3, <4>1
    <3>6. /\ \A i, j \in 1..l : p[i] = p[j] => i = j
          /\ \A i \in 1..(l - 1) :
               /\ p[i] \in t.visited /\ Arc(p[i], p[i + 1]) /\ t.prev[p[i + 1]] = p[i]
               /\ t.dist[p[i + 1]] = t.dist[p[i]] + StepWeight(p[i], p[i + 1])
      BY <3>2 DEF TreePath
    <3>7. n \in t.visited /\ Arc(n, m) /\ t.prev[m] = n /\ t.dist[m] = t.dist[n] + StepWeight(n, m)
      BY <1>3, <1>6, <1>7, <2>3, <3>3 DEF w
    <3> HIDE DEF l, q
    <3>8. \A i \in 1..(l + 1) : i \in 1..l \/ i = l + 1
      BY <3>3
    <3>9. \A i, j \in 1..(l + 1) : q[i] = q[j] => i = j
      BY <3>4, <3>5, <3>6, <3>8
    <3>10. ASSUME NEW i \in 1..l
           PROVE  /\ q[i] \in t.visited /\ Arc(q[i], q[i + 1]) /\ t.prev[q[i + 1]] = q[i]
                  /\ t.dist[q[i + 1]] = t.dist[q[i]] + StepWeight(q[i], q[i + 1])
      <4>1. CASE i = l
        <5>1. q[i] = n /\ q[i + 1] = m
          BY <3>3, <3>4, <4>1
        <5> QED
          BY <3>7, <5>1
      <4>2. CASE i # l
        <5>1. i \in 1..(l - 1) /\ i + 1 \in 1..l
          BY <3>3, <4>2
        <5>2. q[i] = p[i] /\ q[i + 1] = p[i + 1]
          BY <3>4, <5>1
        <5> QED
          BY <3>6, <5>1, <5>2
      <4> QED
        BY <4>1, <4>2
    <3>11. q[1] = from /\ (l + 1) - 1 = l /\ l + 1 \in Nat \ {0}
      BY <3>3, <3>4
    <3>12. TreePath(t, q, from, m)
      BY <3>4, <3>9, <3>10, <3>11 DEF TreePath
    <3> QED
      BY <3>12
  <2> QED
    BY <2>2, <2>3
<1> QED
  BY <1>9, <1>10, <1>11, <1>12 DEF SearchOK

-----------------------------------------------------------------------------
(* The cost of a path, from its start to each of its places.               *)

\* The weights of the path's steps, and what the path costs up to its place i.
Steps(p) == [i \in 1..(Len(p) - 1) |-> StepWeight(p[i], p[i + 1])]
CostTo(p, i) == SumFunctionOnSet(Steps(p), 1..(i - 1))

\* The cost of a path grows by the weight of each step, and ends with Cost.
LEMMA CostGrows ==
  ASSUME Tidy, NEW p, Len(p) \in Nat \ {0}
  PROVE  /\ Cost(p) = CostTo(p, Len(p)) /\ CostTo(p, 1) = 0
         /\ \A i \in 1..Len(p) : CostTo(p, i) \in Int
         /\ \A i \in 1..(Len(p) - 1) :
              CostTo(p, i + 1) = CostTo(p, i) + StepWeight(p[i], p[i + 1])
<1> DEFINE n == Len(p)
           f == Steps(p)
           S == 1..(n - 1)
<1>1. IsFiniteSet(S) /\ DOMAIN f = S /\ \A i \in S : f[i] = StepWeight(p[i], p[i + 1])
  BY FS_Interval DEF Steps
<1>2. IntsOn(f, S)
  BY <1>1, StepsAlongArcs DEF IntsOn
<1>3. Cost(p) = SumFunctionOnSet(f, S)
  BY DEF Cost, SumFunction, Steps
<1> HIDE DEF f
<1>4. SumFunctionOnSet(f, {}) = 0 /\ 1..(1 - 1) = {}
  BY <1>1, <1>2, SumProperties
<1>5. ASSUME NEW T \in SUBSET S
      PROVE  SumFunctionOnSet(f, T) \in Int /\ \A x \in T : OnTop(f, T, x)
  <2>1. IsFiniteSet(T)
    BY <1>1, FS_Subset
  <2>2. IntsOn(f, T)
    BY <1>2 DEF IntsOn
  <2> QED
    BY <2>1, <2>2, SumProperties
<1>6. \A i \in 1..n : CostTo(p, i) \in Int
  <2> SUFFICES ASSUME NEW i \in 1..n
               PROVE  SumFunctionOnSet(f, 1..(i - 1)) \in Int
    BY DEF CostTo, f
  <2>1. 1..(i - 1) \in SUBSET S
    OBVIOUS
  <2> QED
    BY <1>5, <2>1
<1>7. ASSUME NEW i \in 1..(n - 1)
      PROVE  CostTo(p, i + 1) = CostTo(p, i) + StepWeight(p[i], p[i + 1])
  <2>1. 1..((i + 1) - 1) = 1..i /\ 1..i \in SUBSET S /\ i \in 1..i /\ i \in S
    OBVIOUS
  <2>2. (1..i) \ {i} = 1..(i - 1)
    OBVIOUS
  <2>3. OnTop(f, 1..i, i)
    BY <1>5, <2>1
  <2>4. SumFunctionOnSet(f, 1..i) = f[i] + SumFunctionOnSet(f, 1..(i - 1))
    BY <2>2, <2>3 DEF OnTop
  <2>5. CostTo(p, i + 1) = SumFunctionOnSet(f, 1..i)
    BY <2>1 DEF CostTo, f
  <2>6. CostTo(p, i) = SumFunctionOnSet(f, 1..(i - 1))
    BY DEF CostTo, f
  <2>7. SumFunctionOnSet(f, 1..(i - 1)) \in Int /\ f[i] \in Int
    <3>1. 1..(i - 1) \in SUBSET S
      OBVIOUS
    <3> QED
      BY <1>2, <1>5, <2>1, <3>1 DEF IntsOn
  <2>8. f[i] = StepWeight(p[i], p[i + 1])
    BY <1>1, <2>1
  <2> QED
    BY <2>4, <2>5, <2>6, <2>7, <2>8
<1>8. CostTo(p, n) = SumFunctionOnSet(f, S)
  BY DEF CostTo, f
<1>9. CostTo(p, 1) = SumFunctionOnSet(f, {})
  BY <1>4 DEF CostTo, f
<1> QED
  BY <1>3, <1>4, <1>6, <1>7, <1>8, <1>9

\* A way along the tree costs the distance of its end.
LEMMA TreePathCosts ==
  ASSUME Tidy, NEW s, NEW from, SearchOK(s, from), NEW m, NEW p, TreePath(s, p, from, m)
  PROVE  Cost(p) = s.dist[m]
<1> DEFINE n == Len(p)
           S == {i \in Nat : i + 1 \in 1..n => s.dist[p[i + 1]] = CostTo(p, i + 1)}
<1>1. n \in Nat \ {0} /\ p[1] = from /\ p[n] = m /\ s.dist[from] = 0
  BY DEF TreePath, SearchOK, Distances
<1>2. \A i \in 1..(n - 1) : s.dist[p[i + 1]] = s.dist[p[i]] + StepWeight(p[i], p[i + 1])
  BY DEF TreePath
<1>3. /\ Cost(p) = CostTo(p, n) /\ CostTo(p, 1) = 0
      /\ \A i \in 1..(n - 1) : CostTo(p, i + 1) = CostTo(p, i) + StepWeight(p[i], p[i + 1])
  BY <1>1, CostGrows
<1> HIDE DEF n
<1>4. 0 \in S
  BY <1>1, <1>3
<1>5. ASSUME NEW i \in Nat, i \in S
      PROVE  i + 1 \in S
  <2>1. CASE (i + 1) + 1 \in 1..n
    <3>1. i + 1 \in 1..(n - 1) /\ i + 1 \in 1..n
      BY <1>1, <2>1
    <3>2. s.dist[p[i + 1]] = CostTo(p, i + 1)
      BY <1>5, <3>1
    <3> QED
      BY <1>2, <1>3, <3>1, <3>2
  <2> QED
    BY <2>1
<1>6. \A i \in Nat : i \in S
  <2> HIDE DEF S
  <2> QED
    BY <1>4, <1>5, NatSetInduction
<1>7. n - 1 \in Nat /\ (n - 1) + 1 = n /\ n \in 1..n
  BY <1>1
<1> QED
  BY <1>1, <1>3, <1>6, <1>7

\* The search knows enough: whatever is in reach has been visited, or the goal is no
\* farther than anything that has not.
Enough(s, goal) ==
  \/ DOMAIN s.dist \subseteq s.visited
  \/ /\ goal \in DOMAIN s.dist
     /\ \A u \in Unvisited(s) : s.dist[goal] <= s.dist[u]

\* A path along edges, of any length.
IsRoute(p, from, goal) ==
  /\ p \in Seq(nodes) /\ Len(p) \in Nat \ {0} /\ p[1] = from /\ p[Len(p)] = goal
  /\ \A i \in 1..(Len(p) - 1) : Arc(p[i], p[i + 1])

\* Then no way is cheaper than the distance that it has found.
LEMMA NoneIsCheaper ==
  ASSUME Tidy, NEW s, NEW from, NEW goal, SearchOK(s, from), Enough(s, goal),
         NEW p, IsRoute(p, from, goal)
  PROVE  goal \in DOMAIN s.dist /\ s.dist[goal] <= Cost(p)
<1> DEFINE n == Len(p)
           near(i) == goal \in DOMAIN s.dist /\ s.dist[goal] <= CostTo(p, i)
           there(i) == p[i] \in s.visited /\ s.dist[p[i]] <= CostTo(p, i)
           S == {i \in Nat : i + 1 \in 1..n => near(i + 1) \/ there(i + 1)}
<1>1. n \in Nat \ {0} /\ p[1] = from /\ p[n] = goal /\ \A i \in 1..n : p[i] \in nodes
  BY DEF IsRoute
<1>2. \A i \in 1..(n - 1) : Arc(p[i], p[i + 1])
  BY DEF IsRoute
<1>3. /\ Cost(p) = CostTo(p, n) /\ CostTo(p, 1) = 0
      /\ \A i \in 1..n : CostTo(p, i) \in Int
      /\ \A i \in 1..(n - 1) : CostTo(p, i + 1) = CostTo(p, i) + StepWeight(p[i], p[i + 1])
  BY <1>1, CostGrows
<1> HIDE DEF n
<1>4. /\ \A m \in DOMAIN s.dist : s.dist[m] \in Nat
      /\ s.visited \subseteq DOMAIN s.dist /\ from \in DOMAIN s.dist /\ s.dist[from] = 0
  BY DEF SearchOK, Distances
<1>5. \A a, b : StepWeight(a, b) \in Nat
  BY StepsAlongArcs
<1>6. ASSUME NEW i \in 1..n, p[i] \in DOMAIN s.dist, s.dist[p[i]] <= CostTo(p, i)
      PROVE  near(i) \/ there(i)
  <2>1. CASE p[i] \in s.visited
    BY <1>6, <2>1
  <2>2. CASE p[i] \notin s.visited
    <3>1. goal \in DOMAIN s.dist /\ s.dist[goal] <= s.dist[p[i]]
      BY <1>6, <2>2 DEF Enough, Unvisited
    <3> QED
      BY <1>3, <1>4, <1>6, <3>1
  <2> QED
    BY <2>1, <2>2
<1>7. 0 \in S
  <2>1. 1 \in 1..n /\ 0 + 1 = 1
    BY <1>1
  <2>2. p[1] \in DOMAIN s.dist /\ s.dist[p[1]] <= CostTo(p, 1)
    BY <1>1, <1>3, <1>4
  <2>3. near(1) \/ there(1)
    BY <1>6, <2>1, <2>2
  <2> QED
    BY <2>1, <2>3
<1>8. ASSUME NEW i \in Nat, i \in S
      PROVE  i + 1 \in S
  <2> SUFFICES ASSUME (i + 1) + 1 \in 1..n
               PROVE  near((i + 1) + 1) \/ there((i + 1) + 1)
    OBVIOUS
  <2> DEFINE j == i + 1
  <2>1. j \in 1..(n - 1) /\ j \in 1..n /\ j + 1 \in 1..n
    BY <1>1
  <2>2. near(j) \/ there(j)
    BY <1>8, <2>1
  <2> HIDE DEF j
  <2>3. /\ CostTo(p, j + 1) = CostTo(p, j) + StepWeight(p[j], p[j + 1])
        /\ StepWeight(p[j], p[j + 1]) \in Nat /\ CostTo(p, j) \in Int
    BY <1>3, <1>5, <2>1
  <2>4. CASE near(j)
    <3>1. s.dist[goal] \in Nat
      BY <1>4, <2>4
    <3>2. near(j + 1)
      BY <2>3, <2>4, <3>1
    <3> QED
      BY <3>2 DEF j
  <2>5. CASE there(j)
    <3>1. p[j + 1] \in nodes /\ Arc(p[j], p[j + 1])
      BY <1>1, <1>2, <2>1
    <3>2. p[j + 1] \in DOMAIN s.dist
          /\ s.dist[p[j + 1]] <= s.dist[p[j]] + StepWeight(p[j], p[j + 1])
      BY <2>5, <3>1 DEF SearchOK, Relaxed
    <3>3. s.dist[p[j + 1]] \in Nat /\ s.dist[p[j]] \in Nat
      BY <1>4, <2>5, <3>2
    <3>4. s.dist[p[j + 1]] <= CostTo(p, j + 1)
      BY <2>3, <2>5, <3>2, <3>3
    <3>5. near(j + 1) \/ there(j + 1)
      BY <1>6, <2>1, <3>2, <3>4
    <3> QED
      BY <3>5 DEF j
  <2> QED
    BY <2>2, <2>4, <2>5
<1>9. \A i \in Nat : i \in S
  <2> HIDE DEF S
  <2> QED
    BY <1>7, <1>8, NatSetInduction
<1>10. n - 1 \in Nat /\ (n - 1) + 1 = n /\ n \in 1..n
  BY <1>1
<1>11. near(n) \/ there(n)
  BY <1>9, <1>10
<1> QED
  BY <1>1, <1>3, <1>4, <1>11

-----------------------------------------------------------------------------
(* The loop.                                                               *)

\* The recursion in ShortestPath, and what it says of the turns.
TurnEquation(turn, from, goal) ==
  turn = [k \in Nat |-> IF k = 0 THEN StartAt(from) ELSE Relax(turn[k - 1], goal)]
FollowsTurns(turn, from, goal) ==
  turn[0] = StartAt(from) /\ \A k \in Nat : turn[k + 1] = Relax(turn[k], goal)

LastTurn(from, goal) ==
  (CHOOSE turn : TurnEquation(turn, from, goal))[Cardinality(NodeIds)]

\* A turn leaves what the loop keeps well formed.
LEMMA RelaxTyped ==
  ASSUME Tidy, NEW s \in SearchStates, NEW goal
  PROVE  Relax(s, goal) \in SearchStates
BY RelaxStops, RelaxVisits

\* The recursion in ShortestPath has a solution, which goes on turn by turn.
LEMMA TurnsAre ==
  ASSUME Tidy, NEW from \in nodes, NEW goal
  PROVE  \E turn : FollowsTurns(turn, from, goal) /\ LastTurn(from, goal) = turn[Cardinality(NodeIds)]
<1> DEFINE step == [p \in Nat \X SearchStates |-> Relax(p[2], goal)]
           a == StartAt(from)
<1>1. step \in [Nat \X SearchStates -> SearchStates]
  BY RelaxTyped
<1>2. a \in SearchStates
  BY StartIsOK
<1>3. PICK g \in [Nat -> SearchStates] : RecursAlways(a, step, g)
  <2> HIDE DEF step, a
  <2> QED
    BY <1>1, <1>2, NatRecursionAlways
<1>4. ASSUME NEW k \in Nat
      PROVE  g[k + 1] = Relax(g[k], goal)
  <2>1. g[k + 1] = step[<<k + 1, g[k]>>]
    <3> HIDE DEF step
    <3> QED
      BY <1>3 DEF RecursAlways
  <2>2. <<k + 1, g[k]>> \in Nat \X SearchStates
    OBVIOUS
  <2> QED
    BY <2>1, <2>2
<1>5. TurnEquation(g, from, goal)
  <2>1. ASSUME NEW k \in Nat
        PROVE  g[k] = IF k = 0 THEN StartAt(from) ELSE Relax(g[k - 1], goal)
    <3>1. CASE k = 0
      BY <1>3, <3>1 DEF RecursAlways
    <3>2. CASE k # 0
      <4>1. k - 1 \in Nat /\ (k - 1) + 1 = k
        BY <3>2
      <4> QED
        BY <1>4, <3>2, <4>1
    <3> QED
      BY <3>1, <3>2
  <2> QED
    BY <2>1 DEF TurnEquation
<1> DEFINE it == CHOOSE turn : TurnEquation(turn, from, goal)
<1>6. TurnEquation(it, from, goal)
  BY <1>5
<1>7. LastTurn(from, goal) = it[Cardinality(NodeIds)]
  BY DEF LastTurn
<1> HIDE DEF it
<1>8. it[0] = StartAt(from)
  BY <1>6 DEF TurnEquation
<1>9. ASSUME NEW k \in Nat
      PROVE  it[k + 1] = Relax(it[k], goal)
  <2>1. k + 1 \in Nat /\ k + 1 # 0 /\ (k + 1) - 1 = k
    OBVIOUS
  <2> QED
    BY <1>6, <2>1 DEF TurnEquation
<1>10. FollowsTurns(it, from, goal)
  BY <1>8, <1>9 DEF FollowsTurns
<1> QED
  BY <1>7, <1>10

\* When the loop has ended, the search knows enough.
LEMMA StopsWithEnough ==
  ASSUME Tidy, Cardinality(nodes) <= VisitLimit, NEW from, NEW s, NEW goal,
         SearchOK(s, from), Stops(s, goal)
  PROVE  Enough(s, goal)
<1>1. /\ s.visited \subseteq DOMAIN s.dist /\ DOMAIN s.dist \subseteq nodes
      /\ \A m \in DOMAIN s.dist : s.dist[m] \in Nat
  BY DEF SearchOK, Distances
<1>2. IsFiniteSet(nodes)
  BY FS_Subset, KnowledgeAssumption DEF Tidy, KnowledgeTypeOK
<1>3. CASE Near(s) = {}
  <2> SUFFICES ASSUME Unvisited(s) # {}
               PROVE  Near(s) # {}
    BY <1>3 DEF Enough, Unvisited
  <2> DEFINE D == {s.dist[m] : m \in Unvisited(s)}
  <2>1. D \subseteq Nat /\ D # {}
    BY <1>1 DEF Unvisited
  <2>2. PICK d \in D : \A e \in D : d <= e
    <3> HIDE DEF D
    <3> QED
      BY <2>1, LeastNatural
  <2>3. PICK n \in Unvisited(s) : d = s.dist[n]
    BY <2>2
  <2>4. n \in Near(s)
    BY <2>2, <2>3 DEF Near
  <2> QED
    BY <2>4
<1>4. CASE Near(s) # {} /\ Nearest(s) = goal
  <2>1. goal \in Near(s)
    BY <1>4 DEF Nearest
  <2> QED
    BY <2>1 DEF Near, Enough, Unvisited
<1>5. CASE Cardinality(s.visited) >= VisitLimit
  <2>1. s.visited \subseteq nodes
    BY <1>1
  <2>2. IsFiniteSet(s.visited) /\ Cardinality(s.visited) <= Cardinality(nodes)
        /\ Cardinality(s.visited) \in Nat /\ Cardinality(nodes) \in Nat
        /\ (Cardinality(s.visited) = Cardinality(nodes) => s.visited = nodes)
    BY <1>2, <2>1, FS_Subset, FS_CardinalityType
  <2>3. Cardinality(s.visited) = Cardinality(nodes)
    BY <1>5, <2>2 DEF VisitLimit
  <2> QED
    BY <1>1, <2>2, <2>3 DEF Enough
<1> QED
  BY <1>3, <1>4, <1>5 DEF Stops

\* After as many turns as there are ids the loop has ended.
LEMMA SearchEnds ==
  ASSUME Tidy, Cardinality(nodes) <= VisitLimit, NEW from \in nodes, NEW goal
  PROVE  SearchOK(LastTurn(from, goal), from) /\ Enough(LastTurn(from, goal), goal)
<1>1. PICK turn : FollowsTurns(turn, from, goal)
                  /\ LastTurn(from, goal) = turn[Cardinality(NodeIds)]
  BY TurnsAre
<1> DEFINE S == {k \in Nat : /\ turn[k] \in SearchStates /\ SearchOK(turn[k], from)
                             /\ Stops(turn[k], goal) \/ Cardinality(turn[k].visited) = k}
<1>2. 0 \in S
  <2>1. /\ turn[0] \in SearchStates /\ SearchOK(turn[0], from) /\ turn[0].visited = {}
    BY <1>1, StartIsOK DEF FollowsTurns
  <2>2. Cardinality(turn[0].visited) = 0
    BY <2>1, FS_EmptySet
  <2> QED
    BY <2>1, <2>2
<1>3. ASSUME NEW k \in Nat, k \in S
      PROVE  k + 1 \in S
  <2> DEFINE s == turn[k]
             t == turn[k + 1]
  <2>1. /\ t = Relax(s, goal) /\ s \in SearchStates /\ SearchOK(s, from)
        /\ Stops(s, goal) \/ Cardinality(s.visited) = k
    BY <1>1, <1>3 DEF FollowsTurns
  <2> HIDE DEF s, t
  <2>2. CASE Stops(s, goal)
    <3>1. t = s
      BY <2>1, <2>2, RelaxStops
    <3> QED
      BY <2>1, <2>2, <3>1 DEF t
  <2>3. CASE ~Stops(s, goal)
    <3>1. Nearest(s) \in Near(s) /\ t \in SearchStates /\ Visited(s, Nearest(s), t)
      BY <2>1, <2>3, RelaxVisits
    <3>2. SearchOK(t, from)
      BY <2>1, <3>1, VisitKeeps
    <3>3. IsFiniteSet(s.visited)
      <4>1. s.visited \subseteq NodeIds
        BY <2>1 DEF SearchStates
      <4> QED
        BY <4>1, FS_Subset, KnowledgeAssumption
    <3>4. t.visited = s.visited \cup {Nearest(s)} /\ Nearest(s) \notin s.visited
      BY <3>1 DEF Visited, Near, Unvisited
    <3>5. Cardinality(t.visited) = k + 1
      <4>1. Cardinality(s.visited) = k
        BY <2>1, <2>3
      <4>2. Cardinality(s.visited \cup {Nearest(s)}) = Cardinality(s.visited) + 1
        BY <3>3, <3>4, FS_AddElement
      <4> QED
        BY <3>4, <4>1, <4>2
    <3> QED
      BY <3>1, <3>2, <3>5 DEF t
  <2> QED
    BY <2>2, <2>3
<1>4. \A k \in Nat : k \in S
  <2> HIDE DEF S
  <2> QED
    BY <1>2, <1>3, NatSetInduction
<1> DEFINE n == Cardinality(NodeIds)
           s == turn[n]
<1>5. n \in Nat
  BY FS_CardinalityType, KnowledgeAssumption
<1>6. s \in SearchStates /\ SearchOK(s, from) /\ (Stops(s, goal) \/ Cardinality(s.visited) = n)
  BY <1>4, <1>5
<1> HIDE DEF s
<1>7. CASE Cardinality(s.visited) = n
  <2>1. s.visited \subseteq NodeIds
    BY <1>6 DEF SearchStates
  <2>2. s.visited = NodeIds
    BY <1>7, <2>1, FS_Subset, KnowledgeAssumption
  <2>3. DOMAIN s.dist \subseteq s.visited
    BY <1>6, <2>2 DEF SearchOK, Distances, Tidy, KnowledgeTypeOK
  <2> QED
    BY <1>1, <1>6, <2>3 DEF Enough, s
<1>8. CASE Stops(s, goal)
  <2>1. Enough(s, goal)
    BY <1>6, <1>8, StopsWithEnough
  <2> QED
    BY <1>1, <1>6, <2>1 DEF s
<1> QED
  BY <1>6, <1>7, <1>8

-----------------------------------------------------------------------------
(* The way back.                                                           *)

\* A turn of the loop that follows prev, the recursion in Trace, and what it says.
Back(prev, path) ==
  IF path = <<>> \/ prev[Head(path)] \notin nodes THEN path ELSE <<prev[Head(path)]>> \o path
BackEquation(back, prev, goal) ==
  back = [k \in Nat |-> IF k = 0 THEN (IF goal \in nodes THEN <<goal>> ELSE <<>>)
                        ELSE Back(prev, back[k - 1])]

\* The recursion in Trace has a solution, which goes on turn by turn.
LEMMA TraceIs ==
  ASSUME NEW prev, NEW goal \in nodes
  PROVE  \E back : /\ back[0] = <<goal>> /\ \A k \in Nat : back[k + 1] = Back(prev, back[k])
                   /\ Trace(prev, goal) = back[Cardinality(NodeIds)]
<1> DEFINE step == [p \in Nat \X Seq(nodes) |-> Back(prev, p[2])]
           a == <<goal>>
<1>1. step \in [Nat \X Seq(nodes) -> Seq(nodes)]
  <2>1. ASSUME NEW path \in Seq(nodes)
        PROVE  Back(prev, path) \in Seq(nodes)
    <3>1. CASE path = <<>> \/ prev[Head(path)] \notin nodes
      BY <3>1 DEF Back
    <3>2. CASE ~(path = <<>> \/ prev[Head(path)] \notin nodes)
      <4>1. <<prev[Head(path)]>> \in Seq(nodes)
        BY <3>2
      <4>2. <<prev[Head(path)]>> \o path \in Seq(nodes)
        BY <4>1, ConcatProperties
      <4> QED
        BY <3>2, <4>2 DEF Back
    <3> QED
      BY <3>1, <3>2
  <2> QED
    BY <2>1
<1>2. a \in Seq(nodes)
  OBVIOUS
<1>3. PICK g \in [Nat -> Seq(nodes)] : RecursAlways(a, step, g)
  <2> HIDE DEF step, a
  <2> QED
    BY <1>1, <1>2, NatRecursionAlways
<1>4. ASSUME NEW k \in Nat
      PROVE  g[k + 1] = Back(prev, g[k])
  <2>1. g[k + 1] = step[<<k + 1, g[k]>>]
    <3> HIDE DEF step
    <3> QED
      BY <1>3 DEF RecursAlways
  <2>2. <<k + 1, g[k]>> \in Nat \X Seq(nodes)
    <3> HIDE DEF step
    <3>1. g[k] \in Seq(nodes) /\ k + 1 \in Nat
      OBVIOUS
    <3> QED
      BY <3>1
  <2> QED
    BY <2>1, <2>2
<1>5. BackEquation(g, prev, goal)
  <2>1. ASSUME NEW k \in Nat
        PROVE  g[k] = IF k = 0 THEN (IF goal \in nodes THEN <<goal>> ELSE <<>>)
                      ELSE Back(prev, g[k - 1])
    <3>1. CASE k = 0
      BY <1>3, <3>1 DEF RecursAlways
    <3>2. CASE k # 0
      <4>1. k - 1 \in Nat /\ (k - 1) + 1 = k
        BY <3>2
      <4>2. g[k] = Back(prev, g[k - 1])
        BY <1>4, <4>1
      <4> QED
        BY <3>2, <4>2
    <3> QED
      BY <3>1, <3>2
  <2> QED
    BY <2>1 DEF BackEquation
<1> DEFINE it == CHOOSE back : BackEquation(back, prev, goal)
<1>6. BackEquation(it, prev, goal)
  BY <1>5
<1>7. Trace(prev, goal) = it[Cardinality(NodeIds)]
  BY DEF Trace, BackEquation, Back
<1> HIDE DEF it
<1>8. it[0] = <<goal>>
  BY <1>6 DEF BackEquation
<1>9. ASSUME NEW k \in Nat
      PROVE  it[k + 1] = Back(prev, it[k])
  <2>1. k + 1 \in Nat /\ k + 1 # 0 /\ (k + 1) - 1 = k
    OBVIOUS
  <2>2. it[k + 1] = IF k + 1 = 0 THEN (IF goal \in nodes THEN <<goal>> ELSE <<>>)
                    ELSE Back(prev, it[(k + 1) - 1])
    BY <1>6, <2>1 DEF BackEquation
  <2> QED
    BY <2>1, <2>2
<1> QED
  BY <1>7, <1>8, <1>9

\* A path that visits no node twice has no more places than there are nodes.
LEMMA ShortEnough ==
  ASSUME NEW S, IsFiniteSet(S), NEW p \in Seq(S),
         \A i, j \in 1..Len(p) : p[i] = p[j] => i = j
  PROVE  Len(p) <= Cardinality(S) /\ Len(p) \in Nat /\ Cardinality(S) \in Nat
<1>1. Len(p) \in Nat /\ p \in [1..Len(p) -> S]
  BY LenProperties
<1>2. p \in Injection(1..Len(p), S)
  BY <1>1 DEF Injection, IsInjective
<1>3. IsFiniteSet(1..Len(p)) /\ Cardinality(1..Len(p)) = Len(p)
  BY <1>1, FS_Interval
<1>4. Cardinality(1..Len(p)) <= Cardinality(S)
  BY <1>2, FS_Injection
<1> QED
  BY <1>1, <1>3, <1>4, FS_CardinalityType

\* Trace finds the way along the tree.
LEMMA TraceFinds ==
  ASSUME Tidy, NEW s, NEW from, s.prev[from] = None, NEW goal \in nodes,
         NEW p, TreePath(s, p, from, goal)
  PROVE  Trace(s.prev, goal) = p
<1> DEFINE l == Len(p)
<1>1. PICK back : /\ back[0] = <<goal>>
                  /\ \A k \in Nat : back[k + 1] = Back(s.prev, back[k])
                  /\ Trace(s.prev, goal) = back[Cardinality(NodeIds)]
  BY TraceIs
<1>2. p \in Seq(nodes) /\ l \in Nat \ {0} /\ p[1] = from /\ p[l] = goal
      /\ \A i \in 1..(l - 1) : s.prev[p[i + 1]] = p[i]
  BY DEF TreePath
<1> HIDE DEF l
<1>3. \A i \in 1..l : p[i] \in nodes
  BY <1>2 DEF l
<1> DEFINE tail(i) == SubSeq(p, i, l)
           S == {k \in Nat : \E i \in 1..l : back[k] = tail(i) /\ (i = 1 \/ i = l - k)}
<1>4. ASSUME NEW i \in 1..l
      PROVE  /\ tail(i) \in Seq(nodes) /\ Len(tail(i)) = l - i + 1
             /\ \A j \in 1..(l - i + 1) : tail(i)[j] = p[i + j - 1]
             /\ tail(i) # <<>> /\ Head(tail(i)) = p[i]
  <2>1. i \in 1..(Len(p) + 1) /\ l \in (i - 1)..Len(p)
    BY <1>2 DEF l
  <2>2. /\ tail(i) \in Seq(nodes) /\ Len(tail(i)) = l - i + 1
        /\ \A j \in 1..(l - i + 1) : tail(i)[j] = p[i + j - 1]
    BY <1>2, <2>1, SubSeqProperties
  <2>3. l - i + 1 \in Nat \ {0} /\ 1 \in 1..(l - i + 1) /\ i + 1 - 1 = i
    BY <1>2
  <2> HIDE DEF tail
  <2>4. tail(i)[1] = p[i]
    BY <2>2, <2>3
  <2>5. tail(i) # <<>>
    BY <2>2, <2>3, EmptySeq
  <2>6. Head(tail(i)) = tail(i)[1]
    BY <2>2, <2>5, HeadTailProperties
  <2> QED
    BY <2>2, <2>4, <2>5, <2>6
<1>5. ASSUME NEW i \in 2..l
      PROVE  tail(i - 1) = <<p[i - 1]>> \o tail(i)
  <2> DEFINE q == <<p[i - 1]>> \o tail(i)
  <2>1. i - 1 \in 1..l /\ i \in 1..l /\ l - (i - 1) + 1 = l - i + 2 /\ l - i + 2 \in Nat
    BY <1>2
  <2> HIDE DEF tail
  <2>2. <<p[i - 1]>> \in Seq(nodes) /\ Len(<<p[i - 1]>>) = 1 /\ <<p[i - 1]>>[1] = p[i - 1]
    BY <1>3, <2>1
  <2>3. /\ q \in Seq(nodes) /\ Len(q) = 1 + (l - i + 1)
        /\ \A j \in 1..Len(q) : q[j] = IF j <= 1 THEN <<p[i - 1]>>[j] ELSE tail(i)[j - 1]
    BY <1>4, <2>1, <2>2, ConcatProperties
  <2>4. Len(q) = l - i + 2 /\ tail(i - 1) \in Seq(nodes) /\ Len(tail(i - 1)) = l - i + 2
    <3>1. Len(tail(i - 1)) = l - (i - 1) + 1 /\ tail(i - 1) \in Seq(nodes)
      BY <1>4, <2>1
    <3>2. Len(q) = 1 + (l - i + 1) /\ 1 + (l - i + 1) = l - i + 2
      <4>1. 1 + (l - i + 1) = l - i + 2
        BY <1>2
      <4> QED
        BY <2>3, <4>1
    <3> QED
      BY <2>1, <3>1, <3>2
  <2> HIDE DEF q
  <2>5. ASSUME NEW j \in 1..(l - i + 2)
        PROVE  tail(i - 1)[j] = q[j]
    <3>1. tail(i - 1)[j] = p[(i - 1) + j - 1]
      BY <1>4, <2>1
    <3>2. CASE j = 1
      <4>1. q[j] = p[i - 1] /\ (i - 1) + j - 1 = i - 1
        BY <2>1, <2>2, <2>3, <2>4, <3>2
      <4> QED
        BY <3>1, <4>1
    <3>3. CASE j # 1
      <4>1. j - 1 \in 1..(l - i + 1) /\ i + (j - 1) - 1 = (i - 1) + j - 1 /\ ~(j <= 1)
        BY <1>2, <3>3
      <4>2. q[j] = tail(i)[j - 1]
        BY <2>3, <2>4, <4>1
      <4>3. tail(i)[j - 1] = p[i + (j - 1) - 1]
        BY <1>4, <2>1, <4>1
      <4> QED
        BY <3>1, <4>1, <4>2, <4>3
    <3> QED
      BY <3>2, <3>3
  <2> QED
    BY <2>3, <2>4, <2>5, SeqEqual DEF q
<1>6. tail(l) = <<goal>> /\ tail(1) = p
  <2>1. 1 \in 1..l /\ l \in 1..l /\ l - 1 + 1 = l /\ l - l + 1 = 1 /\ l + 1 - 1 = l
    BY <1>2
  <2>2. tail(1) = p
    BY <1>2, SubSeqFull DEF l
  <2> HIDE DEF tail
  <2>3. tail(l) \in Seq(nodes) /\ Len(tail(l)) = 1 /\ tail(l)[1] = goal
    <3>1. /\ tail(l) \in Seq(nodes) /\ Len(tail(l)) = l - l + 1
          /\ \A j \in 1..(l - l + 1) : tail(l)[j] = p[l + j - 1]
      BY <1>4, <2>1
    <3>2. 1 \in 1..(l - l + 1)
      BY <2>1
    <3>3. tail(l)[1] = p[l + 1 - 1]
      BY <3>1, <3>2
    <3>4. p[l + 1 - 1] = goal
      BY <1>2, <2>1
    <3>5. Len(tail(l)) = 1
      BY <2>1, <3>1
    <3> QED
      BY <3>1, <3>3, <3>4, <3>5
  <2>4. tail(l) = <<goal>>
    BY <2>3
  <2> QED
    BY <2>2, <2>4
<1> HIDE DEF tail
<1>7. 0 \in S
  <2>1. l \in 1..l /\ l = l - 0
    BY <1>2
  <2>2. back[0] = tail(l)
    BY <1>1, <1>6
  <2> QED
    BY <2>1, <2>2
<1>8. ASSUME NEW k \in Nat, k \in S
      PROVE  k + 1 \in S
  <2>1. PICK i \in 1..l : back[k] = tail(i) /\ (i = 1 \/ i = l - k)
    BY <1>8
  <2>2. back[k + 1] = Back(s.prev, tail(i)) /\ Head(tail(i)) = p[i] /\ tail(i) # <<>>
    BY <1>1, <1>4, <2>1
  <2>3. CASE i = 1
    <3>1. s.prev[p[i]] = None /\ None \notin nodes
      BY <1>2, <2>3, KnowledgeAssumption DEF Tidy, KnowledgeTypeOK
    <3>2. back[k + 1] = tail(1)
      BY <2>2, <2>3, <3>1 DEF Back
    <3> QED
      BY <1>2, <3>2
  <2>4. CASE i # 1
    <3>1. i - 1 \in 1..(l - 1) /\ i - 1 \in 1..l /\ (i - 1) + 1 = i /\ i \in 2..l
      BY <1>2, <2>4
    <3>2. s.prev[p[i]] = p[i - 1] /\ p[i - 1] \in nodes
      BY <1>2, <1>3, <3>1
    <3>3. back[k + 1] = tail(i - 1)
      BY <1>5, <2>2, <3>1, <3>2 DEF Back
    <3>4. i - 1 = l - (k + 1)
      BY <1>2, <2>1, <2>4
    <3> QED
      BY <3>1, <3>3, <3>4
  <2> QED
    BY <2>3, <2>4
<1>9. \A k \in Nat : k \in S
  <2> HIDE DEF S
  <2> QED
    BY <1>7, <1>8, NatSetInduction
<1>10. l <= Cardinality(NodeIds) /\ Cardinality(NodeIds) \in Nat
  <2>1. p \in Seq(NodeIds) /\ \A i, j \in 1..Len(p) : p[i] = p[j] => i = j
    BY DEF TreePath, Tidy, KnowledgeTypeOK
  <2> QED
    BY <2>1, ShortEnough, KnowledgeAssumption DEF l
<1>11. PICK i \in 1..l : /\ back[Cardinality(NodeIds)] = tail(i)
                         /\ i = 1 \/ i = l - Cardinality(NodeIds)
  BY <1>9, <1>10
<1>12. i = 1
  BY <1>2, <1>10, <1>11
<1> QED
  BY <1>1, <1>6, <1>11, <1>12

-----------------------------------------------------------------------------
(* What ShortestPath answers.                                              *)

\* ShortestPath answers from the last turn of its loop: the goal has a distance there,
\* or it has not been reached.
LEMMA ShortestPathIs ==
  ASSUME NEW from, NEW goal
  PROVE  ShortestPath(from, goal) =
           IF goal \in DOMAIN LastTurn(from, goal).dist
           THEN [path |-> Trace(LastTurn(from, goal).prev, goal),
                 cost |-> LastTurn(from, goal).dist[goal]]
           ELSE [path |-> <<>>, cost |-> 0]
BY DEF ShortestPath, LastTurn, TurnEquation

\* Routes holds paths along edges, and each that is short enough.
LEMMA RoutesAre ==
  ASSUME Tidy, NEW p, NEW from, NEW goal
  PROVE  /\ p \in Routes /\ p[1] = from /\ p[Len(p)] = goal => IsRoute(p, from, goal)
         /\ IsRoute(p, from, goal) /\ Len(p) <= Cardinality(nodes) => p \in Routes
<1>1. IsFiniteSet(nodes) /\ Cardinality(nodes) \in Nat
  BY FS_Subset, FS_CardinalityType, KnowledgeAssumption DEF Tidy, KnowledgeTypeOK
<1>2. ASSUME p \in Routes, p[1] = from, p[Len(p)] = goal
      PROVE  IsRoute(p, from, goal)
  <2>1. PICK k \in 1..Cardinality(nodes) : p \in [1..k -> nodes]
    BY <1>2 DEF Routes
  <2>2. k \in Nat /\ k # 0
    BY <1>1, <2>1
  <2>3. p \in Seq(nodes) /\ Len(p) = k
    <3>1. p \in Seq(nodes)
      BY <2>1, <2>2, SeqDef
    <3>2. Len(p) \in Nat /\ 1..Len(p) = 1..k
      BY <2>1, <3>1, LenProperties
    <3> QED
      BY <2>2, <3>1, <3>2
  <2>4. \A i \in 1..(Len(p) - 1) : Arc(p[i], p[i + 1])
    BY <1>2 DEF Routes, Arc
  <2> QED
    BY <1>2, <2>2, <2>3, <2>4 DEF IsRoute
<1>3. ASSUME IsRoute(p, from, goal), Len(p) <= Cardinality(nodes)
      PROVE  p \in Routes
  <2>1. Len(p) \in 1..Cardinality(nodes) /\ p \in Seq(nodes)
    BY <1>1, <1>3 DEF IsRoute
  <2>2. p \in [1..Len(p) -> nodes]
    BY <2>1, LenProperties
  <2>3. \A i \in 1..(Len(p) - 1) : \E e \in edges : e.from = p[i] /\ e.to = p[i + 1]
    BY <1>3 DEF IsRoute, Arc
  <2> QED
    BY <2>1, <2>2, <2>3 DEF Routes
<1> QED
  BY <1>2, <1>3

\* A way along the tree goes along edges, and is short enough.
LEMMA TreePathIsRoute ==
  ASSUME Tidy, NEW s, NEW p, NEW from, NEW goal, TreePath(s, p, from, goal)
  PROVE  IsRoute(p, from, goal) /\ p \in Routes
<1>1. IsFiniteSet(nodes)
  BY FS_Subset, KnowledgeAssumption DEF Tidy, KnowledgeTypeOK
<1>2. p \in Seq(nodes) /\ \A i, j \in 1..Len(p) : p[i] = p[j] => i = j
  BY DEF TreePath
<1>3. Len(p) <= Cardinality(nodes)
  BY <1>1, <1>2, ShortEnough
<1>4. IsRoute(p, from, goal)
  BY DEF TreePath, IsRoute
<1> QED
  BY <1>3, <1>4, RoutesAre

\* For two nodes ShortestPath finds a path when there is one, of the cost it says and no
\* dearer than any other.
LEMMA AnswerIsShortest ==
  ASSUME Tidy, Cardinality(nodes) <= VisitLimit, NEW from \in nodes, NEW goal \in nodes
  PROVE  LET between == {p \in Routes : p[1] = from /\ p[Len(p)] = goal}
             found == ShortestPath(from, goal)
         IN  IF between = {} THEN found.path = <<>>
             ELSE /\ found.path \in between
                  /\ found.cost = Cost(found.path)
                  /\ \A p \in between : found.cost <= Cost(p)
<1> DEFINE s == LastTurn(from, goal)
           between == {p \in Routes : p[1] = from /\ p[Len(p)] = goal}
           found == ShortestPath(from, goal)
<1>1. SearchOK(s, from) /\ Enough(s, goal)
  BY SearchEnds
<1>2. found = IF goal \in DOMAIN s.dist
              THEN [path |-> Trace(s.prev, goal), cost |-> s.dist[goal]]
              ELSE [path |-> <<>>, cost |-> 0]
  BY ShortestPathIs
<1> HIDE DEF s
<1>3. \A p \in between : goal \in DOMAIN s.dist /\ s.dist[goal] <= Cost(p)
  BY <1>1, RoutesAre, NoneIsCheaper
<1>4. CASE goal \in DOMAIN s.dist
  <2>1. PICK p : TreePath(s, p, from, goal)
    BY <1>1, <1>4 DEF SearchOK, Treed
  <2>2. p \in between
    BY <2>1, TreePathIsRoute DEF IsRoute
  <2>3. Trace(s.prev, goal) = p
    <3>1. s.prev[from] = None
      BY <1>1 DEF SearchOK, Distances
    <3> QED
      BY <2>1, <3>1, TraceFinds
  <2>4. Cost(p) = s.dist[goal]
    BY <1>1, <2>1, TreePathCosts
  <2>5. found.path = p /\ found.cost = s.dist[goal]
    BY <1>2, <1>4, <2>3
  <2> HIDE DEF found, between
  <2>6. /\ between # {} /\ found.path \in between /\ found.cost = Cost(found.path)
        /\ \A q \in between : found.cost <= Cost(q)
    BY <1>3, <2>2, <2>4, <2>5
  <2> QED
    BY <2>6 DEF found, between
<1>5. CASE goal \notin DOMAIN s.dist
  <2>1. between = {}
    <3> HIDE DEF between
    <3> QED
      BY <1>3, <1>5
  <2>2. found.path = <<>>
    BY <1>2, <1>5
  <2> QED
    BY <2>1, <2>2
<1> QED
  BY <1>4, <1>5

\* So whatever the graph holds, as long as every edge has its ends, the searches find
\* the shortest paths.  That parallel edges weigh the same, as PathsAreShortest supposes,
\* is not needed here: the model fixes the edge that gives a step its weight, where the
\* code takes any of them.
LEMMA FoundWhenTidy == KnowledgeTypeOK /\ EdgesHaveEnds => PathsAreShortest
<1> SUFFICES ASSUME KnowledgeTypeOK, EdgesHaveEnds, adj = edges,
                    Cardinality(nodes) <= VisitLimit, NEW from \in nodes, NEW goal \in nodes
             PROVE  LET between == {p \in Routes : p[1] = from /\ p[Len(p)] = goal}
                        found == ShortestPath(from, goal)
                    IN  IF between = {} THEN found.path = <<>>
                        ELSE /\ found.path \in between
                             /\ found.cost = Cost(found.path)
                             /\ \A p \in between : found.cost <= Cost(p)
  BY DEF PathsAreShortest
<1>1. Tidy
  BY DEF Tidy
<1> QED
  BY <1>1, AnswerIsShortest

-----------------------------------------------------------------------------
\* CreateEdge keeps the types of the graph.
LEMMA EdgeTyped ==
  ASSUME KnowledgeTypeOK, NEW from, NEW to, NEW w \in Weights \cup {0}, CreateEdge(from, to, w)
  PROVE  nodes' \subseteq NodeIds /\ edges' \subseteq Edges /\ adj' \subseteq Edges
<1>1. PICK id \in EdgeIds :
        LET e == [id |-> id, from |-> from, to |-> to, weight |-> w]
        IN  edges' = edges \cup {e} /\ adj' = adj \cup {e}
  BY DEF CreateEdge
<1>2. from \in NodeIds /\ to \in NodeIds /\ nodes' = nodes
  BY DEF CreateEdge, HasEnds, KnowledgeTypeOK
<1>3. [id |-> id, from |-> from, to |-> to, weight |-> w] \in Edges
  BY <1>1, <1>2 DEF Edges
<1> QED
  BY <1>1, <1>2, <1>3 DEF KnowledgeTypeOK

\* The entities a decision is recorded with are a sequence of ids that callers choose.
LEMMA TargetsTyped ==
  ASSUME NEW targets \in SetToAllKPermutations(Named)
  PROVE  targets \in Seq(Named)
<1>1. PICK some \in SUBSET Named : targets \in SetToSeqs(some)
  BY DEF SetToAllKPermutations
<1>2. Cardinality(some) \in Nat
  <2>1. some \subseteq NodeIds
    BY DEF NodeIds
  <2> QED
    BY <2>1, FS_Subset, FS_CardinalityType, KnowledgeAssumption
<1>3. targets \in [1..Cardinality(some) -> Named]
  BY <1>1 DEF SetToSeqs
<1> QED
  BY <1>2, <1>3, SeqDef

\* The store holds nodes, edges and lists of edges of the right kinds, and RecordDecision
\* what it has still to do, after any operations.
THEOREM KnowledgeTyped == KnowledgeSpec => []KnowledgeTypeOK
<1>1. KnowledgeInit => KnowledgeTypeOK
  BY DEF KnowledgeInit, KnowledgeTypeOK, NotRecording
<1>2. ASSUME KnowledgeTypeOK, [KnowledgeNext]_graphStoreVars
      PROVE  KnowledgeTypeOK'
  <2>1. ASSUME NEW n \in Named, AddNode(n)
        PROVE  KnowledgeTypeOK'
    BY <1>2, <2>1 DEF AddNode, CreateNode, KnowledgeTypeOK, NodeIds
  <2>2. ASSUME NEW n \in NodeIds, DeleteNode(n)
        PROVE  KnowledgeTypeOK'
    BY <1>2, <2>2 DEF DeleteNode, KnowledgeTypeOK
  <2>3. ASSUME NEW from \in NodeIds, NEW to \in NodeIds, NEW w \in Weights,
               AddEdge(from, to, w)
        PROVE  KnowledgeTypeOK'
    <3>1. nodes' \subseteq NodeIds /\ edges' \subseteq Edges /\ adj' \subseteq Edges
      BY <1>2, <2>3, EdgeTyped DEF AddEdge
    <3> QED
      BY <1>2, <2>3, <3>1 DEF AddEdge, KnowledgeTypeOK
  <2>4. ASSUME NEW id \in EdgeIds, DeleteEdge(id)
        PROVE  KnowledgeTypeOK'
    BY <1>2, <2>4 DEF DeleteEdge, KnowledgeTypeOK
  <2>5. ASSUME NEW d \in Decisions, NEW targets \in SetToAllKPermutations(Named),
               StartRecording(d, targets)
        PROVE  KnowledgeTypeOK'
    <3>1. targets \in Seq(Named) /\ d \in NodeIds
      BY TargetsTyped DEF NodeIds
    <3> QED
      BY <1>2, <2>5, <3>1 DEF StartRecording, CreateNode, KnowledgeTypeOK
  <2>6. CASE RecordEdge
    <3>1. CASE recording.targets # <<>>
               /\ HasEnds(recording.decision, Head(recording.targets))
      <4>1. /\ CreateEdge(recording.decision, Head(recording.targets), 0)
            /\ recording' = [recording EXCEPT !.targets = Tail(@)] /\ UNCHANGED deleted
        BY <2>6, <3>1 DEF RecordEdge
      <4>2. nodes' \subseteq NodeIds /\ edges' \subseteq Edges /\ adj' \subseteq Edges
        BY <1>2, <4>1, EdgeTyped
      <4>3. /\ recording \in [decision : NodeIds \cup {None}, targets : Seq(Named)]
            /\ Tail(recording.targets) \in Seq(Named)
        BY <1>2, <3>1 DEF KnowledgeTypeOK
      <4>4. recording' \in [decision : NodeIds \cup {None}, targets : Seq(Named)]
        BY <1>2, <4>1, <4>3 DEF KnowledgeTypeOK
      <4> QED
        BY <1>2, <4>1, <4>2, <4>4 DEF KnowledgeTypeOK
    <3>2. CASE ~(recording.targets # <<>>
                 /\ HasEnds(recording.decision, Head(recording.targets)))
      <4>1. recording' = NotRecording /\ UNCHANGED <<nodes, edges, adj, deleted>>
        BY <2>6, <3>2 DEF RecordEdge
      <4>2. <<>> \in Seq(Named) /\ None \in NodeIds \cup {None}
        OBVIOUS
      <4>3. NotRecording \in [decision : NodeIds \cup {None}, targets : Seq(Named)]
        BY <4>2 DEF NotRecording
      <4> QED
        BY <1>2, <4>1, <4>3 DEF KnowledgeTypeOK
    <3> QED
      BY <3>1, <3>2
  <2>7. CASE UNCHANGED graphStoreVars
    BY <1>2, <2>7 DEF graphStoreVars, KnowledgeTypeOK
  <2> QED
    BY <1>2, <2>1, <2>2, <2>3, <2>4, <2>5, <2>6, <2>7 DEF KnowledgeNext
<1> QED
  BY <1>1, <1>2, PTL DEF KnowledgeSpec

\* In every graph that the operations of the store can make, without leftovers of deleted
\* nodes and with no more nodes than ShortestPath may visit, ShortestPath finds a path
\* exactly when there is one, and no path is cheaper (traversal.go).
THEOREM PathsAlwaysShortest == KnowledgeSpec => []PathsAreShortest
BY KnowledgeTyped, EdgesHaveEndsAlways, FoundWhenTidy, PTL

-----------------------------------------------------------------------------
(***************************************************************************)
(* Sessions: a message that was acknowledged is in the file                *)
(* (AckedDurable), for any number of callers, messages, crashes and        *)
(* failures.  The inductive invariant says that the session in memory has  *)
(* what was acknowledged while it is stored, and that what the background  *)
(* save has read so far, with the summaries it reads later, has it too: a  *)
(* compression moves messages into a summary before they leave the list,   *)
(* and the messages are read before the summaries.                         *)
(***************************************************************************)

-----------------------------------------------------------------------------
(* The session and its file.                                               *)

Summary(ss) == UNION {ToSet(ss[i]) : i \in DOMAIN ss}

\* The messages of the session in memory.
InSession == ToSet(msgs) \cup Summary(summaries)

StatusesOf == {"none", "active", "suspended", "resumed", "closed"}
Sessions == [msgs : Seq(Nat), summaries : Seq(Seq(Nat)), total : Int,
             status : StatusesOf, closedAt : BOOLEAN]

CallNames == {"none", "add", "compress", "suspend", "close", "resume", "delete"}
Places == {"none", "fetched", "locked", "updated"}
CallRecords == [call : CallNames, at : Places, msg : Nat]
Doings == [Callers -> CallRecords]

Savers == [at : {"none", "status", "msgs", "summaries"}, got : Sessions]

SessionTyped ==
  /\ given \in Nat
  /\ msgs \in Seq(Nat) /\ summaries \in Seq(Seq(Nat)) /\ total \in Int
  /\ status \in StatusesOf /\ closedAt \in BOOLEAN
  /\ file \in Sessions
  /\ saver \in Savers
  /\ doing \in Doings

Appended(c) == doing[c].call = "add" /\ doing[c].at = "locked"

\* What a save has read so far, with what it is about to read.
SaverKeeps ==
  /\ saver # NoSave => saver.at # "none" /\ stored
  /\ saver.at = "msgs" => acked \subseteq ToSet(saver.got.msgs) \cup Summary(summaries)
  /\ saver.at = "summaries" => acked \subseteq Kept(saver.got)

DurableInv ==
  /\ SessionTyped
  /\ \A c \in Callers : Appended(c) => doing[c].msg \in InSession
  /\ SaverKeeps
  /\ stored => acked \subseteq InSession
  /\ AckedDurable

LEMMA KeptIs ==
  /\ \A s : Kept(s) = ToSet(s.msgs) \cup Summary(s.summaries)
  /\ Kept(Snapshot) = InSession
BY DEF Kept, Summary, Snapshot, InSession

LEMMA SummaryAppend ==
  ASSUME NEW ss \in Seq(Seq(Nat)), NEW s \in Seq(Nat)
  PROVE  Summary(Append(ss, s)) = Summary(ss) \cup ToSet(s)
<1>1. /\ Append(ss, s) \in Seq(Seq(Nat))
      /\ Len(Append(ss, s)) = Len(ss) + 1
      /\ \A i \in 1..Len(ss) : Append(ss, s)[i] = ss[i]
      /\ Append(ss, s)[Len(ss) + 1] = s
  BY AppendProperties
<1>2. Len(ss) \in Nat /\ DOMAIN ss = 1..Len(ss) /\ DOMAIN Append(ss, s) = 1..(Len(ss) + 1)
  BY <1>1, LenProperties
<1>3. DOMAIN Append(ss, s) = DOMAIN ss \cup {Len(ss) + 1}
  BY <1>2
<1>. HIDE DEF Summary
<1>. QED
  BY <1>1, <1>2, <1>3 DEF Summary

LEMMA InToSet ==
  ASSUME NEW m \in Seq(Nat), NEW x
  PROVE  x \in ToSet(m) <=> \E i \in 1..Len(m) : m[i] = x
<1>1. DOMAIN m = 1..Len(m)
  BY LenProperties
<1>2. x \in ToSet(m) <=> \E i \in DOMAIN m : m[i] = x
  BY Zenon DEF ToSet
<1>. QED
  BY <1>1, <1>2

\* m is a and then b.
Joins(m, a, b) ==
  /\ Len(m) = Len(a) + Len(b)
  /\ \A i \in 1..Len(a) : a[i] = m[i]
  /\ \A i \in 1..Len(b) : b[i] = m[Len(a) + i]

LEMMA JoinSets ==
  ASSUME NEW m \in Seq(Nat), NEW a \in Seq(Nat), NEW b \in Seq(Nat), Joins(m, a, b)
  PROVE  ToSet(m) = ToSet(a) \cup ToSet(b)
<1>. USE DEF Joins
<1>1. Len(a) \in Nat /\ Len(b) \in Nat /\ Len(m) \in Nat
  BY LenProperties
<1>2. ASSUME NEW i \in 1..Len(m) PROVE m[i] \in ToSet(a) \cup ToSet(b)
  <2>1. CASE i <= Len(a)
    <3>1. i \in 1..Len(a)
      BY <1>1, <2>1
    <3>2. a[i] = m[i]
      BY <3>1
    <3>. QED
      BY <3>1, <3>2, InToSet
  <2>2. CASE i > Len(a)
    <3>1. i - Len(a) \in 1..Len(b) /\ Len(a) + (i - Len(a)) = i
      BY <1>1, <2>2
    <3>2. b[i - Len(a)] = m[i]
      BY <3>1
    <3>. QED
      BY <3>1, <3>2, InToSet
  <2>. QED
    BY <1>1, <2>1, <2>2
<1>3. ASSUME NEW x \in ToSet(a) PROVE x \in ToSet(m)
  <2>1. PICK i \in 1..Len(a) : a[i] = x
    BY InToSet
  <2>2. i \in 1..Len(m) /\ m[i] = x
    BY <1>1, <2>1
  <2>. QED
    BY <2>2, InToSet
<1>4. ASSUME NEW x \in ToSet(b) PROVE x \in ToSet(m)
  <2>1. PICK i \in 1..Len(b) : b[i] = x
    BY InToSet
  <2>2. Len(a) + i \in 1..Len(m) /\ m[Len(a) + i] = x
    BY SMTT(30), <1>1, <2>1
  <2>. QED
    BY <2>2, InToSet
<1>5. ASSUME NEW x \in ToSet(m) PROVE x \in ToSet(a) \cup ToSet(b)
  <2>1. PICK i \in 1..Len(m) : m[i] = x
    BY InToSet
  <2>. QED
    BY <1>2, <2>1
<1>. QED
  BY <1>3, <1>4, <1>5

LEMMA CutSets ==
  ASSUME NEW m \in Seq(Nat), NEW k \in 0..Len(m)
  PROVE  /\ SubSeq(m, 1, k) \in Seq(Nat) /\ SubSeq(m, k + 1, Len(m)) \in Seq(Nat)
         /\ ToSet(m) = ToSet(SubSeq(m, 1, k)) \cup ToSet(SubSeq(m, k + 1, Len(m)))
<1>1. Len(m) \in Nat /\ \A i \in 1..Len(m) : m[i] \in Nat
  BY LenProperties, ElementOfSeq
<1>2. /\ SubSeq(m, 1, k) \in Seq(Nat)
      /\ Len(SubSeq(m, 1, k)) = k
      /\ \A i \in 1..k : SubSeq(m, 1, k)[i] = m[i]
  BY <1>1, SubSeqProperties
<1>3. /\ SubSeq(m, k + 1, Len(m)) \in Seq(Nat)
      /\ Len(SubSeq(m, k + 1, Len(m))) = Len(m) - k
      /\ \A i \in 1..(Len(m) - k) : SubSeq(m, k + 1, Len(m))[i] = m[k + i]
  BY <1>1, SubSeqProperties
<1>4. PICK a \in Seq(Nat) : a = SubSeq(m, 1, k)
  BY <1>2
<1>5. PICK b \in Seq(Nat) : b = SubSeq(m, k + 1, Len(m))
  BY <1>3
<1>6. Len(a) = k /\ \A i \in 1..k : a[i] = m[i]
  BY <1>2, <1>4
<1>7. Len(b) = Len(m) - k /\ \A i \in 1..(Len(m) - k) : b[i] = m[k + i]
  BY <1>3, <1>5
<1>8. Joins(m, a, b)
  BY <1>1, <1>6, <1>7 DEF Joins
<1>9. ToSet(m) = ToSet(a) \cup ToSet(b)
  BY <1>8, JoinSets
<1>. QED
  BY <1>2, <1>3, <1>4, <1>5, <1>9

LEMMA AppendSets ==
  ASSUME NEW m \in Seq(Nat), NEW x \in Nat
  PROVE  /\ Append(m, x) \in Seq(Nat)
         /\ ToSet(m) \subseteq ToSet(Append(m, x)) /\ x \in ToSet(Append(m, x))
<1>1. PICK a \in Seq(Nat) : a = Append(m, x)
  BY AppendProperties
<1>2. Len(a) = Len(m) + 1 /\ (\A i \in 1..Len(m) : a[i] = m[i]) /\ a[Len(m) + 1] = x
  BY <1>1, AppendProperties
<1>3. Len(m) \in Nat /\ Len(a) \in Nat
  BY LenProperties
<1>4. x \in ToSet(a)
  <2>1. Len(m) + 1 \in 1..Len(a)
    BY <1>2, <1>3
  <2>. QED
    BY <1>2, <2>1, InToSet
<1>5. ASSUME NEW y \in ToSet(m) PROVE y \in ToSet(a)
  <2>1. PICK i \in 1..Len(m) : m[i] = y
    BY InToSet
  <2>2. i \in 1..Len(a) /\ a[i] = y
    BY <1>2, <1>3, <2>1
  <2>. QED
    BY <2>2, InToSet
<1>. QED
  BY <1>1, <1>4, <1>5

\* A compression moves messages into a summary and loses none.
LEMMA CompressKeeps ==
  ASSUME SessionTyped, Len(msgs) >= Threshold, Compress
  PROVE  /\ msgs' \in Seq(Nat) /\ summaries' \in Seq(Seq(Nat)) /\ total' = total
         /\ InSession' = InSession
         /\ Summary(summaries) \subseteq Summary(summaries)'
<1>. DEFINE cut == Len(msgs) - Keep
<1>1. Len(msgs) \in Nat /\ cut \in 0..Len(msgs)
  BY SessionAssumption, LenProperties DEF SessionTyped
<1>2. /\ SubSeq(msgs, 1, cut) \in Seq(Nat) /\ SubSeq(msgs, cut + 1, Len(msgs)) \in Seq(Nat)
      /\ ToSet(msgs) = ToSet(SubSeq(msgs, 1, cut)) \cup ToSet(SubSeq(msgs, cut + 1, Len(msgs)))
  BY <1>1, CutSets DEF SessionTyped
<1>3. /\ summaries' = Append(summaries, SubSeq(msgs, 1, cut))
      /\ msgs' = SubSeq(msgs, cut + 1, Len(msgs))
      /\ total' = total
  BY DEF Compress
<1>4. Summary(summaries') = Summary(summaries) \cup ToSet(SubSeq(msgs, 1, cut))
  BY <1>2, <1>3, SummaryAppend DEF SessionTyped
<1>5. summaries' \in Seq(Seq(Nat))
  BY <1>2, <1>3, AppendProperties DEF SessionTyped
<1>. HIDE DEF cut
<1>. QED
  BY <1>2, <1>3, <1>4, <1>5 DEF InSession

-----------------------------------------------------------------------------
(* The calls.                                                              *)

\* Nobody appends a message in this step.
Quiet == \A d \in Callers : Appended(d)' => Appended(d) /\ doing'[d].msg = doing[d].msg

\* How a step of c that appends nothing may change what c does.
Turns(c) ==
  \/ doing' = [doing EXCEPT ![c] = NotCalled]
  \/ doing' = [doing EXCEPT ![c] = [call |-> "compress", at |-> "fetched", msg |-> 0]]
  \/ \E call \in CallNames, at \in Places :
       (call # "add" \/ at # "locked") /\ Goto(c, call, at)
  \/ UNCHANGED doing

LEMMA TurnsKeep ==
  ASSUME doing \in Doings, NEW c \in Callers, Turns(c)
  PROVE  doing' \in Doings /\ Quiet
<1>1. ASSUME NEW r \in CallRecords,
             r.call # "add" \/ r.at # "locked", doing' = [doing EXCEPT ![c] = r]
      PROVE  doing' \in Doings /\ Quiet
  BY <1>1 DEF Doings, CallRecords, Quiet, Appended
<1>2. ASSUME NEW call \in CallNames, NEW at \in Places,
             call # "add" \/ at # "locked", Goto(c, call, at)
      PROVE  doing' \in Doings /\ Quiet
  <2>1. doing[c] \in CallRecords
    BY DEF Doings
  <2>2. doing \in [Callers -> CallRecords]
    BY DEF Doings
  <2>3. /\ DOMAIN doing' = Callers
        /\ doing'[c] = [doing[c] EXCEPT !.call = call, !.at = at]
        /\ \A d \in Callers : d # c => doing'[d] = doing[d]
        /\ doing' \in [Callers -> {doing'[d] : d \in Callers}]
    BY <1>2, <2>2 DEF Goto
  <2>4. /\ doing'[c] \in CallRecords
        /\ doing'[c].call = call /\ doing'[c].at = at
    BY <1>2, <2>1, <2>3 DEF CallRecords
  <2>. QED
    BY <1>2, <2>2, <2>3, <2>4 DEF Doings, Quiet, Appended
<1>3. /\ NotCalled \in CallRecords
      /\ [call |-> "compress", at |-> "fetched", msg |-> 0]
            \in CallRecords
      /\ NotCalled.call # "add"
  BY DEF NotCalled, CallNames, Places, CallRecords
<1>4. CASE UNCHANGED doing
  BY <1>4 DEF Quiet, Appended
<1>. QED
  BY <1>1, <1>2, <1>3, <1>4 DEF Turns

-----------------------------------------------------------------------------
(* The kinds of steps.                                                     *)

\* Steps of a caller that leave the file, the background save and the
\* acknowledged messages alone, and at most add to the session.
LEMMA MemoryStep ==
  ASSUME DurableInv, UNCHANGED <<file, saver, acked>>, SessionTyped',
         stored' = stored \/ (saver = NoSave /\ stored' = FALSE),
         InSession \subseteq InSession',
         Summary(summaries) \subseteq Summary(summaries)',
         \A c \in Callers : Appended(c)' => \/ Appended(c) /\ doing'[c].msg = doing[c].msg
                                            \/ doing'[c].msg \in InSession'
  PROVE  DurableInv'
BY DEF DurableInv, SaverKeeps, AckedDurable, Kept

\* Steps that write the session into the file, or the file of a session that is
\* gone, while no background save is on its way.
LEMMA FileStep ==
  ASSUME DurableInv, UNCHANGED <<convVars, saver>>, SessionTyped', saver = NoSave,
         stored' => stored,
         \/ acked' = acked /\ file' \in {file, NoFile}
         \/ /\ file' = Snapshot /\ stored
            /\ \/ acked' = acked
               \/ \E c \in Callers : Appended(c) /\ acked' = acked \cup {doing[c].msg},
         Quiet
  PROVE  DurableInv'
<1>1. InSession' = InSession
  BY DEF InSession, convVars, Summary
<1>2. stored => acked' \subseteq InSession
  BY DEF DurableInv, AckedDurable
<1>3. SaverKeeps'
  BY DEF SaverKeeps, NoSave
<1>4. AckedDurable'
  <2>1. CASE acked' = acked /\ file' \in {file, NoFile}
    BY <2>1 DEF AckedDurable, DurableInv, Kept
  <2>2. CASE file' = Snapshot /\ stored
    <3>1. Kept(Snapshot) = InSession
      BY KeptIs
    <3>2. Kept(file') = InSession
      BY <2>2, <3>1
    <3>3. Kept(file)' = Kept(file')
      BY DEF Kept
    <3>. QED
      BY <1>2, <2>2, <3>2, <3>3 DEF AckedDurable
  <2>. QED
    BY <2>1, <2>2
<1>. QED
  BY <1>1, <1>2, <1>3, <1>4 DEF DurableInv, Quiet

-----------------------------------------------------------------------------
(* Steps of the callers that change the session only.                      *)

LEMMA AddAppendStep ==
  ASSUME DurableInv, NEW c \in Callers, AddAppend(c) PROVE DurableInv'
<1>1. /\ given' \in Nat /\ msgs' = Append(msgs, given') /\ total' = total + 1
      /\ doing' = [doing EXCEPT ![c].at = "locked", ![c].msg = given']
      /\ UNCHANGED <<summaries, status, closedAt, stored, file, saver, acked>>
  BY DEF DurableInv, SessionTyped, AddAppend
<1>2. msgs' \in Seq(Nat) /\ ToSet(msgs) \subseteq ToSet(msgs') /\ given' \in ToSet(msgs')
  BY <1>1, AppendSets DEF DurableInv, SessionTyped
<1>3. /\ doing' \in Doings /\ doing'[c].msg = given'
      /\ \A d \in Callers : d # c => doing'[d] = doing[d]
  <2>1. doing \in [Callers -> CallRecords]
    BY DEF Doings, DurableInv, SessionTyped
  <2>2. /\ doing' \in [Callers -> {doing'[d] : d \in Callers}]
        /\ doing'[c] = [doing[c] EXCEPT !.at = "locked", !.msg = given']
        /\ \A d \in Callers : d # c => doing'[d] = doing[d]
    BY <1>1, <2>1
  <2>3. doing'[c] \in CallRecords /\ doing'[c].msg = given'
    <3>1. doing[c] \in CallRecords /\ "locked" \in Places
      BY <2>1 DEF Places
    <3>2. PICK n \in Nat : n = given'
      BY <1>1
    <3>3. doing'[c] = [doing[c] EXCEPT !.at = "locked", !.msg = n]
      BY <2>2, <3>2
    <3>. QED
      BY <3>1, <3>2, <3>3 DEF CallRecords
  <2>. QED
    BY <2>1, <2>2, <2>3 DEF Doings
<1>4. SessionTyped'
  BY <1>1, <1>2, <1>3 DEF DurableInv, SessionTyped
<1>5. InSession \subseteq InSession' /\ given' \in InSession'
      /\ Summary(summaries)' = Summary(summaries)
  BY <1>1, <1>2 DEF InSession, Summary
<1>6. ASSUME NEW d \in Callers, Appended(d)'
      PROVE  \/ Appended(d) /\ doing'[d].msg = doing[d].msg
             \/ doing'[d].msg \in InSession'
  BY <1>3, <1>5, <1>6 DEF Appended
<1>. QED
  BY <1>1, <1>4, <1>5, <1>6, MemoryStep

LEMMA CompressStep ==
  ASSUME DurableInv, NEW c \in Callers, AutoCompress(c) \/ SuspendLock(c) PROVE DurableInv'
<1>0. doing' \in Doings /\ Quiet
  <2>1. Turns(c)
    BY DEF Turns, AutoCompress, SuspendLock, CallNames, Places
  <2>. QED
    BY <2>1, TurnsKeep DEF DurableInv, SessionTyped
<1>1. CASE Len(msgs) >= Threshold /\ Compress
  <2>1. /\ msgs' \in Seq(Nat) /\ summaries' \in Seq(Seq(Nat)) /\ total' = total
        /\ InSession' = InSession
        /\ Summary(summaries) \subseteq Summary(summaries)'
    BY <1>1, CompressKeeps DEF DurableInv
  <2>2. SessionTyped'
    BY <1>0, <2>1 DEF DurableInv, SessionTyped, StatusesOf, AutoCompress, SuspendLock
  <2>. QED
    BY <1>0, <2>1, <2>2, MemoryStep DEF AutoCompress, SuspendLock, Quiet
<1>2. CASE UNCHANGED convVars
  <2>1. SessionTyped'
    BY <1>0, <1>2 DEF DurableInv, SessionTyped, StatusesOf, AutoCompress, SuspendLock, convVars
  <2>3. InSession' = InSession /\ Summary(summaries)' = Summary(summaries)
    BY <1>2 DEF InSession, Summary, convVars
  <2>. QED
    BY <1>0, <2>1, <2>3, MemoryStep DEF AutoCompress, SuspendLock, Quiet
<1>3. Len(msgs) \in Nat
  BY LenProperties DEF DurableInv, SessionTyped
<1>. QED
  BY <1>1, <1>2, <1>3, SessionAssumption DEF AutoCompress, SuspendLock, convVars

\* Close, Resume, the fetches and what DeleteSession does to the list.
LEMMA PlainStep ==
  ASSUME DurableInv, NEW c \in Callers,
         \/ \E call \in {"add", "suspend", "close", "resume"}, known \in BOOLEAN : Fetch(c, call, known)
         \/ CloseLock(c) \/ ResumeLock(c) \/ ResumeList(c) \/ DeleteListed(c)
  PROVE  DurableInv'
<1>1. doing' \in Doings /\ Quiet
  <2>1. Turns(c)
    BY DEF Turns, Fetch, CloseLock, ResumeLock, ResumeList, DeleteListed, CallNames, Places
  <2>. QED
    BY <2>1, TurnsKeep DEF DurableInv, SessionTyped
<1>2. SessionTyped'
  BY <1>1 DEF DurableInv, SessionTyped, StatusesOf, Fetch, CloseLock, ResumeLock, ResumeList,
         DeleteListed, convVars
<1>3. UNCHANGED <<convVars, stored, file, saver, acked>>
  BY DEF Fetch, CloseLock, ResumeLock, ResumeList, DeleteListed
<1>4. InSession' = InSession /\ Summary(summaries)' = Summary(summaries)
  BY <1>3 DEF InSession, Summary, convVars
<1>. QED
  BY <1>1, <1>2, <1>3, <1>4, MemoryStep DEF Quiet

-----------------------------------------------------------------------------
(* Steps that write the file.                                              *)

\* What Update may do, for any result.
LEMMA UpdateDoes ==
  ASSUME NEW result \in {"not found", "failed", "ok"}, Update(result)
  PROVE  /\ saver = NoSave
         /\ \/ result = "ok" /\ stored /\ file' = Snapshot
            \/ result # "ok" /\ file' = file
BY DEF Update

LEMMA SnapshotTyped ==
  ASSUME SessionTyped PROVE Snapshot \in Sessions /\ NoFile \in Sessions
BY DEF SessionTyped, Snapshot, NoFile, Sessions, StatusesOf

LEMMA SaveStep ==
  ASSUME DurableInv, NEW c \in Callers,
         AddSave(c) \/ AutoCompressSave(c) \/ Leave(c) \/ ResumeSave(c)
  PROVE  DurableInv'
<1>1. /\ UNCHANGED <<convVars, status, closedAt, stored, saver, given>>
      /\ saver = NoSave
      /\ \/ stored /\ file' = Snapshot
         \/ file' = file
  BY UpdateDoes DEF AddSave, AutoCompressSave, Leave, ResumeSave
<1>2. /\ acked' # acked => stored /\ file' = Snapshot
      /\ \/ acked' = acked
         \/ Appended(c) /\ acked' = acked \cup {doing[c].msg}
  BY UpdateDoes DEF AddSave, AutoCompressSave, Leave, ResumeSave, Appended
<1>4. doing' \in Doings /\ Quiet
  <2>1. Turns(c)
    BY DEF Turns, AddSave, AutoCompressSave, Leave, ResumeSave, CallNames, Places
  <2>. QED
    BY <2>1, TurnsKeep DEF DurableInv, SessionTyped
<1>3. SessionTyped'
  <2>1. file' \in Sessions
    BY <1>1, SnapshotTyped DEF DurableInv, SessionTyped
  <2>. QED
    BY <1>1, <1>4, <2>1 DEF DurableInv, SessionTyped, convVars
<1>. QED
  BY <1>1, <1>2, <1>3, <1>4, FileStep

\* The session leaves the store, or a save of the other sessions drops it.
LEMMA DropStep ==
  ASSUME DurableInv, (\E c \in Callers : DeleteStored(c)) \/ Cleanup \/ SaveWithout
  PROVE  DurableInv'
<1>1. /\ UNCHANGED <<convVars, status, closedAt, saver, given, acked>>
      /\ saver = NoSave /\ (stored' => stored) /\ file' \in {file, NoFile}
  BY DEF DeleteStored, Cleanup, SaveWithout
<1>2. doing' \in Doings /\ Quiet
  <2>1. CASE \E c \in Callers : DeleteStored(c)
    <3>1. PICK c \in Callers : DeleteStored(c)
      BY <2>1
    <3>2. Turns(c)
      BY <3>1 DEF Turns, DeleteStored, CallNames, Places
    <3>. QED
      BY <3>2, TurnsKeep DEF DurableInv, SessionTyped
  <2>2. CASE UNCHANGED doing
    BY <2>2 DEF Quiet, Appended, DurableInv, SessionTyped
  <2>. QED
    BY <2>1, <2>2 DEF Cleanup, SaveWithout
<1>3. SessionTyped'
  BY <1>1, <1>2, SnapshotTyped DEF DurableInv, SessionTyped, convVars
<1>. QED
  BY <1>1, <1>2, <1>3, FileStep

-----------------------------------------------------------------------------
(* The background save and crashes.                                        *)

LEMMA ReadStep ==
  ASSUME DurableInv, SaveStatus \/ SaveMessages \/ SaveSummaries \/ SaveEnd
  PROVE  DurableInv'
<1>1. /\ UNCHANGED <<msgs, summaries, total, status, closedAt, stored, doing, given, acked>>
  BY DEF SaveStatus, SaveMessages, SaveSummaries, SaveEnd, convVars
<1>2. InSession' = InSession /\ Summary(summaries)' = Summary(summaries)
  BY <1>1 DEF InSession, Summary
<1>3. \A d \in Callers : Appended(d)' <=> Appended(d)
  BY <1>1 DEF Appended
<1>4. CASE SaveStatus
  <2>2. [NoFile EXCEPT !.status = status, !.closedAt = closedAt] \in Sessions
    <3>1. NoFile \in Sessions /\ status \in StatusesOf /\ closedAt \in BOOLEAN
      BY SnapshotTyped DEF DurableInv, SessionTyped
    <3>. QED
      BY <3>1 DEF Sessions
  <2>3. /\ saver' \in Savers
        /\ saver'.at = "status" /\ stored /\ file' = file
    BY <1>4, <2>2 DEF Savers, SaveStatus
  <2>1. SessionTyped' /\ SaverKeeps' /\ file' = file
    BY <1>1, <2>3 DEF DurableInv, SessionTyped, SaverKeeps
  <2>. QED
    BY <1>1, <1>2, <1>3, <2>1 DEF DurableInv, AckedDurable, Kept
<1>5. CASE SaveMessages
  <2>1. /\ saver'.got.msgs = msgs /\ saver'.at = "msgs"
        /\ saver' \in Savers /\ file' = file
    BY <1>5 DEF DurableInv, SessionTyped, SaveMessages, Sessions, Savers
  <2>2. SessionTyped'
    BY <1>1, <2>1 DEF DurableInv, SessionTyped
  <2>3. saver # NoSave
    BY <1>5 DEF SaveMessages, NoSave
  <2>4. SaverKeeps'
    BY <1>1, <1>2, <2>1, <2>3 DEF DurableInv, SaverKeeps, InSession
  <2>. QED
    BY <1>1, <1>2, <1>3, <2>1, <2>2, <2>4 DEF DurableInv, AckedDurable, Kept
<1>6. CASE SaveSummaries
  <2>1. /\ saver'.got.msgs = saver.got.msgs /\ saver'.got.summaries = summaries
        /\ saver'.at = "summaries" /\ saver.at = "msgs"
        /\ saver' \in Savers /\ file' = file
    BY <1>6 DEF DurableInv, SessionTyped, SaveSummaries, Sessions, Savers
  <2>2. SessionTyped'
    BY <1>1, <2>1 DEF DurableInv, SessionTyped
  <2>3. saver # NoSave
    BY <1>6 DEF SaveSummaries, NoSave
  <2>4. Kept(saver'.got) = ToSet(saver.got.msgs) \cup Summary(summaries)
    BY <2>1, KeptIs
  <2>5. SaverKeeps'
    BY <1>1, <1>2, <2>1, <2>3, <2>4 DEF DurableInv, SaverKeeps, Kept
  <2>. QED
    BY <1>1, <1>2, <1>3, <2>1, <2>2, <2>5 DEF DurableInv, AckedDurable, Kept
<1>7. CASE SaveEnd
  <2>1. /\ file'.msgs = saver.got.msgs /\ file'.summaries = saver.got.summaries
        /\ file' \in Sessions /\ saver.at = "summaries" /\ saver' = NoSave
    BY <1>7 DEF DurableInv, SessionTyped, SaveEnd, Sessions, Savers
  <2>2. SessionTyped' /\ SaverKeeps'
    BY <1>1, <2>1, SnapshotTyped DEF Savers, DurableInv, SessionTyped, SaverKeeps, NoSave
  <2>3. Kept(file') = Kept(saver.got) /\ Kept(file)' = Kept(file')
    BY <2>1, KeptIs DEF Kept
  <2>4. acked' \subseteq Kept(file)'
    BY <1>1, <2>1, <2>3 DEF DurableInv, SaverKeeps
  <2>. QED
    BY <1>1, <1>2, <1>3, <2>2, <2>4 DEF DurableInv, AckedDurable
<1>. QED
  BY <1>4, <1>5, <1>6, <1>7

LEMMA CrashStep ==
  ASSUME DurableInv, Crash PROVE DurableInv'
<1>1. /\ file' = file /\ acked' = acked /\ given' = given /\ saver' = NoSave
      /\ msgs' = file.msgs /\ summaries' = file.summaries /\ total' = file.total
      /\ closedAt' = file.closedAt
      /\ stored' = (file # NoFile)
      /\ doing' = [c \in Callers |-> NotCalled]
  BY DEF Crash
<1>2. status' \in StatusesOf
  BY DEF Crash, DurableInv, SessionTyped, Sessions, StatusesOf
<1>3. doing' \in Doings /\ \A c \in Callers : ~Appended(c)'
  BY <1>1 DEF Doings, CallRecords, NotCalled, CallNames, Places, Appended
<1>4. SessionTyped'
  BY <1>1, <1>2, <1>3, SnapshotTyped DEF Savers, DurableInv, SessionTyped, Sessions, NoSave
<1>5. InSession' = Kept(file)
  BY <1>1, KeptIs DEF InSession, Summary
<1>6. SaverKeeps'
  BY <1>1 DEF SaverKeeps, NoSave
<1>7. AckedDurable'
  BY <1>1 DEF DurableInv, AckedDurable, Kept
<1>8. stored' => acked' \subseteq InSession'
  BY <1>1, <1>5 DEF DurableInv, AckedDurable
<1>. QED
  BY <1>3, <1>4, <1>6, <1>7, <1>8 DEF DurableInv

LEMMA DurableInit == SessInit => DurableInv
<1>. SUFFICES ASSUME SessInit PROVE DurableInv
  OBVIOUS
<1>1. SessionTyped
  <2>1. <<>> \in Seq(Nat) /\ <<>> \in Seq(Seq(Nat))
    BY EmptySeq
  <2>2. NoFile \in Sessions /\ "active" \in StatusesOf
    BY <2>1 DEF NoFile, Sessions, StatusesOf
  <2>3. [NoFile EXCEPT !.status = "active"] \in Sessions
    BY <2>2 DEF Sessions
  <2>4. NoSave \in Savers
    BY <2>2 DEF Savers, NoSave
  <2>5. [c \in Callers |-> NotCalled] \in Doings
    BY DEF Doings, CallRecords, NotCalled, CallNames, Places
  <2>. QED
    <3>1. given = 0 /\ total = 0 /\ closedAt \in BOOLEAN
      BY Zenon DEF SessInit
    <3>2. msgs \in Seq(Nat) /\ summaries \in Seq(Seq(Nat)) /\ status \in StatusesOf
      BY <2>1, <2>2 DEF SessInit
    <3>3. file \in Sessions /\ doing \in Doings
      BY <2>3, <2>5 DEF SessInit
    <3>. QED
      BY <2>4, <3>1, <3>2, <3>3 DEF SessInit, SessionTyped
<1>2. (\A c \in Callers : ~Appended(c)) /\ acked = {}
  BY DEF SessInit, Appended, NotCalled
<1>. QED
  BY <1>1, <1>2 DEF DurableInv, SaverKeeps, SessInit, NoSave, AckedDurable

LEMMA DurableNext == DurableInv /\ [SessNext]_sessVars => DurableInv'
<1>. SUFFICES ASSUME DurableInv, [SessNext]_sessVars PROVE DurableInv'
  OBVIOUS
<1>1. ASSUME NEW c \in Callers, Begin(c) \/ Acquire(c) \/ Proceed(c) PROVE DurableInv'
  <2>1. CASE Begin(c)
    <3>1. (\E call \in {"add", "suspend", "close", "resume"}, known \in BOOLEAN : Fetch(c, call, known))
          \/ DeleteStored(c)
      <4>1. ASSUME NEW known, Fetch(c, "add", known) PROVE Fetch(c, "add", TRUE)
        BY <4>1 DEF Fetch
      <4>2. ASSUME NEW call, NEW known, Fetch(c, call, known) PROVE Fetch(c, call, TRUE)
        BY <4>2 DEF Fetch
      <4>. QED
        BY <2>1, <4>1, <4>2 DEF Begin
    <3>. QED
      BY <3>1, PlainStep, DropStep
  <2>2. CASE Acquire(c)
    BY <2>2, AddAppendStep, CompressStep, PlainStep DEF Acquire
  <2>3. CASE Proceed(c)
    BY <2>3, SaveStep, PlainStep DEF Proceed
  <2>. QED
    BY <1>1, <2>1, <2>2, <2>3
<1>2. CASE BackgroundSave
  BY <1>2, ReadStep, DropStep DEF BackgroundSave
<1>3. CASE Cleanup
  BY <1>3, DropStep
<1>4. CASE Crash
  BY <1>4, CrashStep
<1>5. CASE UNCHANGED sessVars
  BY <1>5 DEF Savers, DurableInv, sessVars, convVars, SessionTyped, Appended, InSession, Summary,
              SaverKeeps, NoSave, Kept, AckedDurable, NoFile
<1>. QED
  BY <1>1, <1>2, <1>3, <1>4, <1>5 DEF SessNext

\* A message that AddMessage acknowledged is in the file, whatever saves,
\* compressions, deletions, failures and crashes come in between (property
\* AckedDurable of the session; session.go AddMessage and persistence.go), for
\* any number of callers, messages and crashes.
THEOREM AckedAlwaysDurable == SessSpec => []AckedDurable
<1>1. DurableInv => AckedDurable
  BY DEF DurableInv
<1>. QED
  BY DurableInit, DurableNext, <1>1, PTL DEF SessSpec

-----------------------------------------------------------------------------
(***************************************************************************)
(* The conversation is whole (ConversationWhole). FlattenSeq of the        *)
(* summaries grows at its end only: a message is appended to the messages, *)
(* and a compression moves a front of them to the end of the summaries.    *)
(* The types come from the invariant of the file.                          *)
(***************************************************************************)

\* The messages given so far, in order.
Given(n) == [i \in 1..n |-> i]

\* A message more.
LEMMA GivenAppend ==
  ASSUME NEW n \in Nat
  PROVE  Given(n) \in Seq(Nat) /\ Append(Given(n), n + 1) = Given(n + 1)
<1>1. Given(n) \in Seq(Nat) /\ Len(Given(n)) = n
  BY DEF Given
<1>2. Given(n + 1) \in Seq(Nat) /\ Len(Given(n + 1)) = n + 1
  BY DEF Given
<1>3. Len(Append(Given(n), n + 1)) = n + 1 /\ Append(Given(n), n + 1) \in Seq(Nat)
  BY <1>1
<1>4. ASSUME NEW i \in 1..(n + 1)
      PROVE  Append(Given(n), n + 1)[i] = Given(n + 1)[i]
  BY <1>1 DEF Given
<1> QED
  BY <1>1, <1>2, <1>3, <1>4, SeqEqual

Whole == FlattenSeq(summaries) \o msgs = Given(given) /\ total = given

\* AddMessage appends the next message and counts it.
LEMMA AddKeepsWhole ==
  ASSUME SessionTyped, Whole, NEW c \in Callers, AddAppend(c)
  PROVE  Whole'
<1>1. /\ given \in Nat /\ given' = given + 1
      /\ msgs' = Append(msgs, given + 1)
      /\ total' = total + 1 /\ summaries' = summaries
  BY DEF SessionTyped, AddAppend
<1>2. msgs \in Seq(Nat) /\ FlattenSeq(summaries) \in Seq(Nat)
  BY FlattenAppend DEF SessionTyped
<1>3. FlattenSeq(summaries) \o Append(msgs, given + 1)
        = Append(FlattenSeq(summaries) \o msgs, given + 1)
  <2>1. ASSUME NEW s \in Seq(Nat), NEW t \in Seq(Nat), NEW e \in Nat
        PROVE  s \o Append(t, e) = Append(s \o t, e)
    <3>1. <<e>> \in Seq(Nat) /\ s \o t \in Seq(Nat)
      BY ConcatProperties
    <3>2. Append(t, e) = t \o <<e>> /\ Append(s \o t, e) = (s \o t) \o <<e>>
      BY <3>1, AppendIsConcat
    <3> QED
      BY <3>1, <3>2, ConcatAssociative
  <2> QED
    BY SMTT(30), <1>1, <1>2, <2>1
<1> QED
  BY <1>1, <1>3, GivenAppend DEF Whole

\* The front of the messages becomes the last summary: the whole is cut elsewhere.
LEMMA CompressKeepsWhole ==
  ASSUME SessionTyped, Whole, Len(msgs) >= Threshold, Compress, given' = given
  PROVE  Whole'
<1> DEFINE cut == Len(msgs) - Keep
           front == SubSeq(msgs, 1, cut)
           back == SubSeq(msgs, cut + 1, Len(msgs))
<1>1. /\ summaries' = Append(summaries, front)
      /\ msgs' = back
      /\ total' = total
  BY DEF Compress
<1>2. msgs \in Seq(Nat) /\ Len(msgs) \in Nat /\ cut \in 0..Len(msgs)
  BY SessionAssumption, LenProperties DEF SessionTyped
<1>3. front \in Seq(Nat) /\ back \in Seq(Nat) /\ front \o back = msgs
  <2>1. front \in Seq(Nat) /\ back \in Seq(Nat)
    <3> HIDE DEF cut
    <3> QED
      BY <1>2, CutSets
  <2>2. 1 \in 1..(Len(msgs) + 1) /\ cut \in (1 - 1)..Len(msgs) /\ Len(msgs) \in cut..Len(msgs)
    BY <1>2
  <2>3. front \o back = SubSeq(msgs, 1, Len(msgs))
    <3> HIDE DEF cut
    <3> QED
      BY <1>2, <2>2, ConcatAdjacentSubSeq
  <2>4. SubSeq(msgs, 1, Len(msgs)) = msgs
    BY <1>2, SubSeqFull
  <2> QED
    BY <2>1, <2>3, <2>4
<1>4. /\ FlattenSeq(summaries) \in Seq(Nat)
      /\ FlattenSeq(Append(summaries, front)) = FlattenSeq(summaries) \o front
  <2> HIDE DEF front
  <2> QED
    BY <1>3, FlattenAppend DEF SessionTyped
<1> HIDE DEF front, back
<1>5. (FlattenSeq(summaries) \o front) \o back = FlattenSeq(summaries) \o (front \o back)
  <2>1. ASSUME NEW s \in Seq(Nat), NEW t \in Seq(Nat), NEW u \in Seq(Nat)
        PROVE  (s \o t) \o u = s \o (t \o u)
    <3>1. s \in Seq(Nat) /\ t \in Seq(Nat) /\ u \in Seq(Nat)
      OBVIOUS
    <3>2. ASSUME NEW S, s \in Seq(S), t \in Seq(S), u \in Seq(S)
          PROVE  (s \o t) \o u = s \o (t \o u)
      BY SMTT(30), <3>2, ConcatAssociative
    <3> QED
      BY <3>1, <3>2
  <2> QED
    BY <1>3, <1>4, <2>1
<1> QED
  BY <1>1, <1>3, <1>4, <1>5 DEF Whole

WholeInv == crashes \in Nat /\ (crashes = 0 => Whole)

\* Until the program stops for the first time, the summaries and then the messages are
\* what was given to AddMessage, each message once and in order, and TotalMessages
\* counts them (property ConversationWhole; session.go AddMessage, Suspend and
\* compressConversation), for any number of callers and messages, any threshold and
\* any number of messages kept.
THEOREM ConversationAlwaysWhole == SessSpec => []ConversationWhole
<1>1. SessInit => WholeInv
  <2> SUFFICES ASSUME SessInit PROVE WholeInv
    OBVIOUS
  <2>1. summaries = <<>> /\ msgs = <<>> /\ given = 0 /\ total = 0 /\ crashes = 0
    BY DEF SessInit
  <2>2. FlattenSeq(<<>>) = <<>>
    BY DEF FlattenSeq
  <2>3. <<>> \o <<>> = <<>>
    OBVIOUS
  <2>4. Given(0) = <<>>
    BY DEF Given
  <2> QED
    BY <2>1, <2>2, <2>3, <2>4 DEF WholeInv, Whole
<1>2. ASSUME SessionTyped, WholeInv, [SessNext]_sessVars
      PROVE  WholeInv'
  <2>1. ASSUME UNCHANGED <<convVars, given, crashes>>
        PROVE  WholeInv'
    BY <1>2, <2>1 DEF WholeInv, Whole, convVars
  <2>2. ASSUME NEW c \in Callers, Begin(c) PROVE WholeInv'
    BY <2>1, <2>2 DEF Begin, Fetch, DeleteStored
  <2>3. ASSUME NEW c \in Callers, AddAppend(c) PROVE WholeInv'
    <3>1. crashes' = crashes
      BY <2>3 DEF AddAppend
    <3> QED
      BY <1>2, <2>3, <3>1, AddKeepsWhole DEF WholeInv
  <2>4. ASSUME NEW c \in Callers, AutoCompress(c) \/ SuspendLock(c) PROVE WholeInv'
    <3>1. crashes' = crashes /\ given' = given
      BY <2>4 DEF AutoCompress, SuspendLock
    <3>2. \/ Len(msgs) >= Threshold /\ Compress
          \/ UNCHANGED convVars
      <4>1. Len(msgs) \in Nat
        BY <1>2, LenProperties DEF SessionTyped
      <4> QED
        BY <2>4, <4>1, SessionAssumption DEF AutoCompress, SuspendLock
    <3> QED
      BY <1>2, <2>1, <3>1, <3>2, CompressKeepsWhole DEF WholeInv
  <2>5. ASSUME NEW c \in Callers, CloseLock(c) \/ ResumeLock(c) \/ Proceed(c)
        PROVE  WholeInv'
    BY <2>1, <2>5 DEF CloseLock, ResumeLock, Proceed, AddSave, AutoCompressSave, Leave,
                      ResumeSave, ResumeList, DeleteListed
  <2>6. CASE BackgroundSave \/ Cleanup
    BY <2>1, <2>6 DEF BackgroundSave, SaveStatus, SaveMessages, SaveSummaries, SaveEnd,
                      SaveWithout, Cleanup
  <2>7. CASE Crash
    BY <1>2, <2>7 DEF Crash, WholeInv
  <2>8. CASE UNCHANGED sessVars
    BY <2>1, <2>8 DEF sessVars
  <2> QED
    BY <1>2, <2>2, <2>3, <2>4, <2>5, <2>6, <2>7, <2>8 DEF SessNext, Acquire
<1>3. WholeInv => ConversationWhole
  BY DEF WholeInv, Whole, Given, ConversationWhole
<1>4. DurableInv => SessionTyped
  BY DEF DurableInv
<1> QED
  BY DurableInit, DurableNext, <1>1, <1>2, <1>3, <1>4, PTL DEF SessSpec
=============================================================================
