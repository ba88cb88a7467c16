--------------------------- MODULE SkillRegistry ---------------------------
(***************************************************************************)
(* The skill registry (internal/skills/registry): the manifests by id, an  *)
(* index of them, and discovery from sources.  A registry serves what it   *)
(* has at /v1/skills (api.go), and RegistryDiscovery asks another registry *)
(* for exactly that (discovery.go): here each registry has its own files   *)
(* and the other registries as sources.                                    *)
(*                                                                         *)
(* A manifest is its id.  DiscoverAll holds the registry's lock while the  *)
(* sources answer.                                                         *)
(***************************************************************************)
EXTENDS Integers, FiniteSets, Sequences, SequencesExt

CONSTANTS Registries, Skills,
          LocalSkills,  \* per registry: the skills its files describe
          KeysOf,       \* per skill: its name, tags, triggers, source, runtime
          Blank,        \* the manifest all of whose fields are empty, with id "@"
          PageSize      \* entries of a list without a limit (20)

ASSUME RegistryAssumption == /\ PageSize \in Nat \ {0}
                             /\ Blank \notin Skills

VARIABLES skills,       \* r.skills
          index,        \* r.index: the ids under each key
          discovery     \* a discovery of each registry: where it stands, the sources
                        \* it has still to ask, the manifests found

registryVars == <<skills, index, discovery>>

Ids == Skills \cup {Blank}
Keys == UNION {KeysOf[s] : s \in Skills}
KeysIn(s) == IF s = Blank THEN {} ELSE KeysOf[s]
NoDiscovery == [at |-> "none", ask |-> {}, found |-> <<>>]

RegistryTypeOK ==
  /\ skills \in [Registries -> SUBSET Ids]
  /\ index \in [Registries -> [Keys -> SUBSET Skills]]
  /\ \A r \in Registries : /\ discovery[r].at \in {"none", "asks", "registers"}
                           /\ discovery[r].ask \subseteq Registries
                           /\ discovery[r].found \in Seq(Ids)

RegistryInit ==
  /\ skills = [r \in Registries |-> {}]
  /\ index = [r \in Registries |-> [k \in Keys |-> {}]]
  /\ discovery = [r \in Registries |-> NoDiscovery]

\* The keys of the blank manifest, an empty name and where it came from, are left
\* out.  A discovery that asks its sources has the lock, for writing.
LockFree(r) == discovery[r].at # "asks"

-----------------------------------------------------------------------------
(* Register and Unregister.                                                *)

Added(r, s) == [index EXCEPT ![r] = [k \in Keys |-> index[r][k] \cup {x \in {s} : k \in KeysIn(s)}]]

Removed(r, s) == [index EXCEPT ![r] = [k \in Keys |-> index[r][k] \ {s}]]

\* handlePublish, and each manifest of a discovery; a second one with the id is
\* refused.
Register(r, s) ==
  /\ LockFree(r)
  /\ skills' = [skills EXCEPT ![r] = @ \cup {s}]
  /\ index' = IF s \in skills[r] THEN index ELSE Added(r, s)

Publish(r, s) == /\ s \notin skills[r] /\ Register(r, s)
                 /\ UNCHANGED discovery

Unregister(r, s) ==
  /\ LockFree(r) /\ s \in skills[r]
  /\ skills' = [skills EXCEPT ![r] = @ \ {s}]
  /\ index' = Removed(r, s)
  /\ UNCHANGED discovery

-----------------------------------------------------------------------------
(* DiscoverAll, and the registrations of AutoDiscover and handleDiscover.  *)

DiscoverBegins(r) ==
  /\ discovery[r].at = "none"
  /\ discovery' = [discovery EXCEPT ![r] = [at |-> "asks", ask |-> Registries, found |-> <<>>]]
  /\ UNCHANGED <<skills, index>>

Finds(r, q, ms) ==
  /\ discovery' = [discovery EXCEPT ![r].ask = @ \ {q}, ![r].found = @ \o ms]
  /\ UNCHANGED <<skills, index>>

\* LocalDiscovery reads the files.
AskFiles(r) ==
  /\ discovery[r].at = "asks" /\ r \in discovery[r].ask
  /\ Finds(r, r, SetToSeq(LocalSkills[r]))

\* The page that handleList answers.
Page(q) == {p \in SUBSET skills[q] :
              Cardinality(p) = (IF Cardinality(skills[q]) < PageSize
                                THEN Cardinality(skills[q]) ELSE PageSize)}

\* marshalManifest flattens a manifest; decoded as a manifest, with "metadata" and
\* "spec", each of them is a blank one.  The list needs the other's lock.
AskRegistry(r, q) ==
  /\ discovery[r].at = "asks" /\ q \in discovery[r].ask \ {r} /\ LockFree(q)
  /\ \E p \in Page(q) : Finds(r, q, [i \in 1..Cardinality(p) |-> Blank])

\* Mutant: a client without a timeout, and no other error.
NeverGivesUp(r, q) == FALSE /\ UNCHANGED registryVars

\* The source is skipped when it fails; a registry that is discovering itself does
\* not answer before the 30 s of the HTTP client are over.
SourceFails(r, q) ==
  /\ discovery[r].at = "asks" /\ q \in discovery[r].ask
  /\ Finds(r, q, <<>>)

\* The context of the discovery has ended when a source fails: what was found so far
\* is dropped, and nothing is registered.
ContextEnds(r) ==
  /\ discovery[r].at = "asks" /\ discovery[r].ask # {}
  /\ discovery' = [discovery EXCEPT ![r] = NoDiscovery]
  /\ UNCHANGED <<skills, index>>

DiscoverUnlocks(r) ==
  /\ discovery[r].at = "asks" /\ discovery[r].ask = {}
  /\ discovery' = [discovery EXCEPT ![r].at = "registers"]
  /\ UNCHANGED <<skills, index>>

\* One critical section each.
RegisterFound(r) ==
  /\ discovery[r].at = "registers" /\ discovery[r].found # <<>>
  /\ Register(r, Head(discovery[r].found))
  /\ discovery' = [discovery EXCEPT ![r].found = Tail(@)]

DiscoverEnds(r) ==
  /\ discovery[r].at = "registers" /\ discovery[r].found = <<>>
  /\ discovery' = [discovery EXCEPT ![r] = NoDiscovery]
  /\ UNCHANGED <<skills, index>>

DiscoverStep(r) == \/ AskFiles(r) \/ DiscoverUnlocks(r) \/ RegisterFound(r) \/ DiscoverEnds(r)
                   \/ \E q \in Registries : AskRegistry(r, q) \/ SourceFails(r, q)

RegistryNext ==
  \E r \in Registries : \/ DiscoverBegins(r) \/ DiscoverStep(r) \/ ContextEnds(r)
                        \/ \E s \in Skills : Publish(r, s) \/ Unregister(r, s)

\* The lock is free again and again, files are read and the HTTP client times out.
\* That a context ends is possible and not asked for.
RegistryFairness == \A r \in Registries : WF_registryVars(DiscoverStep(r))

RegistrySpec == RegistryInit /\ [][RegistryNext]_registryVars /\ RegistryFairness

-----------------------------------------------------------------------------
(* Properties.                                                             *)

\* A discovery comes to its end, also when the registries that are asked are
\* discovering each other at the same time.
DiscoveryEnds == \A r \in Registries : discovery[r].at # "none" ~> discovery[r].at = "none"
=============================================================================
