---------------------------- MODULE AuthSessions ----------------------------
(***************************************************************************)
(* The login sessions (internal/security/auth/session.go): a map of        *)
(* sessions, and per user the set of his session ids.  Every operation is  *)
(* one critical section.                                                   *)
(*                                                                         *)
(* The LastAccess of the sessions matters by its order alone, and that a   *)
(* session has passed its ExpiresAt is a flag.                             *)
(***************************************************************************)
EXTENDS Integers, FiniteSets

CONSTANTS Users, MaxSessionsPerUser,
          SessionIds    \* the ids given out, each once

ASSUME SessionsAssumption == MaxSessionsPerUser \in Nat \ {0}

VARIABLES sessions,     \* the ids in m.sessions
          older,        \* <<s, t>> when the LastAccess of s is before that of t
          ownerOf,      \* ghost: the user of each id given out
          expired,      \* sessions past their ExpiresAt
          userSessions  \* m.userSessions; {} when the user has no entry

authVars == <<sessions, older, ownerOf, expired, userSessions>>

AuthTypeOK ==
  /\ sessions \subseteq SessionIds /\ older \subseteq sessions \X sessions
  /\ expired \subseteq SessionIds
  /\ \E given \in SUBSET SessionIds : ownerOf \in [given -> Users]
  /\ userSessions \in [Users -> SUBSET SessionIds]

AuthInit ==
  /\ sessions = {} /\ older = {} /\ expired = {} /\ ownerOf = <<>>
  /\ userSessions = [u \in Users |-> {}]

SessionsOf(u) == {s \in sessions : ownerOf[s] = u}

Among(left) == older \cap (left \X left)
\* s is used now, after all others that are left.
UsedNow(s, left) == Among(left) \cup (left \X {s})

\* delete(m.sessions, ...) of each of them
Drop(ids) ==
  /\ sessions' = sessions \ ids /\ older' = Among(sessions \ ids)
  /\ expired' = expired \ ids

\* The least recently used of the sessions that the user's set names.
Oldest(u) ==
  LET known == userSessions[u] \cap sessions
  IN  {s \in known : \A t \in known \ {s} : <<s, t>> \in older}

\* Mutant: the comparison is off by one.
EvictedOneLate(u) ==
  IF Cardinality(userSessions[u]) > MaxSessionsPerUser THEN Oldest(u) ELSE {}

Evicted(u) == IF Cardinality(userSessions[u]) >= MaxSessionsPerUser THEN Oldest(u) ELSE {}

-----------------------------------------------------------------------------
(* The operations.                                                         *)

\* The user's set is looked up before the eviction: when that takes the last id of
\* it, deleteSessionLocked drops the set, and the new id is put into the dropped one.
CreateSession(u, s) ==
  LET out == Evicted(u)
      rest == userSessions[u] \ out
  IN
  /\ s \notin DOMAIN ownerOf
  /\ ownerOf' = [i \in DOMAIN ownerOf \cup {s} |-> IF i = s THEN u ELSE ownerOf[i]]
  /\ sessions' = (sessions \ out) \cup {s} /\ older' = UsedNow(s, sessions \ out)
  /\ expired' = expired \ out
  /\ userSessions' = [userSessions EXCEPT ![u] =
                        IF out # {} /\ rest = {} THEN {} ELSE rest \cup {s}]

\* GetSession, and ValidateSession which calls it, touch the session.
GetSession(s) ==
  /\ s \in sessions \ expired
  /\ older' = UsedNow(s, sessions \ {s})
  /\ UNCHANGED <<sessions, ownerOf, expired, userSessions>>

\* Mutant: the set of the user keeps the id.
DeleteFromMapOnly(ids) ==
  /\ Drop(ids)
  /\ UNCHANGED <<ownerOf, userSessions>>

\* deleteSessionLocked of each of them
DeleteSessions(ids) ==
  /\ Drop(ids)
  /\ userSessions' = [u \in Users |-> userSessions[u] \ ids]
  /\ UNCHANGED ownerOf

DeleteSession(s) == s \in sessions /\ DeleteSessions({s})

Cleanup == expired # {} /\ DeleteSessions(expired)

\* Only what the user's set names is removed.
DeleteUserSessions(u) ==
  /\ userSessions[u] # {}
  /\ Drop(userSessions[u])
  /\ userSessions' = [userSessions EXCEPT ![u] = {}]
  /\ UNCHANGED ownerOf

\* ExpiresAt is set once: the session expires however often it is used.
PassExpiry(s) ==
  /\ s \in sessions \ expired
  /\ expired' = expired \cup {s}
  /\ UNCHANGED <<sessions, older, ownerOf, userSessions>>

AuthNext ==
  \/ Cleanup
  \/ \E u \in Users : DeleteUserSessions(u) \/ \E s \in SessionIds : CreateSession(u, s)
  \/ \E s \in SessionIds : GetSession(s) \/ DeleteSession(s) \/ PassExpiry(s)

AuthSpec == AuthInit /\ [][AuthNext]_authVars

-----------------------------------------------------------------------------
(* Properties.                                                             *)

\* GetUserSessions finds every session of the user, and DeleteUserSessions leaves
\* none: the two maps of session.go agree, when the limit is more than one.
UserIndexAgrees == \A u \in Users : userSessions[u] = SessionsOf(u)

\* One session of a user who has as many as he may have is evicted before he gets
\* another; with a limit of one the index loses sessions, which are then not counted.
WithinTheLimit == \A u \in Users : Cardinality(SessionsOf(u)) <= MaxSessionsPerUser

\* What a user is found to have is all he has, and no more than he may have.
UserSessionsHold == UserIndexAgrees /\ WithinTheLimit
=============================================================================
