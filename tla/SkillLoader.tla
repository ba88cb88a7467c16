---------------------------- MODULE SkillLoader ----------------------------
(***************************************************************************)
(* The skill loader (internal/skills/loader): MultiRuntimeLoader keeps the *)
(* loaded instances under its lock, and a ProcessSkill talks over pipes to *)
(* a process, one request at a time under a lock of its own.               *)
(*                                                                         *)
(* There is one skill name; its instances and processes are given out      *)
(* once.  The program a process runs is the environment: it answers a      *)
(* request, well or with an error, or dies.                                *)
(***************************************************************************)
CONSTANTS Callers, Instances, Processes, NoOne

ASSUME LoaderAssumption == NoOne \notin Callers \cup Instances \cup Processes

VARIABLES loaderLock,   \* who has l.mu
          inLoader,     \* the instance in l.loaded
          instance,     \* each instance: who has its lock, its pipes and process
          process,      \* what became of each process
          startedBy,    \* ghost: the instance that started it
          doing,         \* what each caller does, and the instance it was given
          refused,      \* ghost: instances whose initialize request failed
          again         \* ghost: instances initialized while they had a process

loaderVars == <<loaderLock, inLoader, instance, process, startedBy, doing, refused, again>>
ghosts == <<refused, again>>
processes == <<process, startedBy>>
loaderState == <<loaderLock, inLoader>>

Fresh == [lock |-> NoOne, pipes |-> FALSE, process |-> NoOne]
Awaits == {"initialize", "execute", "shutdown"}

LoaderTypeOK ==
  /\ loaderLock \in Callers \cup {NoOne} /\ inLoader \in Instances \cup {NoOne}
  /\ instance \in [Instances -> [lock : Callers \cup {NoOne}, pipes : BOOLEAN,
                                 process : Processes \cup {NoOne}]]
  /\ process \in [Processes -> {"unborn", "runs", "told", "dead"}]
  /\ startedBy \in [Processes -> Instances \cup {NoOne}]
  /\ doing \in [Callers -> [at : {"idle", "loads", "unloads", "starts", "runs", "stops"} \cup Awaits,
                           on : Instances \cup {NoOne}, has : Instances \cup {NoOne}]]
  /\ refused \subseteq Instances /\ again \subseteq Instances

LoaderInit ==
  /\ loaderLock = NoOne /\ inLoader = NoOne
  /\ instance = [i \in Instances |-> Fresh]
  /\ process = [p \in Processes |-> "unborn"] /\ startedBy = [p \in Processes |-> NoOne]
  /\ doing = [c \in Callers |-> [at |-> "idle", on |-> NoOne, has |-> NoOne]]
  /\ refused = {} /\ again = {}

At(c, where) == doing[c].at = where
Turns(c, where) == doing' = [doing EXCEPT ![c].at = where]
EndsCall(c) == doing' = [doing EXCEPT ![c].at = "idle", ![c].on = NoOne]
On(c) == instance[doing[c].on]
Made == {i \in Instances : i = inLoader \/ \E p \in Processes : startedBy[p] = i
                                      \/ \E c \in Callers : i \in {doing[c].on, doing[c].has}}

-----------------------------------------------------------------------------
(* MultiRuntimeLoader.                                                     *)

LoadCalled(c) ==
  /\ At(c, "idle") /\ Turns(c, "loads")
  /\ UNCHANGED <<loaderState, instance, processes, ghosts>>

\* A loaded instance is given out again; otherwise the loader of the runtime makes
\* one, without starting a process, or fails.
Load(c) ==
  /\ At(c, "loads") /\ loaderLock = NoOne
  /\ \/ inLoader # NoOne /\ doing' = [doing EXCEPT ![c].at = "idle", ![c].has = inLoader]
        /\ UNCHANGED inLoader
     \/ /\ inLoader = NoOne
        /\ \E i \in Instances \ Made :
             inLoader' = i /\ doing' = [doing EXCEPT ![c].at = "idle", ![c].has = i]
     \/ inLoader = NoOne /\ EndsCall(c) /\ UNCHANGED inLoader
  /\ UNCHANGED <<loaderLock, instance, processes, ghosts>>

UnloadCalled(c) ==
  /\ At(c, "idle") /\ Turns(c, "unloads")
  /\ UNCHANGED <<loaderState, instance, processes, ghosts>>

\* Unload calls Shutdown with the lock of the loader held.
UnloadLocks(c) ==
  /\ At(c, "unloads") /\ loaderLock = NoOne
  /\ IF inLoader = NoOne
     THEN EndsCall(c) /\ UNCHANGED loaderLock
     ELSE loaderLock' = c /\ doing' = [doing EXCEPT ![c].at = "stops", ![c].on = inLoader]
  /\ UNCHANGED <<inLoader, instance, processes, ghosts>>

-----------------------------------------------------------------------------
(* ProcessSkill: what holders of an instance call.                         *)

SkillCalled(c, what) ==
  /\ At(c, "idle") /\ doing[c].has # NoOne
  /\ doing' = [doing EXCEPT ![c].at = what, ![c].on = doing[c].has]
  /\ UNCHANGED <<loaderState, instance, processes, ghosts>>

SkillLocked(c) == [instance EXCEPT ![doing[c].on].lock = c]
SkillUnlocked(c) == [instance EXCEPT ![doing[c].on].lock = NoOne]

MarkAgain(c) == again' = IF On(c).process = NoOne THEN again ELSE again \cup {doing[c].on}

\* The process and pipes of the instance are replaced, whatever they were.
InitializeStarts(c, p) ==
  /\ At(c, "starts") /\ On(c).lock = NoOne /\ process[p] = "unborn"
  /\ process' = [process EXCEPT ![p] = "runs"]
  /\ startedBy' = [startedBy EXCEPT ![p] = doing[c].on]
  /\ instance' = [instance EXCEPT ![doing[c].on] = [lock |-> c, pipes |-> TRUE, process |-> p]]
  /\ Turns(c, "initialize") /\ MarkAgain(c)
  /\ UNCHANGED <<loaderState, refused>>

\* cmd.Start fails: s.process is the command that did not start, the pipes are closed.
InitializeCannotStart(c) ==
  /\ At(c, "starts") /\ On(c).lock = NoOne
  /\ instance' = [instance EXCEPT ![doing[c].on].pipes = FALSE, ![doing[c].on].process = NoOne]
  /\ EndsCall(c) /\ MarkAgain(c)
  /\ UNCHANGED <<loaderState, processes, refused>>

Initialized(c) ==
  /\ At(c, "initialize") /\ process[On(c).process] = "runs"
  /\ instance' = SkillUnlocked(c) /\ EndsCall(c)
  /\ UNCHANGED <<loaderState, processes, ghosts>>

\* Initialize calls Shutdown, which takes the lock that Initialize has.
InitializeRefused(c) ==
  /\ At(c, "initialize")
  /\ refused' = refused \cup {doing[c].on}
  /\ Turns(c, "stops")
  /\ UNCHANGED <<loaderState, instance, processes, again>>

ExecuteSends(c) ==
  /\ At(c, "runs") /\ On(c).lock = NoOne
  /\ IF On(c).pipes
     THEN instance' = SkillLocked(c) /\ Turns(c, "execute")
     ELSE EndsCall(c) /\ UNCHANGED instance
  /\ UNCHANGED <<loaderState, processes, ghosts>>

\* Mutant: the lock is kept when the call returns.
ExecutedLocked(c) ==
  /\ At(c, "execute") /\ EndsCall(c)
  /\ UNCHANGED <<loaderState, instance, processes, ghosts>>

\* An answer, an error of the process, or the end of its output.
Executed(c) ==
  /\ At(c, "execute")
  /\ instance' = SkillUnlocked(c) /\ EndsCall(c)
  /\ UNCHANGED <<loaderState, processes, ghosts>>

-----------------------------------------------------------------------------
(* Shutdown, called by a holder, by Unload or by Initialize.               *)

ShutdownSends(c) ==
  /\ At(c, "stops") /\ On(c).lock = NoOne
  /\ instance' = SkillLocked(c) /\ Turns(c, "shutdown")
  /\ UNCHANGED <<loaderState, processes, ghosts>>

Told == [p \in Processes |-> IF process[p] = "runs" THEN "told" ELSE process[p]]

\* Mutant: the process is forgotten and not signalled.
ForgetsProcess(c) ==
  /\ At(c, "shutdown")
  /\ UNCHANGED processes
  /\ instance' = [instance EXCEPT ![doing[c].on] = Fresh]
  /\ loaderLock' = (IF loaderLock = c THEN NoOne ELSE loaderLock)
  /\ inLoader' = (IF loaderLock = c THEN NoOne ELSE inLoader)
  /\ EndsCall(c)
  /\ UNCHANGED ghosts

\* The answer to the shutdown request does not matter.  The pipes are closed, the
\* process gets SIGTERM (and SIGKILL later); Unload drops the instance.
ShutdownEnds(c) ==
  /\ At(c, "shutdown")
  /\ process' = [p \in Processes |-> IF p = On(c).process THEN Told[p] ELSE process[p]]
  /\ instance' = [instance EXCEPT ![doing[c].on] = Fresh]
  /\ loaderLock' = (IF loaderLock = c THEN NoOne ELSE loaderLock)
  /\ inLoader' = (IF loaderLock = c THEN NoOne ELSE inLoader)
  /\ EndsCall(c)
  /\ UNCHANGED <<startedBy, ghosts>>

\* By itself, by the signal, or because the context given to Initialize ended.
Dies(p) ==
  /\ process[p] \in {"runs", "told"}
  /\ process' = [process EXCEPT ![p] = "dead"]
  /\ UNCHANGED <<loaderState, instance, startedBy, doing, ghosts>>

-----------------------------------------------------------------------------
TakesLoaderLock(c) == Load(c) \/ UnloadLocks(c)
TakesSkillLock(c) == \/ InitializeCannotStart(c) \/ ExecuteSends(c) \/ ShutdownSends(c)
                     \/ \E p \in Processes : InitializeStarts(c, p)
Answered(c) == Initialized(c) \/ InitializeRefused(c) \/ Executed(c) \/ ShutdownEnds(c)

LoaderNext ==
  \/ \E c \in Callers : \/ LoadCalled(c) \/ UnloadCalled(c)
                        \/ \E what \in {"starts", "runs", "stops"} : SkillCalled(c, what)
                        \/ TakesLoaderLock(c) \/ TakesSkillLock(c) \/ Answered(c)
  \/ \E p \in Processes : Dies(p)

\* A Go mutex lets nobody wait for ever while it is released again and again, and
\* every request is answered or fails: a process that keeps silent is left out.
LoaderFairness ==
  \A c \in Callers : SF_loaderVars(TakesLoaderLock(c) \/ TakesSkillLock(c) \/ Answered(c))

LoaderSpec == LoaderInit /\ [][LoaderNext]_loaderVars /\ LoaderFairness

-----------------------------------------------------------------------------
(* Properties.                                                             *)

\* A process that runs is the process of its instance, so that Shutdown reaches it,
\* as long as nobody initializes an instance that has one.
ProcessIsReachable ==
  \A p \in Processes : process[p] = "runs" /\ startedBy[p] \notin again
                         => instance[startedBy[p]].process = p

\* Load and Unload return, and so does every other call, whatever others do, unless
\* a skill refused to be initialized (or a process is silent).
LoaderCallsReturn ==
  \A c \in Callers : ~At(c, "idle") ~> At(c, "idle") \/ refused # {}
=============================================================================
