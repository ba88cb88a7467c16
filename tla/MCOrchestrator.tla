--------------------------- MODULE MCOrchestrator ---------------------------
EXTENDS Orchestrator, TLC

CONSTANTS t1, t2, t3, t4, a1, a2

\* Every choice of at most one dependency for two tasks; the third may depend
\* on both.
AnyDeps == {f \in [Tasks -> SUBSET Tasks] :
              \A t \in Tasks : Cardinality(f[t]) <= (IF t = t3 THEN 2 ELSE 1)}

\* t4 is complex and may be planned into t1 and t2; t3 is a task of its own,
\* which may have to wait for t4 or for a subtask.
PlanDeps == {f \in [Tasks -> SUBSET Tasks] :
               /\ f[t1] \in {{}, {t2}}
               /\ f[t2] \in {{}, {t1}}
               /\ f[t3] \in {{}, {t1}, {t4}}
               /\ f[t4] = {}}

T4Plan == [t \in Tasks |-> IF t = t4 THEN {t1, t2} ELSE {}]

\* The same plan for three tasks.
T3Plan == [t \in Tasks |-> IF t = t3 THEN {t1, t2} ELSE {}]

\* Two tasks of the same or of different agent types.
PairDeps == [Tasks -> SUBSET {t1, t2}]
OnlyFirst == [a \in Agents |-> IF a = a1 THEN Tasks ELSE {t1}]

NoDeps == {[t \in Tasks |-> {}]}
NoPlan == [t \in Tasks |-> {}]
AllMatch == [a \in Agents |-> Tasks]
SlotSymmetry == Permutations(Slots)
=============================================================================
