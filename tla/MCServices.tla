----------------------------- MODULE MCServices -----------------------------
(***************************************************************************)
(* The two kinds of pools, the WebSocket hub, the session manager, an MCP  *)
(* client with its server, the tiered context store and the walks over the *)
(* knowledge graph for TLC, side by side: `part' says which of them a      *)
(* behaviour is about, and the others never move.                          *)
(***************************************************************************)
EXTENDS AgentPool, FactoryPool, WsHub, Session, McpExchange, ContextStore,
        GraphTraversal, TLC

\* All clients are the same user's: the case in which the index by user has to
\* tell the last client from the others.
CONSTANT x
MCUserOf == [c \in Clients |-> x]

\* The graphs that are walked: those on n1 to n5 with some of the edges from n1 by n5
\* to n3 and back, with and without the longer way by n2 and n4, which may be met
\* first; and one with an edge of a node to itself.
CONSTANTS n1, n2, n3, n4, n5
ShortWay == {<<n1, n5>>, <<n5, n3>>, <<n5, n1>>, <<n3, n5>>}
LongWay == {<<n1, n2>>, <<n2, n4>>, <<n4, n3>>}
MCStartGraphs == {some \cup long : some \in SUBSET ShortWay, long \in {{}, LongWay}}
                 \cup {{<<n1, n1>>, <<n1, n2>>, <<n2, n1>>}}

\* One clerk has a key of its own, and both use a shared one.  Two entries of
\* the first size fit in the hot tier; the last kind does not fit at all and
\* cannot be encoded.
CONSTANTS g1, g2, own, shared, v1, v2, v3
MCKeysOf == (g1 :> {own, shared}) @@ (g2 :> {shared})
MCBytes == (v1 :> 1) @@ (v2 :> 2) @@ (v3 :> 3)

\* No two users of a service differ: the resizers, callers and requesters, and the
\* scalers and clients.  The clerks do, by their keys.
CONSTANTS c1, c2, r1, r2
MCSymmetry == Permutations({c1, c2}) \cup Permutations({r1, r2})

VARIABLE part

Init == /\ part \in {"managed pool", "factory pool", "hub", "session", "mcp",
                    "context", "walks"}
        /\ PoolInit
        /\ FactoryPoolInit
        /\ WsInit
        /\ SessInit
        /\ McpInit
        /\ StoreInit
        /\ TraversalInit
        /\ part # "walks" => call.kind = "cycles" /\ edges = {}

serviceVars == <<poolVars, factoryVars, wsVars, sessVars>>
otherVars == <<mcpVars, storeVars, traversalVars>>

Next ==
  \/ /\ part = "managed pool" /\ PoolNext
     /\ UNCHANGED <<part, factoryVars, wsVars, sessVars, otherVars>>
  \/ /\ part = "factory pool" /\ FactoryPoolNext
     /\ UNCHANGED <<part, poolVars, wsVars, sessVars, otherVars>>
  \/ /\ part = "hub" /\ WsNext
     /\ UNCHANGED <<part, poolVars, factoryVars, sessVars, otherVars>>
  \/ /\ part = "session" /\ SessNext
     /\ UNCHANGED <<part, poolVars, factoryVars, wsVars, otherVars>>
  \/ /\ part = "mcp" /\ McpNext
     /\ UNCHANGED <<part, serviceVars, storeVars, traversalVars>>
  \/ /\ part = "context" /\ StoreNext
     /\ UNCHANGED <<part, serviceVars, mcpVars, traversalVars>>
  \/ /\ part = "walks" /\ TraversalNext
     /\ UNCHANGED <<part, serviceVars, mcpVars, storeVars>>

Spec == Init /\ [][Next]_<<part, serviceVars, otherVars>>
=============================================================================
