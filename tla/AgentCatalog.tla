----------------------------- MODULE AgentCatalog -----------------------------
(***************************************************************************)
(* What the agent half of the registry promises its users, whatever the    *)
(* interleaving of the requests that maintain it: a set of agent cards     *)
(* that are never removed, never renamed and never share a name, and a     *)
(* publication history in which no version of an agent is used twice.      *)
(* AgentRegistry.tla is the detailed system that implements it.            *)
(***************************************************************************)
CONSTANTS Agents, Publishers, Slugs, ShortIds, Versions, Statuses,
          Nil     \* no card: an agent that is not registered

VARIABLES catalog,   \* agent -> its card, or Nil
          history    \* the <<agent, version>> pairs ever published

vars == <<catalog, history>>

Card == [owner : Publishers, slug : Slugs, shortId : ShortIds,
         version : Versions, status : Statuses]

\* Two cards that no registry may hold together.
SameName(c, d) == \/ c.shortId = d.shortId
                  \/ c.owner = d.owner /\ c.slug = d.slug

Init == /\ catalog = [a \in Agents |-> Nil]
        /\ history = {}

Register(a, card) ==
    /\ catalog[a] = Nil
    /\ \A b \in Agents : catalog[b] # Nil => ~SameName(catalog[b], card)
    /\ catalog' = [catalog EXCEPT ![a] = card]
    /\ history' = history \cup {<<a, card.version>>}

\* A revision keeps the published version or moves to one never published.
Revise(a, version, status) ==
    /\ catalog[a] # Nil
    /\ version = catalog[a].version \/ <<a, version>> \notin history
    /\ catalog' = [catalog EXCEPT ![a].version = version, ![a].status = status]
    /\ history' = history \cup {<<a, version>>}

Next == \E a \in Agents :
           \/ \E card \in Card : Register(a, card)
           \/ \E v \in Versions, s \in Statuses : Revise(a, v, s)

Spec == Init /\ [][Next]_vars
===============================================================================
