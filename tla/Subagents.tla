----------------------------- MODULE Subagents -----------------------------
(***************************************************************************)
(* A family of agents (subagent.go, Fork of session.go) and the runs that  *)
(* nest in it: a tool of an agent may spawn children, run them, run an     *)
(* agent that is already running, or speak to the agent's parent.  Each    *)
(* agent has one run slot (acquireRun of agent.go, module AgentRuns); the  *)
(* context of a run carries the agents whose slots it holds.               *)
(*                                                                         *)
(* Abstractions: agents are numbered as they are made, 0 is the first; a   *)
(* message is its sender; a run does nothing but what its tools do here;   *)
(* what a child inherits is left out.  A hook that refuses an event makes  *)
(* the operation fail with its effect in place, so the events at the end   *)
(* are left out.                                                           *)
(***************************************************************************)
EXTENDS Turns, Integers, Sequences, FiniteSets

CONSTANTS
  Names       \* IDs an application chooses for subagents

ASSUME NamesAssumption == Names \cap (Nat \X Nat) = {}

VARIABLES
  parent,     \* of each agent made so far: 0.., or NoParent
  name,       \* Agent.id
  subagents,  \* Agent.subagents: agents by ID
  inbox,      \* Agent.parentInbox: sequences of messages by ID
  chain,      \* the agents that are active in a worker's context, outermost first
  wanted,     \* {} or {the agent whose slot the worker waits for}
  spawning    \* {} or {the SpawnSubagent between its two critical sections}

family     == <<parent, name, subagents, inbox>>
familyVars == <<family, chain, wanted, spawning>>

NoParent == -1
GeneratedID == <<0, 0>>
Agents   == DOMAIN parent
Elements(s) == {s[i] : i \in DOMAIN s}

FamilyInit ==
  /\ parent = [a \in {0} |-> NoParent] /\ name = [a \in {0} |-> GeneratedID]
  /\ subagents = [a \in {0} |-> << >>] /\ inbox = [a \in {0} |-> << >>]
  /\ chain = [w \in Workers |-> <<>>]
  /\ wanted = [w \in Workers |-> {}] /\ spawning = [w \in Workers |-> {}]

\* Outside runs a worker may use any agent; inside, a tool uses its own.
Usable(w) == IF chain[w] = <<>> THEN Agents ELSE {chain[w][Len(chain[w])]}

----------------------------------------------------------------------------
(* Runs.                                                                   *)

Call(w, a) == wanted' = [wanted EXCEPT ![w] = {a}]

\* A worker runs an agent, or a tool runs one that is already running.
Run(w) ==
  /\ Turn
  /\ \E a \in IF chain[w] = <<>> THEN Agents ELSE Elements(chain[w]) : Call(w, a)
  /\ UNCHANGED <<family, chain, spawning>>

\* A lookup that finds nothing is an error without effect.
SendMessageToSubagent(w) ==
  /\ Turn
  /\ \E a \in Usable(w) : \E id \in DOMAIN subagents[a] : Call(w, subagents[a][id])
  /\ UNCHANGED <<family, chain, spawning>>

\* Mutant: the context remembers the innermost agent only.
ActiveInnermost(w, a) == chain[w] # <<>> /\ chain[w][Len(chain[w])] = a

\* activeRunAgentInContext
Active(w, a) == a \in Elements(chain[w])

SlotFree(a) == \A w \in Workers : a \notin Elements(chain[w])

Acquire(w) ==
  /\ \E a \in wanted[w] :
       IF Active(w, a) THEN UNCHANGED chain
       ELSE SlotFree(a) /\ chain' = [chain EXCEPT ![w] = Append(@, a)]
  /\ wanted' = [wanted EXCEPT ![w] = {}]
  /\ UNCHANGED <<family, spawning, turns>>

\* The context is done: before the slot is taken, or between the two looks.
GiveUp(w) ==
  /\ wanted[w] # {} /\ Turn
  /\ wanted' = [wanted EXCEPT ![w] = {}]
  /\ UNCHANGED <<family, chain, spawning>>

Return(w) ==
  /\ chain[w] # <<>> /\ wanted[w] = {} /\ spawning[w] = {}
  /\ chain' = [chain EXCEPT ![w] = SubSeq(@, 1, Len(@) - 1)]
  /\ UNCHANGED <<family, wanted, spawning, turns>>

----------------------------------------------------------------------------
(* Children.                                                               *)

NewAgent(id, of) ==
  LET a == Cardinality(Agents)
  IN /\ parent' = With(parent, a, of)
     /\ name'   = With(name, a, id)
     /\ inbox'  = With(inbox, a, << >>)
     /\ subagents' =
          LET known == With(subagents, a, << >>)
          IN IF of = NoParent THEN known ELSE [known EXCEPT ![of] = With(@, id, a)]

\* The ID an agent gives when its application gives none.
DefaultName(a) == <<a, Cardinality(DOMAIN subagents[a]) + 1>>

\* Mutant: the registry is not consulted.
FreeNamesAny(a) == Names \cup {DefaultName(a)}

FreeNames(a) == (Names \cup {DefaultName(a)}) \ DOMAIN subagents[a]

\* The first critical section: the ID is free.
SpawnSubagent(w) ==
  /\ Turn
  /\ \E a \in Usable(w) : \E id \in FreeNames(a) :
       spawning' = [spawning EXCEPT ![w] =
                      {[of |-> a, id |-> id, known |-> DOMAIN subagents[a]]}]
  /\ UNCHANGED <<family, chain, wanted>>

\* New and the options may fail; the second critical section registers the
\* child, whoever has the ID by now.
Spawned(w) ==
  /\ \E child \in spawning[w] :
       \/ NewAgent(child.id, child.of) /\ UNCHANGED turns
       \/ Turn /\ UNCHANGED family
  /\ spawning' = [spawning EXCEPT ![w] = {}]
  /\ UNCHANGED <<chain, wanted>>

\* A fork has its own slot and nothing of the family.
Fork(w) ==
  /\ Turn
  /\ NewAgent(GeneratedID, NoParent)
  /\ UNCHANGED <<chain, wanted, spawning>>

Mail(a, id) == IF id \in DOMAIN inbox[a] THEN inbox[a][id] ELSE <<>>

\* Recorded in the parent's inbox, under the sender's ID; no slot is taken.
SendToParent(w) ==
  /\ Turn
  /\ \E a \in Usable(w) :
       LET to == parent[a] IN
       /\ to # NoParent
       /\ inbox' = [inbox EXCEPT ![to] = With(@, name[a], Append(Mail(to, name[a]), a))]
  /\ UNCHANGED <<parent, name, subagents, chain, wanted, spawning>>

DrainSubagentMessages(w) ==
  /\ \E a \in Usable(w) : \E id \in DOMAIN inbox[a] :
       inbox' = [inbox EXCEPT ![a] = [other \in DOMAIN @ \ {id} |-> @[other]]]
  /\ UNCHANGED <<parent, name, subagents, chain, wanted, spawning, turns>>

FamilyStep(w) ==
  \/ Acquire(w) \/ GiveUp(w) \/ Return(w) \/ Spawned(w)
  \/ /\ wanted[w] = {} /\ spawning[w] = {}
     /\ \/ Run(w) \/ SendMessageToSubagent(w) \/ SpawnSubagent(w) \/ Fork(w)
        \/ SendToParent(w) \/ DrainSubagentMessages(w)

----------------------------------------------------------------------------
IDs == Names \cup (Nat \X Nat)

FamilyTypeOK ==
  /\ \E n \in 1..(MaxTurns + 1) : Agents = 0..(n - 1)
  /\ parent \in [Agents -> {NoParent} \cup Agents] /\ name \in [Agents -> IDs]
  /\ DOMAIN subagents = Agents /\ DOMAIN inbox = Agents
  /\ \A a \in Agents :
       /\ \A id \in DOMAIN subagents[a] : id \in IDs /\ subagents[a][id] \in Agents
       /\ \A id \in DOMAIN inbox[a] : id \in IDs /\ inbox[a][id] \in Seq(Agents)
  /\ \A w \in Workers :
       /\ chain[w] \in Seq(Agents) /\ wanted[w] \subseteq Agents
       /\ Cardinality(wanted[w] \cup spawning[w]) <= 1

\* Runs that nest along the family never wait for each other in a circle, and
\* an agent that is asked to run below one of its own runs is refused at once:
\* whoever waits for a slot gets it or an error.  ("Run or RunStream on the same
\* agent with that context returns a structured error", agent-runtime.md.)
RunsReturn == \A w \in Workers : wanted[w] # {} ~> wanted[w] = {}

\* A spawn takes no child's ID away, except from one that was registered while
\* it was itself under way: SendMessageToSubagent goes on reaching the others.
SpawnKeepsSiblings ==
  [][\A a \in Agents : \A id \in DOMAIN subagents[a] :
       \/ id \in DOMAIN subagents'[a] /\ subagents'[a][id] = subagents[a][id]
       \/ \E w \in Workers : \E child \in spawning[w] :
            child.of = a /\ child.id = id /\ id \notin child.known]_familyVars
=============================================================================
