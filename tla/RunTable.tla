------------------------------ MODULE RunTable ------------------------------
(***************************************************************************)
(* The `runs` table of runtime/db.ts as the coordinator reads it: the      *)
(* states of a run, the queries that count and find runs, and the          *)
(* admission test of pump() in runtime/service.ts.                         *)
(*                                                                         *)
(* A run is its position in creation order, so ORDER BY created_at is the  *)
(* order on numbers.  The mutable column is passed as st (a function from  *)
(* runs to states), the columns fixed by the INSERT as rows.               *)
(***************************************************************************)
EXTENDS Naturals, FiniteSets

CONSTANTS
  Agents,           \* ids of the saved agent profiles
  NoAgent,          \* the agent of a row that does not exist yet
  MaxRuns,          \* bound on the number of runs ever created
  MaxActive,        \* the literal 4 of pump()
  MaxTopLevel,      \* the literal 2 of pump()
  MaxTaskRuns,      \* MAX_TASK_RUNS
  MaxQueue,         \* MAX_TASK_QUEUE
  ListLimit,        \* the default limit 100 of listRuns()
  Concurrency,      \* profile.computer.resources.concurrency of each agent
  ExistingDesktop   \* agents whose profile controls the existing desktop

ASSUME NoAgentAssumption == NoAgent \notin Agents
ASSUME LimitsAssumption ==
  /\ MaxRuns \in Nat
  /\ {MaxActive, MaxTopLevel, MaxTaskRuns, MaxQueue, ListLimit} \subseteq Nat \ {0}
ASSUME ProfilesAssumption ==
  /\ Concurrency \in [Agents -> Nat \ {0}]
  /\ ExistingDesktop \subseteq Agents

Run  == 1 .. MaxRuns
None == 0              \* no run: a NULL parent, an empty map entry

ActiveStates   == {"running", "waiting_approval", "waiting_input"}
TerminalStates == {"completed", "failed", "interrupted", "cancelled"}
RunState       == {"absent", "queued"} \cup ActiveStates \cup TerminalStates

(* A state as RunService has it: why a run waits, and whether its end was a *)
(* failure or an interruption, is of no concern to the callers.            *)
ServiceState(s) ==
  CASE s \in {"waiting_approval", "waiting_input"} -> "waiting"
    [] s = "interrupted" -> "failed"
    [] OTHER -> s

Row == [agent  : Agents \cup {NoAgent},
        parent : Run \cup {None},
        depth  : 0 .. 2,
        task   : BOOLEAN]       \* linked from task_runs
NoRow == [agent |-> NoAgent, parent |-> None, depth |-> 0, task |-> FALSE]

-----------------------------------------------------------------------------
(* Queries.                                                                *)

Existing(st) == {r \in Run : st[r] # "absent"}
Queued(st)   == {r \in Run : st[r] = "queued"}
Active(st)   == {r \in Run : st[r] \in ActiveStates}

(* store.listRuns(): the newest rows of the table, up to its limit.        *)
Listed(st) == {r \in Existing(st) : Cardinality({q \in Existing(st) : q > r}) < ListLimit}

(* The next row INSERT creates. *)
IsNext(st, r) == st[r] = "absent" /\ \A q \in Run : q < r => st[q] # "absent"

(* store.descendants: handoffs nest at most two deep. *)
Children(rows, r)    == {q \in Run : rows[q].parent = r}
Descendants(rows, r) ==
  Children(rows, r) \cup UNION {Children(rows, q) : q \in Children(rows, r)}

(* The runs createRun's cursor visits on its way up from a run. *)
Ancestors(rows, r) ==
  {q \in Run : \/ q = rows[r].parent
               \/ \E p \in Run : p = rows[r].parent /\ q = rows[p].parent}

(* The order in which the recursive query returns a tree: level by level,  *)
(* each level in the order of its parents.                                 *)
Before(rows, q, r) ==
  LET x == rows[q]  y == rows[r] IN
  \/ x.depth < y.depth
  \/ x.depth = y.depth /\ x.parent < y.parent
  \/ x.depth = y.depth /\ x.parent = y.parent /\ q < r

-----------------------------------------------------------------------------
(* Admission.                                                              *)

(* Mutant: the query of agentBusy misses the active runs.                  *)
AgentFree_StopsOnly(rows, stop, busy, a) == a \notin stop

(* store.agentBusy and the stoppingAgents set.                             *)
AgentFree(rows, stop, busy, a) ==
  a \notin stop /\ \A q \in busy : rows[q].agent # a

(* Mutant: the limits admit one execution too many.                        *)
WithinLimits_OneMore(rows, busy, r) ==
  /\ Cardinality(busy) <= MaxActive
  /\ rows[r].task => Cardinality({q \in busy : rows[q].task}) <= MaxTaskRuns
  /\ \/ rows[r].depth > 0
     \/ Cardinality({q \in busy : rows[q].depth = 0}) <= MaxTopLevel

(* The limits on executions of every kind, board tasks and top-level runs. *)
WithinLimits(rows, busy, r) ==
  /\ Cardinality(busy) < MaxActive
  /\ rows[r].task => Cardinality({q \in busy : rows[q].task}) < MaxTaskRuns
  /\ \/ rows[r].depth > 0
     \/ Cardinality({q \in busy : rows[q].depth = 0}) < MaxTopLevel

(* Mutant: only the capacity of the computer is tested.                    *)
ComputerFits_CapacityOnly(rows, occupants, a) == Cardinality(occupants) < Concurrency[a]

(* The occupants of the computer: its capacity and its one desktop.        *)
ComputerFits(rows, occupants, a) ==
  /\ Cardinality(occupants) < Concurrency[a]
  /\ a \in ExistingDesktop => \A q \in occupants : rows[q].agent \notin ExistingDesktop

(* pump()'s test of one candidate, with `held` already admitted by this    *)
(* call and `stop` the stoppingAgents set.                                 *)
CanStart(rows, st, stop, held, r) ==
  LET busy == Active(st) \cup held IN
  /\ st[r] = "queued"
  /\ AgentFree(rows, stop, busy, rows[r].agent)
  /\ WithinLimits(rows, busy, r)
  /\ ComputerFits(rows, busy \cap Listed(st), rows[r].agent)

(* The loop of pump() takes the oldest run that passes, again and again.   *)
(* Admitting a run only tightens the test of the others, so the set it     *)
(* ends with is the one in which each run passed behind the older ones.    *)
IsAdmission(rows, st, stop, admitted) ==
  \A r \in Run :
    r \in admitted <=> CanStart(rows, st, stop, {q \in admitted : q < r}, r)
=============================================================================
