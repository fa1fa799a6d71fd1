----------------------------- MODULE RunService -----------------------------
(***************************************************************************)
(* What the executors of runtime/service.ts promise to the parts of the    *)
(* coordinator that create runs and watch them end: the project board, the *)
(* routines and the browser.  Coordinator and RemoteRuns implement this    *)
(* specification; TaskBoard is built on it.                                *)
(***************************************************************************)
EXTENDS Naturals, FiniteSets

CONSTANTS
  Runs,      \* ids of runs
  Owners,    \* agents
  NoOwner,   \* the agent of a run that does not exist yet
  Slots,     \* executions at the same time, over all agents
  Revises    \* whether a recorded end may be revised, see MayMove

ASSUME ServiceAssumption ==
  /\ NoOwner \notin Owners /\ Slots \in Nat \ {0} /\ Revises \in BOOLEAN

VARIABLES
  state,     \* runs.state: "waiting" for an approval or for input, and
             \* "failed" also for what was interrupted
  owner      \* runs.agent_id

service == <<state, owner>>

Live     == {"running", "waiting"}
Ended    == {"completed", "failed", "cancelled"}
Pending  == {"queued"} \cup Live
RunStates == {"absent"} \cup Pending \cup Ended

ServiceInit ==
  /\ state = [r \in Runs |-> "absent"]
  /\ owner = [r \in Runs |-> NoOwner]

(* How the state of one run may change.  A queued run begins, is cancelled *)
(* by a stop or failed by a restart; one that has begun never goes back    *)
(* to the queue; an end is final, unless it is one of the ends the         *)
(* coordinator writes without being sure of it: a stop that was not        *)
(* confirmed, a lost computer, or an event that arrives too late.          *)
MayMove(s, t) ==
  \/ s = t
  \/ s = "absent" /\ t \in {"queued", "running"}
  \/ s = "queued" /\ t \in {"running", "cancelled", "failed"}
  \/ s \in Live   /\ t \in Live \cup Ended
  \/ s \in Ended  /\ t \in Live \cup Ended /\ Revises

(* The run r does not share its agent or exceed the slots in the table st. *)
Fits(st, own, r) ==
  LET busy == {q \in Runs : st[q] \in Live} IN
  /\ \A q \in busy : own[q] = own[r] => q = r
  /\ Cardinality(busy) <= Slots

(* One step of the coordinator may end a run, or several of a tree, and    *)
(* start others in the room that makes.                                    *)
ServiceNext ==
  /\ \A r \in Runs :
       /\ MayMove(state[r], state'[r])
       /\ owner'[r] = IF state[r] = "absent" THEN owner'[r] ELSE owner[r]
       /\ state[r] = "absent" /\ state'[r] # "absent" => owner'[r] \in Owners
       /\ state[r] \in {"absent", "queued"} /\ state'[r] = "running"
            => Fits(state', owner', r)

ServiceSpec == ServiceInit /\ [][ServiceNext]_service
=============================================================================
