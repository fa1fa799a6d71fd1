------------------------------ MODULE RemoteRuns ------------------------------
(***************************************************************************)
(* Runs of agents whose profile is assigned to a paired computer: the      *)
(* coordinator's executeRemote() and the runner routes of                  *)
(* runtime/service.ts, the command queue of runtime/machines.ts and the    *)
(* loop, the spool and the commands of runtime/runner.ts.                  *)
(*                                                                         *)
(* One computer is modelled, with its one runner; its agents run in        *)
(* containers.  A request of the runner is one step, for the coordinator   *)
(* handles it without an await and the runner waits for the answer; the    *)
(* answer may be lost.                                                     *)
(***************************************************************************)
EXTENDS RunTable

CONSTANTS
  Owner,        \* the agent of each run
  Attended,     \* bound: the runs that ask, are answered and are stopped
  MaxFaults     \* bound on coordinator restarts, runner crashes and outages
                \* together, for each number of runs that exist

ASSUME OwnerAssumption == Owner \in [Run -> Agents]
ASSUME AttendedAssumption == Attended \subseteq Run
ASSUME FaultsAssumption == MaxFaults \in [0 .. MaxRuns -> Nat]

VARIABLES
  (* SQLite *)
  state,           \* runs.state
  command,         \* runner_commands.state
  receipts,        \* runner_event_receipts: runs whose question was received
  resolved,        \* approvals that have been answered
  online,          \* machines.last_seen_at is less than 45 seconds ago
  (* the memory of the coordinator *)
  phase,           \* where the run's execute() coroutine stands
  remoteStopping,  \* the set of that name
  (* the runner *)
  mode,            \* it delivers an old spool, or serves commands
  work,            \* the commands in admittedCommands, and how far they are
  spool,           \* the files of the spool directory
  (* the outside world, and what happened so far *)
  reachable,       \* the runner reaches the coordinator
  faults,
  begun,           \* runs whose command the runner has started
  succeeded        \* runs whose prompt Hermes has completed

tables == <<state, command, receipts, resolved, online>>
memory == <<phase, remoteStopping>>
runner == <<mode, work, spool>>
world  == <<reachable, faults>>
past   == <<begun, succeeded>>
vars   == <<tables, memory, runner, world, past>>

(* The commands about a run.  At most one stop and one answer per run are  *)
(* ever sent, which bounds the table.                                      *)
Controls == {"stop", "approval"}
Command  == Run \X ({"run"} \cup Controls)
RunOf(c)  == c[1]
KindOf(c) == c[2]
Executes(r) == <<r, "run">>

CommandState == {"absent", "queued", "leased", "completed", "failed"}
Finished     == {"completed", "failed"}

(* A file of the spool: a question of Hermes, or the outcome of a command. *)
Record == [of : Command, what : {"question", "result", "error"}]

Phases == {"idle", "sealing", "watching", "done"}

(* remoteActive. *)
Watched == {r \in Run : phase[r] = "watching"}

(* Commands the runner has accepted; runs in its active map.               *)
Admitted == {c \in Command : work[c] # "none"}
Alive    == {r \in Run : work[Executes(r)] \in {"starting", "active"}}

TypeOK ==
  /\ state \in [Run -> RunState]
  /\ command \in [Command -> CommandState]
  /\ receipts \subseteq Run /\ resolved \subseteq Run
  /\ online \in BOOLEAN
  /\ phase \in [Run -> Phases]
  /\ remoteStopping \subseteq Run
  /\ mode \in {"flushing", "serving"}
  /\ work \in [Command -> {"none", "starting", "active", "reporting"}]
  /\ spool \subseteq Record
  /\ reachable \in BOOLEAN
  /\ faults \in Nat
  /\ begun \subseteq Run /\ succeeded \subseteq Run

Init ==
  /\ state = [r \in Run |-> "absent"]
  /\ command = [c \in Command |-> "absent"]
  /\ receipts = {} /\ resolved = {}
  /\ online = TRUE
  /\ phase = [r \in Run |-> "idle"]
  /\ remoteStopping = {}
  /\ mode = "serving"
  /\ work = [c \in Command |-> "none"]
  /\ spool = {}
  /\ reachable = TRUE
  /\ faults = 0
  /\ begun = {} /\ succeeded = {}

-----------------------------------------------------------------------------
(* The coordinator: admission and the coroutine of a run.                  *)

Rows == [r \in Run |-> [agent |-> Owner[r], parent |-> None, depth |-> 0, task |-> FALSE]]

(* pump() on the given tables.  An admitted run is set running, and        *)
(* executeRemote() goes as far as sealing the secrets it dispatches.       *)
Pump(st, ph, on) ==
  \E admitted \in SUBSET Queued(st) :
    /\ IF on THEN IsAdmission(Rows, st, {}, admitted) ELSE admitted = {}
    /\ state' = [r \in Run |-> IF r \in admitted THEN "running" ELSE st[r]]
    /\ phase' = [r \in Run |-> IF r \in admitted THEN "sealing" ELSE ph[r]]

Submit(r) ==
  /\ IsNext(state, r) /\ Cardinality(Queued(state)) < MaxQueue
  /\ faults <= MaxFaults[r]
  /\ Pump([state EXCEPT ![r] = "queued"], phase, online)
  /\ UNCHANGED <<command, receipts, resolved, online, remoteStopping, runner, world, past>>

(* The command is queued, whatever happened to the run meanwhile.          *)
Dispatch(r) ==
  /\ phase[r] = "sealing"
  /\ phase' = [phase EXCEPT ![r] = "watching"]
  /\ command' = [command EXCEPT ![Executes(r)] = "queued"]
  /\ UNCHANGED <<state, receipts, resolved, online, remoteStopping, runner, world, past>>

(* The catch clause of execute(): a run that was stopped ends cancelled.   *)
FailedState(r) ==
  IF state[r] = "cancelled" \/ r \in remoteStopping THEN "cancelled" ELSE "failed"

EndsBadly(r) ==
  /\ remoteStopping' = remoteStopping \ {r}
  /\ Pump([state EXCEPT ![r] = FailedState(r)], [phase EXCEPT ![r] = "done"], online)
  /\ UNCHANGED <<command, receipts, resolved, online, runner, world, past>>

(* The computer has published no encryption key.                           *)
SealFails(r) == phase[r] = "sealing" /\ EndsBadly(r)

(* One round of the loop of executeRemote(), every quarter of a second.    *)
SeesCancelled(r) ==
  phase[r] = "watching" /\ state[r] = "cancelled" /\ EndsBadly(r)

(* The computer has been offline longer than the grace period.             *)
GivesUp(r) ==
  phase[r] = "watching" /\ state[r] # "cancelled" /\ ~ online /\ EndsBadly(r)

SeesFailed(r) ==
  /\ phase[r] = "watching" /\ state[r] # "cancelled"
  /\ command[Executes(r)] = "failed"
  /\ EndsBadly(r)

(* Mutant: every finished command counts as a result.                      *)
Confirmed_AnyEnd(r) == command[Executes(r)] \in Finished

Confirmed(r) == command[Executes(r)] = "completed"

SeesCompleted(r) ==
  /\ phase[r] = "watching" /\ state[r] # "cancelled" /\ Confirmed(r)
  /\ Pump([state EXCEPT ![r] = "completed"], [phase EXCEPT ![r] = "done"], online)
  /\ UNCHANGED <<command, receipts, resolved, online, remoteStopping, runner, world, past>>

-----------------------------------------------------------------------------
(* The coordinator: requests of the operator.                              *)

(* stopRunTree: the runner is asked to stop a dispatched run, any other is *)
(* cancelled at once.                                                      *)
Stop(r) ==
  /\ r \in Attended
  /\ state[r] \notin TerminalStates \cup {"absent"}
  /\ \/ /\ r \in Watched /\ command[<<r, "stop">>] = "absent"
        /\ command' = [command EXCEPT ![<<r, "stop">>] = "queued"]
        /\ remoteStopping' = remoteStopping \cup {r}
        /\ Pump(state, phase, online)
     \/ /\ r \notin Watched
        /\ Pump([state EXCEPT ![r] = "cancelled"], phase, online)
        /\ UNCHANGED <<command, remoteStopping>>
  /\ UNCHANGED <<receipts, resolved, online, runner, world, past>>

(* POST /v1/runs/:id/approval for a dispatched run.                        *)
Answer(r) ==
  /\ r \in receipts \cap Watched /\ command[<<r, "approval">>] = "absent"
  /\ command' = [command EXCEPT ![<<r, "approval">>] = "queued"]
  /\ resolved' = resolved \cup {r}
  /\ state' = [state EXCEPT ![r] = "running"]
  /\ UNCHANGED <<receipts, online, memory, runner, world, past>>

-----------------------------------------------------------------------------
(* The runner's requests.                                                  *)

(* Mutant: the loop does not wait for the flush of the old spool.          *)
Serving_Unflushed == reachable

Serving == mode = "serving" /\ reachable

(* Mutants: an uncertain command goes back into the queue; it keeps its    *)
(* lease; it is given the state of its run.                                *)
Reconciled_Kept(c) == command[c]
Reconciled_RunState(c) == IF c \in Admitted THEN command[c] ELSE "interrupted"
Reconciled_Requeued(c) == IF c \in Admitted THEN command[c] ELSE "queued"

(* reconcileLeases: a lease the runner does not know fails.                *)
Reconciled(c) == IF c \in Admitted THEN command[c] ELSE "failed"

(* A heartbeat, with the leases that are older than 45 seconds.  The run   *)
(* of a lease that fails, whatever its kind, is recorded interrupted.      *)
Heartbeat(old) ==
  LET lost == {RunOf(c) : c \in old \ Admitted}
      st == [r \in Run |-> IF r \in lost /\ state[r] \notin TerminalStates
                           THEN "interrupted" ELSE state[r]]
  IN /\ Serving
     /\ online' = TRUE
     /\ command' = [c \in Command |-> IF c \in old THEN Reconciled(c) ELSE command[c]]
     /\ Pump(st, phase, TRUE)
     /\ UNCHANGED <<receipts, resolved, remoteStopping, runner, world, past>>

Leases == {c \in Command : command[c] = "leased"}

(* A poll leases what is queued.  The runner starts what the answer holds, *)
(* unless the answer is lost.                                              *)
Poll(answered) ==
  LET batch   == {c \in Command : command[c] = "queued"}
      started == IF answered THEN batch \ Admitted ELSE {}
  IN /\ Serving /\ batch # {}
     /\ command' = [c \in Command |-> IF c \in batch THEN "leased" ELSE command[c]]
     /\ work' = [c \in Command |-> IF c \in started THEN "starting" ELSE work[c]]
     /\ begun' = begun \cup {r \in Run : Executes(r) \in started}
     /\ UNCHANGED <<state, receipts, resolved, online, memory, mode, spool, world, succeeded>>

(* Mutant: the receipt of an event is not looked at.                       *)
IsNew_Always(r) == TRUE

IsNew(r) == r \notin receipts

(* receiveEvent and mapHermesEvent. *)
TakeQuestion(r) ==
  /\ receipts' = receipts \cup {r}
  /\ state' = IF IsNew(r) THEN [state EXCEPT ![r] = "waiting_approval"] ELSE state
  /\ UNCHANGED <<command, phase>>

Open(c) == command[c] \notin Finished

(* The complete route. *)
TakeOutcome(c, end) ==
  /\ command' = IF Open(c) THEN [command EXCEPT ![c] = end] ELSE command
  /\ Pump(state, phase, online)
  /\ UNCHANGED receipts

(* deliver(): the file is removed and the command forgotten when the       *)
(* coordinator has answered.                                               *)
Deliver(f, answered) ==
  /\ f \in spool /\ reachable
  /\ CASE f.what = "question" -> TakeQuestion(RunOf(f.of))
       [] f.what = "result"   -> TakeOutcome(f.of, "completed")
       [] f.what = "error"    -> TakeOutcome(f.of, "failed")
  /\ spool' = IF answered THEN spool \ {f} ELSE spool
  /\ work' = IF answered /\ f.what # "question" THEN [work EXCEPT ![f.of] = "none"] ELSE work
  /\ UNCHANGED <<resolved, online, remoteStopping, mode, world, past>>

-----------------------------------------------------------------------------
(* The runner's commands.                                                  *)

Spooled(c, what) == [of |-> c, what |-> what]

(* The gateway is up and has a session. *)
SessionStarts(r) ==
  /\ work[Executes(r)] = "starting"
  /\ work' = [work EXCEPT ![Executes(r)] = "active"]
  /\ UNCHANGED <<tables, memory, mode, spool, world, past>>

(* Hermes asks for an approval.  One question per run is modelled.         *)
Asks(r) ==
  /\ r \in Attended
  /\ work[Executes(r)] = "active" /\ r \notin receipts
  /\ spool' = spool \cup {Spooled(Executes(r), "question")}
  /\ UNCHANGED <<tables, memory, mode, work, world, past>>

RunSucceeds(r) ==
  /\ work[Executes(r)] = "active"
  /\ work' = [work EXCEPT ![Executes(r)] = "reporting"]
  /\ spool' = spool \cup {Spooled(Executes(r), "result")}
  /\ succeeded' = succeeded \cup {r}
  /\ UNCHANGED <<tables, memory, mode, world, begun>>

RunFails(r) ==
  /\ r \in Alive
  /\ work' = [work EXCEPT ![Executes(r)] = "reporting"]
  /\ spool' = spool \cup {Spooled(Executes(r), "error")}
  /\ UNCHANGED <<tables, memory, mode, world, past>>

(* control() looks for the run in the active map and reports if it is not  *)
(* there.                                                                  *)
ControlBegins(c) ==
  /\ KindOf(c) \in Controls /\ work[c] = "starting"
  /\ IF work[Executes(RunOf(c))] = "active"
     THEN /\ work' = [work EXCEPT ![c] = "active"]
          /\ spool' = spool
     ELSE /\ work' = [work EXCEPT ![c] = "reporting"]
          /\ spool' = spool \cup {Spooled(c, "error")}
  /\ UNCHANGED <<tables, memory, mode, world, past>>

(* The gateway has answered.  Stopping it stops the agent's container with *)
(* everything that runs there; a run that is starting may come after that. *)
ControlSucceeds(c) ==
  /\ KindOf(c) \in Controls /\ work[c] = "active"
  /\ \E killed \in SUBSET {Executes(r) : r \in Alive} :
       /\ IF KindOf(c) = "stop"
          THEN \A r \in Alive : /\ Executes(r) \in killed => Owner[r] = Owner[RunOf(c)]
                                /\ Owner[r] = Owner[RunOf(c)] /\ work[Executes(r)] = "active"
                                     => Executes(r) \in killed
          ELSE killed = {}
       /\ work' = [d \in Command |-> IF d \in killed \cup {c} THEN "reporting" ELSE work[d]]
       /\ spool' = spool \cup {Spooled(c, "result")} \cup {Spooled(d, "error") : d \in killed}
  /\ UNCHANGED <<tables, memory, mode, world, past>>

ControlFails(c) ==
  /\ KindOf(c) \in Controls /\ work[c] = "active"
  /\ work' = [work EXCEPT ![c] = "reporting"]
  /\ spool' = spool \cup {Spooled(c, "error")}
  /\ UNCHANGED <<tables, memory, mode, world, past>>

(* After a restart the runner delivers its spool before anything else.     *)
Flushed ==
  /\ mode = "flushing" /\ spool = {}
  /\ mode' = "serving"
  /\ UNCHANGED <<tables, memory, work, spool, world, past>>

-----------------------------------------------------------------------------
(* Faults.                                                                 *)

Fault == faults < MaxFaults[Cardinality(Existing(state))] /\ faults' = faults + 1

(* Store and the coordinator's memory after a restart: runs in progress    *)
(* are interrupted, commands and receipts stay.                            *)
CoordinatorRestarts ==
  /\ Fault
  /\ state' = [r \in Run |-> IF state[r] \in ActiveStates THEN "interrupted" ELSE state[r]]
  /\ phase' = [r \in Run |-> "idle"]
  /\ remoteStopping' = {}
  /\ UNCHANGED <<command, receipts, resolved, online, runner, reachable, past>>

RunnerRestarts ==
  /\ Fault
  /\ mode' = "flushing"
  /\ work' = [c \in Command |-> "none"]
  /\ UNCHANGED <<tables, memory, spool, reachable, past>>

Disconnects ==
  /\ Fault /\ reachable
  /\ reachable' = FALSE
  /\ UNCHANGED <<tables, memory, runner, past>>

Reconnects ==
  /\ ~ reachable
  /\ reachable' = TRUE
  /\ UNCHANGED <<tables, memory, runner, faults, past>>

(* 45 seconds without a heartbeat. *)
GoesOffline ==
  /\ online /\ ~ Serving
  /\ online' = FALSE
  /\ UNCHANGED <<state, command, receipts, resolved, memory, runner, world, past>>

-----------------------------------------------------------------------------
Watches(r) ==
  \/ Dispatch(r) \/ SealFails(r) \/ SeesCancelled(r) \/ GivesUp(r)
  \/ SeesFailed(r) \/ SeesCompleted(r)

Works(c) ==
  \/ \E r \in Run : c = Executes(r) /\ (RunSucceeds(r) \/ RunFails(r))
  \/ ControlBegins(c) \/ ControlSucceeds(c) \/ ControlFails(c)

Next ==
  \/ \E r \in Run : \/ Submit(r) \/ Watches(r) \/ Stop(r) \/ Answer(r)
                    \/ SessionStarts(r) \/ Asks(r)
  \/ \E c \in Command : Works(c)
  \/ \E old \in SUBSET Leases : Heartbeat(old)
  \/ \E answered \in BOOLEAN : Poll(answered) \/ \E f \in spool : Deliver(f, answered)
  \/ Flushed \/ GoesOffline
  \/ CoordinatorRestarts \/ RunnerRestarts \/ Disconnects \/ Reconnects

Spec == Init /\ [][Next]_vars

(* The loop of executeRemote() and the loop of the runner go round; a run  *)
(* on the runner ends within a day; a request that can be answered is      *)
(* answered in the end; a silent runner is noticed.                        *)
FairSpec ==
  /\ Spec
  /\ \A r \in Run : WF_vars(Watches(r))
  /\ \A c \in Command : WF_vars(Works(c))
  /\ WF_vars(\E answered \in BOOLEAN : Poll(answered))
  /\ WF_vars(Heartbeat(Leases) /\ (~ online \/ Leases \ Admitted # {}))
  /\ \A f \in Record : WF_vars(Deliver(f, TRUE))
  /\ WF_vars(Flushed) /\ WF_vars(GoesOffline)

-----------------------------------------------------------------------------
(* Properties.                                                             *)

(* README "never silently replays uncertain actions": whatever is lost,    *)
(* repeated or restarted, the runner starts a run's command only once.     *)
AtMostOnce ==
  [][\A r \in Run : work[Executes(r)] = "none" /\ work'[Executes(r)] # "none"
                      => r \notin begun]_vars

(* README "buffers results until the coordinator returns": however long    *)
(* the runner was away or dead, no command whose result it still holds is  *)
(* given up as uncertain.                                                  *)
OutcomeHeard == \A f \in spool : f.what = "result" => command[f.of] # "failed"

(* The coordinator reports success only when Hermes completed the prompt.  *)
CompletedIsConfirmed == \A r \in Run : state[r] = "completed" => r \in succeeded

(* A question the operator has answered is not put to him again when the   *)
(* runner repeats the event.                                               *)
AskedOnce == \A r \in resolved : state[r] # "waiting_approval"

(* The coroutine of a dispatched run ends.  The agent is released then;    *)
(* a question that the runner still holds may make it busy once more.      *)
EveryWatchEnds ==
  \A r \in Run : phase[r] \in {"sealing", "watching"} ~> phase[r] \in {"idle", "done"}

-----------------------------------------------------------------------------
(* The abstract specification.                                             *)

Service ==
  INSTANCE RunService
    WITH Runs <- Run, Owners <- Agents, NoOwner <- NoAgent, Slots <- MaxActive,
         Revises <- TRUE,
         state <- [r \in Run |-> ServiceState(state[r])],
         owner <- [r \in Run |-> IF state[r] = "absent" THEN NoAgent ELSE Owner[r]]

(* On a paired computer the callers are promised the same as locally,      *)
(* except that an end may be revised when the computer is heard again: a   *)
(* run keeps its agent, never goes back to the queue, and begins at most   *)
(* once, at a moment when its agent is free and the limit is not reached,  *)
(* whatever heartbeats, outcomes and stops ended the runs before it.       *)
ImplementsRunService == Service!ServiceSpec
=============================================================================
