----------------------------- MODULE Coordinator -----------------------------
(***************************************************************************)
(* The run coordinator of runtime/service.ts for agents whose profile is   *)
(* assigned to the local computer: the run queue and its admission, the    *)
(* coroutine that executes a run, the map of Hermes gateways, stop         *)
(* requests, approvals, named handoffs and coordinator restarts.           *)
(*                                                                         *)
(* The process is single-threaded: a handler runs without interruption     *)
(* from one await to the next, so an action is the code between two        *)
(* awaits, and every action that calls pump() includes its whole effect.   *)
(***************************************************************************)
EXTENDS RunTable

CONSTANTS
  Stoppers,      \* HTTP requests that may be stopping runs at the same time
  Teammates,     \* teams.sharesActiveTeam, as a function to sets of agents
  Direct,        \* agents whose profile runs Hermes as a host process
  MaxRestarts,   \* bound on coordinator restarts
  TaskKinds,     \* whether the runs created are board tasks, chats, or both
  Requests,      \* the waiting states Hermes asks for
  Hazards        \* what else the outside world may do, see below

(* "lateRequest": Hermes raises an approval or input request while the     *)
(*     coordinator has already recorded the run as stopped.                *)
(* "lateReply":   Hermes confirms an approval answer after the run was     *)
(*     stopped or has finished.                                            *)
(* "stopFails":   docker stop reports an error.                            *)
(* "crash":       a Hermes process exits without having been stopped.      *)
ASSUME HazardsAssumption ==
  Hazards \subseteq {"lateRequest", "lateReply", "stopFails", "crash"}
ASSUME InputsAssumption ==
  /\ TaskKinds \subseteq BOOLEAN
  /\ Requests \subseteq {"waiting_approval", "waiting_input"}
ASSUME AgentSetsAssumption ==
  /\ Teammates \in [Agents -> SUBSET Agents]
  /\ Direct \subseteq Agents
ASSUME RestartsAssumption == MaxRestarts \in Nat

VARIABLES
  (* SQLite *)
  state,       \* runs.state
  row,         \* the columns createRun fixes
  snapshots,   \* run_profiles: runs whose execution has begun
  approvals,   \* approvals: runs with an approval row
  (* the memory of the coordinator *)
  phase,       \* the await at which a run's execute() coroutine stands
  using,       \* the gateway that coroutine holds, named by its creator
  gateways,    \* the gateways map
  stopping,    \* the stoppingAgents set
  stops,       \* the stop requests being served
  awaiting,    \* the child a run's handoff call waits for
  answering,   \* the gateway a run's approval answer is on its way to
  (* the outside world *)
  live,        \* gateways whose Hermes process runs, not sent SIGTERM by stop()
  restarts     \* restarts so far

database == <<state, row, snapshots, approvals>>
memory   == <<phase, using, gateways, stopping, stops, awaiting, answering>>
vars     == <<database, memory, live, restarts>>

Phases == {"idle", "prior", "socket", "start", "session", "prompt", "done"}

(* One request of the stop routes: `roots` are the runs it has still to    *)
(* pass to stopRunTree, `todo` what is left of that function's ids, `cur`  *)
(* and `gw` the run and the gateway it awaits.                             *)
StopRequest == [pc    : {"idle", "tree", "interrupt", "container"},
                roots : SUBSET Run, todo : SUBSET Run,
                cur   : Run \cup {None}, gw : Run \cup {None}]
NoStop == [pc |-> "idle", roots |-> {}, todo |-> {}, cur |-> None, gw |-> None]

AgentOf(r) == row[r].agent

TypeOK ==
  /\ state \in [Run -> RunState]
  /\ row \in [Run -> Row]
  /\ snapshots \subseteq Run
  /\ approvals \subseteq Run
  /\ phase \in [Run -> Phases]
  /\ using \in [Run -> Run \cup {None}]
  /\ gateways \in [Agents -> Run \cup {None}]
  /\ stopping \subseteq Agents
  /\ stops \in [Stoppers -> StopRequest]
  /\ awaiting \in [Run -> Run \cup {None}]
  /\ answering \in [Run -> Run \cup {None}]
  /\ live \subseteq Run
  /\ restarts \in 0 .. MaxRestarts

Init ==
  /\ state = [r \in Run |-> "absent"]
  /\ row = [r \in Run |-> NoRow]
  /\ snapshots = {}
  /\ approvals = {}
  /\ phase = [r \in Run |-> "idle"]
  /\ using = [r \in Run |-> None]
  /\ gateways = [a \in Agents |-> None]
  /\ stopping = {}
  /\ stops = [s \in Stoppers |-> NoStop]
  /\ awaiting = [r \in Run |-> None]
  /\ answering = [r \in Run |-> None]
  /\ live = {}
  /\ restarts = 0

-----------------------------------------------------------------------------
(* Admission and the end of a coroutine.                                   *)

(* pump() on the given tables.  An admitted run is set running, its        *)
(* profile is snapshotted, and execute() runs to its first await: the stop *)
(* of the gateway an earlier run left in the map, or the agent's socket.   *)
Pump(rows, st, ph, us, gws, stop) ==
  \E admitted \in SUBSET Queued(st) :
    /\ IsAdmission(rows, st, stop, admitted)
    /\ state' = [r \in Run |-> IF r \in admitted THEN "running" ELSE st[r]]
    /\ snapshots' = snapshots \cup admitted
    /\ using' = [r \in Run |->
                   IF r \in admitted THEN gws[rows[r].agent] ELSE us[r]]
    /\ phase' = [r \in Run |->
                   IF r \notin admitted THEN ph[r]
                   ELSE IF gws[rows[r].agent] = None THEN "socket" ELSE "prior"]

(* Mutant: the end of a run does not call pump().                          *)
Finish_NoPump(r, final, gws) ==
  /\ awaiting' = [awaiting EXCEPT ![r] = None]
  /\ gateways' = gws
  /\ state' = [state EXCEPT ![r] = final]
  /\ phase' = [phase EXCEPT ![r] = "done"]
  /\ using' = [using EXCEPT ![r] = None]
  /\ UNCHANGED snapshots

(* The coroutine of r ends with the run in state `final`, and its finally  *)
(* clause pumps.                                                           *)
Finish(r, final, gws) ==
  /\ awaiting' = [awaiting EXCEPT ![r] = None]
  /\ gateways' = gws
  /\ Pump(row, [state EXCEPT ![r] = final], [phase EXCEPT ![r] = "done"],
          [using EXCEPT ![r] = None], gws, stopping)

(* Mutant: the outcome of the coroutine overwrites a cancellation.         *)
EndState_Overwrites(r, outcome) == outcome

(* A coroutine that finds its run cancelled leaves it so, whether it ends  *)
(* by returning or in its catch clause.                                    *)
EndState(r, outcome) == IF state[r] = "cancelled" THEN "cancelled" ELSE outcome

-----------------------------------------------------------------------------
(* Requests that create runs.                                              *)

(* Mutant: the depth of the parent is counted twice.                       *)
NewRow_DepthTwice(a, parent, task) ==
  [agent |-> a, parent |-> parent, task |-> task,
   depth |-> IF parent = None THEN 0 ELSE 2 * row[parent].depth + 1]

NewRow(a, parent, task) ==
  [agent |-> a, parent |-> parent, task |-> task,
   depth |-> IF parent = None THEN 0 ELSE row[parent].depth + 1]

Insert(r, a, parent, task) ==
  LET rows == [row EXCEPT ![r] = NewRow(a, parent, task)] IN
  /\ IsNext(state, r)
  /\ Cardinality(Queued(state)) < MaxQueue
  /\ row' = rows
  /\ Pump(rows, [state EXCEPT ![r] = "queued"], phase, using, gateways, stopping)

(* POST /v1/runs, a due routine, or the start of a board task.             *)
CreateRun(r, a, task) ==
  /\ Insert(r, a, None, task)
  /\ UNCHANGED <<approvals, gateways, stopping, stops, awaiting, answering, live, restarts>>

(* Mutant: the walk up the ancestors stops at the parent.                  *)
MayDelegate_ParentOnly(parent, a) == row[parent].depth < 2 /\ a # AgentOf(parent)

(* The depth and cycle tests of createRun.                                 *)
MayDelegate(parent, a) ==
  /\ row[parent].depth < 2
  /\ a # AgentOf(parent)
  /\ \A q \in Ancestors(row, parent) : AgentOf(q) # a

(* POST /internal/handoff from the Hermes of run r.  The parent is the     *)
(* newest active run of the calling agent.                                 *)
Handoff(r, parent, child, a) ==
  /\ phase[r] = "prompt" /\ using[r] \in live /\ awaiting[r] = None
  /\ state[r] \in ActiveStates
  /\ parent \in Active(state) \cap Listed(state) /\ AgentOf(parent) = AgentOf(r)
  /\ \A q \in Active(state) : AgentOf(q) = AgentOf(r) => q <= parent
  /\ a \in Teammates[AgentOf(r)]
  /\ MayDelegate(parent, a)
  /\ Insert(child, a, parent, FALSE)
  /\ awaiting' = [awaiting EXCEPT ![r] = child]
  /\ UNCHANGED <<approvals, gateways, stopping, stops, answering, live, restarts>>

(* waitForRun finds the child ended, and the tool call of the delegating   *)
(* agent returns.                                                          *)
HandoffReturns(r) ==
  /\ awaiting[r] # None /\ state[awaiting[r]] \in TerminalStates
  /\ awaiting' = [awaiting EXCEPT ![r] = None]
  /\ UNCHANGED <<database, phase, using, gateways, stopping, stops, answering, live, restarts>>

(* waitForRun gives up after thirty minutes; the child lives on.           *)
HandoffTimesOut(r) ==
  /\ awaiting[r] # None /\ state[awaiting[r]] \notin TerminalStates
  /\ awaiting' = [awaiting EXCEPT ![r] = None]
  /\ UNCHANGED <<database, phase, using, gateways, stopping, stops, answering, live, restarts>>

-----------------------------------------------------------------------------
(* The coroutine execute(r), await by await.                               *)

OutsideExecute == <<row, approvals, stopping, stops, answering, restarts>>

(* gateway.stop() has returned: docker stop saw the container end, while a *)
(* host process has been signalled and is not waited for.                  *)
HasStopped(g) == AgentOf(g) \in Direct \/ g \notin live

PriorStopped(r) ==
  /\ phase[r] = "prior" /\ HasStopped(using[r])
  /\ phase' = [phase EXCEPT ![r] = "socket"]
  /\ gateways' = [gateways EXCEPT ![AgentOf(r)] = None]
  /\ live' = live \ {using[r]}
  /\ UNCHANGED <<state, snapshots, using, awaiting, OutsideExecute>>

(* Only docker stop can fail. *)
PriorStopFails(r) ==
  /\ phase[r] = "prior" /\ "stopFails" \in Hazards /\ AgentOf(r) \notin Direct
  /\ Finish(r, EndState(r, "failed"), gateways)
  /\ UNCHANGED <<live, OutsideExecute>>

(* The socket is ready.  A cancelled run ends here.  Otherwise the run     *)
(* takes the gateway it finds in the map, or registers and starts one.     *)
SocketReady(r) ==
  /\ phase[r] = "socket"
  /\ \/ /\ state[r] = "cancelled"
        /\ Finish(r, "cancelled", gateways)
        /\ live' = live
     \/ /\ state[r] # "cancelled"
        /\ LET found == gateways[AgentOf(r)] IN
             \/ /\ found # None
                /\ using' = [using EXCEPT ![r] = found]
                /\ phase' = [phase EXCEPT ![r] = "session"]
                /\ UNCHANGED <<gateways, live>>
             \/ /\ found = None
                /\ using' = [using EXCEPT ![r] = r]
                /\ gateways' = [gateways EXCEPT ![AgentOf(r)] = r]
                /\ live' = live \cup {r}
                /\ phase' = [phase EXCEPT ![r] = "start"]
        /\ UNCHANGED <<state, snapshots, awaiting>>
  /\ UNCHANGED OutsideExecute

(* The profile directory or the container could not be prepared.           *)
PrepareFails(r) ==
  /\ phase[r] = "socket" /\ state[r] # "cancelled"
  /\ Finish(r, "failed", gateways)
  /\ UNCHANGED <<live, OutsideExecute>>

(* gateway.start(): the process reports ready, perhaps with a stop or its  *)
(* end already on the way, or exits, or stays silent for thirty seconds.   *)
GatewayReady(r) ==
  /\ phase[r] = "start"
  /\ phase' = [phase EXCEPT ![r] = "session"]
  /\ UNCHANGED <<state, snapshots, using, gateways, awaiting, live, OutsideExecute>>

GatewayStartFails(r) ==
  /\ phase[r] = "start"
  /\ Finish(r, EndState(r, "failed"), [gateways EXCEPT ![AgentOf(r)] = None])
  /\ UNCHANGED <<live, OutsideExecute>>

(* Mutant: the run is not read again after session.create.                 *)
SessionCreated_Unread(r) ==
  /\ phase[r] = "session" /\ using[r] \in live
  /\ phase' = [phase EXCEPT ![r] = "prompt"]
  /\ UNCHANGED <<state, snapshots, using, gateways, awaiting, live, OutsideExecute>>

(* session.create answers.  A cancelled run ends; the others submit their  *)
(* prompt, and from here on the run is in the active map.                  *)
SessionCreated(r) ==
  /\ phase[r] = "session" /\ using[r] \in live
  /\ \/ /\ state[r] = "cancelled"
        /\ Finish(r, "cancelled", gateways)
     \/ /\ state[r] # "cancelled"
        /\ phase' = [phase EXCEPT ![r] = "prompt"]
        /\ UNCHANGED <<state, snapshots, using, gateways, awaiting>>
  /\ UNCHANGED <<live, OutsideExecute>>

(* An error answer, a missing session id or a timeout fails the run; the   *)
(* exit of the process interrupts it.                                      *)
SessionFails(r, outcome) ==
  /\ phase[r] = "session"
  /\ Finish(r, EndState(r, outcome), gateways)
  /\ UNCHANGED <<live, OutsideExecute>>

(* message.complete.  An agent inside a handoff call has not finished.     *)
PromptCompletes(r) ==
  /\ phase[r] = "prompt" /\ using[r] \in live /\ awaiting[r] = None
  /\ Finish(r, EndState(r, "completed"), gateways)
  /\ UNCHANGED <<live, OutsideExecute>>

(* An error or interruption event, the exit of the process, or a day       *)
(* without a completion.                                                   *)
PromptFails(r, outcome) ==
  /\ phase[r] = "prompt"
  /\ Finish(r, EndState(r, outcome), gateways)
  /\ UNCHANGED <<live, OutsideExecute>>

-----------------------------------------------------------------------------
(* Hermes: processes that exit, requests for the operator.                 *)

(* Mutant: a stop kills the docker CLI and leaves Hermes running.          *)
Fate_CliOnly(g) == {}

(* The gateways that go down with g: an agent has one container.           *)
Fate(g) == {h \in live : AgentOf(h) = AgentOf(g)}

(* docker stop takes effect. *)
GatewayExits(g) ==
  /\ g \in live /\ AgentOf(g) \notin Direct
  /\ \/ \E r \in Run : phase[r] = "prior" /\ using[r] = g
     \/ \E s \in Stoppers : stops[s].pc = "container" /\ stops[s].gw = g
  /\ live' = live \ Fate(g)
  /\ UNCHANGED <<database, memory, restarts>>

GatewayCrashes(g) ==
  /\ g \in live /\ "crash" \in Hazards
  /\ live' = live \ {g}
  /\ UNCHANGED <<database, memory, restarts>>

(* mapHermesEvent on approval.request, clarify.request and their kind: the *)
(* run is set waiting whatever its state.                                  *)
AsksOperator(r, waiting) ==
  /\ phase[r] = "prompt" /\ using[r] \in live
  /\ state[r] \in ActiveStates \/ "lateRequest" \in Hazards
  /\ state' = [state EXCEPT ![r] = waiting]
  /\ approvals' = IF waiting = "waiting_approval" THEN approvals \cup {r} ELSE approvals
  /\ UNCHANGED <<row, snapshots, memory, live, restarts>>

(* POST /v1/runs/:id/approval, up to its await on approval.respond.        *)
AnswerApproval(r) ==
  /\ r \in approvals /\ phase[r] = "prompt" /\ answering[r] = None
  /\ answering' = [answering EXCEPT ![r] = using[r]]
  /\ UNCHANGED <<database, phase, using, gateways, stopping, stops, awaiting, live, restarts>>

(* approval.respond returns: the run is set running whatever its state.    *)
AnswerConfirmed(r) ==
  /\ answering[r] \in live
  /\ state[r] \in ActiveStates \/ "lateReply" \in Hazards
  /\ answering' = [answering EXCEPT ![r] = None]
  /\ state' = [state EXCEPT ![r] = "running"]
  /\ UNCHANGED <<row, snapshots, approvals, phase, using, gateways, stopping, stops,
                 awaiting, live, restarts>>

(* The process exited, answered with an error or did not answer in time.   *)
AnswerLost(r) ==
  /\ answering[r] # None
  /\ answering' = [answering EXCEPT ![r] = None]
  /\ UNCHANGED <<database, phase, using, gateways, stopping, stops, awaiting, live, restarts>>

-----------------------------------------------------------------------------
(* Stop requests.                                                          *)

(* The routes that stop one run, every live run of an agent, or every live *)
(* top-level run.                                                          *)
StopTargets ==
  LET listed == {r \in Listed(state) : state[r] \notin TerminalStates} IN
  {{r} : r \in Existing(state)}
    \cup {{r \in listed : AgentOf(r) = a} : a \in Agents}
    \cup {{r \in listed : row[r].parent = None}}

(* The gateway stopRunTree stops for a run: the one of the active map, or  *)
(* the one its agent has in the gateways map.                              *)
GatewayToStop(r, st, gws) ==
  IF phase[r] = "prompt" THEN using[r]
  ELSE IF st[r] = "queued" THEN None ELSE gws[AgentOf(r)]

(* The loop of stopRunTree from one await to the next.  A run that has     *)
(* ended is skipped; every other one is recorded cancelled under the mark  *)
(* of its agent; a run with a gateway to stop is awaited; the mark of a    *)
(* run without one is removed at once.  When the ids are used up, pump().  *)
Walk(s, stop, st, gws, marks) ==
  LET unfinished == {q \in stop.todo : st[q] \notin TerminalStates}
      waits == {q \in unfinished : GatewayToStop(q, st, gws) # None}
      marksAfter(quick) == marks \ {AgentOf(q) : q \in quick}
      cancel(ids) == [q \in Run |-> IF q \in ids THEN "cancelled" ELSE st[q]]
  IN /\ gateways' = gws
     /\ \/ /\ waits = {}
           /\ stopping' = marksAfter(unfinished)
           /\ stops' = [stops EXCEPT ![s] =
                 IF stop.roots = {} THEN NoStop
                 ELSE [NoStop EXCEPT !.pc = "tree", !.roots = stop.roots]]
           /\ Pump(row, cancel(unfinished), phase, using, gws, marksAfter(unfinished))
        \/ \E next \in waits :
             LET earlier == {q \in unfinished : Before(row, q, next)} IN
             /\ earlier \cap waits = {}
             /\ stopping' = marksAfter(earlier) \cup {AgentOf(next)}
             /\ stops' = [stops EXCEPT ![s] =
                   [pc    |-> IF phase[next] = "prompt" THEN "interrupt" ELSE "container",
                    roots |-> stop.roots,
                    todo  |-> {q \in stop.todo : Before(row, next, q)},
                    cur   |-> next,
                    gw    |-> GatewayToStop(next, st, gws)]]
             /\ state' = cancel(earlier \cup {next})
             /\ UNCHANGED <<phase, using, snapshots>>

OutsideStop == <<row, approvals, awaiting, answering, restarts>>

(* stopRunTree on the newest of the runs still to stop.                    *)
StopNewest(s, roots) ==
  \E root \in roots :
    /\ \A q \in roots : q <= root
    /\ Walk(s, [NoStop EXCEPT !.roots = roots \ {root},
                              !.todo  = {root} \cup Descendants(row, root)],
            state, gateways, stopping)
    /\ UNCHANGED <<live, OutsideStop>>

RequestStop(s, roots) == stops[s].pc = "idle" /\ StopNewest(s, roots)

NextTree(s) == stops[s].pc = "tree" /\ StopNewest(s, stops[s].roots)

(* session.interrupt returned, failed or ran into its five seconds.        *)
InterruptReturns(s) ==
  /\ stops[s].pc = "interrupt"
  /\ stops' = [stops EXCEPT ![s].pc = "container"]
  /\ UNCHANGED <<database, phase, using, gateways, stopping, awaiting, answering, live, restarts>>

(* gateway.stop() returned: the agent is taken out of the gateways map and *)
(* unmarked, and the loop goes on.                                         *)
ContainerStopped(s) ==
  LET a == AgentOf(stops[s].cur) IN
  /\ stops[s].pc = "container" /\ HasStopped(stops[s].gw)
  /\ live' = live \ {stops[s].gw}
  /\ Walk(s, stops[s], state, [gateways EXCEPT ![a] = None], stopping \ {a})
  /\ UNCHANGED OutsideStop

(* gateway.stop() threw: the run is recorded interrupted instead, and the  *)
(* agent is unmarked all the same.                                         *)
ContainerStopFails(s) ==
  LET cur == stops[s].cur IN
  /\ stops[s].pc = "container" /\ "stopFails" \in Hazards /\ AgentOf(cur) \notin Direct
  /\ Walk(s, stops[s], [state EXCEPT ![cur] = "interrupted"], gateways, stopping \ {AgentOf(cur)})
  /\ UNCHANGED <<live, OutsideStop>>

-----------------------------------------------------------------------------
(* Mutant: recovery puts what was active back into the queue.              *)
AfterRestart_Requeued(r) ==
  IF state[r] \in ActiveStates THEN "queued" ELSE state[r]

AfterRestart(r) ==
  IF state[r] \in ActiveStates \/ (state[r] = "queued" /\ row[r].task)
  THEN "interrupted" ELSE state[r]

(* The coordinator dies and starts again.  The Store constructor records   *)
(* what was active as interrupted, TaskStore's the queued board tasks;     *)
(* nothing pumps.                                                          *)
Restart ==
  /\ restarts < MaxRestarts
  /\ restarts' = restarts + 1
  /\ state' = [r \in Run |-> AfterRestart(r)]
  /\ phase' = [r \in Run |-> "idle"]
  /\ using' = [r \in Run |-> None]
  /\ gateways' = [a \in Agents |-> None]
  /\ stopping' = {}
  /\ stops' = [s \in Stoppers |-> NoStop]
  /\ awaiting' = [r \in Run |-> None]
  /\ answering' = [r \in Run |-> None]
  /\ live' = {}
  /\ UNCHANGED <<row, snapshots, approvals>>

-----------------------------------------------------------------------------
Executes(r) ==
  \/ PriorStopped(r) \/ PriorStopFails(r)
  \/ SocketReady(r) \/ PrepareFails(r)
  \/ GatewayReady(r) \/ GatewayStartFails(r)
  \/ SessionCreated(r) \/ PromptCompletes(r)
  \/ \E outcome \in {"failed", "interrupted"} :
       SessionFails(r, outcome) \/ PromptFails(r, outcome)

Stops(s) ==
  \/ NextTree(s) \/ InterruptReturns(s) \/ ContainerStopped(s) \/ ContainerStopFails(s)

Next ==
  \/ \E r \in Run :
       \/ Executes(r)
       \/ \E a \in Agents, task \in TaskKinds : CreateRun(r, a, task)
       \/ \E parent, child \in Run, a \in Agents : Handoff(r, parent, child, a)
       \/ HandoffReturns(r) \/ HandoffTimesOut(r)
       \/ GatewayExits(r) \/ GatewayCrashes(r)
       \/ \E waiting \in Requests : AsksOperator(r, waiting)
       \/ AnswerApproval(r) \/ AnswerConfirmed(r) \/ AnswerLost(r)
  \/ \E s \in Stoppers : (\E roots \in StopTargets : RequestStop(s, roots)) \/ Stops(s)
  \/ Restart

Spec == Init /\ [][Next]_vars

(* Every await of a coroutine or of a stop request returns: start() gives  *)
(* up after 30 seconds, a request after 5 seconds or 5 minutes, a prompt   *)
(* after a day, waitForRun after 30 minutes.  docker stop has no time      *)
(* limit; that it ends, and with it the process it stops, is assumed.      *)
FairSpec ==
  /\ Spec
  /\ \A r \in Run : /\ WF_vars(Executes(r))
                   /\ WF_vars(HandoffReturns(r) \/ HandoffTimesOut(r))
                   /\ WF_vars(GatewayExits(r))
  /\ \A s \in Stoppers : WF_vars(Stops(s))

-----------------------------------------------------------------------------
(* Safety.                                                                 *)

(* Hermes has a live process for the run; Hermes works on its prompt.      *)
HasProcess(r) == phase[r] \in {"start", "session", "prompt"} /\ using[r] \in live
Working(r)    == phase[r] = "prompt" /\ using[r] \in live

Quiet == \A s \in Stoppers : stops[s].pc = "idle"

(* A run that has begun to execute is never queued again, in this process  *)
(* or the next: README "never silently replays uncertain actions".  Only   *)
(* runs with a profile snapshot have a coroutine, and a run still queued   *)
(* has neither.                                                            *)
NeverReplayed ==
  \A r \in Run :
    /\ state[r] \in {"absent", "queued"} => r \notin snapshots
    /\ phase[r] # "idle" => r \in snapshots
    /\ state[r] \in ActiveStates \cup {"completed", "failed"} => r \in snapshots

(* Handoffs form a forest two levels deep in which no agent works for      *)
(* itself, directly or through another: the depth and cycle tests of       *)
(* createRun.                                                              *)
HandoffTree ==
  \A r \in Run : row[r].parent # None =>
    /\ row[r].parent < r
    /\ state[row[r].parent] # "absent"
    /\ row[r].depth = row[row[r].parent].depth + 1
    /\ \A q \in Ancestors(row, r) : AgentOf(q) # AgentOf(r)

(* One run at a time per agent (README "at most one task per agent").      *)
AgentExclusive ==
  \A q, r \in Active(state) : AgentOf(q) = AgentOf(r) => q = r

(* The global, top-level and board-task limits of pump().                  *)
Caps ==
  /\ Cardinality(Active(state)) <= MaxActive
  /\ Cardinality({r \in Active(state) : row[r].depth = 0}) <= MaxTopLevel
  /\ Cardinality({r \in Active(state) : row[r].task}) <= MaxTaskRuns

(* README "Existing-desktop sessions are serialized".  Of active rows it   *)
(* holds; of sessions only as far as stops let it: a run that is being     *)
(* stopped is recorded cancelled first, and Hermes works on through the    *)
(* interrupt and docker stop, while pump() may admit the desktop run of    *)
(* another agent.  So of two sessions on the desktop, a stop is under way  *)
(* for one.                                                                *)
DesktopSerialized ==
  \A q, r \in Run :
    /\ q # r /\ Working(q) /\ Working(r)
    /\ {AgentOf(q), AgentOf(r)} \subseteq ExistingDesktop
    => \E s \in Stoppers : stops[s].cur \in {q, r}

(* An end is an end: no later callback, stop or answer moves a finished    *)
(* run.                                                                    *)
TerminalIsFinal ==
  [][\A r \in Run : state[r] \in TerminalStates => state'[r] = state[r]]_vars

(* Two runs of one agent never have Hermes working at the same time: the   *)
(* agent's container, profile directory and gateway are not shared.  This  *)
(* is so while stop requests are served one at a time: of two, the first   *)
(* to end may take the mark (and the gateway) the other relies on.         *)
OneSession ==
  \A q, r \in Run :
    Working(q) /\ Working(r) /\ AgentOf(q) = AgentOf(r) => q = r

(* A run recorded as cancelled has no Hermes working for it once its stop  *)
(* is over: stopRunTree kills whatever the coroutine had reached.          *)
CancelledIsStopped ==
  \A r \in Run :
    state[r] = "cancelled" /\ (\A s \in Stoppers : stops[s].cur # r) => ~ Working(r)

(* README "Stopping a parent run also stops descendants": when no stop is  *)
(* under way, a cancelled run has no unfinished descendant.                *)
NoOrphan ==
  Quiet => \A r \in Run : state[r] = "cancelled" =>
             \A q \in Descendants(row, r) : state[q] \in TerminalStates

(* pump() is called wherever a queued run may have become startable: with  *)
(* no stop under way, nothing that could start is left waiting.  A restart *)
(* is the exception, for nothing pumps when the coordinator comes up.      *)
NoMissedWakeup ==
  Quiet /\ restarts = 0 => \A r \in Run : ~ CanStart(row, state, stopping, {}, r)

-----------------------------------------------------------------------------
(* Liveness.                                                               *)

(* A run that was accepted ends, also one that is queued behind delegating *)
(* runs which wait for each other.                                         *)
EveryRunEnds ==
  \A r \in Run : state[r] # "absent" ~> state[r] \in TerminalStates

(* A stop request is answered.                                             *)
EveryStopReturns ==
  \A s \in Stoppers : stops[s].pc # "idle" ~> stops[s].pc = "idle"

-----------------------------------------------------------------------------
(* The abstract specification.                                             *)

Service ==
  INSTANCE RunService
    WITH Runs <- Run, Owners <- Agents, NoOwner <- NoAgent, Slots <- MaxActive,
         Revises <- Hazards \cap {"lateRequest", "lateReply", "stopFails"} # {},
         state <- [r \in Run |-> ServiceState(state[r])],
         owner <- [r \in Run |-> row[r].agent]

(* What the board and the routines rely on: a run of theirs begins at most *)
(* once, alone with its agent and within the limit, keeps its agent, and   *)
(* its end is final unless the outside world answers late.                 *)
ImplementsRunService == Service!ServiceSpec
=============================================================================
