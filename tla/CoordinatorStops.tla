--------------------------- MODULE CoordinatorStops ---------------------------
(***************************************************************************)
(* What a stop request leaves behind: every queued run that may start is   *)
(* started, no cancelled run has Hermes working for it, two sessions share *)
(* the desktop no longer than a stop of one of them, and, while stop       *)
(* requests do not overlap, an agent has one Hermes session.               *)
(***************************************************************************)
EXTENDS CoordinatorProofs

-----------------------------------------------------------------------------
(* Admission.                                                              *)

(* The test of pump() only gets stricter when more runs are busy.          *)
LEMMA BusierIsStricter ==
  ASSUME NEW rows, NEW stop, NEW st, NEW held \in SUBSET Run,
         NEW to, NEW heldThen \in SUBSET Run, NEW r \in Run,
         Active(st) \cup held \subseteq Active(to) \cup heldThen,
         Existing(st) = Existing(to), st[r] = "queued", rows[r].agent \in Agents,
         CanStart(rows, to, stop, heldThen, r)
  PROVE  CanStart(rows, st, stop, held, r)
PROOF
<1> DEFINE few == Active(st) \cup held
           many == Active(to) \cup heldThen
<1>1. few \subseteq many /\ few \subseteq Run /\ many \subseteq Run
  BY DEF Active
<1>2. Listed(st) = Listed(to)
  BY DEF Listed
<1>3. /\ AgentFree(rows, stop, many, rows[r].agent)
      /\ WithinLimits(rows, many, r)
      /\ ComputerFits(rows, many \cap Listed(st), rows[r].agent)
  BY <1>2 DEF CanStart
<1>4. ASSUME NEW S \in SUBSET few, NEW T \in SUBSET many, S \subseteq T
      PROVE  Cardinality(S) \in Nat /\ Cardinality(T) \in Nat /\ Cardinality(S) <= Cardinality(T)
  <2>1. IsFiniteSet(T) /\ Cardinality(T) \in Nat /\ Cardinality(S) \in Nat
    BY <1>1, <1>4, RunsAreFinite
  <2> QED BY <1>4, <2>1, FS_Subset
<1> HIDE DEF few, many
<1>5. AgentFree(rows, stop, few, rows[r].agent)
  BY <1>1, <1>3 DEF AgentFree
<1>6. WithinLimits(rows, few, r)
  <2>1. Cardinality(few) <= Cardinality(many) /\ Cardinality(few) \in Nat /\ Cardinality(many) \in Nat
    BY <1>1, <1>4
  <2> DEFINE tasks(S) == {q \in S : rows[q].task}
             top(S) == {q \in S : rows[q].depth = 0}
  <2>2. /\ Cardinality(tasks(few)) <= Cardinality(tasks(many))
        /\ Cardinality(tasks(few)) \in Nat /\ Cardinality(tasks(many)) \in Nat
    <3>1. /\ tasks(few) \in SUBSET few /\ tasks(many) \in SUBSET many
          /\ tasks(few) \subseteq tasks(many)
      BY <1>1
    <3> HIDE DEF tasks
    <3> QED BY <1>4, <3>1
  <2>3. /\ Cardinality(top(few)) <= Cardinality(top(many))
        /\ Cardinality(top(few)) \in Nat /\ Cardinality(top(many)) \in Nat
    <3>1. /\ top(few) \in SUBSET few /\ top(many) \in SUBSET many
          /\ top(few) \subseteq top(many)
      BY <1>1
    <3> HIDE DEF top
    <3> QED BY <1>4, <3>1
  <2>4. MaxActive \in Nat /\ MaxTaskRuns \in Nat /\ MaxTopLevel \in Nat
    BY LimitsAssumption
  <2>5. /\ Cardinality(many) < MaxActive
        /\ rows[r].task => Cardinality(tasks(many)) < MaxTaskRuns
        /\ rows[r].depth > 0 \/ Cardinality(top(many)) < MaxTopLevel
    BY <1>3 DEF WithinLimits
  <2>6. /\ Cardinality(few) < MaxActive
        /\ rows[r].task => Cardinality(tasks(few)) < MaxTaskRuns
        /\ rows[r].depth > 0 \/ Cardinality(top(few)) < MaxTopLevel
    <3> HIDE DEF tasks, top
    <3> QED BY <2>1, <2>2, <2>3, <2>4, <2>5
  <2> QED BY <2>6 DEF WithinLimits
<1>7. ComputerFits(rows, few \cap Listed(st), rows[r].agent)
  <2>1. few \cap Listed(st) \subseteq many \cap Listed(st)
    BY <1>1
  <2>2. /\ Cardinality(few \cap Listed(st)) <= Cardinality(many \cap Listed(st))
        /\ Cardinality(few \cap Listed(st)) \in Nat /\ Cardinality(many \cap Listed(st)) \in Nat
    BY <1>4, <2>1
  <2>3. Cardinality(many \cap Listed(st)) < Concurrency[rows[r].agent]
    BY <1>3 DEF ComputerFits
  <2>4. Concurrency[rows[r].agent] \in Nat
    BY ProfilesAssumption
  <2>5. Cardinality(few \cap Listed(st)) < Concurrency[rows[r].agent]
    BY <2>2, <2>3, <2>4
  <2> QED BY <1>3, <2>1, <2>5 DEF ComputerFits
<1> QED BY <1>5, <1>6, <1>7 DEF CanStart, few

(* No queued run can start.                                                *)
Settled(rows, st, stop) == \A r \in Run : ~ CanStart(rows, st, stop, {}, r)

(* pump() goes on until no queued run can start.                           *)
LEMMA PumpSettles ==
  ASSUME NEW rows, NEW st, NEW ph, NEW us, NEW gws, NEW stop,
         \A r \in Run : st[r] # "absent" => rows[r].agent \in Agents,
         Pump(rows, st, ph, us, gws, stop)
  PROVE  Settled(rows, state', stop)
PROOF
<1>1. PICK admitted \in SUBSET Queued(st) :
        /\ IsAdmission(rows, st, stop, admitted)
        /\ state' = [r \in Run |-> IF r \in admitted THEN "running" ELSE st[r]]
  BY Zenon DEF Pump
<1> SUFFICES ASSUME NEW r \in Run, CanStart(rows, state', stop, {}, r) PROVE FALSE
  BY DEF Settled
<1> DEFINE held == {q \in admitted : q < r}
<1>2. state'[r] = "queued"
  BY DEF CanStart
<1>3. r \notin admitted /\ st[r] = "queued"
  BY <1>1, <1>2
<1>4. ~ CanStart(rows, st, stop, held, r)
  BY <1>1, <1>3 DEF IsAdmission
<1>5. held \in SUBSET Run /\ {} \in SUBSET Run
  BY DEF Queued
<1>6. Active(st) \cup held \subseteq Active(state') \cup {}
  BY <1>1 DEF Active, ActiveStates, Queued
<1>7. Existing(st) = Existing(state')
  BY <1>1 DEF Existing, Queued
<1>8. rows[r].agent \in Agents
  BY <1>3
<1> HIDE DEF held
<1> QED BY <1>3, <1>4, <1>5, <1>6, <1>7, <1>8, BusierIsStricter

(* A step that neither queues a run nor lets one go, and frees nothing,    *)
(* lets no run start.                                                      *)
LEMMA StaysSettled ==
  ASSUME IInv, NoMissedWakeup, row' = row, stopping' = stopping,
         Existing(state') = Existing(state), Queued(state') = Queued(state),
         Active(state) \subseteq Active(state'),
         restarts' = restarts, Quiet' => Quiet
  PROVE  NoMissedWakeup'
PROOF
<1> SUFFICES ASSUME Quiet', restarts' = 0, NEW r \in Run,
                    CanStart(row', state', stopping', {}, r)
             PROVE  FALSE
  BY DEF NoMissedWakeup
<1>1. ~ CanStart(row, state, stopping, {}, r)
  BY DEF NoMissedWakeup
<1>2. CanStart(row, state', stopping, {}, r)
  OBVIOUS
<1>3. state[r] = "queued" /\ r \in Run
  BY DEF CanStart, Queued
<1>4. row[r].agent \in Agents
  BY <1>3 DEF IInv, RowsWritten, AgentOf
<1>5. Active(state) \cup {} \subseteq Active(state') \cup {} /\ {} \in SUBSET Run
  OBVIOUS
<1> QED BY <1>1, <1>2, <1>3, <1>4, <1>5, BusierIsStricter

(* A handler that ends in pump() leaves nothing that could start.          *)
LEMMA PumpWakes ==
  ASSUME IInv', NEW st, NEW ph, NEW us, NEW gws,
         \A r \in Run : st[r] # "absent" => state'[r] # "absent",
         Pump(row', st, ph, us, gws, stopping')
  PROVE  NoMissedWakeup'
PROOF
<1>1. \A r \in Run : st[r] # "absent" => row'[r].agent \in Agents
  BY DEF IInv, RowsWritten, AgentOf
<1>2. Settled(row', state', stopping')
  BY <1>1, PumpSettles
<1> QED BY <1>2 DEF Settled, NoMissedWakeup

(* A segment of stopRunTree ends in pump(), or in an await of the stop.    *)
LEMMA WalkWakes ==
  ASSUME IInv, IInv', NEW s \in Stoppers, NEW stop, NEW st \in [Run -> RunState],
         NEW gws, NEW marks,
         \A q \in Run : st[q] # "absent" => state[q] # "absent",
         \A q \in stop.todo : q \in Run /\ state[q] # "absent",
         Walk(s, stop, st, gws, marks), row' = row, SameRuns
  PROVE  NoMissedWakeup'
PROOF
<1> DEFINE unfinished == {q \in stop.todo : st[q] \notin TerminalStates}
           waits == {q \in unfinished : GatewayToStop(q, st, gws) # None}
           marksAfter(quick) == marks \ {AgentOf(q) : q \in quick}
           cancel(ids) == [q \in Run |-> IF q \in ids THEN "cancelled" ELSE st[q]]
           request(next) == [pc |-> IF phase[next] = "prompt" THEN "interrupt" ELSE "container",
                             roots |-> stop.roots,
                             todo  |-> {q \in stop.todo : Before(row, next, q)},
                             cur   |-> next,
                             gw    |-> GatewayToStop(next, st, gws)]
<1>1. \/ /\ stopping' = marksAfter(unfinished)
         /\ Pump(row, cancel(unfinished), phase, using, gws, marksAfter(unfinished))
      \/ \E next \in waits : stops' = [stops EXCEPT ![s] = request(next)]
  BY Zenon DEF Walk
<1>2. CASE /\ stopping' = marksAfter(unfinished)
           /\ Pump(row, cancel(unfinished), phase, using, gws, marksAfter(unfinished))
  <2>1. \A q \in Run : cancel(unfinished)[q] # "absent" => state'[q] # "absent"
    BY DEF SameRuns
  <2>2. Pump(row', cancel(unfinished), phase, using, gws, stopping')
    BY <1>2
  <2> HIDE DEF cancel, unfinished, marksAfter
  <2> QED BY <2>1, <2>2, PumpWakes
<1>3. CASE \E next \in waits : stops' = [stops EXCEPT ![s] = request(next)]
  <2>1. PICK next \in waits : stops' = [stops EXCEPT ![s] = request(next)]
    BY <1>3
  <2>2. stops'[s] = request(next)
    <3>1. s \in DOMAIN stops
      BY DEF IInv, TypeOK
    <3> HIDE DEF request, waits
    <3> QED BY <2>1, <3>1
  <2>3. stops'[s].pc # "idle"
    BY <2>2
  <2> QED BY <2>3 DEF NoMissedWakeup, Quiet
<1> QED BY <1>1, <1>2, <1>3

(* stopRunTree on runs that exist.                                         *)
LEMMA StopNewestWakes ==
  ASSUME IInv, IInv', NEW s \in Stoppers, NEW roots \in SUBSET Run,
         \A q \in roots : state[q] # "absent",
         StopNewest(s, roots), SameRuns
  PROVE  NoMissedWakeup'
PROOF
<1>1. PICK root \in roots :
        /\ Walk(s, [NoStop EXCEPT !.roots = roots \ {root},
                                  !.todo  = {root} \cup Descendants(row, root)],
                state, gateways, stopping)
        /\ UNCHANGED OutsideStop
  BY Zenon DEF StopNewest
<1> DEFINE stop == [NoStop EXCEPT !.roots = roots \ {root},
                                  !.todo  = {root} \cup Descendants(row, root)]
<1>2. stop.todo = {root} \cup Descendants(row, root)
  BY DEF NoStop
<1>3. \A q \in Descendants(row, root) : q \in Run /\ state[q] # "absent"
  BY DescendantsWritten DEF IInv
<1>4. \A q \in stop.todo : q \in Run /\ state[q] # "absent"
  BY <1>2, <1>3
<1>5. state \in [Run -> RunState] /\ row' = row
  BY <1>1 DEF IInv, TypeOK, OutsideStop
<1>6. Walk(s, stop, state, gateways, stopping)
  BY <1>1
<1> HIDE DEF stop
<1> QED BY <1>4, <1>5, <1>6, WalkWakes

(* Every step of a stop request, its first included.                       *)
LEMMA StopsWake ==
  ASSUME IInv, IInv', SameRuns, NoMissedWakeup, NEW s \in Stoppers,
         Stops(s) \/ \E roots \in StopTargets : RequestStop(s, roots)
  PROVE  NoMissedWakeup'
PROOF
<1>1. /\ stops[s] \in StopRequest /\ stops \in [Stoppers -> StopRequest] /\ StopsKnown
      /\ state \in [Run -> RunState]
  BY DEF IInv, TypeOK
<1>2. /\ stops[s].roots \subseteq Run /\ stops[s].todo \subseteq Run
      /\ \A q \in Run : q \in stops[s].roots \cup stops[s].todo \cup {stops[s].cur}
           => state[q] # "absent"
  BY <1>1 DEF StopRequest, StopsKnown
<1>3. \A q \in stops[s].todo : q \in Run /\ state[q] # "absent"
  BY <1>2
<1>4. ASSUME NEW roots \in StopTargets, RequestStop(s, roots) PROVE NoMissedWakeup'
  <2>1. roots \in SUBSET Run /\ \A q \in roots : state[q] # "absent"
    BY TargetsExist
  <2> QED BY <1>4, <2>1, StopNewestWakes DEF RequestStop
<1>5. CASE NextTree(s)
  BY <1>2, <1>5, StopNewestWakes DEF NextTree
<1>6. CASE InterruptReturns(s)
  <2>1. stops'[s].pc = "container"
    BY <1>1, <1>6 DEF InterruptReturns
  <2> QED BY <2>1 DEF NoMissedWakeup, Quiet
<1>7. CASE ContainerStopped(s)
  <2>1. \E gws, marks : Walk(s, stops[s], state, gws, marks)
    BY <1>7, Zenon DEF ContainerStopped
  <2>2. row' = row
    BY <1>7 DEF ContainerStopped, OutsideStop
  <2> QED BY <1>1, <1>3, <2>1, <2>2, WalkWakes
<1>8. CASE ContainerStopFails(s)
  <2> DEFINE st == [state EXCEPT ![stops[s].cur] = "interrupted"]
             marks == stopping \ {AgentOf(stops[s].cur)}
  <2>1. st \in [Run -> RunState]
    BY <1>1 DEF RunState, TerminalStates
  <2>2. \A q \in Run : st[q] # "absent" => state[q] # "absent"
    BY <1>1, <1>2
  <2>3. Walk(s, stops[s], st, gateways, marks) /\ row' = row
    BY <1>8 DEF ContainerStopFails, OutsideStop
  <2> HIDE DEF st, marks
  <2> QED BY <1>3, <2>1, <2>2, <2>3, WalkWakes
<1> QED BY <1>4, <1>5, <1>6, <1>7, <1>8 DEF Stops

(* The end of a coroutine.                                                 *)
LEMMA FinishWakes ==
  ASSUME IInv', SameRuns, IInv, NEW r \in Run, NEW final \in TerminalStates, NEW gws,
         phase[r] # "idle", Finish(r, final, gws), UNCHANGED OutsideExecute
  PROVE  NoMissedWakeup'
PROOF
<1> DEFINE st == [state EXCEPT ![r] = final]
           ph == [phase EXCEPT ![r] = "done"]
           us == [using EXCEPT ![r] = None]
<1>1. Pump(row', st, ph, us, gws, stopping')
  BY DEF Finish, OutsideExecute
<1>2. state[r] # "absent"
  BY DEF IInv, NeverReplayed
<1>3. \A q \in Run : st[q] # "absent" => state'[q] # "absent"
  BY <1>2 DEF IInv, TypeOK, SameRuns
<1> HIDE DEF st, ph, us
<1> QED BY <1>1, <1>3, PumpWakes

(* A step of execute() ends the coroutine, or leaves the queue as it was.  *)
LEMMA ExecutesWake ==
  ASSUME IInv, IInv', SameRuns, NoMissedWakeup, NEW r \in Run, Executes(r)
  PROVE  NoMissedWakeup'
PROOF
<1>1. ASSUME NEW outcome \in {"failed", "completed", "interrupted", "cancelled"}
      PROVE  outcome \in TerminalStates /\ EndState(r, outcome) \in TerminalStates
  BY DEF EndState, TerminalStates
<1>2. ASSUME state' = state, UNCHANGED OutsideExecute PROVE NoMissedWakeup'
  BY <1>2, StaysSettled DEF OutsideExecute, Quiet
<1>3. CASE PriorStopped(r)
  BY <1>2, <1>3 DEF PriorStopped
<1>4. CASE PriorStopFails(r)
  BY <1>1, <1>4, FinishWakes DEF PriorStopFails
<1>5. CASE SocketReady(r)
  <2>1. CASE state[r] = "cancelled"
    BY <1>1, <1>5, <2>1, FinishWakes DEF SocketReady
  <2>2. CASE state[r] # "cancelled"
    BY <1>2, <1>5, <2>2 DEF SocketReady
  <2> QED BY <2>1, <2>2
<1>6. CASE PrepareFails(r)
  BY <1>1, <1>6, FinishWakes DEF PrepareFails
<1>7. CASE GatewayReady(r)
  BY <1>2, <1>7 DEF GatewayReady
<1>8. CASE GatewayStartFails(r)
  BY <1>1, <1>8, FinishWakes DEF GatewayStartFails
<1>9. CASE SessionCreated(r)
  <2>1. CASE state[r] = "cancelled"
    BY <1>1, <1>9, <2>1, FinishWakes DEF SessionCreated
  <2>2. CASE state[r] # "cancelled"
    BY <1>2, <1>9, <2>2 DEF SessionCreated
  <2> QED BY <2>1, <2>2
<1>10. CASE PromptCompletes(r)
  BY <1>1, <1>10, FinishWakes DEF PromptCompletes
<1>11. ASSUME NEW outcome \in {"failed", "interrupted"}, SessionFails(r, outcome)
       PROVE  NoMissedWakeup'
  BY <1>1, <1>11, FinishWakes DEF SessionFails
<1>12. ASSUME NEW outcome \in {"failed", "interrupted"}, PromptFails(r, outcome)
       PROVE  NoMissedWakeup'
  BY <1>1, <1>12, FinishWakes DEF PromptFails
<1> QED BY <1>3, <1>4, <1>5, <1>6, <1>7, <1>8, <1>9, <1>10, <1>11, <1>12 DEF Executes

(* A new run is started at once if it may be.                              *)
LEMMA InsertWakes ==
  ASSUME IInv, IInv', NEW r \in Run, NEW a, NEW parent, NEW task,
         Insert(r, a, parent, task), UNCHANGED stopping
  PROVE  NoMissedWakeup'
PROOF
<1> DEFINE st == [state EXCEPT ![r] = "queued"]
<1>1. /\ row' = [row EXCEPT ![r] = NewRow(a, parent, task)]
      /\ Pump(row', st, phase, using, gateways, stopping')
  BY DEF Insert
<1>2. PICK admitted \in SUBSET Queued(st) :
        state' = [q \in Run |-> IF q \in admitted THEN "running" ELSE st[q]]
  BY <1>1, Zenon DEF Pump
<1>3. \A q \in Run : st[q] # "absent" => state'[q] # "absent"
  BY <1>2
<1> HIDE DEF st
<1> QED BY <1>1, <1>3, PumpWakes

(* A request of Hermes or an answer to it moves a run that has begun.      *)
LEMMA AnswersWake ==
  ASSUME IInv, SameRuns, NoMissedWakeup, NEW r \in Run,
         \/ \E waiting \in Requests : AsksOperator(r, waiting)
         \/ AnswerConfirmed(r)
  PROVE  NoMissedWakeup'
PROOF
<1>1. state \in [Run -> RunState]
  BY DEF IInv, TypeOK
<1>2. r \in snapshots
  BY DEF IInv, TypeOK, NeverReplayed, AnswersBegun, AsksOperator, AnswerConfirmed, None, Run
<1>3. state[r] \in ActiveStates \cup TerminalStates
  BY <1>2, BegunStates
<1>4. PICK to \in ActiveStates : state' = [state EXCEPT ![r] = to]
  BY InputsAssumption DEF AsksOperator, AnswerConfirmed, ActiveStates
<1>5. UNCHANGED <<row, stopping, stops, restarts>>
  BY DEF AsksOperator, AnswerConfirmed, memory
<1>6. Existing(state') = Existing(state)
  BY DEF SameRuns, Existing
<1>7. Queued(state') = Queued(state) /\ Active(state) \subseteq Active(state')
  BY <1>1, <1>3, <1>4 DEF Queued, Active, ActiveStates, TerminalStates
<1> QED BY <1>5, <1>6, <1>7, StaysSettled DEF Quiet

(* pump() is called wherever a run may have become startable: with no stop *)
(* under way and before the first restart, no queued run could start,      *)
(* whatever else the outside world did.                                    *)
THEOREM WakeupsNotMissed == Spec => []NoMissedWakeup
PROOF
<1>1. Init => NoMissedWakeup
  BY DEF Init, NoMissedWakeup, CanStart
<1>2. IInv /\ NoMissedWakeup /\ [Next]_vars => NoMissedWakeup'
  <2> SUFFICES ASSUME IInv, NoMissedWakeup, [Next]_vars PROVE NoMissedWakeup'
    OBVIOUS
  <2>1. IInv'
    BY StepKinds DEF Keeps, Creates, Answers
  <2>2. ASSUME UNCHANGED <<state, row, stopping, stops, restarts>> PROVE NoMissedWakeup'
    BY <2>2, StaysSettled DEF Quiet
  <2>3. CASE UNCHANGED vars
    BY <2>2, <2>3 DEF vars, database, memory
  <2>4. ASSUME NEW r \in Run, Executes(r) PROVE NoMissedWakeup'
    <3>1. SameRuns
      BY <2>4, ExecutesKeeps DEF Keeps
    <3> QED BY <2>1, <2>4, <3>1, ExecutesWake
  <2>5. ASSUME NEW r \in Run, NEW a \in Agents, NEW task \in TaskKinds, CreateRun(r, a, task)
        PROVE  NoMissedWakeup'
    BY <2>1, <2>5, InsertWakes DEF CreateRun
  <2>6. ASSUME NEW r \in Run, NEW parent \in Run, NEW child \in Run, NEW a \in Agents,
               Handoff(r, parent, child, a)
        PROVE  NoMissedWakeup'
    BY <2>1, <2>6, InsertWakes DEF Handoff
  <2>7. ASSUME NEW r \in Run,
               \/ HandoffReturns(r) \/ HandoffTimesOut(r) \/ GatewayExits(r)
               \/ GatewayCrashes(r) \/ AnswerApproval(r) \/ AnswerLost(r)
        PROVE  NoMissedWakeup'
    BY <2>2, <2>7 DEF HandoffReturns, HandoffTimesOut, GatewayExits, GatewayCrashes,
                      AnswerApproval, AnswerLost, database, memory
  <2>8. ASSUME NEW r \in Run, NEW waiting \in Requests, AsksOperator(r, waiting)
        PROVE  NoMissedWakeup'
    BY <2>8, AsksOperatorKeeps, AnswersWake
  <2>9. ASSUME NEW r \in Run, AnswerConfirmed(r) PROVE NoMissedWakeup'
    BY <2>9, AnswerConfirmedKeeps, AnswersWake
  <2>10. ASSUME NEW s \in Stoppers, NEW roots \in StopTargets, RequestStop(s, roots)
         PROVE  NoMissedWakeup'
    BY <2>1, <2>10, RequestStopKeeps, StopsWake DEF Keeps
  <2>11. ASSUME NEW s \in Stoppers, Stops(s) PROVE NoMissedWakeup'
    BY <2>1, <2>11, StopsKeeps, StopsWake DEF Keeps
  <2>12. CASE Restart
    <3>1. restarts' # 0
      BY <2>12 DEF Restart, IInv, TypeOK
    <3> QED BY <3>1 DEF NoMissedWakeup
  <2> QED BY <2>3, <2>4, <2>5, <2>6, <2>7, <2>8, <2>9, <2>10, <2>11, <2>12, Zenon DEF Next
<1> QED BY <1>1, <1>2, Invariance, PTL DEF Spec

-----------------------------------------------------------------------------
(* What a stop kills.                                                      *)

(* The awaits at which a coroutine has yet to read its run again.          *)
Early == {"prior", "socket", "start", "session"}

(* Until it registers its own, no gateway is named after a run.            *)
Unheld(ph, us, gws, lv) ==
  \A r \in Run : ph[r] \in {"idle", "prior", "socket"} =>
    /\ r \notin lv
    /\ \A q \in Run : us[q] # r
    /\ \A a \in Agents : gws[a] # r

(* A stop request awaits a run only inside stopRunTree.                    *)
Resting(ss) == \A s \in Stoppers : ss[s].pc \in {"idle", "tree"} => ss[s].cur = None

(* The run a stop request awaits has begun.  While its coroutine can still *)
(* notice, the run stays cancelled and no second request takes it up;      *)
(* after that the request kills the gateway the run holds.                 *)
Awaited(st, ph, us, ss, begun) ==
  \A s \in Stoppers, r \in Run : ss[s].cur = r =>
    /\ r \in begun
    /\ ph[r] \in Early => /\ st[r] = "cancelled"
                          /\ \A t \in Stoppers : ss[t].cur = r => t = s
    /\ ph[r] = "prompt" => ss[s].gw = us[r]

(* An answer is on its way only for a prompt that was submitted.           *)
Prompted(an, ph) == \A r \in Run : an[r] # None => ph[r] \in {"prompt", "done"}

(* CancelledIsStopped, on the given tables.                                *)
Killed(st, ph, us, ss, lv) ==
  \A r \in Run :
    /\ st[r] = "cancelled"
    /\ \A s \in Stoppers : ss[s].cur # r
    => ~ (ph[r] = "prompt" /\ us[r] \in lv)

StopsInv ==
  /\ Unheld(phase, using, gateways, live) /\ Resting(stops)
  /\ Awaited(state, phase, using, stops, snapshots) /\ Prompted(answering, phase)
  /\ Killed(state, phase, using, stops, live)

(* A queued run has not begun.                                             *)
Fresh(rows, st, ph) ==
  \A r \in Run : st[r] = "queued" =>
    ph[r] = "idle" /\ r \notin snapshots /\ rows[r].agent \in Agents

(* pump() starts runs that no stop request awaits, and that hold nothing.  *)
LEMMA PumpKills ==
  ASSUME NEW rows, NEW st, NEW ph, NEW us, NEW gws, NEW stop,
         Fresh(rows, st, ph), gws \in [Agents -> Run \cup {None}],
         Unheld(ph, us, gws, live'), Resting(stops'),
         Awaited(st, ph, us, stops', snapshots), Prompted(answering', ph),
         Killed(st, ph, us, stops', live'),
         Pump(rows, st, ph, us, gws, stop), gateways' = gws
  PROVE  StopsInv'
PROOF
<1>1. PICK admitted \in SUBSET Queued(st) :
        /\ IsAdmission(rows, st, stop, admitted)
        /\ state' = [r \in Run |-> IF r \in admitted THEN "running" ELSE st[r]]
        /\ snapshots' = snapshots \cup admitted
        /\ using' = [r \in Run |->
                       IF r \in admitted THEN gws[rows[r].agent] ELSE us[r]]
        /\ phase' = [r \in Run |->
                       IF r \notin admitted THEN ph[r]
                       ELSE IF gws[rows[r].agent] = None THEN "socket" ELSE "prior"]
  BY Zenon DEF Pump
<1>2. ASSUME NEW r \in admitted
      PROVE  /\ r \in Run /\ ph[r] = "idle" /\ r \notin snapshots
             /\ state'[r] = "running" /\ using'[r] = gws[rows[r].agent]
             /\ phase'[r] \in {"socket", "prior"} /\ rows[r].agent \in Agents
  BY <1>1 DEF Queued, Fresh
<1>3. ASSUME NEW r \in Run, r \notin admitted
      PROVE  state'[r] = st[r] /\ using'[r] = us[r] /\ phase'[r] = ph[r]
  BY <1>1, <1>3
<1>4. Unheld(phase', using', gateways', live')
  <2> SUFFICES ASSUME NEW r \in Run, phase'[r] \in {"idle", "prior", "socket"}
               PROVE  /\ r \notin live'
                      /\ \A q \in Run : using'[q] # r
                      /\ \A a \in Agents : gateways'[a] # r
    BY DEF Unheld
  <2>1. ph[r] \in {"idle", "prior", "socket"}
    BY <1>2, <1>3
  <2>2. /\ r \notin live'
        /\ \A q \in Run : us[q] # r
        /\ \A a \in Agents : gws[a] # r
    BY <2>1 DEF Unheld
  <2>3. ASSUME NEW q \in Run PROVE using'[q] # r
    BY <1>2, <1>3, <2>2
  <2> QED BY <2>2, <2>3
<1>5. Awaited(state', phase', using', stops', snapshots')
  <2> SUFFICES ASSUME NEW s \in Stoppers, NEW r \in Run, stops'[s].cur = r
               PROVE  /\ r \in snapshots'
                      /\ phase'[r] \in Early =>
                           /\ state'[r] = "cancelled"
                           /\ \A t \in Stoppers : stops'[t].cur = r => t = s
                      /\ phase'[r] = "prompt" => stops'[s].gw = using'[r]
    BY DEF Awaited
  <2>1. /\ r \in snapshots
        /\ ph[r] \in Early => /\ st[r] = "cancelled"
                              /\ \A t \in Stoppers : stops'[t].cur = r => t = s
        /\ ph[r] = "prompt" => stops'[s].gw = us[r]
    BY DEF Awaited
  <2>2. r \notin admitted
    BY <1>2, <2>1
  <2> QED BY <1>1, <1>3, <2>1, <2>2
<1>6. Prompted(answering', phase')
  BY <1>2, <1>3 DEF Prompted
<1>7. Killed(state', phase', using', stops', live')
  <2> SUFFICES ASSUME NEW r \in Run, state'[r] = "cancelled",
                      \A s \in Stoppers : stops'[s].cur # r
               PROVE  ~ (phase'[r] = "prompt" /\ using'[r] \in live')
    BY DEF Killed
  <2>1. r \notin admitted
    BY <1>2
  <2>2. state'[r] = st[r] /\ using'[r] = us[r] /\ phase'[r] = ph[r]
    BY <1>3, <2>1
  <2> QED BY <2>2 DEF Killed
<1> QED BY <1>4, <1>5, <1>6, <1>7 DEF StopsInv

(* A coroutine that ends holds no gateway any more.                        *)
LEMMA FinishKills ==
  ASSUME IInv, StopsInv, NEW r \in Run, NEW final \in TerminalStates,
         NEW gws \in [Agents -> Run \cup {None}],
         \A a \in Agents : gws[a] \in {gateways[a], None},
         phase[r] # "idle", Finish(r, final, gws), UNCHANGED <<live, OutsideExecute>>
  PROVE  StopsInv'
PROOF
<1> DEFINE st == [state EXCEPT ![r] = final]
           ph == [phase EXCEPT ![r] = "done"]
           us == [using EXCEPT ![r] = None]
<1>1. Pump(row, st, ph, us, gws, stopping) /\ gateways' = gws
  BY DEF Finish
<1>2. /\ state \in [Run -> RunState] /\ phase \in [Run -> Phases]
      /\ using \in [Run -> Run \cup {None}]
      /\ live' = live /\ stops' = stops /\ answering' = answering
      /\ r \in snapshots
  BY DEF IInv, TypeOK, NeverReplayed, OutsideExecute
<1>3. /\ st[r] = final /\ ph[r] = "done" /\ us[r] = None
      /\ \A q \in Run \ {r} : st[q] = state[q] /\ ph[q] = phase[q] /\ us[q] = using[q]
  BY <1>2
<1> HIDE DEF st, ph, us
<1>4. Fresh(row, st, ph)
  <2> SUFFICES ASSUME NEW q \in Run, st[q] = "queued"
               PROVE  ph[q] = "idle" /\ q \notin snapshots /\ row[q].agent \in Agents
    BY DEF Fresh
  <2>1. q # r
    BY <1>3 DEF TerminalStates
  <2> QED BY <1>3, <2>1 DEF IInv, NeverReplayed, RowsWritten, AgentOf
<1>5. None \notin Run
  BY DEF None, Run
<1>6. Unheld(ph, us, gws, live')
  BY <1>2, <1>3, <1>5 DEF StopsInv, Unheld
<1>7. Resting(stops') /\ Prompted(answering', ph)
  BY <1>2, <1>3 DEF StopsInv, Prompted
<1>8. Awaited(st, ph, us, stops', snapshots)
  <2> SUFFICES ASSUME NEW s \in Stoppers, NEW q \in Run, stops[s].cur = q
               PROVE  /\ q \in snapshots
                      /\ ph[q] \in Early =>
                           /\ st[q] = "cancelled"
                           /\ \A t \in Stoppers : stops[t].cur = q => t = s
                      /\ ph[q] = "prompt" => stops[s].gw = us[q]
    BY <1>2 DEF Awaited
  <2>1. CASE q = r
    BY <1>2, <1>3, <2>1 DEF Early
  <2>2. CASE q # r
    BY <1>3, <2>2 DEF StopsInv, Awaited
  <2> QED BY <2>1, <2>2
<1>9. Killed(st, ph, us, stops', live')
  BY <1>2, <1>3 DEF StopsInv, Killed
<1> QED BY <1>1, <1>4, <1>6, <1>7, <1>8, <1>9, PumpKills

(* A new run holds nothing.                                                *)
LEMMA InsertKills ==
  ASSUME IInv, StopsInv, NEW r \in Run, NEW a \in Agents, NEW parent, NEW task,
         Insert(r, a, parent, task), UNCHANGED <<gateways, stops, answering, live>>
  PROVE  StopsInv'
PROOF
<1> DEFINE rows == [row EXCEPT ![r] = NewRow(a, parent, task)]
           st == [state EXCEPT ![r] = "queued"]
<1>1. Pump(rows, st, phase, using, gateways, stopping) /\ state[r] = "absent"
  BY DEF Insert, IsNext
<1>2. /\ state \in [Run -> RunState] /\ row \in [Run -> Row]
      /\ gateways \in [Agents -> Run \cup {None}]
      /\ phase[r] = "idle" /\ r \notin snapshots
  BY <1>1 DEF IInv, TypeOK, NeverReplayed
<1>3. /\ st[r] = "queued" /\ rows[r].agent = a
      /\ \A q \in Run \ {r} : st[q] = state[q] /\ rows[q] = row[q]
  BY <1>2 DEF NewRow
<1> HIDE DEF st, rows
<1>4. Fresh(rows, st, phase)
  <2> SUFFICES ASSUME NEW q \in Run, st[q] = "queued"
               PROVE  phase[q] = "idle" /\ q \notin snapshots /\ rows[q].agent \in Agents
    BY DEF Fresh
  <2>1. CASE q = r
    BY <1>2, <1>3, <2>1
  <2>2. CASE q # r
    BY <1>3, <2>2 DEF IInv, NeverReplayed, RowsWritten, AgentOf
  <2> QED BY <2>1, <2>2
<1>5. Awaited(st, phase, using, stops', snapshots) /\ Killed(st, phase, using, stops', live')
  <2>1. Awaited(st, phase, using, stops, snapshots)
    <3> SUFFICES ASSUME NEW s \in Stoppers, NEW q \in Run, stops[s].cur = q
                 PROVE  /\ q \in snapshots
                        /\ phase[q] \in Early =>
                             /\ st[q] = "cancelled"
                             /\ \A t \in Stoppers : stops[t].cur = q => t = s
                        /\ phase[q] = "prompt" => stops[s].gw = using[q]
      BY DEF Awaited
    <3>1. q # r
      BY <1>2 DEF StopsInv, Awaited
    <3> QED BY <1>3, <3>1 DEF StopsInv, Awaited
  <2>2. Killed(st, phase, using, stops, live)
    BY <1>2, <1>3 DEF StopsInv, Killed
  <2> QED BY <2>1, <2>2
<1>6. Unheld(phase, using, gateways, live') /\ Resting(stops') /\ Prompted(answering', phase)
  BY DEF StopsInv
<1>7. gateways' = gateways
  OBVIOUS
<1> QED BY <1>1, <1>2, <1>4, <1>5, <1>6, <1>7, PumpKills

(* The stop requests without the one that takes its next segment.          *)
Others(s) == [stops EXCEPT ![s] = NoStop]

(* A segment of stopRunTree cancels what holds no gateway, and awaits the  *)
(* next run that does.                                                     *)
LEMMA WalkKills ==
  ASSUME IInv, NEW s \in Stoppers, NEW stop, NEW st \in [Run -> RunState],
         NEW gws \in [Agents -> Run \cup {None}], NEW marks,
         \A q \in Run : st[q] = state[q] \/ (st[q] = "interrupted" /\ state[q] # "absent"),
         \A q \in stop.todo : q \in Run /\ state[q] # "absent",
         live' \subseteq Run,
         Unheld(phase, using, gws, live'), Resting(stops), Prompted(answering, phase),
         Awaited(st, phase, using, Others(s), snapshots),
         Killed(st, phase, using, Others(s), live'),
         Walk(s, stop, st, gws, marks), answering' = answering
  PROVE  StopsInv'
PROOF
<1> DEFINE unfinished == {q \in stop.todo : st[q] \notin TerminalStates}
           waits == {q \in unfinished : GatewayToStop(q, st, gws) # None}
           marksAfter(quick) == marks \ {AgentOf(q) : q \in quick}
           cancel(ids) == [q \in Run |-> IF q \in ids THEN "cancelled" ELSE st[q]]
           earlier(next) == {q \in unfinished : Before(row, q, next)}
           request(next) == [pc |-> IF phase[next] = "prompt" THEN "interrupt" ELSE "container",
                             roots |-> stop.roots,
                             todo  |-> {q \in stop.todo : Before(row, next, q)},
                             cur   |-> next,
                             gw    |-> GatewayToStop(next, st, gws)]
           over == IF stop.roots = {} THEN NoStop
                   ELSE [NoStop EXCEPT !.pc = "tree", !.roots = stop.roots]
<1>1. /\ gateways' = gws
      /\ \/ /\ stops' = [stops EXCEPT ![s] = over]
            /\ Pump(row, cancel(unfinished), phase, using, gws, marksAfter(unfinished))
            /\ waits = {}
         \/ \E next \in waits :
              /\ earlier(next) \cap waits = {}
              /\ stops' = [stops EXCEPT ![s] = request(next)]
              /\ state' = cancel(earlier(next) \cup {next})
              /\ UNCHANGED <<phase, using, snapshots>>
  BY Zenon DEF Walk
<1>2. /\ stops \in [Stoppers -> StopRequest] /\ phase \in [Run -> Phases]
      /\ using \in [Run -> Run \cup {None}] /\ NeverReplayed
      /\ state \in [Run -> RunState] /\ snapshots \subseteq Run
  BY DEF IInv, TypeOK
<1>3. None \notin Run /\ None \notin live'
  BY DEF None, Run
<1>4. unfinished \subseteq Run
  OBVIOUS
<1>5. Others(s)[s].cur = None /\ \A t \in Stoppers \ {s} : Others(s)[t] = stops[t]
  BY <1>2 DEF Others, NoStop
<1>6. ASSUME NEW q \in unfinished, GatewayToStop(q, st, gws) = None
      PROVE  ~ (phase[q] = "prompt" /\ using[q] \in live')
  BY <1>3, <1>6 DEF GatewayToStop
<1>7. CASE /\ stops' = [stops EXCEPT ![s] = over]
           /\ Pump(row, cancel(unfinished), phase, using, gws, marksAfter(unfinished))
           /\ waits = {}
  <2> DEFINE to == cancel(unfinished)
  <2>1. \A q \in Run : to[q] = IF q \in unfinished THEN "cancelled" ELSE st[q]
    OBVIOUS
  <2>2. \A q \in unfinished : ~ (phase[q] = "prompt" /\ using[q] \in live')
    BY <1>6, <1>7
  <2>3. over.cur = None /\ over.pc \in {"idle", "tree"}
    BY DEF NoStop
  <2>4. stops'[s] = over /\ \A t \in Stoppers \ {s} : stops'[t] = stops[t]
    <3> HIDE DEF over, cancel, waits
    <3> QED BY <1>2, <1>7
  <2>5. Pump(row, to, phase, using, gws, marksAfter(unfinished))
    BY <1>7
  <2> HIDE DEF to, unfinished, over, marksAfter
  <2>6. \A t \in Stoppers : stops'[t].cur = Others(s)[t].cur
    BY <1>5, <2>3, <2>4
  <2>7. Fresh(row, to, phase)
    <3> SUFFICES ASSUME NEW q \in Run, to[q] = "queued"
                 PROVE  phase[q] = "idle" /\ q \notin snapshots /\ row[q].agent \in Agents
      BY DEF Fresh
    <3>1. state[q] = "queued"
      BY <2>1
    <3> QED BY <3>1 DEF IInv, NeverReplayed, RowsWritten, AgentOf
  <2>8. Resting(stops')
    BY <2>3, <2>4 DEF Resting
  <2>9. Awaited(to, phase, using, stops', snapshots)
    <3> SUFFICES ASSUME NEW t \in Stoppers, NEW q \in Run, stops'[t].cur = q
                 PROVE  /\ q \in snapshots
                        /\ phase[q] \in Early =>
                             /\ to[q] = "cancelled"
                             /\ \A u \in Stoppers : stops'[u].cur = q => u = t
                        /\ phase[q] = "prompt" => stops'[t].gw = using[q]
      BY DEF Awaited
    <3>1. Others(s)[t].cur = q
      BY <2>6
    <3>2. stops'[t].gw = Others(s)[t].gw
      BY <1>3, <1>5, <2>4, <3>1
    <3>3. /\ q \in snapshots
          /\ phase[q] \in Early => /\ st[q] = "cancelled"
                                   /\ \A u \in Stoppers : Others(s)[u].cur = q => u = t
          /\ phase[q] = "prompt" => Others(s)[t].gw = using[q]
      BY <3>1 DEF Awaited
    <3> QED BY <2>1, <2>6, <3>2, <3>3
  <2>10. Killed(to, phase, using, stops', live')
    <3> SUFFICES ASSUME NEW q \in Run, to[q] = "cancelled",
                        \A t \in Stoppers : stops'[t].cur # q
                 PROVE  ~ (phase[q] = "prompt" /\ using[q] \in live')
      BY DEF Killed
    <3>1. \A t \in Stoppers : Others(s)[t].cur # q
      BY <2>6
    <3> QED BY <2>1, <2>2, <3>1 DEF Killed
  <2> QED BY <1>1, <2>5, <2>7, <2>8, <2>9, <2>10, PumpKills
<1>8. ASSUME NEW next \in waits,
             earlier(next) \cap waits = {},
             stops' = [stops EXCEPT ![s] = request(next)],
             state' = cancel(earlier(next) \cup {next}),
             UNCHANGED <<phase, using, snapshots>>
      PROVE  StopsInv'
  <2> DEFINE ids == earlier(next) \cup {next}
  <2>1. next \in Run /\ state[next] # "absent" /\ st[next] \notin TerminalStates
        /\ GatewayToStop(next, st, gws) # None
    OBVIOUS
  <2>2. st[next] = state[next]
    BY <2>1 DEF TerminalStates
  <2>3. phase[next] = "prompt" \/ st[next] # "queued"
    BY <2>1 DEF GatewayToStop
  <2>4. next \in snapshots
    BY <1>2, <2>1, <2>2, <2>3 DEF NeverReplayed, RunState, TerminalStates
  <2>5. \A q \in ids \ {next} : q \in unfinished /\ q \notin waits
    BY <1>8
  <2>6. \A q \in ids \ {next} : ~ (phase[q] = "prompt" /\ using[q] \in live')
    BY <1>6, <2>5
  <2>7. \A q \in Run : state'[q] = IF q \in ids THEN "cancelled" ELSE st[q]
    BY <1>8
  <2>8. /\ request(next).pc \in {"interrupt", "container"} /\ request(next).cur = next
        /\ phase[next] = "prompt" => request(next).gw = using[next]
    BY DEF GatewayToStop
  <2>9. stops'[s] = request(next) /\ \A t \in Stoppers \ {s} : stops'[t] = stops[t]
    <3> HIDE DEF request, cancel, waits, earlier
    <3> QED BY <1>2, <1>8
  <2>10. next \in ids
    OBVIOUS
  <2> HIDE DEF ids, request, unfinished, waits, cancel, earlier
  <2>11. Resting(stops')
    BY <2>8, <2>9 DEF Resting
  <2>12. Awaited(state', phase, using, stops', snapshots)
    <3> SUFFICES ASSUME NEW t \in Stoppers, NEW q \in Run, stops'[t].cur = q
                 PROVE  /\ q \in snapshots
                        /\ phase[q] \in Early =>
                             /\ state'[q] = "cancelled"
                             /\ \A u \in Stoppers : stops'[u].cur = q => u = t
                        /\ phase[q] = "prompt" => stops'[t].gw = using[q]
      BY DEF Awaited
    <3>1. ASSUME NEW u \in Stoppers \ {s}, stops'[u].cur = next PROVE phase[next] \notin Early
      <4>1. Others(s)[u].cur = next
        BY <1>5, <2>9, <3>1
      <4> QED BY <2>1, <4>1 DEF Awaited, TerminalStates
    <3>2. CASE q = next
      <4>1. phase[q] \in Early => \A u \in Stoppers : stops'[u].cur = q => u = s
        BY <3>1, <3>2
      <4>2. phase[q] = "prompt" => stops'[t].gw = using[q]
        <5>1. CASE t = s
          BY <2>8, <2>9, <3>2, <5>1
        <5>2. CASE t # s
          <6>1. Others(s)[t].cur = q /\ stops'[t].gw = Others(s)[t].gw
            BY <1>5, <2>9, <5>2
          <6> QED BY <6>1 DEF Awaited
        <5> QED BY <5>1, <5>2
      <4> QED BY <2>4, <2>7, <2>10, <3>2, <4>1, <4>2
    <3>3. CASE q # next
      <4>1. t # s
        BY <2>8, <2>9, <3>3
      <4>2. Others(s)[t].cur = q /\ stops'[t].gw = Others(s)[t].gw
        BY <1>5, <2>9, <4>1
      <4>3. /\ q \in snapshots
            /\ phase[q] \in Early => /\ st[q] = "cancelled"
                                     /\ \A u \in Stoppers : Others(s)[u].cur = q => u = t
            /\ phase[q] = "prompt" => Others(s)[t].gw = using[q]
        BY <4>2 DEF Awaited
      <4>4. \A u \in Stoppers : stops'[u].cur = q => Others(s)[u].cur = q
        BY <1>5, <2>8, <2>9, <3>3
      <4> QED BY <2>7, <4>2, <4>3, <4>4
    <3> QED BY <3>2, <3>3
  <2>13. Killed(state', phase, using, stops', live')
    <3> SUFFICES ASSUME NEW q \in Run, state'[q] = "cancelled",
                        \A t \in Stoppers : stops'[t].cur # q
                 PROVE  ~ (phase[q] = "prompt" /\ using[q] \in live')
      BY DEF Killed
    <3>1. q # next
      BY <2>8, <2>9
    <3>2. CASE q \in ids
      BY <2>6, <3>1, <3>2
    <3>3. CASE q \notin ids
      <4>1. \A t \in Stoppers : Others(s)[t].cur # q
        BY <1>3, <1>5, <2>9
      <4> QED BY <2>7, <3>3, <4>1 DEF Killed
    <3> QED BY <3>2, <3>3
  <2>14. Unheld(phase', using', gateways', live') /\ Prompted(answering', phase')
    BY <1>1, <1>8
  <2>15. Awaited(state', phase', using', stops', snapshots')
    BY <1>8, <2>12
  <2>16. Killed(state', phase', using', stops', live')
    BY <1>8, <2>13
  <2> QED BY <2>11, <2>14, <2>15, <2>16 DEF StopsInv
<1> HIDE DEF unfinished, waits, marksAfter, cancel, earlier, request, over
<1> QED BY <1>1, <1>7, <1>8

(* Without a request, what is left of the others is as it was.             *)
LEMMA OthersAwait ==
  ASSUME IInv, StopsInv, NEW s \in Stoppers
  PROVE  /\ \A t \in Stoppers, r \in Run : Others(s)[t].cur = r => t # s /\ Others(s)[t] = stops[t]
         /\ Awaited(state, phase, using, Others(s), snapshots)
PROOF
<1>1. stops \in [Stoppers -> StopRequest]
  BY DEF IInv, TypeOK
<1>2. Others(s)[s].cur = None /\ \A t \in Stoppers \ {s} : Others(s)[t] = stops[t]
  BY <1>1 DEF Others, NoStop
<1>3. \A t \in Stoppers, r \in Run : Others(s)[t].cur = r => t # s /\ Others(s)[t] = stops[t]
  BY <1>2 DEF None, Run
<1>4. Awaited(state, phase, using, Others(s), snapshots)
  <2> SUFFICES ASSUME NEW t \in Stoppers, NEW r \in Run, Others(s)[t].cur = r
               PROVE  /\ r \in snapshots
                      /\ phase[r] \in Early =>
                           /\ state[r] = "cancelled"
                           /\ \A u \in Stoppers : Others(s)[u].cur = r => u = t
                      /\ phase[r] = "prompt" => Others(s)[t].gw = using[r]
    BY DEF Awaited
  <2>1. stops[t].cur = r /\ Others(s)[t].gw = stops[t].gw
    BY <1>3
  <2>2. /\ r \in snapshots
        /\ phase[r] \in Early =>
             /\ state[r] = "cancelled"
             /\ \A u \in Stoppers : stops[u].cur = r => u = t
        /\ phase[r] = "prompt" => stops[t].gw = using[r]
    BY <2>1 DEF StopsInv, Awaited
  <2>3. \A u \in Stoppers : Others(s)[u].cur = r => stops[u].cur = r
    BY <1>3
  <2> QED BY <2>1, <2>2, <2>3
<1> QED BY <1>3, <1>4

(* stopRunTree on runs that exist.                                         *)
LEMMA StopNewestKills ==
  ASSUME IInv, StopsInv, NEW s \in Stoppers, NEW roots \in SUBSET Run,
         \A q \in roots : state[q] # "absent", stops[s].pc \in {"idle", "tree"},
         StopNewest(s, roots)
  PROVE  StopsInv'
PROOF
<1>1. PICK root \in roots :
        /\ Walk(s, [NoStop EXCEPT !.roots = roots \ {root},
                                  !.todo  = {root} \cup Descendants(row, root)],
                state, gateways, stopping)
        /\ live' = live /\ UNCHANGED OutsideStop
  BY Zenon DEF StopNewest
<1> DEFINE stop == [NoStop EXCEPT !.roots = roots \ {root},
                                  !.todo  = {root} \cup Descendants(row, root)]
<1>2. stop.todo = {root} \cup Descendants(row, root)
  BY DEF NoStop
<1>3. \A q \in Descendants(row, root) : q \in Run /\ state[q] # "absent"
  BY DescendantsWritten DEF IInv
<1>4. \A q \in stop.todo : q \in Run /\ state[q] # "absent"
  BY <1>2, <1>3
<1>5. /\ state \in [Run -> RunState] /\ gateways \in [Agents -> Run \cup {None}]
      /\ stops \in [Stoppers -> StopRequest]
      /\ live' \subseteq Run /\ live' = live /\ answering' = answering
  BY <1>1 DEF IInv, TypeOK, OutsideStop
<1>6. Walk(s, stop, state, gateways, stopping)
  BY <1>1
<1>7. Awaited(state, phase, using, Others(s), snapshots)
  BY OthersAwait
<1>8. Killed(state, phase, using, Others(s), live')
  <2>1. stops[s].cur = None
    BY DEF StopsInv, Resting
  <2>2. \A t \in Stoppers : Others(s)[t].cur = stops[t].cur
    BY <1>5, <2>1 DEF Others, NoStop
  <2> QED BY <1>5, <2>2 DEF StopsInv, Killed
<1>9. Unheld(phase, using, gateways, live') /\ Resting(stops) /\ Prompted(answering, phase)
  BY <1>5 DEF StopsInv
<1> HIDE DEF stop
<1> QED BY <1>4, <1>5, <1>6, <1>7, <1>8, <1>9, WalkKills

(* The container is stopped: the gateway of the run awaited is dead.       *)
LEMMA ContainerStoppedKills ==
  ASSUME IInv, StopsInv, NEW s \in Stoppers, ContainerStopped(s)
  PROVE  StopsInv'
PROOF
<1> DEFINE gws == [gateways EXCEPT ![AgentOf(stops[s].cur)] = None]
           marks == stopping \ {AgentOf(stops[s].cur)}
<1>1. /\ live' = live \ {stops[s].gw} /\ answering' = answering
      /\ Walk(s, stops[s], state, gws, marks)
  BY DEF ContainerStopped, OutsideStop
<1>2. /\ state \in [Run -> RunState] /\ live \subseteq Run
      /\ gateways \in [Agents -> Run \cup {None}] /\ stops \in [Stoppers -> StopRequest]
      /\ stops[s] \in StopRequest /\ StopsKnown
  BY DEF IInv, TypeOK
<1>3. \A q \in stops[s].todo : q \in Run /\ state[q] # "absent"
  BY <1>2 DEF StopRequest, StopsKnown
<1>4. gws \in [Agents -> Run \cup {None}] /\ \A a \in Agents : gws[a] \in {gateways[a], None}
  BY <1>2
<1> HIDE DEF gws, marks
<1>5. Unheld(phase, using, gws, live') /\ Resting(stops) /\ Prompted(answering, phase)
  <2>1. None \notin Run
    BY DEF None, Run
  <2> QED BY <1>1, <1>4, <2>1 DEF StopsInv, Unheld
<1>6. Awaited(state, phase, using, Others(s), snapshots)
  BY OthersAwait
<1>7. Killed(state, phase, using, Others(s), live')
  <2> SUFFICES ASSUME NEW r \in Run, state[r] = "cancelled",
                      \A t \in Stoppers : Others(s)[t].cur # r
               PROVE  ~ (phase[r] = "prompt" /\ using[r] \in live')
    BY DEF Killed
  <2>1. \A t \in Stoppers \ {s} : Others(s)[t] = stops[t]
    BY <1>2 DEF Others
  <2>2. CASE stops[s].cur = r
    BY <1>1, <2>2 DEF StopsInv, Awaited
  <2>3. CASE stops[s].cur # r
    BY <1>1, <2>1, <2>3 DEF StopsInv, Killed
  <2> QED BY <2>2, <2>3
<1>8. live' \subseteq Run
  BY <1>1, <1>2
<1> QED BY <1>1, <1>2, <1>3, <1>4, <1>5, <1>6, <1>7, <1>8, WalkKills

(* The container could not be stopped: the run is interrupted instead.     *)
LEMMA ContainerStopFailsKills ==
  ASSUME IInv, StopsInv, NEW s \in Stoppers, ContainerStopFails(s)
  PROVE  StopsInv'
PROOF
<1> DEFINE st == [state EXCEPT ![stops[s].cur] = "interrupted"]
           marks == stopping \ {AgentOf(stops[s].cur)}
<1>1. /\ live' = live /\ answering' = answering
      /\ Walk(s, stops[s], st, gateways, marks)
  BY DEF ContainerStopFails, OutsideStop
<1>2. /\ state \in [Run -> RunState] /\ live \subseteq Run
      /\ gateways \in [Agents -> Run \cup {None}] /\ stops \in [Stoppers -> StopRequest]
      /\ stops[s] \in StopRequest /\ StopsKnown
  BY DEF IInv, TypeOK
<1>3. /\ \A q \in stops[s].todo : q \in Run /\ state[q] # "absent"
      /\ stops[s].cur \in Run => state[stops[s].cur] # "absent"
  BY <1>2 DEF StopRequest, StopsKnown
<1>4. /\ st \in [Run -> RunState]
      /\ \A q \in Run : st[q] = IF q = stops[s].cur THEN "interrupted" ELSE state[q]
  BY <1>2 DEF RunState, TerminalStates
<1> HIDE DEF st, marks
<1>5. Unheld(phase, using, gateways, live') /\ Resting(stops) /\ Prompted(answering, phase)
  BY <1>1 DEF StopsInv
<1>6. \A t \in Stoppers \ {s} : Others(s)[t] = stops[t]
  BY <1>2 DEF Others
<1>7. Awaited(st, phase, using, Others(s), snapshots)
  <2> SUFFICES ASSUME NEW t \in Stoppers, NEW r \in Run, Others(s)[t].cur = r
               PROVE  /\ r \in snapshots
                      /\ phase[r] \in Early =>
                           /\ st[r] = "cancelled"
                           /\ \A u \in Stoppers : Others(s)[u].cur = r => u = t
                      /\ phase[r] = "prompt" => Others(s)[t].gw = using[r]
    BY DEF Awaited
  <2>1. /\ r \in snapshots
        /\ phase[r] \in Early =>
             /\ state[r] = "cancelled"
             /\ \A u \in Stoppers : Others(s)[u].cur = r => u = t
        /\ phase[r] = "prompt" => Others(s)[t].gw = using[r]
    BY OthersAwait DEF Awaited
  <2>2. t # s /\ stops[t].cur = r
    BY OthersAwait
  <2>3. phase[r] \in Early => stops[s].cur # r
    BY <2>2 DEF StopsInv, Awaited
  <2> QED BY <1>4, <2>1, <2>3
<1>8. Killed(st, phase, using, Others(s), live')
  <2> SUFFICES ASSUME NEW r \in Run, st[r] = "cancelled",
                      \A t \in Stoppers : Others(s)[t].cur # r
               PROVE  ~ (phase[r] = "prompt" /\ using[r] \in live')
    BY DEF Killed
  <2>1. r # stops[s].cur /\ state[r] = "cancelled"
    BY <1>4
  <2> QED BY <1>1, <1>6, <2>1 DEF StopsInv, Killed
<1>9. \A q \in Run : st[q] = state[q] \/ (st[q] = "interrupted" /\ state[q] # "absent")
  BY <1>3, <1>4
<1> QED BY <1>1, <1>2, <1>3, <1>4, <1>5, <1>7, <1>8, <1>9, WalkKills

(* Every step of a stop request, its first included.                       *)
LEMMA StopsKill ==
  ASSUME IInv, StopsInv, NEW s \in Stoppers,
         Stops(s) \/ \E roots \in StopTargets : RequestStop(s, roots)
  PROVE  StopsInv'
PROOF
<1>1. stops[s] \in StopRequest /\ stops \in [Stoppers -> StopRequest] /\ StopsKnown
  BY DEF IInv, TypeOK
<1>2. stops[s].roots \in SUBSET Run /\ \A q \in stops[s].roots : state[q] # "absent"
  BY <1>1 DEF StopRequest, StopsKnown
<1>3. ASSUME NEW roots \in StopTargets, RequestStop(s, roots) PROVE StopsInv'
  <2>1. roots \in SUBSET Run /\ \A q \in roots : state[q] # "absent"
    BY TargetsExist
  <2> QED BY <1>3, <2>1, StopNewestKills DEF RequestStop
<1>4. CASE NextTree(s)
  BY <1>2, <1>4, StopNewestKills DEF NextTree
<1>5. CASE InterruptReturns(s)
  <2>1. /\ stops' = [stops EXCEPT ![s].pc = "container"]
        /\ UNCHANGED <<state, snapshots, phase, using, gateways, answering, live>>
    BY <1>5 DEF InterruptReturns, database
  <2>2. \A t \in Stoppers : /\ stops'[t].cur = stops[t].cur /\ stops'[t].gw = stops[t].gw
                            /\ stops'[t].pc \in {stops[t].pc, "container"}
    BY <1>1, <2>1
  <2>3. Awaited(state, phase, using, stops', snapshots) /\ Killed(state, phase, using, stops', live)
    BY <2>2 DEF StopsInv, Awaited, Killed
  <2>4. Resting(stops')
    BY <2>2 DEF StopsInv, Resting
  <2> QED BY <2>1, <2>3, <2>4 DEF StopsInv
<1> QED BY <1>3, <1>4, <1>5, ContainerStoppedKills, ContainerStopFailsKills DEF Stops

(* A coroutine that reaches its next await.  If it read its run again, no  *)
(* stop request awaits it.                                                 *)
LEMMA AdvanceKills ==
  ASSUME IInv, StopsInv, NEW r \in Run, NEW to \in Early \cup {"prompt"},
         phase[r] \in Early, phase' = [phase EXCEPT ![r] = to],
         to = "prompt" => state[r] # "cancelled",
         Unheld(phase', using', gateways', live'),
         \A q \in Run : q # r => using'[q] = using[q],
         \A q \in Run : phase[q] = "prompt" /\ using[q] \in live' => using[q] \in live,
         UNCHANGED <<state, snapshots, stops, answering>>
  PROVE  StopsInv'
PROOF
<1>1. phase \in [Run -> Phases]
  BY DEF IInv, TypeOK
<1>2. phase'[r] = to /\ \A q \in Run \ {r} : phase'[q] = phase[q]
  BY <1>1
<1>3. Awaited(state, phase', using', stops, snapshots)
  <2> SUFFICES ASSUME NEW s \in Stoppers, NEW q \in Run, stops[s].cur = q
               PROVE  /\ q \in snapshots
                      /\ phase'[q] \in Early =>
                           /\ state[q] = "cancelled"
                           /\ \A t \in Stoppers : stops[t].cur = q => t = s
                      /\ phase'[q] = "prompt" => stops[s].gw = using'[q]
    BY DEF Awaited
  <2>1. CASE q = r
    BY <1>2, <2>1 DEF StopsInv, Awaited, Early
  <2>2. CASE q # r
    BY <1>2, <2>2 DEF StopsInv, Awaited
  <2> QED BY <2>1, <2>2
<1>4. Killed(state, phase', using', stops, live')
  <2> SUFFICES ASSUME NEW q \in Run, state[q] = "cancelled",
                      \A s \in Stoppers : stops[s].cur # q
               PROVE  ~ (phase'[q] = "prompt" /\ using'[q] \in live')
    BY DEF Killed
  <2>1. CASE q = r
    BY <1>2, <2>1 DEF Early
  <2>2. CASE q # r
    BY <1>2, <2>2 DEF StopsInv, Killed
  <2> QED BY <2>1, <2>2
<1>5. Prompted(answering', phase')
  BY <1>2 DEF StopsInv, Prompted, Early
<1>6. Awaited(state', phase', using', stops', snapshots') /\ Killed(state', phase', using', stops', live')
  BY <1>3, <1>4
<1>7. Resting(stops')
  BY DEF StopsInv
<1> QED BY <1>5, <1>6, <1>7 DEF StopsInv

(* Every step of the coroutine execute().                                  *)
LEMMA ExecutesKill ==
  ASSUME IInv, StopsInv, NEW r \in Run, Executes(r) PROVE StopsInv'
PROOF
<1>1. /\ phase \in [Run -> Phases] /\ using \in [Run -> Run \cup {None}]
      /\ gateways \in [Agents -> Run \cup {None}] /\ live \subseteq Run
  BY DEF IInv, TypeOK
<1>2. ASSUME NEW outcome \in {"failed", "completed", "interrupted", "cancelled"}
      PROVE  outcome \in TerminalStates /\ EndState(r, outcome) \in TerminalStates
  BY DEF EndState, TerminalStates
<1>3. ASSUME NEW final \in TerminalStates, phase[r] # "idle", Finish(r, final, gateways),
             UNCHANGED <<live, OutsideExecute>>
      PROVE  StopsInv'
  BY <1>1, <1>3, FinishKills
<1>4. None \notin Run
  BY DEF None, Run
<1>5. Unheld(phase, using, gateways, live)
  BY DEF StopsInv
<1>6. CASE PriorStopped(r)
  <2>1. /\ phase[r] = "prior" /\ phase' = [phase EXCEPT ![r] = "socket"]
        /\ gateways' = [gateways EXCEPT ![AgentOf(r)] = None]
        /\ live' = live \ {using[r]}
        /\ UNCHANGED <<state, snapshots, using, stops, answering>>
    BY <1>6 DEF PriorStopped, OutsideExecute
  <2>2. \A q \in Run : phase'[q] \in {"idle", "prior", "socket"}
                          => phase[q] \in {"idle", "prior", "socket"}
    BY <1>1, <2>1
  <2>3. \A a \in Agents : gateways'[a] \in {gateways[a], None}
    BY <1>1, <2>1
  <2>4. Unheld(phase', using', gateways', live')
    BY <1>4, <1>5, <2>1, <2>2, <2>3 DEF Unheld
  <2> QED BY <2>1, <2>4, AdvanceKills DEF Early
<1>7. CASE PriorStopFails(r)
  BY <1>2, <1>3, <1>7 DEF PriorStopFails
<1>8. CASE SocketReady(r)
  <2>1. CASE state[r] = "cancelled"
    BY <1>2, <1>3, <1>8, <2>1 DEF SocketReady
  <2>2. ASSUME NEW found, found = gateways[AgentOf(r)], state[r] # "cancelled",
               using' = [using EXCEPT ![r] = found], phase[r] = "socket",
               phase' = [phase EXCEPT ![r] = "session"],
               UNCHANGED <<gateways, live, state, snapshots, stops, answering>>
        PROVE  StopsInv'
    <3>1. /\ phase'[r] = "session" /\ using'[r] = found
          /\ \A q \in Run \ {r} : phase'[q] = phase[q] /\ using'[q] = using[q]
      BY <1>1, <2>2
    <3>2. AgentOf(r) \in Agents
      BY <2>2 DEF IInv, NeverReplayed, RowsWritten
    <3>3. Unheld(phase', using', gateways', live')
      <4> SUFFICES ASSUME NEW q \in Run, phase'[q] \in {"idle", "prior", "socket"}
                   PROVE  /\ q \notin live
                          /\ \A p \in Run : using'[p] # q
                          /\ \A a \in Agents : gateways[a] # q
        BY <2>2 DEF Unheld
      <4>1. q # r
        BY <3>1
      <4>2. /\ q \notin live
            /\ \A p \in Run : using[p] # q
            /\ \A a \in Agents : gateways[a] # q
        BY <1>5, <3>1, <4>1 DEF Unheld
      <4> QED BY <2>2, <3>1, <3>2, <4>2
    <3> QED BY <2>2, <3>1, <3>3, AdvanceKills DEF Early
  <2>3. ASSUME state[r] # "cancelled",
               using' = [using EXCEPT ![r] = r], phase[r] = "socket",
               gateways' = [gateways EXCEPT ![AgentOf(r)] = r], live' = live \cup {r},
               phase' = [phase EXCEPT ![r] = "start"],
               UNCHANGED <<state, snapshots, stops, answering>>
        PROVE  StopsInv'
    <3>1. /\ phase'[r] = "start" /\ using'[r] = r
          /\ \A q \in Run \ {r} : phase'[q] = phase[q] /\ using'[q] = using[q]
          /\ \A a \in Agents : gateways'[a] \in {gateways[a], r}
      BY <1>1, <2>3
    <3>2. Unheld(phase', using', gateways', live')
      <4> SUFFICES ASSUME NEW q \in Run, phase'[q] \in {"idle", "prior", "socket"}
                   PROVE  /\ q \notin live \cup {r}
                          /\ \A p \in Run : using'[p] # q
                          /\ \A a \in Agents : gateways'[a] # q
        BY <2>3 DEF Unheld
      <4>1. q # r
        BY <3>1
      <4>2. /\ q \notin live
            /\ \A p \in Run : using[p] # q
            /\ \A a \in Agents : gateways[a] # q
        BY <1>5, <3>1, <4>1 DEF Unheld
      <4> QED BY <3>1, <4>1, <4>2
    <3>3. \A q \in Run : using[q] # r
      BY <1>5, <2>3 DEF Unheld
    <3>4. \A q \in Run : phase[q] = "prompt" /\ using[q] \in live' => using[q] \in live
      BY <2>3, <3>3
    <3> QED BY <2>3, <3>1, <3>2, <3>4, AdvanceKills DEF Early
  <2> QED BY <1>8, <2>1, <2>2, <2>3 DEF SocketReady, OutsideExecute
<1>9. CASE PrepareFails(r)
  BY <1>2, <1>3, <1>9 DEF PrepareFails
<1>10. CASE GatewayReady(r)
  <2>1. /\ phase[r] = "start" /\ phase' = [phase EXCEPT ![r] = "session"]
        /\ UNCHANGED <<state, snapshots, using, gateways, live, stops, answering>>
    BY <1>10 DEF GatewayReady, OutsideExecute
  <2>2. Unheld(phase', using', gateways', live')
    BY <1>1, <1>5, <2>1 DEF Unheld
  <2> QED BY <2>1, <2>2, AdvanceKills DEF Early
<1>11. CASE GatewayStartFails(r)
  <2> DEFINE gws == [gateways EXCEPT ![AgentOf(r)] = None]
  <2>1. gws \in [Agents -> Run \cup {None}] /\ \A a \in Agents : gws[a] \in {gateways[a], None}
    BY <1>1
  <2>2. Finish(r, EndState(r, "failed"), gws) /\ UNCHANGED <<live, OutsideExecute>> /\ phase[r] # "idle"
    BY <1>11 DEF GatewayStartFails
  <2> HIDE DEF gws
  <2> QED BY <1>2, <2>1, <2>2, FinishKills
<1>12. CASE SessionCreated(r)
  <2>1. CASE state[r] = "cancelled"
    BY <1>2, <1>3, <1>12, <2>1 DEF SessionCreated
  <2>2. CASE state[r] # "cancelled"
    <3>1. /\ phase[r] = "session" /\ phase' = [phase EXCEPT ![r] = "prompt"]
          /\ UNCHANGED <<state, snapshots, using, gateways, live, stops, answering>>
      BY <1>12, <2>2 DEF SessionCreated, OutsideExecute
    <3>2. Unheld(phase', using', gateways', live')
      BY <1>1, <1>5, <3>1 DEF Unheld
    <3> QED BY <2>2, <3>1, <3>2, AdvanceKills DEF Early
  <2> QED BY <2>1, <2>2
<1>13. CASE PromptCompletes(r)
  BY <1>2, <1>3, <1>13 DEF PromptCompletes
<1>14. ASSUME NEW outcome \in {"failed", "interrupted"}, SessionFails(r, outcome)
       PROVE  StopsInv'
  BY <1>2, <1>3, <1>14 DEF SessionFails
<1>15. ASSUME NEW outcome \in {"failed", "interrupted"}, PromptFails(r, outcome)
       PROVE  StopsInv'
  BY <1>2, <1>3, <1>15 DEF PromptFails
<1> QED BY <1>6, <1>7, <1>8, <1>9, <1>10, <1>11, <1>12, <1>13, <1>14, <1>15 DEF Executes

(* Hermes exits, asks or confirms.                                         *)
LEMMA HermesKills ==
  ASSUME IInv, StopsInv, NEW r \in Run,
         \/ GatewayExits(r) \/ GatewayCrashes(r)
         \/ \E waiting \in Requests : AsksOperator(r, waiting)
         \/ AnswerApproval(r) \/ AnswerConfirmed(r) \/ AnswerLost(r)
  PROVE  StopsInv'
PROOF
<1>1. /\ state \in [Run -> RunState] /\ answering \in [Run -> Run \cup {None}]
      /\ live \subseteq Run
  BY DEF IInv, TypeOK
<1>2. UNCHANGED <<snapshots, phase, using, gateways, stops>> /\ live' \subseteq live
  BY DEF GatewayExits, GatewayCrashes, AsksOperator, AnswerApproval, AnswerConfirmed,
         AnswerLost, database, memory
<1>3. \/ state' = state
      \/ /\ phase[r] \in {"prompt", "done"}
         /\ \E to \in ActiveStates : state' = [state EXCEPT ![r] = to]
  <2>1. ASSUME AnswerConfirmed(r) PROVE phase[r] \in {"prompt", "done"}
    BY <1>1, <2>1 DEF AnswerConfirmed, StopsInv, Prompted, None, Run
  <2> QED BY <2>1, InputsAssumption
          DEF GatewayExits, GatewayCrashes, AsksOperator, AnswerApproval, AnswerConfirmed,
              AnswerLost, database, ActiveStates
<1>4. Prompted(answering', phase)
  <2>1. \/ answering' = answering
        \/ answering' = [answering EXCEPT ![r] = None]
        \/ phase[r] = "prompt" /\ answering' = [answering EXCEPT ![r] = using[r]]
    BY DEF GatewayExits, GatewayCrashes, AsksOperator, AnswerApproval, AnswerConfirmed,
           AnswerLost, memory
  <2> QED BY <1>1, <2>1 DEF StopsInv, Prompted
<1>5. \A q \in Run : \/ state'[q] = state[q]
                     \/ phase[q] \in {"prompt", "done"} /\ state'[q] # "cancelled"
  BY <1>1, <1>3 DEF ActiveStates
<1>6. Awaited(state', phase, using, stops, snapshots)
  BY <1>5 DEF StopsInv, Awaited, Early
<1>7. Killed(state', phase, using, stops, live')
  BY <1>2, <1>5 DEF StopsInv, Killed
<1>8. Unheld(phase, using, gateways, live') /\ Resting(stops)
  BY <1>2 DEF StopsInv, Unheld
<1> QED BY <1>2, <1>4, <1>6, <1>7, <1>8 DEF StopsInv

(* A restart leaves no gateway and no request.                             *)
LEMMA RestartKills == ASSUME IInv, Restart PROVE StopsInv'
PROOF
<1>1. /\ \A r \in Run : phase'[r] = "idle" /\ using'[r] = None /\ answering'[r] = None
      /\ \A a \in Agents : gateways'[a] = None
      /\ \A s \in Stoppers : stops'[s].cur = None
      /\ live' = {}
  BY DEF Restart, NoStop
<1>2. None \notin Run
  BY DEF None, Run
<1> QED BY <1>1, <1>2 DEF StopsInv, Unheld, Resting, Awaited, Prompted, Killed

(* The invariant holds throughout.                                         *)
LEMMA StopsInvHolds == Spec => []StopsInv
PROOF
<1>1. Init => StopsInv
  <2> SUFFICES ASSUME Init PROVE StopsInv
    OBVIOUS
  <2>1. None \notin Run
    BY DEF None, Run
  <2>2. \A s \in Stoppers : stops[s].cur = None
    BY DEF Init, NoStop
  <2> QED BY <2>1, <2>2 DEF Init, StopsInv, Unheld, Resting, Awaited, Prompted, Killed
<1>2. IInv /\ StopsInv /\ [Next]_vars => StopsInv'
  <2> SUFFICES ASSUME IInv, StopsInv, [Next]_vars PROVE StopsInv'
    OBVIOUS
  <2>1. ASSUME UNCHANGED <<state, snapshots, phase, using, gateways, stops, answering, live>>
        PROVE  StopsInv'
    BY <2>1 DEF StopsInv
  <2>2. CASE UNCHANGED vars
    BY <2>1, <2>2 DEF vars, database, memory
  <2>3. ASSUME NEW r \in Run, Executes(r) PROVE StopsInv'
    BY <2>3, ExecutesKill
  <2>4. ASSUME NEW r \in Run, NEW a \in Agents, NEW task \in TaskKinds, CreateRun(r, a, task)
        PROVE  StopsInv'
    BY <2>4, InsertKills DEF CreateRun
  <2>5. ASSUME NEW r \in Run, NEW parent \in Run, NEW child \in Run, NEW a \in Agents,
               Handoff(r, parent, child, a)
        PROVE  StopsInv'
    BY <2>5, InsertKills DEF Handoff
  <2>6. ASSUME NEW r \in Run, HandoffReturns(r) \/ HandoffTimesOut(r) PROVE StopsInv'
    BY <2>1, <2>6 DEF HandoffReturns, HandoffTimesOut, database
  <2>7. ASSUME NEW r \in Run,
               \/ GatewayExits(r) \/ GatewayCrashes(r)
               \/ \E waiting \in Requests : AsksOperator(r, waiting)
               \/ AnswerApproval(r) \/ AnswerConfirmed(r) \/ AnswerLost(r)
        PROVE  StopsInv'
    BY <2>7, HermesKills
  <2>8. ASSUME NEW s \in Stoppers,
               (\E roots \in StopTargets : RequestStop(s, roots)) \/ Stops(s)
        PROVE  StopsInv'
    BY <2>8, StopsKill
  <2>9. CASE Restart
    BY <2>9, RestartKills
  <2> QED BY <2>2, <2>3, <2>4, <2>5, <2>6, <2>7, <2>8, <2>9, Zenon DEF Next
<1> QED BY <1>1, <1>2, Invariance, PTL DEF Spec

(* A run recorded as cancelled has no Hermes working for it once its stop  *)
(* is over, wherever the stop found its coroutine, and whatever requests,  *)
(* answers, failures, crashes and other stops come in between.             *)
THEOREM CancelledStops == Spec => []CancelledIsStopped
PROOF
<1>1. StopsInv => CancelledIsStopped
  BY DEF StopsInv, Killed, CancelledIsStopped, Working
<1> QED BY <1>1, StopsInvHolds, PTL

-----------------------------------------------------------------------------
(* Sessions.                                                               *)

(* Two runs of one agent have Hermes working only while a stop request     *)
(* awaits one of them.                                                     *)
OverlapIsStopped ==
  \A q, r \in Run :
    Working(q) /\ Working(r) /\ AgentOf(q) = AgentOf(r) /\ q # r
      => \E s \in Stoppers : stops[s].cur \in {q, r}

(* So it is for any number of stop requests at once: of the two runs one   *)
(* is cancelled, and the request that cancelled it has not returned.       *)
THEOREM SecondSessionStops == ASSUME ~ Revised PROVE Spec => []OverlapIsStopped
PROOF
<1>1. IInv /\ EndsOnce /\ AgentExclusive /\ CancelledIsStopped => OverlapIsStopped
  <2> SUFFICES ASSUME IInv, EndsOnce, AgentExclusive, CancelledIsStopped,
                      NEW q \in Run, NEW r \in Run, Working(q), Working(r),
                      AgentOf(q) = AgentOf(r), q # r
               PROVE  \E s \in Stoppers : stops[s].cur \in {q, r}
    BY DEF OverlapIsStopped
  <2>1. \A p \in {q, r} : state[p] \in ActiveStates \/ state[p] = "cancelled"
    BY DEF EndsOnce, Sound, Working
  <2>2. PICK p \in {q, r} : state[p] = "cancelled"
    BY <2>1 DEF AgentExclusive, Active
  <2> QED BY <2>2 DEF CancelledIsStopped
<1>2. InTime
  BY DEF InTime, Revised
<1>3. Spec => []AgentExclusive
  BY <1>2, AgentsExclusive
<1> QED BY <1>1, <1>3, Invariance, EndsOnceHolds, CancelledStops, PTL

(* README "Existing-desktop sessions are serialized", as far as stops let  *)
(* it: while listRuns() returns the whole table, of two sessions on the    *)
(* desktop one is of a run that a stop request awaits.                     *)
THEOREM DesktopsSerialized ==
  ASSUME ~ Revised, ListLimit >= MaxRuns PROVE Spec => []DesktopSerialized
PROOF
<1>1. IInv /\ EndsOnce /\ DesktopExclusive /\ CancelledIsStopped => DesktopSerialized
  <2> SUFFICES ASSUME IInv, EndsOnce, DesktopExclusive, CancelledIsStopped,
                      NEW q \in Run, NEW r \in Run, q # r, Working(q), Working(r),
                      {AgentOf(q), AgentOf(r)} \subseteq ExistingDesktop
               PROVE  \E s \in Stoppers : stops[s].cur \in {q, r}
    BY DEF DesktopSerialized
  <2>1. \A p \in {q, r} : state[p] \in ActiveStates \/ state[p] = "cancelled"
    BY DEF EndsOnce, Sound, Working
  <2>2. PICK p \in {q, r} : state[p] = "cancelled"
    BY <2>1 DEF DesktopExclusive, Active
  <2> QED BY <2>2 DEF CancelledIsStopped
<1>2. InTime
  BY DEF InTime, Revised
<1>3. Spec => []DesktopExclusive
  BY <1>2, DesktopsExclusive
<1> QED BY <1>1, <1>3, Invariance, EndsOnceHolds, CancelledStops, PTL

(* One stop request is served at a time.                                   *)
OneStopper == \A s, t \in Stoppers : s = t

(* Then the agent of the run it awaits is held back from admission.        *)
Held ==
  \A s \in Stoppers, r \in Run : stops[s].cur = r =>
    /\ AgentOf(r) \in stopping
    /\ \A q \in Active(state) : AgentOf(q) # AgentOf(r)

(* A step that is not one of a stop request admits none of its runs.       *)
LEMMA StaysHeld ==
  ASSUME IInv, Held, UNCHANGED <<stops, stopping>>,
         \A q \in Run : state[q] # "absent" => row'[q] = row[q],
         NEW st, Active(st) \subseteq Active(state),
         \/ state' = st
         \/ \E ph, us, gws : Pump(row', st, ph, us, gws, stopping)
  PROVE  Held'
PROOF
<1> SUFFICES ASSUME NEW s \in Stoppers, NEW r \in Run, stops[s].cur = r,
                    NEW q \in Active(state')
             PROVE  AgentOf(r)' \in stopping /\ AgentOf(q)' # AgentOf(r)'
  <2>1. ASSUME NEW s \in Stoppers, NEW r \in Run, stops[s].cur = r
        PROVE  AgentOf(r)' \in stopping
    BY <2>1 DEF IInv, StopsKnown, Held, AgentOf
  <2> QED BY <2>1 DEF Held
<1>1. /\ state[r] # "absent" /\ AgentOf(r) \in stopping
      /\ \A p \in Active(state) : AgentOf(p) # AgentOf(r)
  BY DEF IInv, StopsKnown, Held
<1>2. AgentOf(r)' = AgentOf(r)
  BY <1>1 DEF AgentOf
<1>3. ASSUME q \in Active(st) PROVE AgentOf(q)' # AgentOf(r)
  BY <1>1, <1>3 DEF AgentOf, Active, ActiveStates
<1>4. ASSUME \E ph, us, gws : Pump(row', st, ph, us, gws, stopping), q \notin Active(st)
      PROVE  AgentOf(q)' # AgentOf(r)
  <2>1. PICK ph, us, gws : Pump(row', st, ph, us, gws, stopping)
    BY <1>4, Zenon
  <2>2. PICK admitted \in SUBSET Queued(st) :
          /\ IsAdmission(row', st, stopping, admitted)
          /\ state' = [p \in Run |-> IF p \in admitted THEN "running" ELSE st[p]]
    BY <2>1, Zenon DEF Pump
  <2>3. q \in admitted /\ q \in Run
    BY <1>4, <2>2 DEF Active
  <2>4. row'[q].agent \notin stopping
    BY <2>2, <2>3 DEF IsAdmission, CanStart, AgentFree
  <2> QED BY <1>1, <2>4 DEF AgentOf
<1> QED BY <1>1, <1>2, <1>3, <1>4

(* A segment of stopRunTree marks the agent of the run it awaits, and that *)
(* run was the only active one of its agent.                               *)
LEMMA WalkHolds ==
  ASSUME ~ Revised, OneStopper, IInv, EndsOnce, AgentExclusive,
         NEW s \in Stoppers, NEW stop, NEW gws, NEW marks,
         \A q \in stop.todo : q \in Run /\ state[q] # "absent",
         Walk(s, stop, state, gws, marks), row' = row
  PROVE  Held'
PROOF
<1> DEFINE unfinished == {q \in stop.todo : state[q] \notin TerminalStates}
           waits == {q \in unfinished : GatewayToStop(q, state, gws) # None}
           cancel(ids) == [q \in Run |-> IF q \in ids THEN "cancelled" ELSE state[q]]
           earlier(next) == {q \in unfinished : Before(row, q, next)}
           free(next) == marks \ {AgentOf(q) : q \in earlier(next)}
           request(next) == [pc |-> IF phase[next] = "prompt" THEN "interrupt" ELSE "container",
                             roots |-> stop.roots,
                             todo  |-> {q \in stop.todo : Before(row, next, q)},
                             cur   |-> next,
                             gw    |-> GatewayToStop(next, state, gws)]
           over == IF stop.roots = {} THEN NoStop
                   ELSE [NoStop EXCEPT !.pc = "tree", !.roots = stop.roots]
<1>1. \/ stops' = [stops EXCEPT ![s] = over]
      \/ \E next \in waits :
           /\ stopping' = free(next) \cup {AgentOf(next)}
           /\ stops' = [stops EXCEPT ![s] = request(next)]
           /\ state' = cancel(earlier(next) \cup {next})
  BY Zenon DEF Walk
<1>2. s \in DOMAIN stops /\ state \in [Run -> RunState]
  BY DEF IInv, TypeOK
<1>3. CASE stops' = [stops EXCEPT ![s] = over]
  <2>1. over.cur = None
    BY DEF NoStop
  <2> HIDE DEF over
  <2>2. \A t \in Stoppers : stops'[t].cur = None
    BY <1>2, <1>3, <2>1 DEF OneStopper
  <2> QED BY <2>2 DEF Held, None, Run
<1>4. ASSUME NEW next \in waits,
             stopping' = free(next) \cup {AgentOf(next)},
             stops' = [stops EXCEPT ![s] = request(next)],
             state' = cancel(earlier(next) \cup {next})
      PROVE  Held'
  <2>1. next \in Run /\ state[next] # "absent" /\ state[next] \notin TerminalStates
        /\ GatewayToStop(next, state, gws) # None
    OBVIOUS
  <2>2. phase[next] = "prompt" \/ state[next] # "queued"
    BY <2>1 DEF GatewayToStop
  <2>3. next \in Active(state)
    BY <1>2, <2>1, <2>2 DEF EndsOnce, Sound, Active, RunState, TerminalStates
  <2>4. \A q \in Active(state') : q # next /\ q \in Active(state)
    BY <1>4 DEF Active, ActiveStates
  <2>5. \A q \in Active(state') : AgentOf(q) # AgentOf(next)
    BY <2>3, <2>4 DEF AgentExclusive
  <2>6. request(next).cur = next
    OBVIOUS
  <2>7. AgentOf(next) \in stopping'
    BY <1>4
  <2> HIDE DEF request, cancel, earlier, waits, unfinished
  <2>8. \A t \in Stoppers : stops'[t].cur = next
    BY <1>2, <1>4, <2>6 DEF OneStopper
  <2> QED BY <2>5, <2>7, <2>8 DEF Held, AgentOf
<1> HIDE DEF waits, request, over, cancel, free, earlier
<1> QED BY <1>1, <1>3, <1>4

(* A coroutine that goes on, ends, or starts others.                       *)
LEMMA ExecutesHold ==
  ASSUME IInv, Held, NEW r \in Run, Executes(r) PROVE Held'
PROOF
<1>1. state \in [Run -> RunState]
  BY DEF IInv, TypeOK
<1>2. ASSUME NEW outcome \in {"failed", "completed", "interrupted", "cancelled"}
      PROVE  outcome \in TerminalStates /\ EndState(r, outcome) \in TerminalStates
  BY DEF EndState, TerminalStates
<1>3. ASSUME NEW final \in TerminalStates, NEW gws, Finish(r, final, gws),
             UNCHANGED OutsideExecute
      PROVE  Held'
  <2> DEFINE st == [state EXCEPT ![r] = final]
             ph == [phase EXCEPT ![r] = "done"]
             us == [using EXCEPT ![r] = None]
  <2>1. Active(st) \subseteq Active(state)
    BY <1>1, <1>3 DEF Active, ActiveStates, TerminalStates
  <2>2. Pump(row', st, ph, us, gws, stopping)
    BY <1>3 DEF Finish, OutsideExecute
  <2>3. UNCHANGED <<stops, stopping, row>>
    BY <1>3 DEF OutsideExecute
  <2> HIDE DEF st, ph, us
  <2> QED BY <2>1, <2>2, <2>3, StaysHeld
<1>4. ASSUME state' = state, UNCHANGED OutsideExecute PROVE Held'
  BY <1>4, StaysHeld DEF OutsideExecute
<1>5. CASE SocketReady(r)
  <2>1. CASE state[r] = "cancelled"
    BY <1>2, <1>3, <1>5, <2>1 DEF SocketReady
  <2>2. CASE state[r] # "cancelled"
    BY <1>4, <1>5, <2>2 DEF SocketReady
  <2> QED BY <2>1, <2>2
<1>6. CASE SessionCreated(r)
  <2>1. CASE state[r] = "cancelled"
    BY <1>2, <1>3, <1>6, <2>1 DEF SessionCreated
  <2>2. CASE state[r] # "cancelled"
    BY <1>4, <1>6, <2>2 DEF SessionCreated
  <2> QED BY <2>1, <2>2
<1>7. CASE PriorStopped(r) \/ GatewayReady(r)
  BY <1>4, <1>7 DEF PriorStopped, GatewayReady
<1>8. CASE \/ PriorStopFails(r) \/ PrepareFails(r) \/ GatewayStartFails(r) \/ PromptCompletes(r)
  BY <1>2, <1>3, <1>8 DEF PriorStopFails, PrepareFails, GatewayStartFails, PromptCompletes
<1>9. ASSUME NEW outcome \in {"failed", "interrupted"},
             SessionFails(r, outcome) \/ PromptFails(r, outcome)
      PROVE  Held'
  BY <1>2, <1>3, <1>9 DEF SessionFails, PromptFails
<1> QED BY <1>5, <1>6, <1>7, <1>8, <1>9 DEF Executes

(* A run that is created may start with its agent only.                    *)
LEMMA InsertHolds ==
  ASSUME IInv, Held, NEW r \in Run, NEW a, NEW parent, NEW task,
         Insert(r, a, parent, task), UNCHANGED <<stops, stopping>>
  PROVE  Held'
PROOF
<1> DEFINE rows == [row EXCEPT ![r] = NewRow(a, parent, task)]
           st == [state EXCEPT ![r] = "queued"]
<1>1. Pump(row', st, phase, using, gateways, stopping) /\ state[r] = "absent" /\ row' = rows
  BY DEF Insert, IsNext
<1>2. state \in [Run -> RunState] /\ row \in [Run -> Row]
  BY DEF IInv, TypeOK
<1>3. Active(st) \subseteq Active(state)
  BY <1>2 DEF Active, ActiveStates
<1>4. \A q \in Run : state[q] # "absent" => row'[q] = row[q]
  BY <1>1, <1>2
<1> HIDE DEF st, rows
<1> QED BY <1>1, <1>3, <1>4, StaysHeld

(* Every step of a stop request, its first included.                       *)
LEMMA StopsHold ==
  ASSUME ~ Revised, OneStopper, IInv, EndsOnce, AgentExclusive, Held, NEW s \in Stoppers,
         Stops(s) \/ \E roots \in StopTargets : RequestStop(s, roots)
  PROVE  Held'
PROOF
<1>1. /\ stops[s] \in StopRequest /\ stops \in [Stoppers -> StopRequest] /\ StopsKnown
      /\ ParentsWritten
  BY DEF IInv, TypeOK
<1>2. /\ stops[s].roots \in SUBSET Run
      /\ \A q \in stops[s].todo : q \in Run /\ state[q] # "absent"
  BY <1>1 DEF StopRequest, StopsKnown
<1>3. ASSUME NEW roots \in SUBSET Run, \A q \in roots : state[q] # "absent",
             StopNewest(s, roots)
      PROVE  Held'
  <2>1. PICK root \in roots :
          /\ Walk(s, [NoStop EXCEPT !.roots = roots \ {root},
                                    !.todo  = {root} \cup Descendants(row, root)],
                  state, gateways, stopping)
          /\ UNCHANGED OutsideStop
    BY <1>3, Zenon DEF StopNewest
  <2> DEFINE stop == [NoStop EXCEPT !.roots = roots \ {root},
                                    !.todo  = {root} \cup Descendants(row, root)]
  <2>2. stop.todo = {root} \cup Descendants(row, root)
    BY DEF NoStop
  <2>3. \A q \in stop.todo : q \in Run /\ state[q] # "absent"
    BY <1>1, <1>3, <2>2, DescendantsWritten
  <2>4. Walk(s, stop, state, gateways, stopping) /\ row' = row
    BY <2>1 DEF OutsideStop
  <2> HIDE DEF stop
  <2> QED BY <2>3, <2>4, WalkHolds
<1>4. ASSUME NEW roots \in StopTargets, RequestStop(s, roots) PROVE Held'
  <2>1. roots \in SUBSET Run /\ \A q \in roots : state[q] # "absent"
    BY TargetsExist
  <2> QED BY <1>3, <1>4, <2>1 DEF RequestStop
<1>5. CASE NextTree(s)
  <2>1. \A q \in stops[s].roots : state[q] # "absent"
    BY <1>1, <1>2 DEF StopsKnown
  <2> QED BY <1>2, <1>3, <1>5, <2>1 DEF NextTree
<1>6. CASE InterruptReturns(s)
  <2>1. UNCHANGED <<state, row, stopping>> /\ stops' = [stops EXCEPT ![s].pc = "container"]
    BY <1>6 DEF InterruptReturns, database
  <2>2. \A t \in Stoppers : stops'[t].cur = stops[t].cur
    BY <1>1, <2>1
  <2> QED BY <2>1, <2>2 DEF Held, AgentOf
<1>7. CASE ContainerStopped(s)
  <2>1. (\E gws, marks : Walk(s, stops[s], state, gws, marks)) /\ row' = row
    BY <1>7, Zenon DEF ContainerStopped, OutsideStop
  <2> QED BY <1>2, <2>1, WalkHolds
<1>8. ~ ContainerStopFails(s)
  BY DEF ContainerStopFails, Revised
<1> QED BY <1>4, <1>5, <1>6, <1>7, <1>8 DEF Stops

(* README "The coordinator runs at most one task per agent", of the Hermes *)
(* sessions: while stop requests do not overlap, no two runs of an agent   *)
(* have Hermes working.                                                    *)
THEOREM SessionsExclusive ==
  ASSUME ~ Revised, OneStopper PROVE Spec => []OneSession
PROOF
<1>1. InTime
  BY DEF InTime, Revised
<1>2. Spec => []AgentExclusive
  BY <1>1, AgentsExclusive
<1>3. Init => Held
  BY DEF Init, Held, NoStop, None, Run
<1>4. IInv /\ EndsOnce /\ AgentExclusive /\ Held /\ [Next]_vars => Held'
  <2> SUFFICES ASSUME IInv, EndsOnce, AgentExclusive, Held, [Next]_vars PROVE Held'
    OBVIOUS
  <2>1. ASSUME Active(state') \subseteq Active(state), UNCHANGED <<row, stops, stopping>>
        PROVE  Held'
    BY <2>1, StaysHeld
  <2>2. ASSUME UNCHANGED <<state, row, stops, stopping>> PROVE Held'
    BY <2>1, <2>2
  <2>3. CASE UNCHANGED vars
    BY <2>2, <2>3 DEF vars, database, memory
  <2>4. ASSUME NEW r \in Run, Executes(r) PROVE Held'
    BY <2>4, ExecutesHold
  <2>5. ASSUME NEW r \in Run, NEW a \in Agents, NEW task \in TaskKinds, CreateRun(r, a, task)
        PROVE  Held'
    BY <2>5, InsertHolds DEF CreateRun
  <2>6. ASSUME NEW r \in Run, NEW parent \in Run, NEW child \in Run, NEW a \in Agents,
               Handoff(r, parent, child, a)
        PROVE  Held'
    BY <2>6, InsertHolds DEF Handoff
  <2>7. ASSUME NEW r \in Run,
               \/ HandoffReturns(r) \/ HandoffTimesOut(r) \/ GatewayExits(r)
               \/ GatewayCrashes(r) \/ AnswerApproval(r) \/ AnswerLost(r)
        PROVE  Held'
    BY <2>2, <2>7 DEF HandoffReturns, HandoffTimesOut, GatewayExits, GatewayCrashes,
                      AnswerApproval, AnswerLost, database, memory
  <2>8. ASSUME NEW r \in Run,
               (\E waiting \in Requests : AsksOperator(r, waiting)) \/ AnswerConfirmed(r)
        PROVE  Held'
    <3>1. UNCHANGED <<row, stops, stopping>> /\ state[r] \in ActiveStates
      BY <2>8 DEF AsksOperator, AnswerConfirmed, memory, Revised
    <3>2. PICK to : state' = [state EXCEPT ![r] = to]
      BY <2>8 DEF AsksOperator, AnswerConfirmed
    <3>3. Active(state') \subseteq Active(state)
      BY <3>1, <3>2 DEF Active, IInv, TypeOK
    <3> QED BY <2>1, <3>1, <3>3
  <2>9. ASSUME NEW s \in Stoppers,
               (\E roots \in StopTargets : RequestStop(s, roots)) \/ Stops(s)
        PROVE  Held'
    BY <2>9, StopsHold
  <2>10. CASE Restart
    <3>1. \A s \in Stoppers : stops'[s].cur = None
      BY <2>10 DEF Restart, NoStop
    <3> QED BY <3>1 DEF Held, None, Run
  <2> QED BY <2>3, <2>4, <2>5, <2>6, <2>7, <2>8, <2>9, <2>10, Zenon DEF Next
<1>5. EndsOnce /\ CancelledIsStopped /\ Held /\ AgentExclusive => OneSession
  <2> SUFFICES ASSUME EndsOnce, CancelledIsStopped, Held, AgentExclusive,
                      NEW q \in Run, NEW r \in Run, Working(q), Working(r),
                      AgentOf(q) = AgentOf(r)
               PROVE  q = r
    BY DEF OneSession
  <2>1. ASSUME NEW p \in {q, r}
        PROVE  \/ state[p] \in ActiveStates
               \/ \E s \in Stoppers : stops[s].cur = p
    BY DEF EndsOnce, Sound, CancelledIsStopped, Working
  <2>2. CASE state[q] \in ActiveStates /\ state[r] \in ActiveStates
    BY <2>2 DEF AgentExclusive, Active
  <2>3. CASE \E s \in Stoppers : stops[s].cur = q
    <3>1. state[r] \notin ActiveStates
      BY <2>3 DEF Held, Active
    <3> QED BY <2>1, <2>3, <3>1 DEF OneStopper
  <2>4. CASE \E s \in Stoppers : stops[s].cur = r
    <3>1. state[q] \notin ActiveStates
      BY <2>4 DEF Held, Active
    <3> QED BY <2>1, <2>4, <3>1 DEF OneStopper
  <2> QED BY <2>1, <2>2, <2>3, <2>4
<1> QED BY <1>2, <1>3, <1>4, <1>5, Invariance, EndsOnceHolds, CancelledStops, PTL DEF Spec
=============================================================================
