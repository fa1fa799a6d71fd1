-------------------------- MODULE CoordinatorProofs --------------------------
(***************************************************************************)
(* Theorems about Coordinator, for any number of agents, runs and stop     *)
(* requests and any limits.                                                *)
(*                                                                         *)
(* IInv is the inductive invariant: the types, NeverReplayed, and four     *)
(* facts that later steps read: which rows exist, and that stop requests   *)
(* and approval answers are about runs that do.                            *)
(***************************************************************************)
EXTENDS Coordinator, RunTableProofs

(* Exactly the runs that exist have an agent.                              *)
RowsWritten == \A r \in Run : state[r] # "absent" <=> AgentOf(r) \in Agents

(* A row that names a parent exists.                                       *)
ParentsWritten == \A r \in Run : row[r].parent # None => state[r] # "absent"

(* A stop request goes through runs that exist.                            *)
StopsKnown ==
  \A s \in Stoppers, r \in Run :
    r \in stops[s].roots \cup stops[s].todo \cup {stops[s].cur} => state[r] # "absent"

(* An approval is answered for a run that has begun.                       *)
AnswersBegun == \A r \in Run : answering[r] # None => r \in snapshots

IInv ==
  /\ TypeOK /\ NeverReplayed
  /\ RowsWritten /\ ParentsWritten /\ StopsKnown /\ AnswersBegun

(* What a step may do to the table of runs: leave its rows alone, or       *)
(* insert one.                                                             *)
SameRuns ==
  row' = row /\ \A q \in Run : state'[q] # "absent" <=> state[q] # "absent"

NewRun(r, a, parent, task) ==
  /\ IsNext(state, r)
  /\ row' = [row EXCEPT ![r] = NewRow(a, parent, task)]
  /\ \A q \in Run : state'[q] # "absent" <=> (q = r \/ state[q] # "absent")

(* What a step may do to the active runs: end some, and admit others by    *)
(* pump()'s test.                                                          *)
Admission(rows, st, stop) ==
  \E admitted \in SUBSET Queued(st) :
    /\ IsAdmission(rows, st, stop, admitted)
    /\ Active(state') = Active(st) \cup admitted

ActiveStep ==
  \/ Active(state') \subseteq Active(state)
  \/ \E st, stop : Active(st) \subseteq Active(state) /\ Admission(row', st, stop)

(* What all steps but insertions and late answers do.                      *)
Keeps == IInv' /\ SameRuns /\ ActiveStep

-----------------------------------------------------------------------------
(* What pump() may be called with, and what it leaves behind.              *)

ReadyToPump(rows, st, ph, us, gws) ==
  /\ st \in [Run -> RunState]
  /\ ph \in [Run -> Phases]
  /\ us \in [Run -> Run \cup {None}]
  /\ gws \in [Agents -> Run \cup {None}]
  /\ \A r \in Run : st[r] # "absent" => rows[r].agent \in Agents
  /\ \A r \in Run :
       /\ st[r] \in {"absent", "queued"} => r \notin snapshots
       /\ ph[r] # "idle" => r \in snapshots
       /\ st[r] \in ActiveStates \cup {"completed", "failed"} => r \in snapshots

(* pump() keeps the types and NeverReplayed, creates and forgets no run,   *)
(* and takes no snapshot away.                                             *)
LEMMA PumpKeeps ==
  ASSUME NEW rows, NEW st, NEW ph, NEW us, NEW gws, NEW stop,
         snapshots \subseteq Run,
         ReadyToPump(rows, st, ph, us, gws),
         Pump(rows, st, ph, us, gws, stop)
  PROVE  /\ state' \in [Run -> RunState]
         /\ phase' \in [Run -> Phases]
         /\ using' \in [Run -> Run \cup {None}]
         /\ snapshots' \subseteq Run
         /\ snapshots \subseteq snapshots'
         /\ NeverReplayed'
         /\ \A r \in Run : state'[r] = "absent" <=> st[r] = "absent"
         /\ Admission(rows, st, stop)
PROOF
<1>1. PICK admitted \in SUBSET Queued(st) :
        /\ IsAdmission(rows, st, stop, admitted)
        /\ state' = [r \in Run |-> IF r \in admitted THEN "running" ELSE st[r]]
        /\ snapshots' = snapshots \cup admitted
        /\ using' = [r \in Run |->
                       IF r \in admitted THEN gws[rows[r].agent] ELSE us[r]]
        /\ phase' = [r \in Run |->
                       IF r \notin admitted THEN ph[r]
                       ELSE IF gws[rows[r].agent] = None THEN "socket" ELSE "prior"]
  BY Zenon DEF Pump
<1>2. \A r \in admitted : r \in Run /\ st[r] = "queued"
  BY DEF Queued
<1>3. state' \in [Run -> RunState]
  BY <1>1 DEF ReadyToPump, RunState, ActiveStates
<1>4. phase' \in [Run -> Phases]
  BY <1>1 DEF ReadyToPump, Phases
<1>5. using' \in [Run -> Run \cup {None}]
  <2>1. \A r \in admitted : gws[rows[r].agent] \in Run \cup {None}
    BY <1>2 DEF ReadyToPump
  <2> QED BY <1>1, <2>1 DEF ReadyToPump
<1>6. snapshots' \subseteq Run /\ snapshots \subseteq snapshots'
  BY <1>1, <1>2
<1>7. \A r \in Run : state'[r] = "absent" <=> st[r] = "absent"
  BY <1>1, <1>2
<1>8. NeverReplayed'
  <2> SUFFICES ASSUME NEW r \in Run
               PROVE  /\ state'[r] \in {"absent", "queued"} => r \notin snapshots'
                      /\ phase'[r] # "idle" => r \in snapshots'
                      /\ state'[r] \in ActiveStates \cup {"completed", "failed"}
                           => r \in snapshots'
    BY DEF NeverReplayed
  <2>1. CASE r \in admitted
    BY <1>1, <2>1
  <2>2. CASE r \notin admitted
    <3>1. state'[r] = st[r] /\ phase'[r] = ph[r] /\ (r \in snapshots' <=> r \in snapshots)
      BY <1>1, <2>2
    <3> QED BY <3>1 DEF ReadyToPump
  <2> QED BY <2>1, <2>2
<1>9. Admission(rows, st, stop)
  <2>1. Active(state') = Active(st) \cup admitted
    BY <1>1, <1>2 DEF Active, ActiveStates
  <2> QED BY <1>1, <2>1 DEF Admission
<1> QED BY <1>3, <1>4, <1>5, <1>6, <1>7, <1>8, <1>9

(* Insert adds one queued run and pumps.                                   *)
LEMMA ReadyAfterInsert ==
  ASSUME IInv, NEW r \in Run, NEW a \in Agents, NEW parent, NEW task,
         IsNext(state, r),
         NEW rows, rows = [row EXCEPT ![r] = NewRow(a, parent, task)]
  PROVE  ReadyToPump(rows, [state EXCEPT ![r] = "queued"], phase, using, gateways)
PROOF
<1> DEFINE st == [state EXCEPT ![r] = "queued"]
<1>1. TypeOK /\ NeverReplayed /\ RowsWritten
  BY DEF IInv
<1>2. state[r] = "absent"
  BY DEF IsNext
<1>3. st \in [Run -> RunState]
  BY <1>1 DEF TypeOK, RunState
<1>4. \A q \in Run : st[q] # "absent" => rows[q].agent \in Agents
  <2> SUFFICES ASSUME NEW q \in Run, st[q] # "absent" PROVE rows[q].agent \in Agents
    OBVIOUS
  <2>1. CASE q = r
    BY <1>1, <2>1 DEF TypeOK, NewRow
  <2>2. CASE q # r
    BY <1>1, <2>2 DEF TypeOK, RowsWritten, AgentOf
  <2> QED BY <2>1, <2>2
<1>5. ASSUME NEW q \in Run
      PROVE  /\ st[q] \in {"absent", "queued"} => q \notin snapshots
             /\ phase[q] # "idle" => q \in snapshots
             /\ st[q] \in ActiveStates \cup {"completed", "failed"} => q \in snapshots
  <2>1. CASE q = r
    BY <1>1, <1>2, <2>1 DEF TypeOK, NeverReplayed, ActiveStates
  <2>2. CASE q # r
    BY <1>1, <2>2 DEF TypeOK, NeverReplayed
  <2> QED BY <2>1, <2>2
<1> QED BY <1>1, <1>3, <1>4, <1>5 DEF ReadyToPump, TypeOK

(* A step that inserts a row, below a parent of depth zero or one if any.  *)
LEMMA InsertKeeps ==
  ASSUME IInv, NEW r \in Run, NEW a \in Agents,
         NEW parent \in Run \cup {None}, NEW task \in BOOLEAN,
         parent # None => row[parent].depth < 2,
         Insert(r, a, parent, task),
         awaiting' \in [Run -> Run \cup {None}],
         UNCHANGED <<approvals, gateways, stopping, stops, answering, live, restarts>>
  PROVE  IInv' /\ NewRun(r, a, parent, task) /\ ActiveStep
PROOF
<1> DEFINE rows == [row EXCEPT ![r] = NewRow(a, parent, task)]
           st   == [state EXCEPT ![r] = "queued"]
<1>1. /\ IsNext(state, r) /\ row' = rows
      /\ Pump(rows, st, phase, using, gateways, stopping)
  BY DEF Insert
<1>2. TypeOK /\ RowsWritten /\ ParentsWritten /\ StopsKnown /\ AnswersBegun
  BY DEF IInv
<1>3. ReadyToPump(rows, st, phase, using, gateways)
  BY <1>1, ReadyAfterInsert
<1>4. snapshots \subseteq Run
  BY <1>2 DEF TypeOK
<1>5. /\ state' \in [Run -> RunState]
      /\ phase' \in [Run -> Phases]
      /\ using' \in [Run -> Run \cup {None}]
      /\ snapshots' \subseteq Run
      /\ snapshots \subseteq snapshots'
      /\ NeverReplayed'
      /\ \A q \in Run : state'[q] = "absent" <=> st[q] = "absent"
      /\ Admission(rows, st, stopping)
  BY <1>1, <1>3, <1>4, PumpKeeps
<1>6. NewRow(a, parent, task) \in Row
  <2>1. CASE parent = None
    BY <2>1 DEF NewRow, Row
  <2>2. CASE parent # None
    <3>1. row[parent].depth \in 0 .. 2 /\ row[parent].depth < 2
      BY <1>2, <2>2 DEF TypeOK, Row
    <3>2. row[parent].depth + 1 \in 0 .. 2
      BY <3>1
    <3> QED BY <2>2, <3>2 DEF NewRow, Row
  <2> QED BY <2>1, <2>2
<1>7. row' \in [Run -> Row]
  BY <1>1, <1>2, <1>6 DEF TypeOK
<1>8. TypeOK'
  BY <1>2, <1>5, <1>7 DEF TypeOK
<1>9. \A q \in Run : state'[q] # "absent" <=> (q = r \/ state[q] # "absent")
  BY <1>2, <1>5 DEF TypeOK
<1>10. \A q \in Run : q # r => row'[q] = row[q]
  BY <1>1, <1>2 DEF TypeOK
<1>11. row'[r] = NewRow(a, parent, task)
  BY <1>1, <1>2 DEF TypeOK
<1>12. RowsWritten'
  <2>1. row'[r].agent \in Agents
    BY <1>11 DEF NewRow
  <2> QED BY <1>2, <1>9, <1>10, <2>1 DEF RowsWritten, AgentOf
<1>13. ParentsWritten'
  BY <1>2, <1>9, <1>10 DEF ParentsWritten
<1>14. StopsKnown'
  BY <1>2, <1>9 DEF StopsKnown
<1>15. AnswersBegun'
  BY <1>2, <1>5 DEF AnswersBegun
<1>16. NewRun(r, a, parent, task)
  BY <1>1, <1>9 DEF NewRun
<1>17. ActiveStep
  <2>1. Active(st) \subseteq Active(state)
    BY <1>2 DEF Active, ActiveStates, TypeOK
  <2> QED BY <1>1, <1>5, <2>1 DEF ActiveStep
<1> QED BY <1>5, <1>8, <1>12, <1>13, <1>14, <1>15, <1>16, <1>17 DEF IInv

-----------------------------------------------------------------------------
(* A coroutine that ends.                                                  *)

(* A coroutine that ends leaves its run terminal and pumps.                *)
LEMMA FinishKeeps ==
  ASSUME IInv, NEW r \in Run, NEW final \in TerminalStates,
         NEW gws \in [Agents -> Run \cup {None}],
         phase[r] # "idle",
         Finish(r, final, gws),
         UNCHANGED <<live, OutsideExecute>>
  PROVE  Keeps
PROOF
<1> DEFINE st == [state EXCEPT ![r] = final]
           ph == [phase EXCEPT ![r] = "done"]
           us == [using EXCEPT ![r] = None]
<1>1. /\ awaiting' = [awaiting EXCEPT ![r] = None]
      /\ gateways' = gws
      /\ Pump(row, st, ph, us, gws, stopping)
  BY DEF Finish
<1>2. /\ TypeOK /\ NeverReplayed
      /\ RowsWritten /\ ParentsWritten /\ StopsKnown /\ AnswersBegun
  BY DEF IInv
<1>3. UNCHANGED <<live, row, approvals, stopping, stops, answering, restarts>>
  BY DEF OutsideExecute
<1>4. r \in snapshots /\ state[r] # "absent"
  BY <1>2 DEF NeverReplayed
<1>5. st \in [Run -> RunState] /\ ph \in [Run -> Phases] /\ us \in [Run -> Run \cup {None}]
  BY <1>2 DEF TypeOK, RunState, Phases
<1>6. \A q \in Run : st[q] # "absent" <=> state[q] # "absent"
  BY <1>2, <1>4 DEF TypeOK, TerminalStates
<1>7. ASSUME NEW q \in Run
      PROVE  /\ st[q] \in {"absent", "queued"} => q \notin snapshots
             /\ ph[q] # "idle" => q \in snapshots
             /\ st[q] \in ActiveStates \cup {"completed", "failed"} => q \in snapshots
  <2>1. CASE q = r
    BY <1>2, <1>4, <2>1 DEF TypeOK, TerminalStates
  <2>2. CASE q # r
    BY <1>2, <2>2 DEF TypeOK, NeverReplayed
  <2> QED BY <2>1, <2>2
<1>8. ReadyToPump(row, st, ph, us, gws)
  BY <1>2, <1>5, <1>6, <1>7 DEF ReadyToPump, RowsWritten, AgentOf
<1>9. snapshots \subseteq Run
  BY <1>2 DEF TypeOK
<1>10. /\ state' \in [Run -> RunState]
       /\ phase' \in [Run -> Phases]
       /\ using' \in [Run -> Run \cup {None}]
       /\ snapshots' \subseteq Run
       /\ snapshots \subseteq snapshots'
       /\ NeverReplayed'
       /\ \A q \in Run : state'[q] = "absent" <=> st[q] = "absent"
       /\ Admission(row, st, stopping)
  BY <1>1, <1>8, <1>9, PumpKeeps
<1>11. TypeOK'
  BY <1>1, <1>2, <1>3, <1>10 DEF TypeOK
<1>12. \A q \in Run : state'[q] # "absent" <=> state[q] # "absent"
  BY <1>6, <1>10
<1>13. RowsWritten' /\ ParentsWritten'
  BY <1>2, <1>3, <1>12 DEF RowsWritten, ParentsWritten, AgentOf
<1>14. StopsKnown'
  BY <1>2, <1>3, <1>12 DEF StopsKnown
<1>15. AnswersBegun'
  BY <1>2, <1>3, <1>10 DEF AnswersBegun
<1>16. SameRuns
  BY <1>3, <1>12 DEF SameRuns
<1>17. ActiveStep
  <2>1. Active(st) \subseteq Active(state)
    BY <1>2 DEF Active, ActiveStates, TerminalStates, TypeOK
  <2> QED BY <1>3, <1>10, <2>1 DEF ActiveStep
<1> QED BY <1>10, <1>11, <1>13, <1>14, <1>15, <1>16, <1>17 DEF IInv, Keeps

-----------------------------------------------------------------------------
(* One segment of stopRunTree.                                             *)

(* A segment cancels unfinished runs of its tree, then awaits or pumps.    *)
LEMMA WalkKeeps ==
  ASSUME IInv, NEW s \in Stoppers, NEW stop \in StopRequest,
         NEW st \in [Run -> RunState],
         NEW gws \in [Agents -> Run \cup {None}], NEW marks \in SUBSET Agents,
         \A q \in Run : st[q] = state[q] \/ (st[q] = "interrupted" /\ state[q] # "absent"),
         \A q \in Run : q \in stop.roots \cup stop.todo => state[q] # "absent",
         Walk(s, stop, st, gws, marks),
         live' \subseteq live, UNCHANGED OutsideStop
  PROVE  Keeps
PROOF
<1> DEFINE unfinished == {q \in stop.todo : st[q] \notin TerminalStates}
           waits == {q \in unfinished : GatewayToStop(q, st, gws) # None}
           marksAfter(quick) == marks \ {AgentOf(q) : q \in quick}
           cancel(ids) == [q \in Run |-> IF q \in ids THEN "cancelled" ELSE st[q]]
<1>1. /\ TypeOK /\ NeverReplayed
      /\ RowsWritten /\ ParentsWritten /\ StopsKnown /\ AnswersBegun
  BY DEF IInv
<1>2. live' \subseteq live /\ UNCHANGED <<row, approvals, awaiting, answering, restarts>>
  BY DEF OutsideStop
<1>3. /\ stop.roots \subseteq Run /\ stop.todo \subseteq Run
      /\ unfinished \subseteq Run
  BY DEF StopRequest
<1>4. \A q \in unfinished : state[q] # "absent" /\ AgentOf(q) \in Agents
  BY <1>1, <1>3 DEF RowsWritten
<1>5. ASSUME NEW ids \in SUBSET unfinished
      PROVE  /\ cancel(ids) \in [Run -> RunState]
             /\ \A q \in Run : cancel(ids)[q] # "absent" <=> state[q] # "absent"
             /\ Active(cancel(ids)) \subseteq Active(state)
             /\ \A q \in Run :
                  /\ cancel(ids)[q] \in {"absent", "queued"} => q \notin snapshots
                  /\ phase[q] # "idle" => q \in snapshots
                  /\ cancel(ids)[q] \in ActiveStates \cup {"completed", "failed"}
                       => q \in snapshots
  <2>1. cancel(ids) \in [Run -> RunState]
    BY DEF RunState, TerminalStates
  <2>2. ASSUME NEW q \in Run
        PROVE  /\ cancel(ids)[q] # "absent" <=> state[q] # "absent"
               /\ cancel(ids)[q] \in {"absent", "queued"} => q \notin snapshots
               /\ phase[q] # "idle" => q \in snapshots
               /\ cancel(ids)[q] \in ActiveStates \cup {"completed", "failed"}
                    => q \in snapshots
    <3>1. CASE q \in ids
      <4>1. cancel(ids)[q] = "cancelled" /\ state[q] # "absent"
        BY <1>4, <3>1
      <4> QED BY <1>1, <4>1 DEF NeverReplayed, ActiveStates
    <3>2. CASE q \notin ids /\ st[q] = state[q]
      <4>1. cancel(ids)[q] = state[q]
        BY <3>2
      <4> QED BY <1>1, <4>1 DEF NeverReplayed
    <3>3. CASE q \notin ids /\ st[q] = "interrupted" /\ state[q] # "absent"
      <4>1. cancel(ids)[q] = "interrupted"
        BY <3>3
      <4> QED BY <1>1, <3>3, <4>1 DEF NeverReplayed, ActiveStates
    <3> QED BY <3>1, <3>2, <3>3
  <2>3. Active(cancel(ids)) \subseteq Active(state)
    BY DEF Active, ActiveStates
  <2> QED BY <2>1, <2>2, <2>3
<1>6. gateways' = gws
  BY DEF Walk
<1>7. CASE /\ stopping' = marksAfter(unfinished)
           /\ stops' = [stops EXCEPT ![s] =
                 IF stop.roots = {} THEN NoStop
                 ELSE [NoStop EXCEPT !.pc = "tree", !.roots = stop.roots]]
           /\ Pump(row, cancel(unfinished), phase, using, gws, marksAfter(unfinished))
  <2>1. ReadyToPump(row, cancel(unfinished), phase, using, gws)
    <3>1. /\ phase \in [Run -> Phases]
          /\ using \in [Run -> Run \cup {None}]
          /\ \A r \in Run : state[r] # "absent" => row[r].agent \in Agents
      BY <1>1 DEF TypeOK, RowsWritten, AgentOf
    <3> HIDE DEF cancel, unfinished
    <3> QED BY <1>5, <3>1 DEF ReadyToPump
  <2>2. snapshots \subseteq Run
    BY <1>1 DEF TypeOK
  <2>3. /\ state' \in [Run -> RunState]
        /\ phase' \in [Run -> Phases]
        /\ using' \in [Run -> Run \cup {None}]
        /\ snapshots' \subseteq Run
        /\ snapshots \subseteq snapshots'
        /\ NeverReplayed'
        /\ \A q \in Run : state'[q] = "absent" <=> cancel(unfinished)[q] = "absent"
        /\ Admission(row, cancel(unfinished), marksAfter(unfinished))
    BY <1>7, <2>1, <2>2, PumpKeeps
  <2>4. \A q \in Run : state'[q] # "absent" <=> state[q] # "absent"
    BY <1>5, <2>3
  <2>5. stops' \in [Stoppers -> StopRequest]
    <3>1. NoStop \in StopRequest /\ [NoStop EXCEPT !.pc = "tree", !.roots = stop.roots] \in StopRequest
      BY <1>3 DEF NoStop, StopRequest
    <3> QED BY <1>1, <1>7, <3>1 DEF TypeOK
  <2>6. TypeOK'
    BY <1>1, <1>2, <1>6, <1>7, <2>3, <2>5 DEF TypeOK
  <2>7. RowsWritten' /\ ParentsWritten'
    BY <1>1, <1>2, <2>4 DEF RowsWritten, ParentsWritten, AgentOf
  <2>8. StopsKnown'
    <3> SUFFICES ASSUME NEW t \in Stoppers, NEW q \in Run,
                        q \in stops'[t].roots \cup stops'[t].todo \cup {stops'[t].cur}
                 PROVE  state[q] # "absent"
      BY <2>4 DEF StopsKnown
    <3>1. CASE t # s
      BY <1>1, <1>7, <3>1 DEF TypeOK, StopsKnown
    <3>2. CASE t = s
      <4>1. stops'[s] = IF stop.roots = {} THEN NoStop
                        ELSE [NoStop EXCEPT !.pc = "tree", !.roots = stop.roots]
        BY <1>1, <1>7 DEF TypeOK
      <4>2. q \in stop.roots
        BY <3>2, <4>1 DEF NoStop, None, Run
      <4> QED BY <4>2
    <3> QED BY <3>1, <3>2
  <2>9. AnswersBegun'
    BY <1>1, <1>2, <2>3 DEF AnswersBegun
  <2>10. ActiveStep
    <3>1. Active(cancel(unfinished)) \subseteq Active(state)
      <4> HIDE DEF cancel, unfinished
      <4> QED BY <1>5
    <3> HIDE DEF cancel, unfinished, marksAfter
    <3> QED BY <1>2, <2>3, <3>1 DEF ActiveStep
  <2> QED BY <1>2, <2>3, <2>4, <2>6, <2>7, <2>8, <2>9, <2>10 DEF IInv, Keeps, SameRuns
<1>8. ASSUME NEW next \in waits,
             stopping' = marksAfter({q \in unfinished : Before(row, q, next)}) \cup {AgentOf(next)},
             stops' = [stops EXCEPT ![s] =
               [pc    |-> IF phase[next] = "prompt" THEN "interrupt" ELSE "container",
                roots |-> stop.roots,
                todo  |-> {q \in stop.todo : Before(row, next, q)},
                cur   |-> next,
                gw    |-> GatewayToStop(next, st, gws)]],
             state' = cancel({q \in unfinished : Before(row, q, next)} \cup {next}),
             UNCHANGED <<phase, using, snapshots>>
      PROVE  Keeps
  <2> DEFINE ids == {q \in unfinished : Before(row, q, next)} \cup {next}
  <2>1. next \in Run /\ next \in unfinished /\ ids \in SUBSET unfinished
    BY <1>3
  <2>2. /\ state' \in [Run -> RunState]
        /\ \A q \in Run : state'[q] # "absent" <=> state[q] # "absent"
        /\ NeverReplayed'
        /\ Active(state') \subseteq Active(state)
    <3>1. state' = cancel(ids)
      BY <1>8
    <3> HIDE DEF cancel, ids
    <3> QED BY <1>5, <1>8, <2>1, <3>1 DEF NeverReplayed
  <2>3. stopping' \in SUBSET Agents
    BY <1>4, <1>8, <2>1
  <2>4. GatewayToStop(next, st, gws) \in Run \cup {None}
    BY <1>1, <1>4, <2>1 DEF GatewayToStop, TypeOK
  <2>5. stops' \in [Stoppers -> StopRequest]
    <3>1. [pc    |-> IF phase[next] = "prompt" THEN "interrupt" ELSE "container",
           roots |-> stop.roots,
           todo  |-> {q \in stop.todo : Before(row, next, q)},
           cur   |-> next,
           gw    |-> GatewayToStop(next, st, gws)] \in StopRequest
      BY <1>3, <2>1, <2>4 DEF StopRequest
    <3> QED BY <1>1, <1>8, <3>1 DEF TypeOK
  <2>6. TypeOK'
    BY <1>1, <1>2, <1>6, <1>8, <2>2, <2>3, <2>5 DEF TypeOK
  <2>7. RowsWritten' /\ ParentsWritten'
    BY <1>1, <1>2, <2>2 DEF RowsWritten, ParentsWritten, AgentOf
  <2>8. StopsKnown'
    <3> SUFFICES ASSUME NEW t \in Stoppers, NEW q \in Run,
                        q \in stops'[t].roots \cup stops'[t].todo \cup {stops'[t].cur}
                 PROVE  state[q] # "absent"
      BY <2>2 DEF StopsKnown
    <3>1. CASE t # s
      BY <1>1, <1>8, <3>1 DEF TypeOK, StopsKnown
    <3>2. CASE t = s
      <4>1. q \in stop.roots \cup stop.todo \/ q = next
        BY <1>1, <1>8, <3>2 DEF TypeOK
      <4> QED BY <1>4, <2>1, <4>1
    <3> QED BY <3>1, <3>2
  <2>9. AnswersBegun'
    BY <1>1, <1>2, <1>8 DEF AnswersBegun
  <2> QED BY <1>2, <2>2, <2>6, <2>7, <2>8, <2>9 DEF IInv, Keeps, SameRuns, ActiveStep
<1> QED BY <1>7, <1>8, Zenon DEF Walk

(* store.descendants returns rows that exist.                              *)
LEMMA DescendantsWritten ==
  ASSUME ParentsWritten, NEW root \in Run, NEW q \in Descendants(row, root)
  PROVE  q \in Run /\ state[q] # "absent"
PROOF
<1>1. None \notin Run
  BY DEF None, Run
<1>2. q \in Run /\ row[q].parent \in Run
  BY DEF Descendants, Children
<1> QED BY <1>1, <1>2 DEF ParentsWritten

(* The loop of a stop route, whose runs all exist.                         *)
LEMMA StopNewestKeeps ==
  ASSUME IInv, NEW s \in Stoppers, NEW roots \in SUBSET Run,
         \A q \in roots : state[q] # "absent",
         StopNewest(s, roots)
  PROVE  Keeps
PROOF
<1>1. PICK root \in roots :
        /\ Walk(s, [NoStop EXCEPT !.roots = roots \ {root},
                                  !.todo  = {root} \cup Descendants(row, root)],
                state, gateways, stopping)
        /\ live' = live /\ UNCHANGED OutsideStop
  BY Zenon DEF StopNewest
<1> DEFINE stop == [NoStop EXCEPT !.roots = roots \ {root},
                                  !.todo  = {root} \cup Descendants(row, root)]
<1>2. root \in Run /\ ParentsWritten /\ TypeOK
  BY DEF IInv
<1>3. \A q \in Descendants(row, root) : q \in Run /\ state[q] # "absent"
  BY <1>2, DescendantsWritten
<1>4. stop \in StopRequest
  BY <1>2, <1>3 DEF NoStop, StopRequest
<1>5. stop.roots = roots \ {root} /\ stop.todo = {root} \cup Descendants(row, root)
  BY DEF NoStop
<1>6. \A q \in Run : q \in stop.roots \cup stop.todo => state[q] # "absent"
  BY <1>2, <1>3, <1>5
<1>7. /\ state \in [Run -> RunState]
      /\ gateways \in [Agents -> Run \cup {None}]
      /\ stopping \in SUBSET Agents
  BY <1>2 DEF TypeOK
<1> HIDE DEF stop
<1> QED BY <1>1, <1>4, <1>6, <1>7, WalkKeeps DEF stop

-----------------------------------------------------------------------------
(* The inductive invariant.                                                *)

(* The empty database and the idle coordinator satisfy the invariant.      *)
LEMMA InitIInv == Init => IInv
PROOF
<1> SUFFICES ASSUME Init PROVE IInv
  OBVIOUS
<1>1. TypeOK
  <2>1. NoRow \in Row
    BY DEF NoRow, Row
  <2>2. NoStop \in StopRequest
    BY DEF NoStop, StopRequest
  <2> QED BY <2>1, <2>2, RestartsAssumption DEF Init, TypeOK, RunState, Phases
<1>2. NeverReplayed
  BY DEF Init, NeverReplayed, ActiveStates
<1>3. RowsWritten /\ ParentsWritten
  BY NoAgentAssumption DEF Init, RowsWritten, ParentsWritten, NoRow, AgentOf
<1>4. StopsKnown
  BY DEF Init, StopsKnown, NoStop, None, Run
<1>5. AnswersBegun
  BY DEF Init, AnswersBegun
<1> QED BY <1>1, <1>2, <1>3, <1>4, <1>5 DEF IInv

(* A step that leaves the table of runs and the coroutines' phases alone.  *)
LEMMA QuietKeeps ==
  ASSUME IInv, TypeOK', UNCHANGED <<state, row, snapshots, phase>>,
         StopsKnown', AnswersBegun'
  PROVE  Keeps
PROOF
<1>1. IInv'
  BY DEF IInv, NeverReplayed, RowsWritten, ParentsWritten, AgentOf
<1>2. SameRuns /\ ActiveStep
  BY DEF SameRuns, ActiveStep
<1> QED BY <1>1, <1>2 DEF Keeps

(* A coroutine that moves to its next await.                               *)
LEMMA AdvanceKeeps ==
  ASSUME IInv, NEW r \in Run, NEW to \in Phases,
         phase[r] # "idle", phase' = [phase EXCEPT ![r] = to],
         using' \in [Run -> Run \cup {None}],
         gateways' \in [Agents -> Run \cup {None}], live' \subseteq Run,
         UNCHANGED <<state, snapshots, awaiting, OutsideExecute>>
  PROVE  Keeps
PROOF
<1>1. /\ TypeOK /\ NeverReplayed
      /\ RowsWritten /\ ParentsWritten /\ StopsKnown /\ AnswersBegun
  BY DEF IInv
<1>2. UNCHANGED <<state, snapshots, awaiting, row, approvals, stopping, stops, answering, restarts>>
  BY DEF OutsideExecute
<1>3. TypeOK'
  BY <1>1, <1>2 DEF TypeOK
<1>4. NeverReplayed'
  BY <1>1, <1>2 DEF TypeOK, NeverReplayed
<1>5. IInv'
  BY <1>1, <1>2, <1>3, <1>4
     DEF IInv, RowsWritten, ParentsWritten, StopsKnown, AnswersBegun, AgentOf
<1>6. SameRuns /\ ActiveStep
  BY <1>2 DEF SameRuns, ActiveStep
<1> QED BY <1>5, <1>6 DEF Keeps

(* Every step of the coroutine execute().                                  *)
LEMMA ExecutesKeeps ==
  ASSUME IInv, NEW r \in Run, Executes(r) PROVE Keeps
PROOF
<1>1. TypeOK /\ NeverReplayed /\ RowsWritten
  BY DEF IInv
<1>2. gateways \in [Agents -> Run \cup {None}] /\ using \in [Run -> Run \cup {None}]
  BY <1>1 DEF TypeOK
<1>3. \A b : \A a \in Run \cup {None} :
        [gateways EXCEPT ![b] = a] \in [Agents -> Run \cup {None}]
  BY <1>2
<1>4. phase[r] # "idle" => AgentOf(r) \in Agents
  BY <1>1 DEF NeverReplayed, RowsWritten
<1>5. ASSUME NEW outcome \in {"failed", "completed", "interrupted", "cancelled"}
      PROVE  outcome \in TerminalStates /\ EndState(r, outcome) \in TerminalStates
  BY DEF EndState, TerminalStates
<1>6. CASE PriorStopped(r)
  <2>1. "socket" \in Phases
    BY DEF Phases
  <2>2. live' \subseteq Run
    BY <1>1, <1>6 DEF PriorStopped, TypeOK
  <2> QED BY <1>2, <1>3, <1>6, <2>1, <2>2, AdvanceKeeps DEF PriorStopped
<1>7. CASE PriorStopFails(r)
  BY <1>2, <1>5, <1>7, FinishKeeps DEF PriorStopFails
<1>8. CASE SocketReady(r)
  <2>1. CASE state[r] = "cancelled"
    BY <1>2, <1>5, <1>8, <2>1, FinishKeeps DEF SocketReady
  <2>2. CASE state[r] # "cancelled"
    <3>1. /\ phase[r] = "socket" /\ gateways[AgentOf(r)] \in Run \cup {None}
          /\ UNCHANGED <<state, snapshots, awaiting, OutsideExecute>>
      BY <1>2, <1>4, <1>8, <2>2 DEF SocketReady
    <3>2. live \subseteq Run /\ {"session", "start"} \subseteq Phases
      BY <1>1 DEF TypeOK, Phases
    <3>3. CASE gateways[AgentOf(r)] # None
      <4>1. /\ using' = [using EXCEPT ![r] = gateways[AgentOf(r)]]
            /\ phase' = [phase EXCEPT ![r] = "session"]
            /\ UNCHANGED <<gateways, live>>
        BY <1>8, <2>2, <3>3 DEF SocketReady
      <4> QED BY <1>2, <3>1, <3>2, <4>1, AdvanceKeeps
    <3>4. CASE gateways[AgentOf(r)] = None
      <4>1. /\ using' = [using EXCEPT ![r] = r]
            /\ phase' = [phase EXCEPT ![r] = "start"]
            /\ gateways' = [gateways EXCEPT ![AgentOf(r)] = r]
            /\ live' = live \cup {r}
        BY <1>8, <2>2, <3>4 DEF SocketReady
      <4> QED BY <1>2, <1>3, <3>1, <3>2, <4>1, AdvanceKeeps
    <3> QED BY <3>3, <3>4
  <2> QED BY <2>1, <2>2
<1>9. CASE PrepareFails(r)
  BY <1>2, <1>5, <1>9, FinishKeeps DEF PrepareFails
<1>10. CASE GatewayReady(r)
  <2>1. live \subseteq Run /\ "session" \in Phases
    BY <1>1 DEF TypeOK, Phases
  <2> QED BY <1>2, <1>10, <2>1, AdvanceKeeps DEF GatewayReady
<1>11. CASE GatewayStartFails(r)
  BY <1>2, <1>3, <1>5, <1>11, FinishKeeps DEF GatewayStartFails
<1>12. CASE SessionCreated(r)
  <2>1. CASE state[r] = "cancelled"
    BY <1>2, <1>5, <1>12, <2>1, FinishKeeps DEF SessionCreated
  <2>2. CASE state[r] # "cancelled"
    <3>1. live \subseteq Run /\ "prompt" \in Phases
      BY <1>1 DEF TypeOK, Phases
    <3> QED BY <1>2, <1>12, <2>2, <3>1, AdvanceKeeps DEF SessionCreated
  <2> QED BY <2>1, <2>2
<1>13. CASE PromptCompletes(r)
  BY <1>2, <1>5, <1>13, FinishKeeps DEF PromptCompletes
<1>14. ASSUME NEW outcome \in {"failed", "interrupted"}, SessionFails(r, outcome)
       PROVE  Keeps
  BY <1>2, <1>5, <1>14, FinishKeeps DEF SessionFails
<1>15. ASSUME NEW outcome \in {"failed", "interrupted"}, PromptFails(r, outcome)
       PROVE  Keeps
  BY <1>2, <1>5, <1>15, FinishKeeps DEF PromptFails
<1> QED BY <1>6, <1>7, <1>8, <1>9, <1>10, <1>11, <1>12, <1>13, <1>14, <1>15 DEF Executes

(* Every step of a stop request after its first.                           *)
LEMMA StopsKeeps ==
  ASSUME IInv, NEW s \in Stoppers, Stops(s) PROVE Keeps
PROOF
<1>1. /\ TypeOK /\ RowsWritten /\ ParentsWritten /\ StopsKnown /\ AnswersBegun
      /\ stops[s] \in StopRequest
  BY DEF IInv, TypeOK
<1>2. /\ stops[s].roots \subseteq Run /\ stops[s].todo \subseteq Run
      /\ stops[s].cur \in Run \cup {None}
      /\ \A q \in Run : q \in stops[s].roots \cup stops[s].todo \cup {stops[s].cur}
           => state[q] # "absent"
  BY <1>1 DEF StopRequest, StopsKnown
<1>3. /\ state \in [Run -> RunState]
      /\ gateways \in [Agents -> Run \cup {None}]
      /\ stopping \in SUBSET Agents
  BY <1>1 DEF TypeOK
<1>4. CASE NextTree(s)
  BY <1>2, <1>4, StopNewestKeeps DEF NextTree
<1>5. CASE InterruptReturns(s)
  <2>1. [stops[s] EXCEPT !.pc = "container"] \in StopRequest
    BY <1>1 DEF StopRequest
  <2>2. stops' = [stops EXCEPT ![s] = [stops[s] EXCEPT !.pc = "container"]]
    BY <1>5 DEF InterruptReturns
  <2>3. UNCHANGED <<state, row, snapshots, approvals, phase, using, gateways, stopping,
                    awaiting, answering, live, restarts>>
    BY <1>5 DEF InterruptReturns, database
  <2>4. TypeOK'
    BY <1>1, <2>1, <2>2, <2>3 DEF TypeOK
  <2>5. StopsKnown'
    BY <1>1, <2>2, <2>3 DEF StopsKnown, TypeOK, StopRequest
  <2>6. AnswersBegun'
    BY <1>1, <2>3 DEF AnswersBegun
  <2> QED BY <2>3, <2>4, <2>5, <2>6, QuietKeeps
<1>6. CASE ContainerStopped(s)
  <2> DEFINE a == AgentOf(stops[s].cur)
             gws == [gateways EXCEPT ![a] = None]
  <2>1. gws \in [Agents -> Run \cup {None}] /\ stopping \ {a} \in SUBSET Agents
    BY <1>3
  <2>2. /\ Walk(s, stops[s], state, gws, stopping \ {a})
        /\ live' \subseteq live /\ UNCHANGED OutsideStop
    BY <1>6 DEF ContainerStopped
  <2> HIDE DEF gws, a
  <2> QED BY <1>1, <1>2, <1>3, <2>1, <2>2, WalkKeeps
<1>7. CASE ContainerStopFails(s)
  <2> DEFINE st == [state EXCEPT ![stops[s].cur] = "interrupted"]
             marks == stopping \ {AgentOf(stops[s].cur)}
  <2>1. st \in [Run -> RunState] /\ marks \in SUBSET Agents
    BY <1>3 DEF RunState, TerminalStates
  <2>2. \A q \in Run : st[q] = state[q] \/ (st[q] = "interrupted" /\ state[q] # "absent")
    BY <1>2, <1>3
  <2>3. /\ Walk(s, stops[s], st, gateways, marks)
        /\ live' \subseteq live /\ UNCHANGED OutsideStop
    BY <1>7 DEF ContainerStopFails
  <2> HIDE DEF st, marks
  <2> QED BY <1>1, <1>2, <1>3, <2>1, <2>2, <2>3, WalkKeeps
<1> QED BY <1>4, <1>5, <1>6, <1>7 DEF Stops

(* A request of a stop route.                                              *)
LEMMA RequestStopKeeps ==
  ASSUME IInv, NEW s \in Stoppers, NEW roots \in StopTargets, RequestStop(s, roots)
  PROVE  Keeps
PROOF
<1>1. roots \in SUBSET Run /\ \A q \in roots : state[q] # "absent"
  BY DEF StopTargets, Listed, Existing
<1> QED BY <1>1, StopNewestKeeps DEF RequestStop

(* A restart ends what was active and forgets what was in memory.          *)
LEMMA RestartKeeps ==
  ASSUME IInv, Restart PROVE Keeps
PROOF
<1>1. /\ TypeOK /\ NeverReplayed
      /\ RowsWritten /\ ParentsWritten /\ StopsKnown /\ AnswersBegun
  BY DEF IInv
<1>2. /\ \A q \in Run : state'[q] = AfterRestart(q)
      /\ state' = [q \in Run |-> AfterRestart(q)]
      /\ phase' = [q \in Run |-> "idle"]
      /\ stops' = [s \in Stoppers |-> NoStop]
      /\ answering' = [q \in Run |-> None]
      /\ UNCHANGED <<row, snapshots, approvals>>
  BY DEF Restart
<1>3. \A q \in Run : /\ AfterRestart(q) \in RunState
                     /\ AfterRestart(q) # "absent" <=> state[q] # "absent"
                     /\ AfterRestart(q) \notin ActiveStates
                     /\ AfterRestart(q) \in {state[q], "interrupted"}
  BY <1>1 DEF AfterRestart, TypeOK, RunState, TerminalStates, ActiveStates
<1>4. TypeOK'
  <2>1. state' \in [Run -> RunState] /\ phase' \in [Run -> Phases]
    BY <1>2, <1>3 DEF Phases
  <2>2. NoStop \in StopRequest
    BY DEF NoStop, StopRequest
  <2>3. restarts' \in 0 .. MaxRestarts
    BY <1>1, RestartsAssumption DEF Restart, TypeOK
  <2> QED BY <1>1, <2>1, <2>2, <2>3 DEF Restart, TypeOK
<1>5. NeverReplayed'
  BY <1>1, <1>2, <1>3 DEF NeverReplayed, ActiveStates
<1>6. RowsWritten' /\ ParentsWritten'
  BY <1>1, <1>2, <1>3 DEF RowsWritten, ParentsWritten, AgentOf
<1>7. StopsKnown'
  BY <1>2 DEF StopsKnown, NoStop, None, Run
<1>8. AnswersBegun'
  BY <1>2 DEF AnswersBegun
<1>9. SameRuns
  BY <1>2, <1>3 DEF SameRuns
<1>10. ActiveStep
  BY <1>2, <1>3 DEF ActiveStep, Active
<1> QED BY <1>4, <1>5, <1>6, <1>7, <1>8, <1>9, <1>10 DEF Keeps, IInv

(* The callbacks of Hermes that touch the state of their run.              *)
LEMMA CallbackKeeps ==
  ASSUME IInv, NEW r \in Run, NEW to \in ActiveStates, r \in snapshots,
         state' = [state EXCEPT ![r] = to],
         approvals' \subseteq Run,
         answering' \in [Run -> Run \cup {None}],
         \A q \in Run : answering'[q] # None => answering[q] # None,
         UNCHANGED <<row, snapshots, phase, using, gateways, stopping, stops, awaiting,
                     live, restarts>>
  PROVE  IInv' /\ SameRuns
PROOF
<1>1. /\ TypeOK /\ NeverReplayed
      /\ RowsWritten /\ ParentsWritten /\ StopsKnown /\ AnswersBegun
  BY DEF IInv
<1>2. state[r] # "absent" /\ to # "absent" /\ to # "queued" /\ to \in RunState
  BY <1>1 DEF NeverReplayed, ActiveStates, RunState
<1>3. TypeOK'
  BY <1>1, <1>2 DEF TypeOK
<1>4. \A q \in Run : state'[q] # "absent" <=> state[q] # "absent"
  BY <1>1, <1>2 DEF TypeOK
<1>5. NeverReplayed'
  BY <1>1, <1>2 DEF TypeOK, NeverReplayed
<1>6. RowsWritten' /\ ParentsWritten' /\ StopsKnown' /\ AnswersBegun'
  BY <1>1, <1>4 DEF RowsWritten, ParentsWritten, StopsKnown, AnswersBegun, AgentOf
<1> QED BY <1>3, <1>4, <1>5, <1>6 DEF IInv, SameRuns

(* mapHermesEvent on a request for the operator, however late.             *)
LEMMA AsksOperatorKeeps ==
  ASSUME IInv, NEW r \in Run, NEW waiting \in Requests, AsksOperator(r, waiting)
  PROVE  IInv' /\ SameRuns
PROOF
<1>1. TypeOK /\ NeverReplayed
  BY DEF IInv
<1>2. waiting \in ActiveStates
  BY InputsAssumption DEF ActiveStates
<1>3. r \in snapshots
  BY <1>1 DEF AsksOperator, NeverReplayed
<1>4. approvals' \subseteq Run /\ answering \in [Run -> Run \cup {None}]
  BY <1>1 DEF AsksOperator, TypeOK
<1> QED BY <1>2, <1>3, <1>4, CallbackKeeps DEF AsksOperator, memory

(* The end of the approval route, however late.                            *)
LEMMA AnswerConfirmedKeeps ==
  ASSUME IInv, NEW r \in Run, AnswerConfirmed(r)
  PROVE  IInv' /\ SameRuns
PROOF
<1>1. TypeOK /\ AnswersBegun
  BY DEF IInv
<1>2. answering[r] # None /\ r \in snapshots
  BY <1>1 DEF AnswerConfirmed, AnswersBegun, TypeOK, None, Run
<1>3. approvals \subseteq Run /\ answering' \in [Run -> Run \cup {None}]
  BY <1>1 DEF AnswerConfirmed, TypeOK
<1>4. \A q \in Run : answering'[q] # None => answering[q] # None
  BY <1>1 DEF AnswerConfirmed, TypeOK
<1>5. "running" \in ActiveStates
  BY DEF ActiveStates
<1> QED BY <1>2, <1>3, <1>4, <1>5, CallbackKeeps DEF AnswerConfirmed

-----------------------------------------------------------------------------
(* The steps that insert a run, and those that set a run waiting or        *)
(* running whatever else is going on.                                      *)
Creates ==
  /\ IInv' /\ ActiveStep
  /\ \E r \in Run, a \in Agents, parent \in Run \cup {None}, task \in BOOLEAN :
       /\ NewRun(r, a, parent, task)
       /\ parent # None => parent \in Active(state) /\ MayDelegate(parent, a)

Answers ==
  /\ IInv' /\ SameRuns
  /\ \E r \in Run : \/ \E waiting \in Requests : AsksOperator(r, waiting)
                    \/ AnswerConfirmed(r)

(* Every step of the specification, by kind.                               *)
LEMMA StepKinds ==
  ASSUME IInv, [Next]_vars
  PROVE  Keeps \/ Creates \/ Answers
PROOF
<1>1. TypeOK /\ StopsKnown /\ AnswersBegun
  BY DEF IInv
<1>2. CASE UNCHANGED vars
  <2>1. UNCHANGED <<state, row, snapshots, approvals, phase, using, gateways, stopping,
                    stops, awaiting, answering, live, restarts>>
    BY <1>2 DEF vars, database, memory
  <2>2. TypeOK' /\ StopsKnown' /\ AnswersBegun'
    BY <1>1, <2>1 DEF TypeOK, StopsKnown, AnswersBegun
  <2> QED BY <2>1, <2>2, QuietKeeps
<1>3. ASSUME NEW r \in Run, Executes(r) PROVE Keeps
  BY <1>3, ExecutesKeeps
<1>4. ASSUME NEW r \in Run, NEW a \in Agents, NEW task \in TaskKinds, CreateRun(r, a, task)
      PROVE  IInv' /\ ActiveStep /\ NewRun(r, a, None, task) /\ task \in BOOLEAN
  <2>1. awaiting' \in [Run -> Run \cup {None}]
    BY <1>1, <1>4 DEF CreateRun, TypeOK
  <2>2. task \in BOOLEAN
    BY InputsAssumption
  <2> QED BY <1>4, <2>1, <2>2, InsertKeeps DEF CreateRun
<1>5. ASSUME NEW r \in Run, NEW parent \in Run, NEW child \in Run, NEW a \in Agents,
             Handoff(r, parent, child, a)
      PROVE  /\ IInv' /\ ActiveStep /\ NewRun(child, a, parent, FALSE)
             /\ parent \in Active(state) /\ MayDelegate(parent, a)
  <2>1. awaiting' \in [Run -> Run \cup {None}]
    BY <1>1, <1>5 DEF Handoff, TypeOK
  <2>2. parent \in Active(state) /\ MayDelegate(parent, a) /\ row[parent].depth < 2
    BY <1>5 DEF Handoff, MayDelegate
  <2> QED BY <1>5, <2>1, <2>2, InsertKeeps DEF Handoff
<1>6. ASSUME NEW r \in Run, HandoffReturns(r) \/ HandoffTimesOut(r) PROVE Keeps
  <2>1. /\ awaiting' = [awaiting EXCEPT ![r] = None]
        /\ UNCHANGED <<state, row, snapshots, approvals, phase, using, gateways, stopping,
                       stops, answering, live, restarts>>
    BY <1>6 DEF HandoffReturns, HandoffTimesOut, database
  <2>2. TypeOK' /\ StopsKnown' /\ AnswersBegun'
    BY <1>1, <2>1 DEF TypeOK, StopsKnown, AnswersBegun
  <2> QED BY <2>1, <2>2, QuietKeeps
<1>7. ASSUME NEW g \in Run, GatewayExits(g) \/ GatewayCrashes(g) PROVE Keeps
  <2>1. /\ live' \subseteq live
        /\ UNCHANGED <<state, row, snapshots, approvals, phase, using, gateways, stopping,
                       stops, awaiting, answering, restarts>>
    BY <1>7 DEF GatewayExits, GatewayCrashes, database, memory
  <2>2. TypeOK' /\ StopsKnown' /\ AnswersBegun'
    BY <1>1, <2>1 DEF TypeOK, StopsKnown, AnswersBegun
  <2> QED BY <2>1, <2>2, QuietKeeps
<1>8. ASSUME NEW r \in Run, NEW waiting \in Requests, AsksOperator(r, waiting)
      PROVE  IInv' /\ SameRuns
  BY <1>8, AsksOperatorKeeps
<1>9. ASSUME NEW r \in Run, AnswerConfirmed(r) PROVE IInv' /\ SameRuns
  BY <1>9, AnswerConfirmedKeeps
<1>10. ASSUME NEW r \in Run, AnswerApproval(r) \/ AnswerLost(r) PROVE Keeps
  <2>1. UNCHANGED <<state, row, snapshots, approvals, phase, using, gateways, stopping,
                    stops, awaiting, live, restarts>>
    BY <1>10 DEF AnswerApproval, AnswerLost, database
  <2>2. \/ answering' = [answering EXCEPT ![r] = None]
        \/ phase[r] = "prompt" /\ answering' = [answering EXCEPT ![r] = using[r]]
    BY <1>10 DEF AnswerApproval, AnswerLost
  <2>3. phase[r] = "prompt" => r \in snapshots
    BY DEF IInv, NeverReplayed
  <2>4. TypeOK' /\ StopsKnown' /\ AnswersBegun'
    BY <1>1, <2>1, <2>2, <2>3 DEF TypeOK, StopsKnown, AnswersBegun
  <2> QED BY <2>1, <2>4, QuietKeeps
<1>11. ASSUME NEW s \in Stoppers, NEW roots \in StopTargets, RequestStop(s, roots) PROVE Keeps
  BY <1>11, RequestStopKeeps
<1>12. ASSUME NEW s \in Stoppers, Stops(s) PROVE Keeps
  BY <1>12, StopsKeeps
<1>13. CASE Restart
  BY <1>13, RestartKeeps
<1>14. CASE \E r \in Run, a \in Agents, task \in TaskKinds : CreateRun(r, a, task)
  <2>1. PICK r \in Run, a \in Agents, task \in TaskKinds : CreateRun(r, a, task)
    BY <1>14
  <2>2. IInv' /\ ActiveStep /\ NewRun(r, a, None, task) /\ task \in BOOLEAN
    BY <1>4, <2>1
  <2> QED BY <2>2 DEF Creates
<1>15. CASE \E r, parent, child \in Run, a \in Agents : Handoff(r, parent, child, a)
  <2>1. PICK r \in Run, parent \in Run, child \in Run, a \in Agents :
               Handoff(r, parent, child, a)
    BY <1>15
  <2>2. /\ IInv' /\ ActiveStep /\ NewRun(child, a, parent, FALSE)
        /\ parent \in Active(state) /\ MayDelegate(parent, a)
    BY <1>5, <2>1
  <2>3. FALSE \in BOOLEAN /\ parent \in Run \cup {None}
    OBVIOUS
  <2> QED BY <2>2, <2>3 DEF Creates
<1>16. CASE \E r \in Run : \/ \E waiting \in Requests : AsksOperator(r, waiting)
                          \/ AnswerConfirmed(r)
  BY <1>8, <1>9, <1>16 DEF Answers
<1>17. CASE \E r \in Run : \/ Executes(r) \/ HandoffReturns(r) \/ HandoffTimesOut(r)
                          \/ GatewayExits(r) \/ GatewayCrashes(r) \/ AnswerApproval(r) \/ AnswerLost(r)
  BY <1>3, <1>6, <1>7, <1>10, <1>17
<1>18. CASE \E s \in Stoppers : (\E roots \in StopTargets : RequestStop(s, roots)) \/ Stops(s)
  BY <1>11, <1>12, <1>18
<1> QED BY <1>2, <1>13, <1>14, <1>15, <1>16, <1>17, <1>18, Zenon DEF Next

-----------------------------------------------------------------------------
(* IInv holds in every state of every execution.                           *)
THEOREM Invariance == Spec => []IInv
PROOF
<1>1. IInv /\ [Next]_vars => IInv'
  BY StepKinds DEF Keeps, Creates, Answers
<1> QED BY <1>1, InitIInv, PTL DEF Spec

(* Every variable keeps its type, and with it every handoff its depth.     *)
THEOREM TypeCorrect == Spec => []TypeOK
PROOF
<1>1. IInv => TypeOK
  BY DEF IInv
<1> QED BY <1>1, Invariance, PTL

(* README "never silently replays uncertain actions": a run that has begun *)
(* to execute is never queued again, in this process or the next.          *)
THEOREM NothingReplayed == Spec => []NeverReplayed
PROOF
<1>1. IInv => NeverReplayed
  BY DEF IInv
<1> QED BY <1>1, Invariance, PTL

-----------------------------------------------------------------------------
(* Handoffs.                                                               *)

(* Runs are created in the order of their numbers.                         *)
InOrder == \A q, r \in Run : q < r /\ state[r] # "absent" => state[q] # "absent"

(* A new run finds its parent, and its parent's parent, older than itself  *)
(* and with other agents than its own.                                     *)
LEMMA NewRunKeepsTree ==
  ASSUME IInv, HandoffTree, InOrder,
         NEW c \in Run, NEW a \in Agents, NEW parent \in Run \cup {None},
         NEW task \in BOOLEAN,
         NewRun(c, a, parent, task),
         parent # None => parent \in Active(state) /\ MayDelegate(parent, a)
  PROVE  HandoffTree' /\ InOrder'
PROOF
<1>1. /\ row \in [Run -> Row] /\ ParentsWritten
      /\ state[c] = "absent" /\ \A q \in Run : q < c => state[q] # "absent"
  BY DEF IInv, TypeOK, NewRun, IsNext
<1>2. /\ \A q \in Run : state'[q] # "absent" <=> (q = c \/ state[q] # "absent")
      /\ \A q \in Run : q # c => row'[q] = row[q]
      /\ row'[c] = NewRow(a, parent, task)
  BY <1>1 DEF NewRun
<1>3. \A q \in Run : q \in Int
  BY DEF Run
<1>4. \A q \in Run : row[q].parent \in Run \cup {None}
  BY <1>1 DEF Row
<1>5. InOrder'
  BY <1>1, <1>2, <1>3 DEF InOrder
<1>6. ASSUME NEW r \in Run, row'[r].parent # None
      PROVE  /\ row'[r].parent < r
             /\ state'[row'[r].parent] # "absent"
             /\ row'[r].depth = row'[row'[r].parent].depth + 1
             /\ \A q \in Ancestors(row', r) : row'[q].agent # row'[r].agent
  <2>1. CASE r # c
    <3> DEFINE p == row[r].parent
    <3>1. row'[r] = row[r] /\ p \in Run
      BY <1>2, <1>4, <1>6, <2>1
    <3>2. /\ p < r /\ state[p] # "absent" /\ row[r].depth = row[p].depth + 1
          /\ \A q \in Ancestors(row, r) : row[q].agent # row[r].agent
      BY <1>6, <3>1 DEF HandoffTree, AgentOf
    <3>3. p # c /\ row'[p] = row[p]
      BY <1>1, <1>2, <3>1, <3>2
    <3>4. ASSUME NEW q \in Ancestors(row', r)
          PROVE  q \in Ancestors(row, r) /\ q # c
      <4>1. q \in Run /\ (q = p \/ q = row[p].parent)
        BY <3>1, <3>3 DEF Ancestors
      <4>2. q \in Ancestors(row, r)
        BY <3>1, <4>1 DEF Ancestors
      <4>3. CASE q = p
        BY <3>3, <4>2, <4>3
      <4>4. CASE q = row[p].parent
        <5>1. q # None
          BY <4>1 DEF Run, None
        <5>2. state[q] # "absent"
          BY <3>1, <4>4, <5>1 DEF HandoffTree
        <5> QED BY <1>1, <4>2, <5>2
      <4> QED BY <4>1, <4>3, <4>4
    <3>5. \A q \in Ancestors(row', r) : row'[q].agent # row'[r].agent
      BY <1>2, <3>1, <3>2, <3>4 DEF Ancestors
    <3> QED BY <1>2, <3>1, <3>2, <3>3, <3>5
  <2>2. CASE r = c
    <3>1. /\ row'[c].parent = parent /\ row'[c].agent = a /\ parent \in Run
          /\ row'[c].depth = row[parent].depth + 1
      BY <1>2, <1>6, <2>2 DEF NewRow
    <3>2. state[parent] # "absent" /\ MayDelegate(parent, a)
      BY <1>6, <2>2, <3>1 DEF Active, ActiveStates
    <3>3. parent # c /\ row'[parent] = row[parent]
      BY <1>1, <1>2, <3>1, <3>2
    <3>4. parent < c
      BY <1>1, <1>3, <3>1, <3>2, <3>3 DEF InOrder
    <3>5. ASSUME NEW q \in Ancestors(row', c)
          PROVE  row'[q].agent # a
      <4>1. q \in Run /\ (q = parent \/ q = row[parent].parent)
        BY <3>1, <3>3 DEF Ancestors
      <4>2. CASE q = parent
        BY <3>2, <3>3, <4>2 DEF MayDelegate, AgentOf
      <4>3. CASE q = row[parent].parent
        <5>1. q # None
          BY <4>1 DEF Run, None
        <5>2. state[q] # "absent"
          BY <3>1, <4>3, <5>1 DEF HandoffTree
        <5>3. row'[q] = row[q]
          BY <1>1, <1>2, <4>1, <5>2
        <5>4. q \in Ancestors(row, parent)
          BY <4>1, <4>3 DEF Ancestors
        <5> QED BY <3>2, <5>3, <5>4 DEF MayDelegate, AgentOf
      <4> QED BY <4>1, <4>2, <4>3
    <3> QED BY <1>2, <2>2, <3>1, <3>2, <3>3, <3>4, <3>5
  <2> QED BY <2>1, <2>2
<1>7. HandoffTree'
  BY <1>6 DEF HandoffTree, AgentOf
<1> QED BY <1>5, <1>7

(* README "delegation depth limited to two, with cyclic handoffs           *)
(* rejected": the parents form a forest in which no agent is its own       *)
(* ancestor.                                                               *)
THEOREM HandoffsFormTree == Spec => []HandoffTree
PROOF
<1>1. Init => HandoffTree /\ InOrder
  BY DEF Init, HandoffTree, InOrder, NoRow
<1>2. IInv /\ HandoffTree /\ InOrder /\ [Next]_vars => (HandoffTree /\ InOrder)'
  <2> SUFFICES ASSUME IInv, HandoffTree, InOrder, [Next]_vars
               PROVE  HandoffTree' /\ InOrder'
    OBVIOUS
  <2>1. CASE SameRuns
    <3>1. row' = row /\ \A q \in Run : state'[q] # "absent" <=> state[q] # "absent"
      BY <2>1 DEF SameRuns
    <3>2. \A r \in Run : row[r].parent # None => row[r].parent \in Run
      BY DEF IInv, TypeOK, Row
    <3>3. HandoffTree'
      BY <3>1, <3>2 DEF HandoffTree, AgentOf
    <3>4. InOrder'
      BY <3>1 DEF InOrder
    <3> QED BY <3>3, <3>4
  <2>2. CASE Creates
    BY <2>2, NewRunKeepsTree DEF Creates
  <2> QED BY <2>1, <2>2, StepKinds DEF Keeps, Answers
<1> QED BY <1>1, <1>2, Invariance, PTL DEF Spec

-----------------------------------------------------------------------------
(* The limits on the active runs, as long as Hermes asks and confirms in   *)
(* time: no request and no confirmation reaches a run that has ended.      *)

InTime == {"lateRequest", "lateReply"} \cap Hazards = {}

(* Then every step ends active runs, or admits runs beside those that      *)
(* remain, and no row of an active run is changed.                         *)
LEMMA ActiveSteps ==
  ASSUME InTime, IInv, [Next]_vars
  PROVE  ActiveStep /\ \A q \in Active(state) : row'[q] = row[q]
PROOF
<1>1. row \in [Run -> Row] /\ state \in [Run -> RunState]
  BY DEF IInv, TypeOK
<1>2. CASE Keeps
  BY <1>2 DEF Keeps, SameRuns
<1>3. CASE Creates
  BY <1>1, <1>3 DEF Creates, NewRun, IsNext, Active, ActiveStates
<1>4. CASE Answers
  <2>1. PICK r \in Run : \/ \E waiting \in Requests : AsksOperator(r, waiting)
                         \/ AnswerConfirmed(r)
    BY <1>4 DEF Answers
  <2>2. r \in Active(state)
    BY <2>1 DEF AsksOperator, AnswerConfirmed, InTime, Active
  <2>3. PICK to \in RunState : state' = [state EXCEPT ![r] = to]
    BY <2>1, InputsAssumption DEF AsksOperator, AnswerConfirmed, RunState, ActiveStates
  <2>4. Active(state') \subseteq Active(state)
    BY <1>1, <2>2, <2>3 DEF Active
  <2> QED BY <1>4, <2>4 DEF ActiveStep, Answers, SameRuns
<1> QED BY <1>2, <1>3, <1>4, StepKinds

(* README "The coordinator runs at most one task per agent": so it is,     *)
(* whatever is stopped, fails, crashes or restarts in the meantime.        *)
THEOREM AgentsExclusive == ASSUME InTime PROVE Spec => []AgentExclusive
PROOF
<1>1. Init => AgentExclusive
  BY DEF Init, AgentExclusive, Active, ActiveStates
<1>2. IInv /\ AgentExclusive /\ [Next]_vars => AgentExclusive'
  <2> SUFFICES ASSUME IInv, AgentExclusive, [Next]_vars PROVE AgentExclusive'
    OBVIOUS
  <2>1. ActiveStep /\ \A q \in Active(state) : row'[q] = row[q]
    BY ActiveSteps
  <2>2. CASE Active(state') \subseteq Active(state)
    BY <2>1, <2>2 DEF AgentExclusive, AgentOf
  <2>3. ASSUME NEW st, NEW stop, Active(st) \subseteq Active(state),
               Admission(row', st, stop)
        PROVE  AgentExclusive'
    <3>1. PICK admitted \in SUBSET Queued(st) :
            /\ IsAdmission(row', st, stop, admitted)
            /\ Active(state') = Active(st) \cup admitted
      BY <2>3, Zenon DEF Admission
    <3>2. \A q, r \in Active(st) : row'[q].agent = row'[r].agent => q = r
      BY <2>1, <2>3 DEF AgentExclusive, AgentOf
    <3>3. \A q, r \in Active(st) \cup admitted : row'[q].agent = row'[r].agent => q = r
      BY <3>1, <3>2, AdmissionKeepsAgentsApart
    <3> QED BY <3>1, <3>3 DEF AgentExclusive, AgentOf
  <2> QED BY <2>1, <2>2, <2>3 DEF ActiveStep
<1> QED BY <1>1, <1>2, Invariance, PTL DEF Spec

(* No two active rows are of agents on the existing desktop, while         *)
(* listRuns() returns the whole table.                                     *)
DesktopExclusive ==
  \A q, r \in Active(state) : {AgentOf(q), AgentOf(r)} \subseteq ExistingDesktop => q = r

LEMMA DesktopsExclusive ==
  ASSUME InTime, ListLimit >= MaxRuns PROVE Spec => []DesktopExclusive
PROOF
<1>1. Init => DesktopExclusive
  BY DEF Init, DesktopExclusive, Active, ActiveStates
<1>2. IInv /\ DesktopExclusive /\ [Next]_vars => DesktopExclusive'
  <2> SUFFICES ASSUME IInv, DesktopExclusive, [Next]_vars PROVE DesktopExclusive'
    OBVIOUS
  <2>1. ActiveStep /\ \A q \in Active(state) : row'[q] = row[q]
    BY ActiveSteps
  <2>2. CASE Active(state') \subseteq Active(state)
    BY <2>1, <2>2 DEF DesktopExclusive, AgentOf
  <2>3. ASSUME NEW st, NEW stop, Active(st) \subseteq Active(state),
               Admission(row', st, stop)
        PROVE  DesktopExclusive'
    <3>1. PICK admitted \in SUBSET Queued(st) :
            /\ IsAdmission(row', st, stop, admitted)
            /\ Active(state') = Active(st) \cup admitted
      BY <2>3, Zenon DEF Admission
    <3>2. \A q, r \in Active(st) :
            {row'[q].agent, row'[r].agent} \subseteq ExistingDesktop => q = r
      BY <2>1, <2>3 DEF DesktopExclusive, AgentOf
    <3>3. \A q, r \in Active(st) \cup admitted :
            {row'[q].agent, row'[r].agent} \subseteq ExistingDesktop => q = r
      BY <3>1, <3>2, AdmissionSerializesDesktop
    <3> QED BY <3>1, <3>3 DEF DesktopExclusive, AgentOf
  <2> QED BY <2>1, <2>2, <2>3 DEF ActiveStep
<1> QED BY <1>1, <1>2, Invariance, PTL DEF Spec

(* README "Two concurrent top-level runs and four total executions,        *)
(* including delegated subagents", and MAX_TASK_RUNS for board tasks.      *)
THEOREM CapsHold == ASSUME InTime PROVE Spec => []Caps
PROOF
<1>1. Init => Caps
  <2> SUFFICES ASSUME Init PROVE Caps
    OBVIOUS
  <2>1. Active(state) = {}
    BY DEF Init, Active, ActiveStates
  <2>2. /\ {r \in Active(state) : row[r].depth = 0} = {}
        /\ {r \in Active(state) : row[r].task} = {}
    BY <2>1
  <2> QED BY <2>1, <2>2, FS_EmptySet, LimitsAssumption DEF Caps
<1>2. IInv /\ Caps /\ [Next]_vars => Caps'
  <2> SUFFICES ASSUME IInv, Caps, [Next]_vars PROVE Caps'
    OBVIOUS
  <2> DEFINE Fits(S, rows) ==
        /\ Cardinality(S) <= MaxActive
        /\ Cardinality({r \in S : rows[r].depth = 0}) <= MaxTopLevel
        /\ Cardinality({r \in S : rows[r].task}) <= MaxTaskRuns
  <2>1. ActiveStep /\ \A q \in Active(state) : row'[q] = row[q]
    BY ActiveSteps
  <2>2. row' \in [Run -> Row]
    BY StepKinds DEF Keeps, Creates, Answers, IInv, TypeOK
  <2>3. Fits(Active(state), row)
    BY DEF Caps
  <2>4. ASSUME NEW S, S \subseteq Active(state) PROVE Fits(S, row')
    <3>1. /\ {r \in S : row'[r].depth = 0} \subseteq {r \in Active(state) : row[r].depth = 0}
          /\ {r \in S : row'[r].task} \subseteq {r \in Active(state) : row[r].task}
      BY <2>1, <2>4
    <3>2. ASSUME NEW T \in SUBSET Run, NEW U, U \subseteq T, NEW n \in Nat,
                 Cardinality(T) <= n
          PROVE  Cardinality(U) <= n
      <4>1. IsFiniteSet(T) /\ Cardinality(T) \in Nat /\ Cardinality(U) \in Nat
        BY <3>2, RunsAreFinite
      <4>2. Cardinality(U) <= Cardinality(T)
        BY <3>2, <4>1, FS_Subset
      <4> QED BY <3>2, <4>1, <4>2
    <3>3. /\ Active(state) \in SUBSET Run
          /\ {r \in Active(state) : row[r].depth = 0} \in SUBSET Run
          /\ {r \in Active(state) : row[r].task} \in SUBSET Run
          /\ MaxActive \in Nat /\ MaxTopLevel \in Nat /\ MaxTaskRuns \in Nat
      BY LimitsAssumption DEF Active
    <3>4. Cardinality(S) <= MaxActive
      BY <2>3, <2>4, <3>2, <3>3
    <3>5. Cardinality({r \in S : row'[r].depth = 0}) <= MaxTopLevel
      BY <2>3, <3>1, <3>2, <3>3
    <3>6. Cardinality({r \in S : row'[r].task}) <= MaxTaskRuns
      BY <2>3, <3>1, <3>2, <3>3
    <3> QED BY <3>4, <3>5, <3>6
  <2>5. CASE Active(state') \subseteq Active(state)
    BY <2>4, <2>5 DEF Caps
  <2>6. ASSUME NEW st, NEW stop, Active(st) \subseteq Active(state),
               Admission(row', st, stop)
        PROVE  Caps'
    <3>1. PICK admitted \in SUBSET Queued(st) :
            /\ IsAdmission(row', st, stop, admitted)
            /\ Active(state') = Active(st) \cup admitted
      BY <2>6, Zenon DEF Admission
    <3>2. Fits(Active(st), row')
      BY <2>4, <2>6
    <3>3. \A r \in Run : row'[r].depth \in 0 .. 2
      BY <2>2 DEF Row
    <3>4. Fits(Active(st) \cup admitted, row')
      BY <3>1, <3>2, <3>3, AdmissionRespectsLimits
    <3> QED BY <3>1, <3>4 DEF Caps
  <2> QED BY <2>1, <2>5, <2>6 DEF ActiveStep
<1> QED BY <1>1, <1>2, Invariance, PTL DEF Spec

-----------------------------------------------------------------------------
(* The coordinator implements RunService, whatever the outside world does. *)
(* The invariant is EndsOnce: unless an end may be revised, a coroutine    *)
(* that has not ended finds its run active, or cancelled by a stop, so     *)
(* that the end it records is the first.  A step is then a change of the   *)
(* tables, described by Changed, which pump() may follow.                  *)

(* What makes the coordinator write an end it is not sure of: a callback   *)
(* of Hermes after a stop, or a container that could not be stopped.       *)
Revised == Hazards \cap {"lateRequest", "lateReply", "stopFails"} # {}

(* The coroutines that are at an await, and what their run may be.         *)
Sound(st, ph) ==
  \A r \in Run : ph[r] \notin {"idle", "done"} => st[r] \in ActiveStates \cup {"cancelled"}

EndsOnce == Revised \/ Sound(state, phase)

(* What a handler makes of the state s of a run, before it pumps.          *)
Becomes(s, t) ==
  \/ t = s
  \/ s = "absent" /\ t = "queued"
  \/ s = "queued" /\ t \in {"cancelled", "interrupted"}
  \/ s \in ActiveStates /\ t \in ActiveStates \cup TerminalStates
  \/ s \in TerminalStates /\ t \in ActiveStates \cup TerminalStates /\ Revised

Changed(st) == st \in [Run -> RunState] /\ \A r \in Run : Becomes(state[r], st[r])

(* A change of the tables, and the admission that may follow.              *)
Admits(rows, st) ==
  \E stop : \E admitted \in SUBSET Queued(st) :
    /\ IsAdmission(rows, st, stop, admitted)
    /\ state' = [r \in Run |-> IF r \in admitted THEN "running" ELSE st[r]]

Moves == \E st : Changed(st) /\ (state' = st \/ Admits(row', st))

Steps == Moves /\ EndsOnce'

-----------------------------------------------------------------------------
(* The parts of a step.                                                    *)

(* A handler that ends in pump().                                          *)
LEMMA PumpSteps ==
  ASSUME NEW st, NEW ph, NEW us, NEW gws, NEW stop,
         Changed(st), Revised \/ Sound(st, ph),
         Pump(row', st, ph, us, gws, stop)
  PROVE  Steps
PROOF
<1>1. PICK admitted \in SUBSET Queued(st) :
        /\ IsAdmission(row', st, stop, admitted)
        /\ state' = [r \in Run |-> IF r \in admitted THEN "running" ELSE st[r]]
        /\ snapshots' = snapshots \cup admitted
        /\ using' = [r \in Run |->
                       IF r \in admitted THEN gws[row'[r].agent] ELSE us[r]]
        /\ phase' = [r \in Run |->
                       IF r \notin admitted THEN ph[r]
                       ELSE IF gws[row'[r].agent] = None THEN "socket" ELSE "prior"]
  BY Zenon DEF Pump
<1>2. Admits(row', st)
  BY <1>1, Zenon DEF Admits
<1>3. Moves
  BY <1>2, Zenon DEF Moves
<1>4. ASSUME Sound(st, ph) PROVE Sound(state', phase')
  <2> SUFFICES ASSUME NEW r \in Run, phase'[r] \notin {"idle", "done"}
               PROVE  state'[r] \in ActiveStates \cup {"cancelled"}
    BY DEF Sound
  <2>1. CASE r \in admitted
    BY <1>1, <2>1 DEF ActiveStates
  <2>2. CASE r \notin admitted
    BY <1>1, <1>4, <2>2 DEF Sound
  <2> QED BY <2>1, <2>2
<1>5. EndsOnce'
  BY <1>4 DEF EndsOnce, Revised, Sound
<1> QED BY <1>3, <1>5 DEF Steps

(* A handler that does not pump.                                           *)
LEMMA PlainSteps ==
  ASSUME Changed(state'), Revised \/ Sound(state', phase')
  PROVE  Steps
PROOF
<1>1. Moves
  BY Zenon DEF Moves
<1>2. EndsOnce'
  BY DEF EndsOnce, Revised, Sound
<1> QED BY <1>1, <1>2 DEF Steps

(* A handler that leaves the states alone and starts no coroutine.         *)
LEMMA IdleSteps ==
  ASSUME IInv, EndsOnce, state' = state,
         \A r \in Run : phase'[r] \notin {"idle", "done"} => phase[r] \notin {"idle", "done"}
  PROVE  Steps
PROOF
<1>1. Changed(state')
  BY DEF IInv, TypeOK, Changed, Becomes
<1>2. Revised \/ Sound(state', phase')
  BY DEF EndsOnce, Sound
<1> QED BY <1>1, <1>2, PlainSteps

(* A run that has begun is active or has ended.                            *)
LEMMA BegunStates ==
  ASSUME IInv, NEW r \in Run, r \in snapshots
  PROVE  state[r] \in ActiveStates \cup TerminalStates
BY DEF IInv, TypeOK, NeverReplayed, RunState

(* The end of a coroutine, which leaves a cancellation alone.              *)
LEMMA FinishSteps ==
  ASSUME IInv, EndsOnce, NEW r \in Run, NEW final \in TerminalStates, NEW gws,
         phase[r] \notin {"idle", "done"},
         state[r] = "cancelled" => final = "cancelled",
         Finish(r, final, gws), row' = row
  PROVE  Steps
PROOF
<1> DEFINE st == [state EXCEPT ![r] = final]
           ph == [phase EXCEPT ![r] = "done"]
           us == [using EXCEPT ![r] = None]
<1>1. Pump(row', st, ph, us, gws, stopping)
  BY DEF Finish
<1>2. state \in [Run -> RunState] /\ phase \in [Run -> Phases] /\ r \in snapshots
  BY DEF IInv, TypeOK, NeverReplayed
<1>3. state[r] \in ActiveStates \cup TerminalStates
  BY <1>2, BegunStates
<1>4. Revised \/ state[r] \in ActiveStates \cup {"cancelled"}
  BY DEF EndsOnce, Sound
<1>5. Becomes(state[r], final)
  BY <1>3, <1>4 DEF Becomes
<1>6. Changed(st)
  <2>1. st \in [Run -> RunState]
    BY <1>2 DEF RunState
  <2>2. \A q \in Run : st[q] = IF q = r THEN final ELSE state[q]
    BY <1>2
  <2>3. \A q \in Run : Becomes(state[q], state[q])
    BY DEF Becomes
  <2> HIDE DEF st
  <2> QED BY <1>5, <2>1, <2>2, <2>3 DEF Changed
<1>7. Revised \/ Sound(st, ph)
  BY <1>2 DEF EndsOnce, Sound
<1> HIDE DEF st, ph, us
<1> QED BY <1>1, <1>6, <1>7, PumpSteps

(* A new run is queued, and perhaps started at once.                       *)
LEMMA InsertSteps ==
  ASSUME IInv, EndsOnce, NEW r \in Run, NEW a, NEW parent, NEW task,
         Insert(r, a, parent, task)
  PROVE  Steps
PROOF
<1> DEFINE rows == [row EXCEPT ![r] = NewRow(a, parent, task)]
           st   == [state EXCEPT ![r] = "queued"]
<1>1. IsNext(state, r) /\ row' = rows /\ Pump(rows, st, phase, using, gateways, stopping)
  BY DEF Insert
<1>2. Pump(row', st, phase, using, gateways, stopping)
  BY <1>1
<1>3. state \in [Run -> RunState] /\ state[r] = "absent" /\ phase[r] = "idle"
  BY <1>1 DEF IInv, TypeOK, NeverReplayed, IsNext
<1>4. \A q \in Run : st[q] = IF q = r THEN "queued" ELSE state[q]
  BY <1>3
<1>5. Changed(st)
  <2>1. st \in [Run -> RunState]
    BY <1>3 DEF RunState
  <2> HIDE DEF st
  <2> QED BY <1>3, <1>4, <2>1 DEF Changed, Becomes
<1>6. Revised \/ Sound(st, phase)
  <2> HIDE DEF st
  <2> QED BY <1>3, <1>4 DEF EndsOnce, Sound
<1> HIDE DEF st
<1> QED BY <1>2, <1>5, <1>6, PumpSteps

(* A segment of stopRunTree: runs that have not ended are cancelled.       *)
LEMMA WalkSteps ==
  ASSUME IInv, EndsOnce, NEW s \in Stoppers, NEW stop, stop.todo \subseteq Run,
         NEW st \in [Run -> RunState], NEW gws, NEW marks,
         \A q \in Run : \/ st[q] = state[q]
                        \/ st[q] = "interrupted" /\ state[q] # "absent" /\ Revised,
         \A q \in stop.todo : state[q] # "absent",
         Walk(s, stop, st, gws, marks), row' = row
  PROVE  Steps
PROOF
<1> DEFINE unfinished == {q \in stop.todo : st[q] \notin TerminalStates}
           waits == {q \in unfinished : GatewayToStop(q, st, gws) # None}
           marksAfter(quick) == marks \ {AgentOf(q) : q \in quick}
           cancel(ids) == [q \in Run |-> IF q \in ids THEN "cancelled" ELSE st[q]]
<1>1. state \in [Run -> RunState]
  BY DEF IInv, TypeOK
<1>2. ASSUME NEW ids \in SUBSET unfinished
      PROVE  Changed(cancel(ids)) /\ (Revised \/ Sound(cancel(ids), phase))
  <2>1. cancel(ids) \in [Run -> RunState]
    BY DEF RunState, TerminalStates
  <2>2. \A q \in Run : cancel(ids)[q] = IF q \in ids THEN "cancelled" ELSE st[q]
    OBVIOUS
  <2>3. \A q \in ids : /\ state[q] \in RunState /\ state[q] # "absent"
                       /\ state[q] \notin TerminalStates \/ Revised
    <3>1. \A q \in ids : q \in Run /\ q \in stop.todo /\ st[q] \notin TerminalStates
      OBVIOUS
    <3>2. "interrupted" \in TerminalStates
      BY DEF TerminalStates
    <3> QED BY <1>1, <3>1, <3>2
  <2> HIDE DEF cancel, unfinished
  <2>4. \A q \in Run : Becomes(state[q], cancel(ids)[q])
    <3> SUFFICES ASSUME NEW q \in Run PROVE Becomes(state[q], cancel(ids)[q])
      OBVIOUS
    <3>1. CASE q \in ids
      BY <2>2, <2>3, <3>1 DEF Becomes, RunState, TerminalStates
    <3>2. CASE q \notin ids /\ st[q] = state[q]
      BY <2>2, <3>2 DEF Becomes
    <3>3. CASE q \notin ids /\ st[q] = "interrupted" /\ state[q] # "absent" /\ Revised
      BY <1>1, <2>2, <3>3 DEF Becomes, RunState, TerminalStates
    <3> QED BY <3>1, <3>2, <3>3
  <2>5. Revised \/ Sound(cancel(ids), phase)
    BY <2>2 DEF EndsOnce, Sound
  <2> QED BY <2>1, <2>4, <2>5 DEF Changed
<1>3. CASE Pump(row, cancel(unfinished), phase, using, gws, marksAfter(unfinished))
  <2>1. Pump(row', cancel(unfinished), phase, using, gws, marksAfter(unfinished))
    BY <1>3
  <2>2. Changed(cancel(unfinished)) /\ (Revised \/ Sound(cancel(unfinished), phase))
    <3> HIDE DEF cancel, unfinished
    <3> QED BY <1>2
  <2> HIDE DEF cancel, unfinished, marksAfter
  <2> QED BY <2>1, <2>2, PumpSteps
<1>4. ASSUME NEW next \in waits,
             state' = cancel({q \in unfinished : Before(row, q, next)} \cup {next}),
             phase' = phase
      PROVE  Steps
  <2> DEFINE ids == {q \in unfinished : Before(row, q, next)} \cup {next}
  <2>1. ids \in SUBSET unfinished
    OBVIOUS
  <2>2. state' = cancel(ids)
    BY <1>4
  <2>3. Changed(state') /\ (Revised \/ Sound(state', phase'))
    <3> HIDE DEF cancel, ids, unfinished
    <3> QED BY <1>2, <1>4, <2>1, <2>2
  <2> QED BY <2>3, PlainSteps
<1>5. \/ Pump(row, cancel(unfinished), phase, using, gws, marksAfter(unfinished))
      \/ \E next \in waits :
           /\ state' = cancel({q \in unfinished : Before(row, q, next)} \cup {next})
           /\ phase' = phase
  BY DEF Walk
<1> QED BY <1>3, <1>4, <1>5

(* stopRunTree on runs that exist.                                         *)
LEMMA StopNewestSteps ==
  ASSUME IInv, EndsOnce, NEW s \in Stoppers, NEW roots \in SUBSET Run,
         \A q \in roots : state[q] # "absent",
         StopNewest(s, roots)
  PROVE  Steps
PROOF
<1>1. PICK root \in roots :
        /\ \A q \in roots : q <= root
        /\ Walk(s, [NoStop EXCEPT !.roots = roots \ {root},
                                  !.todo  = {root} \cup Descendants(row, root)],
                state, gateways, stopping)
        /\ UNCHANGED <<live, OutsideStop>>
  BY Zenon DEF StopNewest
<1> DEFINE stop == [NoStop EXCEPT !.roots = roots \ {root},
                                  !.todo  = {root} \cup Descendants(row, root)]
<1>2. stop.todo = {root} \cup Descendants(row, root)
  BY DEF NoStop
<1>3. \A q \in Descendants(row, root) : q \in Run /\ state[q] # "absent"
  BY DescendantsWritten DEF IInv
<1>4. stop.todo \subseteq Run /\ \A q \in stop.todo : state[q] # "absent"
  BY <1>2, <1>3
<1>5. state \in [Run -> RunState] /\ row' = row
  BY <1>1 DEF IInv, TypeOK, OutsideStop
<1>6. Walk(s, stop, state, gateways, stopping)
  BY <1>1
<1> HIDE DEF stop
<1> QED BY <1>4, <1>5, <1>6, WalkSteps

-----------------------------------------------------------------------------
(* Every step.                                                             *)

(* Every step of the coroutine execute().                                  *)
LEMMA ExecutesSteps ==
  ASSUME IInv, EndsOnce, NEW r \in Run, Executes(r) PROVE Steps
PROOF
<1>1. phase \in [Run -> Phases]
  BY DEF IInv, TypeOK
<1>2. ASSUME NEW outcome \in {"failed", "completed", "interrupted", "cancelled"}
      PROVE  /\ outcome \in TerminalStates /\ EndState(r, outcome) \in TerminalStates
             /\ state[r] = "cancelled" => EndState(r, outcome) = "cancelled"
  BY DEF EndState, TerminalStates
<1>3. ASSUME NEW to \in {"socket", "session", "start", "prompt"},
             phase[r] \notin {"idle", "done"},
             phase' = [phase EXCEPT ![r] = to], state' = state
      PROVE  Steps
  <2>1. \A q \in Run : phase'[q] \notin {"idle", "done"} => phase[q] \notin {"idle", "done"}
    BY <1>1, <1>3
  <2> QED BY <1>3, <2>1, IdleSteps
<1>4. CASE PriorStopped(r)
  BY <1>3, <1>4 DEF PriorStopped
<1>5. CASE PriorStopFails(r)
  BY <1>2, <1>5, FinishSteps DEF PriorStopFails, OutsideExecute
<1>6. CASE SocketReady(r)
  <2>1. CASE state[r] = "cancelled"
    BY <1>2, <1>6, <2>1, FinishSteps DEF SocketReady, OutsideExecute
  <2>2. CASE state[r] # "cancelled"
    <3>1. /\ phase[r] = "socket" /\ state' = state
          /\ \/ phase' = [phase EXCEPT ![r] = "session"]
             \/ phase' = [phase EXCEPT ![r] = "start"]
      BY <1>6, <2>2 DEF SocketReady
    <3> QED BY <1>3, <3>1
  <2> QED BY <2>1, <2>2
<1>7. CASE PrepareFails(r)
  BY <1>2, <1>7, FinishSteps DEF PrepareFails, OutsideExecute
<1>8. CASE GatewayReady(r)
  BY <1>3, <1>8 DEF GatewayReady
<1>9. CASE GatewayStartFails(r)
  BY <1>2, <1>9, FinishSteps DEF GatewayStartFails, OutsideExecute
<1>10. CASE SessionCreated(r)
  <2>1. CASE state[r] = "cancelled"
    BY <1>2, <1>10, <2>1, FinishSteps DEF SessionCreated, OutsideExecute
  <2>2. CASE state[r] # "cancelled"
    BY <1>3, <1>10, <2>2 DEF SessionCreated
  <2> QED BY <2>1, <2>2
<1>11. CASE PromptCompletes(r)
  BY <1>2, <1>11, FinishSteps DEF PromptCompletes, OutsideExecute
<1>12. ASSUME NEW outcome \in {"failed", "interrupted"}, SessionFails(r, outcome)
       PROVE  Steps
  BY <1>2, <1>12, FinishSteps DEF SessionFails, OutsideExecute
<1>13. ASSUME NEW outcome \in {"failed", "interrupted"}, PromptFails(r, outcome)
       PROVE  Steps
  BY <1>2, <1>13, FinishSteps DEF PromptFails, OutsideExecute
<1> QED BY <1>4, <1>5, <1>6, <1>7, <1>8, <1>9, <1>10, <1>11, <1>12, <1>13 DEF Executes

(* The stop routes stop runs that exist.                                   *)
LEMMA TargetsExist ==
  ASSUME NEW roots \in StopTargets
  PROVE  roots \in SUBSET Run /\ \A q \in roots : state[q] # "absent"
BY DEF StopTargets, Listed, Existing

(* Every step of a stop request, its first included.                       *)
LEMMA StopsSteps ==
  ASSUME IInv, EndsOnce, NEW s \in Stoppers,
         Stops(s) \/ \E roots \in StopTargets : RequestStop(s, roots)
  PROVE  Steps
PROOF
<1>1. /\ stops[s] \in StopRequest /\ StopsKnown
      /\ state \in [Run -> RunState]
  BY DEF IInv, TypeOK
<1>2. /\ stops[s].roots \subseteq Run /\ stops[s].todo \subseteq Run
      /\ \A q \in Run : q \in stops[s].roots \cup stops[s].todo \cup {stops[s].cur}
           => state[q] # "absent"
  BY <1>1 DEF StopRequest, StopsKnown
<1>3. \A q \in stops[s].todo : state[q] # "absent"
  BY <1>2
<1>4. ASSUME NEW roots \in StopTargets, RequestStop(s, roots) PROVE Steps
  <2>1. roots \in SUBSET Run /\ \A q \in roots : state[q] # "absent"
    BY TargetsExist
  <2> QED BY <1>4, <2>1, StopNewestSteps DEF RequestStop
<1>5. CASE NextTree(s)
  BY <1>2, <1>5, StopNewestSteps DEF NextTree
<1>6. CASE InterruptReturns(s)
  BY <1>6, IdleSteps DEF InterruptReturns, database
<1>7. CASE ContainerStopped(s)
  <2>1. \E gws, marks : Walk(s, stops[s], state, gws, marks)
    BY <1>7, Zenon DEF ContainerStopped
  <2>2. row' = row
    BY <1>7 DEF ContainerStopped, OutsideStop
  <2> QED BY <1>1, <1>2, <1>3, <2>1, <2>2, WalkSteps
<1>8. CASE ContainerStopFails(s)
  <2> DEFINE st == [state EXCEPT ![stops[s].cur] = "interrupted"]
             marks == stopping \ {AgentOf(stops[s].cur)}
  <2>1. st \in [Run -> RunState]
    BY <1>1 DEF RunState, TerminalStates
  <2>2. Revised
    BY <1>8 DEF ContainerStopFails, Revised
  <2>3. \A q \in Run : \/ st[q] = state[q]
                       \/ st[q] = "interrupted" /\ state[q] # "absent" /\ Revised
    BY <1>1, <1>2, <2>2
  <2>4. Walk(s, stops[s], st, gateways, marks) /\ row' = row
    BY <1>8 DEF ContainerStopFails, OutsideStop
  <2> HIDE DEF st, marks
  <2> QED BY <1>2, <1>3, <2>1, <2>3, <2>4, WalkSteps
<1> QED BY <1>4, <1>5, <1>6, <1>7, <1>8 DEF Stops

(* Hermes asks the operator, or confirms his answer.                       *)
LEMMA AnswersSteps ==
  ASSUME IInv, EndsOnce, NEW r \in Run,
         \/ \E waiting \in Requests : AsksOperator(r, waiting)
         \/ AnswerConfirmed(r)
  PROVE  Steps
PROOF
<1>1. state \in [Run -> RunState]
  BY DEF IInv, TypeOK
<1>2. r \in snapshots
  BY DEF IInv, TypeOK, NeverReplayed, AnswersBegun, AsksOperator, AnswerConfirmed, None, Run
<1>3. state[r] \in ActiveStates \cup TerminalStates
  BY <1>2, BegunStates
<1>4. state[r] \in ActiveStates \/ Revised
  BY DEF AsksOperator, AnswerConfirmed, Revised
<1>5. PICK to \in ActiveStates : state' = [state EXCEPT ![r] = to]
  BY InputsAssumption DEF AsksOperator, AnswerConfirmed, ActiveStates
<1>6. phase' = phase
  BY DEF AsksOperator, AnswerConfirmed, memory
<1>7. Changed(state')
  <2>1. state' \in [Run -> RunState]
    BY <1>1, <1>5 DEF RunState
  <2>2. \A q \in Run : state'[q] = IF q = r THEN to ELSE state[q]
    BY <1>1, <1>5
  <2> QED BY <1>3, <1>4, <2>1, <2>2 DEF Changed, Becomes
<1>8. Revised \/ Sound(state', phase')
  BY <1>1, <1>5, <1>6 DEF EndsOnce, Sound
<1> QED BY <1>7, <1>8, PlainSteps

(* A restart fails what was queued for a task and ends what was active.    *)
LEMMA RestartSteps ==
  ASSUME IInv, Restart PROVE Steps
PROOF
<1>1. state \in [Run -> RunState]
  BY DEF IInv, TypeOK
<1>2. /\ \A q \in Run : state'[q] = AfterRestart(q)
      /\ state' = [q \in Run |-> AfterRestart(q)]
      /\ phase' = [q \in Run |-> "idle"]
  BY DEF Restart
<1>3. \A q \in Run : AfterRestart(q) \in RunState /\ Becomes(state[q], AfterRestart(q))
  BY <1>1 DEF AfterRestart, Becomes, RunState, TerminalStates
<1>4. Changed(state')
  BY <1>2, <1>3 DEF Changed
<1>5. Sound(state', phase')
  BY <1>2 DEF Sound
<1> QED BY <1>4, <1>5, PlainSteps

(* Every step of the specification.                                        *)
LEMMA NextSteps == IInv /\ EndsOnce /\ [Next]_vars => Steps
PROOF
<1> SUFFICES ASSUME IInv, EndsOnce, [Next]_vars PROVE Steps
  OBVIOUS
<1>1. CASE UNCHANGED vars
  BY <1>1, IdleSteps DEF vars, database, memory
<1>2. ASSUME NEW r \in Run, Executes(r) PROVE Steps
  BY <1>2, ExecutesSteps
<1>3. ASSUME NEW r \in Run, NEW a \in Agents, NEW task \in TaskKinds, CreateRun(r, a, task)
      PROVE  Steps
  BY <1>3, InsertSteps DEF CreateRun
<1>4. ASSUME NEW r \in Run, NEW parent \in Run, NEW child \in Run, NEW a \in Agents,
             Handoff(r, parent, child, a)
      PROVE  Steps
  BY <1>4, InsertSteps DEF Handoff
<1>5. ASSUME NEW r \in Run,
             \/ HandoffReturns(r) \/ HandoffTimesOut(r) \/ GatewayExits(r)
             \/ GatewayCrashes(r) \/ AnswerApproval(r) \/ AnswerLost(r)
      PROVE  Steps
  <2>1. state' = state /\ phase' = phase
    BY <1>5 DEF HandoffReturns, HandoffTimesOut, GatewayExits, GatewayCrashes,
                AnswerApproval, AnswerLost, database, memory
  <2> QED BY <2>1, IdleSteps
<1>6. ASSUME NEW r \in Run,
             (\E waiting \in Requests : AsksOperator(r, waiting)) \/ AnswerConfirmed(r)
      PROVE  Steps
  BY <1>6, AnswersSteps
<1>7. ASSUME NEW s \in Stoppers,
             (\E roots \in StopTargets : RequestStop(s, roots)) \/ Stops(s)
      PROVE  Steps
  BY <1>7, StopsSteps
<1>8. CASE Restart
  BY <1>8, RestartSteps
<1> QED BY <1>1, <1>2, <1>3, <1>4, <1>5, <1>6, <1>7, <1>8, Zenon DEF Next

(* The invariant holds throughout.                                         *)
LEMMA EndsOnceHolds == Spec => []EndsOnce
PROOF
<1>1. Init => EndsOnce
  BY DEF Init, EndsOnce, Sound
<1>2. IInv /\ EndsOnce /\ [Next]_vars => EndsOnce'
  BY NextSteps DEF Steps
<1> QED BY <1>1, <1>2, Invariance, PTL DEF Spec

-----------------------------------------------------------------------------
(* An end is an end, if the outside world answers in time and containers   *)
(* can be stopped: whatever coroutine, stop request, crash or restart      *)
(* comes to a finished run leaves it as it is.                             *)
THEOREM EndsAreFinal == ASSUME ~ Revised PROVE Spec => TerminalIsFinal
PROOF
<1>1. IInv /\ EndsOnce /\ [Next]_vars
        => [\A r \in Run : state[r] \in TerminalStates => state'[r] = state[r]]_vars
  <2> SUFFICES ASSUME IInv, EndsOnce, [Next]_vars, NEW r \in Run, state[r] \in TerminalStates
               PROVE  state'[r] = state[r]
    OBVIOUS
  <2>1. PICK st : Changed(st) /\ (state' = st \/ Admits(row', st))
    BY NextSteps, Zenon DEF Steps, Moves
  <2>2. st[r] = state[r] /\ st[r] # "queued"
    BY <2>1 DEF Changed, Becomes, TerminalStates, ActiveStates
  <2>3. CASE Admits(row', st)
    BY <2>2, <2>3 DEF Admits, Queued
  <2> QED BY <2>1, <2>2, <2>3
<1> QED BY <1>1, Invariance, EndsOnceHolds, PTL DEF Spec, TerminalIsFinal

-----------------------------------------------------------------------------
(* The refinement.                                                         *)

(* A change of the tables is a move the callers were told of.              *)
LEMMA MovesAllowed ==
  ASSUME NEW s \in RunState, NEW t \in RunState, NEW u \in RunState,
         Becomes(s, t), u = t \/ (t = "queued" /\ u = "running")
  PROVE  Service!MayMove(ServiceState(s), ServiceState(u))
PROOF
<1>1. CASE u = t
  BY <1>1, StateSeen
     DEF Becomes, Revised, Service!MayMove, Service!Live, Service!Ended
<1>2. CASE t = "queued" /\ u = "running"
  <2>1. s \in {"absent", "queued"}
    BY <1>2 DEF Becomes, ActiveStates, TerminalStates
  <2> QED BY <1>2, <2>1, StateSeen DEF Service!MayMove
<1> QED BY <1>1, <1>2

(* The instance counts as this module does.                                *)
LEMMA SameCount == ASSUME NEW S PROVE Service!Cardinality(S) = Cardinality(S)
BY DEF Cardinality, Service!Cardinality

(* A run that starts in a step has its agent for itself after it.          *)
LEMMA StartsFit ==
  ASSUME Moves, NEW n \in Run,
         state[n] \in {"absent", "queued"}, state'[n] = "running"
  PROVE  /\ \A q \in Active(state') : row'[q].agent = row'[n].agent => q = n
         /\ Cardinality(Active(state')) <= MaxActive
PROOF
<1>1. PICK st : Changed(st) /\ (state' = st \/ Admits(row', st))
  BY Zenon DEF Moves
<1>2. st \in [Run -> RunState] /\ st[n] # "running"
  BY <1>1 DEF Changed, Becomes, ActiveStates, TerminalStates
<1>3. Admits(row', st)
  BY <1>1, <1>2
<1>4. PICK stop : \E admitted \in SUBSET Queued(st) :
        /\ IsAdmission(row', st, stop, admitted)
        /\ state' = [r \in Run |-> IF r \in admitted THEN "running" ELSE st[r]]
  BY <1>3, Zenon DEF Admits
<1>5. PICK admitted \in SUBSET Queued(st) :
        /\ IsAdmission(row', st, stop, admitted)
        /\ state' = [r \in Run |-> IF r \in admitted THEN "running" ELSE st[r]]
  BY <1>4, Zenon
<1>6. n \in admitted
  BY <1>2, <1>5
<1>7. Active(state') = Active(st) \cup admitted
  BY <1>5 DEF Active, ActiveStates, Queued
<1>8. /\ \A q \in Active(st) \cup admitted : row'[q].agent = row'[n].agent => q = n
      /\ Cardinality(Active(st) \cup admitted) <= MaxActive
  BY <1>5, <1>6, AdmittedFits
<1> QED BY <1>7, <1>8

(* Every step is a step of the service.                                    *)
LEMMA StepImplements ==
  ASSUME IInv, EndsOnce, [Next]_vars
  PROVE  Service!ServiceNext
PROOF
<1>1. Moves /\ IInv'
  BY NextSteps, StepKinds DEF Steps, Keeps, Creates, Answers
<1>2. state \in [Run -> RunState] /\ state' \in [Run -> RunState]
  BY <1>1 DEF IInv, TypeOK
<1>3. ASSUME NEW r \in Run
      PROVE  Service!MayMove(ServiceState(state[r]), ServiceState(state'[r]))
  <2>1. PICK st : Changed(st) /\ (state' = st \/ Admits(row', st))
    BY <1>1, Zenon DEF Moves
  <2>2. state[r] \in RunState /\ st[r] \in RunState /\ state'[r] \in RunState
        /\ Becomes(state[r], st[r])
    BY <1>2, <2>1 DEF Changed
  <2>3. state'[r] = st[r] \/ (st[r] = "queued" /\ state'[r] = "running")
    BY <2>1 DEF Admits, Queued
  <2> QED BY <2>2, <2>3, MovesAllowed
<1>4. ASSUME NEW r \in Run, state[r] # "absent"
      PROVE  row'[r].agent = row[r].agent
  <2>1. row \in [Run -> Row]
    BY DEF IInv, TypeOK
  <2> QED BY <1>4, <2>1, StepKinds DEF Keeps, Creates, Answers, SameRuns, NewRun, IsNext
<1>5. ASSUME NEW r \in Run, state'[r] # "absent"
      PROVE  row'[r].agent \in Agents
  BY <1>1, <1>5 DEF IInv, RowsWritten, AgentOf
<1>6. ASSUME NEW r \in Run, state[r] \in {"absent", "queued"}, state'[r] = "running"
      PROVE  /\ \A q \in Active(state') : row'[q].agent = row'[r].agent => q = r
             /\ Cardinality(Active(state')) <= MaxActive
  BY <1>1, <1>6, StartsFit
<1>7. Active(state') = {q \in Run : ServiceState(state'[q]) \in Service!Live}
  BY <1>2, StateSeen DEF Active, Service!Live
<1> SUFFICES ASSUME NEW r \in Run
             PROVE  /\ Service!MayMove(ServiceState(state[r]), ServiceState(state'[r]))
                    /\ ServiceState(state[r]) # "absent" => row'[r].agent = row[r].agent
                    /\ ServiceState(state'[r]) # "absent" => row'[r].agent \in Agents
                    /\ ServiceState(state[r]) \in {"absent", "queued"} /\ ServiceState(state'[r]) = "running"
                         => /\ \A q \in Active(state') : row'[q].agent = row'[r].agent => q = r
                            /\ Cardinality(Active(state')) <= MaxActive
  <2>1. Service!Cardinality(Active(state')) = Cardinality(Active(state'))
    BY SameCount
  <2> QED BY <1>7, <2>1, ZenonT(40) DEF Service!ServiceNext, Service!Fits
<1>8. state[r] \in RunState /\ state'[r] \in RunState
  BY <1>2
<1> QED BY <1>3, <1>4, <1>5, <1>6, <1>8, StateSeen

(* The coordinator keeps its promises to the board, the routines and the   *)
(* browser: a run of theirs begins at most once, alone with its agent and  *)
(* within the limit, keeps its agent, and its end is final unless the      *)
(* outside world answers late.                                             *)
THEOREM ImplementsService == Spec => ImplementsRunService
PROOF
<1>1. Init => Service!ServiceInit
  BY DEF Init, Service!ServiceInit, ServiceState, NoRow
<1>2. IInv /\ EndsOnce /\ [Next]_vars => [Service!ServiceNext]_(Service!service)
  BY StepImplements
<1> QED BY <1>1, <1>2, Invariance, EndsOnceHolds, PTL
        DEF Spec, ImplementsRunService, Service!ServiceSpec
=============================================================================
