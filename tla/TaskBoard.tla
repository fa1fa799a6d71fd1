----------------------------- MODULE TaskBoard -----------------------------
(***************************************************************************)
(* The project board of runtime/tasks.ts with the teams of runtime/teams.ts*)
(* and the task drawer of components/task-manager.tsx, on top of the runs  *)
(* RunService promises.  A handler of the board writes without an await    *)
(* once it has its body, so each is one action.  What it may have read     *)
(* before is the card it checks the request against: an update then        *)
(* carries the revision of that card, a move does not, see Move.  What     *)
(* interleaves are requests of several clients, the tool calls of agents,  *)
(* and the coroutines of the runs, whose every setRun() reaches syncRun()  *)
(* through the run listener.                                               *)
(*                                                                         *)
(* Left out: titles, labels, comments, the order of cards and of boards,   *)
(* and the dispatch settings.  A revision is not a number here: a draft    *)
(* whose revision is no longer current can only be refused, so a step that *)
(* bumps the revision of a card drops the drafts of it.                    *)
(***************************************************************************)
EXTENDS RunService

CONSTANTS
  Boards, Stages, Tasks, Teams, Clients,
  Workflow,      \* the category of each stage createBoard makes, a sequence
  NoTeam, NoTask, NoRun, NoDraft,
  Requests,      \* the kinds of requests that arrive, see Next
  NewCategories, \* the categories stages are added with and changed to
  Chosen         \* the stages chosen in the settings of a board

Categories == {"backlog", "ready", "in_progress", "review", "done"}
NoStage == 0

ASSUME BoardAssumption ==
  /\ Stages \subseteq Nat \ {NoStage}
  /\ DOMAIN Workflow \subseteq Stages /\ 1 \in DOMAIN Workflow
  /\ \A s \in DOMAIN Workflow : Workflow[s] \in Categories
  /\ \E s \in DOMAIN Workflow : Workflow[s] = "review"
  /\ NewCategories \subseteq Categories /\ Chosen \subseteq Stages
  /\ NoTeam \notin Teams /\ NoTask \notin Tasks /\ NoRun \notin Runs /\ NoDraft \notin Clients
  /\ Requests \subseteq {"boards", "stages", "recategorise", "settings", "teams", "archives", "moves", "checks"}

VARIABLES
  boards,      \* task_boards and task_stages
  tasks,       \* tasks, task_collaborators, task_checklist
  link,        \* task_runs: the task and the attempt of a run
  teams,       \* teams, team_members
  executing,   \* runs whose coroutine has not ended, stopped ones included
  drafts       \* the open drawer of each browser, while its revision is current

board == <<boards, tasks, link, teams, executing, drafts>>
vars  == <<service, board>>

Board == [status : {"absent", "open", "archived", "deleted"},
          stage  : [Stages -> Categories \cup {"absent", "removed"}],
          run    : Stages \cup {NoStage},     \* settings.runStageId
          done   : Stages \cup {NoStage}]     \* settings.doneStageId
Task  == [status  : {"absent", "open", "archived", "deleted"},
          board   : Boards,
          stage   : Stages,
          team    : Teams \cup {NoTeam},
          owner   : Owners \cup {NoOwner},
          helpers : SUBSET Owners,            \* collaborators
          ticked  : BOOLEAN,                  \* the checklist
          active  : Runs \cup {NoRun},        \* active_run_id
          strayed : BOOLEAN]                  \* history, no part of the row: see Move
Draft == [task : Tasks, copy : Task]
Team  == [status : {"absent", "active", "retired"}, members : SUBSET Owners]

TypeOK ==
  /\ state \in [Runs -> RunStates] /\ owner \in [Runs -> Owners \cup {NoOwner}]
  /\ boards \in [Boards -> Board]
  /\ tasks \in [Tasks -> Task]
  /\ link \in [Runs -> [task : Tasks \cup {NoTask}, attempt : Nat]]
  /\ teams \in [Teams -> Team]
  /\ executing \subseteq Runs
  /\ drafts \in [Clients -> Draft \cup {NoDraft}]

NewBoard == [status |-> "open", run |-> NoStage, done |-> NoStage,
             stage |-> [s \in Stages |-> IF s \in DOMAIN Workflow THEN Workflow[s] ELSE "absent"]]
NoBoardYet == [NewBoard EXCEPT !.status = "absent", !.stage = [s \in Stages |-> "absent"]]

(* ensureDefaultBoard has made one board. *)
Init ==
  /\ ServiceInit
  /\ \E b \in Boards : boards = [c \in Boards |-> IF c = b THEN NewBoard ELSE NoBoardYet]
  /\ \E b \in Boards :
       /\ boards[b].status = "open"
       /\ tasks = [t \in Tasks |->
                   [status |-> "absent", board |-> b, stage |-> 1, team |-> NoTeam,
                    owner |-> NoOwner, helpers |-> {}, ticked |-> FALSE, active |-> NoRun,
                    strayed |-> FALSE]]
  /\ link = [r \in Runs |-> [task |-> NoTask, attempt |-> 0]]
  /\ teams = [m \in Teams |-> [status |-> "absent", members |-> {}]]
  /\ executing = {}
  /\ drafts = [c \in Clients |-> NoDraft]

-----------------------------------------------------------------------------
(* Queries.                                                                *)

Kept == {"open", "archived"}
BoardExists(b) == boards[b].status \in Kept
Exists(t)      == tasks[t].status \in Kept
OnBoard(b)     == {t \in Tasks : Exists(t) /\ tasks[t].board = b}
StagesOf(b)    == {s \in Stages : boards[b].stage[s] \in Categories}
InCategory(b, category) == {s \in StagesOf(b) : boards[b].stage[s] = category}

(* settings(): the stored stage, or else the first of the category.  With  *)
(* the positions left out, any stage of the category may be the first.     *)
Setting(b, stored, category) ==
  IF stored \in StagesOf(b) THEN {stored}
  ELSE IF InCategory(b, category) # {} THEN InCategory(b, category) ELSE {NoStage}
RunStage(b)  == Setting(b, boards[b].run, "in_progress")
DoneStage(b) == Setting(b, boards[b].done, "review")

Attempts(t) == {r \in Runs : link[r].task = t}
Busy(t)     == tasks[t].active # NoRun /\ state[tasks[t].active] \in Pending

(* teams.validateAssignment. *)
ValidAssignment(m, o, helpers) ==
  IF m = NoTeam THEN helpers \subseteq {o}
  ELSE /\ teams[m].status = "active"
       /\ ({o} \ {NoOwner}) \cup helpers \subseteq teams[m].members

(* The revision of the cards ts is bumped. *)
Bump(ts) ==
  drafts' = [c \in Clients |->
              IF drafts[c] # NoDraft /\ drafts[c].task \in ts THEN NoDraft ELSE drafts[c]]

-----------------------------------------------------------------------------
(* Boards and stages.                                                      *)

OnlyBoards == UNCHANGED <<service, tasks, link, teams, executing, drafts>>

CreateBoard(b) ==
  /\ boards[b].status = "absent"
  /\ boards' = [boards EXCEPT ![b] = NewBoard]
  /\ OnlyBoards

(* updateBoard with the current revision; settings are stored repaired.    *)
UpdateBoard(b, status, run, done) ==
  /\ BoardExists(b)
  /\ status = "archived" => \A t \in OnBoard(b) : tasks[t].active = NoRun
  /\ run \in (StagesOf(b) \cap Chosen) \cup RunStage(b)
  /\ done \in (StagesOf(b) \cap Chosen) \cup DoneStage(b)
  /\ boards' = [boards EXCEPT ![b].status = status, ![b].run = run, ![b].done = done]
  /\ OnlyBoards

(* The rows of the cards ts go, their links to runs with them.             *)
Delete(ts) ==
  /\ tasks' = [t \in Tasks |-> IF t \in ts THEN [tasks[t] EXCEPT !.status = "deleted", !.active = NoRun]
                               ELSE tasks[t]]
  /\ link' = [r \in Runs |-> IF link[r].task \in ts THEN [task |-> NoTask, attempt |-> 0] ELSE link[r]]
  /\ Bump(ts)

DeleteBoard(b) ==
  /\ BoardExists(b)
  /\ \E c \in Boards \ {b} : boards[c].status = "open"
  /\ \A t \in OnBoard(b) : ~ Busy(t)
  /\ boards' = [boards EXCEPT ![b].status = "deleted"]
  /\ Delete(OnBoard(b))
  /\ UNCHANGED <<service, teams, executing>>

(* The copies of the cards have no runs and nothing ticked.                *)
DuplicateBoard(b, c, ts) ==
  /\ BoardExists(b) /\ boards[c].status = "absent"
  /\ \E run \in RunStage(b), done \in DoneStage(b) :
       boards' = [boards EXCEPT ![c] =
         [status |-> "open", run |-> run, done |-> done,
          stage |-> [s \in Stages |-> IF s \in StagesOf(b) THEN boards[b].stage[s] ELSE "absent"]]]
  /\ \E copy \in [ts -> {t \in Tasks : tasks[t].status = "absent"}] :
       /\ \A t, u \in ts : copy[t] = copy[u] => t = u
       /\ tasks' = [u \in Tasks |->
            IF \E t \in ts : copy[t] = u
            THEN [tasks[CHOOSE t \in ts : copy[t] = u] EXCEPT
                    !.board = c, !.ticked = FALSE, !.active = NoRun]
            ELSE tasks[u]]
  /\ UNCHANGED <<service, link, teams, executing, drafts>>

AddStage(b, s, category) ==
  /\ BoardExists(b) /\ boards[b].stage[s] = "absent"
  /\ boards' = [boards EXCEPT ![b].stage[s] = category]
  /\ OnlyBoards

(* updateStage: any category, also for the last stage of its own.          *)
UpdateStage(b, s, category) ==
  /\ BoardExists(b) /\ s \in StagesOf(b)
  /\ boards' = [boards EXCEPT ![b].stage[s] = category]
  /\ OnlyBoards

(* Mutant: the cards of a removed stage keep their revision.               *)
RemoveStage_Quietly(b, s, target) ==
  LET moved == {t \in OnBoard(b) : tasks[t].stage = s} IN
  /\ BoardExists(b) /\ {s, target} \subseteq StagesOf(b) /\ s # target
  /\ boards[b].stage[s] \in {"in_progress", "review", "done"} =>
       InCategory(b, boards[b].stage[s]) # {s}
  /\ boards' = [boards EXCEPT ![b].stage[s] = "removed"]
  /\ tasks' = [t \in Tasks |-> IF t \in moved THEN [tasks[t] EXCEPT !.stage = target] ELSE tasks[t]]
  /\ UNCHANGED <<service, link, teams, executing, drafts>>

(* removeStage: the cards of the stage go to the target, locked or not,    *)
(* and the repaired settings are stored.                                   *)
RemoveStage(b, s, target) ==
  LET moved == {t \in OnBoard(b) : tasks[t].stage = s} IN
  /\ BoardExists(b) /\ {s, target} \subseteq StagesOf(b) /\ s # target
  /\ boards[b].stage[s] \in {"in_progress", "review", "done"} =>
       InCategory(b, boards[b].stage[s]) # {s}
  /\ LET left == [boards EXCEPT ![b].stage[s] = "removed"]
         repair(stored, category) ==
           IF stored \in StagesOf(b) \ {s} THEN {stored}
           ELSE LET rest == InCategory(b, category) \ {s} IN
                IF rest = {} THEN {NoStage} ELSE rest
     IN \E run \in repair(boards[b].run, "in_progress"), done \in repair(boards[b].done, "review") :
          boards' = [left EXCEPT ![b].run = run, ![b].done = done]
  /\ tasks' = [t \in Tasks |-> IF t \in moved THEN [tasks[t] EXCEPT !.stage = target] ELSE tasks[t]]
  /\ Bump(moved)
  /\ UNCHANGED <<service, link, teams, executing>>

-----------------------------------------------------------------------------
(* Teams.                                                                  *)

OnlyTeams == UNCHANGED <<service, boards, tasks, link, executing, drafts>>

CreateTeam(m, members) ==
  /\ teams[m].status = "absent"
  /\ teams' = [teams EXCEPT ![m] = [status |-> "active", members |-> members]]
  /\ OnlyTeams

(* Mutant: only the owner of a card keeps a member in its team.            *)
MayLeave_Owners(m, a) ==
  \A t \in Tasks : tasks[t].status = "open" /\ tasks[t].team = m => a # tasks[t].owner

MayLeave(m, a) ==
  \A t \in Tasks : tasks[t].status = "open" /\ tasks[t].team = m =>
                     a # tasks[t].owner /\ a \notin tasks[t].helpers

UpdateTeam(m, members) ==
  /\ teams[m].status = "active"
  /\ \A a \in teams[m].members \ members : MayLeave(m, a)
  /\ teams' = [teams EXCEPT ![m].members = members]
  /\ OnlyTeams

RetireTeam(m) ==
  /\ teams[m].status = "active"
  /\ \A t \in Tasks : tasks[t].status = "open" => tasks[t].team # m
  /\ teams' = [teams EXCEPT ![m] = [status |-> "retired", members |-> {}]]
  /\ OnlyTeams

-----------------------------------------------------------------------------
(* Cards.                                                                  *)

OnlyCards == UNCHANGED <<service, boards, link, teams, executing>>

CreateTask(t, b, s, m, o, helpers) ==
  /\ tasks[t].status = "absent" /\ BoardExists(b) /\ s \in StagesOf(b)
  /\ ValidAssignment(m, o, helpers)
  /\ tasks' = [tasks EXCEPT ![t] =
       [status |-> "open", board |-> b, stage |-> s, team |-> m, owner |-> o,
        helpers |-> helpers \ {o}, ticked |-> FALSE, active |-> NoRun, strayed |-> FALSE]]
  /\ OnlyCards /\ UNCHANGED drafts

(* What updateTask locks while the card is active.                         *)
Scope(c) == <<c.board, c.stage, c.team, c.owner, c.helpers, c.status>>

(* Mutant: an active card is not locked.                                   *)
MayUpdate_Unlocked(t, c) ==
  /\ Exists(t) /\ c.status \in Kept
  /\ BoardExists(c.board) /\ c.stage \in StagesOf(c.board)
  /\ ValidAssignment(c.team, c.owner, c.helpers)

(* updateTask on the content c, which carries the current revision: the    *)
(* task read before the body cannot differ from the one updated then.      *)
MayUpdate(t, c) ==
  /\ Exists(t) /\ c.status \in Kept
  /\ BoardExists(c.board) /\ c.stage \in StagesOf(c.board)
  /\ ValidAssignment(c.team, c.owner, c.helpers)
  /\ Busy(t) => Scope(c) = Scope(tasks[t])

(* The edits of a card that keep its checklist.  Each changes one thing, as *)
(* the archive button, the agents' claim and release, and a form field do. *)
Edits(c) ==
  {[c EXCEPT !.status = status] : status \in IF "archives" \in Requests THEN Kept ELSE {}} \cup
  {[c EXCEPT !.owner = o, !.helpers = c.helpers \ {o}] : o \in Owners \cup {NoOwner}} \cup
  {[c EXCEPT !.helpers = helpers \ {c.owner}] : helpers \in SUBSET Owners} \cup
  {[c EXCEPT !.team = m, !.owner = NoOwner, !.helpers = {}] : m \in Teams \cup {NoTeam}} \cup
  UNION {{[c EXCEPT !.board = b, !.stage = s] : s \in Stages} : b \in Boards}

(* PUT of one field by the board or an agent that has just read the card.  *)
UpdateTask(t, c) ==
  /\ MayUpdate(t, c)
  /\ tasks' = [tasks EXCEPT ![t] = [c EXCEPT !.strayed = FALSE]]
  /\ Bump({t})
  /\ OnlyCards

(* Mutant: a card is moved while its run is executed.                      *)
Move_Unlocked(t, s, o, m) ==
  /\ Exists(t)
  /\ s \in StagesOf(tasks[t].board)
  /\ ValidAssignment(m, o, {})
  /\ tasks' = [tasks EXCEPT ![t].stage = s, ![t].owner = o]
  /\ Bump({t})
  /\ OnlyCards

(* The route and the tool "move".  The route reads the card, awaits the    *)
(* body, and has the owner validated with the team and the collaborators   *)
(* of the card as it was read, or with those the request names in their    *)
(* place; move() then writes stage and owner of the card as it is, asking  *)
(* for no revision.  So the team m of the check may be any; at weakest,    *)
(* the check is made without collaborators.  A card is strayed when its    *)
(* owner was named in a move and checked with another team than its own.   *)
Move(t, s, o, m) ==
  /\ Exists(t) /\ ~ Busy(t)
  /\ s \in StagesOf(tasks[t].board)
  /\ ValidAssignment(m, o, {})
  /\ tasks' = [tasks EXCEPT
       ![t].stage = s, ![t].owner = o,
       ![t].strayed = IF o = tasks[t].owner THEN tasks[t].strayed ELSE m # tasks[t].team /\ o # NoOwner]
  /\ Bump({t})
  /\ OnlyCards

(* check(): the revision stays.                                            *)
Check(t, ticked) ==
  /\ Exists(t)
  /\ tasks' = [tasks EXCEPT ![t].ticked = ticked]
  /\ OnlyCards /\ UNCHANGED drafts

(* Mutant: that the board has a Done stage is not tested.                  *)
Approve_Unchecked(t) ==
  /\ Exists(t) /\ tasks[t].active = NoRun
  /\ \E s \in Setting(tasks[t].board, NoStage, "done") : tasks' = [tasks EXCEPT ![t].stage = s]
  /\ Bump({t})
  /\ OnlyCards

Approve(t) ==
  /\ Exists(t) /\ tasks[t].active = NoRun
  /\ \E s \in InCategory(tasks[t].board, "done") : tasks' = [tasks EXCEPT ![t].stage = s]
  /\ Bump({t})
  /\ OnlyCards

DeleteTask(t) ==
  /\ Exists(t) /\ tasks[t].active = NoRun
  /\ Delete({t})
  /\ UNCHANGED <<service, boards, teams, executing>>

-----------------------------------------------------------------------------
(* The drawer of a browser.                                                *)

OpenTask(c, t) ==
  /\ Exists(t) /\ drafts[c] = NoDraft
  /\ drafts' = [drafts EXCEPT ![c] = [task |-> t, copy |-> tasks[t]]]
  /\ UNCHANGED <<service, boards, tasks, link, teams, executing>>

(* save(): the whole draft is sent, the checklist included, and the drawer *)
(* stays open with the revision of the answer.                             *)
Save(c, edit) ==
  LET t == drafts[c].task
      saved == [edit EXCEPT !.helpers = edit.helpers \ {edit.owner}, !.active = tasks[t].active,
                            !.strayed = FALSE] IN
  /\ drafts[c] # NoDraft
  /\ MayUpdate(t, saved)
  /\ tasks' = [tasks EXCEPT ![t] = saved]
  /\ drafts' = [d \in Clients |->
                 IF d = c THEN [task |-> t, copy |-> edit]
                 ELSE IF drafts[d] # NoDraft /\ drafts[d].task = t THEN NoDraft ELSE drafts[d]]
  /\ OnlyCards

-----------------------------------------------------------------------------
(* Runs.                                                                   *)

(* start(): one transaction with the INSERT of the run; pump() follows and *)
(* may admit it at once.  That the card or its board is archived is not    *)
(* asked.  The drawer c from which it was started takes over the revision  *)
(* and the stage of the answer, and nothing else.                          *)
Start(t, r, s, c) ==
  /\ Exists(t) /\ ~ Busy(t) /\ tasks[t].owner # NoOwner
  /\ \/ c = NoDraft
     \/ c # NoDraft /\ drafts[c] # NoDraft /\ drafts[c].task = t
  /\ state[r] = "absent"
  /\ s \in {"queued", "running"}
  /\ state' = [state EXCEPT ![r] = s]
  /\ owner' = [owner EXCEPT ![r] = tasks[t].owner]
  /\ s = "running" => Fits(state', owner', r)
  /\ executing' = IF s = "running" THEN executing \cup {r} ELSE executing
  /\ link' = [link EXCEPT ![r] = [task |-> t, attempt |-> Cardinality(Attempts(t)) + 1]]
  /\ \E progress \in RunStage(tasks[t].board) :
       /\ progress # NoStage
       /\ tasks' = [tasks EXCEPT ![t].stage = progress, ![t].active = r]
       /\ drafts' = [d \in Clients |->
            IF d = c THEN [drafts[d] EXCEPT !.copy.stage = progress]
            ELSE IF drafts[d] # NoDraft /\ drafts[d].task = t THEN NoDraft ELSE drafts[d]]
  /\ UNCHANGED <<boards, teams>>

(* Mutant: only the end of a prompt is passed to the listener.             *)
SyncRuns_Completed(st, rs) ==
  \E review \in {f \in [Boards -> Stages \cup {NoStage}] : \A b \in Boards : f[b] \in DoneStage(b)} :
    LET completed(t) == \E r \in rs \cap Attempts(t) : st[r] = "completed"
        synced == {t \in Tasks : completed(t) /\ review[tasks[t].board] # NoStage}
    IN /\ tasks' = [t \in Tasks |->
            IF t \in synced THEN [tasks[t] EXCEPT !.active = NoRun, !.stage = review[tasks[t].board]]
            ELSE tasks[t]]
       /\ Bump(synced)

(* Mutant: a run that is not over is linked to its card again.             *)
SyncRuns_Relink(st, rs) ==
  /\ tasks' = [t \in Tasks |->
       IF rs \cap Attempts(t) = {} THEN tasks[t]
       ELSE LET r == CHOOSE q \in rs \cap Attempts(t) : TRUE IN
            [tasks[t] EXCEPT !.active = IF st[r] \in Pending THEN r ELSE NoRun]]
  /\ Bump({t \in Tasks : rs \cap Attempts(t) # {}})

(* syncRun() of the runs rs, whose states in st have just been written.    *)
(* An end clears the active run of the card, whichever run that is; a      *)
(* completion does so only if the board has a stage to send the card to.   *)
SyncRuns(st, rs) ==
  \E review \in {f \in [Boards -> Stages \cup {NoStage}] : \A b \in Boards : f[b] \in DoneStage(b)} :
    LET ended(t)     == \E r \in rs \cap Attempts(t) : st[r] \in Ended
        completed(t) == \E r \in rs \cap Attempts(t) : st[r] = "completed"
        synced == {t \in Tasks : ended(t) /\ (completed(t) => review[tasks[t].board] # NoStage)}
    IN /\ tasks' = [t \in Tasks |->
            IF t \notin synced THEN tasks[t]
            ELSE [tasks[t] EXCEPT
                    !.active = NoRun,
                    !.stage = IF completed(t) THEN review[tasks[t].board] ELSE tasks[t].stage]]
       /\ Bump(synced)

(* setRun() and its listener. *)
SetRun(r, s) ==
  /\ state' = [state EXCEPT ![r] = s]
  /\ SyncRuns(state', {r})
  /\ UNCHANGED <<owner, boards, link, teams>>

Admit(r) ==
  /\ state[r] = "queued"
  /\ SetRun(r, "running") /\ Fits(state', owner, r)
  /\ executing' = executing \cup {r}

(* A request for the operator, or the answer to one; late ones revive.     *)
AsksOrAnswers(r, s) ==
  /\ s \in Live /\ state[r] # s
  /\ state[r] \in Live \/ (state[r] \in Ended /\ Revises)
  /\ SetRun(r, s) /\ UNCHANGED executing

(* A stop of the card, of the run or of a tree: recorded at once.          *)
Stop(r) ==
  /\ state[r] \in Pending
  /\ SetRun(r, "cancelled") /\ UNCHANGED executing

(* The stop of the process could not be confirmed.                         *)
StopFails(r) ==
  /\ state[r] = "cancelled" /\ r \in executing /\ Revises
  /\ SetRun(r, "failed") /\ UNCHANGED executing

(* The coroutine of r ends.  Of a cancelled run it returns, or writes the  *)
(* state cancelled again.                                                  *)
CoroutineEnds(r, outcome) ==
  /\ r \in executing /\ (state[r] \in Live \cup {"cancelled"} \/ Revises)
  /\ executing' = executing \ {r}
  /\ \/ state[r] = "cancelled" /\ UNCHANGED <<service, boards, tasks, link, teams, drafts>>
     \/ SetRun(r, IF state[r] = "cancelled" THEN "cancelled" ELSE outcome)

(* Mutant: the constructor leaves the board's queued runs in the queue.    *)
AfterRestart_Queued(st, r) == IF st[r] \in Live THEN "queued" ELSE st[r]

(* The constructors of Store and TaskStore.                                *)
AfterRestart(st, r) ==
  IF st[r] \in Live \/ (st[r] = "queued" /\ link[r].task # NoTask) THEN "failed" ELSE st[r]

(* Mutant: start-up trusts the links it finds.                             *)
Reconcile_Trusting(st) == UNCHANGED <<tasks, drafts>>

(* reconcile(): the cards whose active run has ended.                      *)
Reconcile(st) == SyncRuns(st, {tasks[t].active : t \in Tasks} \ {NoRun})

(* The process dies, perhaps after the UPDATE of a setRun() and before its *)
(* listener, and starts again.  The browsers keep their drawers.           *)
Restart ==
  /\ \E st \in {state} \cup {[state EXCEPT ![r] = s] : r \in {q \in executing : state[q] \in Live}, s \in Ended} :
       state' = [r \in Runs |-> AfterRestart(st, r)]
  /\ Reconcile(state')
  /\ executing' = {}
  /\ UNCHANGED <<owner, boards, link, teams>>

-----------------------------------------------------------------------------
Outcomes == {"completed", "failed"}

RunSteps(r) ==
  \/ Admit(r) \/ Stop(r) \/ StopFails(r)
  \/ \E s \in Live : AsksOrAnswers(r, s)
  \/ \E outcome \in Outcomes : CoroutineEnds(r, outcome)

BoardSteps ==
  \E b, c \in Boards :
    \/ CreateBoard(b) \/ DeleteBoard(b)
    \/ DuplicateBoard(b, c, {}) \/ DuplicateBoard(b, c, OnBoard(b))

SettingSteps ==
  \E b \in Boards, status \in Kept, run, done \in Stages \cup {NoStage} : UpdateBoard(b, status, run, done)

StageSteps ==
  \E b \in Boards, s \in Stages :
    \/ \E category \in NewCategories : AddStage(b, s, category)
    \/ \E target \in Stages : RemoveStage(b, s, target)

Recategorise ==
  \E b \in Boards, s \in Stages, category \in NewCategories : UpdateStage(b, s, category)

TeamSteps ==
  \E m \in Teams :
    \/ RetireTeam(m)
    \/ \E members \in SUBSET Owners : CreateTeam(m, members) \/ UpdateTeam(m, members)

CardSteps ==
  \E t \in Tasks :
    \/ Approve(t) \/ DeleteTask(t)
    \/ \E c \in Edits(tasks[t]) : UpdateTask(t, c)
    \/ \E b \in Boards, s \in Stages, m \in Teams \cup {NoTeam}, o \in Owners \cup {NoOwner},
          helpers \in SUBSET Owners : CreateTask(t, b, s, m, o, helpers)

DrawerSteps ==
  \E c \in Clients :
    \/ \E t \in Tasks : OpenTask(c, t)
    \/ /\ drafts[c] # NoDraft
       /\ \E edit \in Edits(drafts[c].copy) \cup {[drafts[c].copy EXCEPT !.ticked = TRUE]} : Save(c, edit)

Next ==
  \/ "boards" \in Requests /\ BoardSteps
  \/ "stages" \in Requests /\ StageSteps
  \/ "recategorise" \in Requests /\ Recategorise
  \/ "settings" \in Requests /\ SettingSteps
  \/ "teams" \in Requests /\ TeamSteps
  \/ CardSteps
  \/ /\ "moves" \in Requests
     /\ \E t \in Tasks, s \in Stages, o \in Owners \cup {NoOwner}, m \in Teams \cup {NoTeam} : Move(t, s, o, m)
  \/ "checks" \in Requests /\ \E t \in Tasks, ticked \in BOOLEAN : Check(t, ticked)
  \/ DrawerSteps
  \/ \E t \in Tasks, r \in Runs, s \in {"queued", "running"}, c \in Clients \cup {NoDraft} : Start(t, r, s, c)
  \/ \E r \in Runs : RunSteps(r)
  \/ Restart

Spec == Init /\ [][Next]_vars

(* Coordinator shows that every run ends (EveryRunEnds): a queued run whose *)
(* agent is free again and again is admitted, a coroutine ends.            *)
FairSpec ==
  /\ Spec
  /\ \A r \in Runs : /\ SF_vars(Admit(r))
                    /\ WF_vars(\E outcome \in Outcomes : CoroutineEnds(r, outcome))

-----------------------------------------------------------------------------
(* Safety.                                                                 *)

(* The card links to its newest attempt, or to none: links of older        *)
(* attempts never come back, whatever run ends last.                       *)
LinkIsNewest ==
  \A t \in Tasks : tasks[t].active # NoRun =>
    LET r == tasks[t].active IN
    /\ link[r].task = t
    /\ \A q \in Attempts(t) : link[q].attempt <= link[r].attempt

(* A card never stays linked to a run that has ended, not even if the      *)
(* process dies between the end of the run and its listener.  Unless the   *)
(* last review stage can be given another category: then a completed run   *)
(* stays linked.                                                           *)
NoStaleLink ==
  \A t \in Tasks : tasks[t].active # NoRun =>
    state[tasks[t].active] \in
      Pending \cup (IF "recategorise" \in Requests THEN {"completed"} ELSE {})

(* The revision protects every field the drawer sends, but for the         *)
(* checklist: a draft that would be accepted was taken from the card as it *)
(* is now.                                                                 *)
DraftIsCurrent ==
  \A c \in Clients : drafts[c] # NoDraft =>
    /\ Exists(drafts[c].task)
    /\ LET copy == drafts[c].copy  now == tasks[drafts[c].task] IN
       Scope([copy EXCEPT !.helpers = copy.helpers \ {copy.owner}])
         = Scope([now EXCEPT !.helpers = now.helpers \ {now.owner}])

(* The collaborators of a card are members, and so is its owner, if it has *)
(* one, unless a move named the owner and was checked with another team.   *)
Belongs(c, members) ==
  /\ c.helpers \subseteq members
  /\ c.owner \in members \cup {NoOwner} \/ c.strayed

(* README "Team-scoped tasks only allow members as owners and              *)
(* collaborators", through every order of assigning, moving, leaving,      *)
(* retiring, archiving and restoring; "archived work keeps the retired     *)
(* team".  Of owners it does not hold without the exception for moves: a   *)
(* move whose card changed its team while the body was awaited, or whose   *)
(* body names another team, makes any agent the owner.                     *)
TeamScoped ==
  \A t \in Tasks : tasks[t].status = "open" /\ tasks[t].team # NoTeam =>
    /\ teams[tasks[t].team].status = "active"
    /\ Belongs(tasks[t], teams[tasks[t].team].members)

(* While its active run is pending, the card belongs to the agent that     *)
(* executes it, and its stage is one its board has.                        *)
OwnerExecutes ==
  \A t \in Tasks : Busy(t) =>
    /\ owner[tasks[t].active] = tasks[t].owner
    /\ tasks[t].stage \in StagesOf(tasks[t].board)

(* tasks.ts:404 "Team, owner, collaborators, project, stage, and archive   *)
(* status are locked while this task is active", whoever asks, but for the *)
(* stage: removeStage() moves the cards of the stage, locked or not.       *)
LockedWhileActive ==
  [][\A t \in Tasks :
       Busy(t) /\ tasks'[t].active = tasks[t].active =>
         Scope([tasks'[t] EXCEPT !.stage = tasks[t].stage]) = Scope(tasks[t])]_vars

-----------------------------------------------------------------------------
(* Liveness.                                                               *)

(* A started card is given back to the operator, in review or not: its     *)
(* run does not stay linked for ever, and with it the buttons that say     *)
(* "Wait for the active run to finish." (tasks.ts:479).                    *)
CardReleased ==
  \A t \in Tasks, r \in Runs : tasks[t].active = r ~> tasks[t].active # r
=============================================================================
