-------------------------- MODULE TaskBoardProofs --------------------------
(***************************************************************************)
(* Theorems about TaskBoard, for any boards, cards, teams, browsers and    *)
(* runs, and for every kind of request.                                    *)
(*                                                                         *)
(* IInv adds to the properties what they rest on: the attempts of a card   *)
(* are finitely many and their numbers do not exceed their count           *)
(* (Numbered), which is how start() numbers the next; a run has a card     *)
(* only once it has its row, and only cards that are there have a run      *)
(* (RowsFirst, GoneUnlinked); a card lies on a board that is there         *)
(* (OnBoards), and such a board has a stage for completed work as long as  *)
(* no stage is given another category (ReviewKept); and a coroutine        *)
(* executes a run that was admitted (Begun).                               *)
(***************************************************************************)
EXTENDS TaskBoard, FiniteSetTheorems, TLAPS

Numbered ==
  \A t \in Tasks :
    /\ IsFiniteSet(Attempts(t))
    /\ \A r \in Attempts(t) : link[r].attempt <= Cardinality(Attempts(t))

RowsFirst    == \A r \in Runs : state[r] = "absent" => link[r].task = NoTask
GoneUnlinked == \A t \in Tasks : ~ Exists(t) => tasks[t].active = NoRun
OnBoards     == \A t \in Tasks : Exists(t) => BoardExists(tasks[t].board)
ReviewKept   ==
  "recategorise" \notin Requests =>
    \A b \in Boards : BoardExists(b) => InCategory(b, "review") # {}
Begun == \A r \in executing : state[r] \notin {"absent", "queued"}

Links == Numbered /\ RowsFirst /\ GoneUnlinked /\ LinkIsNewest

(* No completed run that is still linked is ever revived: either the board *)
(* keeps a review stage, so that none is linked, or ends are final.        *)
NoneRevived == "recategorise" \notin Requests \/ ~ Revises

IInv ==
  /\ TypeOK /\ Links /\ OnBoards /\ ReviewKept /\ Begun
  /\ NoStaleLink /\ TeamScoped /\ DraftIsCurrent
  /\ NoneRevived => OwnerExecutes

-----------------------------------------------------------------------------
(* Cards and drafts.                                                       *)

(* Two cards have the same scope when they agree on what it is made of.    *)
LEMMA ScopeIs ==
  ASSUME NEW c, NEW d
  PROVE  Scope(c) = Scope(d) <=>
           /\ c.board = d.board /\ c.stage = d.stage /\ c.team = d.team
           /\ c.owner = d.owner /\ c.helpers = d.helpers /\ c.status = d.status
PROOF
  BY DEF Scope

(* A card that loses its run, and perhaps moves, is a card.                *)
LEMMA CardTypes ==
  ASSUME NEW c \in Task
  PROVE  /\ \A r \in Runs \cup {NoRun} : [c EXCEPT !.active = r] \in Task
         /\ \A s \in Stages : [c EXCEPT !.stage = s] \in Task
         /\ \A s \in Stages, r \in Runs \cup {NoRun} : [c EXCEPT !.active = r, !.stage = s] \in Task
         /\ \A s \in Stages, r \in Runs \cup {NoRun} : [c EXCEPT !.stage = s, !.active = r] \in Task
         /\ \A s \in Stages, o \in Owners \cup {NoOwner}, x \in BOOLEAN :
              [c EXCEPT !.stage = s, !.owner = o, !.strayed = x] \in Task
         /\ \A x \in BOOLEAN : [c EXCEPT !.strayed = x] \in Task
         /\ \A x \in BOOLEAN : [c EXCEPT !.ticked = x] \in Task
PROOF
  BY DEF Task

(* An edit of a card is a card with the same run and checklist.            *)
LEMMA EditTypes ==
  ASSUME NEW c \in Task, NEW e \in Edits(c)
  PROVE  e \in Task /\ e.active = c.active
PROOF
<1> DEFINE S1 == {[c EXCEPT !.status = status] :
                    status \in IF "archives" \in Requests THEN Kept ELSE {}}
           S2 == {[c EXCEPT !.owner = o, !.helpers = c.helpers \ {o}] : o \in Owners \cup {NoOwner}}
           S3 == {[c EXCEPT !.helpers = helpers \ {c.owner}] : helpers \in SUBSET Owners}
           S4 == {[c EXCEPT !.team = m, !.owner = NoOwner, !.helpers = {}] : m \in Teams \cup {NoTeam}}
           S5 == UNION {{[c EXCEPT !.board = b, !.stage = s] : s \in Stages} : b \in Boards}
<1>1. e \in S1 \cup S2 \cup S3 \cup S4 \cup S5
  BY Zenon DEF Edits
<1>2. ASSUME e \in S1 PROVE e \in Task /\ e.active = c.active
  BY <1>2 DEF Task, Kept
<1>3. ASSUME e \in S2 PROVE e \in Task /\ e.active = c.active
  <2>1. PICK o \in Owners \cup {NoOwner} : e = [c EXCEPT !.owner = o, !.helpers = c.helpers \ {o}]
    BY <1>3
  <2>2. c.helpers \ {o} \in SUBSET Owners
    BY DEF Task
  <2> QED
    BY <2>1, <2>2 DEF Task
<1>4. ASSUME e \in S3 PROVE e \in Task /\ e.active = c.active
  BY <1>4 DEF Task
<1>5. ASSUME e \in S4 PROVE e \in Task /\ e.active = c.active
  <2>1. PICK m \in Teams \cup {NoTeam} : e = [c EXCEPT !.team = m, !.owner = NoOwner, !.helpers = {}]
    BY <1>5
  <2> QED
    BY <2>1 DEF Task
<1>6. ASSUME e \in S5 PROVE e \in Task /\ e.active = c.active
  <2>1. PICK b \in Boards, s \in Stages : e = [c EXCEPT !.board = b, !.stage = s]
    BY <1>6
  <2> QED
    BY <2>1 DEF Task
<1> HIDE DEF S1, S2, S3, S4, S5
<1> QED
  BY <1>1, <1>2, <1>3, <1>4, <1>5, <1>6

(* After a bump of ts the drafts left are those of other cards.            *)
LEMMA BumpLeaves ==
  ASSUME TypeOK, NEW ts, Bump(ts)
  PROVE  /\ drafts' \in [Clients -> Draft \cup {NoDraft}]
         /\ \A c \in Clients :
              drafts'[c] = NoDraft \/ (drafts'[c] = drafts[c] /\ drafts[c].task \notin ts)
PROOF
<1>1. \A c \in Clients : drafts[c] \in Draft \cup {NoDraft}
  BY DEF TypeOK
<1>2. drafts' = [c \in Clients |->
                  IF drafts[c] # NoDraft /\ drafts[c].task \in ts THEN NoDraft ELSE drafts[c]]
  BY DEF Bump
<1> QED
  BY <1>1, <1>2

(* The links stay as they should be when cards only lose their runs.       *)
LEMMA LinksKeep ==
  ASSUME Links, link' = link,
         \A r \in Runs : state'[r] = "absent" => state[r] = "absent",
         \A t \in Tasks : /\ tasks'[t].active \in {NoRun, tasks[t].active}
                          /\ tasks'[t].status \in Kept \/ tasks'[t].active = NoRun
  PROVE  Links'
PROOF
<1>1. \A t \in Tasks : Attempts(t)' = Attempts(t)
  BY DEF Attempts
<1>2. Numbered'
  BY <1>1 DEF Links, Numbered
<1>3. RowsFirst' /\ GoneUnlinked'
  BY DEF Links, RowsFirst, GoneUnlinked, Exists
<1>4. LinkIsNewest'
  BY <1>1 DEF Links, LinkIsNewest
<1> QED
  BY <1>2, <1>3, <1>4 DEF Links

(* What DraftIsCurrent says of one draft, field by field.                  *)
Matches(copy, now) ==
  /\ copy.board = now.board /\ copy.stage = now.stage /\ copy.team = now.team
  /\ copy.owner = now.owner /\ copy.status = now.status
  /\ copy.helpers \ {copy.owner} = now.helpers \ {now.owner}

LEMMA CurrentIs ==
  ASSUME NEW copy \in Task, NEW now \in Task
  PROVE  Scope([copy EXCEPT !.helpers = copy.helpers \ {copy.owner}])
           = Scope([now EXCEPT !.helpers = now.helpers \ {now.owner}])
         <=> Matches(copy, now)
PROOF
  BY DEF Scope, Task, Matches

(* Every draft is of a card that is there and matches it.                  *)
LEMMA Drafted ==
  ASSUME TypeOK, DraftIsCurrent, NEW c \in Clients, drafts[c] # NoDraft
  PROVE  /\ drafts[c].task \in Tasks /\ drafts[c].copy \in Task
         /\ Exists(drafts[c].task) /\ Matches(drafts[c].copy, tasks[drafts[c].task])
PROOF
<1>1. drafts[c] \in Draft /\ tasks \in [Tasks -> Task]
  BY DEF TypeOK
<1>2. drafts[c].task \in Tasks /\ drafts[c].copy \in Task
  BY <1>1 DEF Draft
<1> QED
  BY <1>1, <1>2, CurrentIs DEF DraftIsCurrent

(* A draft stays current when its card keeps its scope.                    *)
LEMMA DraftsKeep ==
  ASSUME TypeOK, TypeOK', DraftIsCurrent,
         \A c \in Clients :
           \/ drafts'[c] = NoDraft
           \/ /\ drafts'[c] = drafts[c]
              /\ Scope(tasks'[drafts[c].task]) = Scope(tasks[drafts[c].task])
  PROVE  DraftIsCurrent'
PROOF
<1> SUFFICES ASSUME NEW c \in Clients, drafts'[c] # NoDraft
             PROVE  /\ tasks'[drafts'[c].task].status \in Kept
                    /\ LET copy == drafts'[c].copy  now == tasks'[drafts'[c].task] IN
                       Scope([copy EXCEPT !.helpers = copy.helpers \ {copy.owner}])
                         = Scope([now EXCEPT !.helpers = now.helpers \ {now.owner}])
  BY DEF DraftIsCurrent, Exists
<1> DEFINE t == drafts[c].task
<1>1. drafts'[c] = drafts[c] /\ Scope(tasks'[t]) = Scope(tasks[t])
  OBVIOUS
<1>2. /\ t \in Tasks /\ drafts[c].copy \in Task
      /\ Exists(t) /\ Matches(drafts[c].copy, tasks[t])
  BY <1>1, Drafted
<1>3. tasks'[t] \in Task
  BY <1>2 DEF TypeOK
<1> HIDE DEF t
<1>4. /\ tasks'[t].board = tasks[t].board /\ tasks'[t].stage = tasks[t].stage
      /\ tasks'[t].team = tasks[t].team /\ tasks'[t].owner = tasks[t].owner
      /\ tasks'[t].helpers = tasks[t].helpers /\ tasks'[t].status = tasks[t].status
  BY <1>1, ScopeIs
<1>5. tasks'[t].status \in Kept /\ Matches(drafts[c].copy, tasks'[t])
  BY <1>2, <1>4 DEF Exists, Matches
<1> QED
  BY <1>1, <1>2, <1>3, <1>5, CurrentIs DEF t

-----------------------------------------------------------------------------
(* Boards, stages and teams.                                               *)

(* A step that touches only boards keeps the invariant if boards that are  *)
(* there stay there, with all their stages and one for completed work.     *)
LEMMA BoardsKeep ==
  ASSUME IInv, OnlyBoards, boards' \in [Boards -> Board], ReviewKept',
         \A b \in Boards : BoardExists(b) => /\ BoardExists(b)'
                                            /\ StagesOf(b) \subseteq StagesOf(b)'
  PROVE  IInv'
PROOF
<1>1. /\ state' = state /\ owner' = owner /\ tasks' = tasks /\ link' = link /\ teams' = teams
      /\ executing' = executing /\ drafts' = drafts
  BY DEF OnlyBoards, service
<1>2. TypeOK'
  BY <1>1 DEF IInv, TypeOK
<1>3. Links'
  <2>1. /\ \A t \in Tasks : tasks'[t].status \in Kept \/ tasks'[t].active = NoRun
    BY <1>1 DEF IInv, Links, GoneUnlinked, Exists
  <2> QED
    BY <1>1, <2>1, LinksKeep DEF IInv
<1>4. OnBoards'
  BY <1>1 DEF IInv, OnBoards, Exists, TypeOK, Task
<1>5. Begun' /\ NoStaleLink' /\ TeamScoped' /\ DraftIsCurrent'
  BY <1>1, Zenon DEF IInv, Begun, NoStaleLink, TeamScoped, DraftIsCurrent, Exists
<1>6. ASSUME NoneRevived PROVE OwnerExecutes'
  <2> SUFFICES ASSUME NEW t \in Tasks, Busy(t)'
               PROVE  /\ owner'[tasks'[t].active] = tasks'[t].owner
                      /\ (tasks[t].stage \in StagesOf(tasks[t].board))'
    BY DEF OwnerExecutes
  <2>1. Busy(t)
    BY <1>1 DEF Busy
  <2>2. tasks[t].board \in Boards /\ BoardExists(tasks[t].board)
    BY <2>1 DEF IInv, Links, GoneUnlinked, OnBoards, Busy, TypeOK, Task
  <2> QED
    BY <1>1, <1>6, <2>1, <2>2 DEF IInv, OwnerExecutes
<1> QED
  BY <1>2, <1>3, <1>4, <1>5, <1>6 DEF IInv

(* The stages of a board that keeps its row for a stage stay.              *)
LEMMA StagesGrow ==
  ASSUME NEW b, \A s \in Stages : boards[b].stage[s] \in Categories => boards'[b].stage[s] \in Categories
  PROVE  StagesOf(b) \subseteq StagesOf(b)'
PROOF
  BY DEF StagesOf

(* What a board is made of. *)
LEMMA BoardParts ==
  ASSUME NEW x \in Board
  PROVE  /\ x.stage \in [Stages -> Categories \cup {"absent", "removed"}]
         /\ x.run \in Stages \cup {NoStage} /\ x.done \in Stages \cup {NoStage}
         /\ \A s \in Stages, k \in Categories \cup {"absent", "removed"} :
              [x EXCEPT !.stage[s] = k]
                = [x EXCEPT !.stage = [x.stage EXCEPT ![s] = k]]
         /\ \A f \in [Stages -> Categories \cup {"absent", "removed"}] :
              [x EXCEPT !.stage = f] \in Board /\ [x EXCEPT !.stage = f].stage = f
PROOF
  BY DEF Board

(* A new board has the stages of the workflow, a review stage among them.  *)
LEMMA NewBoardParts ==
  /\ NewBoard \in Board /\ NewBoard.status = "open"
  /\ \E s \in Stages : NewBoard.stage[s] = "review"
PROOF
<1>1. NewBoard.stage \in [Stages -> Categories \cup {"absent", "removed"}]
  BY BoardAssumption DEF NewBoard
<1>2. NewBoard.status = "open" /\ NewBoard.run = NoStage /\ NewBoard.done = NoStage
  BY DEF NewBoard
<1>3. NewBoard \in Board
  BY BoardAssumption DEF NewBoard, Board
<1>4. PICK s \in DOMAIN Workflow : Workflow[s] = "review"
  BY BoardAssumption
<1>5. s \in Stages /\ NewBoard.stage[s] = "review"
  BY <1>4, BoardAssumption DEF NewBoard
<1> QED
  BY <1>2, <1>3, <1>5

(* The requests that change boards alone. *)
LEMMA BoardStepsKeep ==
  ASSUME IInv, NEW b \in Boards,
         \/ CreateBoard(b)
         \/ \E status \in Kept, run, done \in Stages \cup {NoStage} : UpdateBoard(b, status, run, done)
         \/ \E s \in Stages, category \in NewCategories :
              AddStage(b, s, category) \/ ("recategorise" \in Requests /\ UpdateStage(b, s, category))
  PROVE  IInv'
PROOF
<1> USE DEF Kept
<1>0. boards \in [Boards -> Board] /\ boards[b] \in Board
  BY DEF IInv, TypeOK
<1>1. CASE CreateBoard(b)
  <2>1. /\ boards[b].status = "absent" /\ OnlyBoards
        /\ boards' = [boards EXCEPT ![b] = NewBoard]
    BY <1>1 DEF CreateBoard
  <2>2. /\ boards' \in [Boards -> Board] /\ boards'[b] = NewBoard
        /\ \A c \in Boards \ {b} : boards'[c] = boards[c]
    BY <1>0, <2>1, NewBoardParts
  <2>3. \A c \in Boards : BoardExists(c) => BoardExists(c)' /\ StagesOf(c) \subseteq StagesOf(c)'
    BY <2>1, <2>2 DEF BoardExists, StagesOf
  <2>4. ReviewKept'
    BY <2>2, NewBoardParts DEF ReviewKept, InCategory, StagesOf, BoardExists, IInv, Categories
  <2> QED
    BY <2>1, <2>2, <2>3, <2>4, BoardsKeep
<1>2. ASSUME NEW status \in Kept, NEW run \in Stages \cup {NoStage}, NEW done \in Stages \cup {NoStage},
             UpdateBoard(b, status, run, done)
      PROVE  IInv'
  <2>1. /\ BoardExists(b) /\ OnlyBoards
        /\ boards' = [boards EXCEPT ![b] = [boards[b] EXCEPT !.status = status, !.run = run, !.done = done]]
    BY <1>2, Zenon DEF UpdateBoard
  <2> DEFINE new == [boards[b] EXCEPT !.status = status, !.run = run, !.done = done]
  <2>2. new \in Board /\ new.status = status /\ new.stage = boards[b].stage
    BY <1>0 DEF Board
  <2> HIDE DEF new
  <2>3. /\ boards' \in [Boards -> Board] /\ boards'[b] = new
        /\ \A c \in Boards \ {b} : boards'[c] = boards[c]
    BY <1>0, <2>1, <2>2 DEF new
  <2>4. \A c \in Boards : BoardExists(c) => BoardExists(c)' /\ StagesOf(c) \subseteq StagesOf(c)'
    BY <2>2, <2>3 DEF BoardExists, StagesOf
  <2>5. ReviewKept'
    BY <2>1, <2>2, <2>3 DEF ReviewKept, InCategory, StagesOf, BoardExists, IInv
  <2> QED
    BY <2>1, <2>3, <2>4, <2>5, BoardsKeep
<1>3. ASSUME NEW s \in Stages, NEW category \in NewCategories,
             \/ AddStage(b, s, category)
             \/ "recategorise" \in Requests /\ UpdateStage(b, s, category)
      PROVE  IInv'
  <2>1. /\ BoardExists(b) /\ OnlyBoards
        /\ boards' = [boards EXCEPT ![b] = [boards[b] EXCEPT !.stage[s] = category]]
        /\ boards[b].stage[s] = "absent" \/ "recategorise" \in Requests
    BY <1>3, Zenon DEF AddStage, UpdateStage
  <2> DEFINE f == [boards[b].stage EXCEPT ![s] = category]
             new == [boards[b] EXCEPT !.stage = f]
  <2>2. category \in Categories
    BY BoardAssumption
  <2>3. boards[b].stage \in [Stages -> Categories \cup {"absent", "removed"}]
    BY <1>0, BoardParts
  <2>4. f \in [Stages -> Categories \cup {"absent", "removed"}]
    BY <2>2, <2>3
  <2>5. f[s] = category /\ \A q \in Stages \ {s} : f[q] = boards[b].stage[q]
    BY <2>3
  <2>6. [boards[b] EXCEPT !.stage[s] = category] = new
    BY <1>0, <2>2, BoardParts
  <2> HIDE DEF f
  <2>7. new \in Board /\ new.stage = f /\ new.status = boards[b].status
    BY <1>0, <2>4 DEF Board
  <2> HIDE DEF new
  <2>8. /\ boards' \in [Boards -> Board] /\ boards'[b] = new
        /\ \A c \in Boards \ {b} : boards'[c] = boards[c]
    BY <1>0, <2>1, <2>6, <2>7
  <2>9. \A c \in Boards : BoardExists(c) => BoardExists(c)' /\ StagesOf(c) \subseteq StagesOf(c)'
    BY <2>2, <2>5, <2>7, <2>8 DEF BoardExists, StagesOf
  <2>10. ReviewKept'
    <3> SUFFICES ASSUME "recategorise" \notin Requests, NEW c \in Boards, BoardExists(c)'
                 PROVE  \E q \in Stages : boards'[c].stage[q] = "review"
      BY DEF ReviewKept, InCategory, StagesOf, Categories
    <3>1. BoardExists(c)
      BY <2>7, <2>8 DEF BoardExists
    <3>2. PICK q \in Stages : boards[c].stage[q] = "review"
      BY <3>1 DEF IInv, ReviewKept, InCategory, StagesOf
    <3> QED
      BY <2>1, <2>5, <2>7, <2>8, <3>2
  <2> QED
    BY <2>1, <2>8, <2>9, <2>10, BoardsKeep
<1> QED
  BY <1>1, <1>2, <1>3

(* So do the requests that change teams: who leaves one, or whose team is  *)
(* retired, has no open card of it.                                        *)
LEMMA TeamStepsKeep ==
  ASSUME IInv, NEW m \in Teams,
         \/ RetireTeam(m)
         \/ \E members \in SUBSET Owners : CreateTeam(m, members) \/ UpdateTeam(m, members)
  PROVE  IInv'
PROOF
<1>0. /\ teams \in [Teams -> Team] /\ teams[m] \in Team
      /\ \A t \in Tasks : /\ tasks[t] \in Task /\ tasks[t].team \in Teams \cup {NoTeam}
                          /\ tasks[t].helpers \subseteq Owners
  BY DEF IInv, TypeOK, Task
<1>1. PICK new \in Team :
        /\ OnlyTeams /\ teams' = [teams EXCEPT ![m] = new]
        /\ \A t \in Tasks : tasks[t].status = "open" /\ tasks[t].team = m =>
             new.status = "active" /\ Belongs(tasks[t], new.members)
  <2>1. CASE RetireTeam(m)
    <3>1. [status |-> "retired", members |-> {}] \in Team
      BY DEF Team
    <3> QED
      BY <2>1, <3>1, Zenon DEF RetireTeam
  <2>2. ASSUME NEW members \in SUBSET Owners, CreateTeam(m, members)
        PROVE  \E new \in Team :
                 /\ OnlyTeams /\ teams' = [teams EXCEPT ![m] = new]
                 /\ \A t \in Tasks : ~ (tasks[t].status = "open" /\ tasks[t].team = m)
    <3>1. [status |-> "active", members |-> members] \in Team
      BY DEF Team
    <3>2. OnlyTeams /\ teams' = [teams EXCEPT ![m] = [status |-> "active", members |-> members]]
      BY <2>2, Zenon DEF CreateTeam
    <3>3. \A t \in Tasks : ~ (tasks[t].status = "open" /\ tasks[t].team = m)
      BY <2>2, BoardAssumption DEF CreateTeam, IInv, TeamScoped
    <3> QED
      BY <3>1, <3>2, <3>3
  <2>3. ASSUME NEW members \in SUBSET Owners, UpdateTeam(m, members)
        PROVE  \E new \in Team :
                 /\ OnlyTeams /\ teams' = [teams EXCEPT ![m] = new]
                 /\ new.status = "active" /\ new.members = members
                 /\ \A a \in teams[m].members \ members : MayLeave(m, a)
    <3>1. /\ OnlyTeams /\ teams[m].status = "active"
          /\ teams' = [teams EXCEPT ![m] = [teams[m] EXCEPT !.members = members]]
          /\ \A a \in teams[m].members \ members : MayLeave(m, a)
      BY <2>3, Zenon DEF UpdateTeam
    <3>2. /\ [teams[m] EXCEPT !.members = members] \in Team
          /\ [teams[m] EXCEPT !.members = members].status = "active"
          /\ [teams[m] EXCEPT !.members = members].members = members
      BY <1>0, <3>1 DEF Team
    <3> QED
      BY <3>1, <3>2
  <2>4. ASSUME NEW members \in SUBSET Owners, \A a \in teams[m].members \ members : MayLeave(m, a),
               NEW t \in Tasks, tasks[t].status = "open", tasks[t].team = m
        PROVE  Belongs(tasks[t], members)
    <3>1. Belongs(tasks[t], teams[m].members)
      BY <2>4, BoardAssumption DEF IInv, TeamScoped
    <3> QED
      BY <2>4, <3>1 DEF MayLeave, Belongs
  <2>5. CASE \E members \in SUBSET Owners : CreateTeam(m, members)
    BY <2>2, <2>5
  <2>6. CASE \E members \in SUBSET Owners : UpdateTeam(m, members)
    <3>1. PICK members \in SUBSET Owners : UpdateTeam(m, members)
      BY <2>6
    <3>2. PICK new \in Team :
            /\ OnlyTeams /\ teams' = [teams EXCEPT ![m] = new]
            /\ new.status = "active" /\ new.members = members
            /\ \A a \in teams[m].members \ members : MayLeave(m, a)
      BY <2>3, <3>1
    <3> QED
      BY <2>4, <3>2
  <2> QED
    BY <2>1, <2>5, <2>6
<1>2. /\ teams' \in [Teams -> Team] /\ teams'[m] = new
      /\ \A n \in Teams \ {m} : teams'[n] = teams[n]
  BY <1>0, <1>1
<1>3. /\ state' = state /\ owner' = owner /\ boards' = boards /\ tasks' = tasks /\ link' = link
      /\ executing' = executing /\ drafts' = drafts
  BY <1>1 DEF OnlyTeams, service
<1>4. TypeOK'
  BY <1>2, <1>3 DEF IInv, TypeOK
<1>5. TeamScoped'
  BY <1>0, <1>1, <1>2, <1>3 DEF IInv, TeamScoped
<1>6. Links'
  <2>1. \A t \in Tasks : tasks'[t].status \in Kept \/ tasks'[t].active = NoRun
    BY <1>3 DEF IInv, Links, GoneUnlinked, Exists
  <2> QED
    BY <1>3, <2>1, LinksKeep DEF IInv
<1>7. OnBoards' /\ ReviewKept' /\ Begun' /\ NoStaleLink' /\ DraftIsCurrent'
  BY <1>3, Zenon DEF IInv, OnBoards, Exists, BoardExists, ReviewKept, InCategory, StagesOf, Begun,
    NoStaleLink, DraftIsCurrent
<1>8. NoneRevived => OwnerExecutes'
  BY <1>3, Zenon DEF IInv, OwnerExecutes, Busy, StagesOf
<1> QED
  BY <1>4, <1>5, <1>6, <1>7, <1>8 DEF IInv

-----------------------------------------------------------------------------
(* Cards and drawers.                                                      *)

(* A step that gives the card t the content c and keeps its run keeps the  *)
(* invariant if c lies on a board that is there, in one of its stages if t *)
(* is active, names members of its team, and, as long as the run of t is   *)
(* pending, the same owner.                                                *)
LEMMA CardKeeps ==
  ASSUME IInv, OnlyCards, NEW t \in Tasks, NEW c \in Task,
         tasks' = [tasks EXCEPT ![t] = c],
         c.status \in Kept, c.active = tasks[t].active, BoardExists(c.board),
         NoneRevived /\ Busy(t) => c.owner = tasks[t].owner /\ c.stage \in StagesOf(c.board),
         c.status = "open" /\ c.team # NoTeam =>
           teams[c.team].status = "active" /\ Belongs(c, teams[c.team].members),
         drafts' \in [Clients -> Draft \cup {NoDraft}], TypeOK' => DraftIsCurrent'
  PROVE  IInv'
PROOF
<1>1. /\ state' = state /\ owner' = owner /\ boards' = boards /\ link' = link /\ teams' = teams
      /\ executing' = executing
  BY DEF OnlyCards, service
<1>2. tasks \in [Tasks -> Task]
  BY DEF IInv, TypeOK
<1>3. /\ tasks' \in [Tasks -> Task] /\ tasks'[t] = c
      /\ \A u \in Tasks \ {t} : tasks'[u] = tasks[u]
  BY <1>2
<1>4. TypeOK'
  BY <1>1, <1>3 DEF IInv, TypeOK
<1>5. Links'
  <2>1. \A u \in Tasks : /\ tasks'[u].active = tasks[u].active
                         /\ tasks'[u].status \in Kept \/ tasks'[u].active = NoRun
    BY <1>3 DEF IInv, Links, GoneUnlinked, Exists
  <2> QED
    BY <1>1, <2>1, LinksKeep DEF IInv
<1>6. OnBoards'
  BY <1>1, <1>3 DEF IInv, OnBoards, Exists, BoardExists
<1>7. ReviewKept' /\ Begun'
  BY <1>1, Zenon DEF IInv, ReviewKept, BoardExists, InCategory, StagesOf, Begun
<1>8. \A u \in Tasks : tasks'[u].active = tasks[u].active
  BY <1>3
<1>9. NoStaleLink'
  BY <1>1, <1>8 DEF IInv, NoStaleLink
<1>10. TeamScoped'
  BY <1>1, <1>3 DEF IInv, TeamScoped
<1>11. ASSUME NoneRevived PROVE OwnerExecutes'
  <2> SUFFICES ASSUME NEW u \in Tasks, Busy(u)'
               PROVE  /\ owner'[tasks'[u].active] = tasks'[u].owner
                      /\ (tasks[u].stage \in StagesOf(tasks[u].board))'
    BY DEF OwnerExecutes
  <2>1. Busy(u)
    BY <1>1, <1>8 DEF Busy
  <2>2. owner[tasks[u].active] = tasks[u].owner /\ tasks[u].stage \in StagesOf(tasks[u].board)
    BY <1>11, <2>1 DEF IInv, OwnerExecutes
  <2> QED
    BY <1>1, <1>3, <1>11, <2>1, <2>2 DEF StagesOf
<1> QED
  BY <1>4, <1>5, <1>6, <1>7, <1>9, <1>10, <1>11 DEF IInv

(* Bumping the revision of the card that changes keeps drafts current.     *)
LEMMA BumpKeepsDrafts ==
  ASSUME IInv, NEW ts, Bump(ts), \A t \in Tasks \ ts : tasks'[t] = tasks[t]
  PROVE  /\ drafts' \in [Clients -> Draft \cup {NoDraft}]
         /\ TypeOK' => DraftIsCurrent'
PROOF
<1>1. TypeOK /\ DraftIsCurrent
  BY DEF IInv
<1>2. /\ drafts' \in [Clients -> Draft \cup {NoDraft}]
      /\ \A c \in Clients :
           drafts'[c] = NoDraft \/ (drafts'[c] = drafts[c] /\ drafts[c].task \notin ts)
  BY <1>1, BumpLeaves
<1>3. ASSUME NEW c \in Clients, drafts'[c] # NoDraft
      PROVE  drafts'[c] = drafts[c] /\ tasks'[drafts[c].task] = tasks[drafts[c].task]
  BY <1>1, <1>2, <1>3, Drafted
<1>4. ASSUME TypeOK' PROVE DraftIsCurrent'
  BY <1>1, <1>3, <1>4, DraftsKeep
<1> QED
  BY <1>2, <1>4

(* updateTask and save(): what a valid update asks for is what CardKeeps   *)
(* asks for.                                                               *)
LEMMA UpdatesValid ==
  ASSUME IInv, NEW t \in Tasks, NEW c \in Task, MayUpdate(t, c)
  PROVE  /\ c.status \in Kept /\ BoardExists(c.board)
         /\ Busy(t) => c.owner = tasks[t].owner /\ c.stage \in StagesOf(c.board)
         /\ c.team # NoTeam =>
              teams[c.team].status = "active" /\ Belongs(c, teams[c.team].members)
PROOF
<1>1. Busy(t) => c.owner = tasks[t].owner
  BY ScopeIs DEF MayUpdate
<1>2. c.team # NoTeam =>
        /\ teams[c.team].status = "active"
        /\ ({c.owner} \ {NoOwner}) \cup c.helpers \subseteq teams[c.team].members
  BY Zenon DEF MayUpdate, ValidAssignment
<1> QED
  BY <1>1, <1>2, SMT DEF MayUpdate, Belongs

(* The requests of the board and of agents that change one card.           *)
LEMMA CardStepsKeep ==
  ASSUME IInv, NEW t \in Tasks,
         \/ Approve(t)
         \/ \E c \in Edits(tasks[t]) : UpdateTask(t, c)
         \/ \E b \in Boards, s \in Stages, m \in Teams \cup {NoTeam}, o \in Owners \cup {NoOwner},
              helpers \in SUBSET Owners : CreateTask(t, b, s, m, o, helpers)
         \/ \E s \in Stages, o \in Owners \cup {NoOwner} , m \in Teams \cup {NoTeam} : Move(t, s, o, m)
         \/ \E ticked \in BOOLEAN : Check(t, ticked)
  PROVE  IInv'
PROOF
<1>0. tasks \in [Tasks -> Task] /\ tasks[t] \in Task /\ TypeOK /\ DraftIsCurrent
  BY DEF IInv, TypeOK
<1>t. tasks[t].status = "open" /\ tasks[t].team # NoTeam =>
        teams[tasks[t].team].status = "active" /\ Belongs(tasks[t], teams[tasks[t].team].members)
  BY DEF IInv, TeamScoped
<1>b. Exists(t) => BoardExists(tasks[t].board)
  BY DEF IInv, OnBoards
<1>1. CASE Approve(t)
  <2>1. PICK s \in InCategory(tasks[t].board, "done") :
          /\ Exists(t) /\ tasks[t].active = NoRun /\ OnlyCards /\ Bump({t})
          /\ tasks' = [tasks EXCEPT ![t] = [tasks[t] EXCEPT !.stage = s]]
    BY <1>1, Zenon DEF Approve
  <2> DEFINE c == [tasks[t] EXCEPT !.stage = s]
  <2>2. s \in Stages
    BY DEF InCategory, StagesOf
  <2>3. /\ c \in Task /\ c.status = tasks[t].status /\ c.active = tasks[t].active
        /\ c.board = tasks[t].board /\ c.team = tasks[t].team
        /\ c.owner = tasks[t].owner /\ c.helpers = tasks[t].helpers /\ c.strayed = tasks[t].strayed
    BY <1>0, <2>2 DEF Task
  <2>4. ~ Busy(t)
    BY <2>1 DEF Busy
  <2> HIDE DEF c
  <2>5. tasks' = [tasks EXCEPT ![t] = c] /\ \A u \in Tasks \ {t} : tasks'[u] = tasks[u]
    BY <1>0, <2>1 DEF c
  <2>6. /\ drafts' \in [Clients -> Draft \cup {NoDraft}]
        /\ TypeOK' => DraftIsCurrent'
    BY <2>1, <2>5, BumpKeepsDrafts
  <2> QED
    BY <1>t, <1>b, <2>1, <2>3, <2>4, <2>5, <2>6, CardKeeps DEF Exists, Belongs
<1>2. ASSUME NEW e \in Edits(tasks[t]), UpdateTask(t, e)
      PROVE  IInv'
  <2> DEFINE c == [e EXCEPT !.strayed = FALSE]
  <2>1. MayUpdate(t, e) /\ tasks' = [tasks EXCEPT ![t] = c] /\ Bump({t}) /\ OnlyCards
    BY <1>2, Zenon DEF UpdateTask
  <2>e. e \in Task /\ e.active = tasks[t].active
    BY <1>0, EditTypes
  <2>2. /\ c \in Task /\ c.active = tasks[t].active /\ c.status = e.status
        /\ c.board = e.board /\ c.stage = e.stage /\ c.team = e.team
        /\ c.owner = e.owner /\ c.helpers = e.helpers /\ c.strayed = FALSE
    BY <2>e DEF Task
  <2> HIDE DEF c
  <2>3. \A u \in Tasks \ {t} : tasks'[u] = tasks[u]
    BY <1>0, <2>1
  <2>4. /\ drafts' \in [Clients -> Draft \cup {NoDraft}]
        /\ TypeOK' => DraftIsCurrent'
    BY <2>1, <2>3, BumpKeepsDrafts
  <2>5. /\ c.status \in Kept /\ BoardExists(c.board)
        /\ Busy(t) => c.owner = tasks[t].owner /\ c.stage \in StagesOf(c.board)
        /\ c.team # NoTeam =>
             teams[c.team].status = "active" /\ Belongs(c, teams[c.team].members)
    <3>1. MayUpdate(t, c)
      BY <2>1, <2>2, ScopeIs DEF MayUpdate
    <3> QED
      BY <2>2, <3>1, UpdatesValid
  <2> QED
    BY <2>1, <2>2, <2>4, <2>5, CardKeeps
<1>3. ASSUME NEW b \in Boards, NEW s \in Stages, NEW m \in Teams \cup {NoTeam},
             NEW o \in Owners \cup {NoOwner}, NEW helpers \in SUBSET Owners,
             CreateTask(t, b, s, m, o, helpers)
      PROVE  IInv'
  <2> DEFINE c == [status |-> "open", board |-> b, stage |-> s, team |-> m, owner |-> o,
                   helpers |-> helpers \ {o}, ticked |-> FALSE, active |-> NoRun, strayed |-> FALSE]
  <2>1. /\ tasks[t].status = "absent" /\ BoardExists(b) /\ ValidAssignment(m, o, helpers)
        /\ tasks' = [tasks EXCEPT ![t] = c] /\ OnlyCards /\ drafts' = drafts
    BY <1>3, Zenon DEF CreateTask
  <2>2. /\ c \in Task /\ c.status \in Kept /\ c.active = NoRun /\ c.board = b
        /\ c.team = m /\ c.owner = o /\ c.helpers = helpers \ {o}
    BY DEF Task, Kept
  <2>3. ~ Exists(t) /\ tasks[t].active = NoRun /\ ~ Busy(t)
    BY <2>1 DEF Exists, Kept, Busy, IInv, Links, GoneUnlinked
  <2>4. m # NoTeam => /\ teams[m].status = "active"
                      /\ ({o} \ {NoOwner}) \cup helpers \subseteq teams[m].members
    BY <2>1 DEF ValidAssignment
  <2> HIDE DEF c
  <2>5. \A u \in Tasks \ {t} : tasks'[u] = tasks[u]
    BY <1>0, <2>1
  <2>6. TypeOK' => DraftIsCurrent'
    <3>1. ASSUME NEW d \in Clients, drafts[d] # NoDraft
          PROVE  tasks'[drafts[d].task] = tasks[drafts[d].task]
      BY <1>0, <2>3, <2>5, <3>1, Drafted
    <3> QED
      BY <1>0, <2>1, <3>1, DraftsKeep
  <2>7. drafts' \in [Clients -> Draft \cup {NoDraft}]
    BY <1>0, <2>1 DEF TypeOK
  <2> QED
    BY <2>1, <2>2, <2>3, <2>4, <2>6, <2>7, CardKeeps DEF Belongs
<1>4. ASSUME NEW s \in Stages, NEW o \in Owners \cup {NoOwner}, NEW m \in Teams \cup {NoTeam},
             Move(t, s, o, m)
      PROVE  IInv'
  <2> DEFINE x == IF o = tasks[t].owner THEN tasks[t].strayed ELSE m # tasks[t].team /\ o # NoOwner
             c == [tasks[t] EXCEPT !.stage = s, !.owner = o, !.strayed = x]
  <2>1. /\ Exists(t) /\ ~ Busy(t) /\ ValidAssignment(m, o, {})
        /\ Bump({t}) /\ OnlyCards /\ tasks' = [tasks EXCEPT ![t] = c]
    BY <1>4, Zenon DEF Move
  <2>x. x \in BOOLEAN
    BY <1>0 DEF Task
  <2>3. m # NoTeam => {o} \ {NoOwner} \subseteq teams[m].members
    BY <2>1 DEF ValidAssignment
  <2>4. o # tasks[t].owner => x \/ m = tasks[t].team \/ o = NoOwner
    OBVIOUS
  <2>5. o = tasks[t].owner => x = tasks[t].strayed
    OBVIOUS
  <2> HIDE DEF x
  <2>2. /\ c \in Task /\ c.status = tasks[t].status /\ c.active = tasks[t].active
        /\ c.board = tasks[t].board /\ c.team = tasks[t].team
        /\ c.owner = o /\ c.helpers = tasks[t].helpers /\ c.strayed = x
    <3>1. c \in Task
      BY <1>0, <2>x, CardTypes, Zenon
    <3>2. DOMAIN tasks[t] = {"status", "board", "stage", "team", "owner", "helpers", "ticked", "active", "strayed"}
      BY <1>0 DEF Task
    <3> QED
      BY <3>1, <3>2, SMT
  <2> HIDE DEF c
  <2>6. \A u \in Tasks \ {t} : tasks'[u] = tasks[u]
    BY <1>0, <2>1
  <2>7. /\ drafts' \in [Clients -> Draft \cup {NoDraft}]
        /\ TypeOK' => DraftIsCurrent'
    BY <2>1, <2>6, BumpKeepsDrafts
  <2> QED
    <3>1. c.status = "open" /\ c.team # NoTeam =>
            teams[c.team].status = "active" /\ Belongs(c, teams[c.team].members)
      BY <1>t, <2>2, <2>3, <2>4, <2>5 DEF Belongs
    <3> QED
      BY <1>b, <2>1, <2>2, <2>7, <3>1, CardKeeps DEF Exists
<1>5. ASSUME NEW ticked \in BOOLEAN, Check(t, ticked)
      PROVE  IInv'
  <2> DEFINE c == [tasks[t] EXCEPT !.ticked = ticked]
  <2>1. Exists(t) /\ OnlyCards /\ drafts' = drafts /\ tasks' = [tasks EXCEPT ![t] = c]
    BY <1>5, Zenon DEF Check
  <2>2. /\ c \in Task /\ c.status = tasks[t].status /\ c.active = tasks[t].active
        /\ c.board = tasks[t].board /\ c.team = tasks[t].team /\ c.stage = tasks[t].stage
        /\ c.owner = tasks[t].owner /\ c.helpers = tasks[t].helpers /\ c.strayed = tasks[t].strayed
    BY <1>0 DEF Task
  <2> HIDE DEF c
  <2>3. tasks'[t] = c /\ \A u \in Tasks \ {t} : tasks'[u] = tasks[u]
    BY <1>0, <2>1
  <2>4. \A u \in Tasks : Scope(tasks'[u]) = Scope(tasks[u])
    BY <2>2, <2>3, ScopeIs
  <2>5. \A d \in Clients : drafts[d] # NoDraft => drafts[d].task \in Tasks
    BY <1>0, Drafted
  <2>6. TypeOK' => DraftIsCurrent'
    BY <1>0, <2>1, <2>4, <2>5, DraftsKeep
  <2>7. drafts' \in [Clients -> Draft \cup {NoDraft}]
    BY <1>0, <2>1 DEF TypeOK
  <2>8. ASSUME NoneRevived, Busy(t) PROVE c.stage \in StagesOf(c.board)
    BY <2>2, <2>8 DEF IInv, OwnerExecutes
  <2> QED
    BY <1>t, <1>b, <2>1, <2>2, <2>6, <2>7, <2>8, CardKeeps DEF Exists, Belongs
<1> QED
  BY <1>1, <1>2, <1>3, <1>4, <1>5

(* The drawer: opening it copies the card, and saving it leaves the drawer *)
(* with what was sent and the card with that, normalised.                  *)
LEMMA DrawerStepsKeep ==
  ASSUME IInv, NEW c \in Clients,
         \/ \E t \in Tasks : OpenTask(c, t)
         \/ /\ drafts[c] # NoDraft
            /\ \E edit \in Edits(drafts[c].copy) \cup {[drafts[c].copy EXCEPT !.ticked = TRUE]} : Save(c, edit)
  PROVE  IInv'
PROOF
<1>0. /\ tasks \in [Tasks -> Task] /\ TypeOK /\ DraftIsCurrent
      /\ drafts \in [Clients -> Draft \cup {NoDraft}]
  BY DEF IInv, TypeOK
<1>1. ASSUME NEW t \in Tasks, OpenTask(c, t) PROVE IInv'
  <2>1. /\ Exists(t) /\ drafts' = [drafts EXCEPT ![c] = [task |-> t, copy |-> tasks[t]]]
        /\ UNCHANGED <<service, boards, tasks, link, teams, executing>>
    BY <1>1 DEF OpenTask
  <2>2. /\ state' = state /\ owner' = owner /\ boards' = boards /\ tasks' = tasks /\ link' = link
        /\ teams' = teams /\ executing' = executing
    BY <2>1 DEF service
  <2>3. [task |-> t, copy |-> tasks[t]] \in Draft
    BY <1>0 DEF Draft
  <2>4. drafts' \in [Clients -> Draft \cup {NoDraft}]
    BY <1>0, <2>1, <2>3
  <2>5. TypeOK'
    BY <2>2, <2>4 DEF IInv, TypeOK
  <2>6. DraftIsCurrent'
    <3>1. /\ drafts'[c] = [task |-> t, copy |-> tasks[t]]
          /\ \A d \in Clients \ {c} : drafts'[d] = drafts[d]
      BY <1>0, <2>1
    <3>2. drafts'[c].task = t /\ drafts'[c].copy = tasks[t]
      BY <3>1
    <3> QED
      BY <1>0, <2>1, <2>2, <3>1, <3>2 DEF DraftIsCurrent, Exists
  <2>7. Links'
    <3>1. \A u \in Tasks : tasks'[u].status \in Kept \/ tasks'[u].active = NoRun
      BY <2>2 DEF IInv, Links, GoneUnlinked, Exists
    <3> QED
      BY <2>2, <3>1, LinksKeep DEF IInv
  <2>8. OnBoards' /\ ReviewKept' /\ Begun' /\ NoStaleLink' /\ TeamScoped'
    BY <2>2, ZenonT(40) DEF IInv, OnBoards, Exists, BoardExists, ReviewKept, InCategory, StagesOf, Begun,
      NoStaleLink, TeamScoped
  <2>9. NoneRevived => OwnerExecutes'
    BY <2>2, Zenon DEF IInv, OwnerExecutes, Busy, StagesOf
  <2> QED
    BY <2>5, <2>6, <2>7, <2>8, <2>9 DEF IInv
<1>2. ASSUME drafts[c] # NoDraft,
             NEW edit \in Edits(drafts[c].copy) \cup {[drafts[c].copy EXCEPT !.ticked = TRUE]},
             Save(c, edit)
      PROVE  IInv'
  <2> DEFINE t == drafts[c].task
             saved == [edit EXCEPT !.helpers = edit.helpers \ {edit.owner}, !.active = tasks[t].active,
                                   !.strayed = FALSE]
  <2>1. /\ MayUpdate(t, saved) /\ tasks' = [tasks EXCEPT ![t] = saved] /\ OnlyCards
        /\ drafts' = [d \in Clients |->
             IF d = c THEN [task |-> t, copy |-> edit]
             ELSE IF drafts[d] # NoDraft /\ drafts[d].task = t THEN NoDraft ELSE drafts[d]]
    BY <1>2, Zenon DEF Save
  <2>2. t \in Tasks /\ drafts[c].copy \in Task
    BY <1>0, <1>2, Drafted
  <2>3. edit \in Task
    BY <2>2, EditTypes, CardTypes
  <2> HIDE DEF t
  <2>4. tasks[t].active \in Runs \cup {NoRun}
    BY <1>0, <2>2 DEF Task
  <2>5. /\ saved \in Task /\ saved.active = tasks[t].active /\ saved.status = edit.status
        /\ saved.board = edit.board /\ saved.stage = edit.stage /\ saved.team = edit.team
        /\ saved.owner = edit.owner /\ saved.helpers = edit.helpers \ {edit.owner}
    BY <2>3, <2>4 DEF Task
  <2> HIDE DEF saved
  <2>6. /\ saved.status \in Kept /\ BoardExists(saved.board)
        /\ Busy(t) => saved.owner = tasks[t].owner /\ saved.stage \in StagesOf(saved.board)
        /\ saved.team # NoTeam =>
             teams[saved.team].status = "active" /\ Belongs(saved, teams[saved.team].members)
    BY <2>1, <2>2, <2>5, UpdatesValid
  <2>7. [task |-> t, copy |-> edit] \in Draft
    BY <2>2, <2>3 DEF Draft
  <2>8. drafts' \in [Clients -> Draft \cup {NoDraft}]
    BY <1>0, <2>1, <2>7
  <2>9. tasks'[t] = saved /\ \A u \in Tasks \ {t} : tasks'[u] = tasks[u]
    BY <1>0, <2>1, <2>2
  <2>10. Matches(edit, saved)
    BY <2>5 DEF Matches
  <2>11. DraftIsCurrent'
    <3> SUFFICES ASSUME NEW d \in Clients, drafts'[d] # NoDraft
                 PROVE  /\ tasks'[drafts'[d].task].status \in Kept
                        /\ LET copy == drafts'[d].copy  now == tasks'[drafts'[d].task] IN
                           Scope([copy EXCEPT !.helpers = copy.helpers \ {copy.owner}])
                             = Scope([now EXCEPT !.helpers = now.helpers \ {now.owner}])
      BY DEF DraftIsCurrent, Exists
    <3>1. CASE d = c
      <4>1. drafts'[d].task = t /\ drafts'[d].copy = edit
        BY <2>1, <3>1
      <4> QED
        BY <2>3, <2>5, <2>6, <2>9, <2>10, <4>1, CurrentIs
    <3>2. CASE d # c
      <4>1. drafts'[d] = drafts[d] /\ drafts[d].task # t
        BY <2>1, <3>2
      <4>2. /\ drafts[d].task \in Tasks /\ drafts[d].copy \in Task
            /\ Exists(drafts[d].task) /\ Matches(drafts[d].copy, tasks[drafts[d].task])
        BY <1>0, <4>1, Drafted
      <4>3. tasks'[drafts[d].task] = tasks[drafts[d].task] /\ tasks[drafts[d].task] \in Task
        BY <1>0, <2>9, <4>1, <4>2
      <4> QED
        BY <4>1, <4>2, <4>3, CurrentIs DEF Exists
    <3> QED
      BY <3>1, <3>2
  <2> QED
    BY <2>1, <2>2, <2>5, <2>6, <2>8, <2>11, CardKeeps
<1> QED
  BY <1>1, <1>2

-----------------------------------------------------------------------------
(* What deletes, copies and moves several cards.                           *)

(* Deleting cards takes their links to runs with them, and leaves the      *)
(* attempts of the others as they were.                                    *)
LEMMA DeleteKeeps ==
  ASSUME IInv, NEW ts \in SUBSET Tasks, Delete(ts),
         UNCHANGED <<service, teams, executing>>, boards' \in [Boards -> Board], ReviewKept',
         \A b \in Boards : boards'[b].stage = boards[b].stage,
         \A t \in Tasks \ ts : Exists(t) => (boards'[tasks[t].board].status \in Kept)
  PROVE  IInv'
PROOF
<1>1. /\ state' = state /\ owner' = owner /\ teams' = teams /\ executing' = executing
      /\ TypeOK /\ DraftIsCurrent
  BY DEF service, IInv
<1>2. /\ tasks \in [Tasks -> Task] /\ link \in [Runs -> [task : Tasks \cup {NoTask}, attempt : Nat]]
  BY <1>1 DEF TypeOK
<1>3. /\ Bump(ts)
      /\ tasks' = [t \in Tasks |-> IF t \in ts THEN [tasks[t] EXCEPT !.status = "deleted", !.active = NoRun]
                                   ELSE tasks[t]]
      /\ link' = [r \in Runs |-> IF link[r].task \in ts THEN [task |-> NoTask, attempt |-> 0] ELSE link[r]]
  BY DEF Delete
<1>4. ASSUME NEW t \in ts
      PROVE  /\ [tasks[t] EXCEPT !.status = "deleted", !.active = NoRun] \in Task
             /\ [tasks[t] EXCEPT !.status = "deleted", !.active = NoRun].status = "deleted"
             /\ [tasks[t] EXCEPT !.status = "deleted", !.active = NoRun].active = NoRun
  BY <1>2, ZenonT(40) DEF Task
<1>5. /\ tasks' \in [Tasks -> Task]
      /\ \A t \in ts : tasks'[t].status = "deleted" /\ tasks'[t].active = NoRun
      /\ \A t \in Tasks \ ts : tasks'[t] = tasks[t]
  BY <1>2, <1>3, <1>4
<1>6. /\ link' \in [Runs -> [task : Tasks \cup {NoTask}, attempt : Nat]]
      /\ \A r \in Runs : IF link[r].task \in ts THEN link'[r].task = NoTask ELSE link'[r] = link[r]
  BY <1>2, <1>3
<1>7. /\ drafts' \in [Clients -> Draft \cup {NoDraft}]
      /\ TypeOK' => DraftIsCurrent'
  BY <1>3, <1>5, BumpKeepsDrafts
<1>8. TypeOK'
  BY <1>1, <1>5, <1>6, <1>7 DEF TypeOK
<1>9. Links'
  <2>1. \A t \in Tasks : Attempts(t)' = IF t \in ts THEN {} ELSE Attempts(t)
    BY <1>6, BoardAssumption DEF Attempts
  <2>2. Numbered'
    <3> SUFFICES ASSUME NEW t \in Tasks
                 PROVE  /\ IsFiniteSet(Attempts(t)')
                        /\ \A r \in Attempts(t)' : link'[r].attempt <= Cardinality(Attempts(t)')
      BY DEF Numbered
    <3>1. CASE t \in ts
      BY <2>1, <3>1, FS_EmptySet
    <3>2. CASE t \notin ts
      <4>1. \A r \in Attempts(t) : link'[r] = link[r]
        BY <1>6, <3>2 DEF Attempts
      <4> QED
        BY <2>1, <3>2, <4>1 DEF IInv, Links, Numbered
    <3> QED
      BY <3>1, <3>2
  <2>3. RowsFirst'
    BY <1>1, <1>6 DEF IInv, Links, RowsFirst
  <2>4. GoneUnlinked'
    BY <1>5 DEF IInv, Links, GoneUnlinked, Exists, Kept
  <2>5. LinkIsNewest'
    <3> SUFFICES ASSUME NEW t \in Tasks, tasks'[t].active # NoRun
                 PROVE  /\ link'[tasks'[t].active].task = t
                        /\ \A q \in Attempts(t)' : link'[q].attempt <= link'[tasks'[t].active].attempt
      BY DEF LinkIsNewest
    <3>1. t \notin ts /\ tasks'[t] = tasks[t] /\ tasks[t].active \in Runs
      BY <1>2, <1>5 DEF Task
    <3>2. /\ link[tasks[t].active].task = t
          /\ \A q \in Attempts(t) : link[q].attempt <= link[tasks[t].active].attempt
      BY <3>1 DEF IInv, Links, LinkIsNewest
    <3>3. \A q \in Attempts(t) : link'[q] = link[q]
      BY <1>6, <3>1 DEF Attempts
    <3>4. link'[tasks[t].active] = link[tasks[t].active]
      BY <1>6, <3>1, <3>2
    <3> QED
      BY <2>1, <3>1, <3>2, <3>3, <3>4
  <2> QED
    BY <2>2, <2>3, <2>4, <2>5 DEF Links
<1>10. OnBoards'
  BY <1>5 DEF OnBoards, Exists, BoardExists, Kept
<1>11. Begun'
  BY <1>1 DEF IInv, Begun
<1>12. NoStaleLink'
  BY <1>1, <1>5 DEF IInv, NoStaleLink
<1>13. TeamScoped'
  BY <1>1, <1>5 DEF IInv, TeamScoped
<1>14. ASSUME NoneRevived PROVE OwnerExecutes'
  <2> SUFFICES ASSUME NEW t \in Tasks, Busy(t)'
               PROVE  /\ owner'[tasks'[t].active] = tasks'[t].owner
                      /\ (tasks[t].stage \in StagesOf(tasks[t].board))'
    BY DEF OwnerExecutes
  <2>1. tasks'[t] = tasks[t] /\ Busy(t) /\ tasks[t].board \in Boards
    BY <1>1, <1>2, <1>5 DEF Busy, Task
  <2>2. owner[tasks[t].active] = tasks[t].owner /\ tasks[t].stage \in StagesOf(tasks[t].board)
    BY <1>14, <2>1 DEF IInv, OwnerExecutes
  <2> QED
    BY <1>1, <2>1, <2>2 DEF StagesOf
<1> QED
  BY <1>7, <1>8, <1>9, <1>10, <1>11, <1>12, <1>13, <1>14 DEF IInv

(* The two requests that delete. *)
LEMMA DeletionsKeep ==
  ASSUME IInv, \/ \E b \in Boards : DeleteBoard(b)
               \/ \E t \in Tasks : DeleteTask(t)
  PROVE  IInv'
PROOF
<1>0. /\ boards \in [Boards -> Board] /\ \A t \in Tasks : tasks[t].board \in Boards
  BY DEF IInv, TypeOK, Task
<1>1. ASSUME NEW b \in Boards, DeleteBoard(b) PROVE IInv'
  <2> DEFINE new == [boards[b] EXCEPT !.status = "deleted"]
  <2>1. /\ Delete(OnBoard(b)) /\ UNCHANGED <<service, teams, executing>>
        /\ boards' = [boards EXCEPT ![b] = new]
    BY <1>1, Zenon DEF DeleteBoard
  <2>2. new \in Board /\ new.status = "deleted" /\ new.stage = boards[b].stage
    BY <1>0 DEF Board
  <2> HIDE DEF new
  <2>3. /\ boards' \in [Boards -> Board] /\ boards'[b] = new
        /\ \A c \in Boards \ {b} : boards'[c] = boards[c]
    BY <1>0, <2>1, <2>2
  <2>4. ReviewKept'
    BY <2>2, <2>3 DEF ReviewKept, BoardExists, Kept, InCategory, StagesOf, IInv
  <2>5. \A t \in Tasks \ OnBoard(b) : Exists(t) => boards'[tasks[t].board].status \in Kept
    BY <1>0, <2>3 DEF OnBoard, IInv, OnBoards, BoardExists
  <2>6. OnBoard(b) \in SUBSET Tasks
    BY DEF OnBoard
  <2> QED
    BY <2>1, <2>2, <2>3, <2>4, <2>5, <2>6, DeleteKeeps
<1>2. ASSUME NEW t \in Tasks, DeleteTask(t) PROVE IInv'
  <2>1. Delete({t}) /\ UNCHANGED <<service, boards, teams, executing>>
    BY <1>2 DEF DeleteTask
  <2>2. boards' = boards
    BY <2>1
  <2>3. ReviewKept'
    BY <2>2, Zenon DEF ReviewKept, BoardExists, InCategory, StagesOf, IInv
  <2>4. \A u \in Tasks \ {t} : Exists(u) => boards'[tasks[u].board].status \in Kept
    BY <2>2 DEF IInv, OnBoards, BoardExists
  <2> QED
    BY <1>0, <2>1, <2>2, <2>3, <2>4, DeleteKeeps
<1> QED
  BY <1>1, <1>2

(* The copy of a card on the board c.                                      *)
CopyOf(t, c) == [tasks[t] EXCEPT !.board = c, !.ticked = FALSE, !.active = NoRun]

(* Duplicating a board makes cards of rows that were absent, each a copy   *)
(* of a card of the board without its run.                                 *)
LEMMA CopiesAre ==
  ASSUME IInv, NEW b \in Boards, NEW c \in Boards, NEW ts, ts \subseteq OnBoard(b),
         DuplicateBoard(b, c, ts)
  PROVE  \A u \in Tasks :
           \/ tasks'[u] = tasks[u]
           \/ /\ tasks[u].status = "absent"
              /\ \E t \in ts : tasks'[u] = CopyOf(t, c)
PROOF
<1>1. PICK copy \in [ts -> {t \in Tasks : tasks[t].status = "absent"}] :
        tasks' = [u \in Tasks |->
            IF \E t \in ts : copy[t] = u
            THEN [tasks[CHOOSE t \in ts : copy[t] = u] EXCEPT
                    !.board = c, !.ticked = FALSE, !.active = NoRun]
            ELSE tasks[u]]
  BY Zenon DEF DuplicateBoard
<1> SUFFICES ASSUME NEW u \in Tasks, NEW t0 \in ts, copy[t0] = u
             PROVE  /\ tasks[u].status = "absent"
                    /\ \E t \in ts : tasks'[u] = CopyOf(t, c)
  BY <1>1
<1> DEFINE t1 == CHOOSE t \in ts : copy[t] = u
<1>2. t1 \in ts
  OBVIOUS
<1>3. tasks'[u] = [tasks[t1] EXCEPT !.board = c, !.ticked = FALSE, !.active = NoRun]
  BY <1>1
<1>4. tasks[u].status = "absent"
  BY <1>1
<1> HIDE DEF t1
<1> QED
  BY <1>2, <1>3, <1>4 DEF CopyOf

(* So nothing else about the cards that were there changes. *)
LEMMA DuplicateKeeps ==
  ASSUME IInv, NEW b \in Boards, NEW c \in Boards, NEW ts, ts \subseteq OnBoard(b),
         DuplicateBoard(b, c, ts)
  PROVE  IInv'
PROOF
<1>0. TypeOK /\ DraftIsCurrent /\ tasks \in [Tasks -> Task] /\ boards \in [Boards -> Board]
  BY DEF IInv, TypeOK
<1>1. /\ state' = state /\ owner' = owner /\ link' = link /\ teams' = teams
      /\ executing' = executing /\ drafts' = drafts
      /\ BoardExists(b) /\ boards[c].status = "absent"
  BY DEF DuplicateBoard, service
<1>2. ASSUME NEW t \in ts
      PROVE  /\ Exists(t) /\ CopyOf(t, c) \in Task /\ CopyOf(t, c).status = tasks[t].status
             /\ CopyOf(t, c).board = c /\ CopyOf(t, c).team = tasks[t].team /\ CopyOf(t, c).owner = tasks[t].owner
             /\ CopyOf(t, c).helpers = tasks[t].helpers /\ CopyOf(t, c).active = NoRun
             /\ CopyOf(t, c).strayed = tasks[t].strayed
  BY <1>0, ZenonT(40) DEF OnBoard, Task, CopyOf
<1>3. \A u \in Tasks :
        \/ tasks'[u] = tasks[u]
        \/ tasks[u].status = "absent" /\ \E t \in ts : tasks'[u] = CopyOf(t, c)
  BY CopiesAre
<1> DEFINE stages == [s \in Stages |-> IF s \in StagesOf(b) THEN boards[b].stage[s] ELSE "absent"]
<1>4. PICK run \in RunStage(b), done \in DoneStage(b) :
        boards' = [boards EXCEPT ![c] = [status |-> "open", run |-> run, done |-> done, stage |-> stages]]
  BY Zenon DEF DuplicateBoard
<1> DEFINE new == [status |-> "open", run |-> run, done |-> done, stage |-> stages]
<1>5. run \in Stages \cup {NoStage} /\ done \in Stages \cup {NoStage}
  BY DEF RunStage, DoneStage, Setting, InCategory, StagesOf
<1>6. stages \in [Stages -> Categories \cup {"absent", "removed"}]
  BY DEF StagesOf
<1>7. \A s \in Stages : boards[b].stage[s] = "review" => stages[s] = "review"
  BY DEF StagesOf, Categories
<1> HIDE DEF stages
<1>8. new \in Board /\ new.status = "open" /\ new.stage = stages
  BY <1>5, <1>6 DEF Board
<1> HIDE DEF new
<1>9. /\ boards' \in [Boards -> Board] /\ boards'[c] = new
      /\ \A d \in Boards \ {c} : boards'[d] = boards[d]
  BY <1>0, <1>4, <1>8 DEF new
<1>10. tasks' \in [Tasks -> Task]
  <2>1. \A u \in Tasks : tasks'[u] \in Task
    BY <1>0, <1>2, <1>3
  <2>2. PICK copy \in [ts -> {t \in Tasks : tasks[t].status = "absent"}] :
        tasks' = [u \in Tasks |->
            IF \E t \in ts : copy[t] = u
            THEN [tasks[CHOOSE t \in ts : copy[t] = u] EXCEPT
                    !.board = c, !.ticked = FALSE, !.active = NoRun]
            ELSE tasks[u]]
    BY Zenon DEF DuplicateBoard
  <2> QED
    BY <2>1, <2>2
<1>11. TypeOK'
  BY <1>0, <1>1, <1>9, <1>10 DEF TypeOK
<1>12. \A u \in Tasks : ~ Exists(u) => tasks[u].active = NoRun
  BY DEF IInv, Links, GoneUnlinked
<1>13. \A u \in Tasks : tasks[u].status = "absent" => ~ Exists(u)
  BY DEF Exists, Kept
<1>14. Links'
  <2>1. \A u \in Tasks : /\ tasks'[u].active = tasks[u].active
                         /\ tasks'[u].status \in Kept \/ tasks'[u].active = NoRun
    BY <1>2, <1>3, <1>12, <1>13 DEF Exists
  <2> QED
    BY <1>1, <2>1, LinksKeep DEF IInv
<1>15. \A d \in Boards : BoardExists(d) => d # c /\ boards'[d] = boards[d]
  BY <1>1, <1>9 DEF BoardExists, Kept
<1>16. OnBoards'
  <2> SUFFICES ASSUME NEW u \in Tasks, Exists(u)'
               PROVE  boards'[tasks'[u].board].status \in Kept
    BY DEF OnBoards, BoardExists
  <2>1. CASE tasks'[u] = tasks[u]
    <3>1. Exists(u) /\ tasks[u].board \in Boards
      BY <1>0, <2>1 DEF Exists, Task
    <3> QED
      BY <1>15, <2>1, <3>1 DEF IInv, OnBoards, BoardExists
  <2>2. CASE \E t \in ts : tasks'[u] = CopyOf(t, c)
    BY <1>2, <1>8, <1>9, <2>2 DEF Kept
  <2> QED
    BY <1>3, <2>1, <2>2
<1>17. ReviewKept'
  <2> SUFFICES ASSUME "recategorise" \notin Requests, NEW d \in Boards, BoardExists(d)'
               PROVE  \E q \in Stages : boards'[d].stage[q] = "review"
    BY DEF ReviewKept, InCategory, StagesOf, Categories
  <2>1. \A e \in Boards : BoardExists(e) => \E q \in Stages : boards[e].stage[q] = "review"
    BY DEF IInv, ReviewKept, InCategory, StagesOf
  <2> QED
    BY <1>1, <1>7, <1>8, <1>9, <2>1 DEF BoardExists
<1>18. Begun'
  BY <1>1 DEF IInv, Begun
<1>19. NoStaleLink'
  BY <1>1, <1>2, <1>3 DEF IInv, NoStaleLink
<1>20. TeamScoped'
  <2> SUFFICES ASSUME NEW u \in Tasks, tasks'[u].status = "open", tasks'[u].team # NoTeam
               PROVE  /\ teams[tasks'[u].team].status = "active"
                      /\ Belongs(tasks'[u], teams[tasks'[u].team].members)
    BY <1>1 DEF TeamScoped
  <2>1. PICK t \in Tasks : /\ tasks'[u].status = tasks[t].status /\ tasks'[u].team = tasks[t].team
                          /\ tasks'[u].owner = tasks[t].owner /\ tasks'[u].helpers = tasks[t].helpers
                          /\ tasks'[u].strayed = tasks[t].strayed
    BY <1>2, <1>3 DEF OnBoard
  <2> QED
    BY <2>1 DEF IInv, TeamScoped, Belongs
<1>21. DraftIsCurrent'
  <2>1. ASSUME NEW d \in Clients, drafts[d] # NoDraft
        PROVE  tasks'[drafts[d].task] = tasks[drafts[d].task]
    BY <1>0, <1>3, <1>13, <2>1, Drafted
  <2> QED
    BY <1>0, <1>1, <1>11, <2>1, DraftsKeep
<1>22. ASSUME NoneRevived PROVE OwnerExecutes'
  <2> SUFFICES ASSUME NEW t \in Tasks, Busy(t)'
               PROVE  /\ owner'[tasks'[t].active] = tasks'[t].owner
                      /\ (tasks[t].stage \in StagesOf(tasks[t].board))'
    BY DEF OwnerExecutes
  <2>1. tasks'[t].active # NoRun
    BY DEF Busy
  <2>2. tasks'[t] = tasks[t]
    BY <1>2, <1>3, <2>1
  <2>3. Busy(t) /\ tasks[t].board \in Boards
    BY <1>0, <1>1, <2>2 DEF Busy, Task
  <2>4. Exists(t)
    BY <1>12, <2>3 DEF Busy
  <2>5. boards'[tasks[t].board] = boards[tasks[t].board]
    BY <1>15, <2>3, <2>4 DEF IInv, OnBoards
  <2>6. owner[tasks[t].active] = tasks[t].owner /\ tasks[t].stage \in StagesOf(tasks[t].board)
    BY <1>22, <2>3 DEF IInv, OwnerExecutes
  <2> QED
    BY <1>1, <2>2, <2>5, <2>6 DEF StagesOf
<1> QED
  BY <1>11, <1>14, <1>16, <1>17, <1>18, <1>19, <1>20, <1>21, <1>22 DEF IInv

(* A removed stage leaves its cards on the target, and its board with a    *)
(* stage for completed work.                                               *)
LEMMA RemoveStageKeeps ==
  ASSUME IInv, NEW b \in Boards, NEW s \in Stages, NEW target \in Stages, RemoveStage(b, s, target)
  PROVE  IInv'
PROOF
<1> DEFINE moved == {t \in OnBoard(b) : tasks[t].stage = s}
           left == [boards EXCEPT ![b].stage[s] = "removed"]
           repair(stored, category) ==
             IF stored \in StagesOf(b) \ {s} THEN {stored}
             ELSE LET rest == InCategory(b, category) \ {s} IN
                  IF rest = {} THEN {NoStage} ELSE rest
           f == [boards[b].stage EXCEPT ![s] = "removed"]
           new(run, done) == [[boards[b] EXCEPT !.stage[s] = "removed"] EXCEPT !.run = run, !.done = done]
<1>0. /\ TypeOK /\ DraftIsCurrent /\ tasks \in [Tasks -> Task] /\ boards \in [Boards -> Board]
      /\ boards[b] \in Board
  BY DEF IInv, TypeOK
<1>1. /\ {s, target} \subseteq StagesOf(b) /\ s # target
      /\ boards[b].stage[s] \in {"in_progress", "review", "done"} =>
           InCategory(b, boards[b].stage[s]) # {s}
      /\ \E run \in repair(boards[b].run, "in_progress"), done \in repair(boards[b].done, "review") :
           boards' = [left EXCEPT ![b].run = run, ![b].done = done]
      /\ tasks' = [t \in Tasks |-> IF t \in moved THEN [tasks[t] EXCEPT !.stage = target] ELSE tasks[t]]
      /\ Bump(moved)
      /\ UNCHANGED <<service, link, teams, executing>>
  BY Zenon DEF RemoveStage
<1>2. /\ state' = state /\ owner' = owner /\ link' = link /\ teams' = teams /\ executing' = executing
  BY <1>1 DEF service
<1>3. boards[b].stage \in [Stages -> Categories \cup {"absent", "removed"}]
  BY <1>0, BoardParts
<1>4. /\ f \in [Stages -> Categories \cup {"absent", "removed"}] /\ f[s] = "removed"
      /\ \A q \in Stages \ {s} : f[q] = boards[b].stage[q]
  BY <1>3
<1>5. /\ [boards[b] EXCEPT !.stage[s] = "removed"] = [boards[b] EXCEPT !.stage = f]
      /\ left = [boards EXCEPT ![b] = [boards[b] EXCEPT !.stage[s] = "removed"]]
  BY <1>0, BoardParts, Zenon
<1> HIDE DEF f
<1>6. \A run, done \in Stages \cup {NoStage} :
        /\ new(run, done) \in Board /\ new(run, done).stage = f
        /\ new(run, done).status = boards[b].status
  <2>1. [boards[b] EXCEPT !.stage = f] \in Board
    BY <1>0, <1>4 DEF Board
  <2>2. /\ [boards[b] EXCEPT !.stage = f].stage = f
        /\ [boards[b] EXCEPT !.stage = f].status = boards[b].status
    BY <1>0 DEF Board
  <2> QED
    BY <1>5, <2>1, <2>2 DEF Board
<1>7. /\ repair(boards[b].run, "in_progress") \subseteq Stages \cup {NoStage}
      /\ repair(boards[b].done, "review") \subseteq Stages \cup {NoStage}
  BY DEF StagesOf, InCategory
<1> HIDE DEF repair
<1>p. PICK run \in Stages \cup {NoStage}, done \in Stages \cup {NoStage} :
        boards' = [left EXCEPT ![b].run = run, ![b].done = done]
  BY <1>1, <1>7
<1>8. boards' = [left EXCEPT ![b] = [left[b] EXCEPT !.run = run, !.done = done]]
  BY <1>p
<1>9. left[b] = [boards[b] EXCEPT !.stage[s] = "removed"] /\ DOMAIN left = Boards
      /\ \A c \in Boards \ {b} : left[c] = boards[c]
  BY <1>0, <1>5
<1> HIDE DEF left
<1>10. /\ boards'[b] = new(run, done) /\ \A c \in Boards \ {b} : boards'[c] = boards[c]
       /\ boards' = [c \in Boards |-> boards'[c]]
  BY <1>8, <1>9
<1> HIDE DEF new
<1>11. /\ boards' \in [Boards -> Board] /\ boards'[b].stage = f /\ boards'[b].status = boards[b].status
  BY <1>0, <1>6, <1>10
<1>12. \A t \in Tasks :
         IF t \in moved
         THEN /\ tasks'[t] \in Task /\ tasks'[t].status = tasks[t].status /\ tasks'[t].active = tasks[t].active
              /\ tasks'[t].board = tasks[t].board /\ tasks'[t].team = tasks[t].team
              /\ tasks'[t].owner = tasks[t].owner /\ tasks'[t].helpers = tasks[t].helpers
              /\ tasks'[t].stage = target /\ tasks'[t].strayed = tasks[t].strayed
         ELSE tasks'[t] = tasks[t]
  <2>1. ASSUME NEW c \in Task
        PROVE  LET d == [c EXCEPT !.stage = target] IN
               /\ d \in Task /\ d.status = c.status /\ d.active = c.active /\ d.board = c.board
               /\ d.team = c.team /\ d.owner = c.owner /\ d.helpers = c.helpers /\ d.stage = target
               /\ d.strayed = c.strayed
    BY DEF Task
  <2> QED
    BY <1>0, <1>1, <2>1
<1>m. moved \subseteq Tasks /\ \A t \in moved : tasks[t].board = b
  BY DEF OnBoard
<1>n. \A t \in Tasks : Exists(t) /\ tasks[t].board = b /\ tasks[t].stage = s => t \in moved
  BY DEF OnBoard
<1> HIDE DEF moved
<1>13. tasks' \in [Tasks -> Task]
  BY <1>0, <1>1, <1>12
<1>14. /\ drafts' \in [Clients -> Draft \cup {NoDraft}]
       /\ TypeOK' => DraftIsCurrent'
  BY <1>1, <1>12, BumpKeepsDrafts
<1>15. TypeOK'
  BY <1>0, <1>2, <1>11, <1>13, <1>14 DEF TypeOK
<1>16. Links'
  <2>1. \A u \in Tasks : /\ tasks'[u].active = tasks[u].active
                         /\ tasks'[u].status \in Kept \/ tasks'[u].active = NoRun
    BY <1>12 DEF IInv, Links, GoneUnlinked, Exists
  <2> QED
    BY <1>2, <2>1, LinksKeep DEF IInv
<1>17. \A c \in Boards : boards'[c].status = boards[c].status
  BY <1>10, <1>11
<1>18. OnBoards'
  <2>1. \A u \in Tasks : tasks'[u].status = tasks[u].status /\ tasks'[u].board = tasks[u].board
                         /\ tasks[u].board \in Boards
    BY <1>0, <1>12 DEF Task
  <2> QED
    BY <1>17, <2>1 DEF IInv, OnBoards, Exists, BoardExists
<1>19. ReviewKept'
  <2> SUFFICES ASSUME "recategorise" \notin Requests, NEW d \in Boards, BoardExists(d)'
               PROVE  \E q \in Stages : boards'[d].stage[q] = "review"
    BY DEF ReviewKept, InCategory, StagesOf, Categories
  <2>1. PICK q \in InCategory(d, "review") : TRUE
    BY <1>17 DEF IInv, ReviewKept, BoardExists
  <2>2. q \in Stages /\ boards[d].stage[q] = "review"
    BY DEF InCategory, StagesOf
  <2>3. CASE d = b /\ q = s
    <3>1. PICK p \in InCategory(b, "review") : p # s
      BY <1>1, <2>1, <2>2, <2>3
    <3>2. p \in Stages /\ boards[b].stage[p] = "review"
      BY DEF InCategory, StagesOf
    <3> QED
      BY <1>4, <1>11, <2>3, <3>1, <3>2
  <2> QED
    BY <1>4, <1>10, <1>11, <2>2, <2>3
<1>20. Begun'
  BY <1>2 DEF IInv, Begun
<1>21. NoStaleLink'
  BY <1>2, <1>12 DEF IInv, NoStaleLink
<1>22. TeamScoped'
  BY <1>2, <1>12 DEF IInv, TeamScoped, Belongs
<1>23. ASSUME NoneRevived PROVE OwnerExecutes'
  <2> SUFFICES ASSUME NEW t \in Tasks, Busy(t)'
               PROVE  /\ owner'[tasks'[t].active] = tasks'[t].owner
                      /\ boards'[tasks'[t].board].stage[tasks'[t].stage] \in Categories
                      /\ tasks'[t].stage \in Stages
    BY DEF OwnerExecutes, StagesOf
  <2>1. Busy(t) /\ tasks[t].board \in Boards /\ tasks[t].stage \in Stages
    BY <1>0, <1>2, <1>12 DEF Busy, Task
  <2>2. Exists(t)
    BY <2>1 DEF Busy, IInv, Links, GoneUnlinked
  <2>3. owner[tasks[t].active] = tasks[t].owner /\ boards[tasks[t].board].stage[tasks[t].stage] \in Categories
    BY <1>23, <2>1 DEF IInv, OwnerExecutes, StagesOf
  <2>4. boards[b].stage[target] \in Categories
    BY <1>1 DEF StagesOf
  <2>5. CASE t \in moved
    BY <1>1, <1>2, <1>4, <1>11, <1>12, <1>m, <2>3, <2>4, <2>5
  <2>6. CASE t \notin moved
    BY <1>2, <1>4, <1>10, <1>11, <1>12, <1>n, <2>1, <2>2, <2>3, <2>6
  <2> QED
    BY <2>5, <2>6
<1> QED
  BY <1>14, <1>15, <1>16, <1>18, <1>19, <1>20, <1>21, <1>22, <1>23 DEF IInv

-----------------------------------------------------------------------------
(* Runs.                                                                   *)

(* The settings of a board name stages it has, or none.                    *)
LEMMA SettingsNameStages ==
  ASSUME NEW b, NEW stored, NEW category, NEW s \in Setting(b, stored, category)
  PROVE  /\ s \in Stages \cup {NoStage}
         /\ s # NoStage => s \in StagesOf(b)
         /\ InCategory(b, category) # {} => s \in StagesOf(b)
PROOF
  BY DEF Setting, InCategory, StagesOf

(* A run that has no row yet is no attempt of any card and no card's run.  *)
LEMMA AbsentIsFree ==
  ASSUME IInv, NEW r \in Runs, state[r] = "absent"
  PROVE  \A t \in Tasks : r \notin Attempts(t) /\ tasks[t].active # r
PROOF
  BY BoardAssumption DEF IInv, Links, RowsFirst, LinkIsNewest, Attempts

(* The new attempt has a number above those of all others of its card.     *)
LEMMA StartLinks ==
  ASSUME IInv, NEW t \in Tasks, NEW r \in Runs, state[r] = "absent", Exists(t),
         NEW s \in {"queued", "running"}, state' = [state EXCEPT ![r] = s],
         link' = [link EXCEPT ![r] = [task |-> t, attempt |-> Cardinality(Attempts(t)) + 1]],
         \A u \in Tasks : /\ tasks'[u].status = tasks[u].status
                          /\ tasks'[u].active = IF u = t THEN r ELSE tasks[u].active
  PROVE  Links' /\ link' \in [Runs -> [task : Tasks \cup {NoTask}, attempt : Nat]]
PROOF
<1> DEFINE n == Cardinality(Attempts(t))
<1>0. /\ state \in [Runs -> RunStates] /\ tasks \in [Tasks -> Task]
      /\ link \in [Runs -> [task : Tasks \cup {NoTask}, attempt : Nat]]
  BY DEF IInv, TypeOK
<1>1. /\ IsFiniteSet(Attempts(t)) /\ \A q \in Attempts(t) : link[q].attempt <= n
  BY DEF IInv, Links, Numbered
<1>2. n \in Nat
  BY <1>1, FS_CardinalityType
<1>3. \A u \in Tasks : r \notin Attempts(u) /\ tasks[u].active # r
  BY AbsentIsFree
<1>4. IsFiniteSet(Attempts(t) \cup {r}) /\ Cardinality(Attempts(t) \cup {r}) = n + 1
  BY <1>1, <1>3, FS_AddElement
<1> HIDE DEF n
<1>5. link' = [link EXCEPT ![r] = [task |-> t, attempt |-> n + 1]]
  BY DEF n
<1>6. /\ link' \in [Runs -> [task : Tasks \cup {NoTask}, attempt : Nat]]
      /\ link'[r].task = t /\ link'[r].attempt = n + 1
      /\ \A q \in Runs \ {r} : link'[q] = link[q]
  BY <1>0, <1>2, <1>5
<1>7. /\ Attempts(t)' = Attempts(t) \cup {r}
      /\ \A u \in Tasks \ {t} : Attempts(u)' = Attempts(u)
  BY <1>3, <1>6 DEF Attempts
<1>8. \A u \in Tasks : \A q \in Attempts(u) : q # r /\ q \in Runs /\ link'[q] = link[q]
  BY <1>3, <1>6 DEF Attempts
<1>9. \A u \in Tasks : \A q \in Attempts(u) : link[q].attempt \in Nat
  BY <1>0 DEF Attempts
<1>10. Numbered'
  <2> SUFFICES ASSUME NEW u \in Tasks
               PROVE  /\ IsFiniteSet(Attempts(u)')
                      /\ \A q \in Attempts(u)' : link'[q].attempt <= Cardinality(Attempts(u)')
    BY DEF Numbered
  <2>1. CASE u = t
    <3>1. Cardinality(Attempts(t)') = n + 1
      BY <1>4, <1>7
    <3>2. ASSUME NEW q \in Attempts(t)' PROVE link'[q].attempt <= n + 1
      BY <1>1, <1>2, <1>6, <1>7, <1>8, <1>9
    <3> QED
      BY <1>4, <1>7, <2>1, <3>1, <3>2
  <2>2. CASE u # t
    BY <1>7, <1>8, <2>2 DEF IInv, Links, Numbered
  <2> QED
    BY <2>1, <2>2
<1>11. RowsFirst'
  BY <1>0, <1>6 DEF IInv, Links, RowsFirst
<1>12. GoneUnlinked'
  BY <1>0 DEF IInv, Links, GoneUnlinked, Exists
<1>13. LinkIsNewest'
  <2> SUFFICES ASSUME NEW u \in Tasks, tasks'[u].active # NoRun
               PROVE  /\ link'[tasks'[u].active].task = u
                      /\ \A q \in Attempts(u)' : link'[q].attempt <= link'[tasks'[u].active].attempt
    BY DEF LinkIsNewest
  <2>1. CASE u = t
    BY <1>1, <1>2, <1>6, <1>7, <1>8, <1>9, <2>1
  <2>2. CASE u # t
    <3>1. tasks'[u].active = tasks[u].active /\ tasks[u].active \in Runs
      BY <1>0, <2>2 DEF Task
    <3>2. /\ link[tasks[u].active].task = u
          /\ \A q \in Attempts(u) : link[q].attempt <= link[tasks[u].active].attempt
      BY <3>1 DEF IInv, Links, LinkIsNewest
    <3> QED
      BY <1>3, <1>6, <1>7, <1>8, <2>2, <3>1, <3>2
  <2> QED
    BY <2>1, <2>2
<1> QED
  BY <1>6, <1>10, <1>11, <1>12, <1>13 DEF Links

(* start(): the card takes the run, in a stage of its board, and the       *)
(* drawer it was started from takes the stage.                             *)
LEMMA StartKeeps ==
  ASSUME IInv, NEW t \in Tasks, NEW r \in Runs, NEW s \in {"queued", "running"},
         NEW c \in Clients \cup {NoDraft}, Start(t, r, s, c)
  PROVE  IInv'
PROOF
<1>0. /\ TypeOK /\ DraftIsCurrent /\ tasks \in [Tasks -> Task] /\ tasks[t] \in Task
      /\ state \in [Runs -> RunStates] /\ owner \in [Runs -> Owners \cup {NoOwner}]
      /\ drafts \in [Clients -> Draft \cup {NoDraft}]
  BY DEF IInv, TypeOK
<1>1. /\ Exists(t) /\ ~ Busy(t) /\ tasks[t].owner # NoOwner /\ state[r] = "absent"
      /\ c # NoDraft => drafts[c] # NoDraft /\ drafts[c].task = t
      /\ state' = [state EXCEPT ![r] = s] /\ owner' = [owner EXCEPT ![r] = tasks[t].owner]
      /\ executing' = IF s = "running" THEN executing \cup {r} ELSE executing
      /\ link' = [link EXCEPT ![r] = [task |-> t, attempt |-> Cardinality(Attempts(t)) + 1]]
      /\ boards' = boards /\ teams' = teams
  BY DEF Start
<1>2. PICK progress \in RunStage(tasks[t].board) :
        /\ progress # NoStage
        /\ tasks' = [tasks EXCEPT ![t] = [tasks[t] EXCEPT !.stage = progress, !.active = r]]
        /\ drafts' = [d \in Clients |->
             IF d = c THEN [drafts[d] EXCEPT !.copy.stage = progress]
             ELSE IF drafts[d] # NoDraft /\ drafts[d].task = t THEN NoDraft ELSE drafts[d]]
  BY ZenonT(40) DEF Start
<1>3. progress \in StagesOf(tasks[t].board) /\ progress \in Stages
  BY <1>2, SettingsNameStages DEF RunStage, StagesOf
<1> DEFINE new == [tasks[t] EXCEPT !.stage = progress, !.active = r]
<1>4. /\ new \in Task /\ new.status = tasks[t].status /\ new.active = r /\ new.stage = progress
      /\ new.board = tasks[t].board /\ new.team = tasks[t].team /\ new.owner = tasks[t].owner
      /\ new.helpers = tasks[t].helpers /\ new.strayed = tasks[t].strayed
  BY <1>0, <1>3 DEF Task
<1> HIDE DEF new
<1>5. /\ tasks' \in [Tasks -> Task] /\ tasks'[t] = new
      /\ \A u \in Tasks \ {t} : tasks'[u] = tasks[u]
  BY <1>0, <1>2, <1>4 DEF new
<1>6. /\ state'[r] = s /\ \A q \in Runs \ {r} : state'[q] = state[q]
      /\ owner'[r] = tasks[t].owner /\ \A q \in Runs \ {r} : owner'[q] = owner[q]
      /\ state' \in [Runs -> RunStates] /\ owner' \in [Runs -> Owners \cup {NoOwner}]
  BY <1>0, <1>1 DEF RunStates, Pending, Live, Task
<1>7. Links' /\ link' \in [Runs -> [task : Tasks \cup {NoTask}, attempt : Nat]]
  <2>1. \A u \in Tasks : /\ tasks'[u].status = tasks[u].status
                         /\ tasks'[u].active = IF u = t THEN r ELSE tasks[u].active
    BY <1>4, <1>5
  <2> QED
    BY <1>1, <2>1, StartLinks
<1>8. ASSUME c # NoDraft
      PROVE  /\ c \in Clients /\ drafts[c].task = t /\ drafts[c].copy \in Task
             /\ Matches(drafts[c].copy, tasks[t])
             /\ drafts'[c] = [task |-> t, copy |-> [drafts[c].copy EXCEPT !.stage = progress]]
             /\ drafts'[c] \in Draft
             /\ [drafts[c].copy EXCEPT !.stage = progress] \in Task
             /\ Matches([drafts[c].copy EXCEPT !.stage = progress], new)
  <2>1. c \in Clients /\ drafts[c] # NoDraft /\ drafts[c].task = t /\ drafts[c] \in Draft
    BY <1>0, <1>1, <1>8
  <2>2. drafts[c].copy \in Task /\ Matches(drafts[c].copy, tasks[t])
    BY <1>0, <2>1, Drafted
  <2>3. drafts'[c] = [drafts[c] EXCEPT !.copy.stage = progress]
    BY <1>2, <2>1
  <2>4. drafts'[c] = [drafts[c] EXCEPT !.copy = [drafts[c].copy EXCEPT !.stage = progress]]
    BY <2>3
  <2>5. [drafts[c].copy EXCEPT !.stage = progress] \in Task
    BY <1>3, <2>2, CardTypes
  <2>6. /\ drafts'[c] = [task |-> t, copy |-> [drafts[c].copy EXCEPT !.stage = progress]]
        /\ drafts'[c] \in Draft
    BY <2>1, <2>4, <2>5 DEF Draft
  <2>7. Matches([drafts[c].copy EXCEPT !.stage = progress], new)
    BY <1>4, <2>2 DEF Matches, Task
  <2> QED
    BY <2>1, <2>2, <2>5, <2>6, <2>7
<1>9. ASSUME NEW d \in Clients, d # c
      PROVE  drafts'[d] \in {NoDraft, drafts[d]} /\ (drafts'[d] # NoDraft => drafts[d].task # t)
  BY <1>2, <1>9
<1>10. drafts' \in [Clients -> Draft \cup {NoDraft}]
  <2>1. \A d \in Clients : drafts'[d] \in Draft \cup {NoDraft}
    BY <1>0, <1>8, <1>9, BoardAssumption
  <2> QED
    BY <1>2, <2>1
<1>11. TypeOK'
  <2>1. executing' \subseteq Runs
    BY <1>0, <1>1 DEF TypeOK
  <2> QED
    BY <1>0, <1>1, <1>5, <1>6, <1>7, <1>10, <2>1 DEF TypeOK
<1>12. OnBoards' /\ ReviewKept'
  <2>1. OnBoards'
    BY <1>1, <1>4, <1>5 DEF IInv, OnBoards, Exists, BoardExists
  <2>2. ReviewKept'
    BY <1>1, Zenon DEF IInv, ReviewKept, BoardExists, InCategory, StagesOf
  <2> QED
    BY <2>1, <2>2
<1>13. Begun'
  <2>1. \A q \in executing : q \in Runs /\ q # r /\ state[q] \notin {"absent", "queued"}
    BY <1>0, <1>1 DEF IInv, Begun, TypeOK
  <2> QED
    BY <1>1, <1>6, <2>1 DEF Begun
<1>14. \A u \in Tasks \ {t} : tasks[u].active # r /\ tasks[u].active \in Runs \cup {NoRun}
  BY <1>0, <1>1, AbsentIsFree DEF Task
<1>15. NoStaleLink'
  BY <1>4, <1>5, <1>6, <1>14 DEF IInv, NoStaleLink, Pending, Live
<1>16. TeamScoped'
  BY <1>1, <1>4, <1>5 DEF IInv, TeamScoped, Belongs
<1>17. DraftIsCurrent'
  <2> SUFFICES ASSUME NEW d \in Clients, drafts'[d] # NoDraft
               PROVE  /\ tasks'[drafts'[d].task].status \in Kept
                      /\ LET copy == drafts'[d].copy  now == tasks'[drafts'[d].task] IN
                         Scope([copy EXCEPT !.helpers = copy.helpers \ {copy.owner}])
                           = Scope([now EXCEPT !.helpers = now.helpers \ {now.owner}])
    BY DEF DraftIsCurrent, Exists
  <2>1. CASE d = c
    <3>1. c # NoDraft
      BY <2>1, BoardAssumption
    <3>2. drafts'[d].task = t /\ drafts'[d].copy = [drafts[c].copy EXCEPT !.stage = progress]
      BY <1>8, <2>1, <3>1
    <3> DEFINE copy == [drafts[c].copy EXCEPT !.stage = progress]
    <3>3. copy \in Task /\ Matches(copy, new)
      BY <1>8, <3>1
    <3> HIDE DEF copy
    <3>4. Scope([copy EXCEPT !.helpers = copy.helpers \ {copy.owner}])
            = Scope([new EXCEPT !.helpers = new.helpers \ {new.owner}])
      BY <1>4, <3>3, CurrentIs
    <3>5. drafts'[d].task = t /\ drafts'[d].copy = copy
      BY <3>2 DEF copy
    <3> QED
      BY <1>1, <1>4, <1>5, <3>4, <3>5 DEF Exists
  <2>2. CASE d # c
    <3>1. drafts'[d] = drafts[d] /\ drafts[d].task # t
      BY <1>9, <2>2
    <3>2. /\ drafts[d].task \in Tasks /\ drafts[d].copy \in Task
          /\ Exists(drafts[d].task) /\ Matches(drafts[d].copy, tasks[drafts[d].task])
      BY <1>0, <3>1, Drafted
    <3>3. tasks'[drafts[d].task] = tasks[drafts[d].task] /\ tasks[drafts[d].task] \in Task
      BY <1>0, <1>5, <3>1, <3>2
    <3> QED
      BY <3>1, <3>2, <3>3, CurrentIs DEF Exists
  <2> QED
    BY <2>1, <2>2
<1>18. ASSUME NoneRevived PROVE OwnerExecutes'
  <2> SUFFICES ASSUME NEW u \in Tasks, Busy(u)'
               PROVE  /\ owner'[tasks'[u].active] = tasks'[u].owner
                      /\ (tasks[u].stage \in StagesOf(tasks[u].board))'
    BY DEF OwnerExecutes
  <2>1. CASE u = t
    BY <1>1, <1>3, <1>4, <1>5, <1>6, <2>1 DEF StagesOf
  <2>2. CASE u # t
    <3>1. tasks'[u] = tasks[u] /\ Busy(u) /\ owner'[tasks[u].active] = owner[tasks[u].active]
      BY <1>5, <1>6, <1>14, <2>2 DEF Busy
    <3>2. owner[tasks[u].active] = tasks[u].owner /\ tasks[u].stage \in StagesOf(tasks[u].board)
      BY <1>18, <3>1 DEF IInv, OwnerExecutes
    <3> QED
      BY <1>1, <3>1, <3>2 DEF StagesOf
  <2> QED
    BY <2>1, <2>2
<1> QED
  BY <1>7, <1>11, <1>12, <1>13, <1>15, <1>16, <1>17, <1>18 DEF IInv

(* syncRun() takes a card from its run, and then bumps its revision, or    *)
(* leaves it alone; it does the former when a run of the card has ended,   *)
(* if the board has a stage for completed work.                            *)
LEMMA SyncsAre ==
  ASSUME IInv, NEW rs, SyncRuns(state', rs)
  PROVE  /\ tasks' \in [Tasks -> Task] /\ drafts' \in [Clients -> Draft \cup {NoDraft}]
         /\ TypeOK' => DraftIsCurrent'
         /\ \A t \in Tasks :
              \/ tasks'[t] = tasks[t]
              \/ /\ tasks'[t].active = NoRun /\ tasks'[t].status = tasks[t].status
                 /\ tasks'[t].board = tasks[t].board /\ tasks'[t].team = tasks[t].team
                 /\ tasks'[t].owner = tasks[t].owner /\ tasks'[t].helpers = tasks[t].helpers
                 /\ tasks'[t].strayed = tasks[t].strayed
         /\ \A t \in Tasks :
              /\ \E r \in rs \cap Attempts(t) : state'[r] \in Ended
              /\ (\E r \in rs \cap Attempts(t) : state'[r] = "completed") =>
                   Exists(t) /\ "recategorise" \notin Requests
              => tasks'[t].active = NoRun
PROOF
<1> DEFINE ended(t)     == \E r \in rs \cap Attempts(t) : state'[r] \in Ended
           completed(t) == \E r \in rs \cap Attempts(t) : state'[r] = "completed"
           Reviews == {f \in [Boards -> Stages \cup {NoStage}] : \A b \in Boards : f[b] \in DoneStage(b)}
           synced(review) == {t \in Tasks : ended(t) /\ (completed(t) => review[tasks[t].board] # NoStage)}
           after(review, t) == [tasks[t] EXCEPT
                    !.active = NoRun,
                    !.stage = IF completed(t) THEN review[tasks[t].board] ELSE tasks[t].stage]
<1>0. tasks \in [Tasks -> Task] /\ \A t \in Tasks : tasks[t].board \in Boards /\ tasks[t].stage \in Stages
  BY DEF IInv, TypeOK, Task
<1>1. PICK review \in Reviews :
        /\ tasks' = [t \in Tasks |-> IF t \notin synced(review) THEN tasks[t] ELSE after(review, t)]
        /\ Bump(synced(review))
  BY Zenon DEF SyncRuns
<1>2. /\ review \in [Boards -> Stages \cup {NoStage}]
      /\ \A b \in Boards : review[b] \in DoneStage(b)
  OBVIOUS
<1> HIDE DEF ended, completed
<1>3. ASSUME NEW t \in synced(review)
      PROVE  /\ t \in Tasks /\ after(review, t) \in Task /\ after(review, t).active = NoRun
             /\ after(review, t).status = tasks[t].status
             /\ after(review, t).board = tasks[t].board /\ after(review, t).team = tasks[t].team
             /\ after(review, t).owner = tasks[t].owner /\ after(review, t).helpers = tasks[t].helpers
             /\ after(review, t).strayed = tasks[t].strayed
  <2> DEFINE s == IF completed(t) THEN review[tasks[t].board] ELSE tasks[t].stage
  <2>1. s \in Stages
    BY <1>0, <1>2
  <2>2. after(review, t) = [tasks[t] EXCEPT !.active = NoRun, !.stage = s]
    OBVIOUS
  <2>3. t \in Tasks /\ tasks[t] \in Task
    BY <1>0
  <2> HIDE DEF s, after, synced
  <2> DEFINE c == tasks[t]
             d == [c EXCEPT !.active = NoRun, !.stage = s]
  <2>4. /\ d \in Task /\ d.active = NoRun /\ d.status = c.status /\ d.board = c.board
        /\ d.team = c.team /\ d.owner = c.owner /\ d.helpers = c.helpers /\ d.strayed = c.strayed
    <3> HIDE DEF c
    <3>1. c \in Task
      BY <2>3 DEF c
    <3> QED
      BY <2>1, <3>1 DEF Task
  <2> QED
    BY <2>2, <2>3, <2>4
<1> HIDE DEF after
<1>4. \A t \in Tasks : tasks'[t] = IF t \in synced(review) THEN after(review, t) ELSE tasks[t]
  BY <1>1
<1>5. tasks' \in [Tasks -> Task]
  BY <1>0, <1>1, <1>3
<1>6. ASSUME NEW t \in Tasks, ended(t), completed(t) => Exists(t) /\ "recategorise" \notin Requests
      PROVE  t \in synced(review)
  <2> SUFFICES ASSUME completed(t) PROVE review[tasks[t].board] # NoStage
    BY <1>6
  <2>1. tasks[t].board \in Boards /\ InCategory(tasks[t].board, "review") # {}
    BY <1>0, <1>6 DEF IInv, OnBoards, ReviewKept
  <2>2. review[tasks[t].board] \in StagesOf(tasks[t].board)
    BY <1>2, <2>1, SettingsNameStages DEF DoneStage
  <2> QED
    BY <2>2, BoardAssumption DEF StagesOf
<1> HIDE DEF synced
<1>7. /\ drafts' \in [Clients -> Draft \cup {NoDraft}]
      /\ TypeOK' => DraftIsCurrent'
  BY <1>1, <1>4, BumpKeepsDrafts
<1>8. \A t \in Tasks :
        \/ tasks'[t] = tasks[t]
        \/ /\ tasks'[t].active = NoRun /\ tasks'[t].status = tasks[t].status
           /\ tasks'[t].board = tasks[t].board /\ tasks'[t].team = tasks[t].team
           /\ tasks'[t].owner = tasks[t].owner /\ tasks'[t].helpers = tasks[t].helpers
           /\ tasks'[t].strayed = tasks[t].strayed
  BY <1>3, <1>4
<1>9. \A t \in Tasks :
        /\ \E r \in rs \cap Attempts(t) : state'[r] \in Ended
        /\ (\E r \in rs \cap Attempts(t) : state'[r] = "completed") =>
             Exists(t) /\ "recategorise" \notin Requests
        => tasks'[t].active = NoRun
  BY <1>3, <1>4, <1>6 DEF ended, completed
<1> QED
  BY <1>5, <1>7, <1>8, <1>9

(* A step of runs keeps the invariant if every card whose run is no longer *)
(* pending loses it.                                                       *)
LEMMA RunsKeep ==
  ASSUME IInv, UNCHANGED <<owner, boards, link, teams>>,
         state' \in [Runs -> RunStates], executing' \subseteq Runs, Begun',
         \A r \in Runs : /\ state'[r] = "absent" => state[r] = "absent"
                         /\ state[r] = "completed" /\ ~ Revises => state'[r] = "completed",
         tasks' \in [Tasks -> Task], drafts' \in [Clients -> Draft \cup {NoDraft}],
         TypeOK' => DraftIsCurrent',
         \A t \in Tasks :
           \/ tasks'[t] = tasks[t]
           \/ /\ tasks'[t].active = NoRun /\ tasks'[t].status = tasks[t].status
              /\ tasks'[t].board = tasks[t].board /\ tasks'[t].team = tasks[t].team
              /\ tasks'[t].owner = tasks[t].owner /\ tasks'[t].helpers = tasks[t].helpers
              /\ tasks'[t].strayed = tasks[t].strayed,
         NoStaleLink'
  PROVE  IInv'
PROOF
<1>0. /\ owner' = owner /\ boards' = boards /\ link' = link /\ teams' = teams
      /\ TypeOK /\ tasks \in [Tasks -> Task]
  BY DEF IInv, TypeOK
<1>1. TypeOK'
  BY <1>0 DEF TypeOK
<1>2. Links'
  <2>1. \A t \in Tasks : /\ tasks'[t].active \in {NoRun, tasks[t].active}
                         /\ tasks'[t].status \in Kept \/ tasks'[t].active = NoRun
    BY DEF IInv, Links, GoneUnlinked, Exists
  <2> QED
    BY <1>0, <2>1, LinksKeep DEF IInv
<1>3. \A t \in Tasks : /\ tasks'[t].status = tasks[t].status /\ tasks'[t].board = tasks[t].board
                       /\ tasks'[t].team = tasks[t].team /\ tasks'[t].owner = tasks[t].owner
                       /\ tasks'[t].helpers = tasks[t].helpers /\ tasks'[t].strayed = tasks[t].strayed
  OBVIOUS
<1>4. OnBoards' /\ TeamScoped'
  <2>1. OnBoards'
    BY <1>0, <1>3 DEF IInv, OnBoards, Exists, BoardExists
  <2>2. TeamScoped'
    <3> SUFFICES ASSUME NEW t \in Tasks, tasks'[t].status = "open", tasks'[t].team # NoTeam
                 PROVE  /\ teams[tasks'[t].team].status = "active"
                        /\ Belongs(tasks'[t], teams[tasks'[t].team].members)
      BY <1>0 DEF TeamScoped
    <3> QED
      BY <1>3 DEF IInv, TeamScoped, Belongs
  <2> QED
    BY <2>1, <2>2
<1>5. ReviewKept'
  BY <1>0, ZenonT(40) DEF IInv, ReviewKept, BoardExists, InCategory, StagesOf
<1>6. ASSUME NoneRevived PROVE OwnerExecutes'
  <2> SUFFICES ASSUME NEW t \in Tasks, Busy(t)'
               PROVE  /\ owner'[tasks'[t].active] = tasks'[t].owner
                      /\ (tasks[t].stage \in StagesOf(tasks[t].board))'
    BY DEF OwnerExecutes
  <2>1. tasks'[t] = tasks[t] /\ tasks[t].active # NoRun /\ tasks[t].active \in Runs
    BY <1>0 DEF Busy, Task
  <2>2. state[tasks[t].active] # "completed" \/ "recategorise" \in Requests
    BY <2>1 DEF IInv, NoStaleLink, Pending, Live
  <2>3. state'[tasks[t].active] # "completed"
    BY <2>1 DEF Busy, Pending, Live
  <2>4. Busy(t)
    BY <1>6, <2>1, <2>2, <2>3 DEF NoneRevived, IInv, NoStaleLink, Busy
  <2>5. owner[tasks[t].active] = tasks[t].owner /\ tasks[t].stage \in StagesOf(tasks[t].board)
    BY <1>6, <2>4 DEF IInv, OwnerExecutes
  <2> QED
    BY <1>0, <2>1, <2>5 DEF StagesOf
<1> QED
  BY <1>1, <1>2, <1>4, <1>5, <1>6 DEF IInv

(* setRun(): the one run that ends takes its card along.                   *)
LEMMA SetRunKeeps ==
  ASSUME IInv, NEW r \in Runs, NEW s \in Live \cup Ended, SetRun(r, s),
         state[r] # "absent", state[r] = "completed" => s = "completed" \/ Revises,
         executing' \subseteq executing \cup {r}
  PROVE  IInv'
PROOF
<1>0. /\ state \in [Runs -> RunStates] /\ executing \subseteq Runs /\ tasks \in [Tasks -> Task]
  BY DEF IInv, TypeOK
<1>1. /\ state' = [state EXCEPT ![r] = s] /\ SyncRuns(state', {r})
      /\ UNCHANGED <<owner, boards, link, teams>>
  BY DEF SetRun
<1>2. /\ tasks' \in [Tasks -> Task] /\ drafts' \in [Clients -> Draft \cup {NoDraft}]
      /\ TypeOK' => DraftIsCurrent'
      /\ \A t \in Tasks :
           \/ tasks'[t] = tasks[t]
           \/ /\ tasks'[t].active = NoRun /\ tasks'[t].status = tasks[t].status
              /\ tasks'[t].board = tasks[t].board /\ tasks'[t].team = tasks[t].team
              /\ tasks'[t].owner = tasks[t].owner /\ tasks'[t].helpers = tasks[t].helpers
           /\ tasks'[t].strayed = tasks[t].strayed
      /\ \A t \in Tasks :
           /\ \E q \in {r} \cap Attempts(t) : state'[q] \in Ended
           /\ (\E q \in {r} \cap Attempts(t) : state'[q] = "completed") =>
                Exists(t) /\ "recategorise" \notin Requests
           => tasks'[t].active = NoRun
  BY <1>1, SyncsAre
<1>3. /\ state' \in [Runs -> RunStates] /\ state'[r] = s
      /\ \A q \in Runs \ {r} : state'[q] = state[q]
  BY <1>0, <1>1 DEF RunStates, Pending
<1>4. s \notin {"absent", "queued"}
  BY DEF Live, Ended
<1>5. Begun'
  BY <1>0, <1>3, <1>4 DEF IInv, Begun
<1>6. NoStaleLink'
  <2> SUFFICES ASSUME NEW t \in Tasks, tasks'[t].active # NoRun
               PROVE  state'[tasks'[t].active] \in
                        Pending \cup (IF "recategorise" \in Requests THEN {"completed"} ELSE {})
    BY DEF NoStaleLink
  <2>1. /\ tasks'[t] = tasks[t] /\ tasks[t].active # NoRun /\ tasks[t].active \in Runs
        /\ link[tasks[t].active].task = t /\ Exists(t)
        /\ state[tasks[t].active] \in
             Pending \cup (IF "recategorise" \in Requests THEN {"completed"} ELSE {})
    BY <1>0, <1>2 DEF Task, IInv, Links, LinkIsNewest, GoneUnlinked, NoStaleLink
  <2>2. CASE tasks[t].active # r
    BY <1>3, <2>1, <2>2
  <2>3. CASE tasks[t].active = r /\ s \in Live
    BY <1>3, <2>1, <2>3 DEF Pending
  <2>4. CASE tasks[t].active = r /\ s \in Ended
    <3>1. {r} \cap Attempts(t) = {r}
      BY <2>1, <2>4 DEF Attempts
    <3>2. s = "completed" /\ "recategorise" \in Requests
      BY <1>2, <1>3, <2>1, <2>4, <3>1
    <3> QED
      BY <1>3, <2>1, <2>4, <3>2
  <2> QED
    BY <2>2, <2>3, <2>4
<1>7. \A q \in Runs : /\ state'[q] = "absent" => state[q] = "absent"
                      /\ state[q] = "completed" /\ ~ Revises => state'[q] = "completed"
  BY <1>3, <1>4
<1>8. executing' \subseteq Runs
  BY <1>0
<1> QED
  BY <1>1, <1>2, <1>3, <1>5, <1>6, <1>7, <1>8, RunsKeep

(* What the coordinator does with one run.                                 *)
LEMMA RunStepsKeep ==
  ASSUME IInv, NEW r \in Runs, RunSteps(r)
  PROVE  IInv'
PROOF
<1>1. CASE Admit(r)
  BY <1>1, SetRunKeeps DEF Admit, Live
<1>2. CASE Stop(r)
  BY <1>2, SetRunKeeps DEF Stop, Pending, Live, Ended
<1>3. CASE StopFails(r)
  BY <1>3, SetRunKeeps DEF StopFails, Ended
<1>4. ASSUME NEW s \in Live, AsksOrAnswers(r, s) PROVE IInv'
  BY <1>4, SetRunKeeps DEF AsksOrAnswers, Live, Ended
<1>5. ASSUME NEW outcome \in Outcomes, CoroutineEnds(r, outcome) PROVE IInv'
  <2>1. /\ r \in executing /\ state[r] # "absent" /\ executing' = executing \ {r}
        /\ state[r] \in Live \cup {"cancelled"} \/ Revises
    BY <1>5 DEF CoroutineEnds, IInv, Begun
  <2>2. CASE UNCHANGED <<service, boards, tasks, link, teams, drafts>>
    <3>1. /\ state' = state /\ owner' = owner /\ boards' = boards /\ tasks' = tasks /\ link' = link
          /\ teams' = teams /\ drafts' = drafts
      BY <2>2 DEF service
    <3>2. executing' \subseteq Runs /\ Begun'
      BY <2>1, <3>1 DEF IInv, TypeOK, Begun
    <3>3. /\ state \in [Runs -> RunStates] /\ tasks \in [Tasks -> Task]
          /\ drafts \in [Clients -> Draft \cup {NoDraft}]
      BY DEF IInv, TypeOK
    <3>4. NoStaleLink' /\ DraftIsCurrent'
      BY <3>1, Zenon DEF IInv, NoStaleLink, DraftIsCurrent, Exists
    <3> QED
      BY <3>1, <3>2, <3>3, <3>4, RunsKeep
  <2>3. CASE SetRun(r, IF state[r] = "cancelled" THEN "cancelled" ELSE outcome)
    <3>1. /\ (IF state[r] = "cancelled" THEN "cancelled" ELSE outcome) \in Live \cup Ended
          /\ state[r] = "completed" => Revises
      BY <2>1 DEF Outcomes, Ended, Live
    <3> QED
      BY <2>1, <2>3, <3>1, SetRunKeeps
  <2> QED
    BY <1>5, <2>2, <2>3 DEF CoroutineEnds
<1> QED
  BY <1>1, <1>2, <1>3, <1>4, <1>5 DEF RunSteps

(* A restart ends every run a card is linked to, and reconcile() takes the *)
(* cards from them.                                                        *)
LEMMA RestartKeeps ==
  ASSUME IInv, Restart
  PROVE  IInv'
PROOF
<1>0. /\ state \in [Runs -> RunStates] /\ executing \subseteq Runs /\ tasks \in [Tasks -> Task]
  BY DEF IInv, TypeOK
<1>1. PICK st \in {state} \cup {[state EXCEPT ![r] = s] : r \in {q \in executing : state[q] \in Live}, s \in Ended} :
        state' = [r \in Runs |-> AfterRestart(st, r)]
  BY DEF Restart
<1>2. \A r \in Runs : st[r] = state[r] \/ (state[r] \in Live /\ st[r] \in Ended)
  BY <1>0, <1>1
<1>3. \A r \in Runs : state'[r] = IF st[r] \in Live \/ (st[r] = "queued" /\ link[r].task # NoTask)
                                 THEN "failed" ELSE st[r]
  BY <1>1 DEF AfterRestart
<1>4. \A r \in Runs : state'[r] \in RunStates
  BY <1>0, <1>2, <1>3 DEF RunStates, Ended
<1>5. state' \in [Runs -> RunStates]
  BY <1>1, <1>4
<1> DEFINE rs == {tasks[t].active : t \in Tasks} \ {NoRun}
<1>6. /\ SyncRuns(state', rs) /\ executing' = {} /\ UNCHANGED <<owner, boards, link, teams>>
  BY DEF Restart, Reconcile
<1>7. /\ tasks' \in [Tasks -> Task] /\ drafts' \in [Clients -> Draft \cup {NoDraft}]
      /\ TypeOK' => DraftIsCurrent'
      /\ \A t \in Tasks :
           \/ tasks'[t] = tasks[t]
           \/ /\ tasks'[t].active = NoRun /\ tasks'[t].status = tasks[t].status
              /\ tasks'[t].board = tasks[t].board /\ tasks'[t].team = tasks[t].team
              /\ tasks'[t].owner = tasks[t].owner /\ tasks'[t].helpers = tasks[t].helpers
           /\ tasks'[t].strayed = tasks[t].strayed
      /\ \A t \in Tasks :
           /\ \E q \in rs \cap Attempts(t) : state'[q] \in Ended
           /\ (\E q \in rs \cap Attempts(t) : state'[q] = "completed") =>
                Exists(t) /\ "recategorise" \notin Requests
           => tasks'[t].active = NoRun
  <2> HIDE DEF rs
  <2> QED
    BY <1>6, SyncsAre
<1>8. Begun' /\ executing' \subseteq Runs
  BY <1>6 DEF Begun
<1>9. \A r \in Runs : /\ state'[r] = "absent" => state[r] = "absent"
                      /\ state[r] = "completed" => state'[r] = "completed"
  BY <1>2, <1>3 DEF Live, Ended
<1>10. NoStaleLink'
  <2> SUFFICES ASSUME NEW t \in Tasks, tasks'[t].active # NoRun
               PROVE  state'[tasks'[t].active] \in
                        Pending \cup (IF "recategorise" \in Requests THEN {"completed"} ELSE {})
    BY DEF NoStaleLink
  <2> DEFINE r == tasks[t].active
  <2>1. /\ tasks'[t] = tasks[t] /\ r # NoRun /\ r \in Runs /\ link[r].task = t /\ Exists(t)
        /\ state[r] \in Pending \cup {"completed"}
    BY <1>0, <1>7 DEF Task, IInv, Links, LinkIsNewest, GoneUnlinked, NoStaleLink
  <2>2. state'[r] \in Ended
    BY <1>2, <1>3, <2>1, BoardAssumption DEF Pending, Live, Ended
  <2>3. rs \cap Attempts(t) = {r}
    <3>1. \A u \in Tasks : tasks[u].active # NoRun => link[tasks[u].active].task = u
      BY DEF IInv, Links, LinkIsNewest
    <3> QED
      BY <2>1, <3>1 DEF Attempts
  <2> HIDE DEF rs
  <2>4. state'[r] = "completed" /\ "recategorise" \in Requests
    BY <1>7, <2>1, <2>2, <2>3
  <2> QED
    BY <2>1, <2>4
<1> QED
  BY <1>5, <1>6, <1>7, <1>8, <1>9, <1>10, RunsKeep

-----------------------------------------------------------------------------
(* Theorems.                                                               *)

(* The board starts empty, and no step breaks the invariant.               *)
LEMMA Starts == Init => IInv
PROOF
<1> SUFFICES ASSUME Init PROVE IInv
  OBVIOUS
<1>1. PICK b \in Boards : boards = [c \in Boards |-> IF c = b THEN NewBoard ELSE NoBoardYet]
  BY DEF Init
<1>2. /\ state = [r \in Runs |-> "absent"] /\ owner = [r \in Runs |-> NoOwner]
      /\ link = [r \in Runs |-> [task |-> NoTask, attempt |-> 0]]
      /\ teams = [m \in Teams |-> [status |-> "absent", members |-> {}]]
      /\ executing = {} /\ drafts = [c \in Clients |-> NoDraft]
  BY DEF Init, ServiceInit
<1>3. PICK c \in Boards :
        tasks = [t \in Tasks |->
                   [status |-> "absent", board |-> c, stage |-> 1, team |-> NoTeam,
                    owner |-> NoOwner, helpers |-> {}, ticked |-> FALSE, active |-> NoRun,
                    strayed |-> FALSE]]
  BY DEF Init
<1>4. NoBoardYet \in Board /\ NoBoardYet.status = "absent"
  <2>1. [s \in Stages |-> "absent"] \in [Stages -> Categories \cup {"absent", "removed"}]
    OBVIOUS
  <2>2. /\ NoBoardYet = [NewBoard EXCEPT !.status = "absent", !.stage = [s \in Stages |-> "absent"]]
        /\ NewBoard \in Board
    BY NewBoardParts DEF NoBoardYet
  <2> QED
    BY <2>1, <2>2 DEF Board
<1>5. boards \in [Boards -> Board]
  BY <1>1, <1>4, NewBoardParts
<1>6. \A t \in Tasks : /\ tasks[t] \in Task /\ tasks[t].status = "absent" /\ tasks[t].active = NoRun
  BY <1>3, BoardAssumption DEF Task
<1>7. tasks \in [Tasks -> Task]
  BY <1>3, <1>6
<1>8. TypeOK
  BY <1>2, <1>5, <1>7 DEF TypeOK, RunStates, Team
<1>9. Links
  <2>1. \A t \in Tasks : Attempts(t) = {}
    BY <1>2, BoardAssumption DEF Attempts
  <2>2. Numbered
    BY <2>1, FS_EmptySet DEF Numbered
  <2> QED
    BY <1>2, <1>6, <2>2 DEF Links, RowsFirst, GoneUnlinked, LinkIsNewest
<1>10. OnBoards /\ NoStaleLink /\ TeamScoped /\ OwnerExecutes
  BY <1>6 DEF OnBoards, NoStaleLink, TeamScoped, OwnerExecutes, Exists, Kept, Busy
<1>11. ReviewKept
  BY <1>1, <1>4, NewBoardParts DEF ReviewKept, BoardExists, Kept, InCategory, StagesOf, Categories
<1>12. Begun /\ DraftIsCurrent
  BY <1>2 DEF Begun, DraftIsCurrent
<1> QED
  BY <1>8, <1>9, <1>10, <1>11, <1>12 DEF IInv

(* Every step of the board keeps the invariant.                            *)
LEMMA Keeps == IInv /\ [Next]_vars => IInv'
PROOF
<1> SUFFICES ASSUME IInv, [Next]_vars PROVE IInv'
  OBVIOUS
<1>1. CASE BoardSteps
  <2> SUFFICES ASSUME NEW b \in Boards, NEW c \in Boards,
                      \/ CreateBoard(b) \/ DeleteBoard(b)
                      \/ DuplicateBoard(b, c, {}) \/ DuplicateBoard(b, c, OnBoard(b))
               PROVE  IInv'
    BY <1>1 DEF BoardSteps
  <2> QED
    BY BoardStepsKeep, DeletionsKeep, DuplicateKeeps
<1>2. CASE SettingSteps
  BY <1>2, BoardStepsKeep, Zenon DEF SettingSteps
<1>3. CASE StageSteps
  <2>1. PICK b \in Boards, s \in Stages :
           \/ \E category \in NewCategories : AddStage(b, s, category)
           \/ \E target \in Stages : RemoveStage(b, s, target)
    BY <1>3 DEF StageSteps
  <2> QED
    BY <2>1, BoardStepsKeep, RemoveStageKeeps
<1>4. CASE "recategorise" \in Requests /\ Recategorise
  BY <1>4, BoardStepsKeep DEF Recategorise
<1>5. CASE TeamSteps
  BY <1>5, TeamStepsKeep DEF TeamSteps
<1>6. CASE CardSteps
  BY <1>6, CardStepsKeep, DeletionsKeep DEF CardSteps
<1>7. CASE \E t \in Tasks, s \in Stages, o \in Owners \cup {NoOwner}, m \in Teams \cup {NoTeam} :
             Move(t, s, o, m)
  BY <1>7, CardStepsKeep
<1>8. CASE \E t \in Tasks, ticked \in BOOLEAN : Check(t, ticked)
  BY <1>8, CardStepsKeep
<1>9. CASE DrawerSteps
  BY <1>9, DrawerStepsKeep DEF DrawerSteps
<1>10. CASE \E t \in Tasks, r \in Runs, s \in {"queued", "running"}, c \in Clients \cup {NoDraft} :
              Start(t, r, s, c)
  BY <1>10, StartKeeps
<1>11. CASE \E r \in Runs : RunSteps(r)
  BY <1>11, RunStepsKeep
<1>12. CASE Restart
  BY <1>12, RestartKeeps
<1>13. CASE UNCHANGED vars
  <2>1. /\ state' = state /\ owner' = owner /\ boards' = boards /\ tasks' = tasks /\ link' = link
        /\ teams' = teams /\ executing' = executing /\ drafts' = drafts
    BY <1>13 DEF vars, service, board
  <2>2. NoStaleLink' /\ DraftIsCurrent' /\ Begun'
    BY <2>1, Zenon DEF IInv, NoStaleLink, DraftIsCurrent, Exists, Begun
  <2>3. /\ state \in [Runs -> RunStates] /\ tasks \in [Tasks -> Task] /\ executing \subseteq Runs
        /\ drafts \in [Clients -> Draft \cup {NoDraft}]
    BY DEF IInv, TypeOK
  <2> QED
    BY <2>1, <2>2, <2>3, RunsKeep
<1> QED
  BY <1>1, <1>2, <1>3, <1>4, <1>5, <1>6, <1>7, <1>8, <1>9, <1>10, <1>11, <1>12, <1>13 DEF Next

(* What a step leaves of a card whose run is pending and stays.            *)
Fixed(t) ==
  /\ tasks'[t].board = tasks[t].board /\ tasks'[t].team = tasks[t].team
  /\ tasks'[t].owner = tasks[t].owner /\ tasks'[t].helpers = tasks[t].helpers
  /\ tasks'[t].status = tasks[t].status

(* The requests that change cards leave that of a busy card.               *)
LEMMA RequestsRespectLocks ==
  ASSUME IInv, NEW u \in Tasks, Busy(u),
         \/ BoardSteps \/ StageSteps \/ CardSteps \/ DrawerSteps
         \/ \E t \in Tasks, s \in Stages, o \in Owners \cup {NoOwner}, m \in Teams \cup {NoTeam} :
              Move(t, s, o, m)
         \/ \E t \in Tasks, ticked \in BOOLEAN : Check(t, ticked)
         \/ \E t \in Tasks, r \in Runs, s \in {"queued", "running"}, c \in Clients \cup {NoDraft} :
              Start(t, r, s, c)
  PROVE  Fixed(u)
PROOF
<1>0. /\ tasks \in [Tasks -> Task] /\ tasks[u] \in Task /\ tasks[u].active # NoRun /\ Exists(u)
      /\ TypeOK /\ DraftIsCurrent
  BY DEF IInv, TypeOK, Busy, Links, GoneUnlinked
<1>1. ASSUME tasks'[u] = tasks[u] PROVE Fixed(u)
  BY <1>1 DEF Fixed
<1>2. ASSUME NEW t \in Tasks, NEW c, tasks' = [tasks EXCEPT ![t] = c], t = u => Scope(c) = Scope(tasks[u])
      PROVE  Fixed(u)
  <2>1. CASE t = u
    BY <1>0, <1>2, <2>1, ScopeIs DEF Fixed
  <2> QED
    BY <1>0, <1>1, <1>2, <2>1
<1>3. ASSUME NEW ts, Delete(ts), u \notin ts PROVE Fixed(u)
  BY <1>1, <1>3 DEF Delete
<1>4. CASE BoardSteps
  <2> SUFFICES ASSUME NEW b \in Boards, NEW c \in Boards,
                      \/ CreateBoard(b) \/ DeleteBoard(b)
                      \/ DuplicateBoard(b, c, {}) \/ DuplicateBoard(b, c, OnBoard(b))
               PROVE  Fixed(u)
    BY <1>4 DEF BoardSteps
  <2>1. CASE CreateBoard(b)
    BY <1>1, <2>1 DEF CreateBoard, OnlyBoards
  <2>2. CASE DeleteBoard(b)
    BY <1>3, <2>2 DEF DeleteBoard
  <2>3. ASSUME NEW ts, ts \subseteq OnBoard(b), DuplicateBoard(b, c, ts) PROVE Fixed(u)
    BY <1>0, <1>1, <2>3, CopiesAre DEF Exists, Kept
  <2> QED
    BY <2>1, <2>2, <2>3
<1>5. CASE StageSteps
  <2>1. PICK b \in Boards, s \in Stages :
           \/ \E category \in NewCategories : AddStage(b, s, category)
           \/ \E target \in Stages : RemoveStage(b, s, target)
    BY <1>5 DEF StageSteps
  <2>2. CASE \E category \in NewCategories : AddStage(b, s, category)
    BY <1>1, <2>2 DEF AddStage, OnlyBoards
  <2>3. ASSUME NEW target \in Stages, RemoveStage(b, s, target) PROVE Fixed(u)
    <3>1. tasks'[u] \in {tasks[u], [tasks[u] EXCEPT !.stage = target]}
      BY <2>3 DEF RemoveStage
    <3> QED
      BY <1>0, <3>1 DEF Fixed, Task
  <2> QED
    BY <2>1, <2>2, <2>3
<1>6. CASE CardSteps
  <2> SUFFICES ASSUME NEW t \in Tasks,
                      \/ Approve(t) \/ DeleteTask(t)
                      \/ \E c \in Edits(tasks[t]) : UpdateTask(t, c)
                      \/ \E b \in Boards, s \in Stages, m \in Teams \cup {NoTeam}, o \in Owners \cup {NoOwner},
                            helpers \in SUBSET Owners : CreateTask(t, b, s, m, o, helpers)
               PROVE  Fixed(u)
    BY <1>6 DEF CardSteps
  <2>1. CASE Approve(t)
    <3>1. PICK s : t # u /\ tasks' = [tasks EXCEPT ![t] = [tasks[t] EXCEPT !.stage = s]]
      BY <1>0, <2>1, Zenon DEF Approve
    <3> QED
      BY <1>2, <3>1
  <2>2. CASE DeleteTask(t)
    BY <1>0, <1>3, <2>2 DEF DeleteTask
  <2>3. ASSUME NEW c \in Edits(tasks[t]), UpdateTask(t, c) PROVE Fixed(u)
    <3> DEFINE d == [c EXCEPT !.strayed = FALSE]
    <3>1. MayUpdate(t, c) /\ tasks' = [tasks EXCEPT ![t] = d]
      BY <2>3, Zenon DEF UpdateTask
    <3>2. c \in Task
      BY <1>0, EditTypes
    <3>3. Scope(d) = Scope(c)
      BY <3>2 DEF Scope, Task
    <3> HIDE DEF d
    <3> QED
      BY <1>2, <3>1, <3>3 DEF MayUpdate
  <2>4. ASSUME NEW b \in Boards, NEW s \in Stages, NEW m \in Teams \cup {NoTeam},
               NEW o \in Owners \cup {NoOwner}, NEW helpers \in SUBSET Owners,
               CreateTask(t, b, s, m, o, helpers)
        PROVE  Fixed(u)
    <3>1. tasks[t].status = "absent"
          /\ tasks' = [tasks EXCEPT ![t] =
               [status |-> "open", board |-> b, stage |-> s, team |-> m, owner |-> o,
                helpers |-> helpers \ {o}, ticked |-> FALSE, active |-> NoRun, strayed |-> FALSE]]
      BY <2>4, Zenon DEF CreateTask
    <3>2. t # u
      BY <1>0, <3>1 DEF Exists, Kept
    <3> QED
      BY <1>2, <3>1, <3>2
  <2> QED
    BY <2>1, <2>2, <2>3, <2>4
<1>7. CASE DrawerSteps
  <2> SUFFICES ASSUME NEW c \in Clients,
                      \/ \E t \in Tasks : OpenTask(c, t)
                      \/ drafts[c] # NoDraft /\ \E edit : Save(c, edit)
               PROVE  Fixed(u)
    BY <1>7, Zenon DEF DrawerSteps
  <2>1. CASE \E t \in Tasks : OpenTask(c, t)
    BY <1>1, <2>1 DEF OpenTask
  <2>2. ASSUME drafts[c] # NoDraft, NEW edit, Save(c, edit) PROVE Fixed(u)
    <3> DEFINE t == drafts[c].task
               saved == [edit EXCEPT !.helpers = edit.helpers \ {edit.owner}, !.active = tasks[t].active,
                                     !.strayed = FALSE]
    <3>1. MayUpdate(t, saved) /\ tasks' = [tasks EXCEPT ![t] = saved]
      BY <2>2, Zenon DEF Save
    <3>2. t \in Tasks
      BY <1>0, <2>2, Drafted
    <3> HIDE DEF t, saved
    <3> QED
      BY <1>2, <3>1, <3>2 DEF MayUpdate
  <2> QED
    BY <2>1, <2>2
<1>8. ASSUME NEW t \in Tasks, NEW s \in Stages, NEW o \in Owners \cup {NoOwner},
             NEW m \in Teams \cup {NoTeam}, Move(t, s, o, m)
      PROVE  Fixed(u)
  <2>1. t # u /\ \E x : tasks' = [tasks EXCEPT ![t] = [tasks[t] EXCEPT !.stage = s, !.owner = o, !.strayed = x]]
    BY <1>8, Zenon DEF Move
  <2> QED
    BY <1>2, <2>1
<1>9. ASSUME NEW t \in Tasks, NEW ticked \in BOOLEAN, Check(t, ticked) PROVE Fixed(u)
  <2>1. tasks' = [tasks EXCEPT ![t] = [tasks[t] EXCEPT !.ticked = ticked]]
    BY <1>9, Zenon DEF Check
  <2>2. t = u => Scope([tasks[t] EXCEPT !.ticked = ticked]) = Scope(tasks[u])
    BY <1>0 DEF Scope, Task
  <2> QED
    BY <1>2, <2>1, <2>2
<1>10. ASSUME NEW t \in Tasks, NEW r \in Runs, NEW s \in {"queued", "running"},
              NEW c \in Clients \cup {NoDraft}, Start(t, r, s, c)
       PROVE  Fixed(u)
  <2>1. t # u
    BY <1>10 DEF Start
  <2>2. tasks'[u] = tasks[u]
    BY <1>0, <1>10, <2>1 DEF Start
  <2> QED
    BY <1>1, <2>2
<1> QED
  BY <1>4, <1>5, <1>6, <1>7, <1>8, <1>9, <1>10

(* Runs take cards from themselves, and change nothing else but the stage. *)
LEMMA RunsRespectLocks ==
  ASSUME IInv, NEW t \in Tasks, Restart \/ \E r \in Runs : RunSteps(r)
  PROVE  Fixed(t)
PROOF
<1>1. (\E rs : SyncRuns(state', rs)) \/ tasks' = tasks
  <2>1. CASE Restart
    <3>1. SyncRuns(state', {tasks[u].active : u \in Tasks} \ {NoRun})
      BY <2>1 DEF Restart, Reconcile
    <3> QED
      BY <3>1, Zenon
  <2>2. ASSUME NEW r \in Runs, NEW s, SetRun(r, s) PROVE \E rs : SyncRuns(state', rs)
    BY <2>2, Zenon DEF SetRun
  <2>3. ASSUME NEW r \in Runs, RunSteps(r) PROVE (\E s : SetRun(r, s)) \/ tasks' = tasks
    BY <2>3, Zenon DEF RunSteps, Admit, Stop, StopFails, AsksOrAnswers, CoroutineEnds
  <2> QED
    BY <2>1, <2>2, <2>3
<1>2. CASE tasks' = tasks
  BY <1>2 DEF Fixed
<1>3. CASE \E rs : SyncRuns(state', rs)
  BY <1>3, SyncsAre DEF Fixed
<1> QED
  BY <1>1, <1>2, <1>3

(* Every step leaves a busy card that keeps its run in its scope.          *)
LEMMA LocksHold ==
  ASSUME IInv, [Next]_vars, NEW t \in Tasks, Busy(t), tasks'[t].active = tasks[t].active
  PROVE  Scope([tasks'[t] EXCEPT !.stage = tasks[t].stage]) = Scope(tasks[t])
PROOF
<1>1. ASSUME SettingSteps \/ Recategorise \/ TeamSteps \/ UNCHANGED vars
      PROVE  Fixed(t)
  <2>1. CASE SettingSteps
    BY <2>1 DEF SettingSteps, UpdateBoard, OnlyBoards, Fixed
  <2>2. CASE Recategorise
    BY <2>2 DEF Recategorise, UpdateStage, OnlyBoards, Fixed
  <2>3. CASE TeamSteps
    BY <2>3 DEF TeamSteps, RetireTeam, CreateTeam, UpdateTeam, OnlyTeams, Fixed
  <2>4. CASE UNCHANGED vars
    BY <2>4 DEF vars, board, Fixed
  <2> QED
    BY <1>1, <2>1, <2>2, <2>3, <2>4
<1>2. Fixed(t)
  BY <1>1, RequestsRespectLocks, RunsRespectLocks DEF Next
<1>3. tasks'[t] \in Task
  BY Keeps DEF IInv, TypeOK
<1> QED
  BY <1>2, <1>3 DEF Scope, Fixed, Task

(* The runs of the board move as RunService says.                          *)
LEMMA Moves ==
  ASSUME IInv, [Next]_vars
  PROVE  [ServiceNext]_service
PROOF
<1>0. state \in [Runs -> RunStates] /\ owner \in [Runs -> Owners \cup {NoOwner}]
  BY DEF IInv, TypeOK
<1>1. CASE UNCHANGED service
  BY <1>1
<1>2. ASSUME NEW r \in Runs, NEW s, SetRun(r, s), MayMove(state[r], s),
             state[r] \in {"absent", "queued"} /\ s = "running" => Fits(state', owner', r),
             state[r] # "absent"
      PROVE  ServiceNext
  <2>1. /\ owner' = owner /\ state'[r] = s /\ \A q \in Runs \ {r} : state'[q] = state[q]
    BY <1>0, <1>2 DEF SetRun
  <2> SUFFICES ASSUME NEW q \in Runs
               PROVE  /\ MayMove(state[q], state'[q])
                      /\ owner'[q] = IF state[q] = "absent" THEN owner'[q] ELSE owner[q]
                      /\ state[q] = "absent" /\ state'[q] # "absent" => owner'[q] \in Owners
                      /\ state[q] \in {"absent", "queued"} /\ state'[q] = "running"
                           => Fits(state', owner', q)
    BY DEF ServiceNext
  <2>2. CASE q = r
    BY <1>2, <2>1, <2>2
  <2>3. CASE q # r
    BY <2>1, <2>3 DEF MayMove
  <2> QED
    BY <2>2, <2>3
<1>3. ASSUME NEW t \in Tasks, NEW r \in Runs, NEW s \in {"queued", "running"},
             NEW c \in Clients \cup {NoDraft}, Start(t, r, s, c)
      PROVE  ServiceNext
  <2>1. /\ state[r] = "absent" /\ state' = [state EXCEPT ![r] = s]
        /\ owner' = [owner EXCEPT ![r] = tasks[t].owner] /\ tasks[t].owner # NoOwner
        /\ s = "running" => Fits(state', owner', r)
    BY <1>3 DEF Start
  <2>2. /\ state'[r] = s /\ owner'[r] = tasks[t].owner /\ owner'[r] \in Owners
        /\ \A q \in Runs \ {r} : state'[q] = state[q] /\ owner'[q] = owner[q]
    BY <1>0, <2>1 DEF IInv, TypeOK, Task
  <2> SUFFICES ASSUME NEW q \in Runs
               PROVE  /\ MayMove(state[q], state'[q])
                      /\ owner'[q] = IF state[q] = "absent" THEN owner'[q] ELSE owner[q]
                      /\ state[q] = "absent" /\ state'[q] # "absent" => owner'[q] \in Owners
                      /\ state[q] \in {"absent", "queued"} /\ state'[q] = "running"
                           => Fits(state', owner', q)
    BY DEF ServiceNext
  <2>3. CASE q = r
    BY <2>1, <2>2, <2>3 DEF MayMove
  <2>4. CASE q # r
    BY <2>2, <2>4 DEF MayMove
  <2> QED
    BY <2>3, <2>4
<1>4. ASSUME NEW r \in Runs, RunSteps(r) PROVE [ServiceNext]_service
  <2>1. CASE Admit(r)
    <3>1. owner' = owner
      BY <2>1 DEF Admit, SetRun
    <3> QED
      BY <1>2, <2>1, <3>1 DEF Admit, MayMove
  <2>2. CASE Stop(r)
    BY <1>2, <2>2 DEF Stop, MayMove, Pending, Live, Ended
  <2>3. CASE StopFails(r)
    BY <1>2, <2>3 DEF StopFails, MayMove, Ended
  <2>4. ASSUME NEW s \in Live, AsksOrAnswers(r, s) PROVE ServiceNext
    BY <1>2, <2>4 DEF AsksOrAnswers, MayMove, Live, Ended
  <2>5. ASSUME NEW outcome \in Outcomes, CoroutineEnds(r, outcome) PROVE [ServiceNext]_service
    <3>1. /\ state[r] \notin {"absent", "queued"} /\ state[r] \in RunStates
          /\ state[r] \in Live \cup {"cancelled"} \/ Revises
      BY <1>0, <2>5 DEF CoroutineEnds, IInv, Begun
    <3>2. CASE UNCHANGED service
      BY <1>1, <3>2
    <3>3. CASE SetRun(r, IF state[r] = "cancelled" THEN "cancelled" ELSE outcome)
      BY <1>2, <3>1, <3>3 DEF MayMove, Outcomes, RunStates, Pending, Live, Ended
    <3> QED
      BY <2>5, <3>2, <3>3 DEF CoroutineEnds
  <2> QED
    BY <1>4, <2>1, <2>2, <2>3, <2>4, <2>5 DEF RunSteps
<1>5. CASE Restart
  <2>1. PICK st \in {state} \cup {[state EXCEPT ![r] = s] : r \in {q \in executing : state[q] \in Live}, s \in Ended} :
          state' = [r \in Runs |-> AfterRestart(st, r)]
    BY <1>5 DEF Restart
  <2>2. \A r \in Runs : st[r] = state[r] \/ (state[r] \in Live /\ st[r] \in Ended)
    BY <1>0, <2>1 DEF IInv, TypeOK
  <2>3. /\ owner' = owner
        /\ \A r \in Runs : state'[r] = IF st[r] \in Live \/ (st[r] = "queued" /\ link[r].task # NoTask)
                                       THEN "failed" ELSE st[r]
    BY <1>5, <2>1 DEF Restart, AfterRestart
  <2>4. ASSUME NEW r \in Runs
        PROVE  /\ MayMove(state[r], state'[r])
               /\ state[r] = "absent" => state'[r] = "absent"
               /\ state[r] \in {"absent", "queued"} => state'[r] # "running"
    <3>1. state[r] \in RunStates
      BY <1>0
    <3>2. CASE st[r] = state[r]
      BY <2>3, <3>1, <3>2 DEF MayMove, Live, Ended
    <3>3. CASE state[r] \in Live /\ st[r] \in Ended
      BY <2>3, <3>3 DEF MayMove, Live, Ended
    <3> QED
      BY <2>2, <3>2, <3>3
  <2>5. ServiceNext
    BY <2>3, <2>4 DEF ServiceNext
  <2> QED
    BY <2>5
<1>6. CASE \/ BoardSteps \/ SettingSteps \/ StageSteps \/ Recategorise \/ TeamSteps \/ CardSteps
           \/ (\E t \in Tasks, s \in Stages, o \in Owners \cup {NoOwner}, m \in Teams \cup {NoTeam} : Move(t, s, o, m))
           \/ (\E t \in Tasks, ticked \in BOOLEAN : Check(t, ticked)) \/ DrawerSteps \/ UNCHANGED vars
  <2>1. CASE BoardSteps
    BY <2>1 DEF BoardSteps, CreateBoard, OnlyBoards, DeleteBoard, DuplicateBoard
  <2>2. CASE SettingSteps
    BY <2>2 DEF SettingSteps, UpdateBoard, OnlyBoards
  <2>3. CASE StageSteps
    BY <2>3, ZenonT(40) DEF StageSteps, AddStage, RemoveStage, OnlyBoards
  <2>4. CASE Recategorise
    BY <2>4 DEF Recategorise, UpdateStage, OnlyBoards
  <2>5. CASE TeamSteps
    BY <2>5 DEF TeamSteps, RetireTeam, CreateTeam, UpdateTeam, OnlyTeams
  <2>6. CASE CardSteps
    BY <2>6 DEF CardSteps, Approve, DeleteTask, UpdateTask, CreateTask, OnlyCards
  <2>7. CASE \/ \E t \in Tasks, s \in Stages, o \in Owners \cup {NoOwner}, m \in Teams \cup {NoTeam} :
                  Move(t, s, o, m)
             \/ \E t \in Tasks, ticked \in BOOLEAN : Check(t, ticked)
    BY <2>7 DEF Move, Check, OnlyCards
  <2>8. CASE DrawerSteps
    BY <2>8 DEF DrawerSteps, OpenTask, Save, OnlyCards
  <2>9. CASE UNCHANGED vars
    BY <2>9 DEF vars
  <2> QED
    BY <1>1, <1>6, <2>1, <2>2, <2>3, <2>4, <2>5, <2>6, <2>7, <2>8, <2>9
<1> QED
  BY <1>3, <1>4, <1>5, <1>6 DEF Next

(* IInv holds in every state of the board. *)
THEOREM Invariance == Spec => []IInv
PROOF
  BY Starts, Keeps, PTL DEF Spec

(* Every variable of the board, of its cards, drawers and teams has its    *)
(* type.                                                                   *)
THEOREM TypeCorrect == Spec => []TypeOK
PROOF
<1>1. IInv => TypeOK
  BY DEF IInv
<1> QED
  BY <1>1, Invariance, PTL

(* A card is linked to its newest attempt or to none, whatever the order   *)
(* in which its runs end: tasks.ts start() and syncRun().                  *)
THEOREM NewestLinked == Spec => []LinkIsNewest
PROOF
<1>1. IInv => LinkIsNewest
  BY DEF IInv, Links
<1> QED
  BY <1>1, Invariance, PTL

(* No card stays linked to a run that has ended, across crashes between    *)
(* the end of the run and its listener: syncRun() and reconcile().         *)
THEOREM LinksReleased == Spec => []NoStaleLink
PROOF
<1>1. IInv => NoStaleLink
  BY DEF IInv
<1> QED
  BY <1>1, Invariance, PTL

(* A card that is there lies on a board that is there: deleteBoard() takes *)
(* the cards along, and no request moves one to a deleted board.           *)
THEOREM CardsHaveBoards == Spec => []OnBoards
PROOF
<1>1. IInv => OnBoards
  BY DEF IInv
<1> QED
  BY <1>1, Invariance, PTL

(* A draft the server would accept was taken from the card as it is now:   *)
(* the revision test of updateTask and the drawer's save().                *)
THEOREM DraftsCurrent == Spec => []DraftIsCurrent
PROOF
<1>1. IInv => DraftIsCurrent
  BY DEF IInv
<1> QED
  BY <1>1, Invariance, PTL

(* Open cards of a team name only members of a team that is active, but    *)
(* for an owner whom a move has named after a check with another team:     *)
(* validateAssignment(), the checks of teams.ts, and the route "move".     *)
THEOREM TeamsScoped == Spec => []TeamScoped
PROOF
<1>1. IInv => TeamScoped
  BY DEF IInv
<1> QED
  BY <1>1, Invariance, PTL

(* While a card is active it belongs to the agent that executes it, in a   *)
(* stage of its board, if no completed run that is still linked is revived.*)
THEOREM OwnersExecute ==
  ASSUME NoneRevived PROVE Spec => []OwnerExecutes
PROOF
<1>1. IInv => OwnerExecutes
  BY DEF IInv
<1> QED
  BY <1>1, Invariance, PTL

(* Nobody changes the team, owner, collaborators, project or archive       *)
(* status of an active card: the lock of updateTask() and move().          *)
THEOREM Locked == Spec => LockedWhileActive
PROOF
<1>1. IInv /\ [Next]_vars =>
        [\A t \in Tasks :
           Busy(t) /\ tasks'[t].active = tasks[t].active =>
             Scope([tasks'[t] EXCEPT !.stage = tasks[t].stage]) = Scope(tasks[t])]_vars
  BY LocksHold
<1> QED
  BY <1>1, Invariance, PTL DEF Spec, LockedWhileActive

(* The board uses runs as RunService lets it, through every request, end,  *)
(* revival and restart.                                                    *)
THEOREM ImplementsService == Spec => ServiceSpec
PROOF
<1>1. Init => ServiceInit
  BY DEF Init
<1>2. IInv /\ [Next]_vars => [ServiceNext]_service
  BY Moves
<1> QED
  BY <1>1, <1>2, Invariance, PTL DEF Spec, ServiceSpec

=============================================================================
