----------------------------- MODULE Transfers -----------------------------
(***************************************************************************)
(* Moving agents between computers: performTransfer() of                   *)
(* runtime/service.ts with the reservations, transfers and commands of     *)
(* runtime/machines.ts and the managed files of runtime/transfer-files.ts. *)
(*                                                                         *)
(* A transfer is a row that pump() and the profile editor respect and a    *)
(* coroutine that waits until no run of the agent is recorded as active,   *)
(* for an export, for an import.  A computer is a set of files for every   *)
(* agent.  An import adds the files of the bundle and removes none.  The   *)
(* delivery of commands is that of RemoteRuns, without its spool.  The     *)
(* check of the bundle's sum in the state verifying, which happens in the  *)
(* step that ends the transfer, and the rest of the profile are left out.  *)
(*                                                                         *)
(* The end of a run is what its row says.  Hermes may work on after it:    *)
(* until an interrupt or docker stop takes effect, after a docker stop     *)
(* that failed, and on a paired computer whose run was given up; and a     *)
(* question it asks then sets the row waiting again.                       *)
(***************************************************************************)
EXTENDS Naturals, Sequences

CONSTANTS
  Agents,
  Movers,     \* bound: the agents that have runs, transfers and credential requests
  Machines,
  Local,      \* the computer of the coordinator
  Nowhere,
  Nobody,
  Items,      \* what an agent may have among its managed files
  MaxMoves    \* bound: transfers

ASSUME TransferAssumption ==
  /\ Local \in Machines /\ Nowhere \notin Machines
  /\ Nobody \notin Agents /\ Movers \subseteq Agents
  /\ MaxMoves \in Nat

VARIABLES
  profile,    \* what the saved profile says of the computer
  reserved,   \* machines.reserved_agent_id
  revoked,    \* computers with revoked_at
  moves,      \* agent_transfers, each with its coroutine and its commands
  running,    \* the computer of the run that pump() admitted and that is active
  lingers,    \* the computers on which work goes on whose run has ended
  revived,    \* those of ended runs that a late question has set waiting
  edits,      \* profiles that credential requests have read, of the saved revision
  files,      \* the managed files of the agents on the computers
  items,      \* what the work of active runs has left to the agent
  reverted    \* history: agents whom a credential request has moved back

saved == <<profile, edits, reverted>>
runs  == <<running, lingers, revived>>
disks == <<files, items>>
vars  == <<saved, reserved, revoked, moves, runs, disks>>

Steps         == {"waits", "exports", "imports", "probes", "gone"}
CommandStates == {"none", "queued", "leased", "done", "completed", "failed"}
Kinds         == {"export", "import"}

Move ==
  [ agent  : Agents, from : Machines, to : Machines, reserve : BOOLEAN,
    state  : {"queued", "exporting", "importing", "completed", "failed"},
    step   : Steps,           \* where the coroutine is
    export : CommandStates, import : CommandStates,
    bundle : SUBSET Items ]

Profile == [at : Machines, reserve : BOOLEAN]

TypeOK ==
  /\ profile \in [Agents -> Profile]
  /\ reserved \in [Machines -> Agents \cup {Nobody}]
  /\ revoked \in SUBSET Machines
  /\ moves \in Seq(Move)
  /\ running \in [Agents -> Machines \cup {Nowhere}]
  /\ lingers \in [Agents -> SUBSET Machines]
  /\ revived \in [Agents -> SUBSET Machines]
  /\ edits \in [Agents -> SUBSET Profile]
  /\ files \in [Machines -> [Agents -> SUBSET Items]]
  /\ items \in [Agents -> SUBSET Items]
  /\ reverted \in SUBSET Agents

Init ==
  /\ profile = [a \in Agents |-> [at |-> Local, reserve |-> FALSE]]
  /\ reserved = [k \in Machines |-> Nobody]
  /\ revoked = {}
  /\ moves = << >>
  /\ running = [a \in Agents |-> Nowhere]
  /\ lingers = [a \in Agents |-> {}]
  /\ revived = [a \in Agents |-> {}]
  /\ edits = [a \in Agents |-> {}]
  /\ files = [k \in Machines |-> [a \in Agents |-> {}]]
  /\ items = [a \in Agents |-> {}]
  /\ reverted = {}

-----------------------------------------------------------------------------
(* Queries.                                                                *)

Open(m)  == m.state \in {"queued", "exporting", "importing"}
Ids      == DOMAIN moves

Transferring(a) == \E i \in Ids : moves[i].agent = a /\ Open(moves[i])

MayAssign(k, a) == k \notin revoked /\ reserved[k] \in {Nobody, a}

(* The reservations r after reserve(k, a, yes). *)
Reserve(r, k, a, yes) ==
  [r EXCEPT ![k] = IF yes THEN a ELSE IF @ = a THEN Nobody ELSE @]

-----------------------------------------------------------------------------
(* Runs of the agents and what goes on after them.                         *)

(* agentBusy(): a row of the agent is active. *)
Busy(a) == running[a] # Nowhere \/ revived[a] # {}

(* What pump() asks of the agent of a run. *)
Admits(a) ==
  /\ a \in Movers
  /\ ~ Busy(a) /\ ~ Transferring(a)
  /\ MayAssign(profile[a].at, a)

Starts(a) ==
  /\ Admits(a)
  /\ running' = [running EXCEPT ![a] = profile[a].at]
  /\ UNCHANGED <<saved, reserved, revoked, moves, lingers, revived, disks>>

Toggled(S, i) == IF i \in S THEN S \ {i} ELSE S \cup {i}

(* The agent writes a file that it has not, or removes one that it has. *)
Works(a, i) ==
  /\ running[a] # Nowhere
  /\ items' = [items EXCEPT ![a] = Toggled(@, i)]
  /\ files' = [files EXCEPT ![running[a]][a] =
                 IF i \in items[a] THEN @ \ {i} ELSE @ \cup {i}]
  /\ UNCHANGED <<saved, reserved, revoked, moves, runs>>

(* The work of a run that has ended does the same. *)
WorksOn(a, k, i) ==
  /\ k \in lingers[a]
  /\ files' = [files EXCEPT ![k][a] = Toggled(@, i)]
  /\ items' = IF i \in files[k][a] THEN [items EXCEPT ![a] = @ \ {i}] ELSE items
  /\ UNCHANGED <<saved, reserved, revoked, moves, runs>>

(* The run ends, and its work with it or not: it was stopped, its runner   *)
(* has been given up, or the docker stop has failed.                       *)
Ends(a) ==
  /\ running[a] # Nowhere
  /\ running' = [running EXCEPT ![a] = Nowhere]
  /\ \/ UNCHANGED lingers
     \/ lingers' = [lingers EXCEPT ![a] = @ \cup {running[a]}]
  /\ UNCHANGED <<saved, reserved, revoked, moves, revived, disks>>

(* A question of the run that has ended: mapHermesEvent() sets it waiting. *)
Revives(a, k) ==
  /\ k \in lingers[a] \ revoked
  /\ revived' = [revived EXCEPT ![a] = @ \cup {k}]
  /\ UNCHANGED <<saved, reserved, revoked, moves, running, lingers, disks>>

(* The work is over at last.  On the computer of the coordinator the       *)
(* coroutine of the run is still there to end its row again; behind a row  *)
(* of a paired computer there is none.                                     *)
Ceases(a, k) ==
  /\ k \in lingers[a]
  /\ lingers' = [lingers EXCEPT ![a] = @ \ {k}]
  /\ revived' = [revived EXCEPT ![a] = @ \ ({k} \cap {Local})]
  /\ UNCHANGED <<saved, reserved, revoked, moves, running, disks>>

(* The operator stops the run that waits. *)
Dismisses(a, k) ==
  /\ k \in revived[a]
  /\ revived' = [revived EXCEPT ![a] = @ \ {k}]
  /\ UNCHANGED <<saved, reserved, revoked, moves, running, lingers, disks>>

-----------------------------------------------------------------------------
(* Requests of the operator.                                               *)

(* machines.transfer() *)
Begins(a, k, yes) ==
  /\ a \in Movers /\ Len(moves) < MaxMoves
  /\ moves' = Append(moves,
       [ agent |-> a, from |-> profile[a].at, to |-> k, reserve |-> yes,
         state |-> "queued", step |-> "waits",
         export |-> "none", import |-> "none", bundle |-> {} ])

(* PUT /v1/agents/:id/profile: a new computer is reserved at once, and the *)
(* profile keeps the old one until the transfer has ended.  Every save     *)
(* takes a revision, which refuses the requests that have read the last.   *)
SaveProfile(a, k, yes) ==
  /\ ~ Transferring(a) /\ MayAssign(k, a)
  /\ reserved' = Reserve(reserved, k, a, yes)
  /\ IF k = profile[a].at
     THEN profile' = [profile EXCEPT ![a].reserve = yes] /\ UNCHANGED moves
     ELSE Begins(a, k, yes) /\ UNCHANGED profile
  /\ edits' = [edits EXCEPT ![a] = {}]
  /\ UNCHANGED <<reverted, revoked, runs, disks>>

(* PUT /v1/agents/:id/credential reads the profile before its body (bound: *)
(* that of an agent which such a request has not moved back yet) ...       *)
ReadsProfile(a) ==
  /\ a \in Movers \ reverted
  /\ edits' = [edits EXCEPT ![a] = @ \cup {profile[a]}]
  /\ UNCHANGED <<profile, reverted, reserved, revoked, moves, runs, disks>>

(* ... and saves all of it, whatever transfer is open, unless the revision *)
(* is another: applyTransferredProfile() takes none.                       *)
SavesCredential(a, p) ==
  /\ p \in edits[a]
  /\ profile' = [profile EXCEPT ![a] = p]
  /\ edits' = [edits EXCEPT ![a] = {}]
  /\ reverted' = IF p = profile[a] THEN reverted ELSE reverted \cup {a}
  /\ UNCHANGED <<reserved, revoked, moves, runs, disks>>

(* POST /v1/agents/:id/transfer: nothing is reserved yet. *)
Transfer(a, k) ==
  /\ ~ Transferring(a) /\ k # profile[a].at /\ MayAssign(k, a)
  /\ Begins(a, k, profile[a].reserve)
  /\ UNCHANGED <<saved, reserved, revoked, runs, disks>>

Revoke(k) ==
  /\ k \notin revoked \cup {Local}
  /\ revoked' = revoked \cup {k}
  /\ UNCHANGED <<saved, reserved, moves, runs, disks>>

-----------------------------------------------------------------------------
(* The coroutine.                                                          *)

Becomes(i, m) == moves' = [moves EXCEPT ![i] = m]

(* The transfer without its coroutine.  An import that the runner has not  *)
(* seen or not finished may still write its bundle; what else the commands *)
(* do is read by nobody.                                                   *)
Left(m, state) ==
  [m EXCEPT !.state = state, !.step = "gone", !.reserve = FALSE, !.export = "none",
            !.import = IF @ \in {"queued", "leased"} THEN @ ELSE "none",
            !.bundle = IF m.import \in {"queued", "leased"} THEN @ ELSE {}]

(* The catch clause of a transfer whose profile has not been applied. *)
Fails(i) ==
  /\ reserved' = Reserve(reserved, moves[i].to, moves[i].agent, FALSE)
  /\ Becomes(i, Left(moves[i], "failed"))
  /\ UNCHANGED <<saved, revoked, runs, disks>>

(* The import of bundle b begins; on the computer of the coordinator it is *)
(* done at once, and the new desktop is tried before the profile is.       *)
Imports(i, b) ==
  LET m == [moves[i] EXCEPT !.state = "importing", !.bundle = b] IN
  /\ IF m.to = Local
     THEN /\ Becomes(i, [m EXCEPT !.step = "probes"])
          /\ files' = [files EXCEPT ![Local][m.agent] = @ \cup b]
     ELSE /\ Becomes(i, [m EXCEPT !.step = "imports", !.import = "queued"])
          /\ UNCHANGED files
  /\ UNCHANGED <<saved, reserved, revoked, runs, items>>

(* Mutant: the coroutine does not wait for the agent. *)
Idle_Always(i) == moves[i].step = "waits"

(* The loop that waits for the agent has ended. *)
Idle(i) == moves[i].step = "waits" /\ ~ Busy(moves[i].agent)

(* The files of the coordinator's own computer may be too large; those of  *)
(* a computer that is not revoked are asked for.                           *)
Exports(i) ==
  LET m == moves[i] IN
  /\ Idle(i)
  /\ \/ m.from = Local /\ (Imports(i, files[Local][m.agent]) \/ Fails(i))
     \/ m.from \in revoked /\ Fails(i)
     \/ /\ m.from \notin revoked \cup {Local}
        /\ Becomes(i, [m EXCEPT !.state = "exporting", !.step = "exports",
                                !.export = "queued"])
        /\ UNCHANGED <<saved, reserved, revoked, runs, disks>>

(* The computer may not suit the profile. *)
Exported(i) ==
  /\ moves[i].step = "exports" /\ moves[i].export = "completed"
  /\ Imports(i, moves[i].bundle) \/ (moves[i].to = Local /\ Fails(i))

(* Mutant: the reservation of the old computer is kept. *)
Freed_None(m) == reserved

(* The source is released. *)
Freed(m) == Reserve(reserved, m.from, m.agent, FALSE)

(* Bundle and sum are right: the profile is applied, the source released   *)
(* and the destination reserved, which throws if it has been revoked or    *)
(* reserved for another agent meanwhile.                                   *)
Imported(i) ==
  LET m    == moves[i]
      fits == m.reserve => MayAssign(m.to, m.agent)
  IN
  /\ m.step = "probes" \/ (m.step = "imports" /\ m.import = "completed")
  /\ profile' = [profile EXCEPT ![m.agent] = [at |-> m.to, reserve |-> m.reserve]]
  /\ reserved' = Reserve(Freed(m), m.to, m.agent, m.reserve /\ fits)
  /\ Becomes(i, Left(m, IF fits THEN "completed" ELSE "failed"))
  /\ UNCHANGED <<edits, reverted, revoked, runs, disks>>


(* What makes the coroutine give up once it waits. *)
HasFailed(i) ==
  LET m == moves[i] IN
  \/ m.step = "exports" /\ m.export = "failed"
  \/ m.step = "imports" /\ m.import = "failed"
  \/ m.step = "probes"

GivesUp(i) == HasFailed(i) /\ Fails(i)

-----------------------------------------------------------------------------
(* Commands.                                                               *)

Computer(m, c) == IF c = "export" THEN m.from ELSE m.to

(* Command c of the transfer goes from one of the states s to t. *)
Goes(i, c, s, t) ==
  /\ moves[i][c] \in s
  /\ Computer(moves[i], c) \notin revoked
  /\ Becomes(i, [moves[i] EXCEPT ![c] = t])

Polled(i, c) ==
  /\ Goes(i, c, {"queued"}, "leased")
  /\ UNCHANGED <<saved, reserved, revoked, runs, disks>>

(* Mutant: the directories that are exported do not exist. *)
Taken_Nothing(m) == {}

(* What an export takes. *)
Taken(m) == files[m.from][m.agent]

Executed(i, c) ==
  LET m == moves[i] IN
  /\ m[c] = "leased"
  /\ IF c = "export"
     THEN Becomes(i, [m EXCEPT !.export = "done", !.bundle = Taken(m)]) /\ UNCHANGED files
     ELSE /\ Becomes(i, [m EXCEPT !.import = "done"])
          /\ files' = [files EXCEPT ![m.to][m.agent] = @ \cup m.bundle]
  /\ UNCHANGED <<saved, reserved, revoked, runs, items>>

Reported(i, c) ==
  /\ Goes(i, c, {"done"}, "completed")
  /\ UNCHANGED <<saved, reserved, revoked, runs, disks>>

(* The runner refuses what it was sent. *)
Refused(i, c) ==
  /\ Goes(i, c, {"leased"}, "failed")
  /\ UNCHANGED <<saved, reserved, revoked, runs, disks>>

(* reconcileLeases(): a runner that has restarted does not know the        *)
(* command, which fails, and so does the transfer, before its coroutine    *)
(* has seen it.                                                            *)
Reconciled(i, c) ==
  LET m == moves[i]
      n == [m EXCEPT ![c] = "failed"]
  IN
  /\ m[c] \in {"leased", "done"} /\ Computer(m, c) \notin revoked
  /\ IF m.state \in {"exporting", "importing"}
     THEN /\ Becomes(i, [n EXCEPT !.state = "failed"])
          /\ reserved' = Reserve(reserved, m.to, m.agent, FALSE)
     ELSE Becomes(i, n) /\ UNCHANGED reserved
  /\ UNCHANGED <<saved, revoked, runs, disks>>

(* A transfer after a restart of the coordinator. *)
Closed(m) == Left(m, IF Open(m) THEN "failed" ELSE m.state)

(* Transfers fail and give back what they had reserved, runs are           *)
(* interrupted, and commands stay where they are.  The coordinator's own   *)
(* Hermes processes end with it; a runner goes on with what it was sent.   *)
Restart ==
  /\ moves' = [i \in Ids |-> Closed(moves[i])]
  /\ reserved' = [k \in Machines |->
       IF \E i \in Ids : Open(moves[i]) /\ moves[i].to = k /\ moves[i].agent = reserved[k]
       THEN Nobody ELSE reserved[k]]
  /\ running' = [a \in Agents |-> Nowhere]
  /\ lingers' = [a \in Agents |-> (lingers[a] \cup {running[a]}) \ {Local, Nowhere}]
  /\ revived' = [a \in Agents |-> {}]
  /\ edits' = [a \in Agents |-> {}]
  /\ UNCHANGED <<profile, reverted, revoked, disks>>

-----------------------------------------------------------------------------
Coroutine(i) == Exports(i) \/ Exported(i) \/ Imported(i) \/ GivesUp(i)
Runner(i)    == \E c \in Kinds : Polled(i, c) \/ Executed(i, c) \/ Reported(i, c)

Next ==
  \/ \E a \in Agents :
       \/ Starts(a) \/ Ends(a) \/ ReadsProfile(a)
       \/ \E i \in Items : Works(a, i) \/ \E k \in Machines : WorksOn(a, k, i)
       \/ \E p \in edits[a] : SavesCredential(a, p)
       \/ \E k \in Machines :
            \/ Revives(a, k) \/ Ceases(a, k) \/ Dismisses(a, k)
            \/ Transfer(a, k) \/ \E yes \in BOOLEAN : SaveProfile(a, k, yes)
  \/ \E k \in Machines : Revoke(k)
  \/ \E i \in Ids :
       \/ Exports(i) \/ Exported(i) \/ Imported(i) \/ GivesUp(i)
       \/ \E c \in Kinds :
            Polled(i, c) \/ Executed(i, c) \/ Reported(i, c) \/ Refused(i, c) \/ Reconciled(i, c)
  \/ Restart

Spec == Init /\ [][Next]_vars

(* Runs end (EveryRunEnds of Coordinator, EveryWatchEnds of RemoteRuns)    *)
(* and so does a coroutine of the coordinator whose run has ended before   *)
(* it; coroutines go on when what they await is there, and the runner of a *)
(* computer that is not revoked polls, works and reports.  Nobody need     *)
(* stop a run that waits with no coroutine.                                *)
Fairness ==
  /\ \A a \in Agents : WF_vars(Ends(a)) /\ WF_vars(Ceases(a, Local))
  /\ \A i \in 1..MaxMoves :
       /\ WF_vars(i \in Ids /\ Coroutine(i))
       /\ WF_vars(i \in Ids /\ Runner(i))

FairSpec == Spec /\ Fairness

-----------------------------------------------------------------------------
(* Properties.                                                             *)

(* "Source assignment and data were preserved" (service.ts:216), as far as *)
(* it is true: wherever an agent is assigned, whatever failed, restarted   *)
(* or was moved back and forth before, all that its active runs have left  *)
(* to it is there.  What Hermes writes once its run has ended may stay     *)
(* behind (no export waits for it), and an agent that a credential request *)
(* has moved back is without what it wrote since its transfer.             *)
HasItsFiles == \A a \in Agents \ reverted : items[a] \subseteq files[profile[a].at][a]

(* A run that pump() has admitted is active on the computer of the         *)
(* profile: no transfer changes the assignment under it, whatever is left  *)
(* of the runs before it, and none is admitted while a transfer is open.   *)
(* A run that a late question has set waiting may be elsewhere.            *)
RunsAtHome == \A a \in Agents \ reverted : running[a] \in {Nowhere, profile[a].at}

(* A computer is held for an agent only if its profile says so or a        *)
(* transfer to it is open: no reservation is left behind, but for agents   *)
(* that a credential request has moved back.                               *)
ReservationOwned ==
  \A k \in Machines : reserved[k] \notin reverted \cup {Nobody} =>
    LET a == reserved[k] IN
    \/ profile[a].at = k /\ profile[a].reserve
    \/ \E i \in Ids : moves[i].agent = a /\ moves[i].to = k /\ Open(moves[i])

(* A transfer that waits for a computer that has been revoked ...          *)
Stranded(m) ==
  \/ m.step = "exports" /\ m.from \in revoked
  \/ m.step = "imports" /\ m.to \in revoked

(* ... or for a run of a paired computer that waits with no coroutine.     *)
Kept(m) == m.step = "waits" /\ revived[m.agent] \ {Local} # {}

=============================================================================
