-------------------------- MODULE TransfersProofs --------------------------
(***************************************************************************)
(* Theorems about Transfers, for any agents, computers, files and number   *)
(* of transfers, and any restarts, revocations and failures.               *)
(*                                                                         *)
(* IInv adds to the three properties what an open transfer knows: it is    *)
(* the only one of its agent and starts where the agent is, no run of the  *)
(* agent is active once the export has begun but those that late questions *)
(* have set waiting, and what is under way holds all that the agent's      *)
(* active runs have left.  An agent that a credential request has moved    *)
(* back is claimed nothing of but its types.                               *)
(***************************************************************************)
EXTENDS Transfers, SequenceTheorems, TLAPS

(* Row, coroutine and commands agree; a transfer that reconcileLeases()    *)
(* has failed still has a coroutine, which waits for the failed command.   *)
StepFits(m) ==
  /\ m.step = "waits"   => m.state = "queued" /\ m.export = "none" /\ m.import = "none"
  /\ m.step = "exports" => /\ m.import = "none" /\ m.state \in {"exporting", "failed"}
                           /\ m.state = "exporting" \/ m.export = "failed"
  /\ m.step = "imports" => /\ m.export \in {"none", "completed"}
                           /\ m.state = "importing" \/ (m.state = "failed" /\ m.import = "failed")
  /\ m.step = "probes"  => /\ m.state = "importing" /\ m.import = "none"
                           /\ m.export \in {"none", "completed"}
  /\ m.step = "gone"    => ~ Open(m)

FromHome(m) == Open(m) => m.from = profile[m.agent].at

AgentIdle(m) == Open(m) /\ m.step # "waits" => running[m.agent] = Nowhere

(* What must be where, for the items its of the agent and the files fs on  *)
(* the destination.                                                        *)
Carries(m, its, fs) ==
  Open(m) =>
    /\ m.step = "exports" /\ m.export \in {"done", "completed"} => its \subseteq m.bundle
    /\ m.step = "imports" => its \subseteq m.bundle
    /\ m.step = "imports" /\ m.import \in {"done", "completed"} => its \subseteq fs
    /\ m.step = "probes"  => its \subseteq fs

MovesFit == \A i \in Ids : StepFits(moves[i])
MovesHome == \A i \in Ids : moves[i].agent \notin reverted => FromHome(moves[i])
MovesIdle == \A i \in Ids : AgentIdle(moves[i])
MovesCarry == \A i \in Ids :
  LET m == moves[i] IN
  m.agent \notin reverted => Carries(m, items[m.agent], files[m.to][m.agent])
OneOpen == \A i, j \in Ids :
  Open(moves[i]) /\ Open(moves[j]) /\ moves[i].agent = moves[j].agent => i = j

IInv ==
  /\ TypeOK /\ HasItsFiles /\ RunsAtHome /\ ReservationOwned
  /\ MovesFit /\ MovesHome /\ MovesIdle /\ MovesCarry /\ OneOpen

-----------------------------------------------------------------------------
(* A transfer changes and the others stay.                                 *)
LEMMA OneBecomes ==
  ASSUME moves \in Seq(Move), NEW i \in Ids, NEW m \in Move, Becomes(i, m)
  PROVE  /\ moves' \in Seq(Move) /\ Ids' = Ids
         /\ moves'[i] = m
         /\ \A j \in Ids : j # i => moves'[j] = moves[j]
PROOF
<1>1. Ids = 1..Len(moves)
  BY DEF Ids
<1>2. /\ moves' \in Seq(Move) /\ Len(moves') = Len(moves)
      /\ \A j \in 1..Len(moves) : moves'[j] = IF j = i THEN m ELSE moves[j]
  BY <1>1, ExceptSeq DEF Becomes
<1> QED
  BY <1>1, <1>2 DEF Ids

(* A transfer is of an agent, from a computer to a computer. *)
LEMMA MoveType ==
  ASSUME moves \in Seq(Move), NEW i \in Ids
  PROVE  /\ moves[i] \in Move
         /\ moves[i].agent \in Agents /\ moves[i].from \in Machines /\ moves[i].to \in Machines
         /\ moves[i].reserve \in BOOLEAN /\ moves[i].bundle \in SUBSET Items
PROOF
<1>1. moves[i] \in Move
  BY DEF Ids
<1> QED
  BY <1>1 DEF Move

(* A transfer without its coroutine is a transfer still.                   *)
LEMMA LeftType ==
  ASSUME NEW m \in Move, NEW st \in {"completed", "failed"}
  PROVE  /\ Left(m, st) \in Move
         /\ Left(m, st).agent = m.agent /\ Left(m, st).to = m.to /\ Left(m, st).from = m.from
         /\ Left(m, st).step = "gone" /\ Left(m, st).state = st /\ ~ Open(Left(m, st))
PROOF BY DEF Left, Move, Steps, CommandStates, Open

(* Reservations stay reservations.                                         *)
LEMMA ReserveType ==
  ASSUME NEW r \in [Machines -> Agents \cup {Nobody}], NEW k \in Machines,
         NEW a \in Agents, NEW yes \in BOOLEAN
  PROVE  /\ Reserve(r, k, a, yes) \in [Machines -> Agents \cup {Nobody}]
         /\ \A x \in Machines : x # k => Reserve(r, k, a, yes)[x] = r[x]
         /\ Reserve(r, k, a, yes)[k] = IF yes THEN a ELSE IF r[k] = a THEN Nobody ELSE r[k]
PROOF BY DEF Reserve

(* A step of one transfer that assigns no agent and removes no file keeps  *)
(* the invariant but for the reservations.                                 *)
LEMMA OneSteps ==
  ASSUME IInv, NEW i \in Ids, NEW m \in Move, Becomes(i, m),
         m.agent = moves[i].agent, m.to = moves[i].to, m.from = moves[i].from,
         Open(m) => Open(moves[i]),
         StepFits(m), AgentIdle(m),
         m.agent \notin reverted => Carries(m, items[m.agent], files'[m.to][m.agent]),
         UNCHANGED <<saved, revoked, runs, items>>,
         reserved' \in [Machines -> Agents \cup {Nobody}],
         files' \in [Machines -> [Agents -> SUBSET Items]],
         \A k \in Machines : \A a \in Agents : files[k][a] \subseteq files'[k][a]
  PROVE  /\ TypeOK' /\ HasItsFiles' /\ RunsAtHome'
         /\ MovesFit' /\ MovesHome' /\ MovesIdle' /\ MovesCarry' /\ OneOpen'
PROOF
<1>1. /\ moves' \in Seq(Move) /\ Ids' = Ids /\ moves'[i] = m
      /\ \A j \in Ids : j # i => moves'[j] = moves[j]
  BY OneBecomes DEF IInv, TypeOK
<1>2. \A j \in Ids : moves[j] \in Move
  BY DEF IInv, TypeOK, Ids
<1> /\ profile' = profile /\ edits' = edits /\ reverted' = reverted
    /\ running' = running /\ lingers' = lingers /\ revived' = revived
    /\ revoked' = revoked /\ items' = items
  BY DEF saved, runs
<1>3. TypeOK'
  BY <1>1 DEF IInv, TypeOK
<1>4. HasItsFiles' /\ RunsAtHome'
  BY DEF IInv, TypeOK, Profile, HasItsFiles, RunsAtHome
<1>5. MovesFit'
  BY <1>1 DEF IInv, MovesFit
<1>6. MovesHome'
  BY <1>1 DEF IInv, MovesHome, FromHome
<1>7. MovesIdle'
  BY <1>1 DEF IInv, MovesIdle, AgentIdle
<1>8. MovesCarry'
  <2> SUFFICES ASSUME NEW j \in Ids
               PROVE  LET n == moves'[j] IN
                      n.agent \notin reverted => Carries(n, items[n.agent], files'[n.to][n.agent])
    BY <1>1 DEF MovesCarry
  <2>1. CASE j = i
    BY <2>1, <1>1
  <2>2. CASE j # i
    <3>1. files[moves[j].to][moves[j].agent] \subseteq files'[moves[j].to][moves[j].agent]
      BY <1>2 DEF Move
    <3> QED
      BY <2>2, <3>1, <1>1 DEF IInv, MovesCarry, Carries
  <2> QED
    BY <2>1, <2>2
<1>9. OneOpen'
  BY <1>1 DEF IInv, OneOpen
<1> QED
  BY <1>3, <1>4, <1>5, <1>6, <1>7, <1>8, <1>9

(* Reservations are owned as long as no transfer ends and nothing is       *)
(* reserved or assigned.                                                   *)
LEMMA StillOwned ==
  ASSUME IInv, NEW i \in Ids, NEW m \in Move, Becomes(i, m),
         m.agent = moves[i].agent, m.to = moves[i].to,
         Open(moves[i]) => Open(m),
         UNCHANGED <<profile, reverted, reserved>>
  PROVE  ReservationOwned'
PROOF
<1>1. /\ Ids' = Ids /\ moves'[i] = m
      /\ \A j \in Ids : j # i => moves'[j] = moves[j]
  BY OneBecomes DEF IInv, TypeOK
<1>2. \A j \in Ids : Open(moves[j]) =>
        Open(moves'[j]) /\ moves'[j].agent = moves[j].agent /\ moves'[j].to = moves[j].to
  BY <1>1
<1> QED
  BY <1>1, <1>2 DEF IInv, ReservationOwned

(* A transfer that fails gives back what it had reserved.                  *)
LEMMA GivenBack ==
  ASSUME IInv, NEW i \in Ids, NEW m \in Move, Becomes(i, m),
         reserved' = Reserve(reserved, moves[i].to, moves[i].agent, FALSE),
         UNCHANGED <<profile, reverted>>
  PROVE  /\ ReservationOwned'
         /\ reserved' \in [Machines -> Agents \cup {Nobody}]
PROOF
<1>1. /\ Ids' = Ids /\ moves'[i] = m
      /\ \A j \in Ids : j # i => moves'[j] = moves[j]
  BY OneBecomes DEF IInv, TypeOK
<1>2. moves[i].to \in Machines /\ moves[i].agent \in Agents
  BY MoveType DEF IInv, TypeOK
<1>3. /\ reserved' \in [Machines -> Agents \cup {Nobody}]
      /\ \A x \in Machines : x # moves[i].to => reserved'[x] = reserved[x]
      /\ reserved'[moves[i].to] \in {reserved[moves[i].to], Nobody} \ {moves[i].agent}
  <2>1. reserved \in [Machines -> Agents \cup {Nobody}] /\ Nobody \notin Agents
    BY TransferAssumption DEF IInv, TypeOK
  <2> QED
    BY <1>2, <2>1 DEF Reserve
<1>4. ASSUME NEW k \in Machines, reserved'[k] \notin reverted \cup {Nobody}
      PROVE  \/ profile[reserved'[k]].at = k /\ profile[reserved'[k]].reserve
             \/ \E j \in Ids : moves'[j].agent = reserved'[k] /\ moves'[j].to = k /\ Open(moves'[j])
  <2>1. reserved'[k] = reserved[k]
    BY <1>2, <1>3, <1>4
  <2>2. \A j \in Ids : moves[j].agent = reserved[k] /\ moves[j].to = k => j # i
    BY <1>2, <1>3, <1>4, <2>1
  <2>3. \/ profile[reserved[k]].at = k /\ profile[reserved[k]].reserve
        \/ \E j \in Ids : moves[j].agent = reserved[k] /\ moves[j].to = k /\ Open(moves[j])
    BY <1>4, <2>1 DEF IInv, ReservationOwned
  <2> QED
    BY <1>1, <2>1, <2>2, <2>3
<1> QED
  BY <1>1, <1>3, <1>4 DEF ReservationOwned

-----------------------------------------------------------------------------
(* The coroutine.                                                          *)

(* The catch clause, wherever the coroutine was.                           *)
LEMMA FailsKeeps ==
  ASSUME IInv, NEW i \in Ids, Fails(i)
  PROVE  IInv'
PROOF
<1> DEFINE m == Left(moves[i], "failed")
<1>2. m \in Move /\ m.agent = moves[i].agent /\ m.to = moves[i].to /\ m.from = moves[i].from
      /\ m.step = "gone" /\ m.state = "failed"
  BY MoveType, LeftType DEF IInv, TypeOK
<1>3. Becomes(i, m) /\ UNCHANGED <<saved, profile, reverted, revoked, runs, files, items>>
  BY DEF Fails, saved, disks
<1>4. ReservationOwned' /\ reserved' \in [Machines -> Agents \cup {Nobody}]
  BY <1>2, <1>3, GivenBack DEF Fails
<1>5. ~ Open(m) /\ StepFits(m) /\ AgentIdle(m) /\ Carries(m, items[m.agent], files'[m.to][m.agent])
  BY <1>2 DEF Open, StepFits, AgentIdle, Carries
<1>6. /\ files' \in [Machines -> [Agents -> SUBSET Items]]
      /\ \A k \in Machines : \A a \in Agents : files[k][a] \subseteq files'[k][a]
  BY <1>3 DEF IInv, TypeOK
<1> HIDE DEF m
<1>7. /\ TypeOK' /\ HasItsFiles' /\ RunsAtHome'
      /\ MovesFit' /\ MovesHome' /\ MovesIdle' /\ MovesCarry' /\ OneOpen'
  BY <1>2, <1>3, <1>4, <1>5, <1>6, OneSteps
<1> QED
  BY <1>4, <1>7 DEF IInv

(* An import begins with a bundle that holds what the agent has.           *)
LEMMA ImportsKeeps ==
  ASSUME IInv, NEW i \in Ids, NEW b \in SUBSET Items,
         Open(moves[i]), moves[i].export \in {"none", "completed"}, moves[i].import = "none",
         running[moves[i].agent] = Nowhere,
         moves[i].agent \notin reverted => items[moves[i].agent] \subseteq b,
         Imports(i, b)
  PROVE  IInv'
PROOF
<1> DEFINE m == [moves[i] EXCEPT !.state = "importing", !.bundle = b]
           n == IF m.to = Local THEN [m EXCEPT !.step = "probes"]
                ELSE [m EXCEPT !.step = "imports", !.import = "queued"]
<1>1. moves[i] \in Move /\ moves[i].agent \in Agents
  BY MoveType DEF IInv, TypeOK
<1>2. /\ n \in Move /\ n.agent = moves[i].agent /\ n.to = moves[i].to /\ n.from = moves[i].from
      /\ n.state = "importing" /\ n.bundle = b /\ n.export = moves[i].export
      /\ n.to = Local => n.step = "probes" /\ n.import = "none"
      /\ n.to # Local => n.step = "imports" /\ n.import = "queued"
  BY <1>1 DEF Move, Steps, CommandStates
<1>3. Becomes(i, n) /\ UNCHANGED <<saved, profile, reverted, reserved, revoked, runs, running, items>>
  BY DEF Imports, saved, runs
<1>4. /\ files' \in [Machines -> [Agents -> SUBSET Items]]
      /\ \A k \in Machines : \A a \in Agents : files[k][a] \subseteq files'[k][a]
      /\ n.to = Local => b \subseteq files'[n.to][n.agent]
  <2>1. CASE n.to = Local
    <3>1. files' = [files EXCEPT ![Local][moves[i].agent] = @ \cup b]
      BY <1>1, <1>2, <2>1 DEF Imports, Move
    <3> QED
      BY <1>1, <1>2, <2>1, <3>1, TransferAssumption DEF IInv, TypeOK
  <2>2. CASE n.to # Local
    <3>1. files' = files
      BY <1>1, <1>2, <2>2 DEF Imports, Move
    <3> QED
      BY <2>2, <3>1 DEF IInv, TypeOK
  <2> QED
    BY <2>1, <2>2
<1>5. /\ StepFits(n) /\ AgentIdle(n)
      /\ n.agent \notin reverted => Carries(n, items[n.agent], files'[n.to][n.agent])
  BY <1>2, <1>4 DEF Open, StepFits, AgentIdle, Carries
<1>6. Open(n) /\ reserved' \in [Machines -> Agents \cup {Nobody}]
  BY <1>2, <1>3 DEF Open, IInv, TypeOK
<1> HIDE DEF m, n
<1>7. /\ TypeOK' /\ HasItsFiles' /\ RunsAtHome'
      /\ MovesFit' /\ MovesHome' /\ MovesIdle' /\ MovesCarry' /\ OneOpen'
  BY <1>2, <1>3, <1>4, <1>5, <1>6, OneSteps
<1>8. ReservationOwned'
  BY <1>2, <1>3, <1>6, StillOwned
<1> QED
  BY <1>7, <1>8 DEF IInv

(* The export begins when the agent is idle.                               *)
LEMMA ExportsKeeps ==
  ASSUME IInv, NEW i \in Ids, Exports(i)
  PROVE  IInv'
PROOF
<1>1. /\ moves[i] \in Move /\ moves[i].agent \in Agents /\ moves[i].from \in Machines
  BY MoveType DEF IInv, TypeOK
<1>2. /\ moves[i].step = "waits" /\ moves[i].state = "queued"
      /\ moves[i].export = "none" /\ moves[i].import = "none"
      /\ running[moves[i].agent] = Nowhere /\ Open(moves[i])
  BY DEF Exports, Idle, Busy, IInv, MovesFit, StepFits, Open
<1>3. CASE Fails(i)
  BY <1>3, FailsKeeps
<1>4. CASE moves[i].from = Local /\ Imports(i, files[Local][moves[i].agent])
  <2>1. moves[i].agent \notin reverted => items[moves[i].agent] \subseteq files[Local][moves[i].agent]
    BY <1>1, <1>2, <1>4 DEF IInv, MovesHome, FromHome, HasItsFiles
  <2>2. files[Local][moves[i].agent] \in SUBSET Items
    BY <1>1, TransferAssumption DEF IInv, TypeOK
  <2> QED
    BY <1>2, <1>4, <2>1, <2>2, ImportsKeeps
<1>5. CASE /\ Becomes(i, [moves[i] EXCEPT !.state = "exporting", !.step = "exports", !.export = "queued"])
           /\ UNCHANGED <<saved, reserved, revoked, runs, disks>>
  <2> DEFINE m == [moves[i] EXCEPT !.state = "exporting", !.step = "exports", !.export = "queued"]
  <2>1. /\ m \in Move /\ m.agent = moves[i].agent /\ m.to = moves[i].to /\ m.from = moves[i].from
        /\ m.step = "exports" /\ m.state = "exporting" /\ m.export = "queued" /\ m.import = "none"
    BY <1>1, <1>2 DEF Move, Steps, CommandStates
  <2>2. /\ Open(m) /\ StepFits(m) /\ AgentIdle(m)
        /\ m.agent \notin reverted => Carries(m, items[m.agent], files'[m.to][m.agent])
    BY <1>2, <2>1 DEF Open, StepFits, AgentIdle, Carries
  <2>3. Becomes(i, m) /\ UNCHANGED <<profile, reverted, files, items>>
    BY <1>5 DEF saved, disks
  <2> HIDE DEF m
  <2>4. /\ files' \in [Machines -> [Agents -> SUBSET Items]]
        /\ \A k \in Machines : \A a \in Agents : files[k][a] \subseteq files'[k][a]
        /\ reserved' \in [Machines -> Agents \cup {Nobody}]
    BY <1>5, <2>3 DEF IInv, TypeOK
  <2>5. /\ TypeOK' /\ HasItsFiles' /\ RunsAtHome'
        /\ MovesFit' /\ MovesHome' /\ MovesIdle' /\ MovesCarry' /\ OneOpen'
    BY <1>2, <1>5, <2>1, <2>2, <2>3, <2>4, OneSteps
  <2>6. ReservationOwned'
    BY <1>5, <2>1, <2>2, <2>3, StillOwned
  <2> QED
    BY <2>5, <2>6 DEF IInv
<1> QED
  BY <1>3, <1>4, <1>5 DEF Exports

(* The result of the export is what the agent has, and is sent on.         *)
LEMMA ExportedKeeps ==
  ASSUME IInv, NEW i \in Ids, Exported(i)
  PROVE  IInv'
PROOF
<1>1. CASE Fails(i)
  BY <1>1, FailsKeeps
<1>2. CASE Imports(i, moves[i].bundle)
  <2>1. moves[i].step = "exports" /\ moves[i].export = "completed"
    BY DEF Exported
  <2>2. moves[i].state = "exporting" /\ moves[i].import = "none" /\ Open(moves[i])
    BY <2>1 DEF IInv, MovesFit, StepFits, Open
  <2>3. running[moves[i].agent] = Nowhere
    BY <2>1, <2>2 DEF IInv, MovesIdle, AgentIdle
  <2>4. moves[i].agent \notin reverted => items[moves[i].agent] \subseteq moves[i].bundle
    BY <2>1, <2>2 DEF IInv, MovesCarry, Carries
  <2>5. moves[i].bundle \in SUBSET Items
    BY MoveType DEF IInv, TypeOK
  <2> QED
    BY <1>2, <2>1, <2>2, <2>3, <2>4, <2>5, ImportsKeeps
<1> QED
  BY <1>1, <1>2 DEF Exported

(* The agent is assigned to a computer that has all its files.             *)
LEMMA ImportedKeeps ==
  ASSUME IInv, NEW i \in Ids, Imported(i)
  PROVE  IInv'
PROOF
<1> DEFINE fits == moves[i].reserve => MayAssign(moves[i].to, moves[i].agent)
           m == Left(moves[i], IF fits THEN "completed" ELSE "failed")
           a == moves[i].agent
<1>1. /\ moves[i] \in Move /\ a \in Agents /\ moves[i].from \in Machines
      /\ moves[i].to \in Machines /\ moves[i].reserve \in BOOLEAN
  BY MoveType DEF IInv, TypeOK
<1>2. /\ moves[i].state = "importing" /\ Open(moves[i]) /\ moves[i].step # "waits"
      /\ a \notin reverted => items[a] \subseteq files[moves[i].to][a]
  <2>1. CASE moves[i].step = "probes"
    BY <2>1 DEF IInv, MovesFit, StepFits, Open, MovesCarry, Carries
  <2>2. CASE moves[i].step = "imports" /\ moves[i].import = "completed"
    BY <2>2 DEF IInv, MovesFit, StepFits, Open, MovesCarry, Carries
  <2> QED
    BY <2>1, <2>2 DEF Imported
<1>3. running[a] = Nowhere /\ (a \notin reverted => moves[i].from = profile[a].at)
  BY <1>2 DEF IInv, MovesIdle, AgentIdle, MovesHome, FromHome
<1>4. m \in Move /\ m.agent = a /\ m.step = "gone" /\ ~ Open(m)
  BY <1>1, LeftType
<1>5. /\ moves' \in Seq(Move) /\ Ids' = Ids /\ moves'[i] = m
      /\ \A j \in Ids : j # i => moves'[j] = moves[j]
  BY <1>4, OneBecomes DEF Imported, IInv, TypeOK
<1>6. /\ profile' = [profile EXCEPT ![a] = [at |-> moves[i].to, reserve |-> moves[i].reserve]]
      /\ UNCHANGED <<edits, reverted, revoked, running, lingers, revived, files, items>>
      /\ reserved' = Reserve(Freed(moves[i]), moves[i].to, a, moves[i].reserve /\ fits)
  BY DEF Imported, runs, disks
<1>7. reserved' \in [Machines -> Agents \cup {Nobody}]
  <2>1. Freed(moves[i]) \in [Machines -> Agents \cup {Nobody}]
    BY <1>1 DEF Freed, Reserve, IInv, TypeOK
  <2> QED
    BY <1>1, <1>6, <2>1 DEF Reserve
<1>8. TypeOK'
  BY <1>1, <1>5, <1>6, <1>7 DEF IInv, TypeOK, Profile
<1>9. HasItsFiles' /\ RunsAtHome'
  BY <1>1, <1>2, <1>3, <1>6 DEF IInv, TypeOK, HasItsFiles, RunsAtHome
<1>10. \A j \in Ids : Open(moves'[j]) => j # i /\ moves'[j] = moves[j] /\ moves[j].agent # a
  BY <1>2, <1>4, <1>5 DEF IInv, OneOpen
<1>11. MovesFit'
  <2>1. StepFits(m)
    BY <1>4 DEF StepFits
  <2> QED
    BY <1>5, <2>1 DEF IInv, MovesFit
<1>12. MovesHome'
  BY <1>1, <1>5, <1>6, <1>10 DEF IInv, TypeOK, MovesHome, FromHome
<1>13. MovesIdle'
  BY <1>5, <1>6, <1>10 DEF IInv, MovesIdle, AgentIdle
<1>14. MovesCarry'
  <2> SUFFICES ASSUME NEW j \in Ids
               PROVE  LET n == moves'[j] IN
                      n.agent \notin reverted => Carries(n, items[n.agent], files[n.to][n.agent])
    BY <1>5, <1>6 DEF MovesCarry
  <2>1. CASE Open(moves'[j])
    BY <1>10, <2>1 DEF IInv, MovesCarry
  <2>2. CASE ~ Open(moves'[j])
    BY <2>2 DEF Carries
  <2> QED
    BY <2>1, <2>2
<1>15. OneOpen'
  BY <1>5, <1>10 DEF IInv, OneOpen
<1>16. ReservationOwned'
  <2> SUFFICES ASSUME NEW k \in Machines, reserved'[k] \notin reverted \cup {Nobody}
               PROVE  \/ profile'[reserved'[k]].at = k /\ profile'[reserved'[k]].reserve
                      \/ \E j \in Ids : moves'[j].agent = reserved'[k] /\ moves'[j].to = k /\ Open(moves'[j])
    BY <1>5, <1>6 DEF ReservationOwned
  <2>1. reserved'[k] = a => k = moves[i].to /\ moves[i].reserve
    <3>1. reserved[k] = a /\ a \notin reverted => k \in {moves[i].from, moves[i].to}
      BY <1>1, <1>2, <1>3, TransferAssumption DEF IInv, ReservationOwned, OneOpen
    <3> QED
      BY <1>1, <1>6, <3>1, TransferAssumption DEF Freed, Reserve, IInv, TypeOK
  <2>2. reserved'[k] # a => reserved'[k] = reserved[k]
    BY <1>1, <1>6 DEF Freed, Reserve, IInv, TypeOK
  <2>3. CASE reserved'[k] = a
    BY <1>1, <1>6, <2>1, <2>3 DEF IInv, TypeOK
  <2>4. CASE reserved'[k] # a
    <3>1. \/ profile[reserved[k]].at = k /\ profile[reserved[k]].reserve
          \/ \E j \in Ids : moves[j].agent = reserved[k] /\ moves[j].to = k /\ Open(moves[j])
      BY <2>2, <2>4 DEF IInv, ReservationOwned
    <3>2. \A j \in Ids : moves[j].agent = reserved[k] => moves'[j] = moves[j]
      BY <1>5, <2>2, <2>4
    <3>3. profile'[reserved[k]] = profile[reserved[k]]
      BY <1>6, <1>7, <2>2, <2>4 DEF IInv, TypeOK
    <3> QED
      BY <2>2, <2>4, <3>1, <3>2, <3>3
  <2> QED
    BY <2>3, <2>4
<1> QED
  BY <1>8, <1>9, <1>11, <1>12, <1>13, <1>14, <1>15, <1>16 DEF IInv

-----------------------------------------------------------------------------
(* Commands.                                                               *)

(* A command that is polled, reported or refused.                          *)
LEMMA GoesKeeps ==
  ASSUME IInv, NEW i \in Ids, NEW c \in Kinds, NEW from, NEW to \in CommandStates,
         Goes(i, c, {from}, to),
         <<from, to>> \in {<<"queued", "leased">>, <<"done", "completed">>, <<"leased", "failed">>},
         UNCHANGED <<saved, reserved, revoked, runs, disks>>
  PROVE  IInv'
PROOF
<1> DEFINE m == [moves[i] EXCEPT ![c] = to]
<1>1. moves[i] \in Move /\ moves[i][c] = from
  BY MoveType DEF IInv, TypeOK, Goes
<1>2. /\ m \in Move /\ m.agent = moves[i].agent /\ m.to = moves[i].to /\ m.from = moves[i].from
      /\ m.step = moves[i].step /\ m.state = moves[i].state /\ m.bundle = moves[i].bundle
      /\ c = "export" => m.export = to /\ m.import = moves[i].import /\ moves[i].export = from
      /\ c = "import" => m.import = to /\ m.export = moves[i].export /\ moves[i].import = from
  BY <1>1 DEF Move, Kinds
<1>3. Becomes(i, m) /\ UNCHANGED <<profile, reverted, files, items>>
  BY DEF Goes, saved, disks
<1> HIDE DEF m
<1>4. /\ StepFits(moves[i]) /\ AgentIdle(moves[i])
      /\ moves[i].agent \notin reverted => Carries(moves[i], items[moves[i].agent], files[moves[i].to][moves[i].agent])
  BY DEF IInv, MovesFit, MovesIdle, MovesCarry
<1>5. c = "export" \/ c = "import"
  BY DEF Kinds
<1>6. StepFits(m)
  BY <1>2, <1>4, <1>5 DEF StepFits, Open
<1>7. Open(m) <=> Open(moves[i])
  BY <1>2 DEF Open
<1>8. /\ AgentIdle(m)
      /\ m.agent \notin reverted => Carries(m, items[m.agent], files'[m.to][m.agent])
  BY <1>2, <1>3, <1>4, <1>5, <1>7 DEF AgentIdle, Carries
<1>9. /\ files' \in [Machines -> [Agents -> SUBSET Items]]
      /\ \A k \in Machines : \A a \in Agents : files[k][a] \subseteq files'[k][a]
      /\ reserved' \in [Machines -> Agents \cup {Nobody}]
  BY <1>3 DEF IInv, TypeOK
<1>10. /\ TypeOK' /\ HasItsFiles' /\ RunsAtHome'
       /\ MovesFit' /\ MovesHome' /\ MovesIdle' /\ MovesCarry' /\ OneOpen'
  BY <1>2, <1>3, <1>6, <1>7, <1>8, <1>9, OneSteps
<1>11. ReservationOwned'
  BY <1>2, <1>3, <1>7, StillOwned
<1> QED
  BY <1>10, <1>11 DEF IInv

(* The runner does its work: what it takes from an idle agent is all, and  *)
(* what it writes is there.                                                *)
LEMMA ExecutedKeeps ==
  ASSUME IInv, NEW i \in Ids, NEW c \in Kinds, Executed(i, c)
  PROVE  IInv'
PROOF
<1>1. /\ moves[i] \in Move /\ moves[i].agent \in Agents /\ moves[i].from \in Machines
      /\ moves[i].to \in Machines /\ moves[i].bundle \in SUBSET Items
  BY MoveType DEF IInv, TypeOK
<1>2. /\ StepFits(moves[i]) /\ AgentIdle(moves[i])
      /\ moves[i].agent \notin reverted => Carries(moves[i], items[moves[i].agent], files[moves[i].to][moves[i].agent])
  BY DEF IInv, MovesFit, MovesIdle, MovesCarry
<1>3. CASE c = "export"
  <2> DEFINE m == [moves[i] EXCEPT !.export = "done", !.bundle = Taken(moves[i])]
  <2>1. moves[i].export = "leased" /\ Becomes(i, m)
        /\ UNCHANGED <<saved, profile, reverted, reserved, revoked, runs, files, items>>
    BY <1>3 DEF Executed, saved
  <2>2. Taken(moves[i]) \in SUBSET Items
    BY <1>1 DEF Taken, IInv, TypeOK
  <2>3. /\ m \in Move /\ m.agent = moves[i].agent /\ m.to = moves[i].to /\ m.from = moves[i].from
        /\ m.step = moves[i].step /\ m.state = moves[i].state /\ m.import = moves[i].import
        /\ m.export = "done" /\ m.bundle = Taken(moves[i])
    BY <1>1, <2>2 DEF Move, CommandStates
  <2> HIDE DEF m
  <2>4. Open(m) <=> Open(moves[i])
    BY <2>3 DEF Open
  <2>5. Open(moves[i]) /\ m.agent \notin reverted => items[m.agent] \subseteq m.bundle
    BY <1>1, <2>3 DEF IInv, MovesHome, FromHome, HasItsFiles, Taken
  <2>6. /\ StepFits(m) /\ AgentIdle(m)
        /\ m.agent \notin reverted => Carries(m, items[m.agent], files'[m.to][m.agent])
    BY <1>2, <2>1, <2>3, <2>4, <2>5 DEF StepFits, AgentIdle, Carries, Open
  <2>7. /\ files' \in [Machines -> [Agents -> SUBSET Items]]
        /\ \A k \in Machines : \A a \in Agents : files[k][a] \subseteq files'[k][a]
        /\ reserved' \in [Machines -> Agents \cup {Nobody}]
    BY <2>1 DEF IInv, TypeOK
  <2>8. /\ TypeOK' /\ HasItsFiles' /\ RunsAtHome'
        /\ MovesFit' /\ MovesHome' /\ MovesIdle' /\ MovesCarry' /\ OneOpen'
    BY <2>1, <2>3, <2>4, <2>6, <2>7, OneSteps
  <2>9. ReservationOwned'
    BY <2>1, <2>3, <2>4, StillOwned
  <2> QED
    BY <2>8, <2>9 DEF IInv
<1>4. CASE c = "import"
  <2> DEFINE m == [moves[i] EXCEPT !.import = "done"]
  <2>1. /\ moves[i].import = "leased" /\ Becomes(i, m)
        /\ files' = [files EXCEPT ![moves[i].to][moves[i].agent] = @ \cup moves[i].bundle]
        /\ UNCHANGED <<saved, profile, reverted, reserved, revoked, runs, items>>
    BY <1>4 DEF Executed, saved
  <2>2. /\ m \in Move /\ m.agent = moves[i].agent /\ m.to = moves[i].to /\ m.from = moves[i].from
        /\ m.step = moves[i].step /\ m.state = moves[i].state /\ m.export = moves[i].export
        /\ m.import = "done" /\ m.bundle = moves[i].bundle
    BY <1>1 DEF Move, CommandStates
  <2> HIDE DEF m
  <2>3. /\ files' \in [Machines -> [Agents -> SUBSET Items]]
        /\ \A k \in Machines : \A a \in Agents : files[k][a] \subseteq files'[k][a]
        /\ moves[i].bundle \subseteq files'[m.to][m.agent]
    BY <1>1, <2>1, <2>2 DEF IInv, TypeOK
  <2>4. Open(m) <=> Open(moves[i])
    BY <2>2 DEF Open
  <2>5. /\ StepFits(m) /\ AgentIdle(m)
        /\ m.agent \notin reverted => Carries(m, items[m.agent], files'[m.to][m.agent])
    BY <1>2, <2>1, <2>2, <2>3, <2>4 DEF StepFits, AgentIdle, Carries, Open
  <2>6. reserved' \in [Machines -> Agents \cup {Nobody}]
    BY <2>1 DEF IInv, TypeOK
  <2>7. /\ TypeOK' /\ HasItsFiles' /\ RunsAtHome'
        /\ MovesFit' /\ MovesHome' /\ MovesIdle' /\ MovesCarry' /\ OneOpen'
    BY <2>1, <2>2, <2>3, <2>4, <2>5, <2>6, OneSteps
  <2>8. ReservationOwned'
    BY <2>1, <2>2, <2>4, StillOwned
  <2> QED
    BY <2>7, <2>8 DEF IInv
<1> QED
  BY <1>3, <1>4 DEF Kinds

(* A command whose outcome is uncertain fails, and its transfer with it.   *)
LEMMA ReconciledKeeps ==
  ASSUME IInv, NEW i \in Ids, NEW c \in Kinds, Reconciled(i, c)
  PROVE  IInv'
PROOF
<1> DEFINE n == [moves[i] EXCEPT ![c] = "failed"]
           m == IF moves[i].state \in {"exporting", "importing"} THEN [n EXCEPT !.state = "failed"] ELSE n
<1>1. /\ moves[i] \in Move /\ moves[i].agent \in Agents /\ moves[i].to \in Machines
      /\ moves[i][c] \in {"leased", "done"}
  BY MoveType DEF IInv, TypeOK, Reconciled
<1>2. c = "export" \/ c = "import"
  BY DEF Kinds
<1>3. /\ m \in Move /\ m.agent = moves[i].agent /\ m.to = moves[i].to /\ m.from = moves[i].from
      /\ m.step = moves[i].step
      /\ c = "export" => /\ m.export = "failed" /\ m.import = moves[i].import
                         /\ moves[i].export \in {"leased", "done"}
      /\ c = "import" => /\ m.import = "failed" /\ m.export = moves[i].export
                         /\ moves[i].import \in {"leased", "done"}
      /\ m.state = IF moves[i].state \in {"exporting", "importing"} THEN "failed" ELSE moves[i].state
  BY <1>1, <1>2 DEF Move, CommandStates
<1>4. Becomes(i, m) /\ UNCHANGED <<saved, profile, reverted, revoked, runs, files, items>>
  BY DEF Reconciled, saved, disks
<1> HIDE DEF m, n
<1>5. StepFits(moves[i])
  BY DEF IInv, MovesFit
<1>6. StepFits(m)
  BY <1>2, <1>3, <1>5 DEF StepFits, Open
<1>7. ~ Open(m)
  BY <1>2, <1>3, <1>5, <1>1 DEF StepFits, Open, Move, Steps
<1>8. AgentIdle(m) /\ Carries(m, items[m.agent], files'[m.to][m.agent])
  BY <1>7 DEF AgentIdle, Carries
<1>9. ReservationOwned' /\ reserved' \in [Machines -> Agents \cup {Nobody}]
  <2>1. CASE moves[i].state \in {"exporting", "importing"}
    BY <1>3, <1>4, <2>1, GivenBack DEF Reconciled
  <2>2. CASE moves[i].state \notin {"exporting", "importing"}
    <3>1. reserved' = reserved
      BY <2>2 DEF Reconciled
    <3>2. ~ Open(moves[i])
      BY <1>3, <1>7, <2>2 DEF Open
    <3> QED
      BY <1>3, <1>4, <3>1, <3>2, StillOwned DEF IInv, TypeOK
  <2> QED
    BY <2>1, <2>2
<1>10. /\ files' \in [Machines -> [Agents -> SUBSET Items]]
       /\ \A k \in Machines : \A a \in Agents : files[k][a] \subseteq files'[k][a]
  BY <1>4 DEF IInv, TypeOK
<1>11. /\ TypeOK' /\ HasItsFiles' /\ RunsAtHome'
       /\ MovesFit' /\ MovesHome' /\ MovesIdle' /\ MovesCarry' /\ OneOpen'
  BY <1>3, <1>4, <1>6, <1>7, <1>8, <1>9, <1>10, OneSteps
<1> QED
  BY <1>9, <1>11 DEF IInv

(* No transfer survives a restart, nor what it had reserved.               *)
LEMMA RestartKeeps ==
  ASSUME IInv, Restart
  PROVE  IInv'
PROOF
<1>1. /\ moves' = [i \in Ids |-> Closed(moves[i])]
      /\ running' = [a \in Agents |-> Nowhere]
      /\ lingers' = [a \in Agents |-> (lingers[a] \cup {running[a]}) \ {Local, Nowhere}]
      /\ revived' = [a \in Agents |-> {}] /\ edits' = [a \in Agents |-> {}]
      /\ UNCHANGED <<profile, reverted, revoked, files, items>>
  BY DEF Restart, disks
<1>2. \A i \in Ids : /\ moves[i] \in Move /\ Closed(moves[i]) \in Move
                     /\ Closed(moves[i]).step = "gone" /\ ~ Open(Closed(moves[i]))
  <2> SUFFICES ASSUME NEW i \in Ids
               PROVE  /\ moves[i] \in Move /\ Closed(moves[i]) \in Move
                      /\ Closed(moves[i]).step = "gone" /\ ~ Open(Closed(moves[i]))
    OBVIOUS
  <2>1. moves[i] \in Move
    BY MoveType DEF IInv, TypeOK
  <2> QED
    <3>1. ASSUME Open(moves[i])
          PROVE  Closed(moves[i]) = Left(moves[i], "failed")
      BY <3>1 DEF Closed
    <3>2. ASSUME ~ Open(moves[i])
          PROVE  Closed(moves[i]) = Left(moves[i], moves[i].state)
                 /\ moves[i].state \in {"completed", "failed"}
      BY <2>1, <3>2 DEF Closed, Move, Open
    <3> QED
      BY <2>1, <3>1, <3>2, LeftType
<1>3. Ids = 1..Len(moves) /\ Len(moves) \in Nat
  BY DEF Ids, IInv, TypeOK
<1>4. Ids' = Ids /\ \A i \in Ids : moves'[i] = Closed(moves[i])
  BY <1>1 DEF Ids
<1>5. moves' \in Seq(Move)
  BY <1>1, <1>2, <1>3
<1>6. reserved' \in [Machines -> Agents \cup {Nobody}]
      /\ \A k \in Machines : reserved'[k] # Nobody =>
           /\ reserved'[k] = reserved[k]
           /\ ~ \E i \in Ids : Open(moves[i]) /\ moves[i].to = k /\ moves[i].agent = reserved[k]
  BY DEF Restart, IInv, TypeOK
<1>7. TypeOK'
  BY <1>1, <1>5, <1>6 DEF IInv, TypeOK
<1>8. HasItsFiles' /\ RunsAtHome'
  BY <1>1 DEF IInv, TypeOK, HasItsFiles, RunsAtHome
<1>9. MovesFit'
  BY <1>2, <1>4 DEF MovesFit, StepFits
<1>10. MovesHome' /\ MovesIdle' /\ OneOpen'
  BY <1>2, <1>4 DEF MovesHome, FromHome, MovesIdle, AgentIdle, OneOpen
<1>11. MovesCarry'
  BY <1>2, <1>4 DEF MovesCarry, Carries
<1>12. ReservationOwned'
  BY <1>1, <1>6 DEF IInv, ReservationOwned
<1> QED
  BY <1>7, <1>8, <1>9, <1>10, <1>11, <1>12 DEF IInv

-----------------------------------------------------------------------------
(* Requests and runs.                                                      *)

(* A transfer begins where the agent is, and is its only one.              *)
LEMMA BeginsKeeps ==
  ASSUME IInv, NEW a \in Agents, NEW k \in Machines, NEW yes \in BOOLEAN,
         ~ Transferring(a), Begins(a, k, yes),
         UNCHANGED <<profile, reverted, revoked, runs, disks>>,
         edits' \in [Agents -> SUBSET Profile],
         reserved' \in [Machines -> Agents \cup {Nobody}],
         \A x \in Machines : reserved'[x] \in {Nobody, reserved[x]} \/ (x = k /\ reserved'[x] = a)
  PROVE  IInv'
PROOF
<1> DEFINE m == [ agent |-> a, from |-> profile[a].at, to |-> k, reserve |-> yes,
                  state |-> "queued", step |-> "waits",
                  export |-> "none", import |-> "none", bundle |-> {} ]
           l == Len(moves) + 1
<1> UNCHANGED <<running, lingers, revived, files, items>>
  BY DEF runs, disks
<1>1. m \in Move
  BY DEF Move, Steps, CommandStates, IInv, TypeOK, Profile
<1>2. moves' = Append(moves, m)
  BY DEF Begins
<1>3. /\ m.agent = a /\ m.from = profile[a].at /\ m.to = k /\ m.state = "queued"
      /\ m.step = "waits" /\ m.export = "none" /\ m.import = "none"
  OBVIOUS
<1> HIDE DEF m
<1>4. /\ moves' \in Seq(Move) /\ Len(moves) \in Nat
      /\ Ids = 1..Len(moves) /\ Ids' = 1..l
      /\ moves'[l] = m /\ \A i \in Ids : moves'[i] = moves[i]
  BY <1>1, <1>2, AppendProperties DEF IInv, TypeOK, Ids
<1>5. l \notin Ids /\ Ids' = Ids \cup {l}
  BY <1>4
<1>6. /\ Open(m) /\ StepFits(m) /\ FromHome(m) /\ AgentIdle(m)
      /\ m.agent \notin reverted => Carries(m, items[m.agent], files[m.to][m.agent])
  BY <1>3 DEF Open, StepFits, FromHome, AgentIdle, Carries
<1>7. TypeOK'
  BY <1>4 DEF IInv, TypeOK
<1>8. HasItsFiles' /\ RunsAtHome'
  BY DEF IInv, TypeOK, HasItsFiles, RunsAtHome
<1>9. MovesFit'
  BY <1>4, <1>5, <1>6 DEF IInv, MovesFit
<1>10. MovesHome'
  BY <1>4, <1>5, <1>6 DEF IInv, MovesHome, FromHome
<1>11. MovesIdle'
  BY <1>4, <1>5, <1>6 DEF IInv, MovesIdle, AgentIdle
<1>12. MovesCarry'
  BY <1>4, <1>5, <1>6 DEF IInv, MovesCarry
<1>13. OneOpen'
  <2>1. \A i \in Ids : Open(moves[i]) => moves[i].agent # a
    BY DEF Transferring
  <2> QED
    BY <1>3, <1>4, <1>5, <2>1 DEF IInv, OneOpen
<1>14. ReservationOwned'
  <2> SUFFICES ASSUME NEW x \in Machines, reserved'[x] \notin reverted \cup {Nobody}
               PROVE  \/ profile[reserved'[x]].at = x /\ profile[reserved'[x]].reserve
                      \/ \E j \in Ids' : moves'[j].agent = reserved'[x] /\ moves'[j].to = x /\ Open(moves'[j])
    BY DEF ReservationOwned
  <2>1. CASE reserved'[x] = reserved[x]
    <3>1. \/ profile[reserved[x]].at = x /\ profile[reserved[x]].reserve
          \/ \E j \in Ids : moves[j].agent = reserved[x] /\ moves[j].to = x /\ Open(moves[j])
      BY <2>1 DEF IInv, ReservationOwned
    <3> QED
      BY <1>4, <1>5, <2>1, <3>1
  <2>2. CASE x = k /\ reserved'[x] = a
    BY <1>3, <1>4, <1>5, <1>6, <2>2
  <2> QED
    BY <2>1, <2>2
<1> QED
  BY <1>7, <1>8, <1>9, <1>10, <1>11, <1>12, <1>13, <1>14 DEF IInv

(* The two routes by which an operator changes the computer of an agent.   *)
LEMMA RequestsKeep ==
  ASSUME IInv, NEW a \in Agents, NEW k \in Machines,
         Transfer(a, k) \/ \E yes \in BOOLEAN : SaveProfile(a, k, yes)
  PROVE  IInv'
PROOF
<1>1. CASE Transfer(a, k)
  <2>1. profile[a].reserve \in BOOLEAN
    BY DEF IInv, TypeOK, Profile
  <2>2. ~ Transferring(a) /\ Begins(a, k, profile[a].reserve)
        /\ UNCHANGED <<profile, edits, reverted, reserved, revoked, runs, disks>>
    BY <1>1 DEF Transfer, saved
  <2> QED
    BY <2>1, <2>2, BeginsKeeps DEF IInv, TypeOK
<1>2. ASSUME NEW yes \in BOOLEAN, SaveProfile(a, k, yes)
      PROVE  IInv'
  <2>1. /\ ~ Transferring(a) /\ reserved[k] \in {Nobody, a}
        /\ reserved' = Reserve(reserved, k, a, yes)
        /\ UNCHANGED <<reverted, revoked, runs, running, lingers, revived, disks, files, items>>
        /\ edits' \in [Agents -> SUBSET Profile]
    BY <1>2 DEF SaveProfile, MayAssign, runs, disks, IInv, TypeOK
  <2>2. /\ reserved' \in [Machines -> Agents \cup {Nobody}]
        /\ \A x \in Machines : x # k => reserved'[x] = reserved[x]
        /\ reserved'[k] = IF yes THEN a ELSE Nobody
    BY <2>1, TransferAssumption DEF Reserve, IInv, TypeOK
  <2>3. CASE k # profile[a].at
    BY <1>2, <2>1, <2>2, <2>3, BeginsKeeps DEF SaveProfile
  <2>4. CASE k = profile[a].at
    <3>1. profile' = [profile EXCEPT ![a].reserve = yes] /\ UNCHANGED moves
      BY <1>2, <2>4 DEF SaveProfile
    <3>2. /\ profile' \in [Agents -> Profile]
          /\ \A b \in Agents : profile'[b].at = profile[b].at
          /\ \A b \in Agents : b # a => profile'[b] = profile[b]
      <4>1. /\ profile \in [Agents -> Profile] /\ profile[a] \in Profile
            /\ [profile[a] EXCEPT !.reserve = yes] \in Profile
            /\ [profile[a] EXCEPT !.reserve = yes].at = profile[a].at
        BY DEF IInv, TypeOK, Profile
      <4>2. profile' = [profile EXCEPT ![a] = [profile[a] EXCEPT !.reserve = yes]]
        BY <3>1
      <4> QED
        BY <4>1, <4>2
    <3>9. profile'[a].reserve = yes
      BY <3>1 DEF IInv, TypeOK, Profile
    <3>3. TypeOK'
      BY <2>1, <2>2, <3>1, <3>2 DEF IInv, TypeOK
    <3>4. HasItsFiles' /\ RunsAtHome'
      BY <2>1, <3>1, <3>2 DEF IInv, HasItsFiles, RunsAtHome
    <3>5. \A i \in Ids : moves[i].agent \in Agents
      BY MoveType DEF IInv, TypeOK
    <3>6. MovesFit' /\ MovesIdle' /\ MovesCarry' /\ OneOpen'
      BY <2>1, <3>1 DEF IInv, MovesFit, MovesIdle, AgentIdle, MovesCarry, OneOpen, Ids
    <3>7. MovesHome'
      BY <2>1, <3>1, <3>2, <3>5 DEF IInv, MovesHome, FromHome, Ids
    <3>8. ReservationOwned'
      <4> SUFFICES ASSUME NEW x \in Machines, reserved'[x] \notin reverted \cup {Nobody}
                   PROVE  \/ profile'[reserved'[x]].at = x /\ profile'[reserved'[x]].reserve
                          \/ \E j \in Ids : moves[j].agent = reserved'[x] /\ moves[j].to = x /\ Open(moves[j])
        BY <2>1, <3>1 DEF ReservationOwned, Ids
      <4>1. CASE x = k
        <5>1. yes = TRUE /\ reserved'[x] = a
          BY <2>2, <4>1
        <5>2. profile'[a].at = x
          BY <2>4, <3>2, <4>1
        <5>4. profile'[a].reserve
          BY <5>1, <3>9, Zenon
        <5>5. profile'[reserved'[x]].at = x /\ profile'[reserved'[x]].reserve
          BY <5>1, <5>2, <5>4, Zenon
        <5> QED
          BY <5>5, Zenon
      <4>2. CASE x # k
        <5>1. \/ profile[reserved[x]].at = x /\ profile[reserved[x]].reserve
              \/ \E j \in Ids : moves[j].agent = reserved[x] /\ moves[j].to = x /\ Open(moves[j])
          BY <2>2, <4>2 DEF IInv, ReservationOwned
        <5>2. reserved[x] \in Agents
          BY <2>2, <4>2 DEF IInv, TypeOK
        <5> QED
          BY <2>2, <2>4, <3>2, <4>2, <5>1, <5>2
      <4> QED
        BY <4>1, <4>2
    <3> QED
      BY <3>3, <3>4, <3>6, <3>7, <3>8 DEF IInv
  <2> QED
    BY <2>3, <2>4
<1> QED
  BY <1>1, <1>2

(* A credential request takes its copy of the profile, and puts it back as *)
(* it was or moves the agent.                                              *)
LEMMA EditsKeep ==
  ASSUME IInv, NEW a \in Agents,
         ReadsProfile(a) \/ \E p \in edits[a] : SavesCredential(a, p)
  PROVE  IInv'
PROOF
<1>1. /\ UNCHANGED <<reserved, revoked, moves, running, lingers, revived, files, items>>
      /\ profile \in [Agents -> Profile] /\ edits \in [Agents -> SUBSET Profile]
  BY DEF ReadsProfile, SavesCredential, runs, disks, IInv, TypeOK
<1> DEFINE Others == /\ profile' \in [Agents -> Profile] /\ edits' \in [Agents -> SUBSET Profile]
                     /\ reverted' \in SUBSET Agents /\ reverted \subseteq reverted'
                     /\ \A b \in Agents \ reverted' : profile'[b] = profile[b]
<1>2. Others
  <2>1. CASE ReadsProfile(a)
    BY <1>1, <2>1 DEF ReadsProfile, IInv, TypeOK
  <2>2. ASSUME NEW p \in edits[a], SavesCredential(a, p)
        PROVE  Others
    BY <1>1, <2>2 DEF SavesCredential, IInv, TypeOK
  <2> QED
    BY <2>1, <2>2
<1>3. TypeOK'
  BY <1>1, <1>2 DEF IInv, TypeOK
<1>4. HasItsFiles' /\ RunsAtHome'
  BY <1>1, <1>2 DEF IInv, HasItsFiles, RunsAtHome
<1>5. \A i \in Ids : moves[i].agent \in Agents
  BY MoveType DEF IInv, TypeOK
<1>6. MovesFit' /\ MovesIdle' /\ OneOpen'
  BY <1>1 DEF IInv, MovesFit, MovesIdle, AgentIdle, OneOpen, Ids
<1>7. MovesHome' /\ MovesCarry'
  BY <1>1, <1>2, <1>5 DEF IInv, MovesHome, FromHome, MovesCarry, Ids
<1>8. ReservationOwned'
  <2>1. \A k \in Machines : reserved[k] \in Agents \cup {Nobody}
    BY DEF IInv, TypeOK
  <2> QED
    BY <1>1, <1>2, <2>1 DEF IInv, ReservationOwned, Ids
<1> QED
  BY <1>3, <1>4, <1>6, <1>7, <1>8 DEF IInv

(* Work, questions and ends of runs that are over.                         *)
LEMMA LateKeeps ==
  ASSUME IInv, NEW a \in Agents, NEW k \in Machines,
         \/ Revives(a, k) \/ Ceases(a, k) \/ Dismisses(a, k)
         \/ \E i \in Items : WorksOn(a, k, i)
  PROVE  IInv'
PROOF
<1>1. /\ UNCHANGED <<profile, edits, reverted, reserved, revoked, moves, running>>
      /\ lingers' \in [Agents -> SUBSET Machines] /\ revived' \in [Agents -> SUBSET Machines]
  <2>1. CASE Revives(a, k)
    BY <2>1 DEF Revives, saved, IInv, TypeOK
  <2>2. CASE Ceases(a, k)
    BY <2>2 DEF Ceases, saved, IInv, TypeOK
  <2>3. CASE Dismisses(a, k)
    BY <2>3 DEF Dismisses, saved, IInv, TypeOK
  <2>4. CASE \E i \in Items : WorksOn(a, k, i)
    BY <2>4 DEF WorksOn, saved, runs, IInv, TypeOK
  <2> QED
    BY <2>1, <2>2, <2>3, <2>4
<1> DEFINE Shrinks == /\ files' \in [Machines -> [Agents -> SUBSET Items]]
                      /\ items' \in [Agents -> SUBSET Items]
                      /\ \A b \in Agents : items'[b] \subseteq items[b]
                      /\ \A b \in Agents, h \in Machines :
                           items[b] \subseteq files[h][b] => items'[b] \subseteq files'[h][b]
<1>2. Shrinks
  <2>1. CASE UNCHANGED disks
    BY <2>1 DEF disks, IInv, TypeOK
  <2>2. ASSUME NEW x \in Items, WorksOn(a, k, x)
        PROVE  Shrinks
    <3> DEFINE f2 == Toggled(files[k][a], x)
               i2 == IF x \in files[k][a] THEN items[a] \ {x} ELSE items[a]
    <3>1. /\ files \in [Machines -> [Agents -> SUBSET Items]] /\ items \in [Agents -> SUBSET Items]
          /\ files[k][a] \in SUBSET Items /\ items[a] \in SUBSET Items
      BY DEF IInv, TypeOK
    <3>2. /\ f2 \in SUBSET Items /\ i2 \in SUBSET Items /\ i2 \subseteq items[a]
          /\ items[a] \subseteq files[k][a] => i2 \subseteq f2
      BY <3>1 DEF Toggled
    <3>3. /\ files' = [files EXCEPT ![k] = [files[k] EXCEPT ![a] = f2]]
          /\ items' = [items EXCEPT ![a] = i2]
      BY <2>2, <3>1 DEF WorksOn
    <3> HIDE DEF f2, i2
    <3>4. /\ files' \in [Machines -> [Agents -> SUBSET Items]]
          /\ items' \in [Agents -> SUBSET Items]
          /\ items'[a] = i2 /\ files'[k][a] = f2
          /\ \A b \in Agents : b # a => items'[b] = items[b] /\ files'[k][b] = files[k][b]
          /\ \A h \in Machines : h # k => files'[h] = files[h]
      BY <3>1, <3>2, <3>3
    <3>5. ASSUME NEW b \in Agents, NEW h \in Machines, items[b] \subseteq files[h][b]
          PROVE  items'[b] \subseteq files'[h][b]
      <4>1. CASE h = k
        BY <3>2, <3>4, <3>5, <4>1
      <4>2. CASE h # k
        BY <3>2, <3>4, <3>5, <4>2
      <4> QED
        BY <4>1, <4>2
    <3>6. \A b \in Agents : items'[b] \subseteq items[b]
      BY <3>2, <3>4
    <3> QED
      BY <3>4, <3>5, <3>6
  <2> QED
    BY <2>1, <2>2 DEF Revives, Ceases, Dismisses
<1>3. \A i \in Ids : moves[i].agent \in Agents /\ moves[i].to \in Machines
  BY MoveType DEF IInv, TypeOK
<1>4. TypeOK'
  BY <1>1, <1>2 DEF IInv, TypeOK
<1>5. HasItsFiles' /\ RunsAtHome'
  BY <1>1, <1>2 DEF IInv, TypeOK, Profile, HasItsFiles, RunsAtHome
<1>6. MovesFit' /\ MovesHome' /\ MovesIdle' /\ OneOpen' /\ ReservationOwned'
  BY <1>1 DEF IInv, MovesFit, MovesHome, FromHome, MovesIdle, AgentIdle, OneOpen, ReservationOwned, Ids
<1>7. MovesCarry'
  <2> SUFFICES ASSUME NEW i \in Ids, moves[i].agent \notin reverted
               PROVE  Carries(moves[i], items'[moves[i].agent], files'[moves[i].to][moves[i].agent])
    BY <1>1 DEF MovesCarry, Ids
  <2>1. Carries(moves[i], items[moves[i].agent], files[moves[i].to][moves[i].agent])
    BY DEF IInv, MovesCarry
  <2>2. /\ items'[moves[i].agent] \subseteq items[moves[i].agent]
        /\ items[moves[i].agent] \subseteq files[moves[i].to][moves[i].agent] =>
             items'[moves[i].agent] \subseteq files'[moves[i].to][moves[i].agent]
    BY <1>2, <1>3
  <2> QED
    BY <2>1, <2>2 DEF Carries
<1> QED
  BY <1>4, <1>5, <1>6, <1>7 DEF IInv

(* Runs start where the agent is assigned, and not during a transfer; what *)
(* they write or remove is there.                                          *)
LEMMA RunsKeep ==
  ASSUME IInv, NEW a \in Agents,
         Starts(a) \/ Ends(a) \/ \E i \in Items : Works(a, i)
  PROVE  IInv'
PROOF
<1>1. \A i \in Ids : moves[i].agent \in Agents /\ moves[i].to \in Machines
  BY MoveType DEF IInv, TypeOK
<1>2. UNCHANGED <<profile, edits, reverted, reserved, revoked, moves, revived>>
  BY DEF Starts, Ends, Works, saved, runs
<1>3. MovesFit' /\ MovesHome' /\ OneOpen' /\ ReservationOwned'
  BY <1>2 DEF IInv, MovesFit, MovesHome, FromHome, OneOpen, ReservationOwned, Ids
<1>4. CASE Starts(a) \/ Ends(a)
  <2>1. /\ running' \in [Agents -> Machines \cup {Nowhere}]
        /\ \A b \in Agents : b # a => running'[b] = running[b]
        /\ running'[a] \in {Nowhere, profile[a].at}
        /\ Transferring(a) => running'[a] = Nowhere
        /\ lingers' \in [Agents -> SUBSET Machines]
        /\ UNCHANGED <<files, items>>
    <3>1. CASE Starts(a)
      <4>1. profile[a].at \in Machines
        BY DEF IInv, TypeOK, Profile
      <4> QED
        BY <3>1, <4>1 DEF Starts, Admits, disks, IInv, TypeOK
    <3>2. CASE Ends(a)
      <4>1. running[a] \in Machines /\ lingers[a] \cup {running[a]} \in SUBSET Machines
        BY <3>2 DEF Ends, IInv, TypeOK
      <4>2. lingers' \in [Agents -> SUBSET Machines]
        BY <3>2, <4>1 DEF Ends, IInv, TypeOK
      <4> QED
        BY <3>2, <4>2 DEF Ends, disks, IInv, TypeOK
    <3> QED
      BY <1>4, <3>1, <3>2
  <2>2. TypeOK' /\ HasItsFiles' /\ RunsAtHome'
    BY <1>2, <2>1 DEF IInv, TypeOK, Profile, HasItsFiles, RunsAtHome
  <2>3. MovesIdle'
    BY <1>1, <1>2, <2>1 DEF IInv, MovesIdle, AgentIdle, Transferring, Ids
  <2>4. MovesCarry'
    BY <1>2, <2>1 DEF IInv, MovesCarry, Ids
  <2> QED
    BY <1>3, <2>2, <2>3, <2>4 DEF IInv
<1>5. ASSUME NEW x \in Items, Works(a, x)
      PROVE  IInv'
  <2>1. /\ running[a] \in Machines /\ running[a] # Nowhere
        /\ a \notin reverted => running[a] = profile[a].at
        /\ UNCHANGED <<running, lingers>>
    BY <1>5, TransferAssumption DEF Works, runs, IInv, TypeOK, RunsAtHome
  <2>2. \A i \in Ids : Open(moves[i]) /\ moves[i].agent = a => moves[i].step = "waits"
    BY <2>1 DEF IInv, MovesIdle, AgentIdle
  <2>3. /\ files' \in [Machines -> [Agents -> SUBSET Items]]
        /\ items' \in [Agents -> SUBSET Items]
        /\ \A b \in Agents : b # a =>
             items'[b] = items[b] /\ \A k \in Machines : files'[k][b] = files[k][b]
        /\ items[a] \subseteq files[running[a]][a] => items'[a] \subseteq files'[running[a]][a]
    <3> DEFINE h == running[a]
    <3>1. /\ files \in [Machines -> [Agents -> SUBSET Items]] /\ items \in [Agents -> SUBSET Items]
          /\ h \in Machines
      BY <2>1 DEF IInv, TypeOK
    <3>2. PICK i2 \in SUBSET Items, f2 \in SUBSET Items :
             /\ items' = [items EXCEPT ![a] = i2]
             /\ files' = [files EXCEPT ![h] = [files[h] EXCEPT ![a] = f2]]
             /\ items[a] \subseteq files[h][a] => i2 \subseteq f2
      <4>1. items[a] \in SUBSET Items /\ files[h][a] \in SUBSET Items
        BY <3>1
      <4>2. CASE x \in items[a]
        <5> DEFINE i3 == items[a] \ {x}
                   f3 == files[h][a] \ {x}
        <5>1. /\ items' = [items EXCEPT ![a] = i3]
              /\ files' = [files EXCEPT ![h] = [files[h] EXCEPT ![a] = f3]]
          BY <1>5, <4>2 DEF Works, Toggled
        <5> i3 \in SUBSET Items /\ f3 \in SUBSET Items
          BY <4>1
        <5>2. items[a] \subseteq files[h][a] => i3 \subseteq f3
          OBVIOUS
        <5> HIDE DEF i3, f3
        <5> WITNESS i3 \in SUBSET Items, f3 \in SUBSET Items
        <5> QED
          BY <5>1, <5>2
      <4>3. CASE x \notin items[a]
        <5>1. /\ items' = [items EXCEPT ![a] = items[a] \cup {x}]
              /\ files' = [files EXCEPT ![h] = [files[h] EXCEPT ![a] = files[h][a] \cup {x}]]
          BY <1>5, <4>3 DEF Works, Toggled
        <5> items[a] \cup {x} \in SUBSET Items /\ files[h][a] \cup {x} \in SUBSET Items
          BY <4>1
        <5>2. items[a] \subseteq files[h][a] => items[a] \cup {x} \subseteq files[h][a] \cup {x}
          OBVIOUS
        <5> WITNESS items[a] \cup {x} \in SUBSET Items, files[h][a] \cup {x} \in SUBSET Items
        <5> QED
          BY <5>1, <5>2
      <4> QED
        BY <4>2, <4>3
    <3> HIDE DEF h
    <3>3. /\ files' \in [Machines -> [Agents -> SUBSET Items]]
          /\ items' \in [Agents -> SUBSET Items]
          /\ items'[a] = i2 /\ files'[h][a] = f2
          /\ \A b \in Agents : b # a => items'[b] = items[b]
      BY <3>1, <3>2
    <3>4. ASSUME NEW b \in Agents, b # a, NEW k \in Machines
          PROVE  files'[k][b] = files[k][b]
      BY <3>1, <3>2, <3>4
    <3>5. items[a] \subseteq files[running[a]][a] => items'[a] \subseteq files'[running[a]][a]
      BY <3>2, <3>3 DEF h
    <3> QED
      BY <3>3, <3>4, <3>5
  <2>4. TypeOK' /\ HasItsFiles' /\ RunsAtHome'
    BY <1>2, <2>1, <2>3 DEF IInv, TypeOK, Profile, HasItsFiles, RunsAtHome
  <2>5. MovesIdle'
    BY <1>2, <2>1 DEF IInv, MovesIdle, AgentIdle, Ids
  <2>6. MovesCarry'
    <3> SUFFICES ASSUME NEW i \in Ids, moves[i].agent \notin reverted
                 PROVE  Carries(moves[i], items'[moves[i].agent], files'[moves[i].to][moves[i].agent])
      BY <1>2 DEF MovesCarry, Ids
    <3>1. CASE moves[i].agent = a
      BY <2>2, <3>1 DEF Carries
    <3>2. CASE moves[i].agent # a
      BY <1>1, <2>3, <3>2 DEF IInv, MovesCarry
    <3> QED
      BY <3>1, <3>2
  <2> QED
    BY <1>3, <2>4, <2>5, <2>6 DEF IInv
<1> QED
  BY <1>4, <1>5

-----------------------------------------------------------------------------
(* Every step keeps the invariant. *)
LEMMA NextKeeps ==
  ASSUME IInv, [Next]_vars
  PROVE  IInv'
PROOF
<1>1. ASSUME NEW i \in Ids, NEW c \in Kinds,
             Polled(i, c) \/ Reported(i, c) \/ Refused(i, c)
      PROVE  IInv'
  <2>1. CASE Polled(i, c)
    BY <2>1, GoesKeeps DEF Polled, CommandStates
  <2>2. CASE Reported(i, c)
    BY <2>2, GoesKeeps DEF Reported, CommandStates
  <2>3. CASE Refused(i, c)
    BY <2>3, GoesKeeps DEF Refused, CommandStates
  <2> QED
    BY <1>1, <2>1, <2>2, <2>3
<1>2. ASSUME NEW k \in Machines, Revoke(k)
      PROVE  IInv'
  <2>1. /\ revoked' \in SUBSET Machines
        /\ UNCHANGED <<profile, edits, reverted, reserved, moves, running, lingers, revived, files, items>>
    BY <1>2 DEF Revoke, saved, runs, disks, IInv, TypeOK
  <2> QED
    BY <2>1 DEF IInv, TypeOK, HasItsFiles, RunsAtHome, ReservationOwned, MovesFit, MovesHome, FromHome,
                MovesIdle, AgentIdle, MovesCarry, OneOpen, Ids
<1>3. CASE UNCHANGED vars
  BY <1>3 DEF vars, saved, runs, disks, IInv, TypeOK, HasItsFiles, RunsAtHome, ReservationOwned, MovesFit, MovesHome,
              FromHome, MovesIdle, AgentIdle, MovesCarry, OneOpen, Ids
<1>4. ASSUME NEW i \in Ids, GivesUp(i)
      PROVE  IInv'
  BY <1>4, FailsKeeps DEF GivesUp
<1> QED
  BY <1>1, <1>2, <1>3, <1>4, RunsKeep, LateKeeps, EditsKeep, RequestsKeep, RestartKeeps, ExportsKeeps, ExportedKeeps,
     ImportedKeeps, ExecutedKeeps, ReconciledKeeps DEF Next

(* The first state. *)
LEMMA InitHolds == Init => IInv
PROOF BY TransferAssumption DEF Init, IInv, TypeOK, HasItsFiles, RunsAtHome, ReservationOwned,
     MovesFit, MovesHome, MovesIdle, MovesCarry, OneOpen, Ids, Move, Profile

(* The invariant holds in every state that can be reached. *)
LEMMA Invariance == Spec => []IInv
PROOF
<1>1. IInv /\ [Next]_vars => IInv'
  BY NextKeeps
<1> QED
  BY <1>1, InitHolds, PTL DEF Spec

(* The tables and coroutines stay well formed.                             *)
THEOREM TypeCorrect == Spec => []TypeOK
PROOF
<1>1. IInv => TypeOK
  BY DEF IInv
<1> QED
  BY <1>1, Invariance, PTL

(* Wherever an agent is assigned, what its active runs have left is: for   *)
(* any number of transfers, restarts, revocations and failures of          *)
(* performTransfer(), and whatever work goes on after its run has ended.   *)
THEOREM FilesFollow == Spec => []HasItsFiles
PROOF
<1>1. IInv => HasItsFiles
  BY DEF IInv
<1> QED
  BY <1>1, Invariance, PTL

(* No transfer changes the assignment under a run that pump() admitted and *)
(* whose end is not recorded, with any late questions of the runs before.  *)
THEOREM RunsStayHome == Spec => []RunsAtHome
PROOF
<1>1. IInv => RunsAtHome
  BY DEF IInv
<1> QED
  BY <1>1, Invariance, PTL

(* No reservation is left behind by a transfer, however it ends, but for   *)
(* an agent that a credential request has moved back.                      *)
THEOREM ReservationsOwned == Spec => []ReservationOwned
PROOF
<1>1. IInv => ReservationOwned
  BY DEF IInv
<1> QED
  BY <1>1, Invariance, PTL
=============================================================================
