--------------------------- MODULE RemoteRunsProofs ---------------------------
(***************************************************************************)
(* Theorems about RemoteRuns, for any number of runs, agents and faults.   *)
(*                                                                         *)
(* IInv is the inductive invariant: the types, the two safety invariants,  *)
(* and the order in which a command comes into being: a run that has not   *)
(* been dispatched has no command, and the runner knows only commands that *)
(* have been leased.  OInv, for OutcomeHeard, says what the runner and its *)
(* spool know of a command at the same time; SentForBegun, for the         *)
(* refinement of RunService, that commands are about runs that have begun. *)
(***************************************************************************)
EXTENDS RemoteRuns, RunTableProofs

(* The command of the run has not been written.                            *)
Unsent(r) == state[r] \in {"absent", "queued"} \/ phase[r] = "sealing"

(* The command has been given to the runner at least once.                 *)
Leased(c) == command[c] \notin {"absent", "queued"}

NotAdmitted == \A r \in Run : state[r] \in {"absent", "queued"} => phase[r] = "idle"

NotSent == \A r \in Run : Unsent(r) => command[Executes(r)] = "absent"

OnlyLeased ==
  /\ \A c \in Command : work[c] # "none" => Leased(c)
  /\ \A f \in spool : Leased(f.of)
  /\ \A r \in begun : Leased(Executes(r))

OnlyConfirmed ==
  \A r \in Run :
    \/ r \in succeeded
    \/ /\ command[Executes(r)] # "completed"
       /\ \A f \in spool : f.of = Executes(r) => f.what # "result"

IInv ==
  /\ TypeOK /\ CompletedIsConfirmed /\ AskedOnce
  /\ NotAdmitted /\ NotSent /\ OnlyLeased /\ OnlyConfirmed
  /\ resolved \subseteq receipts

-----------------------------------------------------------------------------
(* A command is a run and what is asked about it.                          *)
LEMMA Commands ==
  /\ \A r \in Run : /\ Executes(r) \in Command /\ RunOf(Executes(r)) = r
                    /\ \A k \in Controls : <<r, k>> \in Command
  /\ \A r, q \in Run : \A k \in Controls : Executes(q) # <<r, k>>
  /\ \A r, q \in Run : Executes(q) = Executes(r) => q = r
  /\ \A c \in Command : /\ RunOf(c) \in Run
                        /\ KindOf(c) \in Controls => \A r \in Run : c # Executes(r)
PROOF BY DEF Command, Executes, RunOf, KindOf, Controls

(* A file of the spool names a command and what became of it.              *)
LEMMA Records ==
  /\ \A c \in Command : \A w \in {"question", "result", "error"} :
       Spooled(c, w) \in Record /\ Spooled(c, w).of = c /\ Spooled(c, w).what = w
  /\ \A f \in Record : f.of \in Command /\ f.what \in {"question", "result", "error"}
PROOF BY DEF Record, Spooled

(* What pump() does to one run: nothing, or it starts a queued one.        *)
LEMMA PumpStarts ==
  ASSUME NEW st \in [Run -> RunState], NEW ph \in [Run -> Phases], NEW on,
         Pump(st, ph, on)
  PROVE  /\ state' \in [Run -> RunState] /\ phase' \in [Run -> Phases]
         /\ \A r \in Run :
              \/ state'[r] = st[r] /\ phase'[r] = ph[r]
              \/ st[r] = "queued" /\ state'[r] = "running" /\ phase'[r] = "sealing"
PROOF
<1>1. PICK admitted \in SUBSET Queued(st) :
        /\ state' = [r \in Run |-> IF r \in admitted THEN "running" ELSE st[r]]
        /\ phase' = [r \in Run |-> IF r \in admitted THEN "sealing" ELSE ph[r]]
  BY DEF Pump
<1>2. \A r \in admitted : st[r] = "queued"
  BY DEF Queued
<1>3. "running" \in RunState /\ "sealing" \in Phases
  BY DEF RunState, ActiveStates, Phases
<1> QED BY <1>1, <1>2, <1>3

(* The facts about runs that survive an action which changes the tables to *)
(* st and the coroutines to ph and then pumps.                             *)
Moves(st, ph) ==
  /\ st \in [Run -> RunState] /\ ph \in [Run -> Phases]
  /\ \A r \in Run :
       /\ st[r] \in {"absent", "queued"} => state[r] \in {"absent", "queued"} /\ ph[r] = "idle"
       /\ ph[r] = "sealing" => phase[r] = "sealing"
       /\ st[r] = "completed" => r \in succeeded
       /\ st[r] = "waiting_approval" => state[r] = "waiting_approval"

RunsKept ==
  /\ state' \in [Run -> RunState] /\ phase' \in [Run -> Phases]
  /\ NotAdmitted'
  /\ \A r \in Run : /\ Unsent(r)' => Unsent(r)
                    /\ state'[r] = "completed" => r \in succeeded
                    /\ state'[r] = "waiting_approval" => state[r] = "waiting_approval"

(* pump() keeps them.                                                      *)
LEMMA PumpKeepsRuns ==
  ASSUME NEW st, NEW ph, NEW on, Moves(st, ph), Pump(st, ph, on)
  PROVE  RunsKept
PROOF
<1>1. /\ state' \in [Run -> RunState] /\ phase' \in [Run -> Phases]
      /\ \A r \in Run :
           \/ state'[r] = st[r] /\ phase'[r] = ph[r]
           \/ st[r] = "queued" /\ state'[r] = "running" /\ phase'[r] = "sealing"
  BY PumpStarts DEF Moves
<1> QED BY <1>1 DEF Moves, RunsKept, NotAdmitted, Unsent

(* With the commands and the runner left alone, that is all there is to    *)
(* show.                                                                   *)
LEMMA RunsOnly ==
  ASSUME IInv, RunsKept,
         UNCHANGED <<command, receipts, resolved, runner, world, past>>,
         online' \in BOOLEAN, remoteStopping' \subseteq Run
  PROVE  IInv'
PROOF
<1> USE DEF IInv, RunsKept, runner, world, past
<1>1. TypeOK'
  BY DEF TypeOK
<1>2. CompletedIsConfirmed' /\ AskedOnce'
  BY DEF CompletedIsConfirmed, AskedOnce, TypeOK
<1>3. NotAdmitted' /\ NotSent'
  BY DEF NotSent
<1>4. OnlyLeased'
  BY DEF OnlyLeased, Leased
<1>5. OnlyConfirmed' /\ (resolved \subseteq receipts)'
  BY DEF OnlyConfirmed
<1> QED BY <1>1, <1>2, <1>3, <1>4, <1>5

-----------------------------------------------------------------------------
(* The initial state.                                                      *)
LEMMA InitIInv == Init => IInv
PROOF
<1> SUFFICES ASSUME Init PROVE IInv
  OBVIOUS
<1> USE DEF Init
<1>1. TypeOK
  BY FaultsAssumption DEF TypeOK, RunState, CommandState, Phases
<1>2. CompletedIsConfirmed /\ AskedOnce /\ NotAdmitted /\ resolved \subseteq receipts
  BY DEF CompletedIsConfirmed, AskedOnce, NotAdmitted
<1>3. NotSent /\ OnlyLeased /\ OnlyConfirmed
  BY Commands DEF NotSent, OnlyLeased, OnlyConfirmed
<1> QED BY <1>1, <1>2, <1>3 DEF IInv

(* The coordinator's own steps.                                            *)

(* A new chat has no command, and pump() may start it at once.             *)
LEMMA SubmitKeeps == ASSUME IInv, NEW r \in Run, Submit(r) PROVE IInv'
PROOF
<1>1. Moves([state EXCEPT ![r] = "queued"], phase)
  BY DEF Submit, IsNext, Moves, IInv, TypeOK, NotAdmitted, CompletedIsConfirmed, RunState
<1>2. RunsKept
  BY <1>1, PumpKeepsRuns DEF Submit
<1> QED BY <1>2, RunsOnly DEF Submit, IInv, TypeOK

(* A coroutine that ends in the catch clause of execute().                 *)
LEMMA EndsBadlyKeeps == ASSUME IInv, NEW r \in Run, EndsBadly(r) PROVE IInv'
PROOF
<1>1. FailedState(r) \in {"cancelled", "failed"}
  BY DEF FailedState
<1>2. Moves([state EXCEPT ![r] = FailedState(r)], [phase EXCEPT ![r] = "done"])
  BY <1>1 DEF Moves, IInv, TypeOK, NotAdmitted, CompletedIsConfirmed, RunState,
              TerminalStates, Phases
<1>3. RunsKept
  BY <1>2, PumpKeepsRuns DEF EndsBadly
<1> QED BY <1>3, RunsOnly DEF EndsBadly, IInv, TypeOK

(* A coroutine that ends with a result: Hermes had completed the prompt.   *)
LEMMA SeesCompletedKeeps == ASSUME IInv, NEW r \in Run, SeesCompleted(r) PROVE IInv'
PROOF
<1>1. r \in succeeded
  BY DEF SeesCompleted, Confirmed, IInv, OnlyConfirmed
<1>2. Moves([state EXCEPT ![r] = "completed"], [phase EXCEPT ![r] = "done"])
  BY <1>1 DEF Moves, IInv, TypeOK, NotAdmitted, CompletedIsConfirmed, RunState,
              TerminalStates, Phases
<1>3. RunsKept
  BY <1>2, PumpKeepsRuns DEF SeesCompleted
<1> QED BY <1>3, RunsOnly DEF SeesCompleted, IInv, TypeOK

(* The command of the run is written once: nothing knows it yet.           *)
LEMMA DispatchKeeps == ASSUME IInv, NEW r \in Run, Dispatch(r) PROVE IInv'
PROOF
<1> USE Commands DEF IInv, Dispatch, runner, world, past
<1>1. command[Executes(r)] = "absent"
  BY DEF NotSent, Unsent
<1>2. /\ command \in [Command -> CommandState] /\ phase \in [Run -> Phases]
      /\ state[r] \notin {"absent", "queued"}
  BY DEF TypeOK, NotAdmitted
<1>3. TypeOK'
  BY <1>2 DEF TypeOK, CommandState, Phases
<1>4. CompletedIsConfirmed' /\ AskedOnce' /\ (resolved \subseteq receipts)'
  BY DEF CompletedIsConfirmed, AskedOnce
<1>5. NotAdmitted' /\ NotSent'
  BY <1>2 DEF NotAdmitted, NotSent, Unsent
<1>6. OnlyLeased'
  <2>1. \A c \in Command : Leased(c) => Leased(c)'
    BY <1>1, <1>2 DEF Leased
  <2> QED BY <2>1, Records DEF OnlyLeased, TypeOK
<1>7. OnlyConfirmed'
  BY <1>2 DEF OnlyConfirmed
<1> QED BY <1>3, <1>4, <1>5, <1>6, <1>7

(* A stop or an answer is written: no command of a run changes.            *)
LEMMA ControlWritten ==
  ASSUME IInv, NEW r \in Run, NEW k \in Controls,
         command[<<r, k>>] = "absent",
         command' = [command EXCEPT ![<<r, k>>] = "queued"]
  PROVE  /\ command' \in [Command -> CommandState]
         /\ \A q \in Run : command'[Executes(q)] = command[Executes(q)]
         /\ \A c \in Command : Leased(c) => Leased(c)'
PROOF BY Commands DEF IInv, TypeOK, CommandState, Leased

(* A stop cancels the run or asks the runner.                              *)
LEMMA StopKeeps == ASSUME IInv, NEW r \in Run, Stop(r) PROVE IInv'
PROOF
<1> USE DEF runner, world, past
<1>1. CASE /\ r \in Watched /\ command[<<r, "stop">>] = "absent"
           /\ command' = [command EXCEPT ![<<r, "stop">>] = "queued"]
           /\ remoteStopping' = remoteStopping \cup {r}
           /\ Pump(state, phase, online)
  <2> USE <1>1
  <2>1. /\ command' \in [Command -> CommandState]
        /\ \A q \in Run : command'[Executes(q)] = command[Executes(q)]
        /\ \A c \in Command : Leased(c) => Leased(c)'
    BY ControlWritten DEF Controls
  <2>2. Moves(state, phase)
    BY DEF Moves, IInv, TypeOK, NotAdmitted, CompletedIsConfirmed
  <2>3. RunsKept
    BY <2>2, PumpKeepsRuns
  <2> USE <2>1, <2>3 DEF IInv, Stop, RunsKept
  <2>4. TypeOK'
    BY DEF TypeOK
  <2>5. CompletedIsConfirmed' /\ AskedOnce' /\ (resolved \subseteq receipts)'
    BY DEF CompletedIsConfirmed, AskedOnce, TypeOK
  <2>6. NotAdmitted' /\ NotSent'
    BY DEF NotSent
  <2>7. OnlyLeased' /\ OnlyConfirmed'
    BY Commands, Records DEF OnlyLeased, OnlyConfirmed, TypeOK
  <2> QED BY <2>4, <2>5, <2>6, <2>7
<1>2. CASE /\ Pump([state EXCEPT ![r] = "cancelled"], phase, online)
           /\ UNCHANGED <<command, remoteStopping>>
  <2>1. Moves([state EXCEPT ![r] = "cancelled"], phase)
    BY DEF Moves, IInv, TypeOK, NotAdmitted, CompletedIsConfirmed, RunState, TerminalStates
  <2>2. RunsKept
    BY <1>2, <2>1, PumpKeepsRuns
  <2> QED BY <1>2, <2>2, RunsOnly DEF Stop, IInv, TypeOK
<1> QED BY <1>1, <1>2 DEF Stop

(* An answer is sent for a run that is watched, hence dispatched.          *)
LEMMA AnswerKeeps == ASSUME IInv, NEW r \in Run, Answer(r) PROVE IInv'
PROOF
<1> USE DEF IInv, Answer, memory, runner, world, past
<1>1. /\ command' \in [Command -> CommandState]
      /\ \A q \in Run : command'[Executes(q)] = command[Executes(q)]
      /\ \A c \in Command : Leased(c) => Leased(c)'
  BY ControlWritten DEF Controls
<1>2. state \in [Run -> RunState] /\ phase[r] = "watching" /\ r \in receipts
  BY DEF TypeOK, Watched
<1>3. TypeOK'
  BY <1>1 DEF TypeOK, RunState, ActiveStates
<1>4. CompletedIsConfirmed' /\ AskedOnce' /\ (resolved \subseteq receipts)'
  BY <1>2 DEF CompletedIsConfirmed, AskedOnce, TypeOK
<1>5. NotAdmitted' /\ NotSent'
  BY <1>1, <1>2 DEF NotAdmitted, NotSent, Unsent
<1>6. OnlyLeased' /\ OnlyConfirmed'
  BY <1>1, Commands, Records DEF OnlyLeased, OnlyConfirmed, TypeOK
<1> QED BY <1>3, <1>4, <1>5, <1>6

-----------------------------------------------------------------------------
(* The runner's requests.                                                  *)

(* A heartbeat may fail leases and interrupt the runs they are about.      *)
LEMMA HeartbeatKeeps == ASSUME IInv, NEW old \in SUBSET Leases, Heartbeat(old) PROVE IInv'
PROOF
<1> DEFINE lost == {RunOf(c) : c \in old \ Admitted}
           st == [r \in Run |-> IF r \in lost /\ state[r] \notin TerminalStates
                                THEN "interrupted" ELSE state[r]]
<1>1. /\ command' = [c \in Command |-> IF c \in old THEN Reconciled(c) ELSE command[c]]
      /\ Pump(st, phase, TRUE)
      /\ UNCHANGED <<receipts, resolved, remoteStopping, runner, world, past>>
      /\ online' = TRUE
  BY DEF Heartbeat
<1>2. \A c \in Command :
        \/ command'[c] = command[c]
        \/ command[c] = "leased" /\ command'[c] = "failed"
  BY <1>1 DEF Reconciled, Leases
<1>3. Moves(st, phase)
  BY DEF Moves, IInv, TypeOK, NotAdmitted, CompletedIsConfirmed, RunState, TerminalStates
<1>4. RunsKept
  BY <1>1, <1>3, PumpKeepsRuns
<1> HIDE DEF lost, st
<1> USE <1>1, <1>2, <1>4 DEF IInv, RunsKept, runner, world, past
<1>5. TypeOK'
  BY DEF TypeOK, CommandState
<1>6. CompletedIsConfirmed' /\ AskedOnce' /\ (resolved \subseteq receipts)'
  BY DEF CompletedIsConfirmed, AskedOnce, TypeOK
<1>7. NotAdmitted' /\ NotSent'
  BY Commands DEF NotSent
<1>8. OnlyLeased' /\ OnlyConfirmed'
  BY Commands, Records DEF OnlyLeased, OnlyConfirmed, TypeOK, Leased
<1> QED BY <1>5, <1>6, <1>7, <1>8

(* A poll leases what is queued; only leased commands are started.         *)
LEMMA PollKeeps == ASSUME IInv, NEW answered \in BOOLEAN, Poll(answered) PROVE IInv'
PROOF
<1> DEFINE batch   == {c \in Command : command[c] = "queued"}
           started == IF answered THEN batch \ Admitted ELSE {}
<1>1. /\ command' = [c \in Command |-> IF c \in batch THEN "leased" ELSE command[c]]
      /\ work' = [c \in Command |-> IF c \in started THEN "starting" ELSE work[c]]
      /\ begun' = begun \cup {r \in Run : Executes(r) \in started}
      /\ UNCHANGED <<state, receipts, resolved, online, memory, mode, spool, world, succeeded>>
  BY DEF Poll
<1>2. \A c \in Command :
        /\ \/ command'[c] = command[c] /\ c \notin started
           \/ command[c] = "queued" /\ command'[c] = "leased"
        /\ c \in started => command'[c] = "leased"
  BY <1>1
<1>3. started \subseteq Command
  OBVIOUS
<1> HIDE DEF batch, started
<1> USE <1>1, <1>2, <1>3 DEF IInv, memory, world
<1>4. TypeOK'
  BY DEF TypeOK, CommandState
<1>5. CompletedIsConfirmed' /\ AskedOnce' /\ (resolved \subseteq receipts)' /\ NotAdmitted'
  BY DEF CompletedIsConfirmed, AskedOnce, NotAdmitted
<1>6. NotSent'
  BY Commands DEF NotSent, Unsent
<1>7. OnlyLeased'
  BY Commands, Records DEF OnlyLeased, TypeOK, Leased
<1>8. OnlyConfirmed'
  BY Commands DEF OnlyConfirmed
<1> QED BY <1>4, <1>5, <1>6, <1>7, <1>8

(* What is left of the spool and of the runner's work after a delivery.    *)
LEMMA DeliverClears ==
  ASSUME IInv, NEW f \in spool, NEW answered \in BOOLEAN, Deliver(f, answered)
  PROVE  /\ spool' \subseteq spool /\ spool \subseteq Record
         /\ work' \in [Command -> {"none", "starting", "active", "reporting"}]
         /\ \A c \in Command : work'[c] = work[c] \/ work'[c] = "none"
         /\ f.of \in Command /\ f.what \in {"question", "result", "error"}
PROOF BY Records DEF IInv, TypeOK, Deliver

(* A question puts a run in waiting that nobody has answered for.          *)
LEMMA QuestionKeeps ==
  ASSUME IInv, NEW f \in spool, NEW answered \in BOOLEAN, Deliver(f, answered),
         f.what = "question"
  PROVE  IInv'
PROOF
<1>1. TakeQuestion(RunOf(f.of))
  BY DEF Deliver
<1> DEFINE r == RunOf(f.of)
<1>2. /\ r \in Run
      /\ receipts' = receipts \cup {r}
      /\ state' = IF IsNew(r) THEN [state EXCEPT ![r] = "waiting_approval"] ELSE state
      /\ UNCHANGED <<command, phase>>
      /\ UNCHANGED <<resolved, online, remoteStopping, mode, world, past>>
  BY <1>1, DeliverClears, Commands DEF TakeQuestion, Deliver
<1> HIDE DEF r
<1> USE <1>2, DeliverClears DEF IInv, world, past
<1>3. TypeOK'
  BY DEF TypeOK, RunState, ActiveStates
<1>4. CompletedIsConfirmed' /\ (resolved \subseteq receipts)'
  BY DEF CompletedIsConfirmed, TypeOK
<1>5. AskedOnce'
  BY DEF AskedOnce, TypeOK, IsNew
<1>6. NotAdmitted' /\ NotSent'
  BY DEF NotAdmitted, NotSent, Unsent, TypeOK
<1>7. OnlyLeased' /\ OnlyConfirmed'
  BY DEF OnlyLeased, OnlyConfirmed, Leased
<1> QED BY <1>3, <1>4, <1>5, <1>6, <1>7

(* An outcome ends a command that was leased.                              *)
LEMMA OutcomeKeeps ==
  ASSUME IInv, NEW f \in spool, NEW answered \in BOOLEAN, Deliver(f, answered),
         f.what # "question"
  PROVE  IInv'
PROOF
<1> DEFINE end == IF f.what = "result" THEN "completed" ELSE "failed"
<1>1. TakeOutcome(f.of, end)
  BY DeliverClears DEF Deliver
<1>2. /\ command' = IF Open(f.of) THEN [command EXCEPT ![f.of] = end] ELSE command
      /\ Pump(state, phase, online)
      /\ UNCHANGED receipts
      /\ UNCHANGED <<resolved, online, remoteStopping, mode, world, past>>
  BY <1>1 DEF TakeOutcome, Deliver
<1>3. \A c \in Command :
        \/ command'[c] = command[c]
        \/ /\ c = f.of /\ Leased(c)
           /\ command'[c] \in {"completed", "failed"}
           /\ command'[c] = "completed" => f.what = "result"
  BY <1>2 DEF IInv, TypeOK, OnlyLeased
<1>4. Moves(state, phase)
  BY DEF Moves, IInv, TypeOK, NotAdmitted, CompletedIsConfirmed
<1>5. RunsKept
  BY <1>2, <1>4, PumpKeepsRuns
<1> USE <1>2, <1>3, <1>5, DeliverClears DEF IInv, RunsKept, world, past
<1>6. TypeOK'
  BY DEF TypeOK, CommandState
<1> HIDE DEF end
<1>7. CompletedIsConfirmed' /\ AskedOnce' /\ (resolved \subseteq receipts)'
  BY DEF CompletedIsConfirmed, AskedOnce, TypeOK
<1>8. NotAdmitted' /\ NotSent'
  BY Commands DEF NotSent, Leased
<1>9. OnlyLeased'
  BY Commands, Records DEF OnlyLeased, Leased, TypeOK
<1>10. OnlyConfirmed'
  BY Commands DEF OnlyConfirmed
<1> QED BY <1>6, <1>7, <1>8, <1>9, <1>10

-----------------------------------------------------------------------------
(* The runner's work and the faults.                                       *)

(* A step that leaves the coordinator alone keeps the invariant if what it *)
(* adds to the spool is about leased commands, and a result is that of a   *)
(* prompt that succeeded.                                                  *)
LEMMA RunnerOnly ==
  ASSUME IInv, UNCHANGED <<tables, memory, begun>>,
         mode' \in {"flushing", "serving"}, faults' \in Nat, reachable' \in BOOLEAN,
         work' \in [Command -> {"none", "starting", "active", "reporting"}],
         \A c \in Command : work'[c] # "none" => work[c] # "none",
         succeeded \subseteq succeeded', succeeded' \subseteq Run,
         \A f \in spool' :
           \/ f \in spool
           \/ /\ f \in Record /\ work[f.of] # "none"
              /\ \A r \in Run : f.of = Executes(r) /\ f.what = "result" => r \in succeeded'
  PROVE  IInv'
PROOF
<1> USE DEF IInv, tables, memory
<1>1. TypeOK'
  BY DEF TypeOK
<1>2. CompletedIsConfirmed' /\ AskedOnce' /\ (resolved \subseteq receipts)'
  BY DEF CompletedIsConfirmed, AskedOnce
<1>3. NotAdmitted' /\ NotSent'
  BY DEF NotAdmitted, NotSent, Unsent
<1>4. OnlyLeased'
  BY Commands, Records DEF OnlyLeased, Leased
<1>5. OnlyConfirmed'
  BY DEF OnlyConfirmed
<1> QED BY <1>1, <1>2, <1>3, <1>4, <1>5

(* The runner's execution of a run.                                        *)
LEMMA RunStepsKeep ==
  ASSUME IInv, NEW r \in Run, SessionStarts(r) \/ Asks(r) \/ RunSucceeds(r) \/ RunFails(r)
  PROVE  IInv'
PROOF
<1> USE DEF world, past
<1>1. /\ Executes(r) \in Command
      /\ \A w \in {"question", "result", "error"} :
           LET f == Spooled(Executes(r), w)
           IN  f \in Record /\ f.of = Executes(r) /\ f.what = w
      /\ \A q \in Run : Executes(q) = Executes(r) => q = r
  BY Commands, Records
<1>2. /\ mode \in {"flushing", "serving"} /\ faults \in Nat /\ reachable \in BOOLEAN
      /\ work \in [Command -> {"none", "starting", "active", "reporting"}]
      /\ succeeded \subseteq Run
  BY DEF IInv, TypeOK
<1>3. CASE SessionStarts(r)
  BY <1>1, <1>2, <1>3, RunnerOnly DEF SessionStarts, tables, memory
<1>4. CASE Asks(r)
  BY <1>1, <1>2, <1>4, RunnerOnly DEF Asks, tables, memory
<1>5. CASE RunSucceeds(r)
  BY <1>1, <1>2, <1>5, RunnerOnly DEF RunSucceeds, tables, memory
<1>6. CASE RunFails(r)
  BY <1>1, <1>2, <1>6, RunnerOnly DEF RunFails, Alive, tables, memory
<1> QED BY <1>3, <1>4, <1>5, <1>6

(* The execution of a stop or an answer; a stop fails what it kills.       *)
LEMMA ControlStepsKeep ==
  ASSUME IInv, NEW c \in Command, ControlBegins(c) \/ ControlSucceeds(c) \/ ControlFails(c)
  PROVE  IInv'
PROOF
<1> USE DEF world, past
<1>1. \A d \in Command : \A w \in {"question", "result", "error"} :
        LET f == Spooled(d, w)
        IN  f \in Record /\ f.of = d /\ f.what = w
  BY Records
<1>2. /\ mode \in {"flushing", "serving"} /\ faults \in Nat /\ reachable \in BOOLEAN
      /\ work \in [Command -> {"none", "starting", "active", "reporting"}]
      /\ succeeded \subseteq Run
  BY DEF IInv, TypeOK
<1>3. KindOf(c) \in Controls /\ \A r \in Run : c # Executes(r)
  BY Commands DEF ControlBegins, ControlSucceeds, ControlFails
<1>4. CASE ControlBegins(c)
  BY <1>1, <1>2, <1>3, <1>4, RunnerOnly DEF ControlBegins, tables, memory
<1>5. CASE ControlSucceeds(c)
  <2>1. PICK killed \in SUBSET {Executes(r) : r \in Alive} :
          /\ work' = [d \in Command |-> IF d \in killed \cup {c} THEN "reporting" ELSE work[d]]
          /\ spool' = spool \cup {Spooled(c, "result")} \cup {Spooled(d, "error") : d \in killed}
    BY <1>5 DEF ControlSucceeds
  <2>2. work[c] # "none" /\ \A d \in killed : d \in Command /\ work[d] # "none"
    BY <1>5, Commands DEF ControlSucceeds, Alive
  <2>3. \A f \in spool' :
          \/ f \in spool
          \/ /\ f \in Record /\ work[f.of] # "none"
             /\ \A r \in Run : f.of = Executes(r) /\ f.what = "result" => r \in succeeded
    <3> SUFFICES ASSUME NEW f \in spool', f \notin spool
                 PROVE  /\ f \in Record /\ work[f.of] # "none"
                        /\ \A r \in Run : f.of = Executes(r) /\ f.what = "result" => r \in succeeded
      OBVIOUS
    <3>1. CASE f = Spooled(c, "result")
      BY <1>1, <1>3, <2>2, <3>1
    <3>2. CASE \E d \in killed : f = Spooled(d, "error")
      BY <1>1, <2>2, <3>2
    <3> QED BY <2>1, <3>1, <3>2
  <2> QED BY <1>2, <1>5, <2>1, <2>2, <2>3, RunnerOnly DEF ControlSucceeds, tables, memory
<1>6. CASE ControlFails(c)
  BY <1>1, <1>2, <1>3, <1>6, RunnerOnly DEF ControlFails, tables, memory
<1> QED BY <1>4, <1>5, <1>6

(* A restart of the coordinator ends the active runs and the coroutines;   *)
(* commands and receipts outlive it.                                       *)
LEMMA RestartKeeps == ASSUME IInv, CoordinatorRestarts PROVE IInv'
PROOF
<1> USE DEF IInv, CoordinatorRestarts, Fault, runner, past
<1>1. TypeOK'
  BY FaultsAssumption DEF TypeOK, RunState, TerminalStates, Phases
<1>2. CompletedIsConfirmed' /\ AskedOnce' /\ (resolved \subseteq receipts)'
  BY DEF CompletedIsConfirmed, AskedOnce, TypeOK, ActiveStates
<1>3. NotAdmitted' /\ NotSent'
  BY DEF NotAdmitted, NotSent, Unsent, TypeOK
<1>4. OnlyLeased' /\ OnlyConfirmed'
  BY DEF OnlyLeased, OnlyConfirmed, Leased
<1> QED BY <1>1, <1>2, <1>3, <1>4

(* Runner restarts, outages and the end of a flush.                        *)
LEMMA FaultsKeep ==
  ASSUME IInv, \/ RunnerRestarts \/ Disconnects \/ Reconnects \/ Flushed
  PROVE  IInv'
PROOF
<1>1. /\ mode \in {"flushing", "serving"} /\ faults \in Nat /\ reachable \in BOOLEAN
      /\ work \in [Command -> {"none", "starting", "active", "reporting"}]
      /\ succeeded \subseteq Run
  BY DEF IInv, TypeOK
<1>2. Fault => faults' \in Nat
  BY <1>1, FaultsAssumption DEF Fault
<1> QED BY <1>1, <1>2, RunnerOnly
        DEF RunnerRestarts, Disconnects, Reconnects, Flushed, tables, memory, runner, world, past

(* The loss of the heartbeat.                                              *)
LEMMA OfflineKeeps == ASSUME IInv, GoesOffline PROVE IInv'
PROOF
<1>1. RunsKept
  BY DEF GoesOffline, memory, RunsKept, IInv, TypeOK, NotAdmitted, CompletedIsConfirmed, Unsent
<1> QED BY <1>1, RunsOnly DEF GoesOffline, memory, IInv, TypeOK

-----------------------------------------------------------------------------
(* Every step keeps the invariant.                                         *)
LEMMA NextKeeps == IInv /\ [Next]_vars => IInv'
PROOF
<1> SUFFICES ASSUME IInv, [Next]_vars PROVE IInv'
  OBVIOUS
<1>1. CASE UNCHANGED vars
  BY <1>1 DEF vars, tables, memory, runner, world, past, IInv, TypeOK, CompletedIsConfirmed,
              AskedOnce, NotAdmitted, NotSent, Unsent, OnlyLeased, Leased, OnlyConfirmed
<1>2. CASE \E r \in Run : Submit(r) \/ Stop(r) \/ Answer(r)
  BY <1>2, SubmitKeeps, StopKeeps, AnswerKeeps
<1>3. CASE \E r \in Run : Watches(r)
  BY <1>3, DispatchKeeps, EndsBadlyKeeps, SeesCompletedKeeps
     DEF Watches, SealFails, SeesCancelled, GivesUp, SeesFailed
<1>4. CASE \E r \in Run : SessionStarts(r) \/ Asks(r)
  BY <1>4, RunStepsKeep
<1>5. CASE \E c \in Command : Works(c)
  BY <1>5, RunStepsKeep, ControlStepsKeep DEF Works
<1>6. CASE \E old \in SUBSET Leases : Heartbeat(old)
  BY <1>6, HeartbeatKeeps
<1>7. CASE \E answered \in BOOLEAN : Poll(answered) \/ \E f \in spool : Deliver(f, answered)
  BY <1>7, PollKeeps, QuestionKeeps, OutcomeKeeps
<1>8. CASE Flushed \/ GoesOffline \/ CoordinatorRestarts \/ RunnerRestarts \/ Disconnects \/ Reconnects
  BY <1>8, FaultsKeep, OfflineKeeps, RestartKeeps
<1> QED BY <1>1, <1>2, <1>3, <1>4, <1>5, <1>6, <1>7, <1>8 DEF Next

(* The invariant holds in every reachable state.                           *)
LEMMA Inductive == Spec => []IInv
PROOF
<1>1. Init => IInv
  BY InitIInv
<1>2. IInv /\ [Next]_vars => IInv'
  BY NextKeeps
<1> QED BY <1>1, <1>2, PTL DEF Spec

(* Tables, memory, spool and work stay well formed, whatever is lost or    *)
(* restarted.                                                              *)
THEOREM TypeCorrect == Spec => []TypeOK
PROOF
<1>1. IInv => TypeOK
  BY DEF IInv
<1> QED BY <1>1, Inductive, PTL

(* The coordinator records completed only what Hermes has completed.       *)
THEOREM CompletionsConfirmed == Spec => []CompletedIsConfirmed
PROOF
<1>1. IInv => CompletedIsConfirmed
  BY DEF IInv
<1> QED BY <1>1, Inductive, PTL

(* An answered question is not put again.                                  *)
THEOREM QuestionsAskedOnce == Spec => []AskedOnce
PROOF
<1>1. IInv => AskedOnce
  BY DEF IInv
<1> QED BY <1>1, Inductive, PTL

(* A command is started by an answer to a poll only, and one that was      *)
(* started before is not queued.                                           *)
LEMMA StartsOnce ==
  IInv /\ [Next]_vars =>
    [\A r \in Run : work[Executes(r)] = "none" /\ work'[Executes(r)] # "none" => r \notin begun]_vars
PROOF
<1> SUFFICES ASSUME IInv, Next, NEW r \in Run,
                    work[Executes(r)] = "none", work'[Executes(r)] # "none"
             PROVE  r \notin begun
  OBVIOUS
<1>1. Executes(r) \in Command /\ work \in [Command -> {"none", "starting", "active", "reporting"}]
  BY Commands DEF IInv, TypeOK
<1>2. \/ \E answered \in BOOLEAN : Poll(answered)
      \/ \E q \in Run : SessionStarts(q)
      \/ \E c \in Command : Works(c)
  BY <1>1 DEF Next, Submit, Watches, Dispatch, SealFails, SeesCancelled, GivesUp, SeesFailed,
       EndsBadly, SeesCompleted, Stop, Answer, Asks, Heartbeat, Deliver, Flushed, GoesOffline,
       CoordinatorRestarts, RunnerRestarts, Disconnects, Reconnects, memory, runner
<1>3. CASE \E answered \in BOOLEAN : Poll(answered)
  BY <1>1, <1>3 DEF Poll, IInv, OnlyLeased, Leased
<1>4. CASE \E q \in Run : SessionStarts(q)
  BY <1>1, <1>4, Commands DEF SessionStarts
<1>5. CASE \E c \in Command : Works(c)
  <2>1. \A q \in Run : RunSucceeds(q) \/ RunFails(q) => work'[Executes(r)] = work[Executes(r)]
    BY <1>1, Commands DEF RunSucceeds, RunFails, Alive
  <2>2. \A c \in Command :
          ControlBegins(c) \/ ControlFails(c) => work'[Executes(r)] = work[Executes(r)]
    BY <1>1 DEF ControlBegins, ControlFails
  <2>3. \A c \in Command : ControlSucceeds(c) => work'[Executes(r)] = work[Executes(r)]
    BY <1>1, Commands DEF ControlSucceeds, Alive
  <2> QED BY <1>5, <2>1, <2>2, <2>3 DEF Works
<1> QED BY <1>2, <1>3, <1>4, <1>5

(* Lost answers, repeated deliveries, restarts of either side and outages  *)
(* never make the runner start a run's command twice.                      *)
THEOREM NeverStartedTwice == Spec => AtMostOnce
PROOF BY Inductive, StartsOnce, PTL DEF Spec, AtMostOnce

-----------------------------------------------------------------------------
(* Outcomes.  While the runner serves, every outcome in its spool belongs  *)
(* to a command it still reports in its heartbeats; while it flushes, it   *)
(* sends none.                                                             *)
Flushing  == mode = "flushing" => \A c \in Command : work[c] = "none"
Executing == \A c \in Command : work[c] \in {"starting", "active"} => command[c] = "leased"
Tracked   == mode = "serving" =>
               \A f \in spool : f.what # "question" => work[f.of] = "reporting"
OneOutcome ==
  \A f, g \in spool :
    f.of = g.of /\ f.what # "question" /\ g.what # "question" => f.what = g.what

OInv == Flushing /\ Executing /\ Tracked /\ OneOutcome /\ OutcomeHeard

(* The types these proofs read.                                            *)
LEMMA OutcomeTypes ==
  IInv => /\ command \in [Command -> CommandState]
          /\ work \in [Command -> {"none", "starting", "active", "reporting"}]
          /\ mode \in {"flushing", "serving"}
          /\ \A f \in spool : f.of \in Command /\ f.what \in {"question", "result", "error"}
PROOF BY Records DEF IInv, TypeOK

(* A command that is written was absent: nothing is known of it.           *)
LEMMA WritingKeepsOutcomes ==
  ASSUME IInv, OInv, UNCHANGED <<mode, work, spool>>,
         command' = command
           \/ \E c \in Command : command[c] = "absent" /\ command' = [command EXCEPT ![c] = "queued"]
  PROVE  OInv'
PROOF BY OutcomeTypes DEF OInv, Flushing, Executing, Tracked, OneOutcome, OutcomeHeard

(* Only commands the runner does not know are given up.                    *)
LEMMA HeartbeatKeepsOutcomes ==
  ASSUME IInv, OInv, NEW old \in SUBSET Leases, Heartbeat(old)
  PROVE  OInv'
PROOF
<1>1. /\ \A c \in Command : command'[c] = command[c] \/ work[c] = "none"
      /\ mode = "serving" /\ UNCHANGED <<mode, work, spool>>
  BY DEF Heartbeat, Reconciled, Admitted, Serving, runner
<1> QED BY <1>1, OutcomeTypes
        DEF OInv, Flushing, Executing, Tracked, OneOutcome, OutcomeHeard

(* What a poll starts has no outcome yet.                                  *)
LEMMA PollKeepsOutcomes ==
  ASSUME IInv, OInv, NEW answered \in BOOLEAN, Poll(answered)
  PROVE  OInv'
PROOF
<1>1. /\ mode = "serving" /\ UNCHANGED <<mode, spool>>
      /\ command' = [c \in Command |-> IF command[c] = "queued" THEN "leased" ELSE command[c]]
      /\ work' \in [Command -> {"none", "starting", "active", "reporting"}]
      /\ \A c \in Command :
           \/ work'[c] = work[c]
           \/ work[c] = "none" /\ work'[c] = "starting" /\ command[c] = "queued"
  BY OutcomeTypes DEF Poll, Serving, Admitted
<1> QED BY <1>1, OutcomeTypes
        DEF OInv, Flushing, Executing, Tracked, OneOutcome, OutcomeHeard

(* A delivered outcome ends its command as it says; the file and the       *)
(* command are forgotten together.                                         *)
LEMMA DeliverKeepsOutcomes ==
  ASSUME IInv, OInv, NEW f \in spool, NEW answered \in BOOLEAN, Deliver(f, answered)
  PROVE  OInv'
PROOF
<1>1. /\ mode' = mode
      /\ spool' = IF answered THEN spool \ {f} ELSE spool
      /\ work' = IF answered /\ f.what # "question" THEN [work EXCEPT ![f.of] = "none"] ELSE work
  BY DEF Deliver
<1>2. f.what = "question" => command' = command
  BY DEF Deliver, TakeQuestion
<1>3. f.what = "result" => command' = command \/ command' = [command EXCEPT ![f.of] = "completed"]
  BY DEF Deliver, TakeOutcome
<1>4. f.what = "error" => command' = command \/ command' = [command EXCEPT ![f.of] = "failed"]
  BY DEF Deliver, TakeOutcome
<1>5. f.what # "question" => work[f.of] \notin {"starting", "active"}
  BY OutcomeTypes DEF OInv, Flushing, Tracked
<1>6. \A g \in spool : g.what # "question" /\ g.of = f.of /\ f.what # "question" => g = f
  BY DEF OInv, OneOutcome, IInv, TypeOK, Record
<1>7. Flushing' /\ Executing'
  BY <1>1, <1>2, <1>3, <1>4, <1>5, OutcomeTypes DEF OInv, Flushing, Executing
<1>8. Tracked' /\ OneOutcome'
  BY <1>1, <1>6, OutcomeTypes DEF OInv, Tracked, OneOutcome
<1>9. OutcomeHeard'
  BY <1>1, <1>2, <1>3, <1>4, <1>6, OutcomeTypes DEF OInv, OutcomeHeard
<1> QED BY <1>7, <1>8, <1>9 DEF OInv

(* The runner's work: an outcome is written for a command that has none    *)
(* yet, and a command with an outcome is reporting.                        *)
LEMMA WorkKeepsOutcomes ==
  ASSUME IInv, OInv, UNCHANGED <<command, mode>>,
         work' \in [Command -> {"none", "starting", "active", "reporting"}],
         \A c \in Command :
           \/ work'[c] = work[c]
           \/ work[c] \in {"starting", "active"} /\ work'[c] \in {"active", "reporting"},
         \A f \in spool' :
           \/ f \in spool
           \/ /\ f.of \in Command /\ work[f.of] \in {"starting", "active"}
              /\ f.what # "question" => work'[f.of] = "reporting",
         \A f, g \in spool' :
           f \notin spool /\ g \notin spool /\ f.of = g.of
             /\ f.what # "question" /\ g.what # "question" => f.what = g.what
  PROVE  OInv'
PROOF
<1> USE OutcomeTypes DEF OInv
<1>1. \A f \in spool : f.what # "question" => work[f.of] \notin {"starting", "active"}
  BY DEF Flushing, Tracked
<1>2. Flushing' /\ Executing'
  BY DEF Flushing, Executing
<1>3. Tracked'
  BY DEF Tracked
<1>4. OneOutcome'
  BY <1>1 DEF OneOutcome
<1>5. OutcomeHeard'
  BY DEF OutcomeHeard, Executing
<1> QED BY <1>2, <1>3, <1>4, <1>5

(* Each step of the runner is of that form.                                *)
LEMMA RunStepsKeepOutcomes ==
  ASSUME IInv, OInv, NEW r \in Run,
         SessionStarts(r) \/ Asks(r) \/ RunSucceeds(r) \/ RunFails(r)
  PROVE  OInv'
PROOF
<1> USE OutcomeTypes DEF tables
<1>1. /\ Executes(r) \in Command
      /\ \A w \in {"question", "result", "error"} :
           Spooled(Executes(r), w).of = Executes(r) /\ Spooled(Executes(r), w).what = w
  BY Commands, Records
<1>2. CASE SessionStarts(r)
  BY <1>1, <1>2, WorkKeepsOutcomes DEF SessionStarts
<1>3. CASE Asks(r)
  BY <1>1, <1>3, WorkKeepsOutcomes DEF Asks
<1>4. CASE RunSucceeds(r)
  BY <1>1, <1>4, WorkKeepsOutcomes DEF RunSucceeds
<1>5. CASE RunFails(r)
  BY <1>1, <1>5, WorkKeepsOutcomes DEF RunFails, Alive
<1> QED BY <1>2, <1>3, <1>4, <1>5

(* So are those of a stop or an answer; what a stop kills has another name *)
(* than the stop.                                                          *)
LEMMA ControlStepsKeepOutcomes ==
  ASSUME IInv, OInv, NEW c \in Command, ControlBegins(c) \/ ControlSucceeds(c) \/ ControlFails(c)
  PROVE  OInv'
PROOF
<1> USE OutcomeTypes DEF tables
<1>1. \A d \in Command : \A w \in {"question", "result", "error"} :
        Spooled(d, w).of = d /\ Spooled(d, w).what = w
  BY Records
<1>2. CASE ControlBegins(c)
  BY <1>1, <1>2, WorkKeepsOutcomes DEF ControlBegins
<1>3. CASE ControlSucceeds(c)
  <2>1. PICK killed \in SUBSET {Executes(r) : r \in Alive} :
          /\ work' = [d \in Command |-> IF d \in killed \cup {c} THEN "reporting" ELSE work[d]]
          /\ spool' = spool \cup {Spooled(c, "result")} \cup {Spooled(d, "error") : d \in killed}
    BY <1>3 DEF ControlSucceeds
  <2>2. /\ work[c] = "active" /\ c \notin killed /\ UNCHANGED <<command, mode>>
        /\ \A d \in killed : d \in Command /\ work[d] \in {"starting", "active"}
    BY <1>3, Commands DEF ControlSucceeds, Alive
  <2>3. \A f \in spool' :
          \/ f \in spool
          \/ f.of = c /\ f.what = "result"
          \/ f.of \in killed /\ f.what = "error"
    BY <1>1, <2>1, <2>2
  <2> QED BY <2>1, <2>2, <2>3, WorkKeepsOutcomes
<1>4. CASE ControlFails(c)
  BY <1>1, <1>4, WorkKeepsOutcomes DEF ControlFails
<1> QED BY <1>2, <1>3, <1>4

(* After a restart the runner knows no command and serves none until its   *)
(* spool is empty.                                                         *)
LEMMA FlushKeepsOutcomes == ASSUME IInv, OInv, RunnerRestarts \/ Flushed PROVE OInv'
PROOF BY OutcomeTypes
      DEF RunnerRestarts, Flushed, tables, OInv, Flushing, Executing, Tracked, OneOutcome,
          OutcomeHeard

(* Every step keeps the invariant of outcomes.                             *)
LEMMA NextKeepsOutcomes == IInv /\ OInv /\ [Next]_vars => OInv'
PROOF
<1> SUFFICES ASSUME IInv, OInv, [Next]_vars PROVE OInv'
  OBVIOUS
<1>1. CASE UNCHANGED <<command, mode, work, spool>>
  BY <1>1, WritingKeepsOutcomes
<1>2. CASE \E r \in Run : Dispatch(r)
  BY <1>2, Commands, WritingKeepsOutcomes DEF Dispatch, runner, IInv, NotSent, Unsent
<1>3. CASE \E r \in Run : Stop(r) \/ Answer(r)
  BY <1>3, Commands, WritingKeepsOutcomes DEF Stop, Answer, runner, Controls
<1>4. CASE \E old \in SUBSET Leases : Heartbeat(old)
  BY <1>4, HeartbeatKeepsOutcomes
<1>5. CASE \E answered \in BOOLEAN : Poll(answered) \/ \E f \in spool : Deliver(f, answered)
  BY <1>5, PollKeepsOutcomes, DeliverKeepsOutcomes
<1>6. CASE \E r \in Run : SessionStarts(r) \/ Asks(r)
  BY <1>6, RunStepsKeepOutcomes
<1>7. CASE \E c \in Command : Works(c)
  BY <1>7, RunStepsKeepOutcomes, ControlStepsKeepOutcomes DEF Works
<1>8. CASE RunnerRestarts \/ Flushed
  BY <1>8, FlushKeepsOutcomes
<1>9. \A r \in Run : Submit(r) \/ EndsBadly(r) \/ SeesCompleted(r)
        => UNCHANGED <<command, mode, work, spool>>
  BY DEF Submit, EndsBadly, SeesCompleted, runner
<1>10. GoesOffline \/ CoordinatorRestarts \/ Disconnects \/ Reconnects \/ UNCHANGED vars
         => UNCHANGED <<command, mode, work, spool>>
  BY DEF GoesOffline, CoordinatorRestarts, Disconnects, Reconnects, vars, tables, runner
<1> QED BY <1>1, <1>2, <1>3, <1>4, <1>5, <1>6, <1>7, <1>8, <1>9, <1>10
        DEF Next, Watches, SealFails, SeesCancelled, GivesUp, SeesFailed

(* No command is given up while the runner holds its result, whatever      *)
(* restarts, outages and lost answers come between.                        *)
THEOREM ResultsHeard == Spec => []OutcomeHeard
PROOF
<1>1. Init => OInv
  BY Commands
     DEF Init, OInv, Flushing, Executing, Tracked, OneOutcome, OutcomeHeard
<1>2. OInv => OutcomeHeard
  BY DEF OInv
<1> QED BY <1>1, <1>2, Inductive, NextKeepsOutcomes, PTL DEF Spec

-----------------------------------------------------------------------------
(* The refinement.  Callers of a remote run learn of its end what the      *)
(* coordinator knows, which it may revise when the computer is heard       *)
(* again; the invariant needed is that whatever is asked of the runner is  *)
(* about a run that has begun.                                             *)

Begun(r) == state[r] \notin {"absent", "queued"}

SentForBegun == \A c \in Command : command[c] # "absent" => Begun(RunOf(c))

(* What a handler makes of the state s of a run, before it pumps.          *)
Becomes(s, t) ==
  \/ t = s
  \/ s = "absent" /\ t = "queued"
  \/ s = "queued" /\ t \in {"cancelled", "interrupted"}
  \/ s \in ActiveStates \cup TerminalStates /\ t \in ActiveStates \cup TerminalStates

Changed(st) == st \in [Run -> RunState] /\ \A r \in Run : Becomes(state[r], st[r])

Admits(st) ==
  \E admitted \in SUBSET Queued(st) :
    /\ IsAdmission(Rows, st, {}, admitted)
    /\ state' = [r \in Run |-> IF r \in admitted THEN "running" ELSE st[r]]

Tabled == \E st : Changed(st) /\ (state' = st \/ Admits(st))

(* What is sent in a step is about runs that began before it.              *)
SendsForBegun == \A c \in Command : command'[c] # "absent" => Begun(RunOf(c))

(* A handler that does not pump, and one that does.                        *)
LEMMA PlainTabled == ASSUME Changed(state') PROVE Tabled
BY Zenon DEF Tabled

(* pump() is the admission, or nothing while the computer is offline.      *)
LEMMA PumpTabled ==
  ASSUME NEW st, NEW ph, NEW on, Changed(st), Pump(st, ph, on) PROVE Tabled
PROOF
<1>1. PICK admitted \in SUBSET Queued(st) :
        /\ IF on THEN IsAdmission(Rows, st, {}, admitted) ELSE admitted = {}
        /\ state' = [r \in Run |-> IF r \in admitted THEN "running" ELSE st[r]]
        /\ phase' = [r \in Run |-> IF r \in admitted THEN "sealing" ELSE ph[r]]
  BY Zenon DEF Pump
<1>2. CASE on
  <2>1. Admits(st)
    BY <1>1, <1>2, Zenon DEF Admits
  <2> QED BY <2>1, Zenon DEF Tabled
<1>3. CASE ~ on
  <2>1. state' = [r \in Run |-> st[r]]
    BY <1>1, <1>3
  <2>2. state' = st
    BY <2>1 DEF Changed
  <2> QED BY <2>2, Zenon DEF Tabled
<1> QED BY <1>2, <1>3

(* A handler that sets the state of one run.                               *)
LEMMA OneChanged ==
  ASSUME IInv, NEW r \in Run, NEW to \in RunState, Becomes(state[r], to)
  PROVE  Changed([state EXCEPT ![r] = to])
BY DEF IInv, TypeOK, Changed, Becomes

(* A handler that leaves them alone.                                       *)
LEMMA NoneChanged == ASSUME IInv PROVE Changed(state)
BY DEF IInv, TypeOK, Changed, Becomes

(* A coroutine executes a run that has begun.                              *)
LEMMA ExecutesBegun ==
  ASSUME IInv, NEW r \in Run, phase[r] # "idle"
  PROVE  Begun(r) /\ state[r] \in ActiveStates \cup TerminalStates
BY DEF IInv, TypeOK, NotAdmitted, Begun, RunState

(* The requests of the operator.                                           *)
LEMMA OperatorTabled ==
  ASSUME IInv, SentForBegun, NEW r \in Run, Submit(r) \/ Stop(r) \/ Answer(r)
  PROVE  Tabled /\ SendsForBegun
PROOF
<1>1. state \in [Run -> RunState] /\ command \in [Command -> CommandState]
  BY DEF IInv, TypeOK
<1>2. \A k \in Controls : <<r, k>> \in Command /\ RunOf(<<r, k>>) = r
  BY Commands DEF RunOf
<1>3. CASE Submit(r)
  <2>1. Changed([state EXCEPT ![r] = "queued"])
    BY <1>3, OneChanged DEF Submit, IsNext, Becomes, RunState
  <2> QED BY <1>3, <2>1, PumpTabled DEF Submit, SentForBegun, SendsForBegun
<1>4. CASE Stop(r)
  <2>1. CASE r \in Watched /\ command' = [command EXCEPT ![<<r, "stop">>] = "queued"]
                /\ Pump(state, phase, online)
    <3>1. Begun(r)
      BY <2>1, ExecutesBegun DEF Watched
    <3>2. "stop" \in Controls
      BY DEF Controls
    <3> QED BY <1>1, <1>2, <2>1, <3>1, <3>2, NoneChanged, PumpTabled DEF SentForBegun, SendsForBegun
  <2>2. CASE command' = command /\ Pump([state EXCEPT ![r] = "cancelled"], phase, online)
    <3>1. Changed([state EXCEPT ![r] = "cancelled"])
      BY <1>1, <1>4, OneChanged DEF Stop, Becomes, RunState, TerminalStates
    <3> QED BY <2>2, <3>1, PumpTabled DEF SentForBegun, SendsForBegun
  <2> QED BY <1>4, <2>1, <2>2 DEF Stop
<1>5. CASE Answer(r)
  <2>1. Begun(r) /\ state[r] \in ActiveStates \cup TerminalStates
    BY <1>5, ExecutesBegun DEF Answer, Watched
  <2>2. Changed([state EXCEPT ![r] = "running"])
    BY <2>1, OneChanged DEF Becomes, RunState, ActiveStates
  <2>3. Tabled
    BY <1>5, <2>2, PlainTabled DEF Answer
  <2>4. "approval" \in Controls
    BY DEF Controls
  <2>5. SendsForBegun
    BY <1>1, <1>2, <1>5, <2>1, <2>4 DEF Answer, SentForBegun, SendsForBegun
  <2> QED BY <2>3, <2>5
<1> QED BY <1>3, <1>4, <1>5

(* The coroutine of a run.                                                 *)
LEMMA WatchesTabled ==
  ASSUME IInv, SentForBegun, NEW r \in Run, Watches(r)
  PROVE  Tabled /\ SendsForBegun
PROOF
<1>1. state \in [Run -> RunState] /\ command \in [Command -> CommandState]
  BY DEF IInv, TypeOK
<1>2. phase[r] \in {"sealing", "watching"}
  BY DEF Watches, Dispatch, SealFails, SeesCancelled, GivesUp, SeesFailed, SeesCompleted
<1>3. Begun(r) /\ state[r] \in ActiveStates \cup TerminalStates
  BY <1>2, ExecutesBegun
<1>4. CASE Dispatch(r)
  <2>1. Tabled
    BY <1>4, NoneChanged, PlainTabled DEF Dispatch
  <2>2. RunOf(Executes(r)) = r
    BY Commands
  <2>3. SendsForBegun
    BY <1>1, <1>3, <1>4, <2>2 DEF Dispatch, SentForBegun, SendsForBegun
  <2> QED BY <2>1, <2>3
<1>5. CASE EndsBadly(r)
  <2>1. FailedState(r) \in RunState /\ FailedState(r) \in TerminalStates
    BY DEF FailedState, RunState, TerminalStates
  <2>2. Changed([state EXCEPT ![r] = FailedState(r)])
    BY <1>3, <2>1, OneChanged DEF Becomes
  <2> QED BY <1>5, <2>2, PumpTabled DEF EndsBadly, SentForBegun, SendsForBegun
<1>6. CASE SeesCompleted(r)
  <2>1. Changed([state EXCEPT ![r] = "completed"])
    BY <1>3, OneChanged DEF Becomes, RunState, TerminalStates
  <2> QED BY <1>6, <2>1, PumpTabled DEF SeesCompleted, SentForBegun, SendsForBegun
<1> QED BY <1>4, <1>5, <1>6 DEF Watches, SealFails, SeesCancelled, GivesUp, SeesFailed

(* The requests of the runner.                                             *)
LEMMA HeartbeatTabled ==
  ASSUME IInv, SentForBegun, NEW old \in SUBSET Leases, Heartbeat(old)
  PROVE  Tabled /\ SendsForBegun
PROOF
<1> DEFINE lost == {RunOf(c) : c \in old \ Admitted}
           st == [r \in Run |-> IF r \in lost /\ state[r] \notin TerminalStates
                                THEN "interrupted" ELSE state[r]]
<1>1. state \in [Run -> RunState] /\ command \in [Command -> CommandState]
  BY DEF IInv, TypeOK
<1>2. \A c \in old : c \in Command /\ command[c] # "absent" /\ Begun(RunOf(c))
  BY DEF Leases, SentForBegun
<1>3. \A r \in lost : Begun(r)
  BY <1>2
<1>4. Changed(st)
  <2> HIDE DEF lost
  <2> QED BY <1>1, <1>3 DEF Changed, Becomes, Begun, RunState, TerminalStates
<1>5. Tabled
  <2>1. Pump(st, phase, TRUE)
    BY DEF Heartbeat
  <2> HIDE DEF st
  <2> QED BY <1>4, <2>1, PumpTabled
<1>6. SendsForBegun
  <2>1. command' = [c \in Command |-> IF c \in old THEN Reconciled(c) ELSE command[c]]
    BY DEF Heartbeat
  <2> QED BY <1>2, <2>1 DEF SentForBegun, SendsForBegun
<1> QED BY <1>5, <1>6

(* Polls, heartbeats and deliveries.                                       *)
LEMMA RequestsTabled ==
  ASSUME IInv, SentForBegun, NEW answered \in BOOLEAN,
         Poll(answered) \/ \E f \in spool : Deliver(f, answered)
  PROVE  Tabled /\ SendsForBegun
PROOF
<1>1. state \in [Run -> RunState] /\ command \in [Command -> CommandState] /\ spool \subseteq Record
  BY DEF IInv, TypeOK
<1>2. CASE Poll(answered)
  <2>1. Tabled
    BY <1>2, NoneChanged, PlainTabled DEF Poll
  <2>2. SendsForBegun
    BY <1>1, <1>2 DEF Poll, SentForBegun, SendsForBegun
  <2> QED BY <2>1, <2>2
<1>3. ASSUME NEW f \in spool, Deliver(f, answered) PROVE Tabled /\ SendsForBegun
  <2>1. f.of \in Command /\ f.what \in {"question", "result", "error"}
    BY <1>1, Records
  <2>2. command[f.of] # "absent" /\ RunOf(f.of) \in Run
    BY <2>1, Commands DEF IInv, OnlyLeased, Leased
  <2>3. Begun(RunOf(f.of)) /\ state[RunOf(f.of)] \in ActiveStates \cup TerminalStates
    BY <1>1, <2>1, <2>2 DEF SentForBegun, Begun, RunState
  <2>4. CASE f.what = "question"
    <3>1. TakeQuestion(RunOf(f.of))
      BY <1>3, <2>4 DEF Deliver
    <3>2. Changed([state EXCEPT ![RunOf(f.of)] = "waiting_approval"])
      BY <2>2, <2>3, OneChanged DEF Becomes, RunState, ActiveStates
    <3>3. Tabled
      BY <3>1, <3>2, NoneChanged, PlainTabled DEF TakeQuestion
    <3> QED BY <3>1, <3>3 DEF TakeQuestion, SentForBegun, SendsForBegun
  <2>5. ASSUME NEW end, TakeOutcome(f.of, end) PROVE Tabled /\ SendsForBegun
    <3>1. Pump(state, phase, online)
      BY <2>5 DEF TakeOutcome
    <3>2. Tabled
      BY <3>1, NoneChanged, PumpTabled
    <3>3. SendsForBegun
      BY <1>1, <2>1, <2>3, <2>5 DEF TakeOutcome, SentForBegun, SendsForBegun
    <3> QED BY <3>2, <3>3
  <2>6. CASE f.what # "question"
    <3>1. TakeOutcome(f.of, "completed") \/ TakeOutcome(f.of, "failed")
      BY <1>3, <2>1, <2>6 DEF Deliver
    <3> QED BY <2>5, <3>1
  <2> QED BY <2>4, <2>6
<1> QED BY <1>2, <1>3

(* Every step.                                                             *)
LEMMA StepTabled ==
  ASSUME IInv, SentForBegun, [Next]_vars
  PROVE  Tabled /\ SendsForBegun
PROOF
<1>1. ASSUME UNCHANGED <<state, command>> PROVE Tabled /\ SendsForBegun
  <2>1. Tabled
    BY <1>1, NoneChanged, PlainTabled
  <2> QED BY <1>1, <2>1 DEF SentForBegun, SendsForBegun
<1>2. CASE \E r \in Run : Submit(r) \/ Watches(r) \/ Stop(r) \/ Answer(r)
  BY <1>2, OperatorTabled, WatchesTabled
<1>3. CASE \/ UNCHANGED vars
           \/ \E r \in Run : SessionStarts(r) \/ Asks(r)
           \/ Flushed \/ GoesOffline \/ RunnerRestarts \/ Disconnects \/ Reconnects
  BY <1>1, <1>3 DEF vars, SessionStarts, Asks, Flushed, GoesOffline, RunnerRestarts, Disconnects,
                    Reconnects, tables
<1>4. CASE \E c \in Command : Works(c)
  BY <1>1, <1>4 DEF Works, RunSucceeds, RunFails, ControlBegins, ControlSucceeds, ControlFails, tables
<1>5. CASE \E old \in SUBSET Leases : Heartbeat(old)
  BY <1>5, HeartbeatTabled
<1>6. CASE \E answered \in BOOLEAN : Poll(answered) \/ \E f \in spool : Deliver(f, answered)
  BY <1>6, RequestsTabled
<1>7. CASE CoordinatorRestarts
  <2>1. state \in [Run -> RunState]
    BY DEF IInv, TypeOK
  <2>2. Changed(state')
    BY <1>7, <2>1 DEF CoordinatorRestarts, Changed, Becomes, RunState, TerminalStates
  <2>3. SendsForBegun
    BY <1>7 DEF CoordinatorRestarts, SentForBegun, SendsForBegun
  <2> QED BY <2>2, <2>3, PlainTabled
<1> QED BY <1>2, <1>3, <1>4, <1>5, <1>6, <1>7, Zenon DEF Next

(* A run that has begun never goes back to the queue.                      *)
LEMMA NextTabled ==
  ASSUME IInv, SentForBegun, [Next]_vars
  PROVE  Tabled /\ SentForBegun'
PROOF
<1>1. Tabled /\ SendsForBegun
  BY StepTabled
<1>2. PICK st : Changed(st) /\ (state' = st \/ Admits(st))
  BY <1>1, Zenon DEF Tabled
<1>3. ASSUME NEW r \in Run, Begun(r) PROVE state'[r] \notin {"absent", "queued"}
  <2>1. st[r] \notin {"absent", "queued"}
    BY <1>2, <1>3 DEF Changed, Becomes, Begun, ActiveStates, TerminalStates
  <2>2. state'[r] \in {st[r], "running"}
    BY <1>2 DEF Admits
  <2> QED BY <2>1, <2>2
<1>4. SentForBegun'
  BY <1>1, <1>3, Commands DEF SendsForBegun, SentForBegun, Begun
<1> QED BY <1>1, <1>4

(* What is asked of the runner is about runs that have begun.              *)
LEMMA SentHolds == Spec => []SentForBegun
PROOF
<1>1. Init => SentForBegun
  BY DEF Init, SentForBegun
<1>2. IInv /\ SentForBegun /\ [Next]_vars => SentForBegun'
  BY NextTabled
<1> QED BY <1>1, <1>2, Inductive, PTL DEF Spec

(* The instance counts as this module does.                                *)
LEMMA SameCount == ASSUME NEW S PROVE Service!Cardinality(S) = Cardinality(S)
BY DEF Cardinality, Service!Cardinality

(* Every step is a step of the service.                                    *)
LEMMA StepImplements ==
  ASSUME IInv, SentForBegun, [Next]_vars
  PROVE  Service!ServiceNext
PROOF
<1>1. Tabled /\ IInv'
  BY NextTabled, NextKeeps
<1>2. state \in [Run -> RunState] /\ state' \in [Run -> RunState]
  BY <1>1 DEF IInv, TypeOK
<1>3. PICK st : Changed(st) /\ (state' = st \/ Admits(st))
  BY <1>1, Zenon DEF Tabled
<1>4. ASSUME NEW r \in Run
      PROVE  /\ Service!MayMove(ServiceState(state[r]), ServiceState(state'[r]))
             /\ state[r] # "absent" => state'[r] # "absent"
  <2>1. /\ state[r] \in RunState /\ st[r] \in RunState /\ state'[r] \in RunState
        /\ Becomes(state[r], st[r])
    BY <1>2, <1>3 DEF Changed
  <2>2. CASE state'[r] = st[r]
    BY <2>1, <2>2, StateSeen
       DEF Becomes, Service!MayMove, Service!Live, Service!Ended, ActiveStates, TerminalStates
  <2>3. CASE st[r] = "queued" /\ state'[r] = "running"
    <3>1. state[r] \in {"absent", "queued"}
      BY <2>1, <2>3 DEF Becomes, ActiveStates, TerminalStates
    <3> QED BY <2>1, <2>3, <3>1, StateSeen DEF Service!MayMove
  <2>4. state'[r] = st[r] \/ (st[r] = "queued" /\ state'[r] = "running")
    BY <1>3 DEF Admits, Queued
  <2> QED BY <2>2, <2>3, <2>4
<1>5. ASSUME NEW n \in Run, state[n] \in {"absent", "queued"}, state'[n] = "running"
      PROVE  /\ \A q \in Active(state') : Owner[q] = Owner[n] => q = n
             /\ Cardinality(Active(state')) <= MaxActive
  <2>1. st[n] # "running"
    BY <1>3, <1>5 DEF Changed, Becomes, ActiveStates, TerminalStates
  <2>2. Admits(st)
    BY <1>3, <1>5, <2>1
  <2>3. PICK admitted \in SUBSET Queued(st) :
          /\ IsAdmission(Rows, st, {}, admitted)
          /\ state' = [r \in Run |-> IF r \in admitted THEN "running" ELSE st[r]]
    BY <2>2, Zenon DEF Admits
  <2>4. n \in admitted
    BY <1>5, <2>1, <2>3
  <2>5. Active(state') = Active(st) \cup admitted
    BY <2>3 DEF Active, ActiveStates, Queued
  <2>6. /\ \A q \in Active(st) \cup admitted : Rows[q].agent = Rows[n].agent => q = n
        /\ Cardinality(Active(st) \cup admitted) <= MaxActive
    BY <2>3, <2>4, AdmittedFits
  <2>7. \A q \in Run : Rows[q].agent = Owner[q]
    BY DEF Rows
  <2>8. Active(st) \cup admitted \subseteq Run
    BY DEF Active, Queued
  <2> QED BY <2>5, <2>6, <2>7, <2>8
<1>6. Active(state') = {q \in Run : ServiceState(state'[q]) \in Service!Live}
  BY <1>2, StateSeen DEF Active, Service!Live
<1>7. \A q \in Active(state') : q \in Run /\ state'[q] # "absent"
  BY DEF Active, ActiveStates
<1> DEFINE Agent(s, r) == IF s[r] = "absent" THEN NoAgent ELSE Owner[r]
<1> SUFFICES ASSUME NEW r \in Run
             PROVE  /\ Service!MayMove(ServiceState(state[r]), ServiceState(state'[r]))
                    /\ ServiceState(state[r]) # "absent" => Agent(state', r) = Agent(state, r)
                    /\ ServiceState(state'[r]) # "absent" => Agent(state', r) \in Agents
                    /\ ServiceState(state[r]) \in {"absent", "queued"} /\ ServiceState(state'[r]) = "running"
                         => /\ \A q \in Active(state') : Agent(state', q) = Agent(state', r) => q = r
                            /\ Cardinality(Active(state')) <= MaxActive
  <2>1. Service!Cardinality(Active(state')) = Cardinality(Active(state'))
    BY SameCount
  <2> QED BY <1>6, <2>1 DEF Service!ServiceNext, Service!Fits
<1>8. state[r] \in RunState /\ state'[r] \in RunState /\ Owner[r] \in Agents
  BY <1>2, OwnerAssumption
<1> QED BY <1>4, <1>5, <1>7, <1>8, StateSeen

(* On a paired computer the coordinator keeps the same promises, whatever  *)
(* the runner and the connection do: a run begins at most once, alone with *)
(* its agent and within the limit, and is never queued again.              *)
THEOREM ImplementsService == Spec => ImplementsRunService
PROOF
<1>1. Init => Service!ServiceInit
  BY DEF Init, Service!ServiceInit, ServiceState
<1>2. IInv /\ SentForBegun /\ [Next]_vars => [Service!ServiceNext]_(Service!service)
  BY StepImplements
<1> QED BY <1>1, <1>2, Inductive, SentHolds, PTL
        DEF Spec, ImplementsRunService, Service!ServiceSpec
=============================================================================
