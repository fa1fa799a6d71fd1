--------------------------- MODULE RunTableProofs ---------------------------
(***************************************************************************)
(* What one call of pump() guarantees of the active runs, whatever the     *)
(* table it is called on: facts about IsAdmission alone.                   *)
(***************************************************************************)
EXTENDS RunTable, FiniteSetTheorems, WellFoundedInduction, TLAPS

(* A non-empty set of numbers has a smallest element.                      *)
LEMMA SmallestOf ==
  ASSUME NEW T \in SUBSET Nat, T # {}
  PROVE  \E x \in T : \A y \in T : x <= y
PROOF
<1> DEFINE Less == {p \in Nat \X Nat : p[1] < p[2]}
<1>1. IsWellFoundedOn(Less, Nat)
  <2>1. Less = OpToRel(<, Nat)
    BY DEF OpToRel
  <2> QED BY <2>1, NatLessThanWellFounded
<1>2. PICK x \in T : \A y \in T : <<y, x>> \notin Less
  <2> HIDE DEF Less
  <2> QED BY <1>1, WFMin
<1>3. ASSUME NEW y \in T PROVE x <= y
  <2>1. x \in Nat /\ y \in Nat /\ <<y, x>> \in Nat \X Nat
    OBVIOUS
  <2>2. ~ (y < x)
    BY <1>2, <2>1
  <2> QED BY <2>1, <2>2
<1> QED BY <1>3

(* A non-empty set of runs has a newest one.                               *)
LEMMA NewestOf ==
  ASSUME NEW T \in SUBSET Run, T # {}
  PROVE  \E r \in T : \A q \in T : q <= r
PROOF
<1> DEFINE Ages == {MaxRuns - q : q \in T}
<1>1. MaxRuns \in Nat /\ \A q \in T : q \in 1 .. MaxRuns
  BY LimitsAssumption DEF Run
<1>2. Ages \in SUBSET Nat /\ Ages # {}
  <2>1. \A q \in T : MaxRuns - q \in Nat
    BY <1>1
  <2>2. PICK q \in T : TRUE
    OBVIOUS
  <2>3. MaxRuns - q \in Ages
    OBVIOUS
  <2> QED BY <2>1, <2>3
<1>3. PICK age \in Ages : \A other \in Ages : age <= other
  <2> HIDE DEF Ages
  <2> QED BY <1>2, SmallestOf
<1>4. PICK r \in T : age = MaxRuns - r
  OBVIOUS
<1>5. ASSUME NEW q \in T PROVE q <= r
  <2>1. MaxRuns - q \in Ages
    OBVIOUS
  <2>2. MaxRuns - r <= MaxRuns - q
    BY <1>3, <1>4, <2>1
  <2> QED BY <1>1, <2>2
<1> QED BY <1>5

(* Sets of runs are finite.                                                *)
LEMMA RunsAreFinite ==
  ASSUME NEW S \in SUBSET Run
  PROVE  IsFiniteSet(S) /\ Cardinality(S) \in Nat
PROOF
<1>1. IsFiniteSet(Run)
  BY LimitsAssumption, FS_Interval DEF Run
<1>2. IsFiniteSet(S)
  BY <1>1, FS_Subset
<1> QED BY <1>2, FS_CardinalityType

(* A set that grows in order of age, each run added while there was room,  *)
(* stays within its limit.                                                 *)
LEMMA AddedInOrder ==
  ASSUME NEW base \in SUBSET Run, NEW T \in SUBSET Run, NEW limit \in Nat,
         Cardinality(base) <= limit,
         \A r \in T : Cardinality(base \cup {q \in T : q < r}) < limit
  PROVE  Cardinality(base \cup T) <= limit
PROOF
<1>1. CASE T = {}
  <2>1. base \cup T = base
    BY <1>1
  <2> QED BY <2>1
<1>2. CASE T # {}
  <2>1. PICK r \in T : \A q \in T : q <= r
    BY <1>2, NewestOf
  <2> DEFINE S == base \cup {q \in T : q < r}
  <2>2. base \cup T = S \cup {r}
    <3>1. \A q \in T : q \in Int
      BY DEF Run
    <3>2. \A q \in T : q < r \/ q = r
      BY <2>1, <3>1
    <3> QED BY <3>2
  <2>3. S \in SUBSET Run
    OBVIOUS
  <2>4. IsFiniteSet(S) /\ Cardinality(S) \in Nat /\ Cardinality(S) < limit
    BY <2>3, RunsAreFinite
  <2>5. Cardinality(S \cup {r}) <= Cardinality(S) + 1
    BY <2>4, FS_AddElement, SMTT(30)
  <2> HIDE DEF S
  <2>6. Cardinality(S \cup {r}) \in Nat
    BY <2>3, RunsAreFinite
  <2> QED BY <2>2, <2>4, <2>5, <2>6
<1> QED BY <1>1, <1>2

-----------------------------------------------------------------------------
(* What pump() admitted passed its test behind the older admitted runs.    *)
LEMMA AdmittedPassed ==
  ASSUME NEW rows, NEW st, NEW stop, NEW admitted \in SUBSET Queued(st),
         IsAdmission(rows, st, stop, admitted), NEW r \in admitted
  PROVE  /\ r \in Run
         /\ CanStart(rows, st, stop, {q \in admitted : q < r}, r)
BY DEF IsAdmission, Queued

(* pump() never starts two runs of one agent, nor one beside an active     *)
(* run of its agent.                                                       *)
LEMMA AdmissionKeepsAgentsApart ==
  ASSUME NEW rows, NEW st, NEW stop, NEW admitted \in SUBSET Queued(st),
         IsAdmission(rows, st, stop, admitted),
         \A q, r \in Active(st) : rows[q].agent = rows[r].agent => q = r
  PROVE  \A q, r \in Active(st) \cup admitted : rows[q].agent = rows[r].agent => q = r
PROOF
<1>1. \A r \in admitted : \A q \in Active(st) \cup {p \in admitted : p < r} :
        rows[q].agent # rows[r].agent
  <2> SUFFICES ASSUME NEW r \in admitted
               PROVE  \A q \in Active(st) \cup {p \in admitted : p < r} :
                        rows[q].agent # rows[r].agent
    OBVIOUS
  <2>1. CanStart(rows, st, stop, {p \in admitted : p < r}, r)
    BY AdmittedPassed
  <2> QED BY <2>1 DEF CanStart, AgentFree
<1>2. \A q, r \in admitted : q < r \/ r < q \/ q = r
  <2>1. \A r \in admitted : r \in Int
    BY DEF Queued, Run
  <2> QED BY <2>1
<1> QED BY <1>1, <1>2

(* listRuns() returns the whole table while it holds no more rows than the *)
(* limit.                                                                  *)
LEMMA ListedIsExisting ==
  ASSUME ListLimit >= MaxRuns, NEW st
  PROVE  Listed(st) = Existing(st)
PROOF
<1>1. ASSUME NEW r \in Existing(st)
      PROVE  Cardinality({q \in Existing(st) : q > r}) < ListLimit
  <2> DEFINE newer == {q \in Existing(st) : q > r}
  <2>1. r \in 1 .. MaxRuns /\ MaxRuns \in Nat /\ ListLimit \in Nat
    BY LimitsAssumption DEF Existing, Run
  <2>2. newer \subseteq (r + 1) .. MaxRuns
    BY <2>1 DEF Existing, Run
  <2>3. /\ IsFiniteSet((r + 1) .. MaxRuns)
        /\ Cardinality((r + 1) .. MaxRuns) < MaxRuns
    <3>1. r + 1 \in Int /\ MaxRuns \in Int
      BY <2>1
    <3>2. /\ IsFiniteSet((r + 1) .. MaxRuns)
          /\ Cardinality((r + 1) .. MaxRuns)
               = IF r + 1 > MaxRuns THEN 0 ELSE MaxRuns - (r + 1) + 1
      BY <3>1, FS_Interval
    <3> QED BY <2>1, <3>2
  <2>4. newer \in SUBSET Run
    BY DEF Existing
  <2> HIDE DEF newer
  <2>5. /\ Cardinality(newer) <= Cardinality((r + 1) .. MaxRuns)
        /\ Cardinality((r + 1) .. MaxRuns) \in Nat
    BY <2>2, <2>3, FS_Subset, FS_CardinalityType
  <2>6. Cardinality(newer) \in Nat
    BY <2>4, RunsAreFinite
  <2>7. Cardinality(newer) < ListLimit
    BY <2>1, <2>3, <2>5, <2>6
  <2> QED BY <2>7 DEF newer
<1> QED BY <1>1 DEF Listed

(* As long as listRuns() returns the whole table, pump() never starts two  *)
(* runs on the existing desktop, nor one beside an active run there.       *)
LEMMA AdmissionSerializesDesktop ==
  ASSUME ListLimit >= MaxRuns,
         NEW rows, NEW st, NEW stop, NEW admitted \in SUBSET Queued(st),
         IsAdmission(rows, st, stop, admitted),
         \A q, r \in Active(st) :
           {rows[q].agent, rows[r].agent} \subseteq ExistingDesktop => q = r
  PROVE  \A q, r \in Active(st) \cup admitted :
           {rows[q].agent, rows[r].agent} \subseteq ExistingDesktop => q = r
PROOF
<1>1. Active(st) \cup admitted \subseteq Listed(st)
  BY ListedIsExisting DEF Active, ActiveStates, Queued, Existing
<1>2. \A r \in admitted : rows[r].agent \in ExistingDesktop =>
        \A q \in Active(st) \cup {p \in admitted : p < r} :
          rows[q].agent \notin ExistingDesktop
  <2> SUFFICES ASSUME NEW r \in admitted, rows[r].agent \in ExistingDesktop
               PROVE  \A q \in Active(st) \cup {p \in admitted : p < r} :
                        rows[q].agent \notin ExistingDesktop
    OBVIOUS
  <2>1. CanStart(rows, st, stop, {p \in admitted : p < r}, r)
    BY AdmittedPassed
  <2> QED BY <1>1, <2>1 DEF CanStart, ComputerFits
<1>3. \A q, r \in admitted : q < r \/ r < q \/ q = r
  <2>1. \A r \in admitted : r \in Int
    BY DEF Queued, Run
  <2> QED BY <2>1
<1> QED BY <1>2, <1>3

(* pump() respects the three limits.                                       *)
LEMMA AdmissionRespectsLimits ==
  ASSUME NEW rows, NEW st, NEW stop, NEW admitted \in SUBSET Queued(st),
         IsAdmission(rows, st, stop, admitted),
         \A r \in Run : rows[r].depth \in 0 .. 2,
         Cardinality(Active(st)) <= MaxActive,
         Cardinality({r \in Active(st) : rows[r].depth = 0}) <= MaxTopLevel,
         Cardinality({r \in Active(st) : rows[r].task}) <= MaxTaskRuns
  PROVE  LET active == Active(st) \cup admitted IN
         /\ Cardinality(active) <= MaxActive
         /\ Cardinality({r \in active : rows[r].depth = 0}) <= MaxTopLevel
         /\ Cardinality({r \in active : rows[r].task}) <= MaxTaskRuns
PROOF
<1> DEFINE active == Active(st) \cup admitted
           held(r) == {q \in admitted : q < r}
           Top(S)  == {q \in S : rows[q].depth = 0}
           Task(S) == {q \in S : rows[q].task}
<1>1. /\ Active(st) \in SUBSET Run /\ admitted \in SUBSET Run
      /\ MaxActive \in Nat /\ MaxTopLevel \in Nat /\ MaxTaskRuns \in Nat
  BY LimitsAssumption DEF Active, Queued
<1>2. \A r \in admitted : WithinLimits(rows, Active(st) \cup held(r), r)
  BY AdmittedPassed DEF CanStart
<1>3. Cardinality(active) <= MaxActive
  <2>1. \A r \in admitted : Cardinality(Active(st) \cup {q \in admitted : q < r}) < MaxActive
    BY <1>2 DEF WithinLimits
  <2> QED BY <1>1, <2>1, AddedInOrder
<1>4. Cardinality(Top(active)) <= MaxTopLevel
  <2>1. ASSUME NEW r \in Top(admitted)
        PROVE  Cardinality(Top(Active(st)) \cup {q \in Top(admitted) : q < r}) < MaxTopLevel
    <3>1. ~ (rows[r].depth > 0)
      OBVIOUS
    <3>2. Cardinality(Top(Active(st) \cup held(r))) < MaxTopLevel
      BY <1>2, <3>1 DEF WithinLimits
    <3>3. Top(Active(st) \cup held(r)) = Top(Active(st)) \cup {q \in Top(admitted) : q < r}
      OBVIOUS
    <3> QED BY <3>2, <3>3
  <2>2. Top(active) = Top(Active(st)) \cup Top(admitted)
    OBVIOUS
  <2>3. /\ Top(Active(st)) \in SUBSET Run /\ Top(admitted) \in SUBSET Run
        /\ Cardinality(Top(Active(st))) <= MaxTopLevel
    BY <1>1
  <2> HIDE DEF Top
  <2> QED BY <1>1, <2>1, <2>2, <2>3, AddedInOrder
<1>5. Cardinality(Task(active)) <= MaxTaskRuns
  <2>1. ASSUME NEW r \in Task(admitted)
        PROVE  Cardinality(Task(Active(st)) \cup {q \in Task(admitted) : q < r}) < MaxTaskRuns
    <3>1. Cardinality(Task(Active(st) \cup held(r))) < MaxTaskRuns
      BY <1>2 DEF WithinLimits
    <3>2. Task(Active(st) \cup held(r)) = Task(Active(st)) \cup {q \in Task(admitted) : q < r}
      OBVIOUS
    <3> QED BY <3>1, <3>2
  <2>2. Task(active) = Task(Active(st)) \cup Task(admitted)
    OBVIOUS
  <2>3. /\ Task(Active(st)) \in SUBSET Run /\ Task(admitted) \in SUBSET Run
        /\ Cardinality(Task(Active(st))) <= MaxTaskRuns
    BY <1>1
  <2> HIDE DEF Task
  <2> QED BY <1>1, <2>1, <2>2, <2>3, AddedInOrder
<1> QED BY <1>3, <1>4, <1>5

(* Without anything known of the runs that were active before: what pump() *)
(* admits has its agent for itself and leaves no more executions than      *)
(* there may be.                                                           *)
LEMMA AdmittedFits ==
  ASSUME NEW rows, NEW st, NEW stop, NEW admitted \in SUBSET Queued(st),
         IsAdmission(rows, st, stop, admitted), NEW r \in admitted
  PROVE  /\ \A q \in Active(st) \cup admitted : rows[q].agent = rows[r].agent => q = r
         /\ Cardinality(Active(st) \cup admitted) <= MaxActive
PROOF
<1> DEFINE older(n) == {q \in admitted : q < n}
<1>1. /\ Active(st) \in SUBSET Run /\ admitted \in SUBSET Run
      /\ MaxActive \in Nat
  BY LimitsAssumption DEF Active, Queued
<1>2. \A n \in admitted : CanStart(rows, st, stop, older(n), n)
  BY AdmittedPassed
<1>3. \A n \in admitted : /\ \A q \in Active(st) \cup older(n) : rows[q].agent # rows[n].agent
                          /\ Cardinality(Active(st) \cup older(n)) < MaxActive
  BY <1>2 DEF CanStart, AgentFree, WithinLimits
<1>4. \A q, n \in admitted : q < n \/ n < q \/ q = n
  <2>1. \A n \in admitted : n \in Int
    BY <1>1 DEF Run
  <2> QED BY <2>1
<1>5. \A q \in Active(st) \cup admitted : rows[q].agent = rows[r].agent => q = r
  BY <1>3, <1>4
<1>6. PICK n \in admitted : \A q \in admitted : q <= n
  BY <1>1, NewestOf
<1> DEFINE S == Active(st) \cup older(n)
<1>7. Active(st) \cup admitted = S \cup {n}
  <2>1. \A q \in admitted : q \in Int
    BY <1>1 DEF Run
  <2>2. \A q \in admitted : q < n \/ q = n
    BY <1>6, <2>1
  <2> QED BY <2>2
<1>8. S \in SUBSET Run /\ S \cup {n} \in SUBSET Run /\ Cardinality(S) < MaxActive
  BY <1>1, <1>3
<1> HIDE DEF S
<1>9. /\ IsFiniteSet(S) /\ Cardinality(S) \in Nat
      /\ Cardinality(S \cup {n}) \in Nat
  BY <1>8, RunsAreFinite
<1>10. Cardinality(S \cup {n}) <= Cardinality(S) + 1
  BY <1>9, FS_AddElement
<1>11. Cardinality(S \cup {n}) <= MaxActive
  BY <1>1, <1>8, <1>9, <1>10
<1> QED BY <1>5, <1>7, <1>11, Zenon

(* What the callers see of a state.                                        *)
LEMMA StateSeen ==
  ASSUME NEW s \in RunState
  PROVE  /\ ServiceState(s) = "absent" <=> s = "absent"
         /\ ServiceState(s) = "queued" <=> s = "queued"
         /\ ServiceState(s) = "running" <=> s = "running"
         /\ ServiceState(s) \in {"running", "waiting"} <=> s \in ActiveStates
         /\ ServiceState(s) \in {"completed", "failed", "cancelled"} <=> s \in TerminalStates
         /\ s = "cancelled" => ServiceState(s) = "cancelled"
         /\ s = "interrupted" => ServiceState(s) = "failed"
BY DEF ServiceState, RunState, ActiveStates, TerminalStates
=============================================================================
