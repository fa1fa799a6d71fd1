--------------------------- MODULE ChatPageProofs ---------------------------
(***************************************************************************)
(* Theorems about ChatPage, for any runs, any size of a batch and any      *)
(* length of a log.                                                        *)
(*                                                                         *)
(* Whatever the page or its storage has of a run fits the log of the run   *)
(* (Fits): its cursor is not beyond the log, and it shows the pieces up to *)
(* the cursor.  The follower knows its reply (Attends), in particular      *)
(* whether there is text in it; nothing follows the end of a log (Closed); *)
(* and the last approval that a waiting run has asked for has its banner   *)
(* once the cursor is past it (Announced).                                 *)
(***************************************************************************)
EXTENDS ChatPage, FiniteSetTheorems, WellFoundedInduction, TLAPS

Bounded ==
  /\ \A r \in Runs : Len(log[r]) <= MaxLog
  /\ Len(replies) <= MaxReplies /\ Len(stored) <= MaxReplies

(* A result or an error is the last of the log q, and ends the run.        *)
Finished(q, s) ==
  \A i \in DOMAIN q : q[i] \in {"result", "error"} => i = Len(q) /\ s = "ended"

(* While a run waits, the last of its log q is what it asks.               *)
Asked(q, s) == s = "waiting" => Len(q) > 0 /\ q[Len(q)] = "ask"

Closed(st, lg) ==
  \A r \in Runs :
    (st[r] = "none" => lg[r] = << >>) /\ Finished(lg[r], st[r]) /\ Asked(lg[r], st[r])

(* Shows(), of a text.                                                     *)
Listed(t, ps) ==
  /\ ToSet(t) \ {0} = ps
  /\ \A i, j \in DOMAIN t : i < j => t[j] = 0 \/ t[i] < t[j]

(* What ShownOnce says of a reply with text t and cursor c, if q is the    *)
(* log of its run.                                                         *)
ShowsUpTo(q, t, c) ==
  \/ Listed(t, Pieces(q, 1..c))
  \/ 0 \in ToSet(t) /\ Listed(t, LaterPieces(q, 1..c))

Fits(st, lg, reply) ==
  reply.run # NoRun =>
    /\ st[reply.run] # "none"
    /\ reply.cursor <= Len(lg[reply.run])
    /\ ShowsUpTo(lg[reply.run], reply.text, reply.cursor)

AllFit(st, lg, q) == \A i \in DOMAIN q : Fits(st, lg, q[i])

(* The follower f has the reply of q that it is to fill, and knows it.     *)
Attends(f, q) ==
  /\ f.step # "none" => (f.run = NoRun <=> f.step = "creates")
  /\ f.step = "creates" =>
       /\ f.reply \in DOMAIN q
       /\ q[f.reply] = [run |-> NoRun, text |-> << >>, cursor |-> 0]
       /\ ~ f.got /\ f.cursor = 0
  /\ f.step \in {"rebuilds", "follows"} =>
       /\ f.reply \in DOMAIN q
       /\ q[f.reply].run = f.run /\ q[f.reply].cursor = f.cursor
       /\ f.got <=> q[f.reply].text # << >>

(* The last approval that a run asks for has a banner of bs, once the      *)
(* cursor of f is past it and while the run waits.                         *)
Announced(f, st, lg, bs) ==
  f.step = "follows" /\ ~ f.blind /\ st[f.run] = "waiting" =>
    \A i \in LastAsk(lg[f.run], DOMAIN lg[f.run]) :
      i <= f.cursor => <<f.run, i>> \in ToSet(bs)

IInv ==
  /\ TypeOK /\ Bounded /\ Closed(state, log)
  /\ AllFit(state, log, replies) /\ AllFit(state, log, stored)
  /\ stage # "ready" => follower.step = "none"
  /\ Attends(follower, replies) /\ Announced(follower, state, log, banners)

-----------------------------------------------------------------------------
(* Sets of positions in order.  The library's induction takes an operator; *)
(* what is used here instead is that the subsets of a finite set are well  *)
(* founded, so that among them there is a smallest counterexample.         *)

(* A set of naturals that has an element has a least one.                  *)
LEMMA Least ==
  ASSUME NEW T \in SUBSET Nat, T # {} PROVE \E m \in T : \A n \in T : m <= n
PROOF
<1>1. PICK k \in T : TRUE
  OBVIOUS
<1> DEFINE Downs == {0..m : m \in {n \in T : n <= k}}
<1>2. IsFiniteSet(0..k)
  BY FS_Interval
<1>3. Downs \subseteq FiniteSubsetsOf(0..k)
  <2> SUFFICES ASSUME NEW m \in T, m <= k PROVE 0..m \in FiniteSubsetsOf(0..k)
    OBVIOUS
  <2>1. 0..m \subseteq 0..k
    OBVIOUS
  <2> QED BY <1>2, <2>1, FS_FiniteSubsetsOfFinite
<1>4. Downs # {}
  BY <1>1
<1> HIDE DEF Downs
<1>5. PICK D \in Downs : \A E \in Downs : <<E, D>> \notin StrictSubsetOrdering(0..k)
  BY <1>3, <1>4, WFMin, FS_StrictSubsetOrderingWellFounded
<1>6. PICK m \in T : m <= k /\ D = 0..m
  BY <1>5 DEF Downs
<1>7. ASSUME NEW n \in T, ~ (m <= n) PROVE FALSE
  <2>1. n <= k /\ 0..n \in Downs
    BY <1>6, <1>7 DEF Downs
  <2>2. 0..n \subseteq 0..m /\ 0..n # 0..m
    BY <1>7
  <2>3. <<0..n, 0..m>> \in StrictSubsetOrdering(0..k)
    BY <2>2, <1>6 DEF StrictSubsetOrdering
  <2> QED BY <2>1, <2>3, <1>5, <1>6
<1> QED BY <1>6, <1>7

(* A bounded one has a greatest.                                           *)
LEMMA Greatest ==
  ASSUME NEW b \in Nat, NEW T \in SUBSET (0..b), T # {}
  PROVE  \E m \in T : \A n \in T : n <= m
PROOF
<1> DEFINE Bounds == {k \in Nat : \A n \in T : n <= k}
<1>1. b \in Bounds
  OBVIOUS
<1>2. PICK m \in Bounds : \A k \in Bounds : m <= k
  BY <1>1, Least
<1>3. CASE m \in T
  BY <1>2, <1>3
<1>4. CASE m \notin T
  <2>1. m # 0
    <3>1. PICK x \in T : x \in 0..b
      OBVIOUS
    <3>2. x <= m /\ x # m /\ m \in Nat
      BY <1>2, <1>4, <3>1
    <3> QED BY <3>1, <3>2
  <2>2. m \in Nat /\ m - 1 \in Nat /\ ~ (m <= m - 1)
    <3>1. m \in Nat
      BY <1>2
    <3> QED BY <2>1, <3>1
  <2>3. \A n \in T : n <= m - 1
    BY <1>2, <1>4, <2>2
  <2> QED BY <1>2, <2>2, <2>3
<1> QED BY <1>3, <1>4

Increasing(q) == \A i, j \in DOMAIN q : i < j => q[i] < q[j]
Enumerates(q, S) == q \in [1..Cardinality(S) -> S] /\ Increasing(q) /\ S \subseteq ToSet(q)

(* A bounded set can be enumerated in order: take its greatest element     *)
(* last.                                                                   *)
LEMMA Enumerable ==
  ASSUME NEW b \in Nat, NEW S \in SUBSET (0..b)
  PROVE  \E q : Enumerates(q, S)
PROOF
<1> DEFINE Bad == {T \in SUBSET (0..b) : ~ \E q : Enumerates(q, T)}
<1>1. IsFiniteSet(0..b)
  BY FS_Interval
<1> SUFFICES ASSUME Bad # {} PROVE FALSE
  OBVIOUS
<1>2. Bad \subseteq FiniteSubsetsOf(0..b)
  BY <1>1, FS_FiniteSubsetsOfFinite
<1> HIDE DEF Bad
<1>3. PICK T \in Bad : \A U \in Bad : <<U, T>> \notin StrictSubsetOrdering(0..b)
  BY <1>2, WFMin, FS_StrictSubsetOrderingWellFounded
<1>4. T \in SUBSET (0..b) /\ ~ \E q : Enumerates(q, T)
  BY <1>3 DEF Bad
<1>5. IsFiniteSet(T) /\ Cardinality(T) \in Nat
  BY <1>1, <1>4, FS_Subset, FS_CardinalityType
<1>6. T # {}
  <2> SUFFICES ASSUME T = {} PROVE FALSE
    OBVIOUS
  <2>1. Cardinality(T) = 0
    BY FS_EmptySet
  <2>2. Enumerates([i \in 1..0 |-> 0], T)
    BY <2>1 DEF Enumerates, Increasing
  <2> QED BY <2>2, <1>4
<1>7. PICK m \in T : \A n \in T : n <= m
  BY <1>4, <1>6, Greatest
<1>8. \A x \in T : x \in Nat /\ x <= m
  BY <1>4, <1>7
<1> DEFINE U == T \ {m}
<1>9. Cardinality(U) = Cardinality(T) - 1 /\ IsFiniteSet(U)
  BY <1>5, FS_RemoveElement
<1>10. U \notin Bad
  <2>1. <<U, T>> \in StrictSubsetOrdering(0..b)
    BY <1>4 DEF StrictSubsetOrdering
  <2> QED BY <1>3, <2>1
<1>11. PICK q : Enumerates(q, U)
  BY <1>4, <1>10 DEF Bad
<1> DEFINE n == Cardinality(T)
           t == [i \in 1..n |-> IF i = n THEN m ELSE q[i]]
<1>12. n \in Nat /\ n # 0 /\ q \in [1..(n - 1) -> U]
  BY <1>5, <1>6, <1>9, <1>11, FS_EmptySet DEF Enumerates
<1>13. t \in [1..n -> T]
  BY <1>12
<1>14. Increasing(t)
  <2> SUFFICES ASSUME NEW i \in 1..n, NEW j \in 1..n, i < j PROVE t[i] < t[j]
    BY DEF Increasing
  <2>1. i \in 1..(n - 1) /\ q[i] \in T /\ q[i] # m /\ t[i] = q[i]
    BY <1>12
  <2>2. CASE j = n
    <3>1. q[i] \in Nat /\ m \in Nat /\ q[i] <= m
      BY <2>1, <1>8
    <3> QED BY <2>1, <2>2, <3>1
  <2>3. CASE j # n
    <3>1. DOMAIN q = 1..(n - 1) /\ j \in 1..(n - 1) /\ t[j] = q[j]
      BY <2>3, <1>12
    <3> QED BY <2>1, <3>1, <1>11 DEF Enumerates, Increasing
  <2> QED BY <2>2, <2>3
<1>15. T \subseteq ToSet(t)
  <2> SUFFICES ASSUME NEW x \in T PROVE \E i \in 1..n : t[i] = x
    BY DEF ToSet
  <2>1. CASE x = m
    BY <2>1, <1>12
  <2>2. CASE x # m
    <3>1. PICK i \in 1..(n - 1) : q[i] = x
      BY <2>2, <1>11, <1>12 DEF Enumerates, ToSet
    <3> QED BY <3>1, <1>12
  <2> QED BY <2>1, <2>2
<1> QED BY <1>4, <1>13, <1>14, <1>15 DEF Enumerates

(* InOrder() enumerates its set.                                           *)
LEMMA InOrderIs ==
  ASSUME NEW b \in Nat, NEW S \in SUBSET (0..b)
  PROVE  /\ Cardinality(S) \in Nat
         /\ InOrder(S) \in [1..Cardinality(S) -> S]
         /\ InOrder(S) \in Seq(S) /\ Len(InOrder(S)) = Cardinality(S)
         /\ Increasing(InOrder(S)) /\ ToSet(InOrder(S)) = S
PROOF
<1> DEFINE n == Cardinality(S)
<1>1. IsFiniteSet(S) /\ n \in Nat
  <2>1. IsFiniteSet(0..b)
    BY FS_Interval
  <2>2. IsFiniteSet(S)
    BY <2>1, FS_Subset
  <2> QED BY <2>2, FS_CardinalityType
<1>2. PICK q : Enumerates(q, S)
  BY Enumerable
<1>3. q \in SetToSeqs(S)
  <2> SUFFICES ASSUME NEW i \in 1..n, NEW j \in 1..n, i # j PROVE q[i] # q[j]
    BY <1>2 DEF SetToSeqs, Enumerates
  <2>0. \A x \in S : x \in Nat
    OBVIOUS
  <2>1. q[i] \in S /\ q[j] \in S /\ i \in DOMAIN q /\ j \in DOMAIN q
    BY <1>2 DEF Enumerates
  <2>2. i < j \/ j < i
    BY <1>1
  <2>3. q[i] < q[j] \/ q[j] < q[i]
    BY <1>2, <2>1, <2>2 DEF Enumerates, Increasing
  <2>4. q[i] \in Nat /\ q[j] \in Nat
    BY <2>0, <2>1
  <2> QED BY <2>3, <2>4
<1>4. InOrder(S) \in SetToSeqs(S) /\ Increasing(InOrder(S))
  BY <1>2, <1>3 DEF InOrder, Enumerates, Increasing
<1>5. InOrder(S) \in [1..n -> S] /\ \A i, j \in 1..n : i # j => InOrder(S)[i] # InOrder(S)[j]
  BY <1>4 DEF SetToSeqs
<1> HIDE DEF n
<1>6. InOrder(S) \in Surjection(1..n, S)
  <2>1. InOrder(S) \in Injection(1..n, S)
    BY <1>5 DEF Injection, IsInjective
  <2>2. Cardinality(1..n) = n
    BY <1>1, FS_Interval
  <2> QED BY <1>1, <2>1, <2>2, FS_Injection DEF n
<1>7. ToSet(InOrder(S)) = S
  BY <1>5, <1>6 DEF Surjection, ToSet
<1>8. InOrder(S) \in Seq(S) /\ Len(InOrder(S)) = n
  BY <1>1, <1>5
<1> QED BY <1>1, <1>4, <1>5, <1>7, <1>8 DEF n

(* A sequence of bounded numbers is one of naturals.                       *)
LEMMA SeqOfNats ==
  ASSUME NEW b \in Nat, NEW t \in Seq(0..b) PROVE t \in Seq(Nat)
PROOF
<1>1. t \in [1..Len(t) -> 0..b] /\ Len(t) \in Nat
  OBVIOUS
<1>2. t \in [1..Len(t) -> Nat]
  BY <1>1
<1> QED BY <1>1, <1>2

(* InOrder() of a bounded set is a sequence of bounded numbers.            *)
LEMMA InOrderNat ==
  ASSUME NEW b \in Nat, NEW S \in SUBSET (0..b) PROVE InOrder(S) \in Seq(0..b)
PROOF
<1>1. InOrder(S) \in [1..Len(InOrder(S)) -> S] /\ Len(InOrder(S)) \in Nat
  BY InOrderIs
<1>2. InOrder(S) \in [1..Len(InOrder(S)) -> 0..b]
  BY <1>1
<1> QED BY <1>1, <1>2

-----------------------------------------------------------------------------
(* What a reply shows.                                                     *)

(* The positions Q, in order, are q; they come after P; with them the text *)
(* u follows t.                                                            *)
Spells(q, Q)        == q \in Seq(Nat) /\ Increasing(q) /\ ToSet(q) = Q /\ 0 \notin Q
Precedes(P, Q)      == \A x \in P, y \in Q : x < y
Follows(u, t, P, Q) == Listed(u, P \cup Q) /\ ToSet(u) = ToSet(t) \cup Q

(* Text of later events goes behind what is there.                         *)
LEMMA ShowsMore ==
  ASSUME NEW P, NEW Q, Precedes(P, Q),
         NEW t, t \in Seq(Nat), Listed(t, P),
         NEW q, Spells(q, Q), NEW u, u = t \o q
  PROVE  Follows(u, t, P, Q)
PROOF
<1>1. t \in Seq(Nat) /\ q \in Seq(Nat)
  BY DEF Spells
<1>2. ToSet(q) = Q /\ \A x \in Q : x \in Nat /\ x > 0
  <2>1. \A x \in ToSet(q) : x \in Nat
    BY <1>1 DEF ToSet
  <2>2. ToSet(q) = Q /\ 0 \notin Q
    BY DEF Spells
  <2> QED BY <2>1, <2>2
<1>3. u = t \o q
  OBVIOUS
<1>4. /\ DOMAIN t = 1..Len(t) /\ DOMAIN q = 1..Len(q) /\ Len(t) \in Nat /\ Len(q) \in Nat
      /\ DOMAIN u = 1..(Len(t) + Len(q))
      /\ \A i \in 1..Len(t) : u[i] = t[i]
      /\ \A i \in 1..Len(q) : u[Len(t) + i] = q[i]
      /\ \A i \in (Len(t) + 1)..(Len(t) + Len(q)) : i - Len(t) \in 1..Len(q)
           /\ u[i] = q[i - Len(t)]
  BY <1>1, <1>3
<1>5. ToSet(u) = ToSet(t) \cup ToSet(q)
  <2>1. ASSUME NEW x \in ToSet(u) PROVE x \in ToSet(t) \cup ToSet(q)
    <3>1. PICK i \in 1..(Len(t) + Len(q)) : x = u[i]
      BY <2>1, <1>4 DEF ToSet
    <3>2. CASE i \in 1..Len(t)
      BY <3>1, <3>2, <1>4 DEF ToSet
    <3>3. CASE i \in (Len(t) + 1)..(Len(t) + Len(q))
      BY <3>1, <3>3, <1>4 DEF ToSet
    <3> QED BY <3>1, <3>2, <3>3, <1>4
  <2>2. ASSUME NEW x \in ToSet(t) PROVE x \in ToSet(u)
    <3>1. PICK i \in 1..Len(t) : x = t[i]
      BY <2>2, <1>4 DEF ToSet
    <3> QED BY <3>1, <1>4 DEF ToSet
  <2>3. ASSUME NEW x \in ToSet(q) PROVE x \in ToSet(u)
    <3>1. PICK i \in 1..Len(q) : x = q[i]
      BY <2>3, <1>4 DEF ToSet
    <3>2. Len(t) + i \in DOMAIN u
      BY <1>4
    <3> QED BY <3>1, <3>2, <1>4 DEF ToSet
  <2> QED BY <2>1, <2>2, <2>3
<1>6. ToSet(u) \ {0} = P \cup Q
  BY <1>2, <1>5 DEF Listed
<1>7. ASSUME NEW i \in DOMAIN u, NEW j \in DOMAIN u, i < j
      PROVE  u[j] = 0 \/ u[i] < u[j]
  <2>1. CASE j \in 1..Len(t)
    <3>1. i \in DOMAIN t /\ j \in DOMAIN t /\ u[i] = t[i] /\ u[j] = t[j]
      BY <1>4, <1>7, <2>1
    <3> QED BY <3>1, <1>7 DEF Listed
  <2>2. CASE j \notin 1..Len(t) /\ i \in 1..Len(t)
    <3>1. u[i] = t[i] /\ t[i] \in Nat /\ (t[i] = 0 \/ t[i] \in P)
      BY <1>1, <1>4, <2>2 DEF Listed, ToSet
    <3>2. u[j] = q[j - Len(t)] /\ j - Len(t) \in DOMAIN q
      BY <1>4, <2>2
    <3>3. u[j] \in Q
      BY <1>2, <3>2 DEF ToSet
    <3>4. u[j] \in Nat /\ u[j] > 0
      BY <1>2, <3>3
    <3>5. t[i] \in P => t[i] < u[j]
      BY <3>3 DEF Precedes
    <3> QED BY <3>1, <3>4, <3>5
  <2>3. CASE j \notin 1..Len(t) /\ i \notin 1..Len(t)
    <3>1. u[i] = q[i - Len(t)] /\ u[j] = q[j - Len(t)]
      BY <1>4, <2>3
    <3>2. i - Len(t) \in DOMAIN q /\ j - Len(t) \in DOMAIN q /\ i - Len(t) < j - Len(t)
      BY <1>4, <1>7, <2>3
    <3> QED BY <3>1, <3>2 DEF Increasing, Spells
  <2> QED BY <2>1, <2>2, <2>3
<1>8. Listed(u, P \cup Q)
  BY <1>6, <1>7 DEF Listed
<1>9. ToSet(u) = ToSet(t) \cup Q
  BY <1>2, <1>5
<1> QED BY <1>8, <1>9 DEF Follows

(* A word that comes from no event changes nothing.                        *)
LEMMA ShowsAfterAll ==
  ASSUME NEW P, NEW t \in Seq(Nat), Listed(t, P)
  PROVE  Listed(t \o <<0>>, P) /\ ToSet(t \o <<0>>) = ToSet(t) \cup {0}
PROOF
<1> DEFINE u == t \o <<0>>
<1>1. /\ Len(t) \in Nat /\ DOMAIN t = 1..Len(t) /\ DOMAIN u = 1..(Len(t) + 1)
      /\ \A i \in 1..Len(t) : u[i] = t[i]
      /\ u[Len(t) + 1] = 0
  OBVIOUS
<1> HIDE DEF u
<1>2. ToSet(u) = ToSet(t) \cup {0}
  <2>1. ASSUME NEW x \in ToSet(u) PROVE x \in ToSet(t) \cup {0}
    BY <1>1, <2>1 DEF ToSet
  <2>2. ASSUME NEW x \in ToSet(t) PROVE x \in ToSet(u)
    BY <1>1, <2>2 DEF ToSet
  <2>3. 0 \in ToSet(u)
    <3>1. Len(t) + 1 \in DOMAIN u
      BY <1>1
    <3> QED BY <1>1, <3>1 DEF ToSet
  <2> QED BY <2>1, <2>2, <2>3
<1>3. ASSUME NEW i \in DOMAIN u, NEW j \in DOMAIN u, i < j PROVE u[j] = 0 \/ u[i] < u[j]
  <2>1. CASE j = Len(t) + 1
    BY <1>1, <2>1
  <2>2. CASE j # Len(t) + 1
    <3>1. i \in DOMAIN t /\ j \in DOMAIN t /\ u[i] = t[i] /\ u[j] = t[j]
      BY <1>1, <1>3, <2>2
    <3> QED BY <1>3, <3>1 DEF Listed
  <2> QED BY <2>1, <2>2
<1> QED BY <1>2, <1>3 DEF Listed, u

(* A log that grows gives what it gave.                                    *)
LEMMA PiecesStay ==
  ASSUME NEW q \in Seq(Events), NEW e \in Events, NEW c \in Nat, c <= Len(q)
  PROVE  /\ Pieces(Append(q, e), 1..c) = Pieces(q, 1..c)
         /\ LaterPieces(Append(q, e), 1..c) = LaterPieces(q, 1..c)
PROOF
<1>1. \A i \in 1..c : Append(q, e)[i] = q[i]
  OBVIOUS
<1> QED BY <1>1 DEF Pieces, LaterPieces

(* The first piece is text, after which whole messages are not taken, or   *)
(* the end.                                                                *)
LEMMA PiecesAfterText ==
  ASSUME NEW q \in Seq(Events), NEW s, Finished(q, s), NEW c \in Nat, NEW d \in Nat,
         c <= d, d <= Len(q), Pieces(q, 1..c) # {}
  PROVE  Pieces(q, 1..d) = Pieces(q, 1..c) \cup LaterPieces(q, (c + 1)..d)
PROOF
<1>1. PICK p \in 1..c : p \in Pieces(q, 1..c)
  BY DEF Pieces, LaterPieces
<1>2. q[p] \in {"delta", "error", "complete", "result"} /\ p \in DOMAIN q
  BY <1>1 DEF Pieces, LaterPieces
<1>3. 1..d = (1..c) \cup ((c + 1)..d)
  OBVIOUS
<1>4. CASE q[p] \in {"error", "result"}
  <2>1. p = Len(q)
    BY <1>2, <1>4 DEF Finished
  <2>2. (c + 1)..d = {} /\ 1..d = 1..c
    BY <2>1
  <2> QED BY <2>2 DEF LaterPieces
<1>5. CASE q[p] \in {"delta", "complete"}
  <2>1. \A i \in (c + 1)..d : p < i /\ p \in 1..d
    OBVIOUS
  <2>2. \A i \in 1..c, j \in (c + 1)..d : ~ (j < i)
    OBVIOUS
  <2> QED BY <1>3, <1>5, <2>1, <2>2 DEF Pieces, LaterPieces
<1> QED BY <1>2, <1>4, <1>5

(* Without a piece there was no text in the events.                        *)
LEMMA NoPieceNoText ==
  ASSUME NEW q, NEW c \in Nat, NEW d \in Nat, Pieces(q, c..d) = {}
  PROVE  \A i \in c..d : q[i] \notin Texts
PROOF
<1> DEFINE T == {i \in c..d : q[i] \in Texts}
<1> SUFFICES ASSUME T # {} PROVE FALSE
  OBVIOUS
<1>1. T \in SUBSET Nat
  OBVIOUS
<1>2. PICK m \in T : \A n \in T : m <= n
  <2> HIDE DEF T
  <2> QED BY <1>1, Least
<1>3. m \in c..d /\ q[m] \in Texts /\ \A j \in c..d : j < m => q[j] \notin Texts
  BY <1>2
<1>4. m \in Pieces(q, c..d)
  BY <1>3 DEF Pieces, LaterPieces, Texts
<1> QED BY <1>4

(* Then it is as if the batch were the first.                              *)
LEMMA PiecesAfterNone ==
  ASSUME NEW q, NEW c \in Nat, NEW d \in Nat, c <= d, Pieces(q, 1..c) = {}
  PROVE  /\ Pieces(q, 1..d) = Pieces(q, (c + 1)..d)
         /\ LaterPieces(q, 1..d) = LaterPieces(q, (c + 1)..d)
PROOF
<1>1. \A i \in 1..c : q[i] \notin Texts
  BY NoPieceNoText
<1>2. 1..d = (1..c) \cup ((c + 1)..d)
  OBVIOUS
<1> QED BY <1>1, <1>2 DEF Pieces, LaterPieces, Texts

(* A text is empty when nothing is in it.                                  *)
LEMMA SomeElement ==
  ASSUME NEW S, NEW u \in Seq(S) PROVE u = << >> <=> ToSet(u) = {}
PROOF
<1>1. u = << >> <=> Len(u) = 0
  OBVIOUS
<1>2. Len(u) \in Nat /\ DOMAIN u = 1..Len(u)
  OBVIOUS
<1>3. CASE Len(u) = 0
  BY <1>1, <1>2, <1>3 DEF ToSet
<1>4. CASE Len(u) # 0
  <2>1. 1 \in DOMAIN u
    BY <1>2, <1>4
  <2> QED BY <1>1, <1>4, <2>1 DEF ToSet
<1> QED BY <1>3, <1>4

(* The pieces a batch gives a reply with text t.                           *)
Given(q, es, t) == IF t # << >> THEN LaterPieces(q, es) ELSE Pieces(q, es)

(* A batch takes a reply that shows the pieces up to its cursor to one     *)
(* that shows those up to the end of the batch.                            *)
LEMMA ReplyFilled ==
  ASSUME NEW q \in Seq(Events), NEW s, Finished(q, s), NEW t \in Seq(Nat),
         NEW c \in Nat, NEW d \in Nat, c <= d, d <= Len(q), ShowsUpTo(q, t, c)
  PROVE  LET Q == Given(q, (c + 1)..d, t)  u == t \o InOrder(Q) IN
         ShowsUpTo(q, u, d) /\ ToSet(u) = ToSet(t) \cup Q
PROOF
<1> DEFINE Q == Given(q, (c + 1)..d, t)  u == t \o InOrder(Q)
<1>1. Q \subseteq (c + 1)..d
  BY DEF Given, Pieces, LaterPieces
<1>2. Pieces(q, 1..c) \subseteq 1..c /\ LaterPieces(q, 1..c) \subseteq 1..c
  BY DEF Pieces, LaterPieces
<1>3. /\ t # << >> => Q = LaterPieces(q, (c + 1)..d)
      /\ t = << >> => Q = Pieces(q, (c + 1)..d)
  BY DEF Given
<1>4. u = t \o InOrder(Q)
  OBVIOUS
<1> HIDE DEF Q, u
<1>5. Spells(InOrder(Q), Q)
  <2>1. Q \in SUBSET (0..d) /\ 0 \notin Q
    BY <1>1
  <2>2. InOrder(Q) \in Seq(0..d) /\ Increasing(InOrder(Q)) /\ ToSet(InOrder(Q)) = Q
    BY <2>1, InOrderIs, InOrderNat
  <2>3. InOrder(Q) \in Seq(Nat)
    BY <2>2
  <2> QED BY <2>1, <2>2, <2>3 DEF Spells
<1>6. ASSUME NEW P, P \subseteq 1..c, Listed(t, P)
      PROVE  Listed(u, P \cup Q) /\ ToSet(u) = ToSet(t) \cup Q
  <2>1. Precedes(P, Q)
    BY <1>6, <1>1 DEF Precedes
  <2>2. Follows(u, t, P, Q)
    BY <1>6, <1>4, <1>5, <2>1, ShowsMore
  <2> QED BY <2>2 DEF Follows
<1>7. t = << >> <=> ToSet(t) = {}
  BY SomeElement
<1>8. CASE Listed(t, Pieces(q, 1..c))
  <2>1. ToSet(t) \ {0} = Pieces(q, 1..c)
    BY <1>8 DEF Listed
  <2>2. Listed(u, Pieces(q, 1..c) \cup Q) /\ ToSet(u) = ToSet(t) \cup Q
    BY <1>2, <1>6, <1>8
  <2>3. CASE Pieces(q, 1..c) # {}
    <3>1. Pieces(q, 1..d) = Pieces(q, 1..c) \cup LaterPieces(q, (c + 1)..d)
      BY <2>3, PiecesAfterText
    <3>2. t # << >>
      BY <2>1, <2>3, <1>7
    <3> QED BY <2>2, <3>1, <3>2, <1>3 DEF ShowsUpTo, u, Q
  <2>4. CASE Pieces(q, 1..c) = {}
    <3>1. /\ Pieces(q, 1..d) = Pieces(q, (c + 1)..d)
          /\ LaterPieces(q, 1..d) = LaterPieces(q, (c + 1)..d)
      BY <2>4, PiecesAfterNone
    <3>2. t # << >> => 0 \in ToSet(u)
      BY <2>1, <2>2, <2>4, <1>7
    <3> QED BY <2>2, <2>4, <3>1, <3>2, <1>3 DEF ShowsUpTo, u, Q
  <2> QED BY <2>3, <2>4
<1>9. CASE 0 \in ToSet(t) /\ Listed(t, LaterPieces(q, 1..c))
  <2>1. Listed(u, LaterPieces(q, 1..c) \cup Q) /\ ToSet(u) = ToSet(t) \cup Q
    BY <1>2, <1>6, <1>9
  <2>2. LaterPieces(q, 1..d) = LaterPieces(q, 1..c) \cup LaterPieces(q, (c + 1)..d)
    <3>1. 1..d = (1..c) \cup ((c + 1)..d)
      OBVIOUS
    <3> QED BY <3>1 DEF LaterPieces
  <2>3. t # << >>
    BY <1>7, <1>9
  <2> QED BY <1>3, <1>9, <2>1, <2>2, <2>3 DEF ShowsUpTo, u, Q
<1> QED BY <1>8, <1>9 DEF ShowsUpTo

(* The follower goes on to know whether there is text, as long as the run  *)
(* has not ended.                                                          *)
LEMMA TextKnown ==
  ASSUME NEW q, NEW c \in Nat, NEW d \in Nat,
         NEW t \in Seq(0..MaxLog), NEW u \in Seq(0..MaxLog),
         ToSet(u) = ToSet(t) \cup Given(q, c..d, t),
         \A i \in c..d : q[i] # "error"
  PROVE  u # << >> <=> t # << >> \/ \E i \in c..d : q[i] \in Texts \ {"error"}
PROOF
<1>1. /\ t = << >> <=> ToSet(t) = {}
      /\ u = << >> <=> ToSet(u) = {}
  BY SomeElement
<1>2. CASE t # << >>
  BY <1>1, <1>2
<1>3. CASE t = << >>
  <2>1. ToSet(u) = Pieces(q, c..d)
    BY <1>1, <1>3 DEF Given
  <2>2. Pieces(q, c..d) = {} => \A i \in c..d : q[i] \notin Texts
    BY NoPieceNoText
  <2>3. \A i \in Pieces(q, c..d) : i \in c..d /\ q[i] \in Texts
    BY DEF Pieces, LaterPieces, Texts
  <2> QED BY <1>1, <1>3, <2>1, <2>2, <2>3
<1> QED BY <1>2, <1>3
-----------------------------------------------------------------------------
(* The coordinator.                                                        *)

Banners == Seq(Runs \X (1..MaxLog))
States  == [Runs -> {"none", "ended"} \cup Live]
Logbook == [Runs -> Seq(Events)]

(* The coordinator goes on: logs only grow, and a run stays one.           *)
GoesOn(st, lg, st2, lg2) ==
  /\ \A r \in Runs : lg2[r] = lg[r] \/ \E e \in Events : lg2[r] = Append(lg[r], e)
  /\ \A r \in Runs : st[r] # "none" => st2[r] # "none"

(* What fits goes on to fit.                                               *)
LEMMA FitsOn ==
  ASSUME NEW st, NEW lg \in Logbook, NEW st2, NEW lg2, GoesOn(st, lg, st2, lg2),
         NEW q \in Seq(Reply), AllFit(st, lg, q)
  PROVE  AllFit(st2, lg2, q)
PROOF
<1> SUFFICES ASSUME NEW i \in DOMAIN q, q[i].run # NoRun
             PROVE  /\ st2[q[i].run] # "none" /\ q[i].cursor <= Len(lg2[q[i].run])
                    /\ ShowsUpTo(lg2[q[i].run], q[i].text, q[i].cursor)
  BY DEF AllFit, Fits
<1> DEFINE r == q[i].run  c == q[i].cursor
<1>1. q[i] \in Reply
  OBVIOUS
<1>2. r \in Runs /\ c \in Nat
  <2>1. r \in Runs \cup {NoRun} /\ c \in 0..MaxLog
    BY <1>1 DEF Reply
  <2> QED BY <2>1, ChatAssumption
<1>3. st[r] # "none" /\ c <= Len(lg[r]) /\ ShowsUpTo(lg[r], q[i].text, c)
  BY DEF AllFit, Fits
<1> HIDE DEF r, c
<1>4. lg[r] \in Seq(Events)
  BY <1>2 DEF Logbook
<1>5. CASE lg2[r] = lg[r]
  BY <1>2, <1>3, <1>5 DEF GoesOn, r, c
<1>6. ASSUME NEW e \in Events, lg2[r] = Append(lg[r], e)
      PROVE  /\ c <= Len(lg2[r])
             /\ ShowsUpTo(lg2[r], q[i].text, c)
  <2>1. /\ Pieces(lg2[r], 1..c) = Pieces(lg[r], 1..c)
        /\ LaterPieces(lg2[r], 1..c) = LaterPieces(lg[r], 1..c)
    <3> DEFINE l == lg[r]
    <3>1. l \in Seq(Events) /\ c \in Nat /\ c <= Len(l)
      BY <1>2, <1>3, <1>4
    <3> HIDE DEF l
    <3>2. /\ Pieces(Append(l, e), 1..c) = Pieces(l, 1..c)
          /\ LaterPieces(Append(l, e), 1..c) = LaterPieces(l, 1..c)
      BY <3>1, PiecesStay
    <3> QED BY <3>2, <1>6 DEF l
  <2>2. Len(lg2[r]) = Len(lg[r]) + 1 /\ Len(lg[r]) \in Nat
    BY <1>4, <1>6
  <2> QED BY <1>2, <1>3, <2>1, <2>2 DEF ShowsUpTo
<1>7. st2[r] # "none"
  BY <1>2, <1>3 DEF GoesOn
<1>8. c <= Len(lg2[r]) /\ ShowsUpTo(lg2[r], q[i].text, c)
  BY <1>2, <1>3, <1>5, <1>6 DEF GoesOn
<1> QED BY <1>7, <1>8 DEF r, c

(* A run that has not ended has no result and no error in its log.         *)
LEMMA NotFinished ==
  ASSUME NEW q, NEW s, Finished(q, s), s # "ended"
  PROVE  \A i \in DOMAIN q : q[i] \notin {"result", "error"}
PROOF
BY DEF Finished

(* One more event keeps the logs closed.                                   *)
LEMMA ClosedOn ==
  ASSUME NEW st \in States, NEW lg \in Logbook, Closed(st, lg), NEW r \in Runs,
         st[r] \in Live, NEW e \in Events, NEW s, s # "none",
         e \in {"result", "error"} => s = "ended", s = "waiting" => e = "ask"
  PROVE  Closed([st EXCEPT ![r] = s], [lg EXCEPT ![r] = Append(@, e)])
PROOF
<1> DEFINE l == lg[r]  m == Append(l, e)
<1>1. l \in Seq(Events)
  BY DEF Logbook
<1>2. \A i \in DOMAIN l : l[i] \notin {"result", "error"}
  BY DEF Closed, Finished, Live
<1> HIDE DEF l
<1>3. /\ DOMAIN m = 1..(Len(l) + 1) /\ Len(m) = Len(l) + 1 /\ Len(l) \in Nat
      /\ DOMAIN l = 1..Len(l)
      /\ \A i \in 1..Len(l) : m[i] = l[i]
      /\ m[Len(l) + 1] = e
  BY <1>1
<1> HIDE DEF m
<1>4. Finished(m, s)
  <2> SUFFICES ASSUME NEW i \in DOMAIN m, m[i] \in {"result", "error"}
               PROVE  i = Len(m) /\ s = "ended"
    BY DEF Finished
  <2>1. i = Len(l) + 1
    BY <1>2, <1>3
  <2> QED BY <2>1, <1>3
<1>5. Asked(m, s)
  BY <1>3 DEF Asked
<1>6. ASSUME NEW x \in Runs
      PROVE  LET st2 == [st EXCEPT ![r] = s]  lg2 == [lg EXCEPT ![r] = Append(@, e)] IN
             (st2[x] = "none" => lg2[x] = << >>) /\ Finished(lg2[x], st2[x])
               /\ Asked(lg2[x], st2[x])
  <2>1. CASE x = r
    BY <1>4, <1>5, <2>1 DEF m, l, States, Logbook
  <2>2. CASE x # r
    BY <2>2 DEF Closed, States, Logbook
  <2> QED BY <2>1, <2>2
<1> QED BY <1>6 DEF Closed
(* The logs stay within their bound.                                       *)
LEMMA LogsBounded ==
  ASSUME log \in Logbook, \A r \in Runs : Len(log[r]) <= MaxLog,
         NEW r \in Runs, NEW e \in Events, Logs(r, e)
  PROVE  /\ log' \in Logbook /\ \A x \in Runs : Len(log'[x]) <= MaxLog
         /\ log'[r] = Append(log[r], e)
         /\ \A x \in Runs : x # r => log'[x] = log[x]
PROOF
<1>1. log[r] \in Seq(Events) /\ Append(log[r], e) \in Seq(Events)
  BY DEF Logbook
<1>2. /\ log'[r] = Append(log[r], e)
      /\ \A x \in Runs : x # r => log'[x] = log[x]
  BY DEF Logs, Logbook
<1>3. log' \in Logbook
  BY <1>1 DEF Logs, Logbook
<1>4. Len(log'[r]) <= MaxLog
  <2>1. Len(Append(log[r], e)) = Len(log[r]) + 1 /\ Len(log[r]) \in Nat
    BY <1>1
  <2> QED BY <1>2, <2>1, ChatAssumption DEF Logs
<1> QED BY <1>2, <1>3, <1>4

(* The run r is in the state s now, and no other has changed.              *)
Moves(st, st2, r, s) ==
  st2 \in States /\ st2[r] = s /\ \A x \in Runs : x # r => st2[x] = st[x]

(* A run that appears or ends without an event keeps them closed, and what *)
(* fits them.                                                              *)
LEMMA StateOn ==
  ASSUME NEW st \in States, NEW lg \in Logbook, Closed(st, lg), NEW r \in Runs,
         st[r] # "ended", NEW s \in {"ended", "running"}, NEW st2, Moves(st, st2, r, s)
  PROVE  Closed(st2, lg) /\ GoesOn(st, lg, st2, lg)
PROOF
<1>1. st2[r] = s /\ \A x \in Runs : x # r => st2[x] = st[x]
  BY DEF Moves
<1>2. Closed(st2, lg)
  <2> SUFFICES ASSUME NEW x \in Runs
               PROVE  /\ st2[x] = "none" => lg[x] = << >>
                      /\ Finished(lg[x], st2[x]) /\ Asked(lg[x], st2[x])
    BY DEF Closed
  <2>1. (st[x] = "none" => lg[x] = << >>) /\ Finished(lg[x], st[x]) /\ Asked(lg[x], st[x])
    BY DEF Closed
  <2>2. CASE x = r
    BY <1>1, <2>1, <2>2 DEF Finished, Asked
  <2>3. CASE x # r
    BY <1>1, <2>1, <2>3
  <2> QED BY <2>2, <2>3
<1>3. GoesOn(st, lg, st2, lg)
  BY <1>1 DEF GoesOn, Live
<1> QED BY <1>2, <1>3

(* Such a step, without anything of the page.                              *)
LEMMA StateKeeps ==
  ASSUME IInv, NEW r \in Runs, state[r] # "ended", NEW s \in {"ended", "running"},
         state' = [state EXCEPT ![r] = s], UNCHANGED <<log, Page>>
  PROVE  IInv'
PROOF
<1>1. state \in States /\ log \in Logbook
  BY DEF IInv, TypeOK, States, Logbook
<1>2. replies \in Seq(Reply) /\ stored \in Seq(Reply)
  BY DEF IInv, TypeOK
<1>3. state' \in States /\ Closed(state', log) /\ GoesOn(state, log, state', log)
  <2>1. Closed(state, log)
    BY DEF IInv
  <2>2. Moves(state, state', r, s)
    BY <1>1 DEF Moves, States, Live
  <2> QED BY <1>1, <2>1, <2>2, StateOn DEF Moves
<1>4. UNCHANGED <<log, stage, replies, stored, follower, banners>>
  BY DEF Page
<1>5. TypeOK' /\ Bounded' /\ Attends(follower', replies')
  BY <1>3, <1>4 DEF IInv, TypeOK, Bounded, States
<1>6. Announced(follower', state', log', banners')
  <2>1. state'[follower.run] = "waiting" => state[follower.run] = "waiting"
    BY <1>1 DEF States
  <2> QED BY <1>4, <2>1 DEF IInv, Announced
<1>7. AllFit(state', log', replies') /\ AllFit(state', log', stored') /\ Closed(state', log')
  BY <1>2, <1>3, <1>4, FitsOn, <1>1 DEF IInv
<1>8. stage' # "ready" => follower'.step = "none"
  BY <1>4 DEF IInv
<1> QED BY <1>5, <1>6, <1>7, <1>8 DEF IInv

(* What a step of the coordinator that adds an event leaves as it was.     *)
LEMMA EventKeeps ==
  ASSUME IInv, NEW r \in Runs, state[r] \in Live, NEW e \in Events, Logs(r, e),
         NEW s \in {"ended"} \cup Live, state' = [state EXCEPT ![r] = s],
         e \in {"result", "error"} => s = "ended", s = "waiting" => e = "ask",
         UNCHANGED <<stage, replies, stored, follower>>,
         banners' \in Banners, Announced(follower, state', log', banners')
  PROVE  IInv'
PROOF
<1>1. state \in States /\ log \in Logbook /\ \A x \in Runs : Len(log[x]) <= MaxLog
  BY DEF IInv, TypeOK, Bounded, States, Logbook
<1>2. /\ log' \in Logbook /\ \A x \in Runs : Len(log'[x]) <= MaxLog
      /\ log'[r] = Append(log[r], e)
      /\ \A x \in Runs : x # r => log'[x] = log[x]
  BY <1>1, LogsBounded
<1>3. TypeOK' /\ Bounded'
  <2>1. state' \in States
    BY <1>1 DEF States
  <2> QED BY <1>2, <2>1 DEF IInv, TypeOK, Bounded, States, Logbook, Banners
<1>4. Closed(state', log')
  <2>1. log' = [log EXCEPT ![r] = Append(@, e)] /\ s # "none" /\ Closed(state, log)
    BY DEF Logs, Live, IInv
  <2> QED BY <1>1, <2>1, ClosedOn
<1>5. AllFit(state', log', replies) /\ AllFit(state', log', stored)
  <2>1. GoesOn(state, log, state', log')
    BY <1>1, <1>2 DEF GoesOn, States, Live
  <2>2. replies \in Seq(Reply) /\ stored \in Seq(Reply)
    BY DEF IInv, TypeOK
  <2> QED BY <1>1, <2>1, <2>2, FitsOn DEF IInv
<1> QED BY <1>3, <1>4, <1>5 DEF IInv

(* Hermes: when it asks, what it asks is beyond the cursor of every page.  *)
LEMMA SaysKeeps ==
  ASSUME IInv, NEW r \in Runs, NEW e \in {"delta", "complete", "ask"}, Says(r, e)
  PROVE  IInv'
PROOF
<1> DEFINE s == IF e = "ask" THEN "waiting" ELSE state[r]
<1>1. /\ state[r] = "running" /\ Logs(r, e) /\ e \in Events
      /\ state' = [state EXCEPT ![r] = s]
      /\ UNCHANGED <<stage, replies, stored, follower, banners>>
  BY DEF Says, Page, Events, Texts
<1>2. s \in Live /\ (s = "waiting" => e = "ask")
  BY <1>1 DEF Live
<1>3. banners' \in Banners /\ state \in States /\ log \in Logbook
  BY <1>1 DEF IInv, TypeOK, Banners, States, Logbook
<1>4. Announced(follower, state', log', banners')
  <2> SUFFICES ASSUME follower.step = "follows", ~ follower.blind,
                      state'[follower.run] = "waiting",
                      NEW i \in LastAsk(log'[follower.run], DOMAIN log'[follower.run]),
                      i <= follower.cursor
               PROVE  <<follower.run, i>> \in ToSet(banners)
    BY <1>1 DEF Announced
  <2>1. follower.run \in Runs
    BY DEF IInv, TypeOK, Follower, Attends
  <2>2. CASE follower.run # r
    <3>1. log'[follower.run] = log[follower.run] /\ state'[follower.run] = state[follower.run]
      BY <1>1, <1>3, <2>1, <2>2 DEF Logs, States, Logbook
    <3> QED BY <3>1 DEF IInv, Announced
  <2>3. CASE follower.run = r
    <3> DEFINE q == log[r]
    <3>1. q \in Seq(Events) /\ log'[r] = Append(q, "ask") /\ e = "ask"
      <4>1. state'[r] = s
        BY <1>1, <1>3 DEF States
      <4>2. e = "ask"
        <5> HIDE DEF s
        <5> QED BY <4>1, <1>2, <2>3
      <4> QED BY <4>2, <1>1, <1>3 DEF Logs, Logbook
    <3>2. follower.cursor <= Len(q) /\ follower.cursor \in Nat
      BY <2>3, <2>1, ChatAssumption DEF IInv, Attends, AllFit, Fits, TypeOK, Follower
    <3>3. i \in LastAsk(Append(q, "ask"), DOMAIN Append(q, "ask"))
      BY <2>3, <3>1
    <3> HIDE DEF q
    <3>4. i = Len(q) + 1
      <4>1. /\ DOMAIN Append(q, "ask") = 1..(Len(q) + 1) /\ Len(q) \in Nat
            /\ Append(q, "ask")[Len(q) + 1] = "ask"
        BY <3>1
      <4> QED BY <3>3, <4>1 DEF LastAsk
    <3>5. Len(q) \in Nat
      BY <3>1
    <3> QED BY <3>2, <3>4, <3>5
  <2> QED BY <2>2, <2>3
<1> QED BY <1>1, <1>2, <1>3, <1>4, EventKeeps DEF Live
(* The end of a run, with a last event or without.                         *)
LEMMA EndsKeeps ==
  ASSUME IInv, NEW r \in Runs, Ends(r) PROVE IInv'
PROOF
<1>1. /\ state[r] \in Live /\ state' = [state EXCEPT ![r] = "ended"]
      /\ UNCHANGED <<stage, replies, stored, follower, banners>>
  BY DEF Ends, Page
<1>2. CASE UNCHANGED log
  <2>1. UNCHANGED <<log, Page>> /\ state[r] # "ended"
    BY <1>1, <1>2 DEF Page, Live
  <2> QED BY <1>1, <2>1, StateKeeps
<1>3. ASSUME NEW e \in {"result", "error"}, Logs(r, e) PROVE IInv'
  <2>1. banners' \in Banners /\ state \in States /\ log \in Logbook /\ e \in Events
    BY <1>1 DEF IInv, TypeOK, Banners, States, Logbook, Events, Texts
  <2>2. Announced(follower, state', log', banners')
    <3>1. state'[follower.run] = "waiting" =>
            follower.run # r /\ state[follower.run] = "waiting"
      BY <1>1, <2>1 DEF States
    <3>2. follower.step = "follows" => follower.run \in Runs
      BY DEF IInv, TypeOK, Follower, Attends
    <3>3. follower.step = "follows" /\ state'[follower.run] = "waiting" =>
            log'[follower.run] = log[follower.run]
      BY <1>3, <2>1, <3>1, <3>2 DEF Logs, Logbook
    <3> QED BY <1>1, <3>1, <3>3 DEF IInv, Announced
  <2> QED BY <1>1, <1>3, <2>1, <2>2, EventKeeps
<1> QED BY <1>2, <1>3 DEF Ends

(* What was a banner still is one when that of another run is taken away.  *)
LEMMA TailKeeps ==
  ASSUME NEW S, NEW bs \in Seq(S), bs # << >>, NEW b \in ToSet(bs), b # bs[1]
  PROVE  b \in ToSet(Tail(bs))
PROOF
<1>1. Len(bs) \in Nat /\ DOMAIN bs = 1..Len(bs) /\ Len(bs) # 0
  OBVIOUS
<1>2. PICK i \in 1..Len(bs) : bs[i] = b
  BY <1>1 DEF ToSet
<1>3. i # 1
  BY <1>2
<1>4. DOMAIN Tail(bs) = 1..(Len(bs) - 1) /\ \A k \in 1..(Len(bs) - 1) : Tail(bs)[k] = bs[k + 1]
  BY <1>1
<1>5. i - 1 \in 1..(Len(bs) - 1) /\ (i - 1) + 1 = i
  BY <1>1, <1>3
<1> QED BY <1>2, <1>4, <1>5 DEF ToSet

(* The answer takes away the banner of a run that does not wait any more.  *)
LEMMA AnswerKeeps ==
  ASSUME IInv, Answer PROVE IInv'
PROOF
<1> DEFINE r == banners[1][1]
<1>1. banners \in Banners /\ state \in States /\ log \in Logbook /\ banners # << >>
  BY DEF IInv, TypeOK, Banners, States, Logbook, Answer
<1>2. r \in Runs /\ Tail(banners) \in Banners
  <2>1. banners[1] \in Runs \X (1..MaxLog)
    BY <1>1 DEF Banners
  <2>2. Tail(banners) \in Banners
    BY <1>1 DEF Banners
  <2> QED BY <2>1, <2>2
<1>3. /\ state[r] \in Live /\ Logs(r, "resolved")
      /\ state' = [state EXCEPT ![r] = "running"] /\ banners' = Tail(banners)
      /\ UNCHANGED <<stage, replies, stored, follower>>
  BY DEF Answer
<1>4. Announced(follower, state', log', banners')
  <2> SUFFICES ASSUME follower.step = "follows", ~ follower.blind,
                      state'[follower.run] = "waiting",
                      NEW i \in LastAsk(log'[follower.run], DOMAIN log'[follower.run]),
                      i <= follower.cursor
               PROVE  <<follower.run, i>> \in ToSet(banners')
    BY DEF Announced
  <2>1. follower.run \in Runs
    BY DEF IInv, TypeOK, Follower, Attends
  <2>2. follower.run # r /\ state[follower.run] = "waiting"
    <3> HIDE DEF r
    <3> QED BY <1>1, <1>2, <1>3 DEF States
  <2>3. log'[follower.run] = log[follower.run]
    <3> HIDE DEF r
    <3> QED BY <1>1, <1>3, <2>1, <2>2 DEF Logs, Logbook
  <2>4. <<follower.run, i>> \in ToSet(banners)
    BY <2>2, <2>3 DEF IInv, Announced
  <2>5. <<follower.run, i>> # banners[1]
    BY <2>2
  <2> QED BY <1>1, <1>3, <2>4, <2>5, TailKeeps DEF Banners
<1> HIDE DEF r
<1>5. /\ "resolved" \in Events /\ "running" \in {"ended"} \cup Live
      /\ "resolved" \notin {"result", "error"} /\ banners' \in Banners
  BY <1>2, <1>3 DEF Live, Events
<1> QED BY <1>2, <1>3, <1>4, <1>5, EventKeeps, Zenon
-----------------------------------------------------------------------------
(* The page.                                                               *)

(* A page that follows nobody claims nothing.                              *)
LEMMA NobodyIs ==
  /\ Nobody \in Follower /\ Nobody.step = "none"
  /\ \A q : Attends(Nobody, q)
  /\ \A st, lg, bs : Announced(Nobody, st, lg, bs)
PROOF
<1>1. Nobody.step = "none"
  BY DEF Nobody
<1>2. Nobody \in Follower
  BY ChatAssumption DEF Nobody, Follower
<1> QED BY <1>1, <1>2 DEF Attends, Announced

(* No replies and no banners.                                              *)
LEMMA EmptyIs == << >> \in Seq(Reply) /\ Len(<< >>) = 0 /\ << >> \in Banners
PROOF
BY DEF Banners

(* persist(), the close of the page and its load: what was stored fits a   *)
(* log that may have grown since.                                          *)
LEMMA StorageKeeps ==
  ASSUME IInv, Persist \/ Close \/ Load PROVE IInv'
PROOF
<1>1. CASE Persist
  BY <1>1 DEF Persist, IInv, TypeOK, Bounded
<1>2. CASE Close
  <2>1. /\ stage' = "closed" /\ replies' = << >> /\ follower' = Nobody /\ banners' = << >>
        /\ UNCHANGED <<state, log, stored>>
    BY <1>2 DEF Close
  <2>2. TypeOK'
    BY <2>1, NobodyIs, EmptyIs DEF IInv, TypeOK, Banners
  <2>3. Bounded'
    BY <2>1, EmptyIs, ChatAssumption DEF IInv, Bounded
  <2>4. AllFit(state', log', replies')
    BY <2>1 DEF AllFit
  <2>5. /\ stage' # "ready" => follower'.step = "none"
        /\ Attends(follower', replies') /\ Announced(follower', state', log', banners')
    BY <2>1, NobodyIs
  <2> QED BY <2>1, <2>2, <2>3, <2>4, <2>5 DEF IInv
<1>3. CASE Load
  <2>1. follower.step = "none" /\ UNCHANGED <<state, log, stored, follower, banners>>
        /\ replies' = stored /\ stage' = "connects"
    BY <1>3 DEF Load, IInv
  <2> QED BY <2>1 DEF IInv, TypeOK, Bounded, Attends, Announced
<1> QED BY <1>1, <1>2, <1>3

(* In w the reply i of q is new.                                           *)
Replaces(w, q, i, new) ==
  /\ w \in Seq(Reply) /\ Len(w) = Len(q) /\ DOMAIN w = DOMAIN q
  /\ w[i] = new /\ \A j \in DOMAIN q : j # i => w[j] = q[j]

(* If the new one fits, all fit.                                           *)
LEMMA OneReplaced ==
  ASSUME NEW st, NEW lg, NEW q, AllFit(st, lg, q), NEW i,
         NEW new, Fits(st, lg, new), NEW w, Replaces(w, q, i, new)
  PROVE  AllFit(st, lg, w)
PROOF
BY DEF AllFit, Replaces

(* One more reply, that fits.                                              *)
LEMMA OneMore ==
  ASSUME NEW st, NEW lg, NEW q \in Seq(Reply), AllFit(st, lg, q),
         NEW new \in Reply, Fits(st, lg, new)
  PROVE  LET w == Append(q, new) IN
         /\ w \in Seq(Reply) /\ Len(w) = Len(q) + 1 /\ AllFit(st, lg, w)
         /\ Len(q) + 1 \in DOMAIN w /\ w[Len(q) + 1] = new
         /\ \A i \in DOMAIN q : i \in DOMAIN w /\ w[i] = q[i]
PROOF
<1> DEFINE w == Append(q, new)
<1>1. /\ w \in Seq(Reply) /\ Len(w) = Len(q) + 1 /\ Len(q) \in Nat
      /\ DOMAIN w = 1..(Len(q) + 1) /\ DOMAIN q = 1..Len(q)
      /\ w[Len(q) + 1] = new /\ \A i \in 1..Len(q) : w[i] = q[i]
  OBVIOUS
<1> HIDE DEF w
<1>2. AllFit(st, lg, w)
  BY <1>1 DEF AllFit
<1>3. Len(q) + 1 \in DOMAIN w /\ \A i \in DOMAIN q : i \in DOMAIN w /\ w[i] = q[i]
  BY <1>1
<1> QED BY <1>1, <1>2, <1>3 DEF w

Blank == [run |-> NoRun, text |-> << >>, cursor |-> 0]

(* send() adds a reply of no run.                                          *)
LEMMA SendKeeps ==
  ASSUME IInv, Send PROVE IInv'
PROOF
<1>1. /\ stage = "ready" /\ Len(replies) < MaxReplies
      /\ replies' = Append(replies, Blank)
      /\ follower' = [Nobody
           EXCEPT !.step = "creates", !.reply = Len(replies) + 1, !.sent = TRUE]
      /\ UNCHANGED <<state, log, stage, stored, banners>>
  BY DEF Send, Blank
<1>2. replies \in Seq(Reply) /\ Len(replies) \in Nat
  BY DEF IInv, TypeOK
<1>3. Blank \in Reply /\ Fits(state, log, Blank)
  BY ChatAssumption DEF Blank, Reply, Fits
<1>4. /\ replies' \in Seq(Reply) /\ Len(replies') = Len(replies) + 1
      /\ AllFit(state, log, replies')
      /\ Len(replies) + 1 \in DOMAIN replies' /\ replies'[Len(replies) + 1] = Blank
  BY <1>1, <1>2, <1>3, OneMore DEF IInv
<1>5. follower' = [ step |-> "creates", run |-> NoRun,
                    reply |-> Len(replies) + 1, cursor |-> 0,
                    got |-> FALSE, sent |-> TRUE, blind |-> FALSE ]
  BY <1>1 DEF Nobody
<1>6. follower' \in Follower
  <2>1. Len(replies) + 1 \in 0..MaxReplies /\ 0 \in 0..MaxLog
    BY <1>1, <1>2, ChatAssumption
  <2> QED BY <1>5, <2>1 DEF Follower
<1>7. Attends(follower', replies') /\ Announced(follower', state', log', banners')
  BY <1>4, <1>5 DEF Attends, Announced, Blank
<1>8. TypeOK'
  BY <1>1, <1>4, <1>6 DEF IInv, TypeOK
<1>9. Bounded'
  BY <1>1, <1>2, <1>4, ChatAssumption DEF IInv, Bounded
<1> QED BY <1>1, <1>4, <1>7, <1>8, <1>9 DEF IInv

(* A reply with cursor 0 fits, with a text or without.                     *)
LEMMA EmptyFits ==
  ASSUME NEW st, NEW lg, NEW r \in Runs, st[r] # "none", lg[r] \in Seq(Events),
         NEW t \in {<< >>, << 0 >>}
  PROVE  Fits(st, lg, [run |-> r, text |-> t, cursor |-> 0])
PROOF
<1>1. Pieces(lg[r], 1..0) = {} /\ 0 <= Len(lg[r])
  BY DEF Pieces, LaterPieces
<1>2. Listed(t, {})
  <2>1. CASE t = << >>
    BY <2>1 DEF Listed, ToSet
  <2>2. CASE t = <<0>>
    <3>1. DOMAIN t = {1} /\ t[1] = 0
      BY <2>2
    <3>2. ToSet(t) = {0}
      BY <3>1 DEF ToSet
    <3> QED BY <3>1, <3>2 DEF Listed
  <2> QED BY <2>1, <2>2
<1> QED BY <1>1, <1>2 DEF Fits, ShowsUpTo

(* createRun() has answered, and the reply is that of the run.             *)
LEMMA CreatedKeeps ==
  ASSUME IInv, NEW r \in Runs, Created(r) PROVE IInv'
PROOF
<1> DEFINE i == follower.reply  new == [run |-> r, text |-> << >>, cursor |-> 0]
<1>1. /\ follower.step = "creates" /\ state[r] = "none"
      /\ state' = [state EXCEPT ![r] = "running"]
      /\ replies' = [replies EXCEPT ![i].run = r]
      /\ follower' = [follower EXCEPT !.step = "follows", !.run = r]
      /\ UNCHANGED <<log, stage, stored, banners>>
  BY DEF Created
<1>2. /\ state \in States /\ log \in Logbook
      /\ replies \in Seq(Reply) /\ stored \in Seq(Reply) /\ follower \in Follower
  BY DEF IInv, TypeOK, States, Logbook
<1>3. /\ i \in DOMAIN replies /\ replies[i] = [run |-> NoRun, text |-> << >>, cursor |-> 0]
      /\ ~ follower.got /\ follower.cursor = 0
  BY <1>1 DEF IInv, Attends
<1>4. replies' = [replies EXCEPT ![i] = new]
  <2>1. [replies[i] EXCEPT !.run = r] = new
    BY <1>3
  <2> QED BY <1>1, <2>1
<1>5. new \in Reply
  BY ChatAssumption DEF Reply
<1>6. /\ state' \in States /\ Closed(state', log) /\ state'[r] = "running"
      /\ GoesOn(state, log, state', log)
  <2>1. /\ state[r] # "ended" /\ "running" \in {"ended", "running"} /\ Closed(state, log)
    BY <1>1 DEF IInv, Live
  <2>2. Moves(state, state', r, "running")
    BY <1>1, <1>2, <2>1 DEF Moves, States, Live
  <2> QED BY <1>2, <2>1, <2>2, StateOn DEF Moves
<1>7. Fits(state', log, new)
  BY <1>2, <1>6, EmptyFits DEF Logbook
<1>8. AllFit(state', log, replies) /\ AllFit(state', log, stored)
  BY <1>2, <1>6, FitsOn DEF IInv
<1> HIDE DEF new, i
<1>9. Replaces(replies', replies, i, new) /\ AllFit(state', log, replies')
  <2>1. Replaces(replies', replies, i, new)
    BY <1>2, <1>3, <1>4, <1>5 DEF Replaces
  <2> QED BY <1>7, <1>8, <2>1, OneReplaced
<1>10. /\ follower' \in Follower /\ follower'.step = "follows" /\ follower'.run = r
       /\ follower'.reply = i /\ follower'.cursor = 0 /\ ~ follower'.got
  BY <1>1, <1>2, <1>3 DEF Follower, i
<1>11. Attends(follower', replies')
  <2>1. r # NoRun
    BY ChatAssumption
  <2> QED BY <1>3, <1>9, <1>10, <2>1 DEF Attends, Replaces, new
<1>12. Announced(follower', state', log', banners')
  BY <1>6, <1>10 DEF Announced
<1>13. TypeOK' /\ Bounded'
  BY <1>1, <1>6, <1>9, <1>10 DEF IInv, TypeOK, Bounded, States, Replaces
<1>14. stage' # "ready" => follower'.step = "none"
  BY <1>1 DEF IInv
<1> QED BY <1>1, <1>6, <1>8, <1>9, <1>11, <1>12, <1>13, <1>14 DEF IInv

(* A reply that is told of an error still fits.                            *)
LEMMA ToldFits ==
  ASSUME NEW st, NEW lg, NEW reply \in Reply, Fits(st, lg, reply),
         NEW new, new = [reply EXCEPT !.text = @ \o << 0 >>]
  PROVE  new \in Reply /\ Fits(st, lg, new) /\ new.run = reply.run
PROOF
<1> DEFINE t == reply.text
<1>1. /\ new = [run |-> reply.run, text |-> t \o <<0>>, cursor |-> reply.cursor]
      /\ reply.run \in Runs \cup {NoRun} /\ reply.cursor \in 0..MaxLog
      /\ t \in Seq(0..MaxLog)
  BY DEF Reply
<1>2. t \o <<0>> \in Seq(0..MaxLog) /\ t \in Seq(Nat)
  <2>1. <<0>> \in Seq(0..MaxLog)
    BY ChatAssumption
  <2>2. t \in Seq(0..MaxLog)
    BY <1>1
  <2> HIDE DEF t
  <2>3. t \o <<0>> \in Seq(0..MaxLog)
    BY <2>1, <2>2
  <2>4. t \in Seq(Nat)
    <3>1. MaxLog \in Nat
      BY ChatAssumption
    <3> QED BY <2>2, <3>1, SeqOfNats
  <2> QED BY <2>3, <2>4
<1>3. new \in Reply
  BY <1>1, <1>2 DEF Reply
<1>4. ASSUME NEW P, Listed(t, P)
      PROVE  Listed(t \o <<0>>, P) /\ 0 \in ToSet(t \o <<0>>)
  <2>1. Listed(t \o <<0>>, P) /\ ToSet(t \o <<0>>) = ToSet(t) \cup {0}
    <3> HIDE DEF t
    <3> QED BY <1>2, <1>4, ShowsAfterAll
  <2> QED BY <2>1
<1>5. ASSUME reply.run # NoRun PROVE ShowsUpTo(lg[reply.run], t \o <<0>>, reply.cursor)
  <2>1. ShowsUpTo(lg[reply.run], t, reply.cursor)
    BY <1>5 DEF Fits
  <2> QED BY <1>4, <2>1 DEF ShowsUpTo
<1> QED BY <1>1, <1>3, <1>5 DEF Fits
(* In w the reply i of q is told of an error.                              *)
Tells(w, q, i) == w = [q EXCEPT ![i].text = @ \o <<0>>]

(* The others are as they were.                                            *)
LEMMA ToldKeeps ==
  ASSUME NEW st, NEW lg, NEW q \in Seq(Reply), AllFit(st, lg, q), NEW i \in DOMAIN q,
         NEW w, Tells(w, q, i)
  PROVE  w \in Seq(Reply) /\ Len(w) = Len(q) /\ AllFit(st, lg, w)
PROOF
<1> DEFINE new == [q[i] EXCEPT !.text = @ \o <<0>>]
<1>1. w = [q EXCEPT ![i] = new]
  BY DEF Tells
<1>2. q[i] \in Reply /\ Fits(st, lg, q[i])
  BY DEF AllFit
<1>3. new \in Reply /\ Fits(st, lg, new)
  BY <1>2, ToldFits
<1> HIDE DEF new
<1>4. Replaces(w, q, i, new)
  BY <1>1, <1>3 DEF Replaces
<1> QED BY <1>3, <1>4, OneReplaced DEF Replaces

(* createRun() has failed, or has its effect all the same.                 *)
LEMMA NotCreatedKeeps ==
  ASSUME IInv, NotCreated PROVE IInv'
PROOF
<1>1. /\ follower.step = "creates"
      /\ replies' = [replies EXCEPT ![follower.reply].text = @ \o <<0>>]
      /\ follower' = Nobody /\ UNCHANGED <<log, stage, stored, banners>>
  BY DEF NotCreated, Told
<1>2. state \in States /\ log \in Logbook /\ replies \in Seq(Reply) /\ stored \in Seq(Reply)
  BY DEF IInv, TypeOK, States, Logbook
<1>3. /\ state' \in States /\ Closed(state', log)
      /\ GoesOn(state, log, state', log)
  <2>1. CASE UNCHANGED state
    BY <1>2, <2>1 DEF IInv, GoesOn
  <2>2. ASSUME NEW r \in Runs, state[r] = "none", state' = [state EXCEPT ![r] = "running"]
        PROVE  /\ state' \in States /\ Closed(state', log)
               /\ GoesOn(state, log, state', log)
    <3>1. /\ state[r] # "ended" /\ "running" \in {"ended", "running"} /\ Closed(state, log)
      BY <2>2 DEF IInv, Live
    <3>2. Moves(state, state', r, "running")
      BY <1>2, <2>2, <3>1 DEF Moves, States, Live
    <3> QED BY <1>2, <3>1, <3>2, StateOn DEF Moves
  <2> QED BY <2>1, <2>2 DEF NotCreated
<1>4. AllFit(state', log, replies) /\ AllFit(state', log, stored)
  BY <1>2, <1>3, FitsOn DEF IInv
<1>5. follower.reply \in DOMAIN replies
  BY <1>1 DEF IInv, Attends
<1>6. replies' \in Seq(Reply) /\ Len(replies') = Len(replies) /\ AllFit(state', log, replies')
  <2>1. Tells(replies', replies, follower.reply)
    BY <1>1 DEF Tells
  <2> QED BY <1>2, <1>4, <1>5, <2>1, ToldKeeps
<1>7. /\ Attends(follower', replies') /\ Announced(follower', state', log', banners')
      /\ follower' \in Follower /\ follower'.step = "none"
  BY <1>1, NobodyIs
<1>8. TypeOK' /\ Bounded'
  BY <1>1, <1>3, <1>6, <1>7 DEF IInv, TypeOK, Bounded, States
<1> QED BY <1>1, <1>3, <1>4, <1>6, <1>7, <1>8 DEF IInv

(* followRun() gives up, and the reply may be told.                        *)
LEMMA GivesUpKeeps ==
  ASSUME IInv, GivesUp PROVE IInv'
PROOF
<1>1. /\ follower.step = "follows"
      /\ replies' = IF follower.sent THEN [replies EXCEPT ![follower.reply].text = @ \o <<0>>]
                    ELSE replies
      /\ follower' = [Nobody EXCEPT !.step = "lost", !.run = follower.run]
      /\ UNCHANGED <<state, log, stage, stored, banners>>
  BY DEF GivesUp, Told
<1>2. replies \in Seq(Reply) /\ follower.reply \in DOMAIN replies
  BY <1>1 DEF IInv, TypeOK, Attends
<1>3. replies' \in Seq(Reply) /\ Len(replies') = Len(replies) /\ AllFit(state, log, replies')
  <2>1. CASE follower.sent
    <3>1. Tells(replies', replies, follower.reply)
      BY <1>1, <2>1 DEF Tells
    <3>2. AllFit(state, log, replies)
      BY DEF IInv
    <3> QED BY <1>2, <3>1, <3>2, ToldKeeps
  <2>2. CASE ~ follower.sent
    BY <1>1, <1>2, <2>2 DEF IInv
  <2> QED BY <2>1, <2>2
<1>4. follower.run \in Runs /\ follower.run # NoRun
  BY <1>1 DEF IInv, TypeOK, Follower, Attends
<1>5. /\ follower' = [ step |-> "lost", run |-> follower.run, reply |-> 0, cursor |-> 0,
                      got |-> FALSE, sent |-> FALSE, blind |-> FALSE ]
  BY <1>1 DEF Nobody
<1>6. follower' \in Follower
  <2>1. 0 \in 0..MaxLog /\ 0 \in 0..MaxReplies
    BY ChatAssumption
  <2> QED BY <1>4, <1>5, <2>1 DEF Follower
<1>7. Attends(follower', replies') /\ Announced(follower', state', log', banners')
  BY <1>4, <1>5 DEF Attends, Announced
<1>8. TypeOK' /\ Bounded'
  BY <1>1, <1>3, <1>6 DEF IInv, TypeOK, Bounded
<1>9. stage = "ready"
  BY <1>1 DEF IInv
<1> QED BY <1>1, <1>3, <1>7, <1>8, <1>9 DEF IInv

-----------------------------------------------------------------------------
(* connect() and openTaskRun().                                            *)

(* The reply that is found for a run, or made for it, is one of its.       *)
LEMMA AttachedIs ==
  ASSUME IInv, NEW r \in Runs, state[r] # "none"
  PROVE  /\ Attached(r) \in Seq(Reply) /\ AllFit(state, log, Attached(r))
         /\ ReplyOf(r) \in DOMAIN Attached(r) /\ Attached(r)[ReplyOf(r)].run = r
         /\ \A i \in DOMAIN replies : i \in DOMAIN Attached(r) /\ Attached(r)[i] = replies[i]
PROOF
<1>1. /\ replies \in Seq(Reply) /\ AllFit(state, log, replies)
      /\ log[r] \in Seq(Events)
  BY DEF IInv, TypeOK
<1>2. CASE RepliesOf(r) # {}
  <2>1. RepliesOf(r) \in SUBSET Nat
    BY <1>1 DEF RepliesOf
  <2>2. \E m \in RepliesOf(r) : \A n \in RepliesOf(r) : m <= n
    BY <1>2, <2>1, Least
  <2>3. ReplyOf(r) \in RepliesOf(r)
    BY <1>2, <2>2 DEF ReplyOf
  <2> QED BY <1>1, <1>2, <2>3 DEF RepliesOf, Attached
<1>3. CASE RepliesOf(r) = {}
  <2>1. Attached(r) = Append(replies, NewReply(r)) /\ ReplyOf(r) = Len(replies) + 1
    BY <1>3 DEF Attached, ReplyOf
  <2>2. \E t \in {<< >>, <<0>>} : NewReply(r) = [run |-> r, text |-> t, cursor |-> 0]
    BY DEF NewReply
  <2>3. NewReply(r).run = r
    BY DEF NewReply
  <2>4. NewReply(r) \in Reply /\ Fits(state, log, NewReply(r))
    <3>1. PICK t \in {<< >>, <<0>>} : NewReply(r) = [run |-> r, text |-> t, cursor |-> 0]
      BY <2>2
    <3>2. t \in Seq(0..MaxLog) /\ 0 \in 0..MaxLog
      <4>1. 0 \in 0..MaxLog
        BY ChatAssumption
      <4>2. << >> \in Seq(0..MaxLog) /\ <<0>> \in Seq(0..MaxLog)
        BY <4>1
      <4> QED BY <4>1, <4>2
    <3>3. Fits(state, log, [run |-> r, text |-> t, cursor |-> 0])
      BY <1>1, EmptyFits
    <3> QED BY <3>1, <3>2, <3>3 DEF Reply
  <2> QED BY <1>1, <2>1, <2>3, <2>4, OneMore
<1> QED BY <1>2, <1>3
(* A follower that resumes knows its reply, and looks for the banner when  *)
(* it needs to.                                                            *)
LEMMA ResumesIs ==
  ASSUME IInv, NEW r \in Runs, state[r] # "none", Len(Attached(r)) <= MaxReplies
  PROVE  /\ Resumes(r) \in Follower /\ Attends(Resumes(r), Attached(r))
         /\ \A bs : Announced(Resumes(r), state, log, bs)
PROOF
<1> DEFINE q == Attached(r)  i == ReplyOf(r)  f == Resumes(r)
<1>1. /\ q \in Seq(Reply) /\ i \in DOMAIN q /\ q[i].run = r
  BY AttachedIs
<1>2. q[i] \in Reply
  BY <1>1
<1>3. q[i].cursor \in 0..MaxLog /\ i \in 0..MaxReplies
  <2>1. q[i].cursor \in 0..MaxLog
    BY <1>2 DEF Reply
  <2>2. i \in 1..Len(q) /\ Len(q) \in Nat
    BY <1>1
  <2> QED BY <2>1, <2>2, ChatAssumption
<1>4. f = [ step |-> IF state[r] = "waiting" /\ q[i].cursor > 0 THEN "rebuilds" ELSE "follows",
            run |-> r, reply |-> i, cursor |-> q[i].cursor,
            got |-> q[i].text # << >>, sent |-> FALSE, blind |-> FALSE ]
  BY DEF Resumes, Following, HasText
<1> HIDE DEF q, i, f
<1>5. f \in Follower
  BY <1>3, <1>4 DEF Follower
<1>6. Attends(f, q)
  <2>1. /\ f.step \in {"rebuilds", "follows"} /\ f.run = r /\ f.reply = i
        /\ f.cursor = q[i].cursor
    BY <1>4
  <2>2. f.got <=> q[i].text # << >>
    BY <1>4, Zenon
  <2>3. r # NoRun /\ f.step # "creates"
    BY <2>1, ChatAssumption
  <2>4. /\ f.reply \in DOMAIN q
        /\ q[f.reply].run = f.run /\ q[f.reply].cursor = f.cursor
    BY <1>1, <2>1
  <2>5. f.got <=> q[f.reply].text # << >>
    BY <2>1, <2>2, Zenon
  <2> QED BY <2>1, <2>3, <2>4, <2>5, Zenon DEF Attends
<1>7. ASSUME NEW bs PROVE Announced(f, state, log, bs)
  <2> SUFFICES ASSUME f.step = "follows", state[r] = "waiting",
                      NEW n \in LastAsk(log[r], DOMAIN log[r]), n <= f.cursor
               PROVE  FALSE
    BY <1>4 DEF Announced
  <2>1. ~ (q[i].cursor > 0) /\ f.cursor = q[i].cursor
    BY <1>4
  <2>2. n \in DOMAIN log[r] /\ log[r] \in Seq(Events)
    BY DEF LastAsk, IInv, TypeOK
  <2>3. n \in Nat /\ n >= 1
    BY <2>2
  <2> QED BY <1>3, <2>1, <2>3
<1> QED BY <1>5, <1>6, <1>7 DEF q, f

(* connect() follows a live run, or none.                                  *)
LEMMA ConnectedKeeps ==
  ASSUME IInv, Connected PROVE IInv'
PROOF
<1>1. /\ stage = "connects" /\ stage' = "ready" /\ follower.step = "none"
      /\ UNCHANGED <<state, log, stored, banners>>
  BY DEF Connected, IInv
<1>2. ASSUME NEW r \in Runs, state[r] \in Live, Attach(r), follower' = Resumes(r)
      PROVE  IInv'
  <2>1. state[r] # "none" /\ Len(Attached(r)) <= MaxReplies /\ replies' = Attached(r)
    BY <1>2 DEF Live, Attach
  <2>2. Attached(r) \in Seq(Reply) /\ AllFit(state, log, Attached(r))
    BY <2>1, AttachedIs
  <2>3. /\ Resumes(r) \in Follower /\ Attends(Resumes(r), Attached(r))
        /\ Announced(Resumes(r), state, log, banners)
    BY <2>1, ResumesIs
  <2>4. TypeOK' /\ Bounded'
    BY <1>1, <1>2, <2>1, <2>2, <2>3 DEF IInv, TypeOK, Bounded
  <2> QED BY <1>1, <1>2, <2>1, <2>2, <2>3, <2>4 DEF IInv
<1>3. CASE UNCHANGED <<replies, follower>>
  BY <1>1, <1>3 DEF IInv, TypeOK, Bounded
<1> QED BY <1>2, <1>3 DEF Connected

(* openTaskRun() adds the reply, and follows the run or goes on with       *)
(* another.                                                                *)
LEMMA OpenTaskRunKeeps ==
  ASSUME IInv, NEW r \in Runs, NEW shownLive \in BOOLEAN, OpenTaskRun(r, shownLive)
  PROVE  IInv'
PROOF
<1>1. /\ stage = "ready" /\ state[r] # "none" /\ Len(Attached(r)) <= MaxReplies
      /\ replies' = Attached(r)
      /\ follower' = follower \/ follower' = Resumes(r)
      /\ UNCHANGED <<state, log, stage, stored, banners>>
  BY DEF OpenTaskRun, Attach
<1>2. /\ Attached(r) \in Seq(Reply) /\ AllFit(state, log, Attached(r))
      /\ \A i \in DOMAIN replies : i \in DOMAIN Attached(r) /\ Attached(r)[i] = replies[i]
  BY <1>1, AttachedIs
<1>3. /\ follower' \in Follower /\ Attends(follower', Attached(r))
      /\ Announced(follower', state, log, banners)
  <2>1. CASE follower' = follower
    BY <1>2, <2>1 DEF IInv, TypeOK, Attends
  <2>2. CASE follower' = Resumes(r)
    BY <1>1, <2>2, ResumesIs
  <2> QED BY <1>1, <2>1, <2>2
<1>4. TypeOK' /\ Bounded'
  BY <1>1, <1>2, <1>3 DEF IInv, TypeOK, Bounded
<1> QED BY <1>1, <1>2, <1>3, <1>4 DEF IInv

-----------------------------------------------------------------------------
(* The banners.                                                            *)

(* Nothing is lost when two texts are put together.                        *)
LEMMA Together ==
  ASSUME NEW S, NEW s \in Seq(S), NEW t \in Seq(S)
  PROVE  ToSet(s) \subseteq ToSet(s \o t) /\ ToSet(t) \subseteq ToSet(s \o t)
PROOF
<1> DEFINE u == s \o t
<1>1. /\ DOMAIN s = 1..Len(s) /\ DOMAIN t = 1..Len(t) /\ Len(s) \in Nat /\ Len(t) \in Nat
      /\ DOMAIN u = 1..(Len(s) + Len(t))
      /\ \A i \in 1..Len(s) : u[i] = s[i]
      /\ \A i \in 1..Len(t) : u[Len(s) + i] = t[i]
  OBVIOUS
<1> HIDE DEF u
<1>2. ASSUME NEW x \in ToSet(s) PROVE x \in ToSet(u)
  <2>1. PICK i \in 1..Len(s) : x = s[i]
    BY <1>1, <1>2 DEF ToSet
  <2> QED BY <1>1, <2>1 DEF ToSet
<1>3. ASSUME NEW x \in ToSet(t) PROVE x \in ToSet(u)
  <2>1. PICK i \in 1..Len(t) : x = t[i]
    BY <1>1, <1>3 DEF ToSet
  <2>2. Len(s) + i \in DOMAIN u
    BY <1>1
  <2> QED BY <1>1, <2>1, <2>2 DEF ToSet
<1> QED BY <1>2, <1>3 DEF u

(* The banners there are stay, and each event that asks has one.           *)
LEMMA BannersAdded ==
  ASSUME NEW bs \in Banners, NEW r \in Runs, NEW es \in SUBSET (1..MaxLog)
  PROVE  /\ WithBanners(bs, r, es) \in Banners
         /\ ToSet(bs) \subseteq ToSet(WithBanners(bs, r, es))
         /\ \A i \in es : log[r][i] = "ask" => <<r, i>> \in ToSet(WithBanners(bs, r, es))
PROOF
<1> DEFINE N == {i \in es : log[r][i] = "ask" /\ <<r, i>> \notin ToSet(bs)}
           new == InOrder(N)
           more == [k \in DOMAIN new |-> <<r, new[k]>>]
<1>1. WithBanners(bs, r, es) = bs \o more
  BY DEF WithBanners
<1>2. N \in SUBSET (0..MaxLog) /\ \A i \in N : i \in 1..MaxLog
  <2>1. \A i \in N : i \in 1..MaxLog
    OBVIOUS
  <2>2. \A i \in 1..MaxLog : i \in 0..MaxLog
    BY ChatAssumption
  <2> HIDE DEF N
  <2> QED BY <2>1, <2>2
<1>3. \A i \in es : log[r][i] = "ask" => i \in N \/ <<r, i>> \in ToSet(bs)
  OBVIOUS
<1> HIDE DEF N
<1>4. new \in [1..Len(new) -> N] /\ Len(new) \in Nat /\ ToSet(new) = N
  BY <1>2, ChatAssumption, InOrderIs
<1> HIDE DEF new
<1>5. more \in Banners /\ \A i \in N : <<r, i>> \in ToSet(more)
  <2>1. DOMAIN new = 1..Len(new) /\ \A k \in 1..Len(new) : new[k] \in 1..MaxLog
    BY <1>2, <1>4
  <2>2. more \in [1..Len(new) -> Runs \X (1..MaxLog)]
    BY <2>1
  <2>3. more \in Banners
    BY <1>4, <2>2 DEF Banners
  <2>4. ASSUME NEW i \in N PROVE <<r, i>> \in ToSet(more)
    <3>1. PICK k \in DOMAIN new : new[k] = i
      BY <1>4, <2>4 DEF ToSet
    <3>2. k \in DOMAIN more /\ more[k] = <<r, i>>
      BY <3>1
    <3> QED BY <3>2 DEF ToSet
  <2> QED BY <2>3, <2>4
<1> HIDE DEF more
<1>6. ToSet(bs) \subseteq ToSet(bs \o more) /\ ToSet(more) \subseteq ToSet(bs \o more)
  BY <1>5, Together DEF Banners
<1>7. bs \o more \in Banners
  BY <1>5 DEF Banners
<1> QED BY <1>1, <1>3, <1>5, <1>6, <1>7

(* The banners that are left are banners.                                  *)
LEMMA BannersTaken ==
  ASSUME NEW bs \in Banners, NEW r PROVE Without(bs, r) \in Banners
PROOF
<1> DEFINE K == {k \in DOMAIN bs : bs[k][1] # r}  kept == InOrder(K)
           w == [k \in DOMAIN kept |-> bs[kept[k]]]
<1>1. Len(bs) \in Nat /\ DOMAIN bs = 1..Len(bs)
        /\ \A k \in DOMAIN bs : bs[k] \in Runs \X (1..MaxLog)
  BY DEF Banners
<1>2. K \in SUBSET (0..Len(bs)) /\ K \subseteq DOMAIN bs
  BY <1>1
<1> HIDE DEF K
<1>3. kept \in [1..Len(kept) -> K] /\ Len(kept) \in Nat
  BY <1>1, <1>2, InOrderIs
<1> HIDE DEF kept
<1>4. w \in [1..Len(kept) -> Runs \X (1..MaxLog)]
  BY <1>1, <1>2, <1>3
<1>5. w \in Banners
  BY <1>3, <1>4 DEF Banners
<1> QED BY <1>5 DEF Without, K, kept

(* A batch is the events from the cursor up to some position.              *)
LEMMA AfterIs ==
  ASSUME NEW r, log[r] \in Seq(Events), NEW c \in Nat, c <= Len(log[r])
  PROVE  \E d \in Nat : /\ c <= d /\ d <= Len(log[r]) /\ After(r, c) = (c + 1)..d
                        /\ c + Cardinality(After(r, c)) = d
                        /\ c + Batch >= Len(log[r]) => d = Len(log[r])
PROOF
<1> DEFINE n == Len(log[r])  d == IF c + Batch < n THEN c + Batch ELSE n
<1>1. n \in Nat /\ c <= n
  OBVIOUS
<1>2. After(r, c) = (c + 1)..d
  BY DEF After
<1> HIDE DEF n
<1>3. d \in Nat /\ c <= d /\ d <= n /\ (c + Batch >= n => d = n)
  BY <1>1, ChatAssumption
<1> HIDE DEF d
<1>4. Cardinality((c + 1)..d) = d - c
  <2>1. Cardinality((c + 1)..d) = IF c + 1 > d THEN 0 ELSE d - (c + 1) + 1
    BY <1>3, FS_Interval
  <2> QED BY <2>1, <1>3
<1> QED BY <1>2, <1>3, <1>4 DEF n

(* The lookup after a load: unless it fails or the log is longer than a    *)
(* batch, it finds the last approval.                                      *)
LEMMA RebuildKeeps ==
  ASSUME IInv, Rebuild \/ RebuildFails PROVE IInv'
PROOF
<1> DEFINE r == follower.run  q == log[r]  es == LastAsk(q, After(r, 0))
<1>1. /\ follower.step = "rebuilds"
      /\ UNCHANGED <<state, log, stage, replies, stored>>
      /\ \/ /\ banners' = WithBanners(banners, r, es)
            /\ follower' = [follower EXCEPT !.step = "follows", !.blind = Len(q) > Batch]
         \/ /\ banners' = banners
            /\ follower' = [follower EXCEPT !.step = "follows", !.blind = TRUE]
  BY DEF Rebuild, RebuildFails
<1>2. follower \in Follower /\ banners \in Banners /\ r \in Runs
  BY <1>1 DEF IInv, TypeOK, Follower, Attends, Banners
<1>3. q \in Seq(Events) /\ Len(q) \in Nat /\ Len(q) <= MaxLog
  BY <1>2 DEF IInv, TypeOK, Bounded
<1>4. PICK d \in Nat : /\ d <= Len(q) /\ After(r, 0) = 1..d
                       /\ Batch >= Len(q) => d = Len(q)
  <2>1. \E d \in Nat : /\ 0 <= d /\ d <= Len(q) /\ After(r, 0) = (0 + 1)..d
                       /\ 0 + Cardinality(After(r, 0)) = d
                       /\ 0 + Batch >= Len(q) => d = Len(q)
    BY <1>3, AfterIs, SMTT(30)
  <2> QED BY <2>1, ChatAssumption
<1>5. es \in SUBSET (1..MaxLog) /\ \A i \in es : q[i] = "ask"
  <2>1. 1..d \subseteq 1..MaxLog
    BY <1>3, <1>4, ChatAssumption
  <2> QED BY <1>4, <2>1 DEF LastAsk
<1>6. banners' \in Banners
  BY <1>1, <1>2, <1>5, BannersAdded
<1>7. /\ follower' \in Follower /\ follower'.step = "follows" /\ follower'.run = r
      /\ follower'.reply = follower.reply /\ follower'.cursor = follower.cursor
  <2>1. (Len(q) > Batch) \in BOOLEAN
    BY <1>3, ChatAssumption
  <2>2. PICK b \in BOOLEAN : follower' = [follower EXCEPT !.step = "follows", !.blind = b]
    BY <1>1, <2>1
  <2> HIDE DEF q, es
  <2> QED BY <1>2, <2>2 DEF Follower
<1>8. follower'.got = follower.got
  BY <1>1, <1>2 DEF Follower
<1>9. Attends(follower', replies')
  <2>1. /\ r # NoRun /\ follower.reply \in DOMAIN replies
        /\ replies[follower.reply].run = r /\ replies[follower.reply].cursor = follower.cursor
    BY <1>1, <1>2, ChatAssumption DEF IInv, Attends
  <2>2. follower.got <=> replies[follower.reply].text # << >>
    BY <1>1 DEF IInv, Attends
  <2>3. /\ follower'.run # NoRun /\ follower'.step # "creates"
        /\ follower'.reply \in DOMAIN replies'
        /\ replies'[follower'.reply].run = follower'.run
        /\ replies'[follower'.reply].cursor = follower'.cursor
    BY <1>1, <1>7, <2>1
  <2>4. follower'.got <=> replies'[follower'.reply].text # << >>
    <3>1. replies'[follower'.reply].text = replies[follower.reply].text
      BY <1>1, <1>7
    <3> QED BY <1>8, <2>2, <3>1, Zenon
  <2> QED BY <2>3, <2>4, Zenon DEF Attends
<1>10. Announced(follower', state', log', banners')
  <2> SUFFICES ASSUME ~ follower'.blind, NEW i \in LastAsk(q, DOMAIN q)
               PROVE  <<r, i>> \in ToSet(banners')
    BY <1>1, <1>7 DEF Announced
  <2>1. /\ banners' = WithBanners(banners, r, es) /\ ~ (Len(q) > Batch)
    BY <1>1, <1>2 DEF Follower
  <2>2. After(r, 0) = DOMAIN q
    <3>1. d = Len(q)
      BY <1>3, <1>4, <2>1, ChatAssumption
    <3> QED BY <1>3, <1>4, <3>1
  <2>3. i \in es /\ log[r][i] = "ask"
    BY <2>2, <1>5
  <2> HIDE DEF es, q
  <2> QED BY <1>2, <1>5, <2>1, <2>3, BannersAdded
<1>11. TypeOK' /\ Bounded'
  BY <1>1, <1>6, <1>7 DEF IInv, TypeOK, Bounded, Banners
<1>12. stage' = "ready"
  BY <1>1 DEF IInv
<1> QED BY <1>1, <1>9, <1>10, <1>11, <1>12 DEF IInv

-----------------------------------------------------------------------------
(* A batch.                                                                *)

(* The reply that is followed, with text t, gets the events up to d.       *)
LEMMA PollFills ==
  ASSUME IInv, Poll
  PROVE  LET r  == follower.run
             i  == follower.reply
             es == After(r, follower.cursor) IN
         \E d \in Nat, new \in Reply :
           /\ follower.cursor <= d /\ d <= Len(log[r]) /\ es = (follower.cursor + 1)..d
           /\ d = follower.cursor + Cardinality(es)
           /\ Replaces(replies', replies, i, new) /\ new.run = r /\ new.cursor = d
           /\ Fits(state, log, new)
           /\ ToSet(new.text) = ToSet(replies[i].text) \cup Given(log[r], es, replies[i].text)
PROOF
<1> DEFINE r == follower.run  i == follower.reply  q == log[r]
           reply == replies[i]  c == follower.cursor  es == After(r, c)
<1>1. /\ follower.step = "follows" /\ r \in Runs /\ i \in DOMAIN replies
      /\ reply.run = r /\ reply.cursor = c
  BY DEF IInv, TypeOK, Follower, Attends, Poll, Polls
<1>2. follower.got <=> reply.text # << >>
  BY <1>1 DEF IInv, Attends
<1>3. /\ reply \in Reply /\ replies \in Seq(Reply) /\ q \in Seq(Events)
      /\ Len(q) \in Nat /\ Len(q) <= MaxLog /\ Finished(q, state[r])
  BY <1>1 DEF IInv, TypeOK, Bounded, Closed
<1>4. c \in Nat /\ c <= Len(q) /\ ShowsUpTo(q, reply.text, c) /\ state[r] # "none"
  <2>1. c \in 0..MaxLog /\ r # NoRun
    BY <1>1, ChatAssumption DEF IInv, TypeOK, Follower
  <2>2. Fits(state, log, reply)
    BY <1>1 DEF IInv, AllFit
  <2> QED BY <1>1, <2>1, <2>2, ChatAssumption DEF Fits
<1>5. PICK d \in Nat : c <= d /\ d <= Len(q) /\ es = (c + 1)..d /\ c + Cardinality(es) = d
  BY <1>3, <1>4, AfterIs
<1> DEFINE Q == Given(q, es, reply.text)  t == reply.text \o InOrder(Q)
           new == [reply EXCEPT !.text = t, !.cursor = d]
<1>6. ShowsUpTo(q, t, d) /\ ToSet(t) = ToSet(reply.text) \cup Q
  <2> DEFINE t0 == reply.text
  <2>1. t0 \in Seq(Nat)
    <3>1. t0 \in Seq(0..MaxLog)
      BY <1>3 DEF Reply
    <3> HIDE DEF t0
    <3> QED BY <3>1, ChatAssumption, SeqOfNats
  <2>2. q \in Seq(Events) /\ Finished(q, state[r]) /\ ShowsUpTo(q, t0, c) /\ c \in Nat
        /\ c <= d /\ d <= Len(q)
    BY <1>3, <1>4, <1>5
  <2> HIDE DEF t0, q, c
  <2>3. LET QQ == Given(q, (c + 1)..d, t0)  u == t0 \o InOrder(QQ) IN
        ShowsUpTo(q, u, d) /\ ToSet(u) = ToSet(t0) \cup QQ
    BY <2>1, <2>2, ReplyFilled
  <2> QED BY <2>3, <1>5 DEF t0
<1>7. Q \subseteq es /\ Q \in SUBSET (0..MaxLog)
  <2>1. Q \subseteq es
    BY DEF Given, Pieces, LaterPieces
  <2>2. es \subseteq 0..MaxLog
    <3> HIDE DEF es, c, q
    <3> QED BY <1>3, <1>4, <1>5, ChatAssumption
  <2> QED BY <2>1, <2>2
<1>8. new \in Reply /\ new.run = r /\ new.cursor = d /\ new.text = t
  <2>1. reply.text \in Seq(0..MaxLog)
    BY <1>3 DEF Reply
  <2>2. InOrder(Q) \in Seq(0..MaxLog)
    <3> HIDE DEF Q
    <3> QED BY <1>7, ChatAssumption, InOrderNat
  <2> HIDE DEF Q, reply
  <2>3. t \in Seq(0..MaxLog)
    BY <2>1, <2>2
  <2>4. d \in 0..MaxLog
    <3> HIDE DEF q
    <3> QED BY <1>3, <1>5, ChatAssumption
  <2>5. reply \in Reply /\ reply.run = r
    BY <1>1, <1>3 DEF reply
  <2> HIDE DEF t, r
  <2> QED BY <2>3, <2>4, <2>5 DEF Reply
<1>9. replies' = [replies EXCEPT ![i] = new]
  <2>1. (IF follower.got THEN LaterPieces(q, es) ELSE Pieces(q, es)) = Q
    <3>1. CASE follower.got
      <4>1. reply.text # << >>
        BY <1>2, <3>1, Zenon
      <4> HIDE DEF reply
      <4> QED BY <3>1, <4>1 DEF Given
    <3>2. CASE ~ follower.got
      <4>1. reply.text = << >>
        BY <1>2, <3>2, Zenon
      <4> HIDE DEF reply
      <4> QED BY <3>2, <4>1 DEF Given
    <3> QED BY <3>1, <3>2
  <2>2. replies' = [[replies EXCEPT ![i].text = @ \o InOrder(Q)]
          EXCEPT ![i].cursor = c + Cardinality(es)]
    <3>1. replies' = [[replies EXCEPT ![i].text =
              @ \o InOrder(IF follower.got THEN LaterPieces(q, es) ELSE Pieces(q, es))]
              EXCEPT ![i].cursor = c + Cardinality(es)]
      BY DEF Poll, Told
    <3> HIDE DEF Q, q, es, c, i
    <3> QED BY <2>1, <3>1
  <2>3. replies' = [[replies EXCEPT ![i].text = @ \o InOrder(Q)] EXCEPT ![i].cursor = d]
    BY <2>2, <1>5
  <2>5. replies' = [replies EXCEPT ![i] = [replies[i] EXCEPT !.text = t, !.cursor = d]]
    <3> HIDE DEF Q, i
    <3> QED BY <1>1, <1>3, <2>3
  <2> QED BY <2>5
<1>10. Replaces(replies', replies, i, new)
  <2> HIDE DEF new, i
  <2> QED BY <1>1, <1>3, <1>8, <1>9 DEF Replaces
<1> HIDE DEF new
<1>11. Fits(state, log, new)
  <2> HIDE DEF r, t
  <2> QED BY <1>4, <1>5, <1>6, <1>8 DEF Fits
<1>12. ToSet(new.text) = ToSet(reply.text) \cup Q
  BY <1>6, <1>8
<1> QED BY <1>5, <1>8, <1>10, <1>11, <1>12

(* A batch: the reply, the cursor, the knowledge of text and the banners   *)
(* go on together.                                                         *)
LEMMA PollKeeps ==
  ASSUME IInv, Poll PROVE IInv'
PROOF
<1> DEFINE r == follower.run  i == follower.reply  q == log[r]
           c == follower.cursor  es == After(r, c)
           got == follower.got \/ \E k \in es : q[k] \in Texts \ {"error"}
<1>1. PICK d \in Nat, new \in Reply :
           /\ c <= d /\ d <= Len(q) /\ es = (c + 1)..d /\ d = c + Cardinality(es)
           /\ Replaces(replies', replies, i, new) /\ new.run = r /\ new.cursor = d
           /\ Fits(state, log, new)
           /\ ToSet(new.text) = ToSet(replies[i].text) \cup Given(q, es, replies[i].text)
  BY PollFills
<1>2. /\ follower.step = "follows" /\ follower \in Follower /\ banners \in Banners
      /\ r \in Runs /\ r # NoRun /\ i \in DOMAIN replies /\ c \in Nat
      /\ replies \in Seq(Reply) /\ q \in Seq(Events) /\ Len(q) <= MaxLog /\ stage = "ready"
  <2>1. follower.step = "follows"
    BY DEF Poll, Polls
  <2>2. c \in 0..MaxLog
    BY DEF IInv, TypeOK, Follower
  <2>3. r \in Runs
    BY <2>1 DEF IInv, TypeOK, Follower, Attends
  <2> QED BY <2>1, <2>2, <2>3, ChatAssumption DEF IInv, TypeOK, Bounded, Attends, Banners
<1>3. /\ UNCHANGED <<state, log, stage, stored>>
      /\ state[r] = "ended" => /\ follower' = Nobody
                             /\ banners' = Without(WithBanners(banners, r, es), r)
      /\ state[r] # "ended" => /\ follower' = [follower EXCEPT !.cursor = d, !.got = got]
                             /\ banners' = WithBanners(banners, r, es)
  <2>1. /\ UNCHANGED <<state, log, stage, stored>>
        /\ Returns(r, c + Cardinality(es), got, WithBanners(banners, r, es))
    BY DEF Poll
  <2>2. Returns(r, d, got, WithBanners(banners, r, es))
    <3>1. d = c + Cardinality(es)
      BY <1>1
    <3> HIDE DEF es, got, r, c
    <3> QED BY <2>1, <3>1
  <2> HIDE DEF es, got, r, c
  <2> QED BY <2>1, <2>2 DEF Returns
<1>4. /\ replies' \in Seq(Reply) /\ Len(replies') = Len(replies)
      /\ AllFit(state, log, replies')
      /\ i \in DOMAIN replies' /\ replies'[i] = new
  <2>1. AllFit(state, log, replies)
    BY DEF IInv
  <2>2. AllFit(state, log, replies')
    <3> HIDE DEF i
    <3> QED BY <1>1, <2>1, OneReplaced
  <2> HIDE DEF i
  <2> QED BY <1>1, <1>2, <2>2 DEF Replaces
<1>5. es \in SUBSET (1..MaxLog)
  <2> HIDE DEF es, c, q
  <2> QED BY <1>1, <1>2, ChatAssumption
<1>6. CASE state[r] = "ended"
  <2>1. follower' = Nobody /\ banners' \in Banners
    <3>1. WithBanners(banners, r, es) \in Banners
      <4> HIDE DEF es, r
      <4> QED BY <1>2, <1>5, BannersAdded
    <3> QED BY <1>3, <1>6, <3>1, BannersTaken
  <2>2. TypeOK' /\ Bounded'
    BY <1>3, <1>4, <2>1, NobodyIs DEF IInv, TypeOK, Bounded, Banners
  <2>3. Attends(follower', replies') /\ Announced(follower', state', log', banners')
    BY <2>1, NobodyIs
  <2> QED BY <1>2, <1>3, <1>4, <2>2, <2>3 DEF IInv
<1>7. CASE state[r] # "ended"
  <2>1. /\ follower' = [follower EXCEPT !.cursor = d, !.got = got]
        /\ banners' = WithBanners(banners, r, es)
    BY <1>3, <1>7
  <2>2. /\ banners' \in Banners /\ ToSet(banners) \subseteq ToSet(banners')
        /\ \A k \in es : q[k] = "ask" => <<r, k>> \in ToSet(banners')
    <3> HIDE DEF es
    <3> QED BY <1>2, <1>5, <2>1, BannersAdded
  <2>3. /\ follower' \in Follower /\ follower'.step = "follows" /\ follower'.run = r
        /\ follower'.reply = i /\ follower'.cursor = d /\ follower'.blind = follower.blind
    <3>1. d \in 0..MaxLog
      <4> HIDE DEF q
      <4> QED BY <1>1, <1>2, ChatAssumption
    <3>2. got \in BOOLEAN
      BY <1>2 DEF Follower
    <3> HIDE DEF got
    <3> QED BY <1>2, <2>1, <3>1, <3>2 DEF Follower
  <2>4. follower'.got <=> got
    <3> HIDE DEF got
    <3>1. follower'.got = got
      BY <1>2, <2>1 DEF Follower
    <3> QED BY <3>1
  <2>5. follower'.got <=> new.text # << >>
    <3> DEFINE t == replies[i].text  u == new.text
    <3>1. t \in Seq(0..MaxLog) /\ u \in Seq(0..MaxLog)
      <4>1. replies[i] \in Reply /\ new \in Reply
        BY <1>2
      <4> HIDE DEF i
      <4> QED BY <4>1 DEF Reply
    <3>2. ToSet(u) = ToSet(t) \cup Given(q, (c + 1)..d, t)
      BY <1>1
    <3>3. \A k \in (c + 1)..d : q[k] # "error"
      <4>1. Finished(q, state[r])
        BY <1>2 DEF IInv, Closed
      <4>2. \A k \in (c + 1)..d : k \in DOMAIN q
        <5> HIDE DEF q, c
        <5> QED BY <1>1, <1>2
      <4> HIDE DEF q, c
      <4> QED BY <1>7, <4>1, <4>2 DEF Finished
    <3>4. c + 1 \in Nat /\ d \in Nat
      BY <1>2
    <3> HIDE DEF t, u
    <3>5. u # << >> <=> (t # << >> \/ \E k \in (c + 1)..d : q[k] \in Texts \ {"error"})
      <4> DEFINE b == c + 1
      <4> HIDE DEF q, b
      <4> SUFFICES u # << >> <=> (t # << >> \/ \E k \in b..d : q[k] \in Texts \ {"error"})
        BY DEF b
      <4>1. /\ b \in Nat /\ ToSet(u) = ToSet(t) \cup Given(q, b..d, t)
            /\ \A k \in b..d : q[k] # "error"
        BY <3>2, <3>3, <3>4 DEF b
      <4> HIDE DEF t, u
      <4> QED BY <3>1, <3>4, <4>1, TextKnown
    <3>6. follower.got <=> t # << >>
      BY <1>2 DEF IInv, Attends, t
    <3>7. got <=> (follower.got \/ \E k \in (c + 1)..d : q[k] \in Texts \ {"error"})
      BY <1>1
    <3> HIDE DEF got, q
    <3> QED BY <2>4, <3>5, <3>6, <3>7, Zenon DEF u
  <2>6. Attends(follower', replies')
    <3>1. /\ follower'.run # NoRun /\ follower'.step # "creates"
          /\ follower'.reply \in DOMAIN replies'
          /\ replies'[follower'.reply].run = follower'.run
          /\ replies'[follower'.reply].cursor = follower'.cursor
      BY <1>1, <1>2, <1>4, <2>3
    <3>2. follower'.got <=> replies'[follower'.reply].text # << >>
      BY <1>4, <2>3, <2>5, Zenon
    <3> QED BY <3>1, <3>2, Zenon DEF Attends
  <2>7. Announced(follower', state', log', banners')
    <3> SUFFICES ASSUME ~ follower.blind, state[r] = "waiting",
                          NEW k \in LastAsk(q, DOMAIN q), k <= d
                 PROVE  <<r, k>> \in ToSet(banners')
      BY <1>3, <2>3 DEF Announced
    <3>1. k \in DOMAIN q /\ q[k] = "ask"
      BY DEF LastAsk
    <3>2. CASE k <= c
      BY <1>2, <2>2, <3>2 DEF IInv, Announced
    <3>3. CASE ~ (k <= c)
      <4>1. k \in es
        <5>1. k \in Nat
          BY <1>2, <3>1
        <5> HIDE DEF es, c, q
        <5> QED BY <1>1, <1>2, <3>3, <5>1
      <4> QED BY <2>2, <3>1, <4>1
    <3> QED BY <3>2, <3>3
  <2>8. TypeOK' /\ Bounded'
    BY <1>3, <1>4, <2>2, <2>3 DEF IInv, TypeOK, Bounded, Banners
  <2> QED BY <1>2, <1>3, <1>4, <2>6, <2>7, <2>8 DEF IInv
<1> QED BY <1>6, <1>7

-----------------------------------------------------------------------------
(* The theorems.                                                           *)

(* The invariant holds at first.                                           *)
LEMMA Initially == Init => IInv
PROOF
<1> SUFFICES ASSUME Init PROVE IInv
  OBVIOUS
<1>1. TypeOK
  BY NobodyIs, EmptyIs DEF Init, TypeOK, Banners
<1>2. Bounded
  BY EmptyIs, ChatAssumption DEF Init, Bounded
<1>3. Closed(state, log)
  BY DEF Init, Closed, Finished, Asked
<1>4. AllFit(state, log, replies) /\ AllFit(state, log, stored)
  BY DEF Init, AllFit
<1>5. follower.step = "none" /\ Attends(follower, replies)
        /\ Announced(follower, state, log, banners)
  BY NobodyIs DEF Init
<1> QED BY <1>1, <1>2, <1>3, <1>4, <1>5 DEF IInv

(* Each step keeps it.                                                     *)
LEMMA StepKeeps == IInv /\ [Next]_vars => IInv'
PROOF
<1> SUFFICES ASSUME IInv, [Next]_vars PROVE IInv'
  OBVIOUS
<1>1. ASSUME NEW r \in Runs, Appears(r) PROVE IInv'
  <2>1. /\ state[r] # "ended" /\ state' = [state EXCEPT ![r] = "running"]
        /\ UNCHANGED <<log, Page>>
    BY <1>1 DEF Appears
  <2> QED BY <2>1, StateKeeps
<1>2. ASSUME NEW r \in Runs, Ends(r) PROVE IInv'
  BY <1>2, EndsKeeps
<1>3. ASSUME NEW r \in Runs, Created(r) PROVE IInv'
  BY <1>3, CreatedKeeps
<1>4. ASSUME NEW r \in Runs, NEW e \in {"delta", "complete", "ask"}, Says(r, e) PROVE IInv'
  BY <1>4, SaysKeeps
<1>5. ASSUME NEW r \in Runs, NEW shownLive \in BOOLEAN, OpenTaskRun(r, shownLive) PROVE IInv'
  BY <1>5, OpenTaskRunKeeps
<1>6. CASE Persist \/ Close \/ Load
  BY <1>6, StorageKeeps
<1>7. CASE Connected
  BY <1>7, ConnectedKeeps
<1>8. CASE Send
  BY <1>8, SendKeeps
<1>9. CASE NotCreated
  BY <1>9, NotCreatedKeeps
<1>10. CASE Rebuild \/ RebuildFails
  BY <1>10, RebuildKeeps
<1>11. CASE Poll
  BY <1>11, PollKeeps
<1>12. CASE GivesUp
  BY <1>12, GivesUpKeeps
<1>13. CASE Answer
  BY <1>13, AnswerKeeps
<1>14. CASE UNCHANGED vars
  BY <1>14 DEF vars, IInv, TypeOK, Bounded
<1> QED BY <1>1, <1>2, <1>3, <1>4, <1>5, <1>6, <1>7, <1>8, <1>9, <1>10, <1>11,
           <1>12, <1>13, <1>14 DEF Next

(* IInv holds of any number of runs, and any length of a batch or a log.   *)
THEOREM Invariance == Spec => []IInv
PROOF
BY Initially, StepKeeps, PTL DEF Spec

(* Every variable of the page and of what it sees of the coordinator has   *)
(* its type.                                                               *)
THEOREM TypeCorrect == Spec => []TypeOK
PROOF
<1>1. IInv => TypeOK
  BY DEF IInv
<1> QED BY <1>1, Invariance, PTL

(* followRun() and what is stored, with any number of runs and any length  *)
(* of the batches: however often the page is closed and loaded, a reply    *)
(* shows the text of the events up to its cursor once and in order.        *)
THEOREM ShownOnceAlways == Spec => []ShownOnce
PROOF
<1>1. IInv => ShownOnce
  <2> SUFFICES ASSUME IInv, NEW i \in DOMAIN replies, replies[i].run # NoRun
               PROVE  LET reply == replies[i]  q == log[replies[i].run] IN
                      \/ Shows(reply, Pieces(q, 1..reply.cursor))
                      \/ 0 \in ToSet(reply.text)
                        /\ Shows(reply, LaterPieces(q, 1..reply.cursor))
    BY DEF ShownOnce
  <2>1. ShowsUpTo(log[replies[i].run], replies[i].text, replies[i].cursor)
    BY DEF IInv, AllFit, Fits
  <2> QED BY <2>1 DEF ShowsUpTo, Listed, Shows
<1> QED BY <1>1, Invariance, PTL

(* The banners of page.tsx: a followed run that waits for an approval has  *)
(* its banner once the page has all of its events, unless the events it    *)
(* was rebuilt from were not to be had or were more than a batch.          *)
THEOREM BlockedRunIsShown == Spec => []BlockedRunShown
PROOF
<1>1. IInv => BlockedRunShown
  <2> SUFFICES ASSUME IInv, Hidden, ~ follower.blind PROVE FALSE
    BY DEF BlockedRunShown
  <2> DEFINE r == follower.run  q == log[r]
  <2>1. /\ follower.step = "follows" /\ state[r] = "waiting" /\ follower.cursor = Len(q)
        /\ \A i \in LastAsk(q, DOMAIN q) : <<r, i>> \notin ToSet(banners)
    BY DEF Hidden
  <2>2. r \in Runs
    BY <2>1 DEF IInv, TypeOK, Follower, Attends
  <2>3. q \in Seq(Events) /\ Len(q) > 0 /\ q[Len(q)] = "ask"
    BY <2>1, <2>2 DEF IInv, TypeOK, Closed, Asked
  <2>4. Len(q) \in LastAsk(q, DOMAIN q) /\ Len(q) <= follower.cursor
    <3>1. Len(q) = follower.cursor
      BY <2>1
    <3> HIDE DEF q
    <3>2. Len(q) \in DOMAIN q /\ Len(q) \in Nat /\ \A j \in DOMAIN q : ~ (j > Len(q))
      BY <2>3
    <3> QED BY <2>3, <3>1, <3>2 DEF LastAsk
  <2>5. <<r, Len(q)>> \in ToSet(banners)
    BY <2>1, <2>4 DEF IInv, Announced
  <2> QED BY <2>1, <2>4, <2>5
<1> QED BY <1>1, Invariance, PTL
=============================================================================
