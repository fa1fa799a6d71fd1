------------------------------ MODULE ChatPage ------------------------------
(***************************************************************************)
(* The chat of the browser workspace, app/page.tsx: how a page follows a   *)
(* run of the coordinator and what it keeps of it.                         *)
(*                                                                         *)
(* The coordinator keeps a log of events for every run and gives it out in *)
(* batches.  The page appends the text of the events to the reply of the   *)
(* run, together with a cursor, keeps its replies in the storage of the    *)
(* browser, and may be closed and loaded at any time.  A piece of text is  *)
(* the position in the log of the event it comes from; 0 stands for text   *)
(* that comes from no event.                                               *)
(*                                                                         *)
(* The user acts once connect() has done its work: what he does before,    *)
(* tool activity, other pages on the same storage, and events that arrive  *)
(* after the end of a run are left out.                                    *)
(***************************************************************************)
EXTENDS Naturals, Sequences, FiniteSets, SequencesExt

CONSTANTS
  Runs,
  NoRun,
  Batch,      \* how many events one request returns (LIMIT 500)
  MaxLog,     \* bound: events of a run
  MaxReplies, \* bound: replies on the page
  Outages     \* requests of the page may fail

ASSUME ChatAssumption ==
  /\ NoRun \notin Runs
  /\ Batch \in Nat \ {0} /\ MaxLog \in Nat /\ MaxReplies \in Nat
  /\ Outages \in BOOLEAN

VARIABLES
  state,      \* the runs' states, as the coordinator has them
  log,        \* their events
  stage,      \* the page: closed, in connect(), or ready
  replies,    \* the assistant's messages of the conversations
  stored,     \* what of them is in the storage of the browser
  follower,   \* the run that is followed, and for which reply
  banners     \* the approvals the page asks for, oldest first

vars == <<state, log, stage, replies, stored, follower, banners>>

Texts  == {"delta", "complete", "result", "error"}
Events == Texts \cup {"ask", "resolved"}
Live   == {"running", "waiting"}

Reply    == [run : Runs \cup {NoRun}, text : Seq(0..MaxLog), cursor : 0..MaxLog]
Follower == [ step   : {"none", "creates", "rebuilds", "follows", "lost"},
              run    : Runs \cup {NoRun},
              reply  : 0..MaxReplies,
              cursor : 0..MaxLog,
              got    : BOOLEAN,       \* receivedStreamText
              sent   : BOOLEAN,       \* send() follows, and not connect() or openTaskRun()
              blind  : BOOLEAN ]      \* the banner could not be rebuilt from what it was given

Nobody == [ step |-> "none", run |-> NoRun, reply |-> 0, cursor |-> 0,
            got |-> FALSE, sent |-> FALSE, blind |-> FALSE ]

TypeOK ==
  /\ state \in [Runs -> {"none", "ended"} \cup Live]
  /\ log \in [Runs -> Seq(Events)]
  /\ stage \in {"closed", "connects", "ready"}
  /\ replies \in Seq(Reply) /\ stored \in Seq(Reply)
  /\ follower \in Follower
  /\ banners \in Seq(Runs \X (1..MaxLog))

Init ==
  /\ state = [r \in Runs |-> "none"]
  /\ log = [r \in Runs |-> << >>]
  /\ stage = "closed"
  /\ replies = << >> /\ stored = << >>
  /\ follower = Nobody
  /\ banners = << >>

(* runLock: one run is followed at a time.                                 *)
Free == follower.step \in {"none", "lost"}

-----------------------------------------------------------------------------
(* The runs of the coordinator.                                            *)

Page == <<stage, replies, stored, follower, banners>>

Logs(r, e) == Len(log[r]) < MaxLog /\ log' = [log EXCEPT ![r] = Append(@, e)]

(* A run for a task, a routine, a handoff, or a follow-up that is queued.  *)
Appears(r) ==
  /\ state[r] = "none"
  /\ state' = [state EXCEPT ![r] = "running"]
  /\ UNCHANGED <<log, Page>>

(* Hermes streams, completes its message, or asks.                         *)
Says(r, e) ==
  /\ state[r] = "running" /\ Logs(r, e)
  /\ state' = [state EXCEPT ![r] = IF e = "ask" THEN "waiting" ELSE @]
  /\ UNCHANGED Page

(* The run ends with a result, an error or a word to say so, or because    *)
(* the coordinator was restarted, which adds no event.                     *)
Ends(r) ==
  /\ state[r] \in Live
  /\ UNCHANGED log \/ \E e \in {"result", "error"} : Logs(r, e)
  /\ state' = [state EXCEPT ![r] = "ended"]
  /\ UNCHANGED Page

(* GET /v1/runs/:id/events?after= *)
After(r, cursor) ==
  LET last == IF cursor + Batch < Len(log[r]) THEN cursor + Batch ELSE Len(log[r])
  IN  (cursor + 1)..last

-----------------------------------------------------------------------------
(* The replies and what is stored.                                         *)

(* 800 ms after the last change of anything.                               *)
Persist ==
  /\ stage # "closed" /\ stored # replies
  /\ stored' = replies
  /\ UNCHANGED <<state, log, stage, replies, follower, banners>>

Close ==
  /\ stage # "closed"
  /\ stage' = "closed" /\ replies' = << >> /\ follower' = Nobody /\ banners' = << >>
  /\ UNCHANGED <<state, log, stored>>

Load ==
  /\ stage = "closed"
  /\ stage' = "connects" /\ replies' = stored
  /\ UNCHANGED <<state, log, stored, follower, banners>>

RepliesOf(r) == {i \in DOMAIN replies : replies[i].run = r}

NewReply(r) == [run |-> r, text |-> IF state[r] = "ended" THEN <<0>> ELSE << >>, cursor |-> 0]

(* attachRunMessage(): the reply of the run, or one more, with what the    *)
(* coordinator has recorded of a run that has ended.                       *)
Attached(r) ==
  IF RepliesOf(r) # {} THEN replies ELSE Append(replies, NewReply(r))

ReplyOf(r) ==
  IF RepliesOf(r) # {} THEN CHOOSE i \in RepliesOf(r) : \A j \in RepliesOf(r) : i <= j
  ELSE Len(replies) + 1

(* followRun() of r in a step, with or without text that was there.        *)
Following(r, step, got) ==
  [ step |-> step, run |-> r, reply |-> ReplyOf(r), cursor |-> Attached(r)[ReplyOf(r)].cursor,
    got |-> got, sent |-> FALSE, blind |-> FALSE ]

HasText(r) == Attached(r)[ReplyOf(r)].text # << >>

(* Mutant: a reply that has some text is taken for one that has none.      *)
Resumes_Unread(r) == Following(r, "follows", FALSE)

(* Mutant: the banners are not rebuilt.                                    *)
Resumes_NoBanner(r) == Following(r, "follows", HasText(r))

(* followRun() for a reply that may have had its first events.             *)
Resumes(r) ==
  LET seen == Attached(r)[ReplyOf(r)].cursor > 0 IN
  Following(r, IF state[r] = "waiting" /\ seen THEN "rebuilds" ELSE "follows", HasText(r))

Attach(r) ==
  /\ Len(Attached(r)) <= MaxReplies
  /\ replies' = Attached(r)

(* The end of connect(): one live run is followed, if there is one.        *)
Connected ==
  /\ stage = "connects"
  /\ stage' = "ready"
  /\ \/ \E r \in Runs : state[r] \in Live /\ Attach(r) /\ follower' = Resumes(r)
     \/ (\A r \in Runs : state[r] \notin Live) /\ UNCHANGED <<replies, follower>>
  /\ UNCHANGED <<state, log, stored, banners>>

(* openTaskRun(): of a run that the task still shows as live, or not.      *)
OpenTaskRun(r, shownLive) ==
  /\ stage = "ready" /\ state[r] # "none"
  /\ state[r] \in Live => shownLive
  /\ Attach(r)
  /\ follower' = IF shownLive /\ Free THEN Resumes(r) ELSE follower
  /\ UNCHANGED <<state, log, stage, stored, banners>>

-----------------------------------------------------------------------------
(* send()                                                                  *)

Told(i, more) == [replies EXCEPT ![i].text = @ \o more]

Send ==
  /\ stage = "ready" /\ Free /\ Len(replies) < MaxReplies
  /\ replies' = Append(replies, [run |-> NoRun, text |-> << >>, cursor |-> 0])
  /\ follower' = [Nobody EXCEPT !.step = "creates", !.reply = Len(replies) + 1, !.sent = TRUE]
  /\ UNCHANGED <<state, log, stage, stored, banners>>

Created(r) ==
  /\ follower.step = "creates" /\ state[r] = "none"
  /\ state' = [state EXCEPT ![r] = "running"]
  /\ replies' = [replies EXCEPT ![follower.reply].run = r]
  /\ follower' = [follower EXCEPT !.step = "follows", !.run = r]
  /\ UNCHANGED <<log, stage, stored, banners>>

(* The request is refused, or it has its effect and its answer is lost.    *)
NotCreated ==
  /\ Outages /\ follower.step = "creates"
  /\ \/ UNCHANGED state
     \/ \E r \in Runs : state[r] = "none" /\ state' = [state EXCEPT ![r] = "running"]
  /\ replies' = Told(follower.reply, <<0>>)
  /\ follower' = Nobody
  /\ UNCHANGED <<log, stage, stored, banners>>

-----------------------------------------------------------------------------
(* followRun()                                                             *)

(* The positions S, in order.                                              *)
InOrder(S) ==
  CHOOSE q \in SetToSeqs(S) : \A i, j \in DOMAIN q : i < j => q[i] < q[j]

(* The banners bs and those of the approvals that events es of r ask for.  *)
WithBanners(bs, r, es) ==
  LET new == InOrder({i \in es : log[r][i] = "ask" /\ <<r, i>> \notin ToSet(bs)})
  IN  bs \o [k \in DOMAIN new |-> <<r, new[k]>>]

(* The banners bs without those of r.                                      *)
Without(bs, r) ==
  LET kept == InOrder({k \in DOMAIN bs : bs[k][1] # r})
  IN  [k \in DOMAIN kept |-> bs[kept[k]]]

(* The last event of es that asks, in the log q.                           *)
LastAsk(q, es) == {i \in es : q[i] = "ask" /\ \A j \in es : j > i => q[j] # "ask"}

(* The approval of a run that waits is looked for in its first events.     *)
Rebuild ==
  LET r == follower.run IN
  /\ follower.step = "rebuilds"
  /\ banners' = WithBanners(banners, r, LastAsk(log[r], After(r, 0)))
  /\ follower' = [follower EXCEPT !.step = "follows", !.blind = Len(log[r]) > Batch]
  /\ UNCHANGED <<state, log, stage, replies, stored>>

RebuildFails ==
  /\ Outages /\ follower.step = "rebuilds"
  /\ follower' = [follower EXCEPT !.step = "follows", !.blind = TRUE]
  /\ UNCHANGED <<state, log, stage, replies, stored, banners>>

(* The pieces of text that events es of the log q give a reply that has    *)
(* some, and those they give one that has none.                            *)
LaterPieces(q, es) == {i \in es : q[i] \in {"delta", "error"}}

Pieces(q, es) ==
  LaterPieces(q, es) \cup
  {i \in es : /\ q[i] \in {"complete", "result"}
              /\ \A j \in es : j < i => q[j] \notin {"delta", "complete"}}

(* After a batch the follower goes on at cursor c or, when the run has     *)
(* ended, takes its banners away and returns.                              *)
Returns(r, c, got, bs) ==
  IF state[r] = "ended"
  THEN /\ follower' = Nobody
       /\ banners' = Without(bs, r)
  ELSE /\ follower' = [follower EXCEPT !.cursor = c, !.got = got]
       /\ banners' = bs

(* Mutant: the loop ends with the run.                                     *)
Polls_WhileLive == follower.step = "follows" /\ state[follower.run] # "ended"

Polls == follower.step = "follows"

(* One request for the events after the cursor, and what is done with its  *)
(* answer.                                                                 *)
Poll ==
  LET r     == follower.run
      es    == After(r, follower.cursor)
      c     == follower.cursor + Cardinality(es)
      texts == InOrder(IF follower.got THEN LaterPieces(log[r], es) ELSE Pieces(log[r], es))
      got   == follower.got \/ \E i \in es : log[r][i] \in Texts \ {"error"}
  IN
  /\ Polls /\ (es # {} \/ state[r] = "ended")
  /\ replies' = [Told(follower.reply, texts) EXCEPT ![follower.reply].cursor = c]
  /\ Returns(r, c, got, WithBanners(banners, r, es))
  /\ UNCHANGED <<state, log, stage, stored>>

(* Eleven requests in a row have failed, and the page says so: send() in   *)
(* the reply.                                                              *)
GivesUp ==
  /\ Outages /\ follower.step = "follows"
  /\ replies' = IF follower.sent THEN Told(follower.reply, <<0>>) ELSE replies
  /\ follower' = [Nobody EXCEPT !.step = "lost", !.run = follower.run]
  /\ UNCHANGED <<state, log, stage, stored, banners>>

(* The user answers the banner that is shown, the oldest one.  The         *)
(* coordinator does not ask whether the approval is pending.               *)
Answer ==
  LET r == banners[1][1] IN
  /\ banners # << >>
  /\ state[r] \in Live /\ Logs(r, "resolved")
  /\ state' = [state EXCEPT ![r] = "running"]
  /\ banners' = Tail(banners)
  /\ UNCHANGED <<stage, replies, stored, follower>>

-----------------------------------------------------------------------------
Next ==
  \/ \E r \in Runs : Appears(r) \/ Ends(r) \/ Created(r)
  \/ \E r \in Runs, e \in {"delta", "complete", "ask"} : Says(r, e)
  \/ \E r \in Runs, shownLive \in BOOLEAN : OpenTaskRun(r, shownLive)
  \/ Persist \/ Close \/ Load \/ Connected \/ Send \/ NotCreated
  \/ Rebuild \/ RebuildFails \/ Poll \/ GivesUp \/ Answer

Spec == Init /\ [][Next]_vars

(* Requests are answered or time out, and a page that follows asks again.  *)
Fairness == WF_vars(Rebuild \/ RebuildFails) /\ WF_vars(Poll)

FairSpec == Spec /\ Fairness

-----------------------------------------------------------------------------
(* Properties.                                                             *)

(* The reply shows the pieces ps, each of them once and in order, and no   *)
(* other that comes from an event.                                         *)
Shows(reply, ps) ==
  /\ ToSet(reply.text) \ {0} = ps
  /\ \A i, j \in DOMAIN reply.text :
       i < j => reply.text[j] = 0 \/ reply.text[i] < reply.text[j]

(* However often the page was closed, loaded from an older copy or cut off *)
(* from the coordinator, a reply shows the text of the events up to its    *)
(* cursor once, in order, as if it had been followed without a break.      *)
(* Unless it was told of an error before: then a message that Hermes has   *)
(* not streamed is taken for one that is there, and is not shown.          *)
ShownOnce ==
  \A i \in DOMAIN replies : replies[i].run # NoRun =>
    LET reply == replies[i]  q == log[replies[i].run] IN
    \/ Shows(reply, Pieces(q, 1..reply.cursor))
    \/ 0 \in ToSet(reply.text) /\ Shows(reply, LaterPieces(q, 1..reply.cursor))

(* The run that is followed waits for an answer, the page has all of its   *)
(* events, and shows no banner for it.                                     *)
Hidden ==
  LET r == follower.run IN
  /\ follower.step = "follows" /\ state[r] = "waiting" /\ follower.cursor = Len(log[r])
  /\ \A i \in LastAsk(log[r], DOMAIN log[r]) : <<r, i>> \notin ToSet(banners)

(* A run that waits for approval is not hidden by a reload, unless the     *)
(* events of the run were not to be had or did not fit in one batch.       *)
BlockedRunShown == ~ (Hidden /\ ~ follower.blind)

(* page.tsx:671 "so a browser reload cannot hide the blocked run", whose   *)
(* "normal retry loop" only asks for what is after the cursor.             *)
ReloadHidesNothing == ~ Hidden

(* A reply has all that there is of its run.                               *)
Whole(r) == \E i \in DOMAIN replies : replies[i].run = r /\ replies[i].cursor = Len(log[r])

(* A page that stays open and follows a run shows its end, unless it says  *)
(* that it has lost contact, or is more than a batch behind when the run   *)
(* ends.                                                                   *)
EndShown ==
  \A r \in Runs :
    ( /\ follower.step = "follows" /\ follower.run = r
      /\ state[r] = "ended" /\ follower.cursor + Batch >= Len(log[r]) )
    ~> (Whole(r) \/ stage = "closed" \/ follower.step = "lost")
=============================================================================
