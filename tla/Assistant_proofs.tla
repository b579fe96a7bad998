--------------------------- MODULE Assistant_proofs ---------------------------
(***************************************************************************)
(* The chat, for any number of requests, of rounds and of forms.  What is  *)
(* inductive: a request between its first and its last statement has the   *)
(* lock (RunsAlone); what it saved so far is what its place in the code    *)
(* says (Saved); a reply of staff is in the thread before its row is       *)
(* written (DeskSound).  From these a customer who waits is seen, unless   *)
(* the flag was written from an older copy (loose).                        *)
(***************************************************************************)
EXTENDS Assistant, Discovery, NumberFacts, SequenceTheorems, TLAPS

At       == {"idle", "read", "held", "asking", "settling", "answering", "done", "ended", "dead"}
Running  == {"read", "held", "asking", "settling", "answering", "done"}
Thread   == [paused : {"no", "live", "lapsed"}, needs : BOOLEAN]
Turn     == [at : At, row : Thread, round : 0 .. MaxRounds, escalate : BOOLEAN, reason : Reasons]
Desk     == [at : {"idle", "reply", "form", "pause", "release", "ended"}, row : Thread,
             form : Forms \cup {"none"}, seen : Nat]
Messages == [role : {"user", "assistant"}, by : Turns, kind : {"plain", "held"}]
              \cup [role : {"admin"}, by : Desks, kind : {"plain"}]

Said(i, r) == log[i].role = "user" /\ log[i].by = r

Typed ==
  /\ lock \in Turns \cup {Nobody} /\ thread \in Thread /\ log \in Seq(Messages)
  /\ turn \in [Turns -> Turn] /\ desk \in [Desks -> Desk]
  /\ loose \in BOOLEAN /\ dismissed \in 0 .. Len(log)
  /\ \A s \in Desks : desk[s].seen <= Len(log)

RunsAlone(r) == turn[r].at \in Running => lock = r

Saved(r) ==
  /\ turn[r].at \in {"idle", "read"} => \A i \in DOMAIN log : ~Said(i, r)
  /\ turn[r].at = "held" => \A i \in DOMAIN log : Said(i, r) => log[i].kind = "held"
  /\ turn[r].at \in {"asking", "settling", "answering"} =>
       \A i \in DOMAIN log : Said(i, r) => log[i].kind = "plain"
  /\ turn[r].at \in {"done", "ended"} => (Asked(r) => Answered(r))

DeskSound(s) == desk[s].at = "pause" => \E j \in DOMAIN log : j > desk[s].seen /\ log[j].role = "admin"

Inv == /\ Typed
       /\ \A r \in Turns : RunsAlone(r) /\ Saved(r)
       /\ \A s \in Desks : DeskSound(s)
       /\ WaitingIsSeen

-----------------------------------------------------------------------------
LEMMA LogIs ==
  ASSUME log \in Seq(Messages)
  PROVE  /\ Len(log) \in Nat /\ DOMAIN log = 1..Len(log)
         /\ \A i \in DOMAIN log : /\ i \in Nat /\ i <= Len(log) /\ log[i] \in Messages
                                  /\ log[i].role \in {"user", "assistant"} => log[i].by \in Turns
                                  /\ log[i].role = "admin" => log[i].by \in Desks
<1>1. /\ Len(log) \in Nat /\ DOMAIN log = 1..Len(log)
      /\ \A i \in DOMAIN log : log[i] \in Messages
  BY LenProperties, ElementOfSeq
<1> QED
  BY <1>1 DEF Messages

(* The thread only grows.                                                  *)
Grown(m) ==
  /\ log' \in Seq(Messages) /\ Len(log') = Len(log) + 1 /\ DOMAIN log' = DOMAIN log \cup {Len(log) + 1}
  /\ log'[Len(log) + 1] = m /\ \A i \in DOMAIN log : log'[i] = log[i] /\ i # Len(log) + 1

LEMMA PostGrows ==
  ASSUME log \in Seq(Messages), NEW m \in Messages, log' = Append(log, m)
  PROVE  Grown(m)
<1>1. Len(log) \in Nat /\ DOMAIN log = 1..Len(log)
  BY LogIs
<1>2. /\ log' \in Seq(Messages) /\ Len(log') = Len(log) + 1 /\ log'[Len(log) + 1] = m
      /\ \A i \in 1..Len(log) : log'[i] = log[i]
  BY AppendProperties
<1>3. DOMAIN log' = 1..(Len(log) + 1)
  BY <1>1, <1>2, LenProperties
<1> QED
  BY <1>1, <1>2, <1>3 DEF Grown

LEMMA TurnGoes ==
  ASSUME Typed, NEW r \in Turns, NEW t \in Turn, Goes(r, t)
  PROVE  turn' \in [Turns -> Turn] /\ turn'[r] = t /\ \A q \in Turns : q # r => turn'[q] = turn[q]
BY DEF Typed, Goes

LEMMA TurnIs == ASSUME Typed, NEW r \in Turns PROVE turn[r] \in Turn /\ turn[r].at \in At
BY DEF Typed, Turn

(***************************************************************************)
(* The step of a request r: it says nothing, or one thing.                 *)
(***************************************************************************)
Says(r, m) == m \in Messages /\ m.by = r /\ m.role # "admin" /\ Grown(m)
Speaks(r)  == log' = log \/ \E m : Says(r, m)

LEMMA SpeaksKeeps ==
  ASSUME log \in Seq(Messages), NEW r, Speaks(r)
  PROVE  /\ log' \in Seq(Messages) /\ Len(log) <= Len(log')
         /\ \A i \in DOMAIN log : i \in DOMAIN log' /\ log'[i] = log[i]
         /\ \A i \in DOMAIN log' : i \in DOMAIN log \/ (log'[i].by = r /\ log'[i].role # "admin")
<1>1. Len(log) \in Nat
  BY LogIs
<1> QED
  BY <1>1 DEF Speaks, Says, Grown

LEMMA TurnStepKeeps ==
  ASSUME Inv, NEW r \in Turns, NEW t \in Turn, Goes(r, t), Speaks(r), desk' = desk, dismissed' = dismissed,
         lock' \in Turns \cup {Nobody}, thread' \in Thread, loose' \in BOOLEAN,
         \A q \in Turns : q # r /\ turn[q].at \in Running => lock' = q,
         (RunsAlone(r) /\ Saved(r))',
         loose \/ thread.needs => loose' \/ thread'.needs,
         loose' \/ thread'.needs \/ \A i \in DOMAIN log' : Said(i, r)' /\ WaitsForTeam(i)'
                                                             => i \in DOMAIN log /\ WaitsForTeam(i)
  PROVE  Inv'
<1>1. /\ Typed /\ log \in Seq(Messages) /\ Len(log) \in Nat
      /\ turn' \in [Turns -> Turn] /\ turn'[r] = t /\ \A q \in Turns : q # r => turn'[q] = turn[q]
  BY TurnGoes, LogIs DEF Inv, Typed
<1>2. /\ log' \in Seq(Messages) /\ Len(log) <= Len(log') /\ Len(log') \in Nat
      /\ \A i \in DOMAIN log : i \in DOMAIN log' /\ log'[i] = log[i]
      /\ \A i \in DOMAIN log' : i \in DOMAIN log \/ (log'[i].by = r /\ log'[i].role # "admin")
  BY <1>1, SpeaksKeeps, LenProperties
<1>3. Typed'
  <2>1. \A s \in Desks : desk[s].seen \in Nat
    BY <1>1 DEF Typed, Desk
  <2> QED BY <1>1, <1>2, <2>1 DEF Typed
<1>4. ASSUME NEW q \in Turns PROVE (RunsAlone(q) /\ Saved(q))'
  <2>1. CASE q = r
    BY <2>1
  <2>2. CASE q # r
    <3>1. RunsAlone(q)'
      BY <1>1, <2>2 DEF RunsAlone
    <3>2. /\ \A i \in DOMAIN log' : Said(i, q)' => i \in DOMAIN log /\ Said(i, q)
          /\ Asked(q)' => Asked(q)
          /\ Answered(q) => Answered(q)'
      BY <1>2, <2>2 DEF Said, Asked, Answered
    <3>3. Saved(q)
      BY DEF Inv
    <3>4. Saved(q)'
      BY <1>1, <1>2, <2>2, <3>2, <3>3 DEF Saved
    <3> QED BY <3>1, <3>4
  <2> QED BY <2>1, <2>2
<1>5. ASSUME NEW s \in Desks PROVE DeskSound(s)'
  BY <1>2 DEF Inv, DeskSound
<1>6. WaitingIsSeen'
  <2>1. ASSUME ~loose', ~thread'.needs, NEW i \in DOMAIN log', WaitsForTeam(i)' PROVE FALSE
    <3>1. ~loose /\ ~thread.needs
      BY <2>1
    <3>2. \A j \in DOMAIN log : ~WaitsForTeam(j)
      BY <3>1 DEF Inv, WaitingIsSeen
    <3>3. log'[i].role = "user" /\ log'[i].by # r
      BY <2>1, <3>2 DEF WaitsForTeam, Said
    <3>4. i \in DOMAIN log /\ log'[i] = log[i]
      BY <1>2, <3>3
    <3>5. log[i].by \in Turns
      BY <1>1, <3>3, <3>4, LogIs
    <3>6. turn'[log'[i].by] = turn[log[i].by]
      BY <1>1, <3>3, <3>4, <3>5
    <3>7. WaitsForTeam(i)
      BY <1>2, <2>1, <3>4, <3>6 DEF WaitsForTeam
    <3> QED BY <3>2, <3>4, <3>7
  <2> QED BY <2>1 DEF WaitingIsSeen
<1> QED
  BY <1>3, <1>4, <1>5, <1>6 DEF Inv

-----------------------------------------------------------------------------
(***************************************************************************)
(* The steps of a request.                                                 *)
(***************************************************************************)
(* Whoever else runs keeps the lock where r has it, or nobody.             *)
LEMMA LockStays == ASSUME Inv, lock' = lock PROVE \A q \in Turns : turn[q].at \in Running => lock' = q
BY DEF Inv, RunsAlone

LEMMA BeginTurnKeeps ==
  ASSUME Inv, NEW r \in Turns, BeginTurn(r)
  PROVE  Inv'
<1> PICK t : t = [turn[r] EXCEPT !.at = IF lock' = r THEN "read" ELSE "ended", !.row = IF lock' = r THEN thread ELSE @]
  OBVIOUS
<1>0. Typed /\ turn[r].at = "idle" /\ lock' = (IF lock = Nobody THEN r ELSE lock)
  BY DEF Inv, BeginTurn, ClaimTurn
<1>1. Goes(r, t) /\ UNCHANGED <<log, desk, thread, loose, dismissed>>
  BY DEF BeginTurn, KeepThread
<1>2. t \in Turn /\ t.at = (IF lock' = r THEN "read" ELSE "ended")
  BY <1>0, TurnIs DEF Typed, Turn, At
<1>3. turn'[r] = t
  BY <1>0, <1>1, <1>2, TurnGoes
<1>4. (RunsAlone(r) /\ Saved(r))'
  <2>1. \A i \in DOMAIN log : ~Said(i, r)
    BY <1>0 DEF Inv, Saved
  <2>2. RunsAlone(r)'
    BY <1>2, <1>3 DEF RunsAlone, Running
  <2>3. Saved(r)'
    BY <1>1, <1>2, <1>3, <2>1 DEF Saved, Said, Asked
  <2> QED BY <2>2, <2>3
<1>5. \A i \in DOMAIN log' : ~(Said(i, r)')
  BY <1>0, <1>1 DEF Inv, Saved, Said
<1>6. ASSUME NEW q \in Turns, q # r, turn[q].at \in Running PROVE lock' = q
  BY <1>0, <1>6 DEF Inv, RunsAlone, Turns, Nobody
<1> QED
  BY <1>0, <1>1, <1>2, <1>4, <1>5, <1>6, TurnStepKeeps DEF Typed, Speaks

(* A question, whether the assistant takes it or the team is on the thread.*)
LEMMA QuestionKeeps ==
  ASSUME Inv, NEW r \in Turns, PostHeld(r) \/ PostQuestion(r)
  PROVE  Inv'
<1>0. Typed /\ turn[r].at = "read" /\ turn[r] \in Turn /\ log \in Seq(Messages)
  BY TurnIs DEF Inv, Typed, PostHeld, PostQuestion
<1> PICK kind : kind = IF PostHeld(r) THEN "held" ELSE "plain"
  OBVIOUS
<1> PICK m : m = Message("user", r, kind)
  OBVIOUS
<1>1. m \in Messages /\ m.role = "user" /\ m.by = r /\ m.kind = kind
  BY DEF Message, Messages
<1>2. log' = Append(log, m) /\ UNCHANGED <<lock, desk, thread, loose, dismissed>>
  <2>1. CASE PostHeld(r)
    BY <2>1 DEF PostHeld, Post, KeepThread
  <2>2. CASE ~PostHeld(r)
    BY <2>2 DEF PostQuestion, Post, KeepThread
  <2> QED BY <2>1, <2>2
<1>3. Says(r, m) /\ Speaks(r) /\ Grown(m)
  BY <1>0, <1>1, <1>2, PostGrows DEF Says, Speaks
<1>4. PICK t \in Turn : /\ Goes(r, t)
                        /\ IF kind = "held" THEN t.at = "held" ELSE t.at \in {"asking", "settling"}
  <2>1. CASE PostHeld(r)
    <3> PICK t : t = [turn[r] EXCEPT !.at = "held"]
      OBVIOUS
    <3>1. t \in Turn /\ t.at = "held"
      BY <1>0 DEF Turn, At
    <3> QED BY <2>1, <3>1 DEF PostHeld, Moves
  <2>2. CASE ~PostHeld(r)
    <3>1. \/ Goes(r, [turn[r] EXCEPT !.at = "asking", !.round = 1])
          \/ Goes(r, [turn[r] EXCEPT !.at = "settling", !.reason = "llm_unavailable", !.escalate = TRUE])
      BY <2>2 DEF PostQuestion
    <3> PICK asks : asks = [turn[r] EXCEPT !.at = "asking", !.round = 1]
      OBVIOUS
    <3> PICK fails : fails = [turn[r] EXCEPT !.at = "settling", !.reason = "llm_unavailable", !.escalate = TRUE]
      OBVIOUS
    <3>2. 1 \in 0 .. MaxRounds /\ "llm_unavailable" \in Reasons
      BY ChatAssumption DEF Reasons, Failures
    <3>3. asks \in Turn /\ asks.at = "asking" /\ fails \in Turn /\ fails.at = "settling"
      BY <1>0, <3>2 DEF Turn, At
    <3> QED BY <2>2, <3>1, <3>3
  <2> QED BY <2>1, <2>2
<1>5. turn'[r] = t
  BY <1>0, <1>4, TurnGoes
<1>6. \A i \in DOMAIN log' : Said(i, r)' => i = Len(log) + 1 /\ log'[i] = m
  BY <1>0, <1>3 DEF Inv, Saved, Said, Grown
<1>7. (RunsAlone(r) /\ Saved(r))'
  <2>1. lock' = r
    BY <1>0, <1>2, LockStays DEF Running
  <2>2. t.at \in {"held", "asking", "settling"} /\ (t.at = "held" <=> kind = "held") /\ kind \in {"held", "plain"}
    BY <1>4
  <2> QED BY <1>1, <1>5, <1>6, <2>1, <2>2 DEF RunsAlone, Saved
<1>8. \A i \in DOMAIN log' : Said(i, r)' => ~(WaitsForTeam(i)')
  BY <1>1, <1>4, <1>5, <1>6 DEF WaitsForTeam
<1>9. \A q \in Turns : q # r /\ turn[q].at \in Running => lock' = q
  BY <1>2, LockStays
<1> QED
  BY <1>0, <1>2, <1>3, <1>4, <1>7, <1>8, <1>9, TurnStepKeeps DEF Typed

(* A step that says nothing, for a request that keeps the lock.            *)
LEMMA SilentKeeps ==
  ASSUME Inv, NEW r \in Turns, NEW t \in Turn, Goes(r, t), turn[r].at \in Running,
         UNCHANGED <<lock, log, desk, dismissed>>, thread' \in Thread, loose' \in BOOLEAN,
         loose \/ thread.needs => loose' \/ thread'.needs,
         \/ t.at = turn[r].at
         \/ turn[r].at \in {"asking", "settling"} /\ t.at \in {"settling", "answering"}
         \/ turn[r].at = "held" /\ t.at = "done"
         \/ turn[r].at = "done" /\ t.at = "ended",
         \/ loose' \/ thread'.needs
         \/ turn[r].at \in {"asking", "settling"} /\ t.at # "answering"
         \/ turn[r].at \in {"asking", "settling"} /\ t.reason # "customer_asked"
         \/ turn[r].at = "done" /\ t.reason = turn[r].reason
  PROVE  Inv'
<1>1. Typed /\ turn'[r] = t /\ lock = r /\ Saved(r)
  BY TurnGoes DEF Inv, RunsAlone
<1>2. (RunsAlone(r) /\ Saved(r))'
  <2>1. RunsAlone(r)'
    BY <1>1 DEF RunsAlone
  <2>2. turn[r].at = "held" => ~Asked(r)
    BY <1>1 DEF Saved, Asked, Said
  <2>3. Saved(r)'
    BY <1>1, <2>2 DEF Saved, Said, Asked, Answered, Running
  <2> QED BY <2>1, <2>3
<1>3. loose' \/ thread'.needs \/ \A i \in DOMAIN log' : Said(i, r)' /\ WaitsForTeam(i)'
                                                            => i \in DOMAIN log /\ WaitsForTeam(i)
  <2>1. ASSUME ~loose', ~thread'.needs, NEW i \in DOMAIN log, Said(i, r), WaitsForTeam(i)'
        PROVE  WaitsForTeam(i)
    <3>1. log[i].by = r /\ turn'[log'[i].by] = t
      BY <1>1, <2>1 DEF Said
    <3>2. CASE turn[r].at \in {"asking", "settling"}
      <4>1. log[i].kind = "plain"
        BY <1>1, <2>1, <3>2 DEF Saved
      <4> QED BY <2>1, <3>1, <3>2, <4>1 DEF WaitsForTeam
    <3>3. CASE turn[r].at = "done" /\ t.reason = turn[r].reason
      BY <2>1, <3>1, <3>3 DEF WaitsForTeam
    <3> QED BY <2>1, <3>2, <3>3
  <2> QED BY <2>1 DEF Said
<1>4. lock' \in Turns \cup {Nobody}
  BY <1>1 DEF Typed
<1>5. \A q \in Turns : q # r /\ turn[q].at \in Running => lock' = q
  BY LockStays
<1> QED
  BY <1>2, <1>3, <1>4, <1>5, TurnStepKeeps DEF Speaks

LEMMA FlagIs ==
  ASSUME Typed, NEW r, Flag(r, thread)
  PROVE  /\ thread' \in Thread /\ loose' \in BOOLEAN /\ (loose' \/ thread'.needs)
         /\ thread'.paused = thread.paused
BY DEF Typed, Flag, Thread

LEMMA UnaskedIs ==
  /\ Unasked \in Turn /\ Unasked.reason = "none" /\ Fresh \in Thread
BY ChatAssumption DEF Unasked, Fresh, Turn, At, Thread, Reasons

LEMMA FlagHeldKeeps == ASSUME Inv, NEW r \in Turns, FlagHeld(r) PROVE Inv'
<1> PICK t : t = [Unasked EXCEPT !.at = "done"]
  OBVIOUS
<1>1. /\ turn[r].at = "held" /\ Flag(r, thread) /\ Goes(r, t)
      /\ UNCHANGED <<lock, log, desk, dismissed>> /\ Typed
  BY DEF FlagHeld, Inv
<1>2. t \in Turn /\ t.at = "done"
  BY UnaskedIs DEF Turn, At
<1>3. thread' \in Thread /\ loose' \in BOOLEAN /\ (loose' \/ thread'.needs)
  BY <1>1, FlagIs
<1> QED
  BY <1>1, <1>2, <1>3, SilentKeeps DEF Running

LEMMA SettledIs ==
  ASSUME NEW t \in Turn, NEW reason \in Reasons
  PROVE  /\ Settled(t, reason) \in Turn /\ Settled(t, reason).at = "settling"
         /\ Fails(t, reason) \in Turn /\ Fails(t, reason).at = "settling"
<1>1. 0 \in 0 .. MaxRounds
  BY ChatAssumption
<1>2. Settled(t, reason) \in Turn /\ Settled(t, reason).at = "settling"
  BY <1>1 DEF Settled, Turn, At
<1> QED
  BY <1>2 DEF Fails, Turn

LEMMA RoundKeeps == ASSUME Inv, NEW r \in Turns, Round(r) \/ CompletionFails(r) PROVE Inv'
<1>1. turn[r].at = "asking" /\ turn[r] \in Turn /\ Typed
  BY TurnIs DEF Round, CompletionFails, Inv
<1>2. UNCHANGED <<lock, log, desk, thread, loose, dismissed>>
  BY DEF Round, CompletionFails, Thinks, KeepThread
<1>3. \E t \in Turn : Goes(r, t) /\ t.at \in {"asking", "settling"}
  <2>1. CASE CompletionFails(r)
    BY <1>1, <2>1, SettledIs DEF CompletionFails, Thinks, Reasons, Failures
  <2>2. CASE Round(r)
    <3>1. PICK awaiting \in BOOLEAN, escalate \in BOOLEAN, words \in BOOLEAN :
            LET t == [turn[r] EXCEPT !.escalate = @ \/ escalate]
            IN Thinks(r, IF ~LastRound(t) /\ (awaiting \/ ~words) THEN [t EXCEPT !.round = @ + 1]
                         ELSE IF ~words THEN Fails(t, "loop_exhausted")
                         ELSE Settled(t, IF t.escalate THEN "customer_asked" ELSE "ok"))
      BY <2>2 DEF Round
    <3> PICK t : t = [turn[r] EXCEPT !.escalate = @ \/ escalate]
      OBVIOUS
    <3>2. t \in Turn /\ t.at = "asking"
      BY <1>1 DEF Turn
    <3>3. CASE ~LastRound(t) /\ (awaiting \/ ~words)
      <4> PICK next : next = [t EXCEPT !.round = @ + 1]
        OBVIOUS
      <4>1. Goes(r, next)
        BY <3>1, <3>3 DEF Thinks
      <4>2. t.round + 1 \in 0 .. MaxRounds
        BY <3>2, <3>3, ChatAssumption DEF LastRound, Turn
      <4>3. next \in Turn /\ next.at = "asking"
        BY <3>2, <4>2 DEF Turn
      <4> QED BY <4>1, <4>3
    <3>4. CASE ~(~LastRound(t) /\ (awaiting \/ ~words)) /\ ~words
      <4>1. Goes(r, Fails(t, "loop_exhausted")) /\ "loop_exhausted" \in Reasons
        BY <3>1, <3>4 DEF Thinks, Reasons, Failures
      <4> QED BY <3>2, <4>1, SettledIs
    <3>5. CASE ~(~LastRound(t) /\ (awaiting \/ ~words)) /\ words
      <4> PICK reason : reason = IF t.escalate THEN "customer_asked" ELSE "ok"
        OBVIOUS
      <4>1. Goes(r, Settled(t, reason)) /\ reason \in Reasons
        BY <3>1, <3>5 DEF Thinks, Reasons
      <4> QED BY <3>2, <4>1, SettledIs
    <3> QED BY <3>3, <3>4, <3>5
  <2> QED BY <2>1, <2>2
<1>4. PICK t \in Turn : Goes(r, t) /\ t.at \in {"asking", "settling"}
  BY <1>3
<1>5. thread' \in Thread /\ loose' \in BOOLEAN
  BY <1>1, <1>2 DEF Typed
<1> QED
  BY <1>1, <1>2, <1>4, <1>5, SilentKeeps DEF Running

LEMMA FinalizeKeeps == ASSUME Inv, NEW r \in Turns, Finalize(r) PROVE Inv'
<1> PICK t : t = [turn[r] EXCEPT !.at = "answering"]
  OBVIOUS
<1>1. /\ turn[r].at = "settling" /\ turn[r] \in Turn /\ Escalate(r) /\ Goes(r, t)
      /\ UNCHANGED <<lock, log, desk, dismissed>> /\ Typed
  BY TurnIs DEF Finalize, Moves, Inv
<1>2. t \in Turn /\ t.at = "answering" /\ t.reason = turn[r].reason
  BY <1>1 DEF Turn, At
<1>3. CASE turn[r].reason = "customer_asked"
  <2>1. thread' \in Thread /\ loose' \in BOOLEAN /\ (loose' \/ thread'.needs)
    BY <1>1, <1>3, FlagIs DEF Escalate
  <2> QED BY <1>1, <1>2, <2>1, SilentKeeps DEF Running
<1>4. CASE turn[r].reason # "customer_asked"
  <2>1. UNCHANGED <<thread, loose>> /\ thread' \in Thread /\ loose' \in BOOLEAN
    BY <1>1, <1>4 DEF Escalate, Typed
  <2> QED BY <1>1, <1>2, <1>4, <2>1, SilentKeeps DEF Running
<1> QED
  BY <1>3, <1>4

LEMMA AnswerKeeps == ASSUME Inv, NEW r \in Turns, Answer(r) PROVE Inv'
<1> PICK m : m = Message("assistant", r, "plain")
  OBVIOUS
<1> PICK t : t = [Unasked EXCEPT !.at = "done", !.reason = IF turn[r].reason = "customer_asked"
                                                           THEN "customer_asked" ELSE "none"]
  OBVIOUS
<1>1. /\ turn[r].at = "answering" /\ turn[r] \in Turn /\ Typed /\ log \in Seq(Messages)
      /\ Goes(r, t) /\ log' = Append(log, m)
      /\ UNCHANGED <<lock, desk, thread, loose, dismissed>>
  BY TurnIs DEF Answer, Post, KeepThread, Inv, Typed
<1>2. /\ t \in Turn /\ t.at = "done"
      /\ t.reason = (IF turn[r].reason = "customer_asked" THEN "customer_asked" ELSE "none")
  BY UnaskedIs DEF Turn, At, Reasons
<1>3. m \in Messages /\ m.role = "assistant" /\ m.by = r
  BY DEF Message, Messages
<1>4. Grown(m) /\ Speaks(r) /\ Len(log) \in Nat
  BY <1>1, <1>3, PostGrows, LogIs DEF Speaks, Says
<1>5. turn'[r] = t
  BY <1>1, <1>2, TurnGoes
<1>6. (RunsAlone(r) /\ Saved(r))'
  <2>1. lock' = r
    BY <1>1, LockStays DEF Running
  <2>2. Answered(r)'
    BY <1>3, <1>4 DEF Answered, Grown
  <2> QED BY <1>2, <1>5, <2>1, <2>2 DEF RunsAlone, Saved
<1>7. ASSUME NEW i \in DOMAIN log', Said(i, r)', WaitsForTeam(i)'
      PROVE  i \in DOMAIN log /\ WaitsForTeam(i)
  <2>1. i \in DOMAIN log /\ log'[i] = log[i]
    BY <1>3, <1>4, <1>7 DEF Said, Grown
  <2>2. log[i].role = "user" /\ log[i].by = r /\ log[i].kind = "plain"
    BY <1>1, <1>7, <2>1 DEF Inv, Saved, Said
  <2>3. t.reason = "customer_asked" /\ i > dismissed
    <3>1. turn'[log'[i].by] = t /\ dismissed' = dismissed /\ log'[i].kind # "held"
      BY <1>1, <1>5, <2>1, <2>2
    <3> QED BY <1>7, <3>1 DEF WaitsForTeam
  <2>4. \A j \in DOMAIN log : j > i => log[j].role # "admin"
    BY <1>4, <1>7 DEF WaitsForTeam, Grown
  <2>5. turn[log[i].by].reason = "customer_asked" /\ turn[log[i].by].at = "answering"
    BY <1>1, <1>2, <2>2, <2>3
  <2> QED BY <2>1, <2>2, <2>3, <2>4, <2>5 DEF WaitsForTeam
<1>8. \A q \in Turns : q # r /\ turn[q].at \in Running => lock' = q
  BY <1>1, LockStays
<1> QED
  BY <1>1, <1>2, <1>4, <1>6, <1>7, <1>8, TurnStepKeeps DEF Typed

(* The lock that ReleaseTurn deletes is its own.                           *)
LEMMA ReleaseTurnKeeps == ASSUME Inv, NEW r \in Turns, ReleaseTurn(r) PROVE Inv'
<1> PICK t : t = [turn[r] EXCEPT !.at = "ended"]
  OBVIOUS
<1>1. /\ turn[r].at = "done" /\ turn[r] \in Turn /\ Typed /\ Goes(r, t) /\ lock' = Nobody
      /\ UNCHANGED <<log, desk, thread, loose, dismissed>>
  BY TurnIs DEF ReleaseTurn, Moves, KeepThread, Inv
<1>2. t \in Turn /\ t.at = "ended" /\ t.reason = turn[r].reason
  BY <1>1 DEF Turn, At
<1>3. turn'[r] = t
  BY <1>1, <1>2, TurnGoes
<1>4. (RunsAlone(r) /\ Saved(r))'
  BY <1>1, <1>2, <1>3 DEF Inv, RunsAlone, Running, Saved, Asked, Answered
<1>5. lock = r
  BY <1>1 DEF Inv, RunsAlone, Running
<1>6. \A q \in Turns : q # r /\ turn[q].at \in Running => lock' = q
  BY <1>5 DEF Inv, RunsAlone
<1>7. ASSUME NEW i \in DOMAIN log, Said(i, r), WaitsForTeam(i)' PROVE WaitsForTeam(i)
  <2>1. log[i].by = r /\ turn'[log'[i].by] = t /\ log' = log /\ dismissed' = dismissed
    BY <1>1, <1>3, <1>7 DEF Said
  <2>2. turn[log[i].by].at = "done" /\ turn[log[i].by].reason = t.reason
    BY <1>1, <1>2, <2>1
  <2> QED BY <1>7, <2>1, <2>2 DEF WaitsForTeam
<1>8. \A i \in DOMAIN log' : Said(i, r)' /\ WaitsForTeam(i)' => i \in DOMAIN log /\ WaitsForTeam(i)
  BY <1>1, <1>7 DEF Said
<1> QED
  BY <1>1, <1>2, <1>4, <1>6, <1>8, TurnStepKeeps DEF Typed, Speaks

LEMMA DieKeeps == ASSUME Inv, NEW r \in Turns, Die(r) PROVE Inv'
<1> PICK t : t = [Unasked EXCEPT !.at = "dead"]
  OBVIOUS
<1>1. /\ Typed /\ Goes(r, t) /\ UNCHANGED <<lock, log, desk, thread, loose, dismissed>>
  BY DEF Die, KeepThread, Inv
<1>2. t \in Turn /\ t.at = "dead" /\ t.reason = "none"
  BY UnaskedIs DEF Turn, At
<1>3. turn'[r] = t
  BY <1>1, <1>2, TurnGoes
<1>4. (RunsAlone(r) /\ Saved(r))'
  BY <1>2, <1>3 DEF RunsAlone, Running, Saved
<1>5. \A i \in DOMAIN log' : Said(i, r)' => ~(WaitsForTeam(i)')
  BY <1>2, <1>3 DEF Said, WaitsForTeam
<1>6. \A q \in Turns : q # r /\ turn[q].at \in Running => lock' = q
  BY <1>1, LockStays
<1> QED
  BY <1>1, <1>2, <1>4, <1>5, <1>6, TurnStepKeeps DEF Typed, Speaks

LEMMA LockLapsesKeeps == ASSUME Inv, LockLapses PROVE Inv'
<1>1. /\ lock' = Nobody /\ UNCHANGED <<log, turn, desk, thread, loose, dismissed>>
      /\ \E r \in Turns : lock = r /\ turn[r].at = "dead"
  BY DEF LockLapses, KeepThread
<1>2. ASSUME NEW q \in Turns PROVE turn[q].at \notin Running
  BY <1>1 DEF Inv, RunsAlone, Running
<1>3. Typed' /\ \A q \in Turns : RunsAlone(q)'
  BY <1>1, <1>2 DEF Inv, Typed, RunsAlone
<1>4. (\A q \in Turns : Saved(q)') /\ (\A s \in Desks : DeskSound(s)') /\ WaitingIsSeen'
  BY <1>1 DEF Inv, Saved, Said, Asked, Answered, DeskSound, WaitingIsSeen, WaitsForTeam
<1> QED
  BY <1>3, <1>4 DEF Inv

-----------------------------------------------------------------------------
(***************************************************************************)
(* The steps of staff, and the clock.                                      *)
(***************************************************************************)
LEMMA DeskIs == ASSUME Typed, NEW s \in Desks PROVE desk[s] \in Desk /\ desk[s].seen <= Len(log)
BY DEF Typed

LEMMA FormSits ==
  ASSUME Typed, NEW s \in Desks, NEW d \in Desk, d.seen <= Len(log), Sits(s, d)
  PROVE  /\ desk' \in [Desks -> Desk] /\ desk'[s] = d /\ \A q \in Desks : q # s => desk'[q] = desk[q]
         /\ \A q \in Desks : desk'[q].seen <= Len(log)
BY DEF Typed, Sits

LEMMA LeavesIs ==
  ASSUME Typed, NEW s \in Desks, Leaves(s)
  PROVE  /\ desk' \in [Desks -> Desk] /\ desk'[s].at = "ended" /\ \A q \in Desks : q # s => desk'[q] = desk[q]
         /\ \A q \in Desks : desk'[q].seen <= Len(log)
<1> PICK d : d = [NoForm EXCEPT !.at = "ended"]
  OBVIOUS
<1>1. d \in Desk /\ d.at = "ended" /\ d.seen = 0
  BY DEF NoForm, Fresh, Desk, Thread
<1>2. Sits(s, d) /\ Len(log) \in Nat
  BY LogIs DEF Leaves, Typed
<1>3. d.seen <= Len(log)
  BY <1>1, <1>2
<1> QED
  BY <1>1, <1>2, <1>3, FormSits

(* Nothing that the requests of the customer have to do with.              *)
LEMMA DeskStepKeeps ==
  ASSUME Inv, UNCHANGED <<lock, log, turn>>, desk' \in [Desks -> Desk],
         \A s \in Desks : desk'[s].seen <= Len(log) /\ (desk'[s].at = "pause" => desk'[s] = desk[s]),
         thread' \in Thread, loose' \in BOOLEAN, dismissed' \in 0 .. Len(log), WaitingIsSeen'
  PROVE  Inv'
<1>1. Typed'
  BY DEF Inv, Typed
<1>2. \A q \in Turns : (RunsAlone(q) /\ Saved(q))'
  BY DEF Inv, RunsAlone, Saved, Said, Asked, Answered
<1>3. \A s \in Desks : DeskSound(s)'
  BY DEF Inv, DeskSound
<1> QED
  BY <1>1, <1>2, <1>3 DEF Inv

(* The row is as it was but for its flag, which stays up.                  *)
LEMMA SeenStays ==
  ASSUME Inv, UNCHANGED <<log, turn, loose, dismissed>>, thread'.needs = thread.needs
  PROVE  WaitingIsSeen'
BY DEF Inv, WaitingIsSeen, WaitsForTeam

LEMMA OpenThreadKeeps == ASSUME Inv, NEW s \in Desks, OpenThread(s) PROVE Inv'
<1>1. PICK form \in Forms :
        Sits(s, [at |-> IF form = "reply" THEN "reply" ELSE "form", row |-> thread, form |-> form, seen |-> Len(log)])
  BY DEF OpenThread
<1> PICK d : d = [at |-> IF form = "reply" THEN "reply" ELSE "form", row |-> thread, form |-> form, seen |-> Len(log)]
  OBVIOUS
<1>2. Typed /\ Len(log) \in Nat /\ UNCHANGED <<lock, log, turn, thread, loose, dismissed>>
  BY LogIs DEF Inv, Typed, OpenThread, KeepThread
<1>3. d \in Desk /\ d.at # "pause" /\ d.seen = Len(log)
  BY <1>2 DEF Desk, Typed
<1>4. /\ desk' \in [Desks -> Desk] /\ desk'[s] = d /\ \A q \in Desks : q # s => desk'[q] = desk[q]
      /\ \A q \in Desks : desk'[q].seen <= Len(log)
  BY <1>1, <1>2, <1>3, FormSits
<1> QED
  BY <1>2, <1>3, <1>4, SeenStays, DeskStepKeeps DEF Typed

LEMMA PostReplyKeeps == ASSUME Inv, NEW s \in Desks, PostReply(s) PROVE Inv'
<1> PICK m : m = Message("admin", s, "plain")
  OBVIOUS
<1> PICK d : d = [desk[s] EXCEPT !.at = "pause"]
  OBVIOUS
<1>1. /\ Typed /\ log \in Seq(Messages) /\ log' = Append(log, m) /\ Sits(s, d)
      /\ UNCHANGED <<lock, turn, thread, loose, dismissed>>
  BY DEF PostReply, Post, KeepThread, Inv, Typed
<1>2. m \in Messages /\ m.role = "admin"
  BY DEF Message, Messages
<1>3. Grown(m) /\ Len(log) \in Nat
  BY <1>1, <1>2, PostGrows, LogIs
<1>4. d \in Desk /\ d.seen = desk[s].seen /\ d.seen <= Len(log) /\ d.seen \in Nat
  BY <1>1, DeskIs DEF Desk
<1>5. /\ desk' \in [Desks -> Desk] /\ desk'[s] = d /\ \A q \in Desks : q # s => desk'[q] = desk[q]
      /\ \A q \in Desks : desk'[q].seen <= Len(log)
  BY <1>1, <1>4, FormSits
<1>6. \A q \in Desks : desk'[q].seen \in Nat
  BY <1>5 DEF Desk
<1>7. Typed'
  BY <1>1, <1>3, <1>5, <1>6 DEF Typed, Grown
<1>8. ASSUME NEW q \in Turns PROVE (RunsAlone(q) /\ Saved(q))'
  <2>1. /\ \A i \in DOMAIN log' : Said(i, q)' => i \in DOMAIN log /\ Said(i, q)
        /\ Asked(q)' => Asked(q)
        /\ Answered(q) => Answered(q)'
    BY <1>2, <1>3 DEF Said, Asked, Answered, Grown
  <2>2. Saved(q)'
    BY <1>1, <1>3, <2>1 DEF Inv, Saved, Grown
  <2> QED BY <1>1, <2>2 DEF Inv, RunsAlone
<1>9. ASSUME NEW q \in Desks PROVE DeskSound(q)'
  <2>1. CASE q = s
    <3>1. Len(log) + 1 \in DOMAIN log' /\ log'[Len(log) + 1].role = "admin" /\ Len(log) + 1 > desk'[s].seen
      BY <1>2, <1>3, <1>4, <1>5 DEF Grown
    <3> QED BY <2>1, <3>1 DEF DeskSound
  <2>2. CASE q # s
    BY <1>3, <1>5, <2>2 DEF Inv, DeskSound, Grown
  <2> QED BY <2>1, <2>2
<1>10. ASSUME NEW i \in DOMAIN log', WaitsForTeam(i)' PROVE i \in DOMAIN log /\ WaitsForTeam(i)
  BY <1>1, <1>2, <1>3, <1>10 DEF WaitsForTeam, Grown
<1>11. WaitingIsSeen'
  BY <1>1, <1>10 DEF Inv, WaitingIsSeen
<1> QED
  BY <1>7, <1>8, <1>9, <1>11 DEF Inv

(* A row saved from a copy: the flag it takes off was in the copy, and     *)
(* nobody wrote since, or it is loose.                                     *)
LEMMA SavedOver ==
  ASSUME Typed, NEW s, NEW row \in Thread, SaveThread(s, row)
  PROVE  /\ thread' = row /\ UNCHANGED <<lock, log, turn>> /\ thread' \in Thread /\ loose' \in BOOLEAN
         /\ loose => loose'
         /\ ~loose' /\ thread.needs /\ ~row.needs =>
              desk[s].row.needs /\ \A i \in DOMAIN log : i > desk[s].seen => log[i].role # "user"
BY DEF SaveThread, Typed, Thread

LEMMA SaveReplyKeeps == ASSUME Inv, NEW s \in Desks, SaveReply(s) PROVE Inv'
<1> PICK row : row = [paused |-> "live", needs |-> thread.needs /\ ~desk[s].row.needs]
  OBVIOUS
<1>1. Typed /\ desk[s].at = "pause" /\ SaveThread(s, row) /\ Leaves(s) /\ dismissed' = dismissed
  BY DEF Inv, SaveReply
<1>2. row \in Thread
  BY <1>1 DEF Typed, Thread
<1>3. /\ thread' = row /\ UNCHANGED <<lock, log, turn>> /\ thread' \in Thread /\ loose' \in BOOLEAN
      /\ loose => loose'
      /\ ~loose' /\ thread.needs /\ ~row.needs =>
           desk[s].row.needs /\ \A i \in DOMAIN log : i > desk[s].seen => log[i].role # "user"
  BY <1>1, <1>2, SavedOver
<1>4. /\ desk' \in [Desks -> Desk] /\ desk'[s].at = "ended" /\ \A q \in Desks : q # s => desk'[q] = desk[q]
      /\ \A q \in Desks : desk'[q].seen <= Len(log)
  BY <1>1, LeavesIs
<1>5. ASSUME ~loose', ~thread'.needs, NEW i \in DOMAIN log, WaitsForTeam(i)' PROVE FALSE
  <2>1. WaitsForTeam(i)
    BY <1>1, <1>3, <1>5 DEF WaitsForTeam
  <2>2. thread.needs
    BY <1>3, <1>5, <2>1 DEF Inv, WaitingIsSeen
  <2>3. log[i].role = "user" /\ ~(i > desk[s].seen)
    BY <1>3, <1>5, <2>1, <2>2 DEF WaitsForTeam
  <2>4. PICK j \in DOMAIN log : j > desk[s].seen /\ log[j].role = "admin"
    BY <1>1 DEF Inv, DeskSound
  <2>5. i \in Nat /\ j \in Nat /\ desk[s].seen \in Nat
    BY <1>1, LogIs, DeskIs DEF Typed, Desk
  <2>6. j > i
    BY <2>3, <2>4, <2>5
  <2> QED BY <2>1, <2>4, <2>6 DEF WaitsForTeam
<1>6. WaitingIsSeen'
  BY <1>3, <1>5 DEF WaitingIsSeen
<1>7. dismissed' \in 0 .. Len(log)
  BY <1>1 DEF Typed
<1> QED
  BY <1>3, <1>4, <1>6, <1>7, DeskStepKeeps

LEMMA SaveFormKeeps == ASSUME Inv, NEW s \in Desks, SaveForm(s) PROVE Inv'
<1> PICK row : row = Filled(s)
  OBVIOUS
<1>1. /\ Typed /\ SaveThread(s, row)
      /\ dismissed' = IF desk[s].form = "unflag" /\ desk[s].seen > dismissed THEN desk[s].seen ELSE dismissed
  BY DEF Inv, SaveForm
<1>2. desk[s] \in Desk /\ desk[s].seen <= Len(log) /\ desk[s].seen \in Nat /\ Len(log) \in Nat
  BY <1>1, DeskIs, LogIs DEF Desk, Typed
<1>3. row \in Thread /\ (~row.needs => desk[s].form = "unflag" \/ ~desk[s].row.needs)
  BY <1>2 DEF Filled, Desk, Thread
<1>4. /\ thread' = row /\ UNCHANGED <<lock, log, turn>> /\ thread' \in Thread /\ loose' \in BOOLEAN
      /\ loose => loose'
      /\ ~loose' /\ thread.needs /\ ~row.needs =>
           desk[s].row.needs /\ \A i \in DOMAIN log : i > desk[s].seen => log[i].role # "user"
  BY <1>1, <1>3, SavedOver
<1>5. /\ desk' \in [Desks -> Desk] /\ desk'[s].at # "pause" /\ \A q \in Desks : q # s => desk'[q] = desk[q]
      /\ \A q \in Desks : desk'[q].seen <= Len(log)
  <2> PICK d : d = [desk[s] EXCEPT !.at = "release"]
    OBVIOUS
  <2>1. d \in Desk /\ d.at = "release" /\ d.seen = desk[s].seen
    BY <1>2 DEF Desk
  <2>2. CASE Sits(s, d)
    BY <1>1, <1>2, <2>1, <2>2, FormSits
  <2>3. CASE Leaves(s)
    BY <1>1, <2>3, LeavesIs
  <2> QED BY <2>2, <2>3 DEF SaveForm
<1>6. dismissed' \in 0 .. Len(log) /\ dismissed <= dismissed' /\ dismissed \in Nat
      /\ (desk[s].form = "unflag" => desk[s].seen <= dismissed')
  BY <1>1, <1>2 DEF Typed
<1>7. ASSUME ~loose', ~thread'.needs, NEW i \in DOMAIN log, WaitsForTeam(i)' PROVE FALSE
  <2>1. i \in Nat /\ i > dismissed' /\ log[i].role = "user"
    BY <1>1, <1>4, <1>7, LogIs DEF WaitsForTeam, Typed
  <2>2. i > dismissed
    BY <1>6, <2>1
  <2>3. WaitsForTeam(i)
    BY <1>4, <1>7, <2>2 DEF WaitsForTeam
  <2>4. thread.needs
    BY <1>4, <1>7, <2>3 DEF Inv, WaitingIsSeen
  <2>5. desk[s].form = "unflag" /\ ~(i > desk[s].seen)
    BY <1>3, <1>4, <1>7, <2>1, <2>4
  <2> QED BY <1>2, <1>6, <2>1, <2>5
<1>8. WaitingIsSeen'
  BY <1>4, <1>7 DEF WaitingIsSeen
<1> QED
  BY <1>4, <1>5, <1>6, <1>8, DeskStepKeeps

LEMMA SaveReleaseKeeps == ASSUME Inv, NEW s \in Desks, SaveRelease(s) PROVE Inv'
<1> PICK row : row = [thread EXCEPT !.paused = "no"]
  OBVIOUS
<1>1. Typed /\ SaveThread(s, row) /\ Leaves(s) /\ dismissed' = dismissed
  BY DEF Inv, SaveRelease
<1>2. row \in Thread /\ row.needs = thread.needs
  BY <1>1 DEF Typed, Thread
<1>3. /\ thread' = row /\ UNCHANGED <<lock, log, turn>> /\ thread' \in Thread /\ loose' = loose
  <2>1. thread' = row /\ UNCHANGED <<lock, log, turn>> /\ loose' \in BOOLEAN /\ (loose => loose')
    BY <1>1, <1>2, SavedOver
  <2>2. loose' => loose
    BY <1>1, <1>2 DEF SaveThread
  <2> QED BY <1>1, <1>2, <2>1, <2>2 DEF Typed
<1>4. /\ desk' \in [Desks -> Desk] /\ desk'[s].at = "ended" /\ \A q \in Desks : q # s => desk'[q] = desk[q]
      /\ \A q \in Desks : desk'[q].seen <= Len(log)
  BY <1>1, LeavesIs
<1>5. WaitingIsSeen'
  BY <1>1, <1>2, <1>3, SeenStays
<1> QED
  BY <1>1, <1>3, <1>4, <1>5, DeskStepKeeps DEF Typed

LEMMA LapsedIs ==
  ASSUME NEW row \in Thread
  PROVE  Lapsed(row) \in Thread /\ Lapsed(row).needs = row.needs /\ (Lapsed(row).paused = "no" <=> row.paused = "no")
BY DEF Lapsed, Thread

LEMMA HandoffLapsesKeeps == ASSUME Inv, HandoffLapses PROVE Inv'
<1>1. /\ Typed /\ UNCHANGED <<lock, log, turn, loose, dismissed>> /\ thread' = Lapsed(thread)
      /\ desk' = [s \in Desks |-> [desk[s] EXCEPT !.row = Lapsed(@)]]
  BY DEF HandoffLapses, Inv
<1>2. thread' \in Thread /\ thread'.needs = thread.needs
  BY <1>1, LapsedIs DEF Typed
<1>3. ASSUME NEW s \in Desks
      PROVE  desk'[s] \in Desk /\ desk'[s].at = desk[s].at /\ desk'[s].seen = desk[s].seen
  <2>1. desk[s] \in Desk
    BY <1>1, DeskIs
  <2>2. Lapsed(desk[s].row) \in Thread
    BY <2>1, LapsedIs DEF Desk
  <2>3. desk'[s] = [desk[s] EXCEPT !.row = Lapsed(desk[s].row)]
    BY <1>1
  <2> QED BY <2>1, <2>2, <2>3 DEF Desk
<1>4. desk' \in [Desks -> Desk]
  BY <1>1, <1>3
<1>5. Typed'
  BY <1>1, <1>2, <1>3, <1>4 DEF Typed
<1>6. \A q \in Turns : (RunsAlone(q) /\ Saved(q))'
  BY <1>1 DEF Inv, RunsAlone, Saved, Said, Asked, Answered
<1>7. \A s \in Desks : DeskSound(s)'
  BY <1>1, <1>3 DEF Inv, DeskSound
<1>8. WaitingIsSeen'
  BY <1>1, <1>2, SeenStays
<1> QED
  BY <1>5, <1>6, <1>7, <1>8 DEF Inv

-----------------------------------------------------------------------------
LEMMA InitInv == Init => Inv
<1> SUFFICES ASSUME Init PROVE Inv
  OBVIOUS
<1>1. /\ lock = Nobody /\ thread = Fresh /\ log = <<>> /\ turn = [r \in Turns |-> Unasked]
      /\ desk = [s \in Desks |-> NoForm] /\ loose = FALSE /\ dismissed = 0
  BY DEF Init
<1>2. log \in Seq(Messages) /\ Len(log) = 0 /\ DOMAIN log = {}
  BY <1>1
<1>3. NoForm \in Desk /\ NoForm.seen = 0 /\ NoForm.at = "idle" /\ Unasked.at = "idle"
  BY DEF NoForm, Fresh, Desk, Thread, Unasked
<1>4. Typed
  <2>1. turn \in [Turns -> Turn] /\ desk \in [Desks -> Desk]
    BY <1>1, <1>3, UnaskedIs
  <2>2. \A s \in Desks : desk[s].seen <= Len(log)
    BY <1>1, <1>2, <1>3
  <2>3. log \in Seq(Messages) /\ dismissed \in 0 .. Len(log)
    BY <1>1, <1>2
  <2>4. lock \in Turns \cup {Nobody} /\ thread \in Thread /\ loose \in BOOLEAN
    BY <1>1, UnaskedIs
  <2> QED BY <2>1, <2>2, <2>3, <2>4 DEF Typed
<1> QED
  BY <1>1, <1>2, <1>3, <1>4 DEF Inv, RunsAlone, Running, Saved, DeskSound, WaitingIsSeen

LEMMA NextInv == ASSUME Inv, [Next]_vars PROVE Inv'
<1>1. CASE UNCHANGED vars
  BY <1>1 DEF vars, Inv, Typed, RunsAlone, Saved, Said, Asked, Answered, DeskSound, WaitingIsSeen, WaitsForTeam
<1>2. ASSUME NEW r \in Turns, BeginTurn(r) \/ TurnStep(r) \/ Die(r) PROVE Inv'
  BY <1>2, BeginTurnKeeps, QuestionKeeps, FlagHeldKeeps, RoundKeeps, FinalizeKeeps, AnswerKeeps,
     ReleaseTurnKeeps, DieKeeps DEF TurnStep
<1>3. ASSUME NEW s \in Desks, OpenThread(s) \/ DeskStep(s) PROVE Inv'
  BY <1>3, OpenThreadKeeps, PostReplyKeeps, SaveReplyKeeps, SaveFormKeeps, SaveReleaseKeeps DEF DeskStep
<1> QED
  BY <1>1, <1>2, <1>3, LockLapsesKeeps, HandoffLapsesKeeps DEF Next, Events

LEMMA Always == Spec => []Inv
BY InitInv, NextInv, PTL DEF Spec

(* One question of an account at a time, and a customer who waits for the  *)
(* team is seen unless the flag was saved from an older copy (ChatView,    *)
(* AdminConversationPatchView, AdminReplyView).                            *)
THEOREM ThreadIsSound == Spec => []ThreadSound
<1>1. Inv => ThreadSound
  <2> SUFFICES ASSUME Inv PROVE ThreadSound
    OBVIOUS
  <2>1. Typed /\ log \in Seq(Messages) /\ WaitingIsSeen
    BY DEF Inv, Typed
  <2>2. ChatTypeOK
    <3>1. \A i \in DOMAIN log : log[i].by \in IF log[i].role = "admin" THEN Desks ELSE Turns
      BY <2>1, ElementOfSeq DEF Messages
    <3>2. \A r \in Turns : turn[r].round \in 0 .. MaxRounds /\ turn[r].reason \in Reasons
      BY <2>1, TurnIs DEF Turn
    <3>3. \A s \in Desks : desk[s].form \in Forms \cup {"none"} /\ desk[s].seen \in 0 .. Len(log)
      BY <2>1, DeskIs, LogIs DEF Desk
    <3> QED BY <2>1, <3>1, <3>2, <3>3 DEF ChatTypeOK, Typed, Thread
  <2>3. ASSUME NEW r \in Turns, Pending(r) PROVE lock = r
    <3>1. RunsAlone(r) /\ Saved(r) /\ turn[r].at \in At
      BY <2>1, TurnIs DEF Inv
    <3>2. Asked(r) /\ ~Answered(r) /\ turn[r].at # "dead"
      BY <2>3 DEF Pending
    <3>3. turn[r].at \notin {"idle", "read", "done", "ended"}
      BY <3>1, <3>2 DEF Saved, Asked, Said
    <3> QED BY <3>1, <3>2, <3>3 DEF RunsAlone, Running, At
  <2> QED BY <2>1, <2>2, <2>3 DEF ThreadSound, OneQuestionAtATime
<1> QED
  BY <1>1, Always, PTL

(* The assistant's own troubles raise no flag (_finalize_turn), and no     *)
(* request of the customer ends the silence of the assistant (pause_ai).   *)
THEOREM HandoffIsMeant == Spec => HandoffMeans
<1>1. ASSUME Inv, [Next]_vars
      PROVE  [~thread.needs /\ thread'.needs =>
                \A r \in Turns : turn'[r].at = "answering" /\ turn[r].at = "settling"
                                   => turn[r].reason \notin Failures]_vars
  <2> SUFFICES ASSUME Next, ~thread.needs, thread'.needs, NEW r \in Turns,
                      turn'[r].at = "answering", turn[r].at = "settling"
               PROVE  turn[r].reason \notin Failures
    BY <1>1
  <2>0. turn # turn'
    OBVIOUS
  <2>1. turn # turn' /\ Typed
    BY <1>1, <2>0 DEF Inv
  <2>2. PICK q \in Turns : BeginTurn(q) \/ TurnStep(q) \/ Die(q)
    BY <2>1 DEF Next, Events, OpenThread, DeskStep, PostReply, SaveReply, SaveForm, SaveRelease, SaveThread,
       LockLapses, HandoffLapses
  <2>3. Finalize(q) \/ FlagHeld(q)
    BY <2>2 DEF BeginTurn, TurnStep, Die, PostHeld, PostQuestion, Round, CompletionFails, Thinks, Answer,
       ReleaseTurn, KeepThread
  <2>4. \E t : Goes(q, t) /\ turn[q].at = IF Finalize(q) THEN "settling" ELSE "held"
    BY <2>3 DEF Finalize, Moves, FlagHeld
  <2>5. q = r
    BY <2>1, <2>3, <2>4 DEF Typed, Goes
  <2>6. Escalate(r) /\ thread' # thread
    BY <2>3, <2>5 DEF FlagHeld, Finalize
  <2>7. turn[r].reason = "customer_asked"
    BY <2>6 DEF Escalate
  <2> QED BY <2>7 DEF Failures
<1>2. ASSUME Inv, [Next]_vars
      PROVE  [thread.paused # "no" /\ thread'.paused = "no" =>
                \E s \in Desks : \/ desk[s].at = "release"
                                 \/ desk[s].at = "form" /\ desk[s].row.paused = "no"]_vars
  <2> SUFFICES ASSUME Next, thread.paused # "no", thread'.paused = "no"
               PROVE  \E s \in Desks : \/ desk[s].at = "release"
                                       \/ desk[s].at = "form" /\ desk[s].row.paused = "no"
    BY <1>2
  <2>1. Typed /\ thread' # thread
    BY <1>2 DEF Inv
  <2>2. ASSUME NEW r \in Turns, BeginTurn(r) \/ TurnStep(r) \/ Die(r) PROVE FALSE
    <3>1. Flag(r, thread)
      BY <2>1, <2>2 DEF BeginTurn, TurnStep, Die, PostHeld, PostQuestion, Round, CompletionFails, Thinks, Answer,
         ReleaseTurn, KeepThread, Finalize, Escalate, FlagHeld
    <3> QED BY <2>1, <3>1, FlagIs
  <2>3. ASSUME HandoffLapses PROVE FALSE
    BY <2>1, <2>3, LapsedIs DEF HandoffLapses, Typed
  <2>4. PICK s \in Desks : SaveReply(s) \/ SaveForm(s) \/ SaveRelease(s)
    BY <2>1, <2>2, <2>3 DEF Next, Events, OpenThread, DeskStep, PostReply, LockLapses, KeepThread
  <2>5. CASE SaveReply(s)
    BY <2>5 DEF SaveReply, SaveThread
  <2>6. CASE SaveForm(s)
    <3>1. desk[s] \in Desk /\ thread' = Filled(s) /\ desk[s].at = "form"
      BY <2>1, <2>6, DeskIs DEF SaveForm, SaveThread
    <3>2. Filled(s).paused = desk[s].row.paused
      BY <3>1 DEF Filled, Desk, Thread
    <3> QED BY <3>1, <3>2
  <2>7. CASE SaveRelease(s)
    BY <2>7 DEF SaveRelease
  <2> QED BY <2>4, <2>5, <2>6, <2>7
<1>3. Spec => TroubleRaisesNoFlag
  BY <1>1, Always, PTL DEF Spec, TroubleRaisesNoFlag
<1>4. Spec => PauseKept
  BY <1>2, Always, PTL DEF Spec, PauseKept
<1> QED
  BY <1>3, <1>4, PTL DEF HandoffMeans
-----------------------------------------------------------------------------
(***************************************************************************)
(* What the shop shows (Discovery), for any catalogue, words, likenesses   *)
(* and number of changes.  What is inductive: the product row mirrors its  *)
(* default size (Mirrored); everything cached is made of entries; a thread *)
(* that asks has a name to ask for.  The first part is of the pure         *)
(* functions of ShopTools and Search: a card, the highest k of a ranking,  *)
(* the personal row, the scores.                                           *)
(***************************************************************************)
Mirrored(shop) ==
  Actives(shop) # {} =>
    LET v == SizeOf(shop, TheProduct)
    IN shop.shown = [stock |-> shop.size[v].stock, price |-> shop.size[v].price]

LEMMA SizesAreItems ==
  /\ TheProduct \in Items /\ TheCombo \in Items /\ TheProduct # TheCombo
  /\ Sizes \subseteq Items /\ TheProduct \notin Sizes /\ TheCombo \notin Sizes
BY ShopAssumption DEF Items, TheProduct, TheCombo

LEMMA SizeOfIs ==
  ASSUME NEW shop, NEW item \in Items
  PROVE  /\ SizeOf(shop, item) \in Items
         /\ item # TheProduct \/ Actives(shop) = {} => SizeOf(shop, item) = item
         /\ item = TheProduct /\ Actives(shop) # {} => SizeOf(shop, item) \in Actives(shop)
<1>1. Actives(shop) \in SUBSET Nat /\ Actives(shop) \subseteq Sizes
  BY ShopAssumption DEF Actives
<1>2. CASE item # TheProduct \/ Actives(shop) = {}
  BY <1>2 DEF SizeOf
<1>3. CASE item = TheProduct /\ Actives(shop) # {}
  <2>1. \E v \in Actives(shop) : \A w \in Actives(shop) : v <= w
    BY <1>1, <1>3, Least
  <2>2. SizeOf(shop, item) \in Actives(shop)
    BY <1>3, <2>1 DEF SizeOf
  <2> QED BY <1>1, <1>3, <2>2, SizesAreItems
<1> QED BY <1>2, <1>3

LEMMA MirrorMirrors ==
  ASSUME NEW shop \in Shops
  PROVE  /\ Mirror(shop) \in Shops /\ Mirrored(Mirror(shop))
         /\ Mirror(shop).listed = shop.listed /\ Mirror(shop).combo = shop.combo
<1> DEFINE v == SizeOf(shop, TheProduct)
           m == Mirror(shop)
<1>1. CASE Actives(shop) = {}
  <2>1. v = TheProduct
    BY <1>1, SizeOfIs, SizesAreItems
  <2> QED BY <1>1, <2>1 DEF Mirror, Mirrored
<1>2. CASE Actives(shop) # {}
  <2>1. v \in Actives(shop) /\ v \in Sizes /\ v # TheProduct
    BY <1>2, SizeOfIs, SizesAreItems DEF Actives
  <2>2. m = [shop EXCEPT !.shown = [stock |-> shop.size[v].stock, price |-> shop.size[v].price]]
    BY <2>1 DEF Mirror
  <2>3. shop.size[v] \in [active : BOOLEAN, stock : 0 .. MaxStock, price : Prices]
    BY <2>1 DEF Shops
  <2>4. m \in Shops /\ m.size = shop.size /\ m.listed = shop.listed /\ m.combo = shop.combo
        /\ m.shown = [stock |-> shop.size[v].stock, price |-> shop.size[v].price]
    BY <2>2, <2>3 DEF Shops, Shown
  <2>5. SizeOf(m, TheProduct) = v
    BY <2>4 DEF SizeOf, Actives
  <2> QED BY <2>4, <2>5 DEF Mirrored
<1> QED BY <1>1, <1>2

LEMMA ProposedAsShown ==
  ASSUME cat.shop \in Shops, Mirrored(cat.shop)
  PROVE  ShownCanBeProposed
<1> DEFINE shop == cat.shop
<1> SUFFICES ASSUME NEW r \in SearchTool(shop) \cup BrowseTool(shop, TRUE) \cup BrowseTool(shop, FALSE) \cup DetailsTool(shop),
                    r.inStock
             PROVE  LET c == BuildAddToCart(shop, [item |-> r.item, qty |-> 1])
                    IN c # NoCard /\ c.lines[1].price = r.price
  BY DEF ShownCanBeProposed
<1>1. \/ r = Row(TheCombo, ComboPrice, TRUE) /\ shop.combo
      \/ r = Row(TheProduct, shop.shown.price, shop.shown.stock > 0) /\ shop.listed
      \/ \E v \in Actives(shop) : r = Row(v, shop.size[v].price, shop.size[v].stock > 0) /\ shop.listed
  BY DEF SearchTool, BrowseTool, DetailsTool, ComboRow, ProductRow
<1>2. /\ r.item \in Items /\ OnSale(shop, r.item) /\ StockOk(shop, r.item) /\ PriceOf(shop, r.item) = r.price
  <2>1. CASE r = Row(TheCombo, ComboPrice, TRUE) /\ shop.combo
    BY <2>1, SizesAreItems DEF Row, OnSale, StockOk, PriceOf
  <2>2. CASE r = Row(TheProduct, shop.shown.price, shop.shown.stock > 0) /\ shop.listed
    <3>1. r.item = TheProduct /\ r.price = shop.shown.price /\ shop.shown.stock > 0
      BY <2>2 DEF Row
    <3>2. Priced(shop, SizeOf(shop, TheProduct)).stock = shop.shown.stock
          /\ Priced(shop, SizeOf(shop, TheProduct)).price = shop.shown.price
      <4>1. CASE Actives(shop) = {}
        BY <4>1, SizeOfIs, SizesAreItems DEF Priced
      <4>2. CASE Actives(shop) # {}
        <5>1. SizeOf(shop, TheProduct) \in Sizes
          BY <4>2, SizeOfIs, SizesAreItems DEF Actives
        <5> QED BY <4>2, <5>1 DEF Priced, Mirrored
      <4> QED BY <4>1, <4>2
    <3> QED BY <2>2, <3>1, <3>2, SizesAreItems DEF OnSale, StockOk, PriceOf
  <2>3. ASSUME NEW v \in Actives(shop), r = Row(v, shop.size[v].price, shop.size[v].stock > 0), shop.listed
        PROVE  r.item \in Items /\ OnSale(shop, r.item) /\ StockOk(shop, r.item) /\ PriceOf(shop, r.item) = r.price
    <3>1. r.item = v /\ r.price = shop.size[v].price /\ shop.size[v].stock > 0
      BY <2>3 DEF Row
    <3>2. v \in Sizes /\ v \in Items /\ v # TheProduct /\ v # TheCombo
      BY SizesAreItems DEF Actives
    <3>3. SizeOf(shop, v) = v
      BY <3>2, SizeOfIs
    <3> QED BY <2>3, <3>1, <3>2, <3>3 DEF OnSale, StockOk, PriceOf, Priced
  <2> QED BY <1>1, <2>1, <2>2, <2>3
<1>3. BuildAddToCart(shop, [item |-> r.item, qty |-> 1])
        = [type |-> "add_to_cart", lines |-> <<Line(shop, [item |-> r.item, qty |-> 1], 1)>>]
  BY <1>2 DEF BuildAddToCart
<1>4. Line(shop, [item |-> r.item, qty |-> 1], 1).price = r.price
  BY <1>2 DEF Line
<1> QED BY <1>3, <1>4 DEF NoCard

CardLine == [item : Items, qty : 0 .. MaxPropose, price : Nat]
CardTypes == {"none", "add_to_cart", "cart_proposal", "edit_cart"}
CardRows  == [type : CardTypes, lines : Seq(CardLine)]

LEMMA PricedIs ==
  ASSUME NEW shop \in Shops, NEW item
  PROVE  Priced(shop, item).stock \in 0 .. MaxStock /\ Priced(shop, item).price \in Prices
BY DEF Priced, Shops, Shown

LEMMA LineIs ==
  ASSUME NEW shop \in Shops, NEW ask \in Asks, NEW least \in {0, 1}
  PROVE  Line(shop, ask, least) \in CardLine
<1>1. ask.item \in Items /\ ask.qty \in Int
  BY DiscoveryAssumption
<1>2. SizeOf(shop, ask.item) \in Items
  BY <1>1, SizeOfIs
<1>3. Clamp(ask.qty, least) \in 0 .. MaxPropose
  BY <1>1, ShopAssumption DEF Clamp
<1>4. PriceOf(shop, ask.item) \in Nat
  BY PricedIs, ShopAssumption DEF PriceOf, ComboPrice
<1> QED BY <1>2, <1>3, <1>4 DEF Line, CardLine

LEMMA TableIsSeq ==
  ASSUME NEW S, NEW n \in Nat, NEW f \in [1 .. n -> S]
  PROVE  f \in Seq(S)
OBVIOUS

LEMMA BuiltCards ==
  ASSUME NEW shop \in Shops, NEW a \in Asks, NEW b \in Asks
  PROVE  /\ BuildAddToCart(shop, a) \in CardRows
         /\ BuildCartProposal(shop, <<a, b>>) \in CardRows
         /\ BuildEditCart(shop, <<a, b>>) \in CardRows
<1>1. NoCard \in CardRows
  <2>1. <<>> \in Seq(CardLine)
    BY EmptySeq
  <2> QED BY <2>1 DEF NoCard, CardRows, CardTypes
<1>2. Line(shop, a, 1) \in CardLine
  BY LineIs
<1>3. <<Line(shop, a, 1)>> \in Seq(CardLine)
  BY <1>2
<1>4. ASSUME NEW least \in {0, 1} PROVE Lines(shop, <<a, b>>, least) \in Seq(CardLine)
  <2>1. Line(shop, a, least) \in CardLine /\ Line(shop, b, least) \in CardLine
    BY LineIs
  <2>2. /\ DOMAIN <<a, b>> = 1 .. 2 /\ <<a, b>>[1] = a /\ <<a, b>>[2] = b
        /\ \A i \in 1 .. 2 : i = 1 \/ i = 2
    OBVIOUS
  <2>3. Lines(shop, <<a, b>>, least) = [i \in 1 .. 2 |-> Line(shop, <<a, b>>[i], least)]
    BY <2>2 DEF Lines
  <2>4. \A i \in 1 .. 2 : Line(shop, <<a, b>>[i], least) \in CardLine
    BY <2>1, <2>2
  <2>5. [i \in 1 .. 2 |-> Line(shop, <<a, b>>[i], least)] \in Seq(CardLine)
    <3> DEFINE f == [i \in 1 .. 2 |-> Line(shop, <<a, b>>[i], least)]
    <3>1. f \in [1 .. 2 -> CardLine]
      BY <2>4
    <3> HIDE DEF f
    <3>2. 2 \in Nat
      OBVIOUS
    <3>3. f \in Seq(CardLine)
      BY <3>1, <3>2, TableIsSeq
    <3> QED BY <3>3 DEF f
  <2> QED BY <2>3, <2>5
<1>5. \A lines \in Seq(CardLine) : \A type \in CardTypes : [type |-> type, lines |-> lines] \in CardRows
  BY DEF CardRows
<1>6. BuildAddToCart(shop, a) \in CardRows
  BY <1>1, <1>3, <1>5 DEF BuildAddToCart, CardTypes
<1>7. BuildCartProposal(shop, <<a, b>>) \in CardRows
  <2>1. [type |-> "cart_proposal", lines |-> Lines(shop, <<a, b>>, 1)] \in CardRows
    BY <1>4, <1>5 DEF CardTypes
  <2> QED BY <1>1, <2>1 DEF BuildCartProposal
<1>8. BuildEditCart(shop, <<a, b>>) \in CardRows
  <2>1. [type |-> "edit_cart", lines |-> Lines(shop, <<a, b>>, 0)] \in CardRows
    BY <1>4, <1>5 DEF CardTypes
  <2> QED BY <1>1, <2>1 DEF BuildEditCart
<1> QED BY <1>6, <1>7, <1>8

Bounded(c) == \A i \in Items : i # TheCombo => c[i] <= MaxStock

LEMMA HeldIsBounded ==
  ASSUME NEW shop \in Shops, NEW item \in Items, NEW q \in Nat, Holds(shop, item, q), item # TheCombo
  PROVE  q <= MaxStock
BY PricedIs, ShopAssumption DEF Holds

LEMMA AddIs ==
  ASSUME NEW shop \in Shops, NEW c \in [Items -> Nat], NEW l \in CardLine
  PROVE  /\ AddItem(shop, c, l) \in [Items -> Nat]
         /\ \A i \in Items : \/ AddItem(shop, c, l)[i] = c[i]
                             \/ OnSale(shop, i) /\ Holds(shop, i, AddItem(shop, c, l)[i])
<1> DEFINE v == SizeOf(shop, l.item)
<1>1. v \in Items /\ l.qty \in Nat
  BY SizeOfIs, ShopAssumption DEF CardLine
<1>2. c[v] + l.qty \in Nat
  BY <1>1
<1>3. AddItem(shop, c, l) = IF Holds(shop, v, c[v] + l.qty) THEN [c EXCEPT ![v] = c[v] + l.qty] ELSE c
  BY DEF AddItem
<1>4. Holds(shop, v, c[v] + l.qty) => OnSale(shop, v)
  BY DEF Holds
<1> HIDE DEF v
<1> QED BY <1>1, <1>2, <1>3, <1>4

(* The line found is the one asked for, or that of the size it means.      *)
LEMMA UpdateIs ==
  ASSUME NEW shop \in Shops, NEW c \in [Items -> Nat], NEW l \in CardLine
  PROVE  /\ UpdateItem(shop, c, l) \in [Items -> Nat]
         /\ \A i \in Items : \/ UpdateItem(shop, c, l)[i] = c[i]
                             \/ UpdateItem(shop, c, l)[i] = 0
                             \/ OnSale(shop, i) /\ Holds(shop, i, UpdateItem(shop, c, l)[i])
<1> DEFINE v == SizeOf(shop, l.item)
           f == Found(shop, c, l.item)
<1>1. l.item \in Items /\ v \in Items /\ l.qty \in Nat
  BY SizeOfIs, ShopAssumption DEF CardLine
<1>2. f \in Items /\ (f = l.item \/ f = v)
  BY <1>1 DEF Found
<1>3. ASSUME OnSale(shop, l.item), Holds(shop, l.item, l.qty)
      PROVE  OnSale(shop, f) /\ Holds(shop, f, l.qty)
  <2>1. CASE f = l.item
    BY <1>3, <2>1
  <2>2. CASE f # l.item
    <3>1. f = v /\ v # l.item
      BY <1>2, <2>2
    <3>2. l.item = TheProduct /\ Actives(shop) # {} /\ v \in Actives(shop)
      BY <1>1, <3>1, SizeOfIs
    <3>3. v \in Sizes /\ v # TheProduct /\ v # TheCombo /\ l.item # TheCombo
      BY <3>2, SizesAreItems DEF Actives
    <3>4. SizeOf(shop, v) = v
      BY <1>1, <3>3, SizeOfIs
    <3>5. shop.listed
      BY <1>3, <3>2, SizesAreItems DEF OnSale, Actives
    <3>6. OnSale(shop, v)
      BY <3>2, <3>5 DEF OnSale
    <3>7. Holds(shop, v, l.qty)
      BY <1>3, <3>3, <3>4, <3>6 DEF Holds
    <3> QED BY <3>1, <3>6, <3>7
  <2> QED BY <2>1, <2>2
<1>4. UpdateItem(shop, c, l) =
        IF /\ OnSale(shop, l.item) /\ c[f] > 0 /\ (l.qty = 0 \/ Holds(shop, l.item, l.qty))
          THEN [c EXCEPT ![f] = l.qty] ELSE c
  BY DEF UpdateItem
<1> HIDE DEF v, f
<1>5. CASE UpdateItem(shop, c, l) = c
  BY <1>5
<1>6. CASE /\ OnSale(shop, l.item) /\ (l.qty = 0 \/ Holds(shop, l.item, l.qty))
           /\ UpdateItem(shop, c, l) = [c EXCEPT ![f] = l.qty]
  <2>1. l.qty = 0 \/ (OnSale(shop, f) /\ Holds(shop, f, l.qty))
    BY <1>3, <1>6
  <2> QED BY <1>1, <1>2, <1>6, <2>1
<1> QED BY <1>4, <1>5, <1>6

Pairs(ranked)   == IsFiniteSet(ranked) /\ ranked \subseteq Int \X Int
Ahead(u, v)     == u[1] > v[1] \/ (u[1] = v[1] /\ u[2] < v[2])
Lesser(m, n)    == IF m < n THEN m ELSE n

LEMMA TopIs ==
  ASSUME NEW ranked, Pairs(ranked), NEW k \in Nat
  PROVE  /\ Top(ranked, k) \subseteq ranked /\ Pairs(Top(ranked, k))
         /\ Cardinality(Top(ranked, k)) = Lesser(k, Cardinality(ranked))
         /\ \A v \in Top(ranked, k), u \in ranked \ Top(ranked, k) : u[1] <= v[1]
<1> DEFINE R == {p \in ranked \X ranked : Ahead(p[1], p[2])}
           B(v) == Below(R, ranked, v)
<1>1. \A u, v \in ranked : <<u, v>> \in R <=> Ahead(u, v)
  OBVIOUS
<1>2. \A v \in ranked : v[1] \in Int /\ v[2] \in Int /\ v = <<v[1], v[2]>>
  BY DEF Pairs
<1>3. StrictOrder(R, ranked)
  <2> HIDE DEF R
  <2>1. \A u \in ranked : ~Ahead(u, u)
    BY <1>2 DEF Ahead
  <2>2. \A u, v, w \in ranked : Ahead(u, v) /\ Ahead(v, w) => Ahead(u, w)
    BY <1>2 DEF Ahead
  <2>3. ASSUME NEW u \in ranked, NEW v \in ranked, u # v PROVE Ahead(u, v) \/ Ahead(v, u)
    <3>1. u[1] # v[1] \/ u[2] # v[2]
      BY <1>2, <2>3
    <3> QED BY <1>2, <3>1 DEF Ahead
  <2> QED BY <1>1, <2>1, <2>2, <2>3 DEF StrictOrder
<1>4. Top(ranked, k) = {v \in ranked : Cardinality(B(v)) < k}
  <2>1. \A v \in ranked : B(v) = {u \in ranked : u[1] > v[1] \/ (u[1] = v[1] /\ u[2] < v[2])}
    <3> HIDE DEF R
    <3> QED BY <1>1 DEF Below, Ahead
  <2> HIDE DEF B
  <2> QED BY <2>1 DEF Top
<1>5. Cardinality(Top(ranked, k)) = Lesser(k, Cardinality(ranked))
  <2> HIDE DEF R
  <2>1. IsFiniteSet(ranked)
    BY DEF Pairs
  <2> QED BY <1>3, <1>4, <2>1, FirstFew DEF Lesser
<1>6. Top(ranked, k) \in SUBSET ranked /\ IsFiniteSet(ranked)
  BY <1>4 DEF Pairs
<1>7. ASSUME NEW v \in Top(ranked, k), NEW u \in ranked \ Top(ranked, k), ~(u[1] <= v[1]) PROVE FALSE
  <2>1. v \in ranked /\ u \in ranked /\ u[1] > v[1]
    BY <1>2, <1>6, <1>7
  <2>2. B(u) \subseteq B(v)
    <3> SUFFICES ASSUME NEW w \in ranked, <<w, u>> \in R PROVE <<w, v>> \in R
      BY DEF Below
    <3>1. Ahead(w, u)
      BY <1>1, <2>1
    <3>2. Ahead(w, v)
      BY <1>2, <2>1, <3>1 DEF Ahead
    <3> QED BY <1>1, <2>1, <3>2
  <2> HIDE DEF R
  <2>3. IsFiniteSet(B(v)) /\ IsFiniteSet(B(u))
    <3>1. B(v) \in SUBSET ranked /\ B(u) \in SUBSET ranked
      BY DEF Below
    <3> QED BY <1>6, <3>1, FS_Subset
  <2> HIDE DEF B
  <2>4. Cardinality(B(u)) <= Cardinality(B(v)) /\ Cardinality(B(u)) \in Nat /\ Cardinality(B(v)) \in Nat
    BY <2>2, <2>3, FS_Subset, FS_CardinalityType
  <2>5. Cardinality(B(v)) < k /\ ~(Cardinality(B(u)) < k)
    BY <1>4, <1>7, <2>1
  <2> QED BY <2>4, <2>5
<1> QED BY <1>5, <1>6, <1>7, FS_Subset DEF Pairs

(* Of the items of a ranking in which each has one value.                  *)
LEMMA ListedIs ==
  ASSUME NEW ranked, Pairs(ranked), \A u, v \in ranked : u[2] = v[2] => u = v
  PROVE  IsFiniteSet(Listed(ranked)) /\ Cardinality(Listed(ranked)) = Cardinality(ranked)
<1> DEFINE f == [v \in ranked |-> v[2]]
<1>1. f \in Bijection(ranked, Listed(ranked))
  <2>1. f \in [ranked -> Listed(ranked)]
    BY DEF Listed
  <2>2. \A u, v \in ranked : f[u] = f[v] => u = v
    OBVIOUS
  <2>3. \A i \in Listed(ranked) : \E v \in ranked : f[v] = i
    BY DEF Listed
  <2> HIDE DEF f
  <2> QED BY <2>1, <2>2, <2>3 DEF Bijection, Injection, Surjection, IsInjective
<1> HIDE DEF f
<1> QED BY <1>1, FS_Bijection DEF ExistsBijection, Pairs

(* Values given by a function of the items.                                *)
LEMMA ValuesAre ==
  ASSUME NEW S, IsFiniteSet(S), S \subseteq Int, NEW f, \A x \in S : f[x] \in Int
  PROVE  LET ranked == {<<f[x], x>> : x \in S}
         IN  /\ Pairs(ranked) /\ Cardinality(ranked) = Cardinality(S) /\ Listed(ranked) = S
             /\ \A u, v \in ranked : u[2] = v[2] => u = v
<1> DEFINE ranked == {<<f[x], x>> : x \in S}
           g == [x \in S |-> <<f[x], x>>]
<1>1. g \in Bijection(S, ranked)
  <2>1. g \in [S -> ranked]
    OBVIOUS
  <2>2. \A x, y \in S : g[x] = g[y] => x = y
    OBVIOUS
  <2>3. \A v \in ranked : \E x \in S : g[x] = v
    OBVIOUS
  <2> HIDE DEF g, ranked
  <2> QED BY <2>1, <2>2, <2>3 DEF Bijection, Injection, Surjection, IsInjective
<1>2. IsFiniteSet(ranked) /\ Cardinality(ranked) = Cardinality(S)
  <2> HIDE DEF g, ranked
  <2> QED BY <1>1, FS_Bijection DEF ExistsBijection
<1>3. ranked \subseteq Int \X Int
  <2>1. \A x \in S : <<f[x], x>> \in Int \X Int
    <3>1. \A a, b \in Int : <<a, b>> \in Int \X Int
      OBVIOUS
    <3>2. \A x \in S : x \in Int
      OBVIOUS
    <3> QED BY <3>1, <3>2
  <2> QED BY ONLY <2>1
<1>4. \A u, v \in ranked : u[2] = v[2] => u = v
  OBVIOUS
<1>5. Listed(ranked) = S
  <2>1. \A x \in S : <<f[x], x>> \in ranked /\ <<f[x], x>>[2] = x
    OBVIOUS
  <2>2. \A v \in ranked : v[2] \in S
    OBVIOUS
  <2> HIDE DEF ranked
  <2> QED BY <2>1, <2>2 DEF Listed
<1> HIDE DEF ranked
<1>6. Pairs(ranked)
  BY <1>2, <1>3 DEF Pairs
<1> QED BY <1>2, <1>4, <1>5, <1>6 DEF ranked

(* The items of the best k of a ranking, or of all of it.                  *)
LEMMA BestAre ==
  ASSUME NEW ranked, Pairs(ranked), \A u, v \in ranked : u[2] = v[2] => u = v, NEW k \in Nat
  PROVE  LET best == Listed(Top(ranked, k))
         IN  /\ best \subseteq Listed(ranked) /\ IsFiniteSet(best)
             /\ Cardinality(best) = Lesser(k, Cardinality(ranked))
<1> DEFINE top == Top(ranked, k)
<1>1. top \subseteq ranked /\ Pairs(top) /\ Cardinality(top) = Lesser(k, Cardinality(ranked))
  BY TopIs
<1> HIDE DEF top
<1>2. \A u, v \in top : u[2] = v[2] => u = v
  BY <1>1
<1>3. IsFiniteSet(Listed(top)) /\ Cardinality(Listed(top)) = Cardinality(top)
  BY <1>1, <1>2, ListedIs
<1>4. Listed(top) \subseteq Listed(ranked)
  BY <1>1 DEF Listed
<1> QED BY <1>1, <1>3, <1>4 DEF top

LEMMA SomeIs ==
  ASSUME NEW S, IsFiniteSet(S), S \subseteq Int, NEW k \in Nat
  PROVE  /\ Some(S, k) \subseteq S /\ IsFiniteSet(Some(S, k))
         /\ Cardinality(Some(S, k)) = Lesser(k, Cardinality(S))
<1> DEFINE zero == [x \in S |-> 0]
           ranked == {<<zero[x], x>> : x \in S}
<1>1. ranked = {<<0, t>> : t \in S}
  OBVIOUS
<1>2. \A x \in S : zero[x] \in Int
  OBVIOUS
<1>3. IsFiniteSet(S) /\ S \subseteq Int
  OBVIOUS
<1> HIDE DEF zero
<1>4. /\ Pairs(ranked) /\ Cardinality(ranked) = Cardinality(S) /\ Listed(ranked) = S
      /\ \A u, v \in ranked : u[2] = v[2] => u = v
  BY ONLY <1>2, <1>3, ValuesAre
<1> HIDE DEF ranked
<1>5. Some(S, k) = Listed(Top(ranked, k))
  BY <1>1 DEF Some
<1> QED BY <1>4, <1>5, BestAre

LEMMA TwoParts ==
  ASSUME NEW A, NEW B, IsFiniteSet(A), IsFiniteSet(B), A \cap B = {}
  PROVE  IsFiniteSet(A \cup B) /\ Cardinality(A \cup B) = Cardinality(A) + Cardinality(B)
<1>1. /\ IsFiniteSet(A \cup B)
      /\ Cardinality(A \cup B) = Cardinality(A) + Cardinality(B) - Cardinality(A \cap B)
  BY FS_Union
<1>2. Cardinality(A \cap B) = 0 /\ Cardinality(A) \in Nat /\ Cardinality(B) \in Nat
  BY FS_EmptySet, FS_CardinalityType
<1> QED BY <1>1, <1>2

LEMMA LiveOnes ==
  ASSUME NEW c
  PROVE  /\ LiveProducts(c) \subseteq Products /\ Products \subseteq Nat /\ IsFiniteSet(Products)
         /\ IsFiniteSet(LiveProducts(c)) /\ Cardinality(LiveProducts(c)) \in Nat
<1>1. Products \subseteq Nat /\ IsFiniteSet(Products)
  BY SearchAssumption, FS_AddElement DEF Products, TheProduct
<1>2. LiveProducts(c) \in SUBSET Products
  BY DEF LiveProducts
<1> QED BY <1>1, <1>2, FS_Subset, FS_CardinalityType

(* Featured ones first, and as many as asked for, or all.                  *)
LEMMA FallbackIs ==
  ASSUME NEW c, NEW n \in Nat
  PROVE  /\ Fallback(c, n) \subseteq LiveProducts(c) /\ IsFiniteSet(Fallback(c, n))
         /\ Cardinality(Fallback(c, n)) = Lesser(n, Cardinality(LiveProducts(c)))
<1> DEFINE live == LiveProducts(c)
           featured == Some(live \cap Featured, n)
           rest == Some(live \ featured, n - Cardinality(featured))
<1>1. IsFiniteSet(live) /\ live \subseteq Int /\ Cardinality(live) \in Nat
  BY LiveOnes
<1> HIDE DEF live
<1>2. /\ IsFiniteSet(live \cap Featured) /\ live \cap Featured \subseteq Int
      /\ Cardinality(live \cap Featured) <= Cardinality(live) /\ Cardinality(live \cap Featured) \in Nat
  BY <1>1, FS_Intersection, FS_CardinalityType
<1>3. /\ featured \subseteq live \cap Featured /\ IsFiniteSet(featured)
      /\ Cardinality(featured) = Lesser(n, Cardinality(live \cap Featured))
  BY <1>2, SomeIs
<1> HIDE DEF featured
<1>4. n - Cardinality(featured) \in Nat /\ Cardinality(featured) \in Nat
  BY <1>2, <1>3 DEF Lesser
<1>5. IsFiniteSet(live \ featured) /\ live \ featured \subseteq Int
  <2>1. live \ featured \in SUBSET live
    OBVIOUS
  <2> QED BY <1>1, <2>1, FS_Subset
<1>6. Cardinality(live \ featured) \in Nat
  BY <1>5, FS_CardinalityType
<1>7. Cardinality(live) = Cardinality(featured) + Cardinality(live \ featured)
  <2>1. live = featured \cup (live \ featured) /\ featured \cap (live \ featured) = {}
    BY <1>3
  <2>2. Cardinality(featured \cup (live \ featured)) = Cardinality(featured) + Cardinality(live \ featured)
    BY <1>3, <1>5, <2>1, TwoParts
  <2> QED BY <2>1, <2>2
<1>8. /\ rest \subseteq live \ featured /\ IsFiniteSet(rest)
      /\ Cardinality(rest) = Lesser(n - Cardinality(featured), Cardinality(live \ featured))
  BY <1>4, <1>5, SomeIs
<1> HIDE DEF rest
<1>9. IsFiniteSet(featured \cup rest) /\ Cardinality(featured \cup rest) = Cardinality(featured) + Cardinality(rest)
  <2>1. featured \cap rest = {}
    BY <1>8
  <2> QED BY <1>3, <1>8, <2>1, TwoParts
<1>10. Cardinality(featured) + Cardinality(rest) = Lesser(n, Cardinality(live))
  <2> DEFINE a == Cardinality(featured)
             b == Cardinality(live \ featured)
             d == Cardinality(rest)
             e == Cardinality(live)
  <2>1. a \in Nat /\ b \in Nat /\ e = a + b /\ n - a \in Nat /\ d = Lesser(n - a, b)
    BY <1>4, <1>6, <1>7, <1>8
  <2> HIDE DEF a, b, d, e
  <2>2. a + d = Lesser(n, e)
    BY <2>1 DEF Lesser
  <2> QED BY <2>2 DEF a, d, e
<1>11. Fallback(c, n) = featured \cup rest
  BY DEF Fallback, featured, rest, live
<1> QED BY <1>3, <1>8, <1>9, <1>10, <1>11 DEF live

(***************************************************************************)
(* Liking is a number.                                                     *)
(***************************************************************************)
LEMMA MostIs ==
  ASSUME NEW S \in SUBSET Nat, IsFiniteSet(S)
  PROVE  Most(S) \in Nat /\ (S # {} => Most(S) \in S /\ \A x \in S : Most(S) >= x)
<1>1. CASE S = {}
  BY <1>1 DEF Most
<1>2. CASE S # {}
  <2>1. PICK m \in S : \A n \in S : n <= m
    BY <1>2, Greatest
  <2>2. \A n \in S : m >= n
    BY <2>1
  <2>3. Most(S) \in S /\ \A x \in S : Most(S) >= x
    BY <1>2, <2>2 DEF Most
  <2> QED BY <1>2, <2>3
<1> QED BY <1>1, <1>2

LEMMA MostOfTable ==
  ASSUME NEW S, IsFiniteSet(S), NEW f, \A x \in S : f[x] \in Nat
  PROVE  Most({f[x] : x \in S}) \in Nat
<1> DEFINE T == {f[x] : x \in S}
           g == [x \in S |-> f[x]]
<1>1. g \in Surjection(S, T)
  BY DEF Surjection
<1>2. T \in SUBSET Nat
  OBVIOUS
<1> HIDE DEF g, T
<1>3. IsFiniteSet(T)
  BY <1>1, FS_Surjection
<1>4. Most(T) \in Nat
  BY <1>2, <1>3, MostIs
<1> QED BY <1>4 DEF T

Tastes == [bought : SUBSET Products, viewed : SUBSET Products, kept : SUBSET Products, holds : SUBSET Products]

LEMMA LikingIs ==
  ASSUME NEW taste \in Tastes, NEW p \in Products
  PROVE  Liking(taste, p) \in Nat
<1>1. IsFiniteSet(Products) /\ IsFiniteSet(taste.bought) /\ taste.bought \subseteq Products
  BY LiveOnes, FS_Subset DEF Tastes
<1>2. ASSUME NEW x \in Products PROVE Copurchase(taste, x) \in Nat
  <2> DEFINE f == [b \in taste.bought |-> Together[b][x]]
  <2>1. \A b \in taste.bought : f[b] \in Nat
    BY <1>1, SearchAssumption
  <2>2. SumFunction(f) = SumFunctionOnSet(f, taste.bought)
    BY DEF SumFunction, SumFunctionOnSet, FoldFunction
  <2> HIDE DEF f
  <2>3. SumFunctionOnSet(f, taste.bought) \in Nat
    BY <1>1, <2>1, SumIsNatural
  <2>4. SumFunction(f) \in Nat
    BY <2>2, <2>3
  <2> QED BY <2>4 DEF Copurchase, f
<1>3. ASSUME NEW x \in Products PROVE Popularity(taste, x) \in Nat
  <2>1. Together[x][x] \in Nat
    BY SearchAssumption
  <2> QED BY <2>1 DEF Popularity
<1>4. ASSUME NEW S \in SUBSET Products, NEW c PROVE Cardinality({x \in S : CategoryOf[x] = c}) \in Nat
  <2>1. {x \in S : CategoryOf[x] = c} \in SUBSET Products
    OBVIOUS
  <2> QED BY <1>1, <2>1, FS_Subset, FS_CardinalityType
<1>5. ASSUME NEW c PROVE Affinity(taste, c) \in Nat
  <2>1. /\ taste.bought \in SUBSET Products /\ taste.kept \in SUBSET Products
        /\ taste.holds \in SUBSET Products /\ taste.viewed \in SUBSET Products
    BY DEF Tastes
  <2>2. /\ Cardinality({x \in taste.bought : CategoryOf[x] = c}) \in Nat
        /\ Cardinality({x \in taste.kept : CategoryOf[x] = c}) \in Nat
        /\ Cardinality({x \in taste.holds : CategoryOf[x] = c}) \in Nat
        /\ Cardinality({x \in taste.viewed : CategoryOf[x] = c}) \in Nat
    BY <1>4, <2>1
  <2> QED BY <2>2 DEF Affinity
<1> DEFINE co  == AtLeastOne(Most({Copurchase(taste, x) : x \in Products}))
           pop == AtLeastOne(Most({Popularity(taste, x) : x \in Products}))
<1>6. co \in Nat
  <2> DEFINE f == [x \in Products |-> Copurchase(taste, x)]
  <2>1. \A x \in Products : f[x] \in Nat
    BY <1>2
  <2>2. {f[x] : x \in Products} = {Copurchase(taste, x) : x \in Products}
    OBVIOUS
  <2> HIDE DEF f
  <2>3. Most({f[x] : x \in Products}) \in Nat
    BY <1>1, <2>1, MostOfTable
  <2> QED BY <2>2, <2>3 DEF AtLeastOne
<1>7. pop \in Nat
  <2> DEFINE f == [x \in Products |-> Popularity(taste, x)]
  <2>1. \A x \in Products : f[x] \in Nat
    BY <1>3
  <2>2. {f[x] : x \in Products} = {Popularity(taste, x) : x \in Products}
    OBVIOUS
  <2> HIDE DEF f
  <2>3. Most({f[x] : x \in Products}) \in Nat
    BY <1>1, <2>1, MostOfTable
  <2> QED BY <2>2, <2>3 DEF AtLeastOne
<1> DEFINE aff == Affinity(taste, CategoryOf[p])
           own == Copurchase(taste, p)
           sold == Popularity(taste, p)
<1>8. aff \in Nat /\ own \in Nat /\ sold \in Nat
  BY <1>2, <1>3, <1>5
<1>9. Liking(taste, p) = co * pop * 3 * aff + 5 * pop * own
        + (IF p \in taste.viewed THEN 3 * co * pop ELSE 0) + 2 * co * sold
        + (IF p \in Featured THEN co * pop ELSE 0)
  BY DEF Liking
<1> HIDE DEF co, pop, aff, own, sold
<1>10. \A a, b \in Nat : a * b \in Nat
  OBVIOUS
<1>11. co * pop \in Nat /\ 3 * co \in Nat /\ 5 * pop \in Nat /\ 2 * co \in Nat
  BY <1>6, <1>7
<1>12. co * pop * 3 \in Nat /\ 3 * co * pop \in Nat /\ 5 * pop * own \in Nat /\ 2 * co * sold \in Nat
  BY ONLY <1>7, <1>8, <1>10, <1>11, 3 \in Nat
<1>13. co * pop * 3 * aff \in Nat
  BY ONLY <1>8, <1>10, <1>12
<1>14. \A a, b, c, d, e \in Nat : a + b + c + d + e \in Nat
  OBVIOUS
<1>15. (IF p \in taste.viewed THEN 3 * co * pop ELSE 0) \in Nat /\ (IF p \in Featured THEN co * pop ELSE 0) \in Nat
  BY <1>11, <1>12
<1> QED BY ONLY <1>9, <1>12, <1>13, <1>14, <1>15

LEMMA PadIs ==
  ASSUME NEW c, NEW top, IsFiniteSet(top), NEW limit \in Nat, Cardinality(top) <= limit
  PROVE  LET rest == Fallback(c, 2 * limit) \ top
         IN  /\ Pad(c, top, limit) \subseteq rest /\ IsFiniteSet(Pad(c, top, limit)) /\ IsFiniteSet(rest)
             /\ Cardinality(Pad(c, top, limit)) = Lesser(limit - Cardinality(top), Cardinality(rest))
<1> DEFINE rest == Fallback(c, 2 * limit) \ top
           many == limit - Cardinality(top)
           points == [t \in rest |-> IF t \in Featured THEN 1 ELSE 0]
           ranked == {<<points[t], t>> : t \in rest}
<1>1. many \in Nat /\ 2 * limit \in Nat
  BY FS_CardinalityType
<1>2. IsFiniteSet(rest) /\ rest \subseteq Int
  <2>1. /\ Fallback(c, 2 * limit) \subseteq LiveProducts(c) /\ IsFiniteSet(Fallback(c, 2 * limit))
    BY <1>1, FallbackIs
  <2>2. rest \in SUBSET Fallback(c, 2 * limit)
    OBVIOUS
  <2> QED BY <2>1, <2>2, LiveOnes, FS_Subset
<1>3. ranked = {<<IF t \in Featured THEN 1 ELSE 0, t>> : t \in rest}
  OBVIOUS
<1>4. \A t \in rest : points[t] \in Int
  OBVIOUS
<1> HIDE DEF points
<1>5. /\ Pairs(ranked) /\ Cardinality(ranked) = Cardinality(rest) /\ Listed(ranked) = rest
      /\ \A u, v \in ranked : u[2] = v[2] => u = v
  <2> HIDE DEF rest
  <2> QED BY ONLY <1>2, <1>4, ValuesAre
<1>6. Pad(c, top, limit) = Listed(Top(ranked, many))
  BY <1>3 DEF Pad
<1> HIDE DEF ranked, rest, many
<1> QED BY <1>1, <1>2, <1>5, <1>6, BestAre DEF rest, many

(* The row is as long as asked for or has all there is, and what is not in *)
(* it is liked no better than what is.                                     *)
LEMMA RowIs ==
  ASSUME NEW c, NEW taste \in Tastes, NEW limit \in Nat
  PROVE  LET row == Recommend(c, taste, limit)
         IN  /\ row \subseteq LiveProducts(c)
             /\ Cardinality(row) = limit \/ row = LiveProducts(c)
             /\ taste.bought \cup taste.kept \cup taste.viewed \cup taste.holds # {} =>
                  \A p \in row, u \in LiveProducts(c) \ row : Liking(taste, u) <= Liking(taste, p)
<1> DEFINE live == LiveProducts(c)
           n == Cardinality(live)
           known == taste.bought \cup taste.kept \cup taste.viewed \cup taste.holds # {}
<1>1. /\ live \subseteq Products /\ live \subseteq Int /\ IsFiniteSet(live) /\ n \in Nat
  BY LiveOnes
<1>2. CASE ~known
  <2>1. Recommend(c, taste, limit) = Fallback(c, limit)
    BY <1>2 DEF Recommend
  <2>2. /\ Fallback(c, limit) \in SUBSET live
        /\ Cardinality(Fallback(c, limit)) = Lesser(limit, n)
    BY FallbackIs
  <2>3. Cardinality(Fallback(c, limit)) = limit \/ Fallback(c, limit) = live
    <3>1. CASE limit < n
      BY <2>2, <3>1 DEF Lesser
    <3>2. CASE ~(limit < n)
      <4>1. Cardinality(Fallback(c, limit)) = n
        BY <2>2, <3>2 DEF Lesser
      <4> QED BY <1>1, <2>2, <4>1, FS_Subset
    <3> QED BY <3>1, <3>2
  <2> QED BY <1>2, <2>1, <2>2, <2>3
<1>3. CASE known
  <2> DEFINE f     == [p \in live |-> Liking(taste, p)]
             all   == {<<f[p], p>> : p \in live}
             liked == {v \in all : v[1] > 0}
             T     == Top(liked, limit)
             top   == Listed(T)
             P     == Fallback(c, 2 * limit)
             rest  == P \ top
             pad   == Pad(c, top, limit)
             row   == top \cup pad
             a     == Cardinality(top)
             d     == Cardinality(pad)
  <2>1. Recommend(c, taste, limit) = row
    <3>1. all = {<<Liking(taste, p), p>> : p \in live}
      OBVIOUS
    <3> HIDE DEF all
    <3> QED BY <1>3, <3>1 DEF Recommend
  <2>2. \A p \in live : f[p] = Liking(taste, p) /\ f[p] \in Nat
    BY <1>1, LikingIs
  <2>3. \A v \in all : v[2] \in live /\ v[1] = f[v[2]] /\ v[1] \in Nat
    BY <2>2
  <2>4. \A p \in live : <<f[p], p>> \in all /\ <<f[p], p>>[1] = f[p] /\ <<f[p], p>>[2] = p
    OBVIOUS
  <2>5. /\ Pairs(all) /\ Listed(all) = live
        /\ \A u, v \in all : u[2] = v[2] => u = v
    <3> HIDE DEF f
    <3> QED BY <1>1, <2>2, ValuesAre
  <2> HIDE DEF all, f
  <2>6. Pairs(liked) /\ liked \subseteq all /\ IsFiniteSet(liked) /\ Cardinality(liked) \in Nat
    <3>1. liked \in SUBSET all
      OBVIOUS
    <3> QED BY <2>5, <3>1, FS_Subset, FS_CardinalityType DEF Pairs
  <2>7. \A v \in all : v \in liked <=> v[1] > 0
    OBVIOUS
  <2> HIDE DEF liked
  <2>8. /\ T \subseteq liked /\ Pairs(T)
        /\ Cardinality(T) = Lesser(limit, Cardinality(liked))
        /\ \A v \in T, u \in liked \ T : u[1] <= v[1]
    BY <2>6, TopIs
  <2> HIDE DEF T
  <2>9. /\ IsFiniteSet(top) /\ a = Cardinality(T) /\ top \subseteq live
    <3>1. \A u, v \in T : u[2] = v[2] => u = v
      BY <2>5, <2>6, <2>8
    <3>2. IsFiniteSet(top) /\ a = Cardinality(T)
      BY <2>8, <3>1, ListedIs
    <3>3. top \subseteq live
      BY <2>3, <2>6, <2>8 DEF Listed
    <3> QED BY <3>2, <3>3
  <2>10. \A p \in live : p \in top <=> <<f[p], p>> \in T
    <3>1. ASSUME NEW p \in live, p \in top PROVE <<f[p], p>> \in T
      <4>1. PICK v \in T : v[2] = p
        BY <3>1 DEF Listed
      <4>2. v \in all /\ <<f[p], p>> \in all /\ <<f[p], p>>[2] = v[2]
        BY <2>4, <2>6, <2>8, <4>1
      <4>3. v = <<f[p], p>>
        BY <2>5, <4>2
      <4> QED BY <4>3
    <3>2. ASSUME NEW p \in live, <<f[p], p>> \in T PROVE p \in top
      BY <3>2 DEF Listed
    <3> QED BY <3>1, <3>2
  <2> HIDE DEF top
  <2>11. a \in Nat /\ a <= limit
    BY <2>6, <2>8, <2>9 DEF Lesser
  <2>12. /\ pad \subseteq rest /\ IsFiniteSet(pad) /\ IsFiniteSet(rest)
         /\ d = Lesser(limit - a, Cardinality(rest))
    BY <2>9, <2>11, PadIs
  <2>13. P \in SUBSET live /\ IsFiniteSet(P) /\ Cardinality(P) = Lesser(2 * limit, n)
    BY FallbackIs
  <2> HIDE DEF P, pad
  <2>14. Cardinality(row) = a + d /\ a \in Nat /\ d \in Nat /\ row \subseteq live
    <3>1. top \cap pad = {}
      BY <2>12
    <3>2. Cardinality(row) = a + d
      BY <2>9, <2>12, <3>1, TwoParts
    <3> QED BY <2>9, <2>11, <2>12, <2>13, <3>2, FS_CardinalityType
  <2>15. Cardinality(rest) \in Nat /\ Cardinality(rest) + a >= Cardinality(P) /\ Cardinality(P) \in Nat
    <3>1. IsFiniteSet(P \cap top) /\ Cardinality(P \cap top) <= a /\ Cardinality(P \cap top) \in Nat
      <4>1. P \cap top \in SUBSET top
        OBVIOUS
      <4> QED BY <2>9, <4>1, FS_Subset, FS_CardinalityType
    <3>2. P = (P \cap top) \cup rest /\ (P \cap top) \cap rest = {}
      OBVIOUS
    <3>3. Cardinality((P \cap top) \cup rest) = Cardinality(P \cap top) + Cardinality(rest)
      BY <2>12, <3>1, <3>2, TwoParts
    <3>4. Cardinality(rest) \in Nat /\ Cardinality(P) \in Nat
      BY <2>12, <2>13, FS_CardinalityType
    <3> HIDE DEF rest
    <3> QED BY <2>11, <3>1, <3>2, <3>3, <3>4
  <2>16. Cardinality(row) = limit \/ row = live
    <3>1. CASE limit - a <= Cardinality(rest)
      <4> HIDE DEF a, d, row, rest
      <4> QED BY <2>11, <2>12, <2>14, <2>15, <3>1 DEF Lesser
    <3>2. CASE ~(limit - a <= Cardinality(rest))
      <4>1. d = Cardinality(rest)
        <5> HIDE DEF a, d, rest
        <5> QED BY <2>11, <2>12, <2>15, <3>2 DEF Lesser
      <4>2. Cardinality(P) < limit
        <5> HIDE DEF a, rest, P
        <5> QED BY <2>11, <2>15, <3>2
      <4>3. Cardinality(P) = n
        <5> HIDE DEF n
        <5> QED BY <1>1, <2>13, <4>2 DEF Lesser
      <4>4. P = live
        BY <1>1, <2>13, <4>3, FS_Subset
      <4>5. pad = rest
        <5>1. pad \in SUBSET rest
          BY <2>12
        <5> QED BY <2>12, <4>1, <5>1, FS_Subset
      <4> QED BY <2>9, <4>4, <4>5
    <3> QED BY <3>1, <3>2
  <2>17. ASSUME NEW p \in row, NEW u \in live \ row PROVE f[u] <= f[p]
    <3>1. p \in live /\ u \in live /\ f[u] \in Nat /\ f[p] \in Nat /\ u \notin top
      BY <2>2, <2>14
    <3>2. <<f[u], u>> \in all /\ <<f[u], u>> \notin T /\ <<f[u], u>>[1] = f[u]
      BY <2>4, <2>10, <3>1
    <3>3. CASE <<f[u], u>> \notin liked
      <4>1. ~(f[u] > 0)
        BY <2>7, <3>2, <3>3
      <4> QED BY <3>1, <4>1
    <3>4. CASE <<f[u], u>> \in liked /\ p \in top
      <4>1. <<f[p], p>> \in T /\ <<f[p], p>>[1] = f[p]
        BY <2>10, <3>1, <3>4
      <4>2. <<f[u], u>>[1] <= <<f[p], p>>[1]
        BY <2>8, <3>2, <3>4, <4>1
      <4> QED BY <3>2, <4>1, <4>2
    <3>5. CASE <<f[u], u>> \in liked /\ p \notin top
      <4>1. p \in pad
        BY <3>5
      <4>2. d # 0
        BY <2>12, <4>1, FS_EmptySet
      <4>3. a < limit
        <5> HIDE DEF a, d, rest
        <5> QED BY <2>11, <2>12, <2>14, <2>15, <4>2 DEF Lesser
      <4>4. Cardinality(T) = Cardinality(liked)
        <5>1. Cardinality(T) < limit
          BY <2>9, <4>3
        <5> QED BY <2>6, <2>8, <5>1 DEF Lesser
      <4>5. T = liked
        <5>1. T \in SUBSET liked
          BY <2>8
        <5> QED BY <2>6, <4>4, <5>1, FS_Subset
      <4> QED BY <3>2, <3>5, <4>5
    <3> QED BY <3>3, <3>4, <3>5
  <2>18. \A p \in row, u \in live \ row : Liking(taste, u) <= Liking(taste, p)
    <3> SUFFICES ASSUME NEW p \in row, NEW u \in live \ row PROVE Liking(taste, u) <= Liking(taste, p)
      OBVIOUS
    <3>1. f[u] <= f[p]
      BY <2>17
    <3>2. p \in live /\ u \in live
      BY <2>14
    <3>3. f[u] = Liking(taste, u) /\ f[p] = Liking(taste, p)
      BY <2>2, <3>2
    <3> QED BY <3>1, <3>3
  <2> HIDE DEF row
  <2> QED BY <2>1, <2>14, <2>16, <2>18
<1> QED BY <1>2, <1>3

(***************************************************************************)
(* The corpus and the scores of its entries.                               *)
(***************************************************************************)
Entry == [text : Texts, item : Things, kind : {"name", "token", "category", "synonym"}]

LEMMA KindIs ==
  ASSUME NEW i \in 1 .. 4
  PROVE  Kinds[i] \in {"name", "token", "category", "synonym"}
BY DEF Kinds

LEMMA BuiltCorpus ==
  ASSUME NEW c, NEW terms
  PROVE  BuildCorpus(c, terms) \subseteq Entry
<1>1. ASSUME NEW t \in Things PROVE EntriesOf(c, terms, t) \subseteq Entry
  <2>1. ASSUME NEW x \in Texts \X (1 .. 4) PROVE [text |-> x[1], item |-> t, kind |-> Kinds[x[2]]] \in Entry
    <3>1. x[1] \in Texts /\ x[2] \in 1 .. 4
      OBVIOUS
    <3>2. Kinds[x[2]] \in {"name", "token", "category", "synonym"}
      BY <3>1, KindIs
    <3> QED BY <3>1, <3>2 DEF Entry
  <2> QED BY <2>1 DEF EntriesOf
<1> QED BY <1>1 DEF BuildCorpus

LEMMA ScoreIs ==
  ASSUME NEW q \in Texts, NEW e \in Entry
  PROVE  ScoreOf(q, e) \in 0 .. 100
<1>1. e.text \in Texts /\ e.kind \in {"name", "token", "category", "synonym"}
  BY DEF Entry
<1>2. Likeness[q][e.text] \in 0 .. 100
  BY <1>1, SearchAssumption
<1>3. Base(q, e) \in Nat
  BY <1>2 DEF Base
<1>4. Bonus(q, e) \in Nat
  BY DEF Bonus
<1>5. Weight[e.kind] \in Nat
  BY <1>1 DEF Weight
<1>6. Base(q, e) * Weight[e.kind] \in Nat
  BY <1>3, <1>5
<1>7. (Base(q, e) * Weight[e.kind]) \div 100 \in Nat
  BY <1>6
<1>8. (Base(q, e) * Weight[e.kind]) \div 100 + Bonus(q, e) \in Nat
  BY <1>4, <1>7
<1> HIDE DEF Base
<1> QED BY <1>8 DEF ScoreOf, Capped

LEMMA BestIs ==
  ASSUME NEW corpus_ \in SUBSET Entry, NEW q \in Texts, NEW t, NEW threshold
  PROVE  Best(corpus_, q, t, threshold) \in Nat
<1> DEFINE S == {ScoreOf(q, e) : e \in {e \in corpus_ : e.item = t /\ (q \notin Short => Base(q, e) >= threshold)}}
<1>1. \A x \in S : x \in 0 .. 100
  BY ScoreIs
<1>2. S \in SUBSET Nat
  BY <1>1
<1> HIDE DEF S
<1>3. IsFiniteSet(S)
  <2>1. 100 \in Nat /\ \A x \in S : x <= 100
    BY <1>1
  <2> QED BY <1>2, <2>1, FS_BoundedSetOfNaturals
<1>4. Most(S) \in Nat
  BY <1>2, <1>3, MostIs
<1> QED BY <1>4 DEF Best, S

(* A match is over the threshold, in whole points.                         *)
LEMMA DirectIs ==
  ASSUME NEW c, NEW corpus_ \in SUBSET Entry, NEW q \in Texts, NEW k, NEW threshold \in Nat
  PROVE  \A v \in Direct(c, corpus_, q, k, threshold) : v[1] \in Nat /\ v[1] >= threshold
<1> DEFINE scores == Scores(corpus_, q, threshold)
<1>1. \A v \in scores : v[1] \in Nat /\ v[1] >= threshold
  <2> SUFFICES ASSUME NEW v \in scores PROVE v[1] \in Nat /\ v[1] >= threshold
    OBVIOUS
  <2>1. PICK t \in Things : v = <<Best(corpus_, q, t, threshold), t>>
    BY DEF Scores
  <2>2. v[1] >= IF q \in Short /\ threshold < 85 THEN 85 ELSE threshold
    BY DEF Scores
  <2>3. v[1] \in Nat
    BY <2>1, BestIs
  <2> QED BY <2>2, <2>3
<1> HIDE DEF scores
<1>2. TakeDirect(c, scores, k) \subseteq scores
  BY DEF TakeDirect, Top
<1> QED BY <1>1, <1>2 DEF Direct, scores

LEMMA PaddingIs ==
  ASSUME NEW c, NEW q, NEW k
  PROVE  \A v \in OtherRecommendations(c, q, k) : v[1] \in {6000, 3000}
<1>1. 75 * ScoreWeights.category = 6000 /\ 60 * ScoreWeights.trending = 3000
  <2>1. ScoreWeights.category = 80 /\ ScoreWeights.trending = 50
    BY DEF ScoreWeights
  <2> QED BY <2>1
<1>2. \A v \in OtherRecommendations(c, q, k) :
        v[1] = 75 * ScoreWeights.category \/ v[1] = 60 * ScoreWeights.trending
  <2> DEFINE few   == IF k < 4 THEN 1 ELSE k \div 4
             kin   == Some({t \in LiveProducts(c) : <<q, CategoryOf[t]>> \in Begins}, few)
             trend == IF Cardinality(kin) >= k THEN {} ELSE Some(LiveProducts(c) \cap Featured, few)
             near  == 75 * ScoreWeights.category
             far   == 60 * ScoreWeights.trending
  <2>1. OtherRecommendations(c, q, k) = {<<near, t>> : t \in kin} \cup {<<far, t>> : t \in trend}
    BY DEF OtherRecommendations
  <2> HIDE DEF kin, trend, near, far
  <2>2. \A v \in OtherRecommendations(c, q, k) : v[1] = near \/ v[1] = far
    BY <2>1
  <2> QED BY <2>2 DEF near, far
<1> QED BY <1>1, <1>2

(* At a threshold above 60 a match is worth more than what pads the list.  *)
LEMMA MatchesDoOutrank ==
  ASSUME corpus = NoCorpus \/ corpus \in SUBSET Entry
  PROVE  MatchesOutrank
<1> SUFFICES ASSUME corpus \in SUBSET Entry, NEW q \in Texts
             PROVE  LET direct == Listed(Direct(cat, corpus, q, TopK, Threshold))
                        found  == UnifiedSearch(cat, corpus, q, TopK, Threshold)
                    IN \A v, u \in found : v[2] \in direct /\ u[2] \notin direct => v[1] > u[1]
  BY DEF MatchesOutrank, Outranks
<1> DEFINE D       == Direct(cat, corpus, q, TopK, Threshold)
           matches == {<<v[1] * ScoreWeights.direct, v[2]>> : v \in D}
           padding == IF Cardinality(D) \in {1, 2} THEN OtherRecommendations(cat, q, TopK \div 2) ELSE {}
           results == matches \cup padding
           found   == UnifiedSearch(cat, corpus, q, TopK, Threshold)
<1>1. Threshold \in Nat /\ Threshold > 60
  BY DiscoveryAssumption
<1>2. \A v \in D : v[1] \in Nat /\ v[1] >= Threshold
  BY <1>1, DirectIs
<1>3. found = RankAndDedupe(results, TopK)
  BY DEF UnifiedSearch, Padded
<1> HIDE DEF D
<1>4. \A v \in matches : v[1] \in Nat /\ v[1] > 6000 /\ v[2] \in Listed(D)
  <2> SUFFICES ASSUME NEW d \in D PROVE d[1] * ScoreWeights.direct \in Nat /\ d[1] * ScoreWeights.direct > 6000 /\ d[2] \in Listed(D)
    OBVIOUS
  <2>1. ScoreWeights.direct = 100
    BY DEF ScoreWeights
  <2> QED BY <1>1, <1>2, <2>1 DEF Listed
<1>5. \A v \in padding : v[1] \in {6000, 3000}
  BY PaddingIs
<1>6. \A i \in Listed(D) : \E m \in matches : m[2] = i
  <2> SUFFICES ASSUME NEW d \in D PROVE \E m \in matches : m[2] = d[2]
    BY DEF Listed
  <2>1. <<d[1] * ScoreWeights.direct, d[2]>> \in matches
    OBVIOUS
  <2> HIDE DEF matches
  <2> QED BY <2>1
<1> HIDE DEF matches, padding
<1>7. /\ found \subseteq results
      /\ \A v \in found, u \in results : u[2] = v[2] => u[1] <= v[1]
  BY <1>3 DEF RankAndDedupe, Top
<1> HIDE DEF found
<1>8. ASSUME NEW v \in found, NEW u \in found, v[2] \in Listed(D), u[2] \notin Listed(D) PROVE v[1] > u[1]
  <2>1. PICK m \in matches : m[2] = v[2]
    BY <1>6, <1>8
  <2>2. m[1] <= v[1] /\ m[1] \in Nat /\ m[1] > 6000
    BY <1>4, <1>7, <2>1
  <2>3. u \in padding
    BY <1>4, <1>7, <1>8
  <2>4. u[1] \in {6000, 3000}
    BY <1>5, <2>3
  <2>5. v[1] \in Int
    BY <1>4, <1>5, <1>7
  <2> QED BY <2>2, <2>4, <2>5
<1> QED BY <1>8 DEF D, found

Kb     == [there : BOOLEAN, terms : SUBSET Texts, old : BOOLEAN, name : Names \cup {"none"}]
Worker == [at : {"idle", "begun", "asking", "dead"}, name : Names \cup {"none"}]
Seen   == [viewed : SUBSET Products, bought : SUBSET Products, kept : SUBSET Products]

CatTyped == cat \in [shop : Shops, name : Names, shelf : SUBSET Others] /\ Mirrored(cat.shop)

Corpora == (SUBSET Entry) \cup {NoCorpus}

IndexTyped ==
  /\ kb \in Kb /\ task \in [Tasks -> Worker]
  /\ \A i \in Tasks : task[i].at # "idle" => task[i].name \in Names
  /\ corpus \in Corpora /\ reader \in Corpora /\ dropping \in Nat /\ excused \in BOOLEAN

CustomerTyped ==
  /\ cart \in [Items -> Nat] /\ Bounded(cart)
  /\ card \in CardRows /\ seen \in Seen

DiscoveryInv == CatTyped /\ IndexTyped /\ CustomerTyped /\ CorpusTrue /\ KbFilled

(* Of the catalogue the corpus tells the name and what is active.          *)
LEMMA SameCorpus ==
  ASSUME NEW c, NEW d, NEW terms,
         c.name = d.name, c.shop.listed = d.shop.listed, c.shop.combo = d.shop.combo
  PROVE  BuildCorpus(c, terms) = BuildCorpus(d, terms)
<1>1. \A t : Name(c, t) = Name(d, t) /\ Active(c, t) = Active(d, t)
  BY DEF Name, Active
<1>2. \A t : TextsOf(c, terms, t) = TextsOf(d, terms, t)
  BY <1>1 DEF TextsOf
<1>3. \A t : EntriesOf(c, terms, t) = EntriesOf(d, terms, t)
  BY <1>2 DEF EntriesOf
<1> QED BY <1>1, <1>3 DEF BuildCorpus

LEMMA TruthStays ==
  ASSUME cat'.name = cat.name, cat'.shop.listed = cat.shop.listed, cat'.shop.combo = cat.shop.combo,
         kb'.terms = kb.terms
  PROVE  Truth' = Truth
BY SameCorpus DEF Truth

LEMMA DiscoveryStarts == DiscoveryInit => DiscoveryInv
<1> SUFFICES ASSUME DiscoveryInit PROVE DiscoveryInv
  OBVIOUS
<1>1. CatTyped
  <2>1. PICK s \in Shops, n \in Names : cat = [shop |-> Mirror(s), name |-> n, shelf |-> Others]
    BY DEF DiscoveryInit
  <2>2. Mirror(s) \in Shops /\ Mirrored(Mirror(s))
    BY MirrorMirrors
  <2> QED BY <2>1, <2>2 DEF CatTyped
<1>2. IndexTyped
  <2>1. kb \in Kb
    BY DEF DiscoveryInit, Kb
  <2>2. task \in [Tasks -> Worker] /\ \A i \in Tasks : task[i].at = "idle"
    BY DEF DiscoveryInit, Worker, NoTask
  <2>3. corpus \in Corpora /\ reader \in Corpora /\ dropping \in Nat /\ excused \in BOOLEAN
    BY DEF DiscoveryInit, Corpora
  <2> QED BY <2>1, <2>2, <2>3 DEF IndexTyped
<1>3. CustomerTyped
  <2>1. <<>> \in Seq(CardLine)
    BY EmptySeq
  <2>2. NoCard \in CardRows
    BY <2>1 DEF NoCard, CardRows, CardTypes
  <2>3. [i \in Items |-> 0] \in [Items -> Nat] /\ Bounded([i \in Items |-> 0])
    BY ShopAssumption DEF Bounded
  <2>4. [viewed |-> {}, bought |-> {}, kept |-> {}] \in Seen
    BY DEF Seen
  <2> QED BY <2>2, <2>3, <2>4 DEF DiscoveryInit, CustomerTyped
<1>4. CorpusTrue /\ KbFilled
  BY DEF DiscoveryInit, CorpusTrue, KbFilled
<1> QED BY <1>1, <1>2, <1>3, <1>4 DEF DiscoveryInv

(***************************************************************************)
(* Steps                                                                   *)
(***************************************************************************)
LEMMA IndexStays ==
  ASSUME DiscoveryInv, UNCHANGED index, cat'.name = cat.name,
         cat'.shop.listed = cat.shop.listed, cat'.shop.combo = cat.shop.combo
  PROVE  IndexTyped' /\ CorpusTrue' /\ KbFilled'
<1>1. /\ kb' = kb /\ task' = task /\ corpus' = corpus /\ reader' = reader
      /\ dropping' = dropping /\ excused' = excused
  BY DEF index
<1>2. Truth' = Truth
  BY <1>1, TruthStays
<1>3. IndexTyped'
  BY <1>1 DEF DiscoveryInv, IndexTyped
<1>4. CorpusTrue'
  BY <1>1, <1>2 DEF DiscoveryInv, CorpusTrue
<1>5. KbFilled'
  BY <1>1 DEF DiscoveryInv, KbFilled
<1> QED BY <1>3, <1>4, <1>5

LEMMA CustomerStays == ASSUME DiscoveryInv, UNCHANGED customer PROVE CustomerTyped'
<1>1. cart' = cart /\ card' = card /\ seen' = seen
  BY DEF customer
<1> QED BY <1>1 DEF DiscoveryInv, CustomerTyped

LEMMA SetSizeKeeps ==
  ASSUME DiscoveryInv, NEW v \in Sizes, SetSize(v)
  PROVE  DiscoveryInv'
<1> DEFINE rows == [active : BOOLEAN, stock : 0 .. MaxStock, price : Prices]
<1>1. cat \in [shop : Shops, name : Names, shelf : SUBSET Others] /\ cat.shop.size[v] \in rows
  BY DEF DiscoveryInv, CatTyped, Shops
<1>2. PICK row \in rows : EditSize(v, row)
  BY <1>1 DEF SetSize
<1> DEFINE shop == [cat.shop EXCEPT !.size[v] = row]
<1>3. shop \in Shops /\ shop.listed = cat.shop.listed /\ shop.combo = cat.shop.combo
  BY <1>1 DEF Shops
<1>4. cat' = [cat EXCEPT !.shop = Mirror(shop)] /\ UNCHANGED <<index, customer>>
  BY <1>2 DEF EditSize
<1> HIDE DEF shop
<1>5. /\ Mirror(shop) \in Shops /\ Mirrored(Mirror(shop))
      /\ Mirror(shop).listed = cat.shop.listed /\ Mirror(shop).combo = cat.shop.combo
  BY <1>3, MirrorMirrors
<1>6. CatTyped'
  BY <1>1, <1>4, <1>5 DEF CatTyped
<1>7. IndexTyped' /\ CorpusTrue' /\ KbFilled'
  BY <1>1, <1>4, <1>5, IndexStays
<1> QED BY <1>4, <1>6, <1>7, CustomerStays DEF DiscoveryInv

LEMMA RestockKeeps ==
  ASSUME DiscoveryInv, NEW p \in Others, Restock(p)
  PROVE  DiscoveryInv'
<1>1. cat \in [shop : Shops, name : Names, shelf : SUBSET Others] /\ Mirrored(cat.shop)
  BY DEF DiscoveryInv, CatTyped
<1>2. PICK S \in SUBSET Others : cat' = [cat EXCEPT !.shelf = S]
  BY <1>1 DEF Restock
<1>3. UNCHANGED <<index, customer>>
  BY DEF Restock
<1>4. CatTyped' /\ cat'.name = cat.name /\ cat'.shop = cat.shop
  BY <1>1, <1>2 DEF CatTyped
<1>5. IndexTyped' /\ CorpusTrue' /\ KbFilled'
  BY <1>3, <1>4, IndexStays
<1> QED BY <1>3, <1>4, <1>5, CustomerStays DEF DiscoveryInv

(* A signal that has yet to drop the corpus excuses what it tells.         *)
LEMMA DropAwaited ==
  ASSUME dropping \in Nat, dropping' = dropping + 1
  PROVE  CorpusTrue' /\ dropping' \in Nat
BY DEF CorpusTrue

LEMMA SaveProductKeeps ==
  ASSUME DiscoveryInv, NEW name \in Names, NEW listed \in BOOLEAN, SaveProduct(name, listed)
  PROVE  DiscoveryInv'
<1>1. cat \in [shop : Shops, name : Names, shelf : SUBSET Others] /\ Mirrored(cat.shop)
  BY DEF DiscoveryInv, CatTyped
<1>2. CatTyped'
  <2> DEFINE shop == [cat.shop EXCEPT !.listed = listed]
  <2>1. cat' = [cat EXCEPT !.name = name, !.shop = shop]
    BY DEF SaveProduct
  <2>2. shop \in Shops /\ shop.size = cat.shop.size /\ shop.shown = cat.shop.shown
    BY <1>1 DEF Shops
  <2>3. Mirrored(shop)
    <3>1. Actives(shop) = Actives(cat.shop)
      BY <2>2 DEF Actives
    <3> HIDE DEF shop
    <3>2. SizeOf(shop, TheProduct) = SizeOf(cat.shop, TheProduct)
      BY <3>1 DEF SizeOf
    <3> QED BY <1>1, <2>2, <3>1, <3>2 DEF Mirrored
  <2> HIDE DEF shop
  <2> QED BY <1>1, <2>1, <2>2, <2>3 DEF CatTyped
<1>3. /\ kb' = kb /\ corpus' = corpus /\ reader' = reader /\ excused' = excused
      /\ dropping' = dropping + 1 /\ UNCHANGED customer
  BY DEF SaveProduct
<1>4. task' = task \/ Starts(name)
  BY DEF SaveProduct
<1>5. /\ task' \in [Tasks -> Worker]
      /\ \A i \in Tasks : \/ task'[i] = task[i]
                          \/ task[i].at = "idle" /\ task'[i].name \in Names /\ task'[i].at = "begun"
  <2>1. task \in [Tasks -> Worker]
    BY DEF DiscoveryInv, IndexTyped
  <2>2. CASE task' = task
    BY <2>1, <2>2
  <2>3. CASE Starts(name)
    <3>1. PICK j \in Tasks : task[j].at = "idle" /\ task' = [task EXCEPT ![j] = [at |-> "begun", name |-> name]]
      BY <2>3 DEF Starts
    <3>2. [at |-> "begun", name |-> name] \in Worker
      BY DEF Worker
    <3> QED BY <2>1, <3>1, <3>2
  <2> QED BY <1>4, <2>2, <2>3
<1>6. IndexTyped'
  BY <1>3, <1>5, DropAwaited DEF DiscoveryInv, IndexTyped
<1>7. CorpusTrue'
  BY <1>3, DropAwaited DEF DiscoveryInv, IndexTyped
<1>8. KbFilled'
  <2>1. \A i \in Tasks : task[i].at \in {"asking", "dead"} => task'[i] = task[i]
    BY <1>5
  <2> QED BY <1>3, <2>1 DEF DiscoveryInv, KbFilled
<1> QED BY <1>2, <1>3, <1>6, <1>7, <1>8, CustomerStays DEF DiscoveryInv

LEMMA SaveComboKeeps ==
  ASSUME DiscoveryInv, SaveCombo
  PROVE  DiscoveryInv'
<1>1. cat \in [shop : Shops, name : Names, shelf : SUBSET Others] /\ Mirrored(cat.shop)
  BY DEF DiscoveryInv, CatTyped
<1>2. CatTyped'
  <2> DEFINE shop == [cat.shop EXCEPT !.combo = ~cat.shop.combo]
  <2>1. cat' = [cat EXCEPT !.shop = shop]
    BY DEF SaveCombo
  <2>2. shop \in Shops /\ shop.size = cat.shop.size /\ shop.shown = cat.shop.shown
    BY <1>1 DEF Shops
  <2>3. Mirrored(shop)
    <3>1. Actives(shop) = Actives(cat.shop)
      BY <2>2 DEF Actives
    <3> HIDE DEF shop
    <3>2. SizeOf(shop, TheProduct) = SizeOf(cat.shop, TheProduct)
      BY <3>1 DEF SizeOf
    <3> QED BY <1>1, <2>2, <3>1, <3>2 DEF Mirrored
  <2> HIDE DEF shop
  <2> QED BY <1>1, <2>1, <2>2, <2>3 DEF CatTyped
<1>3. /\ kb' = kb /\ task' = task /\ corpus' = corpus /\ reader' = reader /\ excused' = excused
      /\ dropping' = dropping + 1 /\ UNCHANGED customer
  BY DEF SaveCombo
<1>4. IndexTyped' /\ CorpusTrue'
  BY <1>3, DropAwaited DEF DiscoveryInv, IndexTyped
<1>5. KbFilled'
  BY <1>3 DEF DiscoveryInv, KbFilled
<1> QED BY <1>2, <1>3, <1>4, <1>5, CustomerStays DEF DiscoveryInv

LEMMA CatStays == ASSUME DiscoveryInv, UNCHANGED cat PROVE CatTyped'
BY DEF DiscoveryInv, CatTyped

(* Of a thread that goes on.                                               *)
LEMMA WorkerGoes ==
  ASSUME IndexTyped, NEW i \in Tasks, NEW w \in Worker, task' = [task EXCEPT ![i] = w],
         w.at # "idle" => w.name \in Names
  PROVE  /\ task' \in [Tasks -> Worker] /\ task'[i] = w /\ \A j \in Tasks : j # i => task'[j] = task[j]
         /\ \A j \in Tasks : task'[j].at # "idle" => task'[j].name \in Names
<1>1. task \in [Tasks -> Worker]
  BY DEF IndexTyped
<1>2. task' \in [Tasks -> Worker] /\ task'[i] = w /\ \A j \in Tasks : j # i => task'[j] = task[j]
  BY <1>1
<1> QED BY <1>2 DEF IndexTyped

LEMMA Moved ==
  ASSUME IndexTyped, NEW i \in Tasks, task[i].at # "idle", NEW at \in {"asking", "dead"}, Continues(i, at)
  PROVE  LET w == [task[i] EXCEPT !.at = at]
         IN task' = [task EXCEPT ![i] = w] /\ w \in Worker /\ w.at = at /\ w.name \in Names
<1>1. task \in [Tasks -> Worker] /\ task[i] \in Worker /\ task[i].name \in Names
  BY DEF IndexTyped
<1> QED BY <1>1 DEF Continues, Worker

LEMMA EnsureRowKeeps ==
  ASSUME DiscoveryInv, NEW i \in Tasks, EnsureRow(i)
  PROVE  DiscoveryInv'
<1>1. /\ cat' = cat /\ corpus' = corpus /\ reader' = reader /\ excused' = excused /\ UNCHANGED customer
      /\ task[i].at = "begun" /\ kb' = [kb EXCEPT !.there = TRUE, !.old = kb.there /\ kb.old]
  BY DEF EnsureRow
<1>2. kb \in Kb /\ dropping \in Nat /\ IndexTyped
  BY DEF DiscoveryInv, IndexTyped
<1>3. kb' \in Kb /\ kb'.terms = kb.terms /\ kb'.name = kb.name
  BY <1>1, <1>2 DEF Kb
<1>4. dropping' \in Nat /\ dropping' >= dropping
  BY <1>2 DEF EnsureRow
<1>5. PICK w \in Worker : /\ task' = [task EXCEPT ![i] = w]
                          /\ w.at # "idle" => w.name \in Names
                          /\ (kb.there /\ ~kb.old) \/ w.at = "asking"
  <2>1. CASE kb.there /\ ~kb.old
    <3>1. task' = [task EXCEPT ![i] = NoTask]
      BY <2>1 DEF EnsureRow
    <3> QED BY <2>1, <3>1 DEF NoTask, Worker
  <2>2. CASE ~(kb.there /\ ~kb.old)
    <3>1. Continues(i, "asking")
      BY <2>2 DEF EnsureRow
    <3> QED BY <1>1, <1>2, <3>1, Moved
  <2> QED BY <2>1, <2>2
<1>6. /\ task' \in [Tasks -> Worker] /\ task'[i] = w /\ \A j \in Tasks : j # i => task'[j] = task[j]
      /\ \A j \in Tasks : task'[j].at # "idle" => task'[j].name \in Names
  BY <1>2, <1>5, WorkerGoes
<1>7. IndexTyped'
  BY <1>1, <1>2, <1>3, <1>4, <1>6 DEF IndexTyped
<1>8. Truth' = Truth
  BY <1>1, <1>3, TruthStays
<1>9. CorpusTrue'
  BY <1>1, <1>2, <1>4, <1>8 DEF DiscoveryInv, CorpusTrue
<1>10. KbFilled'
  <2>1. CASE w.at = "asking"
    BY <1>6, <2>1 DEF KbFilled
  <2>2. CASE kb.there
    <3>1. \A j \in Tasks : task[j].at \in {"asking", "dead"} => task'[j] = task[j]
      BY <1>1, <1>6
    <3> QED BY <1>3, <2>2, <3>1 DEF DiscoveryInv, KbFilled
  <2> QED BY <1>5, <2>1, <2>2
<1> QED BY <1>1, <1>7, <1>9, <1>10, CatStays, CustomerStays DEF DiscoveryInv

LEMMA GenerateKeeps ==
  ASSUME DiscoveryInv, NEW i \in Tasks, Generate(i)
  PROVE  DiscoveryInv'
<1> DEFINE name == task[i].name
<1>1. PICK said \in SUBSET Slang[name] : SaveSynonyms(i, said)
  BY DEF Generate
<1>2. /\ cat' = cat /\ corpus' = corpus /\ reader' = reader /\ excused' = excused /\ UNCHANGED customer
      /\ task[i].at = "asking" /\ task' = [task EXCEPT ![i] = NoTask] /\ dropping' = dropping + 1
      /\ kb' = [there |-> TRUE, terms |-> TermsOf(name, said), old |-> FALSE, name |-> name]
  BY <1>1 DEF Generate, SaveSynonyms, Fills
<1>3. IndexTyped /\ name \in Names
  BY <1>2 DEF DiscoveryInv, IndexTyped
<1>4. kb' \in Kb
  <2>1. said \subseteq Texts /\ Boosts[name] \subseteq Texts /\ name \in Texts /\ CategoryOf[TheProduct] \in Texts
    BY <1>1, <1>3, DiscoveryAssumption
  <2>2. Tokens[name] \subseteq Texts
    BY <2>1, SearchAssumption
  <2>3. TermsOf(name, said) \subseteq Texts
    BY <2>1, <2>2 DEF TermsOf, Cleaned, Deterministic
  <2> QED BY <1>2, <1>3, <2>3 DEF Kb
<1>5. /\ task' \in [Tasks -> Worker] /\ \A j \in Tasks : task'[j].at # "idle" => task'[j].name \in Names
  <2>1. NoTask \in Worker /\ NoTask.at = "idle"
    BY DEF NoTask, Worker
  <2> QED BY <1>2, <1>3, <2>1, WorkerGoes
<1>6. IndexTyped' /\ CorpusTrue'
  BY <1>2, <1>3, <1>4, <1>5, DropAwaited DEF IndexTyped
<1>7. KbFilled'
  <2>1. TermsOf(name, said) = {} => TermsOf(name, {}) = {}
    BY DEF TermsOf, Cleaned
  <2> QED BY <1>2, <1>3, <2>1 DEF KbFilled, Mute
<1> QED BY <1>2, <1>6, <1>7, CatStays, CustomerStays DEF DiscoveryInv

LEMMA TaskDiesKeeps ==
  ASSUME DiscoveryInv, NEW i \in Tasks, TaskDies(i)
  PROVE  DiscoveryInv'
<1>1. /\ cat' = cat /\ kb' = kb /\ corpus' = corpus /\ reader' = reader /\ excused' = excused
      /\ dropping' = dropping /\ UNCHANGED customer /\ task[i].at # "idle" /\ Continues(i, "dead")
  BY DEF TaskDies
<1>2. IndexTyped
  BY DEF DiscoveryInv
<1>3. PICK w \in Worker : task' = [task EXCEPT ![i] = w] /\ w.at = "dead" /\ w.name \in Names
  BY <1>1, <1>2, Moved
<1>4. /\ task' \in [Tasks -> Worker] /\ task'[i] = w /\ \A j \in Tasks : j # i => task'[j] = task[j]
      /\ \A j \in Tasks : task'[j].at # "idle" => task'[j].name \in Names
  BY <1>2, <1>3, WorkerGoes
<1>5. IndexTyped'
  BY <1>1, <1>2, <1>4 DEF IndexTyped
<1>6. Truth' = Truth
  BY <1>1, TruthStays
<1>7. CorpusTrue' /\ KbFilled'
  BY <1>1, <1>3, <1>4, <1>6 DEF DiscoveryInv, CorpusTrue, KbFilled
<1> QED BY <1>1, <1>5, <1>7, CatStays, CustomerStays DEF DiscoveryInv

LEMMA AgesKeeps ==
  ASSUME DiscoveryInv, Ages
  PROVE  DiscoveryInv'
<1>1. /\ cat' = cat /\ task' = task /\ corpus' = corpus /\ reader' = reader /\ excused' = excused
      /\ dropping' = dropping /\ UNCHANGED customer /\ kb' = [kb EXCEPT !.old = TRUE]
  BY DEF Ages
<1>2. kb' \in Kb /\ kb'.terms = kb.terms /\ kb'.there = kb.there /\ kb'.name = kb.name
  BY <1>1 DEF DiscoveryInv, IndexTyped, Kb
<1>3. IndexTyped'
  BY <1>1, <1>2 DEF DiscoveryInv, IndexTyped
<1>4. Truth' = Truth
  BY <1>1, <1>2, TruthStays
<1>5. CorpusTrue' /\ KbFilled'
  BY <1>1, <1>2, <1>4 DEF DiscoveryInv, CorpusTrue, KbFilled
<1> QED BY <1>1, <1>3, <1>5, CatStays, CustomerStays DEF DiscoveryInv

LEMMA CacheKeeps ==
  ASSUME DiscoveryInv, ReadCorpus \/ StoreCorpus \/ DropCorpus \/ DropFails \/ Expire
  PROVE  DiscoveryInv'
<1>1. cat' = cat /\ kb' = kb /\ task' = task /\ UNCHANGED customer
  BY DEF ReadCorpus, StoreCorpus, DropCorpus, DropFails, Expire
<1>2. Truth' = Truth
  BY <1>1, TruthStays
<1>3. Truth \in Corpora /\ NoCorpus \in Corpora
  <2>1. Truth \in SUBSET Entry
    BY BuiltCorpus DEF Truth
  <2> QED BY <2>1 DEF Corpora
<1>4. /\ corpus \in Corpora /\ reader \in Corpora /\ dropping \in Nat /\ excused \in BOOLEAN
      /\ CorpusTrue
  BY DEF DiscoveryInv, IndexTyped
<1>5. /\ corpus' \in Corpora /\ reader' \in Corpora /\ dropping' \in Nat /\ excused' \in BOOLEAN
      /\ CorpusTrue'
  <2>1. CASE ReadCorpus
    BY <1>2, <1>3, <1>4, <2>1 DEF ReadCorpus, CorpusTrue
  <2>2. CASE StoreCorpus
    BY <1>2, <1>3, <1>4, <2>2 DEF StoreCorpus, CorpusTrue
  <2>3. CASE DropCorpus
    <3>1. dropping' \in Nat
      BY <1>4, <2>3 DEF DropCorpus
    <3>2. corpus' \in Corpora /\ reader' \in Corpora /\ excused' \in BOOLEAN
      BY <1>3, <1>4, <2>3 DEF DropCorpus
    <3>3. CorpusTrue'
      BY <2>3 DEF DropCorpus, CorpusTrue
    <3> QED BY <3>1, <3>2, <3>3
  <2>4. CASE DropFails
    <3>1. dropping' \in Nat
      BY <1>4, <2>4 DEF DropFails
    <3>2. corpus' \in Corpora /\ reader' \in Corpora /\ excused' \in BOOLEAN
      BY <1>3, <1>4, <2>4 DEF DropFails
    <3>3. CorpusTrue'
      BY <2>4 DEF DropFails, CorpusTrue
    <3> QED BY <3>1, <3>2, <3>3
  <2>5. CASE Expire
    BY <1>2, <1>3, <1>4, <2>5 DEF Expire, CorpusTrue
  <2> QED BY <2>1, <2>2, <2>3, <2>4, <2>5
<1>6. IndexTyped' /\ KbFilled'
  BY <1>1, <1>5 DEF DiscoveryInv, IndexTyped, KbFilled
<1> QED BY <1>1, <1>5, <1>6, CatStays, CustomerStays DEF DiscoveryInv

LEMMA ProposeKeeps ==
  ASSUME DiscoveryInv, Propose
  PROVE  DiscoveryInv'
<1>1. cat' = cat /\ UNCHANGED index /\ cart' = cart /\ seen' = seen
  BY DEF Propose
<1>2. card' \in CardRows
  <2>1. PICK a \in Asks, b \in Asks, build \in 1 .. 3 :
           card' = CASE build = 1 -> BuildAddToCart(cat.shop, a)
                     [] build = 2 -> BuildCartProposal(cat.shop, <<a, b>>)
                     [] OTHER     -> BuildEditCart(cat.shop, <<a, b>>)
    BY DEF Propose
  <2>2. cat.shop \in Shops
    BY DEF DiscoveryInv, CatTyped
  <2> QED BY <2>1, <2>2, BuiltCards
<1>3. CustomerTyped'
  BY <1>1, <1>2 DEF DiscoveryInv, CustomerTyped
<1>4. IndexTyped' /\ CorpusTrue' /\ KbFilled'
  BY <1>1, IndexStays
<1> QED BY <1>1, <1>3, <1>4, CatStays DEF DiscoveryInv

(* What a tap leaves of each line of the cart.                             *)
LEMMA TapIs ==
  ASSUME DiscoveryInv, Tap
  PROVE  /\ cart' \in [Items -> Nat] /\ card' \in CardRows
         /\ \A i \in Items : \/ cart'[i] = cart[i]
                             \/ cart'[i] = 0
                             \/ OnSale(cat.shop, i) /\ Holds(cat.shop, i, cart'[i])
<1>1. cat.shop \in Shops /\ cart \in [Items -> Nat] /\ card \in CardRows
  BY DEF DiscoveryInv, CatTyped, CustomerTyped
<1>2. card.lines \in Seq(CardLine) /\ card.lines # <<>> /\ card.type \in CardTypes
  BY <1>1 DEF Tap, CardRows
<1> DEFINE l == Head(card.lines)
<1>3. l \in CardLine /\ Tail(card.lines) \in Seq(CardLine)
  BY <1>2
<1>4. card' \in CardRows
  <2>1. <<>> \in Seq(CardLine)
    BY EmptySeq
  <2>2. NoCard \in CardRows
    BY <2>1 DEF NoCard, CardRows, CardTypes
  <2>3. [card EXCEPT !.lines = Tail(card.lines)] \in CardRows
    BY <1>1, <1>3 DEF CardRows
  <2> QED BY <2>2, <2>3 DEF Tap
<1>5. cart' = UpdateItem(cat.shop, cart, l) \/ cart' = AddItem(cat.shop, cart, l)
  BY DEF Tap
<1> HIDE DEF l
<1>6. CASE cart' = UpdateItem(cat.shop, cart, l)
  BY <1>1, <1>3, <1>4, <1>6, UpdateIs
<1>7. CASE cart' = AddItem(cat.shop, cart, l)
  BY <1>1, <1>3, <1>4, <1>7, AddIs
<1> QED BY <1>5, <1>6, <1>7

LEMMA TapKeeps ==
  ASSUME DiscoveryInv, Tap
  PROVE  DiscoveryInv'
<1>1. cat' = cat /\ UNCHANGED index /\ seen' = seen
  BY DEF Tap
<1>2. /\ cart' \in [Items -> Nat] /\ card' \in CardRows
      /\ \A i \in Items : \/ cart'[i] = cart[i]
                          \/ cart'[i] = 0
                          \/ OnSale(cat.shop, i) /\ Holds(cat.shop, i, cart'[i])
  BY TapIs
<1>3. Bounded(cart')
  <2> SUFFICES ASSUME NEW i \in Items, i # TheCombo PROVE cart'[i] <= MaxStock
    BY DEF Bounded
  <2>1. cat.shop \in Shops /\ cart[i] <= MaxStock /\ cart'[i] \in Nat
    BY <1>2 DEF DiscoveryInv, CatTyped, CustomerTyped, Bounded
  <2>2. CASE Holds(cat.shop, i, cart'[i])
    BY <2>1, <2>2, HeldIsBounded
  <2>3. 0 <= MaxStock
    BY ShopAssumption
  <2> QED BY <1>2, <2>1, <2>2, <2>3
<1>4. CustomerTyped'
  BY <1>1, <1>2, <1>3 DEF DiscoveryInv, CustomerTyped
<1>5. IndexTyped' /\ CorpusTrue' /\ KbFilled'
  BY <1>1, IndexStays
<1> QED BY <1>1, <1>4, <1>5, CatStays DEF DiscoveryInv

LEMMA SeenKeeps ==
  ASSUME DiscoveryInv, cat' = cat, UNCHANGED index, cart' = cart, card' = card, seen' \in Seen
  PROVE  DiscoveryInv'
<1>1. CustomerTyped'
  BY DEF DiscoveryInv, CustomerTyped
<1>2. IndexTyped' /\ CorpusTrue' /\ KbFilled'
  BY IndexStays
<1> QED BY <1>1, <1>2, CatStays DEF DiscoveryInv

LEMMA VisitKeeps ==
  ASSUME DiscoveryInv, NEW p \in Products, ViewProduct(p) \/ BuyProduct(p)
  PROVE  DiscoveryInv' /\ seen'.kept = seen.kept
<1>1. cat' = cat /\ UNCHANGED index /\ cart' = cart /\ card' = card
  BY DEF ViewProduct, BuyProduct
<1>2. seen' \in Seen /\ seen'.kept = seen.kept
  <2>1. seen \in Seen
    BY DEF DiscoveryInv, CustomerTyped
  <2>2. CASE seen' = [seen EXCEPT !.viewed = @ \cup {p}]
    BY <2>1, <2>2 DEF Seen
  <2>3. CASE seen' = [seen EXCEPT !.bought = @ \cup {p}]
    BY <2>1, <2>3 DEF Seen
  <2> QED BY <2>2, <2>3 DEF ViewProduct, BuyProduct
<1> QED BY <1>1, <1>2, SeenKeeps

LEMMA KeepIs ==
  ASSUME DiscoveryInv, NEW kept \in SUBSET Products, KeepFavourites(kept)
  PROVE  DiscoveryInv' /\ cat' = cat /\ seen'.kept = kept
<1>1. cat' = cat /\ UNCHANGED index /\ cart' = cart /\ card' = card
  BY DEF KeepFavourites
<1>2. seen' \in Seen /\ seen'.kept = kept
  <2>1. seen \in Seen
    BY DEF DiscoveryInv, CustomerTyped
  <2> QED BY <2>1 DEF KeepFavourites, Seen
<1> QED BY <1>1, <1>2, SeenKeeps

(* The three ways to change the favourites, and what each leaves of them.  *)
LEMMA FavouritesKeep ==
  ASSUME DiscoveryInv, NEW p \in Products, NEW list \in SUBSET Products,
         AddFavourite(p) \/ RemoveFavourite(p) \/ SyncFavourites(list)
  PROVE  /\ DiscoveryInv' /\ cat' = cat
         /\ seen.kept \subseteq seen'.kept \/ seen' = [seen EXCEPT !.kept = @ \ {p}]
<1>1. seen.kept \in SUBSET Products
  BY DEF DiscoveryInv, CustomerTyped, Seen
<1>2. CASE AddFavourite(p)
  <2>1. KeepFavourites(seen.kept \cup {p}) /\ seen.kept \cup {p} \in SUBSET Products
    BY <1>1, <1>2 DEF AddFavourite
  <2>2. DiscoveryInv' /\ cat' = cat /\ seen'.kept = seen.kept \cup {p}
    BY <2>1, KeepIs
  <2> QED BY <2>2
<1>3. CASE RemoveFavourite(p)
  <2>1. KeepFavourites(seen.kept \ {p}) /\ seen.kept \ {p} \in SUBSET Products
    BY <1>1, <1>3 DEF RemoveFavourite
  <2>2. DiscoveryInv' /\ cat' = cat
    BY <2>1, KeepIs
  <2> QED BY <2>1, <2>2 DEF KeepFavourites
<1>4. CASE SyncFavourites(list)
  <2> DEFINE kept == seen.kept \cup {q \in list : Active(cat, q)}
  <2>1. KeepFavourites(kept) /\ kept \in SUBSET Products
    BY <1>1, <1>4 DEF SyncFavourites
  <2>2. DiscoveryInv' /\ cat' = cat /\ seen'.kept = kept
    BY <2>1, KeepIs
  <2> QED BY <2>2
<1> QED BY <1>2, <1>3, <1>4

LEMMA StutterKeeps == ASSUME DiscoveryInv, UNCHANGED discoveryVars PROVE DiscoveryInv'
<1>1. cat' = cat /\ UNCHANGED index /\ UNCHANGED customer
  BY DEF discoveryVars
<1>2. IndexTyped' /\ CorpusTrue' /\ KbFilled'
  BY <1>1, IndexStays
<1> QED BY <1>1, <1>2, CatStays, CustomerStays DEF DiscoveryInv

LEMMA DiscoveryStep == ASSUME DiscoveryInv, [DiscoveryNext]_discoveryVars PROVE DiscoveryInv'
<1>1. ASSUME Edits PROVE DiscoveryInv'
  <2>1. cat.name \in Names /\ cat.shop.listed \in BOOLEAN
    BY DEF DiscoveryInv, CatTyped, Shops
  <2>2. (~cat.shop.listed) \in BOOLEAN
    OBVIOUS
  <2> QED
    BY <1>1, <2>1, <2>2, SetSizeKeeps, RestockKeeps, SaveProductKeeps, SaveComboKeeps DEF Edits
<1>2. ASSUME NEW p \in Products, ViewProduct(p) \/ BuyProduct(p) \/ AddFavourite(p) \/ RemoveFavourite(p) PROVE DiscoveryInv'
  <2>1. {} \in SUBSET Products
    OBVIOUS
  <2> QED BY <1>2, <2>1, VisitKeeps, FavouritesKeep
<1>3. ASSUME NEW list \in SUBSET Products, SyncFavourites(list) PROVE DiscoveryInv'
  BY <1>3, FavouritesKeep DEF Products
<1>4. ASSUME NEW i \in Tasks, TaskDies(i) \/ EnsureRow(i) \/ Generate(i) PROVE DiscoveryInv'
  BY <1>4, TaskDiesKeeps, EnsureRowKeeps, GenerateKeeps
<1>5. ASSUME ReadCorpus \/ StoreCorpus \/ DropCorpus \/ DropFails \/ Expire PROVE DiscoveryInv'
  BY <1>5, CacheKeeps
<1> QED
  BY <1>1, <1>2, <1>3, <1>4, <1>5, ProposeKeeps, AgesKeeps, TapKeeps, StutterKeeps DEF DiscoveryNext

LEMMA DiscoveryAlways == DiscoverySpec => []DiscoveryInv
<1>1. DiscoveryInv /\ [DiscoveryNext]_discoveryVars => DiscoveryInv'
  BY DiscoveryStep
<1> QED BY <1>1, DiscoveryStarts, PTL DEF DiscoverySpec

LEMMA RowIsFull == DiscoveryInv => RowFull
<1> SUFFICES ASSUME DiscoveryInv PROVE RowFull
  OBVIOUS
<1> DEFINE taste == [bought |-> seen.bought, viewed |-> seen.viewed, kept |-> seen.kept,
                     holds |-> {p \in {TheProduct} : \E i \in Sizes \cup {TheProduct} : cart[i] > 0}]
<1>1. taste \in Tastes
  <2>1. {p \in {TheProduct} : \E i \in Sizes \cup {TheProduct} : cart[i] > 0} \in SUBSET Products
    BY DEF Products
  <2>2. seen \in Seen
    BY DEF DiscoveryInv, CustomerTyped
  <2> QED BY <2>1, <2>2 DEF Seen, Tastes
<1>2. \A limit \in 1 .. MaxRow : limit \in Nat
  OBVIOUS
<1>3. \A limit \in 1 .. MaxRow :
         LET row == Recommend(cat, taste, limit)
         IN  /\ row \subseteq LiveProducts(cat)
             /\ Cardinality(row) = limit \/ row = LiveProducts(cat)
             /\ taste.bought \cup taste.kept \cup taste.viewed \cup taste.holds # {} =>
                  \A p \in row, u \in LiveProducts(cat) \ row : Liking(taste, u) <= Liking(taste, p)
  <2> HIDE DEF taste
  <2> QED BY <1>1, <1>2, RowIs
<1> QED BY <1>3 DEF RowFull

(* Whatever the catalogue, the words and their likenesses: what is cached  *)
(* is true or about to be dropped, a match outranks padding, the personal  *)
(* row is full and ranked, and what a tool says is in stock can be         *)
(* proposed at the price it said.                                          *)
THEOREM WhatIsShownIsTrue == DiscoverySpec => []ShownTrue
<1>1. DiscoveryInv => ShownTrue
  <2> SUFFICES ASSUME DiscoveryInv PROVE ShownTrue
    OBVIOUS
  <2>1. DiscoveryTypeOK
    <3>1. cat.shop \in Shops /\ cat.name \in Names /\ cat.shelf \subseteq Others
      BY DEF DiscoveryInv, CatTyped
    <3>2. kb.terms \subseteq Texts /\ dropping \in Nat
      BY DEF DiscoveryInv, IndexTyped, Kb
    <3>3. \A i \in DOMAIN card.lines : card.lines[i].qty \in 0 .. MaxPropose
      <4>1. card.lines \in Seq(CardLine)
        BY DEF DiscoveryInv, CustomerTyped, CardRows
      <4>2. \A i \in DOMAIN card.lines : card.lines[i] \in CardLine
        BY <4>1, ElementOfSeq, LenProperties
      <4> QED BY <4>2 DEF CardLine
    <3>4. \A i \in Items : cart[i] \in Nat /\ (i # TheCombo => cart[i] <= MaxStock)
      BY DEF DiscoveryInv, CustomerTyped, Bounded
    <3> QED BY <3>1, <3>2, <3>3, <3>4 DEF DiscoveryTypeOK
  <2>2. CorpusTrue /\ KbFilled
    BY DEF DiscoveryInv
  <2>3. MatchesOutrank
    <3>1. corpus = NoCorpus \/ corpus \in SUBSET Entry
      BY DEF DiscoveryInv, IndexTyped, Corpora
    <3> QED BY <3>1, MatchesDoOutrank
  <2>4. ShownCanBeProposed
    BY ProposedAsShown DEF DiscoveryInv, CatTyped
  <2> QED BY <2>1, <2>2, <2>3, <2>4, RowIsFull DEF ShownTrue
<1> QED BY <1>1, DiscoveryAlways, PTL

(* A tap puts in the cart no more than the stock at the tap allows; a      *)
(* favourite is lost only by being taken off, alone.                       *)
THEOREM WhatIsTappedHolds == DiscoverySpec => TapsHold
<1>1. ASSUME DiscoveryInv, [DiscoveryNext]_discoveryVars
      PROVE  \A i \in Items : cart'[i] > cart[i] => OnSale(cat.shop, i) /\ Holds(cat.shop, i, cart'[i])
  <2>1. \A i \in Items : cart[i] \in Nat
    BY <1>1 DEF DiscoveryInv, CustomerTyped
  <2>2. CASE Tap
    BY <1>1, <2>1, <2>2, TapIs
  <2>3. CASE cart' = cart
    BY <2>1, <2>3
  <2>4. Tap \/ cart' = cart
    BY <1>1 DEF DiscoveryNext, discoveryVars, customer, Edits, SetSize, EditSize, Restock, SaveProduct,
       SaveCombo, Propose, Ages, TaskDies, ViewProduct, BuyProduct, AddFavourite, RemoveFavourite, SyncFavourites,
       KeepFavourites, EnsureRow, Generate, ReadCorpus, StoreCorpus, DropCorpus, DropFails, Expire
  <2> QED BY <2>2, <2>3, <2>4
<1>2. ASSUME DiscoveryInv, [DiscoveryNext]_discoveryVars
      PROVE  \A p \in seen.kept : \/ p \in FavouriteList'
                                  \/ p \in seen'.kept /\ (p = TheProduct /\ ~cat'.shop.listed)
                                  \/ seen' = [seen EXCEPT !.kept = @ \ {p}]
  <2>1. \A p \in seen.kept : p \in Products /\ p # TheCombo
    BY <1>2, SearchAssumption DEF DiscoveryInv, CustomerTyped, Seen, Products, TheProduct, TheCombo
  <2>2. ASSUME NEW p \in seen.kept, p \in seen'.kept
        PROVE  p \in FavouriteList' \/ (p = TheProduct /\ ~cat'.shop.listed)
    <3>1. Active(cat', p) \/ (p = TheProduct /\ ~cat'.shop.listed)
      BY <2>1 DEF Active
    <3> QED BY <2>2, <3>1 DEF FavouriteList
  <2>3. ASSUME NEW p \in Products, AddFavourite(p) \/ RemoveFavourite(p)
        PROVE  seen.kept \subseteq seen'.kept \/ seen' = [seen EXCEPT !.kept = @ \ {p}]
    <3>1. {} \in SUBSET Products
      OBVIOUS
    <3> QED BY <1>2, <2>3, <3>1, FavouritesKeep
  <2>4. ASSUME NEW list \in SUBSET Products, SyncFavourites(list)
        PROVE  seen.kept \subseteq seen'.kept
    <3>1. KeepFavourites(seen.kept \cup {q \in list : Active(cat, q)})
      BY <2>4 DEF SyncFavourites
    <3>2. seen.kept \in SUBSET Products
      BY <1>2 DEF DiscoveryInv, CustomerTyped, Seen
    <3>3. seen'.kept = seen.kept \cup {q \in list : Active(cat, q)}
      BY <1>2, <3>1, <3>2, KeepIs
    <3> QED BY <3>3
  <2>5. ASSUME NEW p \in Products, ViewProduct(p) \/ BuyProduct(p) PROVE seen'.kept = seen.kept
    BY <1>2, <2>5, VisitKeeps
  <2>6. \/ seen' = seen
        \/ \E p \in Products : ViewProduct(p) \/ BuyProduct(p) \/ AddFavourite(p) \/ RemoveFavourite(p)
        \/ \E list \in SUBSET Products : SyncFavourites(list)
    BY <1>2 DEF DiscoveryNext, discoveryVars, customer, Edits, SetSize, EditSize, Restock, SaveProduct,
       SaveCombo, Propose, Ages, TaskDies, Tap, EnsureRow, Generate, ReadCorpus, StoreCorpus,
       DropCorpus, DropFails, Expire
  <2>7. seen.kept \subseteq seen'.kept \/ \E p \in Products : seen' = [seen EXCEPT !.kept = @ \ {p}]
    BY <2>3, <2>4, <2>5, <2>6
  <2>8. ASSUME NEW q \in Products, seen' = [seen EXCEPT !.kept = @ \ {q}], NEW p \in seen.kept, p # q
        PROVE  p \in seen'.kept
    BY <1>2, <2>8 DEF DiscoveryInv, CustomerTyped, Seen
  <2> QED BY <2>2, <2>7, <2>8
<1>3. DiscoveryInv /\ [DiscoveryNext]_discoveryVars =>
        [\A i \in Items : cart'[i] > cart[i] => OnSale(cat.shop, i) /\ Holds(cat.shop, i, cart'[i])]_discoveryVars
  BY <1>1
<1>4. DiscoveryInv /\ [DiscoveryNext]_discoveryVars =>
        [\A p \in seen.kept : \/ p \in FavouriteList'
                              \/ p \in seen'.kept /\ (p = TheProduct /\ ~cat'.shop.listed)
                              \/ seen' = [seen EXCEPT !.kept = @ \ {p}]]_discoveryVars
  BY <1>2
<1> QED
  BY <1>3, <1>4, DiscoveryAlways, PTL DEF DiscoverySpec, TapsHold, TapsAreChecked, FavouritesKept
=============================================================================
