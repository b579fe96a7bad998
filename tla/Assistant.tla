----------------------------- MODULE Assistant ------------------------------
(***************************************************************************)
(* One customer's chat with the assistant and with the team (assistant/    *)
(* views.py, agent.py).                                                    *)
(*                                                                         *)
(* A request of the customer takes the account's lock in the cache, reads  *)
(* the thread's row, saves the question, asks the language model for a few *)
(* rounds of tool calls, and saves the answer; each statement commits by   *)
(* itself.  Staff answer in the thread, which silences the assistant, and  *)
(* edit the thread by a form that saves the whole row as it was read.      *)
(* A worker may die at any step; its lock then lapses.                     *)
(*                                                                         *)
(* The row keeps when the assistant was paused: here not at all, for less  *)
(* than HANDOFF_IDLE_HOURS (live), or for longer (lapsed).  The language   *)
(* model says anything; what its tools tell and propose is in Discovery.   *)
(***************************************************************************)
EXTENDS Naturals, Sequences

CONSTANTS
  MaxRounds,  (* MAX_ITERATIONS, 4.                                        *)
  MaxTurns,   (* BOUND: requests of the customer.                          *)
  MaxDesks,   (* BOUND: requests of staff.                                 *)
  MaxActs     (* BOUND: what the clock and deaths do.                      *)

ASSUME ChatAssumption ==
  MaxRounds \in Nat \ {0} /\ {MaxTurns, MaxDesks, MaxActs} \subseteq Nat

VARIABLES
  lock,       (* ngu:chat:inflight of the account: the turn that set it.   *)
  thread,     (* AssistantConversation: [paused, needs].                   *)
  log,        (* AssistantMessage rows of the thread, oldest first.        *)
  turn,       (* What each request of the customer has read and got.       *)
  desk,       (* What each request of staff has read, and is to write.     *)
  loose,      (* History: a flag was written as an older copy had it.      *)
  dismissed,  (* History: messages when staff last took the flag off.      *)
  acts

vars == <<lock, thread, log, turn, desk, loose, dismissed, acts>>

(* Requests, in the order in which they come.                              *)
Turns  == 1 .. MaxTurns
Desks  == 1 .. MaxDesks
Nobody == 0

Fresh   == [paused |-> "no", needs |-> FALSE]
Unasked == [at |-> "idle", row |-> Fresh, round |-> 0, escalate |-> FALSE, reason |-> "none"]
NoForm  == [at |-> "idle", row |-> Fresh, form |-> "none", seen |-> 0]

Failures == {"llm_unavailable", "llm_error", "loop_exhausted"}
Reasons  == Failures \cup {"none", "ok", "customer_asked"}

Init ==
  /\ lock = Nobody /\ thread = Fresh /\ log = <<>>
  /\ turn = [r \in Turns |-> Unasked] /\ desk = [s \in Desks |-> NoForm]
  /\ loose = FALSE /\ dismissed = 0 /\ acts = 0

Message(role, by, kind) == [role |-> role, by |-> by, kind |-> kind]

Post(role, by, kind) == log' = Append(log, Message(role, by, kind))

KeepThread == UNCHANGED <<thread, loose, dismissed>>

(***************************************************************************)
(* A request of the customer                                               *)
(***************************************************************************)
Goes(r, t) == turn' = [turn EXCEPT ![r] = t]
Moves(r, at) == Goes(r, [turn[r] EXCEPT !.at = at])

(* cache.add; the one that finds it set is refused and has saved nothing.  *)
ClaimTurn(r) == lock' = IF lock = Nobody THEN r ELSE lock

(* The thread's row is read once the lock is taken; in between the request *)
(* does nothing that another could tell.                                   *)
BeginTurn(r) ==
  /\ turn[r].at = "idle" /\ \A q \in 1 .. r - 1 : turn[q].at # "idle"
  /\ ClaimTurn(r)
  /\ Goes(r, [turn[r] EXCEPT !.at = IF lock' = r THEN "read" ELSE "ended", !.row = IF lock' = r THEN thread ELSE @])
  /\ UNCHANGED <<log, desk>> /\ KeepThread

(* While somebody of the team is on the thread the assistant stays out.    *)
PostHeld(r) ==
  /\ turn[r].at = "read" /\ turn[r].row.paused = "live"
  /\ Post("user", r, "held")
  /\ Moves(r, "held")
  /\ UNCHANGED <<lock, desk>> /\ KeepThread

(* As a bug would have it: a thread the team is on is not flagged.         *)
FlagUnlessPaused(r, row) ==
  /\ thread' = IF turn[r].row.needs \/ row.paused = "live" THEN row ELSE [row EXCEPT !.needs = TRUE]
  /\ loose' = (loose \/ (turn[r].row.needs /\ ~thread.needs))
(* The flag is raised, unless the copy of the row has it already.          *)
Flag(r, row) ==
  /\ thread' = IF turn[r].row.needs THEN row ELSE [row EXCEPT !.needs = TRUE]
  /\ loose' = (loose \/ (turn[r].row.needs /\ ~thread.needs))

FlagHeld(r) ==
  /\ turn[r].at = "held"
  /\ Flag(r, thread)
  /\ Goes(r, [Unasked EXCEPT !.at = "done"])
  /\ UNCHANGED <<lock, log, desk, dismissed>>

PostQuestion(r) ==
  /\ turn[r].at = "read" /\ turn[r].row.paused # "live"
  /\ Post("user", r, "plain")
  /\ \/ Goes(r, [turn[r] EXCEPT !.at = "asking", !.round = 1])
     \/ Goes(r, [turn[r] EXCEPT !.at = "settling", !.reason = "llm_unavailable", !.escalate = TRUE])
  /\ UNCHANGED <<lock, desk>> /\ KeepThread

(***************************************************************************)
(* The rounds of Agent.run                                                 *)
(***************************************************************************)
Thinks(r, t) == Goes(r, t) /\ UNCHANGED <<lock, log, desk>> /\ KeepThread

Settled(t, reason) == [t EXCEPT !.at = "settling", !.reason = reason, !.round = 0]
(* As a bug would have it: the exception leaves the request.               *)
FailsLoudly(t, reason) == [t EXCEPT !.at = "done", !.round = 0, !.escalate = FALSE]
Fails(t, reason) == [Settled(t, reason) EXCEPT !.escalate = FALSE]

LastRound(t) == t.round >= MaxRounds

(* The model's words and calls.  awaiting: a call has a result it has to   *)
(* answer for (a read tool, a refused action, a name that is no tool),     *)
(* which calls for another round, as does a round with no words; the last  *)
(* round answers with what it has, or apologises.                          *)
Round(r) ==
  /\ turn[r].at = "asking"
  /\ \E awaiting, escalate, words \in BOOLEAN :
       LET t == [turn[r] EXCEPT !.escalate = @ \/ escalate]
       IN Thinks(r, IF ~LastRound(t) /\ (awaiting \/ ~words) THEN [t EXCEPT !.round = @ + 1]
                    ELSE IF ~words THEN Fails(t, "loop_exhausted")
                    ELSE Settled(t, IF t.escalate THEN "customer_asked" ELSE "ok"))

CompletionFails(r) == turn[r].at = "asking" /\ Thinks(r, Fails(turn[r], "llm_error"))

(***************************************************************************)
(* _finalize_turn and the way out                                          *)
(***************************************************************************)
(* As a bug would have it: the whole row is saved, as it was read.         *)
EscalateWhole(r) ==
  IF turn[r].reason = "customer_asked" THEN Flag(r, turn[r].row) ELSE UNCHANGED <<thread, loose>>
(* Only when the customer asked for a human, and only that column.         *)
Escalate(r) ==
  IF turn[r].reason = "customer_asked" THEN Flag(r, thread) ELSE UNCHANGED <<thread, loose>>

Finalize(r) ==
  /\ turn[r].at = "settling"
  /\ Escalate(r)
  /\ Moves(r, "answering")
  /\ UNCHANGED <<lock, log, desk, dismissed>>

(* Of the message's meta the model keeps whether a human was asked for.    *)
Answer(r) ==
  /\ turn[r].at = "answering"
  /\ LET asked == turn[r].reason = "customer_asked"
     IN /\ Post("assistant", r, "plain")
        /\ Goes(r, [Unasked EXCEPT !.at = "done", !.reason = IF asked THEN "customer_asked" ELSE "none"])
  /\ UNCHANGED <<lock, desk>> /\ KeepThread

(* cache.delete, whoever set it.                                           *)
ReleaseTurn(r) ==
  /\ turn[r].at = "done"
  /\ lock' = Nobody
  /\ Moves(r, "ended")
  /\ UNCHANGED <<log, desk>> /\ KeepThread

Die(r) ==
  /\ turn[r].at \notin {"idle", "ended", "dead"}
  /\ Goes(r, [Unasked EXCEPT !.at = "dead"])
  /\ UNCHANGED <<lock, log, desk>> /\ KeepThread

(* INFLIGHT_TTL_SECONDS outlast any turn that lives.                       *)
LockLapses ==
  /\ \E r \in Turns : lock = r /\ turn[r].at = "dead"
  /\ lock' = Nobody
  /\ UNCHANGED <<log, turn, desk>> /\ KeepThread

(***************************************************************************)
(* Staff                                                                   *)
(***************************************************************************)
Sits(s, form) == desk' = [desk EXCEPT ![s] = form]
Leaves(s) == Sits(s, [NoForm EXCEPT !.at = "ended"])

(* An answer, or a form of AdminConversationPatchView: the flag on or off, *)
(* or back to the assistant (ai_paused, or resolved, or archived).         *)
Forms == {"reply", "flag", "unflag", "release"}

OpenThread(s) ==
  /\ desk[s].at = "idle" /\ \A q \in 1 .. s - 1 : desk[q].at # "idle"
  /\ \E form \in Forms :
       Sits(s, [at |-> IF form = "reply" THEN "reply" ELSE "form", row |-> thread, form |-> form, seen |-> Len(log)])
  /\ UNCHANGED <<lock, log, turn>> /\ KeepThread

(* The row is saved over a flag or a question that came after it was read. *)
SaveThread(s, row) ==
  /\ thread' = row
  /\ loose' = \/ loose
              \/ /\ thread.needs /\ ~row.needs
                 /\ \/ ~desk[s].row.needs
                    \/ \E i \in DOMAIN log : i > desk[s].seen /\ log[i].role = "user"
  /\ UNCHANGED <<lock, log, turn>>

PostReply(s) ==
  /\ desk[s].at = "reply"
  /\ Post("admin", s, "plain")
  /\ Sits(s, [desk[s] EXCEPT !.at = "pause"])
  /\ UNCHANGED <<lock, turn>> /\ KeepThread

(* pause_ai, and the flag off if the copy has it on.                       *)
SaveReply(s) ==
  /\ desk[s].at = "pause"
  /\ SaveThread(s, [paused |-> "live", needs |-> thread.needs /\ ~desk[s].row.needs])
  /\ Leaves(s)
  /\ UNCHANGED dismissed

(* The serializer saves every column of the copy.                          *)
Filled(s) ==
  CASE desk[s].form = "flag"   -> [desk[s].row EXCEPT !.needs = TRUE]
    [] desk[s].form = "unflag" -> [desk[s].row EXCEPT !.needs = FALSE]
    [] OTHER                   -> desk[s].row

Releases(s) == desk[s].form = "release" /\ desk[s].row.paused # "no"

SaveForm(s) ==
  /\ desk[s].at = "form"
  /\ SaveThread(s, Filled(s))
  /\ IF Releases(s) THEN Sits(s, [desk[s] EXCEPT !.at = "release"]) ELSE Leaves(s)
  /\ dismissed' = IF desk[s].form = "unflag" /\ desk[s].seen > dismissed
                  THEN desk[s].seen ELSE dismissed

(* resume_ai, when the copy was paused.                                    *)
SaveRelease(s) ==
  /\ desk[s].at = "release"
  /\ SaveThread(s, [thread EXCEPT !.paused = "no"])
  /\ Leaves(s)
  /\ UNCHANGED dismissed

Lapsed(row) == [row EXCEPT !.paused = IF @ = "live" THEN "lapsed" ELSE @]

(* HANDOFF_IDLE_HOURS after the last answer of the team: for the row and   *)
(* for the copies of its time that are still to be written.                *)
HandoffLapses ==
  /\ thread.paused = "live" \/ \E s \in Desks : desk[s].row.paused = "live"
  /\ thread' = Lapsed(thread)
  /\ desk' = [s \in Desks |-> [desk[s] EXCEPT !.row = Lapsed(@)]]
  /\ UNCHANGED <<lock, log, turn, loose, dismissed>>

-----------------------------------------------------------------------------
TurnStep(r) ==
  \/ PostHeld(r) \/ FlagHeld(r) \/ PostQuestion(r) \/ Round(r) \/ CompletionFails(r)
  \/ Finalize(r) \/ Answer(r) \/ ReleaseTurn(r)

DeskStep(s) == PostReply(s) \/ SaveReply(s) \/ SaveForm(s) \/ SaveRelease(s)

(* What comes from without, in any order but a few times.                  *)
Events == (\E r \in Turns : Die(r)) \/ HandoffLapses

Next ==
  \/ /\ \/ \E r \in Turns : BeginTurn(r) \/ TurnStep(r)
        \/ \E s \in Desks : OpenThread(s) \/ DeskStep(s)
        \/ LockLapses
     /\ UNCHANGED acts
  \/ Events /\ acts < MaxActs /\ acts' = acts + 1

Fairness ==
  /\ \A r \in Turns : WF_vars(TurnStep(r) /\ UNCHANGED acts)
  /\ WF_vars(LockLapses /\ UNCHANGED acts)

Spec == Init /\ [][Next]_vars /\ Fairness
-----------------------------------------------------------------------------
ChatTypeOK ==
  /\ lock \in Turns \cup {Nobody}
  /\ thread \in [paused : {"no", "live", "lapsed"}, needs : BOOLEAN]
  /\ \A i \in DOMAIN log : log[i].by \in IF log[i].role = "admin" THEN Desks ELSE Turns
  /\ \A r \in Turns : turn[r].round \in 0 .. MaxRounds /\ turn[r].reason \in Reasons
  /\ \A s \in Desks : desk[s].form \in Forms \cup {"none"} /\ desk[s].seen \in 0 .. Len(log)
  /\ dismissed \in 0 .. Len(log)

Asked(r)    == \E i \in DOMAIN log : log[i].role = "user" /\ log[i].by = r /\ log[i].kind = "plain"
Answered(r) == \E i \in DOMAIN log : log[i].role = "assistant" /\ log[i].by = r
Pending(r)  == Asked(r) /\ ~Answered(r) /\ turn[r].at # "dead"

(* The assistant answers one question of an account at a time: in the      *)
(* thread no two questions wait for it, and the one that does holds the    *)
(* lock, so the next is refused before it is saved.                        *)
OneQuestionAtATime == \A r \in Turns : Pending(r) => lock = r

(* A customer who waits for the team is seen: a message it left while the  *)
(* team was on the thread, or a question that asked for a human, with no   *)
(* word of the team since, keeps the thread flagged until staff take the   *)
(* flag off.  Not so for a request whose worker died, nor when the flag    *)
(* was written as an older copy of the row had it.                         *)
WaitsForTeam(i) ==
  /\ log[i].role = "user" /\ i > dismissed
  /\ LET t == turn[log[i].by]
     IN \/ log[i].kind = "held" /\ t.at \in {"done", "ended"}
        \/ t.reason = "customer_asked" /\ t.at \in {"answering", "done", "ended"}
  /\ \A j \in DOMAIN log : j > i => log[j].role # "admin"

WaitingIsSeen == loose \/ thread.needs \/ \A i \in DOMAIN log : ~WaitsForTeam(i)

(* The assistant's own troubles are not the team's: a provider that fails, *)
(* a loop that runs out and a model that is not there raise no flag.       *)
TroubleRaisesNoFlag ==
  [][~thread.needs /\ thread'.needs =>
       \A r \in Turns : turn'[r].at = "answering" /\ turn[r].at = "settling" => turn[r].reason \notin Failures]_vars

(* The silence of the assistant ends when the clock runs out, or by staff: *)
(* handed back, closed, or by a form opened before it began.  No request   *)
(* of the customer ends it, whatever it read and whenever it saves.        *)
PauseKept ==
  [][thread.paused # "no" /\ thread'.paused = "no" =>
       \E s \in Desks : \/ desk[s].at = "release"
                        \/ desk[s].at = "form" /\ desk[s].row.paused = "no"]_vars

(* A question the assistant takes is answered, if its worker lives.        *)
QuestionsAreAnswered == \A r \in Turns : turn[r].at = "asking" ~> Answered(r) \/ turn[r].at = "dead"

(* The lock is always given back, by the turn or by the clock.             *)
LockGivenBack == lock # Nobody ~> lock = Nobody

(* Nobody is answered twice at once, and nobody who waits is overlooked.   *)
ThreadSound == ChatTypeOK /\ OneQuestionAtATime /\ WaitingIsSeen

(* The flag and the silence mean what staff take them for.                 *)
HandoffMeans == TroubleRaisesNoFlag /\ PauseKept

(* A turn comes to its end, and so does its lock.                          *)
TurnsEnd == QuestionsAreAnswered /\ LockGivenBack

=============================================================================
