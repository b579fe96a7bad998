---------------------------- MODULE AnonCounters ----------------------------
(***************************************************************************)
(* Anonymous traffic (analytics/anon.py): a visit only bumps counters of   *)
(* its day, in Redis, and a job drains them into DailyAnonStat.            *)
(*                                                                         *)
(* A pipeline is one atomic step of Redis; between the four of a drain     *)
(* (read the index, take the counts, store them, delete the keys) visits   *)
(* arrive, the other job drains the same day, or the process dies.         *)
(***************************************************************************)
EXTENDS Naturals, FiniteSets, Sequences, FiniteSetsExt

CONSTANTS
  Jobs,     (* The scheduler's jobs, each never run twice at once.         *)
  Visits,   (* Requests: [metric, zero, dims], dims with the total "".     *)
  MaxDay,   (* BOUND: days.                                                *)
  Ttl       (* Days after which Redis drops the counters of a day.         *)

(* _device: every request has exactly one.                                 *)
Devices == {"bot", "tablet", "mobile", "desktop"}

ASSUME AnonAssumption ==
  /\ IsFiniteSet(Jobs) /\ MaxDay \in Nat \ {0} /\ Ttl \in Nat \ {0}
  /\ \A v \in Visits : /\ "" \in v.dims /\ v.zero \in BOOLEAN
                      /\ \E x \in Devices : v.dims \cap Devices = {x}

VARIABLES
  today,    (* The local date.                                             *)
  sent,     (* History: [day -> [counter -> hits]].                        *)
  buffer,   (* Redis: the counters of each day, 0 when there is no key.    *)
  index,    (* Redis: the counters of each day that changed.               *)
  stat,     (* DailyAnonStat.                                              *)
  drain,    (* [job -> [members, taken]]: what its drain holds.            *)
  raced     (* History: days a visit or a crash met a drain half way, or   *)
            (* that Redis dropped.                                         *)

anon == <<sent, buffer, index, stat, drain, raced>>

Days    == 1 .. MaxDay
Metrics == {"page_view", "search", "search_zero_result"}

(* The counters a request bumps: each of its dimensions under its metric,  *)
(* and under the zero-result metric too when its search found nothing.     *)
Bumps(v) ==
  IF v.metric \notin Metrics THEN {}
  ELSE ({v.metric} \cup (IF v.metric = "search" /\ v.zero THEN {"search_zero_result"} ELSE {}))
         \X v.dims

Counters == UNION {Bumps(v) : v \in Visits}
Zero     == [c \in Counters |-> 0]
Idle     == [members |-> {}, taken |-> Zero]

AnonInit ==
  /\ today = 1
  /\ sent = [d \in Days |-> Zero] /\ buffer = sent /\ stat = sent
  /\ index = [d \in Days |-> {}]
  /\ drain = [j \in Jobs |-> Idle]
  /\ raced = {}

AnonTypeOK ==
  /\ today \in Days
  /\ \A f \in {sent, buffer, stat} : \A d \in Days : f[d] \in [Counters -> Nat]
  /\ index \in [Days -> SUBSET Counters]
  /\ drain \in [Jobs -> [members : SUBSET Counters, taken : [Counters -> Nat]]]
  /\ raced \subseteq Days

Plus(f, g) == [c \in Counters |-> f[c] + g[c]]
Hit(v)     == [c \in Counters |-> IF c \in Bumps(v) THEN 1 ELSE 0]

(***************************************************************************)
(* A visit.  "open" are the days some drain is half way through.           *)
(***************************************************************************)
RecordAnon(v, open) ==
  /\ Bumps(v) # {}
  /\ sent'   = [sent EXCEPT ![today] = Plus(@, Hit(v))]
  /\ buffer' = [buffer EXCEPT ![today] = Plus(@, Hit(v))]
  /\ index'  = [index EXCEPT ![today] = @ \cup Bumps(v)]
  /\ raced'  = raced \cup ({today} \cap open)
  /\ UNCHANGED <<stat, drain>>

(***************************************************************************)
(* The drain of day d by job j.                                            *)
(***************************************************************************)
ReadIndex(j, d) ==
  /\ drain' = [drain EXCEPT ![j].members = index[d]]
  /\ UNCHANGED <<sent, buffer, index, stat, raced>>

(* As a bug would have it: GET, for the DEL to come.                       *)
TakeByGet(j, d) ==
  /\ drain' = [drain EXCEPT ![j].taken =
                 [c \in Counters |-> IF c \in drain[j].members THEN buffer[d][c] ELSE 0]]
  /\ UNCHANGED <<sent, buffer, index, stat, raced>>
TakeCounts(j, d) ==
  /\ drain'  = [drain EXCEPT ![j].taken =
                 [c \in Counters |-> IF c \in drain[j].members THEN buffer[d][c] ELSE 0]]
  /\ buffer' = [buffer EXCEPT ![d] =
                 [c \in Counters |-> IF c \in drain[j].members THEN 0 ELSE @[c]]]
  /\ UNCHANGED <<sent, index, stat, raced>>

UpsertCounts(j, d) ==
  /\ stat'  = [stat EXCEPT ![d] = Plus(@, drain[j].taken)]
  /\ drain' = [drain EXCEPT ![j].taken = Zero]
  /\ UNCHANGED <<sent, buffer, index, raced>>

(* Deletes the keys it took, whatever they hold by now, and the index.     *)
CleanUp(j, d) ==
  /\ buffer' = [buffer EXCEPT ![d] =
                 [c \in Counters |-> IF c \in drain[j].members THEN 0 ELSE @[c]]]
  /\ index'  = [index EXCEPT ![d] = {}]
  /\ drain'  = [drain EXCEPT ![j] = Idle]
  /\ UNCHANGED <<sent, stat, raced>>

(* The process of a drain dies: what it holds is gone.                     *)
DrainDies(j, d) ==
  /\ raced' = IF drain[j].taken # Zero THEN raced \cup {d} ELSE raced
  /\ drain' = [drain EXCEPT ![j] = Idle]
  /\ UNCHANGED <<sent, buffer, index, stat>>

ExpireCounters(d) ==
  /\ today >= d + Ttl
  /\ index[d] # {} \/ buffer[d] # Zero
  /\ raced'  = IF buffer[d] # Zero THEN raced \cup {d} ELSE raced
  /\ buffer' = [buffer EXCEPT ![d] = Zero]
  /\ index'  = [index EXCEPT ![d] = {}]
  /\ UNCHANGED <<sent, stat, drain>>

(***************************************************************************)
(* Properties, given the day each job is at                                *)
(***************************************************************************)
Kept(d, at, c) ==
  stat[d][c] + buffer[d][c]
    + SumFunction([j \in {k \in Jobs : at[k] = d} |-> drain[j].taken[c]])

(* No visit is counted twice, whatever overlaps, dies or is retried.       *)
Overcounted(d, at) == \E c \in Counters : Kept(d, at, c) > sent[d][c]

(* A day on which nothing met a drain half way has lost nothing, and its   *)
(* buffered counters can still be found.                                   *)
Lost(d, at) ==
  /\ d \notin raced
  /\ \E c \in Counters : \/ Kept(d, at, c) # sent[d][c]
                         \/ buffer[d][c] > 0 /\ c \notin index[d]

(* insights.anonymous: the totals of the metrics, and the device breakdown. *)
DimsOf(m)        == {x \in Devices : <<m, x>> \in Counters}
MetricTotal(m, d) == stat[d][<<m, "">>]
Breakdown(m, d)  == SumFunction([x \in DimsOf(m) |-> stat[d][<<m, x>>]])

(* The bars of the breakdown add up to the total above them.               *)
AddsUp(d) ==
  d \notin raced =>
    \A m \in Metrics : DimsOf(m) # {} => MetricTotal(m, d) = Breakdown(m, d)
=============================================================================
