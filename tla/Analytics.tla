----------------------------- MODULE Analytics ------------------------------
(***************************************************************************)
(* The Insights of staff: the roll-ups of a day's orders and events        *)
(* (rollup_analytics), the anonymous counters drained with them            *)
(* (AnonCounters), the check for drift, and the live panels beside them.   *)
(*                                                                         *)
(* Two jobs recompute days, each in a process step: the orders are read    *)
(* by one query, the customers, refunds and cash by later ones, and the    *)
(* row is then written over whatever another run wrote meanwhile.  Every   *)
(* figure of a row is a sum over a set of orders: the row keeps the set.   *)
(***************************************************************************)
EXTENDS AnonCounters

CONSTANTS
  Orders,
  Begun,     (* The orders the first day begins with.                      *)
  Buyer,     (* [Orders -> customers].                                     *)
  Backfill,  (* ROLLUP_BACKFILL_DAYS: how far back the nightly job goes.   *)
  Recent,    (* How far back the others go: yesterday and today, 2.        *)
  Nightly,   (* The job that goes as far as Backfill.                      *)
  MaxActs    (* BOUND: what customers, staff, visitors and crashes do.     *)

ASSUME AnalyticsAssumption == Nightly \in Jobs /\ {Backfill, Recent} \subseteq Nat \ {0}

VARIABLES
  order,     (* [order -> [made, cancelled, binned, refunded, paid]].      *)
  events,    (* UserEvent: [day -> [kind -> how many]].                    *)
  sales,     (* DailySalesRollup, NoRow where there is none.               *)
  funnel,    (* DailyFunnelRollup and SearchTermStat.                      *)
  job,       (* [job -> [pc, todo, row]].                                  *)
  stale,     (* History: days whose source changed since their row's read. *)
  touched,   (* History: jobs whose day changed since their first read.    *)
  acts

source == <<order, events>>
stored == <<sales, funnel, job, stale>>
vars   == <<today, anon, source, stored, touched, acts>>

Kinds  == {"search", "purchase"}
NoDay  == 0
Unmade == [made |-> NoDay, cancelled |-> FALSE, binned |-> FALSE, refunded |-> NoDay, paid |-> NoDay]
NoRow  == [sold |-> Orders, buyers |-> {}, fresh |-> {}, refunded |-> {}, paid |-> {}]
Empty  == [NoRow EXCEPT !.sold = {}]
Quiet  == [k \in Kinds |-> 0]
Resting == [pc |-> "idle", todo |-> <<>>, row |-> Empty]

Made == {o \in Orders : order[o].made # NoDay}

CountableOrders  == {o \in Made : ~order[o].cancelled /\ ~order[o].binned}

SoldOn(d)     == {o \in CountableOrders : order[o].made = d}
BuyersOn(d)   == {Buyer[o] : o \in SoldOn(d)}
(* As a bug would have it: new to the day, not to the shop.                *)
FreshToday(d) == BuyersOn(d)
FreshOn(d)    == {b \in BuyersOn(d) :
                   \A o \in CountableOrders : Buyer[o] = b => order[o].made >= d}
RefundedOn(d) == {o \in Made : order[o].refunded = d /\ ~order[o].binned}
PaidOn(d)     == {o \in CountableOrders : order[o].paid = d}

(* The days whose row tells of an order: its own, those of its refund and  *)
(* of its cash, and each later one of its buyer, who is new there without  *)
(* it.                                                                     *)
Tells(o) ==
  {o.made, o.refunded, o.paid} \ {NoDay}
LaterDays(o, made) ==
  {order[q].made : q \in {p \in Made : Buyer[p] = Buyer[o] /\ order[p].made > made}}

At(j) == IF job[j].todo = <<>> THEN NoDay ELSE Head(job[j].todo)
AtDay == [j \in Jobs |-> At(j)]

(* Some order now reads "new": its days go stale, for the runs half way    *)
(* through them too.                                                       *)
Change(o, new) ==
  LET days == Tells(order[o]) \cup Tells(new) \cup LaterDays(o, new.made) IN
  /\ order'   = [order EXCEPT ![o] = new]
  /\ stale'   = stale \cup days
  /\ touched' = touched \cup {j \in Jobs : At(j) \in days /\ job[j].pc \in {"rest", "store"}}

(***************************************************************************)
(* Customers and staff                                                     *)
(***************************************************************************)
(* on_commit: the purchase is recorded after the order is, or is lost with *)
(* an error nobody sees.                                                   *)
PurchaseRecorded == events' = [events EXCEPT ![today].purchase = @ + 1]

PlaceOrder(o) ==
  /\ o \notin Made
  /\ Change(o, [Unmade EXCEPT !.made = today])
  /\ PurchaseRecorded \/ UNCHANGED events
  /\ UNCHANGED <<sales, funnel, job>>

IngestEvent(k) ==
  /\ events' = [events EXCEPT ![today][k] = @ + 1]
  /\ UNCHANGED <<order, sales, funnel, job, stale, touched>>

CancelOrder(o) == ~order[o].cancelled /\ Change(o, [order[o] EXCEPT !.cancelled = TRUE])

(* Staff give a cancelled order another status.                            *)
ReviveOrder(o) == order[o].cancelled /\ Change(o, [order[o] EXCEPT !.cancelled = FALSE])

(* Into the Recycle Bin, and out of it.                                    *)
BinOrder(o)     == ~order[o].binned /\ Change(o, [order[o] EXCEPT !.binned = TRUE])
RestoreOrder(o) == order[o].binned /\ Change(o, [order[o] EXCEPT !.binned = FALSE])

(* Once, and for all of it.                                                *)
RefundOrder(o) == order[o].refunded = NoDay /\ Change(o, [order[o] EXCEPT !.refunded = today])

(* "Paid in cash", and the tick taken back unless a refund was recorded.   *)
ConfirmCash(o) ==
  \/ order[o].paid = NoDay /\ Change(o, [order[o] EXCEPT !.paid = today])
  \/ /\ order[o].paid # NoDay /\ order[o].refunded = NoDay
     /\ Change(o, [order[o] EXCEPT !.paid = NoDay])

EditOrder(o) ==
  /\ o \in Made
  /\ \/ CancelOrder(o) \/ ReviveOrder(o) \/ BinOrder(o) \/ RestoreOrder(o)
     \/ RefundOrder(o) \/ ConfirmCash(o)
  /\ UNCHANGED <<events, sales, funnel, job>>

(***************************************************************************)
(* rollup_analytics                                                        *)
(***************************************************************************)
Last(n) == LET m == IF n < today THEN n ELSE today IN [i \in 1 .. m |-> today - m + i]
(* As a bug would have it: the nightly job goes no further than the others. *)
TargetRecent(j) == Last(Recent)
TargetDates(j)  == Last(IF j = Nightly THEN Backfill ELSE Recent)

(* The run goes on with the days left, and reads the orders of the first;  *)
(* nothing comes between the end of a day and the first query of the next  *)
(* that could not as well come before or after both.                       *)
Turn(j, days) ==
  /\ job' = [job EXCEPT ![j] =
       IF days = <<>> THEN Resting
       ELSE [pc |-> "rest", todo |-> days, row |-> [Empty EXCEPT !.sold = SoldOn(Head(days))]]]
  /\ touched' = touched \ {j}

StartJob(j) ==
  /\ job[j].pc = "idle"
  /\ Turn(j, TargetDates(j))
  /\ UNCHANGED <<sales, funnel, stale>>

TallyRest(j) ==
  /\ job[j].pc = "rest"
  /\ job' = [job EXCEPT ![j].pc = "store",
              ![j].row = [@ EXCEPT !.buyers = BuyersOn(At(j)), !.fresh = FreshOn(At(j)),
                                   !.refunded = RefundedOn(At(j)), !.paid = PaidOn(At(j))]]
  /\ UNCHANGED <<sales, funnel, stale, touched>>

RollupFunnel(d) == events[d]

StoreRow(j) ==
  LET d == At(j) IN
  /\ job[j].pc = "store"
  /\ sales'  = [sales EXCEPT ![d] = job[j].row]
  /\ funnel' = [funnel EXCEPT ![d] = RollupFunnel(d)]
  /\ stale'  = IF j \in touched THEN stale \cup {d} ELSE stale \ {d}
  /\ job'    = [job EXCEPT ![j].pc = "index", ![j].row = Empty]
  /\ UNCHANGED touched

Goes(j, pc) == job' = [job EXCEPT ![j].pc = pc] /\ UNCHANGED touched

Flush(j) ==
  /\ UNCHANGED <<sales, funnel, stale>>
  /\ \/ /\ job[j].pc = "index" /\ ReadIndex(j, At(j))
        /\ IF index[At(j)] = {} THEN Turn(j, Tail(job[j].todo)) ELSE Goes(j, "take")
     \/ job[j].pc = "take"  /\ TakeCounts(j, At(j))   /\ Goes(j, "save")
     \/ job[j].pc = "save"  /\ UpsertCounts(j, At(j)) /\ Goes(j, "clean")
     \/ job[j].pc = "clean" /\ CleanUp(j, At(j))      /\ Turn(j, Tail(job[j].todo))

RollupStep(j) ==
  /\ UNCHANGED source
  /\ \/ (StartJob(j) \/ TallyRest(j) \/ StoreRow(j)) /\ UNCHANGED anon
     \/ Flush(j)

JobDies(j) ==
  /\ job[j].pc # "idle"
  /\ DrainDies(j, At(j))
  /\ job' = [job EXCEPT ![j] = Resting]
  /\ UNCHANGED <<source, sales, funnel, stale, touched>>

(***************************************************************************)
(* The system                                                              *)
(***************************************************************************)
Open == {At(j) : j \in {i \in Jobs : job[i].pc \in {"take", "save", "clean"}}}

Init ==
  /\ AnonInit
  /\ order = [o \in Orders |-> IF o \in Begun THEN [Unmade EXCEPT !.made = 1] ELSE Unmade]
  /\ events = [d \in Days |-> Quiet] /\ funnel = events
  /\ sales = [d \in Days |-> NoRow]
  /\ job = [j \in Jobs |-> Resting]
  /\ stale = {} /\ touched = {} /\ acts = 0

Act ==
  /\ acts < MaxActs /\ acts' = acts + 1
  /\ UNCHANGED today
  /\ \/ /\ \/ \E o \in Orders : PlaceOrder(o) \/ EditOrder(o)
           \/ \E k \in Kinds \ {"purchase"} : IngestEvent(k)
        /\ UNCHANGED anon
     \/ /\ \E v \in Visits : RecordAnon(v, Open)
        /\ UNCHANGED <<source, stored, touched>>
     \/ \E j \in Jobs : JobDies(j)

Midnight ==
  /\ today < MaxDay /\ today' = today + 1
  /\ UNCHANGED <<anon, source, stored, touched, acts>>

Next ==
  \/ Act
  \/ Midnight
  \/ /\ UNCHANGED <<today, acts>>
     /\ \/ \E d \in Days : ExpireCounters(d) /\ UNCHANGED <<source, stored, touched>>
        \/ \E j \in Jobs : RollupStep(j)

(* The scheduler starts each job again and again, and a run goes on.       *)
Spec == Init /\ [][Next]_vars
             /\ \A j \in Jobs : WF_vars(RollupStep(j) /\ UNCHANGED <<today, acts>>)

(***************************************************************************)
(* The readers of the roll-ups                                             *)
(***************************************************************************)
(* check_rollup_drift: its own recomputation of the money of a day.        *)
Recompute(d) == [sold |-> SoldOn(d), refunded |-> RefundedOn(d)]
Drifted ==
  {d \in 1 .. today :
     IF sales[d] = NoRow THEN Recompute(d).sold # {}
     ELSE sales[d].sold # Recompute(d).sold \/ sales[d].refunded # Recompute(d).refunded}

(* insights: the chart of revenue and the customers, of the stored rows,   *)
(* and the panel of top customers beside them, of the orders.              *)
Between(f, t)      == {d \in f .. t : sales[d] # NoRow}
Revenue(f, t)      == UNION {sales[d].sold : d \in Between(f, t)}
NewDays(b, f, t)   == {d \in Between(f, t) : b \in sales[d].fresh}
TopCustomers(f, t) == {o \in Made : order[o].made \in f .. t /\ ~order[o].binned /\ ~order[o].cancelled}

Fresh(f, t) == \A d \in f .. t : d \notin stale /\ (sales[d] # NoRow \/ SoldOn(d) = {})

(***************************************************************************)
(* Properties                                                              *)
(***************************************************************************)
TypeOK ==
  /\ AnonTypeOK
  /\ order \in [Orders -> [made : 0 .. MaxDay, cancelled : BOOLEAN, binned : BOOLEAN,
                           refunded : 0 .. MaxDay, paid : 0 .. MaxDay]]
  /\ touched \subseteq Jobs /\ stale \subseteq Days
  /\ events \in [Days -> [Kinds -> Nat]] /\ funnel \in [Days -> [Kinds -> Nat]]
  /\ \A d \in Days : sales[d].sold \subseteq Orders
  /\ \A j \in Jobs : \A i \in 1 .. Len(job[j].todo) : job[j].todo[i] \in Days

(* No visit is ever counted twice: two jobs may drain one day at once, die *)
(* between any two steps and run again (flush_anon_to_db: "a re-run will   *)
(* not double-count").                                                     *)
CountedOnce == \A d \in Days : ~Overcounted(d, AtDay)

(* Only a visit that met a drain half way, a crash that held counts, or    *)
(* three days without a drain lose a count: on any other day every visit   *)
(* is stored, held or buffered where the next drain finds it.              *)
LostOnlyInTheGap == \A d \in Days : ~Lost(d, AtDay)

(* The bars of the device panel add up to the total it is read against.    *)
DevicesAddUp == \A d \in Days : AddsUp(d)

(* The row of a day is what its orders, refunds and cash say, unless one   *)
(* of them changed since the run that wrote it began to read: no run loses *)
(* a change it should have seen, and a change is stale on no other day.    *)
RowsExact ==
  \A d \in Days : sales[d] # NoRow /\ d \notin stale =>
    sales[d] = [sold |-> {o \in Made : order[o].made = d /\ ~order[o].cancelled /\ ~order[o].binned},
                buyers |-> {Buyer[o] : o \in sales[d].sold},
                fresh |-> FreshOn(d),
                refunded |-> {o \in Made : order[o].refunded = d /\ ~order[o].binned},
                paid |-> {o \in Made : order[o].paid = d /\ ~order[o].cancelled /\ ~order[o].binned}]

(* The revenue chart and the live panel beside it count the same orders    *)
(* over any range that is not stale, and the drift check is silent there.  *)
PanelsAgree ==
  \A f \in 1 .. today : \A t \in f .. today : Fresh(f, t) =>
    Revenue(f, t) = TopCustomers(f, t) /\ Drifted \cap (f .. t) = {}

(* Over rows that are not stale each customer is new on one day only, the  *)
(* day of the first order that still counts.                               *)
NewOnce ==
  Fresh(1, today) =>
    \A o \in CountableOrders : Cardinality(NewDays(Buyer[o], 1, today)) = 1

(* The stored funnel never runs ahead of the events, however often a day   *)
(* is rolled up, by two jobs at once or after a crash.                     *)
FunnelHonest ==
  \A d \in Days : \A k \in Kinds : funnel[d][k] <= events[d][k]

(* Once the shop is quiet every day the nightly job reaches is exact, the  *)
(* check finds nothing, and the counters are in the database.              *)
Settled ==
  \A d \in 1 .. today : today - d < Backfill =>
    /\ d \notin Drifted
    /\ sales[d] = NoRow \/ sales[d].fresh = FreshOn(d)
    /\ funnel[d] = events[d]
    /\ d \notin raced => stat[d] = sent[d]
Settles == <>[]Settled

(* Every visit is counted once, or lost only where the code lets it be.    *)
VisitsCounted == CountedOnce /\ LostOnlyInTheGap /\ DevicesAddUp

(* What is stored tells what happened, and the panels read it alike.       *)
RowsTell == TypeOK /\ RowsExact /\ PanelsAgree /\ NewOnce /\ FunnelHonest

=============================================================================
