------------------------- MODULE CommerceReporting -------------------------
(***************************************************************************)
(* Daily counters of the shop's commerce events: the subscriber            *)
(* (subscribers/commerce-reporting.ts) and recordEvent of its module       *)
(* (modules/commerceReporting/service.ts).                                 *)
(*                                                                         *)
(* An event finds the bucket of the day and currency or creates one, adds  *)
(* to the value it read, and writes the sum: three calls to the database,  *)
(* and the events of the shop are handled concurrently.  Nothing in the    *)
(* schema makes a bucket unique.  One day; the amounts of an event are     *)
(* added in the same way and at the same time as its count.                *)
(***************************************************************************)
EXTENDS Integers, Sequences, Functions

CONSTANTS
    Handler,        \* handlers of order events that may run at the same time
    Currency,       \* currencies of the orders
    MaxOrderEvents  \* bound: order events delivered

ASSUME OrderEventsAssumption == MaxOrderEvents \in Nat

VARIABLES
    buckets,     \* the rows of daily_commerce_aggregate, as they are created
    handler,     \* handler[h]: where it is, and what it has read
    orderEvents, \* order events delivered
    written,     \* history: written[c]: updates of counter c that have been made
    contended    \* history: counters that two handlers held in one bucket at a time

reportVars == <<buckets, handler, orderEvents, written, contended>>

OrderEvent == {"order.placed", "order.payment_captured", "order.completed", "order.canceled",
               "order.fulfillment_created", "order.refund_created"}
Counter == {"orders_placed", "payment", "orders_paid", "orders_cancelled", "orders_fulfilled",
            "orders_refunded"}

\* Only a new order and a refund say their currency.
DefaultCurrency == "usd"
CurrencyOf(event, ordered) ==
    IF event \in {"order.placed", "order.refund_created"} THEN ordered ELSE DefaultCurrency

\* The counter of the first call of recordEvent.
CounterOf(event) ==
    CASE event = "order.placed"              -> "orders_placed"
      [] event \in {"order.payment_captured", "order.completed"} -> "orders_paid"
      [] event = "order.canceled"            -> "orders_cancelled"
      [] event = "order.fulfillment_created" -> "orders_fulfilled"
      [] event = "order.refund_created"      -> "orders_refunded"

\* An event makes two updates at most, so many rows and counts at most.
Count == 0 .. 2 * MaxOrderEvents
Currencies == Currency \cup {DefaultCurrency}

HandlerRecord == [pc : {"idle", "list", "create", "write"}, counter : Counter,
                  currency : Currencies, row : Count, seen : Count]
NoEvent == [pc |-> "idle", counter |-> "orders_paid", currency |-> DefaultCurrency,
            row |-> 0, seen |-> 0]

Bucket == [currency : Currencies, count : [Counter -> Count]]
NewBucket(currency) == [currency |-> currency, count |-> [c \in Counter |-> 0]]

ReportTypeOK ==
    /\ buckets \in Seq(Bucket)
    /\ handler \in [Handler -> HandlerRecord]
    /\ orderEvents \in 0 .. MaxOrderEvents
    /\ written \in [Counter -> Count]
    /\ contended \subseteq Counter

ReportInit ==
    /\ buckets = << >>
    /\ handler = [h \in Handler |-> NoEvent]
    /\ orderEvents = 0
    /\ written = [c \in Counter |-> 0]
    /\ contended = {}

-----------------------------------------------------------------------------
Deliver(h, event, ordered) ==
    /\ handler[h].pc = "idle"
    /\ orderEvents < MaxOrderEvents
    /\ orderEvents' = orderEvents + 1
    /\ handler' = [handler EXCEPT ![h] = [NoEvent EXCEPT !.pc = "list", !.counter = CounterOf(event),
                                                         !.currency = CurrencyOf(event, ordered)]]
    /\ UNCHANGED <<buckets, written>>

\* ensureDayBucket: existing[0], whichever comes first when there are several.
List(h) ==
    /\ handler[h].pc = "list"
    /\ LET existing == {i \in DOMAIN buckets : buckets[i].currency = handler[h].currency} IN
       \/ \E i \in existing :
             handler' = [handler EXCEPT ![h].pc = "write", ![h].row = i,
                                        ![h].seen = buckets[i].count[handler[h].counter]]
       \/ existing = {} /\ handler' = [handler EXCEPT ![h].pc = "create"]
    /\ UNCHANGED <<buckets, orderEvents, written>>

\* Mutant: the first row is taken for the one just created.
CreateFirst(h) ==
    /\ handler[h].pc = "create"
    /\ buckets' = Append(buckets, NewBucket(handler[h].currency))
    /\ handler' = [handler EXCEPT ![h].pc = "write", ![h].row = 1, ![h].seen = 0]
    /\ UNCHANGED <<orderEvents, written>>

Create(h) ==
    /\ handler[h].pc = "create"
    /\ buckets' = Append(buckets, NewBucket(handler[h].currency))
    /\ handler' = [handler EXCEPT ![h].pc = "write", ![h].row = Len(buckets) + 1, ![h].seen = 0]
    /\ UNCHANGED <<orderEvents, written>>

\* Mutant: the value that was read is added to itself.
SumTwice(seen) == 2 * seen + 1

\* add: the value that was read, and one.
Sum(seen) == seen + 1

\* updateDailyCommerceAggregates; a placed order goes on to its payment category.
Write(h) ==
    LET q == handler[h] IN
    /\ q.pc = "write"
    /\ buckets' = [buckets EXCEPT ![q.row].count[q.counter] = Sum(q.seen)]
    /\ handler' = [handler EXCEPT ![h] =
                     IF q.counter = "orders_placed"
                     THEN [NoEvent EXCEPT !.pc = "list", !.counter = "payment", !.currency = q.currency]
                     ELSE NoEvent]
    /\ written' = [written EXCEPT ![q.counter] = @ + 1]
    /\ UNCHANGED orderEvents

\* A call of the database throws: the event is logged and given up.
HandlerFails(h) ==
    /\ handler[h].pc # "idle"
    /\ handler' = [handler EXCEPT ![h] = NoEvent]
    /\ UNCHANGED <<buckets, orderEvents, written>>

\* contended, kept up with where a step has brought the handlers.
Contend ==
    contended' = contended \cup
        {c \in Counter : \E h, k \in Handler :
            /\ h # k
            /\ handler'[h].pc = "write" /\ handler'[k].pc = "write"
            /\ handler'[h].counter = c /\ handler'[k].counter = c
            /\ handler'[h].row = handler'[k].row}

HandlerStep(h) ==
    /\ \/ \E event \in OrderEvent, ordered \in Currency : Deliver(h, event, ordered)
       \/ List(h) \/ Create(h) \/ Write(h) \/ HandlerFails(h)
    /\ Contend

\* The process restarts; the rows stay, events being handled are lost.
ReportRestart ==
    /\ handler' = [h \in Handler |-> NoEvent]
    /\ UNCHANGED <<buckets, orderEvents, written, contended>>

ReportNext == ReportRestart \/ \E h \in Handler : HandlerStep(h)

ReportSpec == ReportInit /\ [][ReportNext]_reportVars

-----------------------------------------------------------------------------
Total(c) == FoldFunction(+, 0, [i \in DOMAIN buckets |-> buckets[i].count[c]])

\* The day's figures never show more than the events that were recorded, and
\* show fewer only if two handlers held the same counter of the same bucket:
\* two buckets for a day, or different counters at a time, lose nothing.
CountsExactUnlessContended ==
    \A c \in Counter :
        /\ Total(c) <= written[c]
        /\ c \notin contended => Total(c) = written[c]
=============================================================================
