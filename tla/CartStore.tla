----------------------------- MODULE CartStore -----------------------------
(***************************************************************************)
(* The carts of one browser and the server actions of the storefront that  *)
(* work on them (app/actions/cart.ts, order.ts, poll-payment-return.ts).   *)
(*                                                                         *)
(* Carts live in Medusa, outside the repository; the browser knows its     *)
(* cart by a cookie.  A server action sees the cookie its request carried  *)
(* and its own writes to it; the browser sees those when the reply comes.  *)
(* A tab runs its server actions one at a time, in the order they were     *)
(* asked for (the router of Next.js).  One variant: a cart is a quantity.  *)
(***************************************************************************)
EXTENDS Naturals, Sequences

CONSTANTS
    Tab,          \* tabs of the browser
    Job,          \* handlers of a form that may run at the same time
    None,         \* no cart, no job
    MaxCarts,     \* bound: carts created
    MaxQuantity,  \* bound: quantity in a cart
    MAX_ATTEMPTS, \* attempts of the payment return poller
    MaxFaults     \* bound: failed calls and lost replies

ASSUME CartsAssumption ==
    /\ MaxCarts \in Nat \ {0} /\ MaxQuantity \in Nat \ {0, 1} /\ MaxFaults \in Nat
    /\ None \notin Nat
ASSUME JobAssumption == None \notin Job
ASSUME AttemptsAssumption == MAX_ATTEMPTS \in Nat \ {0}

VARIABLES
    carts,    \* carts[c]: its status and the quantity in it
    cookie,   \* the browser's _medusa_cart_id
    queue,    \* queue[t]: server actions tab t has asked for; the first one runs
    call,     \* call[t]: the server action of tab t that runs
    faults,   \* failed calls and lost replies
    crossed   \* history: has a reply overwritten a cookie it had not seen?

storeVars == <<carts, cookie, queue, call, faults, crossed>>

Cart == 1 .. MaxCarts
Quantity == 0 .. MaxQuantity
Result == {"none", "done", "null", "thrown", "order", "already", "error", "timeout"}
Action == {"add", "set", "remove", "fetch", "save", "session", "quote", "place", "poll"}

\* What a tab asks: the action, the job that awaits it, the quantity; for an
\* optimistic addition what the tab showed before, and whether it was at rest.
Task == [op : Action, by : Job \cup {None}, n : Quantity, snap : Quantity \cup {None}, alone : BOOLEAN]
Ask(op, by) == [op |-> op, by |-> by, n |-> 0, snap |-> None, alone |-> TRUE]

\* pc: the next step of the action; sent: the cookie of the request; jar: the cookie as the action sees it; wrote:
\* has it written it; cart: the cart it works on; result, read: what it answers.
PC == {"idle", "create", "recreate", "replace", "add", "addAgain", "get", "update", "delete", "own",
       "retrieve", "check", "complete", "read", "reply"}
CallRecord ==
    [pc : PC,
     sent : Cart \cup {None}, jar : Cart \cup {None}, cart : Cart \cup {None}, wrote : BOOLEAN,
     op : Action, attempt : 0 .. MAX_ATTEMPTS - 1,
     result : Result,
     read : Quantity \cup {None}]
NoCall == [pc |-> "idle", sent |-> None, jar |-> None, cart |-> None, wrote |-> FALSE, op |-> "fetch",
           attempt |-> 0, result |-> "none", read |-> None]

NoCart == [status |-> "unused", items |-> 0]
NewCart == [status |-> "open", items |-> 0]
Ordered == {c \in Cart : carts[c].status = "ordered"}

\* getEnrichedCart for the browser's cart: null when there is none.
Content(c) == IF c = None THEN None ELSE carts[c].items

StoreTypeOK ==
    /\ carts \in [Cart -> [status : {"unused", "open", "ordered"}, items : Quantity]]
    /\ cookie \in Cart \cup {None}
    /\ queue \in [Tab -> Seq(Task)]
    /\ call \in [Tab -> CallRecord]
    /\ faults \in 0 .. MaxFaults
    /\ crossed \in BOOLEAN

\* The browser starts without a cart, or with one that holds an item.
StoreInit ==
    /\ \/ carts = [c \in Cart |-> NoCart] /\ cookie = None
       \/ carts = [c \in Cart |-> IF c = 1 THEN [status |-> "open", items |-> 1] ELSE NoCart] /\ cookie = 1
    /\ queue = [t \in Tab |-> << >>]
    /\ call = [t \in Tab |-> NoCall]
    /\ faults = 0
    /\ crossed = FALSE

-----------------------------------------------------------------------------
\* A failure from outside: the network, Medusa, an internal error.
Fault == faults < MaxFaults /\ faults' = faults + 1
NoFault == UNCHANGED faults

Reach(t, pc) == call' = [call EXCEPT ![t].pc = pc]
Answer(t, result) == call' = [call EXCEPT ![t].pc = "reply", ![t].result = result]
Put(c, items) == carts' = [carts EXCEPT ![c].items = items]

\* Where an action starts, by whether the request had a cookie.
Needs(jar, pc) == IF jar = None THEN "reply" ELSE pc

Entry(op, jar) ==
    CASE op = "add"                 -> IF jar = None THEN "create" ELSE "add"
      [] op = "set"                 -> "get"
      [] op = "fetch"               -> "read"
      [] op \in {"session", "quote"} -> "own"
      [] op = "remove"              -> Needs(jar, "delete")
      [] op = "save"                -> Needs(jar, "own")
      [] op = "place"               -> Needs(jar, "check")
      [] op = "poll"                -> Needs(jar, "retrieve")

\* What it answers there and then without one.
EntryResult(op, jar) ==
    IF jar # None \/ Entry(op, jar) # "reply" THEN "none"
    ELSE CASE op = "remove" -> "null"
           [] op = "poll"   -> "timeout"
           [] OTHER         -> "thrown"

Send(t) ==
    /\ queue[t] # << >>
    /\ call[t].pc = "idle"
    /\ LET op == Head(queue[t]).op IN
       call' = [call EXCEPT ![t] =
                  [pc |-> Entry(op, cookie), sent |-> cookie, jar |-> cookie, cart |-> cookie, wrote |-> FALSE,
                   op |-> op, attempt |-> 0, result |-> EntryResult(op, cookie), read |-> None]]
    /\ UNCHANGED <<carts, cookie, queue, faults, crossed>>

-----------------------------------------------------------------------------
\* createCart, from addToCartAction or from getOrSetCart: the cookie is set at once.
AfterCreate(pc) ==
    CASE pc = "create" -> "add" [] pc = "recreate" -> "addAgain" [] pc = "replace" -> "update"

\* Mutant: the cookie is set for the first cart only.
CreateCartOnce(t) ==
    /\ call[t].pc \in {"create", "recreate", "replace"}
    /\ \/ /\ NoFault
          /\ \E c \in Cart :
                /\ carts[c].status = "unused"
                /\ \A d \in Cart : carts[d].status = "unused" => c <= d
                /\ carts' = [carts EXCEPT ![c] = NewCart]
                /\ call' = [call EXCEPT ![t].pc = AfterCreate(call[t].pc), ![t].cart = c, ![t].jar = c,
                                        ![t].wrote = call[t].pc = "create"]
       \/ Fault /\ Answer(t, "thrown") /\ UNCHANGED carts

CreateCart(t) ==
    /\ call[t].pc \in {"create", "recreate", "replace"}
    /\ \/ /\ NoFault
          /\ \E c \in Cart :
                /\ carts[c].status = "unused"
                /\ \A d \in Cart : carts[d].status = "unused" => c <= d
                /\ carts' = [carts EXCEPT ![c] = NewCart]
                /\ call' = [call EXCEPT ![t].pc = AfterCreate(call[t].pc), ![t].cart = c, ![t].jar = c,
                                        ![t].wrote = TRUE]
       \/ Fault /\ Answer(t, "thrown") /\ UNCHANGED carts

\* createLineItem of the first attempt or of the second, with a new cart.  A
\* completed cart refuses, as does a failure, which may come after the effect:
\* 404 and 500 go on to a new cart, other errors are thrown.
AddLine(t) ==
    LET c == call[t].cart
        n == carts[c].items + Head(queue[t]).n
        Added == carts[c].status = "open" /\ n <= MaxQuantity /\ Put(c, n)
        Refused == UNCHANGED carts
    IN
    /\ call[t].pc \in {"add", "addAgain"}
    /\ \/ NoFault /\ Added /\ Reach(t, "read")
       \/ NoFault /\ carts[c].status = "ordered" /\ Refused /\ call[t].pc = "add" /\ Reach(t, "recreate")
       \/ /\ Fault
          /\ Added \/ Refused
          /\ \/ call[t].pc = "add" /\ Reach(t, "recreate")
             \/ Answer(t, "thrown")

\* getOrSetCart of updateCartQuantityAction: a cart that cannot be read is replaced.
GetOrSetCart(t) ==
    /\ call[t].pc = "get"
    /\ \/ NoFault /\ Reach(t, IF call[t].jar = None THEN "replace" ELSE "update")
       \/ Fault /\ Reach(t, "replace")
    /\ UNCHANGED carts

\* updateLineItem or deleteLineItem, of a line that the cart must have.
UpdateLine(t) ==
    LET c == call[t].cart
        Updated == /\ carts[c].status = "open" /\ carts[c].items > 0
                   /\ Put(c, IF call[t].op = "set" THEN Head(queue[t]).n ELSE 0)
    IN
    /\ call[t].pc \in {"update", "delete"}
    /\ \/ NoFault /\ Updated /\ Reach(t, "read")
       \/ NoFault /\ (carts[c].status # "open" \/ carts[c].items = 0) /\ UNCHANGED carts /\ Answer(t, "thrown")
       \/ Fault /\ (Updated \/ UNCHANGED carts) /\ Answer(t, "thrown")

\* getEnrichedCart: a cart that cannot be read is as good as none.
ReadBack(t) ==
    /\ call[t].pc = "read"
    /\ \/ NoFault /\ call' = [call EXCEPT ![t].pc = "reply", ![t].result = "done", ![t].read = Content(call[t].jar)]
       \/ Fault /\ call' = [call EXCEPT ![t].pc = "reply", ![t].result = "done", ![t].read = None]
    /\ UNCHANGED carts

\* The actions that leave the contents alone: the addresses and the shipping
\* method, whose update Medusa refuses for an order; a payment session; a quote.
Own(t) ==
    /\ call[t].pc = "own"
    /\ \/ /\ ~ (call[t].op = "save" /\ carts[call[t].cart].status = "ordered")
          /\ NoFault /\ Answer(t, "done")
       \/ /\ call[t].op = "save" /\ carts[call[t].cart].status = "ordered"
          /\ NoFault /\ Answer(t, "thrown")
       \/ Fault /\ Answer(t, "thrown")
    /\ UNCHANGED carts

-----------------------------------------------------------------------------
\* How an attempt at an order ends: the poller tries again while it has
\* attempts left, and then answers that it does not know.
\* Mutant: the failed attempts are not counted.
AttemptForever(t, result) ==
    IF result # "error" \/ call[t].op = "place" THEN Answer(t, result) ELSE Reach(t, "retrieve")

\* Mutant: one attempt too many.
AttemptOnceMore(t, result) ==
    IF result # "error" \/ call[t].op = "place" THEN Answer(t, result)
    ELSE IF call[t].attempt < MAX_ATTEMPTS
         THEN call' = [call EXCEPT ![t].pc = "retrieve", ![t].attempt = @ + 1]
         ELSE Answer(t, "timeout")

Attempt(t, result) ==
    IF result # "error" \/ call[t].op = "place" THEN Answer(t, result)
    ELSE IF call[t].attempt < MAX_ATTEMPTS - 1
         THEN call' = [call EXCEPT ![t].pc = "retrieve", ![t].attempt = @ + 1]
         ELSE Answer(t, "timeout")

\* pollPaymentReturn reads the cart and then, completed or not, places the order.
Retrieve(t) ==
    /\ call[t].pc = "retrieve"
    /\ \/ NoFault /\ Reach(t, "check")
       \/ Fault /\ Attempt(t, "error")
    /\ UNCHANGED carts

\* placeOrderAction: is the cart completed already?
Check(t) ==
    /\ call[t].pc = "check"
    /\ \/ NoFault /\ call[t].cart \in Ordered /\ Attempt(t, "already")
       \/ NoFault /\ call[t].cart \notin Ordered /\ Reach(t, "complete")
       \/ Fault /\ Attempt(t, "error")
    /\ UNCHANGED carts

\* Medusa completes the cart, or hands out the order it has become; then the
\* cookie is removed and the reply redirects.  It declines when the payment is
\* not authorized or the cart is empty.
Redirect(t) == call' = [call EXCEPT ![t].pc = "reply", ![t].result = "order", ![t].jar = None, ![t].wrote = TRUE]

\* Mutant: what the cart has become is not looked at.
CompleteAny(t) ==
    LET c == call[t].cart
        Completed == carts[c].status = "open" /\ carts[c].items > 0
                     /\ carts' = [carts EXCEPT ![c].status = "ordered"]
    IN
    /\ call[t].pc = "complete"
    /\ \/ NoFault /\ Completed /\ Redirect(t)
       \/ NoFault /\ UNCHANGED carts /\ Redirect(t)
       \/ Fault /\ (Completed \/ UNCHANGED carts) /\ Attempt(t, "error")

Complete(t) ==
    LET c == call[t].cart
        Completed == carts[c].status = "open" /\ carts[c].items > 0
                     /\ carts' = [carts EXCEPT ![c].status = "ordered"]
    IN
    /\ call[t].pc = "complete"
    /\ \/ NoFault /\ Completed /\ Redirect(t)
       \/ NoFault /\ c \in Ordered /\ UNCHANGED carts /\ Redirect(t)
       \/ NoFault /\ c \notin Ordered /\ UNCHANGED carts /\ Attempt(t, "error")
       \/ Fault /\ (Completed \/ UNCHANGED carts) /\ Attempt(t, "error")

ServerStep(t) ==
    /\ \/ CreateCart(t) \/ AddLine(t) \/ GetOrSetCart(t) \/ UpdateLine(t) \/ ReadBack(t)
       \/ Own(t) \/ Retrieve(t) \/ Check(t) \/ Complete(t)
    /\ UNCHANGED <<cookie, queue, crossed>>

-----------------------------------------------------------------------------
\* The reply reaches the tab, whose handler sees result and asks for what is in
\* more; or it is lost with its cookie, and the handler sees a rejection.
Reply(t, result, more) ==
    /\ call[t].pc = "reply"
    /\ call' = [call EXCEPT ![t] = NoCall]
    /\ queue' = [queue EXCEPT ![t] = Tail(@) \o more]
    /\ \/ /\ NoFault
          /\ result = call[t].result
          /\ cookie' = IF call[t].wrote THEN call[t].jar ELSE cookie
          /\ crossed' = (crossed \/ (call[t].wrote /\ cookie # call[t].sent))
       \/ /\ Fault
          /\ result = "thrown"
          /\ UNCHANGED <<cookie, crossed>>
    /\ UNCHANGED carts

\* The customer's cart is not lost: a cart with items that has not become an
\* order is the one in the cookie, or in that of a reply on its way, unless a
\* call failed or a reply overwrote a cookie that another tab had changed.
CartKept ==
    faults = 0 /\ ~ crossed =>
        \A c \in Cart : carts[c].status = "open" /\ carts[c].items > 0 =>
            c = cookie \/ \E t \in Tab : call[t].wrote /\ call[t].jar = c
=============================================================================
