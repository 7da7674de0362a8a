------------------------------ MODULE Checkout ------------------------------
(***************************************************************************)
(* The checkout in a tab: the form and its state machine (CheckoutForm.tsx,*)
(* checkout-state-machine.ts), and the page that a payment with a redirect *)
(* returns to (payment-return/page.tsx, PaymentReturnPoller.tsx).          *)
(*                                                                         *)
(* Handlers run in transitions: what they dispatch reaches the machine at  *)
(* once (step) and what the buttons look at only with a later rendering    *)
(* (view).  Stripe is outside the repository.                              *)
(***************************************************************************)
EXTENDS CartStore

VARIABLES
    page,       \* page[t]: where tab t is
    step,       \* step[t]: the state of the checkout machine of its form
    view,       \* view[t]: the state that was rendered last
    session,    \* session[t]: the form's payment session
    job,        \* job[t][j]: what handler j of the form is doing
    cancelled,  \* tabs whose poller gives up on the result it waits for
    told,       \* carts whose customer has been told of an order
    saveFailed  \* history: tabs whose form could not save its details

checkoutVars == <<page, step, view, session, job, cancelled, told, saveFailed>>

\* "shop" stands for every page whose cart the customer changes (CartContext).
Page == {"shop", "form", "return", "polling", "waiting", "failed", "confirmed", "account"}
Step == {"editing", "saving_cart", "payment_ready", "confirming", "completing_order", "confirmed", "error"}
Handling == {"idle", "stripe", "cod", "quote", "pay", "paying", "auto", "refresh"}

CheckoutTypeOK ==
    /\ page \in [Tab -> Page]
    /\ step \in [Tab -> Step] /\ view \in [Tab -> Step]
    /\ session \in [Tab -> {"none", "ready", "stale"}]
    /\ job \in [Tab -> [Job -> Handling]]
    /\ cancelled \subseteq Tab /\ saveFailed \subseteq Tab
    /\ told \subseteq Cart

NoJobs == [j \in Job |-> "idle"]

\* A tab is in the shop, opens the form, comes back from a payment with a redirect, or
\* is done.
CheckoutInit ==
    /\ page \in [Tab -> {"shop", "form", "return", "confirmed"}]
    /\ step = [t \in Tab |-> "editing"] /\ view = step
    /\ session = [t \in Tab |-> "none"]
    /\ job = [t \in Tab |-> NoJobs]
    /\ cancelled = {} /\ told = {} /\ saveFailed = {}

-----------------------------------------------------------------------------
\* Mutant: a payment that was not confirmed leaves the machine where it is.
transitionStuck(s, event) ==
    CASE s = "editing" /\ event = "SAVE_CART"               -> "saving_cart"
      [] s = "saving_cart" /\ event = "SAVE_CART_DONE"      -> "payment_ready"
      [] s = "payment_ready" /\ event = "CONFIRM"           -> "confirming"
      [] s = "confirming" /\ event = "PLACE_ORDER"          -> "completing_order"
      [] s = "completing_order" /\ event = "ORDER_COMPLETE" -> "confirmed"
      [] s = "completing_order" /\ event = "ORDER_ERROR"    -> "error"
      [] OTHER                                              -> s

\* The events that are dispatched; any other event of a state is ignored.
transition(s, event) ==
    CASE s = "editing" /\ event = "SAVE_CART"               -> "saving_cart"
      [] s = "saving_cart" /\ event = "SAVE_CART_DONE"      -> "payment_ready"
      [] s = "payment_ready" /\ event = "CONFIRM"           -> "confirming"
      [] s = "confirming" /\ event = "CONFIRM_ERROR"        -> "error"
      [] s = "confirming" /\ event = "PLACE_ORDER"          -> "completing_order"
      [] s = "completing_order" /\ event = "ORDER_COMPLETE" -> "confirmed"
      [] s = "completing_order" /\ event = "ORDER_ERROR"    -> "error"
      [] OTHER                                              -> s

Processing == {"saving_cart", "confirming", "completing_order"}

Dispatch(t, event) == step' = [step EXCEPT ![t] = transition(@, event)]

\* The reducer's state is rendered.
Render(t) ==
    /\ view[t] # step[t]
    /\ view' = [view EXCEPT ![t] = step[t]]
    /\ UNCHANGED <<storeVars, page, step, session, job, cancelled, told, saveFailed>>

Begin(t, j, kind, op) ==
    /\ page[t] = "form"
    /\ job[t][j] = "idle"
    /\ job' = [job EXCEPT ![t][j] = kind]
    /\ queue' = [queue EXCEPT ![t] = Append(@, Ask(op, j))]
    /\ UNCHANGED <<carts, cookie, call, faults, crossed, page, view, cancelled, told, saveFailed>>

\* handleProcessCheckout, which looks at what was rendered.  With a Stripe session
\* there is no submit button.
Submit(t, j, kind) ==
    /\ view[t] \notin Processing
    /\ kind = "stripe" => session[t] = "none"
    /\ Begin(t, j, kind, "save")
    /\ Dispatch(t, "SAVE_CART")
    /\ UNCHANGED session

\* handlePayment: the button is disabled while a payment of its own is pending.
Pay(t, j) ==
    /\ view[t] \notin Processing
    /\ session[t] = "ready"
    /\ \A k \in Job : job[t][k] \notin {"pay", "paying"}
    /\ Begin(t, j, "pay", "save")
    /\ UNCHANGED <<step, session>>

\* initiateStripeSession, by the effect when the form is filled in, and by the
\* button that stands for the payment while the session is stale.
AskSession(t, j) ==
    /\ \A k \in Job : job[t][k] \notin {"auto", "refresh"}
    /\ \/ session[t] = "none" /\ Begin(t, j, "auto", "session")
       \/ session[t] = "stale" /\ Begin(t, j, "refresh", "session")
    /\ UNCHANGED <<step, session>>

\* The total of the cart is seen to change.
GoStale(t) ==
    /\ page[t] = "form"
    /\ session[t] = "ready"
    /\ session' = [session EXCEPT ![t] = "stale"]
    /\ UNCHANGED <<storeVars, page, step, view, job, cancelled, told, saveFailed>>

-----------------------------------------------------------------------------
\* A job goes on to the server action op, or ends.
GoOn(j, op) == <<Ask(op, j)>>
Ends(t, j) == job' = [job EXCEPT ![t][j] = "idle"]

\* saveCheckoutDetails is done: a payment goes on to Stripe, cash on delivery to the
\* order, a request to the quote, a first submit to a session.
Saved(t, j) ==
    /\ Head(queue[t]).op = "save"
    /\ \/ /\ job[t][j] = "pay"
          /\ Reply(t, "done", << >>)
          /\ Dispatch(t, "CONFIRM")
          /\ job' = [job EXCEPT ![t][j] = "paying"]
       \/ /\ job[t][j] = "stripe"
          /\ Reply(t, "done", GoOn(j, "session"))
          /\ Dispatch(t, "SAVE_CART_DONE")
          /\ UNCHANGED job
       \/ /\ job[t][j] = "quote"
          /\ Reply(t, "done", GoOn(j, "quote"))
          /\ Dispatch(t, "SAVE_CART_DONE")
          /\ UNCHANGED job
       \/ /\ job[t][j] = "cod"
          /\ Reply(t, "done", GoOn(j, "place"))
          /\ step' = [step EXCEPT ![t] = transition(transition(@, "SAVE_CART_DONE"), "PLACE_ORDER")]
          /\ UNCHANGED job
    /\ UNCHANGED <<page, session, told, saveFailed>>

\* It throws: a payment says so, a submit dispatches ORDER_ERROR.
SaveFails(t, j) ==
    /\ Head(queue[t]).op = "save"
    /\ Reply(t, "thrown", << >>)
    /\ IF job[t][j] = "pay" THEN UNCHANGED step ELSE Dispatch(t, "ORDER_ERROR")
    /\ saveFailed' = saveFailed \cup {t}
    /\ Ends(t, j)
    /\ UNCHANGED <<page, session, told>>

\* The session is there, or it is not.
SessionReply(t, j) ==
    /\ Head(queue[t]).op = "session"
    /\ \/ /\ Reply(t, "done", << >>)
          /\ session' = [session EXCEPT ![t] = "ready"]
          /\ UNCHANGED step
       \/ /\ Reply(t, "thrown", << >>)
          /\ IF job[t][j] = "stripe" THEN Dispatch(t, "CONFIRM_ERROR") ELSE UNCHANGED step
          /\ UNCHANGED session
    /\ Ends(t, j)
    /\ UNCHANGED <<page, told, saveFailed>>

QuoteReply(t, j) ==
    /\ Head(queue[t]).op = "quote"
    /\ \/ Reply(t, "done", << >>) /\ Dispatch(t, "ORDER_COMPLETE")
       \/ Reply(t, "thrown", << >>) /\ Dispatch(t, "ORDER_ERROR")
    /\ Ends(t, j)
    /\ UNCHANGED <<page, session, told, saveFailed>>

\* stripe.confirmPayment: an error, a payment without a redirect, or a redirect,
\* which comes back with the payment, or with its failure.  (A redirect while another
\* server action of the form runs is left out.)
Confirm(t, j) ==
    /\ job[t][j] = "paying"
    /\ \/ /\ Dispatch(t, "CONFIRM_ERROR")
          /\ Ends(t, j)
          /\ UNCHANGED <<page, queue>>
       \/ /\ Dispatch(t, "PLACE_ORDER")
          /\ queue' = [queue EXCEPT ![t] = @ \o GoOn(j, "place")]
          /\ job' = [job EXCEPT ![t][j] = "cod"]
          /\ UNCHANGED page
       \/ /\ page[t] = "form"
          /\ queue[t] = << >>
          /\ \E p \in {"return", "failed"} : page' = [page EXCEPT ![t] = p]
          /\ job' = [job EXCEPT ![t] = NoJobs]
          /\ UNCHANGED <<queue, step>>
    /\ UNCHANGED <<carts, cookie, call, faults, crossed, view, session, cancelled, told, saveFailed>>

\* "Return to checkout": the form from its beginning, with the session of its cart
\* when that is pending still.
ReturnToForm(t) ==
    /\ page[t] = "failed"
    /\ page' = [page EXCEPT ![t] = "form"]
    /\ step' = [step EXCEPT ![t] = "editing"]
    /\ view' = [view EXCEPT ![t] = "editing"]
    /\ \E s \in {"none", "ready"} : session' = [session EXCEPT ![t] = s]
    /\ saveFailed' = saveFailed \ {t}
    /\ UNCHANGED <<storeVars, job, cancelled, told>>

\* placeOrderAction answers the form: a redirect, an order made before, an error.
Placed(t, j) ==
    /\ Head(queue[t]).op = "place"
    /\ \/ /\ Reply(t, "order", << >>)
          /\ page' = [page EXCEPT ![t] = "confirmed"]
          /\ told' = told \cup {call[t].cart}
          /\ UNCHANGED step
       \/ /\ Reply(t, "already", << >>)
          /\ Dispatch(t, "ORDER_COMPLETE")
          /\ told' = IF step'[t] = "confirmed" THEN told \cup {call[t].cart} ELSE told
          /\ UNCHANGED page
       \/ /\ \E result \in {"error", "thrown"} : Reply(t, result, << >>)
          /\ Dispatch(t, "ORDER_ERROR")
          /\ UNCHANGED <<page, told>>
    /\ Ends(t, j)
    /\ UNCHANGED <<session, saveFailed>>

\* The handlers of a form that has been left run on.
FormReply(t) ==
    /\ page[t] \in {"form", "confirmed"}
    /\ \E j \in Job :
          /\ queue[t] # << >> /\ Head(queue[t]).by = j
          /\ Saved(t, j) \/ SaveFails(t, j) \/ SessionReply(t, j) \/ QuoteReply(t, j) \/ Placed(t, j)
    /\ UNCHANGED <<view, cancelled>>

-----------------------------------------------------------------------------
\* The poller starts its only poll.
StartPoll(t) ==
    /\ page[t] = "return"
    /\ page' = [page EXCEPT ![t] = "polling"]
    /\ queue' = [queue EXCEPT ![t] = Append(@, Ask("poll", None))]
    /\ UNCHANGED <<carts, cookie, call, faults, crossed, step, view, session, job, cancelled, told, saveFailed>>

\* The consent to analytics becomes known, or changes, while it waits: the effect is
\* cleaned up, and does not run again.
Consent(t) ==
    /\ page[t] = "polling"
    /\ cancelled' = cancelled \cup {t}
    /\ UNCHANGED <<storeVars, page, step, view, session, job, told, saveFailed>>

\* The redirect of the server action is followed anyway; other results are dropped
\* when the effect has been cleaned up, and a rejection always is.
PollReply(t) ==
    /\ page[t] = "polling"
    /\ \/ /\ Reply(t, "order", << >>)
          /\ page' = [page EXCEPT ![t] = "confirmed"]
          /\ told' = told \cup {call[t].cart}
       \/ /\ t \notin cancelled
          /\ \/ /\ Reply(t, "already", << >>)
                /\ page' = [page EXCEPT ![t] = "account"]
                /\ told' = told \cup {call[t].cart}
             \/ /\ Reply(t, "timeout", << >>)
                /\ page' = [page EXCEPT ![t] = "waiting"]
                /\ UNCHANGED told
       \/ /\ t \in cancelled
          /\ \E result \in {"already", "timeout"} : Reply(t, result, << >>)
          /\ UNCHANGED <<page, told>>
       \/ /\ Reply(t, "thrown", << >>)
          /\ UNCHANGED <<page, told>>
    /\ UNCHANGED <<step, view, session, job, cancelled, saveFailed>>
=============================================================================
