----------------------------- MODULE Storefront -----------------------------
(***************************************************************************)
(* The tabs of a customer's browser that share a cart: tabs in the shop,   *)
(* which change it, and tabs in the checkout, which make an order of it.   *)
(*                                                                         *)
(* Each behaviour has a load: the pages its tabs begin with and what the   *)
(* customer does there, never how it interleaves.                          *)
(***************************************************************************)
EXTENDS CartContext, Checkout

CONSTANT Loads  \* bound: the loads considered

\* "pages": the page each tab begins with; "asked": the changes of the cart; "jobs",
\* "kinds": the handlers used in the form and how the customer pays; "faults": the
\* calls that fail.
ASSUME LoadsAssumption ==
    \A l \in Loads : /\ l.pages \in [Tab -> {"shop", "form", "return", "confirmed"}]
                     /\ l.jobs \subseteq Job /\ l.kinds \subseteq {"stripe", "cod", "quote"}
                     /\ l.asked \in 0 .. MaxAsked /\ l.faults \in 0 .. MaxFaults

VARIABLE load

vars == <<storeVars, contextVars, checkoutVars, load>>

TypeOK == StoreTypeOK /\ ContextTypeOK /\ CheckoutTypeOK

Init ==
    /\ load \in Loads
    /\ StoreInit /\ ContextInit /\ CheckoutInit
    /\ page = load.pages
    /\ cookie = None => \A t \in Tab : page[t] # "form"  \* without items there is no form

-----------------------------------------------------------------------------
\* The server action of a tab.
ServerMoves(t) ==
    /\ Send(t) \/ ServerStep(t)
    /\ UNCHANGED <<shown, asked, checkoutVars>>

ShopReply(t) == page[t] = "shop" /\ Apply(t) /\ UNCHANGED checkoutVars

ShopMoves(t) ==
    /\ page[t] = "shop"
    /\ Add(t) \/ Change(t)
    /\ UNCHANGED checkoutVars

CheckoutReply(t) == (FormReply(t) \/ PollReply(t)) /\ UNCHANGED <<shown, asked>>

FormMoves(t) ==
    /\ \/ \E j \in load.jobs :
             \/ \E kind \in load.kinds : Submit(t, j, kind)
             \/ Confirm(t, j)
             \/ "stripe" \in load.kinds /\ (Pay(t, j) \/ AskSession(t, j))
       \/ Render(t) \/ GoStale(t) \/ ReturnToForm(t)
    /\ UNCHANGED <<shown, asked>>

ReturnMoves(t) == (StartPoll(t) \/ Consent(t)) /\ UNCHANGED <<shown, asked>>

\* What a step of tab t does besides, and the bounds of the load.
Aside(t) ==
    /\ Doubt(t)
    /\ asked' <= load.asked /\ faults' <= load.faults
    /\ UNCHANGED load

Next ==
    \E t \in Tab :
        /\ ServerMoves(t) \/ ShopReply(t) \/ ShopMoves(t) \/ CheckoutReply(t) \/ FormMoves(t) \/ ReturnMoves(t)
        /\ Aside(t)

\* Servers answer, replies arrive and effects run; nobody has to click.
Fairness ==
    \A t \in Tab :
        /\ WF_vars(ServerMoves(t) /\ Aside(t))
        /\ WF_vars((ShopReply(t) \/ CheckoutReply(t)) /\ Aside(t))
        /\ WF_vars(StartPoll(t) /\ UNCHANGED <<shown, asked>> /\ Aside(t))

Spec == Init /\ [][Next]_vars /\ Fairness

-----------------------------------------------------------------------------
\* However many handlers, tabs and polls place orders: a cart becomes an order once
\* and for all, and the customer is told of no order that is not there.
Orders == INSTANCE PlaceOrderOnce WITH ordered <- Ordered
PlacesOrdersOnce == Orders!Spec

\* A tab of the shop that is at rest shows the cart of the browser, unless it is in
\* doubt: unless another tab has changed it, or a call has failed in a way that the
\* rollback does not undo.
ShownUnlessInDoubt ==
    \A t \in Tab \ doubt : page[t] = "shop" /\ queue[t] = << >> => shown[t] = Content(cookie)

\* A form that no handler is at work in has left the states that disable its
\* button, except when its details could not be saved.
AtRest(t) == page[t] = "form" /\ job[t] = NoJobs /\ view[t] = step[t]

StuckOnlyAfterFailedSave ==
    \A t \in Tab : AtRest(t) /\ step[t] \in Processing => step[t] = "saving_cart" /\ t \in saveFailed

\* The customer who returns from a payment is told of the order, or that it is being
\* processed, unless the poll was rejected or the poller gave up on its result.
PollerSettles ==
    \A t \in Tab :
        page[t] = "return" ~> \/ page[t] \in {"confirmed", "account", "waiting"}
                              \/ t \in cancelled
                              \/ page[t] = "polling" /\ queue[t] = << >> /\ faults > 0

\* checkout-form-ux-patterns.md: the error events "keep the form retryable".
RetryableAfterError ==
    \A t \in Tab : AtRest(t) => step[t] \notin Processing
=============================================================================
