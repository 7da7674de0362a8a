---------------------------- MODULE CartContext ----------------------------
(***************************************************************************)
(* The cart as the shop's tabs show it (context/CartContext.tsx), with the *)
(* hooks and components that change it: an addition shows at once and is   *)
(* rolled back to what was shown before when it fails; every other change  *)
(* shows what its server action has read back.                             *)
(***************************************************************************)
EXTENDS CartStore

CONSTANT MaxAsked  \* bound: changes and refreshes the customer asks for

ASSUME AskedAssumption == MaxAsked \in Nat

VARIABLES
    shown,  \* shown[t]: the quantity in the cart of tab t, None when it shows no cart
    asked,  \* changes and refreshes asked for
    doubt   \* history: the tabs whose cart may differ from the server's

contextVars == <<shown, asked, doubt>>

ContextTypeOK ==
    /\ shown \in [Tab -> Quantity \cup {None}]
    /\ asked \in 0 .. MaxAsked
    /\ doubt \subseteq Tab

ContextInit ==
    /\ shown = [t \in Tab |-> Content(cookie)]
    /\ asked = 0
    /\ doubt = {}

-----------------------------------------------------------------------------
AskFor(t, task) ==
    /\ asked < MaxAsked
    /\ asked' = asked + 1
    /\ queue' = [queue EXCEPT ![t] = Append(@, task)]
    /\ UNCHANGED <<carts, cookie, call, faults, crossed>>

\* addToCart: the optimistic item, and what a rollback restores.  Without a cart
\* there is nothing to add to, and nothing to restore.
\* Mutant: the snapshot is taken after the optimistic change.
AddLate(t) ==
    /\ shown[t] # MaxQuantity
    /\ AskFor(t, [Ask("add", None) EXCEPT !.n = 1, !.alone = queue[t] = << >>,
                                          !.snap = IF shown[t] = None THEN None ELSE shown[t] + 1])
    /\ shown' = [shown EXCEPT ![t] = IF @ = None THEN None ELSE @ + 1]

Add(t) ==
    /\ shown[t] # MaxQuantity
    /\ AskFor(t, [Ask("add", None) EXCEPT !.n = 1, !.snap = shown[t], !.alone = queue[t] = << >>])
    /\ shown' = [shown EXCEPT ![t] = IF @ = None THEN None ELSE @ + 1]

\* updateQuantity, handleRemove, refreshCart: nothing shows before the reply.  Only
\* an item that is shown has the buttons.
Change(t) ==
    /\ \/ shown[t] \notin {None, 0} /\ \E n \in {1, 2} : AskFor(t, [Ask("set", None) EXCEPT !.n = n])
       \/ shown[t] \notin {None, 0} /\ AskFor(t, Ask("remove", None))
       \/ AskFor(t, Ask("fetch", None))
    /\ UNCHANGED shown

\* The reply: applyCartResult, a rollback, or neither.
Apply(t) ==
    \E result \in Result :
        LET task == Head(queue[t]) IN
        /\ Reply(t, result, << >>)
        /\ shown' = CASE result = "done" -> [shown EXCEPT ![t] = call[t].read]
                      [] result = "thrown" /\ task.op = "add" /\ task.snap # None ->
                            [shown EXCEPT ![t] = task.snap]
                      [] OTHER -> shown
        /\ UNCHANGED asked

-----------------------------------------------------------------------------
\* doubt, kept up with what the step of tab t has done.  A change of the carts or of
\* the cookie puts the other tabs in doubt.  A tab is in doubt about a call of its own
\* that had its effect and then failed, that could not read the cart, whose reply was
\* lost, that failed after it had replaced the cart, or that failed and rolled back to
\* what an earlier call of the tab has changed since.  It is in doubt until it reads
\* the cart that is then in the cookie.
Doubt(t) ==
    LET q == call[t]
        failed == faults' # faults
        others == IF carts' = carts /\ cookie' = cookie THEN {} ELSE Tab \ {t}
        own == \/ failed /\ carts' # carts
               \/ q.pc \in {"read", "reply"} /\ failed
               \/ q.pc = "reply" /\ q.result = "thrown" /\ (q.wrote \/ ~ Head(queue[t]).alone)
        reads == q.pc = "read" /\ ~ failed /\ (q.wrote \/ q.jar = cookie)
    IN
    doubt' = (doubt \ IF reads THEN {t} ELSE {}) \cup others \cup (IF own THEN {t} ELSE {})
=============================================================================
