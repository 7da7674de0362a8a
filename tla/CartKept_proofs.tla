--------------------------- MODULE CartKept_proofs ---------------------------
(***************************************************************************)
(* That a customer's cart is not lost (CartStore, CartKept), and that the  *)
(* shop shows it (ShownUnlessInDoubt), for any number of tabs and carts.   *)
(*                                                                         *)
(* While no call has failed and no reply has crossed another, an action    *)
(* makes a new cart only when its request had none, or one that is an      *)
(* order by then; so the cookie its reply sets replaces nothing that was   *)
(* still open.                                                             *)
(***************************************************************************)
EXTENDS Storefront_proofs

USE CartsAssumption, AttemptsAssumption

Used(c) == carts[c].status # "unused"

\* What a call knows: until it writes the cookie it works on the cart of its request;
\* once it has, that cart is no longer open.
Stands(q) ==
    /\ q.cart # None => Used(q.cart)
    /\ q.jar # None => Used(q.jar)
    /\ q.pc # "idle" /\ ~ q.wrote => q.cart = q.sent
    /\ q.wrote /\ q.sent # None => q.sent \in Ordered
    /\ q.pc \in {"create", "replace"} => q.jar = None
    /\ q.pc \in {"create", "replace", "get", "retrieve", "check", "complete"} => ~ q.wrote
    /\ q.pc = "recreate" => q.cart \in Ordered

\* The cookie, or a reply on its way, has the cart.
Held(c) == c = cookie \/ \E t \in Tab : call[t].wrote /\ call[t].jar = c

\* Every open cart is held, the empty ones too.
Kept ==
    /\ cookie # None => Used(cookie)
    /\ \A t \in Tab : Stands(call[t])
    /\ \A c \in Cart : carts[c].status = "open" => Held(c)

KeptInv == faults = 0 /\ ~ crossed => Kept

-----------------------------------------------------------------------------
LEMMA KeptInit == Init => KeptInv
  <1> SUFFICES ASSUME Init PROVE Kept
    BY DEF KeptInv
  <1>1. \A t \in Tab : call[t] = NoCall
    BY DEF Init, StoreInit
  <1>2. \A t \in Tab : Stands(call[t])
    <2>1. NoCall.cart = None /\ NoCall.jar = None /\ NoCall.wrote = FALSE /\ NoCall.pc = "idle"
      BY DEF NoCall
    <2>2. Stands(NoCall)
      BY <2>1 DEF Stands
    <2> QED
      BY <1>1, <2>2
  <1>3. CASE cookie = None /\ carts = [c \in Cart |-> NoCart]
    BY <1>2, <1>3 DEF Kept, NoCart
  <1>4. CASE cookie = 1 /\ carts = [c \in Cart |-> IF c = 1 THEN [status |-> "open", items |-> 1] ELSE NoCart]
    <2>1. 1 \in Cart
      BY DEF Cart
    <2>2. \A c \in Cart : IF c = 1 THEN carts[c].status = "open" ELSE carts[c].status = "unused"
      BY <1>4, <2>1 DEF NoCart
    <2> QED
      BY <1>2, <1>4, <2>1, <2>2 DEF Kept, Used, Held
  <1> QED
    BY <1>3, <1>4 DEF Init, StoreInit

\* The carts only go from unused to open to ordered.
Onward == \A c \in Cart : /\ Used(c) => Used(c)'
                          /\ c \in Ordered => c \in Ordered'

\* A step that moves one call and leaves the cookie alone: what the call has then must
\* stand, hold what the step has opened, and go on holding what it held.
LEMMA OneCallKept ==
    ASSUME StoreInv, Kept, NEW t \in Tab, NEW q \in CallRecord,
           call' = [call EXCEPT ![t] = q], UNCHANGED cookie, Onward,
           Stands(q)',
           \A c \in Cart : carts'[c].status = "open" => carts[c].status = "open" \/ (q.wrote /\ q.jar = c),
           call[t].wrote => q.wrote /\ (q.jar = call[t].jar \/ call[t].jar \in Ordered')
    PROVE  Kept'
  <1>1. \A s \in Tab : call'[s] = IF s = t THEN q ELSE call[s]
    BY DEF StoreInv, StoreTypeOK
  <1>2. (cookie # None => Used(cookie))'
    BY DEF Kept, Onward, StoreInv, StoreTypeOK, Used
  <1>3. ASSUME NEW s \in Tab
        PROVE  Stands(call[s])'
    <2>1. CASE s = t
      <3>1. call'[s] = q
        BY <1>1, <2>1
      <3> QED
        BY <3>1 DEF Stands, Used, Ordered
    <2>2. CASE s # t
      <3>1. call'[s] = call[s]
        BY <1>1, <2>2
      <3>2. Stands(call[s]) /\ call[s] \in CallRecord
        BY DEF Kept, StoreInv, StoreTypeOK
      <3>3. /\ call[s].cart \in Cart \cup {None} /\ call[s].jar \in Cart \cup {None}
            /\ call[s].sent \in Cart \cup {None}
        BY <3>2 DEF CallRecord
      <3>4. Ordered \subseteq Ordered'
        BY DEF Onward, Ordered
      <3> QED
        BY <3>1, <3>2, <3>3, <3>4 DEF Stands, Onward, Used
    <2> QED
      BY <2>1, <2>2
  <1>4. ASSUME NEW c \in Cart, carts'[c].status = "open"
        PROVE  Held(c)'
    <2>1. CASE q.wrote /\ q.jar = c
      BY <1>1, <2>1 DEF Held
    <2>2. CASE c = cookie
      BY <2>2 DEF Held
    <2>3. ASSUME NEW s \in Tab, call[s].wrote, call[s].jar = c
          PROVE  Held(c)'
      <3>1. c \notin Ordered'
        BY <1>4 DEF Ordered
      <3>2. call'[s].wrote /\ call'[s].jar = c
        BY <1>1, <2>3, <3>1
      <3> QED
        BY <3>2 DEF Held
    <2> QED
      BY <1>4, <2>1, <2>2, <2>3 DEF Kept, Held
  <1> QED
    BY <1>2, <1>3, <1>4 DEF Kept

-----------------------------------------------------------------------------
LEMMA SendKept == ASSUME StoreInv, Kept, NEW t \in Tab, Send(t) PROVE Kept'
  <1> DEFINE op == Head(queue[t]).op
             r == [pc |-> Entry(op, cookie), sent |-> cookie, jar |-> cookie, cart |-> cookie, wrote |-> FALSE,
                   op |-> op, attempt |-> 0, result |-> EntryResult(op, cookie), read |-> None]
  <1>1. call' = [call EXCEPT ![t] = r] /\ UNCHANGED <<carts, cookie, faults, crossed>> /\ call[t].pc = "idle"
    BY DEF Send
  <1>2. r \in CallRecord
    <2>1. StoreInv'
      BY SendInv
    <2> HIDE DEF r
    <2>2. call'[t] = r
      BY <1>1 DEF StoreInv, StoreTypeOK
    <2> QED
      BY <2>1, <2>2 DEF StoreInv, StoreTypeOK
  <1>3. op \in Action
    <2>1. queue[t] # << >> /\ queue[t] \in Seq(Task)
      BY DEF Send, StoreInv, StoreTypeOK
    <2>2. Head(queue[t]) \in Task
      BY <2>1
    <2> QED
      BY <2>2 DEF Task
  <1>4. r.pc # "recreate" /\ (r.pc \in {"create", "replace"} => cookie = None)
    BY <1>3 DEF Entry, Needs, Action
  <1>5. r.cart = cookie /\ r.jar = cookie /\ r.sent = cookie /\ r.wrote = FALSE
    OBVIOUS
  <1> HIDE DEF r
  <1>6. PICK q \in CallRecord : q = r
    BY <1>2
  <1>7. /\ q.cart = cookie' /\ q.jar = cookie' /\ q.sent = cookie' /\ q.wrote = FALSE
        /\ q.pc # "recreate" /\ (q.pc \in {"create", "replace"} => cookie' = None)
    BY <1>1, <1>4, <1>5, <1>6
  <1>8. (cookie # None => Used(cookie))'
    BY <1>1 DEF Kept, Used
  <1>9. Stands(q)'
    BY <1>7, <1>8 DEF Stands
  <1>10. ~ call[t].wrote
    BY <1>1 DEF StoreInv, Calls
  <1>11. Onward
    BY <1>1 DEF Onward, Used, Ordered
  <1>12. \A c \in Cart : carts'[c].status = "open" => carts[c].status = "open"
    BY <1>1
  <1> QED
    BY <1>1, <1>6, <1>9, <1>10, <1>11, <1>12, OneCallKept

\* Faults lift the promise.
LEMMA NoFaults == ASSUME StoreInv, faults' = 0 PROVE ~ Fault
  BY DEF StoreInv, StoreTypeOK, Fault

\* The steps that move the call on with the cookie and the cart it has.
LEMMA MovesOn ==
    ASSUME StoreInv, Kept, NEW t \in Tab, NEW q \in CallRecord, call[t].pc # "idle",
           call' = [call EXCEPT ![t] = q], UNCHANGED cookie, Onward,
           \A c \in Cart : carts'[c].status = "open" => carts[c].status = "open",
           q.jar = call[t].jar, q.cart = call[t].cart, q.wrote = call[t].wrote, q.sent = call[t].sent,
           q.pc \in {"create", "replace"} => q.jar = None,
           q.pc \in {"create", "replace", "get", "retrieve", "check", "complete"} => ~ q.wrote,
           q.pc = "recreate" => q.cart \in Ordered'
    PROVE  Kept'
  <1>1. Stands(call[t]) /\ call[t] \in CallRecord
    BY DEF Kept, StoreInv, StoreTypeOK
  <1>2. /\ call[t].cart \in Cart \cup {None} /\ call[t].jar \in Cart \cup {None}
        /\ call[t].sent \in Cart \cup {None}
    BY <1>1 DEF CallRecord
  <1>3. Stands(q)'
    BY <1>1, <1>2 DEF Stands, Onward, Used
  <1> QED
    BY <1>3, OneCallKept

LEMMA CreateCartKept ==
    ASSUME StoreInv, Kept, faults' = 0, NEW t \in Tab, CreateCart(t), UNCHANGED <<cookie, queue, crossed>>
    PROVE  Kept'
  <1>1. PICK c \in Cart :
           /\ carts[c].status = "unused" /\ carts' = [carts EXCEPT ![c] = NewCart]
           /\ call' = [call EXCEPT ![t].pc = AfterCreate(call[t].pc), ![t].cart = c, ![t].jar = c, ![t].wrote = TRUE]
    BY NoFaults DEF CreateCart
  <1>2. /\ call[t].pc \in {"create", "recreate", "replace"}
        /\ call[t] \in CallRecord /\ call[t].jar = call[t].cart /\ Stands(call[t])
    BY AtCall DEF CreateCart, Kept
  <1> DEFINE pc == AfterCreate(call[t].pc)
             r == [call[t] EXCEPT !.pc = pc, !.cart = c, !.jar = c, !.wrote = TRUE]
  <1>3. pc \in {"add", "addAgain", "update"}
    BY <1>2 DEF AfterCreate
  <1>4. call' = [call EXCEPT ![t] = r]
    BY <1>1, <1>2
  <1> HIDE DEF pc
  <1>5. r \in CallRecord /\ r.pc = pc /\ r.jar = c /\ r.cart = c /\ r.wrote = TRUE /\ r.sent = call[t].sent
    BY <1>2, <1>3 DEF CallRecord, PC
  <1> HIDE DEF r
  <1>6. PICK q \in CallRecord : q = r
    BY <1>5
  <1>7. \A d \in Cart : carts'[d] = IF d = c THEN NewCart ELSE carts[d]
    BY <1>1 DEF StoreInv, StoreTypeOK
  <1>8. Onward
    BY <1>1, <1>7 DEF Onward, Used, Ordered, NewCart
  <1>9. q.sent # None => q.sent \in Ordered'
    <2>1. q.sent # None => q.sent \in Ordered
      BY <1>2, <1>5, <1>6 DEF Stands
    <2> QED
      BY <1>8, <2>1 DEF Onward, Ordered
  <1>10. Stands(q)'
    <2>1. Used(c)'
      BY <1>7 DEF Used, NewCart
    <2> QED
      BY <1>3, <1>5, <1>6, <1>9, <2>1 DEF Stands
  <1>11. call[t].wrote => call[t].jar \in Ordered'
    <2>1. call[t].wrote => call[t].jar \in Ordered
      BY <1>2 DEF Stands
    <2> QED
      BY <1>8, <2>1 DEF Onward, Ordered
  <1>12. /\ call' = [call EXCEPT ![t] = q] /\ q.wrote /\ q.jar = c
         /\ \A d \in Cart : carts'[d].status = "open" => carts[d].status = "open" \/ (q.wrote /\ q.jar = d)
    BY <1>4, <1>5, <1>6, <1>7
  <1> QED
    BY <1>8, <1>10, <1>11, <1>12, OneCallKept

LEMMA AddLineKept ==
    ASSUME StoreInv, Kept, faults' = 0, NEW t \in Tab, AddLine(t), UNCHANGED <<cookie, queue, crossed>>
    PROVE  Kept'
  <1> DEFINE c == call[t].cart
             n == carts[c].items + Head(queue[t]).n
  <1>1. call[t].pc \in {"add", "addAgain"} /\ c \in Cart /\ Head(queue[t]).n \in Quantity
    BY AtCall DEF AddLine, OnCart
  <1>2. /\ \A d \in Cart : carts'[d].status = carts[d].status
        /\ Ordered' = Ordered
    <2>1. CASE n <= MaxQuantity /\ Put(c, n)
      <3>1. carts[c].items \in Quantity
        BY <1>1 DEF StoreInv, StoreTypeOK
      <3>2. n \in Quantity
        BY <1>1, <2>1, <3>1 DEF Quantity
      <3> QED
        BY <1>1, <2>1, <3>2, PutInv
    <2>2. CASE UNCHANGED carts
      BY <2>2 DEF Ordered
    <2> QED
      BY <2>1, <2>2 DEF AddLine
  <1>3. Onward
    BY <1>2 DEF Onward, Used
  <1>4. Reach(t, "read") \/ (c \in Ordered /\ Reach(t, "recreate"))
    BY <1>1, NoFaults DEF AddLine, Ordered
  <1>5. PICK q \in CallRecord :
           /\ call' = [call EXCEPT ![t] = q]
           /\ q.pc = "read" \/ (c \in Ordered /\ q.pc = "recreate")
           /\ q.jar = call[t].jar /\ q.cart = c /\ q.wrote = call[t].wrote /\ q.sent = call[t].sent
    <2>1. "read" \in PC /\ "recreate" \in PC
      BY DEF PC
    <2> QED
      BY <1>4, <2>1, Reached
  <1> QED
    BY <1>1, <1>2, <1>3, <1>5, MovesOn

LEMMA UpdateLineKept ==
    ASSUME StoreInv, Kept, faults' = 0, NEW t \in Tab, UpdateLine(t), UNCHANGED <<cookie, queue, crossed>>
    PROVE  Kept'
  <1> DEFINE c == call[t].cart
             n == IF call[t].op = "set" THEN Head(queue[t]).n ELSE 0
  <1>1. call[t].pc \in {"update", "delete"} /\ c \in Cart /\ n \in Quantity
    <2>1. call[t].pc \in {"update", "delete"}
      BY DEF UpdateLine
    <2>2. c \in Cart /\ Head(queue[t]).n \in Quantity
      BY <2>1, AtCall DEF OnCart
    <2> QED
      BY <2>1, <2>2 DEF Quantity
  <1>2. /\ \A d \in Cart : carts'[d].status = carts[d].status
        /\ Ordered' = Ordered
    <2>1. CASE Put(c, n)
      BY <1>1, <2>1, PutInv
    <2>2. CASE UNCHANGED carts
      BY <2>2 DEF Ordered
    <2> QED
      BY <2>1, <2>2 DEF UpdateLine
  <1>3. Onward
    BY <1>2 DEF Onward, Used
  <1>4. Reach(t, "read") \/ Answer(t, "thrown")
    BY DEF UpdateLine
  <1>5. PICK q \in CallRecord :
           /\ call' = [call EXCEPT ![t] = q] /\ q.pc \in {"read", "reply"}
           /\ q.jar = call[t].jar /\ q.cart = c /\ q.wrote = call[t].wrote /\ q.sent = call[t].sent
    <2>1. "read" \in PC /\ "thrown" \in Result
      BY DEF PC, Result
    <2> QED
      BY <1>4, <2>1, Reached, Answered
  <1> QED
    BY <1>1, <1>2, <1>3, <1>5, MovesOn

LEMMA QuietStepKept ==
    ASSUME StoreInv, Kept, faults' = 0, NEW t \in Tab, UNCHANGED <<cookie, queue, crossed>>,
           GetOrSetCart(t) \/ ReadBack(t) \/ Own(t) \/ Retrieve(t) \/ Check(t)
    PROVE  Kept'
  <1>1. /\ call[t].pc \in {"get", "read", "own", "retrieve", "check"}
        /\ call[t] \in CallRecord /\ call[t].jar \in Cart \cup {None} /\ Stands(call[t])
    BY AtCall DEF GetOrSetCart, ReadBack, Own, Retrieve, Check, Kept
  <1>2. UNCHANGED carts
    BY DEF GetOrSetCart, ReadBack, Own, Retrieve, Check
  <1>3. Onward
    BY <1>2 DEF Onward, Used, Ordered
  <1>4. PICK q \in CallRecord :
           /\ call' = [call EXCEPT ![t] = q]
           /\ \/ q.pc = "replace" /\ call[t].jar = None /\ call[t].pc = "get"
              \/ q.pc \in {"update", "reply"}
              \/ q.pc \in {"check", "retrieve", "complete"} /\ call[t].pc \in {"retrieve", "check"}
           /\ q.jar = call[t].jar /\ q.cart = call[t].cart /\ q.wrote = call[t].wrote /\ q.sent = call[t].sent
    <2>0. {"replace", "update", "check", "complete"} \subseteq PC /\ {"done", "thrown", "already", "error"} \subseteq Result
      BY DEF PC, Result
    <2>1. CASE GetOrSetCart(t)
      <3>1. \/ call[t].jar = None /\ Reach(t, "replace") /\ call[t].pc = "get"
            \/ Reach(t, "update")
        BY <2>1, NoFaults DEF GetOrSetCart
      <3> QED
        BY <2>0, <3>1, Reached
    <2>2. CASE ReadBack(t)
      <3> DEFINE r == Content(call[t].jar)
                 q == [call[t] EXCEPT !.pc = "reply", !.result = "done", !.read = r]
      <3>1. r \in Quantity \cup {None}
        BY <1>1 DEF Content, StoreInv, StoreTypeOK
      <3> HIDE DEF r
      <3>2. /\ q \in CallRecord /\ q.cart = call[t].cart /\ q.jar = call[t].jar /\ q.pc = "reply"
            /\ q.wrote = call[t].wrote /\ q.sent = call[t].sent
        BY <1>1, <3>1 DEF CallRecord, PC, Result
      <3>3. call' = [call EXCEPT ![t] = q]
        BY <1>1, <2>2, NoFaults DEF ReadBack, r
      <3> QED
        BY <3>2, <3>3
    <2>3. CASE Own(t)
      <3>1. Answer(t, "done") \/ Answer(t, "thrown")
        BY <2>3 DEF Own
      <3> QED
        BY <2>0, <3>1, Answered
    <2>4. CASE Retrieve(t)
      <3>1. Reach(t, "check") /\ call[t].pc = "retrieve"
        BY <2>4, NoFaults DEF Retrieve
      <3> QED
        BY <2>0, <3>1, Reached
    <2>5. CASE Check(t)
      <3>1. call[t].pc = "check" /\ (Attempt(t, "already") \/ Reach(t, "complete"))
        BY <2>5, NoFaults DEF Check
      <3> QED
        BY <2>0, <3>1, Reached, Attempted
    <2> QED
      BY <2>1, <2>2, <2>3, <2>4, <2>5
  <1>5. q.pc \in {"create", "replace", "get", "retrieve", "check", "complete"} => ~ q.wrote
    BY <1>1, <1>4 DEF Stands
  <1> QED
    BY <1>1, <1>2, <1>3, <1>4, <1>5, MovesOn

LEMMA CompleteKept ==
    ASSUME StoreInv, Kept, faults' = 0, NEW t \in Tab, Complete(t), UNCHANGED <<cookie, queue, crossed>>
    PROVE  Kept'
  <1>0. call[t].pc = "complete"
    BY DEF Complete
  <1>1. PICK c \in Cart : c = call[t].cart /\ call[t] \in CallRecord /\ call[t].jar = c /\ Stands(call[t])
    BY <1>0, AtCall DEF OnCart, Kept
  <1>2. ~ call[t].wrote /\ call[t].sent = c
    BY <1>0, <1>1 DEF Stands
  <1>3. /\ carts' = carts \/ carts' = [carts EXCEPT ![c].status = "ordered"]
        /\ \/ Redirect(t) /\ c \in Ordered'
           \/ Attempt(t, "error")
    BY <1>1, NoFaults DEF Complete, Ordered, StoreInv, StoreTypeOK
  <1>4. /\ Onward
        /\ \A d \in Cart : carts'[d].status = "open" => carts[d].status = "open"
    <2>1. CASE carts' = carts
      BY <2>1 DEF Onward, Used, Ordered
    <2>2. CASE carts' = [carts EXCEPT ![c].status = "ordered"]
      <3>1. \A d \in Cart : carts'[d].status = IF d = c THEN "ordered" ELSE carts[d].status
        BY <1>1, <2>2 DEF StoreInv, StoreTypeOK
      <3> QED
        BY <3>1 DEF Onward, Used, Ordered
    <2> QED
      BY <1>3, <2>1, <2>2
  <1>5. CASE Redirect(t) /\ c \in Ordered'
    <2> DEFINE r == [call[t] EXCEPT !.pc = "reply", !.result = "order", !.jar = None, !.wrote = TRUE]
    <2>1. r \in CallRecord /\ r.cart = c /\ r.pc = "reply" /\ r.jar = None /\ r.wrote = TRUE /\ r.sent = c
      BY <1>1, <1>2 DEF CallRecord, PC, Result
    <2>2. call' = [call EXCEPT ![t] = r]
      BY <1>1, <1>5 DEF Redirect
    <2> HIDE DEF r
    <2>3. PICK q \in CallRecord : q = r
      BY <2>1
    <2>4. Used(c)'
      BY <1>5 DEF Used, Ordered
    <2>5. Stands(q)'
      BY <1>5, <2>1, <2>3, <2>4 DEF Stands
    <2> QED
      BY <1>2, <1>4, <2>1, <2>2, <2>3, <2>5, OneCallKept
  <1>6. CASE Attempt(t, "error")
    <2>1. PICK q \in CallRecord :
             /\ call' = [call EXCEPT ![t] = q] /\ q.pc \in {"retrieve", "reply"}
             /\ q.jar = call[t].jar /\ q.cart = c /\ q.wrote = call[t].wrote /\ q.sent = call[t].sent
      BY <1>1, <1>6, Attempted DEF Result
    <2> QED
      BY <1>0, <1>1, <1>2, <1>4, <2>1, MovesOn
  <1> QED
    BY <1>3, <1>5, <1>6

\* The reply sets the cookie: nobody has changed it since, and the cart it had is
\* not open any more.
LEMMA ReplyKept ==
    ASSUME StoreInv, Kept, faults' = 0, ~ crossed', NEW t \in Tab, NEW result, NEW more, Reply(t, result, more)
    PROVE  Kept'
  <1>1. /\ call[t].pc = "reply" /\ call' = [call EXCEPT ![t] = NoCall] /\ UNCHANGED carts
        /\ cookie' = IF call[t].wrote THEN call[t].jar ELSE cookie
        /\ call[t].wrote => cookie = call[t].sent
    BY NoFaults DEF Reply
  <1>2. Stands(call[t])
    BY DEF Kept
  <1>3. \A s \in Tab : call'[s] = IF s = t THEN NoCall ELSE call[s]
    BY <1>1 DEF StoreInv, StoreTypeOK
  <1>4. (cookie # None => Used(cookie))'
    BY <1>1, <1>2 DEF Stands, Used, Kept
  <1>5. ASSUME NEW s \in Tab
        PROVE  Stands(call[s])'
    <2>1. CASE s = t
      <3>1. call'[s] = NoCall
        BY <1>3, <2>1
      <3> QED
        BY <3>1 DEF Stands, NoCall
    <2>2. CASE s # t
      <3>1. call'[s] = call[s] /\ Stands(call[s])
        BY <1>3, <2>2 DEF Kept
      <3> QED
        BY <1>1, <3>1 DEF Stands, Used, Ordered
    <2> QED
      BY <2>1, <2>2
  <1>6. ASSUME NEW c \in Cart, carts'[c].status = "open"
        PROVE  Held(c)'
    <2>1. Held(c) /\ c \notin Ordered
      BY <1>1, <1>6 DEF Kept, Ordered
    <2>2. CASE c = cookie
      <3>1. c # None
        BY DEF Cart
      <3>2. ~ call[t].wrote
        BY <1>1, <1>2, <2>1, <2>2, <3>1 DEF Stands
      <3> QED
        BY <1>1, <2>2, <3>2 DEF Held
    <2>3. ASSUME NEW s \in Tab, call[s].wrote, call[s].jar = c
          PROVE  Held(c)'
      <3>1. CASE s = t
        BY <1>1, <2>3, <3>1 DEF Held
      <3>2. CASE s # t
        <4>1. call'[s] = call[s]
          BY <1>3, <3>2
        <4> QED
          BY <2>3, <4>1 DEF Held
      <3> QED
        BY <3>1, <3>2
    <2> QED
      BY <2>1, <2>2, <2>3 DEF Held
  <1> QED
    BY <1>4, <1>5, <1>6 DEF Kept

LEMMA StoreStepKept == ASSUME StoreInv, KeptInv, NEW t \in Tab, StoreStep(t) PROVE KeptInv'
  <1> SUFFICES ASSUME faults' = 0, ~ crossed' PROVE Kept'
    BY DEF KeptInv
  <1>1. CASE Send(t)
    <2>1. UNCHANGED <<faults, crossed>>
      BY <1>1 DEF Send
    <2> QED
      BY <1>1, <2>1, SendKept DEF KeptInv
  <1>2. CASE ServerStep(t)
    <2>1. UNCHANGED <<cookie, queue, crossed>>
      BY <1>2 DEF ServerStep
    <2>2. faults = 0
      BY <1>2, NoFaults
         DEF ServerStep, CreateCart, AddLine, GetOrSetCart, UpdateLine, ReadBack, Own, Retrieve, Check, Complete, NoFault
    <2>3. Kept
      BY <2>1, <2>2 DEF KeptInv
    <2> QED
      BY <1>2, <2>1, <2>3, CreateCartKept, AddLineKept, UpdateLineKept, QuietStepKept, CompleteKept DEF ServerStep
  <1>3. ASSUME NEW result \in Result, NEW more \in Seq(Task), Reply(t, result, more)
        PROVE  Kept'
    <2>1. faults = 0 /\ ~ crossed
      BY <1>3, NoFaults DEF Reply, NoFault
    <2> QED
      BY <1>3, <2>1, ReplyKept DEF KeptInv
  <1>4. CASE (\E tasks \in Seq(Task) : Asks(t, tasks)) \/ UNCHANGED storeVars
    <2>1. UNCHANGED <<carts, cookie, call, faults, crossed>>
      BY <1>4 DEF Asks, storeVars
    <2>2. Kept
      BY <2>1 DEF KeptInv
    <2> QED
      BY <2>1, <2>2 DEF Kept, Stands, Held, Used, Ordered
  <1> QED
    BY <1>1, <1>2, <1>3, <1>4 DEF StoreStep

-----------------------------------------------------------------------------
\* No cart with items is lost (createCart, getOrSetCart, addToCartAction): while no
\* call fails and no reply overwrites a cookie that another tab has changed, it is the
\* browser's, or will be with a reply on its way, until it has become an order.
THEOREM CartNotLost == Spec => []CartKept
  <1>1. Init => KeptInv
    BY KeptInit
  <1>2. Inv /\ KeptInv /\ [Next]_vars => KeptInv'
    <2> SUFFICES ASSUME Inv, KeptInv, [Next]_vars PROVE KeptInv'
      OBVIOUS
    <2>1. CASE UNCHANGED vars
      BY <2>1 DEF vars, storeVars, KeptInv, Kept, Stands, Held, Used, Ordered
    <2>2. ASSUME NEW t \in Tab,
                 ServerMoves(t) \/ ShopReply(t) \/ ShopMoves(t) \/ CheckoutReply(t) \/ FormMoves(t) \/ ReturnMoves(t),
                 Aside(t)
          PROVE  KeptInv'
      <3>1. StoreStep(t)
        BY <2>2, ShopSteps, CheckoutReplySteps, FormSteps, LoadsAssumption DEF ServerMoves, StoreStep, Inv
      <3> QED
        BY <3>1, StoreStepKept DEF Inv
    <2> QED
      BY <2>1, <2>2 DEF Next
  <1>3. KeptInv => CartKept
    BY DEF KeptInv, Kept, Held, CartKept
  <1> QED
    BY <1>1, <1>2, <1>3, Invariance, PTL DEF Spec

-----------------------------------------------------------------------------
(***************************************************************************)
(* What a tab of the shop shows (ShownUnlessInDoubt).  A tab that is not   *)
(* in doubt shows the cart of the cookie whenever no addition of its own   *)
(* is pending; while one is that it asked for at rest, what a rollback     *)
(* restores is that cart.  Both are suspended from the step that reads the *)
(* cart to the reply, which shows what was read.                           *)
(***************************************************************************)
ShopAction == {"add", "set", "remove", "fetch"}
ShopPC == {"idle", "create", "recreate", "replace", "add", "addAgain", "get", "update", "delete", "read", "reply"}

\* An addition asked for at rest is the first of its queue.
QueueOfShop(q) ==
    \A i \in 1 .. Len(q) : q[i].op \in ShopAction /\ (i # 1 /\ q[i].op = "add" => ~ q[i].alone)

NoAdd(q) == \A i \in 1 .. Len(q) : q[i].op # "add"

\* An addition asked for at rest is pending.
AddsAlone(q) == q # << >> /\ Head(q).op = "add" /\ Head(q).alone

\* The call has read the cart, or is about to.
Reads(r) == r.pc = "read" \/ (r.pc = "reply" /\ r.result = "done")

\* What is sure of a tab that is not in doubt.
Sure(t) ==
    /\ call[t].pc # "idle" /\ ~ call[t].wrote => call[t].jar = cookie
    /\ call[t].pc = "reply" /\ call[t].result = "done" =>
           call[t].read = Content(IF call[t].wrote THEN call[t].jar ELSE cookie)
    /\ ~ Reads(call[t]) => /\ NoAdd(queue[t]) => shown[t] = Content(cookie)
                           /\ AddsAlone(queue[t]) => Head(queue[t]).snap = Content(cookie)

\* A shop has no handlers of a form; only an addition rolls back, to a cart when there
\* was one.
ShopInv(t) ==
    page[t] = "shop" =>
        /\ \A j \in Job : job[t][j] = "idle"
        /\ QueueOfShop(queue[t])
        /\ call[t].pc \in ShopPC
        /\ call[t].pc = "reply" /\ call[t].result \notin {"done", "thrown"} =>
               Head(queue[t]).op # "add" /\ ~ call[t].wrote
        /\ AddsAlone(queue[t]) /\ Head(queue[t]).snap = None => shown[t] = None
        /\ t \notin doubt => Sure(t)

\* A cart that was never created holds nothing.
NothingInUnused == \A c \in Cart : ~ Used(c) => carts[c].items = 0

LEMMA NothingInUnusedKept ==
    ASSUME StoreInv, NothingInUnused, NEW t \in Tab, StoreStep(t)
    PROVE  NothingInUnused'
  <1>1. carts \in [Cart -> [status : {"unused", "open", "ordered"}, items : Quantity]]
    BY DEF StoreInv, StoreTypeOK
  <1>2. \/ carts' = carts
        \/ \E c \in Cart : carts' = [carts EXCEPT ![c] = NewCart]
        \/ \E c, n : carts[c].status = "open" /\ carts' = [carts EXCEPT ![c].items = n]
        \/ \E c : carts' = [carts EXCEPT ![c].status = "ordered"]
    BY DEF StoreStep, Send, Reply, Asks, storeVars, ServerStep, CreateCart, AddLine, GetOrSetCart, UpdateLine,
           ReadBack, Own, Retrieve, Check, Complete, Put
  <1>3. CASE carts' = carts
    BY <1>3 DEF NothingInUnused, Used
  <1>4. ASSUME NEW c \in Cart, carts' = [carts EXCEPT ![c] = NewCart]
        PROVE  NothingInUnused'
    BY <1>1, <1>4 DEF NothingInUnused, Used, NewCart
  <1>5. ASSUME NEW c, NEW n, carts[c].status = "open", carts' = [carts EXCEPT ![c].items = n]
        PROVE  NothingInUnused'
    BY <1>1, <1>5 DEF NothingInUnused, Used
  <1>6. ASSUME NEW c, carts' = [carts EXCEPT ![c].status = "ordered"]
        PROVE  NothingInUnused'
    BY <1>1, <1>6 DEF NothingInUnused, Used
  <1> QED
    BY <1>2, <1>3, <1>4, <1>5, <1>6

-----------------------------------------------------------------------------
\* Another tab's step: it changes neither carts nor cookie, or puts this tab in doubt.
LEMMA ShopElsewhere ==
    ASSUME NEW t \in Tab, NEW s \in Tab \ {t}, ShopInv(s), Doubt(t),
           queue'[s] = queue[s], call'[s] = call[s], shown'[s] = shown[s], page'[s] = page[s], job'[s] = job[s]
    PROVE  ShopInv(s)'
  <1>1. s \notin doubt' => s \notin doubt /\ carts' = carts /\ cookie' = cookie
    BY DEF Doubt
  <1> QED
    BY <1>1 DEF ShopInv, Sure, QueueOfShop, NoAdd, AddsAlone, Reads, Content

\* A step of the call before it reads the cart: it goes on to read it, or leaves the
\* cart of the cookie as it is, or fails.
LEMMA CallWorks ==
    ASSUME StoreInv, NEW t \in Tab, ShopInv(t), Doubt(t), UNCHANGED <<page, job, queue, shown, cookie>>,
           call[t].pc \notin {"idle", "read", "reply"},
           NEW q \in CallRecord, call' = [call EXCEPT ![t] = q],
           q.pc \in ShopPC \ {"idle"},
           q.pc = "reply" => q.result = "thrown",
           q.wrote \/ (q.jar = call[t].jar /\ q.wrote = call[t].wrote),
           q.pc = "read" \/ faults' # faults \/ Content(cookie)' = Content(cookie)
    PROVE  ShopInv(t)'
  <1>1. call'[t] = q
    BY DEF StoreInv, StoreTypeOK
  <1>2. ASSUME t \notin doubt'
        PROVE  t \notin doubt /\ (faults' = faults \/ carts' = carts)
    BY <1>2 DEF Doubt
  <1>3. ASSUME t \notin doubt', q.pc # "read"
        PROVE  Content(cookie)' = Content(cookie)
    BY <1>2, <1>3 DEF Content
  <1>4. ASSUME t \notin doubt', page[t] = "shop"
        PROVE  Sure(t)'
    <2>1. Sure(t)
      BY <1>2, <1>4 DEF ShopInv
    <2>2. q.pc # "idle" /\ ~ q.wrote => q.jar = cookie'
      BY <2>1 DEF Sure
    <2>3. ~ Reads(q) => /\ NoAdd(queue[t]) => shown[t] = Content(cookie)'
                        /\ AddsAlone(queue[t]) => Head(queue[t]).snap = Content(cookie)'
      BY <1>3, <1>4, <2>1 DEF Sure, Reads
    <2> QED
      BY <1>1, <2>2, <2>3 DEF Sure, Reads, NoAdd, AddsAlone
  <1> QED
    BY <1>1, <1>4 DEF ShopInv, QueueOfShop, AddsAlone

LEMMA ShopServerStep ==
    ASSUME StoreInv, NothingInUnused, NEW t \in Tab, ShopInv(t), page[t] = "shop", Doubt(t), ServerStep(t),
           UNCHANGED <<page, job, shown>>
    PROVE  ShopInv(t)'
  <1>1. UNCHANGED <<cookie, queue, crossed>> /\ call[t] \in CallRecord
    BY DEF ServerStep, StoreInv, StoreTypeOK
  <1>2. ~ Own(t) /\ ~ Retrieve(t) /\ ~ Check(t) /\ ~ Complete(t)
    BY DEF ShopInv, ShopPC, Own, Retrieve, Check, Complete
  <1>3. ASSUME NEW pc \in ShopPC \ {"idle", "reply"}, Reach(t, pc), call[t].pc \notin {"idle", "read", "reply"},
               pc = "read" \/ faults' # faults \/ carts' = carts
        PROVE  ShopInv(t)'
    <2>1. pc \in PC
      BY DEF ShopPC, PC
    <2>2. PICK q \in CallRecord : /\ call' = [call EXCEPT ![t] = q]
                                  /\ q.pc = pc /\ q.jar = call[t].jar /\ q.wrote = call[t].wrote
      BY <1>3, <2>1, Reached
    <2>3. pc = "read" \/ faults' # faults \/ Content(cookie)' = Content(cookie)
      BY <1>1, <1>3 DEF Content
    <2> QED
      BY <1>1, <1>3, <2>2, <2>3, CallWorks
  <1>4. ASSUME Answer(t, "thrown"), call[t].pc \notin {"idle", "read", "reply"}, faults' # faults \/ carts' = carts
        PROVE  ShopInv(t)'
    <2>1. PICK q \in CallRecord : /\ call' = [call EXCEPT ![t] = q]
                                  /\ q.pc = "reply" /\ q.result = "thrown" /\ q.jar = call[t].jar
                                  /\ q.wrote = call[t].wrote
      BY <1>4, Answered DEF Result
    <2>2. faults' # faults \/ Content(cookie)' = Content(cookie)
      BY <1>1, <1>4 DEF Content
    <2>3. "reply" \in ShopPC \ {"idle"}
      BY DEF ShopPC
    <2> QED
      BY <1>1, <1>4, <2>1, <2>2, <2>3, CallWorks
  <1>5. Fault => faults' # faults
    BY DEF Fault, StoreInv, StoreTypeOK
  <1>6. CASE CreateCart(t)
    <2>1. CASE Fault /\ Answer(t, "thrown")
      BY <1>4, <1>5, <1>6, <2>1 DEF CreateCart
    <2>2. ASSUME NEW c \in Cart, carts[c].status = "unused", carts' = [carts EXCEPT ![c] = NewCart],
                 call' = [call EXCEPT ![t].pc = AfterCreate(call[t].pc), ![t].cart = c, ![t].jar = c, ![t].wrote = TRUE]
          PROVE  ShopInv(t)'
      <3> DEFINE pc == AfterCreate(call[t].pc)
                 q == [call[t] EXCEPT !.pc = pc, !.cart = c, !.jar = c, !.wrote = TRUE]
      <3>1. pc \in {"add", "addAgain", "update"}
        BY <1>6 DEF CreateCart, AfterCreate
      <3>2. call' = [call EXCEPT ![t] = q]
        BY <1>1, <2>2
      <3> HIDE DEF pc
      <3>3. q \in CallRecord /\ q.pc = pc /\ q.wrote
        BY <1>1, <3>1 DEF CallRecord, PC
      <3>4. Content(cookie)' = Content(cookie)
        <4>1. carts[c].items = 0
          BY <2>2 DEF NothingInUnused, Used
        <4>2. \A d \in Cart : carts'[d].items = carts[d].items
          BY <2>2, <4>1 DEF StoreInv, StoreTypeOK, NewCart
        <4>3. cookie \in Cart \cup {None}
          BY DEF StoreInv, StoreTypeOK
        <4> QED
          BY <1>1, <4>2, <4>3 DEF Content
      <3>5. pc \in ShopPC \ {"idle"} /\ pc # "reply"
        BY <3>1 DEF ShopPC
      <3> HIDE DEF q
      <3> QED
        BY <1>1, <1>6, <3>2, <3>3, <3>4, <3>5, CallWorks DEF CreateCart
    <2> QED
      BY <1>6, <2>1, <2>2 DEF CreateCart
  <1>7. CASE AddLine(t)
    <2>1. call[t].pc \notin {"idle", "read", "reply"}
      BY <1>7 DEF AddLine
    <2>2. \/ Reach(t, "read")
          \/ Reach(t, "recreate") /\ (Fault \/ carts' = carts)
          \/ Answer(t, "thrown") /\ Fault
      BY <1>7 DEF AddLine
    <2>3. {"read", "recreate"} \subseteq ShopPC \ {"idle", "reply"}
      BY DEF ShopPC
    <2> QED
      BY <1>3, <1>4, <1>5, <2>1, <2>2, <2>3
  <1>8. CASE UpdateLine(t)
    <2>1. call[t].pc \notin {"idle", "read", "reply"}
      BY <1>8 DEF UpdateLine
    <2>2. Reach(t, "read") \/ (Answer(t, "thrown") /\ (Fault \/ carts' = carts))
      BY <1>8 DEF UpdateLine
    <2>3. "read" \in ShopPC \ {"idle", "reply"}
      BY DEF ShopPC
    <2> QED
      BY <1>3, <1>4, <1>5, <2>1, <2>2, <2>3
  <1>9. CASE GetOrSetCart(t)
    <2>1. call[t].pc \notin {"idle", "read", "reply"} /\ carts' = carts
      BY <1>9 DEF GetOrSetCart
    <2>2. Reach(t, "replace") \/ Reach(t, "update")
      BY <1>9 DEF GetOrSetCart
    <2>3. {"replace", "update"} \subseteq ShopPC \ {"idle", "reply"}
      BY DEF ShopPC
    <2> QED
      BY <1>3, <2>1, <2>2, <2>3
  <1>10. CASE ReadBack(t)
    <2> DEFINE r == IF NoFault THEN Content(call[t].jar) ELSE None
               q == [call[t] EXCEPT !.pc = "reply", !.result = "done", !.read = r]
    <2>1. call[t].pc = "read" /\ carts' = carts
      BY <1>10 DEF ReadBack
    <2>2. call' = [call EXCEPT ![t] = q]
      <3>1. Fault => ~ NoFault
        BY <1>5 DEF NoFault
      <3> QED
        BY <1>1, <1>10, <3>1 DEF ReadBack
    <2>3. call'[t] = q
      BY <2>2 DEF StoreInv, StoreTypeOK
    <2>4. /\ q.pc = "reply" /\ q.result = "done" /\ q.read = r
          /\ q.jar = call[t].jar /\ q.wrote = call[t].wrote
      BY <1>1 DEF CallRecord
    <2>5. ASSUME t \notin doubt'
          PROVE  Sure(t)'
      <3>1. NoFault
        BY <2>1, <2>5 DEF Doubt, NoFault
      <3>2. t \notin doubt \/ call[t].wrote \/ call[t].jar = cookie
        BY <2>1, <2>5 DEF Doubt
      <3>3. call[t].wrote \/ call[t].jar = cookie
        BY <2>1, <3>2 DEF ShopInv, Sure
      <3>4. call'[t].read = Content(call[t].jar)
        BY <2>3, <2>4, <3>1
      <3>5. call'[t].wrote = call[t].wrote /\ call'[t].jar = call[t].jar /\ Reads(call'[t])
        BY <2>3, <2>4 DEF Reads
      <3> HIDE DEF q, r
      <3>6. (call[t].read = Content(IF call[t].wrote THEN call[t].jar ELSE cookie))'
        BY <1>1, <2>1, <3>3, <3>4, <3>5 DEF Content
      <3> QED
        BY <1>1, <3>3, <3>5, <3>6 DEF Sure
    <2> HIDE DEF q
    <2>6. "reply" \in ShopPC
      BY DEF ShopPC
    <2> QED
      BY <1>1, <2>3, <2>4, <2>5, <2>6 DEF ShopInv, QueueOfShop, AddsAlone
  <1> QED
    BY <1>2, <1>6, <1>7, <1>8, <1>9, <1>10 DEF ServerStep

LEMMA ShopSends ==
    ASSUME StoreInv, NEW t \in Tab, ShopInv(t), page[t] = "shop", Doubt(t), Send(t), UNCHANGED <<page, job, shown>>
    PROVE  ShopInv(t)'
  <1> DEFINE op == Head(queue[t]).op
             r == [pc |-> Entry(op, cookie), sent |-> cookie, jar |-> cookie, cart |-> cookie, wrote |-> FALSE,
                   op |-> op, attempt |-> 0, result |-> EntryResult(op, cookie), read |-> None]
  <1>1. /\ queue[t] \in Seq(Task) /\ queue[t] # << >> /\ call[t].pc = "idle"
        /\ UNCHANGED <<carts, cookie, queue, faults>>
    BY DEF Send, StoreInv, StoreTypeOK
  <1>2. op \in ShopAction
    <2>1. 1 \in 1 .. Len(queue[t]) /\ queue[t][1] = Head(queue[t])
      BY <1>1, EmptySeq
    <2> QED
      BY <2>1 DEF ShopInv, QueueOfShop
  <1>3. call'[t] = r
    BY DEF Send, StoreInv, StoreTypeOK
  <1>4. /\ r.pc = Entry(op, cookie) /\ r.result = EntryResult(op, cookie)
        /\ r.jar = cookie /\ ~ r.wrote
    OBVIOUS
  <1>5. /\ r.pc \in ShopPC
        /\ r.pc = "reply" => op = "remove" /\ r.result # "done"
    BY <1>2, <1>4 DEF ShopAction, ShopPC, Entry, EntryResult, Needs
  <1> HIDE DEF r
  <1>6. t \notin doubt' => t \notin doubt
    BY <1>1 DEF Doubt
  <1>7. ASSUME t \notin doubt'
        PROVE  Sure(t)'
    <2>1. Sure(t)
      BY <1>6, <1>7 DEF ShopInv
    <2> QED
      BY <1>1, <1>3, <1>4, <1>5, <2>1 DEF Sure, Reads, NoAdd, AddsAlone, Content
  <1> QED
    BY <1>1, <1>3, <1>4, <1>5, <1>7 DEF ShopInv, QueueOfShop, AddsAlone

\* The reply: what was read is shown, an addition is rolled back, or nothing changes.
LEMMA ShopGetsReply ==
    ASSUME StoreInv, ContextTypeOK, NEW t \in Tab, ShopInv(t), page[t] = "shop", Doubt(t), Apply(t),
           UNCHANGED <<page, job>>
    PROVE  ShopInv(t)'
  <1> DEFINE q == queue[t]
             task == Head(q)
  <1>1. PICK result \in Result :
           /\ Reply(t, result, << >>)
           /\ shown' = CASE result = "done" -> [shown EXCEPT ![t] = call[t].read]
                         [] result = "thrown" /\ task.op = "add" /\ task.snap # None ->
                               [shown EXCEPT ![t] = task.snap]
                         [] OTHER -> shown
    BY DEF Apply
  <1>2. /\ call[t].pc = "reply" /\ q \in Seq(Task) /\ q # << >>
        /\ queue \in [Tab -> Seq(Task)] /\ shown \in [Tab -> Quantity \cup {None}]
    BY <1>1, AtCall DEF Reply, StoreInv, StoreTypeOK, ContextTypeOK
  <1>3. /\ Tail(q) \in Seq(Task) /\ Len(Tail(q)) = Len(q) - 1 /\ Len(q) \in Nat \ {0} /\ task = q[1]
        /\ \A i \in 1 .. Len(Tail(q)) : Tail(q)[i] = q[i + 1]
    BY <1>2, EmptySeq
  <1>4. queue'[t] = Tail(q)
    <2>1. queue'[t] = Tail(q) \o << >>
      BY <1>1, <1>2 DEF Reply
    <2> QED
      BY <1>3, <2>1
  <1>5. call'[t] = NoCall /\ carts' = carts
    BY <1>1 DEF Reply, StoreInv, StoreTypeOK
  <1> DEFINE rest == Tail(q)
  <1> HIDE DEF rest
  <1>6. \A i \in 1 .. Len(rest) : rest[i].op \in ShopAction /\ (rest[i].op = "add" => ~ rest[i].alone)
    <2> SUFFICES ASSUME NEW i \in 1 .. Len(rest)
                 PROVE  rest[i].op \in ShopAction /\ (rest[i].op = "add" => ~ rest[i].alone)
      OBVIOUS
    <2>1. rest[i] = q[i + 1] /\ i + 1 \in 1 .. Len(q) /\ i + 1 # 1
      BY <1>3 DEF rest
    <2> QED
      BY <2>1 DEF ShopInv, QueueOfShop
  <1>7. QueueOfShop(rest) /\ ~ AddsAlone(rest)
    <2>1. rest # << >> => 1 \in 1 .. Len(rest) /\ Head(rest) = rest[1]
      BY <1>3, EmptySeq DEF rest
    <2> QED
      BY <1>6, <2>1 DEF QueueOfShop, AddsAlone
  <1>8. ASSUME t \notin doubt'
        PROVE  shown'[t] = Content(cookie)' \/ ~ NoAdd(rest)
    <2>1. /\ t \notin doubt /\ faults' = faults
          /\ ~ (call[t].result = "thrown" /\ (call[t].wrote \/ ~ task.alone))
      BY <1>2, <1>8 DEF Doubt
    <2>2. /\ result = call[t].result
          /\ cookie' = IF call[t].wrote THEN call[t].jar ELSE cookie
      <3>1. ~ Fault
        BY <2>1 DEF Fault, StoreInv, StoreTypeOK
      <3> QED
        BY <1>1, <3>1 DEF Reply
    <2>3. Sure(t)
      BY <2>1 DEF ShopInv
    <2>4. CASE result = "done"
      <3>1. shown'[t] = call[t].read
        BY <1>1, <1>2, <2>4
      <3>2. call[t].read = Content(IF call[t].wrote THEN call[t].jar ELSE cookie)
        BY <1>2, <2>2, <2>3, <2>4 DEF Sure
      <3> QED
        BY <1>5, <2>2, <3>1, <3>2 DEF Content
    <2>5. ASSUME result # "done", ~ call[t].wrote, shown'[t] = Content(cookie) \/ ~ NoAdd(rest)
          PROVE  shown'[t] = Content(cookie)' \/ ~ NoAdd(rest)
      BY <1>5, <2>2, <2>5 DEF Content
    <2>6. CASE result # "done" /\ task.op = "add"
      <3>1. result = "thrown" /\ task.alone /\ ~ call[t].wrote
        BY <1>2, <2>1, <2>2, <2>6 DEF ShopInv
      <3>2. AddsAlone(q) /\ ~ Reads(call[t])
        BY <1>2, <2>2, <2>6, <3>1 DEF AddsAlone, Reads
      <3>3. task.snap = Content(cookie)
        BY <2>3, <3>2 DEF Sure
      <3>4. shown'[t] = task.snap
        <4>1. task.snap = None => shown[t] = None
          BY <3>2 DEF ShopInv
        <4>2. CASE task.snap = None
          BY <1>1, <2>6, <3>1, <4>1, <4>2
        <4>3. CASE task.snap # None
          BY <1>1, <1>2, <2>6, <3>1, <4>3
        <4> QED
          BY <4>2, <4>3
      <3> QED
        BY <2>5, <2>6, <3>1, <3>3, <3>4
    <2>7. CASE result # "done" /\ task.op # "add"
      <3>1. shown' = shown
        BY <1>1, <2>7
      <3>2. NoAdd(rest) => NoAdd(q)
        <4> SUFFICES ASSUME NoAdd(rest), NEW i \in 1 .. Len(q) PROVE q[i].op # "add"
          BY DEF NoAdd
        <4>1. CASE i = 1
          BY <1>3, <2>7, <4>1
        <4>2. CASE i # 1
          <5>1. i - 1 \in 1 .. Len(rest) /\ rest[i - 1] = q[i]
            BY <1>3, <4>2 DEF rest
          <5> QED
            BY <5>1 DEF NoAdd
        <4> QED
          BY <4>1, <4>2
      <3>3. ~ Reads(call[t])
        BY <1>2, <2>2, <2>7 DEF Reads
      <3>4. NoAdd(rest) => shown[t] = Content(cookie)
        BY <2>3, <3>2, <3>3 DEF Sure
      <3>5. cookie' = cookie \/ call[t].wrote
        BY <2>2
      <3>6. CASE ~ call[t].wrote
        BY <2>5, <2>7, <3>1, <3>4, <3>6
      <3>7. CASE call[t].wrote
        BY <1>2, <2>1, <2>2, <2>7, <3>7 DEF ShopInv
      <3> QED
        BY <3>6, <3>7
    <2> QED
      BY <2>4, <2>6, <2>7
  <1>9. NoCall.pc = "idle" /\ "idle" \in ShopPC
    BY DEF NoCall, ShopPC
  <1>10. ASSUME t \notin doubt'
         PROVE  Sure(t)'
    BY <1>4, <1>5, <1>7, <1>8, <1>9, <1>10 DEF Sure, Reads, rest
  <1> QED
    BY <1>4, <1>5, <1>7, <1>9, <1>10 DEF ShopInv, rest

\* What a step of the tab that is none of the call's does to its doubt.
LEMMA DoubtElsewhere ==
    ASSUME NEW t \in Tab, Doubt(t), UNCHANGED faults, t \notin doubt'
    PROVE  t \notin doubt \/ (call[t].pc = "read" /\ (call[t].wrote \/ call[t].jar = cookie))
  BY DEF Doubt

\* The customer asks for a change.
LEMMA ShopAsked ==
    ASSUME StoreInv, ContextTypeOK, NEW t \in Tab, ShopInv(t), page[t] = "shop", Doubt(t), ShopMoves(t),
           UNCHANGED <<page, job>>
    PROVE  ShopInv(t)'
  <1>1. PICK task \in Task : Asked(t, task)
    BY ShopAsks
  <1> DEFINE q == queue[t]
             more == Append(q, task)
  <1>2. /\ q \in Seq(Task) /\ queue' = [queue EXCEPT ![t] = more] /\ UNCHANGED <<carts, cookie, call, faults>>
        /\ call[t].pc # "idle" => q # << >>
    BY <1>1 DEF Asked, AskFor, StoreInv, StoreTypeOK, Calls
  <1>3. queue'[t] = more
    BY <1>2 DEF StoreInv, StoreTypeOK
  <1>4. /\ Len(more) = Len(q) + 1 /\ Len(q) \in Nat
        /\ \A i \in 1 .. Len(q) : more[i] = q[i] /\ i \in 1 .. Len(more)
        /\ more[Len(q) + 1] = task /\ Head(more) = more[1]
        /\ q # << >> => Head(q) = q[1] /\ 1 \in 1 .. Len(q)
        /\ q = << >> => Len(q) = 0
        /\ more # << >>
    <2>1. Len(more) = Len(q) + 1 /\ Len(q) \in Nat /\ more[Len(q) + 1] = task /\ more \in Seq(Task)
      BY <1>2
    <2>2. \A i \in 1 .. Len(q) : more[i] = q[i]
      BY <1>2
    <2>3. (q = << >> => Len(q) = 0) /\ (q # << >> => Len(q) # 0) /\ more # << >>
      <3>1. q = << >> <=> Len(q) = 0
        BY <1>2, EmptySeq
      <3> HIDE DEF more
      <3>2. Len(more) # 0
        BY <2>1
      <3>3. more # << >>
        BY <2>1, <3>2, EmptySeq
      <3> HIDE DEF q
      <3> QED
        BY <3>1, <3>3
    <2>4. q # << >> => Head(q) = q[1]
      BY <1>2
    <2>5. Head(more) = more[1]
      BY <2>1, <2>3
    <2> HIDE DEF more
    <2> QED
      BY <2>1, <2>2, <2>3, <2>4, <2>5
  <1> HIDE DEF more
  <1>5. /\ Head(more) = IF q = << >> THEN task ELSE Head(q)
        /\ NoAdd(more) => NoAdd(q) /\ task.op # "add"
    <2>1. Len(q) + 1 \in 1 .. Len(more)
      BY <1>4
    <2> QED
      BY <1>4, <2>1 DEF NoAdd
  <1>6. QueueOfShop(more)
    <2> SUFFICES ASSUME NEW i \in 1 .. Len(more)
                 PROVE  more[i].op \in ShopAction /\ (i # 1 /\ more[i].op = "add" => ~ more[i].alone)
      BY DEF QueueOfShop
    <2>1. CASE i \in 1 .. Len(q)
      BY <1>4, <2>1 DEF ShopInv, QueueOfShop
    <2>2. CASE i = Len(q) + 1
      <3>1. more[i] = task
        BY <1>4, <2>2
      <3>2. task.op \in ShopAction
        BY <1>1 DEF Asked, ShopAction
      <3>3. i # 1 => q # << >>
        BY <1>4, <2>2
      <3> QED
        BY <1>1, <3>1, <3>2, <3>3 DEF Asked
    <2> QED
      BY <1>4, <2>1, <2>2
  <1>7. AddsAlone(more) =>
           \/ q # << >> /\ AddsAlone(q) /\ Head(more) = Head(q)
           \/ q = << >> /\ Head(more) = task /\ task.op = "add"
    BY <1>5 DEF AddsAlone
  <1>8. AddsAlone(more) /\ Head(more).snap = None => shown'[t] = None
    <2>1. shown[t] = None => shown'[t] = None
      BY <1>1 DEF Asked
    <2> QED
      BY <1>1, <1>7, <2>1 DEF Asked, ShopInv
  <1>9. ASSUME t \notin doubt'
        PROVE  Sure(t)'
    <2>1. CASE call[t].pc = "read" /\ (call[t].wrote \/ call[t].jar = cookie)
      BY <1>2, <2>1 DEF Sure, Reads
    <2>2. CASE t \notin doubt
      <3>1. Sure(t)
        BY <2>2 DEF ShopInv
      <3>2. ASSUME ~ Reads(call[t]), NoAdd(more)
            PROVE  shown'[t] = Content(cookie)
        BY <1>1, <1>5, <3>1, <3>2 DEF Sure, Asked
      <3>3. ASSUME ~ Reads(call[t]), AddsAlone(more)
            PROVE  Head(more).snap = Content(cookie)
        <4>1. CASE q # << >> /\ AddsAlone(q) /\ Head(more) = Head(q)
          BY <3>1, <3>3, <4>1 DEF Sure
        <4>2. CASE q = << >> /\ Head(more) = task /\ task.op = "add"
          <5>1. NoAdd(q)
            BY <1>4, <4>2 DEF NoAdd
          <5> QED
            BY <1>1, <3>1, <3>3, <4>2, <5>1 DEF Sure, Asked
        <4> QED
          BY <1>7, <3>3, <4>1, <4>2
      <3> QED
        BY <1>2, <1>3, <3>1, <3>2, <3>3 DEF Sure, Reads, Content
    <2> QED
      BY <1>2, <1>9, <2>1, <2>2, DoubtElsewhere
  <1>10. call[t].pc = "reply" => Head(more) = Head(q)
    BY <1>2, <1>5
  <1> QED
    BY <1>2, <1>3, <1>6, <1>8, <1>9, <1>10 DEF ShopInv

\* A step that leaves call, queue and what is shown alone.
LEMMA ShopKept ==
    ASSUME NEW t \in Tab, ShopInv(t), Doubt(t), UNCHANGED <<page, job, queue, call, shown, carts, cookie, faults>>
    PROVE  ShopInv(t)'
  <1>1. ASSUME t \notin doubt', page[t] = "shop"
        PROVE  Sure(t)'
    <2>1. CASE call[t].pc = "read" /\ (call[t].wrote \/ call[t].jar = cookie)
      BY <2>1 DEF Sure, Reads
    <2>2. CASE t \notin doubt
      BY <1>1, <2>2 DEF ShopInv, Sure, Reads, NoAdd, AddsAlone, Content
    <2> QED
      BY <1>1, <2>1, <2>2, DoubtElsewhere
  <1> QED
    BY <1>1 DEF ShopInv, QueueOfShop, AddsAlone

\* The steps of a tab that is in the shop, and of one that is not.
LEMMA ShopInvOwn ==
    ASSUME Inv, NothingInUnused, NEW t \in Tab, ShopInv(t), Aside(t),
           ServerMoves(t) \/ ShopReply(t) \/ ShopMoves(t) \/ CheckoutReply(t) \/ FormMoves(t) \/ ReturnMoves(t)
    PROVE  ShopInv(t)'
  <1>1. StoreInv /\ ContextTypeOK /\ Doubt(t) /\ page \in [Tab -> Page]
    BY DEF Inv, Aside, CheckoutTypeOK
  <1>2. CASE ServerMoves(t)
    <2>1. UNCHANGED <<page, job, shown>>
      BY <1>2 DEF ServerMoves, checkoutVars
    <2>2. CASE page[t] = "shop"
      BY <1>1, <1>2, <2>1, <2>2, ShopSends, ShopServerStep DEF ServerMoves
    <2>3. CASE page[t] # "shop"
      BY <2>1, <2>3 DEF ShopInv
    <2> QED
      BY <2>2, <2>3
  <1>3. CASE ShopReply(t)
    BY <1>1, <1>3, ShopGetsReply DEF ShopReply, checkoutVars
  <1>4. CASE ShopMoves(t)
    <2>1. page[t] = "shop" /\ UNCHANGED <<page, job>>
      BY <1>4 DEF ShopMoves, checkoutVars
    <2> QED
      BY <1>1, <1>4, <2>1, ShopAsked
  <1>5. CASE page[t] # "shop"
    <2>1. page'[t] # "shop"
      <3>1. page' = page \/ \E p \in Page \ {"shop"} : page' = [page EXCEPT ![t] = p]
        BY DEF ServerMoves, ShopReply, ShopMoves, checkoutVars, CheckoutReply, FormReply, Saved, SaveFails,
               SessionReply, QuoteReply, Placed, PollReply, FormMoves, Submit, Confirm, Pay, AskSession, Begin,
               Render, GoStale, ReturnToForm, ReturnMoves, StartPoll, Consent, Page
      <3> QED
        BY <1>1, <1>5, <3>1
    <2> QED
      BY <2>1 DEF ShopInv
  <1>6. CASE page[t] = "shop" /\ (CheckoutReply(t) \/ FormMoves(t) \/ ReturnMoves(t))
    <2>1. ~ CheckoutReply(t) /\ ~ ReturnMoves(t)
      BY <1>6 DEF CheckoutReply, FormReply, PollReply, ReturnMoves, StartPoll, Consent
    <2>2. \A j \in Job : ~ Confirm(t, j)
      BY <1>6 DEF ShopInv, Confirm
    <2>3. load.jobs \subseteq Job
      BY LoadsAssumption DEF Inv
    <2>4. Render(t)
      BY <1>6, <2>1, <2>2, <2>3 DEF FormMoves, Submit, Pay, AskSession, Begin, GoStale, ReturnToForm
    <2>5. shown' = shown
      BY <1>6, <2>1 DEF FormMoves
    <2> QED
      BY <1>1, <2>4, <2>5, ShopKept DEF Render, storeVars
  <1> QED
    BY <1>2, <1>3, <1>4, <1>5, <1>6

\* A step of tab t leaves the calls and what is shown of the other tabs alone.
LEMMA ShownElsewhere ==
    ASSUME Inv, NEW t \in Tab, NEW s \in Tab \ {t},
           ServerMoves(t) \/ ShopReply(t) \/ ShopMoves(t) \/ CheckoutReply(t) \/ FormMoves(t) \/ ReturnMoves(t)
    PROVE  call'[s] = call[s] /\ shown'[s] = shown[s]
  <1>1. call \in [Tab -> CallRecord] /\ shown \in [Tab -> Quantity \cup {None}]
    BY DEF Inv, StoreInv, StoreTypeOK, ContextTypeOK
  <1>2. shown' = shown \/ \E n : shown' = [shown EXCEPT ![t] = n]
    BY DEF ServerMoves, ShopReply, Apply, ShopMoves, Add, Change, CheckoutReply, FormMoves, ReturnMoves
  <1>3. CASE ServerMoves(t)
    <2>1. \E r : call' = [call EXCEPT ![t] = r]
      <3>1. CASE Send(t)
        BY <3>1 DEF Send
      <3>2. ASSUME NEW pc \in PC, Reach(t, pc)
            PROVE  \E r : call' = [call EXCEPT ![t] = r]
        BY <3>2, Reached DEF Inv
      <3>3. ASSUME NEW result \in Result, Answer(t, result) \/ Attempt(t, result)
            PROVE  \E r : call' = [call EXCEPT ![t] = r]
        BY <3>3, Answered, Attempted DEF Inv
      <3>4. CASE CreateCart(t)
        BY <3>3, <3>4 DEF CreateCart, Result
      <3>5. CASE AddLine(t) \/ UpdateLine(t) \/ GetOrSetCart(t)
        BY <3>2, <3>3, <3>5 DEF AddLine, UpdateLine, GetOrSetCart, PC, Result
      <3>6. CASE ReadBack(t)
        BY <3>6 DEF ReadBack
      <3>7. CASE Own(t) \/ Retrieve(t) \/ Check(t)
        BY <3>2, <3>3, <3>7 DEF Own, Retrieve, Check, PC, Result
      <3>8. CASE Complete(t)
        BY <3>3, <3>8 DEF Complete, Redirect, Result
      <3> QED
        BY <1>3, <3>1, <3>4, <3>5, <3>6, <3>7, <3>8 DEF ServerMoves, ServerStep
    <2> QED
      BY <1>1, <1>2, <2>1
  <1>4. CASE ~ ServerMoves(t)
    <2>1. call' = call \/ call' = [call EXCEPT ![t] = NoCall]
      BY <1>4 DEF ShopReply, Apply, Reply, ShopMoves, Add, Change, AskFor, CheckoutReply, FormReply, Saved, SaveFails,
                  SessionReply, QuoteReply, Placed, PollReply, FormMoves, Submit, Confirm, Pay, AskSession, Begin,
                  Render, GoStale, ReturnToForm, ReturnMoves, StartPoll, Consent, storeVars
    <2> QED
      BY <1>1, <1>2, <2>1
  <1> QED
    BY <1>3, <1>4

AllShops == NothingInUnused /\ \A t \in Tab : ShopInv(t)

LEMMA AllShopsNext == ASSUME Inv, AllShops, [Next]_vars PROVE AllShops'
  <1>1. CASE UNCHANGED vars
    BY <1>1 DEF vars, storeVars, contextVars, checkoutVars, AllShops, NothingInUnused, Used, ShopInv, Sure,
                QueueOfShop, NoAdd, AddsAlone, Reads, Content
  <1>2. ASSUME NEW t \in Tab,
               ServerMoves(t) \/ ShopReply(t) \/ ShopMoves(t) \/ CheckoutReply(t) \/ FormMoves(t) \/ ReturnMoves(t),
               Aside(t)
        PROVE  AllShops'
    <2>1. StoreStep(t)
      BY <1>2, ShopSteps, CheckoutReplySteps, FormSteps, LoadsAssumption DEF ServerMoves, StoreStep, Inv
    <2>2. NothingInUnused'
      BY <2>1, NothingInUnusedKept DEF Inv, AllShops
    <2>3. ShopInv(t)'
      BY <1>2, ShopInvOwn DEF AllShops
    <2>4. OthersKeep(t)
      BY <1>2, RepliesKeep, MovesKeep
    <2>5. ASSUME NEW s \in Tab \ {t}
          PROVE  ShopInv(s)'
      <3>1. call'[s] = call[s] /\ shown'[s] = shown[s]
        BY <1>2, <2>5, ShownElsewhere
      <3>2. Doubt(t) /\ ShopInv(s)
        BY <1>2 DEF Aside, AllShops
      <3> QED
        BY <2>4, <2>5, <3>1, <3>2, ShopElsewhere DEF OthersKeep
    <2> QED
      BY <2>2, <2>3, <2>5 DEF AllShops
  <1> QED
    BY <1>1, <1>2 DEF Next

\* A tab of the shop that is at rest shows the cart in the cookie unless it is in doubt:
\* optimistic additions, their rollbacks and the results of the server actions
\* (CartContext.tsx) leave nothing else on the page.
THEOREM ShowsTheCart == Spec => []ShownUnlessInDoubt
  <1>1. Init => AllShops
    <2> SUFFICES ASSUME Init PROVE AllShops
      OBVIOUS
    <2>1. NothingInUnused
      BY DEF Init, StoreInit, NothingInUnused, Used, NoCart, Cart
    <2>2. ASSUME NEW t \in Tab
          PROVE  ShopInv(t)
      <3>1. /\ queue[t] = << >> /\ Len(queue[t]) = 0 /\ call[t] = NoCall /\ shown[t] = Content(cookie)
            /\ \A j \in Job : job[t][j] = "idle"
        BY DEF Init, StoreInit, ContextInit, CheckoutInit, NoJobs
      <3>2. NoCall.pc = "idle" /\ "idle" \in ShopPC
        BY DEF NoCall, ShopPC
      <3> QED
        BY <3>1, <3>2 DEF ShopInv, QueueOfShop, AddsAlone, Sure, Reads
    <2> QED
      BY <2>1, <2>2 DEF AllShops
  <1>2. Inv /\ AllShops /\ [Next]_vars => AllShops'
    BY AllShopsNext
  <1>3. Inv /\ AllShops => ShownUnlessInDoubt
    <2> SUFFICES ASSUME Inv, AllShops, NEW t \in Tab \ doubt, page[t] = "shop", queue[t] = << >>
                 PROVE  shown[t] = Content(cookie)
      BY DEF ShownUnlessInDoubt
    <2>1. Sure(t)
      BY DEF AllShops, ShopInv
    <2>2. call[t].pc = "idle"
      BY DEF Inv, StoreInv, Calls
    <2>3. Len(queue[t]) = 0
      OBVIOUS
    <2> QED
      BY <2>1, <2>2, <2>3 DEF Sure, Reads, NoAdd
  <1> QED
    BY <1>1, <1>2, <1>3, Invariance, PTL DEF Spec
=============================================================================
