-------------------------- MODULE Storefront_proofs --------------------------
(***************************************************************************)
(* Proofs about the storefront's tabs, for any number of tabs, handlers,   *)
(* carts, faults and loads.  An invariant of the carts and the calls (the  *)
(* store) comes first, since everything else only asks the store.  Then:   *)
(* orders are made once (OrdersOnce), and no form is stuck but after a     *)
(* failed save (NeverStuckOtherwise).                                      *)
(***************************************************************************)
EXTENDS Storefront, TLAPS, SequenceTheorems

OnCart == {"add", "addAgain", "update", "delete", "retrieve", "check", "complete"}

\* A call is the head of its tab's queue, works on the cart it sees, and answers with
\* an order only when there is one.
Calls ==
    \A t \in Tab :
        /\ call[t].pc = "idle" => ~ call[t].wrote
        /\ call[t].pc # "idle" => queue[t] # << >>
        /\ call[t].pc # "reply" => call[t].jar = call[t].cart
        /\ call[t].pc \in OnCart => call[t].cart # None
        /\ call[t].pc = "own" /\ call[t].op = "save" => call[t].cart # None
        /\ call[t].pc = "reply" /\ call[t].result \in {"order", "already"} => call[t].cart \in Ordered

StoreInv == StoreTypeOK /\ Calls

\* What the steps of tabs do to the store besides the calls: they ask for more.
Asks(t, tasks) ==
    /\ tasks \in Seq(Task)
    /\ queue' = [queue EXCEPT ![t] = @ \o tasks]
    /\ UNCHANGED <<carts, cookie, call, faults, crossed>>

\* Every step of the store, whoever takes it.
StoreStep(t) ==
    \/ Send(t)
    \/ ServerStep(t)
    \/ \E result \in Result, more \in Seq(Task) : Reply(t, result, more)
    \/ \E tasks \in Seq(Task) : Asks(t, tasks)
    \/ UNCHANGED storeVars

USE CartsAssumption, AttemptsAssumption

LEMMA StoreInitInv == StoreInit => StoreInv
  <1> SUFFICES ASSUME StoreInit PROVE StoreInv
    OBVIOUS
  <1>1. NoCall \in CallRecord
    BY DEF NoCall, CallRecord, PC, Action, Result
  <1>2. StoreTypeOK
    <2>1. carts \in [Cart -> [status : {"unused", "open", "ordered"}, items : Quantity]]
      BY DEF StoreInit, NoCart, NewCart, Cart, Quantity
    <2>2. cookie \in Cart \cup {None}
      BY DEF StoreInit, Cart
    <2>3. queue \in [Tab -> Seq(Task)]
      <3>1. << >> \in Seq(Task)
        OBVIOUS
      <3> QED
        BY <3>1 DEF StoreInit
    <2>4. call \in [Tab -> CallRecord]
      BY <1>1 DEF StoreInit
    <2>5. faults \in 0 .. MaxFaults /\ crossed \in BOOLEAN
      <3>1. faults = 0 /\ crossed = FALSE
        BY DEF StoreInit
      <3>2. faults \in 0 .. MaxFaults
        BY <3>1, SMT
      <3>3. crossed \in BOOLEAN
        BY <3>1, Zenon
      <3> QED
        BY <3>2, <3>3
    <2> QED
      BY <2>1, <2>2, <2>3, <2>4, <2>5 DEF StoreTypeOK
  <1>3. Calls
    BY DEF StoreInit, Calls, NoCall, OnCart
  <1> QED
    BY <1>2, <1>3 DEF StoreInv

-----------------------------------------------------------------------------
\* A step that moves one call to a record of the type, and leaves the rest of the
\* calls and the queues alone, keeps the invariant if that call has its part of it.
LEMMA OneCall ==
    ASSUME StoreInv, NEW t \in Tab, NEW q \in CallRecord,
           call' = [call EXCEPT ![t] = q], UNCHANGED <<cookie, queue, crossed>>,
           faults' \in 0 .. MaxFaults,
           carts' \in [Cart -> [status : {"unused", "open", "ordered"}, items : Quantity]],
           Ordered \subseteq Ordered',
           q.pc # "idle", queue[t] # << >>,
           q.pc # "reply" => q.jar = q.cart,
           q.pc \in OnCart => q.cart # None,
           q.pc = "own" /\ q.op = "save" => q.cart # None,
           q.pc = "reply" /\ q.result \in {"order", "already"} => q.cart \in Ordered'
    PROVE  StoreInv'
  <1>1. StoreTypeOK'
    BY DEF StoreInv, StoreTypeOK
  <1>2. ASSUME NEW s \in Tab
        PROVE  Calls!(s)'
    <2>1. CASE s = t
      <3>1. call'[s] = q
        BY <2>1 DEF StoreInv, StoreTypeOK
      <3> QED
        BY <3>1, <2>1
    <2>2. CASE s # t
      <3>1. call'[s] = call[s]
        BY <2>2 DEF StoreInv, StoreTypeOK
      <3> QED
        BY <3>1, <2>2 DEF StoreInv, Calls
    <2> QED
      BY <2>1, <2>2
  <1> QED
    BY <1>1, <1>2 DEF StoreInv, Calls

\* The two ways in which most steps leave the call: at another point, and answered.
LEMMA Reached ==
    ASSUME StoreInv, NEW t \in Tab, NEW pc \in PC, Reach(t, pc)
    PROVE  \E q \in CallRecord :
              /\ call' = [call EXCEPT ![t] = q]
              /\ q.pc = pc /\ q.jar = call[t].jar /\ q.cart = call[t].cart /\ q.op = call[t].op
              /\ q.wrote = call[t].wrote /\ q.sent = call[t].sent
  <1> DEFINE q == [call[t] EXCEPT !.pc = pc]
  <1>1. call[t] \in CallRecord
    BY DEF StoreInv, StoreTypeOK
  <1>2. q \in CallRecord /\ q.pc = pc /\ q.jar = call[t].jar /\ q.cart = call[t].cart /\ q.op = call[t].op
        /\ q.wrote = call[t].wrote /\ q.sent = call[t].sent
    BY <1>1 DEF CallRecord, PC
  <1>3. call' = [call EXCEPT ![t] = q]
    BY <1>1 DEF Reach
  <1> QED
    BY <1>2, <1>3

LEMMA Answered ==
    ASSUME StoreInv, NEW t \in Tab, NEW result \in Result, Answer(t, result)
    PROVE  \E q \in CallRecord :
              /\ call' = [call EXCEPT ![t] = q]
              /\ q.pc = "reply" /\ q.result = result /\ q.jar = call[t].jar /\ q.cart = call[t].cart
              /\ q.op = call[t].op /\ q.wrote = call[t].wrote /\ q.sent = call[t].sent
  <1> DEFINE q == [call[t] EXCEPT !.pc = "reply", !.result = result]
  <1>1. call[t] \in CallRecord
    BY DEF StoreInv, StoreTypeOK
  <1>2. q \in CallRecord /\ q.pc = "reply" /\ q.jar = call[t].jar /\ q.cart = call[t].cart /\ q.op = call[t].op
        /\ q.wrote = call[t].wrote /\ q.sent = call[t].sent /\ q.result = result
    BY <1>1 DEF CallRecord, PC, Result
  <1>3. call' = [call EXCEPT ![t] = q]
    BY <1>1 DEF Answer
  <1> QED
    BY <1>2, <1>3

LEMMA Attempted ==
    ASSUME StoreInv, NEW t \in Tab, NEW result \in Result, Attempt(t, result)
    PROVE  \E q \in CallRecord :
              /\ call' = [call EXCEPT ![t] = q]
              /\ \/ q.pc = "retrieve"
                 \/ q.pc = "reply" /\ q.result = result
                 \/ q.pc = "reply" /\ q.result = "timeout"
              /\ q.jar = call[t].jar /\ q.cart = call[t].cart
              /\ q.op = call[t].op /\ q.wrote = call[t].wrote /\ q.sent = call[t].sent
  <1>1. CASE Answer(t, result)
    BY <1>1, Answered
  <1>2. CASE Answer(t, "timeout")
    BY <1>2, Answered DEF Result
  <1>3. CASE /\ call[t].attempt < MAX_ATTEMPTS - 1
             /\ call' = [call EXCEPT ![t].pc = "retrieve", ![t].attempt = @ + 1]
    <2> DEFINE q == [call[t] EXCEPT !.pc = "retrieve", !.attempt = @ + 1]
    <2>1. call[t] \in CallRecord
      BY DEF StoreInv, StoreTypeOK
    <2> DEFINE more == call[t].attempt + 1
    <2>4. more \in 0 .. MAX_ATTEMPTS - 1
      BY <1>3, <2>1 DEF CallRecord
    <2>5. q = [call[t] EXCEPT !.pc = "retrieve", !.attempt = more]
      BY <2>1
    <2> HIDE DEF more
    <2>2. q \in CallRecord /\ q.pc = "retrieve" /\ q.jar = call[t].jar /\ q.cart = call[t].cart
          /\ q.op = call[t].op /\ q.wrote = call[t].wrote /\ q.sent = call[t].sent
      BY <2>1, <2>4, <2>5 DEF CallRecord, PC
    <2>3. call' = [call EXCEPT ![t] = q]
      BY <1>3, <2>1
    <2> QED
      BY <2>2, <2>3
  <1> QED
    BY <1>1, <1>2, <1>3 DEF Attempt

-----------------------------------------------------------------------------
\* What every step of a server action finds: a call of the type, at the head of its queue.
LEMMA AtCall ==
    ASSUME StoreInv, NEW t \in Tab, call[t].pc # "idle"
    PROVE  /\ call[t] \in CallRecord
           /\ queue[t] # << >>
           /\ Head(queue[t]) \in Task
           /\ Head(queue[t]).n \in Quantity
           /\ call[t].pc # "reply" => call[t].jar = call[t].cart
           /\ call[t].pc \in OnCart => call[t].cart \in Cart
           /\ call[t].cart \in Cart \cup {None} /\ call[t].jar \in Cart \cup {None}
  <1>1. call[t] \in CallRecord /\ queue[t] \in Seq(Task) /\ queue[t] # << >>
    BY DEF StoreInv, StoreTypeOK, Calls
  <1>2. Head(queue[t]) \in Task
    BY <1>1
  <1>3. call[t].cart \in Cart \cup {None} /\ call[t].jar \in Cart \cup {None}
    BY <1>1 DEF CallRecord
  <1>4. /\ call[t].pc # "reply" => call[t].jar = call[t].cart
        /\ call[t].pc \in OnCart => call[t].cart # None
    BY DEF StoreInv, Calls
  <1>5. Head(queue[t]).n \in Quantity
    BY <1>2 DEF Task
  <1> QED
    BY <1>1, <1>2, <1>3, <1>4, <1>5

\* A change of the quantity in a cart keeps what the carts are.
LEMMA PutInv ==
    ASSUME StoreInv, NEW c \in Cart, NEW n \in Quantity, Put(c, n)
    PROVE  /\ carts' \in [Cart -> [status : {"unused", "open", "ordered"}, items : Quantity]]
           /\ Ordered' = Ordered
           /\ carts'[c].items = n /\ carts'[c].status = carts[c].status
           /\ \A d \in Cart : d # c => carts'[d] = carts[d]
  BY DEF StoreInv, StoreTypeOK, Put, Ordered

LEMMA SendInv == ASSUME StoreInv, NEW t \in Tab, Send(t) PROVE StoreInv'
  <1> DEFINE op == Head(queue[t]).op
             q == [pc |-> Entry(op, cookie), sent |-> cookie, jar |-> cookie, cart |-> cookie, wrote |-> FALSE,
                   op |-> op, attempt |-> 0, result |-> EntryResult(op, cookie), read |-> None]
  <1>1. queue[t] # << >> /\ queue[t] \in Seq(Task) /\ cookie \in Cart \cup {None}
    BY DEF Send, StoreInv, StoreTypeOK
  <1>2. op \in Action
    <2>1. Head(queue[t]) \in Task
      BY <1>1
    <2> QED
      BY <2>1 DEF Task
  <1>3. Entry(op, cookie) \in PC /\ EntryResult(op, cookie) \in Result
    BY <1>2 DEF Entry, EntryResult, Needs, Action, PC, Result
  <1>4. 0 \in 0 .. MAX_ATTEMPTS - 1
    OBVIOUS
  <1>5. q \in CallRecord
    BY <1>1, <1>2, <1>3, <1>4 DEF CallRecord
  <1>6. /\ Entry(op, cookie) # "idle"
        /\ Entry(op, cookie) \in OnCart => cookie # None
        /\ Entry(op, cookie) = "own" /\ op = "save" => cookie # None
        /\ EntryResult(op, cookie) \notin {"order", "already"}
    BY <1>2 DEF Entry, EntryResult, Needs, Action, OnCart
  <1>7. call' = [call EXCEPT ![t] = q]
    BY DEF Send
  <1>8. q.pc = Entry(op, cookie) /\ q.jar = cookie /\ q.cart = cookie /\ q.op = op
        /\ q.result = EntryResult(op, cookie)
    OBVIOUS
  <1> HIDE DEF q
  <1>9. UNCHANGED <<carts, cookie, queue, faults, crossed>>
    BY DEF Send
  <1>10. Ordered' = Ordered
    BY <1>9 DEF Ordered
  <1> QED
    BY <1>1, <1>5, <1>6, <1>7, <1>8, <1>9, <1>10, OneCall DEF StoreInv, StoreTypeOK

\* The steps of the server actions, one by one.
LEMMA CreateCartInv ==
    ASSUME StoreInv, NEW t \in Tab, CreateCart(t), UNCHANGED <<cookie, queue, crossed>> PROVE StoreInv'
  <1>1. /\ call[t].pc \in {"create", "recreate", "replace"}
        /\ call[t] \in CallRecord /\ queue[t] # << >> /\ call[t].jar = call[t].cart
        /\ faults \in 0 .. MaxFaults
    BY AtCall DEF CreateCart, StoreInv, StoreTypeOK
  <1>2. CASE Fault /\ Answer(t, "thrown") /\ UNCHANGED carts
    <2>1. PICK q \in CallRecord : call' = [call EXCEPT ![t] = q] /\ q.pc = "reply" /\ q.result = "thrown"
      BY <1>2, Answered DEF Result
    <2>2. faults' \in 0 .. MaxFaults
      BY <1>1, <1>2 DEF Fault
    <2>3. Ordered' = Ordered
      BY <1>2 DEF Ordered
    <2> QED
      BY <1>1, <1>2, <2>1, <2>2, <2>3, OneCall DEF StoreInv, StoreTypeOK, OnCart
  <1>3. ASSUME NEW c \in Cart, carts[c].status = "unused", NoFault, carts' = [carts EXCEPT ![c] = NewCart],
               call' = [call EXCEPT ![t].pc = AfterCreate(call[t].pc), ![t].cart = c, ![t].jar = c, ![t].wrote = TRUE]
        PROVE  StoreInv'
    <2> DEFINE pc == AfterCreate(call[t].pc)
               q == [call[t] EXCEPT !.pc = pc, !.cart = c, !.jar = c, !.wrote = TRUE]
    <2>1. pc \in {"add", "addAgain", "update"}
      BY <1>1 DEF AfterCreate
    <2>2. call' = [call EXCEPT ![t] = q]
      BY <1>1, <1>3
    <2> HIDE DEF pc
    <2>3. q \in CallRecord /\ q.pc = pc /\ q.jar = c /\ q.cart = c
      BY <1>1, <2>1 DEF CallRecord, PC
    <2>4. carts' \in [Cart -> [status : {"unused", "open", "ordered"}, items : Quantity]]
      BY <1>3 DEF StoreInv, StoreTypeOK, NewCart, Quantity
    <2>5. Ordered' = Ordered
      <3>1. \A d \in Cart : carts'[d] = IF d = c THEN NewCart ELSE carts[d]
        BY <1>3 DEF StoreInv, StoreTypeOK
      <3> QED
        BY <1>3, <3>1 DEF Ordered, NewCart
    <2>6. c # None
      BY DEF Cart
    <2> HIDE DEF q
    <2> QED
      BY <1>1, <1>3, <2>1, <2>2, <2>3, <2>4, <2>5, <2>6, OneCall DEF NoFault
  <1> QED
    BY <1>2, <1>3 DEF CreateCart

LEMMA AddLineInv ==
    ASSUME StoreInv, NEW t \in Tab, AddLine(t), UNCHANGED <<cookie, queue, crossed>> PROVE StoreInv'
  <1> DEFINE c == call[t].cart
             n == carts[c].items + Head(queue[t]).n
  <1>1. /\ call[t].pc \in {"add", "addAgain"}
        /\ call[t] \in CallRecord /\ queue[t] # << >> /\ call[t].jar = c /\ c \in Cart /\ c # None
        /\ Head(queue[t]).n \in Quantity
        /\ faults \in 0 .. MaxFaults
    BY AtCall DEF AddLine, StoreInv, StoreTypeOK, OnCart, Cart
  <1>2. /\ carts' \in [Cart -> [status : {"unused", "open", "ordered"}, items : Quantity]]
        /\ Ordered' = Ordered
    <2>1. CASE n <= MaxQuantity /\ Put(c, n)
      <3>1. carts[c].items \in Quantity
        BY <1>1 DEF StoreInv, StoreTypeOK
      <3>2. n \in Quantity
        BY <1>1, <2>1, <3>1 DEF Quantity
      <3> QED
        BY <1>1, <2>1, <3>2, PutInv
    <2>2. CASE UNCHANGED carts
      BY <2>2 DEF StoreInv, StoreTypeOK, Ordered
    <2> QED
      BY <2>1, <2>2 DEF AddLine
  <1>3. faults' \in 0 .. MaxFaults
    BY <1>1 DEF AddLine, Fault, NoFault
  <1>4. PICK q \in CallRecord :
           /\ call' = [call EXCEPT ![t] = q]
           /\ q.jar = c /\ q.cart = c
           /\ q.pc \in {"read", "recreate"} \/ (q.pc = "reply" /\ q.result = "thrown")
    <2>1. CASE Reach(t, "read")
      BY <1>1, <2>1, Reached DEF PC
    <2>2. CASE Reach(t, "recreate")
      BY <1>1, <2>2, Reached DEF PC
    <2>3. CASE Answer(t, "thrown")
      BY <1>1, <2>3, Answered DEF Result
    <2> QED
      BY <2>1, <2>2, <2>3 DEF AddLine
  <1> QED
    BY <1>1, <1>2, <1>3, <1>4, OneCall DEF OnCart

LEMMA UpdateLineInv ==
    ASSUME StoreInv, NEW t \in Tab, UpdateLine(t), UNCHANGED <<cookie, queue, crossed>> PROVE StoreInv'
  <1> DEFINE c == call[t].cart
             n == IF call[t].op = "set" THEN Head(queue[t]).n ELSE 0
  <1>1. /\ call[t].pc \in {"update", "delete"}
        /\ call[t] \in CallRecord /\ queue[t] # << >> /\ call[t].jar = c /\ c \in Cart /\ c # None
        /\ Head(queue[t]).n \in Quantity
        /\ faults \in 0 .. MaxFaults
    BY AtCall DEF UpdateLine, StoreInv, StoreTypeOK, OnCart, Cart
  <1>2. /\ carts' \in [Cart -> [status : {"unused", "open", "ordered"}, items : Quantity]]
        /\ Ordered' = Ordered
    <2>1. CASE Put(c, n)
      <3>1. n \in Quantity
        BY <1>1 DEF Quantity
      <3> HIDE DEF n, c
      <3> QED
        BY <1>1, <2>1, <3>1, PutInv
    <2>2. CASE UNCHANGED carts
      BY <2>2 DEF StoreInv, StoreTypeOK, Ordered
    <2> QED
      BY <2>1, <2>2 DEF UpdateLine
  <1>3. faults' \in 0 .. MaxFaults
    BY <1>1 DEF UpdateLine, Fault, NoFault
  <1>4. PICK q \in CallRecord :
           /\ call' = [call EXCEPT ![t] = q]
           /\ q.jar = c /\ q.cart = c
           /\ q.pc = "read" \/ (q.pc = "reply" /\ q.result = "thrown")
    <2>1. CASE Reach(t, "read")
      BY <1>1, <2>1, Reached DEF PC
    <2>2. CASE Answer(t, "thrown")
      BY <1>1, <2>2, Answered DEF Result
    <2> QED
      BY <2>1, <2>2 DEF UpdateLine
  <1> QED
    BY <1>1, <1>2, <1>3, <1>4, OneCall DEF OnCart

\* The steps that leave the carts alone.
LEMMA QuietStepInv ==
    ASSUME StoreInv, NEW t \in Tab, UNCHANGED <<cookie, queue, crossed>>,
           GetOrSetCart(t) \/ ReadBack(t) \/ Own(t) \/ Retrieve(t) \/ Check(t)
    PROVE  StoreInv'
  <1>1. /\ call[t] \in CallRecord /\ queue[t] # << >> /\ call[t].jar = call[t].cart
        /\ call[t].jar \in Cart \cup {None}
        /\ call[t].pc \in OnCart => call[t].cart # None
        /\ faults \in 0 .. MaxFaults
    BY AtCall DEF GetOrSetCart, ReadBack, Own, Retrieve, Check, StoreInv, StoreTypeOK, OnCart, Cart
  <1>2. UNCHANGED carts /\ Ordered' = Ordered /\ faults' \in 0 .. MaxFaults
    BY <1>1 DEF GetOrSetCart, ReadBack, Own, Retrieve, Check, Ordered, Fault, NoFault
  <1>3. carts' \in [Cart -> [status : {"unused", "open", "ordered"}, items : Quantity]]
    BY <1>2 DEF StoreInv, StoreTypeOK
  <1>4. PICK q \in CallRecord :
           /\ call' = [call EXCEPT ![t] = q]
           /\ q.cart = call[t].cart /\ q.jar = call[t].jar
           /\ \/ q.pc \in {"replace", "retrieve"} /\ (q.pc = "retrieve" => q.cart # None)
              \/ q.pc \in {"update", "check", "complete"} /\ q.cart # None
              \/ q.pc = "reply" /\ (q.result \in {"order", "already"} => q.cart \in Ordered)
    <2>1. CASE GetOrSetCart(t)
      <3>1. CASE call[t].jar = None /\ Reach(t, "replace")
        BY <3>1, Reached DEF PC
      <3>2. CASE call[t].jar # None /\ Reach(t, "update")
        BY <1>1, <3>2, Reached DEF PC
      <3>3. CASE Reach(t, "replace")
        BY <3>3, Reached DEF PC
      <3> QED
        BY <2>1, <3>1, <3>2, <3>3 DEF GetOrSetCart
    <2>2. ASSUME NEW r \in Quantity \cup {None},
                 call' = [call EXCEPT ![t].pc = "reply", ![t].result = "done", ![t].read = r]
          PROVE  \E q \in CallRecord :
                   /\ call' = [call EXCEPT ![t] = q]
                   /\ q.cart = call[t].cart /\ q.jar = call[t].jar /\ q.pc = "reply" /\ q.result = "done"
      <3> DEFINE q == [call[t] EXCEPT !.pc = "reply", !.result = "done", !.read = r]
      <3>1. q \in CallRecord /\ q.cart = call[t].cart /\ q.jar = call[t].jar /\ q.pc = "reply"
            /\ q.result = "done"
        BY <1>1 DEF CallRecord, PC, Result
      <3>2. call' = [call EXCEPT ![t] = q]
        BY <2>2, <1>1
      <3> QED
        BY <3>1, <3>2
    <2>3. CASE ReadBack(t)
      <3>1. Content(call[t].jar) \in Quantity \cup {None}
        BY <1>1 DEF Content, StoreInv, StoreTypeOK
      <3> QED
        BY <2>2, <2>3, <3>1 DEF ReadBack
    <2>4. CASE Own(t)
      <3>1. Answer(t, "done") \/ Answer(t, "thrown")
        BY <2>4 DEF Own
      <3> QED
        BY <3>1, Answered DEF Result
    <2>5. CASE Retrieve(t)
      <3>1. call[t].cart # None
        BY <1>1, <2>5 DEF Retrieve, OnCart
      <3>2. CASE Reach(t, "check")
        BY <3>1, <3>2, Reached DEF PC
      <3>3. CASE Attempt(t, "error")
        BY <3>1, <3>3, Attempted DEF Result
      <3> QED
        BY <2>5, <3>2, <3>3 DEF Retrieve
    <2>6. CASE Check(t)
      <3>1. call[t].cart # None
        BY <1>1, <2>6 DEF Check, OnCart
      <3>2. CASE call[t].cart \in Ordered /\ Attempt(t, "already")
        BY <3>1, <3>2, Attempted DEF Result
      <3>3. CASE Reach(t, "complete")
        BY <3>1, <3>3, Reached DEF PC
      <3>4. CASE Attempt(t, "error")
        BY <3>1, <3>4, Attempted DEF Result
      <3> QED
        BY <2>6, <3>2, <3>3, <3>4 DEF Check
    <2> QED
      BY <2>1, <2>3, <2>4, <2>5, <2>6
  <1> QED
    BY <1>1, <1>2, <1>3, <1>4, OneCall DEF OnCart

LEMMA CompleteInv ==
    ASSUME StoreInv, NEW t \in Tab, Complete(t), UNCHANGED <<cookie, queue, crossed>> PROVE StoreInv'
  <1> DEFINE c == call[t].cart
  <1>1. /\ call[t].pc = "complete"
        /\ call[t] \in CallRecord /\ queue[t] # << >> /\ call[t].jar = c /\ c \in Cart /\ c # None
        /\ faults \in 0 .. MaxFaults
    BY AtCall DEF Complete, StoreInv, StoreTypeOK, OnCart, Cart
  <1>2. /\ carts' \in [Cart -> [status : {"unused", "open", "ordered"}, items : Quantity]]
        /\ Ordered \subseteq Ordered'
        /\ carts' = [carts EXCEPT ![c].status = "ordered"] => c \in Ordered'
    <2>1. CASE carts' = [carts EXCEPT ![c].status = "ordered"]
      BY <1>1, <2>1 DEF StoreInv, StoreTypeOK, Ordered
    <2>2. CASE UNCHANGED carts
      BY <2>2, <1>1 DEF StoreInv, StoreTypeOK, Ordered
    <2> QED
      BY <2>1, <2>2 DEF Complete
  <1>3. faults' \in 0 .. MaxFaults
    BY <1>1 DEF Complete, Fault, NoFault
  <1>4. PICK q \in CallRecord :
           /\ call' = [call EXCEPT ![t] = q]
           /\ q.cart = c
           /\ \/ q.pc = "reply" /\ (q.result \in {"order", "already"} => c \in Ordered')
              \/ q.pc = "retrieve" /\ q.jar = c
    <2>1. CASE Redirect(t) /\ c \in Ordered'
      <3> DEFINE q == [call[t] EXCEPT !.pc = "reply", !.result = "order", !.jar = None, !.wrote = TRUE]
      <3>1. q \in CallRecord /\ q.cart = c /\ q.pc = "reply"
        BY <1>1 DEF CallRecord, PC, Result
      <3>2. call' = [call EXCEPT ![t] = q]
        BY <1>1, <2>1 DEF Redirect
      <3> QED
        BY <2>1, <3>1, <3>2
    <2>2. CASE Attempt(t, "error")
      <3>1. PICK q \in CallRecord : /\ call' = [call EXCEPT ![t] = q]
                                    /\ q.jar = c /\ q.cart = c
                                    /\ \/ q.pc = "retrieve"
                                       \/ q.pc = "reply" /\ q.result \in {"error", "timeout"}
        BY <1>1, <2>2, Attempted DEF Result
      <3> QED
        BY <3>1
    <2> QED
      BY <1>1, <1>2, <2>1, <2>2 DEF Complete
  <1> HIDE DEF c
  <1> QED
    BY <1>1, <1>2, <1>3, <1>4, OneCall DEF OnCart

LEMMA ReplyInv ==
    ASSUME StoreInv, NEW t \in Tab, NEW result \in Result, NEW more \in Seq(Task), Reply(t, result, more)
    PROVE  StoreInv'
  <1>1. call[t] \in CallRecord /\ queue[t] # << >> /\ queue[t] \in Seq(Task)
    BY AtCall DEF Reply, StoreInv, StoreTypeOK
  <1>2. Tail(queue[t]) \o more \in Seq(Task)
    <2>1. Tail(queue[t]) \in Seq(Task)
      BY <1>1
    <2> QED
      BY <2>1
  <1>3. queue' = [queue EXCEPT ![t] = Tail(queue[t]) \o more] /\ call' = [call EXCEPT ![t] = NoCall]
    BY DEF Reply
  <1>4. NoCall \in CallRecord
    BY DEF NoCall, CallRecord, PC, Action, Result
  <1>5. StoreTypeOK'
    <2>1. queue' \in [Tab -> Seq(Task)] /\ call' \in [Tab -> CallRecord]
      BY <1>2, <1>3, <1>4 DEF StoreInv, StoreTypeOK
    <2>2. cookie' \in Cart \cup {None} /\ faults' \in 0 .. MaxFaults
      BY <1>1 DEF Reply, Fault, NoFault, StoreInv, StoreTypeOK, CallRecord
    <2>3. crossed' \in BOOLEAN
      <3>1. crossed \in BOOLEAN
        BY DEF StoreInv, StoreTypeOK
      <3>2. crossed' = crossed \/ crossed' = (crossed \/ (call[t].wrote /\ cookie # call[t].sent))
        BY DEF Reply
      <3> QED
        BY <3>1, <3>2, Zenon
    <2>4. carts' = carts
      BY DEF Reply
    <2> QED
      BY <2>1, <2>2, <2>3, <2>4 DEF StoreInv, StoreTypeOK
  <1>6. ASSUME NEW s \in Tab
        PROVE  Calls!(s)'
    <2>1. Ordered' = Ordered
      BY DEF Reply, Ordered
    <2>2. CASE s = t
      <3>1. call'[s] = NoCall
        BY <1>3, <2>2 DEF StoreInv, StoreTypeOK
      <3> QED
        BY <3>1 DEF NoCall, OnCart
    <2>3. CASE s # t
      <3>1. call'[s] = call[s] /\ queue'[s] = queue[s]
        BY <1>3, <2>3 DEF StoreInv, StoreTypeOK
      <3> QED
        BY <2>1, <3>1 DEF StoreInv, Calls
    <2> QED
      BY <2>2, <2>3
  <1> QED
    BY <1>5, <1>6 DEF StoreInv, Calls

LEMMA AsksInv ==
    ASSUME StoreInv, NEW t \in Tab, NEW tasks \in Seq(Task), Asks(t, tasks) PROVE StoreInv'
  <1>1. queue[t] \in Seq(Task) /\ queue' = [queue EXCEPT ![t] = queue[t] \o tasks]
    BY DEF Asks, StoreInv, StoreTypeOK
  <1>2. queue[t] \o tasks \in Seq(Task)
    BY <1>1
  <1>3. queue' \in [Tab -> Seq(Task)]
    BY <1>1, <1>2 DEF StoreInv, StoreTypeOK
  <1>4. UNCHANGED <<carts, cookie, call, faults, crossed>> /\ Ordered' = Ordered
    BY DEF Asks, Ordered
  <1>5. \A s \in Tab : queue[s] # << >> => queue'[s] # << >>
    <2> SUFFICES ASSUME NEW s \in Tab, queue[s] # << >> PROVE queue'[s] # << >>
      OBVIOUS
    <2>1. CASE s # t
      BY <1>1, <2>1 DEF StoreInv, StoreTypeOK
    <2>2. CASE s = t
      <3>1. queue'[s] = queue[t] \o tasks
        BY <1>1, <2>2 DEF StoreInv, StoreTypeOK
      <3>2. Len(queue[t] \o tasks) = Len(queue[t]) + Len(tasks) /\ Len(tasks) \in Nat /\ Len(queue[t]) \in Nat
        BY <1>1
      <3>3. Len(queue[t]) # 0
        BY <1>1, <2>2, EmptySeq
      <3>4. queue[t] \o tasks # << >>
        BY <1>1, <1>2, <3>2, <3>3, EmptySeq
      <3> QED
        BY <3>1, <3>4
    <2> QED
      BY <2>1, <2>2
  <1>6. StoreTypeOK'
    BY <1>3, <1>4 DEF StoreInv, StoreTypeOK
  <1>7. Calls'
    BY <1>4, <1>5 DEF StoreInv, Calls
  <1> QED
    BY <1>6, <1>7 DEF StoreInv

LEMMA StoreStepInv == ASSUME StoreInv, NEW t \in Tab, StoreStep(t) PROVE StoreInv'
  <1>1. CASE Send(t)
    BY <1>1, SendInv
  <1>2. CASE ServerStep(t)
    BY <1>2, CreateCartInv, AddLineInv, UpdateLineInv, QuietStepInv, CompleteInv DEF ServerStep
  <1>3. CASE \E result \in Result, more \in Seq(Task) : Reply(t, result, more)
    BY <1>3, ReplyInv
  <1>4. CASE \E tasks \in Seq(Task) : Asks(t, tasks)
    BY <1>4, AsksInv
  <1>5. CASE UNCHANGED storeVars
    BY <1>5 DEF storeVars, StoreInv, StoreTypeOK, Calls, Ordered
  <1> QED
    BY <1>1, <1>2, <1>3, <1>4, <1>5 DEF StoreStep

-----------------------------------------------------------------------------
\* The steps of the storefront as steps of the store.
LEMMA AskTask == ASSUME NEW op \in Action, NEW by \in Job \cup {None} PROVE Ask(op, by) \in Task
  BY DEF Ask, Task, Quantity

LEMMA OneTask ==
    ASSUME StoreInv, NEW t \in Tab, NEW task \in Task,
           queue' = [queue EXCEPT ![t] = Append(@, task)],
           UNCHANGED <<carts, cookie, call, faults, crossed>>
    PROVE  StoreStep(t)
  <1>1. queue[t] \in Seq(Task)
    BY DEF StoreInv, StoreTypeOK
  <1>2. Append(queue[t], task) = queue[t] \o <<task>> /\ <<task>> \in Seq(Task)
    BY <1>1
  <1>3. queue' = [queue EXCEPT ![t] = queue[t] \o <<task>>]
    BY <1>2
  <1> QED
    BY <1>2, <1>3 DEF StoreStep, Asks

LEMMA RepliesAreSteps ==
    ASSUME NEW t \in Tab, NEW result \in Result, Reply(t, result, << >>)
    PROVE  StoreStep(t)
  <1>1. << >> \in Seq(Task)
    OBVIOUS
  <1> QED
    BY <1>1 DEF StoreStep

LEMMA GoingOnIsAStep ==
    ASSUME NEW t \in Tab, NEW j \in Job, NEW op \in Action, NEW result \in Result, Reply(t, result, GoOn(j, op))
    PROVE  StoreStep(t)
  <1>1. Ask(op, j) \in Task
    BY AskTask
  <1>2. GoOn(j, op) \in Seq(Task)
    BY <1>1 DEF GoOn
  <1> QED
    BY <1>2 DEF StoreStep

\* A tab in the shop asks on its own account: for an addition, with what it showed and
\* whether it was at rest, or for a change that shows nothing yet.
Asked(t, task) ==
    /\ task.by = None
    /\ AskFor(t, task)
    /\ \/ /\ task.op = "add" /\ task.snap = shown[t] /\ (task.alone <=> queue[t] = << >>)
          /\ shown[t] = None => shown'[t] = None
       \/ task.op \in {"set", "remove", "fetch"} /\ shown' = shown

LEMMA ShopAsks ==
    ASSUME ContextTypeOK, NEW t \in Tab, ShopMoves(t)
    PROVE  \E task \in Task : Asked(t, task)
  <1>1. CASE Add(t)
    <2> DEFINE plain == Ask("add", None)
               alone == queue[t] = << >>
               task == [plain EXCEPT !.n = 1, !.snap = shown[t], !.alone = alone]
    <2>1. plain \in Task /\ plain.by = None /\ plain.op = "add"
      BY AskTask DEF Ask, Action
    <2>2. shown[t] \in Quantity \cup {None}
      BY DEF ContextTypeOK
    <2>3. 1 \in Quantity
      BY DEF Quantity
    <2>4. alone \in BOOLEAN
      OBVIOUS
    <2> HIDE DEF plain, alone
    <2>5. task \in Task /\ task.by = None /\ task.op = "add" /\ task.snap = shown[t] /\ task.alone = alone
      BY <2>1, <2>2, <2>3, <2>4 DEF Task
    <2> HIDE DEF task
    <2>6. AskFor(t, task)
      BY <1>1 DEF Add, task, plain, alone
    <2>7. shown[t] = None => shown'[t] = None
      BY <1>1 DEF Add, ContextTypeOK
    <2>8. task.alone <=> queue[t] = << >>
      BY <2>5, Zenon DEF alone
    <2> QED
      BY <2>5, <2>6, <2>7, <2>8 DEF Asked
  <1>2. ASSUME NEW n \in {1, 2}, AskFor(t, [Ask("set", None) EXCEPT !.n = n]), shown' = shown
        PROVE  \E task \in Task : Asked(t, task)
    <2> DEFINE plain == Ask("set", None)
               task == [plain EXCEPT !.n = n]
    <2>1. plain \in Task /\ plain.by = None /\ plain.op = "set"
      BY AskTask DEF Ask, Action
    <2> HIDE DEF plain
    <2>2. task \in Task /\ task.by = None /\ task.op = "set"
      BY <2>1 DEF Task, Quantity
    <2> HIDE DEF task
    <2>3. AskFor(t, task)
      BY <1>2 DEF task, plain
    <2> QED
      BY <1>2, <2>2, <2>3 DEF Asked
  <1>3. ASSUME NEW op \in {"remove", "fetch"}, AskFor(t, Ask(op, None)), shown' = shown
        PROVE  \E task \in Task : Asked(t, task)
    <2>1. Ask(op, None) \in Task /\ Ask(op, None).by = None /\ Ask(op, None).op = op
      BY AskTask DEF Ask, Action
    <2> QED
      BY <1>3, <2>1 DEF Asked
  <1> QED
    BY <1>1, <1>2, <1>3 DEF ShopMoves, Change

LEMMA ShopSteps ==
    ASSUME StoreInv, ContextTypeOK, NEW t \in Tab, ShopReply(t) \/ ShopMoves(t)
    PROVE  StoreStep(t)
  <1>1. CASE ShopReply(t)
    BY <1>1, RepliesAreSteps DEF ShopReply, Apply
  <1>2. CASE ShopMoves(t)
    BY <1>2, ShopAsks, OneTask DEF Asked, AskFor
  <1> QED
    BY <1>1, <1>2

LEMMA CheckoutReplySteps ==
    ASSUME StoreInv, NEW t \in Tab, CheckoutReply(t)
    PROVE  StoreStep(t)
  <1>1. CASE PollReply(t)
    BY <1>1, RepliesAreSteps DEF PollReply, Result
  <1>2. ASSUME NEW j \in Job, Saved(t, j)
        PROVE  StoreStep(t)
    BY <1>2, RepliesAreSteps, GoingOnIsAStep DEF Saved, Result, Action
  <1>3. ASSUME NEW j \in Job, SaveFails(t, j) \/ SessionReply(t, j) \/ QuoteReply(t, j) \/ Placed(t, j)
        PROVE  StoreStep(t)
    BY <1>3, RepliesAreSteps DEF SaveFails, SessionReply, QuoteReply, Placed, Result
  <1> QED
    BY <1>1, <1>2, <1>3 DEF CheckoutReply, FormReply

LEMMA BeginSteps ==
    ASSUME StoreInv, NEW t \in Tab, NEW j \in Job, NEW kind, NEW op \in Action, Begin(t, j, kind, op)
    PROVE  StoreStep(t)
  BY AskTask, OneTask DEF Begin

LEMMA FormSteps ==
    ASSUME StoreInv, LoadsAssumption, load \in Loads, NEW t \in Tab, FormMoves(t) \/ ReturnMoves(t)
    PROVE  StoreStep(t)
  <1>1. load.jobs \subseteq Job
    BY DEF LoadsAssumption
  <1>2. ASSUME NEW j \in Job, NEW kind, Submit(t, j, kind)
        PROVE  StoreStep(t)
    BY <1>2, BeginSteps DEF Submit, Action
  <1>3. ASSUME NEW j \in Job, Pay(t, j) \/ AskSession(t, j)
        PROVE  StoreStep(t)
    BY <1>3, BeginSteps DEF Pay, AskSession, Action
  <1>4. ASSUME NEW j \in Job, Confirm(t, j)
        PROVE  StoreStep(t)
    <2>1. CASE queue' = queue
      BY <1>4, <2>1 DEF Confirm, StoreStep, storeVars
    <2>2. CASE queue' = [queue EXCEPT ![t] = @ \o GoOn(j, "place")]
      <3>1. Ask("place", j) \in Task
        BY AskTask DEF Action
      <3>2. GoOn(j, "place") \in Seq(Task)
        BY <3>1 DEF GoOn
      <3> QED
        BY <1>4, <2>2, <3>2 DEF Confirm, StoreStep, Asks
    <2> QED
      BY <1>4, <2>1, <2>2 DEF Confirm
  <1>5. CASE Render(t) \/ GoStale(t) \/ ReturnToForm(t) \/ Consent(t)
    BY <1>5 DEF Render, GoStale, ReturnToForm, Consent, StoreStep
  <1>6. CASE StartPoll(t)
    BY <1>6, AskTask, OneTask DEF StartPoll, Action
  <1> QED
    BY <1>1, <1>2, <1>3, <1>4, <1>5, <1>6 DEF FormMoves, ReturnMoves

-----------------------------------------------------------------------------
\* The types of what the tabs show and of the checkout.
LEMMA TransitionType == ASSUME NEW s \in Step, NEW event PROVE transition(s, event) \in Step
  BY DEF transition, Step

LEMMA DispatchType ==
    ASSUME CheckoutTypeOK, NEW t \in Tab, NEW event, Dispatch(t, event) PROVE step' \in [Tab -> Step]
  <1>1. step[t] \in Step /\ transition(step[t], event) \in Step
    BY TransitionType DEF CheckoutTypeOK
  <1>2. step' = [step EXCEPT ![t] = transition(step[t], event)]
    BY DEF Dispatch
  <1> QED
    BY <1>1, <1>2 DEF CheckoutTypeOK

LEMMA JobType ==
    ASSUME CheckoutTypeOK, NEW t \in Tab, NEW j \in Job, NEW kind \in Handling,
           job' = [job EXCEPT ![t][j] = kind]
    PROVE  job' \in [Tab -> [Job -> Handling]]
  BY DEF CheckoutTypeOK

\* Telling of an order names a cart.
LEMMA ToldType ==
    ASSUME StoreInv, NEW t \in Tab, NEW result \in {"order", "already"}, Reply(t, result, << >>)
    PROVE  call[t].cart \in Ordered /\ call[t].cart \in Cart
  <1>1. call[t].pc = "reply" /\ call[t].result = result
    BY DEF Reply
  <1> QED
    BY <1>1 DEF StoreInv, Calls, Ordered

LEMMA FormReplyTypes ==
    ASSUME StoreInv, CheckoutTypeOK, NEW t \in Tab, FormReply(t) PROVE CheckoutTypeOK'
  <1>1. PICK j \in Job : Saved(t, j) \/ SaveFails(t, j) \/ SessionReply(t, j) \/ QuoteReply(t, j) \/ Placed(t, j)
    BY DEF FormReply
  <1>2. step' \in [Tab -> Step]
    <2>1. CASE step' = [step EXCEPT ![t] = transition(transition(@, "SAVE_CART_DONE"), "PLACE_ORDER")]
      <3> DEFINE new == transition(transition(step[t], "SAVE_CART_DONE"), "PLACE_ORDER")
      <3>1. transition(step[t], "SAVE_CART_DONE") \in Step
        BY TransitionType DEF CheckoutTypeOK
      <3>2. new \in Step
        BY <3>1, TransitionType
      <3>3. step' = [step EXCEPT ![t] = new]
        BY <2>1
      <3> HIDE DEF new
      <3> QED
        BY <3>2, <3>3 DEF CheckoutTypeOK
    <2>2. CASE step' = step
      BY <2>2 DEF CheckoutTypeOK
    <2>3. CASE \E event \in {"CONFIRM", "SAVE_CART_DONE", "ORDER_ERROR", "CONFIRM_ERROR", "ORDER_COMPLETE"} :
                  Dispatch(t, event)
      BY <2>3, DispatchType
    <2> QED
      BY <1>1, <2>1, <2>2, <2>3 DEF Saved, SaveFails, SessionReply, QuoteReply, Placed
  <1>3. job' \in [Tab -> [Job -> Handling]]
    <2>1. job' = job \/ \E kind \in {"idle", "paying"} : job' = [job EXCEPT ![t][j] = kind]
      BY <1>1 DEF Saved, SaveFails, SessionReply, QuoteReply, Placed, Ends
    <2>2. CASE job' = job
      BY <2>2 DEF CheckoutTypeOK
    <2>3. ASSUME NEW kind \in {"idle", "paying"}, job' = [job EXCEPT ![t][j] = kind]
          PROVE  job' \in [Tab -> [Job -> Handling]]
      <3>1. kind \in Handling
        BY DEF Handling
      <3> QED
        BY <2>3, <3>1, JobType
    <2> QED
      BY <2>1, <2>2, <2>3
  <1>4. page' \in [Tab -> Page]
    <2>1. page' = page \/ page' = [page EXCEPT ![t] = "confirmed"]
      BY <1>1 DEF Saved, SaveFails, SessionReply, QuoteReply, Placed
    <2> QED
      BY <2>1 DEF CheckoutTypeOK, Page
  <1>5. session' \in [Tab -> {"none", "ready", "stale"}]
    <2>1. session' = session \/ session' = [session EXCEPT ![t] = "ready"]
      BY <1>1 DEF Saved, SaveFails, SessionReply, QuoteReply, Placed
    <2> QED
      BY <2>1 DEF CheckoutTypeOK
  <1>6. told' \subseteq Cart
    <2>1. told \subseteq Cart
      BY DEF CheckoutTypeOK
    <2>2. told' = told \/ (told' = told \cup {call[t].cart} /\ call[t].cart \in Cart)
      BY <1>1, ToldType DEF Saved, SaveFails, SessionReply, QuoteReply, Placed
    <2> QED
      BY <2>1, <2>2
  <1>7. saveFailed' \subseteq Tab
    BY <1>1 DEF Saved, SaveFails, SessionReply, QuoteReply, Placed, CheckoutTypeOK
  <1>8. view' = view /\ cancelled' = cancelled
    BY DEF FormReply
  <1> QED
    BY <1>2, <1>3, <1>4, <1>5, <1>6, <1>7, <1>8 DEF CheckoutTypeOK

LEMMA BeginTypes ==
    ASSUME CheckoutTypeOK, NEW t \in Tab, NEW j \in Job, NEW kind \in Handling, NEW op, Begin(t, j, kind, op),
           step' \in [Tab -> Step], UNCHANGED session
    PROVE  CheckoutTypeOK'
  <1>1. job' \in [Tab -> [Job -> Handling]]
    BY JobType DEF Begin
  <1> QED
    BY <1>1 DEF Begin, CheckoutTypeOK

LEMMA OtherTypes ==
    ASSUME StoreInv, CheckoutTypeOK, LoadsAssumption, load \in Loads, NEW t \in Tab,
           PollReply(t) \/ FormMoves(t) \/ ReturnMoves(t)
    PROVE  CheckoutTypeOK'
  <1>1. load.jobs \subseteq Job /\ load.kinds \subseteq {"stripe", "cod", "quote"}
    BY DEF LoadsAssumption
  <1>2. ASSUME NEW j \in Job, NEW kind \in load.kinds, Submit(t, j, kind)
        PROVE  CheckoutTypeOK'
    <2>1. step' \in [Tab -> Step]
      BY <1>2, DispatchType DEF Submit
    <2>2. kind \in Handling
      BY <1>1 DEF Handling
    <2> QED
      BY <1>2, <2>1, <2>2, BeginTypes DEF Submit
  <1>3. ASSUME NEW j \in Job, Pay(t, j) \/ AskSession(t, j)
        PROVE  CheckoutTypeOK'
    <2>1. step' \in [Tab -> Step]
      BY <1>3 DEF Pay, AskSession, CheckoutTypeOK
    <2>2. {"pay", "auto", "refresh"} \subseteq Handling
      BY DEF Handling
    <2> QED
      BY <1>3, <2>1, <2>2, BeginTypes DEF Pay, AskSession
  <1>4. ASSUME NEW j \in Job, Confirm(t, j)
        PROVE  CheckoutTypeOK'
    <2>1. step' \in [Tab -> Step]
      <3>1. step' = step \/ Dispatch(t, "CONFIRM_ERROR") \/ Dispatch(t, "PLACE_ORDER")
        BY <1>4 DEF Confirm
      <3> QED
        BY <3>1, DispatchType DEF CheckoutTypeOK
    <2>2. job' \in [Tab -> [Job -> Handling]]
      <3>1. {"idle", "cod"} \subseteq Handling
        BY DEF Handling
      <3>2. CASE \E kind \in {"idle", "cod"} : job' = [job EXCEPT ![t][j] = kind]
        BY <3>1, <3>2, JobType
      <3>3. CASE job' = [job EXCEPT ![t] = NoJobs]
        BY <3>1, <3>3 DEF CheckoutTypeOK, NoJobs
      <3> QED
        BY <1>4, <3>2, <3>3 DEF Confirm, Ends
    <2>3. page' \in [Tab -> Page]
      <3>1. page' = page \/ \E p \in {"return", "failed"} : page' = [page EXCEPT ![t] = p]
        BY <1>4 DEF Confirm
      <3> QED
        BY <3>1 DEF CheckoutTypeOK, Page
    <2> QED
      BY <1>4, <2>1, <2>2, <2>3 DEF Confirm, CheckoutTypeOK
  <1>5. CASE Render(t) \/ GoStale(t) \/ Consent(t)
    <2>1. CASE Render(t)
      BY <2>1 DEF Render, CheckoutTypeOK
    <2>2. CASE GoStale(t)
      BY <2>2 DEF GoStale, CheckoutTypeOK
    <2>3. CASE Consent(t)
      BY <2>3 DEF Consent, CheckoutTypeOK
    <2> QED
      BY <1>5, <2>1, <2>2, <2>3
  <1>6. CASE ReturnToForm(t) \/ StartPoll(t)
    <2>1. "editing" \in Step /\ {"form", "polling"} \subseteq Page
      BY DEF Step, Page
    <2>2. CASE ReturnToForm(t)
      BY <2>1, <2>2 DEF ReturnToForm, CheckoutTypeOK
    <2>3. CASE StartPoll(t)
      BY <2>1, <2>3 DEF StartPoll, CheckoutTypeOK
    <2> QED
      BY <1>6, <2>2, <2>3
  <1>7. CASE PollReply(t)
    <2>1. told' \subseteq Cart
      <3>1. told' = told \/ (told' = told \cup {call[t].cart} /\ call[t].cart \in Cart)
        BY <1>7, ToldType DEF PollReply
      <3> QED
        BY <3>1 DEF CheckoutTypeOK
    <2>2. page' = page \/ \E p \in Page : page' = [page EXCEPT ![t] = p]
      BY <1>7 DEF PollReply, Page
    <2> QED
      BY <1>7, <2>1, <2>2 DEF PollReply, CheckoutTypeOK
  <1> QED
    BY <1>1, <1>2, <1>3, <1>4, <1>5, <1>6, <1>7 DEF FormMoves, ReturnMoves

LEMMA ContextTypes ==
    ASSUME StoreInv, ContextTypeOK, LoadsAssumption, load \in Loads, NEW t \in Tab, Aside(t),
           ShopReply(t) \/ ShopMoves(t) \/ UNCHANGED <<shown, asked>>
    PROVE  ContextTypeOK'
  <1>1. doubt' \subseteq Tab
    BY DEF Aside, Doubt, ContextTypeOK
  <1>2. asked' \in 0 .. MaxAsked
    <2>1. load.asked \in 0 .. MaxAsked /\ asked' <= load.asked /\ asked \in 0 .. MaxAsked
      BY DEF LoadsAssumption, Aside, ContextTypeOK
    <2>2. asked' = asked \/ asked' = asked + 1
      BY DEF ShopReply, Apply, ShopMoves, Add, Change, AskFor
    <2> QED
      BY <2>1, <2>2, AskedAssumption
  <1>3. shown' \in [Tab -> Quantity \cup {None}]
    <2>1. CASE shown' = shown
      BY <2>1 DEF ContextTypeOK
    <2>2. CASE ShopReply(t)
      <3>1. call[t].pc = "reply"
        BY <2>2 DEF ShopReply, Apply, Reply
      <3>2. call[t].read \in Quantity \cup {None} /\ Head(queue[t]).snap \in Quantity \cup {None}
        BY <3>1, AtCall DEF CallRecord, Task
      <3>3. \/ shown' = shown
            \/ shown' = [shown EXCEPT ![t] = call[t].read]
            \/ shown' = [shown EXCEPT ![t] = Head(queue[t]).snap]
        BY <2>2 DEF ShopReply, Apply
      <3> QED
        BY <3>2, <3>3 DEF ContextTypeOK
    <2>3. CASE Add(t)
      <3> DEFINE n == IF shown[t] = None THEN None ELSE shown[t] + 1
      <3>1. shown[t] \in Quantity \cup {None} /\ shown[t] # MaxQuantity
        BY <2>3 DEF ContextTypeOK, Add
      <3>2. n \in Quantity \cup {None}
        BY <3>1 DEF Quantity
      <3>3. shown' = [shown EXCEPT ![t] = n]
        BY <2>3 DEF Add
      <3> HIDE DEF n
      <3> QED
        BY <3>2, <3>3 DEF ContextTypeOK
    <2> QED
      BY <2>1, <2>2, <2>3 DEF ShopMoves, Change
  <1> QED
    BY <1>1, <1>2, <1>3 DEF ContextTypeOK

Inv == StoreInv /\ ContextTypeOK /\ CheckoutTypeOK /\ load \in Loads

LEMMA NextInv == ASSUME Inv, [Next]_vars PROVE Inv'
  <1>1. CASE UNCHANGED vars
    BY <1>1 DEF vars, storeVars, contextVars, checkoutVars, Inv, StoreInv, StoreTypeOK, Calls, Ordered,
                ContextTypeOK, CheckoutTypeOK
  <1>2. ASSUME NEW t \in Tab,
               ServerMoves(t) \/ ShopReply(t) \/ ShopMoves(t) \/ CheckoutReply(t) \/ FormMoves(t) \/ ReturnMoves(t),
               Aside(t)
        PROVE  Inv'
    <2>1. StoreStep(t)
      BY <1>2, ShopSteps, CheckoutReplySteps, FormSteps, LoadsAssumption DEF ServerMoves, StoreStep, Inv
    <2>2. StoreInv'
      BY <2>1, StoreStepInv DEF Inv
    <2>3. ContextTypeOK'
      BY <1>2, ContextTypes, LoadsAssumption DEF Inv, ServerMoves, CheckoutReply, FormMoves, ReturnMoves
    <2>4. CheckoutTypeOK'
      <3>1. CASE UNCHANGED checkoutVars
        BY <3>1 DEF checkoutVars, Inv, CheckoutTypeOK
      <3>2. CASE FormReply(t)
        BY <3>2, FormReplyTypes DEF Inv
      <3>3. CASE PollReply(t) \/ FormMoves(t) \/ ReturnMoves(t)
        BY <3>3, OtherTypes, LoadsAssumption DEF Inv
      <3> QED
        BY <1>2, <3>1, <3>2, <3>3 DEF ServerMoves, ShopReply, ShopMoves, CheckoutReply
    <2>5. load' \in Loads
      BY <1>2 DEF Aside, Inv
    <2> QED
      BY <2>2, <2>3, <2>4, <2>5 DEF Inv
  <1> QED
    BY <1>1, <1>2 DEF Next

LEMMA InitInv == Init => Inv
  <1> SUFFICES ASSUME Init PROVE Inv
    OBVIOUS
  <1>1. StoreInv
    BY StoreInitInv DEF Init
  <1>2. ContextTypeOK
    <2>1. Content(cookie) \in Quantity \cup {None}
      BY <1>1 DEF Content, StoreInv, StoreTypeOK
    <2> QED
      BY <2>1, AskedAssumption DEF Init, ContextInit, ContextTypeOK
  <1>3. CheckoutTypeOK
    <2>1. /\ "editing" \in Step /\ {"shop", "form", "return", "confirmed"} \subseteq Page
          /\ NoJobs \in [Job -> Handling]
      BY DEF Step, Page, NoJobs, Handling
    <2> QED
      BY <2>1 DEF Init, CheckoutInit, CheckoutTypeOK
  <1> QED
    BY <1>1, <1>2, <1>3 DEF Init, Inv

\* The invariant of carts, calls and tabs on which the other results rest.
THEOREM Invariance == Spec => []Inv
  <1>1. Init => Inv
    BY InitInv
  <1>2. Inv /\ [Next]_vars => Inv'
    BY NextInv
  <1> QED
    BY <1>1, <1>2, PTL DEF Spec

\* Every variable of the carts, the shop and the checkout keeps its type: no call is
\* made without a tab that awaits it, the poller counts its attempts.
THEOREM Types == Spec => []TypeOK
  <1>1. Inv => TypeOK
    BY DEF Inv, StoreInv, TypeOK
  <1> QED
    BY <1>1, Invariance, PTL

-----------------------------------------------------------------------------
\* One more order at a time, and never one less.
LEMMA OrdersGrow ==
    ASSUME StoreInv, NEW t \in Tab, ServerStep(t)
    PROVE  Ordered' = Ordered \/ \E c \in Cart \ Ordered : Ordered' = Ordered \cup {c}
  <1>1. CASE CreateCart(t)
    <2>1. ASSUME NEW c \in Cart, carts[c].status = "unused", carts' = [carts EXCEPT ![c] = NewCart]
          PROVE  Ordered' = Ordered
      <3>1. \A d \in Cart : carts'[d] = IF d = c THEN NewCart ELSE carts[d]
        BY <2>1 DEF StoreInv, StoreTypeOK
      <3> QED
        BY <2>1, <3>1 DEF Ordered, NewCart
    <2> QED
      BY <1>1, <2>1 DEF CreateCart, Ordered
  <1>2. CASE AddLine(t) \/ UpdateLine(t)
    <2> DEFINE c == call[t].cart
    <2>1. carts' = carts \/ \E n : carts' = [carts EXCEPT ![c].items = n]
      BY <1>2 DEF AddLine, UpdateLine, Put
    <2>2. CASE carts' = carts
      BY <2>2 DEF Ordered
    <2>3. ASSUME NEW n, carts' = [carts EXCEPT ![c].items = n]
          PROVE  Ordered' = Ordered
      <3>1. \A d \in Cart : carts'[d].status = carts[d].status
        BY <2>3 DEF StoreInv, StoreTypeOK
      <3> QED
        BY <3>1 DEF Ordered
    <2> QED
      BY <2>1, <2>2, <2>3
  <1>3. CASE GetOrSetCart(t) \/ ReadBack(t) \/ Own(t) \/ Retrieve(t) \/ Check(t)
    BY <1>3 DEF GetOrSetCart, ReadBack, Own, Retrieve, Check, Ordered
  <1>4. CASE Complete(t)
    <2> DEFINE c == call[t].cart
    <2>1. c \in Cart
      BY <1>4, AtCall DEF Complete, OnCart
    <2>2. CASE carts' = carts
      BY <2>2 DEF Ordered
    <2>3. CASE carts[c].status = "open" /\ carts' = [carts EXCEPT ![c].status = "ordered"]
      <3> HIDE DEF c
      <3>1. \A d \in Cart : carts'[d].status = IF d = c THEN "ordered" ELSE carts[d].status
        BY <2>1, <2>3 DEF StoreInv, StoreTypeOK
      <3>2. c \notin Ordered
        BY <2>3 DEF Ordered
      <3>3. Ordered' = Ordered \cup {c}
        BY <2>1, <3>1 DEF Ordered
      <3> QED
        BY <2>1, <3>2, <3>3
    <2>4. carts' = carts \/ (carts[c].status = "open" /\ carts' = [carts EXCEPT ![c].status = "ordered"])
      BY <1>4 DEF Complete
    <2> QED
      BY <2>2, <2>3, <2>4
  <1> QED
    BY <1>1, <1>2, <1>3, <1>4 DEF ServerStep

\* What the handlers and the pages tell the customer.
LEMMA Tells ==
    ASSUME StoreInv, NEW t \in Tab, CheckoutReply(t)
    PROVE  told' = told \/ \E c \in Ordered : told' = told \cup {c}
  <1> DEFINE c == call[t].cart
             Told == told' = told \/ \E d \in Ordered : told' = told \cup {d}
  <1>a. ASSUME NEW result \in {"order", "already"}, Reply(t, result, << >>), told' = told \cup {c}
        PROVE  Told
    <2>1. c \in Ordered
      BY <1>a, ToldType
    <2> QED
      BY <1>a, <2>1
  <1>1. CASE PollReply(t)
    <2>1. \/ told' = told
          \/ /\ Reply(t, "order", << >>) \/ Reply(t, "already", << >>)
             /\ told' = told \cup {c}
      BY <1>1 DEF PollReply
    <2> QED
      BY <1>a, <2>1
  <1>2. ASSUME NEW j \in Job, Placed(t, j)
        PROVE  Told
    <2>1. \/ told' = told
          \/ /\ Reply(t, "order", << >>) \/ Reply(t, "already", << >>)
             /\ told' = told \cup {c}
      BY <1>2 DEF Placed
    <2> QED
      BY <1>a, <2>1
  <1>3. ASSUME NEW j \in Job, Saved(t, j) \/ SaveFails(t, j) \/ SessionReply(t, j) \/ QuoteReply(t, j)
        PROVE  told' = told
    BY <1>3 DEF Saved, SaveFails, SessionReply, QuoteReply
  <1> QED
    BY <1>1, <1>2, <1>3 DEF CheckoutReply, FormReply

\* The storefront implements PlaceOrderOnce: however many handlers, tabs and polls
\* place orders (placeOrderAction), each step of theirs makes one new order, tells of
\* one there is, or does neither.
THEOREM OrdersOnce == Spec => PlacesOrdersOnce
  <1>1. Init => Orders!Init
    <2> SUFFICES ASSUME Init PROVE Ordered = {} /\ told = {}
      BY DEF Orders!Init
    <2>1. \A c \in Cart : carts[c].status # "ordered"
      BY DEF Init, StoreInit, NoCart
    <2> QED
      BY <2>1 DEF Init, CheckoutInit, Ordered
  <1>2. ASSUME Inv, [Next]_vars
        PROVE  [Orders!Next]_<<Ordered, told>>
    <2>1. CASE UNCHANGED vars
      BY <2>1 DEF vars, storeVars, checkoutVars, Ordered
    <2>2. ASSUME NEW t \in Tab, ServerMoves(t)
          PROVE  [Orders!Next]_<<Ordered, told>>
      <3>1. told' = told
        BY <2>2 DEF ServerMoves, checkoutVars
      <3>2. CASE Send(t)
        BY <3>1, <3>2 DEF Send, Ordered
      <3>3. CASE ServerStep(t)
        <4>1. Ordered' = Ordered \/ \E c \in Cart \ Ordered : Ordered' = Ordered \cup {c}
          BY <1>2, <3>3, OrdersGrow DEF Inv
        <4> QED
          BY <3>1, <4>1 DEF Orders!Next, Orders!Order
      <3> QED
        BY <2>2, <3>2, <3>3 DEF ServerMoves
    <2>3. ASSUME NEW t \in Tab, ShopReply(t) \/ ShopMoves(t)
          PROVE  UNCHANGED <<Ordered, told>>
      <3>1. carts' = carts /\ told' = told
        BY <2>3 DEF ShopReply, Apply, Reply, ShopMoves, Add, Change, AskFor, checkoutVars
      <3> QED
        BY <3>1 DEF Ordered
    <2>4. ASSUME NEW t \in Tab, CheckoutReply(t)
          PROVE  [Orders!Next]_<<Ordered, told>>
      <3>1. carts' = carts
        BY <2>4 DEF CheckoutReply, FormReply, Saved, SaveFails, SessionReply, QuoteReply, Placed, PollReply, Reply
      <3>2. Ordered' = Ordered
        BY <3>1 DEF Ordered
      <3>3. told' = told \/ \E c \in Ordered : told' = told \cup {c}
        BY <1>2, <2>4, Tells DEF Inv
      <3>4. Ordered \subseteq Cart
        BY DEF Ordered
      <3> QED
        BY <3>2, <3>3, <3>4 DEF Orders!Next, Orders!Tell
    <2>5. ASSUME NEW t \in Tab, FormMoves(t) \/ ReturnMoves(t)
          PROVE  UNCHANGED <<Ordered, told>>
      <3>1. carts' = carts /\ told' = told
        BY <2>5 DEF FormMoves, ReturnMoves, Submit, Pay, AskSession, Begin, Confirm, Render, GoStale, ReturnToForm,
                    StartPoll, Consent, storeVars
      <3> QED
        BY <3>1 DEF Ordered
    <2> QED
      BY <1>2, <2>1, <2>2, <2>3, <2>4, <2>5 DEF Next
  <1>3. Orders!Spec <=> Orders!Init /\ [][Orders!Next]_<<Ordered, told>>
    BY DEF Orders!Spec
  <1> QED
    BY <1>1, <1>2, <1>3, Invariance, PTL DEF Spec, PlacesOrdersOnce

-----------------------------------------------------------------------------
(***************************************************************************)
(* The form (StuckOnlyAfterFailedSave).  A state that disables the button  *)
(* is the doing of a handler that is at work still, and whose end leaves   *)
(* it: of a first submit that saves, of a payment, of an order.  For that  *)
(* a handler must wait for one server action at a time.                    *)
(***************************************************************************)
Busy == Handling \ {"idle", "paying"}
Submits == {"stripe", "quote", "cod"}

\* The server actions q of a tab whose handlers do work: each is awaited by a handler
\* that awaits no other, and a session by one that asks for sessions.
Work(q, work) ==
    \A i \in 1 .. Len(q) : q[i].by \in Job =>
        /\ work[q[i].by] \in Busy
        /\ q[i].op = "session" => work[q[i].by] \in {"stripe", "auto", "refresh"}
        /\ \A k \in 1 .. Len(q) : q[k].by = q[i].by => k = i

\* A submit is saving the details.
Saving(q, work) == \E i \in 1 .. Len(q) : q[i].by \in Job /\ q[i].op = "save" /\ work[q[i].by] \in Submits

\* What holds a form in a state that disables its button.
Engaged(t) ==
    page[t] = "form" =>
        /\ step[t] = "confirming" => \E j \in Job : job[t][j] = "paying"
        /\ step[t] = "completing_order" => \E j \in Job : job[t][j] = "cod"
        /\ step[t] = "saving_cart" => t \in saveFailed \/ Saving(queue[t], job[t])

FormInv(t) == Work(queue[t], job[t]) /\ Engaged(t)

\* A handler for which q has no server action asks for one more.
LEMMA WorkAsked ==
    ASSUME NEW q \in Seq(Task), NEW work, NEW new, NEW j \in Job, NEW op \in Action, Work(q, work),
           \A i \in 1 .. Len(q) : q[i].by # j,
           \A k \in Job \ {j} : new[k] = work[k],
           new[j] \in Busy, op = "session" => new[j] \in {"stripe", "auto", "refresh"}
    PROVE  /\ Work(q \o <<Ask(op, j)>>, new)
           /\ Saving(q, work) \/ (op = "save" /\ new[j] \in Submits) => Saving(q \o <<Ask(op, j)>>, new)
  <1> DEFINE task == Ask(op, j)
             more == q \o <<task>>
  <1>1. task \in Task /\ task.op = op /\ task.by = j
    BY AskTask DEF Ask
  <1> HIDE DEF task
  <1>2. /\ Len(more) = Len(q) + 1 /\ Len(q) \in Nat
        /\ \A i \in 1 .. Len(q) : more[i] = q[i]
        /\ more[Len(q) + 1] = task
    BY <1>1
  <1> HIDE DEF more
  <1>3. ASSUME NEW i \in 1 .. Len(more)
        PROVE  i \in 1 .. Len(q) \/ i = Len(q) + 1
    BY <1>2
  <1>4. \A i \in 1 .. Len(q) : i \in 1 .. Len(more) /\ i # Len(q) + 1
    BY <1>2
  <1>5. Work(more, new)
    <2> SUFFICES ASSUME NEW i \in 1 .. Len(more), more[i].by \in Job
                 PROVE  /\ new[more[i].by] \in Busy
                        /\ more[i].op = "session" => new[more[i].by] \in {"stripe", "auto", "refresh"}
                        /\ \A k \in 1 .. Len(more) : more[k].by = more[i].by => k = i
      BY DEF Work
    <2>1. CASE i \in 1 .. Len(q)
      BY <1>1, <1>2, <1>3, <2>1 DEF Work
    <2>2. CASE i = Len(q) + 1
      BY <1>1, <1>2, <1>3, <2>2
    <2> QED
      BY <1>3, <2>1, <2>2
  <1>6. ASSUME Saving(q, work)
        PROVE  Saving(more, new)
    <2>1. PICK i \in 1 .. Len(q) : q[i].by \in Job /\ q[i].op = "save" /\ work[q[i].by] \in Submits
      BY <1>6 DEF Saving
    <2>2. more[i] = q[i] /\ i \in 1 .. Len(more) /\ new[q[i].by] = work[q[i].by]
      BY <1>2, <1>4, <2>1
    <2> QED
      BY <2>1, <2>2 DEF Saving
  <1>7. ASSUME op = "save", new[j] \in Submits
        PROVE  Saving(more, new)
    <2>1. Len(q) + 1 \in 1 .. Len(more)
      BY <1>2
    <2> QED
      BY <1>1, <1>2, <1>7, <2>1 DEF Saving
  <1> QED
    BY <1>5, <1>6, <1>7 DEF more, task

\* A page asks for one more on its own.
LEMMA WorkAskedByNone ==
    ASSUME NEW q \in Seq(Task), NEW work, NEW task \in Task, task.by = None, Work(q, work)
    PROVE  Work(Append(q, task), work)
  <1> DEFINE more == Append(q, task)
  <1>1. /\ Len(more) = Len(q) + 1 /\ Len(q) \in Nat
        /\ \A i \in 1 .. Len(q) : more[i] = q[i]
        /\ more[Len(q) + 1] = task
    OBVIOUS
  <1>2. None \notin Job
    BY JobAssumption
  <1> HIDE DEF more
  <1>3. \A i \in 1 .. Len(more) : i \in 1 .. Len(q) \/ i = Len(q) + 1
    BY <1>1
  <1>4. Work(more, work)
    BY <1>1, <1>2, <1>3 DEF Work
  <1> QED
    BY <1>4 DEF more

\* The first server action has been answered; a handler that awaited it may have gone on.
LEMMA WorkAnswered ==
    ASSUME NEW q \in Seq(Task), q # << >>, NEW work, NEW new, Work(q, work),
           \A k \in Job \ {Head(q).by} : new[k] = work[k]
    PROVE  /\ Tail(q) \in Seq(Task)
           /\ Work(Tail(q), new)
           /\ Head(q).by \in Job => \A i \in 1 .. Len(Tail(q)) : Tail(q)[i].by # Head(q).by
           /\ Saving(q, work) =>
                 \/ Head(q).op = "save" /\ Head(q).by \in Job /\ work[Head(q).by] \in Submits
                 \/ Saving(Tail(q), new)
  <1> DEFINE rest == Tail(q)
  <1>1. /\ rest \in Seq(Task) /\ Len(rest) = Len(q) - 1 /\ Len(q) \in Nat \ {0} /\ Head(q) = q[1]
        /\ \A i \in 1 .. Len(rest) : rest[i] = q[i + 1]
    BY EmptySeq
  <1> HIDE DEF rest
  <1>2. \A i \in 1 .. Len(rest) : i + 1 \in 1 .. Len(q) /\ i + 1 # 1 /\ i \in Nat
    BY <1>1
  <1>3. \A i \in 1 .. Len(q) : i = 1 \/ (i - 1 \in 1 .. Len(rest) /\ rest[i - 1] = q[i])
    BY <1>1
  <1>4. 1 \in 1 .. Len(q)
    BY <1>1
  <1>5. Head(q).by \in Job => \A i \in 1 .. Len(rest) : rest[i].by # Head(q).by
    BY <1>1, <1>2, <1>4 DEF Work
  <1>6. \A i \in 1 .. Len(rest) : rest[i].by \in Job => rest[i].by \in Job \ {Head(q).by}
    BY <1>5
  <1>7. Work(rest, new)
    <2> SUFFICES ASSUME NEW i \in 1 .. Len(rest), rest[i].by \in Job
                 PROVE  /\ new[rest[i].by] \in Busy
                        /\ rest[i].op = "session" => new[rest[i].by] \in {"stripe", "auto", "refresh"}
                        /\ \A k \in 1 .. Len(rest) : rest[k].by = rest[i].by => k = i
      BY DEF Work
    <2>1. rest[i] = q[i + 1] /\ i + 1 \in 1 .. Len(q) /\ new[rest[i].by] = work[rest[i].by]
      BY <1>1, <1>2, <1>6
    <2>2. ASSUME NEW k \in 1 .. Len(rest), rest[k].by = rest[i].by
          PROVE  k = i
      <3>1. k + 1 \in 1 .. Len(q) /\ q[k + 1].by = q[i + 1].by
        BY <1>1, <1>2, <2>1, <2>2
      <3>2. k + 1 = i + 1
        BY <2>1, <3>1 DEF Work
      <3> QED
        BY <1>2, <3>2
    <2> QED
      BY <2>1, <2>2 DEF Work
  <1>8. ASSUME Saving(q, work), ~ Saving(rest, new)
        PROVE  Head(q).op = "save" /\ Head(q).by \in Job /\ work[Head(q).by] \in Submits
    <2>1. PICK i \in 1 .. Len(q) : q[i].by \in Job /\ q[i].op = "save" /\ work[q[i].by] \in Submits
      BY <1>8 DEF Saving
    <2>2. CASE i = 1
      BY <1>1, <2>1, <2>2
    <2>3. CASE i - 1 \in 1 .. Len(rest) /\ rest[i - 1] = q[i]
      <3>1. new[q[i].by] = work[q[i].by]
        BY <1>6, <2>1, <2>3
      <3> QED
        BY <1>8, <2>1, <2>3, <3>1 DEF Saving
    <2> QED
      BY <1>3, <2>2, <2>3
  <1> QED
    BY <1>1, <1>5, <1>7, <1>8 DEF rest

\* A step of tab t leaves the forms of the other tabs alone.
OthersKeep(t) ==
    \A s \in Tab \ {t} :
        /\ queue'[s] = queue[s] /\ job'[s] = job[s] /\ page'[s] = page[s] /\ step'[s] = step[s]
        /\ s \in saveFailed' <=> s \in saveFailed

LEMMA RepliesKeep ==
    ASSUME Inv, NEW t \in Tab, CheckoutReply(t)
    PROVE  OthersKeep(t)
  <1>1. /\ DOMAIN queue = Tab /\ DOMAIN job = Tab /\ DOMAIN page = Tab /\ DOMAIN step = Tab
        /\ queue = [s \in Tab |-> queue[s]] /\ job = [s \in Tab |-> job[s]]
        /\ page = [s \in Tab |-> page[s]] /\ step = [s \in Tab |-> step[s]]
    BY DEF Inv, StoreInv, StoreTypeOK, CheckoutTypeOK
  <1>2. ASSUME NEW s \in Tab \ {t}
        PROVE  queue'[s] = queue[s]
    <2>1. \E more : queue' = [queue EXCEPT ![t] = more]
      BY DEF CheckoutReply, FormReply, Saved, SaveFails, SessionReply, QuoteReply, Placed, PollReply, Reply
    <2> QED
      BY <1>1, <2>1
  <1>3. ASSUME NEW s \in Tab \ {t}
        PROVE  job'[s] = job[s]
    <2>1. job' = job \/ \E j, kind : job' = [job EXCEPT ![t][j] = kind]
      BY DEF CheckoutReply, FormReply, Saved, SaveFails, SessionReply, QuoteReply, Placed, PollReply, Ends
    <2> QED
      BY <1>1, <2>1
  <1>4. ASSUME NEW s \in Tab \ {t}
        PROVE  page'[s] = page[s]
    <2>1. page' = page \/ \E p : page' = [page EXCEPT ![t] = p]
      BY DEF CheckoutReply, FormReply, Saved, SaveFails, SessionReply, QuoteReply, Placed, PollReply
    <2> QED
      BY <1>1, <2>1
  <1>5. ASSUME NEW s \in Tab \ {t}
        PROVE  step'[s] = step[s]
    <2>1. step' = step \/ \E new : step' = [step EXCEPT ![t] = new]
      BY DEF CheckoutReply, FormReply, Saved, SaveFails, SessionReply, QuoteReply, Placed, PollReply, Dispatch
    <2> QED
      BY <1>1, <2>1
  <1>6. saveFailed' = saveFailed \/ saveFailed' = saveFailed \cup {t}
    BY DEF CheckoutReply, FormReply, Saved, SaveFails, SessionReply, QuoteReply, Placed, PollReply
  <1> QED
    BY <1>2, <1>3, <1>4, <1>5, <1>6 DEF OthersKeep

LEMMA MovesKeep ==
    ASSUME Inv, NEW t \in Tab, ServerMoves(t) \/ ShopReply(t) \/ ShopMoves(t) \/ FormMoves(t) \/ ReturnMoves(t)
    PROVE  OthersKeep(t)
  <1>1. /\ queue = [s \in Tab |-> queue[s]] /\ job = [s \in Tab |-> job[s]]
        /\ page = [s \in Tab |-> page[s]] /\ step = [s \in Tab |-> step[s]]
    BY DEF Inv, StoreInv, StoreTypeOK, CheckoutTypeOK
  <1>2. ASSUME NEW s \in Tab \ {t}
        PROVE  queue'[s] = queue[s]
    <2>1. queue' = queue \/ \E more : queue' = [queue EXCEPT ![t] = more]
      BY DEF ServerMoves, Send, ServerStep, ShopReply, Apply, Reply, ShopMoves, Add, Change, AskFor, FormMoves, Submit,
             Confirm, Pay, AskSession, Begin, Render, GoStale, ReturnToForm, ReturnMoves, StartPoll, Consent, storeVars
    <2> QED
      BY <1>1, <2>1
  <1>3. ASSUME NEW s \in Tab \ {t}
        PROVE  job'[s] = job[s]
    <2>1. \/ job' = job
          \/ \E j, kind : job' = [job EXCEPT ![t][j] = kind]
          \/ job' = [job EXCEPT ![t] = NoJobs]
      BY DEF ServerMoves, ShopReply, ShopMoves, checkoutVars, FormMoves, Submit, Confirm, Pay, AskSession, Begin, Ends,
             Render, GoStale, ReturnToForm, ReturnMoves, StartPoll, Consent
    <2> QED
      BY <1>1, <2>1
  <1>4. ASSUME NEW s \in Tab \ {t}
        PROVE  page'[s] = page[s]
    <2>1. page' = page \/ \E p : page' = [page EXCEPT ![t] = p]
      BY DEF ServerMoves, ShopReply, ShopMoves, checkoutVars, FormMoves, Submit, Confirm, Pay, AskSession, Begin,
             Render, GoStale, ReturnToForm, ReturnMoves, StartPoll, Consent
    <2> QED
      BY <1>1, <2>1
  <1>5. ASSUME NEW s \in Tab \ {t}
        PROVE  step'[s] = step[s]
    <2>1. step' = step \/ \E new : step' = [step EXCEPT ![t] = new]
      BY DEF ServerMoves, ShopReply, ShopMoves, checkoutVars, FormMoves, Submit, Confirm, Pay, AskSession, Dispatch,
             Render, GoStale, ReturnToForm, ReturnMoves, StartPoll, Consent
    <2> QED
      BY <1>1, <2>1
  <1>6. saveFailed' = saveFailed \/ saveFailed' = saveFailed \ {t}
    BY DEF ServerMoves, ShopReply, ShopMoves, checkoutVars, FormMoves, Submit, Confirm, Pay, AskSession, Begin,
           Render, GoStale, ReturnToForm, ReturnMoves, StartPoll, Consent
  <1> QED
    BY <1>2, <1>3, <1>4, <1>5, <1>6 DEF OthersKeep

\* The form of a tab that keeps all of this keeps its invariant.
LEMMA FormKept ==
    ASSUME NEW s \in Tab, FormInv(s), queue'[s] = queue[s], job'[s] = job[s], page'[s] = page[s],
           step'[s] = step[s], s \in saveFailed' <=> s \in saveFailed
    PROVE  FormInv(s)'
  BY DEF FormInv, Work, Engaged, Saving

\* The tab itself, outside the form.
LEMMA OutsideForm ==
    ASSUME Inv, NEW t \in Tab, FormInv(t), ServerMoves(t) \/ ShopReply(t) \/ ShopMoves(t) \/ PollReply(t) \/ ReturnMoves(t)
    PROVE  FormInv(t)'
  <1>1. queue[t] \in Seq(Task) /\ queue \in [Tab -> Seq(Task)] /\ page \in [Tab -> Page]
    BY DEF Inv, StoreInv, StoreTypeOK, CheckoutTypeOK
  <1>2. ASSUME NEW result, Reply(t, result, << >>), job' = job
        PROVE  Work(queue'[t], job'[t])
    <2>1. queue[t] # << >>
      BY <1>2, AtCall DEF Reply, Inv
    <2>2. Tail(queue[t]) \in Seq(Task) /\ Work(Tail(queue[t]), job[t])
      BY <1>1, <2>1, WorkAnswered DEF FormInv
    <2>3. queue'[t] = Tail(queue[t]) \o << >>
      BY <1>1, <1>2 DEF Reply
    <2>4. queue'[t] = Tail(queue[t])
      BY <2>2, <2>3
    <2> QED
      BY <1>2, <2>2, <2>4
  <1>3. ASSUME NEW task \in Task, task.by = None, queue' = [queue EXCEPT ![t] = Append(@, task)], job' = job
        PROVE  Work(queue'[t], job'[t])
    <2>1. queue'[t] = Append(queue[t], task)
      BY <1>1, <1>3
    <2> QED
      BY <1>1, <1>3, <2>1, WorkAskedByNone DEF FormInv
  <1>4. CASE ServerMoves(t)
    BY <1>4, FormKept DEF ServerMoves, Send, ServerStep, checkoutVars
  <1>5. CASE ShopReply(t)
    BY <1>2, <1>5 DEF ShopReply, Apply, checkoutVars, FormInv, Engaged
  <1>6. CASE ShopMoves(t)
    <2>1. PICK task \in Task : task.by = None /\ queue' = [queue EXCEPT ![t] = Append(@, task)]
      BY <1>6, ShopAsks DEF Inv, Asked, AskFor
    <2> QED
      BY <1>3, <1>6, <2>1 DEF ShopMoves, checkoutVars, FormInv, Engaged
  <1>7. CASE PollReply(t)
    <2>1. page'[t] # "form" /\ job' = job
      BY <1>1, <1>7 DEF PollReply
    <2>2. \E result : Reply(t, result, << >>)
      BY <1>7 DEF PollReply
    <2> QED
      BY <1>2, <2>1, <2>2 DEF FormInv, Engaged
  <1>8. CASE StartPoll(t)
    <2>1. Ask("poll", None) \in Task /\ Ask("poll", None).by = None
      BY AskTask DEF Ask, Action
    <2>2. page'[t] # "form" /\ job' = job
      BY <1>1, <1>8 DEF StartPoll
    <2> QED
      BY <1>3, <1>8, <2>1, <2>2 DEF StartPoll, FormInv, Engaged
  <1>9. CASE Consent(t)
    BY <1>9, FormKept DEF Consent, storeVars
  <1> QED
    BY <1>4, <1>5, <1>6, <1>7, <1>8, <1>9 DEF ReturnMoves

\* A handler begins: only that of a submit moves the form, to saving its details.
LEMMA HandlerBegins ==
    ASSUME Inv, NEW t \in Tab, FormInv(t), NEW j \in Job, NEW kind \in Busy, NEW op \in {"save", "session"},
           Begin(t, j, kind, op),
           op = "session" => kind \in {"auto", "refresh"},
           \/ step'[t] = step[t]
           \/ op = "save" /\ kind \in Submits /\ step'[t] = transition(step[t], "SAVE_CART")
    PROVE  FormInv(t)'
  <1> DEFINE q == queue[t]
             new == job'[t]
  <1>1. /\ q \in Seq(Task) /\ queue \in [Tab -> Seq(Task)] /\ job \in [Tab -> [Job -> Handling]]
        /\ op \in Action /\ Ask(op, j) \in Task
    BY AskTask DEF Inv, StoreInv, StoreTypeOK, CheckoutTypeOK, Action
  <1>2. job[t][j] = "idle" /\ new[j] = kind /\ \A k \in Job \ {j} : new[k] = job[t][k]
    BY <1>1 DEF Begin
  <1>3. Append(q, Ask(op, j)) = q \o <<Ask(op, j)>>
    BY <1>1
  <1>4. queue'[t] = q \o <<Ask(op, j)>>
    BY <1>1, <1>3 DEF Begin
  <1>5. \A i \in 1 .. Len(q) : q[i].by # j
    BY <1>2 DEF FormInv, Work, Busy
  <1> HIDE DEF q, new
  <1>6. /\ Work(queue'[t], new)
        /\ Saving(q, job[t]) \/ (op = "save" /\ kind \in Submits) => Saving(queue'[t], new)
    <2>1. Work(q, job[t])
      BY DEF FormInv, q
    <2>2. new[j] \in Busy /\ (op = "session" => new[j] \in {"stripe", "auto", "refresh"})
      BY <1>2
    <2> DEFINE work == job[t]
    <2>3. Work(q, work) /\ \A k \in Job \ {j} : new[k] = work[k]
      BY <1>2, <2>1
    <2> HIDE DEF work
    <2>4. /\ Work(q \o <<Ask(op, j)>>, new)
          /\ Saving(q, work) \/ (op = "save" /\ new[j] \in Submits) => Saving(q \o <<Ask(op, j)>>, new)
      BY <1>1, <1>5, <2>2, <2>3, WorkAsked
    <2> QED
      BY <1>2, <1>4, <2>4 DEF work
  <1>7. page' = page /\ saveFailed' = saveFailed
    BY DEF Begin
  <1>8. Engaged(t)'
    <2>1. \A k \in Job : job[t][k] \in {"paying", "cod"} => new[k] = job[t][k]
      BY <1>2
    <2> QED
      BY <1>6, <1>7, <2>1 DEF FormInv, Engaged, transition, q, new
  <1> QED
    BY <1>6, <1>8 DEF FormInv, new

\* A handler ends, and leaves no state to the form that it alone has held it in.
LEMMA HandlerEnds ==
    ASSUME Inv, NEW t \in Tab, FormInv(t), NEW j \in Job, Head(queue[t]).by = j,
           NEW result, Reply(t, result, << >>), Ends(t, j),
           page'[t] = "form" => page[t] = "form",
           step'[t] = "confirming" => step[t] = "confirming",
           page'[t] = "form" /\ step'[t] = "completing_order" =>
               step[t] = "completing_order" /\ job[t][j] # "cod",
           step'[t] = "saving_cart" => step[t] = "saving_cart" /\ (t \in saveFailed' \/ Head(queue[t]).op # "save"),
           t \in saveFailed => t \in saveFailed'
    PROVE  FormInv(t)'
  <1> DEFINE q == queue[t]
             new == job'[t]
  <1>1. q \in Seq(Task) /\ queue \in [Tab -> Seq(Task)] /\ job \in [Tab -> [Job -> Handling]]
    BY DEF Inv, StoreInv, StoreTypeOK, CheckoutTypeOK
  <1>2. q # << >>
    BY AtCall DEF Reply, Inv
  <1>3. \A k \in Job \ {j} : new[k] = job[t][k]
    BY <1>1 DEF Ends
  <1>4. /\ Tail(q) \in Seq(Task)
        /\ Work(Tail(q), new)
        /\ Saving(q, job[t]) => Head(q).op = "save" \/ Saving(Tail(q), new)
    BY <1>1, <1>2, <1>3, WorkAnswered DEF FormInv
  <1>5. queue'[t] = Tail(q) \o << >>
    BY <1>1 DEF Reply
  <1>6. queue'[t] = Tail(q)
    BY <1>4, <1>5
  <1>7. job[t][j] # "paying"
    <2>1. 1 \in 1 .. Len(q) /\ q[1] = Head(q)
      BY <1>1, <1>2, EmptySeq
    <2> QED
      BY <2>1 DEF FormInv, Work, Busy
  <1>8. Engaged(t)'
    BY <1>3, <1>4, <1>6, <1>7 DEF FormInv, Engaged
  <1> QED
    BY <1>4, <1>6, <1>8 DEF FormInv

LEMMA FormReplies ==
    ASSUME Inv, NEW t \in Tab, FormInv(t), FormReply(t)
    PROVE  FormInv(t)'
  <1> DEFINE q == queue[t]
  <1>1. /\ q \in Seq(Task) /\ queue \in [Tab -> Seq(Task)] /\ job \in [Tab -> [Job -> Handling]]
        /\ step \in [Tab -> Step] /\ page \in [Tab -> Page]
    BY DEF Inv, StoreInv, StoreTypeOK, CheckoutTypeOK
  <1>2. PICK j \in Job :
           /\ q # << >> /\ Head(q).by = j
           /\ Saved(t, j) \/ SaveFails(t, j) \/ SessionReply(t, j) \/ QuoteReply(t, j) \/ Placed(t, j)
    BY DEF FormReply
  <1>3. /\ job[t][j] \in Busy
        /\ Head(q).op = "session" => job[t][j] \in {"stripe", "auto", "refresh"}
    <2>1. 1 \in 1 .. Len(q) /\ q[1] = Head(q)
      BY <1>1, <1>2, EmptySeq
    <2> QED
      BY <1>2, <2>1 DEF FormInv, Work
  <1>4. ASSUME NEW op \in {"session", "quote", "place"}, NEW result, Reply(t, result, GoOn(j, op)), job' = job,
               op = "session" => job[t][j] = "stripe"
        PROVE  Work(queue'[t], job'[t])
    <2>1. /\ Tail(q) \in Seq(Task)
          /\ Work(Tail(q), job[t])
          /\ \A i \in 1 .. Len(Tail(q)) : Tail(q)[i].by # j
      BY <1>1, <1>2, WorkAnswered DEF FormInv
    <2>2. op \in Action
      BY DEF Action
    <2>3. Work(Tail(q) \o <<Ask(op, j)>>, job[t])
      BY <1>3, <1>4, <2>1, <2>2, WorkAsked
    <2>4. queue'[t] = Tail(q) \o <<Ask(op, j)>>
      BY <1>1, <1>4 DEF Reply, GoOn
    <2> QED
      BY <1>4, <2>3, <2>4
  <1>5. ASSUME NEW event, Dispatch(t, event)
        PROVE  step'[t] = transition(step[t], event)
    BY <1>1, <1>5 DEF Dispatch
  <1>6. CASE Saved(t, j)
    <2>1. page' = page /\ saveFailed' = saveFailed
      BY <1>6 DEF Saved
    <2>2. CASE /\ job[t][j] = "pay"
               /\ Reply(t, "done", << >>)
               /\ Dispatch(t, "CONFIRM")
               /\ job' = [job EXCEPT ![t][j] = "paying"]
      <3>1. job'[t][j] = "paying" /\ \A k \in Job \ {j} : job'[t][k] = job[t][k]
        BY <1>1, <2>2
      <3>2. /\ Tail(q) \in Seq(Task)
            /\ Work(Tail(q), job'[t])
            /\ Saving(q, job[t]) => Saving(Tail(q), job'[t])
        BY <1>1, <1>2, <2>2, <3>1, WorkAnswered DEF FormInv, Submits
      <3>3. queue'[t] = Tail(q) \o << >>
        BY <1>1, <2>2 DEF Reply
      <3>4. queue'[t] = Tail(q)
        BY <3>2, <3>3
      <3>5. step'[t] = transition(step[t], "CONFIRM")
        BY <1>5, <2>2
      <3>6. Engaged(t)'
        BY <2>1, <2>2, <3>1, <3>2, <3>4, <3>5 DEF FormInv, Engaged, transition
      <3> QED
        BY <3>2, <3>4, <3>6 DEF FormInv
    <2>3. CASE /\ job[t][j] \in {"stripe", "quote"} /\ job' = job
               /\ \E op \in {"session", "quote"} :
                     Reply(t, "done", GoOn(j, op)) /\ (op = "session" => job[t][j] = "stripe")
               /\ Dispatch(t, "SAVE_CART_DONE")
      <3>1. Work(queue'[t], job'[t])
        BY <1>4, <2>3
      <3>2. step'[t] = transition(step[t], "SAVE_CART_DONE")
        BY <1>5, <2>3
      <3> QED
        BY <2>1, <2>3, <3>1, <3>2 DEF FormInv, Engaged, transition
    <2>4. CASE /\ job[t][j] = "cod" /\ job' = job
               /\ Reply(t, "done", GoOn(j, "place"))
               /\ step' = [step EXCEPT ![t] = transition(transition(@, "SAVE_CART_DONE"), "PLACE_ORDER")]
      <3>1. Work(queue'[t], job'[t])
        BY <1>4, <2>4
      <3>2. step'[t] = transition(transition(step[t], "SAVE_CART_DONE"), "PLACE_ORDER")
        BY <1>1, <2>4
      <3>3. step'[t] \notin {"saving_cart", "confirming"}
        BY <3>2 DEF transition
      <3> QED
        BY <2>1, <2>4, <3>1, <3>3 DEF FormInv, Engaged
    <2> QED
      BY <1>6, <2>2, <2>3, <2>4 DEF Saved
  <1>7. CASE SaveFails(t, j)
    <2>1. IF job[t][j] = "pay" THEN step'[t] = step[t] ELSE step'[t] = transition(step[t], "ORDER_ERROR")
      BY <1>5, <1>7 DEF SaveFails
    <2>2. /\ step'[t] = "confirming" => step[t] = "confirming"
          /\ step'[t] = "saving_cart" => step[t] = "saving_cart"
          /\ step'[t] = "completing_order" => step[t] = "completing_order" /\ job[t][j] # "cod"
      BY <2>1 DEF transition
    <2> QED
      BY <1>2, <1>7, <2>2, HandlerEnds DEF SaveFails
  <1>8. CASE SessionReply(t, j)
    <2>1. job[t][j] # "cod"
      BY <1>3, <1>8 DEF SessionReply
    <2>2. step'[t] = step[t] \/ step'[t] = transition(step[t], "CONFIRM_ERROR")
      BY <1>5, <1>8 DEF SessionReply
    <2>3. step'[t] \in {"confirming", "completing_order", "saving_cart"} => step'[t] = step[t]
      BY <2>2 DEF transition
    <2>4. \E result : Reply(t, result, << >>)
      BY <1>8 DEF SessionReply
    <2> QED
      BY <1>2, <1>8, <2>1, <2>3, <2>4, HandlerEnds DEF SessionReply
  <1>9. CASE QuoteReply(t, j)
    <2>1. step'[t] \in {transition(step[t], "ORDER_COMPLETE"), transition(step[t], "ORDER_ERROR")}
      BY <1>5, <1>9 DEF QuoteReply
    <2>2. step'[t] # "completing_order" /\ (step'[t] \in {"confirming", "saving_cart"} => step'[t] = step[t])
      BY <2>1 DEF transition
    <2>3. \E result : Reply(t, result, << >>)
      BY <1>9 DEF QuoteReply
    <2> QED
      BY <1>2, <1>9, <2>2, <2>3, HandlerEnds DEF QuoteReply
  <1>10. CASE Placed(t, j)
    <2>1. \/ page'[t] = "confirmed" /\ step' = step
          \/ page' = page /\ step'[t] \in {transition(step[t], "ORDER_COMPLETE"), transition(step[t], "ORDER_ERROR")}
      BY <1>1, <1>5, <1>10 DEF Placed
    <2>2. /\ page'[t] = "form" => page[t] = "form" /\ step'[t] # "completing_order"
          /\ step'[t] \in {"confirming", "saving_cart"} => step'[t] = step[t]
      BY <2>1 DEF transition
    <2>3. \E result : Reply(t, result, << >>)
      BY <1>10 DEF Placed
    <2> QED
      BY <1>2, <1>10, <2>2, <2>3, HandlerEnds DEF Placed
  <1> QED
    BY <1>2, <1>6, <1>7, <1>8, <1>9, <1>10

\* stripe.confirmPayment: the handler ends and so does the payment, or it goes on to
\* the order, or the tab leaves the form.
LEMMA Confirms ==
    ASSUME Inv, NEW t \in Tab, FormInv(t), NEW j \in Job, Confirm(t, j)
    PROVE  FormInv(t)'
  <1> DEFINE q == queue[t]
  <1>1. /\ q \in Seq(Task) /\ queue \in [Tab -> Seq(Task)] /\ job \in [Tab -> [Job -> Handling]]
        /\ step \in [Tab -> Step] /\ page \in [Tab -> Page]
    BY DEF Inv, StoreInv, StoreTypeOK, CheckoutTypeOK
  <1>2. job[t][j] = "paying" /\ saveFailed' = saveFailed
    BY DEF Confirm
  <1>3. \A i \in 1 .. Len(q) : q[i].by # j
    BY <1>2 DEF FormInv, Work, Busy
  <1>4. CASE Dispatch(t, "CONFIRM_ERROR") /\ Ends(t, j) /\ page' = page /\ queue' = queue
    <2>1. step'[t] = transition(step[t], "CONFIRM_ERROR")
      BY <1>1, <1>4 DEF Dispatch
    <2>2. \A k \in Job \ {j} : job'[t][k] = job[t][k]
      BY <1>1, <1>4 DEF Ends
    <2>3. Work(queue'[t], job'[t])
      BY <1>3, <1>4, <2>2 DEF FormInv, Work
    <2>4. Saving(q, job[t]) => Saving(queue'[t], job'[t])
      BY <1>3, <1>4, <2>2 DEF Saving
    <2>5. Engaged(t)'
      BY <1>2, <1>4, <2>1, <2>2, <2>4 DEF FormInv, Engaged, transition
    <2> QED
      BY <2>3, <2>5 DEF FormInv
  <1>5. CASE /\ Dispatch(t, "PLACE_ORDER")
             /\ queue' = [queue EXCEPT ![t] = @ \o GoOn(j, "place")]
             /\ job' = [job EXCEPT ![t][j] = "cod"]
             /\ page' = page
    <2>1. step'[t] = transition(step[t], "PLACE_ORDER")
      BY <1>1, <1>5 DEF Dispatch
    <2>2. job'[t][j] = "cod" /\ \A k \in Job \ {j} : job'[t][k] = job[t][k]
      BY <1>1, <1>5
    <2>3. queue'[t] = q \o <<Ask("place", j)>>
      BY <1>1, <1>5 DEF GoOn
    <2>4. /\ Work(q \o <<Ask("place", j)>>, job'[t])
          /\ Saving(q, job[t]) => Saving(q \o <<Ask("place", j)>>, job'[t])
      <3> DEFINE work == job[t]
                 new == job'[t]
      <3>1. /\ Work(q, work) /\ \A k \in Job \ {j} : new[k] = work[k]
            /\ new[j] \in Busy /\ "place" \in Action
        BY <2>2 DEF FormInv, Busy, Handling, Action
      <3> HIDE DEF work, new
      <3>2. /\ Work(q \o <<Ask("place", j)>>, new)
            /\ Saving(q, work) => Saving(q \o <<Ask("place", j)>>, new)
        BY <1>1, <1>3, <3>1, WorkAsked
      <3> QED
        BY <3>2 DEF work, new
    <2>5. Engaged(t)'
      BY <1>2, <1>5, <2>1, <2>2, <2>3, <2>4 DEF FormInv, Engaged, transition
    <2> QED
      BY <2>3, <2>4, <2>5 DEF FormInv
  <1>6. CASE /\ queue[t] = << >> /\ queue' = queue
             /\ \E p \in {"return", "failed"} : page' = [page EXCEPT ![t] = p]
    <2>1. page'[t] # "form"
      BY <1>1, <1>6
    <2>2. Len(queue'[t]) = 0
      BY <1>6
    <2>3. Work(queue'[t], job'[t])
      BY <2>2 DEF Work
    <2> QED
      BY <2>1, <2>3 DEF FormInv, Engaged
  <1> QED
    BY <1>4, <1>5, <1>6 DEF Confirm

LEMMA InTheForm ==
    ASSUME Inv, NEW t \in Tab, FormInv(t), FormMoves(t)
    PROVE  FormInv(t)'
  <1>1. load.jobs \subseteq Job /\ load.kinds \subseteq Submits
    BY LoadsAssumption DEF Inv, Submits
  <1>2. step \in [Tab -> Step] /\ page \in [Tab -> Page]
    BY DEF Inv, CheckoutTypeOK
  <1>3. Submits \subseteq Busy /\ {"pay", "auto", "refresh"} \subseteq Busy
    BY DEF Submits, Busy, Handling
  <1>4. ASSUME NEW j \in Job, NEW kind \in Submits, Submit(t, j, kind)
        PROVE  FormInv(t)'
    <2>1. step'[t] = transition(step[t], "SAVE_CART")
      BY <1>2, <1>4 DEF Submit, Dispatch
    <2> QED
      BY <1>3, <1>4, <2>1, HandlerBegins DEF Submit
  <1>5. ASSUME NEW j \in Job, Pay(t, j) \/ AskSession(t, j)
        PROVE  FormInv(t)'
    BY <1>3, <1>5, HandlerBegins DEF Pay, AskSession
  <1>6. ASSUME NEW j \in Job, Confirm(t, j)
        PROVE  FormInv(t)'
    BY <1>6, Confirms
  <1>7. CASE Render(t) \/ GoStale(t)
    BY <1>7, FormKept DEF Render, GoStale, storeVars
  <1>8. CASE ReturnToForm(t)
    <2>1. step'[t] = "editing"
      BY <1>2, <1>8 DEF ReturnToForm
    <2> QED
      BY <1>8, <2>1 DEF ReturnToForm, storeVars, FormInv, Engaged
  <1> QED
    BY <1>1, <1>4, <1>5, <1>6, <1>7, <1>8 DEF FormMoves

LEMMA FormInvNext ==
    ASSUME Inv, \A t \in Tab : FormInv(t), [Next]_vars
    PROVE  \A t \in Tab : FormInv(t)'
  <1>1. CASE UNCHANGED vars
    BY <1>1, FormKept DEF vars, storeVars, checkoutVars
  <1>2. ASSUME NEW t \in Tab,
               ServerMoves(t) \/ ShopReply(t) \/ ShopMoves(t) \/ CheckoutReply(t) \/ FormMoves(t) \/ ReturnMoves(t)
        PROVE  \A s \in Tab : FormInv(s)'
    <2>1. OthersKeep(t)
      BY <1>2, RepliesKeep, MovesKeep
    <2>2. ASSUME NEW s \in Tab \ {t}
          PROVE  FormInv(s)'
      BY <2>1, <2>2, FormKept DEF OthersKeep
    <2>3. FormInv(t)'
      BY <1>2, OutsideForm, FormReplies, InTheForm DEF CheckoutReply
    <2> QED
      BY <2>2, <2>3
  <1> QED
    BY <1>1, <1>2 DEF Next

\* A form at which no handler is at work has left the states that disable its button,
\* except when its details could not be saved: whatever two submits, a payment and the
\* effect that asks for a session dispatch (checkoutTransition), in any order.
THEOREM NeverStuckOtherwise == Spec => []StuckOnlyAfterFailedSave
  <1> DEFINE FInv == \A t \in Tab : FormInv(t)
  <1>1. Init => FInv
    <2> SUFFICES ASSUME Init, NEW t \in Tab PROVE FormInv(t)
      OBVIOUS
    <2>1. Len(queue[t]) = 0 /\ step[t] = "editing"
      BY DEF Init, StoreInit, CheckoutInit
    <2> QED
      BY <2>1 DEF FormInv, Work, Engaged
  <1>2. Inv /\ FInv /\ [Next]_vars => FInv'
    BY FormInvNext
  <1>3. FInv => StuckOnlyAfterFailedSave
    <2> SUFFICES ASSUME FInv, NEW t \in Tab, AtRest(t), step[t] \in Processing
                 PROVE  step[t] = "saving_cart" /\ t \in saveFailed
      BY DEF StuckOnlyAfterFailedSave
    <2>1. \A j \in Job : job[t][j] = "idle"
      BY DEF AtRest, NoJobs
    <2>2. ~ Saving(queue[t], job[t])
      BY <2>1 DEF Saving, Submits
    <2> QED
      BY <2>1, <2>2 DEF FormInv, Engaged, AtRest, Processing
  <1> QED
    BY <1>1, <1>2, <1>3, Invariance, PTL DEF Spec
=============================================================================
