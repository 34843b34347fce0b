-------------------------- MODULE StorefrontProofs --------------------------
(***************************************************************************)
(* Proofs about Storefront, for any tabs, products, quantities, numbers of *)
(* presses and of faults: what the shopper is shown, told and charged      *)
(* agrees with the cart and the orders.                                    *)
(***************************************************************************)
EXTENDS Storefront, TLAPS

\* The types, one conjunct a variable; the functions have their domains.
CartTyped == IsCart(cart) /\ cart.age \in Nat
CacheTyped ==
  /\ cache = [t \in Tabs |-> cache[t]]
  /\ \A t \in Tabs : IsCart(cache[t])
FetchTyped ==
  /\ fetch = [t \in Tabs |-> fetch[t]]
  /\ \A t \in Tabs :
       /\ IsCart(fetch[t].copy)
       /\ fetch[t].step \in {"idle", "sent", "read", "error"}
       /\ fetch[t].tries \in 0..MaxRetries
CallsTyped ==
  /\ calls = [i \in Slots |-> calls[i]]
  /\ \A i \in Slots : calls[i] \in {NoCall} \cup Requests \cup Answers
CountsTyped ==
  /\ owed \in [Tabs -> Nat]
  /\ presses \in 0..MaxPresses /\ faults \in 0..MaxFaults

TypeInv == CartTyped /\ CacheTyped /\ FetchTyped /\ CallsTyped /\ CountsTyped

\* No copy and no answer is ahead of the cart.
Aged ==
  /\ \A t \in Tabs :
       /\ cache[t].age <= cart.age
       /\ fetch[t].copy.age <= cart.age
       /\ owed[t] <= cart.age
  /\ \A i \in Slots : calls[i].step = "answered" => calls[i].age <= cart.age

\* A copy of the cart's age is a copy of the cart; a difference taken from
\* such a copy still makes the quantity asked for.
Same ==
  /\ \A t \in Tabs :
       /\ cache[t].age = cart.age => cache[t].items = cart.items
       /\ fetch[t].copy.age = cart.age => fetch[t].copy.items = cart.items
  /\ \A i \in Slots :
       calls[i].step = "sent" /\ calls[i].kind = "update" =>
         /\ calls[i].base <= cart.age
         /\ calls[i].base = cart.age =>
              Quantity(cart.items, calls[i].product) + calls[i].delta = calls[i].asked

\* A fetch that has read, or ended, has seen what the tab was told of.
Seen ==
  \A t \in Tabs :
     /\ fetch[t].step = "idle" => cache[t].age >= owed[t]
     /\ fetch[t].step = "read" => fetch[t].copy.age >= owed[t]

\* What the answers say of the orders is true.
Truthful == ConfirmedMeansPlaced /\ DeclinedMeansUncharged

Inv == TypeInv /\ Aged /\ Same /\ Seen /\ Truthful

\* A call has one of three shapes, told apart by its step.
LEMMA Shapes ==
    ASSUME CallsTyped, NEW i \in Slots
    PROVE  /\ calls[i].step = "sent" => calls[i] \in Requests
           /\ calls[i].step = "answered" => calls[i] \in Answers
           /\ calls[i].step \notin {"sent", "answered"} => calls[i] = NoCall
<1>1. calls[i] \in {NoCall} \cup Requests \cup Answers
  BY DEF CallsTyped
<1>2. CASE calls[i] = NoCall
  BY <1>2 DEF NoCall
<1>3. CASE calls[i] \in Requests
  BY <1>3 DEF Requests
<1>4. CASE calls[i] \in Answers
  BY <1>4 DEF Answers
<1>. QED
  BY <1>1, <1>2, <1>3, <1>4

\* The carts that the model names.
LEMMA SmallCarts == DOMAIN NoItems = {} /\ IsCart(NoCopy)
BY DEF IsCart, NoCopy, NoItems

\* An emptied cart is a cart.
LEMMA EmptiedIsCart ==
    ASSUME CartTyped
    PROVE  IsCart(Changed(NoItems)) /\ Changed(NoItems).age = cart.age + 1
<1>1. DOMAIN NoItems = {} /\ cart.age \in Nat
  BY SmallCarts DEF CartTyped
<1>. QED
  BY <1>1 DEF IsCart, Changed

\* An addition makes a cart of a cart.
LEMMA AddedIsCart ==
    ASSUME CartTyped, NEW p \in Products, NEW n \in Int
    PROVE  IsCart(Added(p, n)) /\ Added(p, n).age = cart.age + 1
<1>1. \A x \in DOMAIN cart.items \cup {p} : Quantity(cart.items, x) \in Int
  BY DEF CartTyped, IsCart, Quantity
<1>. QED
  BY <1>1 DEF CartTyped, IsCart, Added, Changed

\* A button sends a request; an update asks for the difference to the copy.
Button(t) == AddToCart(t) \/ UpdateQuantity(t) \/ EmptyCart(t) \/ PlaceOrder(t)

Pressed(t, i, call) ==
  /\ calls' = [calls EXCEPT ![i] = call]
  /\ call.kind = "update" =>
       /\ call.base = cache[t].age
       /\ Quantity(cache[t].items, call.product) + call.delta = call.asked
  /\ presses' \in 0..MaxPresses
  /\ UNCHANGED <<cart, cache, fetch, owed, faults>>

LEMMA PressSends ==
    ASSUME TypeInv, NEW t \in Tabs, NEW kind \in {"add", "update", "empty", "order"},
           NEW p \in Products, NEW delta \in Int, NEW asked \in Int, NEW base \in Int,
           Press(t, kind, p, delta, asked, base),
           kind = "update" =>
             base = cache[t].age /\ Quantity(cache[t].items, p) + delta = asked
    PROVE  \E i \in Slots, call \in Requests : Pressed(t, i, call)
<1>. DEFINE i == CHOOSE x \in Free : TRUE
            call == [step |-> "sent", tab |-> t, kind |-> kind, product |-> p,
                     delta |-> delta, asked |-> asked, base |-> base, lost |-> FALSE]
<1>1. i \in Slots
  BY DEF Press, Free
<1>2. call \in Requests
  BY DEF Requests
<1>3. presses' \in 0..MaxPresses
  BY StorefrontAssumption DEF Press, TypeInv, CountsTyped
<1>4. Pressed(t, i, call)
  BY <1>3 DEF Press, Pressed
<1>. QED
  BY <1>1, <1>2, <1>4

LEMMA ButtonSends ==
    ASSUME TypeInv, NEW t \in Tabs, Button(t)
    PROVE  \E i \in Slots, call \in Requests : Pressed(t, i, call)
<1>1. Quantities \subseteq Int /\ (CHOOSE p \in Products : TRUE) \in Products
  BY StorefrontAssumption DEF Quantities
<1>2. CASE AddToCart(t)
  <2>. PICK p \in Products, q \in Quantities : Press(t, "add", p, q, 0, 0)
    BY <1>2 DEF AddToCart
  <2>. QED
    BY <1>1, PressSends
<1>3. CASE UpdateQuantity(t)
  <2>. PICK p \in DOMAIN cache[t].items, q \in Quantities :
          Press(t, "update", p, Delta(t, p, q), q, cache[t].age)
    BY <1>3 DEF UpdateQuantity
  <2>1. /\ p \in Products /\ q \in Int
        /\ cache[t].age \in Int /\ Quantity(cache[t].items, p) \in Int
    BY <1>1 DEF TypeInv, CacheTyped, IsCart, Quantity
  <2>2. /\ Delta(t, p, q) \in Int
        /\ Quantity(cache[t].items, p) + Delta(t, p, q) = q
    BY <2>1 DEF Delta
  <2>. QED
    BY <2>1, <2>2, PressSends
<1>4. CASE EmptyCart(t)
  BY <1>1, <1>4, PressSends DEF EmptyCart
<1>5. CASE PlaceOrder(t)
  BY <1>1, <1>5, PressSends DEF PlaceOrder
<1>. QED
  BY <1>2, <1>3, <1>4, <1>5 DEF Button

\* A route answers a request, truthfully, and changes the cart once or not.
Routed(i, status, order) ==
  /\ Answered(i, status, order)
  /\ Accepts(status) => order \in {"none", "placed"}
  /\ status = 422 => order = "uncharged"
  /\ \/ cart' = cart
     \/ IsCart(cart') /\ cart'.age = cart.age + 1
  /\ faults' \in 0..MaxFaults
  /\ UNCHANGED <<cache, fetch, owed, presses>>

LEMMA RouteAnswers ==
    ASSUME TypeInv, NEW i \in Slots, Route(i)
    PROVE  /\ calls[i] \in Requests
           /\ \E status \in {200, 204, 422, 500},
                 order \in {"none", "uncharged", "charged", "placed"} :
                Routed(i, status, order)
<1>1. calls[i] \in Requests
  BY Shapes DEF TypeInv, Route, AddItem, Delete, Checkout, Called
<1>2. Fault \/ NoFault => faults' \in 0..MaxFaults
  BY StorefrontAssumption DEF TypeInv, CountsTyped, Fault, NoFault
<1>3. \A s \in {200, 204, 422, 500} : Accepts(s) <=> s \in {200, 204}
  BY DEF Accepts
<1>4. CASE AddItem(i)
  <2>1. \/ cart' = cart
        \/ IsCart(cart') /\ cart'.age = cart.age + 1
    <3>1. calls[i].product \in Products /\ calls[i].delta \in Int
      BY <1>1 DEF Requests
    <3>. QED
      BY <1>4, <3>1, AddedIsCart DEF TypeInv, AddItem
  <2>2. \E s \in {200, 500} : Answered(i, s, "none")
    BY <1>4 DEF AddItem
  <2>3. (Fault \/ NoFault) /\ UNCHANGED <<cache, fetch, owed, presses>>
    BY <1>4 DEF AddItem
  <2>4. PICK s \in {200, 500} : Answered(i, s, "none")
    BY <2>2
  <2>5. Routed(i, s, "none")
    BY <1>2, <2>1, <2>3, <2>4 DEF Routed, Answered
  <2>. QED
    BY <1>1, <2>5
<1>5. CASE Delete(i)
  <2>1. \/ cart' = cart
        \/ IsCart(cart') /\ cart'.age = cart.age + 1
    BY <1>5, EmptiedIsCart DEF TypeInv, Delete
  <2>2. \E s \in {204, 500} : Answered(i, s, "none")
    BY <1>5 DEF Delete
  <2>3. (Fault \/ NoFault) /\ UNCHANGED <<cache, fetch, owed, presses>>
    BY <1>5 DEF Delete
  <2>4. PICK s \in {204, 500} : Answered(i, s, "none")
    BY <2>2
  <2>5. Routed(i, s, "none")
    BY <1>2, <2>1, <2>3, <2>4 DEF Routed, Answered
  <2>. QED
    BY <1>1, <2>5
<1>6. CASE Checkout(i)
  <2>1. \/ cart' = cart
        \/ IsCart(cart') /\ cart'.age = cart.age + 1
    BY <1>6, EmptiedIsCart DEF TypeInv, Checkout, Refused
  <2>2. \/ Answered(i, 422, "uncharged")
        \/ \E order \in {"uncharged", "charged", "placed"} : Answered(i, 500, order)
        \/ Answered(i, 200, "placed")
    BY <1>6 DEF Checkout, Refused, StatusOf
  <2>3. (Fault \/ NoFault) /\ UNCHANGED <<cache, fetch, owed, presses>>
    BY <1>6 DEF Checkout
  <2>4. PICK s \in {200, 422, 500}, order \in {"uncharged", "charged", "placed"} :
          /\ Answered(i, s, order)
          /\ s = 422 => order = "uncharged"
          /\ s = 200 => order = "placed"
    BY <2>2
  <2>5. Routed(i, s, order)
    BY <1>2, <1>3, <2>1, <2>3, <2>4 DEF Routed, Answered
  <2>. QED
    BY <1>1, <2>5
<1>. QED
  BY <1>4, <1>5, <1>6 DEF Route

\* A step is one of these.
LEMMA Steps ==
    ASSUME [Next]_vars
    PROVE  \/ \E t \in Tabs : Button(t) \/ ReadCart(t) \/ Receive(t) \/ Focus(t)
           \/ \E i \in Slots : Route(i) \/ Settle(i) \/ Disconnect(i)
           \/ UNCHANGED vars
BY DEF Next, Fetching, Button

\* An answer settles to a new fetch of its tab, or leaves the fetch alone.
LEMMA SettleFetches ==
    ASSUME TypeInv, NEW i \in Slots, Settle(i)
    PROVE  /\ calls[i] \in Answers
           /\ calls' = [calls EXCEPT ![i] = NoCall]
           /\ UNCHANGED <<cart, cache, presses, faults>>
           /\ \/ UNCHANGED <<fetch, owed>>
              \/ /\ fetch' = [fetch EXCEPT ![calls[i].tab] = Sent]
                 /\ owed' = IF cache[calls[i].tab] = NoCopy THEN owed
                            ELSE [owed EXCEPT ![calls[i].tab] = Max(@, calls[i].age)]
<1>1. calls[i] \in Answers
  BY Shapes DEF TypeInv, Settle
<1>2. \/ Invalidated(calls[i].tab) = Sent
      \/ /\ Invalidated(calls[i].tab) = fetch[calls[i].tab]
         /\ cache[calls[i].tab] = NoCopy
  <2>1. CASE /\ fetch[calls[i].tab].step \in {"sent", "read"}
             /\ cache[calls[i].tab] = NoCopy
    BY <2>1 DEF Invalidated
  <2>2. CASE ~ (/\ fetch[calls[i].tab].step \in {"sent", "read"}
                /\ cache[calls[i].tab] = NoCopy)
    BY <2>2 DEF Invalidated
  <2>. QED
    BY <2>1, <2>2
<1>3. [fetch EXCEPT ![calls[i].tab] = fetch[calls[i].tab]] = fetch
  BY DEF TypeInv, FetchTyped
<1>. /\ calls' = [calls EXCEPT ![i] = NoCall]
     /\ UNCHANGED <<cart, cache, presses, faults>>
  BY DEF Settle
<1>4. CASE ~Accepts(calls[i].status)
  <2>. UNCHANGED <<fetch, owed>>
    BY <1>4 DEF Settle
  <2>. QED
    BY <1>1
<1>5. CASE /\ Accepts(calls[i].status)
           /\ Invalidated(calls[i].tab) = Sent
  BY <1>1, <1>5 DEF Settle
<1>6. CASE /\ Accepts(calls[i].status)
           /\ Invalidated(calls[i].tab) = fetch[calls[i].tab]
           /\ cache[calls[i].tab] = NoCopy
  BY <1>1, <1>3, <1>6 DEF Settle
<1>. QED
  BY <1>2, <1>4, <1>5, <1>6

\* No step leaves the types.
LEMMA TypeKept ==
    ASSUME TypeInv, [Next]_vars
    PROVE  TypeInv'
<1>. USE DEF TypeInv
<1>1. ASSUME NEW t \in Tabs, Button(t) PROVE TypeInv'
  <2>. PICK i \in Slots, call \in Requests : Pressed(t, i, call)
    BY <1>1, ButtonSends
  <2>1. CallsTyped'
    BY DEF Pressed, CallsTyped
  <2>. QED
    BY <2>1 DEF Pressed, CartTyped, CacheTyped, FetchTyped, CountsTyped
<1>2. ASSUME NEW i \in Slots, Route(i) PROVE TypeInv'
  <2>. PICK status \in {200, 204, 422, 500},
            order \in {"none", "uncharged", "charged", "placed"} :
          Routed(i, status, order)
    BY <1>2, RouteAnswers
  <2>1. CartTyped'
    BY DEF Routed, CartTyped
  <2>2. CallsTyped'
    <3>1. calls[i].tab \in Tabs
      BY <1>2, RouteAnswers DEF Requests
    <3>2. (IF cart' = cart THEN 0 ELSE cart'.age) \in Nat
      BY <2>1 DEF CartTyped
    <3>. QED
      BY <3>1, <3>2 DEF Routed, Answered, CallsTyped, Answers
  <2>. QED
    BY <2>1, <2>2 DEF Routed, CacheTyped, FetchTyped, CountsTyped
<1>3. ASSUME NEW i \in Slots, Settle(i) PROVE TypeInv'
  <2>1. /\ calls[i].tab \in Tabs /\ calls[i].age \in Nat
        /\ CartTyped' /\ CacheTyped'
    BY <1>3, SettleFetches DEF Answers, CartTyped, CacheTyped
  <2>2. CallsTyped'
    BY <1>3, SettleFetches DEF CallsTyped
  <2>3. FetchTyped'
    BY <1>3, <2>1, SettleFetches, SmallCarts, StorefrontAssumption
    DEF FetchTyped, Sent, Fetch
  <2>4. CountsTyped'
    BY <1>3, <2>1, SettleFetches DEF CountsTyped, Max
  <2>. QED
    BY <2>1, <2>2, <2>3, <2>4
<1>4. ASSUME NEW i \in Slots, Disconnect(i) PROVE TypeInv'
  <2>1. CallsTyped'
    <3>1. CASE calls' = [calls EXCEPT ![i] = NoCall]
      BY <3>1 DEF CallsTyped
    <3>2. CASE calls[i].step = "sent" /\ calls' = [calls EXCEPT ![i].lost = TRUE]
      <4>1. [calls[i] EXCEPT !.lost = TRUE] \in Requests
        BY <3>2, Shapes DEF Requests
      <4>. QED
        BY <3>2, <4>1 DEF CallsTyped
    <3>. QED
      BY <1>4, <3>1, <3>2 DEF Disconnect
  <2>2. CountsTyped'
    BY <1>4, StorefrontAssumption DEF CountsTyped, Disconnect, Fault
  <2>. QED
    BY <1>4, <2>1, <2>2 DEF Disconnect, CartTyped, CacheTyped, FetchTyped
<1>5. ASSUME NEW t \in Tabs, ReadCart(t) PROVE TypeInv'
  <2>1. FetchTyped'
    <3>1. CASE fetch' = [fetch EXCEPT ![t] = Fetch("read", cart, @.tries)]
      BY <3>1 DEF CartTyped, FetchTyped, Fetch
    <3>2. CASE fetch' = [fetch EXCEPT ![t] =
                 IF Repeats(@.tries) THEN Fetch("sent", NoCopy, @.tries + 1) ELSE Failed]
      BY <3>2, SmallCarts, StorefrontAssumption DEF FetchTyped, Repeats, Failed, Fetch
    <3>. QED
      BY <1>5, <3>1, <3>2 DEF ReadCart
  <2>2. CountsTyped'
    BY <1>5, StorefrontAssumption DEF CountsTyped, ReadCart, Fault, NoFault
  <2>. QED
    BY <1>5, <2>1, <2>2 DEF ReadCart, CartTyped, CacheTyped, CallsTyped
<1>6. ASSUME NEW t \in Tabs, Receive(t) PROVE TypeInv'
  <2>1. CacheTyped'
    BY <1>6 DEF CacheTyped, FetchTyped, Receive
  <2>2. FetchTyped'
    BY <1>6, SmallCarts, StorefrontAssumption DEF FetchTyped, Receive, Idle, Fetch
  <2>. QED
    BY <1>6, <2>1, <2>2 DEF Receive, CartTyped, CallsTyped, CountsTyped
<1>7. ASSUME NEW t \in Tabs, Focus(t) PROVE TypeInv'
  <2>1. FetchTyped'
    BY <1>7, SmallCarts, StorefrontAssumption DEF FetchTyped, Focus, Sent, Fetch
  <2>. QED
    BY <1>7, <2>1 DEF Focus, CartTyped, CacheTyped, CallsTyped, CountsTyped
<1>8. CASE UNCHANGED vars
  BY <1>8 DEF vars, CartTyped, CacheTyped, FetchTyped, CallsTyped, CountsTyped
<1>. QED
  BY <1>1, <1>2, <1>3, <1>4, <1>5, <1>6, <1>7, <1>8, Steps

\* The ages are integers that can be compared.
LEMMA Ages ==
    ASSUME TypeInv
    PROVE  /\ cart.age \in Nat
           /\ \A t \in Tabs :
                cache[t].age \in Int /\ fetch[t].copy.age \in Int /\ owed[t] \in Nat
           /\ \A i \in Slots :
                /\ calls[i].step = "answered" => calls[i].age \in Nat
                /\ calls[i].step = "sent" => /\ calls[i].base \in Int
                                             /\ calls[i].delta \in Int
                                             /\ calls[i].asked \in Int
<1>1. \A i \in Slots : calls[i].step = "answered" => calls[i].age \in Nat
  BY Shapes DEF TypeInv, Answers
<1>2. \A i \in Slots :
         calls[i].step = "sent" =>
           calls[i].base \in Int /\ calls[i].delta \in Int /\ calls[i].asked \in Int
  BY Shapes DEF TypeInv, Requests
<1>. QED
  BY <1>1, <1>2 DEF TypeInv, CartTyped, CacheTyped, FetchTyped, CountsTyped, IsCart

\* What the small fetches hold.
LEMMA SmallFetches ==
    /\ Sent.step = "sent" /\ Idle.step = "idle" /\ Failed.step = "error"
    /\ Sent.copy = NoCopy /\ Idle.copy = NoCopy /\ Failed.copy = NoCopy
    /\ NoCopy.age = -1
    /\ NoCall.step = "none"
BY DEF Sent, Idle, Failed, Fetch, NoCopy, NoCall

\* The calls that a step leaves are those it found, but for one.
LEMMA AnsweredCalls ==
    ASSUME TypeInv, NEW i \in Slots, NEW status, NEW order, Answered(i, status, order)
    PROVE  \A j \in Slots :
             \/ calls'[j] = calls[j]
             \/ calls'[j] = NoCall
             \/ /\ calls'[j].step = "answered"
                /\ calls'[j].status = status /\ calls'[j].order = order
                /\ calls'[j].age = IF cart' = cart THEN 0 ELSE cart'.age
BY DEF TypeInv, CallsTyped, Answered

\* A call the tab gives up is gone, or is sent still.
LEMMA DisconnectedCalls ==
    ASSUME TypeInv, NEW i \in Slots, Disconnect(i)
    PROVE  \A j \in Slots :
             \/ calls'[j] = calls[j]
             \/ calls'[j] = NoCall
             \/ /\ calls[j].step = "sent" /\ calls'[j].step = "sent"
                /\ calls'[j].kind = calls[j].kind /\ calls'[j].product = calls[j].product
                /\ calls'[j].base = calls[j].base /\ calls'[j].asked = calls[j].asked
                /\ calls'[j].delta = calls[j].delta
<1>1. CASE calls' = [calls EXCEPT ![i] = NoCall]
  BY <1>1 DEF TypeInv, CallsTyped
<1>2. CASE calls[i].step = "sent" /\ calls' = [calls EXCEPT ![i].lost = TRUE]
  <2>. DEFINE c == [calls[i] EXCEPT !.lost = TRUE]
  <2>1. calls[i] \in Requests
    BY <1>2, Shapes DEF TypeInv
  <2>2. /\ c.step = "sent" /\ c.kind = calls[i].kind /\ c.product = calls[i].product
        /\ c.base = calls[i].base /\ c.asked = calls[i].asked
        /\ c.delta = calls[i].delta
    BY <2>1 DEF Requests
  <2>3. calls' = [calls EXCEPT ![i] = c]
    BY <1>2
  <2>. HIDE DEF c
  <2>. QED
    BY <1>2, <2>2, <2>3 DEF TypeInv, CallsTyped
<1>. QED
  BY <1>1, <1>2 DEF Disconnect

\* The cart never gets younger, so nothing gets ahead of it.
LEMMA AgedKept ==
    ASSUME TypeInv, Aged, [Next]_vars
    PROVE  Aged'
<1>. USE Ages, SmallFetches
<1>1. ASSUME NEW t \in Tabs, Button(t) PROVE Aged'
  <2>. PICK i \in Slots, call \in Requests : Pressed(t, i, call)
    BY <1>1, ButtonSends
  <2>1. \A j \in Slots : calls'[j] = calls[j] \/ calls'[j].step = "sent"
    BY DEF Pressed, TypeInv, CallsTyped, Requests
  <2>. QED
    BY <2>1 DEF Pressed, Aged
<1>2. ASSUME NEW i \in Slots, Route(i) PROVE Aged'
  <2>. PICK status, order : Routed(i, status, order)
    BY <1>2, RouteAnswers
  <2>1. cart'.age \in Nat /\ cart'.age >= cart.age
    BY DEF Routed
  <2>. QED
    BY <2>1, AnsweredCalls DEF Routed, Aged
<1>3. ASSUME NEW i \in Slots, Settle(i) PROVE Aged'
  <2>1. /\ calls[i].tab \in Tabs /\ calls[i].age \in Nat /\ calls[i].age <= cart.age
    <3>1. calls[i].step = "answered" /\ calls[i].tab \in Tabs
      BY <1>3, SettleFetches DEF Answers
    <3>. QED
      BY <3>1 DEF Aged
  <2>2. \A j \in Slots : calls'[j] = calls[j] \/ calls'[j] = NoCall
    BY <1>3, SettleFetches DEF TypeInv, CallsTyped
  <2>3. \A t \in Tabs : fetch'[t] = fetch[t] \/ fetch'[t] = Sent
    BY <1>3, SettleFetches DEF TypeInv, FetchTyped
  <2>4. \A t \in Tabs : owed'[t] <= cart.age
    BY <1>3, <2>1, SettleFetches DEF TypeInv, CountsTyped, Aged, Max
  <2>. QED
    BY <1>3, <2>2, <2>3, <2>4, SettleFetches DEF Aged
<1>4. ASSUME NEW i \in Slots, Disconnect(i) PROVE Aged'
  <2>1. \A j \in Slots : calls'[j].step = "answered" => calls'[j] = calls[j]
    BY <1>4, DisconnectedCalls
  <2>. QED
    BY <1>4, <2>1 DEF Disconnect, Aged
<1>5. ASSUME NEW t \in Tabs, ReadCart(t) PROVE Aged'
  <2>1. \A u \in Tabs : fetch'[u].copy \in {fetch[u].copy, cart, NoCopy}
    BY <1>5 DEF TypeInv, FetchTyped, ReadCart, Fetch
  <2>. QED
    BY <1>5, <2>1 DEF ReadCart, Aged
<1>6. ASSUME NEW t \in Tabs, Receive(t) PROVE Aged'
  <2>1. \A u \in Tabs : /\ fetch'[u].copy \in {fetch[u].copy, NoCopy}
                        /\ cache'[u] \in {cache[u], fetch[u].copy}
    BY <1>6 DEF TypeInv, FetchTyped, CacheTyped, Receive
  <2>. QED
    BY <1>6, <2>1 DEF Receive, Aged
<1>7. ASSUME NEW t \in Tabs, Focus(t) PROVE Aged'
  <2>1. \A u \in Tabs : fetch'[u].copy \in {fetch[u].copy, NoCopy}
    BY <1>7 DEF TypeInv, FetchTyped, Focus
  <2>. QED
    BY <1>7, <2>1 DEF Focus, Aged
<1>8. CASE UNCHANGED vars
  BY <1>8 DEF vars, Aged
<1>. QED
  BY <1>1, <1>2, <1>3, <1>4, <1>5, <1>6, <1>7, <1>8, Steps

\* Equal ages mean equal carts.
LEMMA SameKept ==
    ASSUME TypeInv, Aged, Same, [Next]_vars
    PROVE  Same'
<1>. USE Ages, SmallFetches
<1>1. ASSUME NEW t \in Tabs, Button(t) PROVE Same'
  <2>. PICK i \in Slots, call \in Requests : Pressed(t, i, call)
    BY <1>1, ButtonSends
  <2>1. \A j \in Slots : calls'[j] = calls[j] \/ calls'[j] = call
    BY DEF Pressed, TypeInv, CallsTyped
  <2>2. cache[t].age <= cart.age
        /\ (cache[t].age = cart.age => cache[t].items = cart.items)
    BY DEF Aged, Same
  <2>3. call.kind = "update" =>
          /\ call.base <= cart.age
          /\ call.base = cart.age =>
               Quantity(cart.items, call.product) + call.delta = call.asked
    BY <2>2 DEF Pressed
  <2>. QED
    BY <2>1, <2>3 DEF Pressed, Same
<1>2. ASSUME NEW i \in Slots, Route(i) PROVE Same'
  <2>. PICK status, order : Routed(i, status, order)
    BY <1>2, RouteAnswers
  <2>1. \A j \in Slots : calls'[j].step = "sent" => calls'[j] = calls[j]
    BY AnsweredCalls DEF Routed
  <2>2. CASE cart' = cart
    BY <2>1, <2>2 DEF Routed, Same
  <2>3. CASE cart'.age = cart.age + 1
    BY <2>1, <2>3 DEF Routed, Same, Aged
  <2>. QED
    BY <2>2, <2>3 DEF Routed
<1>3. ASSUME NEW i \in Slots, Settle(i) PROVE Same'
  <2>1. \A j \in Slots : calls'[j] = calls[j] \/ calls'[j] = NoCall
    BY <1>3, SettleFetches DEF TypeInv, CallsTyped
  <2>2. \A t \in Tabs : fetch'[t] = fetch[t] \/ fetch'[t] = Sent
    BY <1>3, SettleFetches DEF TypeInv, FetchTyped
  <2>. QED
    BY <1>3, <2>1, <2>2, SettleFetches DEF Same
<1>4. ASSUME NEW i \in Slots, Disconnect(i) PROVE Same'
  <2>1. cart' = cart /\ cache' = cache /\ fetch' = fetch
    BY <1>4 DEF Disconnect
  <2>. QED
    BY <1>4, <2>1, DisconnectedCalls DEF Same
<1>5. ASSUME NEW t \in Tabs, ReadCart(t) PROVE Same'
  <2>1. \A u \in Tabs : fetch'[u].copy \in {fetch[u].copy, cart, NoCopy}
    BY <1>5 DEF TypeInv, FetchTyped, ReadCart, Fetch
  <2>. QED
    BY <1>5, <2>1 DEF ReadCart, Same
<1>6. ASSUME NEW t \in Tabs, Receive(t) PROVE Same'
  <2>1. \A u \in Tabs : /\ fetch'[u].copy \in {fetch[u].copy, NoCopy}
                        /\ cache'[u] \in {cache[u], fetch[u].copy}
    BY <1>6 DEF TypeInv, FetchTyped, CacheTyped, Receive
  <2>. QED
    BY <1>6, <2>1 DEF Receive, Same
<1>7. ASSUME NEW t \in Tabs, Focus(t) PROVE Same'
  <2>1. \A u \in Tabs : fetch'[u].copy \in {fetch[u].copy, NoCopy}
    BY <1>7 DEF TypeInv, FetchTyped, Focus
  <2>. QED
    BY <1>7, <2>1 DEF Focus, Same
<1>8. CASE UNCHANGED vars
  BY <1>8 DEF vars, Same
<1>. QED
  BY <1>1, <1>2, <1>3, <1>4, <1>5, <1>6, <1>7, <1>8, Steps

\* A change the tab is told of gives the fetch under way up for a new one.
LEMMA SeenKept ==
    ASSUME TypeInv, Aged, Seen, [Next]_vars
    PROVE  Seen'
<1>. USE Ages, SmallFetches
<1>1. ASSUME NEW t \in Tabs, Button(t) PROVE Seen'
  BY <1>1, ButtonSends DEF Pressed, Seen
<1>2. ASSUME NEW i \in Slots, Route(i) PROVE Seen'
  BY <1>2, RouteAnswers DEF Routed, Seen
<1>3. ASSUME NEW i \in Slots, Settle(i) PROVE Seen'
  <2>1. \A t \in Tabs : \/ fetch'[t] = Sent
                        \/ fetch'[t] = fetch[t] /\ owed'[t] = owed[t]
    <3>1. CASE UNCHANGED <<fetch, owed>>
      BY <3>1
    <3>2. CASE /\ fetch' = [fetch EXCEPT ![calls[i].tab] = Sent]
               /\ owed' = IF cache[calls[i].tab] = NoCopy THEN owed
                          ELSE [owed EXCEPT ![calls[i].tab] = Max(@, calls[i].age)]
      BY <3>2 DEF TypeInv, FetchTyped, CountsTyped
    <3>. QED
      BY <1>3, <3>1, <3>2, SettleFetches
  <2>. QED
    BY <1>3, <2>1, SettleFetches DEF Seen
<1>4. ASSUME NEW i \in Slots, Disconnect(i) PROVE Seen'
  BY <1>4 DEF Disconnect, Seen
<1>5. ASSUME NEW t \in Tabs, ReadCart(t) PROVE Seen'
  <2>1. \A u \in Tabs : \/ fetch'[u] = fetch[u]
                        \/ fetch'[u].step = "read" /\ fetch'[u].copy = cart
                        \/ fetch'[u].step \in {"sent", "error"}
    BY <1>5 DEF TypeInv, FetchTyped, ReadCart, Fetch
  <2>. QED
    BY <1>5, <2>1 DEF ReadCart, Seen, Aged
<1>6. ASSUME NEW t \in Tabs, Receive(t) PROVE Seen'
  <2>1. \A u \in Tabs : \/ u # t /\ fetch'[u] = fetch[u] /\ cache'[u] = cache[u]
                        \/ u = t /\ fetch'[u] = Idle /\ cache'[u] = fetch[u].copy
    BY <1>6 DEF TypeInv, FetchTyped, CacheTyped, Receive
  <2>2. fetch[t].step = "read" /\ owed' = owed
    BY <1>6 DEF Receive
  <2>. QED
    BY <2>1, <2>2 DEF Seen
<1>7. ASSUME NEW t \in Tabs, Focus(t) PROVE Seen'
  <2>1. \A u \in Tabs : fetch'[u] = fetch[u] \/ fetch'[u] = Sent
    BY <1>7 DEF TypeInv, FetchTyped, Focus
  <2>. QED
    BY <1>7, <2>1 DEF Focus, Seen
<1>8. CASE UNCHANGED vars
  BY <1>8 DEF vars, Seen
<1>. QED
  BY <1>1, <1>2, <1>3, <1>4, <1>5, <1>6, <1>7, <1>8, Steps

\* What an answer says does not change on its way.
LEMMA TruthfulKept ==
    ASSUME TypeInv, Truthful, [Next]_vars
    PROVE  Truthful'
<1>. USE SmallFetches DEF Truthful, ConfirmedMeansPlaced, DeclinedMeansUncharged
<1>1. ASSUME NEW t \in Tabs, Button(t) PROVE Truthful'
  <2>. PICK i \in Slots, call \in Requests : Pressed(t, i, call)
    BY <1>1, ButtonSends
  <2>1. \A j \in Slots : calls'[j] = calls[j] \/ calls'[j].step = "sent"
    BY DEF Pressed, TypeInv, CallsTyped, Requests
  <2>. QED
    BY <2>1
<1>2. ASSUME NEW i \in Slots, Route(i) PROVE Truthful'
  <2>. PICK status, order : Routed(i, status, order)
    BY <1>2, RouteAnswers
  <2>. QED
    BY AnsweredCalls DEF Routed
<1>3. ASSUME NEW i \in Slots, Settle(i) PROVE Truthful'
  <2>1. \A j \in Slots : calls'[j] = calls[j] \/ calls'[j] = NoCall
    BY <1>3, SettleFetches DEF TypeInv, CallsTyped
  <2>. QED
    BY <2>1
<1>4. ASSUME NEW i \in Slots, Disconnect(i) PROVE Truthful'
  BY <1>4, DisconnectedCalls
<1>5. ASSUME NEW t \in Tabs, Fetching(t) \/ Focus(t) PROVE Truthful'
  BY <1>5 DEF Fetching, ReadCart, Receive, Focus
<1>6. CASE UNCHANGED vars
  BY <1>6 DEF vars
<1>. QED
  BY <1>1, <1>2, <1>3, <1>4, <1>5, <1>6, Steps DEF Fetching

\* It holds at the start.
LEMMA InitInv == Init => Inv
<1>. SUFFICES ASSUME Init PROVE Inv
  OBVIOUS
<1>. USE SmallCarts, SmallFetches, StorefrontAssumption
<1>1. CartTyped /\ cart.age = 0
  BY DEF Init, CartTyped, IsCart
<1>2. cache = [t \in Tabs |-> NoCopy] /\ fetch = [t \in Tabs |-> Sent]
      /\ calls = [i \in Slots |-> NoCall] /\ owed = [t \in Tabs |-> 0]
  BY DEF Init
<1>3. Sent.tries = 0
  BY DEF Sent, Fetch
<1>4. TypeInv
  <2>1. CacheTyped /\ CallsTyped
    BY <1>2 DEF CacheTyped, CallsTyped
  <2>2. FetchTyped
    BY <1>2, <1>3 DEF FetchTyped
  <2>3. CountsTyped
    BY <1>2 DEF CountsTyped, Init
  <2>. QED
    BY <1>1, <2>1, <2>2, <2>3 DEF TypeInv
<1>5. Aged /\ Same /\ Seen
  BY <1>1, <1>2 DEF Aged, Same, Seen
<1>6. Truthful
  BY <1>2 DEF Truthful, ConfirmedMeansPlaced, DeclinedMeansUncharged
<1>. QED
  BY <1>4, <1>5, <1>6 DEF Inv

\* It is inductive.
LEMMA Invariance == Spec => []Inv
<1>1. Inv /\ [Next]_vars => Inv'
  BY TypeKept, AgedKept, SameKept, SeenKept, TruthfulKept DEF Inv
<1>. QED
  BY <1>1, InitInv, PTL DEF Spec

(* The variables keep their types, whatever the sizes.                      *)
THEOREM TypeCorrect == Spec => []TypeOK
<1>1. Inv => TypeOK
  BY DEF Inv, TypeInv, CartTyped, CacheTyped, FetchTyped, CallsTyped, CountsTyped, TypeOK
<1>. QED
  BY <1>1, Invariance, PTL

(* A tab at rest shows every change it has been told was made, for any      *)
(* number of tabs, of calls under way and of failures: the invalidation in  *)
(* Cart.provider.tsx gives up a fetch that may have read the cart before.   *)
THEOREM OwnWritesAreRead == Spec => []ReadsOwnWrites
<1>1. Inv => ReadsOwnWrites
  BY DEF Inv, Seen, ReadsOwnWrites
<1>. QED
  BY <1>1, Invariance, PTL

(* No failure and no decline of the checkout route reaches a page as a      *)
(* success.                                                                 *)
THEOREM ConfirmationsAreTrue == Spec => []ConfirmedMeansPlaced
<1>1. Inv => ConfirmedMeansPlaced
  BY DEF Inv, Truthful
<1>. QED
  BY <1>1, Invariance, PTL

(* A 422, which asks the shopper to try again, is sent only for an order    *)
(* that was not charged, whatever failed in the checkout service.           *)
THEOREM DeclinesAreTrue == Spec => []DeclinedMeansUncharged
<1>1. Inv => DeclinedMeansUncharged
  BY DEF Inv, Truthful
<1>. QED
  BY <1>1, Invariance, PTL

(* The difference that the cart page sends makes the quantity picked, when  *)
(* nothing has changed the cart since the copy it was taken from.           *)
THEOREM UpdatesLand == Spec => UpdateLands
<1>1. Inv => [\A i \in Slots :
                /\ AddItem(i) /\ cart' # cart
                /\ calls[i].kind = "update" /\ calls[i].base = cart.age
                => Quantity(cart'.items, calls[i].product) = calls[i].asked]_vars
  <2>. SUFFICES ASSUME Inv, NEW i \in Slots, AddItem(i), cart' # cart,
                       calls[i].kind = "update", calls[i].base = cart.age
                PROVE  Quantity(cart'.items, calls[i].product) = calls[i].asked
    OBVIOUS
  <2>1. calls[i].step = "sent" /\ cart' = Added(calls[i].product, calls[i].delta)
    BY DEF AddItem, Called
  <2>2. Quantity(cart.items, calls[i].product) + calls[i].delta = calls[i].asked
    BY <2>1 DEF Inv, Same
  <2>3. Quantity(cart'.items, calls[i].product)
          = Quantity(cart.items, calls[i].product) + calls[i].delta
    <3>. DEFINE p == calls[i].product
    <3>1. cart'.items = [x \in DOMAIN cart.items \cup {p} |->
             Quantity(cart.items, x) + (IF x = p THEN calls[i].delta ELSE 0)]
      BY <2>1 DEF Added, Changed
    <3>2. p \in DOMAIN cart'.items
          /\ cart'.items[p] = Quantity(cart.items, p) + calls[i].delta
      BY <3>1
    <3>. QED
      BY <3>2 DEF Quantity
  <2>. QED
    BY <2>2, <2>3
<1>. QED
  BY <1>1, Invariance, PTL DEF UpdateLands
=============================================================================
