----------------------------- MODULE Storefront -----------------------------
(***************************************************************************)
(* One shopper's browser and the frontend's API routes.  The tabs of the   *)
(* browser share the shopper's identity, and so one cart in the cart       *)
(* service, but each keeps its own copy of it: React Query fetches the     *)
(* cart, and every call that changes it (a mutation of Cart.provider.tsx)  *)
(* invalidates the copy once it has succeeded.  A call passes through      *)
(* Api.gateway.ts and Request.ts to pages/api/cart.ts or checkout.ts,      *)
(* which call the cart and checkout services; any of these steps may fail, *)
(* before or after its effect, and the tab may lose the connection while   *)
(* the route goes on.                                                      *)
(*                                                                         *)
(* A cart carries the number of changes made to it, which the code does    *)
(* not have: it tells how old a copy is.                                   *)
(***************************************************************************)
EXTENDS Integers

CONSTANTS
  Tabs,          \* the tabs of the browser
  Products,      \* the products on sale
  MaxQuantity,   \* the largest quantity the pages offer (10 in the code)
  MaxRetries,    \* how often React Query repeats a failed fetch (3)
  Slots,         \* bound: names for the mutations under way at a time
  OldItems,      \* bound: what an earlier visit may have left in the cart
  MaxPresses,    \* bound: how often the shopper presses a button
  MaxFaults      \* bound: how many steps fail

ASSUME StorefrontAssumption ==
  /\ MaxQuantity \in Nat \ {0} /\ MaxRetries \in Nat
  /\ MaxPresses \in Nat /\ MaxFaults \in Nat
  /\ Products # {}
  /\ \A items \in OldItems :
       /\ DOMAIN items \subseteq Products
       /\ \A p \in DOMAIN items : items[p] \in Int

VARIABLES
  cart,     \* the cart in the cart service
  cache,    \* the copy each tab has of it; age -1 while it has none
  fetch,    \* the fetch of the cart each tab is making
  calls,    \* the mutations under way
  owed,     \* the change of the cart each tab has been told of
  presses,  \* how often a button was pressed
  faults    \* how many steps have failed

vars == <<cart, cache, fetch, calls, owed, presses, faults>>

Quantities == 1..MaxQuantity
NoItems == [p \in {} |-> 0]
NoCopy == [items |-> NoItems, age |-> -1]

Fetch(step, copy, tries) == [step |-> step, copy |-> copy, tries |-> tries]
Idle == Fetch("idle", NoCopy, 0)
Sent == Fetch("sent", NoCopy, 0)
Failed == Fetch("error", NoCopy, 0)

NoCall == [step |-> "none"]
Requests ==
  [step : {"sent"}, tab : Tabs, kind : {"add", "update", "empty", "order"},
   product : Products, delta : Int,
   asked : Int, base : Int,  \* an update's quantity, and the age of the copy it is from
   lost : BOOLEAN]           \* the tab no longer waits for the answer
Answers ==
  [step : {"answered"}, tab : Tabs, status : {200, 204, 422, 500},
   order : {"none", "uncharged", "charged", "placed"},
   age : Nat]                \* the age of the cart after the call changed it, else 0

Quantity(items, p) == IF p \in DOMAIN items THEN items[p] ELSE 0

Max(a, b) == IF a > b THEN a ELSE b
-----------------------------------------------------------------------------
(***************************************************************************)
(* Every tab fetches the cart when it opens; it may have items from an     *)
(* earlier visit.                                                          *)
(***************************************************************************)
Init ==
  /\ \E items \in OldItems : cart = [items |-> items, age |-> 0]
  /\ cache = [t \in Tabs |-> NoCopy]
  /\ fetch = [t \in Tabs |-> Sent]
  /\ calls = [i \in Slots |-> NoCall]
  /\ owed = [t \in Tabs |-> 0]
  /\ presses = 0 /\ faults = 0

Fault == faults < MaxFaults /\ faults' = faults + 1
NoFault == UNCHANGED faults
-----------------------------------------------------------------------------
(***************************************************************************)
(* The buttons.  Nothing keeps the shopper from pressing one while a call  *)
(* is on its way.                                                          *)
(***************************************************************************)
Free == {i \in Slots : calls[i] = NoCall}

Press(t, kind, p, delta, asked, base) ==
  /\ presses < MaxPresses
  /\ presses' = presses + 1
  /\ Free # {}
  /\ calls' = [calls EXCEPT ![CHOOSE i \in Free : TRUE] =
       [step |-> "sent", tab |-> t, kind |-> kind, product |-> p,
        delta |-> delta, asked |-> asked, base |-> base, lost |-> FALSE]]
  /\ UNCHANGED <<cart, cache, fetch, owed, faults>>

AddToCart(t) ==
  \E p \in Products, q \in Quantities : Press(t, "add", p, q, 0, 0)

(***************************************************************************)
(* The cart page offers quantities for the items of the tab's copy, and    *)
(* sends the difference to the one it shows.                               *)
(***************************************************************************)
(* mutant: the new quantity is sent, not the difference *)
Delta_whole(t, p, asked) == asked

Delta(t, p, asked) == asked - Quantity(cache[t].items, p)

UpdateQuantity(t) ==
  \E p \in DOMAIN cache[t].items, q \in Quantities :
     /\ Delta(t, p, q) # 0
     /\ Press(t, "update", p, Delta(t, p, q), q, cache[t].age)

(***************************************************************************)
(* The cart page has its form and its buttons while the copy has items.    *)
(***************************************************************************)
EmptyCart(t) ==
  /\ cache[t].items # NoItems
  /\ Press(t, "empty", CHOOSE p \in Products : TRUE, 0, 0, 0)

PlaceOrder(t) ==
  /\ cache[t].items # NoItems
  /\ Press(t, "order", CHOOSE p \in Products : TRUE, 0, 0, 0)
-----------------------------------------------------------------------------
(***************************************************************************)
(* The API routes.  A service may fail before its effect or after it; an   *)
(* exception in the route becomes a 500.                                   *)
(***************************************************************************)
Changed(items) == [items |-> items, age |-> cart.age + 1]

Added(p, n) ==
  Changed([x \in DOMAIN cart.items \cup {p} |->
             Quantity(cart.items, x) + (IF x = p THEN n ELSE 0)])

Called(i, kinds) == calls[i].step = "sent" /\ calls[i].kind \in kinds

Answered(i, status, order) ==
  calls' = [calls EXCEPT ![i] =
    IF @.lost THEN NoCall
    ELSE [step |-> "answered", tab |-> @.tab, status |-> status, order |-> order,
          age |-> IF cart' = cart THEN 0 ELSE cart'.age]]

(***************************************************************************)
(* POST /api/cart: AddItem, then GetCart for the body of the answer, which *)
(* no page uses: a failure of GetCart is one after the effect.             *)
(***************************************************************************)
AddItem(i) ==
  /\ Called(i, {"add", "update"})
  /\ \/ /\ cart' = Added(calls[i].product, calls[i].delta)
        /\ \/ NoFault /\ Answered(i, 200, "none")
           \/ Fault /\ Answered(i, 500, "none")
     \/ UNCHANGED cart /\ Fault /\ Answered(i, 500, "none")
  /\ UNCHANGED <<cache, fetch, owed, presses>>

(***************************************************************************)
(* DELETE /api/cart.                                                       *)
(***************************************************************************)
(* mutant: the route returns without an answer, as it does for a method it *)
(* does not know                                                           *)
Delete_without_answer(i) ==
  /\ Called(i, {"empty"})
  /\ cart.items # NoItems
  /\ cart' = Changed(NoItems) /\ NoFault /\ UNCHANGED calls
  /\ UNCHANGED <<cache, fetch, owed, presses>>

Delete(i) ==
  /\ Called(i, {"empty"})
  /\ \/ /\ cart' = Changed(NoItems)
        /\ \/ NoFault /\ Answered(i, 204, "none")
           \/ Fault /\ Answered(i, 500, "none")
     \/ UNCHANGED cart /\ Fault /\ Answered(i, 500, "none")
  /\ UNCHANGED <<cache, fetch, owed, presses>>

(***************************************************************************)
(* POST /api/checkout: the status for an error of the checkout service, by *)
(* the text it begins with and the code of the payment service in it.  A   *)
(* declined card is an error payment throws (code Unknown), before it      *)
(* charges; with Unavailable or Internal nobody knows what payment did.    *)
(***************************************************************************)
(* mutant: a payment service that did not answer counts as a decline *)
StatusOf_any_payment_error(charging, code) == IF charging THEN 422 ELSE 500

StatusOf(charging, code) ==
  IF charging /\ code \notin {"Unavailable", "Internal"} THEN 422 ELSE 500

Refused(i, order, charging, code) ==
  UNCHANGED cart /\ Answered(i, StatusOf(charging, code), order)

(***************************************************************************)
(* The order is prepared, the card charged, the order shipped and the cart *)
(* emptied, where a failure is ignored; then the route looks the products  *)
(* up.  (Module Checkout has the checkout service's steps one by one.)     *)
(***************************************************************************)
Checkout(i) ==
  /\ Called(i, {"order"})
  /\ \/ NoFault /\ Refused(i, "uncharged", TRUE, "Unknown")
     \/ Fault /\ Refused(i, "uncharged", FALSE, "Internal")
     \/ Fault /\ \E order \in {"uncharged", "charged"}, code \in {"Unavailable", "Internal"} :
                   Refused(i, order, TRUE, code)
     \/ Fault /\ Refused(i, "charged", FALSE, "Unavailable")
     \/ \E emptied, found \in BOOLEAN :
          /\ IF emptied /\ found THEN NoFault ELSE Fault
          /\ cart' = IF emptied THEN Changed(NoItems) ELSE cart
          /\ Answered(i, IF found THEN 200 ELSE 500, "placed")
  /\ UNCHANGED <<cache, fetch, owed, presses>>
-----------------------------------------------------------------------------
(***************************************************************************)
(* The tab.  Request.ts takes an answer for a success if its status is in  *)
(* the two hundreds; a mutation is not repeated.  A success invalidates    *)
(* the copy of the cart: a fetch under way is given up for a new one,      *)
(* unless the tab has no copy yet, when the fetch goes on.                 *)
(***************************************************************************)
(* mutant: the status is not looked at, as in the phone's Request.ts *)
Accepts_any_answer(status) == status # 0

Accepts(status) == status \in 200..299

(* mutant: a fetch under way is joined, though it may have read the cart   *)
(* before the change                                                       *)
Invalidated_joins(t) ==
  IF fetch[t].step \in {"sent", "read"} THEN fetch[t] ELSE Sent

Invalidated(t) ==
  IF fetch[t].step \in {"sent", "read"} /\ cache[t] = NoCopy
  THEN fetch[t] ELSE Sent

Settle(i) ==
  LET t == calls[i].tab
  IN  /\ calls[i].step = "answered"
      /\ IF Accepts(calls[i].status)
           THEN /\ fetch' = [fetch EXCEPT ![t] = Invalidated(t)]
                /\ owed' = IF cache[t] = NoCopy THEN owed
                           ELSE [owed EXCEPT ![t] = Max(@, calls[i].age)]
           ELSE UNCHANGED <<fetch, owed>>
      /\ calls' = [calls EXCEPT ![i] = NoCall]
      /\ UNCHANGED <<cart, cache, presses, faults>>

(***************************************************************************)
(* The tab loses the connection: the call has failed for it, wherever the  *)
(* route is.                                                               *)
(***************************************************************************)
Disconnect(i) ==
  /\ Fault
  /\ \/ /\ calls[i].step = "sent" /\ ~calls[i].lost
        /\ calls' = [calls EXCEPT ![i].lost = TRUE]
     \/ /\ calls[i].step = "answered"
        /\ calls' = [calls EXCEPT ![i] = NoCall]
  /\ UNCHANGED <<cart, cache, fetch, owed, presses>>

(***************************************************************************)
(* GET /api/cart, and what React Query makes of the answer: a fetch that   *)
(* fails is repeated, up to MaxRetries times.  The repeats may fail with   *)
(* it: a fetch counts for one fault at most.                               *)
(***************************************************************************)
(* mutant: one repeat too many *)
Repeats_once_more(tries) == tries <= MaxRetries

Repeats(tries) == tries < MaxRetries

ReadCart(t) ==
  /\ fetch[t].step = "sent"
  /\ \/ NoFault /\ fetch' = [fetch EXCEPT ![t] = Fetch("read", cart, @.tries)]
     \/ /\ IF fetch[t].tries = 0 THEN Fault ELSE NoFault
        /\ fetch' = [fetch EXCEPT ![t] =
             IF Repeats(@.tries) THEN Fetch("sent", NoCopy, @.tries + 1) ELSE Failed]
  /\ UNCHANGED <<cart, cache, calls, owed, presses>>

Receive(t) ==
  /\ fetch[t].step = "read"
  /\ cache' = [cache EXCEPT ![t] = fetch[t].copy]
  /\ fetch' = [fetch EXCEPT ![t] = Idle]
  /\ UNCHANGED <<cart, calls, owed, presses, faults>>

(***************************************************************************)
(* The shopper comes back to the tab: a copy is always taken for stale.    *)
(***************************************************************************)
Focus(t) ==
  /\ fetch[t].step \in {"idle", "error"}
  /\ fetch' = [fetch EXCEPT ![t] = Sent]
  /\ UNCHANGED <<cart, cache, calls, owed, presses, faults>>
-----------------------------------------------------------------------------
Route(i) == AddItem(i) \/ Delete(i) \/ Checkout(i)

Fetching(t) == ReadCart(t) \/ Receive(t)

Next ==
  \/ \E t \in Tabs : AddToCart(t) \/ UpdateQuantity(t) \/ EmptyCart(t) \/ PlaceOrder(t)
  \/ \E i \in Slots : Route(i) \/ Settle(i) \/ Disconnect(i)
  \/ \E t \in Tabs : Fetching(t) \/ Focus(t)

Spec == Init /\ [][Next]_vars

(***************************************************************************)
(* The services answer, in the end with a status, and the browser runs the *)
(* handlers of what arrives.  Shoppers press or come back as they like.    *)
(***************************************************************************)
Fairness ==
  /\ \A i \in Slots : WF_vars(Route(i) \/ Settle(i))
  /\ \A t \in Tabs : WF_vars(Fetching(t))

FairSpec == Spec /\ Fairness
-----------------------------------------------------------------------------
IsCart(c) ==
  /\ DOMAIN c.items \subseteq Products
  /\ \A p \in DOMAIN c.items : c.items[p] \in Int
  /\ c.age \in Nat \cup {-1}

(***************************************************************************)
(* Type correctness: the variables hold what Cart.provider.tsx and the     *)
(* routes can put there.                                                   *)
(***************************************************************************)
TypeOK ==
  /\ IsCart(cart)
  /\ \A t \in Tabs :
       /\ IsCart(cache[t]) /\ IsCart(fetch[t].copy)
       /\ fetch[t].step \in {"idle", "sent", "read", "error"}
       /\ fetch[t].tries \in 0..MaxRetries
  /\ \A i \in Slots : calls[i] \in {NoCall} \cup Requests \cup Answers
  /\ owed \in [Tabs -> Nat]
  /\ presses \in 0..MaxPresses /\ faults \in 0..MaxFaults

(***************************************************************************)
(* A shopper reads their own writes: a tab that is not fetching, and whose *)
(* last fetch did not fail, shows a cart with every change the tab has     *)
(* been told was made, whatever fetch was under way at the time            *)
(* (Cart.provider.tsx, mutationOptions).  It does not hold for a change    *)
(* made before the tab had its first copy: that fetch is not given up.     *)
(***************************************************************************)
ReadsOwnWrites ==
  \A t \in Tabs : fetch[t].step = "idle" => cache[t].age >= owed[t]

(***************************************************************************)
(* A quantity picked on the cart page is the quantity in the cart, and on  *)
(* the page, if nothing changed the cart between the copy the difference   *)
(* was taken from and the addition (Cart.provider.tsx,                     *)
(* updateItemQuantity).                                                    *)
(***************************************************************************)
UpdateLands ==
  [][\A i \in Slots :
       /\ AddItem(i) /\ cart' # cart
       /\ calls[i].kind = "update" /\ calls[i].base = cart.age
       => Quantity(cart'.items, calls[i].product) = calls[i].asked]_vars

(***************************************************************************)
(* The tab shows "Your order is complete!" only for an order that was      *)
(* placed (CartDetail.tsx and Request.ts): no failure of the route, and no *)
(* decline, reaches the page as a success.                                 *)
(***************************************************************************)
ConfirmedMeansPlaced ==
  \A i \in Slots :
     calls[i].step = "answered" /\ Accepts(calls[i].status) =>
       calls[i].order \in {"none", "placed"}

(***************************************************************************)
(* A shopper who is told that the payment could not be processed, and to   *)
(* try again, has not been charged (pages/api/checkout.ts).                *)
(***************************************************************************)
DeclinedMeansUncharged ==
  \A i \in Slots :
     calls[i].step = "answered" /\ calls[i].status = 422 => calls[i].order = "uncharged"

(***************************************************************************)
(* Every button pressed gets its success or its failure: once the shopper  *)
(* stops, no call stays under way, and no tab is left fetching for ever.   *)
(***************************************************************************)
Settles ==
  /\ <>[](\A i \in Slots : calls[i] = NoCall)
  /\ \A t \in Tabs : []<>(fetch[t].step \in {"idle", "error"})
=============================================================================
