------------------------------ MODULE Checkout ------------------------------
(***************************************************************************)
(* The carts of the cart service (ValkeyCartStore.cs) and the orders that  *)
(* the checkout service places from them (PlaceOrder in                    *)
(* src/checkout/main.go), for one user: carts of different users share     *)
(* nothing.                                                                *)
(*                                                                         *)
(* A cart is the set of units in it, each named by the AddItem request     *)
(* that brought it; products and quantities are not told apart.  Every     *)
(* call to another service may fail for its caller, having had its effect  *)
(* or not, so no bound on failures is needed.                              *)
(***************************************************************************)
CONSTANTS Adds,    \* AddItem requests, of one unit each
          Orders   \* PlaceOrder requests

VARIABLES cart,       \* the user's hash entry in Valkey
          adding,     \* where each AddItem handler is
          copy,       \* the cart an AddItem handler has read
          at,         \* where each PlaceOrder handler is
          items,      \* prep.cartItems of each order
          charged, shipped, mailed, published,  \* what other services did, for which orders
          emptying,   \* orders whose EmptyCart request failed and may still arrive
          kept,       \* orders whose EmptyCart request failed
          producer,   \* KafkaProducerClient: address unset, nil after an error, or ready
          discarded,  \* history: units in carts the user emptied or that expired
          raced       \* history: an AddItem overlapped another request

cartVars == <<cart, adding, copy, discarded>>
ledgerVars == <<charged, shipped, mailed, published>>
vars == <<cartVars, at, items, ledgerVars, emptying, kept, producer, raced>>

Busy == {"prepare", "charge", "ship", "empty", "confirm", "publish", "await"}

TypeOK ==
    /\ cart \subseteq Adds
    /\ adding \in [Adds -> {"new", "read", "done", "failed"}]
    /\ copy \in [Adds -> SUBSET Adds]
    /\ \A a \in Adds : a \notin copy[a]  \* no unit is in the cart before it is added
    /\ at \in [Orders -> {"new", "placed", "failed", "lost"} \cup Busy]
    /\ items \in [Orders -> SUBSET Adds]
    /\ charged \subseteq Orders /\ shipped \subseteq Orders
    /\ mailed \subseteq Orders /\ published \subseteq Orders
    /\ emptying \subseteq kept /\ kept \subseteq Orders
    /\ producer \in {"unset", "nil", "ready"}
    /\ discarded \subseteq Adds
    /\ raced \in BOOLEAN

Init ==
    /\ cart = {} /\ discarded = {} /\ raced = FALSE
    /\ adding \in [Adds -> {"new", "failed"}]  \* some may have failed before
    /\ copy = [a \in Adds |-> {}]
    /\ at = [o \in Orders |-> "new"]
    /\ items = [o \in Orders |-> {}]
    /\ charged = {} /\ shipped = {} /\ mailed = {} /\ published = {}
    /\ emptying = {} /\ kept = {}
    /\ producer \in {"unset", "nil", "ready"}

-----------------------------------------------------------------------------
(* The cart store.  AddItemAsync reads the entry, changes its copy and      *)
(* writes it back; nothing keeps other requests out in between.             *)

Adding == \E a \in Adds : adding[a] = "read"
Ordering == emptying # {} \/ \E o \in Orders : at[o] \in Busy

IsNew_or_failed(a) == adding[a] \in {"new", "failed"}
IsNew(a) == adding[a] = "new"

AddItem(a) ==
    /\ IsNew(a)
    /\ raced' = (raced \/ Adding \/ Ordering)
    /\ \/ /\ copy' = [copy EXCEPT ![a] = cart]
          /\ adding' = [adding EXCEPT ![a] = "read"]
       \/ /\ adding' = [adding EXCEPT ![a] = "failed"]
          /\ UNCHANGED copy
    /\ UNCHANGED <<cart, at, items, ledgerVars, emptying, kept, producer, discarded>>

WriteCart_without_copy(a) == cart' = {a}
WriteCart(a) == cart' = copy[a] \cup {a}

\* The write or KeyExpireAsync may raise, the write having been done or not.
StoreItem(a) ==
    /\ adding[a] = "read"
    /\ \/ WriteCart(a) /\ adding' = [adding EXCEPT ![a] = "done"]
       \/ WriteCart(a) /\ adding' = [adding EXCEPT ![a] = "failed"]
       \/ UNCHANGED cart /\ adding' = [adding EXCEPT ![a] = "failed"]
    /\ UNCHANGED <<copy, at, items, ledgerVars, emptying, kept, producer, discarded, raced>>

\* The user empties the cart, or it has not been written for an hour.
DropCart ==
    /\ raced' = (raced \/ Adding)
    /\ cart' = {}
    /\ discarded' = discarded \cup cart
    /\ UNCHANGED <<adding, copy, at, items, ledgerVars, emptying, kept, producer>>

-----------------------------------------------------------------------------
(* PlaceOrder: one action for each call to another service.                 *)

Move(o, place) == at' = [at EXCEPT ![o] = place]

GetUserCart(o) ==
    /\ at[o] = "new"
    /\ raced' = (raced \/ Adding)
    /\ \/ items' = [items EXCEPT ![o] = cart] /\ Move(o, "prepare")
       \/ Move(o, "failed") /\ UNCHANGED items
    /\ UNCHANGED <<cartVars, ledgerVars, emptying, kept, producer>>

\* prepOrderItems, quoteShipping and convertCurrency only read.
Prepare(o) ==
    /\ at[o] = "prepare"
    /\ Move(o, "charge") \/ Move(o, "failed")
    /\ UNCHANGED <<cartVars, items, ledgerVars, emptying, kept, producer, raced>>

ChargeCard_error_ignored(o) ==
    /\ at[o] = "charge"
    /\ Move(o, "ship")
    /\ charged' = charged \cup {o} \/ UNCHANGED charged
    /\ UNCHANGED <<cartVars, items, shipped, mailed, published, emptying, kept, producer, raced>>

ChargeCard(o) ==
    /\ at[o] = "charge"
    /\ \/ charged' = charged \cup {o} /\ (Move(o, "ship") \/ Move(o, "failed"))
       \/ Move(o, "failed") /\ UNCHANGED charged
    /\ UNCHANGED <<cartVars, items, shipped, mailed, published, emptying, kept, producer, raced>>

ShipOrder(o) ==
    /\ at[o] = "ship"
    /\ \/ shipped' = shipped \cup {o} /\ (Move(o, "empty") \/ Move(o, "failed"))
       \/ Move(o, "failed") /\ UNCHANGED shipped
    /\ UNCHANGED <<cartVars, items, charged, mailed, published, emptying, kept, producer, raced>>

EmptyUserCart_skipped(o) ==
    /\ at[o] = "empty"
    /\ Move(o, "confirm")
    /\ UNCHANGED <<cartVars, items, ledgerVars, emptying, kept, producer, raced>>

\* The error of EmptyCart is ignored; a request that failed may still arrive.
EmptyUserCart(o) ==
    /\ at[o] = "empty"
    /\ Move(o, "confirm")
    /\ \/ cart' = {} /\ UNCHANGED <<emptying, kept>>
       \/ kept' = kept \cup {o} /\ UNCHANGED <<cart, emptying>>
       \/ kept' = kept \cup {o} /\ emptying' = emptying \cup {o} /\ UNCHANGED cart
    /\ UNCHANGED <<items, adding, copy, ledgerVars, producer, discarded, raced>>

LateEmptyCart(o) ==
    /\ o \in emptying
    /\ emptying' = emptying \ {o}
    /\ cart' = {}
    /\ UNCHANGED <<adding, copy, at, items, ledgerVars, kept, producer, discarded, raced>>

\* The confirmation is tried for one second, and its error only logged.
SendOrderConfirmation(o) ==
    /\ at[o] = "confirm"
    /\ Move(o, "publish")
    /\ mailed' = mailed \cup {o} \/ UNCHANGED mailed
    /\ UNCHANGED <<cartVars, items, charged, shipped, published, emptying, kept, producer, raced>>

\* The process ends: no handler goes on, and no client gets an answer.
Lost == [o \in Orders |-> IF at[o] \in Busy THEN "lost" ELSE at[o]]

\* The order is put on the producer's input, unless the request ends first.
\* With a broker address but no producer the call of Input() panics.
SendToPostProcessor(o) ==
    /\ at[o] = "publish"
    /\ \/ producer = "unset" /\ Move(o, "placed") /\ UNCHANGED published
       \/ producer = "ready" /\ Move(o, "placed") /\ UNCHANGED published
       \/ producer = "ready" /\ Move(o, "await") /\ published' = published \cup {o}
       \/ producer = "nil" /\ at' = Lost /\ UNCHANGED published
    /\ UNCHANGED <<cartVars, items, charged, shipped, mailed, emptying, kept, producer, raced>>

\* The handler takes a success or an error from the producer, or the request
\* ends; each way the order has been placed.
AwaitAck(o) ==
    /\ at[o] = "await"
    /\ Move(o, "placed")
    /\ UNCHANGED <<cartVars, items, ledgerVars, emptying, kept, producer, raced>>

\* A panic, of money.Must or elsewhere, or a restart; the new process may reach the broker.
CheckoutCrash ==
    /\ \E o \in Orders : at[o] \in Busy
    /\ at' = Lost
    /\ producer' \in IF producer = "unset" THEN {"unset"} ELSE {"nil", "ready"}
    /\ UNCHANGED <<cartVars, items, ledgerVars, emptying, kept, raced>>

OrderStep(o) ==
    \/ GetUserCart(o) \/ Prepare(o) \/ ChargeCard(o) \/ ShipOrder(o)
    \/ EmptyUserCart(o) \/ SendOrderConfirmation(o) \/ SendToPostProcessor(o)
    \/ AwaitAck(o)

Next ==
    \/ \E a \in Adds : AddItem(a) \/ StoreItem(a)
    \/ DropCart
    \/ \E o \in Orders : OrderStep(o) \/ LateEmptyCart(o)
    \/ CheckoutCrash

Spec == Init /\ [][Next]_vars

-----------------------------------------------------------------------------
(* Properties.                                                              *)

(* Whatever fails, ends early or is interleaved: only a charged order is    *)
(* shipped, and only a shipped one is confirmed, published or answered as   *)
(* placed.                                                                  *)
PaidThenShipped ==
    /\ shipped \subseteq charged
    /\ mailed \cup published \cup {o \in Orders : at[o] = "placed"} \subseteq shipped

(* An item whose AddItem succeeded stays in the cart until the user drops   *)
(* it or an order has shipped it, as long as no AddItem overlaps another    *)
(* request of the user: an order that fails or is lost in a crash costs no  *)
(* items, and neither do orders that overlap each other.                    *)
AddedItemsAreKept ==
    ~raced => \A a \in Adds : adding[a] = "done" =>
        a \in cart \cup discarded \cup UNION {items[o] : o \in shipped}

(* What a placed order bought is no longer in the cart, so that the next    *)
(* order does not charge for it again, unless emptying the cart failed.     *)
BoughtItemsLeave ==
    ~raced => \A o \in Orders \ kept :
        at[o] \in {"confirm", "publish", "await", "placed"} => items[o] \cap cart = {}
=============================================================================
