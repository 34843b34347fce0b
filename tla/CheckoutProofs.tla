--------------------------- MODULE CheckoutProofs ---------------------------
(***************************************************************************)
(* Proofs about Checkout, for any set of requests: that only paid orders   *)
(* are shipped and only shipped ones confirmed, and that carts neither     *)
(* lose an added item nor keep a bought one.                               *)
(***************************************************************************)
EXTENDS Checkout, TLAPS

Past(o, places) == at[o] \in places

\* Where a handler is tells what has been done for its order.
Progress ==
    \A o \in Orders :
        /\ Past(o, {"ship", "empty", "confirm", "publish", "await", "placed"}) => o \in charged
        /\ Past(o, {"empty", "confirm", "publish", "await", "placed"}) => o \in shipped
        /\ Past(o, {"new", "prepare", "charge"}) => o \notin shipped
        /\ o \in shipped => o \in charged
        /\ o \in mailed \cup published \cup emptying => o \in shipped

\* A unit is nowhere before its AddItem has written it.
Unwritten ==
    \A a \in Adds : adding[a] \in {"new", "read"} =>
        /\ a \notin cart
        /\ \A b \in Adds : a \notin copy[b]
        /\ \A o \in Orders : a \notin items[o]

\* An AddItem that overlaps nothing writes what it has read; an order that
\* no AddItem overlaps has the whole cart among its items.
Alone ==
    ~raced =>
        /\ \A a \in Adds : adding[a] = "read" =>
              /\ copy[a] = cart
              /\ \A b \in Adds : adding[b] = "read" => b = a
              /\ \A o \in Orders : at[o] \notin Busy /\ o \notin emptying
        /\ \A o \in Orders : at[o] \in Busy \/ o \in emptying => cart \subseteq items[o]

Inv == TypeOK /\ Progress /\ Unwritten /\ Alone /\ AddedItemsAreKept /\ BoughtItemsLeave

\* No step leaves the types.
LEMMA TypeKept ==
    ASSUME TypeOK, Unwritten, [Next]_vars
    PROVE  TypeOK'
<1>. USE DEF cartVars, ledgerVars, Busy
<1>1. ASSUME NEW a \in Adds, AddItem(a) PROVE TypeOK'
  BY <1>1 DEF TypeOK, Unwritten, AddItem, IsNew, Adding, Ordering
<1>2. ASSUME NEW a \in Adds, StoreItem(a) PROVE TypeOK'
  BY <1>2 DEF TypeOK, StoreItem, WriteCart
<1>3. CASE DropCart
  BY <1>3 DEF TypeOK, DropCart, Adding
<1>4. ASSUME NEW o \in Orders, GetUserCart(o) PROVE TypeOK'
  BY <1>4 DEF TypeOK, GetUserCart, Move, Adding
<1>5. ASSUME NEW o \in Orders, Prepare(o) PROVE TypeOK'
  BY <1>5 DEF TypeOK, Prepare, Move
<1>6. ASSUME NEW o \in Orders, ChargeCard(o) PROVE TypeOK'
  BY <1>6 DEF TypeOK, ChargeCard, Move
<1>7. ASSUME NEW o \in Orders, ShipOrder(o) PROVE TypeOK'
  BY <1>7 DEF TypeOK, ShipOrder, Move
<1>8. ASSUME NEW o \in Orders, EmptyUserCart(o) PROVE TypeOK'
  BY <1>8 DEF TypeOK, EmptyUserCart, Move
<1>9. ASSUME NEW o \in Orders, SendOrderConfirmation(o) PROVE TypeOK'
  BY <1>9 DEF TypeOK, SendOrderConfirmation, Move
<1>10. ASSUME NEW o \in Orders, SendToPostProcessor(o) PROVE TypeOK'
  BY <1>10 DEF TypeOK, SendToPostProcessor, Move, Lost
<1>11. ASSUME NEW o \in Orders, AwaitAck(o) PROVE TypeOK'
  BY <1>11 DEF TypeOK, AwaitAck, Move
<1>12. ASSUME NEW o \in Orders, LateEmptyCart(o) PROVE TypeOK'
  BY <1>12 DEF TypeOK, LateEmptyCart
<1>13. CASE CheckoutCrash
  BY <1>13 DEF TypeOK, CheckoutCrash, Lost
<1>14. CASE UNCHANGED vars
  BY <1>14 DEF TypeOK, vars
<1>. QED
  BY <1>1, <1>2, <1>3, <1>4, <1>5, <1>6, <1>7, <1>8, <1>9, <1>10, <1>11, <1>12, <1>13, <1>14 DEF Next, OrderStep

\* No step gets ahead of what has been done for the order.
LEMMA ProgressKept ==
    ASSUME TypeOK, Progress, [Next]_vars
    PROVE  Progress'
<1>. USE DEF cartVars, ledgerVars, Busy
<1>1. ASSUME NEW a \in Adds, AddItem(a) PROVE Progress'
  BY <1>1 DEF TypeOK, Progress, Past, AddItem, IsNew, Adding, Ordering
<1>2. ASSUME NEW a \in Adds, StoreItem(a) PROVE Progress'
  BY <1>2 DEF TypeOK, Progress, Past, StoreItem, WriteCart
<1>3. CASE DropCart
  BY <1>3 DEF TypeOK, Progress, Past, DropCart, Adding
<1>4. ASSUME NEW o \in Orders, GetUserCart(o) PROVE Progress'
  BY <1>4 DEF TypeOK, Progress, Past, GetUserCart, Move, Adding
<1>5. ASSUME NEW o \in Orders, Prepare(o) PROVE Progress'
  BY <1>5 DEF TypeOK, Progress, Past, Prepare, Move
<1>6. ASSUME NEW o \in Orders, ChargeCard(o) PROVE Progress'
  BY <1>6 DEF TypeOK, Progress, Past, ChargeCard, Move
<1>7. ASSUME NEW o \in Orders, ShipOrder(o) PROVE Progress'
  BY <1>7 DEF TypeOK, Progress, Past, ShipOrder, Move
<1>8. ASSUME NEW o \in Orders, EmptyUserCart(o) PROVE Progress'
  BY <1>8 DEF TypeOK, Progress, Past, EmptyUserCart, Move
<1>9. ASSUME NEW o \in Orders, SendOrderConfirmation(o) PROVE Progress'
  BY <1>9 DEF TypeOK, Progress, Past, SendOrderConfirmation, Move
<1>10. ASSUME NEW o \in Orders, SendToPostProcessor(o) PROVE Progress'
  BY <1>10 DEF TypeOK, Progress, Past, SendToPostProcessor, Move, Lost
<1>11. ASSUME NEW o \in Orders, AwaitAck(o) PROVE Progress'
  BY <1>11 DEF TypeOK, Progress, Past, AwaitAck, Move
<1>12. ASSUME NEW o \in Orders, LateEmptyCart(o) PROVE Progress'
  BY <1>12 DEF TypeOK, Progress, Past, LateEmptyCart
<1>13. CASE CheckoutCrash
  BY <1>13 DEF TypeOK, Progress, Past, CheckoutCrash, Lost
<1>14. CASE UNCHANGED vars
  BY <1>14 DEF TypeOK, Progress, Past, vars
<1>. QED
  BY <1>1, <1>2, <1>3, <1>4, <1>5, <1>6, <1>7, <1>8, <1>9, <1>10, <1>11, <1>12, <1>13, <1>14 DEF Next, OrderStep

\* No step brings a unit into the cart before its write.
LEMMA UnwrittenKept ==
    ASSUME TypeOK, Unwritten, [Next]_vars
    PROVE  Unwritten'
<1>. USE DEF cartVars, ledgerVars, Busy
<1>1. ASSUME NEW a \in Adds, AddItem(a) PROVE Unwritten'
  BY <1>1 DEF TypeOK, Unwritten, AddItem, IsNew, Adding, Ordering
<1>2. ASSUME NEW a \in Adds, StoreItem(a) PROVE Unwritten'
  BY <1>2 DEF TypeOK, Unwritten, StoreItem, WriteCart
<1>3. CASE DropCart
  BY <1>3 DEF TypeOK, Unwritten, DropCart, Adding
<1>4. ASSUME NEW o \in Orders, GetUserCart(o) PROVE Unwritten'
  BY <1>4 DEF TypeOK, Unwritten, GetUserCart, Move, Adding
<1>5. ASSUME NEW o \in Orders, Prepare(o) PROVE Unwritten'
  BY <1>5 DEF TypeOK, Unwritten, Prepare, Move
<1>6. ASSUME NEW o \in Orders, ChargeCard(o) PROVE Unwritten'
  BY <1>6 DEF TypeOK, Unwritten, ChargeCard, Move
<1>7. ASSUME NEW o \in Orders, ShipOrder(o) PROVE Unwritten'
  BY <1>7 DEF TypeOK, Unwritten, ShipOrder, Move
<1>8. ASSUME NEW o \in Orders, EmptyUserCart(o) PROVE Unwritten'
  BY <1>8 DEF TypeOK, Unwritten, EmptyUserCart, Move
<1>9. ASSUME NEW o \in Orders, SendOrderConfirmation(o) PROVE Unwritten'
  BY <1>9 DEF TypeOK, Unwritten, SendOrderConfirmation, Move
<1>10. ASSUME NEW o \in Orders, SendToPostProcessor(o) PROVE Unwritten'
  BY <1>10 DEF TypeOK, Unwritten, SendToPostProcessor, Move, Lost
<1>11. ASSUME NEW o \in Orders, AwaitAck(o) PROVE Unwritten'
  BY <1>11 DEF TypeOK, Unwritten, AwaitAck, Move
<1>12. ASSUME NEW o \in Orders, LateEmptyCart(o) PROVE Unwritten'
  BY <1>12 DEF TypeOK, Unwritten, LateEmptyCart
<1>13. CASE CheckoutCrash
  BY <1>13 DEF TypeOK, Unwritten, CheckoutCrash, Lost
<1>14. CASE UNCHANGED vars
  BY <1>14 DEF TypeOK, Unwritten, vars
<1>. QED
  BY <1>1, <1>2, <1>3, <1>4, <1>5, <1>6, <1>7, <1>8, <1>9, <1>10, <1>11, <1>12, <1>13, <1>14 DEF Next, OrderStep

\* A request that overlaps no other finds the cart as it left it.
LEMMA AloneKept ==
    ASSUME TypeOK, Alone, [Next]_vars
    PROVE  Alone'
<1>. USE DEF cartVars, ledgerVars, Busy
<1>1. ASSUME NEW a \in Adds, AddItem(a) PROVE Alone'
  <2>. SUFFICES ASSUME ~raced' PROVE Alone'
    BY DEF Alone
  <2>1. ~raced /\ ~Adding /\ ~Ordering
    BY <1>1 DEF AddItem
  <2>2. /\ \A b \in Adds : adding[b] # "read"
        /\ \A o \in Orders : at[o] \notin Busy /\ o \notin emptying
    BY <2>1 DEF Adding, Ordering
  <2>3. UNCHANGED <<cart, at, items, emptying>>
    BY <1>1 DEF AddItem
  <2>4. \A b \in Adds : adding'[b] = "read" => b = a /\ copy'[b] = cart
    BY <1>1, <2>2 DEF AddItem, TypeOK
  <2>. HIDE DEF Busy
  <2>. QED
    BY <2>2, <2>3, <2>4 DEF Alone
<1>2. ASSUME NEW a \in Adds, StoreItem(a) PROVE Alone'
  BY <1>2 DEF TypeOK, Alone, StoreItem, WriteCart
<1>3. CASE DropCart
  BY <1>3 DEF TypeOK, Alone, DropCart, Adding
<1>4. ASSUME NEW o \in Orders, GetUserCart(o) PROVE Alone'
  <2>. SUFFICES ASSUME ~raced' PROVE Alone'
    BY DEF Alone
  <2>1. ~raced /\ \A a \in Adds : adding[a] # "read"
    BY <1>4 DEF GetUserCart, Adding
  <2>2. \A p \in Orders \ {o} : at'[p] = at[p] /\ items'[p] = items[p]
    BY <1>4 DEF TypeOK, GetUserCart, Move
  <2>3. at'[o] \in Busy => items'[o] = cart
    BY <1>4 DEF TypeOK, GetUserCart, Move
  <2>4. at[o] = "new" /\ (items'[o] = cart \/ items'[o] = items[o])
    BY <1>4 DEF TypeOK, GetUserCart
  <2>5. UNCHANGED <<cart, adding, copy, emptying>>
    BY <1>4 DEF GetUserCart
  <2>. HIDE DEF Busy
  <2>. QED
    BY <2>1, <2>2, <2>3, <2>4, <2>5 DEF Alone
<1>5. ASSUME NEW o \in Orders, Prepare(o) PROVE Alone'
  BY <1>5 DEF TypeOK, Alone, Prepare, Move
<1>6. ASSUME NEW o \in Orders, ChargeCard(o) PROVE Alone'
  BY <1>6 DEF TypeOK, Alone, ChargeCard, Move
<1>7. ASSUME NEW o \in Orders, ShipOrder(o) PROVE Alone'
  BY <1>7 DEF TypeOK, Alone, ShipOrder, Move
<1>8. ASSUME NEW o \in Orders, EmptyUserCart(o) PROVE Alone'
  BY <1>8 DEF TypeOK, Alone, EmptyUserCart, Move
<1>9. ASSUME NEW o \in Orders, SendOrderConfirmation(o) PROVE Alone'
  BY <1>9 DEF TypeOK, Alone, SendOrderConfirmation, Move
<1>10. ASSUME NEW o \in Orders, SendToPostProcessor(o) PROVE Alone'
  BY <1>10 DEF TypeOK, Alone, SendToPostProcessor, Move, Lost
<1>11. ASSUME NEW o \in Orders, AwaitAck(o) PROVE Alone'
  BY <1>11 DEF TypeOK, Alone, AwaitAck, Move
<1>12. ASSUME NEW o \in Orders, LateEmptyCart(o) PROVE Alone'
  BY <1>12 DEF TypeOK, Alone, LateEmptyCart
<1>13. CASE CheckoutCrash
  BY <1>13 DEF TypeOK, Alone, CheckoutCrash, Lost
<1>14. CASE UNCHANGED vars
  BY <1>14 DEF TypeOK, Alone, vars
<1>. QED
  BY <1>1, <1>2, <1>3, <1>4, <1>5, <1>6, <1>7, <1>8, <1>9, <1>10, <1>11, <1>12, <1>13, <1>14 DEF Next, OrderStep

\* No step loses an added item.
LEMMA AddedKept ==
    ASSUME Inv, [Next]_vars
    PROVE  AddedItemsAreKept'
<1>. USE DEF cartVars, ledgerVars, Busy
<1>1. ASSUME NEW a \in Adds, AddItem(a) PROVE AddedItemsAreKept'
  BY <1>1 DEF Inv, TypeOK, AddedItemsAreKept, AddItem, IsNew, Adding, Ordering
<1>2. ASSUME NEW a \in Adds, StoreItem(a) PROVE AddedItemsAreKept'
  <2>. SUFFICES ASSUME ~raced', NEW b \in Adds, adding'[b] = "done"
                PROVE  b \in cart' \cup discarded' \cup UNION {items'[o] : o \in shipped'}
    BY DEF AddedItemsAreKept
  <2>1. ~raced /\ UNCHANGED <<discarded, items, shipped>>
    BY <1>2 DEF StoreItem
  <2>2. copy[a] = cart
    BY <1>2, <2>1 DEF Inv, Alone, StoreItem
  <2>3. cart \subseteq cart'
    BY <1>2, <2>2 DEF StoreItem, WriteCart
  <2>4. CASE b = a
    BY <1>2, <2>4 DEF StoreItem, WriteCart, Inv, TypeOK
  <2>5. CASE b # a
    <3>1. adding[b] = "done"
      BY <1>2, <2>5 DEF StoreItem, Inv, TypeOK
    <3>. QED
      BY <2>1, <2>3, <3>1 DEF Inv, AddedItemsAreKept
  <2>. QED
    BY <2>4, <2>5
<1>3. CASE DropCart
  BY <1>3 DEF Inv, TypeOK, AddedItemsAreKept, DropCart, Adding
<1>4. ASSUME NEW o \in Orders, GetUserCart(o) PROVE AddedItemsAreKept'
  BY <1>4 DEF Inv, TypeOK, AddedItemsAreKept, Progress, Past, GetUserCart, Move, Adding
<1>5. ASSUME NEW o \in Orders, Prepare(o) PROVE AddedItemsAreKept'
  BY <1>5 DEF Inv, TypeOK, AddedItemsAreKept, Prepare, Move
<1>6. ASSUME NEW o \in Orders, ChargeCard(o) PROVE AddedItemsAreKept'
  BY <1>6 DEF Inv, TypeOK, AddedItemsAreKept, ChargeCard, Move
<1>7. ASSUME NEW o \in Orders, ShipOrder(o) PROVE AddedItemsAreKept'
  BY <1>7 DEF Inv, TypeOK, AddedItemsAreKept, ShipOrder, Move
<1>8. ASSUME NEW o \in Orders, EmptyUserCart(o) PROVE AddedItemsAreKept'
  BY <1>8 DEF Inv, TypeOK, AddedItemsAreKept, Progress, Past, Alone, EmptyUserCart, Move
<1>9. ASSUME NEW o \in Orders, SendOrderConfirmation(o) PROVE AddedItemsAreKept'
  BY <1>9 DEF Inv, TypeOK, AddedItemsAreKept, SendOrderConfirmation, Move
<1>10. ASSUME NEW o \in Orders, SendToPostProcessor(o) PROVE AddedItemsAreKept'
  BY <1>10 DEF Inv, TypeOK, AddedItemsAreKept, SendToPostProcessor, Move, Lost
<1>11. ASSUME NEW o \in Orders, AwaitAck(o) PROVE AddedItemsAreKept'
  BY <1>11 DEF Inv, TypeOK, AddedItemsAreKept, AwaitAck, Move
<1>12. ASSUME NEW o \in Orders, LateEmptyCart(o) PROVE AddedItemsAreKept'
  BY <1>12 DEF Inv, TypeOK, AddedItemsAreKept, Progress, Past, Alone, LateEmptyCart
<1>13. CASE CheckoutCrash
  BY <1>13 DEF Inv, TypeOK, AddedItemsAreKept, CheckoutCrash, Lost
<1>14. CASE UNCHANGED vars
  BY <1>14 DEF Inv, TypeOK, AddedItemsAreKept, vars
<1>. QED
  BY <1>1, <1>2, <1>3, <1>4, <1>5, <1>6, <1>7, <1>8, <1>9, <1>10, <1>11, <1>12, <1>13, <1>14 DEF Next, OrderStep

\* No step puts a bought item back, or goes on from a full cart.
LEMMA BoughtLeft ==
    ASSUME Inv, [Next]_vars
    PROVE  BoughtItemsLeave'
<1>. USE DEF cartVars, ledgerVars, Busy
<1>1. ASSUME NEW a \in Adds, AddItem(a) PROVE BoughtItemsLeave'
  BY <1>1 DEF Inv, TypeOK, BoughtItemsLeave, AddItem, IsNew, Adding, Ordering
<1>2. ASSUME NEW a \in Adds, StoreItem(a) PROVE BoughtItemsLeave'
  BY <1>2 DEF Inv, TypeOK, BoughtItemsLeave, Unwritten, Alone, StoreItem, WriteCart
<1>3. CASE DropCart
  BY <1>3 DEF Inv, TypeOK, BoughtItemsLeave, DropCart, Adding
<1>4. ASSUME NEW o \in Orders, GetUserCart(o) PROVE BoughtItemsLeave'
  BY <1>4 DEF Inv, TypeOK, BoughtItemsLeave, GetUserCart, Move, Adding
<1>5. ASSUME NEW o \in Orders, Prepare(o) PROVE BoughtItemsLeave'
  BY <1>5 DEF Inv, TypeOK, BoughtItemsLeave, Prepare, Move
<1>6. ASSUME NEW o \in Orders, ChargeCard(o) PROVE BoughtItemsLeave'
  BY <1>6 DEF Inv, TypeOK, BoughtItemsLeave, ChargeCard, Move
<1>7. ASSUME NEW o \in Orders, ShipOrder(o) PROVE BoughtItemsLeave'
  BY <1>7 DEF Inv, TypeOK, BoughtItemsLeave, ShipOrder, Move
<1>8. ASSUME NEW o \in Orders, EmptyUserCart(o) PROVE BoughtItemsLeave'
  BY <1>8 DEF Inv, TypeOK, BoughtItemsLeave, EmptyUserCart, Move
<1>9. ASSUME NEW o \in Orders, SendOrderConfirmation(o) PROVE BoughtItemsLeave'
  BY <1>9 DEF Inv, TypeOK, BoughtItemsLeave, SendOrderConfirmation, Move
<1>10. ASSUME NEW o \in Orders, SendToPostProcessor(o) PROVE BoughtItemsLeave'
  BY <1>10 DEF Inv, TypeOK, BoughtItemsLeave, SendToPostProcessor, Move, Lost
<1>11. ASSUME NEW o \in Orders, AwaitAck(o) PROVE BoughtItemsLeave'
  BY <1>11 DEF Inv, TypeOK, BoughtItemsLeave, AwaitAck, Move
<1>12. ASSUME NEW o \in Orders, LateEmptyCart(o) PROVE BoughtItemsLeave'
  BY <1>12 DEF Inv, TypeOK, BoughtItemsLeave, LateEmptyCart
<1>13. CASE CheckoutCrash
  BY <1>13 DEF Inv, TypeOK, BoughtItemsLeave, CheckoutCrash, Lost
<1>14. CASE UNCHANGED vars
  BY <1>14 DEF Inv, TypeOK, BoughtItemsLeave, vars
<1>. QED
  BY <1>1, <1>2, <1>3, <1>4, <1>5, <1>6, <1>7, <1>8, <1>9, <1>10, <1>11, <1>12, <1>13, <1>14 DEF Next, OrderStep

(* The invariant holds throughout every execution.                          *)
LEMMA Invariance == Spec => []Inv
<1>1. Init => Inv
  BY DEF Init, Inv, TypeOK, Progress, Past, Unwritten, Alone, AddedItemsAreKept, BoughtItemsLeave, Busy
<1>2. Inv /\ [Next]_vars => Inv'
  BY TypeKept, ProgressKept, UnwrittenKept, AloneKept, AddedKept, BoughtLeft DEF Inv
<1>. QED
  BY <1>1, <1>2, PTL DEF Spec

(* The type invariant of carts and orders: whatever the requests and their  *)
(* failures, and no unit is read from the cart before it is added.          *)
THEOREM TypeCorrect == Spec => []TypeOK
BY Invariance, PTL DEF Inv

(* PlaceOrder ships only what is paid, and confirms, publishes and answers  *)
(* only what is shipped, whichever calls fail and however orders overlap.   *)
THEOREM OnlyPaidIsShipped == Spec => []PaidThenShipped
<1>1. Inv => PaidThenShipped
  BY DEF Inv, Progress, Past, PaidThenShipped, TypeOK
<1>. QED
  BY <1>1, Invariance, PTL

(* The cart store and PlaceOrder together lose no added item, failed and    *)
(* lost orders included, while no AddItem overlaps another request.         *)
THEOREM NoItemIsLost == Spec => []AddedItemsAreKept
BY Invariance, PTL DEF Inv

(* After an order the cart holds nothing of what it bought, unless the call *)
(* to EmptyCart failed or an AddItem overlapped another request.            *)
THEOREM NothingBoughtStays == Spec => []BoughtItemsLeave
BY Invariance, PTL DEF Inv
=============================================================================
