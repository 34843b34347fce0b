------------------------ MODULE OrderPipelineProofs ------------------------
(***************************************************************************)
(* Proofs about OrderPipeline, for any finite set of orders, any overload  *)
(* and any size of the channels: the checkout service is still the one of  *)
(* Checkout, so that what is proved there holds here; waiting handlers     *)
(* have their results; and the accounting tables hold each published order *)
(* once.                                                                   *)
(***************************************************************************)
EXTENDS OrderPipeline, CheckoutProofs, FiniteSetTheorems

\* Only an order that was put on the producer has messages, and only one
\* whose handler is done with has copies; no copy is there twice.
Places ==
  /\ \A o \in Orders :
       /\ o \in published => at[o] \in {"await", "placed", "lost"}
       /\ at[o] = "await" => o \in published
  /\ \A m \in inflight \cup posting \cup unread \cup uncommitted : m[1] \in published
  /\ reading # NoMessage => reading[1] \in published
  /\ \A m \in inflight : m = Own(m[1]) \/ at[m[1]] = "placed"
  /\ \A m \in posting : m # Own(m[1]) /\ at[m[1]] = "placed" /\ m \notin inflight

Balance == IsFiniteSet(inflight) /\ (errors > 0 => failed) /\ ResultsBalance

Recorded == \A o \in Orders : records[o] <= 1 /\ (records[o] = 1 => o \in published)

PipelineInv == PipelineTypeOK /\ Places /\ Balance /\ Recorded /\ PublishedIsRecorded

\* A message is an order and a number.
LEMMA MessageShape ==
    /\ \A m \in Messages : m[1] \in Orders /\ m # NoMessage
    /\ \A o \in Orders : /\ Own(o) \in Messages /\ Own(o)[1] = o
                         /\ Copies(o) \subseteq Messages
                         /\ \A m \in Copies(o) : m[1] = o /\ m # Own(o)
<1>1. Overload \in Nat /\ NoMessage \notin Messages
  BY PipelineAssumption
<1>. QED
  BY <1>1 DEF Messages, Own, Copies

\* Each step is one of Checkout's, or none.
LEMMA Simulates ==
    ASSUME [PipelineNext]_pipelineVars
    PROVE  [Next]_vars
<1>1. CASE OrderingStep
  BY <1>1 DEF OrderingStep, Next, OrderStep
<1>2. ASSUME NEW o \in Orders, PostingStep(o) PROVE Next
  BY <1>2 DEF PostingStep, PutMessage, PutNothing, TakeSuccess, TakeError, GiveUp, Next, OrderStep
<1>3. ASSUME NEW m \in Messages, MessageStep(m) PROVE UNCHANGED vars
  BY <1>3 DEF MessageStep, PutCopy, Send, SendFails, Consume
<1>4. CASE TakeForCopy \/ LogError \/ Save \/ Commit \/ AccountingCrash
  BY <1>4 DEF TakeForCopy, LogError, Save, Commit, AccountingCrash
<1>5. CASE CheckoutEnds
  BY <1>5 DEF CheckoutEnds, Next, OrderStep
<1>6. CASE UNCHANGED pipelineVars
  BY <1>6 DEF pipelineVars
<1>. QED
  BY <1>1, <1>2, <1>3, <1>4, <1>5, <1>6 DEF PipelineNext

\* Until it publishes, an order has nothing to do with the producer.
LEMMA OrderingMoves ==
    ASSUME TypeOK, OrderingStep
    PROVE  /\ UNCHANGED <<published, producerVars, accountingVars, lossy>>
           /\ \A o \in Orders :
                /\ at[o] \in {"await", "placed", "lost"} => at'[o] = at[o]
                /\ at'[o] \in {"await", "placed", "lost"} => at'[o] = at[o]
<1>. USE DEF TypeOK, cartVars, ledgerVars
<1>1. UNCHANGED <<producerVars, accountingVars, lossy>>
  BY DEF OrderingStep
<1>2. ASSUME NEW a \in Adds, AddItem(a) \/ StoreItem(a) PROVE UNCHANGED <<at, published>>
  BY <1>2 DEF AddItem, StoreItem
<1>3. CASE DropCart
  BY <1>1, <1>3 DEF DropCart
<1>4. ASSUME NEW o \in Orders, LateEmptyCart(o) PROVE UNCHANGED <<at, published>>
  BY <1>4 DEF LateEmptyCart
<1>5. ASSUME NEW o \in Orders,
             \/ GetUserCart(o) \/ Prepare(o) \/ ChargeCard(o) \/ ShipOrder(o)
             \/ EmptyUserCart(o) \/ SendOrderConfirmation(o)
      PROVE  /\ published' = published
             /\ at[o] \notin {"await", "placed", "lost"}
             /\ \E place \in Busy \cup {"failed"} : place # "await" /\ Move(o, place)
  BY <1>5 DEF GetUserCart, Prepare, ChargeCard, ShipOrder, EmptyUserCart,
              SendOrderConfirmation, Move, Busy
<1>6. ASSUME NEW o \in Orders,
             \/ GetUserCart(o) \/ Prepare(o) \/ ChargeCard(o) \/ ShipOrder(o)
             \/ EmptyUserCart(o) \/ SendOrderConfirmation(o)
      PROVE  /\ published' = published
             /\ \A p \in Orders :
                  /\ at[p] \in {"await", "placed", "lost"} => at'[p] = at[p]
                  /\ at'[p] \in {"await", "placed", "lost"} => at'[p] = at[p]
  BY <1>5, <1>6 DEF Move, Busy
<1>. QED
  BY <1>1, <1>2, <1>3, <1>4, <1>6 DEF OrderingStep

\* A handler that waited is done.
Done(o) ==
  /\ at[o] = "await" /\ at' = [at EXCEPT ![o] = "placed"]
  /\ posting' \in {posting, posting \cup Copies(o)}
  /\ UNCHANGED <<published, shipped, inflight, failed, taking, accountingVars, lossy>>

LEMMA HandlersFinish ==
    ASSUME NEW o \in Orders, TakeSuccess(o) \/ TakeError(o) \/ GiveUp(o)
    PROVE  Done(o)
BY DEF TakeSuccess, TakeError, GiveUp, AwaitAck, StartCopies, Move, Done, ledgerVars

\* When the process ends, no handler waits any more.
LEMMA ProcessEnds ==
    ASSUME TypeOK, CheckoutEnds
    PROVE  /\ published' = published
           /\ \A o \in Orders :
                /\ at[o] \in {"placed", "lost"} => at'[o] = at[o]
                /\ at[o] = "await" => at'[o] = "lost"
                /\ at'[o] # "await"
           /\ inflight' = {} /\ posting' = {}
           /\ successes' = 0 /\ errors' = 0 /\ taking' = 0 /\ gaveUp' = 0
           /\ failed' = FALSE
           /\ lossy' = (lossy \/ inflight # {})
           /\ UNCHANGED accountingVars
<1>1. at' = Lost /\ published' = published
  <2>1. CASE CheckoutCrash
    BY <2>1 DEF CheckoutCrash, ledgerVars
  <2>2. ASSUME NEW o \in Orders, SendToPostProcessor(o), at'[o] = "lost"
        PROVE  at' = Lost /\ published' = published
    BY <2>2 DEF TypeOK, SendToPostProcessor, Move
  <2>. QED
    BY <2>1, <2>2 DEF CheckoutEnds
<1>. QED
  BY <1>1 DEF CheckoutEnds, Lost, Busy, TypeOK

\* Messages stay where they belong.
LEMMA PlacesKept ==
    ASSUME TypeOK, PipelineTypeOK, Places, [PipelineNext]_pipelineVars
    PROVE  Places'
<1>. USE DEF producerVars, accountingVars
<1>0. /\ inflight \subseteq Messages /\ posting \subseteq Messages
      /\ unread \subseteq Messages /\ uncommitted \subseteq Messages
      /\ reading \in Messages \cup {NoMessage}
  BY DEF PipelineTypeOK
<1>1. CASE OrderingStep
  BY <1>0, <1>1, OrderingMoves, MessageShape DEF Places
<1>2. ASSUME NEW o \in Orders, PutMessage(o) PROVE Places'
  <2>1. /\ at[o] = "publish" /\ at' = [at EXCEPT ![o] = "await"]
        /\ published' = published \cup {o}
    BY <1>2 DEF PutMessage, SendToPostProcessor, Move, Lost, TypeOK
  <2>2. /\ inflight' = inflight \cup {Own(o)}
        /\ UNCHANGED <<posting, unread, uncommitted, reading>>
    BY <1>2 DEF PutMessage
  <2>3. o \notin published
    BY <2>1 DEF Places
  <2>4. \A p \in Orders : p # o => at'[p] = at[p]
    BY <2>1 DEF TypeOK
  <2>5. at'[o] = "await"
    BY <2>1 DEF TypeOK
  <2>. QED
    BY <1>0, <2>1, <2>2, <2>3, <2>4, <2>5, MessageShape DEF Places
<1>3. ASSUME NEW o \in Orders, PutNothing(o) PROVE Places'
  <2>1. /\ at[o] = "publish" /\ at' = [at EXCEPT ![o] = "placed"]
        /\ published' = published
        /\ UNCHANGED <<inflight, posting, unread, uncommitted, reading>>
    BY <1>3 DEF PutNothing, SendToPostProcessor, Move, Lost, TypeOK
  <2>. QED
    BY <1>0, <2>1, MessageShape DEF Places, TypeOK
<1>4. ASSUME NEW o \in Orders, TakeSuccess(o) \/ TakeError(o) \/ GiveUp(o) PROVE Places'
  <2>1. Done(o)
    BY <1>4, HandlersFinish
  <2>2. \A m \in Copies(o) : m[1] = o /\ m # Own(o) /\ m \notin inflight
    BY <1>0, <2>1, MessageShape DEF Places, Done
  <2>3. \A p \in Orders : at'[p] = IF p = o THEN "placed" ELSE at[p]
    BY <2>1 DEF Done, TypeOK
  <2>4. UNCHANGED <<published, inflight, unread, uncommitted, reading>>
        /\ posting' \subseteq posting \cup Copies(o)
        /\ at[o] = "await"
    BY <2>1 DEF Done
  <2>. QED
    BY <1>0, <2>2, <2>3, <2>4, MessageShape DEF Places
<1>5. ASSUME NEW m \in Messages, MessageStep(m) PROVE Places'
  <2>. USE DEF Places, vars, ledgerVars
  <2>1. CASE PutCopy(m)
    BY <2>1 DEF PutCopy
  <2>2. CASE Send(m)
    BY <2>2 DEF Send
  <2>3. CASE SendFails(m)
    BY <2>3 DEF SendFails
  <2>4. CASE Consume(m)
    BY <2>4 DEF Consume
  <2>. QED
    BY <1>5, <2>1, <2>2, <2>3, <2>4 DEF MessageStep
<1>6. CASE TakeForCopy \/ LogError
  BY <1>6 DEF TakeForCopy, LogError, Places, vars, ledgerVars
<1>7. CASE CheckoutEnds
  BY <1>0, <1>7, ProcessEnds, MessageShape DEF Places
<1>8. CASE Save \/ Commit \/ AccountingCrash
  BY <1>8 DEF Save, Commit, AccountingCrash, Places, vars, ledgerVars
<1>9. CASE UNCHANGED pipelineVars
  BY <1>9 DEF pipelineVars, Places, vars, ledgerVars
<1>. QED
  BY <1>1, <1>2, <1>3, <1>4, <1>5, <1>6, <1>7, <1>8, <1>9 DEF PipelineNext, PostingStep

\* What a channel has taken in and given out.
LEMMA CardinalityMoves ==
    ASSUME NEW S, IsFiniteSet(S), NEW x
    PROVE  /\ IsFiniteSet(S \cup {x}) /\ IsFiniteSet(S \ {x})
           /\ Cardinality(S) \in Nat
           /\ x \notin S => Cardinality(S \cup {x}) = Cardinality(S) + 1
           /\ x \in S => Cardinality(S \ {x}) = Cardinality(S) - 1
BY FS_AddElement, FS_RemoveElement, FS_CardinalityType

LEMMA AwaitingFinite == IsFiniteSet(Awaiting)
<1>1. Awaiting \in SUBSET Orders
  BY DEF Awaiting
<1>. QED
  BY <1>1, PipelineAssumption, FS_Subset

\* A message is put at most once, and only if there is room.
LEMMA Put ==
    ASSUME PipelineTypeOK, Balance, Room, NEW m \in Messages, m \notin inflight,
           inflight' = inflight \cup {m}
    PROVE  /\ inflight' \subseteq Messages /\ IsFiniteSet(inflight')
           /\ Cardinality(inflight') = Cardinality(inflight) + 1
           /\ Cardinality(inflight) \in Nat /\ Cardinality(inflight') <= ChannelSize
<1>1. Cardinality(inflight) < ChannelSize /\ ChannelSize \in Nat
  BY PipelineAssumption DEF Room
<1>. QED
  BY <1>1, CardinalityMoves DEF PipelineTypeOK, Balance

LEMMA Taken ==
    ASSUME PipelineTypeOK, Balance, NEW m \in inflight, inflight' = inflight \ {m}
    PROVE  /\ inflight' \subseteq Messages /\ IsFiniteSet(inflight')
           /\ Cardinality(inflight') = Cardinality(inflight) - 1
           /\ Cardinality(inflight) \in Nat /\ Cardinality(inflight') <= ChannelSize
<1>1. Cardinality(inflight) <= ChannelSize /\ ChannelSize \in Nat
  BY PipelineAssumption DEF PipelineTypeOK
<1>2. IsFiniteSet(inflight) /\ m \in inflight /\ inflight' \subseteq Messages
  BY DEF PipelineTypeOK, Balance
<1>3. /\ IsFiniteSet(inflight') /\ Cardinality(inflight) \in Nat
      /\ Cardinality(inflight') = Cardinality(inflight) - 1
  BY <1>2, CardinalityMoves
<1>. QED
  BY <1>1, <1>2, <1>3

\* The pipeline keeps its types.
LEMMA PipelineTypeKept ==
    ASSUME TypeOK, PipelineTypeOK, Places, Balance, [PipelineNext]_pipelineVars
    PROVE  PipelineTypeOK'
<1>. USE PipelineAssumption DEF producerVars, accountingVars
<1>1. CASE OrderingStep
  BY <1>1, OrderingMoves DEF PipelineTypeOK
<1>2. ASSUME NEW o \in Orders, PutMessage(o) PROVE PipelineTypeOK'
  <2>1. Own(o) \notin inflight
    <3>1. at[o] = "publish"
      BY <1>2 DEF PutMessage, SendToPostProcessor
    <3>. QED
      BY <3>1, MessageShape DEF Places
  <2>2. inflight' \subseteq Messages /\ Cardinality(inflight') <= ChannelSize
    BY <1>2, <2>1, Put, MessageShape DEF PutMessage
  <2>. QED
    BY <1>2, <2>2 DEF PutMessage, PipelineTypeOK
<1>3. ASSUME NEW o \in Orders, PutNothing(o) PROVE PipelineTypeOK'
  BY <1>3 DEF PutNothing, PipelineTypeOK
<1>4. ASSUME NEW o \in Orders, TakeSuccess(o) \/ TakeError(o) \/ GiveUp(o)
      PROVE PipelineTypeOK'
  <2>1. posting' \subseteq Messages
        /\ UNCHANGED <<inflight, failed, taking, accountingVars, lossy>>
    BY <1>4, HandlersFinish, MessageShape DEF Done, PipelineTypeOK
  <2>2. successes' \in 0..ChannelSize /\ errors' \in 0..ChannelSize /\ gaveUp' \in Nat
    BY <1>4 DEF TakeSuccess, TakeError, GiveUp, PipelineTypeOK
  <2>. QED
    BY <2>1, <2>2 DEF PipelineTypeOK
<1>5. ASSUME NEW m \in Messages, PutCopy(m) PROVE PipelineTypeOK'
  <2>1. m \notin inflight
    BY <1>5 DEF PutCopy, Places
  <2>2. inflight' \subseteq Messages /\ Cardinality(inflight') <= ChannelSize
    BY <1>5, <2>1, Put DEF PutCopy
  <2>3. posting' \subseteq Messages /\ taking' \in Nat
    BY <1>5 DEF PutCopy, PipelineTypeOK
  <2>. QED
    BY <1>5, <2>2, <2>3 DEF PutCopy, PipelineTypeOK
<1>6. ASSUME NEW m \in Messages, Send(m) \/ SendFails(m) PROVE PipelineTypeOK'
  <2>1. inflight' \subseteq Messages /\ Cardinality(inflight') <= ChannelSize
    BY <1>6, Taken DEF Send, SendFails
  <2>2. CASE Send(m)
    <3>1. successes' \in 0..ChannelSize
      BY <2>2 DEF Send, PipelineTypeOK
    <3>2. unread' \subseteq Messages
      BY <2>2 DEF Send, PipelineTypeOK
    <3>3. lossy' \in BOOLEAN
      BY <2>2 DEF Send, PipelineTypeOK
    <3>4. UNCHANGED <<errors, posting, taking, gaveUp, failed, uncommitted, reading, records>>
      BY <2>2 DEF Send
    <3>. QED
      BY <2>1, <3>1, <3>2, <3>3, <3>4 DEF PipelineTypeOK
  <2>3. CASE SendFails(m)
    BY <2>1, <2>3 DEF SendFails, PipelineTypeOK
  <2>. QED
    BY <1>6, <2>2, <2>3
<1>7. ASSUME NEW m \in Messages, Consume(m) PROVE PipelineTypeOK'
  BY <1>7 DEF Consume, PipelineTypeOK
<1>8. CASE TakeForCopy \/ LogError
  BY <1>8 DEF TakeForCopy, LogError, PipelineTypeOK
<1>9. CASE CheckoutEnds
  <2>1. Cardinality({}) = 0
    BY FS_EmptySet
  <2>2. lossy' \in BOOLEAN
    BY <1>9, ProcessEnds DEF PipelineTypeOK
  <2>. QED
    BY <1>9, <2>1, <2>2, ProcessEnds DEF PipelineTypeOK
<1>10. CASE Save
  <2>1. reading # NoMessage => reading[1] \in Orders
    BY MessageShape DEF PipelineTypeOK
  <2>2. records' \in [Orders -> Nat]
    BY <1>10, <2>1 DEF Save, AddRecord, PipelineTypeOK
  <2>3. lossy' \in BOOLEAN
    BY <1>10 DEF Save, PipelineTypeOK
  <2>. QED
    BY <1>10, <2>2, <2>3 DEF Save, PipelineTypeOK
<1>11. CASE Commit
  BY <1>11 DEF Commit, PipelineTypeOK
<1>12. CASE AccountingCrash
  <2>1. lossy' \in BOOLEAN
    BY <1>12 DEF AccountingCrash, PipelineTypeOK
  <2>. QED
    BY <1>12, <2>1 DEF AccountingCrash, PipelineTypeOK
<1>13. CASE UNCHANGED pipelineVars
  BY <1>13 DEF pipelineVars, PipelineTypeOK
<1>. QED
  BY <1>1, <1>2, <1>3, <1>4, <1>5, <1>6, <1>7, <1>8, <1>9, <1>10, <1>11, <1>12, <1>13
  DEF PipelineNext, PostingStep, MessageStep

\* Every result that is taken, or left, was waited for.
LEMMA BalanceKept ==
    ASSUME TypeOK, PipelineTypeOK, Places, Balance, [PipelineNext]_pipelineVars
    PROVE  Balance'
<1>. USE PipelineAssumption DEF producerVars, accountingVars
<1>0. /\ successes \in Nat /\ errors \in Nat /\ taking \in Nat /\ gaveUp \in Nat
      /\ Cardinality(inflight) \in Nat /\ Cardinality(Awaiting) \in Nat
  BY AwaitingFinite, FS_CardinalityType DEF PipelineTypeOK, Balance
<1>1. CASE OrderingStep
  <2>1. Awaiting' = Awaiting /\ UNCHANGED producerVars
    BY <1>1, OrderingMoves DEF Awaiting
  <2>. QED
    BY <2>1 DEF Balance, ResultsBalance
<1>2. ASSUME NEW o \in Orders, PutMessage(o) PROVE Balance'
  <2>1. at[o] = "publish" /\ at' = [at EXCEPT ![o] = "await"]
    BY <1>2 DEF PutMessage, SendToPostProcessor, Move, Lost, TypeOK
  <2>2. Own(o) \notin inflight
    BY <2>1, MessageShape DEF Places
  <2>3. /\ IsFiniteSet(inflight')
        /\ Cardinality(inflight') = Cardinality(inflight) + 1
    BY <1>2, <2>2, Put, MessageShape DEF PutMessage
  <2>4. Awaiting' = Awaiting \cup {o} /\ o \notin Awaiting
    BY <2>1 DEF Awaiting, TypeOK
  <2>5. Cardinality(Awaiting') = Cardinality(Awaiting) + 1
    BY <2>4, AwaitingFinite, CardinalityMoves
  <2>6. UNCHANGED <<successes, errors, taking, gaveUp, failed>>
    BY <1>2 DEF PutMessage
  <2>. QED
    BY <1>0, <2>3, <2>5, <2>6 DEF Balance, ResultsBalance
<1>3. ASSUME NEW o \in Orders, PutNothing(o) PROVE Balance'
  <2>1. at[o] = "publish" /\ at' = [at EXCEPT ![o] = "placed"]
    BY <1>3 DEF PutNothing, SendToPostProcessor, Move, Lost, TypeOK
  <2>2. Awaiting' = Awaiting
    BY <2>1 DEF Awaiting, TypeOK
  <2>. QED
    BY <1>3, <2>2 DEF PutNothing, Balance, ResultsBalance
<1>4. ASSUME NEW o \in Orders, TakeSuccess(o) \/ TakeError(o) \/ GiveUp(o) PROVE Balance'
  <2>1. Done(o)
    BY <1>4, HandlersFinish
  <2>2. Awaiting' = Awaiting \ {o} /\ o \in Awaiting
    BY <2>1 DEF Done, Awaiting, TypeOK
  <2>3. Cardinality(Awaiting') = Cardinality(Awaiting) - 1
    BY <2>2, AwaitingFinite, CardinalityMoves
  <2>4. UNCHANGED <<inflight, taking, failed>>
    BY <2>1 DEF Done
  <2>5. \/ successes' = successes - 1 /\ UNCHANGED <<errors, gaveUp>>
        \/ gaveUp' = gaveUp + 1 /\ UNCHANGED <<errors, successes>>
        \/ failed /\ errors' = errors - 1
    BY <1>0, <1>4 DEF TakeSuccess, TakeError, GiveUp, Balance
  <2>. QED
    BY <1>0, <2>3, <2>4, <2>5 DEF Balance, ResultsBalance
<1>5. ASSUME NEW m \in Messages, PutCopy(m) PROVE Balance'
  <2>1. /\ IsFiniteSet(inflight')
        /\ Cardinality(inflight') = Cardinality(inflight) + 1
    BY <1>5, Put DEF PutCopy, Places
  <2>2. taking' = taking + 1 /\ Awaiting' = Awaiting
        /\ UNCHANGED <<successes, errors, gaveUp, failed>>
    BY <1>5 DEF PutCopy, vars, Awaiting
  <2>. QED
    BY <1>0, <2>1, <2>2 DEF Balance, ResultsBalance
<1>6. ASSUME NEW m \in Messages, Send(m) \/ SendFails(m) PROVE Balance'
  <2>1. /\ IsFiniteSet(inflight')
        /\ Cardinality(inflight') = Cardinality(inflight) - 1
    BY <1>6, Taken DEF Send, SendFails
  <2>2. Awaiting' = Awaiting /\ UNCHANGED <<taking, gaveUp>>
    BY <1>6 DEF Send, SendFails, vars, Awaiting
  <2>3. \/ successes' = successes + 1 /\ UNCHANGED <<errors, failed>>
        \/ failed'
    BY <1>6 DEF Send, SendFails
  <2>. QED
    BY <1>0, <2>1, <2>2, <2>3 DEF Balance, ResultsBalance
<1>7. ASSUME NEW m \in Messages, Consume(m) PROVE Balance'
  BY <1>7 DEF Consume, vars, Awaiting, Balance, ResultsBalance
<1>8. CASE TakeForCopy
  <2>1. /\ taking' = taking - 1 /\ successes' = successes - 1 /\ Awaiting' = Awaiting
        /\ UNCHANGED <<inflight, errors, gaveUp, failed>>
    BY <1>8 DEF TakeForCopy, vars, Awaiting
  <2>. QED
    BY <1>0, <2>1 DEF Balance, ResultsBalance
<1>9. CASE LogError
  <2>1. /\ errors > 0 /\ Awaiting' = Awaiting
        /\ UNCHANGED <<inflight, successes, taking, gaveUp, failed>>
    BY <1>9 DEF LogError, vars, Awaiting
  <2>. QED
    BY <1>0, <2>1 DEF Balance, ResultsBalance
<1>10. CASE CheckoutEnds
  <2>1. Awaiting' = {}
    BY <1>10, ProcessEnds DEF Awaiting
  <2>2. IsFiniteSet({}) /\ Cardinality({}) = 0
    BY FS_EmptySet
  <2>3. /\ inflight' = {} /\ successes' = 0 /\ errors' = 0
        /\ taking' = 0 /\ gaveUp' = 0
    BY <1>10, ProcessEnds
  <2>. QED
    BY <2>1, <2>2, <2>3 DEF Balance, ResultsBalance
<1>11. CASE Save \/ Commit \/ AccountingCrash
  BY <1>11 DEF Save, Commit, AccountingCrash, vars, Awaiting, Balance, ResultsBalance
<1>12. CASE UNCHANGED pipelineVars
  BY <1>12 DEF pipelineVars, vars, Awaiting, Balance, ResultsBalance
<1>. QED
  BY <1>1, <1>2, <1>3, <1>4, <1>5, <1>6, <1>7, <1>8, <1>9, <1>10, <1>11, <1>12
  DEF PipelineNext, PostingStep, MessageStep

\* The published orders only become more, and the records are added to by
\* Save alone.
LEMMA Unrecorded ==
    ASSUME TypeOK, [PipelineNext]_pipelineVars
    PROVE  /\ published \subseteq published'
           /\ Save \/ records' = records
<1>. USE DEF producerVars, accountingVars, vars, ledgerVars
<1>1. CASE OrderingStep
  BY <1>1, OrderingMoves
<1>2. ASSUME NEW o \in Orders, PutMessage(o) \/ PutNothing(o)
      PROVE  published \subseteq published' /\ records' = records
  BY <1>2 DEF PutMessage, PutNothing, SendToPostProcessor
<1>3. ASSUME NEW o \in Orders, TakeSuccess(o) \/ TakeError(o) \/ GiveUp(o)
      PROVE  published \subseteq published' /\ records' = records
  BY <1>3, HandlersFinish DEF Done
<1>4. ASSUME NEW m \in Messages, MessageStep(m)
      PROVE  published \subseteq published' /\ records' = records
  BY <1>4 DEF MessageStep, PutCopy, Send, SendFails, Consume
<1>5. CASE TakeForCopy \/ LogError \/ Commit \/ AccountingCrash
  BY <1>5 DEF TakeForCopy, LogError, Commit, AccountingCrash
<1>6. CASE CheckoutEnds
  BY <1>6, ProcessEnds
<1>7. CASE Save
  BY <1>7 DEF Save
<1>8. CASE UNCHANGED pipelineVars
  BY <1>8 DEF pipelineVars
<1>. QED
  BY <1>1, <1>2, <1>3, <1>4, <1>5, <1>6, <1>7, <1>8 DEF PipelineNext, PostingStep

\* An order is recorded once, however often it comes.
LEMMA RecordedKept ==
    ASSUME TypeOK, PipelineTypeOK, Places, Recorded, [PipelineNext]_pipelineVars
    PROVE  Recorded'
<1>1. CASE records' = records
  BY <1>1, Unrecorded DEF Recorded
<1>2. CASE Save
  <2>1. reading # NoMessage /\ reading[1] \in Orders /\ reading[1] \in published
    BY <1>2, MessageShape DEF Save, Places, PipelineTypeOK
  <2>2. \A o \in Orders : records[o] \in Nat
    BY DEF PipelineTypeOK
  <2>3. \/ records' = records
        \/ /\ records[reading[1]] = 0
           /\ records' = [records EXCEPT ![reading[1]] = @ + 1]
    BY <1>2 DEF Save, AddRecord
  <2>. QED
    BY <2>1, <2>2, <2>3, Unrecorded DEF Recorded, PipelineTypeOK
<1>. QED
  BY <1>1, <1>2, Unrecorded

\* While nothing fails, a message is handed on until its order is recorded.
LEMMA NotLostKept ==
    ASSUME TypeOK, PipelineTypeOK, Places, Recorded, PublishedIsRecorded,
           [PipelineNext]_pipelineVars
    PROVE  PublishedIsRecorded'
<1>. USE DEF producerVars, accountingVars
<1>1. CASE OrderingStep
  BY <1>1, OrderingMoves DEF PublishedIsRecorded
<1>2. ASSUME NEW o \in Orders, PutMessage(o) PROVE PublishedIsRecorded'
  <2>1. published' = published \cup {o}
    BY <1>2 DEF PutMessage, SendToPostProcessor, Move, Lost, TypeOK
  <2>. QED
    BY <1>2, <2>1 DEF PutMessage, PublishedIsRecorded
<1>3. ASSUME NEW o \in Orders, PutNothing(o) PROVE PublishedIsRecorded'
  <2>1. published' = published
    BY <1>3 DEF PutNothing, SendToPostProcessor, Move, Lost, TypeOK
  <2>. QED
    BY <1>3, <2>1 DEF PutNothing, PublishedIsRecorded
<1>4. ASSUME NEW o \in Orders, TakeSuccess(o) \/ TakeError(o) \/ GiveUp(o)
      PROVE PublishedIsRecorded'
  BY <1>4, HandlersFinish DEF Done, PublishedIsRecorded
<1>5. ASSUME NEW m \in Messages, MessageStep(m) PROVE PublishedIsRecorded'
  <2>. USE DEF PublishedIsRecorded, vars, ledgerVars
  <2>1. CASE PutCopy(m)
    BY <2>1 DEF PutCopy
  <2>2. CASE Send(m)
    BY <2>2 DEF Send
  <2>3. CASE SendFails(m)
    BY <2>3 DEF SendFails
  <2>4. CASE Consume(m)
    BY <2>4, MessageShape DEF Consume, TypeOK
  <2>. QED
    BY <1>5, <2>1, <2>2, <2>3, <2>4 DEF MessageStep
<1>6. CASE TakeForCopy \/ LogError \/ Commit
  BY <1>6 DEF TakeForCopy, LogError, Commit, PublishedIsRecorded, vars, ledgerVars
<1>7. CASE CheckoutEnds
  BY <1>7, ProcessEnds DEF PublishedIsRecorded
<1>8. CASE Save
  <2>. SUFFICES ASSUME ~lossy', NEW o \in published',
                       Own(o) \notin inflight' \cup unread' \cup {reading'}
                PROVE  records'[o] = 1
    BY DEF PublishedIsRecorded
  <2>1. /\ UNCHANGED <<published, inflight, unread>>
        /\ reading # NoMessage /\ reading[1] \in Orders /\ o \in Orders
    BY <1>8, MessageShape DEF Save, vars, ledgerVars, PipelineTypeOK, TypeOK
  <2>2. ~lossy /\ records \in [Orders -> Nat]
    BY <1>8 DEF Save, PipelineTypeOK
  <2>3. Own(o) = reading \/ records[o] = 1
    BY <2>1, <2>2 DEF PublishedIsRecorded
  <2>4. \/ records[reading[1]] = 0
           /\ records' = [records EXCEPT ![reading[1]] = @ + 1]
        \/ records[reading[1]] > 0 /\ records' = records
    BY <1>8, <2>2 DEF Save, AddRecord
  <2>5. \A p \in Orders : records[p] <= 1
    BY DEF Recorded
  <2>6. CASE Own(o) = reading
    <3>1. reading[1] = o
      BY <2>1, <2>6, MessageShape
    <3>. QED
      BY <2>1, <2>2, <2>4, <2>5, <3>1
  <2>7. CASE records[o] = 1
    BY <2>1, <2>2, <2>4, <2>7
  <2>. QED
    BY <2>3, <2>6, <2>7
<1>9. CASE AccountingCrash
  <2>. USE DEF AccountingCrash, vars, ledgerVars
  <2>. SUFFICES ASSUME ~lossy', NEW o \in published',
                       Own(o) \notin inflight' \cup unread' \cup {reading'}
                PROVE  records'[o] = 1
    BY DEF PublishedIsRecorded
  <2>1. /\ UNCHANGED <<published, inflight, records>>
        /\ unread' = unread \cup uncommitted /\ o \in Orders
    BY <1>9 DEF TypeOK
  <2>2. ~lossy /\ reading \in uncommitted \cup {NoMessage}
    BY <1>9
  <2>3. Own(o) # NoMessage
    BY <2>1, MessageShape
  <2>. QED
    BY <2>1, <2>2, <2>3 DEF PublishedIsRecorded
<1>10. CASE UNCHANGED pipelineVars
  BY <1>10 DEF pipelineVars, PublishedIsRecorded, vars, ledgerVars
<1>. QED
  BY <1>1, <1>2, <1>3, <1>4, <1>5, <1>6, <1>7, <1>8, <1>9, <1>10 DEF PipelineNext, PostingStep

(* The checkout service with its shared producer implements Checkout: what  *)
(* is proved of the carts, the charges and the shipments there holds for    *)
(* it, however its handlers share the producer.                             *)
THEOREM CheckoutImplemented == PipelineSpec => ImplementsCheckout
<1>1. PipelineInit => Init
  BY DEF PipelineInit
<1>2. [PipelineNext]_pipelineVars => [Next]_vars
  BY Simulates
<1>. QED
  BY <1>1, <1>2, PTL DEF PipelineSpec, ImplementsCheckout, Spec

\* The pipeline's invariant is inductive, given that of Checkout.
LEMMA PipelineInvariance == PipelineSpec => []PipelineInv
<1>1. PipelineInit => PipelineInv
  <2>. SUFFICES ASSUME PipelineInit PROVE PipelineInv
    OBVIOUS
  <2>1. IsFiniteSet({}) /\ Cardinality({}) = 0 /\ ChannelSize \in Nat
    BY FS_EmptySet, PipelineAssumption
  <2>2. \A o \in Orders : at[o] = "new"
    BY DEF PipelineInit, Init
  <2>3. Awaiting = {} /\ published = {}
    BY <2>2 DEF Awaiting, PipelineInit, Init
  <2>4. PipelineTypeOK
    <3>1. records \in [Orders -> Nat]
      BY DEF PipelineInit
    <3>2. failed \in BOOLEAN /\ lossy \in BOOLEAN
      BY DEF PipelineInit
    <3>3. /\ inflight = {} /\ posting = {} /\ unread = {} /\ uncommitted = {}
          /\ successes = 0 /\ errors = 0 /\ taking = 0 /\ gaveUp = 0
          /\ reading = NoMessage
      BY DEF PipelineInit
    <3>. QED
      BY <2>1, <3>1, <3>2, <3>3 DEF PipelineTypeOK
  <2>5. Places
    BY <2>2, <2>3 DEF PipelineInit, Places
  <2>6. Balance
    BY <2>1, <2>3 DEF PipelineInit, Balance, ResultsBalance
  <2>7. Recorded /\ PublishedIsRecorded
    BY <2>3 DEF PipelineInit, Recorded, PublishedIsRecorded
  <2>. QED
    BY <2>4, <2>5, <2>6, <2>7 DEF PipelineInv
<1>2. TypeOK /\ PipelineInv /\ [PipelineNext]_pipelineVars => PipelineInv'
  BY PipelineTypeKept, PlacesKept, BalanceKept, RecordedKept, NotLostKept DEF PipelineInv
<1>3. PipelineSpec => []TypeOK
  BY CheckoutImplemented, TypeCorrect DEF ImplementsCheckout
<1>. QED
  BY <1>1, <1>2, <1>3, PTL DEF PipelineSpec

(* The channels and the tables keep their types and their sizes.            *)
THEOREM PipelineTypeCorrect == PipelineSpec => []PipelineTypeOK
<1>1. PipelineInv => PipelineTypeOK
  BY DEF PipelineInv
<1>. QED
  BY <1>1, PipelineInvariance, PTL

(* Until a message fails no handler waits for a result that another has     *)
(* taken, and only the results of handlers that gave up stay in the channel.*)
THEOREM ResultsAreBalanced == PipelineSpec => []ResultsBalance
<1>1. PipelineInv => ResultsBalance
  BY DEF PipelineInv, Balance
<1>. QED
  BY <1>1, PipelineInvariance, PTL

(* Accounting records an order at most once, whatever copies, redeliveries  *)
(* and crashes there are, and none that was not paid for and shipped.       *)
THEOREM OrdersAreRecordedOnce == PipelineSpec => []RecordedOnce
<1>1. PipelineSpec => []PaidThenShipped
  BY CheckoutImplemented, OnlyPaidIsShipped DEF ImplementsCheckout
<1>2. PipelineInv /\ PaidThenShipped => RecordedOnce
  BY DEF PipelineInv, Recorded, PaidThenShipped, RecordedOnce
<1>. QED
  BY <1>1, <1>2, PipelineInvariance, PTL

(* A published order is recorded or on its way as long as nothing fails.    *)
THEOREM NoPublishedOrderIsLost == PipelineSpec => []PublishedIsRecorded
<1>1. PipelineInv => PublishedIsRecorded
  BY DEF PipelineInv
<1>. QED
  BY <1>1, PipelineInvariance, PTL
=============================================================================
