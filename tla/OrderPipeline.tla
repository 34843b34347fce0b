---------------------------- MODULE OrderPipeline ----------------------------
(***************************************************************************)
(* What becomes of the orders that Checkout places: the Kafka producer     *)
(* that all handlers of the checkout service share (sendToPostProcessor in *)
(* src/checkout/main.go), the broker, and the accounting service           *)
(* (Consumer.cs), which records the orders.                                *)
(*                                                                         *)
(* The producer hands its results to whoever reads its two channels next:  *)
(* a handler, one of the goroutines the kafkaQueueProblems flag starts, or *)
(* the goroutine that logs errors.  Results are therefore only counted.    *)
(***************************************************************************)
EXTENDS Checkout, FiniteSets, Integers

CONSTANTS
  Overload,     \* copies of an order the flag has sent (0 or 100)
  ChannelSize,  \* what each channel of the producer holds (256 in sarama)
  NoMessage     \* accounting processes no message

Messages == Orders \X (0..Overload)
Own(o) == <<o, 0>>
Copies(o) == {o} \X (1..Overload)

ASSUME PipelineAssumption ==
  /\ IsFiniteSet(Orders)
  /\ Overload \in Nat /\ ChannelSize \in Nat \ {0}
  /\ NoMessage \notin Messages

VARIABLES
  inflight,     \* messages the producer has taken and not yet sent
  successes,    \* results in Successes()
  errors,       \* results in Errors()
  posting,      \* copies that goroutines have to put
  taking,       \* goroutines that wait for a success
  gaveUp,       \* history: handlers of this process that left without a result
  failed,       \* history: a message of this process failed
  unread,       \* messages at the broker, not yet consumed
  uncommitted,  \* messages consumed since the last commit
  reading,      \* the message accounting processes
  records,      \* how often each order is in the accounting tables
  lossy         \* history: a step was taken that may lose a message

producerVars == <<inflight, successes, errors, posting, taking, gaveUp, failed>>
accountingVars == <<unread, uncommitted, reading, records>>
pipelineVars == <<vars, producerVars, accountingVars, lossy>>

PipelineInit ==
  /\ Init
  /\ inflight = {} /\ posting = {}
  /\ successes = 0 /\ errors = 0 /\ taking = 0 /\ gaveUp = 0
  /\ failed = FALSE /\ lossy = FALSE
  /\ unread = {} /\ uncommitted = {} /\ reading = NoMessage
  /\ records = [o \in Orders |-> 0]
-----------------------------------------------------------------------------
(***************************************************************************)
(* sendToPostProcessor.                                                    *)
(***************************************************************************)
(* mutant: one message too many *)
Room_for_one_more == Cardinality(inflight) <= ChannelSize

Room == Cardinality(inflight) < ChannelSize

PutMessage(o) ==
  /\ SendToPostProcessor(o) /\ at'[o] = "await"
  /\ Room /\ inflight' = inflight \cup {Own(o)}
  /\ UNCHANGED <<successes, errors, posting, taking, gaveUp, failed, accountingVars, lossy>>

\* No broker address, or the order is not marshalled, or the request ends.
PutNothing(o) ==
  /\ SendToPostProcessor(o) /\ at'[o] = "placed"
  /\ UNCHANGED <<producerVars, accountingVars, lossy>>

\* After the result, or without one, the flag may start its goroutines.
StartCopies(o) == posting' \in {posting, posting \cup Copies(o)}

TakeSuccess(o) ==
  /\ AwaitAck(o) /\ StartCopies(o)
  /\ successes > 0 /\ successes' = successes - 1
  /\ UNCHANGED <<inflight, errors, taking, gaveUp, failed, accountingVars, lossy>>

TakeError(o) ==
  /\ AwaitAck(o) /\ StartCopies(o)
  /\ errors > 0 /\ errors' = errors - 1
  /\ UNCHANGED <<inflight, successes, taking, gaveUp, failed, accountingVars, lossy>>

(* mutant: the order fails though everything has been done for it *)
GiveUp_fails_the_order(o) ==
  /\ at[o] = "await" /\ Move(o, "failed") /\ StartCopies(o)
  /\ gaveUp' = gaveUp + 1
  /\ UNCHANGED <<cartVars, items, ledgerVars, emptying, kept, producer, raced>>
  /\ UNCHANGED <<inflight, successes, errors, taking, failed, accountingVars, lossy>>

GiveUp(o) ==
  /\ AwaitAck(o) /\ StartCopies(o)
  /\ gaveUp' = gaveUp + 1
  /\ UNCHANGED <<inflight, successes, errors, taking, failed, accountingVars, lossy>>

(* mutant: a goroutine leaves the success of its copy in the channel *)
PutCopy_only(m) ==
  /\ m \in posting /\ posting' = posting \ {m}
  /\ Room /\ inflight' = inflight \cup {m}
  /\ UNCHANGED <<vars, successes, errors, taking, gaveUp, failed, accountingVars, lossy>>

PutCopy(m) ==
  /\ m \in posting /\ posting' = posting \ {m}
  /\ Room /\ inflight' = inflight \cup {m}
  /\ taking' = taking + 1
  /\ UNCHANGED <<vars, successes, errors, gaveUp, failed, accountingVars, lossy>>

TakeForCopy ==
  /\ taking > 0 /\ taking' = taking - 1
  /\ successes > 0 /\ successes' = successes - 1
  /\ UNCHANGED <<vars, inflight, errors, posting, gaveUp, failed, accountingVars, lossy>>
-----------------------------------------------------------------------------
(***************************************************************************)
(* The producer and the broker.  Without acknowledgements (RequiredAcks is *)
(* NoResponse) a message is a success once it is sent, even if the broker  *)
(* never has it.                                                           *)
(***************************************************************************)
Send(m) ==
  /\ m \in inflight /\ inflight' = inflight \ {m}
  /\ successes < ChannelSize /\ successes' = successes + 1
  /\ \/ unread' = unread \cup {m} /\ UNCHANGED lossy
     \/ lossy' = TRUE /\ UNCHANGED unread
  /\ UNCHANGED <<vars, errors, posting, taking, gaveUp, failed, uncommitted, reading, records>>

SendFails(m) ==
  /\ m \in inflight /\ inflight' = inflight \ {m}
  /\ errors < ChannelSize /\ errors' = errors + 1
  /\ failed' = TRUE /\ lossy' = TRUE
  /\ UNCHANGED <<vars, successes, posting, taking, gaveUp, accountingVars>>

\* CreateKafkaProducer's own goroutine.
LogError ==
  /\ errors > 0 /\ errors' = errors - 1
  /\ UNCHANGED <<vars, inflight, successes, posting, taking, gaveUp, failed, accountingVars, lossy>>

\* The channels and the goroutines end with the process.
CheckoutEnds ==
  /\ CheckoutCrash \/ \E o \in Orders : SendToPostProcessor(o) /\ at'[o] = "lost"
  /\ inflight' = {} /\ posting' = {}
  /\ successes' = 0 /\ errors' = 0 /\ taking' = 0 /\ gaveUp' = 0 /\ failed' = FALSE
  /\ lossy' = (lossy \/ inflight # {})
  /\ UNCHANGED accountingVars
-----------------------------------------------------------------------------
(***************************************************************************)
(* Accounting.  What has been consumed is committed in the background,     *)
(* whether it has been processed or not.                                   *)
(***************************************************************************)
Consume(m) ==
  /\ reading = NoMessage /\ reading' = m
  /\ m \in unread /\ unread' = unread \ {m}
  /\ uncommitted' = uncommitted \cup {m}
  /\ UNCHANGED <<vars, producerVars, records, lossy>>

AddRecord(o) == records' = [records EXCEPT ![o] = @ + 1]

(* mutant: the tables have no keys *)
Save_without_keys ==
  /\ reading # NoMessage /\ reading' = NoMessage
  /\ AddRecord(reading[1])
  /\ UNCHANGED <<vars, producerVars, unread, uncommitted, lossy>>

\* One transaction: an order that is there already is skipped, and so is one
\* that the database does not take.
Save ==
  /\ reading # NoMessage /\ reading' = NoMessage
  /\ \/ records[reading[1]] = 0 /\ AddRecord(reading[1]) /\ UNCHANGED lossy
     \/ records[reading[1]] > 0 /\ UNCHANGED <<records, lossy>>
     \/ lossy' = TRUE /\ UNCHANGED records
  /\ UNCHANGED <<vars, producerVars, unread, uncommitted>>

Commit ==
  /\ uncommitted # {} /\ uncommitted' = {}
  /\ UNCHANGED <<vars, producerVars, unread, reading, records, lossy>>

(* mutant: a new consumer starts at the end of the topic *)
AccountingCrash_to_the_end ==
  /\ uncommitted' = {} /\ reading' = NoMessage
  /\ lossy' = (lossy \/ reading \notin uncommitted \cup {NoMessage})
  /\ UNCHANGED <<vars, producerVars, unread, records>>

\* A new consumer starts at the last commit.
AccountingCrash ==
  /\ unread' = unread \cup uncommitted
  /\ uncommitted' = {} /\ reading' = NoMessage
  /\ lossy' = (lossy \/ reading \notin uncommitted \cup {NoMessage})
  /\ UNCHANGED <<vars, producerVars, records>>
-----------------------------------------------------------------------------
OrderingStep ==
  /\ \/ \E a \in Adds : AddItem(a) \/ StoreItem(a)
     \/ DropCart
     \/ \E o \in Orders :
          \/ GetUserCart(o) \/ Prepare(o) \/ ChargeCard(o) \/ ShipOrder(o)
          \/ EmptyUserCart(o) \/ SendOrderConfirmation(o) \/ LateEmptyCart(o)
  /\ UNCHANGED <<producerVars, accountingVars, lossy>>

PostingStep(o) ==
  PutMessage(o) \/ PutNothing(o) \/ TakeSuccess(o) \/ TakeError(o) \/ GiveUp(o)

MessageStep(m) == PutCopy(m) \/ Send(m) \/ SendFails(m) \/ Consume(m)

PipelineNext ==
  \/ OrderingStep
  \/ \E o \in Orders : PostingStep(o)
  \/ \E m \in Messages : MessageStep(m)
  \/ TakeForCopy \/ LogError \/ CheckoutEnds
  \/ Save \/ Commit \/ AccountingCrash

PipelineSpec == PipelineInit /\ [][PipelineNext]_pipelineVars
-----------------------------------------------------------------------------
(***************************************************************************)
(* Type correctness: messages are those of the orders, and no channel      *)
(* holds more than it can (sendToPostProcessor, Consumer.cs).              *)
(***************************************************************************)
PipelineTypeOK ==
  /\ inflight \subseteq Messages /\ Cardinality(inflight) <= ChannelSize
  /\ posting \subseteq Messages
  /\ successes \in 0..ChannelSize /\ errors \in 0..ChannelSize
  /\ taking \in Nat /\ gaveUp \in Nat
  /\ unread \subseteq Messages /\ uncommitted \subseteq Messages
  /\ reading \in Messages \cup {NoMessage}
  /\ records \in [Orders -> Nat]
  /\ failed \in BOOLEAN /\ lossy \in BOOLEAN

Awaiting == {o \in Orders : at[o] = "await"}

(***************************************************************************)
(* The handlers and the goroutines share the results, but each finds one:  *)
(* until a message fails, there are as many results, in the channel or     *)
(* still to come, as there are handlers and goroutines waiting, and the    *)
(* only stale ones are those of the handlers that gave up, which stay      *)
(* (main.go, the two selects; a failure may be taken by the goroutine that *)
(* logs errors, and then a handler waits for its request to end).          *)
(***************************************************************************)
ResultsBalance ==
  ~failed =>
    Cardinality(inflight) + successes = Cardinality(Awaiting) + taking + gaveUp

(***************************************************************************)
(* However often the flag, a redelivery or a crash brings an order, it is  *)
(* recorded once, and only if it was shipped (Consumer.cs, the unique keys *)
(* of its tables).                                                         *)
(***************************************************************************)
RecordedOnce ==
  \A o \in Orders : records[o] <= 1 /\ (records[o] = 1 => o \in shipped)

(***************************************************************************)
(* An order that was put on the producer is recorded, or on its way, as    *)
(* long as nothing fails: not the sending, not the checkout service with   *)
(* messages to send, not the database, and not the accounting service      *)
(* between a commit and the end of the transaction (Consumer.cs).  Its     *)
(* other restarts, and copies, lose nothing.                               *)
(***************************************************************************)
PublishedIsRecorded ==
  ~lossy => \A o \in published :
    Own(o) \in inflight \cup unread \cup {reading} \/ records[o] = 1

(***************************************************************************)
(* With its shared producer the checkout service still is the one of       *)
(* module Checkout, where a handler waits for nobody: each step is one of  *)
(* Checkout's or changes nothing there.                                    *)
(***************************************************************************)
ImplementsCheckout == Spec
=============================================================================
