------------------------ MODULE FlagSchedulerProofs ------------------------
(***************************************************************************)
(* Theorems about the flag scheduler, for every set of flags and variants, *)
(* every configuration and every number of requests and faults: its types, *)
(* the reverts of held flags, what the flags will be once Storage has      *)
(* handled its mailbox, the refinement of FlagHolds that follows from it,  *)
(* and the chain of intervals.  The flags and the refinement are about     *)
(* runs without faults.                                                    *)
(***************************************************************************)
EXTENDS FlagScheduler, FiniteSetTheorems, SequenceTheorems, TLAPS

-----------------------------------------------------------------------------
(* Timer references.                                                        *)

\* A finite set leaves out a number no greater than its cardinality.
LEMMA UnusedNumber ==
    ASSUME NEW U, IsFiniteSet(U)
    PROVE  \E r \in 0..Cardinality(U) : r \notin U
<1>1. Cardinality(U) \in Nat
  BY FS_CardinalityType
<1>2. SUFFICES ASSUME 0..Cardinality(U) \subseteq U
               PROVE  FALSE
  OBVIOUS
<1>3. Cardinality(0..Cardinality(U)) <= Cardinality(U)
  BY <1>2, FS_Subset
<1>4. Cardinality(0..Cardinality(U)) = Cardinality(U) + 1
  BY <1>1, FS_Interval
<1>. QED
  BY <1>1, <1>3, <1>4

\* The image of a finite set under a function is finite.
LEMMA FiniteImage ==
    ASSUME NEW S, IsFiniteSet(S), NEW fn, DOMAIN fn = S
    PROVE  IsFiniteSet({fn[x] : x \in S})
<1>. DEFINE T == {fn[x] : x \in S}
           g == [x \in S |-> fn[x]]
<1>1. g \in Surjection(S, T)
  BY DEF Surjection
<1>. QED
  BY <1>1, FS_Surjection

LEMMA FiniteRefs ==
    ASSUME NEW S, IsFiniteSet(S)
    PROVE  IsFiniteSet({t.ref : t \in S})
<1>. DEFINE fn == [t \in S |-> t.ref]
<1>1. IsFiniteSet({fn[t] : t \in S})
  <2>1. DOMAIN fn = S
    OBVIOUS
  <2>. HIDE DEF fn
  <2>. QED
    BY <2>1, FiniteImage
<1>2. {fn[t] : t \in S} = {t.ref : t \in S}
  OBVIOUS
<1>. QED
  BY <1>1, <1>2

LEMMA RefsFinite ==
    ASSUME IsFiniteSet(armed), NEW k
    PROVE  IsFiniteSet(RefsInUse(k))
<1>. DEFINE A == {a \in armed : KeyOf(a.msg) = k}
           R == {t.ref : t \in A}
           M == {timers[x] : x \in {y \in DOMAIN timers : y = k}}
<1>1. IsFiniteSet(R)
  <2>1. IsFiniteSet(A)
    BY FS_Subset
  <2>. HIDE DEF A
  <2>. QED
    BY <2>1, FiniteRefs
<1>2. IsFiniteSet(M)
  <2>1. M \subseteq {timers[k]}
    OBVIOUS
  <2>. QED
    BY <2>1, FS_Singleton, FS_Subset
<1>. QED
  BY <1>1, <1>2, FS_Union DEF RefsInUse

\* send_after gives a reference that no timer of the key has.
LEMMA FreshRefIsFresh ==
    ASSUME IsFiniteSet(armed), NEW k
    PROVE  FreshRef(k) \in Nat /\ FreshRef(k) \notin RefsInUse(k)
<1>1. \E r \in 0..Cardinality(RefsInUse(k)) : r \notin RefsInUse(k)
  BY RefsFinite, UnusedNumber
<1>2. FreshRef(k) \in 0..Cardinality(RefsInUse(k)) /\ FreshRef(k) \notin RefsInUse(k)
  BY <1>1 DEF FreshRef
<1>3. Cardinality(RefsInUse(k)) \in Nat
  BY RefsFinite, FS_CardinalityType
<1>. QED
  BY <1>2, <1>3

-----------------------------------------------------------------------------
(* Types of what the handlers build.                                        *)

LEMMA UpdateFlagType ==
    ASSUME NEW d \in Documents, NEW f \in Flags, NEW v \in Variants
    PROVE  UpdateFlag(d, f, v) \in Documents
<1>1. PICK S \in SUBSET Flags : d \in [S -> FlagData]
  BY DEF Documents
<1>2. UpdateFlag(d, f, v) \in [S -> FlagData]
  BY <1>1 DEF UpdateFlag, FlagData
<1>. QED
  BY <1>2 DEF Documents

LEMMA EligibleType ==
    ASSUME NEW d \in Documents
    PROVE  /\ DOMAIN EligibleSpecs(d) \subseteq Flags
           /\ EligibleSpecs(d) \in [DOMAIN EligibleSpecs(d) -> Specs]
<1>1. PICK S \in SUBSET Flags : d \in [S -> FlagData]
  BY DEF Documents
<1>. QED
  BY <1>1, OffersAssumption DEF EligibleSpecs, Specs

LEMMA RevertWritesType ==
    ASSUME DOMAIN active \subseteq Flags, active \in [DOMAIN active -> Activations],
           NEW order \in Orderings(DOMAIN active)
    PROVE  RevertWrites(order) \in Seq(StorageMessages)
<1>. DEFINE n == Cardinality(DOMAIN active)
<1>1. IsFiniteSet(DOMAIN active)
  BY FlagsAssumption, FS_Subset
<1>2. n \in Nat
  BY <1>1, FS_CardinalityType
<1>3. order \in [1..n -> DOMAIN active]
  BY DEF Orderings
<1>. HIDE DEF n
<1>4. RevertWrites(order) \in [1..n -> StorageMessages]
  BY <1>3 DEF RevertWrites, WriteMsg, StorageMessages, Activations
<1>. QED
  BY <1>2, <1>4

LEMMA RevertAllType ==
    ASSUME TypeOK, NEW then \in Seq(StorageMessages), RevertAll(then)
    PROVE  inbox' \in Seq(StorageMessages)
BY RevertWritesType, ConcatProperties DEF RevertAll, TypeOK, StorageTypeOK

\* A plan activates flags of the run with variants it may give them.
LEMMA PlanType ==
    ASSUME NEW c \in Configs, NEW specs, DOMAIN specs \subseteq Flags,
           specs \in [DOMAIN specs -> Specs], NEW plan \in Plans(c, specs)
    PROVE  /\ DOMAIN plan \subseteq Candidates(c, specs)
           /\ DOMAIN plan \subseteq Flags
           /\ \A f \in DOMAIN plan :
                  /\ plan[f] \in PlansOf(c, specs, f)
                  /\ plan[f].variant \in Variants
                  /\ plan[f].resting \in Variants
                  /\ plan[f].duration \in Nat
                  /\ plan[f].offset \in Nat
<1>1. PICK S \in SUBSET Candidates(c, specs) :
          /\ plan \in [S -> UNION {PlansOf(c, specs, f) : f \in S}]
          /\ \A f \in S : plan[f] \in PlansOf(c, specs, f)
  BY DEF Plans
<1>2. DOMAIN plan = S
  BY <1>1
<1>3. \A f \in S : f \in DOMAIN specs /\ specs[f] \in Specs
  BY DEF Candidates
<1>4. c.min \in Nat /\ c.max \in Nat /\ c.interval \in Nat
  BY ConfigsAssumption
<1>5. ASSUME NEW f \in S
      PROVE  /\ plan[f].variant \in Variants
             /\ plan[f].resting \in Variants
             /\ plan[f].duration \in Nat
             /\ plan[f].offset \in Nat
  BY <1>1, <1>3, <1>4 DEF PlansOf, Allowed, Specs
<1>. QED
  BY <1>1, <1>2, <1>5 DEF Candidates

LEMMA BeginIntervalType ==
    ASSUME IsFiniteSet(armed), NEW c \in Configs, NEW e \in Nat,
           NEW specs, DOMAIN specs \subseteq Flags, specs \in [DOMAIN specs -> Specs],
           NEW kept, kept \subseteq ArmedTimers, IsFiniteSet(kept),
           NEW keys, DOMAIN keys \subseteq Keys, keys \in [DOMAIN keys -> Nat],
           BeginInterval(c, e, specs, kept, keys)
    PROVE  /\ armed' \subseteq ArmedTimers
           /\ IsFiniteSet(armed')
           /\ DOMAIN timers' \subseteq Keys /\ timers' \in [DOMAIN timers' -> Nat]
           /\ nextUp' \subseteq Flags
<1>. DEFINE Msgs(plan) == {IntervalMsg(e)} \cup {TriggerMsg(e, f, plan[f]) : f \in DOMAIN plan}
           Delay(plan, m) == IF m.flag = None THEN c.interval ELSE plan[m.flag].offset
           Timer(plan, m) == [msg |-> m, ref |-> FreshRef(KeyOf(m)), left |-> Delay(plan, m)]
<1>1. PICK plan \in Plans(c, specs) :
          /\ armed' = kept \cup {Timer(plan, m) : m \in Msgs(plan)}
          /\ timers' = Put(keys, {KeyOf(m) : m \in Msgs(plan)}, FreshRef)
          /\ nextUp' = DOMAIN plan
  BY DEF BeginInterval
<1>2. ASSUME NEW m \in Msgs(plan)
      PROVE  m \in TimerMessages /\ KeyOf(m) \in Keys /\ Delay(plan, m) \in Nat
  <2>1. c.interval \in Nat
    BY ConfigsAssumption
  <2>2. CASE m = IntervalMsg(e)
    BY <2>1, <2>2 DEF IntervalMsg, TimerMessages, KeyOf, Key, Keys
  <2>3. ASSUME NEW f \in DOMAIN plan, m = TriggerMsg(e, f, plan[f])
        PROVE  m \in TimerMessages /\ KeyOf(m) \in Keys /\ Delay(plan, m) \in Nat
    <3>1. f \in Flags /\ f # None
      BY PlanType, NoneAssumption
    <3>2. /\ plan[f].variant \in Variants
          /\ plan[f].resting \in Variants
          /\ plan[f].duration \in Nat
          /\ plan[f].offset \in Nat
      BY PlanType
    <3>. QED
      BY <2>3, <3>1, <3>2 DEF TriggerMsg, TimerMessages, KeyOf, Key, Keys
  <2>. QED
    BY <2>2, <2>3
<1>3. IsFiniteSet({Timer(plan, m) : m \in Msgs(plan)})
  <2>. DEFINE msgOf == [f \in DOMAIN plan |-> TriggerMsg(e, f, plan[f])]
              timerOf == [m \in Msgs(plan) |-> Timer(plan, m)]
  <2>1. IsFiniteSet(DOMAIN plan)
    BY PlanType, FlagsAssumption, FS_Subset
  <2>2. IsFiniteSet({msgOf[f] : f \in DOMAIN plan})
    <3>1. DOMAIN msgOf = DOMAIN plan
      OBVIOUS
    <3>. HIDE DEF msgOf
    <3>. QED
      BY <2>1, <3>1, FiniteImage
  <2>3. Msgs(plan) = {msgOf[f] : f \in DOMAIN plan} \cup {IntervalMsg(e)}
    OBVIOUS
  <2>4. IsFiniteSet(Msgs(plan))
    BY <2>2, <2>3, FS_AddElement
  <2>5. IsFiniteSet({timerOf[m] : m \in Msgs(plan)})
    <3>1. DOMAIN timerOf = Msgs(plan)
      OBVIOUS
    <3>. HIDE DEF timerOf, Msgs
    <3>. QED
      BY <2>4, <3>1, FiniteImage
  <2>6. {timerOf[m] : m \in Msgs(plan)} = {Timer(plan, m) : m \in Msgs(plan)}
    OBVIOUS
  <2>. QED
    BY <2>5, <2>6
<1>. HIDE DEF Msgs, Delay
<1>4. \A k : FreshRef(k) \in Nat
  BY FreshRefIsFresh
<1>5. armed' \subseteq ArmedTimers
  BY <1>1, <1>2, <1>4 DEF ArmedTimers
<1>6. IsFiniteSet(armed')
  BY <1>1, <1>3, FS_Union
<1>7. DOMAIN timers' \subseteq Keys /\ timers' \in [DOMAIN timers' -> Nat]
  BY <1>1, <1>2, <1>4 DEF Put
<1>. QED
  BY <1>1, <1>5, <1>6, <1>7, PlanType

-----------------------------------------------------------------------------
(* Type correctness.  The armed timers stay finite, without which           *)
(* FreshRef would mean nothing, and while start_schedule waits for Storage  *)
(* its own request heads the mailbox.                                       *)

StartInHand ==
    reading => mailbox # <<>> /\ Head(mailbox).type = "start_schedule"

TypeInv == TypeOK /\ IsFiniteSet(armed) /\ StartInHand

LEMMA EmptyType ==
    /\ DOMAIN Empty = {}
    /\ Empty \in [DOMAIN Empty -> Specs]
    /\ Empty \in [DOMAIN Empty -> Activations]
    /\ Empty \in [DOMAIN Empty -> Nat]
BY DEF Empty

LEMMA FreshProcessType ==
    ASSUME FreshProcess, TypeInv,
           inbox' \in Seq(StorageMessages), doc' \in Documents, file' \in Documents,
           requests' \in Nat, faults' \in Nat
    PROVE  TypeInv'
<1>1. IsFiniteSet(armed')
  BY FS_EmptySet DEF FreshProcess
<1>2. TypeOK'
  <2>1. /\ DOMAIN eligible' \subseteq Flags /\ eligible' \in [DOMAIN eligible' -> Specs]
        /\ DOMAIN active' \subseteq Flags /\ active' \in [DOMAIN active' -> Activations]
        /\ DOMAIN timers' \subseteq Keys /\ timers' \in [DOMAIN timers' -> Nat]
    BY EmptyType DEF FreshProcess
  <2>2. /\ epoch' \in Nat /\ nextUp' \subseteq Flags /\ reply' \in Documents \cup {None}
        /\ armed' \subseteq ArmedTimers /\ mailbox' \in Seq(Messages)
    BY DEF FreshProcess
  <2>3. running' \in BOOLEAN /\ reading' \in BOOLEAN
    BY DEF FreshProcess
  <2>4. config' \in Configs
    BY ConfigsAssumption DEF FreshProcess
  <2>. QED
    BY <2>1, <2>2, <2>3, <2>4 DEF TypeOK, StorageTypeOK
<1>3. StartInHand'
  BY DEF FreshProcess, StartInHand
<1>. QED
  BY <1>1, <1>2, <1>3 DEF TypeInv

LEMMA TakeType ==
    ASSUME TypeOK, NEW type, Take(type)
    PROVE  /\ ~reading
           /\ mailbox # <<>>
           /\ Head(mailbox) \in Messages
           /\ Head(mailbox).type = type
           /\ Tail(mailbox) \in Seq(Messages)
BY HeadTailProperties DEF TypeOK, Take

LEMMA ReceiveType ==
    ASSUME TypeOK, NEW type, Receive(type)
    PROVE  /\ inbox # <<>>
           /\ Head(inbox) \in StorageMessages
           /\ Head(inbox).type = type
           /\ inbox' = Tail(inbox)
           /\ inbox' \in Seq(StorageMessages)
BY HeadTailProperties DEF TypeOK, StorageTypeOK, Receive

LEMMA NoWritesType == <<>> \in Seq(StorageMessages)
OBVIOUS

LEMMA TerminateType ==
    ASSUME TypeOK, Terminate \/ UNCHANGED inbox
    PROVE  inbox' \in Seq(StorageMessages)
<1>1. CASE Terminate
  BY <1>1, RevertAllType, NoWritesType DEF Terminate
<1>2. CASE UNCHANGED inbox
  BY <1>2 DEF TypeOK, StorageTypeOK
<1>. QED
  BY <1>1, <1>2

\* The scheduler's own steps.
LEMMA SchedulerStepType ==
    ASSUME TypeInv, SchedulerStep
    PROVE  TypeInv'
<1>. USE DEF TypeInv, StartInHand
<1>1. CASE RejectStart
  BY <1>1, TakeType DEF RejectStart, TypeOK, StorageTypeOK, storageVars, schedVars, callVars
<1>2. CASE BeginStart
  <2>1. inbox' \in Seq(StorageMessages)
    <3>1. <<ReadMsg("scheduler")>> \in Seq(StorageMessages)
      BY CallersAssumption DEF ReadMsg, StorageMessages
    <3>. QED
      BY <1>2, <3>1, RevertAllType DEF BeginStart
  <2>2. IsFiniteSet(armed') /\ armed' \subseteq ArmedTimers
    BY <1>2, FS_Subset DEF BeginStart, TypeOK
  <2>. QED
    BY <1>2, <2>1, <2>2, TakeType DEF BeginStart, TypeOK, StorageTypeOK, schedVars
<1>3. CASE FinishStart
  <2>. DEFINE c == Head(mailbox).config
              specs == EligibleSpecs(reply)
  <2>1. /\ mailbox # <<>>
        /\ Head(mailbox) \in Messages
        /\ Head(mailbox).type = "start_schedule"
        /\ Tail(mailbox) \in Seq(Messages)
    BY <1>3, HeadTailProperties DEF FinishStart, StartInHand, TypeOK
  <2>2. c \in Configs
    BY <2>1 DEF Messages, TimerMessages, StopMsg
  <2>3. DOMAIN specs \subseteq Flags /\ specs \in [DOMAIN specs -> Specs]
    <3>1. reply \in Documents
      BY <1>3 DEF FinishStart, TypeOK
    <3>. QED
      BY <3>1, EligibleType
  <2>4. NextEpoch \in Nat
    BY DEF NextEpoch, TypeOK
  <2>5. BeginInterval(c, NextEpoch, specs, armed, Empty)
    BY <1>3 DEF FinishStart
  <2>. HIDE DEF c, specs
  <2>6. /\ armed' \subseteq ArmedTimers
        /\ IsFiniteSet(armed')
        /\ DOMAIN timers' \subseteq Keys /\ timers' \in [DOMAIN timers' -> Nat]
        /\ nextUp' \subseteq Flags
    <3>1. DOMAIN Empty \subseteq Keys /\ Empty \in [DOMAIN Empty -> Nat]
      BY EmptyType
    <3>2. armed \subseteq ArmedTimers
      BY DEF TypeOK
    <3>. QED
      BY <2>2, <2>3, <2>4, <2>5, <3>1, <3>2, BeginIntervalType
  <2>. QED
    BY <1>3, <2>1, <2>2, <2>3, <2>4, <2>6, EmptyType
    DEF FinishStart, TypeOK, StorageTypeOK, StartInHand, storageVars, c, specs
<1>4. CASE Stop
  <2>1. inbox' \in Seq(StorageMessages)
    BY <1>4, RevertAllType, NoWritesType DEF Stop
  <2>2. IsFiniteSet(armed') /\ armed' \subseteq ArmedTimers
    BY <1>4, FS_Subset DEF Stop, TypeOK
  <2>3. /\ DOMAIN active' \subseteq Flags /\ active' \in [DOMAIN active' -> Activations]
        /\ DOMAIN timers' \subseteq Keys /\ timers' \in [DOMAIN timers' -> Nat]
    BY <1>4, EmptyType DEF Stop
  <2>4. nextUp' \subseteq Flags /\ epoch' \in Nat
    BY <1>4 DEF Stop, NextEpoch, TypeOK
  <2>5. running' \in BOOLEAN
    BY <1>4 DEF Stop
  <2>. QED
    BY <1>4, <2>1, <2>2, <2>3, <2>4, <2>5, TakeType DEF Stop, TypeOK, StorageTypeOK, callVars
<1>5. CASE NextInterval
  <2>. DEFINE keys == Without(timers, {Key("begin_interval", None)})
  <2>1. DOMAIN keys \subseteq Keys /\ keys \in [DOMAIN keys -> Nat]
    BY DEF TypeOK, Without
  <2>. HIDE DEF keys
  <2>2. /\ armed' \subseteq ArmedTimers
        /\ IsFiniteSet(armed')
        /\ DOMAIN timers' \subseteq Keys /\ timers' \in [DOMAIN timers' -> Nat]
        /\ nextUp' \subseteq Flags
    BY <1>5, <2>1, BeginIntervalType DEF NextInterval, TypeOK, keys
  <2>. QED
    BY <1>5, <2>2, TakeType DEF NextInterval, TypeOK, StorageTypeOK, storageVars, callVars
<1>6. CASE Trigger
  <2>. DEFINE m == Head(mailbox)
              key == Key("revert", m.flag)
  <2>1. m \in Messages /\ m.type = "trigger"
    BY <1>6, TakeType DEF Trigger
  <2>2. m.flag \in Flags /\ m.variant \in Variants /\ m.resting \in Variants /\ m.duration \in Nat
    BY <2>1 DEF Messages, TimerMessages, StopMsg
  <2>3. /\ armed' \subseteq ArmedTimers /\ IsFiniteSet(armed')
        /\ DOMAIN timers' \subseteq Keys /\ timers' \in [DOMAIN timers' -> Nat]
    <3>1. FreshRef(key) \in Nat
      BY FreshRefIsFresh
    <3>2. key \in Keys
      BY <2>2 DEF Key, Keys
    <3>3. RevertMsg(epoch, m.flag) \in TimerMessages
      BY <2>2 DEF RevertMsg, TimerMessages, TypeOK
    <3>4. IsFiniteSet(armed \ Cancellable({key}))
      BY FS_Subset
    <3>5. IsFiniteSet(armed')
      BY <1>6, <3>4, FS_AddElement DEF Trigger, ArmRevert
    <3>6. armed' \subseteq ArmedTimers
      BY <1>6, <2>2, <3>1, <3>3 DEF Trigger, ArmRevert, ArmedTimers, TypeOK
    <3>7. DOMAIN timers' \subseteq Keys /\ timers' \in [DOMAIN timers' -> Nat]
      BY <1>6, <3>1, <3>2 DEF Trigger, ArmRevert, Put, Without, TypeOK
    <3>. QED
      BY <3>5, <3>6, <3>7
  <2>4. inbox' \in Seq(StorageMessages)
    <3>1. WriteMsg(m.flag, m.variant) \in StorageMessages
      BY <2>2 DEF WriteMsg, StorageMessages
    <3>. QED
      BY <1>6, <3>1 DEF Trigger, TypeOK, StorageTypeOK
  <2>5. DOMAIN active' \subseteq Flags /\ active' \in [DOMAIN active' -> Activations]
    BY <1>6, <2>2 DEF Trigger, TypeOK, Activations
  <2>. QED
    BY <1>6, <2>3, <2>4, <2>5, TakeType
    DEF Trigger, TypeOK, StorageTypeOK, callVars, Announced
<1>7. CASE Revert
  <2>. DEFINE f == Head(mailbox).flag
  <2>1. f \in Flags /\ active[f] \in Activations
    BY <1>7 DEF Revert, TypeOK
  <2>2. inbox' \in Seq(StorageMessages)
    <3>1. WriteMsg(f, active[f].resting) \in StorageMessages
      BY <2>1 DEF WriteMsg, StorageMessages, Activations
    <3>. QED
      BY <1>7, <3>1 DEF Revert, TypeOK, StorageTypeOK
  <2>3. DOMAIN active' \subseteq Flags /\ active' \in [DOMAIN active' -> Activations]
    BY <1>7 DEF Revert, TypeOK, Without
  <2>4. DOMAIN timers' \subseteq Keys /\ timers' \in [DOMAIN timers' -> Nat]
    BY <1>7 DEF Revert, TypeOK, Without
  <2>. QED
    BY <1>7, <2>2, <2>3, <2>4, TakeType DEF Revert, TypeOK, StorageTypeOK, callVars
<1>8. CASE RevertRaises
  <2>1. inbox' \in Seq(StorageMessages)
    BY <1>8, TerminateType DEF RevertRaises
  <2>. QED
    BY <1>8, <2>1, FreshProcessType DEF RevertRaises, TypeOK, StorageTypeOK
<1>9. CASE IgnoreStale
  BY <1>9, TakeType DEF IgnoreStale, TypeOK, StorageTypeOK, storageVars, schedVars, callVars
<1>. QED
  BY <1>1, <1>2, <1>3, <1>4, <1>5, <1>6, <1>7, <1>8, <1>9 DEF SchedulerStep

\* Users, the clock, Storage and faults.
LEMMA EnvironmentStepType ==
    ASSUME TypeInv,
           \/ RequestStop \/ (\E c \in Configs : RequestStart(c))
           \/ StorageStep \/ Fire \/ Tick \/ StorageCrash \/ ReadExits \/ ExitScheduler
    PROVE  TypeInv'
<1>. USE DEF TypeInv
<1>1. ASSUME NEW m \in Messages, mailbox' = Append(mailbox, m), UNCHANGED reading
      PROVE  mailbox' \in Seq(Messages) /\ StartInHand'
  BY <1>1, AppendProperties DEF TypeOK, StartInHand
<1>2. CASE RequestStop
  <2>1. StopMsg \in Messages
    BY DEF Messages
  <2>. QED
    BY <1>1, <1>2, <2>1
    DEF RequestStop, TypeOK, StorageTypeOK, storageVars, schedVars, callVars
<1>3. ASSUME NEW c \in Configs, RequestStart(c)
      PROVE  TypeInv'
  <2>1. StartMsg(c) \in Messages
    BY DEF StartMsg, Messages
  <2>. QED
    BY <1>1, <1>3, <2>1
    DEF RequestStart, TypeOK, StorageTypeOK, storageVars, schedVars, callVars
<1>4. CASE Fire
  <2>1. PICK t \in armed : /\ armed' = armed \ {t}
                           /\ mailbox' = Append(mailbox, t.msg)
    BY <1>4 DEF Fire
  <2>2. t.msg \in Messages
    BY DEF TypeOK, ArmedTimers, Messages
  <2>3. IsFiniteSet(armed')
    BY <2>1, FS_RemoveElement
  <2>. QED
    BY <1>1, <1>4, <2>1, <2>2, <2>3
    DEF Fire, TypeOK, StorageTypeOK, storageVars, schedVars, callVars
<1>5. CASE Tick
  <2>. DEFINE later == [t \in armed |-> [t EXCEPT !.left = @ - 1]]
  <2>1. armed' = {later[t] : t \in armed}
    BY <1>5 DEF Tick
  <2>2. IsFiniteSet(armed')
    <3>1. DOMAIN later = armed
      OBVIOUS
    <3>. HIDE DEF later
    <3>. QED
      BY <2>1, <3>1, FiniteImage
  <2>3. armed' \subseteq ArmedTimers
    <3>1. ASSUME NEW t \in armed
          PROVE  [t EXCEPT !.left = @ - 1] \in ArmedTimers
      <4>1. t \in ArmedTimers /\ t.left > 0
        BY <1>5 DEF Tick, TypeOK
      <4>2. t.left - 1 \in Nat
        BY <4>1 DEF ArmedTimers
      <4>. QED
        BY <4>1, <4>2 DEF ArmedTimers
    <3>. QED
      BY <2>1, <3>1
  <2>. QED
    BY <1>5, <2>2, <2>3
    DEF Tick, TypeOK, StorageTypeOK, StartInHand, storageVars, schedVars, callVars
<1>6. CASE StorageWrite
  <2>. DEFINE m == Head(inbox)
  <2>1. m \in StorageMessages /\ m.type = "write" /\ inbox' \in Seq(StorageMessages)
    BY <1>6, ReceiveType DEF StorageWrite, HandleWrite
  <2>2. m.flag \in Flags /\ m.variant \in Variants
    BY <2>1 DEF StorageMessages, ReadMsg
  <2>3. UpdateFlag(doc, m.flag, m.variant) \in Documents
    BY <2>2, UpdateFlagType DEF TypeOK, StorageTypeOK
  <2>. QED
    BY <1>6, <2>1, <2>3
    DEF StorageWrite, HandleWrite, Persist, TypeOK, StorageTypeOK, StartInHand,
        schedVars, callVars
<1>7. CASE StorageRead
  BY <1>7, ReceiveType DEF StorageRead, TypeOK, StorageTypeOK, StartInHand, schedVars
<1>8. CASE StorageCrash
  BY <1>8, NoWritesType
  DEF StorageCrash, RestartStorage, TypeOK, StorageTypeOK, StartInHand, schedVars, callVars
<1>9. CASE ReadExits
  BY <1>9, TerminateType, FreshProcessType DEF ReadExits, TypeOK, StorageTypeOK
<1>10. CASE ExitScheduler
  BY <1>10, TerminateType, FreshProcessType DEF ExitScheduler, TypeOK, StorageTypeOK
<1>. QED
  BY <1>2, <1>3, <1>4, <1>5, <1>6, <1>7, <1>8, <1>9, <1>10 DEF StorageStep

LEMMA TypeInvariant == Spec => []TypeInv
<1>1. ASSUME Init
      PROVE  TypeInv
  <2>1. /\ DOMAIN eligible \subseteq Flags /\ eligible \in [DOMAIN eligible -> Specs]
        /\ DOMAIN active \subseteq Flags /\ active \in [DOMAIN active -> Activations]
        /\ DOMAIN timers \subseteq Keys /\ timers \in [DOMAIN timers -> Nat]
    BY <1>1, EmptyType DEF Init
  <2>2. /\ doc \in Documents /\ file \in Documents /\ inbox \in Seq(StorageMessages)
        /\ config \in Configs /\ mailbox \in Seq(Messages) /\ nextUp \subseteq Flags
        /\ epoch \in Nat /\ requests \in Nat /\ faults \in Nat
        /\ reply = None /\ armed = {}
    BY <1>1, InitDocAssumption, ConfigsAssumption DEF Init
  <2>3. IsFiniteSet(armed)
    BY <2>2, FS_EmptySet
  <2>4. running \in BOOLEAN /\ reading = FALSE
    BY <1>1 DEF Init
  <2>. QED
    BY <2>1, <2>2, <2>3, <2>4 DEF TypeInv, TypeOK, StorageTypeOK, StartInHand
<1>2. TypeInv /\ [Next]_vars => TypeInv'
  <2>1. TypeInv /\ Next => TypeInv'
    BY SchedulerStepType, EnvironmentStepType DEF Next
  <2>2. TypeInv /\ UNCHANGED vars => TypeInv'
    BY DEF vars, TypeInv, TypeOK, StorageTypeOK, StartInHand, storageVars, schedVars, callVars
  <2>. QED
    BY <2>1, <2>2
<1>. QED
  BY <1>1, <1>2, PTL DEF Spec

(* Whatever the flags, the configurations asked for and the faults, the     *)
(* state of the scheduler and of Storage stays well formed.                 *)
THEOREM TypeCorrect == Spec => []TypeOK
<1>1. TypeInv => TypeOK
  BY DEF TypeInv
<1>. QED
  BY <1>1, TypeInvariant, PTL

-----------------------------------------------------------------------------
(* The mailbox.                                                             *)

LEMMA PopMail ==
    ASSUME TypeOK, mailbox # <<>>, mailbox' = Tail(mailbox)
    PROVE  /\ \A i \in DOMAIN mailbox' : /\ i \in Nat /\ i + 1 \in DOMAIN mailbox
                                         /\ i + 1 # 1 /\ mailbox'[i] = mailbox[i + 1]
           /\ \A i \in DOMAIN mailbox : /\ i \in Nat
                                        /\ \/ i = 1
                                           \/ /\ i - 1 \in DOMAIN mailbox'
                                              /\ mailbox'[i - 1] = mailbox[i]
           /\ 1 \in DOMAIN mailbox /\ Head(mailbox) = mailbox[1]
<1>1. mailbox \in Seq(Messages) /\ Len(mailbox) \in Nat /\ Len(mailbox) # 0
  BY DEF TypeOK
<1>2. /\ Len(mailbox') = Len(mailbox) - 1
      /\ \A i \in 1..(Len(mailbox) - 1) : mailbox'[i] = mailbox[i + 1]
      /\ DOMAIN mailbox = 1..Len(mailbox) /\ DOMAIN mailbox' = 1..(Len(mailbox) - 1)
  BY <1>1, HeadTailProperties
<1>3. ASSUME NEW i \in DOMAIN mailbox, i # 1
      PROVE  i - 1 \in DOMAIN mailbox' /\ mailbox'[i - 1] = mailbox[i]
  <2>1. i - 1 \in 1..(Len(mailbox) - 1) /\ (i - 1) + 1 = i
    BY <1>1, <1>2, <1>3
  <2>. QED
    BY <1>2, <2>1
<1>. QED
  BY <1>1, <1>2, <1>3

LEMMA AppendMail ==
    ASSUME TypeOK, NEW m, m \in Messages, mailbox' = Append(mailbox, m)
    PROVE  /\ \A i \in DOMAIN mailbox : /\ i \in DOMAIN mailbox' /\ mailbox'[i] = mailbox[i]
                                        /\ i \in Nat /\ i < Len(mailbox) + 1
           /\ Len(mailbox) + 1 \in DOMAIN mailbox' /\ mailbox'[Len(mailbox) + 1] = m
           /\ \A i \in DOMAIN mailbox' : i \in DOMAIN mailbox \/ i = Len(mailbox) + 1
           /\ mailbox # <<>> => Head(mailbox') = Head(mailbox)
<1>1. mailbox \in Seq(Messages) /\ Len(mailbox) \in Nat
  BY DEF TypeOK
<1>2. /\ Len(mailbox') = Len(mailbox) + 1 /\ mailbox' \in Seq(Messages)
      /\ \A i \in 1..Len(mailbox) : mailbox'[i] = mailbox[i]
      /\ mailbox'[Len(mailbox) + 1] = m
  BY <1>1, AppendProperties
<1>3. DOMAIN mailbox = 1..Len(mailbox) /\ DOMAIN mailbox' = 1..(Len(mailbox) + 1)
  BY <1>1, <1>2
<1>4. mailbox # <<>> => Head(mailbox') = Head(mailbox)
  BY <1>1, <1>2
<1>. QED
  BY <1>1, <1>2, <1>3, <1>4

-----------------------------------------------------------------------------
(* Held flags are reverted.                                                 *)

\* A message on its way stays on its way when another is taken, unless its
\* timer is cancelled.
LEMMA StillPending ==
    ASSUME TypeOK, mailbox # <<>>, mailbox' = Tail(mailbox),
           NEW STATE m, m # Head(mailbox), Pending(m),
           \A t \in armed : t.msg = m => t \in armed'
    PROVE  \/ \E t \in armed' : t.msg = m
           \/ \E i \in DOMAIN mailbox' : mailbox'[i] = m
<1>1. CASE TimerPending(m)
  BY <1>1 DEF TimerPending
<1>2. ASSUME NEW i \in DOMAIN mailbox, mailbox[i] = m
      PROVE  \E j \in DOMAIN mailbox' : mailbox'[j] = m
  <2>1. mailbox \in Seq(Messages)
    BY DEF TypeOK
  <2>2. i \in 1..Len(mailbox) /\ Len(mailbox) \in Nat
    BY <2>1
  <2>3. Head(mailbox) = mailbox[1]
    BY <2>1
  <2>4. i - 1 \in 1..(Len(mailbox) - 1)
    BY <1>2, <2>2, <2>3
  <2>5. i - 1 \in DOMAIN mailbox' /\ mailbox'[i - 1] = mailbox[i]
    BY <2>1, <2>2, <2>4, HeadTailProperties
  <2>. QED
    BY <1>2, <2>5
<1>. QED
  BY <1>1, <1>2 DEF Pending

\* Nothing that concerns the held flags changed except which messages wait.
LEMMA HoldsKept ==
    ASSUME TypeOK, HeldFlagHasRevert, UNCHANGED <<running, epoch>>, ~reading, ~reading',
           mailbox # <<>>, mailbox' = Tail(mailbox),
           DOMAIN active' \subseteq DOMAIN active,
           \A f \in DOMAIN active' : RevertMsg(epoch, f) # Head(mailbox),
           armed \subseteq armed'
    PROVE  HeldFlagHasRevert'
<1>1. ASSUME NEW f \in DOMAIN active'
      PROVE  running' /\ Pending(RevertMsg(epoch, f))'
  <2>1. running /\ Pending(RevertMsg(epoch, f))
    BY DEF HeldFlagHasRevert
  <2>2. \/ \E t \in armed' : t.msg = RevertMsg(epoch, f)
        \/ \E i \in DOMAIN mailbox' : mailbox'[i] = RevertMsg(epoch, f)
    BY <2>1, StillPending
  <2>. QED
    BY <2>1, <2>2 DEF Pending, TimerPending, RevertMsg
<1>. QED
  BY <1>1 DEF HeldFlagHasRevert

LEMMA RevertOnItsWay ==
    ASSUME TypeInv, HeldFlagHasRevert, Next
    PROVE  HeldFlagHasRevert'
<1>. USE DEF TypeInv
<1>1. CASE RejectStart
  BY <1>1, TakeType, HoldsKept DEF RejectStart, RevertMsg, schedVars, callVars
<1>2. CASE BeginStart
  BY <1>2 DEF BeginStart, HeldFlagHasRevert
<1>3. CASE FinishStart \/ Stop
  BY <1>3, EmptyType DEF FinishStart, Stop, HeldFlagHasRevert
<1>4. CASE NextInterval
  <2>1. armed \subseteq armed'
    BY <1>4 DEF NextInterval, BeginInterval
  <2>. QED
    BY <1>4, <2>1, TakeType, HoldsKept DEF NextInterval, RevertMsg, callVars
<1>5. CASE Trigger
  <2>. DEFINE m == Head(mailbox)
              key == Key("revert", m.flag)
  <2>1. /\ ~reading /\ mailbox # <<>> /\ m.type = "trigger"
        /\ mailbox' = Tail(mailbox) /\ UNCHANGED <<running, epoch, reading>> /\ running
    BY <1>5, TakeType DEF Trigger, callVars, Current
  <2>2. \E t \in armed' : t.msg = RevertMsg(epoch, m.flag)
    <3>. DEFINE timer == [msg |-> RevertMsg(epoch, m.flag), ref |-> FreshRef(key),
                          left |-> m.duration]
    <3>1. timer \in armed'
      BY <1>5 DEF Trigger, ArmRevert
    <3>2. timer.msg = RevertMsg(epoch, m.flag)
      OBVIOUS
    <3>. QED
      BY <3>1, <3>2
  <2>3. ASSUME NEW f \in DOMAIN active, f # m.flag
        PROVE  \/ \E t \in armed' : t.msg = RevertMsg(epoch, f)
               \/ \E i \in DOMAIN mailbox' : mailbox'[i] = RevertMsg(epoch, f)
    <3>1. Pending(RevertMsg(epoch, f))
      BY <2>1 DEF HeldFlagHasRevert
    <3>2. \A t \in armed : t.msg = RevertMsg(epoch, f) => t \notin Cancellable({key})
      BY <2>3 DEF Cancellable, KeyOf, Key, RevertMsg
    <3>3. \A t \in armed : t.msg = RevertMsg(epoch, f) => t \in armed'
      BY <1>5, <3>2 DEF Trigger, ArmRevert
    <3>4. RevertMsg(epoch, f) # m
      BY <2>1 DEF RevertMsg
    <3>. QED
      BY <2>1, <3>1, <3>3, <3>4, StillPending
  <2>4. DOMAIN active' = DOMAIN active \cup {m.flag}
    BY <1>5 DEF Trigger
  <2>. QED
    BY <2>1, <2>2, <2>3, <2>4 DEF HeldFlagHasRevert, Pending, TimerPending, RevertMsg
<1>6. CASE Revert
  BY <1>6, TakeType, HoldsKept DEF Revert, RevertMsg, Without, callVars
<1>7. CASE IgnoreStale
  <2>1. /\ ~reading /\ mailbox # <<>> /\ mailbox' = Tail(mailbox)
        /\ UNCHANGED <<schedVars, callVars, armed>>
    BY <1>7, TakeType DEF IgnoreStale
  <2>2. ASSUME NEW f \in DOMAIN active
        PROVE  RevertMsg(epoch, f) # Head(mailbox)
    BY <1>7, <2>1 DEF IgnoreStale, HeldFlagHasRevert, Current, RevertMsg
  <2>. QED
    BY <2>1, <2>2, HoldsKept DEF schedVars, callVars
<1>8. CASE RevertRaises \/ ReadExits \/ ExitScheduler
  BY <1>8, EmptyType DEF RevertRaises, ReadExits, ExitScheduler, FreshProcess, HeldFlagHasRevert
<1>9. CASE Fire
  <2>1. PICK t \in armed : /\ armed' = armed \ {t}
                           /\ mailbox' = Append(mailbox, t.msg)
    BY <1>9 DEF Fire
  <2>2. mailbox \in Seq(Messages) /\ t.msg \in Messages
    BY DEF TypeOK, ArmedTimers, Messages
  <2>3. /\ Len(mailbox) + 1 \in DOMAIN mailbox' /\ mailbox'[Len(mailbox) + 1] = t.msg
        /\ \A i \in DOMAIN mailbox : i \in DOMAIN mailbox' /\ mailbox'[i] = mailbox[i]
    BY <2>1, <2>2, AppendProperties
  <2>4. UNCHANGED <<running, epoch, active, reading>>
    BY <1>9 DEF Fire, schedVars, callVars
  <2>5. ASSUME NEW f \in DOMAIN active, ~reading
        PROVE  running /\ Pending(RevertMsg(epoch, f))'
    <3>1. running /\ Pending(RevertMsg(epoch, f))
      BY <2>5 DEF HeldFlagHasRevert
    <3>. QED
      BY <2>1, <2>3, <2>4, <3>1 DEF Pending, TimerPending, RevertMsg
  <2>. QED
    BY <2>4, <2>5 DEF HeldFlagHasRevert
<1>10. CASE Tick
  <2>1. \A t \in armed : \E u \in armed' : u.msg = t.msg
    <3>1. \A t \in armed : [t EXCEPT !.left = @ - 1] \in armed' /\ t \in ArmedTimers
      BY <1>10 DEF Tick, TypeOK
    <3>. QED
      BY <3>1 DEF ArmedTimers
  <2>2. UNCHANGED <<running, epoch, active, reading, mailbox>>
    BY <1>10 DEF Tick, schedVars, callVars
  <2>. QED
    BY <2>1, <2>2 DEF HeldFlagHasRevert, Pending, TimerPending, RevertMsg
<1>11. ASSUME NEW m \in Messages, mailbox' = Append(mailbox, m),
             UNCHANGED <<schedVars, callVars, armed>>
       PROVE  HeldFlagHasRevert'
  <2>1. \A i \in DOMAIN mailbox : i \in DOMAIN mailbox' /\ mailbox'[i] = mailbox[i]
    BY <1>11, AppendProperties DEF TypeOK
  <2>. QED
    BY <1>11, <2>1 DEF HeldFlagHasRevert, Pending, TimerPending, RevertMsg, schedVars, callVars
<1>12. CASE RequestStop
  BY <1>11, <1>12 DEF RequestStop, Messages
<1>13. ASSUME NEW c \in Configs, RequestStart(c)
       PROVE  HeldFlagHasRevert'
  <2>1. StartMsg(c) \in Messages
    BY DEF StartMsg, Messages
  <2>. QED
    BY <1>11, <1>13, <2>1 DEF RequestStart
<1>14. CASE StorageWrite \/ StorageRead \/ StorageCrash
  BY <1>14 DEF StorageWrite, StorageRead, StorageCrash, HeldFlagHasRevert, Pending, TimerPending,
               RevertMsg, schedVars, callVars
<1>. QED
  BY <1>1, <1>2, <1>3, <1>4, <1>5, <1>6, <1>7, <1>8, <1>9, <1>10, <1>12, <1>13, <1>14
  DEF Next, SchedulerStep, StorageStep

(* No hold lasts for ever for want of a revert, whatever the requests, the  *)
(* order of timer messages and the faults.                                  *)
THEOREM NoForgottenHold == Spec => []HeldFlagHasRevert
<1>1. Init => HeldFlagHasRevert
  BY EmptyType DEF Init, HeldFlagHasRevert
<1>2. TypeInv /\ HeldFlagHasRevert /\ [Next]_vars => HeldFlagHasRevert'
  <2>1. HeldFlagHasRevert /\ UNCHANGED vars => HeldFlagHasRevert'
    BY DEF HeldFlagHasRevert, Pending, TimerPending, vars, schedVars, callVars, RevertMsg
  <2>. QED
    BY <2>1, RevertOnItsWay
<1>. QED
  BY <1>1, <1>2, TypeInvariant, PTL DEF Spec

-----------------------------------------------------------------------------
(* What the configuration will be.  Without faults every flag comes to what *)
(* its hold asks for, or to rest, once Storage has handled its mailbox.     *)

\* The flags a write changes.
Writable == {f \in DOMAIN InitDoc : Rest(f) # None}

(* The targeting rules yield what the flag's default is, as the rule of     *)
(* productCatalogFailure does: the scheduler takes the default for resting. *)
RulesAgree == \A f \in DOMAIN InitDoc : InitDoc[f].on # None => InitDoc[f].on = InitDoc[f].default

SameShape ==
    /\ DOMAIN doc = DOMAIN InitDoc
    /\ \A f \in DOMAIN InitDoc :
          /\ doc[f].on = None <=> InitDoc[f].on = None
          /\ doc[f].default = None <=> InitDoc[f].default = None
          /\ InitDoc[f].on # None => doc[f].default = InitDoc[f].default

\* A hold leaves the resting variant and will return to it.
Away(f, variant, resting) == f \in Writable /\ resting = Rest(f) /\ variant # Rest(f)
SpecsRest(specs) ==
    \A f \in DOMAIN specs : \A v \in specs[f].variants : Away(f, v, specs[f].resting)
TriggerRests(m) == m.type = "trigger" => Away(m.flag, m.variant, m.resting)

\* Whatever the scheduler remembers or has sent to itself knows the resting variants.
RestsKnown ==
    /\ SpecsRest(eligible)
    /\ reading /\ reply # None => SpecsRest(EligibleSpecs(reply))
    /\ \A t \in armed : TriggerRests(t.msg)
    /\ \A i \in DOMAIN mailbox : TriggerRests(mailbox[i])
    /\ \A f \in DOMAIN active : Away(f, active[f].variant, active[f].resting)

\* Storage answers start_schedule after everything else it was sent.
ReadIsLast ==
    /\ \A i \in DOMAIN inbox : inbox[i].type = "read" =>
          inbox[i] = ReadMsg("scheduler") /\ i = Len(inbox) /\ reading /\ reply = None
    /\ ~reading => reply = None

WritesTake == \A f \in DOMAIN InitDoc : WritesTo(f) # {} => f \in Writable

RestInv == SameShape /\ RestsKnown /\ ReadIsLast /\ WritesTake /\ AtRestUnlessHeld

\* Storage's mailbox grows.
LEMMA SentOn ==
    ASSUME TypeOK, NEW msgs \in Seq(StorageMessages), inbox' = inbox \o msgs
    PROVE  /\ \A i \in DOMAIN inbox : i \in DOMAIN inbox' /\ inbox'[i] = inbox[i]
           /\ \A k \in DOMAIN msgs : /\ Len(inbox) + k \in DOMAIN inbox'
                                     /\ inbox'[Len(inbox) + k] = msgs[k]
           /\ \A i \in DOMAIN inbox' : i \in DOMAIN inbox \/ \E k \in DOMAIN msgs : i = Len(inbox) + k
           /\ \A i \in DOMAIN inbox : \A k \in DOMAIN msgs : i <= Len(inbox) + k
           /\ \A k, l \in DOMAIN msgs : k <= l => Len(inbox) + k <= Len(inbox) + l
           /\ Len(inbox') = Len(inbox) + Len(msgs)
<1>1. inbox \in Seq(StorageMessages) /\ Len(inbox) \in Nat /\ Len(msgs) \in Nat
  BY DEF TypeOK, StorageTypeOK
<1>2. /\ inbox' \in Seq(StorageMessages)
      /\ Len(inbox') = Len(inbox) + Len(msgs)
      /\ \A i \in 1 .. Len(inbox) + Len(msgs) :
            inbox'[i] = IF i <= Len(inbox) THEN inbox[i] ELSE msgs[i - Len(inbox)]
  BY <1>1, ConcatProperties
<1>3. /\ DOMAIN inbox = 1..Len(inbox) /\ DOMAIN msgs = 1..Len(msgs)
      /\ DOMAIN inbox' = 1..(Len(inbox) + Len(msgs))
  BY <1>1, <1>2
<1>4. ASSUME NEW k \in DOMAIN msgs
      PROVE  /\ Len(inbox) + k \in DOMAIN inbox'
             /\ inbox'[Len(inbox) + k] = msgs[k]
  <2>1. k \in Nat /\ k >= 1 /\ k <= Len(msgs)
    BY <1>1, <1>3
  <2>2. Len(inbox) + k \in 1..(Len(inbox) + Len(msgs)) /\ ~(Len(inbox) + k <= Len(inbox))
        /\ (Len(inbox) + k) - Len(inbox) = k
    BY <1>1, <2>1
  <2>. QED
    BY <1>2, <1>3, <2>2
<1>5. ASSUME NEW i \in DOMAIN inbox', i \notin DOMAIN inbox
      PROVE  \E k \in DOMAIN msgs : i = Len(inbox) + k
  <2>1. i - Len(inbox) \in DOMAIN msgs /\ i = Len(inbox) + (i - Len(inbox))
    BY <1>1, <1>3, <1>5
  <2>. QED
    BY <2>1
<1>. QED
  BY <1>1, <1>2, <1>3, <1>4, <1>5

\* A flag nothing was sent for settles as before.
LEMMA NotSent ==
    ASSUME TypeOK, NEW msgs \in Seq(StorageMessages), inbox' = inbox \o msgs, doc' = doc,
           NEW f, \A k \in DOMAIN msgs : ~(msgs[k].type = "write" /\ msgs[k].flag = f)
    PROVE  /\ WritesTo(f)' = WritesTo(f)
           /\ \A v : Settles(f, v) => Settles(f, v)'
<1>1. ASSUME NEW i \in DOMAIN inbox', inbox'[i].type = "write", inbox'[i].flag = f
      PROVE  i \in DOMAIN inbox
  BY <1>1, SentOn
<1>2. WritesTo(f)' = {i \in DOMAIN inbox' : inbox'[i].type = "write" /\ inbox'[i].flag = f}
  BY DEF WritesTo
<1>3. WritesTo(f)' = WritesTo(f)
  BY <1>1, <1>2, SentOn DEF WritesTo
<1>4. \A i \in WritesTo(f) : inbox'[i] = inbox[i]
  BY SentOn DEF WritesTo
<1>. QED
  BY <1>3, <1>4 DEF Settles

\* A flag settles as the last write that was sent for it.
LEMMA LastSent ==
    ASSUME TypeOK, NEW msgs \in Seq(StorageMessages), inbox' = inbox \o msgs,
           NEW f, NEW v, NEW k \in DOMAIN msgs, msgs[k] = WriteMsg(f, v),
           \A j \in DOMAIN msgs : msgs[j].type = "write" /\ msgs[j].flag = f => j = k
    PROVE  Settles(f, v)'
<1>. DEFINE last == Len(inbox) + k
<1>1. last \in WritesTo(f)' /\ inbox'[last].variant = v
  BY SentOn DEF WritesTo, WriteMsg
<1>2. ASSUME NEW j \in WritesTo(f)'
      PROVE  j <= last
  <2>1. j \in DOMAIN inbox' /\ inbox'[j].type = "write" /\ inbox'[j].flag = f
    BY <1>2 DEF WritesTo
  <2>. QED
    BY <2>1, SentOn
<1>. HIDE DEF last
<1>3. \E i \in WritesTo(f)' : (\A j \in WritesTo(f)' : j <= i) /\ inbox'[i].variant = v
  BY <1>1, <1>2
<1>. QED
  BY <1>3 DEF Settles

LEMMA SettlesOnce ==
    ASSUME TypeOK, NEW f, NEW v, NEW w, Settles(f, v), Settles(f, w)
    PROVE  v = w
<1>1. \A i, j \in WritesTo(f) : i \in Nat /\ j \in Nat
  <2>1. \A i \in DOMAIN inbox : i \in Nat
    BY DEF TypeOK, StorageTypeOK
  <2>. QED
    BY <2>1 DEF WritesTo
<1>2. \A i, j \in WritesTo(f) : i <= j /\ j <= i => i = j
  BY <1>1
<1>. QED
  BY <1>2 DEF Settles

\* Storage handles the head of its mailbox.
LEMMA PopInbox ==
    ASSUME TypeOK, inbox # <<>>, inbox' = Tail(inbox)
    PROVE  /\ \A i \in DOMAIN inbox' : /\ i \in Nat /\ i + 1 \in DOMAIN inbox
                                       /\ i + 1 # 1 /\ inbox'[i] = inbox[i + 1]
           /\ \A i \in DOMAIN inbox : /\ i \in Nat
                                      /\ \/ i = 1
                                         \/ /\ i - 1 \in DOMAIN inbox'
                                            /\ inbox'[i - 1] = inbox[i]
           /\ 1 \in DOMAIN inbox /\ Head(inbox) = inbox[1]
           /\ Len(inbox) \in Nat /\ Len(inbox') = Len(inbox) - 1
<1>1. inbox \in Seq(StorageMessages) /\ Len(inbox) \in Nat /\ Len(inbox) # 0
  BY DEF TypeOK, StorageTypeOK
<1>2. /\ Len(inbox') = Len(inbox) - 1
      /\ \A i \in 1..(Len(inbox) - 1) : inbox'[i] = inbox[i + 1]
      /\ DOMAIN inbox = 1..Len(inbox) /\ DOMAIN inbox' = 1..(Len(inbox) - 1)
  BY <1>1, HeadTailProperties
<1>3. ASSUME NEW i \in DOMAIN inbox, i # 1
      PROVE  i - 1 \in DOMAIN inbox' /\ inbox'[i - 1] = inbox[i]
  <2>1. i - 1 \in 1..(Len(inbox) - 1) /\ (i - 1) + 1 = i
    BY <1>1, <1>2, <1>3
  <2>. QED
    BY <1>2, <2>1
<1>. QED
  BY <1>1, <1>2, <1>3

(* What a flag settles at does not change when Storage handles a message,   *)
(* if a write that is handled gives the flag its variant.                   *)
LEMMA Handled ==
    ASSUME TypeOK, inbox # <<>>, inbox' = Tail(inbox), NEW f, NEW v, Settles(f, v),
           IF Head(inbox).type = "write" /\ Head(inbox).flag = f
              THEN Toggle(doc'[f]) = Head(inbox).variant
              ELSE doc'[f] = doc[f]
    PROVE  Settles(f, v)'
<1>1. /\ \A i \in WritesTo(f)' : i \in Nat /\ i + 1 \in WritesTo(f) /\ inbox'[i] = inbox[i + 1]
                                 /\ i + 1 # 1
      /\ \A i \in WritesTo(f) :
            i \in Nat /\ (i # 1 => i - 1 \in WritesTo(f)' /\ inbox'[i - 1] = inbox[i])
  BY PopInbox DEF WritesTo
<1>2. 1 \in WritesTo(f) <=> Head(inbox).type = "write" /\ Head(inbox).flag = f
  BY PopInbox DEF WritesTo
<1>3. CASE WritesTo(f) = {} /\ Toggle(doc[f]) = v
  BY <1>1, <1>2, <1>3 DEF Settles, Toggle
<1>4. ASSUME NEW i \in WritesTo(f), \A j \in WritesTo(f) : j <= i, inbox[i].variant = v
      PROVE  Settles(f, v)'
  <2>1. CASE i = 1
    <3>1. \A j \in WritesTo(f)' : FALSE
      BY <1>1, <1>4, <2>1
    <3>2. Toggle(doc'[f]) = v
      BY <1>2, <1>4, <2>1, PopInbox
    <3>. QED
      BY <3>1, <3>2 DEF Settles, Toggle
  <2>2. CASE i # 1
    <3>1. i - 1 \in WritesTo(f)' /\ i \in Nat
      BY <1>1, <1>4, <2>2
    <3>2. inbox'[i - 1] = inbox[i]
      BY <1>1, <1>4, <2>2
    <3>3. \A j \in WritesTo(f)' : j <= i - 1
      BY <1>1, <1>4, <3>1
    <3>4. \E k \in WritesTo(f)' : (\A j \in WritesTo(f)' : j <= k) /\ inbox'[k].variant = v
      BY <1>4, <3>1, <3>2, <3>3
    <3>. QED
      BY <3>4 DEF Settles
  <2>. QED
    BY <2>1, <2>2
<1>. QED
  BY <1>3, <1>4 DEF Settles

\* revert_all sends one write for each held flag, of its resting variant.
LEMMA RevertWritesOnce ==
    ASSUME TypeOK, NEW order \in Orderings(DOMAIN active)
    PROVE  /\ RevertWrites(order) \in Seq(StorageMessages)
           /\ \A k \in DOMAIN RevertWrites(order) : \E f \in DOMAIN active :
                 RevertWrites(order)[k] = WriteMsg(f, active[f].resting)
           /\ \A f \in DOMAIN active : \E k \in DOMAIN RevertWrites(order) :
                 /\ RevertWrites(order)[k] = WriteMsg(f, active[f].resting)
                 /\ \A j \in DOMAIN RevertWrites(order) :
                       RevertWrites(order)[j].flag = f => j = k
<1>. DEFINE n == Cardinality(DOMAIN active)
<1>1. n \in Nat /\ IsFiniteSet(DOMAIN active)
  BY FlagsAssumption, FS_Subset, FS_CardinalityType DEF TypeOK
<1>2. order \in [1..n -> DOMAIN active] /\ \A x \in DOMAIN active : \E i \in 1..n : order[i] = x
  BY DEF Orderings
<1>3. \A i, j \in 1..n : order[i] = order[j] => i = j
  <2>1. IsFiniteSet(1..n) /\ Cardinality(1..n) = Cardinality(DOMAIN active)
    BY <1>1, FS_Interval
  <2>2. order \in Surjection(1..n, DOMAIN active)
    BY <1>2 DEF Surjection
  <2>. HIDE DEF n
  <2>3. order \in Injection(1..n, DOMAIN active)
    BY <2>1, <2>2, FS_SurjSameCardinalityImpliesInj
  <2>. QED
    BY <2>3 DEF Injection, IsInjective
<1>4. RevertWrites(order) \in Seq(StorageMessages)
  BY RevertWritesType DEF TypeOK
<1>. HIDE DEF n
<1>5. /\ DOMAIN RevertWrites(order) = 1..n
      /\ \A i \in 1..n : RevertWrites(order)[i] = WriteMsg(order[i], active[order[i]].resting)
  BY <1>2 DEF RevertWrites
<1>6. \A i \in 1..n : \E f \in DOMAIN active :
        RevertWrites(order)[i] = WriteMsg(f, active[f].resting)
  BY <1>2, <1>5
<1>7. ASSUME NEW f \in DOMAIN active
      PROVE  \E k \in 1..n :
                /\ RevertWrites(order)[k] = WriteMsg(f, active[f].resting)
                /\ \A j \in 1..n : RevertWrites(order)[j].flag = f => j = k
  <2>1. PICK k \in 1..n : order[k] = f
    BY <1>2
  <2>2. \A j \in 1..n : RevertWrites(order)[j].flag = order[j]
    BY <1>5 DEF WriteMsg
  <2>. QED
    BY <1>3, <1>5, <2>1, <2>2
<1>8. DOMAIN RevertWrites(order) = 1..n
  BY <1>5
<1>. QED
  BY <1>4, <1>6, <1>7, <1>8, Zenon

(* After revert_all every flag is, or is about to be, at rest.              *)
LEMMA AllAtRest ==
    ASSUME TypeOK, RestsKnown, AtRestUnlessHeld, WritesTake, doc' = doc,
           NEW then \in Seq(StorageMessages), \A k \in DOMAIN then : then[k].type # "write",
           RevertAll(then)
    PROVE  /\ \A f \in DOMAIN InitDoc : Settles(f, Rest(f))'
           /\ WritesTake'
           /\ \A i \in DOMAIN inbox : i \in DOMAIN inbox' /\ inbox'[i] = inbox[i]
           /\ \A i \in DOMAIN inbox' :
                 \/ i \in DOMAIN inbox
                 \/ inbox'[i].type = "write"
                 \/ \E k \in DOMAIN then :
                       i \in Nat /\ inbox'[i] = then[k] /\ Len(inbox') = i + Len(then) - k
<1>1. PICK order \in Orderings(DOMAIN active) : inbox' = inbox \o RevertWrites(order) \o then
  BY DEF RevertAll
<1>. DEFINE W == RevertWrites(order)
           msgs == W \o then
<1>2. W \in Seq(StorageMessages) /\ inbox \in Seq(StorageMessages)
  BY RevertWritesOnce DEF TypeOK, StorageTypeOK
<1>3. msgs \in Seq(StorageMessages) /\ inbox' = inbox \o msgs
  BY <1>1, <1>2, ConcatProperties, ConcatAssociative, SMTT(30)
<1>4. Len(W) \in Nat /\ Len(then) \in Nat /\ DOMAIN W = 1..Len(W) /\ DOMAIN then = 1..Len(then)
  BY <1>2
<1>5. /\ DOMAIN msgs = 1..(Len(W) + Len(then)) /\ Len(msgs) = Len(W) + Len(then)
      /\ \A k \in DOMAIN msgs : msgs[k] = IF k <= Len(W) THEN W[k] ELSE then[k - Len(W)]
  BY <1>2, <1>3, <1>4, ConcatProperties
<1>6. /\ \A k \in DOMAIN W : k \in DOMAIN msgs /\ msgs[k] = W[k]
      /\ \A k \in DOMAIN msgs : \/ k \in DOMAIN W
                               \/ /\ k - Len(W) \in DOMAIN then
                                  /\ msgs[k] = then[k - Len(W)]
  BY <1>4, <1>5
<1>7. \A k \in DOMAIN msgs : msgs[k].type = "write" => k \in DOMAIN W
  BY <1>6
<1>8. /\ \A k \in DOMAIN W : \E f \in DOMAIN active : W[k] = WriteMsg(f, active[f].resting)
      /\ \A f \in DOMAIN active : \E k \in DOMAIN W :
            /\ W[k] = WriteMsg(f, active[f].resting)
            /\ \A j \in DOMAIN W : W[j].flag = f => j = k
  BY RevertWritesOnce
<1>. HIDE DEF W, msgs
<1>9. ASSUME NEW f \in DOMAIN active
      PROVE  Settles(f, Rest(f))' /\ f \in Writable
  <2>1. PICK k \in DOMAIN W : /\ W[k] = WriteMsg(f, active[f].resting)
                              /\ \A j \in DOMAIN W : W[j].flag = f => j = k
    BY <1>8
  <2>2. k \in DOMAIN msgs /\ msgs[k] = WriteMsg(f, Rest(f)) /\ f \in Writable
    BY <1>6, <2>1 DEF RestsKnown, Away
  <2>3. \A j \in DOMAIN msgs : msgs[j].type = "write" /\ msgs[j].flag = f => j = k
    BY <1>6, <1>7, <2>1
  <2>4. \A v : msgs[k] = WriteMsg(f, v) => Settles(f, v)'
    BY ONLY TypeOK, <1>3, <2>2, <2>3, LastSent
  <2>5. Settles(f, Rest(f))'
    BY <2>2, <2>4
  <2>. QED
    BY <2>2, <2>5
<1>10. ASSUME NEW f \in DOMAIN InitDoc, f \notin DOMAIN active
       PROVE  Settles(f, Rest(f))' /\ WritesTo(f)' = WritesTo(f)
  <2>1. \A k \in DOMAIN msgs : ~(msgs[k].type = "write" /\ msgs[k].flag = f)
    BY <1>6, <1>7, <1>8, <1>10 DEF WriteMsg
  <2>2. Settles(f, Rest(f))
    BY <1>10 DEF AtRestUnlessHeld, Held
  <2>. QED
    BY <1>3, <2>1, <2>2, NotSent DEF Rest
<1>11. ASSUME NEW i \in DOMAIN inbox', i \notin DOMAIN inbox, inbox'[i].type # "write"
       PROVE  \E k \in DOMAIN then :
                  i \in Nat /\ inbox'[i] = then[k] /\ Len(inbox') = i + Len(then) - k
  <2>1. PICK k \in DOMAIN msgs : i = Len(inbox) + k /\ inbox'[i] = msgs[k]
    BY <1>3, <1>11, SentOn
  <2>2. k \notin DOMAIN W
    BY <1>6, <1>8, <1>11, <2>1 DEF WriteMsg
  <2>3. k - Len(W) \in DOMAIN then /\ k \in Nat /\ inbox'[i] = then[k - Len(W)]
    BY <1>5, <1>4, <1>6, <2>1, <2>2
  <2>4. Len(inbox') = Len(inbox) + Len(msgs) /\ Len(inbox) \in Nat
    BY <1>2, <1>3, SentOn
  <2>5. Len(inbox') = i + Len(then) - (k - Len(W)) /\ i \in Nat
    BY <1>4, <1>5, <2>1, <2>3, <2>4
  <2>. QED
    BY <2>3, <2>5
<1>12. \A i \in DOMAIN inbox : i \in DOMAIN inbox' /\ inbox'[i] = inbox[i]
  BY <1>3, SentOn
<1>13. WritesTake'
  BY <1>9, <1>10 DEF WritesTake, Writable, Rest
<1>. QED
  BY <1>9, <1>10, <1>11, <1>12, <1>13

\* A write gives a flag its variant and leaves what the document looks like.
LEMMA WriteTakes ==
    ASSUME TypeOK, SameShape, NEW f, NEW v \in Variants, doc' = UpdateFlag(doc, f, v)
    PROVE  /\ SameShape'
           /\ f \in Writable => Toggle(doc'[f]) = v
           /\ \A g \in DOMAIN InitDoc : g # f => doc'[g] = doc[g]
<1>1. v # None
  BY NoneAssumption
<1>2. DOMAIN doc = DOMAIN InitDoc /\ doc \in [DOMAIN InitDoc -> FlagData]
  BY DEF SameShape, TypeOK, StorageTypeOK, Documents
<1>3. DOMAIN doc' = DOMAIN InitDoc /\ \A g \in DOMAIN InitDoc : g # f => doc'[g] = doc[g]
  BY <1>2 DEF UpdateFlag
<1>4. ASSUME f \in DOMAIN InitDoc
      PROVE  /\ doc[f].on # None => doc'[f] = [doc[f] EXCEPT !.on = v]
             /\ doc[f].on = None /\ doc[f].default # None
                  => doc'[f] = [doc[f] EXCEPT !.default = v]
             /\ doc[f].on = None /\ doc[f].default = None => doc'[f] = doc[f]
             /\ doc[f] \in FlagData
  BY <1>2, <1>4 DEF UpdateFlag
<1>5. f \in DOMAIN InitDoc =>
        /\ doc'[f].on = None <=> InitDoc[f].on = None
        /\ doc'[f].default = None <=> InitDoc[f].default = None
        /\ InitDoc[f].on # None => doc'[f].default = InitDoc[f].default
        /\ f \in Writable => Toggle(doc'[f]) = v
  BY <1>1, <1>4 DEF SameShape, FlagData, Writable, Toggle, Rest
<1>. QED
  BY <1>3, <1>5 DEF SameShape, Writable

\* With every flag at rest, what Storage answers shows the resting variants.
LEMMA AnswerRests ==
    ASSUME RulesAgree, TypeOK, SameShape, \A f \in DOMAIN InitDoc : Toggle(doc[f]) = Rest(f)
    PROVE  SpecsRest(EligibleSpecs(doc))
<1>1. DOMAIN doc = DOMAIN InitDoc /\ DOMAIN InitDoc \subseteq Flags
  BY InitDocAssumption DEF SameShape, Documents
<1>2. ASSUME NEW f \in DOMAIN InitDoc, doc[f].default \in Offers[f]
      PROVE  f \in Writable /\ doc[f].default = Rest(f)
  <2>1. doc[f].default # None
    BY <1>1, <1>2, OffersAssumption, NoneAssumption
  <2>. QED
    BY <2>1 DEF RulesAgree, SameShape, Writable, Toggle, Rest
<1>3. ASSUME NEW f \in DOMAIN EligibleSpecs(doc), NEW v \in EligibleSpecs(doc)[f].variants
      PROVE  Away(f, v, EligibleSpecs(doc)[f].resting)
  <2>1. /\ f \in DOMAIN doc /\ doc[f].default \in Offers[f]
        /\ EligibleSpecs(doc)[f].resting = doc[f].default
        /\ v # doc[f].default
    BY <1>3 DEF EligibleSpecs
  <2>. QED
    BY <1>1, <1>2, <2>1 DEF Away
<1>. QED
  BY <1>3 DEF SpecsRest

LEMMA PlannedRest ==
    ASSUME NEW c \in Configs, NEW e, NEW specs, DOMAIN specs \subseteq Flags,
           specs \in [DOMAIN specs -> Specs], SpecsRest(specs), NEW kept, NEW keys,
           BeginInterval(c, e, specs, kept, keys)
    PROVE  \A t \in armed' : t \in kept \/ TriggerRests(t.msg)
<1>1. PICK plan \in Plans(c, specs) : \A t \in armed' :
          \/ t \in kept
          \/ t.msg = IntervalMsg(e)
          \/ \E f \in DOMAIN plan : t.msg = TriggerMsg(e, f, plan[f])
  BY DEF BeginInterval
<1>2. ASSUME NEW f \in DOMAIN plan
      PROVE  Away(f, plan[f].variant, plan[f].resting)
  <2>1. f \in DOMAIN specs /\ plan[f] \in PlansOf(c, specs, f)
    BY PlanType DEF Candidates
  <2>2. plan[f].variant \in specs[f].variants /\ plan[f].resting = specs[f].resting
    BY <2>1 DEF PlansOf, Allowed
  <2>. QED
    BY <2>1, <2>2 DEF SpecsRest
<1>3. TriggerRests(IntervalMsg(e))
  BY DEF TriggerRests, IntervalMsg
<1>4. ASSUME NEW f \in DOMAIN plan
      PROVE  TriggerRests(TriggerMsg(e, f, plan[f]))
  BY <1>2, <1>4 DEF TriggerRests, TriggerMsg
<1>. QED
  BY <1>1, <1>3, <1>4

\* The document and the flags in hand stay as they are.
LEMMA RestUntouched ==
    ASSUME RestInv, UNCHANGED <<doc, inbox, active, reading, reply>>
    PROVE  SameShape' /\ ReadIsLast' /\ WritesTake' /\ AtRestUnlessHeld'
<1>1. SameShape' /\ ReadIsLast'
  BY DEF RestInv, SameShape, ReadIsLast
<1>2. \A f : WritesTo(f)' = WritesTo(f)
  BY DEF WritesTo
<1>3. \A f, v : Settles(f, v) => Settles(f, v)'
  BY <1>2 DEF Settles
<1>4. Held' = Held
  BY DEF Held
<1>. QED
  BY <1>1, <1>2, <1>3, <1>4 DEF RestInv, WritesTake, AtRestUnlessHeld, Writable, Rest

\* Timer messages are moved, taken or ignored.
LEMMA MessagesRest ==
    ASSUME RestsKnown, UNCHANGED <<eligible, active, reading, reply>>,
           \A t \in armed' : TriggerRests(t.msg),
           \A i \in DOMAIN mailbox' : TriggerRests(mailbox'[i])
    PROVE  RestsKnown'
<1>1. SpecsRest(eligible)' /\ (reading' /\ reply' # None => SpecsRest(EligibleSpecs(reply))')
  BY DEF RestsKnown, SpecsRest, EligibleSpecs, Away, Rest
<1>. QED
  BY <1>1 DEF RestsKnown, TriggerRests, Away, Writable, Rest

LEMMA RestMailPopped ==
    ASSUME TypeOK, mailbox # <<>>, mailbox' = Tail(mailbox), RestsKnown
    PROVE  \A i \in DOMAIN mailbox' : TriggerRests(mailbox'[i])
BY PopMail DEF RestsKnown

LEMMA RestMailSent ==
    ASSUME TypeOK, NEW m \in Messages, mailbox' = Append(mailbox, m), RestsKnown, TriggerRests(m)
    PROVE  \A i \in DOMAIN mailbox' : TriggerRests(mailbox'[i])
BY AppendMail DEF RestsKnown

LEMMA QuietRest ==
    ASSUME TypeInv, RestInv,
           \/ RejectStart \/ IgnoreStale \/ RequestStop \/ (\E c \in Configs : RequestStart(c))
           \/ Fire \/ Tick \/ NextInterval
    PROVE  RestInv'
<1>. USE DEF TypeInv
<1>1. UNCHANGED <<doc, inbox, active, reading, reply, eligible>>
  BY DEF RejectStart, IgnoreStale, RequestStop, RequestStart, Fire, Tick, NextInterval,
         storageVars, schedVars, callVars
<1>2. RestsKnown /\ \A t \in armed : TriggerRests(t.msg)
  BY DEF RestInv, RestsKnown
<1>3. CASE RejectStart \/ IgnoreStale
  <2>1. mailbox # <<>> /\ mailbox' = Tail(mailbox) /\ armed' = armed
    BY <1>3 DEF RejectStart, IgnoreStale, Take
  <2>. QED
    BY <1>1, <1>2, <2>1, RestMailPopped, MessagesRest, RestUntouched DEF RestInv
<1>4. ASSUME NEW m \in Messages, mailbox' = Append(mailbox, m), TriggerRests(m),
             armed' \subseteq armed
      PROVE  RestInv'
  BY <1>1, <1>2, <1>4, RestMailSent, MessagesRest, RestUntouched DEF RestInv
<1>5. CASE RequestStop
  <2>1. StopMsg \in Messages /\ TriggerRests(StopMsg)
    BY DEF StopMsg, Messages, TriggerRests
  <2>. QED
    BY <1>4, <1>5, <2>1 DEF RequestStop
<1>6. ASSUME NEW c \in Configs, RequestStart(c)
      PROVE  RestInv'
  <2>1. StartMsg(c) \in Messages /\ TriggerRests(StartMsg(c))
    BY DEF StartMsg, Messages, TriggerRests
  <2>. QED
    BY <1>4, <1>6, <2>1 DEF RequestStart
<1>7. CASE Fire
  <2>1. PICK t \in armed : /\ armed' = armed \ {t}
                           /\ mailbox' = Append(mailbox, t.msg)
    BY <1>7 DEF Fire
  <2>2. t.msg \in Messages
    BY DEF TypeOK, ArmedTimers, Messages
  <2>3. TriggerRests(t.msg)
    BY <1>2
  <2>. QED
    BY <1>4, <2>1, <2>2, <2>3
<1>8. CASE Tick
  <2>1. \A t \in armed : [t EXCEPT !.left = @ - 1].msg = t.msg
    BY DEF TypeOK, ArmedTimers
  <2>2. armed' = {[t EXCEPT !.left = @ - 1] : t \in armed} /\ mailbox' = mailbox
    BY <1>8 DEF Tick
  <2>3. \A t \in armed' : TriggerRests(t.msg)
    BY <1>2, <2>1, <2>2
  <2>4. \A i \in DOMAIN mailbox' : TriggerRests(mailbox'[i])
    BY <1>2, <2>2 DEF RestsKnown
  <2>. QED
    BY <1>1, <1>2, <2>3, <2>4, MessagesRest, RestUntouched DEF RestInv
<1>9. CASE NextInterval
  <2>1. /\ mailbox # <<>> /\ mailbox' = Tail(mailbox)
        /\ \E keys : BeginInterval(config, epoch, eligible, armed, keys)
    BY <1>9 DEF NextInterval, Take
  <2>2. /\ config \in Configs /\ DOMAIN eligible \subseteq Flags
        /\ eligible \in [DOMAIN eligible -> Specs] /\ SpecsRest(eligible)
    BY <1>2 DEF TypeOK, RestsKnown
  <2>3. \A t \in armed' : TriggerRests(t.msg)
    BY <1>2, <2>1, <2>2, PlannedRest
  <2>. QED
    BY <1>1, <1>2, <2>1, <2>3, RestMailPopped, MessagesRest, RestUntouched DEF RestInv
<1>. QED
  BY <1>3, <1>5, <1>6, <1>7, <1>8, <1>9

\* Flags are given back all at once: by a start, a stop or the end of the process.
LEMMA ReleaseRest ==
    ASSUME TypeInv, RestInv, MaxFaults = 0, BeginStart \/ Stop \/ RevertRaises \/ ReadExits
    PROVE  RestInv' /\ Held' = {}
<1>. USE DEF TypeInv
<1>1. doc' = doc
  BY DEF BeginStart, Stop, RevertRaises, ReadExits
<1>2. Held' = {}
  BY EmptyType DEF BeginStart, Stop, RevertRaises, ReadExits, FreshProcess, Held
<1>3. SameShape'
  BY <1>1 DEF RestInv, SameShape
<1>4. ASSUME \A f \in DOMAIN InitDoc : Settles(f, Rest(f))'
      PROVE  AtRestUnlessHeld'
  BY <1>2, <1>4 DEF AtRestUnlessHeld, Rest
<1>5. CASE BeginStart
  <2>. DEFINE then == <<ReadMsg("scheduler")>>
  <2>1. /\ RevertAll(then) /\ ~reading /\ reading' /\ reply' = reply
        /\ mailbox' = mailbox /\ armed' \subseteq armed /\ UNCHANGED <<eligible, active>>
    BY <1>5 DEF BeginStart, Take, schedVars
  <2>2. /\ then \in Seq(StorageMessages) /\ Len(then) = 1 /\ DOMAIN then = {1}
        /\ \A k \in DOMAIN then : then[k].type # "write"
    BY CallersAssumption DEF ReadMsg, StorageMessages
  <2>. HIDE DEF then
  <2>3. /\ \A f \in DOMAIN InitDoc : Settles(f, Rest(f))'
        /\ WritesTake'
        /\ \A i \in DOMAIN inbox : i \in DOMAIN inbox' /\ inbox'[i] = inbox[i]
        /\ \A i \in DOMAIN inbox' :
              \/ i \in DOMAIN inbox
              \/ inbox'[i].type = "write"
              \/ \E k \in DOMAIN then :
                    i \in Nat /\ inbox'[i] = then[k] /\ Len(inbox') = i + Len(then) - k
    BY <1>1, <2>1, <2>2, AllAtRest DEF RestInv
  <2>4. ReadIsLast'
    <3>1. \A i \in DOMAIN inbox : inbox[i].type # "read"
      BY <2>1 DEF RestInv, ReadIsLast
    <3>2. reply' = None
      BY <2>1 DEF RestInv, ReadIsLast
    <3>3. then[1] = ReadMsg("scheduler")
      BY DEF then
    <3>4. ASSUME NEW i \in DOMAIN inbox', inbox'[i].type = "read"
          PROVE  inbox'[i] = ReadMsg("scheduler") /\ i = Len(inbox')
      <4>1. i \notin DOMAIN inbox
        BY <2>3, <3>1, <3>4
      <4>2. i \in Nat /\ inbox'[i] = then[1] /\ Len(inbox') = i + Len(then) - 1
        BY <2>2, <2>3, <3>4, <4>1
      <4>. QED
        BY <2>2, <3>3, <4>2
    <3>. QED
      BY <2>1, <3>2, <3>4 DEF ReadIsLast
  <2>5. RestsKnown'
    BY <2>1 DEF RestInv, ReadIsLast, RestsKnown, SpecsRest, TriggerRests, Away, Writable, Rest
  <2>. QED
    BY <1>2, <1>3, <1>4, <2>3, <2>4, <2>5 DEF RestInv
<1>6. CASE Stop \/ RevertRaises \/ ReadExits
  <2>. DEFINE then == <<>>
  <2>1. /\ RevertAll(then) \/ (reading /\ inbox' = inbox)
        /\ ~reading' /\ (~reading \/ ~ReadQueued)
    BY <1>6 DEF Stop, RevertRaises, ReadExits, Take, Terminate, FreshProcess, TypeOK, callVars
  <2>2. /\ then \in Seq(StorageMessages) /\ DOMAIN then = {}
        /\ \A k \in DOMAIN then : then[k].type # "write"
    BY NoWritesType
  <2>3. \A i \in DOMAIN inbox : inbox[i].type # "read"
    BY <2>1 DEF RestInv, ReadIsLast, ReadQueued
  <2>. HIDE DEF then
  <2>4. /\ \A f \in DOMAIN InitDoc : Settles(f, Rest(f))'
        /\ WritesTake'
        /\ \A i \in DOMAIN inbox' : inbox'[i].type # "read"
    <3>1. CASE RevertAll(then)
      <4>1. /\ \A f \in DOMAIN InitDoc : Settles(f, Rest(f))'
            /\ WritesTake'
            /\ \A i \in DOMAIN inbox : i \in DOMAIN inbox' /\ inbox'[i] = inbox[i]
            /\ \A i \in DOMAIN inbox' : i \in DOMAIN inbox \/ inbox'[i].type = "write"
        BY <1>1, <2>2, <3>1, AllAtRest DEF RestInv
      <4>. QED
        BY <2>3, <4>1
    <3>2. CASE reading /\ inbox' = inbox
      <4>1. \A f : WritesTo(f)' = WritesTo(f)
        BY <3>2 DEF WritesTo
      <4>2. \A f, v : Settles(f, v) => Settles(f, v)'
        BY <1>1, <3>2, <4>1 DEF Settles
      <4>3. \A f \in DOMAIN InitDoc : Settles(f, Rest(f))
        BY <3>2 DEF RestInv, AtRestUnlessHeld, Held
      <4>. QED
        BY <2>3, <3>2, <4>1, <4>2, <4>3 DEF RestInv, WritesTake, Rest, Writable
    <3>. QED
      BY <2>1, <3>1, <3>2
  <2>5. reply' = None
    BY <1>6 DEF Stop, RevertRaises, ReadExits, FreshProcess, RestInv, ReadIsLast, Take, callVars
  <2>6. RestsKnown'
    <3>1. CASE Stop
      <4>1. /\ mailbox # <<>> /\ mailbox' = Tail(mailbox) /\ armed' \subseteq armed
            /\ eligible' = eligible /\ active' = Empty
        BY <3>1 DEF Stop, Take
      <4>2. \A i \in DOMAIN mailbox' : TriggerRests(mailbox'[i])
        BY <4>1, RestMailPopped DEF RestInv
      <4>. QED
        BY <2>5, <4>1, <4>2, EmptyType
        DEF RestInv, RestsKnown, SpecsRest, TriggerRests, Away, Writable, Rest
    <3>2. CASE RevertRaises \/ ReadExits
      BY <3>2, <2>5, EmptyType DEF RevertRaises, ReadExits, FreshProcess, RestsKnown, SpecsRest
    <3>. QED
      BY <1>6, <3>1, <3>2
  <2>7. ReadIsLast'
    BY <2>4, <2>5 DEF ReadIsLast
  <2>. QED
    BY <1>2, <1>3, <1>4, <2>4, <2>6, <2>7 DEF RestInv
<1>. QED
  BY <1>5, <1>6

\* One flag is written, by a trigger or a revert.
LEMMA OneSent ==
    ASSUME TypeOK, RestInv, ~reading, ~reading', reply' = reply, doc' = doc,
           NEW f \in Flags, f \in Writable, NEW v \in Variants,
           inbox' = Append(inbox, WriteMsg(f, v))
    PROVE  /\ SameShape' /\ ReadIsLast' /\ WritesTake'
           /\ Settles(f, v)'
           /\ \A g : g # f => \A w : Settles(g, w) => Settles(g, w)'
<1>. DEFINE msgs == <<WriteMsg(f, v)>>
<1>1. WriteMsg(f, v) \in StorageMessages /\ inbox \in Seq(StorageMessages)
  BY DEF WriteMsg, StorageMessages, TypeOK, StorageTypeOK
<1>2. msgs \in Seq(StorageMessages) /\ inbox' = inbox \o msgs
  BY <1>1, AppendIsConcat
<1>3. /\ 1 \in DOMAIN msgs /\ msgs[1] = WriteMsg(f, v) /\ \A k \in DOMAIN msgs : k = 1
      /\ \A k \in DOMAIN msgs : msgs[k].type = "write" /\ msgs[k].flag = f
  BY DEF WriteMsg
<1>. HIDE DEF msgs
<1>4. Settles(f, v)'
  BY ONLY TypeOK, <1>2, <1>3, LastSent
<1>5. ASSUME NEW g, g # f
      PROVE  WritesTo(g)' = WritesTo(g) /\ \A w : Settles(g, w) => Settles(g, w)'
  <2>1. \A k \in DOMAIN msgs : ~(msgs[k].type = "write" /\ msgs[k].flag = g)
    BY <1>3, <1>5
  <2>. QED
    BY ONLY TypeOK, doc' = doc, <1>2, <2>1, NotSent
<1>6. \A i \in DOMAIN inbox' : inbox'[i].type # "read"
  <2>1. \A i \in DOMAIN inbox : inbox[i].type # "read"
    BY DEF RestInv, ReadIsLast
  <2>2. ASSUME NEW i \in DOMAIN inbox', i \notin DOMAIN inbox
        PROVE  inbox'[i].type = "write"
    <3>1. PICK k \in DOMAIN msgs : i = Len(inbox) + k /\ inbox'[i] = msgs[k]
      BY <1>2, <2>2, SentOn
    <3>. QED
      BY <1>3, <3>1
  <2>3. \A i \in DOMAIN inbox : inbox'[i] = inbox[i]
    BY <1>2, SentOn
  <2>. QED
    BY <2>1, <2>2, <2>3
<1>7. WritesTake'
  BY <1>5 DEF RestInv, WritesTake, Writable, Rest
<1>8. ReadIsLast' /\ SameShape'
  BY <1>6 DEF RestInv, ReadIsLast, SameShape
<1>. QED
  BY <1>4, <1>5, <1>7, <1>8

LEMMA AtRestNext ==
    ASSUME \A g \in DOMAIN InitDoc : \E w :
              /\ w = IF g \in Held' THEN active'[g].variant ELSE Rest(g)
              /\ Settles(g, w)'
    PROVE  AtRestUnlessHeld'
<1>1. SUFFICES ASSUME NEW g \in DOMAIN InitDoc
               PROVE  Settles(g, IF g \in Held THEN active[g].variant ELSE Rest(g))'
  BY DEF AtRestUnlessHeld
<1>2. PICK w : /\ w = IF g \in Held' THEN active'[g].variant ELSE Rest(g)
               /\ Settles(g, w)'
  OBVIOUS
<1>3. w = (IF g \in Held THEN active[g].variant ELSE Rest(g))'
  BY <1>2 DEF Rest
<1>. QED
  BY <1>2, <1>3 DEF Settles

LEMMA TriggerRest ==
    ASSUME TypeInv, RestInv, Trigger
    PROVE  RestInv'
<1>. USE DEF TypeInv
<1>. DEFINE m == Head(mailbox)
<1>1. /\ ~reading /\ ~reading' /\ reply' = reply /\ doc' = doc /\ eligible' = eligible
      /\ mailbox # <<>> /\ mailbox' = Tail(mailbox)
      /\ m \in Messages /\ m.type = "trigger"
      /\ inbox' = Append(inbox, WriteMsg(m.flag, m.variant))
      /\ active' = [f \in DOMAIN active \cup {m.flag} |->
                      IF f = m.flag THEN [variant |-> m.variant, resting |-> m.resting]
                                    ELSE active[f]]
      /\ \A t \in armed' : t \in armed \/ t.msg.type = "revert"
  BY TakeType DEF Trigger, callVars, ArmRevert, RevertMsg
<1>2. m.flag \in Flags /\ m.variant \in Variants
  BY <1>1 DEF Messages, TimerMessages, StopMsg
<1>3. Away(m.flag, m.variant, m.resting)
  BY <1>1, PopMail DEF RestInv, RestsKnown, TriggerRests
<1>. HIDE DEF m
<1>. PICK h \in Flags, v \in Variants : h = m.flag /\ v = m.variant
  BY <1>2
<1>4. /\ SameShape' /\ ReadIsLast' /\ WritesTake'
      /\ Settles(h, v)'
      /\ \A g : g # h => \A w : Settles(g, w) => Settles(g, w)'
  <2>1. h \in Writable /\ inbox' = Append(inbox, WriteMsg(h, v))
    BY <1>1, <1>3 DEF Away
  <2>. QED
    BY <1>1, <2>1, OneSent
<1>5. AtRestUnlessHeld'
  <2>1. Held = DOMAIN active /\ Held' = DOMAIN active \cup {h}
    BY <1>1 DEF Held
  <2>2. ASSUME NEW g \in DOMAIN InitDoc, g # h
        PROVE  \E w : /\ w = IF g \in Held' THEN active'[g].variant ELSE Rest(g)
                      /\ Settles(g, w)'
    <3>1. PICK w : w = (IF g \in Held THEN active[g].variant ELSE Rest(g)) /\ Settles(g, w)
      BY DEF RestInv, AtRestUnlessHeld
    <3>2. w = IF g \in Held' THEN active'[g].variant ELSE Rest(g)
      BY <1>1, <2>1, <2>2, <3>1
    <3>. QED
      BY <1>4, <2>2, <3>1, <3>2
  <2>3. v = IF h \in Held' THEN active'[h].variant ELSE Rest(h)
    BY <1>1, <2>1
  <2>. QED
    BY <1>4, <2>2, <2>3, AtRestNext
<1>6. RestsKnown'
  <2>1. \A i \in DOMAIN mailbox' : TriggerRests(mailbox'[i])
    BY <1>1, RestMailPopped DEF RestInv
  <2>2. \A f \in DOMAIN active' : Away(f, active'[f].variant, active'[f].resting)
    BY <1>1, <1>3 DEF RestInv, RestsKnown
  <2>3. \A t \in armed' : TriggerRests(t.msg)
    BY <1>1 DEF RestInv, RestsKnown, TriggerRests
  <2>. QED
    BY <1>1, <2>1, <2>2, <2>3
    DEF RestInv, RestsKnown, SpecsRest, TriggerRests, Away, Writable, Rest
<1>. QED
  BY <1>4, <1>5, <1>6 DEF RestInv

LEMMA RevertRest ==
    ASSUME TypeInv, RestInv, Revert
    PROVE  RestInv'
<1>. USE DEF TypeInv
<1>. DEFINE h == Head(mailbox).flag
<1>1. /\ ~reading /\ ~reading' /\ reply' = reply /\ doc' = doc /\ eligible' = eligible
      /\ mailbox # <<>> /\ mailbox' = Tail(mailbox) /\ armed' = armed
      /\ h \in DOMAIN active /\ active' = Without(active, {h})
      /\ inbox' = Append(inbox, WriteMsg(h, active[h].resting))
  BY TakeType DEF Revert, callVars
<1>2. h \in Flags /\ active[h].resting \in Variants
  BY <1>1 DEF TypeOK, Activations
<1>3. Away(h, active[h].variant, active[h].resting)
  BY <1>1 DEF RestInv, RestsKnown
<1>. HIDE DEF h
<1>. PICK f \in Flags, v \in Variants : f = h /\ v = active[h].resting
  BY <1>2
<1>4. /\ SameShape' /\ ReadIsLast' /\ WritesTake'
      /\ Settles(f, v)'
      /\ \A g : g # f => \A w : Settles(g, w) => Settles(g, w)'
  <2>1. f \in Writable /\ inbox' = Append(inbox, WriteMsg(f, v))
    BY <1>1, <1>3 DEF Away
  <2>. QED
    BY <1>1, <2>1, OneSent
<1>5. AtRestUnlessHeld'
  <2>1. Held = DOMAIN active /\ Held' = DOMAIN active \ {f}
    BY <1>1 DEF Held, Without
  <2>2. ASSUME NEW g \in DOMAIN InitDoc, g # f
        PROVE  \E w : /\ w = IF g \in Held' THEN active'[g].variant ELSE Rest(g)
                      /\ Settles(g, w)'
    <3>1. PICK w : w = (IF g \in Held THEN active[g].variant ELSE Rest(g)) /\ Settles(g, w)
      BY DEF RestInv, AtRestUnlessHeld
    <3>2. w = IF g \in Held' THEN active'[g].variant ELSE Rest(g)
      BY <1>1, <2>1, <2>2, <3>1 DEF Without
    <3>. QED
      BY <1>4, <2>2, <3>1, <3>2
  <2>3. v = IF f \in Held' THEN active'[f].variant ELSE Rest(f)
    BY <1>3, <2>1 DEF Away
  <2>. QED
    BY <1>4, <2>2, <2>3, AtRestNext
<1>6. RestsKnown'
  <2>1. \A i \in DOMAIN mailbox' : TriggerRests(mailbox'[i])
    BY <1>1, RestMailPopped DEF RestInv
  <2>2. \A g \in DOMAIN active' : Away(g, active'[g].variant, active'[g].resting)
    BY <1>1 DEF RestInv, RestsKnown, Without
  <2>. QED
    BY <1>1, <2>1, <2>2
    DEF RestInv, RestsKnown, SpecsRest, TriggerRests, Away, Writable, Rest
<1>. QED
  BY <1>4, <1>5, <1>6 DEF RestInv

LEMMA FinishRest ==
    ASSUME TypeInv, RestInv, FinishStart
    PROVE  RestInv'
<1>. USE DEF TypeInv
<1>. DEFINE c == Head(mailbox).config
           specs == EligibleSpecs(reply)
<1>1. /\ reading /\ reply # None /\ ~reading' /\ reply' = None /\ active' = Empty
      /\ eligible' = specs /\ UNCHANGED <<doc, inbox>>
      /\ mailbox # <<>> /\ mailbox' = Tail(mailbox)
      /\ BeginInterval(c, NextEpoch, specs, armed, Empty)
  BY DEF FinishStart, StartInHand, storageVars
<1>2. c \in Configs
  <2>1. Head(mailbox) \in Messages /\ Head(mailbox).type = "start_schedule"
    BY <1>1, HeadTailProperties DEF StartInHand, TypeOK
  <2>. QED
    BY <2>1 DEF Messages, TimerMessages, StopMsg
<1>3. DOMAIN specs \subseteq Flags /\ specs \in [DOMAIN specs -> Specs]
  <2>1. reply \in Documents
    BY <1>1 DEF TypeOK
  <2>. QED
    BY <2>1, EligibleType
<1>4. SpecsRest(specs)
  BY <1>1 DEF RestInv, RestsKnown
<1>. HIDE DEF c, specs
<1>5. \A t \in armed' : TriggerRests(t.msg)
  BY <1>1, <1>2, <1>3, <1>4, PlannedRest DEF RestInv, RestsKnown
<1>6. RestsKnown'
  <2>1. \A i \in DOMAIN mailbox' : TriggerRests(mailbox'[i])
    BY <1>1, RestMailPopped DEF RestInv
  <2>. QED
    BY <1>1, <1>4, <1>5, <2>1, EmptyType
    DEF RestsKnown, SpecsRest, TriggerRests, Away, Writable, Rest
<1>7. \A f : WritesTo(f)' = WritesTo(f)
  BY <1>1 DEF WritesTo
<1>8. \A f, v : Settles(f, v) => Settles(f, v)'
  BY <1>1, <1>7 DEF Settles
<1>9. AtRestUnlessHeld'
  <2>1. \A g \in DOMAIN InitDoc : Settles(g, Rest(g))
    BY <1>1 DEF RestInv, AtRestUnlessHeld, Held
  <2>2. Held' = {}
    BY <1>1, EmptyType DEF Held
  <2>. QED
    BY <1>8, <2>1, <2>2, AtRestNext
<1>10. SameShape' /\ WritesTake'
  BY <1>1, <1>7 DEF RestInv, SameShape, WritesTake, Writable, Rest
<1>11. ReadIsLast'
  BY <1>1 DEF RestInv, ReadIsLast
<1>. QED
  BY <1>6, <1>9, <1>10, <1>11 DEF RestInv

LEMMA StorageRest ==
    ASSUME RulesAgree, TypeInv, RestInv, StorageStep
    PROVE  RestInv' /\ Held' = Held
<1>. USE DEF TypeInv
<1>1. /\ inbox # <<>> /\ inbox' = Tail(inbox) /\ Head(inbox) \in StorageMessages
      /\ UNCHANGED <<active, reading, eligible, armed, mailbox>>
  BY ReceiveType DEF StorageStep, StorageWrite, StorageRead, HandleWrite, schedVars, callVars
<1>2. Held' = Held
  BY <1>1 DEF Held
<1>3. WritesTake'
  <2>1. ASSUME NEW f, NEW i \in WritesTo(f)'
        PROVE  WritesTo(f) # {}
    <3>1. i + 1 \in WritesTo(f)
      BY <1>1, <2>1, PopInbox DEF WritesTo
    <3>. QED
      BY <3>1
  <2>. QED
    BY <2>1 DEF RestInv, WritesTake, Writable, Rest
<1>4. ASSUME \A f \in DOMAIN InitDoc : \A v : Settles(f, v) => Settles(f, v)'
      PROVE  AtRestUnlessHeld'
  <2>1. ASSUME NEW g \in DOMAIN InitDoc
        PROVE  \E w : /\ w = IF g \in Held' THEN active'[g].variant ELSE Rest(g)
                      /\ Settles(g, w)'
    <3>1. PICK w : w = (IF g \in Held THEN active[g].variant ELSE Rest(g)) /\ Settles(g, w)
      BY DEF RestInv, AtRestUnlessHeld
    <3>. QED
      BY <1>1, <1>2, <1>4, <3>1
  <2>. QED
    BY <2>1, AtRestNext
<1>5. CASE StorageWrite
  <2>1. PICK f \in Flags, v \in Variants :
            /\ Head(inbox).type = "write" /\ f = Head(inbox).flag /\ v = Head(inbox).variant
            /\ doc' = UpdateFlag(doc, f, v) /\ reply' = reply
    BY <1>5, <1>1, ReceiveType
    DEF StorageWrite, HandleWrite, Receive, Persist, StorageMessages, callVars
  <2>2. /\ SameShape'
        /\ f \in Writable => Toggle(doc'[f]) = v
        /\ \A g \in DOMAIN InitDoc : g # f => doc'[g] = doc[g]
    BY <2>1, WriteTakes DEF RestInv
  <2>3. f \in DOMAIN InitDoc => f \in Writable
    <3>1. 1 \in WritesTo(f)
      BY <1>1, <2>1, PopInbox DEF WritesTo
    <3>. QED
      BY <3>1 DEF RestInv, WritesTake
  <2>4. ASSUME NEW g \in DOMAIN InitDoc, NEW w, Settles(g, w)
        PROVE  Settles(g, w)'
    <3>1. IF Head(inbox).type = "write" /\ Head(inbox).flag = g
             THEN Toggle(doc'[g]) = Head(inbox).variant
             ELSE doc'[g] = doc[g]
      BY <2>1, <2>2, <2>3
    <3>. QED
      BY ONLY TypeOK, <1>1, <2>4, <3>1, Handled
  <2>5. ReadIsLast'
    BY <1>1, <2>1, PopInbox DEF RestInv, ReadIsLast
  <2>6. RestsKnown'
    BY <1>1, <2>1, MessagesRest DEF RestInv, RestsKnown
  <2>. QED
    BY <1>2, <1>3, <1>4, <2>2, <2>4, <2>5, <2>6 DEF RestInv
<1>6. CASE StorageRead
  <2>1. Head(inbox).type = "read" /\ doc' = doc /\ reply' = IF reading THEN doc ELSE reply
    BY <1>6 DEF StorageRead, Receive
  <2>2. reading /\ Len(inbox) = 1 /\ reply' = doc
    BY <1>1, <2>1, PopInbox DEF RestInv, ReadIsLast
  <2>3. DOMAIN inbox' = {} /\ DOMAIN inbox = {1}
    <3>1. inbox \in Seq(StorageMessages) /\ inbox' \in Seq(StorageMessages) /\ Len(inbox') = 0
      BY <1>1, <2>2, HeadTailProperties DEF TypeOK, StorageTypeOK
    <3>. QED
      BY <2>2, <3>1
  <2>4. \A f \in DOMAIN InitDoc : Toggle(doc[f]) = Rest(f)
    <3>1. \A f : WritesTo(f) = {}
      BY <2>1, <2>3, <1>1, PopInbox DEF WritesTo
    <3>. QED
      BY <2>2, <3>1 DEF RestInv, AtRestUnlessHeld, Held, Settles
  <2>5. ReadIsLast'
    BY <1>1, <2>2, <2>3 DEF ReadIsLast
  <2>6. SpecsRest(EligibleSpecs(doc))
    BY <2>4, AnswerRests DEF RestInv
  <2>7. RestsKnown'
    BY <1>1, <2>2, <2>6, ZenonT(40)
    DEF RestInv, RestsKnown, EligibleSpecs, SpecsRest, TriggerRests, Away, Writable, Rest
  <2>8. ASSUME NEW g \in DOMAIN InitDoc, NEW w, Settles(g, w)
        PROVE  Settles(g, w)'
    BY ONLY TypeOK, <1>1, <2>1, <2>8, Handled
  <2>9. SameShape'
    BY <2>1 DEF RestInv, SameShape
  <2>. QED
    BY <1>2, <1>3, <1>4, <2>5, <2>7, <2>8, <2>9 DEF RestInv
<1>. QED
  BY <1>5, <1>6 DEF StorageStep

LEMMA RestStep ==
    ASSUME MaxFaults = 0, RulesAgree, TypeInv, RestInv, [Next]_vars
    PROVE  RestInv'
<1>1. ~(faults < MaxFaults)
  BY DEF TypeInv, TypeOK
<1>2. CASE UNCHANGED vars
  <2>1. UNCHANGED <<doc, inbox, active, reading, reply, eligible, armed, mailbox>>
    BY <1>2 DEF vars, storageVars, schedVars, callVars
  <2>2. RestsKnown'
    BY <2>1, MessagesRest DEF RestInv, RestsKnown
  <2>. QED
    BY <2>1, <2>2, RestUntouched DEF RestInv
<1>. QED
  BY <1>1, <1>2, QuietRest, ReleaseRest, TriggerRest, RevertRest, FinishRest, StorageRest
  DEF Next, SchedulerStep, StorageCrash, ExitScheduler

LEMMA RestInvariant ==
    ASSUME MaxFaults = 0, RulesAgree
    PROVE  Spec => []RestInv
<1>1. Init => RestInv
  <2>1. SUFFICES ASSUME Init PROVE RestInv
    OBVIOUS
  <2>2. \A f : WritesTo(f) = {}
    BY <2>1 DEF Init, WritesTo
  <2>3. AtRestUnlessHeld
    BY <2>1, <2>2, EmptyType DEF Init, AtRestUnlessHeld, Held, Settles, Rest
  <2>4. SameShape /\ ReadIsLast /\ WritesTake
    BY <2>1, <2>2 DEF Init, SameShape, ReadIsLast, WritesTake
  <2>5. RestsKnown
    BY <2>1, EmptyType DEF Init, RestsKnown, SpecsRest
  <2>. QED
    BY <2>3, <2>4, <2>5 DEF RestInv
<1>2. TypeInv /\ RestInv /\ [Next]_vars => RestInv'
  BY RestStep
<1>. QED
  BY <1>1, <1>2, TypeInvariant, PTL DEF Spec

(* Without faults, every flag the scheduler does not hold is, or is about   *)
(* to be, what it was before the scheduler touched it, and a held flag has  *)
(* the variant of its latest activation.                                    *)
THEOREM FlagsComeToRest ==
    ASSUME MaxFaults = 0, RulesAgree
    PROVE  Spec => []AtRestUnlessHeld
<1>1. RestInv => AtRestUnlessHeld
  BY DEF RestInv
<1>. QED
  BY <1>1, RestInvariant, PTL

-----------------------------------------------------------------------------
(* The scheduler implements FlagHolds.                                      *)

\* What FlagHolds sees of the configuration, and what that is.
Value == [f \in DOMAIN InitDoc |-> CHOOSE v \in Variants \cup {None} : Settles(f, v)]
Seen == [f \in DOMAIN InitDoc |-> IF f \in Held THEN active[f].variant ELSE Rest(f)]

LEMMA ValueSeen ==
    ASSUME TypeInv, RestInv
    PROVE  Value = Seen
<1>1. ASSUME NEW f \in DOMAIN InitDoc
      PROVE  (CHOOSE v \in Variants \cup {None} : Settles(f, v))
               = IF f \in Held THEN active[f].variant ELSE Rest(f)
  <2>1. PICK w : w = (IF f \in Held THEN active[f].variant ELSE Rest(f)) /\ Settles(f, w)
    BY DEF RestInv, AtRestUnlessHeld
  <2>2. InitDoc[f] \in FlagData
    BY InitDocAssumption DEF Documents
  <2>3. w \in Variants \cup {None}
    BY <2>1, <2>2 DEF TypeInv, TypeOK, Activations, Held, Rest, Toggle, FlagData
  <2>4. \A v : Settles(f, v) => v = w
    BY <2>1, SettlesOnce DEF TypeInv
  <2>. QED
    BY <2>1, <2>3, <2>4
<1>. QED
  BY <1>1 DEF Value, Seen

\* Each step takes hold of a flag, gives flags back at rest, or shows nothing.
LEMMA SeenStep ==
    ASSUME TypeInv, RestInv, MaxFaults = 0, [Next]_vars
    PROVE  \/ Seen' = Seen /\ Held' = Held
           \/ \E f \in DOMAIN InitDoc, v \in Variants :
                 v # Rest(f) /\ Seen' = [Seen EXCEPT ![f] = v] /\ Held' = Held \cup {f}
           \/ \E S \in SUBSET Held :
                 /\ Seen' = [f \in DOMAIN InitDoc |-> IF f \in S THEN Rest(f) ELSE Seen[f]]
                 /\ Held' = Held \ S
<1>. USE DEF TypeInv
<1>1. ~(faults < MaxFaults)
  BY DEF TypeOK
<1>2. CASE \/ RejectStart \/ IgnoreStale \/ RequestStop \/ (\E c \in Configs : RequestStart(c))
           \/ Fire \/ Tick \/ NextInterval \/ StorageStep \/ UNCHANGED vars
  <2>1. UNCHANGED <<active, reading>>
    BY <1>2 DEF RejectStart, IgnoreStale, RequestStop, RequestStart, Fire, Tick, NextInterval,
                StorageStep, StorageWrite, StorageRead, vars, schedVars, callVars
  <2>. QED
    BY <2>1 DEF Seen, Held, Rest
<1>3. CASE BeginStart \/ Stop \/ RevertRaises \/ ReadExits
  <2>1. Held' = {}
    BY <1>3, ReleaseRest
  <2>2. Seen' = [f \in DOMAIN InitDoc |-> Rest(f)]
    BY <2>1 DEF Seen, Rest
  <2>3. Seen' = [f \in DOMAIN InitDoc |-> IF f \in Held THEN Rest(f) ELSE Seen[f]]
    BY <2>2 DEF Seen
  <2>. QED
    BY <2>1, <2>3
<1>4. CASE FinishStart
  <2>1. Held = {} /\ Held' = {}
    BY <1>4, EmptyType DEF FinishStart, Held
  <2>. QED
    BY <2>1 DEF Seen, Rest
<1>5. CASE Trigger
  <2>. DEFINE m == Head(mailbox)
  <2>1. /\ ~reading /\ ~reading' /\ mailbox # <<>> /\ m \in Messages /\ m.type = "trigger"
        /\ active' = [f \in DOMAIN active \cup {m.flag} |->
                        IF f = m.flag THEN [variant |-> m.variant, resting |-> m.resting]
                                      ELSE active[f]]
    BY <1>5, TakeType DEF Trigger, callVars
  <2>2. m.variant \in Variants
    BY <2>1 DEF Messages, TimerMessages, StopMsg
  <2>3. m.flag \in DOMAIN InitDoc /\ m.variant # Rest(m.flag)
    <3>1. m = mailbox[1] /\ 1 \in DOMAIN mailbox
      <4>1. mailbox \in Seq(Messages)
        BY DEF TypeOK
      <4>. QED
        BY <2>1, <4>1
    <3>. QED
      BY <2>1, <3>1 DEF RestInv, RestsKnown, TriggerRests, Away, Writable
  <2>. HIDE DEF m
  <2>4. Held = DOMAIN active /\ Held' = DOMAIN active \cup {m.flag}
    BY <2>1 DEF Held
  <2>5. Seen' = [Seen EXCEPT ![m.flag] = m.variant]
    BY <2>1, <2>3, <2>4 DEF Seen, Rest
  <2>. QED
    BY <2>2, <2>3, <2>4, <2>5
<1>6. CASE Revert
  <2>. DEFINE h == Head(mailbox).flag
  <2>1. ~reading /\ ~reading' /\ h \in DOMAIN active /\ active' = Without(active, {h})
    BY <1>6, TakeType DEF Revert, callVars
  <2>. HIDE DEF h
  <2>2. Held = DOMAIN active /\ Held' = DOMAIN active \ {h}
    BY <2>1 DEF Held, Without
  <2>3. Seen' = [f \in DOMAIN InitDoc |-> IF f \in {h} THEN Rest(f) ELSE Seen[f]]
    BY <2>1, <2>2 DEF Seen, Rest, Without
  <2>. QED
    BY <2>1, <2>2, <2>3
<1>. QED
  BY <1>1, <1>2, <1>3, <1>4, <1>5, <1>6
  DEF Next, SchedulerStep, StorageCrash, ExitScheduler

LEMMA HoldsStep ==
    ASSUME TypeInv, RestInv, MaxFaults = 0, Value = Seen, Value' = Seen', [Next]_vars
    PROVE  [Holds!Next]_<<Value, Held>>
<1>1. DOMAIN Value = DOMAIN InitDoc
  BY DEF Value
<1>2. ASSUME NEW f \in DOMAIN InitDoc, NEW v \in Variants,
             v # Rest(f), Seen' = [Seen EXCEPT ![f] = v], Held' = Held \cup {f}
      PROVE  Holds!Hold(f, v)
  BY <1>2 DEF Holds!Hold, Value
<1>3. ASSUME NEW S \in SUBSET Held,
             Seen' = [f \in DOMAIN InitDoc |-> IF f \in S THEN Rest(f) ELSE Seen[f]],
             Held' = Held \ S
      PROVE  Holds!Release(S)
  BY <1>1, <1>3 DEF Holds!Release, Value
<1>. QED
  BY <1>1, <1>2, <1>3, SeenStep DEF Holds!Next, Value

(* Seen from outside, the scheduler only ever takes hold of flags and gives *)
(* them back at rest, whatever the order in which timer messages, requests  *)
(* and Storage's mailbox are handled: it implements FlagHolds.              *)
THEOREM HoldsImplemented ==
    ASSUME MaxFaults = 0, RulesAgree
    PROVE  Spec => ImplementsHolds
<1>1. Init /\ Value = Seen => Holds!Init
  BY EmptyType DEF Init, Holds!Init, Value, Seen, Held
<1>2. TypeInv /\ RestInv => Value = Seen
  BY ValueSeen
<1>3. TypeInv /\ RestInv /\ Value = Seen /\ (Value = Seen)' /\ [Next]_vars
        => [Holds!Next]_<<Value, Held>>
  BY HoldsStep
<1>. QED
  BY <1>1, <1>2, <1>3, TypeInvariant, RestInvariant, PTL
  DEF Spec, ImplementsHolds, Holds!Spec, Value

-----------------------------------------------------------------------------
(***************************************************************************)
(* The chain of intervals: that it neither dies nor forks, that an         *)
(* interval begins only when the activations of the one before have been   *)
(* carried out, and that the page announces exactly those that are to      *)
(* come.                                                                   *)
(***************************************************************************)
TimerTypes == {"begin_interval", "trigger", "revert"}

\* Timers and messages of the current run.
TimersOf(type) == {t \in armed : t.msg.type = type /\ t.msg.epoch = epoch}
MailOf(type) == {i \in DOMAIN mailbox : mailbox[i].type = type /\ mailbox[i].epoch = epoch}

\* No message is of a run yet to come.
EpochsPast ==
    /\ \A t \in armed : t.msg.epoch <= epoch
    /\ \A i \in DOMAIN mailbox : mailbox[i].type \in TimerTypes => mailbox[i].epoch <= epoch

\* One interval is ahead, as a timer or as a message.
OneInterval ==
    \/ /\ \E t \in armed : TimersOf("begin_interval") = {t}
       /\ MailOf("begin_interval") = {}
    \/ /\ TimersOf("begin_interval") = {}
       /\ \E i \in DOMAIN mailbox : MailOf("begin_interval") = {i}

\* No flag has two triggers ahead.
TriggersUnique ==
    /\ \A t, u \in TimersOf("trigger") : t.msg.flag = u.msg.flag => t = u
    /\ \A i, j \in MailOf("trigger") : mailbox[i].flag = mailbox[j].flag => i = j
    /\ \A t \in TimersOf("trigger"), i \in MailOf("trigger") : t.msg.flag # mailbox[i].flag

(* Triggers come before the next interval: their timers run out first, and  *)
(* their messages are ahead of its message in the mailbox.                  *)
TriggersFirst ==
    /\ \A t \in TimersOf("begin_interval"), u \in TimersOf("trigger") : u.left < t.left
    /\ \A i \in MailOf("begin_interval") :
          TimersOf("trigger") = {} /\ \A j \in MailOf("trigger") : j < i

Chain == OneInterval /\ TriggersUnique /\ TriggersFirst

\* A run only starts, and the request that is in hand only got there, with a
\* configuration that was found usable.
ValidRuns ==
    /\ running => Valid(config)
    /\ reading => Valid(Head(mailbox).config)

IntervalInv ==
    /\ EpochsPast
    /\ ValidRuns
    /\ running /\ ~reading => Chain /\ nextUp = TriggersPending

-----------------------------------------------------------------------------
\* The head of the mailbox is taken, and it is not the next interval.
LEMMA ChainPopped ==
    ASSUME TypeOK, Chain, mailbox # <<>>, mailbox' = Tail(mailbox), epoch' = epoch,
           1 \notin MailOf("begin_interval"),
           TimersOf("begin_interval")' = TimersOf("begin_interval"),
           TimersOf("trigger")' = TimersOf("trigger")
    PROVE  Chain'
<1>1. \A type \in TimerTypes :
        /\ \A i \in MailOf(type)' : i \in Nat /\ i + 1 \in MailOf(type)
                                    /\ mailbox'[i] = mailbox[i + 1]
        /\ \A i \in MailOf(type) : i \in Nat /\ (i # 1 => i - 1 \in MailOf(type)')
  BY PopMail DEF MailOf
<1>2. OneInterval'
  <2>1. CASE /\ \E t \in armed : TimersOf("begin_interval") = {t}
             /\ MailOf("begin_interval") = {}
    <3>1. MailOf("begin_interval")' = {}
      BY <1>1, <2>1 DEF TimerTypes
    <3>2. \A t : TimersOf("begin_interval") = {t} => t \in armed'
      BY DEF TimersOf
    <3>. QED
      BY <2>1, <3>1, <3>2 DEF OneInterval
  <2>2. CASE /\ TimersOf("begin_interval") = {}
             /\ \E i \in DOMAIN mailbox : MailOf("begin_interval") = {i}
    <3>1. PICK i \in DOMAIN mailbox : MailOf("begin_interval") = {i}
      BY <2>2
    <3>2. i # 1 /\ i \in Nat /\ i - 1 \in MailOf("begin_interval")'
      BY <1>1, <3>1 DEF TimerTypes
    <3>3. MailOf("begin_interval")' = {i - 1} /\ i - 1 \in DOMAIN mailbox'
      <4>1. ASSUME NEW j \in MailOf("begin_interval")'
            PROVE  j = i - 1
        <5>1. j \in Nat /\ j + 1 = i
          BY <1>1, <3>1, <4>1 DEF TimerTypes
        <5>. QED
          BY <3>2, <5>1
      <4>. QED
        BY <3>2, <4>1 DEF MailOf
    <3>. QED
      BY <2>2, <3>3 DEF OneInterval
  <2>. QED
    BY <2>1, <2>2 DEF Chain, OneInterval
<1>3. TriggersUnique'
  <2>1. ASSUME NEW i \in MailOf("trigger")', NEW j \in MailOf("trigger")',
               mailbox'[i].flag = mailbox'[j].flag
        PROVE  i = j
    <3>1. /\ i \in Nat /\ j \in Nat
          /\ i + 1 \in MailOf("trigger") /\ j + 1 \in MailOf("trigger")
          /\ mailbox[i + 1].flag = mailbox[j + 1].flag
      BY <1>1, <2>1 DEF TimerTypes
    <3>2. i + 1 = j + 1
      BY <3>1 DEF Chain, TriggersUnique
    <3>. QED
      BY <3>1, <3>2
  <2>2. ASSUME NEW t \in TimersOf("trigger"), NEW i \in MailOf("trigger")'
        PROVE  t.msg.flag # mailbox'[i].flag
    <3>1. i + 1 \in MailOf("trigger") /\ mailbox'[i] = mailbox[i + 1]
      BY <1>1, <2>2 DEF TimerTypes
    <3>. QED
      BY <3>1 DEF Chain, TriggersUnique
  <2>3. \A t, u \in TimersOf("trigger") : t.msg.flag = u.msg.flag => t = u
    BY DEF Chain, TriggersUnique
  <2>. QED
    BY <2>1, <2>2, <2>3 DEF TriggersUnique
<1>4. TriggersFirst'
  <2>1. ASSUME NEW i \in MailOf("begin_interval")', NEW j \in MailOf("trigger")'
        PROVE  j < i
    <3>1. /\ i \in Nat /\ j \in Nat
          /\ i + 1 \in MailOf("begin_interval") /\ j + 1 \in MailOf("trigger")
      BY <1>1, <2>1 DEF TimerTypes
    <3>2. j + 1 < i + 1
      BY <3>1 DEF Chain, TriggersFirst
    <3>. QED
      BY <3>1, <3>2
  <2>2. ASSUME NEW i \in MailOf("begin_interval")'
        PROVE  TimersOf("trigger") = {}
    BY <1>1, <2>2 DEF Chain, TriggersFirst, TimerTypes
  <2>3. \A t \in TimersOf("begin_interval"), u \in TimersOf("trigger") : u.left < t.left
    BY DEF Chain, TriggersFirst
  <2>. QED
    BY <2>1, <2>2, <2>3 DEF TriggersFirst
<1>. QED
  BY <1>2, <1>3, <1>4 DEF Chain

\* Only messages of other kinds, or of earlier runs, came or went.
LEMMA ChainUntouched ==
    ASSUME Chain, epoch' = epoch,
           TimersOf("begin_interval")' = TimersOf("begin_interval"),
           TimersOf("trigger")' = TimersOf("trigger"),
           MailOf("begin_interval")' = MailOf("begin_interval"),
           MailOf("trigger")' = MailOf("trigger"),
           \A i \in MailOf("trigger") : mailbox'[i] = mailbox[i]
    PROVE  Chain' /\ TriggersPending' = TriggersPending
<1>1. OneInterval'
  <2>1. \A t : TimersOf("begin_interval")' = {t} => t \in armed'
    BY DEF TimersOf
  <2>2. \A i : MailOf("begin_interval")' = {i} => i \in DOMAIN mailbox'
    BY DEF MailOf
  <2>. QED
    BY <2>1, <2>2 DEF Chain, OneInterval
<1>2. TriggersUnique'
  <2>1. \A t, u \in TimersOf("trigger") : t.msg.flag = u.msg.flag => t = u
    BY DEF Chain, TriggersUnique
  <2>2. \A i, j \in MailOf("trigger") : mailbox'[i].flag = mailbox'[j].flag => i = j
    BY DEF Chain, TriggersUnique
  <2>3. \A t \in TimersOf("trigger"), i \in MailOf("trigger") : t.msg.flag # mailbox'[i].flag
    BY DEF Chain, TriggersUnique
  <2>. QED
    BY <2>1, <2>2, <2>3 DEF TriggersUnique
<1>3. TriggersFirst'
  BY DEF Chain, TriggersFirst
<1>4. TriggersPending' = TriggersPending
  <2>1. TriggersPending = {f \in Flags : \/ \E t \in TimersOf("trigger") : t.msg.flag = f
                                         \/ \E i \in MailOf("trigger") : mailbox[i].flag = f}
    BY DEF TriggersPending, TimersOf, MailOf
  <2>2. TriggersPending' = {f \in Flags : \/ \E t \in TimersOf("trigger")' : t.msg.flag = f
                                          \/ \E i \in MailOf("trigger")' : mailbox'[i].flag = f}
    BY DEF TriggersPending, TimersOf, MailOf
  <2>. QED
    BY <2>1, <2>2
<1>. QED
  BY <1>1, <1>2, <1>3, <1>4 DEF Chain

LEMMA ChainAppended ==
    ASSUME TypeOK, Chain, NEW m, m \in Messages, mailbox' = Append(mailbox, m),
           epoch' = epoch,
           m.type \in {"begin_interval", "trigger"} => m.epoch # epoch,
           TimersOf("begin_interval")' = TimersOf("begin_interval"),
           TimersOf("trigger")' = TimersOf("trigger")
    PROVE  Chain' /\ TriggersPending' = TriggersPending
<1>1. /\ MailOf("begin_interval")' = MailOf("begin_interval")
      /\ MailOf("trigger")' = MailOf("trigger")
      /\ \A i \in MailOf("trigger") : mailbox'[i] = mailbox[i]
  BY AppendMail DEF MailOf
<1>. QED
  BY <1>1, ChainUntouched

\* A timer that has run out becomes a message.
LEMMA ChainFired ==
    ASSUME TypeOK, Chain, epoch' = epoch, NEW t \in armed, t.left = 0,
           armed' = armed \ {t}, mailbox' = Append(mailbox, t.msg)
    PROVE  Chain' /\ TriggersPending' = TriggersPending
<1>. DEFINE last == Len(mailbox) + 1
<1>1. t.msg \in Messages /\ \A u \in armed : u.left \in Nat
  BY DEF TypeOK, ArmedTimers, Messages
<1>2. /\ \A i \in DOMAIN mailbox : /\ i \in DOMAIN mailbox' /\ mailbox'[i] = mailbox[i]
                                   /\ i \in Nat /\ i < last
      /\ last \in DOMAIN mailbox' /\ mailbox'[last] = t.msg
      /\ \A i \in DOMAIN mailbox' : i \in DOMAIN mailbox \/ i = last
  BY <1>1, AppendMail
<1>. HIDE DEF last
<1>3. \A type : /\ TimersOf(type)' = TimersOf(type) \ {t}
                /\ MailOf(type)' = MailOf(type) \cup (IF t \in TimersOf(type) THEN {last} ELSE {})
                /\ \A i \in MailOf(type) : mailbox'[i] = mailbox[i] /\ i < last
  BY <1>2 DEF TimersOf, MailOf
<1>4. CASE t \notin TimersOf("begin_interval") /\ t \notin TimersOf("trigger")
  BY <1>3, <1>4, ChainUntouched
<1>5. CASE t \in TimersOf("begin_interval")
  <2>1. t \notin TimersOf("trigger")
    BY <1>5 DEF TimersOf
  <2>2. TimersOf("begin_interval") = {t} /\ MailOf("begin_interval") = {}
    BY <1>5 DEF Chain, OneInterval
  <2>3. TimersOf("trigger") = {}
    <3>1. \A u \in TimersOf("trigger") : u.left < 0 /\ u.left \in Nat
      BY <1>1, <1>5 DEF Chain, TriggersFirst, TimersOf
    <3>. QED
      BY <3>1
  <2>4. /\ TimersOf("begin_interval")' = {} /\ MailOf("begin_interval")' = {last}
        /\ TimersOf("trigger")' = {} /\ MailOf("trigger")' = MailOf("trigger")
    BY <1>3, <1>5, <2>1, <2>2, <2>3
  <2>5. OneInterval'
    BY <1>2, <2>4 DEF OneInterval
  <2>6. TriggersUnique'
    <3>1. \A i, j \in MailOf("trigger") : mailbox'[i].flag = mailbox'[j].flag => i = j
      BY <1>3 DEF Chain, TriggersUnique
    <3>. QED
      BY <2>4, <3>1 DEF TriggersUnique
  <2>7. TriggersFirst'
    BY <1>3, <2>4 DEF TriggersFirst
  <2>8. TriggersPending' = TriggersPending
    <3>1. TriggersPending = {f \in Flags : \E i \in MailOf("trigger") : mailbox[i].flag = f}
      BY <2>3 DEF TriggersPending, TimersOf, MailOf
    <3>2. TriggersPending' = {f \in Flags : \E i \in MailOf("trigger")' : mailbox'[i].flag = f}
      BY <2>4 DEF TriggersPending, TimersOf, MailOf
    <3>. QED
      BY <1>3, <2>4, <3>1, <3>2
  <2>. QED
    BY <2>5, <2>6, <2>7, <2>8 DEF Chain
<1>6. CASE t \in TimersOf("trigger")
  <2>1. t \notin TimersOf("begin_interval")
    BY <1>6 DEF TimersOf
  <2>2. MailOf("begin_interval") = {} /\ \E u \in armed : TimersOf("begin_interval") = {u}
    BY <1>6 DEF Chain, OneInterval, TriggersFirst
  <2>3. /\ TimersOf("begin_interval")' = TimersOf("begin_interval")
        /\ MailOf("begin_interval")' = {}
        /\ TimersOf("trigger")' = TimersOf("trigger") \ {t}
        /\ MailOf("trigger")' = MailOf("trigger") \cup {last}
    BY <1>3, <1>6, <2>1, <2>2
  <2>4. OneInterval'
    <3>1. \A u : TimersOf("begin_interval")' = {u} => u \in armed'
      BY DEF TimersOf
    <3>. QED
      BY <2>2, <2>3, <3>1 DEF OneInterval
  <2>5. TriggersUnique'
    <3>1. ASSUME NEW i \in MailOf("trigger")', NEW j \in MailOf("trigger")',
                 mailbox'[i].flag = mailbox'[j].flag
          PROVE  i = j
      <4>1. \A k \in MailOf("trigger") : mailbox'[k].flag # mailbox'[last].flag
        BY <1>2, <1>3, <1>6, ZenonT(40) DEF Chain, TriggersUnique
      <4>2. \A k, h \in MailOf("trigger") : mailbox'[k].flag = mailbox'[h].flag => k = h
        BY <1>3 DEF Chain, TriggersUnique
      <4>. QED
        BY <2>3, <3>1, <4>1, <4>2
    <3>2. ASSUME NEW u \in TimersOf("trigger")', NEW i \in MailOf("trigger")'
          PROVE  u.msg.flag # mailbox'[i].flag
      <4>1. u \in TimersOf("trigger") /\ u # t
        BY <2>3, <3>2
      <4>2. CASE i = last
        BY <1>2, <1>6, <4>1, <4>2 DEF Chain, TriggersUnique
      <4>3. CASE i \in MailOf("trigger")
        BY <1>3, <4>1, <4>3, ZenonT(40) DEF Chain, TriggersUnique
      <4>. QED
        BY <2>3, <3>2, <4>2, <4>3
    <3>3. \A u, w \in TimersOf("trigger")' : u.msg.flag = w.msg.flag => u = w
      BY <2>3 DEF Chain, TriggersUnique
    <3>. QED
      BY <3>1, <3>2, <3>3 DEF TriggersUnique
  <2>6. TriggersFirst'
    <3>1. \A u \in TimersOf("begin_interval"), w \in TimersOf("trigger") : w.left < u.left
      BY DEF Chain, TriggersFirst
    <3>. QED
      BY <2>3, <3>1 DEF TriggersFirst
  <2>7. TriggersPending' = TriggersPending
    <3>1. TriggersPending = {f \in Flags : \/ \E u \in TimersOf("trigger") : u.msg.flag = f
                                           \/ \E i \in MailOf("trigger") : mailbox[i].flag = f}
      BY DEF TriggersPending, TimersOf, MailOf
    <3>2. TriggersPending' = {f \in Flags : \/ \E u \in TimersOf("trigger")' : u.msg.flag = f
                                            \/ \E i \in MailOf("trigger")' : mailbox'[i].flag = f}
      BY DEF TriggersPending, TimersOf, MailOf
    <3>. QED
      BY <1>2, <1>3, <1>6, <2>3, <3>1, <3>2, ZenonT(40)
  <2>. QED
    BY <2>4, <2>5, <2>6, <2>7 DEF Chain
<1>. QED
  BY <1>4, <1>5, <1>6

\* A second passes for every timer.
LEMMA ChainTicked ==
    ASSUME TypeOK, Chain, Tick
    PROVE  Chain' /\ TriggersPending' = TriggersPending
<1>. DEFINE older(t) == [t EXCEPT !.left = @ - 1]
<1>1. /\ armed' = {older(t) : t \in armed} /\ UNCHANGED <<epoch, mailbox>>
      /\ \A t \in armed : t \in ArmedTimers /\ t.left \in Nat
  BY DEF Tick, TypeOK, ArmedTimers, schedVars
<1>2. \A t \in armed : /\ older(t).msg = t.msg /\ older(t).left = t.left - 1
                       /\ older(t).ref = t.ref
  BY <1>1 DEF ArmedTimers
<1>. HIDE DEF older
<1>3. \A type : /\ TimersOf(type)' = {older(t) : t \in TimersOf(type)}
                /\ MailOf(type)' = MailOf(type)
                /\ TimersOf(type) \subseteq armed
  BY <1>1, <1>2 DEF TimersOf, MailOf
<1>4. OneInterval'
  <2>1. CASE TimersOf("begin_interval") = {}
    BY <1>1, <1>3, <2>1 DEF Chain, OneInterval
  <2>2. ASSUME NEW t \in armed, TimersOf("begin_interval") = {t}, MailOf("begin_interval") = {}
        PROVE  OneInterval'
    <3>1. TimersOf("begin_interval")' = {older(t)} /\ older(t) \in armed'
      BY <1>1, <1>3, <2>2
    <3>. QED
      BY <1>3, <2>2, <3>1 DEF OneInterval
  <2>. QED
    BY <2>1, <2>2 DEF Chain, OneInterval
<1>5. TriggersUnique'
  <2>1. \A t, u \in TimersOf("trigger") : older(t).msg.flag = older(u).msg.flag => t = u
    BY <1>2, <1>3 DEF Chain, TriggersUnique
  <2>2. \A t \in TimersOf("trigger"), i \in MailOf("trigger") : older(t).msg.flag # mailbox[i].flag
    BY <1>2, <1>3 DEF Chain, TriggersUnique
  <2>3. \A i, j \in MailOf("trigger") : mailbox[i].flag = mailbox[j].flag => i = j
    BY DEF Chain, TriggersUnique
  <2>. QED
    BY <1>1, <1>3, <2>1, <2>2, <2>3 DEF TriggersUnique
<1>6. TriggersFirst'
  <2>1. ASSUME NEW t \in TimersOf("begin_interval"), NEW u \in TimersOf("trigger")
        PROVE  older(u).left < older(t).left
    <3>1. u.left < t.left
      BY <2>1 DEF Chain, TriggersFirst
    <3>2. /\ u \in armed /\ t \in armed /\ u.left \in Nat /\ t.left \in Nat
          /\ older(u).left = u.left - 1 /\ older(t).left = t.left - 1
      BY <1>1, <1>2, <1>3, <2>1
    <3>. QED
      BY <3>1, <3>2
  <2>2. \A i \in MailOf("begin_interval") :
          TimersOf("trigger")' = {} /\ \A j \in MailOf("trigger") : j < i
    BY <1>3 DEF Chain, TriggersFirst
  <2>. QED
    BY <1>3, <2>1, <2>2 DEF TriggersFirst
<1>7. TriggersPending' = TriggersPending
  <2>1. TriggersPending = {f \in Flags : \/ \E u \in TimersOf("trigger") : u.msg.flag = f
                                         \/ \E i \in MailOf("trigger") : mailbox[i].flag = f}
    BY DEF TriggersPending, TimersOf, MailOf
  <2>2. TriggersPending' = {f \in Flags : \/ \E u \in TimersOf("trigger")' : u.msg.flag = f
                                          \/ \E i \in MailOf("trigger")' : mailbox'[i].flag = f}
    BY DEF TriggersPending, TimersOf, MailOf
  <2>3. \A f : (\E u \in TimersOf("trigger")' : u.msg.flag = f)
                 <=> (\E u \in TimersOf("trigger") : u.msg.flag = f)
    BY <1>2, <1>3
  <2>. QED
    BY <1>1, <1>3, <2>1, <2>2, <2>3
<1>. QED
  BY <1>4, <1>5, <1>6, <1>7 DEF Chain

-----------------------------------------------------------------------------
(* The steps.                                                               *)

\* The timers an interval arms are its run's.
LEMMA BegunEpochs ==
    ASSUME NEW c, NEW e, NEW specs, NEW kept, NEW keys, BeginInterval(c, e, specs, kept, keys)
    PROVE  \A t \in armed' : t \in kept \/ t.msg.epoch = e
<1>. DEFINE Msgs(plan) == {IntervalMsg(e)} \cup {TriggerMsg(e, f, plan[f]) : f \in DOMAIN plan}
            Delay(plan, m) == IF m.flag = None THEN c.interval ELSE plan[m.flag].offset
            Timer(plan, m) == [msg |-> m, ref |-> FreshRef(KeyOf(m)), left |-> Delay(plan, m)]
<1>1. PICK plan \in Plans(c, specs) : armed' = kept \cup {Timer(plan, m) : m \in Msgs(plan)}
  BY DEF BeginInterval
<1>2. \A m \in Msgs(plan) : m.epoch = e
  BY DEF IntervalMsg, TriggerMsg
<1>3. \A m : Timer(plan, m).msg = m
  OBVIOUS
<1>. HIDE DEF Msgs, Timer
<1>. QED
  BY <1>1, <1>2, <1>3

\* An interval begins with no trigger and no interval of its run ahead.
LEMMA IntervalBegun ==
    ASSUME NEW c \in Configs, Valid(c), NEW e \in Nat, epoch' = e,
           NEW specs, DOMAIN specs \subseteq Flags, specs \in [DOMAIN specs -> Specs],
           NEW kept, NEW keys, BeginInterval(c, e, specs, kept, keys),
           \A t \in kept : t.msg.epoch = e => t.msg.type \notin {"begin_interval", "trigger"},
           MailOf("begin_interval")' = {}, MailOf("trigger")' = {}
    PROVE  /\ Chain' /\ nextUp' = TriggersPending'
           /\ \A t \in armed' : t \in kept \/ t.msg.epoch = e
<1>. DEFINE Msgs(plan) == {IntervalMsg(e)} \cup {TriggerMsg(e, f, plan[f]) : f \in DOMAIN plan}
            Delay(plan, m) == IF m.flag = None THEN c.interval ELSE plan[m.flag].offset
            Timer(plan, m) == [msg |-> m, ref |-> FreshRef(KeyOf(m)), left |-> Delay(plan, m)]
<1>1. PICK plan \in Plans(c, specs) :
          /\ armed' = kept \cup {Timer(plan, m) : m \in Msgs(plan)}
          /\ nextUp' = DOMAIN plan
  BY DEF BeginInterval
<1>. DEFINE next == Timer(plan, IntervalMsg(e))
            trigger(f) == Timer(plan, TriggerMsg(e, f, plan[f]))
<1>2. armed' = kept \cup {next} \cup {trigger(f) : f \in DOMAIN plan}
  BY <1>1
<1>3. /\ next.msg.type = "begin_interval" /\ next.msg.epoch = e /\ next.left = c.interval
      /\ \A f \in DOMAIN plan :
            /\ trigger(f).msg.type = "trigger" /\ trigger(f).msg.epoch = e
            /\ trigger(f).msg.flag = f /\ trigger(f).left < c.interval
  <2>1. c.interval \in Nat /\ c.min \in Nat /\ c.max \in Nat /\ c.min >= 1
    BY ConfigsAssumption DEF Valid
  <2>2. ASSUME NEW f \in DOMAIN plan
        PROVE  plan[f].offset < c.interval /\ f # None
    <3>1. plan[f] \in PlansOf(c, specs, f) /\ f \in Flags
      BY PlanType
    <3>2. /\ plan[f].offset \in Nat /\ plan[f].duration \in c.min..c.max
          /\ plan[f].offset <= c.interval - plan[f].duration
      BY <2>1, <3>1 DEF PlansOf
    <3>. QED
      BY <2>1, <3>1, <3>2, NoneAssumption
  <2>. QED
    BY <2>2 DEF IntervalMsg, TriggerMsg
<1>4. /\ TimersOf("begin_interval")' = {next}
      /\ TimersOf("trigger")' = {trigger(f) : f \in DOMAIN plan}
      /\ next \in armed'
  <2>. HIDE DEF Timer, Msgs
  <2>. QED
    BY <1>2, <1>3 DEF TimersOf
<1>. HIDE DEF Timer, Msgs, next, trigger
<1>5. OneInterval'
  BY <1>4 DEF OneInterval
<1>6. TriggersUnique'
  BY <1>3, <1>4 DEF TriggersUnique
<1>7. TriggersFirst'
  BY <1>3, <1>4 DEF TriggersFirst
<1>8. TriggersPending' = DOMAIN plan
  <2>1. TriggersPending' = {f \in Flags : \/ \E t \in TimersOf("trigger")' : t.msg.flag = f
                                          \/ \E i \in MailOf("trigger")' : mailbox'[i].flag = f}
    BY DEF TriggersPending, TimersOf, MailOf
  <2>2. DOMAIN plan \subseteq Flags
    BY PlanType
  <2>3. ASSUME NEW f \in DOMAIN plan
        PROVE  \E t \in TimersOf("trigger")' : t.msg.flag = f
    BY <1>3, <1>4, <2>3
  <2>4. ASSUME NEW t \in TimersOf("trigger")'
        PROVE  t.msg.flag \in DOMAIN plan
    BY <1>3, <1>4, <2>4
  <2>. QED
    BY <2>1, <2>2, <2>3, <2>4
<1>9. \A t \in armed' : t \in kept \/ t.msg.epoch = e
  BY BegunEpochs
<1>. QED
  BY <1>1, <1>5, <1>6, <1>7, <1>8, <1>9 DEF Chain

\* When an interval begins, nothing of the one before is ahead.
LEMMA NothingLeftOver ==
    ASSUME TypeInv, IntervalInv, Take("begin_interval"), Current(Head(mailbox))
    PROVE  /\ TimersOf("begin_interval") = {} /\ MailOf("begin_interval") = {1}
           /\ TimersOf("trigger") = {} /\ MailOf("trigger") = {}
           /\ TriggersPending = {}
<1>1. Chain /\ mailbox \in Seq(Messages) /\ mailbox # <<>>
  BY TakeType DEF TypeInv, TypeOK, IntervalInv, Current
<1>2. 1 \in DOMAIN mailbox /\ Head(mailbox) = mailbox[1] /\ DOMAIN mailbox \subseteq Nat \ {0}
  BY <1>1
<1>3. 1 \in MailOf("begin_interval")
  BY <1>1, <1>2, TakeType DEF MailOf, Current, Take
<1>4. TimersOf("begin_interval") = {} /\ MailOf("begin_interval") = {1}
  BY <1>1, <1>3 DEF Chain, OneInterval
<1>5. TimersOf("trigger") = {} /\ \A j \in MailOf("trigger") : j < 1
  BY <1>1, <1>3 DEF Chain, TriggersFirst
<1>6. MailOf("trigger") = {}
  BY <1>2, <1>5 DEF MailOf
<1>7. TriggersPending = {}
  BY <1>5, <1>6 DEF TriggersPending, TimersOf, MailOf
<1>. QED
  BY <1>4, <1>5, <1>6, <1>7

\* Messages of earlier runs stay so.
LEMMA EpochsStep ==
    ASSUME TypeInv, EpochsPast, Next
    PROVE  EpochsPast'
<1>1. epoch \in Nat
  BY DEF TypeInv, TypeOK
<1>2. ASSUME mailbox # <<>>, mailbox' = Tail(mailbox), epoch' \in {epoch, epoch + 1},
             \A t \in armed' : t \in armed \/ t.msg.epoch = epoch'
      PROVE  EpochsPast'
  <2>1. ASSUME NEW t \in armed'
        PROVE  t.msg.epoch <= epoch'
    <3>1. CASE t \in armed
      <4>1. t.msg.epoch <= epoch /\ t.msg.epoch \in Nat
        BY <3>1 DEF EpochsPast, TypeInv, TypeOK, ArmedTimers, TimerMessages
      <4>. QED
        BY <1>1, <1>2, <4>1
    <3>. QED
      BY <1>1, <1>2, <2>1, <3>1
  <2>2. ASSUME NEW i \in DOMAIN mailbox', mailbox'[i].type \in TimerTypes
        PROVE  mailbox'[i].epoch <= epoch'
    <3>1. i + 1 \in DOMAIN mailbox /\ mailbox'[i] = mailbox[i + 1]
      BY <1>2, <2>2, PopMail DEF TypeInv
    <3>2. mailbox[i + 1].epoch <= epoch
      BY <2>2, <3>1 DEF EpochsPast
    <3>3. mailbox[i + 1].epoch \in Nat
      <4>1. mailbox[i + 1] \in Messages
        BY <3>1 DEF TypeInv, TypeOK
      <4>. QED
        BY <2>2, <3>1, <4>1 DEF Messages, TimerMessages, TimerTypes, StopMsg
    <3>. QED
      BY <1>1, <1>2, <3>1, <3>2, <3>3
  <2>. QED
    BY <2>1, <2>2 DEF EpochsPast
<1>3. ASSUME NEW m \in Messages, mailbox' = Append(mailbox, m), epoch' = epoch,
             armed' \subseteq armed, m.type \in TimerTypes => m.epoch <= epoch
      PROVE  EpochsPast'
  <2>1. ASSUME NEW i \in DOMAIN mailbox', mailbox'[i].type \in TimerTypes
        PROVE  mailbox'[i].epoch <= epoch
    BY <1>3, <2>1, AppendMail DEF TypeInv, EpochsPast
  <2>. QED
    BY <1>3, <2>1 DEF EpochsPast
<1>5. CASE RejectStart \/ Stop \/ Trigger \/ Revert \/ IgnoreStale
  <2>1. mailbox # <<>> /\ mailbox' = Tail(mailbox)
    BY <1>5 DEF RejectStart, Stop, Trigger, Revert, IgnoreStale, Take
  <2>2. epoch' \in {epoch, epoch + 1}
    BY <1>5 DEF RejectStart, Stop, Trigger, Revert, IgnoreStale, schedVars, NextEpoch
  <2>3. \A t \in armed' : t \in armed \/ t.msg.epoch = epoch'
    <3>1. CASE Trigger
      <4>. DEFINE timer == [msg |-> RevertMsg(epoch, Head(mailbox).flag),
                            ref |-> FreshRef(Key("revert", Head(mailbox).flag)),
                            left |-> Head(mailbox).duration]
      <4>1. armed' \subseteq armed \cup {timer} /\ epoch' = epoch
        BY <3>1 DEF Trigger, ArmRevert
      <4>2. timer.msg.epoch = epoch
        BY DEF RevertMsg
      <4>. HIDE DEF timer
      <4>. QED
        BY <4>1, <4>2
    <3>2. CASE ~Trigger
      BY <1>5, <3>2 DEF RejectStart, Stop, Revert, IgnoreStale
    <3>. QED
      BY <3>1, <3>2
  <2>. QED
    BY <1>2, <2>1, <2>2, <2>3
<1>6. CASE FinishStart
  <2>1. mailbox # <<>> /\ mailbox' = Tail(mailbox) /\ epoch' = epoch + 1
    BY <1>6 DEF FinishStart, TypeInv, StartInHand, NextEpoch
  <2>2. BeginInterval(Head(mailbox).config, epoch', EligibleSpecs(reply), armed, Empty)
    BY <1>6 DEF FinishStart
  <2>. QED
    BY <1>2, <2>1, <2>2, BegunEpochs
<1>7. CASE NextInterval
  <2>1. mailbox # <<>> /\ mailbox' = Tail(mailbox) /\ epoch' = epoch
    BY <1>7 DEF NextInterval, Take
  <2>2. \E keys : BeginInterval(config, epoch', eligible, armed, keys)
    BY <1>7, <2>1 DEF NextInterval
  <2>. QED
    BY <1>2, <2>1, <2>2, BegunEpochs
<1>8. CASE BeginStart
  BY <1>8 DEF BeginStart, EpochsPast, schedVars
<1>9. CASE RevertRaises \/ ReadExits \/ ExitScheduler
  BY <1>9 DEF RevertRaises, ReadExits, ExitScheduler, FreshProcess, EpochsPast
<1>10. CASE Fire
  <2>1. PICK t \in armed : armed' = armed \ {t} /\ mailbox' = Append(mailbox, t.msg)
    BY <1>10 DEF Fire
  <2>2. t.msg \in Messages /\ t.msg.epoch <= epoch
    BY DEF TypeInv, TypeOK, ArmedTimers, Messages, EpochsPast
  <2>. QED
    BY <1>3, <1>10, <2>1, <2>2 DEF Fire, schedVars
<1>11. CASE Tick
  <2>1. \A t \in armed : [t EXCEPT !.left = @ - 1].msg = t.msg
    BY DEF TypeInv, TypeOK, ArmedTimers
  <2>2. armed' = {[t EXCEPT !.left = @ - 1] : t \in armed} /\ UNCHANGED <<epoch, mailbox>>
    BY <1>11 DEF Tick, schedVars
  <2>. QED
    BY <2>1, <2>2 DEF EpochsPast
<1>12. CASE RequestStop
  <2>1. StopMsg \in Messages /\ StopMsg.type \notin TimerTypes
    BY DEF StopMsg, Messages, TimerTypes
  <2>. QED
    BY <1>3, <1>12, <2>1 DEF RequestStop, schedVars
<1>13. ASSUME NEW c \in Configs, RequestStart(c)
       PROVE  EpochsPast'
  <2>1. StartMsg(c) \in Messages /\ StartMsg(c).type \notin TimerTypes
    BY DEF StartMsg, Messages, TimerTypes
  <2>. QED
    BY <1>3, <1>13, <2>1 DEF RequestStart, schedVars
<1>14. CASE StorageWrite \/ StorageRead \/ StorageCrash
  BY <1>14 DEF StorageWrite, StorageRead, StorageCrash, EpochsPast, schedVars
<1>. QED
  BY <1>5, <1>6, <1>7, <1>8, <1>9, <1>10, <1>11, <1>12, <1>13, <1>14
  DEF Next, SchedulerStep, StorageStep

LEMMA ValidStep ==
    ASSUME TypeInv, ValidRuns, Next
    PROVE  ValidRuns'
<1>. USE DEF ValidRuns
<1>1. CASE RejectStart \/ Stop \/ NextInterval \/ Trigger \/ Revert \/ IgnoreStale
  BY <1>1 DEF RejectStart, Stop, NextInterval, Trigger, Revert, IgnoreStale, Take,
              schedVars, callVars
<1>2. CASE BeginStart \/ FinishStart
  BY <1>2 DEF BeginStart, FinishStart, schedVars
<1>3. CASE RevertRaises \/ ReadExits \/ ExitScheduler
  BY <1>3 DEF RevertRaises, ReadExits, ExitScheduler, FreshProcess
<1>4. ASSUME NEW m \in Messages, mailbox' = Append(mailbox, m), UNCHANGED <<schedVars, callVars>>
      PROVE  ValidRuns'
  <2>1. reading => Head(mailbox') = Head(mailbox)
    BY <1>4, AppendMail DEF TypeInv, StartInHand
  <2>. QED
    BY <1>4, <2>1 DEF schedVars, callVars
<1>5. CASE Fire
  <2>1. PICK t \in armed : mailbox' = Append(mailbox, t.msg)
    BY <1>5 DEF Fire
  <2>2. t.msg \in Messages
    BY DEF TypeInv, TypeOK, ArmedTimers, Messages
  <2>. QED
    BY <1>4, <1>5, <2>1, <2>2 DEF Fire
<1>6. CASE RequestStop
  BY <1>4, <1>6 DEF RequestStop, Messages
<1>7. ASSUME NEW c \in Configs, RequestStart(c)
      PROVE  ValidRuns'
  <2>1. StartMsg(c) \in Messages
    BY DEF StartMsg, Messages
  <2>. QED
    BY <1>4, <1>7, <2>1 DEF RequestStart
<1>8. CASE Tick \/ StorageWrite \/ StorageRead \/ StorageCrash
  BY <1>8 DEF Tick, StorageWrite, StorageRead, StorageCrash, schedVars, callVars
<1>. QED
  BY <1>1, <1>2, <1>3, <1>5, <1>6, <1>7, <1>8 DEF Next, SchedulerStep, StorageStep

\* What is ahead once the head of the mailbox is taken.
LEMMA PendingPopped ==
    ASSUME TypeOK, mailbox # <<>>, mailbox' = Tail(mailbox), epoch' = epoch,
           TimersOf("trigger")' = TimersOf("trigger")
    PROVE  TriggersPending' =
             {f \in Flags : \/ \E t \in TimersOf("trigger") : t.msg.flag = f
                            \/ \E i \in MailOf("trigger") \ {1} : mailbox[i].flag = f}
<1>1. TriggersPending' = {f \in Flags : \/ \E t \in TimersOf("trigger")' : t.msg.flag = f
                                        \/ \E i \in MailOf("trigger")' : mailbox'[i].flag = f}
  BY DEF TriggersPending, TimersOf, MailOf
<1>2. ASSUME NEW i \in MailOf("trigger")'
      PROVE  \E j \in MailOf("trigger") \ {1} : mailbox[j].flag = mailbox'[i].flag
  <2>1. i + 1 \in MailOf("trigger") \ {1} /\ mailbox'[i] = mailbox[i + 1]
    BY <1>2, PopMail DEF MailOf
  <2>. QED
    BY <2>1
<1>3. ASSUME NEW j \in MailOf("trigger") \ {1}
      PROVE  \E i \in MailOf("trigger")' : mailbox'[i].flag = mailbox[j].flag
  <2>1. j - 1 \in MailOf("trigger")' /\ mailbox'[j - 1] = mailbox[j]
    BY <1>3, PopMail DEF MailOf
  <2>. QED
    BY <2>1
<1>4. ASSUME NEW f \in Flags
      PROVE  (\E i \in MailOf("trigger")' : mailbox'[i].flag = f)
               <=> \E i \in MailOf("trigger") \ {1} : mailbox[i].flag = f
  <2>1. ASSUME NEW i \in MailOf("trigger")', mailbox'[i].flag = f
        PROVE  \E j \in MailOf("trigger") \ {1} : mailbox[j].flag = f
    BY <1>2, <2>1
  <2>2. ASSUME NEW j \in MailOf("trigger") \ {1}, mailbox[j].flag = f
        PROVE  \E i \in MailOf("trigger")' : mailbox'[i].flag = f
    BY <1>3, <2>2
  <2>. QED
    BY <2>1, <2>2
<1>5. \A f \in Flags : (\E t \in TimersOf("trigger")' : t.msg.flag = f)
                        <=> \E t \in TimersOf("trigger") : t.msg.flag = f
  OBVIOUS
<1>. QED
  BY <1>1, <1>4, <1>5

\* The head is taken, and neither it nor a timer that changes counts.
LEMMA PassedOver ==
    ASSUME TypeOK, Chain, mailbox # <<>>, mailbox' = Tail(mailbox), epoch' = epoch,
           Head(mailbox).type \in {"begin_interval", "trigger"} => Head(mailbox).epoch # epoch,
           TimersOf("begin_interval")' = TimersOf("begin_interval"),
           TimersOf("trigger")' = TimersOf("trigger")
    PROVE  Chain' /\ TriggersPending' = TriggersPending
<1>1. 1 \notin MailOf("begin_interval") /\ 1 \notin MailOf("trigger")
  BY PopMail DEF MailOf
<1>2. TriggersPending = {f \in Flags : \/ \E t \in TimersOf("trigger") : t.msg.flag = f
                                       \/ \E i \in MailOf("trigger") : mailbox[i].flag = f}
  BY DEF TriggersPending, TimersOf, MailOf
<1>3. MailOf("trigger") \ {1} = MailOf("trigger")
  BY <1>1
<1>4. TriggersPending' = TriggersPending
  BY <1>2, <1>3, PendingPopped
<1>. QED
  BY <1>1, <1>4, ChainPopped

LEMMA ChainStep ==
    ASSUME TypeInv, IntervalInv, Next, running', ~reading'
    PROVE  Chain' /\ nextUp' = TriggersPending'
<1>. USE DEF TypeInv
<1>1. CASE RejectStart \/ IgnoreStale \/ Revert
  <2>1. /\ mailbox # <<>> /\ mailbox' = Tail(mailbox)
        /\ UNCHANGED <<running, epoch, nextUp, reading, armed>>
        /\ running => (Head(mailbox).type \in {"begin_interval", "trigger"}
                         => Head(mailbox).epoch # epoch)
    BY <1>1 DEF RejectStart, IgnoreStale, Revert, Take, Current, schedVars, callVars
  <2>2. \A type : TimersOf(type)' = TimersOf(type)
    BY <2>1 DEF TimersOf
  <2>. QED
    BY <2>1, <2>2, PassedOver DEF IntervalInv
<1>2. CASE Trigger
  <2>. DEFINE m == Head(mailbox)
              key == Key("revert", m.flag)
              timer == [msg |-> RevertMsg(epoch, m.flag), ref |-> FreshRef(key),
                        left |-> m.duration]
  <2>1. /\ mailbox # <<>> /\ mailbox' = Tail(mailbox) /\ m.type = "trigger" /\ m.epoch = epoch
        /\ UNCHANGED <<running, epoch, reading>> /\ running /\ ~reading
        /\ nextUp' = nextUp \ {m.flag}
        /\ armed' = (armed \ Cancellable({key})) \cup {timer}
    BY <1>2 DEF Trigger, ArmRevert, Announced, Take, Current, callVars
  <2>2. \A t \in Cancellable({key}) : t.msg.type = "revert"
    BY DEF Cancellable, KeyOf, Key
  <2>3. timer.msg.type = "revert"
    BY DEF RevertMsg
  <2>. HIDE DEF timer, key
  <2>4. /\ TimersOf("begin_interval")' = TimersOf("begin_interval")
        /\ TimersOf("trigger")' = TimersOf("trigger")
    BY <2>1, <2>2, <2>3 DEF TimersOf
  <2>5. /\ 1 \notin MailOf("begin_interval") /\ 1 \in MailOf("trigger")
        /\ mailbox[1] = m
    BY <2>1, PopMail DEF MailOf
  <2>6. Chain /\ nextUp = TriggersPending
    BY <2>1 DEF IntervalInv
  <2>7. Chain'
    BY <2>1, <2>4, <2>5, <2>6, ChainPopped
  <2>8. TriggersPending' = TriggersPending \ {m.flag}
    <3>1. TriggersPending =
            {f \in Flags : \/ \E t \in TimersOf("trigger") : t.msg.flag = f
                           \/ \E i \in MailOf("trigger") : mailbox[i].flag = f}
      BY DEF TriggersPending, TimersOf, MailOf
    <3>2. TriggersPending' =
            {f \in Flags : \/ \E t \in TimersOf("trigger") : t.msg.flag = f
                           \/ \E i \in MailOf("trigger") \ {1} : mailbox[i].flag = f}
      BY <2>1, <2>4, PendingPopped
    <3>3. /\ \A t \in TimersOf("trigger") : t.msg.flag # m.flag
          /\ \A i \in MailOf("trigger") \ {1} : mailbox[i].flag # m.flag
      BY <2>5, <2>6 DEF Chain, TriggersUnique
    <3>. HIDE DEF m
    <3>. QED
      BY <2>5, <3>1, <3>2, <3>3
  <2>. QED
    BY <2>1, <2>6, <2>7, <2>8
<1>3. CASE FinishStart
  <2>. DEFINE c == Head(mailbox).config
              specs == EligibleSpecs(reply)
              e == epoch + 1
  <2>1. /\ reading /\ mailbox # <<>> /\ mailbox' = Tail(mailbox) /\ epoch' = e
        /\ BeginInterval(c, e, specs, armed, Empty)
    BY <1>3 DEF FinishStart, StartInHand, NextEpoch
  <2>2. c \in Configs /\ Valid(c) /\ e \in Nat /\ epoch \in Nat
    <3>1. Head(mailbox) \in Messages /\ Head(mailbox).type = "start_schedule"
      BY <2>1, HeadTailProperties DEF StartInHand, TypeOK
    <3>2. c \in Configs
      BY <3>1 DEF Messages, TimerMessages, StopMsg
    <3>. QED
      BY <2>1, <3>2 DEF IntervalInv, ValidRuns, TypeOK
  <2>3. DOMAIN specs \subseteq Flags /\ specs \in [DOMAIN specs -> Specs]
    <3>1. reply \in Documents
      BY <1>3 DEF FinishStart, TypeOK
    <3>. QED
      BY <3>1, EligibleType
  <2>4. \A t \in armed : t.msg.epoch # e
    BY <2>2 DEF IntervalInv, EpochsPast
  <2>5. MailOf("begin_interval")' = {} /\ MailOf("trigger")' = {}
    <3>1. ASSUME NEW i \in DOMAIN mailbox', mailbox'[i].type \in {"begin_interval", "trigger"}
          PROVE  mailbox'[i].epoch # e
      <4>1. i + 1 \in DOMAIN mailbox /\ mailbox'[i] = mailbox[i + 1]
        BY <2>1, PopMail
      <4>2. mailbox[i + 1].epoch <= epoch
        BY <3>1, <4>1 DEF IntervalInv, EpochsPast, TimerTypes
      <4>. QED
        BY <2>2, <4>1, <4>2
    <3>. QED
      BY <2>1, <3>1 DEF MailOf
  <2>. HIDE DEF c, specs, e
  <2>. QED
    BY <2>1, <2>2, <2>3, <2>4, <2>5, IntervalBegun
<1>4. CASE NextInterval
  <2>. DEFINE keys == Without(timers, {Key("begin_interval", None)})
  <2>1. /\ Take("begin_interval") /\ Current(Head(mailbox))
        /\ mailbox # <<>> /\ mailbox' = Tail(mailbox) /\ epoch' = epoch
        /\ BeginInterval(config, epoch, eligible, armed, keys)
    BY <1>4 DEF NextInterval, Take
  <2>2. config \in Configs /\ Valid(config) /\ epoch \in Nat
        /\ DOMAIN eligible \subseteq Flags /\ eligible \in [DOMAIN eligible -> Specs]
    BY <2>1 DEF TypeOK, IntervalInv, ValidRuns, Current
  <2>3. /\ TimersOf("begin_interval") = {} /\ MailOf("begin_interval") = {1}
        /\ TimersOf("trigger") = {} /\ MailOf("trigger") = {}
    BY <2>1, NothingLeftOver
  <2>4. \A t \in armed : t.msg.epoch = epoch => t.msg.type \notin {"begin_interval", "trigger"}
    BY <2>3 DEF TimersOf
  <2>5. MailOf("begin_interval")' = {} /\ MailOf("trigger")' = {}
    <3>1. \A type : \A i \in MailOf(type)' : i + 1 \in MailOf(type) /\ i + 1 # 1
      BY <2>1, PopMail DEF MailOf
    <3>. QED
      BY <2>3, <3>1
  <2>. HIDE DEF keys
  <2>. QED
    BY <2>1, <2>2, <2>4, <2>5, IntervalBegun
<1>5. CASE Fire
  <2>1. PICK t \in armed : /\ t.left = 0
                           /\ armed' = armed \ {t}
                           /\ mailbox' = Append(mailbox, t.msg)
    BY <1>5 DEF Fire
  <2>2. UNCHANGED <<running, epoch, nextUp, reading>>
    BY <1>5 DEF Fire, schedVars, callVars
  <2>. QED
    BY <2>1, <2>2, ChainFired DEF IntervalInv
<1>6. CASE Tick
  BY <1>6, ChainTicked DEF Tick, schedVars, callVars, IntervalInv
<1>7. ASSUME NEW m \in Messages, m.type \notin {"begin_interval", "trigger"},
             mailbox' = Append(mailbox, m), UNCHANGED <<schedVars, callVars, armed>>
      PROVE  Chain' /\ nextUp' = TriggersPending'
  <2>1. \A type : TimersOf(type)' = TimersOf(type)
    BY <1>7 DEF TimersOf, schedVars
  <2>. QED
    BY <1>7, <2>1, ChainAppended DEF schedVars, callVars, IntervalInv
<1>8. CASE RequestStop
  <2>1. StopMsg \in Messages /\ StopMsg.type \notin {"begin_interval", "trigger"}
    BY DEF StopMsg, Messages
  <2>. QED
    BY <1>7, <1>8, <2>1 DEF RequestStop
<1>9. ASSUME NEW c \in Configs, RequestStart(c)
      PROVE  Chain' /\ nextUp' = TriggersPending'
  <2>1. StartMsg(c) \in Messages /\ StartMsg(c).type \notin {"begin_interval", "trigger"}
    BY DEF StartMsg, Messages
  <2>. QED
    BY <1>7, <1>9, <2>1 DEF RequestStart
<1>10. CASE StorageWrite \/ StorageRead \/ StorageCrash
  <2>1. UNCHANGED <<running, epoch, nextUp, reading, armed, mailbox>>
    BY <1>10 DEF StorageWrite, StorageRead, StorageCrash, schedVars, callVars
  <2>2. \A type : TimersOf(type)' = TimersOf(type) /\ MailOf(type)' = MailOf(type)
    BY <2>1 DEF TimersOf, MailOf
  <2>. QED
    BY <2>1, <2>2, ChainUntouched DEF IntervalInv
<1>11. CASE BeginStart \/ Stop \/ RevertRaises \/ ReadExits \/ ExitScheduler
  BY <1>11 DEF BeginStart, Stop, RevertRaises, ReadExits, ExitScheduler, FreshProcess
<1>. QED
  BY <1>1, <1>2, <1>3, <1>4, <1>5, <1>6, <1>8, <1>9, <1>10, <1>11
  DEF Next, SchedulerStep, StorageStep

LEMMA IntervalInvariant == Spec => []IntervalInv
<1>1. Init => IntervalInv
  BY DEF Init, IntervalInv, EpochsPast, ValidRuns
<1>2. TypeInv /\ IntervalInv /\ [Next]_vars => IntervalInv'
  <2>1. TypeInv /\ IntervalInv /\ Next => IntervalInv'
    <3>1. SUFFICES ASSUME TypeInv, IntervalInv, Next
                   PROVE  IntervalInv'
      OBVIOUS
    <3>2. EpochsPast' /\ ValidRuns'
      BY <3>1, EpochsStep, ValidStep DEF IntervalInv
    <3>. QED
      BY <3>1, <3>2, ChainStep DEF IntervalInv
  <2>2. IntervalInv /\ UNCHANGED vars => IntervalInv'
    <3>1. SUFFICES ASSUME IntervalInv, UNCHANGED vars
                   PROVE  IntervalInv'
      OBVIOUS
    <3>2. UNCHANGED <<running, epoch, config, nextUp, reading, armed, mailbox>>
      BY <3>1 DEF vars, schedVars, callVars
    <3>3. EpochsPast' /\ ValidRuns'
      BY <3>1, <3>2 DEF IntervalInv, EpochsPast, ValidRuns
    <3>4. \A type : TimersOf(type)' = TimersOf(type) /\ MailOf(type)' = MailOf(type)
      BY <3>2 DEF TimersOf, MailOf
    <3>5. running /\ ~reading => Chain' /\ TriggersPending' = TriggersPending
      BY <3>1, <3>2, <3>4, ChainUntouched DEF IntervalInv
    <3>. QED
      BY <3>1, <3>2, <3>3, <3>5 DEF IntervalInv
  <2>. QED
    BY <2>1, <2>2
<1>. QED
  BY <1>1, <1>2, TypeInvariant, PTL DEF Spec

-----------------------------------------------------------------------------
(* What the scheduler page announces as next up is exactly what will be     *)
(* triggered, through restarts of the run, overlapping ticks and crashes.   *)
THEOREM NextUpIsTold == Spec => []NextUpIsAccurate
<1>1. IntervalInv => NextUpIsAccurate
  BY DEF IntervalInv, NextUpIsAccurate
<1>. QED
  BY <1>1, IntervalInvariant, PTL

(* While it runs, exactly one next interval is on its way, as an armed      *)
(* timer or as a message: the chain neither dies nor forks.                 *)
THEOREM IntervalsGoOn == Spec => []OneIntervalAhead
<1>1. TypeInv /\ IntervalInv => OneIntervalAhead
  <2>1. SUFFICES ASSUME TypeInv, IntervalInv, running, ~reading
                 PROVE  Cardinality({t \in armed : t.msg = IntervalMsg(epoch)})
                          + Cardinality({i \in DOMAIN mailbox : mailbox[i] = IntervalMsg(epoch)}) = 1
    BY DEF OneIntervalAhead
  <2>2. {t \in armed : t.msg = IntervalMsg(epoch)} = TimersOf("begin_interval")
    <3>1. \A t \in armed : t.msg \in TimerMessages
      BY <2>1 DEF TypeInv, TypeOK, ArmedTimers
    <3>2. \A m \in TimerMessages : m = IntervalMsg(epoch)
                                     <=> m.type = "begin_interval" /\ m.epoch = epoch
      BY DEF TimerMessages, IntervalMsg
    <3>. QED
      BY <3>1, <3>2 DEF TimersOf
  <2>3. {i \in DOMAIN mailbox : mailbox[i] = IntervalMsg(epoch)} = MailOf("begin_interval")
    <3>1. \A i \in DOMAIN mailbox : mailbox[i] \in Messages
      BY <2>1 DEF TypeInv, TypeOK
    <3>2. \A m \in Messages : m = IntervalMsg(epoch)
                                <=> m.type = "begin_interval" /\ m.epoch = epoch
      BY DEF Messages, TimerMessages, StopMsg, IntervalMsg
    <3>. QED
      BY <3>1, <3>2 DEF MailOf
  <2>4. OneInterval
    BY <2>1 DEF IntervalInv, Chain
  <2>5. \A x : Cardinality({x}) = 1
    BY FS_Singleton
  <2>6. Cardinality({}) = 0
    BY FS_EmptySet
  <2>7. \/ /\ Cardinality(TimersOf("begin_interval")) = 1
           /\ Cardinality(MailOf("begin_interval")) = 0
        \/ /\ Cardinality(TimersOf("begin_interval")) = 0
           /\ Cardinality(MailOf("begin_interval")) = 1
    BY <2>4, <2>5, <2>6, Zenon DEF OneInterval
  <2>8. Cardinality(TimersOf("begin_interval")) + Cardinality(MailOf("begin_interval")) = 1
    BY <2>7
  <2>. QED
    BY <2>2, <2>3, <2>8, Zenon
<1>. QED
  BY <1>1, IntervalInvariant, TypeInvariant, PTL

(* When an interval begins, every activation of the one before has been     *)
(* carried out: holds fit in their interval, timers fire in the order of    *)
(* their delays and the mailbox keeps it, however late the handlers run.    *)
THEOREM IntervalsAreApart == Spec => IntervalsDoNotOverlap
<1>1. TypeInv /\ IntervalInv /\ NextInterval => TriggersPending = {}
  BY NothingLeftOver DEF NextInterval
<1>2. TypeInv /\ IntervalInv => [NextInterval => TriggersPending = {}]_vars
  BY <1>1
<1>. QED
  BY <1>2, IntervalInvariant, TypeInvariant, PTL DEF IntervalsDoNotOverlap
=============================================================================
