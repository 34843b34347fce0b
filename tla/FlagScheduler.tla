--------------------------- MODULE FlagScheduler ---------------------------
(***************************************************************************)
(* The Scheduler GenServer of flagd-ui (lib/flagd_ui/scheduler.ex) with    *)
(* the Storage process it casts to, the runtime's timers and the users     *)
(* that start and stop it.                                                 *)
(*                                                                         *)
(* Time passes in whole seconds.  An armed timer counts down; at zero it   *)
(* puts its message in the scheduler's mailbox, after which cancelling it  *)
(* has no effect on that message.  The mailbox is FIFO.  The seeded random *)
(* picks are nondeterministic choices; the fields that only the UI shows   *)
(* (history, seed, interval_count) are left out.                           *)
(***************************************************************************)
EXTENDS FlagStorage

CONSTANTS Offers,         \* flag -> the variants it defines
          InitDoc,        \* the configuration Storage starts from
          Configs,        \* what users pass to start_schedule; `:all` flags are all variants
          DefaultConfig,  \* the configuration before the first start
          Prompt,         \* handlers finish before the next second passes
          MaxRequests,    \* bound: start and stop requests
          MaxFaults,      \* bound: Storage crashes and call timeouts
          InboxCap        \* bound: scheduler handlers wait while Storage lags

ASSUME OffersAssumption == Offers \in [Flags -> SUBSET Variants]
ASSUME InitDocAssumption == InitDoc \in Documents
ASSUME ConfigsAssumption ==
    /\ Configs \subseteq [interval : Nat, min : Nat, max : Nat,
                          concurrency : Nat, flags : [Flags -> SUBSET Variants]]
    /\ DefaultConfig \in Configs
ASSUME CallersAssumption == "scheduler" \in Callers
ASSUME BoundsAssumption ==
    /\ Prompt \in BOOLEAN
    /\ MaxRequests \in Nat /\ MaxFaults \in Nat /\ InboxCap \in Nat

VARIABLES running, epoch, config, eligible, active, nextUp, timers,
          reading,   \* start_schedule is blocked in GenServer.call(storage, :read)
          reply,     \* the document that call returned, None before it does
          armed,     \* timers the runtime has yet to fire
          mailbox,   \* the scheduler's mailbox
          requests, faults

schedVars == <<running, epoch, config, eligible, active, nextUp, timers>>
callVars == <<reading, reply>>
vars == <<storageVars, schedVars, callVars, armed, mailbox, requests, faults>>

-----------------------------------------------------------------------------
(* Messages the scheduler receives, timers and timer keys.                  *)

Specs == [resting : Variants, variants : SUBSET Variants]
Activations == [variant : Variants, resting : Variants]

IntervalMsg(e) == [type |-> "begin_interval", epoch |-> e, flag |-> None]
TriggerMsg(e, f, p) ==
    [type |-> "trigger", epoch |-> e, flag |-> f,
     variant |-> p.variant, resting |-> p.resting, duration |-> p.duration]
RevertMsg(e, f) == [type |-> "revert", epoch |-> e, flag |-> f]
StartMsg(c) == [type |-> "start_schedule", config |-> c]
StopMsg == [type |-> "stop_schedule"]

TimerMessages ==
    [type : {"begin_interval"}, epoch : Nat, flag : {None}]
      \cup [type : {"trigger"}, epoch : Nat, flag : Flags, variant : Variants,
            resting : Variants, duration : Nat]
      \cup [type : {"revert"}, epoch : Nat, flag : Flags]
Messages == TimerMessages \cup [type : {"start_schedule"}, config : Configs] \cup {StopMsg}

Keys == [kind : {"begin_interval", "trigger", "revert"}, flag : Flags \cup {None}]
Key(kind, f) == [kind |-> kind, flag |-> f]
KeyOf(m) == Key(m.type, m.flag)
ArmedTimers == [msg : TimerMessages, ref : Nat, left : Nat]

Without(fn, S) == [x \in DOMAIN fn \ S |-> fn[x]]

TypeOK ==
    /\ StorageTypeOK
    /\ running \in BOOLEAN
    /\ epoch \in Nat
    /\ config \in Configs
    /\ DOMAIN eligible \subseteq Flags /\ eligible \in [DOMAIN eligible -> Specs]
    /\ DOMAIN active \subseteq Flags /\ active \in [DOMAIN active -> Activations]
    /\ nextUp \subseteq Flags
    /\ DOMAIN timers \subseteq Keys /\ timers \in [DOMAIN timers -> Nat]
    /\ reading \in BOOLEAN
    /\ reply \in Documents \cup {None}
    /\ armed \subseteq ArmedTimers
    /\ mailbox \in Seq(Messages)
    /\ requests \in Nat
    /\ faults \in Nat

Empty == [x \in {} |-> x]

Init ==
    /\ doc = InitDoc /\ file = InitDoc /\ inbox = <<>>
    /\ running = FALSE /\ epoch = 0 /\ config = DefaultConfig
    /\ eligible = Empty /\ active = Empty /\ nextUp = {} /\ timers = Empty
    /\ reading = FALSE /\ reply = None
    /\ armed = {} /\ mailbox = <<>>
    /\ requests = 0 /\ faults = 0

-----------------------------------------------------------------------------
(* Timers.  The process remembers a reference per key; the runtime holds    *)
(* the armed timers.  A key may be dropped while its timer is still armed.  *)

RefsInUse(k) == {t.ref : t \in {a \in armed : KeyOf(a.msg) = k}}
                  \cup {timers[x] : x \in {y \in DOMAIN timers : y = k}}

\* The reference Process.send_after returns: one no timer of the key has.
FreshRef(k) == CHOOSE r \in 0..Cardinality(RefsInUse(k)) : r \notin RefsInUse(k)

Put(fn, S, value(_)) == [x \in DOMAIN fn \cup S |-> IF x \in S THEN value(x) ELSE fn[x]]

\* The armed timers that cancelling the given keys stops.
Cancellable(keys) ==
    {t \in armed : /\ KeyOf(t.msg) \in keys \cap DOMAIN timers
                   /\ t.ref = timers[KeyOf(t.msg)]}

(* The runtime fires a timer that has run out; due timers fire before the   *)
(* next second begins, in any order among themselves.                       *)
Fire ==
    \E t \in armed :
        /\ t.left = 0
        /\ armed' = armed \ {t}
        /\ mailbox' = Append(mailbox, t.msg)
        /\ UNCHANGED <<storageVars, schedVars, callVars, requests, faults>>

Tick ==
    /\ armed # {}
    /\ \A t \in armed : t.left > 0
    /\ Prompt => mailbox = <<>>
    /\ armed' = {[t EXCEPT !.left = @ - 1] : t \in armed}
    /\ UNCHANGED <<storageVars, schedVars, callVars, mailbox, requests, faults>>

-----------------------------------------------------------------------------
(* Choosing what to activate.                                               *)

EligibleSpecs_without_resting(d) ==
    [f \in {g \in DOMAIN d : Offers[g] \ {d[g].default} # {}}
        |-> [resting |-> d[f].default, variants |-> Offers[f] \ {d[f].default}]]

(* A flag is eligible when its default is one of its variants and another   *)
(* one exists to switch to.                                                 *)
EligibleSpecs(d) ==
    LET offered == {f \in DOMAIN d : /\ d[f].default \in Offers[f]
                                     /\ Offers[f] \ {d[f].default} # {}}
    IN  [f \in offered |-> [resting |-> d[f].default,
                            variants |-> Offers[f] \ {d[f].default}]]

Allowed(c, specs, f) == specs[f].variants \cap c.flags[f]
Candidates(c, specs) == {f \in DOMAIN specs : Allowed(c, specs, f) # {}}

PlansOf_ignoring_duration(c, specs, f) ==
    [variant : Allowed(c, specs, f), resting : {specs[f].resting},
     duration : c.min..c.max, offset : 0..c.interval]

\* One activation: the offset leaves room for the hold within the interval.
PlansOf(c, specs, f) ==
    {p \in [variant : Allowed(c, specs, f), resting : {specs[f].resting},
            duration : c.min..c.max, offset : 0..c.interval] :
        p.offset <= c.interval - p.duration}

Smaller(a, b) == IF a <= b THEN a ELSE b

Plans(c, specs) ==
    LET wanted == Smaller(c.concurrency, Cardinality(Candidates(c, specs)))
        picks == {S \in SUBSET Candidates(c, specs) : Cardinality(S) = wanted}
    IN  UNION {{plan \in [S -> UNION {PlansOf(c, specs, f) : f \in S}] :
                    \A f \in S : plan[f] \in PlansOf(c, specs, f)} : S \in picks}

Valid(c) ==
    /\ c.interval >= 1
    /\ c.min >= 1
    /\ c.max >= c.min
    /\ c.max <= c.interval
    /\ c.concurrency >= 1
    /\ \E f \in Flags : c.flags[f] # {}

-----------------------------------------------------------------------------
(* Pieces of handlers.  `kept` are the armed timers and `keys` the timer    *)
(* map entries that are left when the interval begins.                      *)

BeginInterval(c, e, specs, kept, keys) ==
    \E plan \in Plans(c, specs) :
        LET msgs == {IntervalMsg(e)} \cup {TriggerMsg(e, f, plan[f]) : f \in DOMAIN plan}
            delay(m) == IF m.flag = None THEN c.interval ELSE plan[m.flag].offset
        IN  /\ armed' = kept \cup {[msg |-> m, ref |-> FreshRef(KeyOf(m)), left |-> delay(m)] :
                                       m \in msgs}
            /\ timers' = Put(keys, {KeyOf(m) : m \in msgs}, FreshRef)
            /\ nextUp' = DOMAIN plan

\* The held flags in the order revert_all visits them.
Orderings(S) == {s \in [1..Cardinality(S) -> S] : \A x \in S : \E i \in DOMAIN s : s[i] = x}

RevertWrites_held_variant(order) ==
    [i \in DOMAIN order |-> WriteMsg(order[i], active[order[i]].variant)]

RevertWrites(order) == [i \in DOMAIN order |-> WriteMsg(order[i], active[order[i]].resting)]

RevertAll_skipped(then) == inbox' = inbox \o then

\* revert_all, and what the handler sends to Storage after it.
RevertAll(then) ==
    \E order \in Orderings(DOMAIN active) : inbox' = inbox \o RevertWrites(order) \o then

\* Each run has its own epoch, which tells its timer messages from older ones.
NextEpoch_unchanged == epoch
NextEpoch == epoch + 1

(* A hold: the revert timer of an earlier hold of the flag is cancelled, if *)
(* it has not fired yet, and a new one armed.                               *)
ArmRevert_then_cancel(m) ==
    LET key == Key("revert", m.flag)
    IN  /\ armed' = armed \ Cancellable({key})
        /\ timers' = Without(timers, {Key("trigger", m.flag), key})

ArmRevert(m) ==
    LET key == Key("revert", m.flag)
    IN  /\ armed' = (armed \ Cancellable({key}))
                      \cup {[msg |-> RevertMsg(epoch, m.flag), ref |-> FreshRef(key),
                             left |-> m.duration]}
        /\ timers' = Put(Without(timers, {Key("trigger", m.flag)}), {key}, FreshRef)

Announced_kept(f) == nextUp
Announced(f) == nextUp \ {f}

Take(type) ==
    /\ ~reading
    /\ mailbox # <<>>
    /\ Head(mailbox).type = type
    /\ Len(inbox) < InboxCap

Current(m) == running /\ m.epoch = epoch

-----------------------------------------------------------------------------
(* The users of the scheduler page.                                         *)

RequestStart(c) ==
    /\ requests < MaxRequests
    /\ requests' = requests + 1
    /\ mailbox' = Append(mailbox, StartMsg(c))
    /\ UNCHANGED <<storageVars, schedVars, callVars, armed, faults>>

RequestStop ==
    /\ requests < MaxRequests
    /\ requests' = requests + 1
    /\ mailbox' = Append(mailbox, StopMsg)
    /\ UNCHANGED <<storageVars, schedVars, callVars, armed, faults>>

-----------------------------------------------------------------------------
(* handle_call({:start_schedule, config}): an unusable configuration is     *)
(* answered with an error.  Otherwise the timers are cancelled, the held    *)
(* flags written back and the configuration read from Storage, behind those *)
(* writes; the new state is only installed once the reply is there.         *)

RejectStart ==
    /\ Take("start_schedule")
    /\ ~Valid(Head(mailbox).config)
    /\ mailbox' = Tail(mailbox)
    /\ UNCHANGED <<storageVars, schedVars, callVars, armed, requests, faults>>

BeginStart ==
    /\ Take("start_schedule")
    /\ Valid(Head(mailbox).config)
    /\ armed' = armed \ Cancellable(DOMAIN timers)
    /\ RevertAll(<<ReadMsg("scheduler")>>)
    /\ reading' = TRUE
    /\ UNCHANGED <<doc, file, schedVars, reply, mailbox, requests, faults>>

FinishStart ==
    LET c == Head(mailbox).config
        specs == EligibleSpecs(reply)
    IN  /\ reading
        /\ reply # None
        /\ BeginInterval(c, NextEpoch, specs, armed, Empty)
        /\ running' = TRUE
        /\ epoch' = NextEpoch
        /\ config' = c
        /\ eligible' = specs
        /\ active' = Empty
        /\ reading' = FALSE
        /\ reply' = None
        /\ mailbox' = Tail(mailbox)
        /\ UNCHANGED <<storageVars, requests, faults>>

Stop ==
    /\ Take("stop_schedule")
    /\ armed' = armed \ Cancellable(DOMAIN timers)
    /\ RevertAll(<<>>)
    /\ running' = FALSE
    /\ epoch' = NextEpoch
    /\ active' = Empty
    /\ nextUp' = {}
    /\ timers' = Empty
    /\ mailbox' = Tail(mailbox)
    /\ UNCHANGED <<doc, file, config, eligible, callVars, requests, faults>>

NextInterval ==
    /\ Take("begin_interval")
    /\ Current(Head(mailbox))
    /\ BeginInterval(config, epoch, eligible, armed,
                     Without(timers, {Key("begin_interval", None)}))
    /\ mailbox' = Tail(mailbox)
    /\ UNCHANGED <<storageVars, running, epoch, config, eligible, active, callVars,
                   requests, faults>>

Trigger ==
    LET m == Head(mailbox)
    IN  /\ Take("trigger")
        /\ Current(m)
        /\ ArmRevert(m)
        /\ inbox' = Append(inbox, WriteMsg(m.flag, m.variant))
        /\ active' = [f \in DOMAIN active \cup {m.flag} |->
                         IF f = m.flag THEN [variant |-> m.variant, resting |-> m.resting]
                                       ELSE active[f]]
        /\ nextUp' = Announced(m.flag)
        /\ mailbox' = Tail(mailbox)
        /\ UNCHANGED <<doc, file, running, epoch, config, eligible, callVars, requests, faults>>

Revert ==
    LET f == Head(mailbox).flag
    IN  /\ Take("revert")
        /\ Current(Head(mailbox))
        /\ f \in DOMAIN active
        /\ timers' = Without(timers, {Key("revert", f)})
        /\ inbox' = Append(inbox, WriteMsg(f, active[f].resting))
        /\ active' = Without(active, {f})
        /\ mailbox' = Tail(mailbox)
        /\ UNCHANGED <<doc, file, running, epoch, config, eligible, nextUp, callVars, armed,
                       requests, faults>>

\* A timer message of an earlier run falls through to the catch-all clause.
IgnoreStale ==
    /\ \E type \in {"begin_interval", "trigger", "revert"} : Take(type)
    /\ ~Current(Head(mailbox))
    /\ mailbox' = Tail(mailbox)
    /\ UNCHANGED <<storageVars, schedVars, callVars, armed, requests, faults>>

-----------------------------------------------------------------------------
(* The scheduler process ends and the supervisor starts a new one: the      *)
(* mailbox is gone and no timer of the old process reaches the new one.     *)

FreshProcess ==
    /\ running' = FALSE /\ epoch' = 0 /\ config' = DefaultConfig
    /\ eligible' = Empty /\ active' = Empty /\ nextUp' = {} /\ timers' = Empty
    /\ reading' = FALSE /\ reply' = None
    /\ armed' = {} /\ mailbox' = <<>>

\* terminate(_reason, state): revert_all of the state before the handler.
Terminate == RevertAll(<<>>)

\* Map.fetch! raises: the flag of this revert message is not held.
RevertRaises ==
    /\ Take("revert")
    /\ Current(Head(mailbox))
    /\ Head(mailbox).flag \notin DOMAIN active
    /\ Terminate
    /\ FreshProcess
    /\ UNCHANGED <<doc, file, requests, faults>>

-----------------------------------------------------------------------------
(* Storage, and the faults of both processes.                               *)

StorageWrite ==
    /\ HandleWrite
    /\ UNCHANGED <<schedVars, callVars, armed, mailbox, requests, faults>>

\* A caller that gave up no longer takes the answer.
StorageRead ==
    /\ Receive("read")
    /\ reply' = IF reading THEN doc ELSE reply
    /\ UNCHANGED <<doc, file, schedVars, reading, armed, mailbox, requests, faults>>

StorageCrash ==
    /\ faults < MaxFaults
    /\ faults' = faults + 1
    /\ RestartStorage
    /\ UNCHANGED <<schedVars, callVars, armed, mailbox, requests>>

ReadQueued == \E i \in DOMAIN inbox : inbox[i] = ReadMsg("scheduler")

(* The call exits, with Storage gone or after its five seconds.  Casts of   *)
(* terminate are lost when Storage is not registered yet.                   *)
ReadExits ==
    /\ reading
    /\ reply = None
    /\ \/ ~ReadQueued /\ UNCHANGED faults /\ (Terminate \/ UNCHANGED inbox)
       \/ ReadQueued /\ faults < MaxFaults /\ faults' = faults + 1 /\ Terminate
    /\ FreshProcess
    /\ UNCHANGED <<doc, file, requests>>

\* The node shuts the process down, or it is killed without terminate running.
ExitScheduler ==
    /\ faults < MaxFaults
    /\ faults' = faults + 1
    /\ Terminate \/ UNCHANGED inbox
    /\ FreshProcess
    /\ UNCHANGED <<doc, file, requests>>

-----------------------------------------------------------------------------
SchedulerStep ==
    \/ RejectStart \/ BeginStart \/ FinishStart \/ Stop
    \/ NextInterval \/ Trigger \/ Revert \/ RevertRaises \/ IgnoreStale

StorageStep == StorageWrite \/ StorageRead

Next ==
    \/ RequestStop
    \/ \E c \in Configs : RequestStart(c)
    \/ SchedulerStep
    \/ StorageStep
    \/ Fire
    \/ Tick
    \/ StorageCrash
    \/ ReadExits
    \/ ExitScheduler

Spec == Init /\ [][Next]_vars

(* Both processes handle what is in their mailboxes and the clock runs;     *)
(* users need not ask for anything and nothing needs to fail.               *)
FairSpec ==
    /\ Spec
    /\ WF_vars(SchedulerStep)
    /\ WF_vars(StorageStep)
    /\ WF_vars(Fire)
    /\ WF_vars(Tick)

-----------------------------------------------------------------------------
(* Properties.                                                              *)

TimerPending(m) == \E t \in armed : t.msg = m
Pending(m) == TimerPending(m) \/ \E i \in DOMAIN mailbox : mailbox[i] = m

(* Every held flag has a revert on its way, so no hold lasts for ever: the  *)
(* timer set by the trigger handler survives every other handler, or its    *)
(* message is waiting.                                                      *)
HeldFlagHasRevert ==
    ~reading => \A f \in DOMAIN active : running /\ Pending(RevertMsg(epoch, f))

\* The trigger messages of the current run that are still on their way.
TriggersPending ==
    {f \in Flags : \/ \E t \in armed : /\ t.msg.type = "trigger" /\ t.msg.epoch = epoch
                                       /\ t.msg.flag = f
                   \/ \E i \in DOMAIN mailbox :
                          /\ mailbox[i].type = "trigger" /\ mailbox[i].epoch = epoch
                          /\ mailbox[i].flag = f}

(* What the scheduler page announces as next up is exactly what will be     *)
(* triggered, through restarts of the run and overlapping intervals.        *)
NextUpIsAccurate == running /\ ~reading => nextUp = TriggersPending

(* While it runs, exactly one next interval is on its way: the chain of     *)
(* intervals neither dies nor forks.                                        *)
OneIntervalAhead ==
    running /\ ~reading =>
        Cardinality({t \in armed : t.msg = IntervalMsg(epoch)})
          + Cardinality({i \in DOMAIN mailbox : mailbox[i] = IntervalMsg(epoch)}) = 1

(* "A flag is never picked twice in the same interval": when an interval    *)
(* begins, all activations of the one before have been carried out.         *)
IntervalsDoNotOverlap == [][NextInterval => TriggersPending = {}]_vars

(* What Storage will hold for a flag once it has handled its mailbox.       *)
WritesTo(f) == {i \in DOMAIN inbox : inbox[i].type = "write" /\ inbox[i].flag = f}
Settles(f, v) ==
    \/ WritesTo(f) = {} /\ Toggle(doc[f]) = v
    \/ \E i \in WritesTo(f) : (\A j \in WritesTo(f) : j <= i) /\ inbox[i].variant = v

Rest(f) == Toggle(InitDoc[f])
Held == IF reading THEN {} ELSE DOMAIN active

(* Without faults and other writers, every flag the scheduler does not hold *)
(* is, or is about to be, what it was before the scheduler touched it; a    *)
(* held flag has the variant of its latest activation.                      *)
AtRestUnlessHeld ==
    \A f \in DOMAIN InitDoc :
        Settles(f, IF f \in Held THEN active[f].variant ELSE Rest(f))

(* Seen from outside, the scheduler only ever takes hold of flags and gives *)
(* them back at rest (module FlagHolds), whatever the order in which timer  *)
(* messages, requests and Storage's mailbox are handled.                    *)
Holds == INSTANCE FlagHolds
             WITH value <- [f \in DOMAIN InitDoc |->
                               CHOOSE v \in Variants \cup {None} : Settles(f, v)],
                  held <- Held,
                  Resting <- [f \in DOMAIN InitDoc |-> Rest(f)]
ImplementsHolds == Holds!Spec

(* A revert ends the hold it was set for: when a flag is given back while   *)
(* the run goes on, no timer for the end of its hold is still armed.        *)
RevertEndsItsOwnHold ==
    [][\A f \in DOMAIN active \ DOMAIN active' :
           running' /\ epoch' = epoch
             => ~\E t \in armed' : t.msg = RevertMsg(epoch, f)]_vars

(* "Stopping the scheduler reverts any flags that are still being held      *)
(* active": after a stop request the configuration has every flag at rest.  *)
StopRestores ==
    (\E i \in DOMAIN mailbox : mailbox[i] = StopMsg)
      ~> (\A f \in DOMAIN InitDoc : Toggle(doc[f]) = Rest(f))

\* A hold that fits within its interval ends.
HoldsEnd == \A f \in Flags : f \in DOMAIN active ~> f \notin DOMAIN active
=============================================================================
