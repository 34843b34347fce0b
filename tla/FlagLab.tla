------------------------------ MODULE FlagLab ------------------------------
(***************************************************************************)
(* The SRE learning lab (sre-learning-lab/flag_manager.py) driving the     *)
(* flags through the flagd-ui API, beside the other users of flagd-ui.     *)
(*                                                                         *)
(* Each learner is a browser session: one script run at a time, the runs   *)
(* of different sessions interleaved between any two accesses to the       *)
(* recovery file, the flag file and the API.  flagd-ui and the lab share   *)
(* the flag file.                                                          *)
(***************************************************************************)
EXTENDS FlagStorage, SequencesExt

CONSTANTS Learners,    \* browser sessions of the Streamlit app
          Nobody,      \* a caller of Storage that no longer waits for the answer
          Managed,     \* the flags of the question bank
          Safe,        \* managed flag -> the variant without a fault
          Faults,      \* fault profiles: functions from some managed flags to variants
          InitDoc,     \* the flag document at the start
          Edits,       \* what the other users of flagd-ui send to Storage
          Polls,       \* bound: reads before write_live reaches its deadline
          MaxPresses, MaxEdits, MaxFaults  \* bounds: buttons, edits, failures

ASSUME ManagedAssumption ==
    /\ Managed \subseteq Flags
    /\ Safe \in [Managed -> Variants]
    /\ \A p \in Faults : DOMAIN p \subseteq Managed /\ p \in [DOMAIN p -> Variants]
ASSUME LabDocAssumption == InitDoc \in Documents
ASSUME EditsAssumption ==
    Edits \subseteq StorageMessages /\ \A m \in Edits : m.type = "read" => m.from \notin Learners
ASSUME LearnersAssumption == Learners \subseteq Callers /\ Nobody \in Callers \ Learners
ASSUME LabBoundsAssumption ==
    /\ Polls \in Nat \ {0}
    /\ MaxPresses \in Nat /\ MaxEdits \in Nat /\ MaxFaults \in Nat

VARIABLES recovery,  \* active-session.json
          at,        \* where each learner's script run is
          job,       \* its local variables
          conflict,  \* st.session_state["restore_conflict"]
          answer,    \* the flags an API read returned, None before it does
          posts,     \* documents of requests given up on and not yet delivered
          disturbed, \* history: faults were kept on purpose, or a request arrived late
          presses, edits, failures

labVars == <<recovery, at, job, conflict, answer, posts, disturbed>>
vars == <<storageVars, labVars, presses, edits, failures>>

Recoveries == [original : Documents, applied : Documents]
Jobs == [kind : {"activate", "restore", "keep"}, forced : BOOLEAN,
         saved : Recoveries, against : Documents \cup {None}, left : 1..Polls]
ASSUME AbsenceAssumption == None \notin Documents /\ None \notin Recoveries /\ None \notin Jobs

TypeOK ==
    /\ StorageTypeOK
    /\ recovery \in Recoveries \cup {None}
    /\ at \in [Learners -> {"idle", "source", "save", "check", "checking",
                            "post", "poll", "polling", "file", "unlink"}]
    /\ job \in [Learners -> Jobs \cup {None}]
    /\ \A l \in Learners : job[l] = None <=> at[l] \in {"idle", "source"}
    /\ conflict \in [Learners -> BOOLEAN]
    /\ answer \in [Learners -> Documents \cup {None}]
    /\ posts \subseteq Documents
    /\ disturbed \in BOOLEAN
    /\ presses \in 0..MaxPresses /\ edits \in 0..MaxEdits /\ failures \in 0..MaxFaults

Init ==
    /\ doc = InitDoc /\ file = InitDoc /\ inbox = <<>>
    /\ recovery = None /\ posts = {} /\ disturbed = FALSE
    /\ at = [l \in Learners |-> "idle"]
    /\ job = [l \in Learners |-> None]
    /\ conflict = [l \in Learners |-> FALSE]
    /\ answer = [l \in Learners |-> None]
    /\ presses = 0 /\ edits = 0 /\ failures = 0

-----------------------------------------------------------------------------
(* Documents.  A bank's path leads to the value a write would change: the   *)
(* rule's for a flag with a three-element rule, else the default variant.   *)

\* validate_bank_against_flags
Usable(d) == \A f \in Managed : f \in DOMAIN d /\ Toggle(d[f]) \in Variants

\* Every managed flag is safe but those of the fault profile.
ScenarioDocument(d, fault) ==
    LET variant(f) == IF f \in DOMAIN fault THEN fault[f] ELSE Safe[f]
    IN  [f \in DOMAIN d |-> IF f \in Managed THEN UpdateFlag(d, f, variant(f))[f] ELSE d[f]]

Target(j) == IF j.kind = "activate" THEN j.saved.applied ELSE j.saved.original

-----------------------------------------------------------------------------
(* A script run.                                                            *)

GoTo(l, place) == at' = [at EXCEPT ![l] = place]
Finish(l) == GoTo(l, "idle") /\ job' = [job EXCEPT ![l] = None]
Update(l, j) == job' = [job EXCEPT ![l] = j]

Press(l) ==
    /\ at[l] = "idle"
    /\ presses < MaxPresses
    /\ presses' = presses + 1

Ask(l) ==
    /\ inbox' = Append(inbox, ReadMsg(l))
    /\ answer' = [answer EXCEPT ![l] = None]

Activate_unchecked(l) ==
    /\ Press(l)
    /\ GoTo(l, "source")
    /\ UNCHANGED <<storageVars, recovery, job, conflict, answer, posts, disturbed, edits, failures>>

\* activate: refused while a session is active.
Activate(l) ==
    /\ Press(l)
    /\ recovery = None
    /\ GoTo(l, "source")
    /\ UNCHANGED <<storageVars, recovery, job, conflict, answer, posts, disturbed, edits, failures>>

ReadSource(l) ==
    /\ at[l] = "source"
    /\ IF Usable(file)
       THEN \E fault \in Faults :
                /\ Update(l, [kind |-> "activate", forced |-> FALSE, against |-> None,
                              left |-> Polls,
                              saved |-> [original |-> file,
                                         applied |-> ScenarioDocument(file, fault)]])
                /\ GoTo(l, "save")
       ELSE Finish(l)
    /\ UNCHANGED <<storageVars, recovery, conflict, answer, posts, disturbed,
                   presses, edits, failures>>

SaveRecovery_skipped(l) ==
    /\ at[l] = "save"
    /\ GoTo(l, "post")
    /\ UNCHANGED <<storageVars, recovery, job, conflict, answer, posts, disturbed,
                   presses, edits, failures>>

SaveRecovery(l) ==
    /\ at[l] = "save"
    /\ recovery' = job[l].saved
    /\ GoTo(l, "post")
    /\ UNCHANGED <<storageVars, job, conflict, answer, posts, disturbed, presses, edits, failures>>

\* restore: without force, only when the live flags are those applied.
Restore(l, forced) ==
    /\ Press(l)
    /\ recovery # None
    /\ Update(l, [kind |-> "restore", forced |-> forced, saved |-> recovery,
                  against |-> None, left |-> Polls])
    /\ GoTo(l, IF forced THEN "post" ELSE "check")
    /\ UNCHANGED <<storageVars, recovery, conflict, answer, posts, disturbed, edits, failures>>

\* restore_has_conflict reads the recovery file again.
Check(l) ==
    /\ at[l] = "check"
    /\ IF recovery = None
       THEN GoTo(l, "post") /\ UNCHANGED <<inbox, job, answer>>
       ELSE /\ Ask(l)
            /\ Update(l, [job[l] EXCEPT !.against = recovery.applied])
            /\ GoTo(l, "checking")
    /\ UNCHANGED <<doc, file, recovery, conflict, posts, disturbed, presses, edits, failures>>

CheckAnswer(l) ==
    /\ at[l] = "checking"
    /\ answer[l] # None
    /\ IF answer[l] = job[l].against
       THEN GoTo(l, "post") /\ UNCHANGED <<job, conflict>>
       ELSE Finish(l) /\ conflict' = [conflict EXCEPT ![l] = TRUE]
    /\ UNCHANGED <<storageVars, recovery, answer, posts, disturbed, presses, edits, failures>>

\* write_live: the API casts the document to Storage and answers at once.
Post(l) ==
    /\ at[l] = "post"
    /\ inbox' = Append(inbox, ReplaceMsg(Target(job[l])))
    /\ GoTo(l, "poll")
    /\ UNCHANGED <<doc, file, recovery, job, conflict, answer, posts, disturbed,
                   presses, edits, failures>>

(* The request fails for its sender: it never arrived, only the answer was  *)
(* lost, or it is still on its way.                                         *)
PostFails(l) ==
    /\ at[l] = "post"
    /\ failures < MaxFaults
    /\ failures' = failures + 1
    /\ \/ UNCHANGED <<inbox, posts>>
       \/ inbox' = Append(inbox, ReplaceMsg(Target(job[l]))) /\ UNCHANGED posts
       \/ posts' = posts \cup {Target(job[l])} /\ UNCHANGED inbox
    /\ Finish(l)
    /\ UNCHANGED <<doc, file, recovery, conflict, answer, disturbed, presses, edits>>

Poll(l) ==
    /\ at[l] = "poll"
    /\ Ask(l)
    /\ GoTo(l, "polling")
    /\ UNCHANGED <<doc, file, recovery, job, conflict, posts, disturbed, presses, edits, failures>>

PollMissed_one_too_many(l) ==
    IF job[l].left > 0 THEN GoTo(l, "poll") /\ Update(l, [job[l] EXCEPT !.left = @ - 1])
                       ELSE Finish(l)
PollMissed_never_gives_up(l) == GoTo(l, "poll") /\ UNCHANGED job
PollMissed_unconfirmed(l) == GoTo(l, "file") /\ UNCHANGED job

\* After the deadline write_live raises; recovery stays for another attempt.
PollMissed(l) ==
    IF job[l].left > 1 THEN GoTo(l, "poll") /\ Update(l, [job[l] EXCEPT !.left = @ - 1])
                       ELSE Finish(l)

PollAnswer(l) ==
    /\ at[l] = "polling"
    /\ answer[l] # None
    /\ IF answer[l] # Target(job[l]) THEN PollMissed(l)
       ELSE IF job[l].kind = "activate" THEN Finish(l)
       ELSE GoTo(l, "file") /\ UNCHANGED job
    /\ UNCHANGED <<storageVars, recovery, conflict, answer, posts, disturbed,
                   presses, edits, failures>>

\* restore writes the flag file itself, behind the back of Storage.
RestoreFile(l) ==
    /\ at[l] = "file"
    /\ file' = job[l].saved.original
    /\ GoTo(l, "unlink")
    /\ UNCHANGED <<doc, inbox, recovery, job, conflict, answer, posts, disturbed,
                   presses, edits, failures>>

Unlink(l) ==
    /\ at[l] = "unlink"
    /\ recovery' = None
    /\ conflict' = [conflict EXCEPT ![l] = FALSE]
    /\ disturbed' = (disturbed \/ job[l].kind = "keep")
    /\ Finish(l)
    /\ UNCHANGED <<storageVars, answer, posts, presses, edits, failures>>

\* keep_current_and_close, offered after a conflict.
Keep(l) ==
    /\ Press(l)
    /\ conflict[l]
    /\ recovery # None
    /\ Update(l, [kind |-> "keep", forced |-> FALSE, saved |-> recovery,
                  against |-> None, left |-> Polls])
    /\ GoTo(l, "unlink")
    /\ UNCHANGED <<storageVars, recovery, conflict, answer, posts, disturbed, edits, failures>>

-----------------------------------------------------------------------------
(* Storage, other users and failures.                                       *)

StorageStep ==
    /\ \/ (HandleWrite \/ HandleReplace) /\ UNCHANGED answer
       \/ /\ Receive("read")
          /\ answer' = [l \in Learners |-> IF Head(inbox).from = l THEN doc ELSE answer[l]]
          /\ UNCHANGED <<doc, file>>
    /\ UNCHANGED <<recovery, at, job, conflict, posts, disturbed, presses, edits, failures>>

Edit ==
    /\ edits < MaxEdits
    /\ edits' = edits + 1
    /\ \E m \in Edits : inbox' = Append(inbox, m)
    /\ UNCHANGED <<doc, file, labVars, presses, failures>>

LateArrival ==
    /\ \E d \in posts : inbox' = Append(inbox, ReplaceMsg(d)) /\ posts' = posts \ {d}
    /\ disturbed' = TRUE
    /\ UNCHANGED <<doc, file, recovery, at, job, conflict, answer, presses, edits, failures>>

\* The reads of these learners stay in the mailbox; nobody takes the answers.
Abandoned(L) ==
    [i \in DOMAIN inbox |-> IF \E l \in L : inbox[i] = ReadMsg(l) THEN ReadMsg(Nobody) ELSE inbox[i]]

\* The read was lost with Storage, or its sender gave up on it.
ReadFails(l) ==
    /\ at[l] \in {"checking", "polling"}
    /\ answer[l] = None
    /\ IF \E i \in DOMAIN inbox : inbox[i] = ReadMsg(l)
       THEN failures < MaxFaults /\ failures' = failures + 1
       ELSE UNCHANGED failures
    /\ inbox' = Abandoned({l})
    /\ Finish(l)
    /\ UNCHANGED <<doc, file, recovery, conflict, answer, posts, disturbed, presses, edits>>

StorageCrash ==
    /\ failures < MaxFaults
    /\ failures' = failures + 1
    /\ RestartStorage
    /\ UNCHANGED <<labVars, presses, edits>>

\* The Streamlit process ends: the recovery file is all that is left.
LabCrash ==
    /\ failures < MaxFaults
    /\ failures' = failures + 1
    /\ at' = [l \in Learners |-> "idle"]
    /\ job' = [l \in Learners |-> None]
    /\ conflict' = [l \in Learners |-> FALSE]
    /\ inbox' = Abandoned(Learners)
    /\ UNCHANGED <<doc, file, recovery, answer, posts, disturbed, presses, edits>>

-----------------------------------------------------------------------------
RunStep(l) ==
    \/ ReadSource(l) \/ SaveRecovery(l) \/ Check(l) \/ CheckAnswer(l) \/ Post(l)
    \/ Poll(l) \/ PollAnswer(l) \/ RestoreFile(l) \/ Unlink(l) \/ ReadFails(l)

Next ==
    \/ \E l \in Learners :
           \/ Activate(l) \/ Keep(l) \/ (\E forced \in BOOLEAN : Restore(l, forced))
           \/ RunStep(l) \/ PostFails(l)
    \/ StorageStep
    \/ Edit
    \/ LateArrival
    \/ StorageCrash
    \/ LabCrash

Spec == Init /\ [][Next]_vars

\* A script run that has begun goes on, and Storage handles its mailbox.
FairSpec ==
    /\ Spec
    /\ \A l \in Learners : WF_vars(RunStep(l))
    /\ WF_vars(StorageStep)

-----------------------------------------------------------------------------
(* Properties.                                                              *)

Faulty(d) == \E f \in Managed \cap DOMAIN d : Toggle(d[f]) # Safe[f]

\* A message that puts a fault in the flags.
Injects(m) ==
    \/ m.type = "write" /\ m.flag \in Managed /\ m.variant # Safe[m.flag]
    \/ m.type = "replace" /\ m.doc # None /\ Faulty(m.doc)

(* "Streamlit or the browser closes first": as long as nobody else touches  *)
(* the managed flags and no request arrives after its sender gave up, an    *)
(* injected fault is never left in the flags, in the file or on its way to  *)
(* Storage without the recovery file, whatever fails in between.            *)
NoOrphanFault ==
    recovery = None /\ ~disturbed
      => ~Faulty(doc) /\ ~Faulty(file) /\ \A i \in DOMAIN inbox : ~Injects(inbox[i])

(* A recovery file is never replaced by another: the snapshot taken before  *)
(* the first fault is the one that is restored.                             *)
RecoveryKept == [][recovery # None /\ recovery' # None => recovery' = recovery]_vars

(* When nobody else edits, a session that ends by a restore leaves the      *)
(* flags and the file exactly as they were at activation, with nothing on   *)
(* its way that would change them.                                          *)
UneditedRestoreIsExact ==
    [][\A l \in Learners :
           Unlink(l) /\ job[l].kind = "restore" /\ edits = 0 /\ ~disturbed
             => /\ doc = job[l].saved.original
                /\ file = job[l].saved.original
                /\ \A i \in DOMAIN inbox : inbox[i].type = "read"]_vars

\* What Storage will hold once it has handled its mailbox.
Handled(d, m) ==
    IF m.type = "write" THEN UpdateFlag(d, m.flag, m.variant)
    ELSE IF m.type = "replace" /\ m.doc # None THEN m.doc
    ELSE d
Settled == FoldLeft(Handled, doc, inbox)

(* "If flags were edited elsewhere during an exercise, normal restore stops *)
(* and asks": a normal restore only ever replaces the flags it applied.     *)
NormalRestoreKeepsEdits ==
    [][\A l \in Learners :
           Post(l) /\ job[l].kind = "restore" /\ ~job[l].forced
             => Settled = job[l].saved.applied]_vars

\* No script run waits for ever, even for an answer that was lost.
ScriptRunsEnd == \A l \in Learners : at[l] # "idle" ~> at[l] = "idle"
=============================================================================
