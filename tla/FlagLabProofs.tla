--------------------------- MODULE FlagLabProofs ---------------------------
(***************************************************************************)
(* Theorems about the SRE learning lab, for every set of flags, variants   *)
(* and fault profiles, every flag document and every number of buttons,    *)
(* edits and failures.                                                     *)
(***************************************************************************)
EXTENDS FlagLab, SequenceTheorems, TLAPS

-----------------------------------------------------------------------------
(* Types of what the actions build.                                         *)

LEMMA UpdateFlagType ==
    ASSUME NEW d \in Documents, NEW f \in Flags, NEW v \in Variants
    PROVE  UpdateFlag(d, f, v) \in Documents /\ DOMAIN UpdateFlag(d, f, v) = DOMAIN d
<1>1. PICK S \in SUBSET Flags : d \in [S -> FlagData]
  BY DEF Documents
<1>2. UpdateFlag(d, f, v) \in [S -> FlagData]
  BY <1>1 DEF UpdateFlag, FlagData
<1>. QED
  BY <1>1, <1>2 DEF Documents

LEMMA ScenarioType ==
    ASSUME NEW d \in Documents, NEW fault \in Faults
    PROVE  ScenarioDocument(d, fault) \in Documents
<1>. DEFINE v(f) == IF f \in DOMAIN fault THEN fault[f] ELSE Safe[f]
            new == [f \in DOMAIN d |-> IF f \in Managed THEN UpdateFlag(d, f, v(f))[f] ELSE d[f]]
<1>1. PICK S \in SUBSET Flags : d \in [S -> FlagData]
  BY DEF Documents
<1>2. ASSUME NEW f \in Managed, f \in DOMAIN d
      PROVE  UpdateFlag(d, f, v(f))[f] \in FlagData
  <2>1. f \in Flags /\ v(f) \in Variants
    BY <1>2, ManagedAssumption
  <2>2. UpdateFlag(d, f, v(f)) \in Documents /\ DOMAIN UpdateFlag(d, f, v(f)) = DOMAIN d
    BY <2>1, UpdateFlagType
  <2>. QED
    BY <1>2, <2>2 DEF Documents
<1>3. new \in [S -> FlagData]
  BY <1>1, <1>2
<1>4. ScenarioDocument(d, fault) = new
  BY DEF ScenarioDocument
<1>. QED
  BY <1>3, <1>4 DEF Documents

LEMMA TargetType ==
    ASSUME NEW j \in Jobs
    PROVE  Target(j) \in Documents
BY DEF Jobs, Recoveries, Target

LEMMA SentType ==
    ASSUME TypeOK, NEW m \in StorageMessages, inbox' = Append(inbox, m)
    PROVE  inbox' \in Seq(StorageMessages)
BY AppendProperties DEF TypeOK, StorageTypeOK

LEMMA ReplaceMsgType ==
    ASSUME NEW d \in Documents
    PROVE  ReplaceMsg(d) \in StorageMessages
BY DEF ReplaceMsg, StorageMessages

LEMMA ReadMsgType ==
    ASSUME NEW c \in Callers
    PROVE  ReadMsg(c) \in StorageMessages
BY DEF ReadMsg, StorageMessages

LEMMA ReceiveType ==
    ASSUME TypeOK, NEW type, Receive(type)
    PROVE  /\ inbox # <<>>
           /\ Head(inbox) \in StorageMessages
           /\ Head(inbox).type = type
           /\ inbox' = Tail(inbox)
           /\ inbox' \in Seq(StorageMessages)
BY HeadTailProperties DEF TypeOK, StorageTypeOK, Receive

\* Giving up on reads leaves every message where it is.
LEMMA AbandonedType ==
    ASSUME TypeOK, NEW L
    PROVE  /\ Abandoned(L) \in Seq(StorageMessages)
           /\ DOMAIN Abandoned(L) = DOMAIN inbox
           /\ \A i \in DOMAIN inbox :
                  \/ Abandoned(L)[i] = inbox[i] /\ \A l \in L : inbox[i] # ReadMsg(l)
                  \/ Abandoned(L)[i] = ReadMsg(Nobody) /\ \E l \in L : inbox[i] = ReadMsg(l)
<1>1. /\ inbox \in [1..Len(inbox) -> StorageMessages]
      /\ Len(inbox) \in Nat /\ DOMAIN inbox = 1..Len(inbox)
  BY DEF TypeOK, StorageTypeOK
<1>2. ReadMsg(Nobody) \in StorageMessages
  BY ReadMsgType, LearnersAssumption
<1>3. Abandoned(L) \in [1..Len(inbox) -> StorageMessages]
  BY <1>1, <1>2 DEF Abandoned
<1>4. Abandoned(L) \in Seq(StorageMessages)
  BY <1>1, <1>3, SeqDef
<1>. QED
  BY <1>1, <1>4 DEF Abandoned

-----------------------------------------------------------------------------
(* Type correctness.                                                        *)

LEMMA RunType ==
    ASSUME TypeOK, NEW l \in Learners, RunStep(l)
    PROVE  TypeOK'
<1>. USE AbsenceAssumption DEF TypeOK, StorageTypeOK, storageVars, GoTo, Update, Finish
<1>1. at[l] \notin {"idle", "source"} => job[l] \in Jobs
  OBVIOUS
<1>2. CASE ReadSource(l)
  <2>1. ASSUME NEW fault \in Faults,
               Update(l, [kind |-> "activate", forced |-> FALSE, against |-> None,
                          left |-> Polls,
                          saved |-> [original |-> file,
                                     applied |-> ScenarioDocument(file, fault)]]),
               GoTo(l, "save")
        PROVE  TypeOK'
    <3>1. [original |-> file, applied |-> ScenarioDocument(file, fault)] \in Recoveries
      BY ScenarioType DEF Recoveries
    <3>2. [kind |-> "activate", forced |-> FALSE, against |-> None, left |-> Polls,
           saved |-> [original |-> file, applied |-> ScenarioDocument(file, fault)]] \in Jobs
      BY <3>1, LabBoundsAssumption DEF Jobs
    <3>. QED
      BY <1>2, <2>1, <3>2 DEF ReadSource
  <2>2. Finish(l) => TypeOK'
    BY <1>2 DEF ReadSource
  <2>. QED
    BY <1>2, <2>1, <2>2 DEF ReadSource
<1>3. CASE SaveRecovery(l)
  BY <1>1, <1>3 DEF SaveRecovery, Jobs
<1>4. CASE Check(l)
  <2>1. CASE recovery = None
    BY <1>1, <1>4, <2>1 DEF Check
  <2>2. CASE recovery # None
    <3>1. inbox' \in Seq(StorageMessages)
      BY <1>4, <2>2, SentType, ReadMsgType, LearnersAssumption DEF Check, Ask
    <3>2. [job[l] EXCEPT !.against = recovery.applied] \in Jobs
      BY <1>1, <1>4, <2>2 DEF Check, Jobs, Recoveries
    <3>3. PICK j \in Jobs : job' = [job EXCEPT ![l] = j]
      BY <1>4, <2>2, <3>2 DEF Check
    <3>. QED
      BY <1>4, <2>2, <3>1, <3>3 DEF Check, Ask
  <2>. QED
    BY <2>1, <2>2
<1>5. CASE CheckAnswer(l)
  BY <1>1, <1>5, ZenonT(40) DEF CheckAnswer
<1>6. CASE Post(l)
  <2>1. inbox' \in Seq(StorageMessages)
    BY <1>1, <1>6, SentType, TargetType, ReplaceMsgType DEF Post
  <2>. QED
    BY <1>1, <1>6, <2>1 DEF Post
<1>7. CASE Poll(l)
  <2>1. inbox' \in Seq(StorageMessages)
    BY <1>7, SentType, ReadMsgType, LearnersAssumption DEF Poll, Ask
  <2>. QED
    BY <1>1, <1>7, <2>1 DEF Poll, Ask
<1>8. CASE PollAnswer(l)
  <2>1. job[l] \in Jobs /\ at[l] = "polling"
    BY <1>1, <1>8 DEF PollAnswer
  <2>2. job[l].left > 1 => [job[l] EXCEPT !.left = @ - 1] \in Jobs
    BY <2>1, LabBoundsAssumption, SMTT(30) DEF Jobs
  <2>3. /\ PollMissed(l) \/ Finish(l) \/ (GoTo(l, "file") /\ UNCHANGED job)
        /\ UNCHANGED <<doc, file, inbox, recovery, conflict, answer, posts, disturbed,
                       presses, edits, failures>>
    BY <1>8 DEF PollAnswer
  <2>4. CASE Finish(l)
    BY <2>3, <2>4
  <2>5. ASSUME NEW j \in Jobs, job' = [job EXCEPT ![l] = j] \/ job' = job,
               NEW place \in {"poll", "file"}, at' = [at EXCEPT ![l] = place]
        PROVE  TypeOK'
    BY <2>1, <2>3, <2>5
  <2>. QED
    BY <2>1, <2>2, <2>3, <2>4, <2>5 DEF PollMissed
<1>9. CASE RestoreFile(l)
  BY <1>1, <1>9 DEF RestoreFile, Jobs, Recoveries
<1>10. CASE Unlink(l)
  BY <1>1, <1>10 DEF Unlink
<1>11. CASE ReadFails(l)
  <2>1. inbox' \in Seq(StorageMessages)
    BY <1>11, AbandonedType DEF ReadFails
  <2>. QED
    BY <1>1, <1>11, <2>1, LabBoundsAssumption DEF ReadFails
<1>. QED
  BY <1>2, <1>3, <1>4, <1>5, <1>6, <1>7, <1>8, <1>9, <1>10, <1>11 DEF RunStep

LEMMA PressType ==
    ASSUME TypeOK, NEW l \in Learners,
           Activate(l) \/ Keep(l) \/ (\E forced \in BOOLEAN : Restore(l, forced)) \/ PostFails(l)
    PROVE  TypeOK'
<1>. USE AbsenceAssumption, LabBoundsAssumption
     DEF TypeOK, StorageTypeOK, storageVars, GoTo, Update, Finish, Press
<1>1. CASE Activate(l)
  BY <1>1 DEF Activate
<1>2. ASSUME NEW kind \in {"keep", "restore"}, NEW forced \in BOOLEAN, recovery # None
      PROVE  [kind |-> kind, forced |-> forced, saved |-> recovery,
              against |-> None, left |-> Polls] \in Jobs
  BY <1>2 DEF Jobs
<1>3. CASE Keep(l)
  <2>1. PICK j \in Jobs : job' = [job EXCEPT ![l] = j]
    BY <1>2, <1>3 DEF Keep
  <2>2. at' = [at EXCEPT ![l] = "unlink"] /\ presses' \in 0..MaxPresses
    BY <1>3 DEF Keep
  <2>3. UNCHANGED <<doc, file, inbox, recovery, conflict, answer, posts, disturbed,
                    edits, failures>>
    BY <1>3 DEF Keep
  <2>. QED
    BY <2>1, <2>2, <2>3
<1>4. ASSUME NEW forced \in BOOLEAN, Restore(l, forced)
      PROVE  TypeOK'
  <2>1. PICK j \in Jobs : job' = [job EXCEPT ![l] = j]
    BY <1>2, <1>4 DEF Restore
  <2>2. at' = [at EXCEPT ![l] = "post"] \/ at' = [at EXCEPT ![l] = "check"]
    BY <1>4 DEF Restore
  <2>3. presses' \in 0..MaxPresses
    BY <1>4 DEF Restore
  <2>4. UNCHANGED <<doc, file, inbox, recovery, conflict, answer, posts, disturbed,
                    edits, failures>>
    BY <1>4 DEF Restore
  <2>. QED
    BY <2>1, <2>2, <2>3, <2>4
<1>5. CASE PostFails(l)
  <2>1. job[l] \in Jobs
    BY <1>5 DEF PostFails
  <2>2. Target(job[l]) \in Documents
    BY <2>1, TargetType
  <2>3. inbox' \in Seq(StorageMessages)
    BY <1>5, <2>2, SentType, ReplaceMsgType DEF PostFails
  <2>4. posts' \subseteq Documents
    BY <1>5, <2>2 DEF PostFails
  <2>. QED
    BY <1>5, <2>3, <2>4 DEF PostFails
<1>. QED
  BY <1>1, <1>3, <1>4, <1>5

LEMMA EnvironmentType ==
    ASSUME TypeOK, StorageStep \/ Edit \/ LateArrival \/ StorageCrash \/ LabCrash
    PROVE  TypeOK'
<1>. USE LabBoundsAssumption DEF TypeOK, StorageTypeOK, storageVars, labVars
<1>1. CASE StorageStep
  <2>1. ASSUME Receive("read"), UNCHANGED <<doc, file>>,
               answer' = [l \in Learners |-> IF Head(inbox).from = l THEN doc ELSE answer[l]]
        PROVE  TypeOK'
    BY <1>1, <2>1, ReceiveType DEF StorageStep
  <2>2. ASSUME HandleWrite, UNCHANGED answer
        PROVE  TypeOK'
    <3>. DEFINE m == Head(inbox)
    <3>1. m \in StorageMessages /\ m.type = "write" /\ inbox' \in Seq(StorageMessages)
      BY <2>2, ReceiveType DEF HandleWrite
    <3>2. m.flag \in Flags /\ m.variant \in Variants
      BY <3>1 DEF StorageMessages
    <3>3. UpdateFlag(doc, m.flag, m.variant) \in Documents
      BY <3>2, UpdateFlagType
    <3>. QED
      BY <1>1, <2>2, <3>1, <3>3 DEF StorageStep, HandleWrite, Persist
  <2>3. ASSUME HandleReplace, UNCHANGED answer
        PROVE  TypeOK'
    <3>. DEFINE m == Head(inbox)
    <3>1. m \in StorageMessages /\ m.type = "replace" /\ inbox' \in Seq(StorageMessages)
      BY <2>3, ReceiveType DEF HandleReplace
    <3>2. m.doc # None => m.doc \in Documents
      BY <3>1 DEF StorageMessages
    <3>. QED
      BY <1>1, <2>3, <3>1, <3>2 DEF StorageStep, HandleReplace, Persist
  <2>. QED
    BY <1>1, <2>1, <2>2, <2>3 DEF StorageStep
<1>2. CASE Edit
  <2>1. inbox' \in Seq(StorageMessages)
    BY <1>2, SentType, EditsAssumption DEF Edit
  <2>. QED
    BY <1>2, <2>1 DEF Edit
<1>3. CASE LateArrival
  <2>1. inbox' \in Seq(StorageMessages)
    BY <1>3, SentType, ReplaceMsgType DEF LateArrival
  <2>. QED
    BY <1>3, <2>1 DEF LateArrival
<1>4. CASE StorageCrash
  BY <1>4 DEF StorageCrash, RestartStorage
<1>5. CASE LabCrash
  <2>1. inbox' \in Seq(StorageMessages)
    BY <1>5, AbandonedType DEF LabCrash
  <2>. QED
    BY <1>5, <2>1 DEF LabCrash
<1>. QED
  BY <1>1, <1>2, <1>3, <1>4, <1>5

(* Whatever the learners, the other users and the failures do, the state of *)
(* the lab and of Storage stays well formed.                                *)
THEOREM TypeCorrect == Spec => []TypeOK
<1>1. ASSUME Init
      PROVE  TypeOK
  <2>1. StorageTypeOK
    BY <1>1, LabDocAssumption DEF Init, StorageTypeOK
  <2>2. /\ presses \in 0..MaxPresses /\ edits \in 0..MaxEdits /\ failures \in 0..MaxFaults
    BY <1>1, LabBoundsAssumption DEF Init
  <2>3. /\ recovery = None /\ posts = {} /\ disturbed = FALSE
        /\ at = [l \in Learners |-> "idle"] /\ job = [l \in Learners |-> None]
        /\ conflict = [l \in Learners |-> FALSE] /\ answer = [l \in Learners |-> None]
    BY <1>1 DEF Init
  <2>. QED
    BY <2>1, <2>2, <2>3 DEF TypeOK
<1>2. TypeOK /\ Next => TypeOK'
  BY RunType, PressType, EnvironmentType DEF Next
<1>3. TypeOK /\ UNCHANGED vars => TypeOK'
  BY DEF TypeOK, StorageTypeOK, vars, storageVars, labVars
<1>. QED
  BY <1>1, <1>2, <1>3, PTL DEF Spec

-----------------------------------------------------------------------------
(* One session.  A snapshot is saved only after the recovery file was found *)
(* missing, and from then until it is unlinked the script run that goes on  *)
(* works with the snapshot of the file.                                     *)

OneSession(me) ==
    /\ at[me] \in {"source", "save"} => recovery = None
    /\ at[me] \notin {"idle", "source", "save"} => recovery = job[me].saved
    /\ at[me] \notin {"idle", "source"} /\ job[me].kind = "keep" => at[me] = "unlink"
    /\ at[me] \in {"file", "unlink"} => job[me].kind # "activate"

LEMMA OneSessionStep ==
    ASSUME NEW me, Learners = {me}, TypeOK, OneSession(me), Next
    PROVE  OneSession(me)'
<1>1. /\ at \in [{me} -> {"idle", "source", "save", "check", "checking",
                        "post", "poll", "polling", "file", "unlink"}]
      /\ job \in [{me} -> Jobs \cup {None}]
      /\ at[me] \notin {"idle", "source"} => job[me] \in Jobs
  BY AbsenceAssumption DEF TypeOK
<1>. USE DEF OneSession, GoTo, Update, Finish, Press
<1>2. CASE Activate(me)
  BY <1>1, <1>2 DEF Activate
<1>3. CASE Keep(me)
  BY <1>1, <1>3 DEF Keep
<1>4. ASSUME NEW forced \in BOOLEAN, Restore(me, forced)
      PROVE  OneSession(me)'
  BY <1>1, <1>4 DEF Restore
<1>5. CASE PostFails(me)
  BY <1>1, <1>5 DEF PostFails
<1>6. CASE ReadSource(me)
  BY <1>1, <1>6 DEF ReadSource
<1>7. CASE SaveRecovery(me)
  BY <1>1, <1>7 DEF SaveRecovery
<1>8. CASE Check(me)
  BY <1>1, <1>8 DEF Check, Jobs
<1>9. CASE CheckAnswer(me)
  BY <1>1, <1>9 DEF CheckAnswer
<1>10. CASE Post(me)
  BY <1>1, <1>10 DEF Post
<1>11. CASE Poll(me)
  BY <1>1, <1>11 DEF Poll
<1>12. CASE PollAnswer(me)
  BY <1>1, <1>12 DEF PollAnswer, PollMissed, Jobs
<1>13. CASE RestoreFile(me)
  BY <1>1, <1>13 DEF RestoreFile
<1>14. CASE Unlink(me)
  BY <1>1, <1>14 DEF Unlink
<1>15. CASE ReadFails(me)
  BY <1>1, <1>15 DEF ReadFails
<1>16. CASE StorageStep \/ Edit \/ LateArrival \/ StorageCrash
  BY <1>16 DEF StorageStep, Edit, LateArrival, StorageCrash, labVars
<1>17. CASE LabCrash
  BY <1>17 DEF LabCrash
<1>. QED
  BY <1>2, <1>3, <1>4, <1>5, <1>6, <1>7, <1>8, <1>9, <1>10, <1>11, <1>12, <1>13,
     <1>14, <1>15, <1>16, <1>17 DEF Next, RunStep

LEMMA OneSessionInvariant ==
    ASSUME NEW me, Learners = {me}
    PROVE  Spec => []OneSession(me)
<1>1. Init => OneSession(me)
  BY DEF Init, OneSession
<1>2. TypeOK /\ OneSession(me) /\ [Next]_vars => OneSession(me)'
  BY OneSessionStep DEF vars, labVars, OneSession
<1>. QED
  BY <1>1, <1>2, TypeCorrect, PTL DEF Spec

(* While one session uses the lab, the snapshot taken before the first      *)
(* fault stays until it is restored or given up: no activation replaces     *)
(* it, whatever fails and however often the buttons are pressed.            *)
THEOREM SnapshotIsKept ==
    ASSUME NEW me, Learners = {me}
    PROVE  Spec => RecoveryKept
<1>1. OneSession(me) /\ [Next]_vars
        => [recovery # None /\ recovery' # None => recovery' = recovery]_vars
  <2>1. ASSUME OneSession(me), Next, recovery # None
        PROVE  recovery' \in {recovery, None}
    <3>1. ~SaveRecovery(me)
      BY <2>1 DEF SaveRecovery, OneSession
    <3>2. RunStep(me) => recovery' \in {recovery, None}
      BY <3>1 DEF RunStep, ReadSource, Check, CheckAnswer, Post, Poll, PollAnswer,
                  RestoreFile, Unlink, ReadFails
    <3>. QED
      BY <2>1, <3>2 DEF Next, Activate, Keep, Restore, PostFails, StorageStep, Edit,
                        LateArrival, StorageCrash, LabCrash, labVars
  <2>. QED
    BY <2>1
<1>. QED
  BY <1>1, OneSessionInvariant, PTL DEF Spec, RecoveryKept

-----------------------------------------------------------------------------
(* The mailbox.  B is a set of messages that must not come.                 *)

NoneOf(B) == \A i \in DOMAIN inbox : inbox[i] \notin B

\* None of B comes after a read of l.
NoneBehind(l, B) ==
    \A i, j \in DOMAIN inbox : i < j /\ inbox[i] = ReadMsg(l) => inbox[j] \notin B

LEMMA Popped ==
    ASSUME TypeOK, inbox # <<>>, inbox' = Tail(inbox), NEW l, NEW B
    PROVE  /\ NoneOf(B) => NoneOf(B)' /\ Head(inbox) \notin B
           /\ NoneBehind(l, B) => NoneBehind(l, B)'
           /\ NoneBehind(l, B) /\ Head(inbox) = ReadMsg(l) => NoneOf(B)'
<1>1. inbox \in Seq(StorageMessages) /\ Len(inbox) \in Nat /\ Len(inbox) # 0
  BY DEF TypeOK, StorageTypeOK
<1>2. /\ \A i \in 1..(Len(inbox) - 1) : inbox'[i] = inbox[i + 1]
      /\ DOMAIN inbox = 1..Len(inbox) /\ DOMAIN inbox' = 1..(Len(inbox) - 1)
      /\ Head(inbox) = inbox[1]
  BY <1>1, HeadTailProperties
<1>3. /\ \A i \in DOMAIN inbox' : /\ i \in Nat /\ i + 1 \in DOMAIN inbox
                                  /\ 1 < i + 1 /\ inbox'[i] = inbox[i + 1]
      /\ 1 \in DOMAIN inbox
  BY <1>1, <1>2
<1>4. NoneOf(B) => NoneOf(B)' /\ Head(inbox) \notin B
  BY <1>2, <1>3 DEF NoneOf
<1>5. ASSUME NoneBehind(l, B)
      PROVE  NoneBehind(l, B)'
  <2>1. SUFFICES ASSUME NEW i \in DOMAIN inbox', NEW j \in DOMAIN inbox', i < j,
                        inbox'[i] = ReadMsg(l)
                 PROVE  inbox'[j] \notin B
    BY DEF NoneBehind
  <2>2. i + 1 < j + 1
    BY <1>3, <2>1
  <2>. QED
    BY <1>3, <1>5, <2>1, <2>2 DEF NoneBehind
<1>6. NoneBehind(l, B) /\ Head(inbox) = ReadMsg(l) => NoneOf(B)'
  BY <1>2, <1>3 DEF NoneBehind, NoneOf
<1>. QED
  BY <1>4, <1>5, <1>6

LEMMA Sent ==
    ASSUME TypeOK, NEW m \in StorageMessages, inbox' = Append(inbox, m), NEW l, NEW B
    PROVE  /\ NoneOf(B) /\ m \notin B => NoneOf(B)'
           /\ NoneBehind(l, B) /\ m \notin B => NoneBehind(l, B)'
           /\ NoneOf({ReadMsg(l)}) => NoneBehind(l, B)'
<1>1. inbox \in Seq(StorageMessages) /\ Len(inbox) \in Nat
  BY DEF TypeOK, StorageTypeOK
<1>2. /\ \A i \in 1..Len(inbox) : inbox'[i] = inbox[i]
      /\ inbox'[Len(inbox) + 1] = m
      /\ DOMAIN inbox = 1..Len(inbox) /\ DOMAIN inbox' = 1..(Len(inbox) + 1)
  BY <1>1, AppendProperties
<1>3. \A i \in DOMAIN inbox' : \/ i \in DOMAIN inbox /\ inbox'[i] = inbox[i]
                               \/ i = Len(inbox) + 1 /\ inbox'[i] = m
  BY <1>1, <1>2
<1>4. \A i, j \in DOMAIN inbox' : i < j => i \in DOMAIN inbox /\ inbox'[i] = inbox[i]
  BY <1>1, <1>2
<1>5. NoneOf(B) /\ m \notin B => NoneOf(B)'
  BY <1>3 DEF NoneOf
<1>6. NoneBehind(l, B) /\ m \notin B => NoneBehind(l, B)'
  BY <1>3, <1>4 DEF NoneBehind
<1>7. NoneOf({ReadMsg(l)}) => NoneBehind(l, B)'
  BY <1>4 DEF NoneOf, NoneBehind
<1>. QED
  BY <1>5, <1>6, <1>7

LEMMA GivenUp ==
    ASSUME TypeOK, NEW L \in SUBSET Learners, inbox' = Abandoned(L), NEW B,
           ReadMsg(Nobody) \notin B
    PROVE  NoneOf(B) => NoneOf(B)'
BY AbandonedType DEF NoneOf

LEMMA ReadGivenUp ==
    ASSUME TypeOK, NEW L \in SUBSET Learners, inbox' = Abandoned(L), NEW l \in L
    PROVE  NoneOf({ReadMsg(l)})'
<1>1. ReadMsg(Nobody) # ReadMsg(l)
  BY LearnersAssumption DEF ReadMsg
<1>2. \A i \in DOMAIN inbox : Abandoned(L)[i] # ReadMsg(l)
  BY <1>1, AbandonedType
<1>. QED
  BY <1>2, AbandonedType DEF NoneOf

LEMMA Lost ==
    ASSUME inbox' = <<>>, NEW B
    PROVE  NoneOf(B)'
BY DEF NoneOf

\* A mailbox without the read has nothing behind it.
LEMMA NothingBehind ==
    ASSUME NEW l, NEW B, NoneOf({ReadMsg(l)})
    PROVE  NoneBehind(l, B)
BY DEF NoneOf, NoneBehind

-----------------------------------------------------------------------------
(* A script run has one read on its way, while it waits for its answer.     *)

Waits(l) == at[l] \in {"checking", "polling"} /\ answer[l] = None

OneRead(l) ==
    /\ Waits(l) \/ NoneOf({ReadMsg(l)})
    /\ NoneBehind(l, {ReadMsg(l)})

LEMMA OneReadRun ==
    ASSUME NEW me, Learners = {me}, TypeOK, OneRead(me), RunStep(me) \/ PostFails(me)
    PROVE  OneRead(me)'
<1>1. /\ at \in [{me} -> {"idle", "source", "save", "check", "checking",
                        "post", "poll", "polling", "file", "unlink"}]
      /\ answer \in [{me} -> Documents \cup {None}]
      /\ at[me] \notin {"idle", "source"} => job[me] \in Jobs
  BY AbsenceAssumption DEF TypeOK
<1>2. ASSUME ~Waits(me), UNCHANGED inbox
      PROVE  OneRead(me)'
  BY <1>2 DEF OneRead, NoneOf, NoneBehind
<1>3. ASSUME ~Waits(me), NEW d \in Documents, inbox' = Append(inbox, ReplaceMsg(d))
      PROVE  OneRead(me)'
  <2>1. ReplaceMsg(d) \in StorageMessages /\ ReplaceMsg(d) # ReadMsg(me)
    BY ReplaceMsgType DEF ReplaceMsg, ReadMsg
  <2>2. NoneOf({ReadMsg(me)})'
    BY <1>3, <2>1, Sent DEF OneRead
  <2>. QED
    BY <1>3, <2>1, <2>2, Sent DEF OneRead
<1>4. ASSUME ~Waits(me), Ask(me), at'[me] \in {"checking", "polling"}
      PROVE  OneRead(me)'
  <2>1. ReadMsg(me) \in StorageMessages
    BY ReadMsgType, LearnersAssumption
  <2>2. NoneBehind(me, {ReadMsg(me)})'
    BY <1>4, <2>1, Sent DEF OneRead, Ask
  <2>3. Waits(me)'
    BY <1>1, <1>4 DEF Ask, Waits
  <2>. QED
    BY <2>2, <2>3 DEF OneRead
<1>. USE DEF GoTo, Finish
<1>5. CASE ReadSource(me) \/ SaveRecovery(me) \/ CheckAnswer(me) \/ PollAnswer(me)
           \/ RestoreFile(me) \/ Unlink(me)
  BY <1>2, <1>5 DEF ReadSource, SaveRecovery, CheckAnswer, PollAnswer, RestoreFile, Unlink,
                    storageVars, Waits
<1>6. CASE Check(me)
  BY <1>1, <1>2, <1>4, <1>6 DEF Check, Waits
<1>7. CASE Poll(me)
  BY <1>1, <1>4, <1>7 DEF Poll, Waits
<1>8. CASE Post(me)
  BY <1>1, <1>3, <1>8, TargetType DEF Post, Waits
<1>9. CASE PostFails(me)
  BY <1>1, <1>2, <1>3, <1>9, TargetType DEF PostFails, Waits
<1>10. CASE ReadFails(me)
  <2>1. {me} \in SUBSET Learners /\ me \in {me} /\ inbox' = Abandoned({me})
    BY <1>10 DEF ReadFails
  <2>2. NoneOf({ReadMsg(me)})'
    BY <2>1, ReadGivenUp
  <2>. QED
    BY <2>2 DEF OneRead, NoneOf, NoneBehind
<1>. QED
  BY <1>5, <1>6, <1>7, <1>8, <1>9, <1>10 DEF RunStep

LEMMA OneReadRest ==
    ASSUME NEW me, Learners = {me}, TypeOK, OneRead(me),
           \/ Activate(me) \/ Keep(me) \/ (\E forced \in BOOLEAN : Restore(me, forced))
           \/ StorageStep \/ Edit \/ LateArrival \/ StorageCrash \/ LabCrash
    PROVE  OneRead(me)'
<1>1. CASE Activate(me) \/ Keep(me) \/ (\E forced \in BOOLEAN : Restore(me, forced))
  <2>1. ~Waits(me) /\ UNCHANGED inbox
    BY <1>1 DEF Activate, Keep, Restore, Press, Waits, storageVars
  <2>. QED
    BY <2>1 DEF OneRead, NoneOf, NoneBehind
<1>2. ASSUME NEW m \in StorageMessages, m # ReadMsg(me), inbox' = Append(inbox, m),
             UNCHANGED <<at, answer>>
      PROVE  OneRead(me)'
  BY <1>2, Sent DEF OneRead, Waits
<1>3. CASE Edit
  <2>1. PICK m \in Edits : inbox' = Append(inbox, m)
    BY <1>3 DEF Edit
  <2>2. m \in StorageMessages /\ m # ReadMsg(me)
    BY EditsAssumption DEF ReadMsg
  <2>. QED
    BY <1>2, <1>3, <2>1, <2>2 DEF Edit, labVars
<1>4. CASE LateArrival
  <2>1. PICK d \in posts : inbox' = Append(inbox, ReplaceMsg(d))
    BY <1>4 DEF LateArrival
  <2>2. ReplaceMsg(d) \in StorageMessages /\ ReplaceMsg(d) # ReadMsg(me)
    BY ReplaceMsgType DEF ReplaceMsg, ReadMsg, TypeOK
  <2>. QED
    BY <1>2, <1>4, <2>1, <2>2 DEF LateArrival
<1>5. CASE StorageStep
  <2>. DEFINE m == Head(inbox)
  <2>1. /\ inbox # <<>> /\ inbox' = Tail(inbox) /\ m \in StorageMessages
        /\ UNCHANGED at
    BY <1>5, ReceiveType DEF StorageStep, HandleWrite, HandleReplace, Receive
  <2>2. /\ NoneOf({ReadMsg(me)}) => NoneOf({ReadMsg(me)})'
        /\ NoneBehind(me, {ReadMsg(me)}) => NoneBehind(me, {ReadMsg(me)})'
        /\ NoneBehind(me, {ReadMsg(me)}) /\ m = ReadMsg(me) => NoneOf({ReadMsg(me)})'
    BY <2>1, Popped
  <2>3. CASE m = ReadMsg(me)
    BY <2>2, <2>3 DEF OneRead
  <2>4. CASE m # ReadMsg(me)
    <3>1. m.type = "read" => m.from # me
      BY <2>1, <2>4 DEF StorageMessages, ReadMsg
    <3>2. answer'[me] = answer[me]
      BY <1>5, <3>1 DEF StorageStep, Receive
    <3>. QED
      BY <2>1, <2>2, <3>2 DEF OneRead, Waits
  <2>. QED
    BY <2>3, <2>4
<1>6. CASE StorageCrash
  BY <1>6, Lost, NothingBehind DEF StorageCrash, RestartStorage, OneRead, NoneOf, NoneBehind
<1>7. CASE LabCrash
  <2>1. NoneOf({ReadMsg(me)})'
    BY <1>7, ReadGivenUp DEF LabCrash
  <2>. QED
    BY <2>1 DEF OneRead, NoneOf, NoneBehind
<1>. QED
  BY <1>1, <1>3, <1>4, <1>5, <1>6, <1>7

LEMMA OneReadInvariant ==
    ASSUME NEW me, Learners = {me}
    PROVE  Spec => []OneRead(me)
<1>1. Init => OneRead(me)
  BY DEF Init, OneRead, NoneOf, NoneBehind
<1>2. TypeOK /\ OneRead(me) /\ [Next]_vars => OneRead(me)'
  <2>1. TypeOK /\ OneRead(me) /\ Next => OneRead(me)'
    BY OneReadRun, OneReadRest DEF Next
  <2>2. OneRead(me) /\ UNCHANGED vars => OneRead(me)'
    BY DEF vars, labVars, storageVars, OneRead, Waits, NoneOf, NoneBehind
  <2>. QED
    BY <2>1, <2>2
<1>. QED
  BY <1>1, <1>2, TypeCorrect, PTL DEF Spec

-----------------------------------------------------------------------------
(* No fault without the recovery file.  A clean document stays clean when   *)
(* nothing on its way injects a fault; a restore unlinks the recovery file  *)
(* only after it saw a clean document with nothing of that kind behind its  *)
(* read, because Storage answers in the order of its mailbox.               *)

Injecting == {m \in StorageMessages : Injects(m)}
Calm == ~Faulty(doc) /\ NoneOf(Injecting)

\* Storage would come back from a crash without a fault it does not have.
InStep == doc = file \/ (~Faulty(doc) /\ ~Faulty(file))

NoFaultLeft(me) ==
    /\ InStep
    /\ recovery = None => Calm /\ ~Faulty(file)
    /\ recovery # None => ~Faulty(recovery.original)
    /\ at[me] = "save" => ~Faulty(job[me].saved.original)
    /\ at[me] = "polling" =>
           /\ NoneBehind(me, Injecting)
           /\ answer[me] # None /\ ~Faulty(answer[me]) => Calm
    /\ at[me] \in {"file", "unlink"} /\ job[me].kind = "restore" => Calm
    /\ at[me] = "unlink" /\ job[me].kind = "restore" => ~Faulty(file)

OrphanInv(me) == ~disturbed => NoFaultLeft(me)

LEMMA HarmlessWrite ==
    ASSUME NEW d \in Documents, ~Faulty(d), NEW m \in StorageMessages, m.type = "write",
           ~Injects(m)
    PROVE  ~Faulty(UpdateFlag(d, m.flag, m.variant))
<1>1. m.flag \in Flags /\ m.variant \in Variants /\ m.variant # None
  BY NoneAssumption DEF StorageMessages
<1>2. PICK S \in SUBSET Flags : d \in [S -> FlagData]
  BY DEF Documents
<1>. DEFINE new == UpdateFlag(d, m.flag, m.variant)
<1>3. DOMAIN new = DOMAIN d
  BY <1>1, UpdateFlagType
<1>4. ASSUME NEW f \in Managed, f \in DOMAIN d
      PROVE  Toggle(new[f]) = Safe[f]
  <2>1. Toggle(d[f]) = Safe[f] /\ d[f] \in FlagData
    BY <1>2, <1>4 DEF Faulty
  <2>2. CASE m.flag # f
    BY <1>2, <2>1, <2>2 DEF UpdateFlag
  <2>3. CASE m.flag = f
    <3>1. m.variant = Safe[f]
      BY <2>3 DEF Injects
    <3>2. /\ d[f].on # None => new[f] = [d[f] EXCEPT !.on = m.variant]
          /\ d[f].on = None /\ d[f].default # None => new[f] = [d[f] EXCEPT !.default = m.variant]
          /\ d[f].on = None /\ d[f].default = None => new[f] = d[f]
      BY <1>2, <1>4, <2>3 DEF UpdateFlag
    <3>. QED
      BY <1>1, <2>1, <3>1, <3>2 DEF Toggle, FlagData
  <2>. QED
    BY <2>2, <2>3
<1>. QED
  BY <1>3, <1>4 DEF Faulty

\* Storage and the other users, who leave the managed flags alone.
LEMMA CalmKept ==
    ASSUME TypeOK, InStep, \A m \in Edits : ~Injects(m),
           StorageStep \/ Edit \/ StorageCrash \/ LabCrash
    PROVE  /\ InStep'
           /\ Calm => Calm'
           /\ Calm /\ ~Faulty(file) => ~Faulty(file)'
<1>1. CASE StorageStep
  <2>. DEFINE m == Head(inbox)
  <2>1. /\ inbox # <<>> /\ inbox' = Tail(inbox) /\ m \in StorageMessages
    BY <1>1, ReceiveType DEF StorageStep, HandleWrite, HandleReplace
  <2>2. /\ NoneOf(Injecting) => NoneOf(Injecting)'
        /\ NoneOf(Injecting) => ~Injects(m)
    BY <2>1, Popped DEF Injecting
  <2>3. CASE UNCHANGED <<doc, file>>
    BY <2>2, <2>3 DEF Calm, InStep, Faulty
  <2>4. CASE HandleWrite
    <3>1. m.type = "write" /\ doc' = UpdateFlag(doc, m.flag, m.variant) /\ file' = doc'
      BY <2>4 DEF HandleWrite, Receive, Persist
    <3>2. ~Faulty(doc) /\ ~Injects(m) => ~Faulty(UpdateFlag(doc, m.flag, m.variant))
      BY <2>1, <3>1, HarmlessWrite DEF TypeOK, StorageTypeOK
    <3>3. ~Faulty(doc) /\ ~Injects(m) => ~Faulty(doc)' /\ ~Faulty(file)'
      BY <3>1, <3>2 DEF Faulty
    <3>. QED
      BY <2>2, <3>1, <3>3 DEF Calm, InStep
  <2>5. CASE HandleReplace /\ m.doc # None
    <3>1. m.type = "replace" /\ doc' = m.doc /\ file' = doc'
      BY <2>5 DEF HandleReplace, Receive, Persist
    <3>2. ~Injects(m) => ~Faulty(m.doc)
      BY <2>5, <3>1 DEF Injects
    <3>3. ~Injects(m) => ~Faulty(doc)' /\ ~Faulty(file)'
      BY <3>1, <3>2 DEF Faulty
    <3>. QED
      BY <2>2, <3>1, <3>3 DEF Calm, InStep
  <2>. QED
    BY <1>1, <2>3, <2>4, <2>5 DEF StorageStep, HandleReplace
<1>2. CASE Edit
  <2>1. PICK m \in Edits : inbox' = Append(inbox, m)
    BY <1>2 DEF Edit
  <2>2. m \in StorageMessages /\ m \notin Injecting
    BY EditsAssumption DEF Injecting
  <2>3. NoneOf(Injecting) => NoneOf(Injecting)'
    BY <2>1, <2>2, Sent
  <2>. QED
    BY <1>2, <2>3 DEF Edit, Calm, InStep, Faulty
<1>3. CASE StorageCrash
  <2>1. NoneOf(Injecting)'
    BY <1>3, Lost DEF StorageCrash, RestartStorage
  <2>. QED
    BY <1>3, <2>1 DEF StorageCrash, RestartStorage, Calm, InStep, Faulty
<1>4. CASE LabCrash
  <2>1. Learners \in SUBSET Learners /\ ReadMsg(Nobody) \notin Injecting
    BY DEF Injecting, Injects, ReadMsg
  <2>2. NoneOf(Injecting) => NoneOf(Injecting)'
    BY <1>4, <2>1, GivenUp DEF LabCrash
  <2>. QED
    BY <1>4, <2>2 DEF LabCrash, Calm, InStep, Faulty
<1>. QED
  BY <1>1, <1>2, <1>3, <1>4

LEMMA NoFaultEnvironment ==
    ASSUME NEW me, Learners = {me}, TypeOK, OneRead(me), NoFaultLeft(me),
           \A m \in Edits : ~Injects(m),
           StorageStep \/ Edit \/ StorageCrash \/ LabCrash
    PROVE  NoFaultLeft(me)'
<1>1. /\ InStep'
      /\ Calm => Calm'
      /\ Calm /\ ~Faulty(file) => ~Faulty(file)'
      /\ recovery' = recovery
  BY CalmKept DEF NoFaultLeft, StorageStep, Edit, StorageCrash, LabCrash, labVars
<1>2. /\ recovery' = None => Calm' /\ ~Faulty(file)'
      /\ recovery' # None => ~Faulty(recovery.original)'
  BY <1>1 DEF NoFaultLeft, Faulty
<1>3. CASE LabCrash
  <2>1. at'[me] = "idle"
    BY <1>3 DEF LabCrash
  <2>. QED
    BY <1>1, <1>2, <2>1 DEF NoFaultLeft
<1>4. CASE StorageStep \/ Edit \/ StorageCrash
  <2>1. UNCHANGED <<at, job>>
    BY <1>4 DEF StorageStep, Edit, StorageCrash, labVars
  <2>2. at[me] = "save" => ~Faulty(job[me].saved.original)'
    BY <2>1 DEF NoFaultLeft, Faulty
  <2>3. /\ at[me] \in {"file", "unlink"} /\ job[me].kind = "restore" => Calm'
        /\ at[me] = "unlink" /\ job[me].kind = "restore" => ~Faulty(file)'
    BY <1>1 DEF NoFaultLeft
  <2>4. ASSUME at[me] = "polling"
        PROVE  /\ NoneBehind(me, Injecting)'
               /\ answer'[me] # None /\ ~Faulty(answer'[me]) => Calm'
    <3>1. CASE StorageStep
      <4>. DEFINE m == Head(inbox)
      <4>1. inbox # <<>> /\ inbox' = Tail(inbox) /\ m \in StorageMessages
        BY <3>1, ReceiveType DEF StorageStep, HandleWrite, HandleReplace
      <4>2. /\ NoneBehind(me, Injecting) => NoneBehind(me, Injecting)'
            /\ NoneBehind(me, Injecting) /\ m = ReadMsg(me) => NoneOf(Injecting)'
        BY <4>1, Popped
      <4>3. CASE answer'[me] = answer[me]
        BY <1>1, <2>4, <4>2, <4>3 DEF NoFaultLeft
      <4>4. CASE answer'[me] # answer[me]
        <5>1. m.type = "read" /\ m.from = me /\ answer'[me] = doc /\ doc' = doc
          BY <3>1, <4>4 DEF StorageStep, Receive, TypeOK
        <5>2. m = ReadMsg(me)
          BY <4>1, <5>1 DEF StorageMessages, ReadMsg
        <5>3. ~Faulty(doc) => ~Faulty(doc)'
          BY <5>1 DEF Faulty
        <5>. QED
          BY <2>4, <4>2, <5>1, <5>2, <5>3 DEF NoFaultLeft, Calm
      <4>. QED
        BY <4>3, <4>4
    <3>2. CASE Edit
      <4>1. PICK m \in Edits : inbox' = Append(inbox, m)
        BY <3>2 DEF Edit
      <4>2. m \in StorageMessages /\ m \notin Injecting
        BY EditsAssumption DEF Injecting
      <4>3. NoneBehind(me, Injecting)'
        BY <2>4, <4>1, <4>2, Sent DEF NoFaultLeft
      <4>4. answer' = answer
        BY <3>2 DEF Edit, labVars
      <4>. QED
        BY <1>1, <2>4, <4>3, <4>4 DEF NoFaultLeft
    <3>3. CASE StorageCrash
      <4>1. answer' = answer /\ inbox' = <<>>
        BY <3>3 DEF StorageCrash, RestartStorage, labVars
      <4>. QED
        BY <1>1, <2>4, <4>1 DEF NoFaultLeft, NoneBehind
    <3>. QED
      BY <1>4, <3>1, <3>2, <3>3
  <2>. QED
    BY <1>1, <1>2, <2>1, <2>2, <2>3, <2>4 DEF NoFaultLeft
<1>. QED
  BY <1>3, <1>4

LEMMA NoFaultRun ==
    ASSUME NEW me, Learners = {me}, TypeOK, OneSession(me), OneRead(me), NoFaultLeft(me),
           RunStep(me), ~disturbed'
    PROVE  NoFaultLeft(me)'
<1>1. /\ at \in [{me} -> {"idle", "source", "save", "check", "checking",
                        "post", "poll", "polling", "file", "unlink"}]
      /\ job \in [{me} -> Jobs \cup {None}]
      /\ at[me] \notin {"idle", "source"} => job[me] \in Jobs
      /\ recovery # None => recovery \in Recoveries
  BY AbsenceAssumption DEF TypeOK
<1>2. \A j \in Jobs : j.saved \in Recoveries /\ j.saved # None
  BY AbsenceAssumption DEF Jobs
<1>3. ASSUME UNCHANGED <<doc, file, inbox>>
      PROVE  /\ InStep' = InStep /\ Calm' = Calm /\ Faulty(file)' = Faulty(file)
             /\ NoneBehind(me, Injecting)' = NoneBehind(me, Injecting)
  BY <1>3 DEF InStep, Calm, Faulty, NoneOf, NoneBehind
<1>4. ASSUME UNCHANGED recovery
      PROVE  Faulty(recovery.original)' = Faulty(recovery.original)
  BY <1>4 DEF Faulty
\* A step to a place of which nothing is said.
<1>5. ASSUME UNCHANGED <<doc, file, recovery>>, at'[me] \in {"idle", "check", "checking",
             "post", "poll"}, recovery = None => UNCHANGED inbox
      PROVE  NoFaultLeft(me)'
  <2>1. InStep' = InStep /\ Faulty(file)' = Faulty(file)
    BY <1>5 DEF InStep, Faulty
  <2>2. recovery = None => Calm' = Calm
    BY <1>3, <1>5
  <2>. QED
    BY <1>4, <1>5, <2>1, <2>2 DEF NoFaultLeft
<1>. USE DEF GoTo, Update, Finish
<1>6. CASE ReadSource(me)
  <2>1. UNCHANGED <<doc, file, inbox, recovery>>
    BY <1>6 DEF ReadSource, storageVars
  <2>2. recovery = None /\ ~Faulty(file)
    BY <1>6 DEF ReadSource, OneSession, NoFaultLeft
  <2>3. CASE Finish(me)
    BY <1>1, <1>5, <2>1, <2>3
  <2>4. CASE at'[me] = "save" /\ job'[me].saved.original = file
    <3>1. ~Faulty(job[me].saved.original)'
      BY <2>2, <2>4 DEF Faulty
    <3>. QED
      BY <1>3, <1>4, <2>1, <2>4, <3>1 DEF NoFaultLeft
  <2>. QED
    BY <1>1, <1>6, <2>3, <2>4 DEF ReadSource
<1>7. CASE SaveRecovery(me)
  <2>1. UNCHANGED <<doc, file, inbox>> /\ at'[me] = "post" /\ recovery' = job[me].saved
    BY <1>1, <1>7 DEF SaveRecovery, storageVars
  <2>2. recovery' # None
    BY <1>1, <1>2, <1>7, <2>1 DEF SaveRecovery
  <2>3. ~Faulty(recovery.original)'
    BY <1>7, <2>1 DEF SaveRecovery, NoFaultLeft, Faulty
  <2>. QED
    BY <1>3, <2>1, <2>2, <2>3 DEF NoFaultLeft
<1>8. CASE Check(me)
  BY <1>1, <1>5, <1>8 DEF Check
<1>9. CASE CheckAnswer(me)
  BY <1>1, <1>5, <1>9 DEF CheckAnswer, storageVars
<1>10. CASE Post(me)
  <2>1. recovery # None
    BY <1>1, <1>2, <1>10 DEF Post, OneSession
  <2>. QED
    BY <1>1, <1>5, <1>10, <2>1 DEF Post
<1>11. CASE Poll(me)
  <2>1. /\ UNCHANGED <<doc, file, recovery, job>>
        /\ at'[me] = "polling" /\ answer'[me] = None /\ inbox' = Append(inbox, ReadMsg(me))
    BY <1>1, <1>11 DEF Poll, Ask, TypeOK
  <2>2. ReadMsg(me) \in StorageMessages /\ ReadMsg(me) \notin Injecting
    BY ReadMsgType, LearnersAssumption DEF Injecting, Injects, ReadMsg
  <2>3. NoneOf({ReadMsg(me)})
    BY <1>11 DEF Poll, OneRead, Waits
  <2>4. NoneBehind(me, Injecting)'
    BY <2>1, <2>2, <2>3, Sent
  <2>5. InStep' = InStep /\ recovery # None
    BY <1>1, <1>2, <1>11, <2>1 DEF Poll, OneSession, InStep, Faulty
  <2>. QED
    BY <1>4, <2>1, <2>4, <2>5 DEF NoFaultLeft
<1>12. CASE PollAnswer(me)
  <2>1. UNCHANGED <<doc, file, inbox, recovery>>
    BY <1>12 DEF PollAnswer, storageVars
  <2>2. CASE at'[me] \in {"idle", "poll"}
    BY <1>5, <2>1, <2>2
  <2>3. CASE at'[me] \notin {"idle", "poll"}
    <3>1. /\ at'[me] = "file" /\ UNCHANGED job /\ job[me].kind # "activate"
          /\ answer[me] = Target(job[me]) /\ answer[me] # None /\ at[me] = "polling"
      BY <1>1, <1>12, <2>3 DEF PollAnswer, PollMissed
    <3>2. recovery # None /\ recovery = job[me].saved
      BY <1>1, <1>2, <3>1 DEF OneSession
    <3>3. Calm
      BY <3>1, <3>2 DEF Target, NoFaultLeft
    <3>. QED
      BY <1>3, <1>4, <2>1, <3>1, <3>3 DEF NoFaultLeft
  <2>. QED
    BY <2>2, <2>3
<1>13. CASE RestoreFile(me)
  <2>1. /\ UNCHANGED <<doc, inbox, recovery, job>> /\ at[me] = "file" /\ at'[me] = "unlink"
        /\ file' = recovery.original /\ recovery # None /\ job[me].kind = "restore"
    BY <1>1, <1>2, <1>13 DEF RestoreFile, OneSession, Jobs
  <2>2. ~Faulty(file)'
    BY <2>1 DEF NoFaultLeft, Faulty
  <2>3. Calm /\ Calm'
    BY <2>1 DEF NoFaultLeft, Calm, Faulty, NoneOf
  <2>. QED
    BY <1>4, <2>1, <2>2, <2>3 DEF NoFaultLeft, InStep, Calm
<1>14. CASE Unlink(me)
  <2>1. /\ UNCHANGED <<doc, file, inbox>> /\ at[me] = "unlink" /\ at'[me] = "idle"
        /\ recovery' = None
    BY <1>1, <1>14 DEF Unlink, storageVars
  <2>2. job[me].kind = "restore"
    BY <1>1, <1>14, <2>1 DEF Unlink, OneSession, Jobs
  <2>. QED
    BY <1>3, <2>1, <2>2 DEF NoFaultLeft
<1>15. CASE ReadFails(me)
  <2>1. recovery # None
    BY <1>1, <1>2, <1>15 DEF ReadFails, OneSession
  <2>. QED
    BY <1>1, <1>5, <1>15, <2>1 DEF ReadFails
<1>. QED
  BY <1>6, <1>7, <1>8, <1>9, <1>10, <1>11, <1>12, <1>13, <1>14, <1>15 DEF RunStep

LEMMA NoFaultPress ==
    ASSUME NEW me, Learners = {me}, TypeOK, OneSession(me), NoFaultLeft(me),
           Activate(me) \/ Keep(me) \/ (\E forced \in BOOLEAN : Restore(me, forced)) \/ PostFails(me)
    PROVE  NoFaultLeft(me)'
<1>1. /\ at \in [{me} -> {"idle", "source", "save", "check", "checking",
                        "post", "poll", "polling", "file", "unlink"}]
      /\ job \in [{me} -> Jobs \cup {None}]
      /\ at[me] \notin {"idle", "source"} => job[me] \in Jobs
  BY AbsenceAssumption DEF TypeOK
<1>2. UNCHANGED <<doc, file, recovery>>
  BY DEF Activate, Keep, Restore, PostFails, storageVars
<1>3. recovery = None => UNCHANGED inbox
  <2>1. PostFails(me) => recovery # None
    BY <1>1, AbsenceAssumption DEF PostFails, OneSession, Jobs
  <2>. QED
    BY <2>1 DEF Activate, Keep, Restore, storageVars
<1>4. /\ at'[me] \in {"idle", "source", "check", "post", "unlink"}
      /\ at'[me] = "unlink" => job'[me].kind = "keep"
  BY <1>1 DEF Activate, Keep, Restore, PostFails, GoTo, Update, Finish
<1>5. /\ InStep' = InStep /\ Faulty(file)' = Faulty(file)
      /\ Faulty(recovery.original)' = Faulty(recovery.original)
      /\ recovery = None => Calm' = Calm
  BY <1>2, <1>3 DEF InStep, Calm, Faulty, NoneOf
<1>. QED
  BY <1>2, <1>4, <1>5 DEF NoFaultLeft

(* "Streamlit or the browser closes first": while one session uses the lab  *)
(* and nobody else touches the managed flags, a fault that an exercise put  *)
(* in the flags is never left there, in the file or on its way without the  *)
(* recovery file, whatever fails, until the learner keeps it on purpose or  *)
(* a request arrives after its sender gave up.  At the start the flags have *)
(* no fault: the safe variants of the question bank are the defaults of     *)
(* src/flagd/demo.flagd.json.                                               *)
THEOREM NoFaultIsOrphaned ==
    ASSUME NEW me, Learners = {me}, ~Faulty(InitDoc), \A m \in Edits : ~Injects(m)
    PROVE  Spec => []NoOrphanFault
<1>1. Init => OrphanInv(me)
  BY DEF Init, OrphanInv, NoFaultLeft, InStep, Calm, NoneOf, Faulty
<1>2. TypeOK /\ OneSession(me) /\ OneRead(me) /\ OrphanInv(me) /\ [Next]_vars => OrphanInv(me)'
  <2>1. ASSUME TypeOK, OneSession(me), OneRead(me), OrphanInv(me), Next, ~disturbed'
        PROVE  NoFaultLeft(me)'
    <3>1. ~LateArrival
      BY <2>1 DEF LateArrival
    <3>2. Unlink(me) => ~disturbed
      BY <2>1 DEF Unlink
    <3>3. RunStep(me) => ~disturbed
      BY <2>1, <3>2 DEF RunStep, ReadSource, SaveRecovery, Check, CheckAnswer, Post, Poll,
                        PollAnswer, RestoreFile, ReadFails
    <3>4. ~disturbed
      BY <2>1, <3>1, <3>3 DEF Next, Activate, Keep, Restore, PostFails, StorageStep, Edit,
                              StorageCrash, LabCrash, labVars
    <3>. QED
      BY <2>1, <3>1, <3>4, NoFaultEnvironment, NoFaultRun, NoFaultPress DEF Next, OrphanInv
  <2>2. OrphanInv(me) /\ UNCHANGED vars => OrphanInv(me)'
    BY DEF vars, labVars, storageVars, OrphanInv, NoFaultLeft, InStep, Calm, NoneOf,
           NoneBehind, Faulty
  <2>. QED
    BY <2>1, <2>2 DEF OrphanInv
<1>3. TypeOK /\ OrphanInv(me) => NoOrphanFault
  BY DEF OrphanInv, NoFaultLeft, Calm, NoneOf, Injecting, NoOrphanFault, TypeOK, StorageTypeOK
<1>. QED
  BY <1>1, <1>2, <1>3, TypeCorrect, OneSessionInvariant, OneReadInvariant, PTL DEF Spec

-----------------------------------------------------------------------------
(* A restore without edits.  The answer that ends the wait is the document  *)
(* of Storage, and only reads are behind it in the mailbox.                 *)

Changes == {m \in StorageMessages : m.type # "read"}

Agreed(me) ==
    /\ doc = file
    /\ at[me] = "polling" =>
           /\ NoneBehind(me, Changes)
           /\ answer[me] # None => doc = answer[me] /\ NoneOf(Changes)
    /\ at[me] \in {"file", "unlink"} /\ job[me].kind = "restore" =>
           doc = job[me].saved.original /\ NoneOf(Changes)

UneditedInv(me) == ~disturbed /\ edits = 0 => Agreed(me)

LEMMA AgreedEnvironment ==
    ASSUME NEW me, Learners = {me}, TypeOK, Agreed(me), StorageStep \/ StorageCrash \/ LabCrash
    PROVE  Agreed(me)'
<1>1. CASE LabCrash
  <2>1. at'[me] = "idle" /\ UNCHANGED <<doc, file>>
    BY <1>1 DEF LabCrash
  <2>. QED
    BY <2>1 DEF Agreed
<1>2. CASE StorageCrash
  <2>1. inbox' = <<>> /\ doc' = file /\ file' = file /\ UNCHANGED <<at, job, answer>>
    BY <1>2 DEF StorageCrash, RestartStorage, labVars
  <2>. QED
    BY <2>1 DEF Agreed, NoneOf, NoneBehind
<1>3. CASE StorageStep
  <2>. DEFINE m == Head(inbox)
  <2>1. /\ inbox # <<>> /\ inbox' = Tail(inbox) /\ m \in StorageMessages
        /\ UNCHANGED <<at, job>>
    BY <1>3, ReceiveType DEF StorageStep, HandleWrite, HandleReplace
  <2>2. /\ NoneOf(Changes) => NoneOf(Changes)' /\ m \notin Changes
        /\ NoneBehind(me, Changes) => NoneBehind(me, Changes)'
        /\ NoneBehind(me, Changes) /\ m = ReadMsg(me) => NoneOf(Changes)'
    BY <2>1, Popped
  <2>3. \/ UNCHANGED <<doc, file>>
        \/ \E d : Persist(d)
    BY <1>3 DEF StorageStep, HandleWrite, HandleReplace
  <2>4. doc' = file'
    BY <2>3 DEF Persist, Agreed
  <2>5. m \notin Changes => doc' = doc
    BY <1>3, <2>1 DEF StorageStep, HandleWrite, HandleReplace, Receive, Changes
  <2>6. at[me] \in {"file", "unlink"} /\ job[me].kind = "restore" =>
            doc' = job[me].saved.original /\ NoneOf(Changes)'
    BY <2>2, <2>5 DEF Agreed
  <2>7. ASSUME at[me] = "polling", answer'[me] # None
        PROVE  doc' = answer'[me] /\ NoneOf(Changes)'
    <3>1. CASE answer'[me] = answer[me]
      BY <2>2, <2>5, <2>7, <3>1 DEF Agreed
    <3>2. CASE answer'[me] # answer[me]
      <4>1. m.type = "read" /\ m.from = me /\ answer'[me] = doc
        BY <1>3, <3>2 DEF StorageStep, Receive, TypeOK
      <4>2. m = ReadMsg(me)
        BY <2>1, <4>1 DEF StorageMessages, ReadMsg
      <4>3. m \notin Changes
        BY <4>1 DEF Changes
      <4>. QED
        BY <2>2, <2>5, <2>7, <4>1, <4>2, <4>3 DEF Agreed
    <3>. QED
      BY <3>1, <3>2
  <2>. QED
    BY <2>1, <2>2, <2>4, <2>6, <2>7 DEF Agreed
<1>. QED
  BY <1>1, <1>2, <1>3

LEMMA AgreedLearner ==
    ASSUME NEW me, Learners = {me}, TypeOK, OneSession(me), OneRead(me), Agreed(me),
           \/ Activate(me) \/ Keep(me) \/ (\E forced \in BOOLEAN : Restore(me, forced))
           \/ RunStep(me) \/ PostFails(me)
    PROVE  Agreed(me)'
<1>1. /\ at \in [{me} -> {"idle", "source", "save", "check", "checking",
                        "post", "poll", "polling", "file", "unlink"}]
      /\ job \in [{me} -> Jobs \cup {None}]
      /\ at[me] \notin {"idle", "source"} => job[me] \in Jobs
  BY AbsenceAssumption DEF TypeOK
\* A step to a place of which nothing is said.
<1>2. ASSUME UNCHANGED <<doc, file>>, at'[me] \notin {"polling", "file", "unlink"}
      PROVE  Agreed(me)'
  BY <1>2 DEF Agreed
<1>. USE DEF GoTo, Update, Finish
<1>3. CASE Activate(me) \/ (\E forced \in BOOLEAN : Restore(me, forced)) \/ PostFails(me)
  BY <1>1, <1>2, <1>3 DEF Activate, Restore, PostFails, Press, storageVars
<1>4. CASE Keep(me)
  <2>1. at'[me] = "unlink" /\ job'[me].kind = "keep" /\ UNCHANGED <<doc, file>>
    BY <1>1, <1>4 DEF Keep, storageVars
  <2>. QED
    BY <2>1 DEF Agreed
<1>5. CASE ReadSource(me) \/ SaveRecovery(me) \/ Check(me) \/ CheckAnswer(me) \/ Post(me)
           \/ Unlink(me) \/ ReadFails(me)
  <2>1. UNCHANGED <<doc, file>>
    BY <1>5 DEF ReadSource, SaveRecovery, Check, CheckAnswer, Post, Unlink, ReadFails, storageVars
  <2>2. at'[me] \notin {"polling", "file", "unlink"}
    BY <1>1, <1>5 DEF ReadSource, SaveRecovery, Check, CheckAnswer, Post, Unlink, ReadFails
  <2>. QED
    BY <1>2, <2>1, <2>2
<1>6. CASE Poll(me)
  <2>1. /\ UNCHANGED <<doc, file>>
        /\ at'[me] = "polling" /\ answer'[me] = None /\ inbox' = Append(inbox, ReadMsg(me))
    BY <1>1, <1>6 DEF Poll, Ask, TypeOK
  <2>2. ReadMsg(me) \in StorageMessages
    BY ReadMsgType, LearnersAssumption
  <2>3. NoneOf({ReadMsg(me)})
    BY <1>6 DEF Poll, OneRead, Waits
  <2>4. NoneBehind(me, Changes)'
    BY <2>1, <2>2, <2>3, Sent
  <2>. QED
    BY <2>1, <2>4 DEF Agreed
<1>7. CASE PollAnswer(me)
  <2>1. UNCHANGED <<doc, file, inbox>>
    BY <1>7 DEF PollAnswer, storageVars
  <2>2. CASE at'[me] \in {"idle", "poll"}
    BY <1>2, <2>1, <2>2
  <2>3. CASE at'[me] \notin {"idle", "poll"}
    <3>1. /\ at'[me] = "file" /\ UNCHANGED job /\ answer[me] = Target(job[me])
          /\ job[me].kind # "activate" /\ answer[me] # None /\ at[me] = "polling"
      BY <1>1, <1>7, <2>3 DEF PollAnswer, PollMissed
    <3>2. doc = job[me].saved.original /\ NoneOf(Changes)
      BY <3>1 DEF Agreed, Target
    <3>. QED
      BY <2>1, <3>1, <3>2 DEF Agreed, NoneOf
  <2>. QED
    BY <2>2, <2>3
<1>8. CASE RestoreFile(me)
  <2>1. /\ UNCHANGED <<doc, inbox, job>> /\ at[me] = "file" /\ at'[me] = "unlink"
        /\ file' = job[me].saved.original /\ job[me].kind = "restore"
    BY <1>1, <1>8 DEF RestoreFile, OneSession, Jobs
  <2>. QED
    BY <2>1 DEF Agreed, NoneOf
<1>. QED
  BY <1>3, <1>4, <1>5, <1>6, <1>7, <1>8 DEF RunStep

(* While one session uses the lab and nobody else edits, a session that     *)
(* ends by a restore leaves the flags and the file exactly as they were at  *)
(* activation, with nothing on its way that would change them, whatever     *)
(* was lost or started again in between.                                    *)
THEOREM RestoreIsExact ==
    ASSUME NEW me, Learners = {me}
    PROVE  Spec => UneditedRestoreIsExact
<1>1. Init => UneditedInv(me)
  BY DEF Init, UneditedInv, Agreed
<1>2. TypeOK /\ OneSession(me) /\ OneRead(me) /\ UneditedInv(me) /\ [Next]_vars => UneditedInv(me)'
  <2>1. ASSUME TypeOK, OneSession(me), OneRead(me), UneditedInv(me), Next,
               ~disturbed', edits' = 0
        PROVE  Agreed(me)'
    <3>1. ~LateArrival /\ ~Edit
      BY <2>1 DEF LateArrival, Edit, TypeOK
    <3>2. Unlink(me) => ~disturbed
      BY <2>1 DEF Unlink
    <3>3. RunStep(me) => ~disturbed
      BY <2>1, <3>2 DEF RunStep, ReadSource, SaveRecovery, Check, CheckAnswer, Post, Poll,
                        PollAnswer, RestoreFile, ReadFails
    <3>4. ~disturbed
      BY <2>1, <3>1, <3>3 DEF Next, Activate, Keep, Restore, PostFails, StorageStep,
                              StorageCrash, LabCrash, labVars
    <3>5. RunStep(me) => edits = 0
      BY <2>1 DEF RunStep, ReadSource, SaveRecovery, Check, CheckAnswer, Post, Poll,
                  PollAnswer, RestoreFile, Unlink, ReadFails
    <3>6. edits = 0
      BY <2>1, <3>1, <3>5 DEF Next, Activate, Keep, Restore, PostFails, StorageStep,
                              StorageCrash, LabCrash
    <3>. QED
      BY <2>1, <3>1, <3>4, <3>6, AgreedEnvironment, AgreedLearner DEF Next, UneditedInv
  <2>2. UneditedInv(me) /\ UNCHANGED vars => UneditedInv(me)'
    BY DEF vars, labVars, storageVars, UneditedInv, Agreed, NoneOf, NoneBehind
  <2>. QED
    BY <2>1, <2>2 DEF UneditedInv
<1>3. TypeOK /\ UneditedInv(me)
        => [\A l \in Learners :
               Unlink(l) /\ job[l].kind = "restore" /\ edits = 0 /\ ~disturbed
                 => /\ doc = job[l].saved.original
                    /\ file = job[l].saved.original
                    /\ \A i \in DOMAIN inbox : inbox[i].type = "read"]_vars
  BY DEF UneditedInv, Agreed, Unlink, NoneOf, Changes, TypeOK, StorageTypeOK
<1>. QED
  BY <1>1, <1>2, <1>3, TypeCorrect, OneSessionInvariant, OneReadInvariant, PTL
  DEF Spec, UneditedRestoreIsExact
=============================================================================
