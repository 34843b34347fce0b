---------------------------- MODULE FlagStorage ----------------------------
(***************************************************************************)
(* The Storage GenServer of flagd-ui (lib/flagd_ui/storage.ex): one        *)
(* process that owns the flag configuration, serves reads, applies single  *)
(* flag writes and whole-document replacements in mailbox order, and       *)
(* persists every change to the file flagd watches.                        *)
(*                                                                         *)
(* A document maps flag names to the two values Storage can touch: the     *)
(* flag's "defaultVariant" and, for a flag whose targeting is a            *)
(* three-element `if`, the value that rule yields when its condition       *)
(* holds.  The other fields of a flag are never written.                   *)
(***************************************************************************)
EXTENDS Naturals, Sequences, FiniteSets

CONSTANTS Flags,     \* names of feature flags
          Variants,  \* names of variants
          None,      \* absence: no defaultVariant, no such rule, no document
          Callers    \* who calls Storage with :read and waits for the answer

ASSUME NoneAssumption == None \notin Variants /\ None \notin Flags
ASSUME FlagsAssumption == IsFiniteSet(Flags)

VARIABLES doc,    \* the process state: the parsed configuration
          file,   \* the content of storage_file_path
          inbox   \* the Storage mailbox

storageVars == <<doc, file, inbox>>

FlagData == [default : Variants \cup {None}, on : Variants \cup {None}]

\* Documents may lack flags: a replacement can drop some, and an unreadable
\* file is read as the empty configuration.
Documents == UNION {[S -> FlagData] : S \in SUBSET Flags}

WriteMsg(f, v) == [type |-> "write", flag |-> f, variant |-> v]
ReadMsg(from) == [type |-> "read", from |-> from]
\* A replacement whose JSON does not parse carries no document.
ReplaceMsg(d) == [type |-> "replace", doc |-> d]

StorageMessages ==
    [type : {"write"}, flag : Flags, variant : Variants]
      \cup [type : {"read"}, from : Callers]
      \cup [type : {"replace"}, doc : Documents \cup {None}]

StorageTypeOK ==
    /\ doc \in Documents
    /\ file \in Documents
    /\ inbox \in Seq(StorageMessages)

-----------------------------------------------------------------------------
(* What the code under a flag sees when its rule's condition holds: the     *)
(* slot that update_flag writes.                                            *)
Toggle(data) == IF data.on # None THEN data.on ELSE data.default

\* The write ignores the targeting rule and always sets the default variant.
UpdateFlag_default_only(d, f, v) ==
    IF f \in DOMAIN d THEN [d EXCEPT ![f].default = v] ELSE d

(* A flag with a three-element rule is toggled through the rule; any other  *)
(* has its defaultVariant replaced, which adds nothing where it is absent.  *)
(* Unknown flags are ignored.                                               *)
UpdateFlag(d, f, v) ==
    IF f \notin DOMAIN d THEN d
    ELSE [d EXCEPT ![f] = IF @.on # None THEN [@ EXCEPT !.on = v]
                          ELSE IF @.default # None THEN [@ EXCEPT !.default = v]
                          ELSE @]

-----------------------------------------------------------------------------
(* Every handler takes the message at the head of the mailbox.  A write is  *)
(* persisted by writing a temporary file and renaming it, so the file holds *)
(* either the old or the new document, never a part of one.                 *)
Persist(d) == doc' = d /\ file' = d

Receive(type) ==
    /\ inbox # <<>>
    /\ Head(inbox).type = type
    /\ inbox' = Tail(inbox)

HandleWrite ==
    /\ Receive("write")
    /\ Persist(UpdateFlag(doc, Head(inbox).flag, Head(inbox).variant))

HandleReplace ==
    /\ Receive("replace")
    /\ IF Head(inbox).doc = None THEN UNCHANGED <<doc, file>>
                                 ELSE Persist(Head(inbox).doc)

(* The handler raises in File.write! or File.rename!, or the process is     *)
(* killed: the mailbox dies with it and the supervisor starts a new process *)
(* that reads the file.  Casts sent while no process is registered are lost *)
(* too, which is the same as having been in the mailbox.                    *)
RestartStorage ==
    /\ inbox' = <<>>
    /\ doc' = file
    /\ UNCHANGED file
=============================================================================
