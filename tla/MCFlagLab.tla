----------------------------- MODULE MCFlagLab -----------------------------
(* Small instances of FlagLab: two managed flags, one of them with a        *)
(* three-element rule, and one flag that only other users touch.            *)
EXTENDS FlagLab

CONSTANTS ruled, plain, other, off, on

MCFlags == {ruled, plain, other}
MCVariants == {off, on}
MCManaged == {ruled, plain}
MCSafe == [f \in MCManaged |-> off]
OneFault == {[f \in {ruled} |-> on]}
MCInitDoc == [f \in MCFlags |-> [default |-> off, on |-> IF f = ruled THEN off ELSE None]]

\* The dashboard sets the other flag; the editor drops a managed one, or
\* sends what is not JSON.
MCEdits == {WriteMsg(other, on), ReplaceMsg(None),
            ReplaceMsg([f \in {plain, other} |-> [default |-> off, on |-> None]])}
Dashboard == {WriteMsg(other, on)}
=============================================================================
