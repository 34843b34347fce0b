---------------------------- MODULE MessageLayer ----------------------------
(***************************************************************************)
(* What the protocol code does with the messages of one depth of nesting   *)
(* (src/frontend/protos/demo.ts).  Every message has the same functions,   *)
(* which differ only in the table Messages: a blank message, encode,       *)
(* decode, toJSON, fromJSON and fromPartial.  On a field that holds a      *)
(* message they call the same functions of that message: these are the     *)
(* constants Inner..., so that an instance of this module for the messages *)
(* without nested ones gives its operators to the instance for the         *)
(* messages that nest those, and so on (Rpc).                              *)
(*                                                                         *)
(* A message is a record of its fields.  On the wire it is a sequence of   *)
(* entries, each with a field number, a wire type and a value; an array    *)
(* gives one entry per element and a nested message is a sequence again.   *)
(***************************************************************************)
EXTENDS Integers, SequencesExt, FiniteSetsExt

CONSTANTS
  Messages,      \* the fields of every message: a record of records, by name
  LastField,     \* the highest field number
  Undefined,     \* the JavaScript value of a message field that is not set
  Strings,       \* the strings that messages are filled with, "" among them
  Int32Max,      \* stands for 2^31 - 1
  MaxSafe,       \* stands for Number.MAX_SAFE_INTEGER; MaxSafe + 1 = 2^k, k > 1
  InnerEncode(_, _), InnerDecode(_, _), InnerReadable(_, _), InnerNumbers(_, _, _),
  InnerToObject(_, _, _), InnerFromObject(_, _, _),
  InnerOtherWires(_, _), InnerFull(_), InnerSamples(_, _, _),
  InnerIsMessage(_, _)
-----------------------------------------------------------------------------
NoText == ""

Default(field) ==
  IF field.many THEN <<>>
  ELSE CASE field.kind = "string" -> NoText
         [] field.kind = "bool" -> FALSE
         [] field.kind = "message" -> Undefined
         [] OTHER -> 0

Blank(name) == [f \in DOMAIN Messages[name] |-> Default(Messages[name][f])]

(* The values a field holds: those of an array, or the one that is set. *)
Held(field, x) ==
  IF field.many THEN ToSet(x) ELSE IF x = Default(field) THEN {} ELSE {x}

(***************************************************************************)
(* A value is a message of the given name: every field is there, with a    *)
(* value of its kind.  A decoder that left a field undefined would break   *)
(* the pages that read it without asking (items.map, quantity + 1).        *)
(***************************************************************************)
IsValue(field, v) ==
  CASE field.kind = "string" -> v \in STRING
    [] field.kind = "bool" -> v \in BOOLEAN
    [] field.kind = "message" -> InnerIsMessage(field.of, v)
    [] OTHER -> v \in Int

IsMessage(name, m) ==
  /\ DOMAIN m = DOMAIN Messages[name]
  /\ m = [f \in DOMAIN m |-> m[f]]
  /\ \A f \in DOMAIN m :
       /\ Messages[name][f].many => m[f] \in Seq(ToSet(m[f]))
       /\ \A v \in Held(Messages[name][f], m[f]) : IsValue(Messages[name][f], v)
-----------------------------------------------------------------------------
(***************************************************************************)
(* The encoder writes the fields in the order of their numbers, each with  *)
(* its wire type, and leaves out those with their default value.           *)
(***************************************************************************)
WireType(field) == IF field.kind \in {"string", "message"} THEN 2 ELSE 0

Packed(field, v) == IF field.kind = "message" THEN InnerEncode(field.of, v) ELSE v

(* mutant: only a positive number is written, not every one but zero *)
Written_positive(name, m) ==
  [f \in DOMAIN Messages[name] |->
     LET field == Messages[name][f]
     IN  IF field.many THEN [i \in DOMAIN m[f] |-> Packed(field, m[f][i])]
         ELSE IF \/ m[f] = Default(field)
                 \/ field.kind \in {"int32", "int64"} /\ m[f] < 0 THEN <<>>
         ELSE <<Packed(field, m[f])>>]

Written(name, m) ==
  [f \in DOMAIN Messages[name] |->
     LET field == Messages[name][f]
     IN  IF field.many THEN [i \in DOMAIN m[f] |-> Packed(field, m[f][i])]
         ELSE IF m[f] = Default(field) THEN <<>>
         ELSE <<Packed(field, m[f])>>]

Entries(field, vs) ==
  [i \in DOMAIN vs |-> [no |-> field.no, wt |-> WireType(field), val |-> vs[i]]]

Numbered(name, n) == {f \in DOMAIN Messages[name] : Messages[name][f].no = n}

Wire(name, written) ==
  FlattenSeq([n \in 1..LastField |->
    IF Numbered(name, n) = {} THEN <<>>
    ELSE LET f == CHOOSE f \in Numbered(name, n) : TRUE
         IN  Entries(Messages[name][f], written[f])])

Encode(name, m) == Wire(name, Written(name, m))
-----------------------------------------------------------------------------
(***************************************************************************)
(* Number(...): beyond MaxSafe + 1 only even integers are JavaScript       *)
(* numbers, and a tie goes to the one with the even significand.           *)
(***************************************************************************)
Number(n) ==
  LET a == IF n < 0 THEN -n ELSE n
      d == IF a <= MaxSafe + 1 \/ a % 2 = 0 THEN a
           ELSE IF (a - 1) % 4 = 0 THEN a - 1 ELSE a + 1
  IN  IF n < 0 THEN -d ELSE d

(***************************************************************************)
(* The entries a decoder reads for a field: one with an unknown number, or *)
(* a known number and another wire type, is skipped.  The last entry of a  *)
(* field wins, and an array collects all of its entries.                   *)
(***************************************************************************)
(* mutant: the wire type is not looked at *)
Matches_any_type(field, e) == e.no = field.no

Matches(field, e) == e.no = field.no /\ e.wt = WireType(field)

ValuesOn(field, w) ==
  FlattenSeq([i \in DOMAIN w |-> IF Matches(field, w[i]) THEN <<w[i].val>> ELSE <<>>])

Unpacked(field, v) ==
  CASE field.kind = "message" -> InnerDecode(field.of, v)
    [] field.kind = "int64" -> Number(v)
    [] OTHER -> v

Decode(name, w) ==
  [f \in DOMAIN Messages[name] |->
     LET field == Messages[name][f]
         vs == ValuesOn(field, w)
     IN  IF field.many THEN [i \in DOMAIN vs |-> Unpacked(field, vs[i])]
         ELSE IF vs = <<>> THEN Default(field)
         ELSE Unpacked(field, vs[Len(vs)])]

(***************************************************************************)
(* longToNumber throws, and the answer is lost, for an int64 that          *)
(* JavaScript would have to round.                                         *)
(***************************************************************************)
(* mutant: the bound is one too low *)
longToNumber_too_low(n) == Number(n) < MaxSafe /\ Number(n) > -MaxSafe

longToNumber(n) == Number(n) <= MaxSafe /\ Number(n) >= -MaxSafe

Readable(name, w) ==
  \A f \in DOMAIN Messages[name] : \A v \in ToSet(ValuesOn(Messages[name][f], w)) :
    /\ Messages[name][f].kind = "int64" => longToNumber(v)
    /\ Messages[name][f].kind = "message" => InnerReadable(Messages[name][f].of, v)

(***************************************************************************)
(* The numbers of one kind anywhere in a message.  The writer refuses an   *)
(* int32 that is too wide.                                                 *)
(***************************************************************************)
NumbersAt(field, v, kind) ==
  CASE field.kind = kind -> {v}
    [] field.kind = "message" -> InnerNumbers(field.of, v, kind)
    [] OTHER -> {}

NumbersIn(name, m, kind) ==
  UNION {UNION {NumbersAt(Messages[name][f], v, kind) :
                  v \in Held(Messages[name][f], m[f])} : f \in DOMAIN Messages[name]}

Writable(name, m) == NumbersIn(name, m, "int32") \subseteq (-Int32Max - 1)..Int32Max
-----------------------------------------------------------------------------
(***************************************************************************)
(* The JSON forms.  A key is a field's name in camel or in snake case; a   *)
(* field with its default value is left out.  fromJSON takes either key,   *)
(* the first one first; fromPartial takes the camel case one.              *)
(***************************************************************************)
ToValue(field, v, style) ==
  IF field.kind = "message" THEN InnerToObject(field.of, v, style) ELSE v

ToObject(name, m, style) ==
  [key \in {f \in DOMAIN m : m[f] # Default(Messages[name][f])} \X {style} |->
     LET field == Messages[name][key[1]]
         x == m[key[1]]
     IN  IF field.many THEN [i \in DOMAIN x |-> ToValue(field, x[i], style)]
         ELSE ToValue(field, x, style)]

FromValue(field, v, styles) ==
  IF field.kind = "message" THEN InnerFromObject(field.of, v, styles) ELSE v

FromObject(name, o, styles) ==
  [f \in DOMAIN Messages[name] |->
     LET field == Messages[name][f]
         present == {i \in DOMAIN styles : <<f, styles[i]>> \in DOMAIN o}
         x == o[<<f, styles[Min(present)]>>]
     IN  IF present = {} THEN Default(field)
         ELSE IF field.many THEN [i \in DOMAIN x |-> FromValue(field, x[i], styles)]
         ELSE FromValue(field, x, styles)]

(* mutant: only the camel case keys are read *)
FromJson_camel_only(name, o) == FromObject(name, o, <<"camel">>)

FromJson(name, o) == FromObject(name, o, <<"camel", "snake">>)
FromPartial(name, o) == FromObject(name, o, <<"camel">>)
-----------------------------------------------------------------------------
(***************************************************************************)
(* The messages of a call: a blank one, a full one, and each of them with  *)
(* one field changed, at every depth.                                      *)
(***************************************************************************)
FullValue(field) ==
  CASE field.kind = "string" -> CHOOSE s \in Strings \ {NoText} : TRUE
    [] field.kind = "bool" -> TRUE
    [] field.kind = "message" -> InnerFull(field.of)
    [] OTHER -> 1

Full(name) ==
  [f \in DOMAIN Messages[name] |->
     LET v == FullValue(Messages[name][f])
     IN  IF Messages[name][f].many THEN <<v, v>> ELSE v]

SampleValues(field, int32s, int64s) ==
  CASE field.kind = "string" -> Strings
    [] field.kind = "bool" -> BOOLEAN
    [] field.kind = "int32" -> int32s
    [] field.kind = "int64" -> int64s
    [] field.kind = "message" -> InnerSamples(field.of, int32s, int64s)

FieldSamples(field, int32s, int64s) ==
  LET values == SampleValues(field, int32s, int64s)
  IN  {Default(field)} \cup (IF field.many THEN {<<v>> : v \in values} ELSE values)

Changed(name, m, f, int32s, int64s) ==
  {[m EXCEPT ![f] = x] : x \in FieldSamples(Messages[name][f], int32s, int64s)}

Samples(name, int32s, int64s) ==
  LET base == {Blank(name), Full(name)}
  IN  base \cup UNION {Changed(name, m, f, int32s, int64s) :
                         m \in base, f \in DOMAIN Messages[name]}

(***************************************************************************)
(* What other writers than this one may send for a message: two fields in  *)
(* the other order, or one entry more that a newer version of the message  *)
(* has (another number) or that its type has changed in (another wire      *)
(* type), in the message or in one nested in it.                           *)
(***************************************************************************)
NewEntries(name) ==
  {[no |-> LastField + 1, wt |-> wt, val |-> Undefined] : wt \in {0, 2}} \cup
  {[no |-> Messages[name][f].no, wt |-> 2 - WireType(Messages[name][f]), val |-> Undefined] :
     f \in DOMAIN Messages[name]}

Swapped(w, i) == [w EXCEPT ![i] = w[i + 1], ![i + 1] = w[i]]

NestedWires(name, e) ==
  UNION {InnerOtherWires(Messages[name][f].of, e.val) :
           f \in {g \in Numbered(name, e.no) : Messages[name][g].kind = "message"}}

WithValue(e, v) == [no |-> e.no, wt |-> e.wt, val |-> v]

Replaced(name, w, i) ==
  {ReplaceAt(w, i, WithValue(w[i], v)) : v \in NestedWires(name, w[i])}

OtherWires(name, w) ==
  {Swapped(w, i) : i \in {j \in 1..(Len(w) - 1) : w[j].no # w[j + 1].no}}
  \cup {InsertAt(w, i, e) : i \in {1, Len(w) + 1}, e \in NewEntries(name)}
  \cup UNION {Replaced(name, w, i) : i \in DOMAIN w}
=============================================================================
