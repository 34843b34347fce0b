------------------------------ MODULE RpcProofs ------------------------------
(***************************************************************************)
(* Proofs about Rpc: every message of the table is written, read and       *)
(* restored correctly at the depth it nests to (from MessageLayerProofs,   *)
(* once for each depth); the service finds the products it was asked with  *)
(* among the characters it gets; and with both an inductive invariant of   *)
(* the call, by phase, from which its properties follow.                   *)
(***************************************************************************)
EXTENDS Rpc, FiniteSetTheorems, SequenceTheorems, TLAPS
-----------------------------------------------------------------------------
(***************************************************************************)
(* The proofs about one depth of nesting, for each of the four depths.  An *)
(* instance of MessageLayerProofs has operators of its own: the lemmas     *)
(* Same1 to Same4 say that they are those Rpc is written with.             *)
(***************************************************************************)
P1 == INSTANCE MessageLayerProofs WITH
  InnerEncode <- LAMBDA name, m : <<>>,  InnerDecode <- LAMBDA name, w : Undefined,
  InnerReadable <- LAMBDA name, w : TRUE, InnerNumbers <- LAMBDA name, m, kind : {},
  InnerToObject <- LAMBDA name, m, style : m, InnerFromObject <- LAMBDA name, o, styles : o,
  InnerOtherWires <- LAMBDA name, w : {}, InnerFull <- LAMBDA name : Undefined,
  InnerSamples <- LAMBDA name, int32s, int64s : {}, InnerIsMessage <- LAMBDA name, m : FALSE

P2 == INSTANCE MessageLayerProofs WITH
  InnerEncode <- Depth1!Encode, InnerDecode <- Depth1!Decode,
  InnerReadable <- Depth1!Readable, InnerNumbers <- Depth1!NumbersIn,
  InnerToObject <- Depth1!ToObject, InnerFromObject <- Depth1!FromObject,
  InnerOtherWires <- Depth1!OtherWires, InnerFull <- Depth1!Full,
  InnerSamples <- Depth1!Samples, InnerIsMessage <- Depth1!IsMessage

P3 == INSTANCE MessageLayerProofs WITH
  InnerEncode <- Depth2!Encode, InnerDecode <- Depth2!Decode,
  InnerReadable <- Depth2!Readable, InnerNumbers <- Depth2!NumbersIn,
  InnerToObject <- Depth2!ToObject, InnerFromObject <- Depth2!FromObject,
  InnerOtherWires <- Depth2!OtherWires, InnerFull <- Depth2!Full,
  InnerSamples <- Depth2!Samples, InnerIsMessage <- Depth2!IsMessage

P4 == INSTANCE MessageLayerProofs WITH
  InnerEncode <- Depth3!Encode, InnerDecode <- Depth3!Decode,
  InnerReadable <- Depth3!Readable, InnerNumbers <- Depth3!NumbersIn,
  InnerToObject <- Depth3!ToObject, InnerFromObject <- Depth3!FromObject,
  InnerOtherWires <- Depth3!OtherWires, InnerFull <- Depth3!Full,
  InnerSamples <- Depth3!Samples, InnerIsMessage <- Depth3!IsMessage

\* P1 is about the operators of the first depth.
LEMMA Same1 ==
    /\ \A name, m : P1!IsMessage(name, m) <=> Depth1!IsMessage(name, m)
    /\ \A name, m : P1!Encode(name, m) = Depth1!Encode(name, m)
    /\ \A name, w : P1!OtherWires(name, w) = Depth1!OtherWires(name, w)
    /\ \A name, w : P1!Decode(name, w) = Depth1!Decode(name, w)
    /\ \A name, w : P1!Readable(name, w) <=> Depth1!Readable(name, w)
    /\ \A name, m, kind : P1!NumbersIn(name, m, kind) = Depth1!NumbersIn(name, m, kind)
    /\ \A name, m, style : P1!ToObject(name, m, style) = Depth1!ToObject(name, m, style)
    /\ \A name, o, styles : P1!FromObject(name, o, styles) = Depth1!FromObject(name, o, styles)
    /\ \A name : P1!Full(name) = Depth1!Full(name)
    /\ \A name, int32s, int64s : P1!Samples(name, int32s, int64s) = Depth1!Samples(name, int32s, int64s)
<1>1. ASSUME NEW name, NEW m
      PROVE  P1!IsMessage(name, m) <=> Depth1!IsMessage(name, m)
  BY DEF
    P1!IsMessage, Depth1!IsMessage, P1!Held, Depth1!Held, P1!Default, Depth1!Default,
    P1!NoText, Depth1!NoText, P1!ToSet, Depth1!ToSet, P1!IsValue, Depth1!IsValue
<1>2. ASSUME NEW name, NEW m
      PROVE  P1!Encode(name, m) = Depth1!Encode(name, m)
  BY DEF
    P1!Encode, Depth1!Encode, P1!Written, Depth1!Written, P1!Default, Depth1!Default,
    P1!NoText, Depth1!NoText, P1!Packed, Depth1!Packed, P1!Wire, Depth1!Wire,
    P1!Entries, Depth1!Entries, P1!WireType, Depth1!WireType, P1!Numbered,
    Depth1!Numbered, P1!FlattenSeq, Depth1!FlattenSeq
<1>3. ASSUME NEW name, NEW w
      PROVE  P1!OtherWires(name, w) = Depth1!OtherWires(name, w)
  BY DEF
    P1!OtherWires, Depth1!OtherWires, P1!NewEntries, Depth1!NewEntries, P1!WireType,
    Depth1!WireType, P1!Swapped, Depth1!Swapped, P1!Replaced, Depth1!Replaced,
    P1!NestedWires, Depth1!NestedWires, P1!Numbered, Depth1!Numbered, P1!WithValue,
    Depth1!WithValue, P1!ReplaceAt, Depth1!ReplaceAt, P1!InsertAt, Depth1!InsertAt
<1>4. ASSUME NEW name, NEW w
      PROVE  P1!Decode(name, w) = Depth1!Decode(name, w)
  BY DEF
    P1!Decode, Depth1!Decode, P1!Default, Depth1!Default, P1!NoText, Depth1!NoText,
    P1!ValuesOn, Depth1!ValuesOn, P1!Matches, Depth1!Matches, P1!WireType,
    Depth1!WireType, P1!FlattenSeq, Depth1!FlattenSeq, P1!Unpacked, Depth1!Unpacked,
    P1!Number, Depth1!Number
<1>5. ASSUME NEW name, NEW w
      PROVE  P1!Readable(name, w) <=> Depth1!Readable(name, w)
  BY DEF
    P1!Readable, Depth1!Readable, P1!ValuesOn, Depth1!ValuesOn, P1!Matches,
    Depth1!Matches, P1!WireType, Depth1!WireType, P1!FlattenSeq, Depth1!FlattenSeq,
    P1!longToNumber, Depth1!longToNumber, P1!Number, Depth1!Number, P1!ToSet,
    Depth1!ToSet
<1>6. ASSUME NEW name, NEW m, NEW kind
      PROVE  P1!NumbersIn(name, m, kind) = Depth1!NumbersIn(name, m, kind)
  BY DEF
    P1!NumbersIn, Depth1!NumbersIn, P1!Held, Depth1!Held, P1!Default, Depth1!Default,
    P1!NoText, Depth1!NoText, P1!ToSet, Depth1!ToSet, P1!NumbersAt, Depth1!NumbersAt
<1>7. ASSUME NEW name, NEW m, NEW style
      PROVE  P1!ToObject(name, m, style) = Depth1!ToObject(name, m, style)
  BY DEF
    P1!ToObject, Depth1!ToObject, P1!Default, Depth1!Default, P1!NoText, Depth1!NoText,
    P1!ToValue, Depth1!ToValue
<1>8. ASSUME NEW name, NEW o, NEW styles
      PROVE  P1!FromObject(name, o, styles) = Depth1!FromObject(name, o, styles)
  BY DEF
    P1!FromObject, Depth1!FromObject, P1!Default, Depth1!Default, P1!NoText,
    Depth1!NoText, P1!FromValue, Depth1!FromValue, P1!Min, Depth1!Min
<1>9. ASSUME NEW name
      PROVE  P1!Full(name) = Depth1!Full(name)
  BY DEF
    P1!Full, Depth1!Full, P1!FullValue, Depth1!FullValue, P1!NoText, Depth1!NoText
<1>10. ASSUME NEW name, NEW int32s, NEW int64s
      PROVE  P1!Samples(name, int32s, int64s) = Depth1!Samples(name, int32s, int64s)
  BY DEF
    P1!Samples, Depth1!Samples, P1!Blank, Depth1!Blank, P1!Default, Depth1!Default,
    P1!NoText, Depth1!NoText, P1!Full, Depth1!Full, P1!FullValue, Depth1!FullValue,
    P1!Changed, Depth1!Changed, P1!FieldSamples, Depth1!FieldSamples, P1!SampleValues,
    Depth1!SampleValues
<1>. QED
  BY <1>1, <1>2, <1>3, <1>4, <1>5, <1>6, <1>7, <1>8, <1>9, <1>10

\* P2 is about the operators of the second depth.
LEMMA Same2 ==
    /\ \A name, m : P2!IsMessage(name, m) <=> Depth2!IsMessage(name, m)
    /\ \A name, m : P2!Encode(name, m) = Depth2!Encode(name, m)
    /\ \A name, w : P2!OtherWires(name, w) = Depth2!OtherWires(name, w)
    /\ \A name, w : P2!Decode(name, w) = Depth2!Decode(name, w)
    /\ \A name, w : P2!Readable(name, w) <=> Depth2!Readable(name, w)
    /\ \A name, m, kind : P2!NumbersIn(name, m, kind) = Depth2!NumbersIn(name, m, kind)
    /\ \A name, m, style : P2!ToObject(name, m, style) = Depth2!ToObject(name, m, style)
    /\ \A name, o, styles : P2!FromObject(name, o, styles) = Depth2!FromObject(name, o, styles)
    /\ \A name : P2!Full(name) = Depth2!Full(name)
    /\ \A name, int32s, int64s : P2!Samples(name, int32s, int64s) = Depth2!Samples(name, int32s, int64s)
<1>1. ASSUME NEW name, NEW m
      PROVE  P2!IsMessage(name, m) <=> Depth2!IsMessage(name, m)
  BY DEF
    P2!IsMessage, Depth2!IsMessage, P2!Held, Depth2!Held, P2!Default, Depth2!Default,
    P2!NoText, Depth2!NoText, P2!ToSet, Depth2!ToSet, P2!IsValue, Depth2!IsValue
<1>2. ASSUME NEW name, NEW m
      PROVE  P2!Encode(name, m) = Depth2!Encode(name, m)
  BY DEF
    P2!Encode, Depth2!Encode, P2!Written, Depth2!Written, P2!Default, Depth2!Default,
    P2!NoText, Depth2!NoText, P2!Packed, Depth2!Packed, P2!Wire, Depth2!Wire,
    P2!Entries, Depth2!Entries, P2!WireType, Depth2!WireType, P2!Numbered,
    Depth2!Numbered, P2!FlattenSeq, Depth2!FlattenSeq
<1>3. ASSUME NEW name, NEW w
      PROVE  P2!OtherWires(name, w) = Depth2!OtherWires(name, w)
  BY DEF
    P2!OtherWires, Depth2!OtherWires, P2!NewEntries, Depth2!NewEntries, P2!WireType,
    Depth2!WireType, P2!Swapped, Depth2!Swapped, P2!Replaced, Depth2!Replaced,
    P2!NestedWires, Depth2!NestedWires, P2!Numbered, Depth2!Numbered, P2!WithValue,
    Depth2!WithValue, P2!ReplaceAt, Depth2!ReplaceAt, P2!InsertAt, Depth2!InsertAt
<1>4. ASSUME NEW name, NEW w
      PROVE  P2!Decode(name, w) = Depth2!Decode(name, w)
  BY DEF
    P2!Decode, Depth2!Decode, P2!Default, Depth2!Default, P2!NoText, Depth2!NoText,
    P2!ValuesOn, Depth2!ValuesOn, P2!Matches, Depth2!Matches, P2!WireType,
    Depth2!WireType, P2!FlattenSeq, Depth2!FlattenSeq, P2!Unpacked, Depth2!Unpacked,
    P2!Number, Depth2!Number
<1>5. ASSUME NEW name, NEW w
      PROVE  P2!Readable(name, w) <=> Depth2!Readable(name, w)
  BY DEF
    P2!Readable, Depth2!Readable, P2!ValuesOn, Depth2!ValuesOn, P2!Matches,
    Depth2!Matches, P2!WireType, Depth2!WireType, P2!FlattenSeq, Depth2!FlattenSeq,
    P2!longToNumber, Depth2!longToNumber, P2!Number, Depth2!Number, P2!ToSet,
    Depth2!ToSet
<1>6. ASSUME NEW name, NEW m, NEW kind
      PROVE  P2!NumbersIn(name, m, kind) = Depth2!NumbersIn(name, m, kind)
  BY DEF
    P2!NumbersIn, Depth2!NumbersIn, P2!Held, Depth2!Held, P2!Default, Depth2!Default,
    P2!NoText, Depth2!NoText, P2!ToSet, Depth2!ToSet, P2!NumbersAt, Depth2!NumbersAt
<1>7. ASSUME NEW name, NEW m, NEW style
      PROVE  P2!ToObject(name, m, style) = Depth2!ToObject(name, m, style)
  BY DEF
    P2!ToObject, Depth2!ToObject, P2!Default, Depth2!Default, P2!NoText, Depth2!NoText,
    P2!ToValue, Depth2!ToValue
<1>8. ASSUME NEW name, NEW o, NEW styles
      PROVE  P2!FromObject(name, o, styles) = Depth2!FromObject(name, o, styles)
  BY DEF
    P2!FromObject, Depth2!FromObject, P2!Default, Depth2!Default, P2!NoText,
    Depth2!NoText, P2!FromValue, Depth2!FromValue, P2!Min, Depth2!Min
<1>9. ASSUME NEW name
      PROVE  P2!Full(name) = Depth2!Full(name)
  BY DEF
    P2!Full, Depth2!Full, P2!FullValue, Depth2!FullValue, P2!NoText, Depth2!NoText
<1>10. ASSUME NEW name, NEW int32s, NEW int64s
      PROVE  P2!Samples(name, int32s, int64s) = Depth2!Samples(name, int32s, int64s)
  BY DEF
    P2!Samples, Depth2!Samples, P2!Blank, Depth2!Blank, P2!Default, Depth2!Default,
    P2!NoText, Depth2!NoText, P2!Full, Depth2!Full, P2!FullValue, Depth2!FullValue,
    P2!Changed, Depth2!Changed, P2!FieldSamples, Depth2!FieldSamples, P2!SampleValues,
    Depth2!SampleValues
<1>. QED
  BY <1>1, <1>2, <1>3, <1>4, <1>5, <1>6, <1>7, <1>8, <1>9, <1>10

\* P3 is about the operators of the third depth.
LEMMA Same3 ==
    /\ \A name, m : P3!IsMessage(name, m) <=> Depth3!IsMessage(name, m)
    /\ \A name, m : P3!Encode(name, m) = Depth3!Encode(name, m)
    /\ \A name, w : P3!OtherWires(name, w) = Depth3!OtherWires(name, w)
    /\ \A name, w : P3!Decode(name, w) = Depth3!Decode(name, w)
    /\ \A name, w : P3!Readable(name, w) <=> Depth3!Readable(name, w)
    /\ \A name, m, kind : P3!NumbersIn(name, m, kind) = Depth3!NumbersIn(name, m, kind)
    /\ \A name, m, style : P3!ToObject(name, m, style) = Depth3!ToObject(name, m, style)
    /\ \A name, o, styles : P3!FromObject(name, o, styles) = Depth3!FromObject(name, o, styles)
    /\ \A name : P3!Full(name) = Depth3!Full(name)
    /\ \A name, int32s, int64s : P3!Samples(name, int32s, int64s) = Depth3!Samples(name, int32s, int64s)
<1>1. ASSUME NEW name, NEW m
      PROVE  P3!IsMessage(name, m) <=> Depth3!IsMessage(name, m)
  BY DEF
    P3!IsMessage, Depth3!IsMessage, P3!Held, Depth3!Held, P3!Default, Depth3!Default,
    P3!NoText, Depth3!NoText, P3!ToSet, Depth3!ToSet, P3!IsValue, Depth3!IsValue
<1>2. ASSUME NEW name, NEW m
      PROVE  P3!Encode(name, m) = Depth3!Encode(name, m)
  BY DEF
    P3!Encode, Depth3!Encode, P3!Written, Depth3!Written, P3!Default, Depth3!Default,
    P3!NoText, Depth3!NoText, P3!Packed, Depth3!Packed, P3!Wire, Depth3!Wire,
    P3!Entries, Depth3!Entries, P3!WireType, Depth3!WireType, P3!Numbered,
    Depth3!Numbered, P3!FlattenSeq, Depth3!FlattenSeq
<1>3. ASSUME NEW name, NEW w
      PROVE  P3!OtherWires(name, w) = Depth3!OtherWires(name, w)
  BY DEF
    P3!OtherWires, Depth3!OtherWires, P3!NewEntries, Depth3!NewEntries, P3!WireType,
    Depth3!WireType, P3!Swapped, Depth3!Swapped, P3!Replaced, Depth3!Replaced,
    P3!NestedWires, Depth3!NestedWires, P3!Numbered, Depth3!Numbered, P3!WithValue,
    Depth3!WithValue, P3!ReplaceAt, Depth3!ReplaceAt, P3!InsertAt, Depth3!InsertAt
<1>4. ASSUME NEW name, NEW w
      PROVE  P3!Decode(name, w) = Depth3!Decode(name, w)
  BY DEF
    P3!Decode, Depth3!Decode, P3!Default, Depth3!Default, P3!NoText, Depth3!NoText,
    P3!ValuesOn, Depth3!ValuesOn, P3!Matches, Depth3!Matches, P3!WireType,
    Depth3!WireType, P3!FlattenSeq, Depth3!FlattenSeq, P3!Unpacked, Depth3!Unpacked,
    P3!Number, Depth3!Number
<1>5. ASSUME NEW name, NEW w
      PROVE  P3!Readable(name, w) <=> Depth3!Readable(name, w)
  BY DEF
    P3!Readable, Depth3!Readable, P3!ValuesOn, Depth3!ValuesOn, P3!Matches,
    Depth3!Matches, P3!WireType, Depth3!WireType, P3!FlattenSeq, Depth3!FlattenSeq,
    P3!longToNumber, Depth3!longToNumber, P3!Number, Depth3!Number, P3!ToSet,
    Depth3!ToSet
<1>6. ASSUME NEW name, NEW m, NEW kind
      PROVE  P3!NumbersIn(name, m, kind) = Depth3!NumbersIn(name, m, kind)
  BY DEF
    P3!NumbersIn, Depth3!NumbersIn, P3!Held, Depth3!Held, P3!Default, Depth3!Default,
    P3!NoText, Depth3!NoText, P3!ToSet, Depth3!ToSet, P3!NumbersAt, Depth3!NumbersAt
<1>7. ASSUME NEW name, NEW m, NEW style
      PROVE  P3!ToObject(name, m, style) = Depth3!ToObject(name, m, style)
  BY DEF
    P3!ToObject, Depth3!ToObject, P3!Default, Depth3!Default, P3!NoText, Depth3!NoText,
    P3!ToValue, Depth3!ToValue
<1>8. ASSUME NEW name, NEW o, NEW styles
      PROVE  P3!FromObject(name, o, styles) = Depth3!FromObject(name, o, styles)
  BY DEF
    P3!FromObject, Depth3!FromObject, P3!Default, Depth3!Default, P3!NoText,
    Depth3!NoText, P3!FromValue, Depth3!FromValue, P3!Min, Depth3!Min
<1>9. ASSUME NEW name
      PROVE  P3!Full(name) = Depth3!Full(name)
  BY DEF
    P3!Full, Depth3!Full, P3!FullValue, Depth3!FullValue, P3!NoText, Depth3!NoText
<1>10. ASSUME NEW name, NEW int32s, NEW int64s
      PROVE  P3!Samples(name, int32s, int64s) = Depth3!Samples(name, int32s, int64s)
  BY DEF
    P3!Samples, Depth3!Samples, P3!Blank, Depth3!Blank, P3!Default, Depth3!Default,
    P3!NoText, Depth3!NoText, P3!Full, Depth3!Full, P3!FullValue, Depth3!FullValue,
    P3!Changed, Depth3!Changed, P3!FieldSamples, Depth3!FieldSamples, P3!SampleValues,
    Depth3!SampleValues
<1>. QED
  BY <1>1, <1>2, <1>3, <1>4, <1>5, <1>6, <1>7, <1>8, <1>9, <1>10

\* P4 is about the operators of the fourth depth.
LEMMA Same4 ==
    /\ \A name, m : P4!IsMessage(name, m) <=> Protocol!IsMessage(name, m)
    /\ \A name, m : P4!Encode(name, m) = Protocol!Encode(name, m)
    /\ \A name, w : P4!OtherWires(name, w) = Protocol!OtherWires(name, w)
    /\ \A name, w : P4!Decode(name, w) = Protocol!Decode(name, w)
    /\ \A name, w : P4!Readable(name, w) <=> Protocol!Readable(name, w)
    /\ \A name, m, kind : P4!NumbersIn(name, m, kind) = Protocol!NumbersIn(name, m, kind)
    /\ \A name, m, style : P4!ToObject(name, m, style) = Protocol!ToObject(name, m, style)
    /\ \A name, o, styles : P4!FromObject(name, o, styles) = Protocol!FromObject(name, o, styles)
    /\ \A name : P4!Full(name) = Protocol!Full(name)
    /\ \A name, int32s, int64s : P4!Samples(name, int32s, int64s) = Protocol!Samples(name, int32s, int64s)
<1>1. ASSUME NEW name, NEW m
      PROVE  P4!IsMessage(name, m) <=> Protocol!IsMessage(name, m)
  BY DEF
    P4!IsMessage, Protocol!IsMessage, P4!Held, Protocol!Held, P4!Default,
    Protocol!Default, P4!NoText, Protocol!NoText, P4!ToSet, Protocol!ToSet, P4!IsValue,
    Protocol!IsValue
<1>2. ASSUME NEW name, NEW m
      PROVE  P4!Encode(name, m) = Protocol!Encode(name, m)
  BY DEF
    P4!Encode, Protocol!Encode, P4!Written, Protocol!Written, P4!Default,
    Protocol!Default, P4!NoText, Protocol!NoText, P4!Packed, Protocol!Packed, P4!Wire,
    Protocol!Wire, P4!Entries, Protocol!Entries, P4!WireType, Protocol!WireType,
    P4!Numbered, Protocol!Numbered, P4!FlattenSeq, Protocol!FlattenSeq
<1>3. ASSUME NEW name, NEW w
      PROVE  P4!OtherWires(name, w) = Protocol!OtherWires(name, w)
  BY DEF
    P4!OtherWires, Protocol!OtherWires, P4!NewEntries, Protocol!NewEntries,
    P4!WireType, Protocol!WireType, P4!Swapped, Protocol!Swapped, P4!Replaced,
    Protocol!Replaced, P4!NestedWires, Protocol!NestedWires, P4!Numbered,
    Protocol!Numbered, P4!WithValue, Protocol!WithValue, P4!ReplaceAt,
    Protocol!ReplaceAt, P4!InsertAt, Protocol!InsertAt
<1>4. ASSUME NEW name, NEW w
      PROVE  P4!Decode(name, w) = Protocol!Decode(name, w)
  BY DEF
    P4!Decode, Protocol!Decode, P4!Default, Protocol!Default, P4!NoText,
    Protocol!NoText, P4!ValuesOn, Protocol!ValuesOn, P4!Matches, Protocol!Matches,
    P4!WireType, Protocol!WireType, P4!FlattenSeq, Protocol!FlattenSeq, P4!Unpacked,
    Protocol!Unpacked, P4!Number, Protocol!Number
<1>5. ASSUME NEW name, NEW w
      PROVE  P4!Readable(name, w) <=> Protocol!Readable(name, w)
  BY DEF
    P4!Readable, Protocol!Readable, P4!ValuesOn, Protocol!ValuesOn, P4!Matches,
    Protocol!Matches, P4!WireType, Protocol!WireType, P4!FlattenSeq,
    Protocol!FlattenSeq, P4!longToNumber, Protocol!longToNumber, P4!Number,
    Protocol!Number, P4!ToSet, Protocol!ToSet
<1>6. ASSUME NEW name, NEW m, NEW kind
      PROVE  P4!NumbersIn(name, m, kind) = Protocol!NumbersIn(name, m, kind)
  BY DEF
    P4!NumbersIn, Protocol!NumbersIn, P4!Held, Protocol!Held, P4!Default,
    Protocol!Default, P4!NoText, Protocol!NoText, P4!ToSet, Protocol!ToSet,
    P4!NumbersAt, Protocol!NumbersAt
<1>7. ASSUME NEW name, NEW m, NEW style
      PROVE  P4!ToObject(name, m, style) = Protocol!ToObject(name, m, style)
  BY DEF
    P4!ToObject, Protocol!ToObject, P4!Default, Protocol!Default, P4!NoText,
    Protocol!NoText, P4!ToValue, Protocol!ToValue
<1>8. ASSUME NEW name, NEW o, NEW styles
      PROVE  P4!FromObject(name, o, styles) = Protocol!FromObject(name, o, styles)
  BY DEF
    P4!FromObject, Protocol!FromObject, P4!Default, Protocol!Default, P4!NoText,
    Protocol!NoText, P4!FromValue, Protocol!FromValue, P4!Min, Protocol!Min
<1>9. ASSUME NEW name
      PROVE  P4!Full(name) = Protocol!Full(name)
  BY DEF
    P4!Full, Protocol!Full, P4!FullValue, Protocol!FullValue, P4!NoText, Protocol!NoText
<1>10. ASSUME NEW name, NEW int32s, NEW int64s
      PROVE  P4!Samples(name, int32s, int64s) = Protocol!Samples(name, int32s, int64s)
  BY DEF
    P4!Samples, Protocol!Samples, P4!Blank, Protocol!Blank, P4!Default,
    Protocol!Default, P4!NoText, Protocol!NoText, P4!Full, Protocol!Full, P4!FullValue,
    Protocol!FullValue, P4!Changed, Protocol!Changed, P4!FieldSamples,
    Protocol!FieldSamples, P4!SampleValues, Protocol!SampleValues
<1>. QED
  BY <1>1, <1>2, <1>3, <1>4, <1>5, <1>6, <1>7, <1>8, <1>9, <1>10

-----------------------------------------------------------------------------
\* How numbers are rounded does not depend on the depth.
LEMMA SameNumbers ==
    ASSUME NEW n
    PROVE  /\ P1!Number(n) = Protocol!Number(n) /\ P2!Number(n) = Protocol!Number(n)
           /\ P3!Number(n) = Protocol!Number(n) /\ P4!Number(n) = Protocol!Number(n)
           /\ P1!longToNumber(n) <=> Protocol!longToNumber(n)
           /\ P2!longToNumber(n) <=> Protocol!longToNumber(n)
           /\ P3!longToNumber(n) <=> Protocol!longToNumber(n)
           /\ P4!longToNumber(n) <=> Protocol!longToNumber(n)
BY DEF P1!Number, P2!Number, P3!Number, P4!Number, Protocol!Number,
       P1!longToNumber, P2!longToNumber, P3!longToNumber, P4!longToNumber,
       Protocol!longToNumber

\* Nor do the keys of the JSON forms.
LEMMA SameStyles ==
    ASSUME NEW style
    PROVE  /\ P1!StylesOf(style) = P4!StylesOf(style) /\ P2!StylesOf(style) = P4!StylesOf(style)
           /\ P3!StylesOf(style) = P4!StylesOf(style)
BY DEF P1!StylesOf, P2!StylesOf, P3!StylesOf, P4!StylesOf

\* The strings messages are filled with: the empty one and others.
LEMMA Texts ==
    /\ Strings \subseteq STRING
    /\ P1!NoText \in Strings /\ Strings # {P1!NoText}
    /\ P2!NoText \in Strings /\ Strings # {P2!NoText}
    /\ P3!NoText \in Strings /\ Strings # {P3!NoText}
    /\ P4!NoText \in Strings /\ Strings # {P4!NoText}
<1>1. /\ "" \in Strings /\ Comma \in Strings /\ Strings \subseteq STRING
  BY ValuesAssumption, Zenon
<1>2. Comma # ""
  BY Zenon DEF Comma
<1>3. Strings # {""}
  BY ONLY <1>1, <1>2, Zenon
<1>. QED
  BY ONLY <1>1, <1>3, Zenon DEF P1!NoText, P2!NoText, P3!NoText, P4!NoText

\* The fields of a message are as each depth needs them.
LEMMA Tables ==
    ASSUME NEW names, NEW name \in Nesting(names)
    PROVE  /\ P1!IsTable(name) /\ P1!HoldsOnly(name, names)
           /\ P2!IsTable(name) /\ P2!HoldsOnly(name, names)
           /\ P3!IsTable(name) /\ P3!HoldsOnly(name, names)
           /\ P4!IsTable(name) /\ P4!HoldsOnly(name, names)
<1>1. /\ name \in DOMAIN Messages
      /\ \A f \in DOMAIN Messages[name] :
           Messages[name][f].kind = "message" => Messages[name][f].of \in names
  BY DEF Nesting
<1>2. P1!IsTable(name)
  BY <1>1, MessagesAssumption DEF P1!IsTable
<1>3. P2!IsTable(name) /\ P3!IsTable(name) /\ P4!IsTable(name)
  BY <1>2 DEF P1!IsTable, P2!IsTable, P3!IsTable, P4!IsTable
<1>. QED
  BY <1>1, <1>2, <1>3 DEF P1!HoldsOnly, P2!HoldsOnly, P3!HoldsOnly, P4!HoldsOnly

\* The messages of each depth.
Names1 == Nesting({})
Names2 == Nesting(Names1)
Names3 == Nesting(Names2)
Names4 == Nesting(Names3)

\* The messages without messages inside are written and read correctly.
LEMMA Correct1 == P1!Correct(Names1)
<1>1. P1!InnerCorrect({})
  BY DEF P1!InnerCorrect, P1!InnerReads, P1!InnerCounts, P1!InnerRestores, P1!InnerMakes
<1>2. \A name \in Names1 : P1!IsTable(name) /\ P1!HoldsOnly(name, {})
  BY Tables DEF Names1
<1>. QED
  BY <1>1, <1>2, Texts, P1!CorrectDepth

\* So are those that hold only such messages.
LEMMA Correct2 == P2!Correct(Names2)
<1>1. P2!InnerReads(Names1)
  BY Correct1, Same1, SameNumbers DEF P1!Correct, P1!Reads, P2!InnerReads
<1>2. P2!InnerCounts(Names1)
  BY Correct1, Same1 DEF P1!Correct, P1!Counts, P2!InnerCounts
<1>3. P2!InnerRestores(Names1)
  BY Correct1, Same1, SameStyles DEF P1!Correct, P1!Restores, P2!InnerRestores
<1>4. P2!InnerMakes(Names1)
  BY Correct1, Same1 DEF P1!Correct, P1!Makes, P2!InnerMakes
<1>5. \A name \in Names2 : P2!IsTable(name) /\ P2!HoldsOnly(name, Names1)
  BY Tables DEF Names2
<1>. QED
  BY <1>1, <1>2, <1>3, <1>4, <1>5, Texts, P2!CorrectDepth DEF P2!InnerCorrect

\* So are those that hold these.
LEMMA Correct3 == P3!Correct(Names3)
<1>1. P3!InnerReads(Names2)
  BY Correct2, Same2, SameNumbers DEF P2!Correct, P2!Reads, P3!InnerReads
<1>2. P3!InnerCounts(Names2)
  BY Correct2, Same2 DEF P2!Correct, P2!Counts, P3!InnerCounts
<1>3. P3!InnerRestores(Names2)
  BY Correct2, Same2, SameStyles DEF P2!Correct, P2!Restores, P3!InnerRestores
<1>4. P3!InnerMakes(Names2)
  BY Correct2, Same2 DEF P2!Correct, P2!Makes, P3!InnerMakes
<1>5. \A name \in Names3 : P3!IsTable(name) /\ P3!HoldsOnly(name, Names2)
  BY Tables DEF Names3
<1>. QED
  BY <1>1, <1>2, <1>3, <1>4, <1>5, Texts, P3!CorrectDepth DEF P3!InnerCorrect

\* And so are those that hold the last: all messages of the shop.
LEMMA Correct4 == P4!Correct(Names4)
<1>1. P4!InnerReads(Names3)
  BY Correct3, Same3, SameNumbers DEF P3!Correct, P3!Reads, P4!InnerReads
<1>2. P4!InnerCounts(Names3)
  BY Correct3, Same3 DEF P3!Correct, P3!Counts, P4!InnerCounts
<1>3. P4!InnerRestores(Names3)
  BY Correct3, Same3, SameStyles DEF P3!Correct, P3!Restores, P4!InnerRestores
<1>4. P4!InnerMakes(Names3)
  BY Correct3, Same3 DEF P3!Correct, P3!Makes, P4!InnerMakes
<1>5. \A name \in Names4 : P4!IsTable(name) /\ P4!HoldsOnly(name, Names3)
  BY Tables DEF Names4
<1>. QED
  BY <1>1, <1>2, <1>3, <1>4, <1>5, Texts, P4!CorrectDepth DEF P4!InnerCorrect
-----------------------------------------------------------------------------
(***************************************************************************)
(* The list of products on its way: splitting at the commas gives the      *)
(* spellings that were joined, by induction over the list.                 *)
(***************************************************************************)
Plain(b) == \A i \in 1..Len(b) : b[i] # Comma

\* Adding a comma and a text without commas adds one end, the new last one.
LEMMA EndsAfterComma ==
    ASSUME NEW S, Comma \in S, NEW a \in Seq(S), NEW b \in Seq(S), Plain(b)
    PROVE  LET c == a \o (<<Comma>> \o b)
           IN  /\ c \in Seq(S) /\ Len(c) = Len(a) + 1 + Len(b)
               /\ \A i \in 1..Len(a) : c[i] = a[i]
               /\ \A i \in 1..Len(b) : c[Len(a) + 1 + i] = b[i]
               /\ Ends(c) = Ends(a) \cup {Len(a) + Len(b) + 2}
<1>. DEFINE n == Len(a)
            m == Len(b)
            d == <<Comma>> \o b
            c == a \o d
<1>1. n \in Nat /\ m \in Nat /\ DOMAIN a = 1..n
  BY LenProperties
<1>2. /\ d \in Seq(S) /\ Len(d) = m + 1 /\ d[1] = Comma
      /\ \A i \in 1..m : d[i + 1] = b[i]
  <2>1. <<Comma>> \in Seq(S) /\ Len(<<Comma>>) = 1 /\ <<Comma>>[1] = Comma
    OBVIOUS
  <2>. DEFINE q == <<Comma>>
  <2>. HIDE DEF q, m
  <2>2. /\ d \in Seq(S) /\ Len(d) = 1 + m
        /\ \A i \in 1..(1 + m) : d[i] = IF i <= 1 THEN q[i] ELSE b[i - 1]
    BY <2>1, ConcatProperties DEF q, m
  <2>. HIDE DEF d
  <2>3. d[1] = Comma
    BY <1>1, <2>1, <2>2 DEF q
  <2>4. ASSUME NEW i \in 1..m
        PROVE  d[i + 1] = b[i]
    <3>1. i + 1 \in 1..(1 + m) /\ ~(i + 1 <= 1) /\ (i + 1) - 1 = i
      BY <1>1
    <3>. QED
      BY <2>2, <3>1
  <2>. QED
    BY <1>1, <2>2, <2>3, <2>4
<1>. HIDE DEF d
<1>3. /\ c \in Seq(S) /\ Len(c) = n + 1 + m
      /\ \A i \in 1..(n + 1 + m) : c[i] = IF i <= n THEN a[i] ELSE d[i - n]
  <2>1. /\ c \in Seq(S) /\ Len(c) = n + Len(d)
        /\ \A i \in 1..(n + Len(d)) : c[i] = IF i <= n THEN a[i] ELSE d[i - n]
    BY <1>2, ConcatProperties
  <2>2. n + Len(d) = n + 1 + m
    BY <1>1, <1>2
  <2>. QED
    BY <2>1, <2>2
<1>. HIDE DEF c, n, m
<1>4. \A i \in 1..n : c[i] = a[i]
  BY <1>1, <1>3
<1>5. c[n + 1] = Comma
  <2>1. n + 1 \in 1..(n + 1 + m) /\ ~(n + 1 <= n) /\ (n + 1) - n = 1
    BY <1>1
  <2>. QED
    BY <1>2, <1>3, <2>1
<1>6. ASSUME NEW i \in 1..m
      PROVE  c[n + 1 + i] = b[i]
  <2>1. n + 1 + i \in 1..(n + 1 + m) /\ ~(n + 1 + i <= n) /\ (n + 1 + i) - n = i + 1
    BY <1>1
  <2>. QED
    BY <1>2, <1>3, <2>1
<1>7. DOMAIN c = 1..(n + 1 + m)
  BY <1>3, LenProperties
<1>8. ASSUME NEW i
      PROVE  i \in Ends(c) <=> i \in Ends(a) \cup {n + m + 2}
  <2>1. i \in Ends(c) <=> \/ i = 0 \/ i = n + m + 2
                          \/ i \in 1..(n + 1 + m) /\ c[i] = Comma
    BY <1>1, <1>3, <1>7 DEF Ends
  <2>2. i \in Ends(a) <=> i = 0 \/ i = n + 1 \/ (i \in 1..n /\ a[i] = Comma)
    BY <1>1 DEF Ends, n
  <2>3. CASE i \in 1..n
    BY <1>1, <1>4, <2>1, <2>2, <2>3
  <2>4. CASE i = n + 1
    BY <1>1, <1>5, <2>1, <2>2, <2>4
  <2>5. CASE i \in (n + 2)..(n + 1 + m)
    <3>1. i - (n + 1) \in 1..m /\ n + 1 + (i - (n + 1)) = i
      BY <1>1, <2>5
    <3>2. c[i] # Comma
      BY <1>6, <3>1 DEF Plain, m
    <3>. QED
      BY <1>1, <2>1, <2>2, <2>5, <3>2
  <2>6. CASE i \notin 1..(n + 1 + m)
    BY <1>1, <2>1, <2>2, <2>6
  <2>. QED
    BY <1>1, <2>3, <2>4, <2>5, <2>6
<1>9. Ends(c) = Ends(a) \cup {n + m + 2}
  BY <1>8
<1>. QED
  BY <1>3, <1>4, <1>6, <1>9 DEF c, d, n, m

\* The ends lie around the text, the first before it and the last behind
\* it.
LEMMA EndsBounds ==
    ASSUME NEW S, NEW a \in Seq(S)
    PROVE  /\ Len(a) \in Nat /\ 0 \in Ends(a) /\ Len(a) + 1 \in Ends(a)
           /\ \A i \in Ends(a) : i \in Nat /\ i <= Len(a) + 1
<1>1. Len(a) \in Nat /\ DOMAIN a = 1..Len(a)
  BY LenProperties
<1>. QED
  BY <1>1 DEF Ends

\* A new last end has one neighbour.
LEMMA OneMoreEnd ==
    ASSUME NEW E, NEW n \in Nat, n \in E, \A i \in E : i \in Nat /\ i <= n,
           NEW l \in Nat, l > n
    PROVE  \A e : e \in Neighbours(E \cup {l}) <=> e \in Neighbours(E) \/ e = <<n, l>>
<1>1. ASSUME NEW i \in E, NEW j \in E
      PROVE  <<i, j>> \in Neighbours(E \cup {l}) <=> <<i, j>> \in Neighbours(E)
  <2>1. <<i, j>> \in Neighbours(E \cup {l}) <=>
          i < j /\ \A k \in E \cup {l} : ~(i < k /\ k < j)
    BY DEF Neighbours
  <2>2. <<i, j>> \in Neighbours(E) <=> i < j /\ \A k \in E : ~(i < k /\ k < j)
    BY DEF Neighbours
  <2>3. ~(i < l /\ l < j)
    BY <1>1
  <2>. QED
    BY <2>1, <2>2, <2>3
<1>2. ASSUME NEW i \in E
      PROVE  <<i, l>> \in Neighbours(E \cup {l}) <=> i = n
  <2>1. <<i, l>> \in Neighbours(E \cup {l}) <=>
          i < l /\ \A k \in E \cup {l} : ~(i < k /\ k < l)
    BY DEF Neighbours
  <2>2. CASE i = n
    BY <2>1, <2>2
  <2>3. CASE i # n
    <3>1. i < n /\ n < l
      BY <2>3
    <3>. QED
      BY <2>1, <2>3, <3>1
  <2>. QED
    BY <2>2, <2>3
<1>3. ASSUME NEW j \in E \cup {l}
      PROVE  <<l, j>> \notin Neighbours(E \cup {l})
  <2>1. <<l, j>> \in Neighbours(E \cup {l}) => l < j
    BY DEF Neighbours
  <2>. QED
    BY <2>1
<1>4. ASSUME NEW F
      PROVE  \A e \in Neighbours(F) : \E i, j \in F : e = <<i, j>>
  BY DEF Neighbours
<1>5. l \notin E
  OBVIOUS
<1>6. ASSUME NEW e \in Neighbours(E \cup {l})
      PROVE  e \in Neighbours(E) \cup {<<n, l>>}
  <2>1. PICK i, j \in E \cup {l} : e = <<i, j>>
    BY <1>4
  <2>2. CASE i \in E /\ j \in E
    BY <1>1, <1>6, <2>1, <2>2
  <2>3. CASE i \in E /\ j = l
    BY <1>2, <1>6, <2>1, <2>3
  <2>4. CASE i = l
    BY <1>3, <1>6, <2>1, <2>4
  <2>. QED
    BY <2>2, <2>3, <2>4
<1>7. ASSUME NEW e \in Neighbours(E)
      PROVE  e \in Neighbours(E \cup {l})
  <2>1. PICK i, j \in E : e = <<i, j>>
    BY <1>4
  <2>. QED
    BY <1>1, <1>7, <2>1
<1>8. <<n, l>> \in Neighbours(E \cup {l})
  BY <1>2
<1>. QED
  BY <1>6, <1>7, <1>8

\* A text without commas added behind a comma is one more part.
LEMMA PartsAfterComma ==
    ASSUME NEW S, Comma \in S, NEW a \in Seq(S), NEW b \in Seq(S), Plain(b)
    PROVE  Parts(a \o (<<Comma>> \o b)) = Parts(a) \cup {b}
<1>. DEFINE n == Len(a)
            m == Len(b)
            c == a \o (<<Comma>> \o b)
            l == n + m + 2
            part(x, e) == SubSeq(x, e[1] + 1, e[2] - 1)
<1>1. /\ c \in Seq(S) /\ Len(c) = n + 1 + m
      /\ \A i \in 1..n : c[i] = a[i]
      /\ \A i \in 1..m : c[n + 1 + i] = b[i]
      /\ Ends(c) = Ends(a) \cup {l}
  BY EndsAfterComma
<1>2. /\ n \in Nat /\ n + 1 \in Ends(a)
      /\ \A i \in Ends(a) : i \in Nat /\ i <= n + 1
  BY EndsBounds
<1>3. m \in Nat
  BY LenProperties
<1>. HIDE DEF c, n, m
<1>4. Neighbours(Ends(c)) = Neighbours(Ends(a)) \cup {<<n + 1, l>>}
  <2>1. n + 1 \in Nat /\ l \in Nat /\ l > n + 1
    BY <1>2, <1>3
  <2>. DEFINE k == n + 1
              E == Ends(a)
  <2>2. k \in Nat /\ k \in E /\ (\A i \in E : i \in Nat /\ i <= k) /\ l \in Nat /\ l > k
    BY <1>2, <2>1
  <2>. HIDE DEF l, k, E
  <2>3. \A e : e \in Neighbours(E \cup {l}) <=> e \in Neighbours(E) \/ e = <<k, l>>
    BY ONLY <2>2, OneMoreEnd
  <2>. QED
    BY <1>1, <2>3 DEF k, E
<1>5. part(c, <<n + 1, l>>) = b
  <2>0. /\ <<n + 1, l>>[1] + 1 = n + 2 /\ <<n + 1, l>>[2] - 1 = n + 1 + m
    BY <1>2, <1>3
  <2>1. SubSeq(c, n + 2, n + 1 + m) = b
    <3>. DEFINE s == SubSeq(c, n + 2, n + 1 + m)
    <3>0. \A i \in (n + 2)..(n + 1 + m) : c[i] \in S
      <4>1. \A i \in (n + 2)..(n + 1 + m) : i \in 1..Len(c)
        BY <1>1, <1>2, <1>3
      <4>. QED
        BY <1>1, <4>1, ElementOfSeq
    <3>1. /\ s \in Seq(S)
          /\ Len(s) = IF n + 2 <= n + 1 + m THEN (n + 1 + m) - (n + 2) + 1 ELSE 0
          /\ \A i \in 1..((n + 1 + m) - (n + 2) + 1) : s[i] = c[(n + 2) + i - 1]
      <4>1. n + 2 \in Int /\ n + 1 + m \in Int
        BY <1>2, <1>3
      <4>. QED
        BY <3>0, <4>1, SubSeqProperties
    <3>. HIDE DEF s
    <3>2. Len(s) = m /\ (n + 1 + m) - (n + 2) + 1 = m
      BY <1>2, <1>3, <3>1
    <3>3. ASSUME NEW i \in 1..m
          PROVE  s[i] = b[i]
      <4>1. (n + 2) + i - 1 = n + 1 + i
        BY <1>2, <1>3
      <4>. QED
        BY <1>1, <3>1, <3>2, <4>1
    <3>4. s = b
      BY <3>1, <3>2, <3>3, SeqEqual DEF m
    <3>. QED
      BY <3>4 DEF s
  <2>. QED
    BY <2>0, <2>1
<1>6. ASSUME NEW e \in Neighbours(Ends(a))
      PROVE  part(c, e) = part(a, e)
  <2>1. PICK i, j \in Ends(a) : e = <<i, j>>
    BY DEF Neighbours
  <2>2. i \in Nat /\ j \in Nat /\ j <= n + 1
    BY <1>2
  <2>3. SubSeq(a, i + 1, j - 1) = SubSeq(c, i + 1, j - 1)
    <3>1. i + 1 \in Int /\ j - 1 \in Int /\ 1 <= i + 1 /\ j - 1 <= Len(a) /\ j - 1 <= Len(c)
      BY <1>1, <1>2, <1>3, <2>2 DEF n
    <3>. DEFINE p == i + 1
                q == j - 1
    <3>2. \A k \in p..q : a[k] = c[k]
      BY <1>1, <1>2, <2>2
    <3>3. p \in Int /\ q \in Int /\ 1 <= p /\ q <= Len(a) /\ q <= Len(c) /\ c \in Seq(S)
      BY <1>1, <3>1
    <3>. HIDE DEF p, q
    <3>4. SubSeq(a, p, q) = SubSeq(c, p, q)
      BY <3>2, <3>3, P4!SubSeqAgree
    <3>. QED
      BY <3>4 DEF p, q
  <2>4. e[1] = i /\ e[2] = j
    BY <2>1
  <2>. QED
    BY <2>3, <2>4
<1>7. Parts(c) = {part(c, e) : e \in Neighbours(Ends(c))}
  BY DEF Parts
<1>8. Parts(a) = {part(a, e) : e \in Neighbours(Ends(a))}
  BY DEF Parts
<1>. HIDE DEF part, l
<1>9. Parts(c) = Parts(a) \cup {b}
  BY <1>4, <1>5, <1>6, <1>7, <1>8
<1>. QED
  BY <1>9 DEF c

\* A text without commas is its only part.
LEMMA PartsPlain ==
    ASSUME NEW S, NEW b \in Seq(S), Plain(b)
    PROVE  Parts(b) = {b}
<1>. DEFINE m == Len(b)
            part(e) == SubSeq(b, e[1] + 1, e[2] - 1)
<1>1. m \in Nat /\ DOMAIN b = 1..m
  BY LenProperties
<1>2. Ends(b) = {0, m + 1}
  BY <1>1 DEF Ends, Plain
<1>3. \A e : e \in Neighbours(Ends(b)) <=> e = <<0, m + 1>>
  <2>. DEFINE l == m + 1
  <2>1. l > 0 /\ l \in Nat
    BY <1>1
  <2>. HIDE DEF l
  <2>2. \A e \in Neighbours({0, l}) : \E i, j \in {0, l} : e = <<i, j>> /\ i < j
    BY DEF Neighbours
  <2>3. \A e \in Neighbours({0, l}) : e = <<0, l>>
    BY <2>1, <2>2
  <2>4. <<0, l>> \in Neighbours({0, l})
    BY <2>1 DEF Neighbours
  <2>5. \A e : e \in Neighbours({0, l}) <=> e = <<0, l>>
    BY <2>3, <2>4
  <2>. QED
    BY <1>2, <2>5 DEF l
<1>4. part(<<0, m + 1>>) = b
  <2>1. 0 + 1 = 1 /\ (m + 1) - 1 = m
    BY <1>1
  <2>2. SubSeq(b, 1, m) = b
    BY SubSeqFull
  <2>. QED
    BY <2>1, <2>2
<1>5. Parts(b) = {part(e) : e \in Neighbours(Ends(b))}
  BY DEF Parts
<1>. HIDE DEF part, m
<1>. QED
  BY <1>3, <1>4, <1>5

\* Products are spelled without commas, each in its own way.
LEMMA Spelled ==
    ASSUME NEW p \in Catalogue
    PROVE  /\ Spelling[p] \in Seq(STRING) /\ Plain(Spelling[p]) /\ Spelling[p] # <<>>
           /\ \A q \in Catalogue : Spelling[p] = Spelling[q] => p = q
BY CatalogueAssumption DEF IsInjective, Contains, Plain

\* The characters a product adds to a list that is empty, or is not.
Piece(i, p) == IF i = 1 THEN Spelling[p] ELSE <<Comma>> \o Spelling[p]

\* A comma is a text.
LEMMA CommaText == Comma \in STRING
BY ValuesAssumption, Zenon

\* A piece is a sequence of characters.
LEMMA PieceType ==
    ASSUME NEW i, NEW p \in Catalogue
    PROVE  Piece(i, p) \in Seq(STRING)
<1>. DEFINE S == STRING
<1>1. Comma \in S /\ Spelling[p] \in Seq(S)
  BY CommaText, Spelled
<1>. HIDE DEF S
<1>2. <<Comma>> \in Seq(S)
  BY <1>1
<1>3. <<Comma>> \o Spelling[p] \in Seq(S)
  BY <1>1, <1>2, ConcatProperties
<1>. QED
  BY <1>1, <1>3 DEF Piece, S

\* A list of products becomes a sequence of characters.
LEMMA JoinedType ==
    ASSUME NEW list \in Seq(Catalogue)
    PROVE  Joined(list) \in Seq(STRING)
<1>. DEFINE n == Len(list)
            ss == [i \in DOMAIN list |-> Piece(i, list[i])]
<1>1. n \in Nat /\ DOMAIN list = 1..n /\ \A i \in 1..n : list[i] \in Catalogue
  BY LenProperties, ElementOfSeq
<1>2. ss \in Seq(Seq(STRING))
  <2>1. \A i \in 1..n : Piece(i, list[i]) \in Seq(STRING)
    BY <1>1, PieceType
  <2>2. ss = [i \in 1..n |-> Piece(i, list[i])]
    BY <1>1
  <2>. QED
    BY <1>1, <2>1, <2>2
<1>3. Joined(list) = P4!FlattenSeq(ss)
  BY DEF Joined, Piece, FlattenSeq, P4!FlattenSeq
<1>. HIDE DEF ss
<1>4. P4!FlattenSeq(ss) \in Seq(STRING)
  BY <1>2, P4!FlattenType
<1>. QED
  BY <1>3, <1>4

\* A product more is a piece more.
LEMMA JoinedAppend ==
    ASSUME NEW list \in Seq(Catalogue), NEW p \in Catalogue
    PROVE  Joined(Append(list, p)) = Joined(list) \o Piece(Len(list) + 1, p)
<1>. DEFINE n == Len(list)
            longer == Append(list, p)
            ss == [i \in DOMAIN list |-> Piece(i, list[i])]
            tt == [i \in DOMAIN longer |-> Piece(i, longer[i])]
            x == Piece(n + 1, p)
<1>1. n \in Nat /\ DOMAIN list = 1..n /\ \A i \in 1..n : list[i] \in Catalogue
  BY LenProperties, ElementOfSeq
<1>2. /\ longer \in Seq(Catalogue) /\ Len(longer) = n + 1 /\ DOMAIN longer = 1..(n + 1)
      /\ longer[n + 1] = p /\ \A i \in 1..n : longer[i] = list[i]
  <2>1. longer \in Seq(Catalogue) /\ Len(longer) = n + 1
    BY AppendProperties
  <2>. QED
    BY <1>1, <2>1, LenProperties, AppendProperties
<1>. HIDE DEF n, longer
<1>3. ss \in Seq(Seq(STRING)) /\ Len(ss) = n /\ x \in Seq(STRING)
  <2>1. \A i \in 1..n : Piece(i, list[i]) \in Seq(STRING)
    BY <1>1, PieceType
  <2>2. ss = [i \in 1..n |-> Piece(i, list[i])]
    BY <1>1
  <2>. QED
    BY <1>1, <2>1, <2>2, PieceType
<1>4. tt \in Seq(Seq(STRING)) /\ Len(tt) = n + 1
  <2>1. \A i \in 1..(n + 1) : Piece(i, longer[i]) \in Seq(STRING)
    <3>1. \A i \in 1..(n + 1) : longer[i] \in Catalogue
      BY <1>2, ElementOfSeq
    <3>. QED
      BY <3>1, PieceType
  <2>2. tt = [i \in 1..(n + 1) |-> Piece(i, longer[i])]
    BY <1>2
  <2>. DEFINE S == Seq(STRING)
              k == n + 1
  <2>3. k \in Nat /\ tt = [i \in 1..k |-> Piece(i, longer[i])]
        /\ \A i \in 1..k : Piece(i, longer[i]) \in S
    BY <1>1, <2>1, <2>2
  <2>. HIDE DEF S, k, tt
  <2>4. tt \in Seq(S) /\ Len(tt) = k
    BY <2>3
  <2>. QED
    BY <2>4 DEF S, k
<1>5. tt = Append(ss, x)
  <2>1. /\ Append(ss, x) \in Seq(Seq(STRING)) /\ Len(Append(ss, x)) = n + 1
        /\ Append(ss, x)[n + 1] = x /\ \A i \in 1..n : Append(ss, x)[i] = ss[i]
    <3>. HIDE DEF ss, x
    <3>. QED
      BY <1>1, <1>3, AppendProperties
  <2>2. ASSUME NEW i \in 1..(n + 1)
        PROVE  tt[i] = Append(ss, x)[i]
    <3>1. CASE i = n + 1
      BY <1>2, <2>1, <3>1
    <3>2. CASE i \in 1..n
      BY <1>1, <1>2, <2>1, <3>2
    <3>. QED
      BY <1>1, <3>1, <3>2
  <2>. HIDE DEF ss, tt, x
  <2>. QED
    BY <1>4, <2>1, <2>2, SeqEqual
<1>6. Joined(list) = FlattenSeq(ss) /\ Joined(longer) = FlattenSeq(tt)
  BY DEF Joined, Piece
<1>7. \A seqs : FlattenSeq(seqs) = P4!FlattenSeq(seqs)
  BY DEF FlattenSeq, P4!FlattenSeq
<1>. HIDE DEF ss, tt, x
<1>8. P4!FlattenSeq(Append(ss, x)) = P4!FlattenSeq(ss) \o x
  BY <1>3, P4!FlattenAppend
<1>. QED
  BY <1>5, <1>6, <1>7, <1>8 DEF x, n, longer

\* The service finds in what it gets the products that were asked with, and
\* no others.
Splits(list) ==
  \A p \in Catalogue : Spelling[p] \in Parts(Joined(list)) <=> p \in ToSet(list)

\* The service finds the products of a list in its characters.
LEMMA JoinedSplits ==
    ASSUME NEW list \in Seq(Catalogue)
    PROVE  Splits(list)
<1>. DEFINE P == {s \in Seq(Catalogue) : Splits(s)}
<1>1. <<>> \in P
  <2>1. Joined(<<>>) = <<>>
    <3>1. FlattenSeq(<<>>) = <<>>
      BY DEF FlattenSeq
    <3>2. [i \in DOMAIN <<>> |-> Piece(i, <<>>[i])] = <<>>
      OBVIOUS
    <3>. QED
      BY <3>1, <3>2 DEF Joined, Piece
  <2>2. Parts(<<>>) = {<<>>}
    <3>1. <<>> \in Seq({Comma}) /\ Plain(<<>>)
      BY DEF Plain
    <3>. QED
      BY <3>1, PartsPlain
  <2>3. ToSet(<<>>) = {}
    BY DEF ToSet
  <2>. QED
    BY <2>1, <2>2, <2>3, Spelled, EmptySeq DEF Splits
<1>2. ASSUME NEW s \in Seq(Catalogue), NEW p \in Catalogue, s \in P
      PROVE  Append(s, p) \in P
  <2>. DEFINE t == Append(s, p)
              a == Joined(s)
              b == Spelling[p]
  <2>1. a \in Seq(STRING) /\ Joined(t) = a \o Piece(Len(s) + 1, p)
    BY JoinedType, JoinedAppend
  <2>2. b \in Seq(STRING) /\ Plain(b) /\ b # <<>>
    BY Spelled
  <2>3. t \in Seq(Catalogue) /\ ToSet(t) = ToSet(s) \cup {p}
    <3>1. /\ t \in Seq(Catalogue) /\ Len(t) = Len(s) + 1 /\ Len(s) \in Nat
          /\ t[Len(s) + 1] = p /\ \A i \in 1..Len(s) : t[i] = s[i]
          /\ DOMAIN s = 1..Len(s)
      BY AppendProperties, LenProperties
    <3>2. DOMAIN t = 1..(Len(s) + 1)
      BY <3>1, LenProperties
    <3>3. DOMAIN t = DOMAIN s \cup {Len(s) + 1}
      BY <3>1, <3>2
    <3>. HIDE DEF t
    <3>. QED
      BY <3>1, <3>3 DEF ToSet
  <2>4. Splits(s)
    BY <1>2
  <2>5. CASE s = <<>>
    <3>1. a = <<>>
      <4>1. FlattenSeq(<<>>) = <<>>
        BY DEF FlattenSeq
      <4>2. [i \in DOMAIN <<>> |-> Piece(i, <<>>[i])] = <<>>
        OBVIOUS
      <4>. QED
        BY <2>5, <4>1, <4>2 DEF Joined, Piece
    <3>2. Piece(Len(s) + 1, p) = b
      BY <2>5, EmptySeq DEF Piece
    <3>3. Joined(t) = b
      BY <2>1, <2>2, <3>1, <3>2, ConcatEmptySeq
    <3>4. Parts(Joined(t)) = {b} /\ ToSet(t) = {p}
      <4>1. ToSet(s) = {}
        BY <2>5 DEF ToSet
      <4>2. Parts(b) = {b}
        BY <2>2, PartsPlain
      <4>. QED
        BY <2>3, <3>3, <4>1, <4>2
    <3>. HIDE DEF t, b
    <3>5. \A q \in Catalogue : Spelling[q] = b <=> q = p
      BY Spelled DEF b
    <3>6. Splits(t)
      BY <2>2, <3>3, <3>4, <3>5 DEF Splits
    <3>. QED
      BY <2>3, <3>6 DEF t
  <2>6. CASE s # <<>>
    <3>1. Piece(Len(s) + 1, p) = <<Comma>> \o b
      <4>1. Len(s) \in Nat \ {0}
        BY <2>6, EmptySeq
      <4>. QED
        BY <4>1 DEF Piece
    <3>2. Parts(Joined(t)) = Parts(a) \cup {b}
      <4>. DEFINE S == STRING
      <4>1. Comma \in S /\ a \in Seq(S) /\ b \in Seq(S)
        BY <2>1, <2>2, CommaText
      <4>2. Joined(t) = a \o (<<Comma>> \o b)
        BY <2>1, <3>1
      <4>. HIDE DEF S, a, b, t
      <4>3. Parts(a \o (<<Comma>> \o b)) = Parts(a) \cup {b}
        BY <2>2, <4>1, PartsAfterComma
      <4>. QED
        BY <4>2, <4>3
    <3>. HIDE DEF t, a, b
    <3>4. \A q \in Catalogue : Spelling[q] = b <=> q = p
      BY Spelled DEF b
    <3>5. \A q \in Catalogue : Spelling[q] \in Parts(a) <=> q \in ToSet(s)
      BY <2>4 DEF Splits, a
    <3>6. Splits(t)
      BY <2>3, <3>2, <3>4, <3>5 DEF Splits
    <3>. QED
      BY <2>3, <3>6 DEF t
  <2>. QED
    BY <2>5, <2>6
<1>. HIDE DEF P
<1>3. list \in P
  BY <1>1, <1>2, P4!SeqSetInduction
<1>. QED
  BY <1>3 DEF P

\* What the recommendation service answers with: none twice, none of those
\* asked with, and all of the others or more than a page shows.
Others(list) == Catalogue \ ToSet(list)

IsRecommendation(list, x) ==
  /\ x \in Seq(Others(list)) /\ IsInjective(x)
  /\ \/ Len(x) = MaxResponses
     \/ ToSet(x) = Others(list)

\* The service recommends none of the products it was asked with.
LEMMA Recommends ==
    ASSUME NEW list \in IdLists, NEW x \in Recommended(Joined(list))
    PROVE  IsRecommendation(list, x)
<1>. DEFINE others == Others(list)
            k == Cardinality(others)
            n == IF k < MaxResponses THEN k ELSE MaxResponses
<1>1. others = {p \in Catalogue : Spelling[p] \notin Parts(Joined(list))}
  <2>1. list \in Seq(Catalogue)
    BY CatalogueAssumption
  <2>. QED
    BY <2>1, JoinedSplits DEF Splits, Others
<1>2. x \in [1..n -> others] /\ IsInjective(x)
  BY <1>1 DEF Recommended
<1>3. IsFiniteSet(others) /\ k \in Nat
  <2>1. others \in SUBSET Catalogue
    BY DEF Others
  <2>2. IsFiniteSet(others)
    BY <2>1, CatalogueAssumption, FS_Subset
  <2>. QED
    BY <2>2, FS_CardinalityType
<1>4. n \in Nat
  BY <1>3 DEF MaxResponses
<1>5. x \in Seq(others) /\ Len(x) = n /\ DOMAIN x = 1..n
  <2>. HIDE DEF n, others
  <2>1. x \in Seq(others)
    BY <1>2, <1>4
  <2>2. DOMAIN x = 1..n
    BY <1>2
  <2>. QED
    BY <1>4, <2>1, <2>2, LenProperties
<1>6. n = MaxResponses \/ ToSet(x) = others
  <2>1. CASE n = MaxResponses
    BY <2>1
  <2>2. CASE n = k
    <3>1. x \in Injection(1..k, others)
      <4>1. x \in [1..k -> others]
        BY <1>2, <2>2
      <4>. HIDE DEF k, others
      <4>. QED
        BY <1>2, <4>1 DEF Injection, IsInjective
    <3>2. Cardinality(1..k) = k
      <4>1. 1 \in Int /\ k \in Int
        BY <1>3
      <4>. HIDE DEF k
      <4>2. Cardinality(1..k) = IF 1 > k THEN 0 ELSE k - 1 + 1
        BY <4>1, FS_Interval
      <4>. QED
        BY <1>3, <4>2
    <3>3. x \in Surjection(1..k, others)
      <4>. DEFINE D == 1..k
      <4>1. x \in Injection(D, others) /\ Cardinality(D) = Cardinality(others)
        BY <3>1, <3>2
      <4>2. IsFiniteSet(others)
        BY <1>3
      <4>. HIDE DEF D, others
      <4>3. x \in Surjection(D, others)
        BY <4>1, <4>2, FS_Injection
      <4>. QED
        BY <4>3 DEF D
    <3>. QED
      BY <1>5, <2>2, <3>3 DEF Surjection, ToSet
  <2>. QED
    BY <2>1, <2>2
<1>. QED
  BY <1>2, <1>5, <1>6 DEF IsRecommendation

\* The page shows the first four of them.
LEMMA ShowsOthers ==
    ASSUME NEW list, NEW x, IsRecommendation(list, x)
    PROVE  /\ ToSet(Shown(x)) \subseteq Others(list)
           /\ IsInjective(Shown(x))
           /\ Len(Shown(x)) = 4 \/ ToSet(Shown(x)) = Others(list)
<1>. DEFINE others == Others(list)
            n == Len(x)
            k == IF n < 4 THEN n ELSE 4
            s == SubSeq(x, 1, k)
<1>1. x \in Seq(others) /\ n \in Nat /\ DOMAIN x = 1..n /\ \A i \in 1..n : x[i] \in others
  <2>1. x \in Seq(others)
    BY DEF IsRecommendation
  <2>. HIDE DEF others
  <2>. QED
    BY <2>1, LenProperties, ElementOfSeq
<1>2. k \in Nat /\ k <= n /\ 1 \in Int /\ k \in Int
  BY <1>1
<1>3. /\ s \in Seq(others) /\ Len(s) = k /\ \A i \in 1..k : s[i] = x[i]
      /\ DOMAIN s = 1..k
  <2>. HIDE DEF others, k, n
  <2>1. \A i \in 1..k : x[i] \in others
    BY <1>1, <1>2
  <2>2. /\ s \in Seq(others)
        /\ Len(s) = IF 1 <= k THEN k - 1 + 1 ELSE 0
        /\ \A i \in 1..(k - 1 + 1) : s[i] = x[1 + i - 1]
    BY <1>2, <2>1, SubSeqProperties
  <2>. HIDE DEF s
  <2>3. Len(s) = k /\ \A i \in 1..k : s[i] = x[i]
    BY <1>2, <2>2
  <2>. QED
    BY <2>2, <2>3, LenProperties
<1>4. Shown(x) = s
  BY DEF Shown
<1>5. IsInjective(x) /\ (n = MaxResponses \/ ToSet(x) = others)
  BY DEF IsRecommendation
<1>. HIDE DEF s, others
<1>6. ToSet(s) \subseteq others
  BY <1>1, <1>2, <1>3 DEF ToSet
<1>7. IsInjective(s)
  BY <1>1, <1>2, <1>3, <1>5 DEF IsInjective
<1>8. Len(s) = 4 \/ ToSet(s) = others
  <2>1. CASE n >= 4
    BY <1>1, <1>3, <2>1
  <2>2. CASE n < 4
    <3>1. k = n
      BY <2>2
    <3>2. ToSet(s) = ToSet(x)
      BY <1>1, <1>3, <3>1 DEF ToSet
    <3>3. n \in Nat
      BY <1>1
    <3>. HIDE DEF n
    <3>4. n # MaxResponses
      BY <2>2, <3>3 DEF MaxResponses
    <3>. QED
      BY <1>5, <3>2, <3>4
  <2>. QED
    BY <1>1, <2>1, <2>2
<1>. QED
  BY <1>4, <1>6, <1>7, <1>8 DEF others
-----------------------------------------------------------------------------
(***************************************************************************)
(* What is proved about the four depths, as Rpc uses it.                   *)
(***************************************************************************)
\* JavaScript's numbers hold the 64-bit numbers of a message as they are.
Exact(name, m) == \A n \in Protocol!NumbersIn(name, m, "int64") : Protocol!Number(n) = n

\* No 64-bit number of a message is beyond the safe integers.
Safe(name, m) ==
  \A n \in Protocol!NumbersIn(name, m, "int64") : -MaxSafe <= n /\ n <= MaxSafe

\* The messages of the fourth depth are all of them.
LEMMA AllNames == Names4 = DOMAIN Messages
BY MessagesAssumption DEF Names1, Names2, Names3, Names4

\* The numbers in a message are integers.
LEMMA CountsNumbers ==
    ASSUME NEW name \in DOMAIN Messages, NEW m, Protocol!IsMessage(name, m),
           NEW kind \in {"int32", "int64"}
    PROVE  Protocol!NumbersIn(name, m, kind) \subseteq Int
<1>1. name \in Names4 /\ P4!IsMessage(name, m)
  BY AllNames, Same4
<1>2. P4!NumbersIn(name, m, kind) \subseteq Int
  BY <1>1, Correct4 DEF P4!Correct, P4!Counts
<1>. QED
  BY <1>2, Same4

\* Whatever way a message is written, the frontend reads it or fails for a
\* number that is not safe.
LEMMA ReadsWires ==
    ASSUME NEW name \in DOMAIN Messages, NEW m, Protocol!IsMessage(name, m),
           NEW w \in {Protocol!Encode(name, m)}
                     \cup Protocol!OtherWires(name, Protocol!Encode(name, m))
    PROVE  /\ Exact(name, m) => Protocol!Decode(name, w) = m
           /\ Protocol!Readable(name, w) <=> Safe(name, m)
           /\ Safe(name, m) => Exact(name, m)
<1>1. name \in Names4 /\ P4!IsMessage(name, m)
  BY AllNames, Same4
<1>2. w \in {P4!Encode(name, m)} \cup P4!OtherWires(name, P4!Encode(name, m))
  BY Same4
<1>3. /\ (\A n \in P4!NumbersIn(name, m, "int64") : P4!Number(n) = n)
           => P4!Decode(name, w) = m
      /\ P4!Readable(name, w) <=> \A n \in P4!NumbersIn(name, m, "int64") : P4!longToNumber(n)
  BY <1>1, <1>2, Correct4 DEF P4!Correct, P4!Reads
<1>4. P4!NumbersIn(name, m, "int64") = Protocol!NumbersIn(name, m, "int64")
  BY Same4
<1>5. \A n \in Protocol!NumbersIn(name, m, "int64") :
        /\ P4!Number(n) = Protocol!Number(n)
        /\ P4!longToNumber(n) <=> -MaxSafe <= n /\ n <= MaxSafe
        /\ P4!longToNumber(n) => P4!Number(n) = n
  <2>1. ASSUME NEW n \in Protocol!NumbersIn(name, m, "int64")
        PROVE  /\ P4!Number(n) = Protocol!Number(n)
               /\ P4!longToNumber(n) <=> -MaxSafe <= n /\ n <= MaxSafe
               /\ P4!longToNumber(n) => P4!Number(n) = n
    <3>1. n \in Int
      BY CountsNumbers
    <3>2. MaxSafe \in Nat
      BY ValuesAssumption, Zenon
    <3>3. P4!longToNumber(n) <=> -MaxSafe <= n /\ n <= MaxSafe
      BY <3>1, <3>2, P4!NumberExact
    <3>4. P4!longToNumber(n) => P4!Number(n) = n
      BY <3>1, <3>2, P4!NumberExact
    <3>. QED
      BY <3>3, <3>4, SameNumbers
  <2>. QED
    BY <2>1
<1>6. Exact(name, m) => Protocol!Decode(name, w) = m
  BY <1>3, <1>4, <1>5, Same4 DEF Exact
<1>7. Protocol!Readable(name, w) <=> Safe(name, m)
  BY <1>3, <1>4, <1>5, Same4 DEF Safe
<1>8. Safe(name, m) => Exact(name, m)
  BY <1>5 DEF Safe, Exact
<1>. QED
  BY <1>6, <1>7, <1>8

\* The JSON forms of a message give it back.
LEMMA RestoresForms ==
    ASSUME NEW name \in DOMAIN Messages, NEW m, Protocol!IsMessage(name, m)
    PROVE  /\ \A style \in {"camel", "snake"} :
                Protocol!FromJson(name, Protocol!ToObject(name, m, style)) = m
           /\ Protocol!FromPartial(name, Protocol!ToObject(name, m, "camel")) = m
<1>1. name \in Names4 /\ P4!IsMessage(name, m)
  BY AllNames, Same4
<1>2. \A style \in {"camel", "snake"} : \A styles \in P4!StylesOf(style) :
        P4!FromObject(name, P4!ToObject(name, m, style), styles) = m
  BY <1>1, Correct4 DEF P4!Correct, P4!Restores
<1>3. \A style \in {"camel", "snake"} : \A styles \in P4!StylesOf(style) :
        Protocol!FromObject(name, Protocol!ToObject(name, m, style), styles) = m
  BY <1>2, Same4
<1>4. \A style \in {"camel", "snake"} :
        /\ <<"camel", "snake">> \in P4!StylesOf(style) /\ <<style>> \in P4!StylesOf(style)
  BY DEF P4!StylesOf
<1>. QED
  BY <1>3, <1>4 DEF Protocol!FromJson, Protocol!FromPartial

\* The messages a call can carry.
LEMMA MakesMessages ==
    ASSUME NEW name \in DOMAIN Messages, NEW int32s \in SUBSET Int, NEW int64s \in SUBSET Int,
           NEW m \in Protocol!Samples(name, int32s, int64s)
    PROVE  /\ Protocol!IsMessage(name, m)
           /\ Protocol!NumbersIn(name, m, "int64") \subseteq int64s \cup {1}
<1>1. name \in Names4 /\ m \in P4!Samples(name, int32s, int64s)
  BY AllNames, Same4
<1>2. P4!IsMessage(name, m) /\ P4!NumbersIn(name, m, "int64") \subseteq int64s \cup {1}
  BY <1>1, Correct4 DEF P4!Correct, P4!Makes
<1>. QED
  BY <1>2, Same4

\* The number that fills a message is a number of JavaScript.
LEMMA NumberOne == Protocol!Number(1) = 1
<1>1. MaxSafe \in Nat
  BY ValuesAssumption, Zenon
<1>. QED
  BY <1>1 DEF Protocol!Number

\* What the frontend's code puts into a request is a message of numbers
\* that are numbers of JavaScript already.
LEMMA RequestsExact ==
    ASSUME NEW c \in DOMAIN Methods, NEW m \in Requests[Methods[c].request]
    PROVE  Protocol!IsMessage(Methods[c].request, m) /\ Exact(Methods[c].request, m)
<1>. DEFINE name == Methods[c].request
            exact == {n \in PageNumbers : Protocol!Number(n) = n}
<1>1. m \in Protocol!Samples(name, PageNumbers, exact)
  BY DEF Requests
<1>2. name \in DOMAIN Messages
  BY MethodsAssumption
<1>3. PageNumbers \subseteq Int
  BY ValuesAssumption, Zenon
<1>4. PageNumbers \in SUBSET Int /\ exact \in SUBSET Int
  BY <1>3
<1>5. \A n \in exact : Protocol!Number(n) = n
  OBVIOUS
<1>. HIDE DEF name, exact
<1>6. Protocol!IsMessage(name, m) /\ Protocol!NumbersIn(name, m, "int64") \subseteq exact \cup {1}
  BY <1>1, <1>2, <1>4, MakesMessages
<1>7. Exact(name, m)
  BY <1>5, <1>6, NumberOne DEF Exact
<1>. QED
  BY <1>6, <1>7 DEF name

\* What a service answers with is a message.
LEMMA AnswersAre ==
    ASSUME NEW c \in DOMAIN Methods, NEW m \in Answers[Methods[c].response]
    PROVE  Protocol!IsMessage(Methods[c].response, m)
<1>. DEFINE name == Methods[c].response
<1>1. m \in Protocol!Samples(name, Int32s(PageNumbers), PeerNumbers)
  BY DEF Answers
<1>2. name \in DOMAIN Messages
  BY MethodsAssumption
<1>3. PageNumbers \subseteq Int /\ PeerNumbers \subseteq Int
  BY ValuesAssumption, Zenon
<1>4. Int32s(PageNumbers) \in SUBSET Int /\ PeerNumbers \in SUBSET Int
  BY <1>3 DEF Int32s
<1>. HIDE DEF name
<1>5. Protocol!IsMessage(name, m)
  BY <1>1, <1>2, <1>4, MakesMessages
<1>. QED
  BY <1>5 DEF name

\* A sequence of members of a set.
LEMMA TextsOf ==
    ASSUME NEW S, NEW s \in Seq(S)
    PROVE  s \in Seq(ToSet(s)) /\ ToSet(s) \subseteq S
<1>1. /\ Len(s) \in Nat /\ DOMAIN s = 1..Len(s) /\ s = [i \in 1..Len(s) |-> s[i]]
      /\ \A i \in 1..Len(s) : s[i] \in S
  BY LenProperties, ElementOfSeq
<1>2. \A i \in 1..Len(s) : s[i] \in ToSet(s)
  BY <1>1 DEF ToSet
<1>3. s \in Seq(ToSet(s))
  <2>. DEFINE T == ToSet(s)
              n == Len(s)
  <2>1. n \in Nat /\ s = [i \in 1..n |-> s[i]] /\ \A i \in 1..n : s[i] \in T
    BY <1>1, <1>2
  <2>. HIDE DEF T, n
  <2>2. s \in [1..n -> T]
    BY <2>1
  <2>3. s \in Seq(T)
    BY <2>1, <2>2
  <2>. QED
    BY <2>3 DEF T
<1>. QED
  BY <1>1, <1>3 DEF ToSet

\* What the API route passes on for a list of products is a request,
\* without 64-bit numbers.
LEMMA RequestForm ==
    ASSUME NEW user \in Strings, NEW list \in IdLists
    PROVE  LET name == Methods["listRecommendations"].request
               m == [userId |-> user, productIds |-> Joined(list)]
           IN  Protocol!IsMessage(name, m) /\ Exact(name, m)
<1>. DEFINE name == Methods["listRecommendations"].request
            m == [userId |-> user, productIds |-> Joined(list)]
            table == Messages[name]
<1>1. /\ DOMAIN table = {"userId", "productIds"}
      /\ table["userId"].kind = "string" /\ ~table["userId"].many
      /\ table["productIds"].kind = "string" /\ table["productIds"].many
  BY RecommendationsAssumption
<1>2. user \in STRING
  BY ValuesAssumption, Zenon
<1>3. Joined(list) \in Seq(STRING)
  <2>1. list \in Seq(Catalogue)
    BY CatalogueAssumption
  <2>. QED
    BY <2>1, JoinedType
<1>4. /\ DOMAIN m = {"userId", "productIds"} /\ m = [f \in DOMAIN m |-> m[f]]
      /\ m["userId"] = user /\ m["productIds"] = Joined(list)
  OBVIOUS
<1>. HIDE DEF m, table
<1>5. Joined(list) \in Seq(ToSet(Joined(list))) /\ ToSet(Joined(list)) \subseteq STRING
  BY <1>3, TextsOf
<1>6. /\ \A v \in Protocol!Held(table["userId"], m["userId"]) : v = user
      /\ \A v \in Protocol!Held(table["productIds"], m["productIds"]) : v \in ToSet(Joined(list))
  BY <1>1, <1>4 DEF Protocol!Held, Protocol!ToSet, ToSet
<1>7. \A f \in DOMAIN m : \A v \in Protocol!Held(table[f], m[f]) : v \in STRING
  BY <1>2, <1>4, <1>5, <1>6
<1>8. \A f \in DOMAIN m : table[f].kind = "string"
  BY <1>1, <1>4
<1>9. Protocol!IsMessage(name, m)
  <2>1. \A f \in DOMAIN m : table[f].many => m[f] \in Seq(Protocol!ToSet(m[f]))
    <3>1. Protocol!ToSet(Joined(list)) = ToSet(Joined(list))
      BY DEF Protocol!ToSet, ToSet
    <3>. QED
      BY <1>1, <1>4, <1>5, <3>1
  <2>. QED
    BY <1>1, <1>4, <1>7, <1>8, <2>1 DEF Protocol!IsMessage, Protocol!IsValue, table
<1>10. Protocol!NumbersIn(name, m, "int64") = {}
  <2>1. \A f \in DOMAIN table : \A v : Protocol!NumbersAt(table[f], v, "int64") = {}
    BY <1>1, <1>4, <1>8 DEF Protocol!NumbersAt
  <2>. QED
    BY <2>1 DEF Protocol!NumbersIn, table
<1>. QED
  BY <1>9, <1>10 DEF Exact, m

\* A recommendation is an answer.
LEMMA AnswerForm ==
    ASSUME NEW list, NEW x, IsRecommendation(list, x)
    PROVE  Protocol!IsMessage(Methods["listRecommendations"].response, [productIds |-> x])
<1>. DEFINE name == Methods["listRecommendations"].response
            m == [productIds |-> x]
            table == Messages[name]
<1>1. /\ DOMAIN table = {"productIds"}
      /\ table["productIds"].kind = "string" /\ table["productIds"].many
  BY RecommendationsAssumption
<1>2. x \in Seq(ToSet(x)) /\ ToSet(x) \subseteq STRING
  <2>. DEFINE S == Others(list)
  <2>1. x \in Seq(S) /\ S \subseteq STRING
    BY CatalogueAssumption DEF IsRecommendation, Others
  <2>. HIDE DEF S
  <2>2. x \in Seq(ToSet(x)) /\ ToSet(x) \subseteq S
    BY <2>1, TextsOf
  <2>. QED
    BY <2>1, <2>2
<1>3. /\ DOMAIN m = {"productIds"} /\ m = [f \in DOMAIN m |-> m[f]]
      /\ m["productIds"] = x
  OBVIOUS
<1>. HIDE DEF m, table
<1>4. Protocol!ToSet(x) = ToSet(x)
  BY DEF Protocol!ToSet, ToSet
<1>5. \A v \in Protocol!Held(table["productIds"], x) : v \in STRING
  BY <1>1, <1>2, <1>4 DEF Protocol!Held
<1>6. Protocol!IsMessage(name, m)
  BY <1>1, <1>2, <1>3, <1>4, <1>5 DEF Protocol!IsMessage, Protocol!IsValue, table
<1>. QED
  BY <1>6 DEF m
-----------------------------------------------------------------------------
(***************************************************************************)
(* The inductive invariant: what the call's message is, by the phase of    *)
(* the call, and what is on the wire and has been read from it.            *)
(***************************************************************************)
RequestOK ==
  /\ Protocol!IsMessage(Methods[method].request, message)
  /\ Exact(Methods[method].request, message)
  /\ method = "listRecommendations" =>
       ids \in IdLists /\ message.productIds = Joined(ids)

AnswerOK ==
  /\ Protocol!IsMessage(Methods[method].response, message)
  /\ method = "listRecommendations" =>
       ids \in IdLists /\ IsRecommendation(ids, message.productIds)

RequestWire == wire = Protocol!Encode(Methods[method].request, message)

AnswerWire ==
  LET name == Methods[method].response
      w == Protocol!Encode(name, message)
  IN  wire \in {w} \cup Protocol!OtherWires(name, w)

Phases == {"idle", "request", "served", "answered", "reply", "done",
           "unwritable", "unreadable", "refused"}

IInv ==
  /\ method \in DOMAIN Methods /\ phase \in Phases
  /\ phase \in {"request", "served", "unwritable"} => RequestOK
  /\ phase \in {"answered", "reply", "done", "unreadable"} => AnswerOK
  /\ phase = "request" => RequestWire
  /\ phase = "reply" => AnswerWire
  /\ phase \in {"served", "done"} => got = message
  /\ phase = "unwritable" => ~Protocol!Writable(Methods[method].request, message)
  /\ phase = "unreadable" => ~Safe(Methods[method].response, message)

\* The requests and the answers of the methods are messages of the table.
LEMMA MethodNames ==
    ASSUME NEW c \in DOMAIN Methods
    PROVE  Methods[c].request \in DOMAIN Messages /\ Methods[c].response \in DOMAIN Messages
BY MethodsAssumption

\* The invariant holds before the first call.
LEMMA InitInv == Init => IInv
<1>1. {"addItem", "listRecommendations"} \subseteq DOMAIN Methods
  BY MethodsAssumption
<1>. QED
  BY <1>1 DEF Init, IInv, Phases

\* The invariant holds after a request was handed to the client.
LEMMA SendInv ==
    ASSUME NEW c \in DOMAIN Methods, NEW m, Send(c, m),
           Protocol!IsMessage(Methods[c].request, m), Exact(Methods[c].request, m),
           c = "listRecommendations" => ids' \in IdLists /\ m.productIds = Joined(ids')
    PROVE  IInv'
<1>1. method' = c /\ message' = m
  BY DEF Send
<1>2. RequestOK'
  BY <1>1 DEF RequestOK, Exact
<1>3. CASE Protocol!Writable(Methods[c].request, m)
  <2>1. phase' = "request" /\ wire' = Protocol!Encode(Methods[c].request, m)
    BY <1>3 DEF Send
  <2>2. RequestWire'
    BY <1>1, <2>1 DEF RequestWire
  <2>. QED
    BY <1>1, <1>2, <2>1, <2>2 DEF IInv, Phases
<1>4. CASE ~Protocol!Writable(Methods[c].request, m)
  <2>1. phase' = "unwritable"
    BY <1>4 DEF Send
  <2>. QED
    BY <1>1, <1>2, <1>4, <2>1 DEF IInv, Phases
<1>. QED
  BY <1>3, <1>4

\* Every step of a call keeps the invariant.
LEMMA NextInv == IInv /\ [Next]_vars => IInv'
<1>. SUFFICES ASSUME IInv, [Next]_vars
              PROVE  IInv'
  OBVIOUS
<1>1. ASSUME NEW c \in DOMAIN Methods \ {"listRecommendations"}, Call(c)
      PROVE  IInv'
  <2>1. PICK m \in Requests[Methods[c].request] : Send(c, m)
    BY <1>1 DEF Call
  <2>2. Protocol!IsMessage(Methods[c].request, m) /\ Exact(Methods[c].request, m)
    BY RequestsExact
  <2>. QED
    BY <2>1, <2>2, SendInv
<1>2. CASE AskRecommendations
  <2>1. ids' \in IdLists
    BY <1>2 DEF AskRecommendations
  <2>2. PICK user \in Strings :
          Send("listRecommendations", [userId |-> user, productIds |-> Joined(ids')])
    BY <1>2 DEF AskRecommendations
  <2>3. PICK list \in IdLists : list = ids'
    BY <2>1
  <2>. DEFINE c == "listRecommendations"
              m == [userId |-> user, productIds |-> Joined(list)]
  <2>4. Protocol!IsMessage(Methods[c].request, m) /\ Exact(Methods[c].request, m)
    BY RequestForm
  <2>5. c \in DOMAIN Methods
    BY MethodsAssumption
  <2>6. Send(c, m)
    BY <2>2, <2>3
  <2>7. m.productIds = Joined(ids')
    BY <2>3
  <2>. HIDE DEF c, m
  <2>. QED
    BY <2>1, <2>4, <2>5, <2>6, <2>7, SendInv
<1>3. CASE Serve
  <2>1. /\ phase = "request" /\ phase' = "served"
        /\ got' = Protocol!Decode(Methods[method].request, wire)
        /\ method' = method /\ ids' = ids /\ message' = message
    BY <1>3 DEF Serve
  <2>2. RequestOK /\ RequestWire /\ method \in DOMAIN Methods
    BY <2>1 DEF IInv
  <2>3. Protocol!Decode(Methods[method].request, wire) = message
    BY <2>2, MethodNames, ReadsWires DEF RequestOK, RequestWire
  <2>4. RequestOK'
    BY <2>1, <2>2 DEF RequestOK, Exact
  <2>. QED
    BY <2>1, <2>2, <2>3, <2>4 DEF IInv, Phases
<1>4. CASE Refuse
  BY <1>4 DEF Refuse, IInv, Phases
<1>5. CASE Answer
  <2>1. /\ phase = "served" /\ method # "listRecommendations" /\ phase' = "answered"
        /\ message' \in Answers[Methods[method].response]
        /\ method' = method
    BY <1>5 DEF Answer
  <2>2. method \in DOMAIN Methods
    BY DEF IInv
  <2>3. Protocol!IsMessage(Methods[method].response, message')
    BY <2>1, <2>2, AnswersAre
  <2>4. AnswerOK'
    BY <2>1, <2>3 DEF AnswerOK
  <2>. QED
    BY <2>1, <2>2, <2>4 DEF IInv, Phases
<1>6. CASE Recommend
  <2>1. /\ phase = "served" /\ method = "listRecommendations" /\ phase' = "answered"
        /\ method' = method /\ ids' = ids
    BY <1>6 DEF Recommend
  <2>2. PICK list \in Recommended(got.productIds) : message' = [productIds |-> list]
    BY <1>6 DEF Recommend
  <2>3. got = message /\ RequestOK /\ method \in DOMAIN Methods
    BY <2>1 DEF IInv
  <2>4. ids \in IdLists /\ got.productIds = Joined(ids)
    BY <2>1, <2>3 DEF RequestOK
  <2>5. IsRecommendation(ids, list)
    BY <2>2, <2>4, Recommends
  <2>6. Protocol!IsMessage(Methods["listRecommendations"].response, [productIds |-> list])
    BY <2>5, AnswerForm
  <2>7. AnswerOK'
    <3>1. message'.productIds = list
      BY <2>2
    <3>. QED
      BY <2>1, <2>2, <2>4, <2>5, <2>6, <3>1 DEF AnswerOK
  <2>. QED
    BY <2>1, <2>3, <2>7 DEF IInv, Phases
<1>7. CASE Reply
  <2>1. /\ phase = "answered" /\ phase' = "reply"
        /\ method' = method /\ ids' = ids /\ message' = message
    BY <1>7 DEF Reply
  <2>2. AnswerOK /\ method \in DOMAIN Methods
    BY <2>1 DEF IInv
  <2>3. AnswerOK'
    BY <2>1, <2>2 DEF AnswerOK
  <2>4. AnswerWire'
    BY <1>7, <2>1 DEF Reply, AnswerWire
  <2>. QED
    BY <2>1, <2>2, <2>3, <2>4 DEF IInv, Phases
<1>8. CASE Deliver
  <2>. DEFINE name == Methods[method].response
  <2>1. /\ phase = "reply"
        /\ method' = method /\ ids' = ids /\ message' = message
        /\ IF Protocol!Readable(name, wire)
             THEN phase' = "done" /\ got' = Protocol!Decode(name, wire)
             ELSE phase' = "unreadable"
    BY <1>8 DEF Deliver
  <2>2. AnswerOK /\ AnswerWire /\ method \in DOMAIN Methods
    BY <2>1 DEF IInv
  <2>3. name \in DOMAIN Messages /\ Protocol!IsMessage(name, message)
    BY <2>2, MethodNames DEF AnswerOK
  <2>4. wire \in {Protocol!Encode(name, message)}
                 \cup Protocol!OtherWires(name, Protocol!Encode(name, message))
    BY <2>2 DEF AnswerWire
  <2>5. AnswerOK'
    BY <2>1, <2>2 DEF AnswerOK
  <2>. HIDE DEF name
  <2>6. /\ Exact(name, message) => Protocol!Decode(name, wire) = message
        /\ Protocol!Readable(name, wire) <=> Safe(name, message)
        /\ Safe(name, message) => Exact(name, message)
    BY <2>3, <2>4, ReadsWires
  <2>7. CASE Safe(name, message)
    <3>1. phase' = "done" /\ got' = message'
      BY <2>1, <2>6, <2>7
    <3>. QED
      BY <2>1, <2>2, <2>5, <3>1 DEF IInv, Phases
  <2>8. CASE ~Safe(name, message)
    <3>1. phase' = "unreadable"
      BY <2>1, <2>6, <2>8
    <3>2. ~Safe(Methods[method].response, message)'
      BY <2>1, <2>8 DEF Safe, name
    <3>. QED
      BY <2>1, <2>2, <2>5, <3>1, <3>2 DEF IInv, Phases
  <2>. QED
    BY <2>7, <2>8
<1>9. CASE NextCall
  <2>1. "addItem" \in DOMAIN Methods
    BY MethodsAssumption
  <2>. QED
    BY <1>9, <2>1 DEF NextCall, IInv, Phases
<1>10. CASE UNCHANGED vars
  <2>1. /\ method' = method /\ phase' = phase /\ ids' = ids
        /\ message' = message /\ wire' = wire /\ got' = got
    BY <1>10 DEF vars
  <2>2. (RequestOK' <=> RequestOK) /\ (AnswerOK' <=> AnswerOK)
    BY <2>1 DEF RequestOK, AnswerOK, Exact
  <2>3. (RequestWire' <=> RequestWire) /\ (AnswerWire' <=> AnswerWire)
    BY <2>1 DEF RequestWire, AnswerWire
  <2>4. Safe(Methods[method].response, message)' <=> Safe(Methods[method].response, message)
    BY <2>1 DEF Safe
  <2>. QED
    BY <2>1, <2>2, <2>3, <2>4 DEF IInv
<1>. QED
  BY <1>1, <1>2, <1>3, <1>4, <1>5, <1>6, <1>7, <1>8, <1>9, <1>10 DEF Next

(***************************************************************************)
(* The invariant holds in every reachable state of a call, whatever the    *)
(* messages, the methods, the numbers and the catalogue.                   *)
(***************************************************************************)
THEOREM Invariant == Spec => []IInv
BY InitInv, NextInv, PTL DEF Spec

(***************************************************************************)
(* What the service and the client read is a complete message of the       *)
(* method called (demo.ts, decode).                                        *)
(***************************************************************************)
THEOREM TypeCorrect == Spec => []TypeOK
<1>1. IInv => TypeOK
  BY DEF IInv, TypeOK, Phases, RequestOK, AnswerOK
<1>. QED
  BY <1>1, Invariant, PTL

(***************************************************************************)
(* A service reads the request that the frontend's code passed to the      *)
(* client (demo.ts, encode and decode).                                    *)
(***************************************************************************)
THEOREM RequestIsKept == Spec => []RequestKept
<1>1. IInv => RequestKept
  BY DEF IInv, RequestKept
<1>. QED
  BY <1>1, Invariant, PTL

(***************************************************************************)
(* A call that succeeds gives the page the answer the service sent, with   *)
(* its fields in any order and with fields the frontend does not know      *)
(* (demo.ts, decode and longToNumber).                                     *)
(***************************************************************************)
THEOREM AnswerIsKept == Spec => []AnswerKept
<1>1. IInv => AnswerKept
  BY DEF IInv, AnswerKept
<1>. QED
  BY <1>1, Invariant, PTL

(***************************************************************************)
(* The protocol code fails a call only for a number it cannot carry        *)
(* (demo.ts, int32 and longToNumber).                                      *)
(***************************************************************************)
THEOREM FailsOnlyForNumbers == Spec => []FailsForItsNumbers
<1>1. ASSUME IInv
      PROVE  FailsForItsNumbers
  <2>1. method \in DOMAIN Methods
    BY <1>1 DEF IInv
  <2>2. ASSUME phase = "unwritable"
        PROVE  \E n \in Protocol!NumbersIn(Methods[method].request, message, "int32") :
                  n > Int32Max \/ n < -Int32Max - 1
    <3>. DEFINE numbers == Protocol!NumbersIn(Methods[method].request, message, "int32")
    <3>1. RequestOK /\ ~(numbers \subseteq (-Int32Max - 1)..Int32Max)
      BY <1>1, <2>2 DEF IInv, Protocol!Writable
    <3>2. numbers \subseteq Int
      BY <2>1, <3>1, MethodNames, CountsNumbers DEF RequestOK
    <3>3. Int32Max \in Nat
      BY ValuesAssumption, Zenon
    <3>. HIDE DEF numbers
    <3>4. \E n \in numbers : n > Int32Max \/ n < -Int32Max - 1
      BY <3>1, <3>2, <3>3
    <3>. QED
      BY <3>4 DEF numbers
  <2>3. ASSUME phase = "unreadable"
        PROVE  \E n \in Protocol!NumbersIn(Methods[method].response, message, "int64") :
                  n > MaxSafe \/ n < -MaxSafe
    <3>. DEFINE numbers == Protocol!NumbersIn(Methods[method].response, message, "int64")
    <3>1. AnswerOK /\ \E n \in numbers : ~(-MaxSafe <= n /\ n <= MaxSafe)
      BY <1>1, <2>3 DEF IInv, Safe
    <3>2. numbers \subseteq Int
      BY <2>1, <3>1, MethodNames, CountsNumbers DEF AnswerOK
    <3>3. MaxSafe \in Nat
      BY ValuesAssumption, Zenon
    <3>. HIDE DEF numbers
    <3>4. \E n \in numbers : n > MaxSafe \/ n < -MaxSafe
      BY <3>1, <3>2, <3>3
    <3>. QED
      BY <3>4 DEF numbers
  <2>. QED
    BY <2>2, <2>3 DEF FailsForItsNumbers
<1>. QED
  BY <1>1, Invariant, PTL

(***************************************************************************)
(* The JSON forms of an answer give the answer back (demo.ts, toJSON,      *)
(* fromJSON and fromPartial).                                              *)
(***************************************************************************)
THEOREM JsonIsRestored == Spec => []JsonRestores
<1>1. ASSUME IInv
      PROVE  JsonRestores
  <2>1. SUFFICES ASSUME phase = "done"
                 PROVE  JsonRestores
    BY DEF JsonRestores
  <2>2. got = message /\ method \in DOMAIN Methods
        /\ Protocol!IsMessage(Methods[method].response, got)
    BY <1>1, <2>1 DEF IInv, AnswerOK
  <2>. QED
    BY <2>2, MethodNames, RestoresForms DEF JsonRestores
<1>. QED
  BY <1>1, Invariant, PTL

(***************************************************************************)
(* A page is shown four products, or all that are left, none twice and     *)
(* none of those it asked with (pages/api/recommendations.ts,              *)
(* recommendation_server.py).                                              *)
(***************************************************************************)
THEOREM OthersAreRecommended == Spec => []RecommendsOthers
<1>1. ASSUME IInv
      PROVE  RecommendsOthers
  <2>1. SUFFICES ASSUME phase = "done", method = "listRecommendations"
                 PROVE  RecommendsOthers
    BY DEF RecommendsOthers
  <2>2. IsRecommendation(ids, got.productIds)
    BY <1>1, <2>1 DEF IInv, AnswerOK
  <2>. QED
    BY <2>2, ShowsOthers DEF RecommendsOthers, Others
<1>. QED
  BY <1>1, Invariant, PTL
==============================================================================
