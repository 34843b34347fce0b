-------------------------------- MODULE Rpc --------------------------------
(***************************************************************************)
(* One call of the frontend's API routes to a service of the shop, and the *)
(* protocol code that writes the request and reads the answer              *)
(* (src/frontend/protos/demo.ts, src/frontend/gateways/rpc).  The service  *)
(* is written in another language, against the same or a newer version of  *)
(* the messages: it may send the fields of an answer in any order, and     *)
(* fields the frontend does not know.                                      *)
(*                                                                         *)
(* What the protocol code does with a message is in MessageLayer, which    *)
(* has an instance here for each depth to which messages nest.  The        *)
(* recommendation call is followed to the page and back, because its list  *)
(* of products changes its form on the way.                                *)
(***************************************************************************)
EXTENDS Integers, FiniteSets, SequencesExt

CONSTANTS
  Messages,      \* the fields of every message: a record of records, by name
  LastField,     \* the highest field number
  Methods,       \* the request and the answer of every method, by name
  Undefined,     \* the JavaScript value of a message field that is not set
  Strings,       \* the strings that messages are filled with, "" and Comma among them
  PageNumbers,   \* the numbers the frontend's code puts into a request
  PeerNumbers,   \* the 64-bit numbers services put into an answer
  Int32Max,      \* stands for 2^31 - 1
  MaxSafe,       \* stands for Number.MAX_SAFE_INTEGER; MaxSafe + 1 = 2^k, k > 1
  Catalogue,     \* the identifiers of the products
  Spelling,      \* the characters of each of them
  IdLists        \* the lists of products pages ask recommendations for

(***************************************************************************)
(* The messages whose fields hold at most the given messages.  Those of    *)
(* the shop nest four deep.                                                *)
(***************************************************************************)
Nesting(names) ==
  {name \in DOMAIN Messages :
     \A f \in DOMAIN Messages[name] :
       Messages[name][f].kind = "message" => Messages[name][f].of \in names}

Comma == ","

ASSUME MessagesAssumption ==
  /\ LastField \in Nat
  /\ \A name \in DOMAIN Messages : \A f \in DOMAIN Messages[name] :
       /\ Messages[name][f].no \in 1..LastField
       /\ Messages[name][f].kind \in {"string", "bool", "int32", "int64", "message"}
       /\ Messages[name][f].many \in BOOLEAN
       /\ \A g \in DOMAIN Messages[name] :
            Messages[name][f].no = Messages[name][g].no => f = g
  /\ DOMAIN Messages = Nesting(Nesting(Nesting(Nesting({}))))
ASSUME MethodsAssumption ==
  /\ \A c \in DOMAIN Methods : {Methods[c].request, Methods[c].response} \subseteq DOMAIN Messages
  /\ {"addItem", "listRecommendations"} \subseteq DOMAIN Methods
ASSUME RecommendationsAssumption ==
  LET asked == Messages[Methods["listRecommendations"].request]
      given == Messages[Methods["listRecommendations"].response]
  IN  /\ DOMAIN asked = {"userId", "productIds"} /\ DOMAIN given = {"productIds"}
      /\ asked["userId"].kind = "string" /\ ~asked["userId"].many
      /\ asked["productIds"].kind = "string" /\ asked["productIds"].many
      /\ given["productIds"].kind = "string" /\ given["productIds"].many
ASSUME ValuesAssumption ==
  /\ Strings \subseteq STRING /\ {"", Comma} \subseteq Strings
  /\ Int32Max \in Nat /\ MaxSafe \in Nat /\ (MaxSafe + 1) % 4 = 0
  /\ PageNumbers \subseteq Int /\ PeerNumbers \subseteq Int
ASSUME CatalogueAssumption ==
  /\ IsFiniteSet(Catalogue) /\ Catalogue \subseteq STRING
  /\ Spelling \in [Catalogue -> Seq(STRING)]
  /\ IsInjective(Spelling)
  /\ \A p \in Catalogue : ~Contains(Spelling[p], Comma) /\ Spelling[p] # <<>>
  /\ IdLists \subseteq Seq(Catalogue)

VARIABLES
  method,   \* the method called
  phase,    \* how far the call is
  ids,      \* the products the page asked recommendations for
  message,  \* what was last handed to a protocol library
  wire,     \* what is on its way
  got       \* what was last read from the wire

vars == <<method, phase, ids, message, wire, got>>
-----------------------------------------------------------------------------
(***************************************************************************)
(* The protocol code of the messages at each depth of nesting.  The first  *)
(* has no messages inside, and never uses what it is given for them.       *)
(***************************************************************************)
Depth1 == INSTANCE MessageLayer WITH
  InnerEncode <- LAMBDA name, m : <<>>,  InnerDecode <- LAMBDA name, w : Undefined,
  InnerReadable <- LAMBDA name, w : TRUE, InnerNumbers <- LAMBDA name, m, kind : {},
  InnerToObject <- LAMBDA name, m, style : m, InnerFromObject <- LAMBDA name, o, styles : o,
  InnerOtherWires <- LAMBDA name, w : {}, InnerFull <- LAMBDA name : Undefined,
  InnerSamples <- LAMBDA name, int32s, int64s : {}, InnerIsMessage <- LAMBDA name, m : FALSE

Depth2 == INSTANCE MessageLayer WITH
  InnerEncode <- Depth1!Encode, InnerDecode <- Depth1!Decode,
  InnerReadable <- Depth1!Readable, InnerNumbers <- Depth1!NumbersIn,
  InnerToObject <- Depth1!ToObject, InnerFromObject <- Depth1!FromObject,
  InnerOtherWires <- Depth1!OtherWires, InnerFull <- Depth1!Full,
  InnerSamples <- Depth1!Samples, InnerIsMessage <- Depth1!IsMessage

Depth3 == INSTANCE MessageLayer WITH
  InnerEncode <- Depth2!Encode, InnerDecode <- Depth2!Decode,
  InnerReadable <- Depth2!Readable, InnerNumbers <- Depth2!NumbersIn,
  InnerToObject <- Depth2!ToObject, InnerFromObject <- Depth2!FromObject,
  InnerOtherWires <- Depth2!OtherWires, InnerFull <- Depth2!Full,
  InnerSamples <- Depth2!Samples, InnerIsMessage <- Depth2!IsMessage

Protocol == INSTANCE MessageLayer WITH
  InnerEncode <- Depth3!Encode, InnerDecode <- Depth3!Decode,
  InnerReadable <- Depth3!Readable, InnerNumbers <- Depth3!NumbersIn,
  InnerToObject <- Depth3!ToObject, InnerFromObject <- Depth3!FromObject,
  InnerOtherWires <- Depth3!OtherWires, InnerFull <- Depth3!Full,
  InnerSamples <- Depth3!Samples, InnerIsMessage <- Depth3!IsMessage

Int32s(S) == S \cap ((-Int32Max - 1)..Int32Max)

Requests ==
  [name \in {Methods[c].request : c \in DOMAIN Methods} |->
     Protocol!Samples(name, PageNumbers, {n \in PageNumbers : Protocol!Number(n) = n})]
Answers ==
  [name \in {Methods[c].response : c \in DOMAIN Methods} |->
     Protocol!Samples(name, Int32s(PageNumbers), PeerNumbers)]

-----------------------------------------------------------------------------
(***************************************************************************)
(* The list of products on its way to the recommendation service: the page *)
(* passes a list, URLSearchParams joins it with commas, the API route      *)
(* passes that one string on as if it were the list, so the request has    *)
(* its characters, and the service joins these and splits at the commas.   *)
(***************************************************************************)
Joined(list) ==
  FlattenSeq([i \in DOMAIN list |->
                IF i = 1 THEN Spelling[list[i]] ELSE <<Comma>> \o Spelling[list[i]]])

(* mutant: the service takes every character it gets for a product *)
Parts_characters(chars) == {<<chars[i]>> : i \in DOMAIN chars}

Ends(chars) == {0, Len(chars) + 1} \cup {i \in DOMAIN chars : chars[i] = Comma}

Neighbours(ends) ==
  {e \in ends \X ends : e[1] < e[2] /\ \A k \in ends : ~(e[1] < k /\ k < e[2])}

Parts(chars) == {SubSeq(chars, e[1] + 1, e[2] - 1) : e \in Neighbours(Ends(chars))}

MaxResponses == 5
Shown(list) == SubSeq(list, 1, IF Len(list) < 4 THEN Len(list) ELSE 4)

Recommended(chars) ==
  LET others == {p \in Catalogue : Spelling[p] \notin Parts(chars)}
      n == IF Cardinality(others) < MaxResponses THEN Cardinality(others)
           ELSE MaxResponses
  IN  {list \in [1..n -> others] : IsInjective(list)}
-----------------------------------------------------------------------------
Nothing == Undefined

Init ==
  /\ method = "addItem" /\ phase = "idle" /\ ids = <<>>
  /\ message = Nothing /\ wire = <<>> /\ got = Nothing

(***************************************************************************)
(* The gateway calls the client, which writes the request; a request it    *)
(* cannot write fails the call.                                            *)
(***************************************************************************)
Send(c, m) ==
  /\ method' = c
  /\ message' = m
  /\ IF Protocol!Writable(Methods[c].request, m)
       THEN phase' = "request" /\ wire' = Protocol!Encode(Methods[c].request, m)
       ELSE phase' = "unwritable" /\ UNCHANGED wire
  /\ UNCHANGED got

Call(c) ==
  /\ phase = "idle"
  /\ \E m \in Requests[Methods[c].request] : Send(c, m)
  /\ UNCHANGED ids

AskRecommendations ==
  /\ phase = "idle"
  /\ ids' \in IdLists
  /\ \E user \in Strings :
       Send("listRecommendations", [userId |-> user, productIds |-> Joined(ids')])

(***************************************************************************)
(* The service reads the request with its own library, which gives for     *)
(* what this frontend writes what Decode gives.                            *)
(***************************************************************************)
(* mutant: the method's two deserializers are mixed up *)
Serve_reads_an_answer ==
  /\ phase = "request"
  /\ phase' = "served"
  /\ got' = Protocol!Decode(Methods[method].response, wire)
  /\ wire' = <<>>
  /\ UNCHANGED <<method, ids, message>>

Serve ==
  /\ phase = "request"
  /\ phase' = "served"
  /\ got' = Protocol!Decode(Methods[method].request, wire)
  /\ wire' = <<>>
  /\ UNCHANGED <<method, ids, message>>

Refuse ==
  /\ phase = "served"
  /\ phase' = "refused"
  /\ message' = Nothing /\ got' = Nothing /\ ids' = <<>>
  /\ UNCHANGED <<method, wire>>

Answer ==
  /\ phase = "served" /\ method # "listRecommendations"
  /\ phase' = "answered"
  /\ message' \in Answers[Methods[method].response]
  /\ got' = Nothing
  /\ UNCHANGED <<method, ids, wire>>

Recommend ==
  /\ phase = "served" /\ method = "listRecommendations"
  /\ phase' = "answered"
  /\ \E list \in Recommended(got.productIds) : message' = [productIds |-> list]
  /\ got' = Nothing
  /\ UNCHANGED <<method, ids, wire>>

Reply ==
  /\ phase = "answered"
  /\ phase' = "reply"
  /\ LET name == Methods[method].response
         w == Protocol!Encode(name, message)
     IN  wire' \in {w} \cup Protocol!OtherWires(name, w)
  /\ UNCHANGED <<method, ids, message, got>>

(***************************************************************************)
(* The client reads the answer; what it cannot read fails the call.        *)
(***************************************************************************)
Deliver ==
  /\ phase = "reply"
  /\ LET name == Methods[method].response
     IN  IF Protocol!Readable(name, wire)
           THEN phase' = "done" /\ got' = Protocol!Decode(name, wire)
           ELSE phase' = "unreadable" /\ UNCHANGED got
  /\ wire' = <<>>
  /\ UNCHANGED <<method, ids, message>>

NextCall ==
  /\ phase \in {"done", "unwritable", "unreadable", "refused"}
  /\ phase' = "idle" /\ method' = "addItem"
  /\ ids' = <<>> /\ message' = Nothing /\ wire' = <<>> /\ got' = Nothing

Next ==
  \/ \E c \in DOMAIN Methods \ {"listRecommendations"} : Call(c)
  \/ AskRecommendations
  \/ Serve \/ Refuse \/ Answer \/ Recommend \/ Reply \/ Deliver
  \/ NextCall

Spec == Init /\ [][Next]_vars
-----------------------------------------------------------------------------
(***************************************************************************)
(* Type correctness: whatever the service or the client has read is a      *)
(* complete message of the method called (demo.ts, decode).                *)
(***************************************************************************)
TypeOK ==
  /\ method \in DOMAIN Methods
  /\ phase \in {"idle", "request", "served", "answered", "reply", "done",
                "unwritable", "unreadable", "refused"}
  /\ phase = "served" => Protocol!IsMessage(Methods[method].request, got)
  /\ phase = "done" => Protocol!IsMessage(Methods[method].response, got)

(***************************************************************************)
(* A service reads the request the frontend's code passed to the client,   *)
(* field by field, whatever is left out on the wire because it has its     *)
(* default value (demo.ts, encode and decode).                             *)
(***************************************************************************)
RequestKept == phase = "served" => got = message

(***************************************************************************)
(* A call that succeeds gives the page the answer the service sent, to the *)
(* last digit, in whatever order the service writes its fields and         *)
(* whatever fields a newer service adds: an amount JavaScript would have   *)
(* to round fails the call instead (demo.ts, decode and longToNumber).     *)
(***************************************************************************)
AnswerKept == phase = "done" => got = message

(***************************************************************************)
(* The protocol code fails a call only for a number it cannot carry: it    *)
(* never turns down an answer because of its order or of a new field.      *)
(***************************************************************************)
FailsForItsNumbers ==
  /\ phase = "unwritable" =>
       \E n \in Protocol!NumbersIn(Methods[method].request, message, "int32") :
          n > Int32Max \/ n < -Int32Max - 1
  /\ phase = "unreadable" =>
       \E n \in Protocol!NumbersIn(Methods[method].response, message, "int64") :
          n > MaxSafe \/ n < -MaxSafe

(***************************************************************************)
(* The JSON form of an answer gives the answer back, in either case of its *)
(* keys, and so does its partial form, with the defaults left out          *)
(* (demo.ts, toJSON, fromJSON and fromPartial).                            *)
(***************************************************************************)
JsonRestores ==
  phase = "done" =>
    LET name == Methods[method].response
    IN  /\ \A style \in {"camel", "snake"} :
             Protocol!FromJson(name, Protocol!ToObject(name, got, style)) = got
        /\ Protocol!FromPartial(name, Protocol!ToObject(name, got, "camel")) = got

(***************************************************************************)
(* A page that asks for recommendations is shown four products, or all     *)
(* that are left, none twice and none of those it passed, though the list  *)
(* travels as single characters (pages/api/recommendations.ts,             *)
(* recommendation_server.py).                                              *)
(***************************************************************************)
RecommendsOthers ==
  phase = "done" /\ method = "listRecommendations" =>
    LET shown == Shown(got.productIds)
        others == Catalogue \ ToSet(ids)
    IN  /\ ToSet(shown) \subseteq others
        /\ IsInjective(shown)
        /\ Len(shown) = 4 \/ ToSet(shown) = others
=============================================================================
