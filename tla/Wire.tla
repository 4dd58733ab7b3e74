-------------------------------- MODULE Wire --------------------------------
(***************************************************************************)
(* The bytes of an agent connection: the reader of frames (agent_proto.py),*)
(* the agent's requests and answers (handle_client of daemon.py) and the   *)
(* encoding of signatures (signing.py).  Whether a key is there and may be *)
(* used is AgentServer's; here every request is authorized at once.        *)
(***************************************************************************)
EXTENDS Signing

CONSTANTS
    KeyList,     \* the registry: a sequence of records [blob, comment, kind]
    Messages,    \* what a client may send
    MaxRequests  \* how many of them it sends

VARIABLES
    requests,  \* the messages the client has sent,
    stream,    \* the bytes of them,
    ends,      \* where in those each message ends,
    arrived,   \* and how many of them have come
    taken,     \* how many bytes the reader has taken
    need,      \* the length of the body it waits for, or -1
    replies,   \* the frames the client was sent
    eof,       \* the client has closed its side
    open       \* the handler runs

clientVars == <<requests, stream, ends>>
wireVars == <<clientVars, arrived, taken, need, replies, eof, open>>

-----------------------------------------------------------------------------
\* The answers of handle_client.

Failure == Frame(5, <<>>)

\* The response as the loop over the identities appends to it.
packed[i \in 0..Len(KeyList)] ==
    IF i = 0 THEN PackUint32(Len(KeyList))
    ELSE packed[i - 1] \o (PackString(KeyList[i].blob) \o PackString(KeyList[i].comment))

IdentitiesAnswer == Frame(12, packed[Len(KeyList)])

\* The registry has at most one key under a blob.
KeysUnder(blob) == {i \in 1..Len(KeyList) : KeyList[i].blob = blob}
Unsupported(i) == KeyList[i].kind = "unsupported"

\* _handle_sign_request; what follows the flags is not looked at.
SignAnswer(payload) ==
    LET blob == UnpackString(payload, 0)
        data == UnpackString(payload, blob.next)
        key == CHOOSE i \in KeysUnder(blob.value) : TRUE
    IN  IF \/ ~blob.ok \/ ~data.ok \/ data.next + 4 > Len(payload)
           \/ KeysUnder(blob.value) = {} \/ Unsupported(key)
          THEN Failure
          ELSE Frame(14, PackString(SignatureBlob(
                   KeyList[key].kind, data.value, Uint32At(payload, data.next))))

Answer(type, payload) ==
    IF type = 11 THEN IdentitiesAnswer
    ELSE IF type = 13 THEN SignAnswer(payload) ELSE Failure

-----------------------------------------------------------------------------
\* The client: what it sends, and how it reads what it is sent.

\* A message is [kind, blob, data, flags, rest], flags four bytes.  A sign request
\* is its parts and anything after them; a "malformed" one is the bytes after its
\* type, which do not hold all the parts.  Anything may follow the type of a
\* request for the identities; "other" is any other body, and "empty" none.
SignBody(m) ==
    (((<<13>> \o PackString(m.blob)) \o PackString(m.data)) \o m.flags) \o m.rest

Body(m) ==
    IF m.kind = "sign" THEN SignBody(m)
    ELSE IF m.kind = "malformed" THEN <<13>> \o m.rest
    ELSE IF m.kind = "identities" THEN <<11>> \o m.rest ELSE m.rest

\* Big-endian, and the string that begins at a place.
NumberAt(b, at) == 256 * (256 * (256 * b[at + 1] + b[at + 2]) + b[at + 3]) + b[at + 4]
EndOf(b, at) == at + 4 + NumberAt(b, at)
StringAt(b, at) == SubSeq(b, at + 5, EndOf(b, at))

\* The parts of a sign request are all there: two strings, and the flags.
Complete(b) == \E blob, data \in 0..Len(b) :
    /\ blob + data + 12 <= Len(b)
    /\ NumberAt(b, 0) = blob /\ NumberAt(b, 4 + blob) = data

\* Where the k-th of the strings that follow each other ends.
EndOfStrings(b, at, k) ==
    LET end[j \in 0..k] == IF j = 0 THEN at ELSE EndOf(b, end[j - 1])
    IN  end[k]

-----------------------------------------------------------------------------
(* What the modules rely on: bytes are bytes, lengths have four of them (a    *)
(* message is its strings and at most 13 bytes more), the kind of a message   *)
(* is what it is, and signatures have the sizes they have (the order of       *)
(* secp521r1 has 521 bits).  Any body there is, is that of one of the kinds.  *)

Fits(n) == n \in Nat /\ n \div 16777216 < 256

KeyListAssumption ==
    /\ KeyList \in Seq([blob : Seq(Byte), comment : Seq(Byte),
                        kind : {"ed25519", "rsa", "unsupported"} \cup DOMAIN CurveMap])
    /\ \A i, j \in 1..Len(KeyList) : KeyList[i].blob = KeyList[j].blob => i = j
    /\ \A i \in 1..Len(KeyList) :
          Fits(Len(KeyList[i].blob)) /\ Fits(Len(KeyList[i].comment))
    /\ Fits(Len(KeyList)) /\ Fits(1 + Len(packed[Len(KeyList)]))

AlgorithmNames ==
    {CurveMap[c] : c \in DOMAIN CurveMap}
        \cup {"ssh-ed25519", "rsa-sha2-512", "rsa-sha2-256", "ssh-rsa"}

MessageAssumption == \A m \in Messages :
    /\ m \in [kind : {"identities", "sign", "malformed", "other", "empty"},
              blob : Seq(Byte), data : Seq(Byte), flags : Seq(Byte), rest : Seq(Byte)]
    /\ Len(m.flags) = 4
    /\ Fits(Len(m.blob) + Len(m.data) + Len(m.rest) + 13)
    /\ m.kind = "malformed" => ~Complete(m.rest)
    /\ m.kind = "other" => m.rest # <<>> /\ m.rest[1] \notin {11, 13}
    /\ m.kind = "empty" => m.rest = <<>>

SigningAssumption == MaxBits \in 0..521 /\ \A name \in AlgorithmNames :
    /\ Utf8(name) \in Seq(Byte) /\ Len(Utf8(name)) < 100
    /\ \A m \in Messages :
          /\ Signature(name, m.data) \in Seq(Byte)
          /\ Len(Signature(name, m.data)) < 65536
          /\ Numbers(m.data) \in Nat \X Nat
          /\ \A i \in {1, 2} : ShiftRight(Numbers(m.data)[i], MaxBits) = 0

ASSUME WireAssumption ==
    KeyListAssumption /\ MessageAssumption /\ SigningAssumption /\ MaxRequests \in Nat

-----------------------------------------------------------------------------
Init ==
    /\ requests = <<>> /\ stream = <<>> /\ ends = <<>>
    /\ arrived = 0 /\ taken = 0 /\ need = -1
    /\ replies = <<>>
    /\ eof = FALSE /\ open = TRUE

\* A frame is its body as a string.
ClientSends ==
    /\ ~eof /\ Len(requests) < MaxRequests
    /\ \E m \in Messages :
          /\ requests' = Append(requests, m)
          /\ stream' = stream \o PackString(Body(m))
          /\ ends' = Append(ends, Len(stream'))
    /\ UNCHANGED <<arrived, taken, need, replies, eof, open>>

\* Bytes come in chunks of any size.
Arrive ==
    /\ ~eof
    /\ arrived' \in (arrived + 1)..Len(stream)
    /\ UNCHANGED <<clientVars, taken, need, replies, eof, open>>

ClientCloses ==
    /\ ~eof
    /\ eof' = TRUE
    /\ UNCHANGED <<clientVars, arrived, taken, need, replies, open>>

\* read_message reads the length, ...
ReadLength ==
    /\ open /\ need = -1 /\ arrived - taken >= 4
    /\ need' = Uint32At(stream, taken)
    /\ taken' = taken + 4
    /\ UNCHANGED <<clientVars, arrived, replies, eof, open>>

\* Mutant: the type byte does not count.
BodyEndShort == taken + need + 1

BodyEnd == taken + need

\* ... then the body, and handle_client answers it; when the client is gone the
\* answer may not be written, which ends the handler.
ReadBody ==
    /\ open /\ need > 0 /\ arrived >= BodyEnd
    /\ LET body == SubSeq(stream, taken + 1, BodyEnd)
       IN  \/ /\ replies' = Append(replies, Answer(body[1], SubSeq(body, 2, Len(body))))
              /\ open' = open
           \/ eof /\ open' = FALSE /\ replies' = replies
    /\ taken' = BodyEnd
    /\ need' = -1
    /\ UNCHANGED <<clientVars, arrived, eof>>

\* Mutant: a body needs a payload, too.
ReadEmptyPayload ==
    /\ open /\ need \in {0, 1}
    /\ open' = FALSE
    /\ UNCHANGED <<clientVars, arrived, taken, need, replies, eof>>

\* A body of no bytes has no type: the IndexError ends the handler, and the
\* connection with it.
ReadNothing ==
    /\ open /\ need = 0
    /\ open' = FALSE
    /\ UNCHANGED <<clientVars, arrived, taken, need, replies, eof>>

\* IncompleteReadError.
ReadFails ==
    /\ open /\ eof
    /\ arrived - taken < IF need = -1 THEN 4 ELSE need
    /\ open' = FALSE
    /\ UNCHANGED <<clientVars, arrived, taken, need, replies, eof>>

ServerStep == ReadLength \/ ReadBody \/ ReadNothing \/ ReadFails

Next == ClientSends \/ Arrive \/ ClientCloses \/ ServerStep

Spec == Init /\ [][Next]_wireVars

-----------------------------------------------------------------------------
(* Properties *)

\* Numbers are in their ranges, and each reply is one frame, of the length it
\* says.
TypeOK ==
    /\ requests \in Seq(Messages) /\ stream \in Seq(Byte)
    /\ ends \in Seq(Nat) /\ Len(ends) = Len(requests)
    /\ arrived \in 0..Len(stream) /\ taken \in 0..arrived
    /\ need \in Nat \cup {-1}
    /\ eof \in BOOLEAN /\ open \in BOOLEAN
    /\ replies \in Seq(Seq(Byte))
    /\ \A i \in 1..Len(replies) : Len(replies[i]) = EndOf(replies[i], 0)

\* Where the i-th message of the client ends.
EndOfRequest(i) == IF i = 0 THEN 0 ELSE ends[i]

\* The reader is always between two frames or within one, however the stream was
\* cut: what it has taken is what the requests it has answered came in.
InStep ==
    open => /\ Len(replies) <= Len(requests)
            /\ taken = (IF need = -1 THEN 0 ELSE 4) + EndOfRequest(Len(replies))

\* The algorithm that a client asks for which sends flags: the bits of their last
\* byte that are worth 4 and 2 say which.
Asked(kind, flags) ==
    IF kind = "rsa" THEN IF flags[4] % 8 >= 4 THEN "rsa-sha2-512"
                         ELSE IF flags[4] % 4 >= 2 THEN "rsa-sha2-256" ELSE "ssh-rsa"
    ELSE Algorithm(kind, 0)

\* The strings of the answer, after its type and the count, are the keys.
ListsKeys(reply) ==
    /\ reply[5] = 12 /\ NumberAt(reply, 5) = Len(KeyList)
    /\ EndOfStrings(reply, 9, 2 * Len(KeyList)) = Len(reply)
    /\ \A i \in 1..Len(KeyList) :
          /\ StringAt(reply, EndOfStrings(reply, 9, 2 * i - 2)) = KeyList[i].blob
          /\ StringAt(reply, EndOfStrings(reply, 9, 2 * i - 1)) = KeyList[i].comment

\* At a place is a signature of the data by a key of this kind.
SignatureAt(reply, at, kind, name, data) ==
    IF kind \in DOMAIN CurveMap
      THEN /\ Number(StringAt(reply, at + 4)) = Numbers(data)[1]
           /\ Number(StringAt(reply, EndOf(reply, at + 4))) = Numbers(data)[2]
           /\ EndOfStrings(reply, at + 4, 2) = EndOf(reply, at)
      ELSE StringAt(reply, at) = Signature(name, data)

\* One string, with those of the algorithm and of the signature in it.
SignsWith(reply, kind, name, data) ==
    /\ reply[5] = 14 /\ EndOf(reply, 5) = Len(reply)
    /\ StringAt(reply, 9) = Utf8(name)
    /\ SignatureAt(reply, EndOf(reply, 9), kind, name, data)
    /\ EndOfStrings(reply, 9, 2) = Len(reply)

Fails(reply) == reply[5] = 5 /\ Len(reply) = 5

\* What the protocol says the reply to m is, read as a client reads it: the list
\* of keys; a signature with the algorithm the flags ask for, whose numbers are
\* those of the signature; and otherwise a failure.
Answers(m, reply) ==
    \/ m.kind = "identities" /\ ListsKeys(reply)
    \/ /\ m.kind = "sign"
       /\ \E i \in KeysUnder(m.blob) :
             LET kind == KeyList[i].kind
             IN  ~Unsupported(i) /\ SignsWith(reply, kind, Asked(kind, m.flags), m.data)
    \/ /\ \/ m.kind \in {"other", "malformed"}
          \/ m.kind = "sign" /\ \A i \in KeysUnder(m.blob) : Unsupported(i)
       /\ Fails(reply)

\* The replies are those the protocol asks for, to the requests in their order.
Understood ==
    \A i \in 1..Len(replies) : i <= Len(requests) /\ Answers(requests[i], replies[i])

\* The handler ends only when its client has closed, or at a frame of length
\* zero: no other body, whatever bytes it is of, costs the client its connection.
ClosesForCause ==
    ~open => \/ eof
             \/ /\ Len(replies) < Len(requests)
                /\ requests[Len(replies) + 1].kind = "empty"
=============================================================================
