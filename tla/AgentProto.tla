----------------------------- MODULE AgentProto -----------------------------
(***************************************************************************)
(* agent_proto.py: numbers, strings and frames as sequences of bytes.      *)
(***************************************************************************)
EXTENDS Integers, Sequences

Byte == 0..255

PackUint32(n) == << n \div 16777216, (n \div 65536) % 256, (n \div 256) % 256, n % 256 >>

\* Lengths that TLC's integers cannot hold are not among the inputs.
Uint32At(data, offset) ==
    16777216 * data[offset + 1] + 65536 * data[offset + 2]
        + 256 * data[offset + 3] + data[offset + 4]

PackString(data) == PackUint32(Len(data)) \o data

Malformed == [ok |-> FALSE, value |-> <<>>, next |-> 0]

\* unpack_string raises struct.error when there is no length, and ValueError when
\* the string goes past the end.
UnpackString(data, offset) ==
    IF offset + 4 > Len(data)
      THEN Malformed
      ELSE LET end == offset + 4 + Uint32At(data, offset)
           IN  IF end > Len(data)
                 THEN Malformed
                 ELSE [ok |-> TRUE, value |-> SubSeq(data, offset + 5, end), next |-> end]

\* Mutant: the type is not counted.
FrameOfPayload(type, payload) == PackUint32(Len(payload)) \o <<type>> \o payload

\* write_message.
Frame(type, payload) == PackUint32(1 + Len(payload)) \o <<type>> \o payload
=============================================================================
