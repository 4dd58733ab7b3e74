------------------------------- MODULE MCWire -------------------------------
(* Small instances of Wire for TLC. *)
EXTENDS Wire

MCKeyList == << [blob |-> <<1>>, comment |-> <<65, 66>>, kind |-> "ed25519"],
                [blob |-> <<2>>, comment |-> <<>>, kind |-> "rsa"],
                [blob |-> <<3, 0>>, comment |-> <<67>>, kind |-> "secp521r1"],
                [blob |-> <<4>>, comment |-> <<68>>, kind |-> "unsupported"] >>

Sign(blob, data, flag, rest) ==
    [kind |-> "sign", blob |-> blob, data |-> data, flags |-> <<0, 1, 0, flag>>, rest |-> rest]
Plain(kind, rest) ==
    [kind |-> kind, blob |-> <<>>, data |-> <<>>, flags |-> <<0, 0, 0, 0>>, rest |-> rest]

\* A request for the first key without its type: cut at every place, and with a
\* blob and data that say they are longer than they are.
Whole == PackString(<<1>>) \o PackString(<<9>>) \o <<0, 0, 0, 0>>
MCMalformed ==
    {SubSeq(Whole, 1, n) : n \in 0..(Len(Whole) - 1)}
    \cup {[Whole EXCEPT ![4] = 11], [Whole EXCEPT ![9] = 2]}

MCMessages ==
    {Sign(<<2>>, <<9>>, f, <<>>) : f \in {0, 1, 2, 4, 6, 250}}
    \cup {Sign(<<1>>, <<0, 255>>, 0, rest) : rest \in {<<>>, <<0>>}}
    \cup {Sign(b, <<>>, 2, <<>>) : b \in {<<4>>, <<5>>, <<>>}}
    \cup {Sign(<<3, 0>>, <<i>>, 0, <<>>) : i \in 1..6}
    \cup {Plain("malformed", rest) : rest \in MCMalformed}
    \cup {Plain("identities", <<>>), Plain("identities", <<7>>),
          Plain("other", <<17, 1>>), Plain("empty", <<>>)}

MCUtf8(name) == << CHOOSE i \in 1..7 :
    <<"ssh-ed25519", "ecdsa-sha2-nistp256", "ecdsa-sha2-nistp384", "ecdsa-sha2-nistp521",
      "rsa-sha2-512", "rsa-sha2-256", "ssh-rsa">>[i] = name >>

MCSignature(name, data) == MCUtf8(name) \o data

\* Around the sign bit of one to four bytes.
Edges == << <<1, 127>>, <<128, 255>>, <<256, 32767>>, <<32768, 65535>>,
            <<8388607, 8388608>>, <<16777215, 2147483647>> >>

MCNumbers(data) == IF Len(data) = 1 /\ data[1] \in 1..6 THEN Edges[data[1]] ELSE <<0, 0>>
=============================================================================
