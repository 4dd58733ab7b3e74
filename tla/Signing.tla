------------------------------ MODULE Signing ------------------------------
(***************************************************************************)
(* signing.py: which algorithm a key and the flags of a request choose,    *)
(* and what a signature looks like on the wire.  Signatures themselves are *)
(* the cryptography library's.                                             *)
(***************************************************************************)
EXTENDS AgentProto

CONSTANTS
    Utf8(_),          \* the bytes of an algorithm's name
    Signature(_, _),  \* what the library makes of data with an algorithm
    Numbers(_),       \* the r and s of its ECDSA signature of data
    MaxBits           \* the bits that such numbers may have

-----------------------------------------------------------------------------
\* Algorithms

Bit(flags, b) == (flags \div b) % 2 = 1

\* curve_map of _ecdsa_algorithm.
CurveMap == [secp256r1 |-> "ecdsa-sha2-nistp256",
             secp384r1 |-> "ecdsa-sha2-nistp384",
             secp521r1 |-> "ecdsa-sha2-nistp521"]

RsaAlgorithm(flags) ==
    IF Bit(flags, 4) THEN "rsa-sha2-512"
    ELSE IF Bit(flags, 2) THEN "rsa-sha2-256" ELSE "ssh-rsa"

Algorithm(kind, flags) ==
    IF kind \in DOMAIN CurveMap THEN CurveMap[kind]
    ELSE IF kind = "rsa" THEN RsaAlgorithm(flags) ELSE "ssh-ed25519"

-----------------------------------------------------------------------------
\* Numbers

\* n without its k lowest bits.
ShiftRight(n, k) ==
    LET shifted[j \in 0..k] == IF j = 0 THEN n ELSE shifted[j - 1] \div 2
    IN  shifted[k]

BitLength(n) == CHOOSE k \in 0..MaxBits :
    ShiftRight(n, k) = 0 /\ \A j \in 0..(k - 1) : ShiftRight(n, j) # 0

\* int.to_bytes
ToBytes(n, length) == [i \in 1..length |-> ShiftRight(n, 8 * (length - i)) % 256]

\* Mutant: the minimal length of an unsigned number.
MpintUnsigned(n) == IF n = 0 THEN <<>> ELSE ToBytes(n, (BitLength(n) + 7) \div 8)

\* The byte length leaves room for a sign bit.
Mpint(n) == IF n = 0 THEN <<>> ELSE ToBytes(n, (BitLength(n) + 8) \div 8)

\* An mpint as RFC 4251 has it: two's complement, and no byte more than needed;
\* -1 stands for what is not the mpint of a natural number.
Number(b) ==
    LET value[i \in 0..Len(b)] == IF i = 0 THEN 0 ELSE 256 * value[i - 1] + b[i]
    IN  IF \/ Len(b) > 0 /\ b[1] >= 128
           \/ Len(b) > 0 /\ b[1] = 0 /\ (Len(b) = 1 \/ b[2] < 128)
          THEN -1
          ELSE value[Len(b)]

-----------------------------------------------------------------------------
\* Signatures

\* sign_data; sign_ecdsa packs the two numbers.
SignData(kind, data, flags) ==
    IF kind \in DOMAIN CurveMap
      THEN PackString(Mpint(Numbers(data)[1])) \o PackString(Mpint(Numbers(data)[2]))
      ELSE Signature(Algorithm(kind, flags), data)

\* build_signature_blob
SignatureBlob(kind, data, flags) ==
    PackString(Utf8(Algorithm(kind, flags))) \o PackString(SignData(kind, data, flags))
=============================================================================
