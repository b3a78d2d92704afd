--------------------------- MODULE CanSignalCodec ---------------------------
(***************************************************************************)
(* The DBC signal codec of can_network/dbc_service.py, as operators.  A    *)
(* payload is the set of its bits that are one, a message a set of signals *)
(* and a physical value a multiple of the resolution of its factor.        *)
(***************************************************************************)
EXTENDS Integers, FiniteSets, FiniteSetsExt

Signal(name, order, start, length, signed, factor, offset) ==
    [name |-> name, order |-> order, start |-> start, length |-> length,
     signed |-> signed, factor |-> factor, offset |-> offset]

\* Bits of the payload from index 1 on: Intel upwards from the least
\* significant bit, Motorola sawtooth from the most significant one.
BitPositions(s) ==
    LET sawtooth[i \in 1..s.length] ==
          IF i = 1 THEN s.start
          ELSE IF sawtooth[i - 1] % 8 = 0 THEN sawtooth[i - 1] + 15 ELSE sawtooth[i - 1] - 1
    IN  IF s.order = "intel" THEN [i \in 1..s.length |-> s.start + i - 1] ELSE sawtooth

Occupied(s) == {BitPositions(s)[i] : i \in 1..s.length}
\* Weight of the bit at index i.
Weight(s, i) == 2 ^ (IF s.order = "intel" THEN i - 1 ELSE s.length - i)

ValidMessage(message, dlc) ==
    /\ \A s \in message : \A p \in Occupied(s) : p < 8 * dlc
    /\ \A s, t \in message : s # t => Occupied(s) \cap Occupied(t) = {}

RawRange(s) ==
    IF s.signed THEN -(2 ^ (s.length - 1))..2 ^ (s.length - 1) - 1 ELSE 0..2 ^ s.length - 1

\* A physical value outside of the raw range or between two raws is refused.
Representable(s, physical) ==
    /\ (physical - s.offset) % s.factor = 0
    /\ (physical - s.offset) \div s.factor \in RawRange(s)
ToRaw(s, physical) == (physical - s.offset) \div s.factor

WriteRaw(s, raw) ==
    {BitPositions(s)[i] : i \in {j \in 1..s.length :
        ((raw % 2 ^ s.length) \div Weight(s, j)) % 2 = 1}}

\* Faulty variant: the smallest raw value is read as unsigned.
ReadRawBelow(payload, s) ==
    LET ones == {i \in 1..s.length : BitPositions(s)[i] \in payload}
        encoded == MapThenSumSet(LAMBDA i : Weight(s, i), ones)
    IN  IF s.signed /\ encoded > 2 ^ (s.length - 1) THEN encoded - 2 ^ s.length ELSE encoded

ReadRaw(payload, s) ==
    LET ones == {i \in 1..s.length : BitPositions(s)[i] \in payload}
        encoded == MapThenSumSet(LAMBDA i : Weight(s, i), ones)
    IN  IF s.signed /\ encoded >= 2 ^ (s.length - 1) THEN encoded - 2 ^ s.length ELSE encoded

EncodeMessage(message, values) ==
    UNION {WriteRaw(s, ToRaw(s, values[s.name])) : s \in message}

DecodeMessage(message, payload) ==
    [n \in {s.name : s \in message} |->
       LET s == CHOOSE t \in message : t.name = n
       IN  ReadRaw(payload, s) * s.factor + s.offset]
=============================================================================
