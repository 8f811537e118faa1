---------------------------- MODULE SignalCodec -----------------------------
(***************************************************************************)
(* The pure part of a message: how signals become bytes                    *)
(* (core/serialization/codec.py), how the E2E trailer protects them        *)
(* (core/validation/e2e.py) and how the SOME/IP header frames them         *)
(* (protocols/someip/header.py).                                           *)
(*                                                                         *)
(* A byte is a number below 256 and a message a sequence of bytes.  A      *)
(* physical value, a scale and an offset are integers counting one common  *)
(* small unit: the code's floats are taken as exact.                       *)
(***************************************************************************)
EXTENDS Integers, Sequences

Byte == 0..255
-----------------------------------------------------------------------------
(* codec.py                                                                *)

Type == {"u8", "i8", "u16", "i16", "u32", "i32"}
SizeOf(t) == IF t \in {"u8", "i8"} THEN 1 ELSE IF t \in {"u16", "i16"} THEN 2 ELSE 4
Span(t)   == IF SizeOf(t) = 1 THEN 256 ELSE IF SizeOf(t) = 2 THEN 65536 ELSE 65536 * 65536
Lo(t) == IF t \in {"i8", "i16", "i32"} THEN -(Span(t) \div 2) ELSE 0
Hi(t) == Lo(t) + Span(t) - 1
UShort == 0 .. (Span("u16") - 1)

\* Mutant: the fraction is cut off, as int() alone does.
Truncate(n, d) ==
    LET m == IF d < 0 THEN -n ELSE n
        e == IF d < 0 THEN -d ELSE d
    IN  IF m < 0 THEN -((-m) \div e) ELSE m \div e

\* round(n / d): the nearest integer, a tie goes to the even one.
Round(n, d) ==
    LET m == IF d < 0 THEN -n ELSE n
        e == IF d < 0 THEN -d ELSE d
        q == m \div e
        r == m % e
        up == 2 * r > e \/ (2 * r = e /\ q % 2 = 1)
    IN  IF up THEN q + 1 ELSE q

Clamp(n, lo, hi) == IF n < lo THEN lo ELSE IF n > hi THEN hi ELSE n

\* A signal as Catalog.validate leaves it.
IsSignal(s) == /\ s.type \in Type /\ s.scale \in Int \ {0}
               /\ s.offset \in Int /\ s.default \in Int

\* The number that stands for a physical value of signal s, and back.
Raw(s, phys) == Clamp(Round(phys - s.offset, s.scale), Lo(s.type), Hi(s.type))
Phys(s, raw) == raw * s.scale + s.offset

\* v is a value signal s can carry, and neither of the two next to it is
\* nearer to the value asked for.
Distance(v, w) == IF v < w THEN w - v ELSE v - w
Nearest(s, v, wanted) ==
    \E raw \in Lo(s.type)..Hi(s.type) :
        /\ v = Phys(s, raw)
        /\ \A near \in {raw - 1, raw + 1} \cap (Lo(s.type)..Hi(s.type)) :
              Distance(v, wanted) <= Distance(Phys(s, near), wanted)

\* n bytes of a number, the most significant one first.
BigEndian(u, n) ==
    LET a == u \div 256
        b == a \div 256
        c == b \div 256
    IN  IF n = 1 THEN <<u>> ELSE IF n = 2 THEN <<a, u % 256>>
        ELSE <<c, b % 256, a % 256, u % 256>>
Number(b) ==
    IF Len(b) = 1 THEN b[1] ELSE IF Len(b) = 2 THEN 256 * b[1] + b[2]
    ELSE 256 * (256 * (256 * b[1] + b[2]) + b[3]) + b[4]

\* A number cut to sixteen bits.
Short(u) == BigEndian(u % 65536, 2)

\* struct.pack and struct.unpack: two's complement for the signed types.
Pack(t, raw) == BigEndian(IF raw < 0 THEN raw + Span(t) ELSE raw, SizeOf(t))

\* Mutant: a signed type is read like an unsigned one.
UnpackUnsigned(t, b) == Number(b)

Unpack(t, b) == LET u == Number(b) IN IF u > Hi(t) THEN u - Span(t) ELSE u

\* values.get(s.name, s.default)
ValueOf(values, s) == IF s.name \in DOMAIN values THEN values[s.name] ELSE s.default

Packed(s, values) == Pack(s.type, Raw(s, ValueOf(values, s)))

\* out after the first n signals.
encode(sigs, values) ==
    LET out[n \in 0..Len(sigs)] ==
            IF n = 0 THEN <<>> ELSE out[n - 1] \o Packed(sigs[n], values)
    IN  out[Len(sigs)]

\* off after the first n signals.
offsets(sigs) ==
    LET off[n \in 0..Len(sigs)] ==
            IF n = 0 THEN 0 ELSE off[n - 1] + SizeOf(sigs[n].type)
    IN  off

encoded_size(sigs) == offsets(sigs)[Len(sigs)]

\* decode raises on a payload that is too short and ignores what is left over.
CanDecode(sigs, payload) == encoded_size(sigs) <= Len(payload)

Field(sigs, payload, i) == SubSeq(payload, offsets(sigs)[i - 1] + 1, offsets(sigs)[i])

\* A name that occurs twice keeps the value of its last occurrence.
decode(sigs, payload) ==
    [n \in {sigs[i].name : i \in DOMAIN sigs} |->
        LET last == CHOOSE i \in DOMAIN sigs :
                        /\ sigs[i].name = n
                        /\ \A j \in DOMAIN sigs : sigs[j].name = n => j <= i
        IN  Phys(sigs[last], Unpack(sigs[last].type, Field(sigs, payload, last)))]
-----------------------------------------------------------------------------
(* e2e.py                                                                  *)

\* The bits of a message and of the register, the most significant one first.
Weight == <<128, 64, 32, 16, 8, 4, 2, 1>>
BitOf(data, n) == (data[((n - 1) \div 8) + 1] \div Weight[((n - 1) % 8) + 1]) % 2
Octet(bits) == 128 * bits[1] + 64 * bits[2] + 32 * bits[3] + 16 * bits[4]
                  + 8 * bits[5] + 4 * bits[6] + 2 * bits[7] + bits[8]

\* One turn of the inner loop: the register is shifted, and 0x1021 is added
\* when the bit that leaves it differs from the bit of the data.
Shift(crc, bit) ==
    [k \in 1..16 |->
        LET below == IF k = 16 THEN 0 ELSE crc[k + 1]
        IN  IF k \in {4, 11, 16} THEN (below + crc[1] + bit) % 2 ELSE below]

\* crc after the first n bits of the data.
registers(data) ==
    LET crc[n \in 0..(8 * Len(data))] ==
            IF n = 0 THEN [k \in 1..16 |-> 1] ELSE Shift(crc[n - 1], BitOf(data, n))
    IN  crc

crc16_ccitt_false(data) == registers(data)[8 * Len(data)]

CrcBytes(data) ==
    LET crc == crc16_ccitt_false(data)
    IN  <<Octet([k \in 1..8 |-> crc[k]]), Octet([k \in 1..8 |-> crc[8 + k]])>>

\* The CRC covers the payload and the counter.
wrap(payload, counter) == LET data == payload \o Short(counter)
                          IN  data \o CrcBytes(data)

\* unwrap raises unless Intact; then it returns Core and Counter.
Intact(payload) ==
    /\ Len(payload) >= 4
    /\ LET n == Len(payload)
       IN  CrcBytes(SubSeq(payload, 1, n - 2)) = SubSeq(payload, n - 1, n)
Core(payload)    == SubSeq(payload, 1, Len(payload) - 4)
Counter(payload) == Number(SubSeq(payload, Len(payload) - 3, Len(payload) - 2))
-----------------------------------------------------------------------------
(* header.py                                                               *)

HDR_SIZE == 16

\* The fields of the header, all but the length and the protocol version; they
\* are cut to their widths.
build_message(h, payload) ==
       Short(h.service) \o Short(h.method) \o BigEndian(8 + Len(payload), 4)
    \o Short(h.client) \o Short(h.session)
    \o <<1, h.iface % 256, h.type % 256, h.code % 256>> \o payload

LengthField(b) == Number(SubSeq(b, 5, 8))

unpack(b) == [service |-> Number(SubSeq(b, 1, 2)), method  |-> Number(SubSeq(b, 3, 4)),
              client  |-> Number(SubSeq(b, 9, 10)), session |-> Number(SubSeq(b, 11, 12)),
              iface   |-> b[14], type |-> b[15], code |-> b[16]]

Payload(b) == SubSeq(b, HDR_SIZE + 1, Len(b))
=============================================================================
