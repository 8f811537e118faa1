-------------------------------- MODULE SdWire --------------------------------
(***************************************************************************)
(* The SOME/IP-SD datagrams of core/service/discovery.py: what             *)
(* build_sd_message writes and what parse_sd_message makes of the bytes    *)
(* that fit into the receive buffer.                                       *)
(*                                                                         *)
(* The options of all entries are in one array at the end of the datagram; *)
(* an entry names its own by the index of the first one, in eight bits,    *)
(* and their number, in four.  The datagram grows by an entry or an option *)
(* at a time, so every state is a message that some program may send.      *)
(***************************************************************************)
EXTENDS Integers, Sequences

CONSTANTS Option,        \* the kinds of options
          Known,         \* IPv4 endpoints (udp, tcp) and multicast; a peer's
                         \* other options are not understood
          OptionSize,    \* the bytes of an option of each kind
          EntryHead,     \* the entries without their options
          ServiceTypes,  \* FindService, OfferService
          GroupTypes,    \* SubscribeEventgroup, SubscribeEventgroupAck
          NibbleMod, IndexMod, IdMod, WordMod,   \* 2^4, 2^8, 2^16, 2^32
          TtlMax,        \* 2^24 - 1
          HeaderSize,    \* SOME/IP header, flags, length of the entries: 24
          EntrySize,     \* 16
          LengthSize,    \* the length of the options: 4
          Buffers,       \* the sizes of receive buffers, 4096 in the programs
          MaxEntries, MaxOptions   \* bounds of the instance

ASSUME WireAssumption ==
    /\ Known \subseteq Option
    /\ OptionSize \in [Option -> Nat \ {0}]
    /\ {NibbleMod, IndexMod, IdMod, WordMod} \subseteq Nat \ {0}
    /\ {HeaderSize, EntrySize, LengthSize} \subseteq Nat
    /\ Buffers \subseteq Nat
    /\ TtlMax \in Nat \ {0}
    /\ ServiceTypes \cap GroupTypes = {}
    /\ \A h \in EntryHead :
          /\ h.type \in ServiceTypes \cup GroupTypes => h.ttl \in Int
          /\ h.type \in ServiceTypes => h.minor \in Int
          /\ h.type \in GroupTypes =>
                h.egid \in Int /\ h.counter \in Int /\ h.initial \in BOOLEAN

VARIABLES entries,   \* the entries of the message: head and options
          refs,      \* opt_refs: where the options of each entry start
          options    \* all_options: each with the offset where it ends and,
                     \* as history, the entry it was given with

vars == <<entries, refs, options>>

TypeOK == /\ entries \in Seq([head : EntryHead, options : Seq(Option)])
          /\ refs \in Seq(Nat) /\ Len(refs) = Len(entries)
          /\ options \in Seq([option : Option, end : Nat, owner : Nat])

Init == entries = <<>> /\ refs = <<>> /\ options = <<>>

\* Where the options end that have been packed so far.
OptionsEnd == IF Len(options) = 0 THEN 0 ELSE options[Len(options)].end

AddEntry(h) ==
    /\ Len(entries) < MaxEntries
    /\ entries' = Append(entries, [head |-> h, options |-> <<>>])
    /\ refs' = Append(refs, Len(options))
    /\ UNCHANGED options

\* One more option of the last entry.
AddOption(o) ==
    /\ Len(entries) > 0 /\ Len(options) < MaxOptions
    /\ entries' = [entries EXCEPT ![Len(entries)].options = Append(@, o)]
    /\ options' = Append(options, [option |-> o, end |-> OptionsEnd + OptionSize[o],
                                   owner |-> Len(entries)])
    /\ UNCHANGED refs

Next == (\E h \in EntryHead : AddEntry(h)) \/ (\E o \in Option : AddOption(o))

Spec == Init /\ [][Next]_vars
-----------------------------------------------------------------------------
(* The fields of an entry.                                                 *)

\* _ttl_bytes limits a TTL to three bytes; TTL 0 is a stop.
TtlField(h) == IF h.ttl < 0 THEN 0 ELSE IF h.ttl > TtlMax THEN TtlMax ELSE h.ttl

\* Mutant: the counter is not limited to its four bits.
LastWide(h) ==
    IF h.type \in ServiceTypes THEN h.minor % WordMod
    ELSE (h.egid % IdMod) + h.counter * IdMod
            + (IF h.initial THEN NibbleMod * IdMod ELSE 0)

\* The last word: the minor version of a service, or the eventgroup, the
\* counter and the flag that asks for initial data.
Last32(h) ==
    IF h.type \in ServiceTypes THEN h.minor % WordMod
    ELSE (h.egid % IdMod) + (h.counter % NibbleMod) * IdMod
            + (IF h.initial THEN NibbleMod * IdMod ELSE 0)

ParsedHead(h) ==
    IF h.type \in ServiceTypes
    THEN [type |-> h.type, minor |-> Last32(h), ttl |-> TtlField(h)]
    ELSE [type    |-> h.type,
          egid    |-> Last32(h) % IdMod,
          counter |-> (Last32(h) \div IdMod) % NibbleMod,
          initial |-> (Last32(h) \div (IdMod * NibbleMod)) % 2 = 1,
          ttl     |-> TtlField(h)]
-----------------------------------------------------------------------------
(* What a receiver makes of the datagram, with a buffer of b bytes.        *)

OptionsStart == HeaderSize + EntrySize * Len(entries) + LengthSize
Size         == OptionsStart + OptionsEnd
Received(b)  == IF Size <= b THEN Size ELSE b

\* parse_sd_message returns a message: what it is told of the entries is there.
Accepted(b) == OptionsStart <= Received(b)

\* The entries it returns; those of another type are left out.
Parsed(b) == {i \in 1 .. Len(entries) :
                 Accepted(b) /\ entries[i].head.type \in ServiceTypes \cup GroupTypes}

\* Mutant: the walk over the options ends at one it does not understand.
WalkStops(b) ==
    {k \in 1 .. Len(options) :
        /\ options[k].end <= Received(b) - OptionsStart
        /\ \A j \in 1 .. k : options[j].option \in Known}

\* The places of the list all_opts that are not None: an option that has
\* arrived as a whole and is of a known type.
Understood(b) == {k \in 1 .. Len(options) :
                     /\ options[k].end <= Received(b) - OptionsStart
                     /\ options[k].option \in Known}

\* The option run of an entry: its index and number, as wide as they are.
Run(i) == LET first == refs[i] % IndexMod IN
          (first + 1) .. (first + (Len(entries[i].options) % NibbleMod))

\* entry.options, by their places.
ParsedOptions(i, b) == Run(i) \cap Understood(b)

\* Mutant: the last of them.
LastOf(i, b, o) ==
    LET found == {k \in ParsedOptions(i, b) : options[k].option = o} IN
    IF found = {} THEN 0 ELSE CHOOSE k \in found : \A j \in found : j <= k

\* The first option of a kind: the UDP endpoint that the listener registers,
\* the TCP endpoint that a client calls.  None is 0.
FirstOf(i, b, o) ==
    LET found == {k \in ParsedOptions(i, b) : options[k].option = o} IN
    IF found = {} THEN 0 ELSE CHOOSE k \in found : \A j \in found : k <= j
-----------------------------------------------------------------------------
\* The places of the options that were given with entry i.
Own(i) == {k \in 1 .. Len(options) : options[k].owner = i}

\* What build_sd_message has written, parse_sd_message gives back: every entry
\* has its own options in their order, without those that are not understood,
\* as long as their number, the index and the datagram fit their fields and
\* the buffer.  Entries and options of other kinds in between do no harm.
RoundTrip ==
    \A i \in 1 .. Len(entries), b \in Buffers :
        /\ refs[i] < IndexMod /\ Len(entries[i].options) < NibbleMod /\ Size <= b
        => /\ entries[i].head.type \in ServiceTypes \cup GroupTypes => i \in Parsed(b)
           /\ \A j \in 1 .. Len(entries[i].options) :
                 /\ refs[i] + j \in Own(i)
                 /\ options[refs[i] + j].option = entries[i].options[j]
           /\ ParsedOptions(i, b) = {k \in Own(i) : options[k].option \in Known}

\* A datagram that did not fit the buffer, and an entry with more options than
\* four bits can count, lose options; they never gain those of another entry.
\* (Beyond index 255 they would.)
OwnOptions ==
    \A i \in 1 .. Len(entries), b \in Buffers :
        refs[i] < IndexMod => ParsedOptions(i, b) \subseteq Own(i)

\* The endpoint that a listener or a client takes from an entry is the first
\* one the sender gave, or none at all: what gets lost is lost at the end.
EndpointIsOwn ==
    \A i \in 1 .. Len(entries), b \in Buffers, o \in Known :
        LET f == FirstOf(i, b, o) IN
        refs[i] < IndexMod /\ f # 0
        => f \in Own(i) /\ \A k \in Own(i) : options[k].option = o => f <= k

\* A stop is a stop and nothing else is; a counter that is too large changes
\* neither the eventgroup nor the flag, and ids that fit come back.
FieldsSurvive ==
    \A i \in 1 .. Len(entries) :
        LET h == entries[i].head
            p == ParsedHead(h)
        IN h.type \in ServiceTypes \cup GroupTypes =>
           /\ p.ttl = 0 <=> h.ttl <= 0
           /\ h.type \in ServiceTypes /\ h.minor \in 0 .. WordMod - 1 => p.minor = h.minor
           /\ h.type \in GroupTypes =>
                 /\ p.initial = h.initial
                 /\ h.egid \in 0 .. IdMod - 1 => p.egid = h.egid
                 /\ h.counter \in 0 .. NibbleMod - 1 => p.counter = h.counter
=============================================================================
