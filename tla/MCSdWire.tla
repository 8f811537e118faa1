------------------------------ MODULE MCSdWire ------------------------------
(* Messages of up to three entries and five options; the fields are a few  *)
(* bits wide, so that indexes, counts, counters and TTLs exceed them.      *)
EXTENDS SdWire

CONSTANTS udp, tcp, other, offer, subscribe, strange

MCOption       == {udp, tcp, other}
MCKnown        == {udp, tcp}
MCOptionSize   == [o \in MCOption |-> IF o = other THEN 7 ELSE 12]
MCServiceTypes == {offer}
MCGroupTypes   == {subscribe}
MCBuffers      == {40, 72, 90, 200}

Group(e, c, i, t) == [type |-> subscribe, egid |-> e, counter |-> c,
                      initial |-> i, ttl |-> t]

MCHead == {[type |-> offer, minor |-> 5, ttl |-> 4],
           [type |-> strange, ttl |-> 1, egid |-> 0, counter |-> 0, initial |-> FALSE],
           Group(1, 3, TRUE, 3), Group(3, 4, FALSE, 0)}
=============================================================================
