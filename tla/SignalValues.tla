---------------------------- MODULE SignalValues ----------------------------
(***************************************************************************)
(* Signal values as the server and the handlers exchange them: a valuation *)
(* of the known signals, a write of some names, a read of some names.      *)
(***************************************************************************)
CONSTANTS Signal,   \* the signals the catalog defines
          Name,     \* the names a caller may use, known or not
          Value,
          Zero      \* 0.0, what get() answers for an unknown name

ASSUME SignalAssumption == Signal \subseteq Name /\ Zero \in Value

Valuation == [Signal -> Value]

Call == [op : {"set", "get"}, names : SUBSET Name, vals : [Name -> Value]]

\* set_multiple: known names take their new value, unknown names are skipped.
Overlay(d, c) == [s \in Signal |-> IF s \in c.names THEN c.vals[s] ELSE d[s]]

\* get_subset: known names keep their value, every other name reads as zero.
Lookup(d, n)  == IF n \in Signal THEN d[n] ELSE Zero
Select(d, ns) == [n \in Name |-> IF n \in ns THEN Lookup(d, n) ELSE Zero]
=============================================================================
