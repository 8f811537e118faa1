-------------------------- MODULE MCEventPublisher --------------------------
(* Two publisher threads in turn, two subscribers, two versions of the     *)
(* signals and sequence numbers that wrap after two rounds.                *)
EXTENDS EventPublisher

CONSTANTS r1, r2, dash, logger

MCRun        == {r1, r2}
MCSubscriber == {dash, logger}
MCFlaky      == {logger}
=============================================================================
