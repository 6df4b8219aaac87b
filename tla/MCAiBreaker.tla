---------------------------- MODULE MCAiBreaker ----------------------------
(***************************************************************************)
(* A small instance for TLC: slot c1 serves requests that may be retried   *)
(* once, the other slots serve those that never are.                       *)
(***************************************************************************)
EXTENDS AiBreaker

CONSTANTS c1

MCRetries == [c \in Call |-> IF c = c1 THEN 1 ELSE 0]
MCObj == 1..(Cardinality(Call) + 2)

=============================================================================
