----------------------------- MODULE ChargedOnce -----------------------------
(***************************************************************************)
(* What the AI proxy promises about idempotency keys, without receipts,    *)
(* transactions or replicas: under one key the provider is asked at most   *)
(* once, and whoever is handed a result under a key is handed the result   *)
(* of that one attempt.  AiProxy implements it.                            *)
(***************************************************************************)
EXTENDS Naturals

CONSTANTS
    Call,       \* HTTP requests
    Key,        \* idempotency keys
    Earlier,    \* the keys an older release was asked under
    None

VARIABLES
    key,        \* the key each request came with
    charged,    \* the attempts made at the provider under each key
    handed      \* the request whose result each request was handed

vars == <<key, charged, handed>>

\* The attempts of a request are numbered; only the first is ever made.
First(c) == {<<c, 1>>}

Init ==
    /\ key = [c \in Call |-> None]
    /\ charged = [k \in Key |-> IF k \in Earlier THEN First(k) ELSE {}]
    /\ handed = [c \in Call |-> None]

Come(c) ==
    /\ key[c] = None
    /\ \E k \in Key : key' = [key EXCEPT ![c] = k]
    /\ UNCHANGED <<charged, handed>>

Charge(c) ==
    /\ key[c] # None /\ charged[key[c]] = {}
    /\ charged' = [charged EXCEPT ![key[c]] = First(c)]
    /\ UNCHANGED <<key, handed>>

Hand(c) ==
    /\ key[c] # None /\ handed[c] = None
    /\ \E d \in Call : /\ charged[key[c]] = First(d)
                       /\ handed' = [handed EXCEPT ![c] = d]
    /\ UNCHANGED <<key, charged>>

Next == \E c \in Call : Come(c) \/ Charge(c) \/ Hand(c)

Spec == Init /\ [][Next]_vars

=============================================================================
