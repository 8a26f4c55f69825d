---------------------------- MODULE TokenBucket ----------------------------
(***************************************************************************)
(* What a rate limiter promises each key: a bucket of Capacity tokens,     *)
(* filled as time passes at Capacity per Window, never forgotten, and a    *)
(* request that is let through exactly when a token is there.              *)
(*                                                                         *)
(* Levels are counted in Window-ths of a token, which a tick fills by      *)
(* Capacity of them: all arithmetic is on integers.                        *)
(***************************************************************************)
EXTENDS Naturals

CONSTANTS
    Keys,       \* client addresses, or user ids
    Capacity,   \* tokens of a full bucket: a positive number
    Window      \* ticks in which an empty bucket fills: a positive number

VARIABLES
    now,        \* ticks since the server started
    level,      \* of each key's bucket
    allowed     \* the last verdict each key was given

Full == Capacity * Window

AtMostFull(n) == IF n > Full THEN Full ELSE n

Init ==
    /\ now = 0
    /\ level = [k \in Keys |-> Full]
    /\ allowed = [k \in Keys |-> TRUE]

Take(k) ==
    /\ level[k] >= Window
    /\ level' = [level EXCEPT ![k] = @ - Window]
    /\ allowed' = [allowed EXCEPT ![k] = TRUE]
    /\ UNCHANGED now

Refuse(k) ==
    /\ level[k] < Window
    /\ allowed' = [allowed EXCEPT ![k] = FALSE]
    /\ UNCHANGED <<now, level>>

Tick ==
    /\ now' = now + 1
    /\ level' = [k \in Keys |-> AtMostFull(level[k] + Capacity)]
    /\ UNCHANGED allowed

Next == Tick \/ \E k \in Keys : Take(k) \/ Refuse(k)

Spec == Init /\ [][Next]_<<now, level, allowed>>
=============================================================================
