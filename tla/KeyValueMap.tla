---------------------------- MODULE KeyValueMap -----------------------------
(***************************************************************************)
(* What a Lua table promises: a function from keys to values, where an     *)
(* absent key has the value nil.                                           *)
(***************************************************************************)
CONSTANTS
    Key,
    Value,
    Nil         \* a member of Value

VARIABLES
    content,    \* the value of every key
    reply       \* what the last operation answered

vars == <<content, reply>>

Init ==
    /\ content = [k \in Key |-> Nil]
    /\ reply = Nil

Set(k, v) ==
    /\ content' = [content EXCEPT ![k] = v]
    /\ UNCHANGED reply

Get(k) ==
    /\ reply' = content[k]
    /\ UNCHANGED content

Next == \E k \in Key : Get(k) \/ \E v \in Value : Set(k, v)

Spec == Init /\ [][Next]_vars
=============================================================================
