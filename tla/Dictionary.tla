----------------------------- MODULE Dictionary -----------------------------
(***************************************************************************)
(* A Lua table: table.c over the linked-list dictionary of listdict.c.     *)
(* The payload of a key is a machine word: a number, a boolean, or the     *)
(* address of a string, and two strings at different addresses may be the  *)
(* same text.  Names that Instructions has too begin with the component's: *)
(* the proofs of both are in one module.                                   *)
(***************************************************************************)
EXTENDS Integers, Sequences

CONSTANTS
    Uses,        \* the sets of keys a program may use with a table: records
                 \* with a type and a word
    Text,        \* Text[w]: the characters at address w, where there is memory
    TValue,      \* what a table has for a key
    TNil,        \* a member of TValue
    MaxList      \* bound: items of a SETLIST

\* Strings are in memory.
ASSUME UsesAssumption == \A ks \in Uses : \A k \in ks :
    /\ k.t \in {"string", "number", "other"} /\ k.w \in Int
    /\ k.t = "string" => k.w \in DOMAIN Text
ASSUME ValueAssumption == TNil \in TValue
ASSUME MaxListAssumption == MaxList \in Nat

VARIABLES
    keys,       \* the keys this table is used with
    nodes,      \* the list of the dictionary, from its head
    setlist,    \* table_setlist: the key to come and the values left
    reply,      \* what the last dictionary_search returned
    aborted     \* an assert has failed, or strcmp has read where no memory is

dictionaryVars == <<keys, nodes, setlist, reply, aborted>>

NumberKey(n) == [t |-> "number", w |-> n]

-----------------------------------------------------------------------------
\* Mutant: strings are compared by address.
MatchesAddress(n, k) == n.k.w = k.w

\* find: the node decides how its key is compared with k.  The word of k is the
\* address of a string for strcmp, whatever its type.
Matches(n, k) ==
    \/ n.k.t = "string" /\ k.w \in DOMAIN Text /\ Text[n.k.w] = Text[k.w]
    \/ n.k.t = "number" /\ n.k.w = k.w

\* find: the scan reaches the default of its switch, or strcmp faults.
Unhandled(n) == n.k.t \notin {"string", "number"}
Faults(n, k) == n.k.t = "string" /\ k.w \notin DOMAIN Text
Fatal(n, k) == Unhandled(n) \/ Faults(n, k)

\* The nodes at which the scan of find for key k would stop, and the first.
Stops(k) == {i \in 1..Len(nodes) : Matches(nodes[i], k) \/ Fatal(nodes[i], k)}
Found(k) == CHOOSE i \in Stops(k) : \A j \in Stops(k) : i <= j

FindAborts(k) == Stops(k) # {} /\ Fatal(nodes[Found(k)], k)

Abort ==
    /\ aborted' = TRUE
    /\ UNCHANGED <<keys, nodes, setlist, reply>>

DictionaryInit ==
    /\ keys \in Uses
    /\ nodes = <<>>
    /\ setlist = [key |-> 1, vals |-> <<>>]
    /\ reply = TNil
    /\ aborted = FALSE

Ready == ~aborted /\ setlist.vals = <<>>

\* Mutant: a node is always added.
InsertedAlways(k, v) == <<[k |-> k, v |-> v]>> \o nodes

\* dictionary_insert when the scan does not abort.
Inserted(k, v) ==
    IF Stops(k) = {} THEN <<[k |-> k, v |-> v]>> \o nodes
    ELSE [nodes EXCEPT ![Found(k)].v = v]

\* table_set
TableSet ==
    /\ Ready
    /\ \E k \in keys, v \in TValue :
          /\ ~FindAborts(k)
          /\ nodes' = Inserted(k, v)
    /\ UNCHANGED <<keys, setlist, reply, aborted>>

\* dictionary_search when the scan does not abort.
Searched(k) == IF Stops(k) = {} THEN TNil ELSE nodes[Found(k)].v

\* table_get
TableGet ==
    /\ Ready
    /\ \E k \in keys : ~FindAborts(k) /\ reply' = Searched(k)
    /\ UNCHANGED <<keys, nodes, setlist, aborted>>

\* table_set or table_get when find asserts or faults.
TableAborts ==
    /\ Ready
    /\ \E k \in keys : FindAborts(k)
    /\ Abort

\* dictionary_delete
Delete ==
    /\ Ready
    /\ \E k \in keys :
          /\ ~FindAborts(k)
          /\ nodes' = IF Stops(k) = {} THEN nodes
                      ELSE SubSeq(nodes, 1, Found(k) - 1)
                               \o SubSeq(nodes, Found(k) + 1, Len(nodes))
    /\ UNCHANGED <<keys, setlist, reply, aborted>>

\* Mutant: the first key is the block's offset.
FirstKeyZero(idx) == idx

\* table_setlist: the key of the first item.
FirstKey(idx) == idx + 1

\* table_setlist is called; every key it will use is one of keys.
StartSetList ==
    /\ Ready
    /\ \E n \in 1..MaxList : \E vals \in [1..n -> TValue], idx \in 0..MaxList :
          /\ \A i \in 1..n : NumberKey(idx + i) \in keys
          /\ setlist' = [key |-> FirstKey(idx), vals |-> vals]
    /\ UNCHANGED <<keys, nodes, reply, aborted>>

\* One round of its loop.
SetListItem ==
    /\ ~aborted
    /\ setlist.vals # <<>>
    /\ LET k == NumberKey(setlist.key)
       IN  IF FindAborts(k) THEN Abort
           ELSE /\ nodes' = Inserted(k, Head(setlist.vals))
                /\ setlist' = [key |-> setlist.key + 1, vals |-> Tail(setlist.vals)]
                /\ UNCHANGED <<keys, reply, aborted>>

DictionaryNext ==
    \/ TableSet \/ TableGet \/ TableAborts \/ Delete
    \/ StartSetList \/ SetListItem

DictionarySpec == DictionaryInit /\ [][DictionaryNext]_dictionaryVars

-----------------------------------------------------------------------------
DictionaryTypeOK ==
    /\ keys \in Uses
    /\ nodes \in Seq([k : keys, v : TValue])
    /\ setlist \in [key : Nat, vals : Seq(TValue)]
    /\ reply \in TValue
    /\ aborted \in BOOLEAN

\* What tells a key from another: the text of a string, and otherwise the word
\* alone, so that true is the same key as 1 once there is a node for 1.
Meaning(k) == IF k.t = "string" THEN <<"text", Text[k.w]>> ELSE <<"word", k.w>>
AllMeanings == UNION {{Meaning(k) : k \in ks} : ks \in Uses}

\* No two nodes have the same key, whatever the addresses of their strings: an
\* older value can never come back when a node is deleted.
KeysUnique ==
    \A i, j \in 1..Len(nodes) : Meaning(nodes[i].k) = Meaning(nodes[j].k) => i = j

-----------------------------------------------------------------------------
Contents(m) ==
    LET holding == {i \in 1..Len(nodes) : Meaning(nodes[i].k) = m}
    IN  IF holding = {} THEN TNil ELSE nodes[CHOOSE i \in holding : TRUE].v

Map == INSTANCE KeyValueMap WITH
    Key <- AllMeanings,
    Value <- TValue,
    Nil <- TNil,
    content <- [m \in AllMeanings |-> Contents(m)]

\* What find cannot see: that a key which is no string has the word of a string,
\* or is the address of memory where the text of one is.
KeysToldApart == \A ks \in Uses : \A k, l \in ks :
    k.t = "string" /\ l.t # "string" =>
        k.w # l.w /\ (l.w \in DOMAIN Text => Text[k.w] # Text[l.w])

\* A table implements a map from texts and words to values, whichever kinds of
\* keys it has, until an assert or a fault of strcmp stops the program.
RefinesMap == Map!Spec
=============================================================================
