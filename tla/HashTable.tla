------------------------------- MODULE HashTable -------------------------------
(***************************************************************************)
(* The hash table of lib/libstruct/src/uhashtable.c, with which            *)
(* core/src/futex.c finds the queue of a futex: open addressing, linear    *)
(* probes, and removed entries that stay in the table as graves.  The      *)
(* callers hold a critical section: an operation is one step.              *)
(***************************************************************************)
EXTENDS Integers, FiniteSets

CONSTANTS
    Key, Data,      \* keys, and what they are set to
    Hash,           \* uhash_64
    Capacity,       \* HT_INITIAL_SIZE, a power of 2
    MaxCapacity,    \* bound on the growth of the table
    Empty           \* NULL

HashTableAssumption ==
    /\ Hash \in [Key -> Nat]
    /\ Capacity \in Nat \ {0} /\ MaxCapacity \in Nat
    /\ Empty \notin Data

VARIABLES
    entries,    \* the entries, NULL or a record with key, data and is_used
    count,      \* size
    graves,     \* graveyard_size
    endless,    \* a call probes the table for ever
    given,      \* what each key was ever set to
    latest,     \* the last of these, NULL after a removal
    again       \* the keys that were set while they had an entry

htVars == <<entries, count, graves, endless, given, latest, again>>

Slots(e) == DOMAIN e
Entry(k, v) == [key |-> k, data |-> v, used |-> TRUE]

\* uhashtable_create
Init ==
    /\ entries = [i \in 0 .. Capacity - 1 |-> Empty]
    /\ count = 0 /\ graves = 0 /\ endless = FALSE
    /\ given = [k \in Key |-> {}] /\ latest = [k \in Key |-> Empty]
    /\ again = {}

--------------------------------------------------------------------------------
\* The slots in the order in which a key probes them.
Probe(e, k, n) == (Hash[k] + n) % Cardinality(Slots(e))

\* The first slot of the probes of k that is in the set S; there is one.
FirstIn(e, k, S) ==
    LET Stops(n) == Probe(e, k, n) \in S
    IN  Probe(e, k, CHOOSE n \in 0 .. Cardinality(Slots(e)) - 1 :
                        Stops(n) /\ \A i \in 0 .. n - 1 : ~Stops(i))

Used(e)    == {i \in Slots(e) : e[i] # Empty /\ e[i].used}
NullSlots(e) == {i \in Slots(e) : e[i] = Empty}
Holds(e, k) == {i \in Used(e) : e[i].key = k}

\* Where a lookup stops: at the key, or at the first NULL.
Stops(e, k) == Holds(e, k) \cup NullSlots(e)

\* uhashtable_get: the value, or NULL for OS_ERR_NO_SUCH_ID
Get(e, k) ==
    IF Stops(e, k) = {} THEN Empty
    ELSE LET i == FirstIn(e, k, Stops(e, k))
         IN  IF e[i] = Empty THEN Empty ELSE e[i].data

\* Where uhashtable_set_entry and uhashtable_rehash_entry stop: at the key or at
\* the first slot without a used entry, be it a grave.
Room(e, k) == Holds(e, k) \cup (Slots(e) \ Used(e))

Put(e, k, v) == [e EXCEPT ![FirstIn(e, k, Room(e, k))] = Entry(k, v)]

\* Graves are rehashed like entries.
Rehash_Graves(e) ==
    LET n == Cardinality(Slots(e))
        Moved[i \in 0 .. n] ==
            IF i = 0 THEN [j \in 0 .. 2 * n - 1 |-> Empty]
            ELSE IF e[i - 1] = Empty THEN Moved[i - 1]
            ELSE Put(Moved[i - 1], e[i - 1].key, e[i - 1].data)
    IN  Moved[n]

\* uhashtable_rehash with a growth of 2: the used entries move in slot order.
Rehash(e) ==
    LET n == Cardinality(Slots(e))
        Moved[i \in 0 .. n] ==
            IF i = 0 THEN [j \in 0 .. 2 * n - 1 |-> Empty]
            ELSE IF i - 1 \in Used(e) THEN Put(Moved[i - 1], e[i - 1].key, e[i - 1].data)
            ELSE Moved[i - 1]
    IN  Moved[n]

--------------------------------------------------------------------------------
\* The load counts the entries and the graves in an unsigned sum: a table that
\* has counted down below zero is overloaded.
Overloaded ==
    \/ count + graves < 0
    \/ 7 * Cardinality(Slots(entries)) < 10 * (count + graves)

\* uhashtable_set: the table may grow, and then there may be no memory for the
\* entry, for which it needs a NULL slot.  A grave that is used again is not
\* counted as an entry.
Set(k, v) ==
    LET e == IF Overloaded THEN Rehash(entries) ELSE entries
        g == IF Overloaded THEN 0 ELSE graves
        i == FirstIn(e, k, Room(e, k))
    IN  /\ ~endless
        /\ Cardinality(Slots(e)) <= MaxCapacity
        /\ \/ /\ Room(e, k) = {}
              /\ endless' = TRUE
              /\ UNCHANGED <<entries, count, graves, given, latest, again>>
           \/ /\ Room(e, k) # {}
              /\ entries' = Put(e, k, v)
              /\ count' = count + (IF e[i] = Empty THEN 1 ELSE 0)
              /\ graves' = g - (IF i \notin Used(e) /\ e[i] # Empty THEN 1 ELSE 0)
              /\ given' = [given EXCEPT ![k] = @ \cup {v}]
              /\ latest' = [latest EXCEPT ![k] = v]
              /\ again' = IF latest[k] = Empty THEN again ELSE again \cup {k}
              /\ UNCHANGED endless
           \/ /\ Room(e, k) # {} /\ e[i] = Empty      \* OS_ERR_MALLOC
              /\ entries' = e /\ graves' = g
              /\ UNCHANGED <<count, endless, given, latest, again>>

\* uhashtable_remove refuses to remove when it finds too many graves: it asks for
\* a rehash with a growth of 1, which uhashtable_rehash refuses.
Refused == 3 * Cardinality(Slots(entries)) < 10 * graves

Remove(k) ==
    LET i == FirstIn(entries, k, Stops(entries, k))
    IN  /\ ~endless /\ ~Refused
        /\ \/ /\ Stops(entries, k) = {}
              /\ endless' = TRUE
              /\ UNCHANGED <<entries, count, graves, given, latest, again>>
           \/ /\ Stops(entries, k) # {} /\ i \in Used(entries)
              /\ entries' = [entries EXCEPT ![i].used = FALSE]
              /\ count' = count - 1 /\ graves' = graves + 1
              /\ latest' = [latest EXCEPT ![k] = Empty]
              /\ UNCHANGED <<endless, given, again>>

Next ==
    \/ \E k \in Key, v \in Data : Set(k, v)
    \/ \E k \in Key : Remove(k)

Spec == Init /\ [][Next]_htVars

--------------------------------------------------------------------------------
\* A key that was set and not removed since is found, and what is found under a
\* key was set for that key: graves, wrapped probes, a growth of the table and an
\* allocation that fails lose no key and mix up no two keys.
LiveKeysFound ==
    \A k \in Key : /\ latest[k] # Empty => Get(entries, k) # Empty
                  /\ Get(entries, k) \in given[k] \cup {Empty}

\* The table is a map for the keys that are only set when they are absent, as
\* futex.c does: such a key has its last value, or none when it was removed, even
\* when others have left graves or a stale second entry behind.
MapsKeysSetOnce == \A k \in Key \ again : Get(entries, k) = latest[k]
================================================================================
