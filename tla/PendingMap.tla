------------------------------ MODULE PendingMap ------------------------------
(***************************************************************************)
(* The field pendingSessions of SessionManagementService: one              *)
(* java.util.HashMap, used by every request thread without a lock.         *)
(*                                                                         *)
(* The class is outside the repository; this module says what its calls    *)
(* can do when they overlap.                                               *)
(*   - get and containsKey walk the current table.  While another thread   *)
(*     inserts, the table may be growing: the new array is published       *)
(*     before the entries are moved, so a key that is linked can be missed.*)
(*   - put of a linked key writes the node's value in place.               *)
(*   - put of a new key and remove change the links and the field size.    *)
(*     Both are read-modify-write, so they may write back what they saw    *)
(*     when they began: entries linked or unlinked meanwhile are undone,   *)
(*     the thread's own entry is lost, a count is lost.                    *)
(* window[w] is what thread w saw when it began the structural call it is  *)
(* in.  With Linearizable = TRUE the same calls take effect atomically, as *)
(* those of a synchronized map would: that separates the races of the code *)
(* around the map from the races of the map itself.                        *)
(***************************************************************************)
EXTENDS Integers, FiniteSets

CONSTANTS Workers,       \* request threads of the server
          Sessions,      \* ids of parent authentication sessions (UUIDs)
          Subjects,      \* verified subjects
          NoSession,     \* no id
          NoSubject,     \* the value null
          Absent,        \* the key is not in the map
          Linearizable,  \* TRUE: every call on the map is atomic
          MaxDrift       \* bound: how far size may be from the entry count

ASSUME MapAssumption ==
    /\ IsFiniteSet(Workers) /\ IsFiniteSet(Sessions)
    /\ NoSession \notin Sessions
    /\ NoSubject \notin Subjects /\ Absent \notin Subjects
    /\ NoSubject # Absent
    /\ Linearizable \in BOOLEAN
    /\ MaxDrift \in Nat

VARIABLES pendingSessions,  \* the entries that a quiet reader would find
          size,             \* the map's int field size
          window            \* per thread: what it saw when its put/remove began

mapVars == <<pendingSessions, size, window>>

Values == Subjects \cup {NoSubject, Absent}
Table == [Sessions -> Values]
EmptyTable == [s \in Sessions |-> Absent]

Linked(t) == {s \in Sessions : t[s] # Absent}

Window == [op : {"none", "put", "remove"}, key : Sessions \cup {NoSession},
           table : Table, size : Int]
Closed == [op |-> "none", key |-> NoSession, table |-> EmptyTable, size |-> 0]

MapTypeOK ==
    /\ pendingSessions \in Table
    /\ size \in Int
    /\ window \in [Workers -> Window]

MapInit ==
    /\ pendingSessions = EmptyTable
    /\ size = 0
    /\ window = [w \in Workers |-> Closed]

MapRestart ==
    /\ pendingSessions' = EmptyTable
    /\ size' = 0
    /\ window' = [w \in Workers |-> Closed]

-------------------------------------------------------------------------------
(* Thread w is about to call put or remove on k. *)
OpenWindow(w, op, k) ==
    window' = IF Linearizable THEN window
              ELSE [window EXCEPT ![w] = [op |-> op, key |-> k,
                                          table |-> pendingSessions,
                                          size |-> size]]

CloseWindow(w) == window' = [window EXCEPT ![w] = Closed]

(* Keys that were linked or unlinked since w began. *)
StaleKeys(w) ==
    {s \in Sessions : /\ ~Linearizable
                      /\ (pendingSessions[s] = Absent)
                            # (window[w].table[s] = Absent)}

(* Another thread is inserting a new key, and may be growing the table. *)
Growing(w) ==
    /\ ~Linearizable
    /\ \E v \in Workers \ {w} : /\ window[v].op = "put"
                                /\ window[v].table[window[v].key] = Absent

(* The two answers a look-up of k by thread w may give. *)
Finds(k) == pendingSessions[k] # Absent
Misses(w, k) == pendingSessions[k] = Absent \/ Growing(w)

(* Thread w links k with value v (delta 1) or unlinks it (v Absent, -1). *)
Relink(w, k, v, delta) ==
    \E undone \in SUBSET (StaleKeys(w) \ {k}),
       lost \in {FALSE, StaleKeys(w) # {}},
       seen \in {size, IF Linearizable THEN size ELSE window[w].size} :
        /\ pendingSessions' =
               [s \in Sessions |->
                   IF s \in undone THEN window[w].table[s]
                   ELSE IF s = k /\ ~lost THEN v
                   ELSE pendingSessions[s]]
        /\ size' = seen + delta
        /\ size' - Cardinality(Linked(pendingSessions')) \in -MaxDrift..MaxDrift

Put(w, k, v) ==
    \/ \* an existing node: the value is written in place
       /\ Finds(k)
       /\ pendingSessions' = [pendingSessions EXCEPT ![k] = v]
       /\ UNCHANGED size
    \/ \* no node was found: a new one is linked
       /\ Misses(w, k) \/ k \in StaleKeys(w)
       /\ Relink(w, k, v, 1)
    \/ \* the node that was found has been unlinked meanwhile
       /\ ~Finds(k) /\ k \in StaleKeys(w)
       /\ UNCHANGED <<pendingSessions, size>>

Remove(w, k) ==
    \/ /\ Finds(k) \/ k \in StaleKeys(w)
       /\ Relink(w, k, Absent, -1)
    \/ /\ Misses(w, k)
       /\ UNCHANGED <<pendingSessions, size>>
===============================================================================
