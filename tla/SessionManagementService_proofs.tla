-------------------- MODULE SessionManagementService_proofs --------------------
(***************************************************************************)
(* Proofs about SessionManagementService, for every number of threads,     *)
(* sessions and subjects, and for a map with and without races.            *)
(***************************************************************************)
EXTENDS SessionManagementService, FiniteSetTheorems, TLAPS

-------------------------------------------------------------------------------
(* Relink never invents a value: afterwards a session has the value it     *)
(* had, the value that is being linked, if it is the argument's, or one    *)
(* that the thread saw when it began.                                      *)
LEMMA RelinkValues ==
    ASSUME NEW w \in Workers, NEW k \in Sessions, NEW v \in Values,
           NEW delta \in {1, -1},
           MapTypeOK, Relink(w, k, v, delta)
    PROVE  /\ pendingSessions' \in Table
           /\ size' \in Int
           /\ \A s \in Sessions :
                  \/ pendingSessions'[s] = pendingSessions[s]
                  \/ s = k /\ pendingSessions'[s] = v
                  \/ pendingSessions'[s] = window[w].table[s]
<1>. USE DEF MapTypeOK, Window
<1>1. PICK undone \in SUBSET (StaleKeys(w) \ {k}),
           lost \in {FALSE, StaleKeys(w) # {}},
           seen \in {size, IF Linearizable THEN size ELSE window[w].size} :
        /\ pendingSessions' =
               [s \in Sessions |->
                   IF s \in undone THEN window[w].table[s]
                   ELSE IF s = k /\ ~lost THEN v
                   ELSE pendingSessions[s]]
        /\ size' = seen + delta
    BY DEF Relink
<1>2. seen \in Int
    OBVIOUS
<1>3. size' \in Int
    BY <1>1, <1>2
<1>4. \A s \in Sessions : window[w].table[s] \in Values /\ pendingSessions[s] \in Values
    BY DEF Table
<1>5. pendingSessions' \in Table
    BY <1>1, <1>4 DEF Table
<1>6. \A s \in Sessions :
          \/ pendingSessions'[s] = pendingSessions[s]
          \/ s = k /\ pendingSessions'[s] = v
          \/ pendingSessions'[s] = window[w].table[s]
    BY <1>1
<1>. QED BY <1>3, <1>5, <1>6

(* The same for put and remove. *)
LEMMA PutValues ==
    ASSUME NEW w \in Workers, NEW k \in Sessions, NEW v \in Values,
           MapTypeOK, Put(w, k, v)
    PROVE  /\ pendingSessions' \in Table
           /\ size' \in Int
           /\ \A s \in Sessions :
                  \/ pendingSessions'[s] = pendingSessions[s]
                  \/ s = k /\ pendingSessions'[s] = v
                  \/ pendingSessions'[s] = window[w].table[s]
<1>1. CASE /\ Finds(k)
           /\ pendingSessions' = [pendingSessions EXCEPT ![k] = v]
           /\ UNCHANGED size
    BY <1>1 DEF MapTypeOK, Table
<1>2. CASE Relink(w, k, v, 1)
    BY <1>2, RelinkValues
<1>3. CASE UNCHANGED <<pendingSessions, size>>
    BY <1>3 DEF MapTypeOK
<1>. QED BY <1>1, <1>2, <1>3 DEF Put

LEMMA RemoveValues ==
    ASSUME NEW w \in Workers, NEW k \in Sessions, MapTypeOK, Remove(w, k)
    PROVE  /\ pendingSessions' \in Table
           /\ size' \in Int
           /\ \A s \in Sessions :
                  \/ pendingSessions'[s] = pendingSessions[s]
                  \/ s = k /\ pendingSessions'[s] = Absent
                  \/ pendingSessions'[s] = window[w].table[s]
<1>1. CASE Relink(w, k, Absent, -1)
    BY <1>1, RelinkValues DEF Values
<1>2. CASE UNCHANGED <<pendingSessions, size>>
    BY <1>2 DEF MapTypeOK
<1>. QED BY <1>1, <1>2 DEF Remove

(* Opening and closing a window keeps what the windows are. *)
LEMMA WindowType ==
    ASSUME MapTypeOK, NEW w \in Workers
    PROVE  /\ \A op \in {"put", "remove"}, k \in Sessions :
                  OpenWindow(w, op, k) => window' \in [Workers -> Window]
           /\ CloseWindow(w) => window' \in [Workers -> Window]
BY DEF MapTypeOK, OpenWindow, CloseWindow, Window, Closed, EmptyTable, Table, Values

-------------------------------------------------------------------------------
(* The type invariant is inductive: the id that a thread carries through a *)
(* method is the one it entered it with.                                   *)
LEMMA InitTypeOK == Init => TypeOK
BY MapAssumption DEF Init, TypeOK, MapInit, MapTypeOK, EmptyTable, Closed, Window,
                     Table, Values, Places, AttachLines

LEMMA NextTypeOK == TypeOK /\ [Next]_vars => TypeOK'
<1>. SUFFICES ASSUME TypeOK, [Next]_vars
              PROVE  TypeOK'
    OBVIOUS
<1>. USE MapAssumption
<1>1. ASSUME NEW w \in Workers, NEW s \in Sessions,
             CallCreate(w, s) \/ CallGet(w, s)
      PROVE  TypeOK'
    BY <1>1 DEF CallCreate, CallGet, Enter, Goto, TypeOK, MapTypeOK, Places,
                CreateLines, GetLines, AttachLines
<1>2. ASSUME NEW w \in Workers, NEW s \in Sessions, NEW x \in Subjects \cup {NoSubject},
             CallAttach(w, s, x)
      PROVE  TypeOK'
    BY <1>2 DEF CallAttach, Enter, Goto, TypeOK, MapTypeOK, Places, AttachLines
<1>3. ASSUME NEW w \in Workers, NEW s \in Sessions, CallDestroy(w, s)
      PROVE  TypeOK'
  <2>1. window' \in [Workers -> Window]
    BY <1>3, WindowType DEF CallDestroy, TypeOK
  <2>. QED BY <1>3, <2>1 DEF CallDestroy, Enter, Goto, TypeOK, MapTypeOK, Places,
                             AttachLines
<1>4. ASSUME NEW w \in Workers, Return(w)
      PROVE  TypeOK'
    BY <1>4 DEF Return, Goto, TypeOK, MapTypeOK, Places, AttachLines
<1>5. ASSUME NEW w \in Workers, CreateSize(w) \/ GetContains(w)
      PROVE  TypeOK'
    BY <1>5 DEF CreateSize, GetContains, Goto, TypeOK, MapTypeOK, Places,
                CreateLines, GetLines, AttachLines, Ended
<1>6. ASSUME NEW w \in Workers, CreateContains(w) \/ AttachContains(w)
      PROVE  TypeOK'
  <2>1. key[w] \in Sessions
    BY <1>6 DEF CreateContains, AttachContains, TypeOK
  <2>2. window' \in [Workers -> Window]
    BY <1>6, <2>1, WindowType DEF CreateContains, AttachContains, TypeOK, MapTypeOK
  <2>. QED BY <1>6, <2>1, <2>2
           DEF CreateContains, AttachContains, Goto, TypeOK, MapTypeOK, Places,
               CreateLines, AttachLines, Ended
<1>7. ASSUME NEW w \in Workers, CreatePut(w) \/ AttachPut(w)
      PROVE  TypeOK'
  <2>1. key[w] \in Sessions
    BY <1>7 DEF CreatePut, AttachPut, TypeOK
  <2>2. PICK v \in Values : Put(w, key[w], v)
    BY <1>7 DEF CreatePut, AttachPut, TypeOK, Values
  <2>3. MapTypeOK'
    <3>1. window' \in [Workers -> Window]
      BY <1>7, WindowType DEF CreatePut, AttachPut, TypeOK
    <3>2. pendingSessions' \in Table /\ size' \in Int
      BY <2>1, <2>2, PutValues DEF TypeOK
    <3>. QED BY <3>1, <3>2 DEF MapTypeOK
  <2>. QED BY <1>7, <2>1, <2>3 DEF CreatePut, AttachPut, Goto, TypeOK, Places, AttachLines,
                                  Ended
<1>8. ASSUME NEW w \in Workers, GetGet(w)
      PROVE  TypeOK'
  <2>1. val' \in [Workers -> Subjects \cup {NoSubject}]
    BY <1>8 DEF GetGet, Finds, TypeOK, MapTypeOK, Table, Values
  <2>. QED BY <1>8, <2>1 DEF GetGet, Goto, TypeOK, MapTypeOK, Places, AttachLines, Ended
<1>9. ASSUME NEW w \in Workers, DestroyRemove(w)
      PROVE  TypeOK'
  <2>1. key[w] \in Sessions
    BY <1>9 DEF DestroyRemove, TypeOK
  <2>2. MapTypeOK'
    <3>1. window' \in [Workers -> Window]
      BY <1>9, WindowType DEF DestroyRemove, TypeOK
    <3>2. pendingSessions' \in Table /\ size' \in Int
      BY <1>9, <2>1, RemoveValues DEF DestroyRemove, TypeOK
    <3>. QED BY <3>1, <3>2 DEF MapTypeOK
  <2>. QED BY <1>9, <2>1, <2>2 DEF DestroyRemove, Goto, TypeOK, Places, AttachLines, Ended
<1>10. CASE Restart
    BY <1>10 DEF Restart, MapRestart, TypeOK, MapTypeOK, EmptyTable, Closed, Window,
                 Table, Values, Places, AttachLines
<1>11. CASE UNCHANGED vars
    BY <1>11 DEF vars, TypeOK, MapTypeOK
<1>. QED BY <1>1, <1>2, <1>3, <1>4, <1>5, <1>6, <1>7, <1>8, <1>9, <1>10, <1>11
         DEF Next, Call, ServiceStep

(* Every variable of the map and of the four methods stays in its range.   *)
THEOREM TypeCorrect == Spec => []TypeOK
BY InitTypeOK, NextTypeOK, PTL DEF Spec

-------------------------------------------------------------------------------
(* No login is ever shown the data of another one, by a map that may lose, *)
(* undo and miss entries.  Inductive with what the threads saw when they   *)
(* began a call, since that is what such a map can write back.             *)
LEMMA InitOffered == Init => OfferedInv
BY MapAssumption DEF Init, OfferedInv, OnlyOffered, SeenOffered, MapInit, EmptyTable,
                     Closed

(* A step that puts into the map only what it held, what a thread saw, or  *)
(* a value that is no subject or was offered under its key.                *)
LEMMA TableOffered ==
    ASSUME TypeOK, OfferedInv, UNCHANGED offered, NEW w \in Workers,
           NEW k \in Sessions, NEW v \in Values,
           v \in Subjects => <<k, v>> \in offered,
           \A s \in Sessions :
               \/ pendingSessions'[s] = pendingSessions[s]
               \/ s = k /\ pendingSessions'[s] = v
               \/ pendingSessions'[s] = window[w].table[s],
           UNCHANGED <<key, val>>, CloseWindow(w)
    PROVE  OfferedInv'
<1>. USE MapAssumption DEF OfferedInv, OnlyOffered, SeenOffered
<1>1. OnlyOffered'
    OBVIOUS
<1>2. \A u \in Workers : window'[u] = window[u] \/ window'[u] = Closed
    BY DEF CloseWindow, TypeOK, MapTypeOK
<1>3. SeenOffered'
    BY <1>2 DEF Closed, EmptyTable
<1>. QED BY <1>1, <1>3

(* A step that leaves the map alone and remembers it at most.              *)
LEMMA WindowOffered ==
    ASSUME TypeOK, OfferedInv, UNCHANGED <<pendingSessions>>, offered \subseteq offered',
           NEW w \in Workers, NEW op \in {"put", "remove"}, NEW k \in Sessions,
           OpenWindow(w, op, k) \/ UNCHANGED window
    PROVE  SeenOffered'
<1>1. \A u \in Workers : window'[u] = window[u] \/ window'[u].table = pendingSessions
    BY DEF OpenWindow, TypeOK, MapTypeOK
<1>. QED BY <1>1 DEF OfferedInv, OnlyOffered, SeenOffered

LEMMA NextOffered == TypeOK /\ OfferedInv /\ [Next]_vars => OfferedInv'
<1>. SUFFICES ASSUME TypeOK, OfferedInv, [Next]_vars
              PROVE  OfferedInv'
    OBVIOUS
<1>. USE MapAssumption
<1>1. ASSUME NEW w \in Workers, NEW s \in Sessions,
             CallCreate(w, s) \/ CallGet(w, s)
      PROVE  OfferedInv'
    BY <1>1 DEF CallCreate, CallGet, Enter, TypeOK, OfferedInv, OnlyOffered, SeenOffered
<1>2. ASSUME NEW w \in Workers, NEW s \in Sessions, NEW x \in Subjects \cup {NoSubject},
             CallAttach(w, s, x)
      PROVE  OfferedInv'
    BY <1>2 DEF CallAttach, Enter, TypeOK, OfferedInv, OnlyOffered, SeenOffered
<1>3. ASSUME NEW w \in Workers, NEW s \in Sessions, CallDestroy(w, s)
      PROVE  OfferedInv'
  <2>1. SeenOffered'
    BY <1>3, WindowOffered DEF CallDestroy, Enter
  <2>2. OnlyOffered'
    BY <1>3 DEF CallDestroy, Enter, TypeOK, OfferedInv, OnlyOffered
  <2>. QED BY <2>1, <2>2 DEF OfferedInv
<1>4. ASSUME NEW w \in Workers, Return(w)
      PROVE  OfferedInv'
    BY <1>4 DEF Return, TypeOK, OfferedInv, OnlyOffered, SeenOffered
<1>5. ASSUME NEW w \in Workers, CreateSize(w) \/ GetContains(w)
      PROVE  OfferedInv'
    BY <1>5 DEF CreateSize, GetContains, OfferedInv, OnlyOffered, SeenOffered
<1>6. ASSUME NEW w \in Workers, CreateContains(w) \/ AttachContains(w)
      PROVE  OfferedInv'
  <2>1. key[w] \in Sessions
    BY <1>6 DEF CreateContains, AttachContains, TypeOK
  <2>2. SeenOffered'
    BY <1>6, <2>1, WindowOffered DEF CreateContains, AttachContains
  <2>. QED BY <1>6, <2>2 DEF CreateContains, AttachContains, OfferedInv, OnlyOffered
<1>7. ASSUME NEW w \in Workers, CreatePut(w)
      PROVE  OfferedInv'
  <2>1. key[w] \in Sessions /\ NoSubject \in Values
    BY <1>7 DEF CreatePut, TypeOK, Values
  <2>. QED BY <1>7, <2>1, PutValues, TableOffered DEF CreatePut, TypeOK
<1>8. ASSUME NEW w \in Workers, AttachPut(w)
      PROVE  OfferedInv'
  <2>1. key[w] \in Sessions /\ val[w] \in Subjects \cup {NoSubject}
    BY <1>8 DEF AttachPut, TypeOK
  <2>2. val[w] \in Values /\ (val[w] \in Subjects => <<key[w], val[w]>> \in offered)
    BY <2>1 DEF Values, OfferedInv, OnlyOffered
  <2>. QED BY <1>8, <2>1, <2>2, PutValues, TableOffered DEF AttachPut, TypeOK
<1>9. ASSUME NEW w \in Workers, GetGet(w)
      PROVE  OfferedInv'
  <2>1. key[w] \in Sessions
    BY <1>9 DEF GetGet, TypeOK
  <2>. QED BY <1>9, <2>1 DEF GetGet, TypeOK, OfferedInv, OnlyOffered, SeenOffered
<1>10. ASSUME NEW w \in Workers, DestroyRemove(w)
       PROVE  OfferedInv'
  <2>1. key[w] \in Sessions /\ Absent \in Values
    BY <1>10 DEF DestroyRemove, TypeOK, Values
  <2>. QED BY <1>10, <2>1, RemoveValues, TableOffered DEF DestroyRemove, TypeOK
<1>11. CASE Restart
    BY <1>11 DEF Restart, MapRestart, EmptyTable, Closed, OfferedInv, OnlyOffered, SeenOffered
<1>12. CASE UNCHANGED vars
    BY <1>12 DEF vars, OfferedInv, OnlyOffered, SeenOffered
<1>. QED BY <1>1, <1>2, <1>3, <1>4, <1>5, <1>6, <1>7, <1>8, <1>9, <1>10, <1>11, <1>12
         DEF Next, Call, ServiceStep

(* getSubjectBySessionId and the table show a login only what was attached *)
(* to it (attachSubjectToSession), over a map with races.                  *)
THEOREM OfferedAlways == Spec => []OfferedInv
BY InitTypeOK, NextTypeOK, InitOffered, NextOffered, PTL DEF Spec
-------------------------------------------------------------------------------
(* The overshoot of the limit.  Over an atomic map the size field is the   *)
(* number of entries, and every thread stands for at most one entry beyond *)
(* the limit: one that has passed the size check may still add a login,    *)
(* one that has found a login may put it back.                             *)
LEMMA FiniteParts ==
    /\ IsFiniteSet(Linked(pendingSessions))
    /\ IsFiniteSet(PutBack)
    /\ IsFiniteSet(Linked(pendingSessions) \cup PutBack)
    /\ IsFiniteSet(Creating) /\ IsFiniteSet(Attaching)
<1>1. /\ Linked(pendingSessions) \in SUBSET Sessions
      /\ PutBack \in SUBSET Sessions
      /\ Linked(pendingSessions) \cup PutBack \in SUBSET Sessions
      /\ Creating \in SUBSET Workers /\ Attaching \in SUBSET Workers
    BY DEF Linked, PutBack, Creating, Attaching
<1>. QED BY <1>1, FS_Subset, MapAssumption

(* The same after a step. *)
LEMMA FinitePartsNext ==
    /\ IsFiniteSet((Linked(pendingSessions) \cup PutBack)')
    /\ IsFiniteSet(Creating')
<1>1. /\ (Linked(pendingSessions) \cup PutBack)' \in SUBSET Sessions
      /\ Creating' \in SUBSET Workers
    BY DEF Linked, PutBack, Creating, Attaching
<1>. QED BY <1>1, FS_Subset, MapAssumption

(* An id that is about to be put back takes a thread of its own.           *)
LEMMA PutBackCount ==
    ASSUME TypeOK
    PROVE  Cardinality(PutBack) <= Cardinality(Attaching)
<1>. DEFINE f == [w \in Attaching |-> key[w]]
<1>1. \A w \in Attaching : key[w] \in PutBack
    BY DEF Attaching, PutBack, TypeOK
<1>2. f \in [Attaching -> PutBack]
    BY <1>1
<1>3. \A s \in PutBack : \E w \in Attaching : f[w] = s
    BY DEF PutBack
<1>. HIDE DEF f
<1>4. f \in Surjection(Attaching, PutBack)
    BY <1>2, <1>3 DEF Surjection
<1>. QED BY <1>4, FS_Surjection, FiniteParts

(* A call on the map that no other thread disturbs: the map is atomic, or  *)
(* there is one thread only and nothing has changed since its call began.  *)
Undisturbed(w) ==
    \/ Linearizable
    \/ /\ \A v \in Workers : v = w
       /\ window[w].table = pendingSessions
       /\ window[w].size = size

(* It finds what is there, and has nothing stale to write back.            *)
LEMMA NothingStale ==
    ASSUME NEW w \in Workers, Undisturbed(w)
    PROVE  /\ StaleKeys(w) = {}
           /\ ~Growing(w)
           /\ (IF Linearizable THEN size ELSE window[w].size) = size
BY DEF Undisturbed, StaleKeys, Growing

(* What an undisturbed put and an undisturbed remove do.                   *)
LEMMA AtomicPut ==
    ASSUME TypeOK, size = Cardinality(Linked(pendingSessions)),
           NEW w \in Workers, Undisturbed(w), NEW k \in Sessions,
           NEW v \in Values, v # Absent, Put(w, k, v)
    PROVE  /\ pendingSessions' = [pendingSessions EXCEPT ![k] = v]
           /\ Linked(pendingSessions') = Linked(pendingSessions) \cup {k}
           /\ size' = Cardinality(Linked(pendingSessions'))
<1>. USE DEF TypeOK, MapTypeOK, Table
<1>1. /\ StaleKeys(w) = {} /\ ~Growing(w)
      /\ (IF Linearizable THEN size ELSE window[w].size) = size
    BY NothingStale
<1>2. CASE Finds(k) /\ pendingSessions' = [pendingSessions EXCEPT ![k] = v]
                    /\ UNCHANGED size
  <2>1. Linked(pendingSessions') = Linked(pendingSessions)
    BY <1>2 DEF Finds, Linked
  <2>. QED BY <1>2, <2>1 DEF Finds, Linked
<1>3. CASE Misses(w, k) /\ Relink(w, k, v, 1)
  <2>1. /\ pendingSessions' = [s \in Sessions |-> IF s = k THEN v
                                                  ELSE pendingSessions[s]]
        /\ size' = size + 1
    BY <1>1, <1>3 DEF Relink
  <2>2. Linked(pendingSessions') = Linked(pendingSessions) \cup {k}
    BY <2>1 DEF Linked
  <2>3. k \notin Linked(pendingSessions)
    BY <1>1, <1>3 DEF Misses, Linked
  <2>4. Cardinality(Linked(pendingSessions) \cup {k})
            = Cardinality(Linked(pendingSessions)) + 1
    BY <2>3, FiniteParts, FS_AddElement
  <2>. QED BY <2>1, <2>2, <2>4
<1>. QED BY <1>1, <1>2, <1>3 DEF Put

LEMMA AtomicRemove ==
    ASSUME TypeOK, size = Cardinality(Linked(pendingSessions)),
           NEW w \in Workers, Undisturbed(w), NEW k \in Sessions, Remove(w, k)
    PROVE  /\ pendingSessions' = [pendingSessions EXCEPT ![k] = Absent]
           /\ Linked(pendingSessions') = Linked(pendingSessions) \ {k}
           /\ size' = Cardinality(Linked(pendingSessions'))
<1>. USE DEF TypeOK, MapTypeOK, Table
<1>1. /\ StaleKeys(w) = {} /\ ~Growing(w)
      /\ (IF Linearizable THEN size ELSE window[w].size) = size
    BY NothingStale
<1>2. CASE Finds(k) /\ Relink(w, k, Absent, -1)
  <2>1. /\ pendingSessions' = [s \in Sessions |-> IF s = k THEN Absent
                                                  ELSE pendingSessions[s]]
        /\ size' = size + (-1)
    BY <1>1, <1>2 DEF Relink
  <2>2. Linked(pendingSessions') = Linked(pendingSessions) \ {k}
    BY <2>1 DEF Linked
  <2>3. k \in Linked(pendingSessions)
    BY <1>2 DEF Finds, Linked
  <2>4. Cardinality(Linked(pendingSessions) \ {k})
            = Cardinality(Linked(pendingSessions)) - 1
    BY <2>3, FiniteParts, FS_RemoveElement
  <2>5. Cardinality(Linked(pendingSessions)) \in Nat
    BY FiniteParts, FS_CardinalityType
  <2>. QED BY <2>1, <2>2, <2>4, <2>5
<1>3. CASE Misses(w, k) /\ UNCHANGED <<pendingSessions, size>>
  <2>1. Linked(pendingSessions) = Linked(pendingSessions) \ {k}
    BY <1>1, <1>3 DEF Misses, Linked
  <2>2. pendingSessions' = [pendingSessions EXCEPT ![k] = Absent]
    BY <1>1, <1>3 DEF Misses
  <2>. QED BY <1>3, <2>1, <2>2
<1>. QED BY <1>1, <1>2, <1>3 DEF Remove

(* A step that keeps the size field right, and adds nothing to what counts *)
(* against the bound, keeps the invariant.                                 *)
LEMMA CapacityKept ==
    ASSUME TypeOK, CapacityInv, TypeOK',
           Linearizable =>
               /\ size' = Cardinality(Linked(pendingSessions'))
               /\ (Linked(pendingSessions) \cup PutBack)'
                      \subseteq Linked(pendingSessions) \cup PutBack
               /\ Creating' \subseteq Creating
    PROVE  CapacityInv'
<1>. SUFFICES ASSUME Linearizable
              PROVE  Cardinality((Linked(pendingSessions) \cup PutBack)')
                         + Cardinality(Creating')
                       <= MAX_SESSIONS + Cardinality(Workers)
    BY DEF CapacityInv
<1>1. Cardinality((Linked(pendingSessions) \cup PutBack)')
          <= Cardinality(Linked(pendingSessions) \cup PutBack)
    BY FiniteParts, FS_Subset
<1>2. Cardinality(Creating') <= Cardinality(Creating)
    BY FiniteParts, FS_Subset
<1>3. /\ Cardinality((Linked(pendingSessions) \cup PutBack)') \in Nat
      /\ Cardinality(Creating') \in Nat
    BY FinitePartsNext, FS_CardinalityType
<1>4. /\ Cardinality(Linked(pendingSessions) \cup PutBack) \in Nat
      /\ Cardinality(Creating) \in Nat
      /\ Cardinality(Workers) \in Nat
    BY FiniteParts, FS_CardinalityType, MapAssumption
<1>. QED BY <1>1, <1>2, <1>3, <1>4, LimitAssumption DEF CapacityInv
LEMMA InitCapacity == Init => CapacityInv
<1>. SUFFICES ASSUME Init
              PROVE  CapacityInv
    OBVIOUS
<1>1. /\ Linked(pendingSessions) = {} /\ PutBack = {} /\ Creating = {}
      /\ size = 0
    BY DEF Init, MapInit, EmptyTable, Linked, PutBack, Attaching, Creating
<1>2. Cardinality(Workers) \in Nat
    BY FS_CardinalityType, MapAssumption
<1>. QED BY <1>1, <1>2, FS_EmptySet, LimitAssumption DEF CapacityInv

(* The thread passes the size check: there were at most MAX_SESSIONS       *)
(* entries, and each other thread stands for one more at most.             *)
LEMMA CreateSizeCapacity ==
    ASSUME TypeOK, CapacityInv, TypeOK', NEW w \in Workers, CreateSize(w)
    PROVE  CapacityInv'
<1>. SUFFICES ASSUME Linearizable
              PROVE  CapacityInv'
    BY DEF CapacityInv
<1>0. UNCHANGED <<pendingSessions, size, key>>
    BY DEF CreateSize
<1>1. PutBack' = PutBack /\ Attaching' = Attaching
    BY DEF CreateSize, Goto, PutBack, Attaching, TypeOK
<1>2. CASE size <= MAX_SESSIONS
  <2>1. Cardinality((Linked(pendingSessions) \cup PutBack)')
            <= Cardinality(Linked(pendingSessions)) + Cardinality(PutBack)
    <3>1. Cardinality(Linked(pendingSessions) \cup PutBack)
              = Cardinality(Linked(pendingSessions)) + Cardinality(PutBack)
                    - Cardinality(Linked(pendingSessions) \cap PutBack)
        BY FiniteParts, FS_Union
    <3>2. Cardinality(Linked(pendingSessions) \cap PutBack) \in Nat
        BY FiniteParts, FS_Subset, FS_CardinalityType
    <3>3. /\ Cardinality(Linked(pendingSessions)) \in Nat
          /\ Cardinality(PutBack) \in Nat
        BY FiniteParts, FS_CardinalityType
    <3>. QED BY <1>0, <1>1, <3>1, <3>2, <3>3
  <2>2. Cardinality(Attaching) + Cardinality(Creating') <= Cardinality(Workers)
    <3>1. IsFiniteSet(Attaching) /\ IsFiniteSet(Creating')
        BY FiniteParts, FinitePartsNext
    <3>2. Attaching \cap Creating' = {}
        BY <1>1 DEF Attaching, Creating
    <3>3. Cardinality(Attaching \cup Creating')
              = Cardinality(Attaching) + Cardinality(Creating')
      <4>1. Cardinality(Attaching \cup Creating')
                = Cardinality(Attaching) + Cardinality(Creating')
                      - Cardinality(Attaching \cap Creating')
        BY <3>1, FS_Union
      <4>2. Cardinality(Attaching \cap Creating') = 0
        BY <3>2, FS_EmptySet
      <4>3. Cardinality(Attaching) \in Nat /\ Cardinality(Creating') \in Nat
        BY <3>1, FS_CardinalityType
      <4>. QED BY <4>1, <4>2, <4>3
    <3>4. Attaching \cup Creating' \in SUBSET Workers
        BY DEF Attaching, Creating
    <3>. QED BY <3>3, <3>4, FS_Subset, MapAssumption
  <2>3. /\ Cardinality(Linked(pendingSessions)) \in Nat
        /\ Cardinality(PutBack) \in Nat /\ Cardinality(Attaching) \in Nat
        /\ Cardinality(Creating') \in Nat /\ Cardinality(Workers) \in Nat
    BY FiniteParts, FinitePartsNext, FS_CardinalityType, MapAssumption
  <2>4. Cardinality((Linked(pendingSessions) \cup PutBack)') \in Nat
    BY FinitePartsNext, FS_CardinalityType
  <2>5. Cardinality(Linked(pendingSessions)) <= MAX_SESSIONS
    BY <1>2 DEF CapacityInv
  <2>6. Cardinality((Linked(pendingSessions) \cup PutBack)') + Cardinality(Creating')
            <= MAX_SESSIONS + Cardinality(Workers)
    BY <2>1, <2>2, <2>3, <2>4, <2>5, PutBackCount, LimitAssumption
  <2>. QED BY <1>0, <2>6 DEF CapacityInv
<1>3. CASE ~(size <= MAX_SESSIONS)
  <2>1. Creating' = Creating
    BY <1>3 DEF CreateSize, Goto, Creating, TypeOK
  <2>. QED BY <1>0, <1>1, <2>1, CapacityKept DEF CapacityInv
<1>. QED BY <1>2, <1>3

(* The thread adds its login, which it already stood for.                  *)
LEMMA CreatePutCapacity ==
    ASSUME TypeOK, CapacityInv, TypeOK', NEW w \in Workers, CreatePut(w)
    PROVE  CapacityInv'
<1>. SUFFICES ASSUME Linearizable
              PROVE  CapacityInv'
    BY DEF CapacityInv
<1>. DEFINE counted == Linked(pendingSessions) \cup PutBack
<1>1. key[w] \in Sessions /\ NoSubject \in Values /\ NoSubject # Absent
    BY MapAssumption DEF CreatePut, TypeOK, Values
<1>2. /\ Linked(pendingSessions') = Linked(pendingSessions) \cup {key[w]}
      /\ size' = Cardinality(Linked(pendingSessions'))
    BY <1>1, AtomicPut DEF CreatePut, CapacityInv, Undisturbed
<1>3. PutBack' = PutBack
    BY DEF CreatePut, Goto, PutBack, Attaching, TypeOK
<1>4. counted' = counted \cup {key[w]}
    BY <1>2, <1>3
<1>5. Creating' = Creating \ {w} /\ w \in Creating
    BY DEF CreatePut, Goto, Creating, TypeOK
<1>6. Cardinality(counted') <= Cardinality(counted) + 1
    <2>1. IsFiniteSet(counted)
        BY FiniteParts
    <2>2. Cardinality(counted) \in Nat
        BY <2>1, FS_CardinalityType
    <2>. HIDE DEF counted
    <2>. QED BY <1>4, <2>1, <2>2, FS_AddElement
<1>7. Cardinality(Creating') = Cardinality(Creating) - 1
    BY <1>5, FiniteParts, FS_RemoveElement
<1>8. /\ Cardinality(counted) \in Nat /\ Cardinality(counted') \in Nat
      /\ Cardinality(Creating) \in Nat /\ Cardinality(Workers) \in Nat
    BY FiniteParts, FinitePartsNext, FS_CardinalityType, MapAssumption
<1>9. Cardinality(counted) + Cardinality(Creating) <= MAX_SESSIONS + Cardinality(Workers)
    BY DEF CapacityInv
<1>10. Cardinality(counted') + Cardinality(Creating')
           <= MAX_SESSIONS + Cardinality(Workers)
    <2>. HIDE DEF counted
    <2>. QED BY <1>6, <1>7, <1>8, <1>9, LimitAssumption
<1>. QED BY <1>2, <1>10 DEF CapacityInv

LEMMA NextCapacity == TypeOK /\ CapacityInv /\ [Next]_vars => CapacityInv'
<1>. SUFFICES ASSUME TypeOK, CapacityInv, [Next]_vars
              PROVE  CapacityInv'
    OBVIOUS
<1>0. TypeOK'
    BY NextTypeOK
<1>1. ASSUME NEW w \in Workers, Call(w) \/ Return(w) \/ GetContains(w) \/ GetGet(w)
      PROVE  CapacityInv'
  <2>1. UNCHANGED <<pendingSessions, size>>
    BY <1>1 DEF Call, CallCreate, CallGet, CallAttach, CallDestroy, Enter, Return,
                GetContains, GetGet
  <2>2. Creating' = Creating /\ Attaching' = Attaching
    BY <1>1 DEF Call, CallCreate, CallGet, CallAttach, CallDestroy, Enter, Return,
                GetContains, GetGet, Goto, Creating, Attaching, TypeOK, Ended
  <2>3. \A v \in Attaching : key'[v] = key[v]
    BY <1>1 DEF Call, CallCreate, CallGet, CallAttach, CallDestroy, Enter, Return,
                GetContains, GetGet, Attaching, TypeOK, Ended
  <2>4. PutBack' = PutBack
    BY <2>2, <2>3 DEF PutBack
  <2>. QED BY <1>0, <2>1, <2>2, <2>4, CapacityKept DEF CapacityInv
<1>2. ASSUME NEW w \in Workers, CreateSize(w)
      PROVE  CapacityInv'
    BY <1>0, <1>2, CreateSizeCapacity
<1>3. ASSUME NEW w \in Workers, CreateContains(w)
      PROVE  CapacityInv'
  <2>1. UNCHANGED <<pendingSessions, size, key>>
    BY <1>3 DEF CreateContains
  <2>2. Creating' \subseteq Creating /\ PutBack' = PutBack
    BY <1>3 DEF CreateContains, Goto, Creating, Attaching, PutBack, TypeOK
  <2>. QED BY <1>0, <2>1, <2>2, CapacityKept DEF CapacityInv
<1>4. ASSUME NEW w \in Workers, CreatePut(w)
      PROVE  CapacityInv'
    BY <1>0, <1>4, CreatePutCapacity
<1>5. ASSUME NEW w \in Workers, AttachContains(w)
      PROVE  CapacityInv'
  <2>1. UNCHANGED <<pendingSessions, size, key>>
    BY <1>5 DEF AttachContains
  <2>2. Creating' = Creating
    BY <1>5 DEF AttachContains, Goto, Creating, TypeOK
  <2>3. Linearizable => PutBack' \subseteq Linked(pendingSessions) \cup PutBack
    BY <1>5 DEF AttachContains, Goto, Attaching, PutBack, Linked, Finds, TypeOK
  <2>. QED BY <1>0, <2>1, <2>2, <2>3, CapacityKept DEF CapacityInv
<1>6. ASSUME NEW w \in Workers, AttachPut(w)
      PROVE  CapacityInv'
  <2>1. /\ key[w] \in Sessions /\ key[w] \in PutBack
        /\ val[w] \in Values /\ val[w] # Absent
    BY <1>6, MapAssumption DEF AttachPut, TypeOK, Values, PutBack, Attaching
  <2>2. Linearizable =>
            /\ Linked(pendingSessions') = Linked(pendingSessions) \cup {key[w]}
            /\ size' = Cardinality(Linked(pendingSessions'))
    BY <1>6, <2>1, AtomicPut DEF AttachPut, CapacityInv, Undisturbed
  <2>3. PutBack' \subseteq PutBack /\ Creating' = Creating
    BY <1>6 DEF AttachPut, Goto, Attaching, PutBack, Creating, TypeOK
  <2>. QED BY <1>0, <2>1, <2>2, <2>3, CapacityKept
<1>7. ASSUME NEW w \in Workers, DestroyRemove(w)
      PROVE  CapacityInv'
  <2>1. key[w] \in Sessions
    BY <1>7 DEF DestroyRemove, TypeOK
  <2>2. Linearizable =>
            /\ Linked(pendingSessions') = Linked(pendingSessions) \ {key[w]}
            /\ size' = Cardinality(Linked(pendingSessions'))
    BY <1>7, <2>1, AtomicRemove DEF DestroyRemove, CapacityInv, Undisturbed
  <2>3. PutBack' = PutBack /\ Creating' = Creating
    BY <1>7 DEF DestroyRemove, Goto, Attaching, PutBack, Creating, TypeOK
  <2>. QED BY <1>0, <2>2, <2>3, CapacityKept
<1>8. CASE Restart
  <2>1. /\ Linked(pendingSessions') = {} /\ PutBack' = {} /\ Creating' = {}
        /\ size' = 0
    BY <1>8 DEF Restart, MapRestart, EmptyTable, Linked, PutBack, Attaching, Creating
  <2>. QED BY <1>0, <2>1, FS_EmptySet, CapacityKept
<1>9. CASE UNCHANGED vars
    BY <1>9 DEF vars, CapacityInv, Creating, PutBack, Attaching
<1>. QED BY <1>1, <1>2, <1>3, <1>4, <1>5, <1>6, <1>7, <1>8, <1>9 DEF Next, ServiceStep

(* The invariant implies the bound: the open logins are among those that   *)
(* count.                                                                  *)
LEMMA CapacityInvBound == TypeOK /\ CapacityInv => CapacityBound
<1>. SUFFICES ASSUME TypeOK, CapacityInv, Linearizable
              PROVE  Cardinality(Linked(pendingSessions))
                         <= MAX_SESSIONS + Cardinality(Workers)
    BY DEF CapacityBound
<1>1. Cardinality(Linked(pendingSessions))
          <= Cardinality(Linked(pendingSessions) \cup PutBack)
    BY FiniteParts, FS_Subset
<1>2. /\ Cardinality(Linked(pendingSessions)) \in Nat
      /\ Cardinality(Linked(pendingSessions) \cup PutBack) \in Nat
      /\ Cardinality(Creating) \in Nat /\ Cardinality(Workers) \in Nat
    BY FiniteParts, FS_CardinalityType, MapAssumption
<1>. QED BY <1>1, <1>2, LimitAssumption DEF CapacityInv

(* The size field and the counted threads, at every moment (the size check *)
(* and the put of createNewSessionForId, the put of                        *)
(* attachSubjectToSession).                                                *)
THEOREM CapacityCounted == Spec => []CapacityInv
BY InitTypeOK, NextTypeOK, InitCapacity, NextCapacity, PTL DEF Spec

(* The limit is overshot by at most one login per thread                   *)
(* (createNewSessionForId).                                                *)
THEOREM CapacityBounded == Spec => []CapacityBound
BY TypeCorrect, CapacityCounted, CapacityInvBound, PTL
-------------------------------------------------------------------------------
(* Calls that do not overlap keep the promise, over the unsynchronized map *)
(* as well.  Serial says that there is one thread; between its check and   *)
(* its put nothing changes the table, and its calls on the map change what *)
(* they found when they began.                                             *)
Serial == \A v, w \in Workers : v = w

SerialInv ==
    /\ size = Cardinality(Linked(pendingSessions))
    /\ \A w \in Workers :
           /\ at[w] \in {"create.contains", "create.put"}
                  => Cardinality(Linked(pendingSessions)) <= MAX_SESSIONS
           /\ at[w] = "create.put" => pendingSessions[key[w]] = Absent
           /\ at[w] = "attach.put" => pendingSessions[key[w]] # Absent
           /\ at[w] \in AttachLines => <<key[w], val[w]>> \in offered
           /\ at[w] \in {"create.put", "attach.put", "destroy.remove"} => Undisturbed(w)

LEMMA InitSerial == Init => SerialInv
BY FS_EmptySet DEF Init, SerialInv, MapInit, EmptyTable, Linked, AttachLines

(* Between two calls on the map the table is that of the promise, and only *)
(* a caller offers something.                                              *)
LEMMA QuietStep ==
    ASSUME Serial, TypeOK, SerialInv, NEW w \in Workers,
           \/ Call(w) \/ Return(w) \/ CreateSize(w) \/ CreateContains(w)
           \/ GetContains(w) \/ GetGet(w) \/ AttachContains(w)
    PROVE  /\ SerialInv' /\ UNCHANGED pendingSessions
           /\ \/ UNCHANGED offered
              \/ \E s \in Sessions, x \in Subjects \cup {NoSubject} :
                     offered' = offered \cup {<<s, x>>}
<1>. USE DEF Serial, TypeOK, MapTypeOK, Goto, Undisturbed, AttachLines
<1>0. \A v \in Workers : v = w
    BY DEF Serial
<1>1. CASE Call(w) \/ Return(w) \/ GetContains(w) \/ GetGet(w)
    BY <1>0, <1>1 DEF Call, CallCreate, CallGet, CallAttach, CallDestroy, Enter, Return,
                      OpenWindow, GetContains, GetGet, SerialInv
<1>2. CASE CreateSize(w)
    BY <1>0, <1>2 DEF CreateSize, SerialInv
<1>3. CASE CreateContains(w)
    BY <1>0, <1>3 DEF CreateContains, SerialInv, Finds, Misses, Growing, OpenWindow
<1>4. CASE AttachContains(w)
    BY <1>0, <1>4 DEF AttachContains, SerialInv, Finds, Misses, Growing, OpenWindow
<1>. QED BY <1>1, <1>2, <1>3, <1>4

LEMMA NextSerial ==
    ASSUME Serial, TypeOK, SerialInv, [Next]_vars
    PROVE  SerialInv' /\ [Promise!Next]_<<pendingSessions, offered>>
<1>. USE DEF Promise!Next
<1>1. ASSUME NEW w \in Workers,
             \/ Call(w) \/ Return(w) \/ CreateSize(w) \/ CreateContains(w)
             \/ GetContains(w) \/ GetGet(w) \/ AttachContains(w)
      PROVE  SerialInv' /\ [Promise!Next]_<<pendingSessions, offered>>
  <2>1. SerialInv' /\ UNCHANGED pendingSessions
    BY <1>1, QuietStep
  <2>2. CASE UNCHANGED offered
    BY <2>1, <2>2
  <2>3. CASE \E s \in Sessions, x \in Subjects \cup {NoSubject} :
                 offered' = offered \cup {<<s, x>>}
    BY <2>1, <2>3 DEF Promise!Offer
  <2>. QED BY <1>1, <2>1, <2>2, <2>3, QuietStep
<1>2. ASSUME NEW w \in Workers, CreatePut(w)
      PROVE  SerialInv' /\ Promise!Next
  <2>1. key[w] \in Sessions /\ NoSubject \in Values /\ NoSubject # Absent
    BY <1>2, MapAssumption DEF CreatePut, TypeOK, Values
  <2>2. /\ pendingSessions' = [pendingSessions EXCEPT ![key[w]] = NoSubject]
        /\ size' = Cardinality(Linked(pendingSessions'))
    BY <1>2, <2>1, AtomicPut DEF CreatePut, SerialInv
  <2>3. Cardinality(Linked(pendingSessions)) < MAX_SESSIONS + 1
    <3>1. Cardinality(Linked(pendingSessions)) \in Nat
      BY FiniteParts, FS_CardinalityType
    <3>2. Cardinality(Linked(pendingSessions)) <= MAX_SESSIONS
      BY <1>2, Zenon DEF CreatePut, SerialInv
    <3>. QED BY <3>1, <3>2, LimitAssumption
  <2>4. Promise!Open(key[w])
    <3>1. Promise!OpenLogins = Linked(pendingSessions)
      BY DEF Promise!OpenLogins, Linked
    <3>2. pendingSessions[key[w]] = Absent
      BY <1>2 DEF CreatePut, SerialInv
    <3>3. Promise!Cardinality(Linked(pendingSessions)) = Cardinality(Linked(pendingSessions))
      BY DEF Promise!Cardinality, Cardinality
    <3>4. UNCHANGED offered
      BY <1>2 DEF CreatePut
    <3>. QED BY <2>2, <2>3, <3>1, <3>2, <3>3, <3>4 DEF Promise!Open
  <2>5. SerialInv'
    BY <1>2, <2>2 DEF CreatePut, Goto, TypeOK, SerialInv, Serial, AttachLines
  <2>. QED BY <2>1, <2>4, <2>5
<1>3. ASSUME NEW w \in Workers, AttachPut(w)
      PROVE  SerialInv' /\ Promise!Next
  <2>1. /\ key[w] \in Sessions /\ val[w] \in Subjects \cup {NoSubject}
        /\ val[w] \in Values /\ val[w] # Absent
    BY <1>3, MapAssumption DEF AttachPut, TypeOK, Values
  <2>2. /\ pendingSessions' = [pendingSessions EXCEPT ![key[w]] = val[w]]
        /\ size' = Cardinality(Linked(pendingSessions'))
    <3>1. Put(w, key[w], val[w])
      BY <1>3 DEF AttachPut
    <3>2. size = Cardinality(Linked(pendingSessions)) /\ Undisturbed(w)
      BY <1>3 DEF AttachPut, SerialInv
    <3>. QED BY <2>1, <3>1, <3>2, AtomicPut
  <2>3. Promise!Attach(key[w], val[w])
    BY <1>3, <2>2 DEF Promise!Attach, AttachPut, SerialInv, AttachLines
  <2>4. SerialInv'
    BY <1>3, <2>2 DEF AttachPut, Goto, TypeOK, SerialInv, Serial, AttachLines
  <2>. QED BY <2>1, <2>3, <2>4
<1>4. ASSUME NEW w \in Workers, DestroyRemove(w)
      PROVE  SerialInv' /\ Promise!Next
  <2>1. key[w] \in Sessions
    BY <1>4 DEF DestroyRemove, TypeOK
  <2>2. /\ pendingSessions' = [pendingSessions EXCEPT ![key[w]] = Absent]
        /\ size' = Cardinality(Linked(pendingSessions'))
    BY <1>4, <2>1, AtomicRemove DEF DestroyRemove, SerialInv
  <2>3. Promise!Close(key[w])
    BY <1>4, <2>2 DEF Promise!Close, DestroyRemove
  <2>4. SerialInv'
    BY <1>4, <2>2 DEF DestroyRemove, Goto, TypeOK, SerialInv, Serial, AttachLines
  <2>. QED BY <2>1, <2>3, <2>4
<1>5. CASE Restart
  <2>1. Promise!Forget
    BY <1>5 DEF Restart, MapRestart, EmptyTable, Promise!Forget
  <2>2. SerialInv'
    BY <1>5, FS_EmptySet DEF Restart, MapRestart, EmptyTable, Linked, SerialInv, AttachLines
  <2>. QED BY <2>1, <2>2
<1>6. CASE UNCHANGED vars
    BY <1>6 DEF vars, SerialInv, Undisturbed
<1>. QED BY <1>1, <1>2, <1>3, <1>4, <1>5, <1>6 DEF Next, ServiceStep

(* The implementation theorem: with calls that do not overlap, the service *)
(* implements PendingSessions, whatever the limit and the ids, and with a  *)
(* HashMap that nobody synchronizes.                                       *)
THEOREM SerialKeepsPromise ==
    ASSUME Serial
    PROVE  Spec => KeepsPromise
<1>1. Init => Promise!Init
    BY DEF Init, MapInit, EmptyTable, Promise!Init
<1>2. TypeOK /\ SerialInv /\ [Next]_vars => SerialInv' /\ [Promise!Next]_<<pendingSessions, offered>>
    BY NextSerial
<1>. QED BY <1>1, <1>2, InitTypeOK, NextTypeOK, InitSerial, PTL
         DEF Spec, KeepsPromise, Promise!Spec
===============================================================================
