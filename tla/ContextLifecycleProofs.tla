------------------------ MODULE ContextLifecycleProofs ------------------------
(****************************************************************************)
(* Theorems about the memory of a context, for any number of threads, any   *)
(* number of slots and any first capacity: whatever allocation fails,       *)
(* nothing is freed twice, nothing leaks, and slots stay where they are.    *)
(****************************************************************************)
EXTENDS ContextLifecycle, PartitionProofs, SequenceTheorems

(****************************************************************************)
(* Ownership: a set of places, the pointers they hold and the blocks that   *)
(* are allocated.  Each place has a block of its own, and none is left over.*)
(****************************************************************************)
Owns(pointer, places, blocks) ==
  /\ \A p \in places : pointer[p] \in blocks
  /\ \A p, q \in places : pointer[p] = pointer[q] => p = q
  /\ \A b \in blocks : \E p \in places : pointer[p] = b

(* Only the pointers of the places matter.                                  *)
LEMMA OwnsSame ==
  ASSUME NEW f, NEW g, NEW P, NEW H, Owns(f, P, H), \A p \in P : g[p] = f[p]
  PROVE  Owns(g, P, H)
  BY DEF Owns

(* A place is given a new block.                                            *)
LEMMA OwnsMore ==
  ASSUME NEW f, NEW g, NEW P, NEW H, NEW new, Owns(f, P, H),
         \A p \in P : g[p] = f[p], new \notin P, g[new] \notin H
  PROVE  Owns(g, P \cup {new}, H \cup {g[new]})
  <1>1. \A p \in P \cup {new} : g[p] \in H \cup {g[new]}
    BY DEF Owns
  <1>2. \A p, q \in P \cup {new} : g[p] = g[q] => p = q
    BY DEF Owns
  <1>3. \A b \in H \cup {g[new]} : \E p \in P \cup {new} : g[p] = b
    BY DEF Owns
  <1> QED
    BY <1>1, <1>2, <1>3 DEF Owns

(* A place is given a new block in exchange for the one it had, if it had   *)
(* one.                                                                     *)
LEMMA OwnsRenewed ==
  ASSUME NEW f, NEW g, NEW P, NEW H, NEW p, NEW old, Owns(f, P, H),
         \A x \in P \ {p} : g[x] = f[x], g[p] \notin H, old # g[p],
         p \in P => old = f[p], p \notin P => old \notin H
  PROVE  Owns(g, P \cup {p}, (H \cup {g[p]}) \ {old})
  <1> DEFINE K == (H \cup {g[p]}) \ {old}
  <1>1. \A x \in P \cup {p} : g[x] \in K
    BY DEF Owns
  <1>2. \A x, y \in P \cup {p} : g[x] = g[y] => x = y
    BY DEF Owns
  <1>3. \A b \in K : \E x \in P \cup {p} : g[x] = b
    <2> SUFFICES ASSUME NEW b \in K
                 PROVE  \E x \in P \cup {p} : g[x] = b
      OBVIOUS
    <2>1. CASE b = g[p]
      BY <2>1
    <2>2. CASE b # g[p]
      <3>1. PICK x \in P : f[x] = b
        BY <2>2 DEF Owns
      <3>2. x # p
        BY <3>1
      <3> QED
        BY <3>1, <3>2
    <2> QED
      BY <2>1, <2>2
  <1> HIDE DEF K
  <1>4. Owns(g, P \cup {p}, K)
    BY <1>1, <1>2, <1>3 DEF Owns
  <1> QED
    BY <1>4 DEF K

(* The blocks of some places are freed.                                     *)
LEMMA OwnsLess ==
  ASSUME NEW f, NEW g, NEW P, NEW H, NEW F, F \subseteq P, Owns(f, P, H),
         \A p \in P \ F : g[p] = f[p]
  PROVE  Owns(g, P \ F, H \ {f[p] : p \in F})
  <1> DEFINE K == H \ {f[p] : p \in F}
  <1>1. \A p \in P \ F : g[p] \in K
    BY DEF Owns
  <1>2. \A p, q \in P \ F : g[p] = g[q] => p = q
    BY DEF Owns
  <1>3. \A b \in K : \E p \in P \ F : g[p] = b
    BY DEF Owns
  <1> HIDE DEF K
  <1>4. Owns(g, P \ F, K)
    BY <1>1, <1>2, <1>3 DEF Owns
  <1> QED
    BY <1>4 DEF K
(* The same, element by element.                                            *)
Without(F, f, P, H, g, Q, K) ==
  /\ F \subseteq P
  /\ \A p : p \in Q <=> p \in P /\ p \notin F
  /\ \A b : b \in K <=> b \in H /\ \A p \in F : f[p] # b
  /\ \A p \in Q : g[p] = f[p]

(* What is left is owned as before.                                         *)
LEMMA OwnsLeft ==
  ASSUME NEW F, NEW f, NEW P, NEW H, NEW g, NEW Q, NEW K,
         Owns(f, P, H), Without(F, f, P, H, g, Q, K)
  PROVE  Owns(g, Q, K)
  BY DEF Owns, Without
-----------------------------------------------------------------------------
(****************************************************************************)
(* Places, and what they point to, as functions of the variables.           *)
(****************************************************************************)
AllPlaces ==
  ({"block"} \X Rungs) \cup ({"memory"} \X Threads) \cup {<<"configs">>}
    \cup ({"array"} \X Threads) \cup QueuePlaces \cup ({"data"} \X Threads \X Nat)

Pointers(b, m, c, s, q) ==
  [p \in AllPlaces |->
     CASE p[1] = "block"   -> b[p[2]]
       [] p[1] = "memory"  -> m[p[2]]
       [] p[1] = "configs" -> c
       [] p[1] = "array"   -> s[p[2]].array
       [] p[1] = "data"    -> s[p[2]].data[p[3]]
       [] p[1] = "queue"   -> q[p[2]]]

(* The places in use when the first n workers have been torn down.          *)
InUse(b, m, c, s, q, n) ==
  {p \in AllPlaces :
     /\ p[1] = "data" => p[3] \in 1 .. Len(s[p[2]].data)
     /\ Pointers(b, m, c, s, q)[p] # NULL
     /\ p[1] \in {"memory", "array", "data"} => p[2] >= n}

(* A place has one of six forms.                                            *)
LEMMA Forms ==
  ASSUME NEW p
  PROVE  p \in AllPlaces <=>
           \/ \E r \in Rungs : p = <<"block", r>>
           \/ \E t \in Threads : p = <<"memory", t>>
           \/ p = <<"configs">>
           \/ \E t \in Threads : p = <<"array", t>>
           \/ \E e \in {"header", "slot_buffer"} : p = <<"queue", e>>
           \/ \E t \in Threads : \E k \in Nat : p = <<"data", t, k>>
  BY DEF AllPlaces, QueuePlaces

(* What is in use, place by place, and what it points to.                   *)
Described(f, L, b, m, c, s, q, n) ==
  /\ \A r \in Rungs : f[<<"block", r>>] = b[r] /\ (<<"block", r>> \in L <=> b[r] # NULL)
  /\ \A t \in Threads : /\ f[<<"memory", t>>] = m[t]
                        /\ <<"memory", t>> \in L <=> m[t] # NULL /\ t >= n
  /\ f[<<"configs">>] = c /\ (<<"configs">> \in L <=> c # NULL)
  /\ \A t \in Threads : /\ f[<<"array", t>>] = s[t].array
                        /\ <<"array", t>> \in L <=> s[t].array # NULL /\ t >= n
  /\ \A e \in {"header", "slot_buffer"} :
       f[<<"queue", e>>] = q[e] /\ (<<"queue", e>> \in L <=> q[e] # NULL)
  /\ \A t \in Threads : \A k \in Nat :
       /\ f[<<"data", t, k>>] = s[t].data[k]
       /\ <<"data", t, k>> \in L <=>
            k \in 1 .. Len(s[t].data) /\ s[t].data[k] # NULL /\ t >= n

(* The definitions say just that.                                           *)
LEMMA PlaceByPlace ==
  ASSUME NEW b, NEW m, NEW c, NEW s, NEW q, NEW n
  PROVE  Described(Pointers(b, m, c, s, q), InUse(b, m, c, s, q, n), b, m, c, s, q, n)
  <1> DEFINE f == Pointers(b, m, c, s, q)
             L == InUse(b, m, c, s, q, n)
  <1>1. ASSUME NEW r \in Rungs
        PROVE  f[<<"block", r>>] = b[r] /\ (<<"block", r>> \in L <=> b[r] # NULL)
    <2>1. <<"block", r>> \in AllPlaces /\ <<"block", r>>[1] = "block" /\ <<"block", r>>[2] = r
      BY Forms
    <2>2. f[<<"block", r>>] = b[r]
      BY <2>1 DEF Pointers
    <2> QED
      BY <2>1, <2>2 DEF InUse
  <1>2. ASSUME NEW t \in Threads
        PROVE  f[<<"memory", t>>] = m[t] /\ (<<"memory", t>> \in L <=> m[t] # NULL /\ t >= n)
    <2>1. <<"memory", t>> \in AllPlaces /\ <<"memory", t>>[1] = "memory"
          /\ <<"memory", t>>[2] = t
      BY Forms
    <2>2. f[<<"memory", t>>] = m[t]
      BY <2>1 DEF Pointers
    <2> QED
      BY <2>1, <2>2 DEF InUse
  <1>3. f[<<"configs">>] = c /\ (<<"configs">> \in L <=> c # NULL)
    <2>1. <<"configs">> \in AllPlaces /\ <<"configs">>[1] = "configs"
      BY Forms
    <2>2. f[<<"configs">>] = c
      BY <2>1 DEF Pointers
    <2> QED
      BY <2>1, <2>2 DEF InUse
  <1>4. ASSUME NEW t \in Threads
        PROVE  f[<<"array", t>>] = s[t].array
               /\ (<<"array", t>> \in L <=> s[t].array # NULL /\ t >= n)
    <2>1. <<"array", t>> \in AllPlaces /\ <<"array", t>>[1] = "array"
          /\ <<"array", t>>[2] = t
      BY Forms
    <2>2. f[<<"array", t>>] = s[t].array
      BY <2>1 DEF Pointers
    <2> QED
      BY <2>1, <2>2 DEF InUse
  <1>5. ASSUME NEW e \in {"header", "slot_buffer"}
        PROVE  f[<<"queue", e>>] = q[e] /\ (<<"queue", e>> \in L <=> q[e] # NULL)
    <2>1. <<"queue", e>> \in AllPlaces /\ <<"queue", e>>[1] = "queue"
          /\ <<"queue", e>>[2] = e
      BY Forms
    <2>2. f[<<"queue", e>>] = q[e]
      BY <2>1 DEF Pointers
    <2> QED
      BY <2>1, <2>2 DEF InUse
  <1>6. ASSUME NEW t \in Threads, NEW k \in Nat
        PROVE  /\ f[<<"data", t, k>>] = s[t].data[k]
               /\ <<"data", t, k>> \in L <=>
                    k \in 1 .. Len(s[t].data) /\ s[t].data[k] # NULL /\ t >= n
    <2>1. <<"data", t, k>> \in AllPlaces /\ <<"data", t, k>>[1] = "data"
          /\ <<"data", t, k>>[2] = t /\ <<"data", t, k>>[3] = k
      BY Forms
    <2>2. f[<<"data", t, k>>] = s[t].data[k]
      BY <2>1 DEF Pointers
    <2> QED
      BY <2>1, <2>2 DEF InUse
  <1> HIDE DEF f, L
  <1> QED
    BY <1>1, <1>2, <1>3, <1>4, <1>5, <1>6 DEF f, L, Described
-----------------------------------------------------------------------------
(****************************************************************************)
(* The inductive invariant.                                                 *)
(****************************************************************************)
Gone == IF phase = "destroying" THEN step ELSE 0

Ptr  == Pointers(block, memory, slot_configs, slots, queue)
Held == InUse(block, memory, slot_configs, slots, queue, Gone)

HeldData == {p \in Held : p[1] = "data"}

Ownership == Owns(Ptr, Held, heap) /\ Owns(Ptr, HeldData, initialised)

(* The context as far as it has been built, phase by phase.                 *)
NothingRegistered ==
  /\ slot_count = 0 /\ slot_capacity = 0 /\ slot_configs = NULL
  /\ slots = [t \in Threads |-> NoSlots]

QueueWhole == queue.header = NULL <=> queue.slot_buffer = NULL

AllBlocks == \A r \in Rungs : block[r] = NULL <=> Skipped(r)

Built ==
  /\ phase = "none" =>
       /\ step = 0 /\ block = [r \in Rungs |-> NULL]
       /\ memory = [t \in Threads |-> NULL] /\ NothingRegistered
  /\ phase = "creating" =>
       /\ step \in 1 .. Len(Ladder)
       /\ \A k \in 1 .. Len(Ladder) :
            block[Ladder[k]] = NULL <=> k >= step \/ Skipped(Ladder[k])
       /\ memory = [t \in Threads |-> NULL] /\ NothingRegistered
  /\ phase = "memories" =>
       /\ step \in Threads /\ AllBlocks
       /\ \A t \in Threads : memory[t] = NULL <=> t >= step
       /\ NothingRegistered
  /\ phase \in {"ready", "registering", "destroying"} =>
       AllBlocks /\ \A t \in Threads : memory[t] # NULL
  /\ phase = "ready" => step = 0
  /\ phase \in {"registering", "destroying"} => step \in 0 .. ThreadCount + 1
  /\ phase = "registering" => slot_count < MaxSlots /\ slot_count < slot_capacity
  /\ QueueWhole

(* The slots that are registered are all there; of the next one, those of   *)
(* the workers that the loop of register_slot has passed.                   *)
DataThere ==
  \A t \in Threads :
    /\ slot_count <= Len(slots[t].data)
    /\ \A k \in 1 .. Len(slots[t].data) :
         slots[t].data[k] # NULL <=>
           \/ k <= slot_count
           \/ phase = "registering" /\ t < step /\ k = slot_count + 1
    /\ phase = "registering" /\ t < step => slot_count < Len(slots[t].data)

IInv ==
  /\ TypeOK /\ IsFiniteSet(heap) /\ NoBadFree
  /\ Ownership /\ Built /\ DataThere
-----------------------------------------------------------------------------
(****************************************************************************)
(* Facts that all the steps use.                                            *)
(****************************************************************************)
LEMMA RungNames ==
  /\ Len(Ladder) = 6 /\ Len(Undone) = 6
  /\ Ladder[1] = "context" /\ Ladder[2] = "staging" /\ Ladder[3] = "dispatch_tasks"
  /\ Ladder[4] = "dispatch_work" /\ Ladder[5] = "threads" /\ Ladder[6] = "workers"
  /\ Undone[1] = "workers" /\ Undone[2] = "threads" /\ Undone[3] = "dispatch_work"
  /\ Undone[4] = "dispatch_tasks" /\ Undone[5] = "staging" /\ Undone[6] = "context"
  /\ Rungs = {"context", "staging", "dispatch_tasks", "dispatch_work", "threads", "workers"}
  <1>1. /\ Len(Ladder) = 6
        /\ Ladder[1] = "context" /\ Ladder[2] = "staging" /\ Ladder[3] = "dispatch_tasks"
        /\ Ladder[4] = "dispatch_work" /\ Ladder[5] = "threads" /\ Ladder[6] = "workers"
    BY DEF Ladder
  <1>2. Rungs = {"context", "staging", "dispatch_tasks", "dispatch_work", "threads", "workers"}
    <2>1. 1 .. Len(Ladder) = {1, 2, 3, 4, 5, 6}
      BY <1>1
    <2> QED
      BY <1>1, <2>1 DEF Rungs
  <1> QED
    BY <1>1, <1>2 DEF Undone

(* The places before and after a step.                                      *)
LEMMA Before == Described(Ptr, Held, block, memory, slot_configs, slots, queue, Gone)
  BY PlaceByPlace DEF Ptr, Held

(* The same after a step.                                                   *)
LEMMA After ==
  Described(Ptr', Held', block', memory', slot_configs', slots', queue', Gone')
  BY PlaceByPlace DEF Ptr, Held

(* What is held is a place, and At gives what it points to.                 *)
LEMMA HeldPlaces ==
  /\ Held \subseteq AllPlaces /\ Held' \subseteq AllPlaces
  /\ \A p \in AllPlaces : At(p) = Ptr[p]
  <1>1. Held \subseteq AllPlaces /\ Held' \subseteq AllPlaces
    BY DEF Held, InUse
  <1>2. \A p \in AllPlaces : At(p) = Ptr[p]
    <2> SUFFICES ASSUME NEW p \in AllPlaces
                 PROVE  At(p) = Ptr[p]
      OBVIOUS
    <2>1. CASE \E r \in Rungs : p = <<"block", r>>
      BY <2>1, Before DEF At, Described
    <2>2. CASE \E t \in Threads : p = <<"memory", t>>
      BY <2>2, Before DEF At, Described
    <2>3. CASE p = <<"configs">>
      BY <2>3, Before DEF At, Described
    <2>4. CASE \E t \in Threads : p = <<"array", t>>
      BY <2>4, Before DEF At, Described
    <2>5. CASE \E e \in {"header", "slot_buffer"} : p = <<"queue", e>>
      BY <2>5, Before DEF At, Described
    <2>6. CASE \E t \in Threads : \E k \in Nat : p = <<"data", t, k>>
      BY <2>6, Before DEF At, Described
    <2> QED
      BY <2>1, <2>2, <2>3, <2>4, <2>5, <2>6, Forms
  <1> QED
    BY <1>1, <1>2

(* The first addresses that are free exist and are free.                    *)
LEMMA FreshAddress ==
  ASSUME IsFiniteSet(heap), NEW k \in Nat \ {0}
  PROVE  /\ Fresh(k) \in Nat \ {0} /\ Fresh(k) \notin heap
         /\ Cardinality((1 .. Fresh(k)) \ heap) = k
  <1> DEFINE N == Cardinality(heap) + k
             L == (1 .. N) \ heap
  <1>1. Cardinality(heap) \in Nat /\ N \in Nat
    BY FS_CardinalityType
  <1>2. IsFiniteSet(L) /\ Cardinality(L) \in Nat /\ Cardinality(L) >= k
    <2>1. IsFiniteSet(1 .. N) /\ Cardinality(1 .. N) = N
      <3> HIDE DEF N
      <3>1. 1 \in Int /\ N \in Int
        BY <1>1
      <3>2. IsFiniteSet(1 .. N) /\ Cardinality(1 .. N) = IF 1 > N THEN 0 ELSE N - 1 + 1
        BY <3>1, FS_Interval
      <3> QED
        BY <1>1, <3>2
    <2>2. /\ IsFiniteSet(L)
          /\ Cardinality(L) = Cardinality(1 .. N) - Cardinality((1 .. N) \cap heap)
      BY <2>1, FS_Difference
    <2>3. IsFiniteSet((1 .. N) \cap heap) /\ Cardinality((1 .. N) \cap heap) <= Cardinality(heap)
      BY FS_Intersection
    <2>4. Cardinality(L) \in Nat /\ Cardinality((1 .. N) \cap heap) \in Nat
      BY <2>2, <2>3, FS_CardinalityType
    <2> HIDE DEF L
    <2> QED
      BY <1>1, <2>1, <2>2, <2>3, <2>4
  <1>3. L \subseteq Nat
    OBVIOUS
  <1>4. PICK c \in L : Cardinality({d \in L : d < c}) = k - 1
    <2>1. k - 1 \in 0 .. Cardinality(L) - 1
      BY <1>2
    <2> HIDE DEF L
    <2> QED
      BY <1>2, <1>3, <2>1, Ranks
  <1>5. c \in 1 .. N /\ c \notin heap
    OBVIOUS
  <1>6. Cardinality((1 .. c) \ heap) = k
    <2>1. (1 .. c) \ heap = {d \in L : d < c} \cup {c}
      <3>1. c \in Nat /\ c <= N
        BY <1>1
      <3> QED
        BY <1>1, <1>5, <3>1
    <2>2. IsFiniteSet({d \in L : d < c})
      <3>1. {d \in L : d < c} \subseteq L
        OBVIOUS
      <3> HIDE DEF L
      <3> QED
        BY <1>2, <3>1, FS_Subset
    <2>3. c \notin {d \in L : d < c}
      BY <1>3
    <2> HIDE DEF L
    <2>4. Cardinality({d \in L : d < c} \cup {c}) = Cardinality({d \in L : d < c}) + 1
      BY <2>2, <2>3, FS_AddElement
    <2> QED
      BY <1>4, <2>1, <2>4
  <1> HIDE DEF L
  <1>7. /\ Fresh(k) \in 1 .. N /\ Fresh(k) \notin heap
        /\ Cardinality((1 .. Fresh(k)) \ heap) = k
    BY <1>5, <1>6 DEF Fresh
  <1> QED
    BY <1>1, <1>7

(* Two blocks allocated in one step are different and not NULL.             *)
LEMMA FreshBlocks ==
  ASSUME IsFiniteSet(heap)
  PROVE  /\ Fresh(1) \in Nat \ {0} /\ Fresh(1) \notin heap
         /\ Fresh(2) \in Nat \ {0} /\ Fresh(2) \notin heap /\ Fresh(1) # Fresh(2)
  <1>1. /\ Fresh(1) \in Nat \ {0} /\ Fresh(1) \notin heap
        /\ Cardinality((1 .. Fresh(1)) \ heap) = 1
    BY FreshAddress
  <1>2. /\ Fresh(2) \in Nat \ {0} /\ Fresh(2) \notin heap
        /\ Cardinality((1 .. Fresh(2)) \ heap) = 2
    BY FreshAddress
  <1> QED
    BY <1>1, <1>2

(* A heap stays finite.                                                     *)
LEMMA FiniteHeap ==
  ASSUME IsFiniteSet(heap), NEW a, NEW b, NEW F
  PROVE  /\ IsFiniteSet(heap \ F) /\ IsFiniteSet(heap \cup {a})
         /\ IsFiniteSet((heap \cup {a}) \ F) /\ IsFiniteSet(heap \cup {a, b})
         /\ IsFiniteSet((heap \cup {a, b}) \ F)
  <1>1. IsFiniteSet(heap \cup {a})
    BY FS_AddElement
  <1>2. IsFiniteSet((heap \cup {a}) \cup {b})
    BY <1>1, FS_AddElement
  <1>3. heap \cup {a, b} = (heap \cup {a}) \cup {b}
    OBVIOUS
  <1> QED
    BY <1>1, <1>2, <1>3, FS_Difference

(* A step that puts a new block into one place.                             *)
LEMMA GivesBlock ==
  ASSUME Ownership, NEW new \in AllPlaces, new \notin Held, new[1] # "data",
         \A p \in AllPlaces : p \in Held' <=> p \in Held \/ p = new,
         \A p \in Held : Ptr'[p] = Ptr[p],
         Ptr'[new] \notin heap, heap' = heap \cup {Ptr'[new]}, initialised' = initialised
  PROVE  Ownership'
  <1>1. Held' = Held \cup {new}
    BY HeldPlaces
  <1>2. Owns(Ptr', Held \cup {new}, heap \cup {Ptr'[new]})
    BY OwnsMore DEF Ownership
  <1>3. HeldData' = HeldData
    BY <1>1 DEF HeldData
  <1>4. Owns(Ptr', HeldData, initialised)
    BY OwnsSame DEF Ownership, HeldData
  <1> QED
    BY <1>1, <1>2, <1>3, <1>4 DEF Ownership

(* A step that frees the blocks of some places.                             *)
LEMMA FreesBlocks ==
  ASSUME Ownership, NEW F, F \subseteq Held,
         \A p \in AllPlaces : p \in Held' <=> p \in Held /\ p \notin F,
         \A p \in Held \ F : Ptr'[p] = Ptr[p],
         heap' = heap \ {Ptr[p] : p \in F},
         initialised' = initialised \ {Ptr[p] : p \in F \cap HeldData}
  PROVE  Ownership'
  <1>1. Held' = Held \ F
    BY HeldPlaces
  <1>2. Owns(Ptr', Held \ F, heap \ {Ptr[p] : p \in F})
    BY OwnsLess DEF Ownership
  <1>3. HeldData' = HeldData \ (F \cap HeldData)
    BY <1>1 DEF HeldData
  <1>4. Owns(Ptr', HeldData \ (F \cap HeldData), initialised \ {Ptr[p] : p \in F \cap HeldData})
    <2>1. F \cap HeldData \subseteq HeldData /\ HeldData \subseteq Held
      BY DEF HeldData
    <2>2. \A p \in HeldData \ (F \cap HeldData) : Ptr'[p] = Ptr[p]
      BY <2>1
    <2> QED
      BY <2>1, <2>2, OwnsLess DEF Ownership
  <1> QED
    BY <1>1, <1>2, <1>3, <1>4 DEF Ownership

(* A pointer to an array is NULL or points to a block.                      *)
LEMMA NoneDangling ==
  ASSUME Ownership
  PROVE  /\ ~Dangling(slot_configs)
         /\ \A t \in Threads : t >= Gone => ~Dangling(slots[t].array)
  <1>1. slot_configs # NULL => slot_configs \in heap
    BY Before DEF Described, Ownership, Owns
  <1>2. \A t \in Threads : t >= Gone /\ slots[t].array # NULL => slots[t].array \in heap
    BY Before DEF Described, Ownership, Owns
  <1> QED
    BY <1>1, <1>2 DEF Dangling

(* Nothing wrong is freed when places in use are released.                  *)
LEMMA ReleaseInUse ==
  ASSUME Ownership, NoBadFree, NEW F, F \subseteq Held, Release(F)
  PROVE  heap' = heap \ {Ptr[p] : p \in F} /\ NoBadFree'
  <1>1. \A p \in F : At(p) = Ptr[p]
    BY HeldPlaces
  <1>2. heap' = heap \ {Ptr[p] : p \in F}
    BY <1>1 DEF Release
  <1>3. ~\E p \in F : At(p) \notin heap \/ \E q \in F \ {p} : At(q) = At(p)
    BY <1>1 DEF Ownership, Owns
  <1> QED
    BY <1>2, <1>3 DEF Release, NoBadFree
-----------------------------------------------------------------------------
(****************************************************************************)
(* The steps, each keeping the invariant.                                   *)
(****************************************************************************)

(* The slots of a worker are an array and a sequence of pointers.           *)
LEMMA SlotTypes ==
  ASSUME TypeOK
  PROVE  \A t \in Threads :
           /\ slots[t].array \in Nat /\ slots[t].data \in Seq(Nat)
           /\ Len(slots[t].data) \in Nat
           /\ \A k \in 1 .. Len(slots[t].data) : slots[t].data[k] \in Nat
  BY DEF TypeOK

(* A step that moves no pointer and allocates nothing.                      *)
LEMMA Unmoved ==
  ASSUME Ownership, Gone' = Gone, UNCHANGED <<heap, contextVars, slots, slot_configs, queue>>,
         initialised' = initialised
  PROVE  Ownership'
  <1>1. Ptr' = Ptr /\ Held' = Held
    BY DEF Ptr, Held, contextVars
  <1> QED
    BY <1>1 DEF Ownership, HeldData

(* At first nothing is allocated and nothing is held.                       *)
LEMMA InitIInv ==
  ASSUME Init
  PROVE  IInv
  <1> USE LifecycleAssumption
  <1>1. TypeOK
    <2>1. slots \in [Threads -> [array : Nat, data : Seq(Nat)]]
      <3>1. <<>> \in Seq(Nat)
        OBVIOUS
      <3> QED
        BY <3>1 DEF Init, NoSlots, NULL
    <2>2. queue \in [header : Nat, slot_buffer : Nat]
      BY DEF Init, NoQueue, NULL
    <2>3. block \in [Rungs -> Nat] /\ memory \in [Threads -> Nat]
      BY DEF Init, NULL
    <2>4. slot_count \in 0 .. MaxSlots /\ slot_count <= slot_capacity /\ slot_capacity \in Nat
      BY DEF Init
    <2> QED
      BY <2>1, <2>2, <2>3, <2>4 DEF Init, TypeOK, NULL
  <1>2. Held = {}
    <2> SUFFICES ASSUME NEW p \in AllPlaces, p \in Held
                 PROVE  FALSE
      BY HeldPlaces
    <2> USE DEF Init, NoSlots, NoQueue, Described
    <2>1. CASE \E r \in Rungs : p = <<"block", r>>
      BY <2>1, Before
    <2>2. CASE \E t \in Threads : p = <<"memory", t>>
      BY <2>2, Before
    <2>3. CASE p = <<"configs">>
      BY <2>3, Before
    <2>4. CASE \E t \in Threads : p = <<"array", t>>
      BY <2>4, Before
    <2>5. CASE \E e \in {"header", "slot_buffer"} : p = <<"queue", e>>
      BY <2>5, Before
    <2>6. CASE \E t \in Threads : \E k \in Nat : p = <<"data", t, k>>
      <3>1. PICK t \in Threads : \E k \in Nat : p = <<"data", t, k>>
        BY <2>6
      <3>2. PICK k \in Nat : p = <<"data", t, k>>
        BY <3>1
      <3>3. k \in 1 .. Len(slots[t].data)
        BY <3>2, Before
      <3>4. Len(slots[t].data) = 0
        OBVIOUS
      <3> QED
        BY <3>3, <3>4
    <2> QED
      BY <2>1, <2>2, <2>3, <2>4, <2>5, <2>6, Forms
  <1>3. Ownership
    BY <1>2 DEF Ownership, Owns, HeldData, Init
  <1>4. IsFiniteSet(heap) /\ NoBadFree
    BY FS_EmptySet DEF Init, NoBadFree
  <1>5. Built
    BY DEF Init, Built, NothingRegistered, QueueWhole, NoQueue
  <1>6. DataThere
    BY DEF Init, DataThere, NoSlots
  <1> QED
    BY <1>1, <1>3, <1>4, <1>5, <1>6 DEF IInv

(* create begins: nothing is allocated yet.                                 *)
LEMMA CreateBeginStep ==
  ASSUME IInv, CreateBegin, queue' = queue
  PROVE  IInv'
  <1> USE DEF IInv, CreateBegin, contextVars, slotVars
  <1>1. TypeOK'
    BY DEF TypeOK
  <1>2. Ownership'
    BY Unmoved DEF Gone
  <1>3. Built'
    <2>1. \A k \in 1 .. Len(Ladder) : Ladder[k] \in Rungs
      BY DEF Rungs
    <2>2. step' \in 1 .. Len(Ladder) /\ \A k \in 1 .. Len(Ladder) : k >= step'
      BY RungNames
    <2> QED
      BY <2>1, <2>2 DEF Built, NothingRegistered, QueueWhole
  <1>4. DataThere'
    BY DEF DataThere
  <1>5. IsFiniteSet(heap)' /\ NoBadFree'
    BY DEF NoBadFree
  <1> QED
    BY <1>1, <1>2, <1>3, <1>4, <1>5

(* A rung of the ladder is allocated, or skipped.                           *)
LEMMA AllocateRungStep ==
  ASSUME IInv, AllocateRung, queue' = queue
  PROVE  IInv'
  <1> USE LifecycleAssumption
  <1> USE DEF AllocateRung, contextVars, slotVars
  <1> DEFINE r == Ladder[step]
  <1>1. step \in 1 .. 6 /\ r \in Rungs /\ phase = "creating"
    BY RungNames DEF IInv, Built, Rungs
  <1>2. \A k, l \in 1 .. 6 : Ladder[k] = Ladder[l] => k = l
    BY RungNames
  <1>3. Gone = 0 /\ Gone' = 0
    BY <1>1 DEF Gone
  <1>4. /\ \A q \in Rungs : q # r => block'[q] = block[q]
        /\ Skipped(r) => block' = block /\ heap' = heap
        /\ ~Skipped(r) => block'[r] = Fresh(1) /\ heap' = heap \cup {Fresh(1)}
        /\ block' \in [Rungs -> Nat] /\ heap \subseteq heap'
        /\ block[r] = NULL /\ Fresh(1) # NULL /\ Fresh(1) \notin heap
    <2>1. block \in [Rungs -> Nat] /\ Fresh(1) \in Nat /\ Fresh(1) # NULL /\ Fresh(1) \notin heap
      BY FreshBlocks DEF IInv, TypeOK, NULL
    <2>2. block[r] = NULL
      BY <1>1, RungNames DEF IInv, Built
    <2> QED
      BY <1>1, <2>1, <2>2
  <1> HIDE DEF r
  <1>5. TypeOK'
    <2>1. heap' \subseteq Nat \ {NULL}
      BY <1>4, FreshBlocks DEF IInv, TypeOK, NULL, r
    <2>2. step' \in Nat /\ phase' \in {"creating", "memories"}
      BY <1>1
    <2> QED
      BY <1>4, <2>1, <2>2 DEF IInv, TypeOK
  <1>6. Ownership'
    <2>1. CASE Skipped(r)
      BY <1>3, <1>4, <2>1, Unmoved DEF IInv
    <2>2. CASE ~Skipped(r)
      <3> DEFINE new == <<"block", r>>
      <3>1. /\ new \in AllPlaces /\ new \notin Held /\ new \in Held'
            /\ Ptr'[new] = Fresh(1) /\ new[1] # "data"
        BY <1>1, <1>4, <2>2, Forms, Before, After DEF Described
      <3>2. \A p \in AllPlaces : p # new =>
              (p \in Held' <=> p \in Held) /\ Ptr'[p] = Ptr[p]
        <4> SUFFICES ASSUME NEW p \in AllPlaces, p # new
                     PROVE  (p \in Held' <=> p \in Held) /\ Ptr'[p] = Ptr[p]
          OBVIOUS
        <4>1. CASE \E q \in Rungs : p = <<"block", q>>
          BY <1>4, <4>1, Before, After DEF Described
        <4>2. CASE ~\E q \in Rungs : p = <<"block", q>>
          BY <1>3, <4>2, Forms, Before, After DEF Described
        <4> QED
          BY <4>1, <4>2
      <3> HIDE DEF new
      <3>3. \A p \in AllPlaces : p \in Held' <=> p \in Held \/ p = new
        BY <3>1, <3>2
      <3>4. \A p \in Held : Ptr'[p] = Ptr[p]
        BY <3>1, <3>2, HeldPlaces
      <3> QED
        BY <1>4, <2>2, <3>1, <3>3, <3>4, GivesBlock DEF IInv
    <2> QED
      BY <2>1, <2>2
  <1>7. Built'
    <2>1. \A k \in 1 .. 6 : block'[Ladder[k]] = NULL <=> k > step \/ Skipped(Ladder[k])
      <3> SUFFICES ASSUME NEW k \in 1 .. 6
                   PROVE  block'[Ladder[k]] = NULL <=> k > step \/ Skipped(Ladder[k])
        OBVIOUS
      <3>1. block[Ladder[k]] = NULL <=> k >= step \/ Skipped(Ladder[k])
        BY <1>1, RungNames DEF IInv, Built
      <3>2. CASE k = step
        BY <1>1, <1>4, <3>2 DEF r
      <3>3. CASE k # step
        <4>1. Ladder[k] \in Rungs /\ Ladder[k] # r
          BY <1>1, <1>2, <3>3, RungNames DEF r
        <4>2. k >= step <=> k > step
          BY <1>1, <3>3
        <4> QED
          BY <1>4, <3>1, <4>1, <4>2
      <3> QED
        BY <3>2, <3>3
    <2>2. NothingRegistered' /\ memory' = [t \in Threads |-> NULL] /\ QueueWhole'
      BY <1>1 DEF IInv, Built, NothingRegistered, QueueWhole
    <2>3. CASE step < Len(Ladder)
      <3>1. step' = step + 1 /\ phase' = "creating"
        BY <1>1, <2>3
      <3>2. step' \in 1 .. 6 /\ \A k \in 1 .. 6 : k >= step' <=> k > step
        BY <1>1, <2>3, <3>1, RungNames
      <3> QED
        BY <2>1, <2>2, <3>1, <3>2, RungNames DEF Built
    <2>4. CASE ~(step < Len(Ladder))
      <3>1. step' = 0 /\ phase' = "memories" /\ step = 6
        BY <1>1, <2>4, RungNames
      <3>2. \A k \in 1 .. 6 : ~(k > step)
        BY <3>1
      <3>3. AllBlocks'
        BY <2>1, <3>2, RungNames DEF AllBlocks, Skipped
      <3>4. step' \in Threads /\ \A t \in Threads : t >= step'
        BY <3>1 DEF Threads
      <3> QED
        BY <2>2, <3>1, <3>3, <3>4 DEF Built
    <2> QED
      BY <2>3, <2>4
  <1>8. DataThere'
    BY <1>1 DEF IInv, DataThere
  <1>9. IsFiniteSet(heap)' /\ NoBadFree'
    BY <1>4, FiniteHeap DEF IInv, NoBadFree
  <1> QED
    BY <1>5, <1>6, <1>7, <1>8, <1>9 DEF IInv

(* A worker's memory context is created.                                    *)
LEMMA CreateWorkerStep ==
  ASSUME IInv, CreateWorker, queue' = queue
  PROVE  IInv'
  <1> USE LifecycleAssumption
  <1> USE DEF CreateWorker, contextVars, slotVars
  <1>1. step \in Threads /\ step \in Nat /\ ThreadCount \in Nat /\ phase = "memories"
    BY DEF IInv, Built, Threads
  <1>2. Gone = 0 /\ Gone' = 0
    BY <1>1 DEF Gone
  <1>3. /\ memory' \in [Threads -> Nat] /\ memory'[step] = Fresh(1)
        /\ \A t \in Threads : t # step => memory'[t] = memory[t]
        /\ memory[step] = NULL /\ Fresh(1) # NULL /\ Fresh(1) \notin heap
        /\ heap' = heap \cup {Fresh(1)} /\ Fresh(1) \in Nat
    <2>1. memory \in [Threads -> Nat] /\ Fresh(1) \in Nat /\ Fresh(1) # NULL /\ Fresh(1) \notin heap
      BY FreshBlocks DEF IInv, TypeOK, NULL
    <2>2. memory[step] = NULL
      BY <1>1 DEF IInv, Built
    <2> QED
      BY <1>1, <2>1, <2>2
  <1>4. TypeOK'
    <2>1. heap' \subseteq Nat \ {NULL}
      BY <1>3 DEF IInv, TypeOK
    <2>2. step' \in Nat /\ phase' \in {"memories", "ready"}
      BY <1>1
    <2> QED
      BY <1>3, <2>1, <2>2 DEF IInv, TypeOK
  <1>5. Ownership'
    <2> DEFINE new == <<"memory", step>>
    <2>1. /\ new \in AllPlaces /\ new \notin Held /\ new \in Held'
          /\ Ptr'[new] = Fresh(1) /\ new[1] # "data"
      <3>1. step >= 0
        BY <1>1
      <3> QED
        BY <1>1, <1>2, <1>3, <3>1, Forms, Before, After DEF Described
    <2>2. \A p \in AllPlaces : p # new =>
            (p \in Held' <=> p \in Held) /\ Ptr'[p] = Ptr[p]
      <3> SUFFICES ASSUME NEW p \in AllPlaces, p # new
                   PROVE  (p \in Held' <=> p \in Held) /\ Ptr'[p] = Ptr[p]
        OBVIOUS
      <3>1. CASE \E t \in Threads : p = <<"memory", t>>
        BY <1>2, <1>3, <3>1, Before, After DEF Described
      <3>2. CASE ~\E t \in Threads : p = <<"memory", t>>
        BY <1>2, <3>2, Forms, Before, After DEF Described
      <3> QED
        BY <3>1, <3>2
    <2> HIDE DEF new
    <2>3. \A p \in AllPlaces : p \in Held' <=> p \in Held \/ p = new
      BY <2>1, <2>2
    <2>4. \A p \in Held : Ptr'[p] = Ptr[p]
      BY <2>1, <2>2, HeldPlaces
    <2> QED
      BY <1>3, <2>1, <2>3, <2>4, GivesBlock DEF IInv
  <1>6. Built'
    <2>1. AllBlocks' /\ NothingRegistered' /\ QueueWhole'
      BY <1>1 DEF IInv, Built, AllBlocks, NothingRegistered, QueueWhole
    <2>2. \A t \in Threads : memory'[t] = NULL <=> t > step
      <3> SUFFICES ASSUME NEW t \in Threads
                   PROVE  memory'[t] = NULL <=> t > step
        OBVIOUS
      <3>1. memory[t] = NULL <=> t >= step
        BY <1>1 DEF IInv, Built
      <3>2. CASE t = step
        <4>1. ~(t > step)
          BY <1>1, <3>2
        <4> QED
          BY <1>3, <3>2, <4>1
      <3>3. CASE t # step
        <4>1. t >= step <=> t > step
          BY <1>1, <3>3 DEF Threads
        <4> QED
          BY <1>3, <3>1, <3>3, <4>1
      <3> QED
        BY <3>2, <3>3
    <2>3. CASE step < ThreadCount
      <3>1. step' = step + 1 /\ phase' = "memories" /\ step' \in Threads
        BY <1>1, <2>3 DEF Threads
      <3>2. \A t \in Threads : t > step <=> t >= step'
        BY <1>1, <3>1 DEF Threads
      <3> QED
        BY <2>1, <2>2, <3>1, <3>2 DEF Built
    <2>4. CASE ~(step < ThreadCount)
      <3>1. step' = 0 /\ phase' = "ready" /\ \A t \in Threads : ~(t > step)
        BY <1>1, <2>4 DEF Threads
      <3> QED
        BY <2>1, <2>2, <3>1 DEF Built
    <2> QED
      BY <2>3, <2>4
  <1>7. DataThere'
    BY <1>1 DEF IInv, DataThere
  <1>8. IsFiniteSet(heap)' /\ NoBadFree'
    BY <1>3, FiniteHeap DEF IInv, NoBadFree
  <1> QED
    BY <1>4, <1>5, <1>6, <1>7, <1>8 DEF IInv

(* A step after which there is no context: what was in use of the context   *)
(* has been released, and the queue alone is left.                          *)
LEMMA NothingLeft ==
  ASSUME IInv, NEW F, F \subseteq Held, Release(F), Forget, NothingRegistered',
         \A p \in Held : p \in F <=> p[1] # "queue",
         initialised' = initialised \ {Ptr[p] : p \in F \cap HeldData}, queue' = queue
  PROVE  IInv'
  <1> USE LifecycleAssumption
  <1> USE DEF Forget, NothingRegistered
  <1>1. heap' = heap \ {Ptr[p] : p \in F} /\ NoBadFree'
    BY ReleaseInUse DEF IInv
  <1>2. Ownership'
    <2>1. \A p \in AllPlaces : p \in Held' <=> p \in Held /\ p \notin F
      <3> SUFFICES ASSUME NEW p \in AllPlaces
                   PROVE  p \in Held' <=> p \in Held /\ p[1] = "queue"
        OBVIOUS
      <3>1. CASE \E e \in {"header", "slot_buffer"} : p = <<"queue", e>>
        BY <3>1, Before, After DEF Described
      <3>2. CASE ~\E e \in {"header", "slot_buffer"} : p = <<"queue", e>>
        <4>1. p[1] # "queue"
          BY <3>2, Forms
        <4>2. p \notin Held'
          <5>1. CASE \E r \in Rungs : p = <<"block", r>>
            BY <5>1, After DEF Described
          <5>2. CASE \E t \in Threads : p = <<"memory", t>>
            BY <5>2, After DEF Described
          <5>3. CASE p = <<"configs">>
            BY <5>3, After DEF Described
          <5>4. CASE \E t \in Threads : p = <<"array", t>>
            BY <5>4, After DEF Described, NoSlots
          <5>5. CASE \E t \in Threads : \E k \in Nat : p = <<"data", t, k>>
            <6>1. PICK t \in Threads : \E k \in Nat : p = <<"data", t, k>>
              BY <5>5
            <6>2. PICK k \in Nat : p = <<"data", t, k>>
              BY <6>1
            <6>3. p \in Held' => k \in 1 .. Len(slots'[t].data)
              BY <6>2, After DEF Described
            <6>4. Len(slots'[t].data) = 0
              BY DEF NoSlots
            <6> QED
              BY <6>3, <6>4
          <5> QED
            BY <3>2, <5>1, <5>2, <5>3, <5>4, <5>5, Forms
        <4> QED
          BY <4>1, <4>2
      <3> QED
        BY <3>1, <3>2
    <2>2. \A p \in Held \ F : Ptr'[p] = Ptr[p]
      <3> SUFFICES ASSUME NEW p \in Held \ F
                   PROVE  Ptr'[p] = Ptr[p]
        OBVIOUS
      <3>1. p \in AllPlaces /\ p[1] = "queue"
        BY HeldPlaces
      <3>2. \E e \in {"header", "slot_buffer"} : p = <<"queue", e>>
        BY <3>1, Forms
      <3> QED
        BY <3>2, Before, After DEF Described
    <2> QED
      BY <1>1, <2>1, <2>2, FreesBlocks DEF IInv
  <1>3. initialised' \subseteq heap'
    BY <1>2 DEF Ownership, Owns, HeldData
  <1>4. TypeOK'
    <2>1. slots' \in [Threads -> [array : Nat, data : Seq(Nat)]]
      <3>1. <<>> \in Seq(Nat)
        OBVIOUS
      <3> QED
        BY <3>1 DEF NoSlots, NULL
    <2>2. bad_free' \in BOOLEAN
      BY DEF Release, IInv, TypeOK
    <2>3. heap' \subseteq Nat \ {NULL} /\ queue' \in [header : Nat, slot_buffer : Nat]
      BY <1>1 DEF IInv, TypeOK
    <2> QED
      BY <1>3, <2>1, <2>2, <2>3 DEF TypeOK, NULL
  <1>5. Built'
    BY DEF IInv, Built, QueueWhole
  <1>6. DataThere'
    BY DEF DataThere, NoSlots
  <1>7. IsFiniteSet(heap)'
    BY <1>1, FiniteHeap DEF IInv
  <1> QED
    BY <1>1, <1>2, <1>4, <1>5, <1>6, <1>7 DEF IInv

(* Until the context is ready nothing is registered: no array, no data.     *)
LEMMA NoSlotsHeld ==
  ASSUME NothingRegistered
  PROVE  \A p \in Held : p[1] \in {"block", "memory", "queue"}
  <1> SUFFICES ASSUME NEW p \in Held
               PROVE  p[1] \in {"block", "memory", "queue"}
    OBVIOUS
  <1> USE DEF NothingRegistered, NoSlots
  <1>1. p # <<"configs">>
    BY Before DEF Described
  <1>2. ~\E t \in Threads : p = <<"array", t>>
    BY Before DEF Described
  <1>3. ~\E t \in Threads : \E k \in Nat : p = <<"data", t, k>>
    <2> SUFFICES ASSUME NEW t \in Threads, NEW k \in Nat, p = <<"data", t, k>>
                 PROVE  FALSE
      OBVIOUS
    <2>1. k \in 1 .. Len(slots[t].data)
      BY Before DEF Described
    <2>2. Len(slots[t].data) = 0
      OBVIOUS
    <2> QED
      BY <2>1, <2>2
  <1> QED
    BY <1>1, <1>2, <1>3, Forms, HeldPlaces

(* What a failure frees: the rungs that have been allocated.                *)
LEMMA FreedRungs ==
  ASSUME NEW label \in Nat \ {0}, label >= 3 => block["threads"] = NULL /\ block["workers"] = NULL,
         \A k \in 1 .. 6 : k # 2 => (k >= label <=> block[Undone[k]] # NULL),
         label <= 2 \/ block["threads"] = NULL
  PROVE  FreedFrom(label) = {<<"block", r>> : r \in {q \in Rungs : block[q] # NULL}}
  <1>1. \A r \in Rungs : \E k \in 1 .. 6 : r = Undone[k]
    <2>1. 1 \in 1 .. 6 /\ 2 \in 1 .. 6 /\ 3 \in 1 .. 6 /\ 4 \in 1 .. 6 /\ 5 \in 1 .. 6 /\ 6 \in 1 .. 6
      OBVIOUS
    <2> QED
      BY <2>1, RungNames
  <1>2. \A k \in 1 .. 6 : Undone[k] \in Rungs /\ (Undone[k] = "threads" <=> k = 2)
    BY RungNames
  <1>3. \A k \in 1 .. 6 :
          k >= label /\ (Undone[k] # "threads" \/ block["threads"] # NULL)
            <=> block[Undone[k]] # NULL
    <2> SUFFICES ASSUME NEW k \in 1 .. 6
                 PROVE  k >= label /\ (Undone[k] # "threads" \/ block["threads"] # NULL)
                          <=> block[Undone[k]] # NULL
      OBVIOUS
    <2>1. CASE k = 2
      <3>1. Undone[k] = "threads"
        BY <1>2, <2>1
      <3>2. block["threads"] # NULL => k >= label
        BY <2>1
      <3> QED
        BY <3>1, <3>2
    <2>2. CASE k # 2
      BY <1>2, <2>2
    <2> QED
      BY <2>1, <2>2
  <1>4. \A i : i \in label .. Len(Undone) <=> i \in 1 .. 6 /\ i >= label
    BY RungNames
  <1>5. FreedFrom(label) = {<<"block", Undone[k]>> : k \in {i \in 1 .. 6 : block[Undone[i]] # NULL}}
    BY <1>3, <1>4 DEF FreedFrom
  <1> QED
    BY <1>1, <1>2, <1>5

(* A rung cannot be had: the labels of bc_concurrency_create free the rungs *)
(* below it and nothing else.                                               *)
LEMMA RungFailsStep ==
  ASSUME IInv, RungFails, queue' = queue
  PROVE  IInv'
  <1> DEFINE r == Ladder[step]
             F == FreedFrom(FailureLabel(r))
  <1>1. /\ phase = "creating" /\ step \in 1 .. 6 /\ ~Skipped(r) /\ Release(F) /\ Forget
        /\ UNCHANGED slotVars
        /\ NothingRegistered /\ memory = [t \in Threads |-> NULL]
        /\ \A k \in 1 .. 6 : block[Ladder[k]] = NULL <=> k >= step \/ Skipped(Ladder[k])
    BY RungNames DEF IInv, Built, RungFails
  <1>2. /\ block["context"] = NULL <=> 1 >= step
        /\ block["staging"] = NULL <=> 2 >= step
        /\ block["dispatch_tasks"] = NULL <=> 3 >= step
        /\ block["dispatch_work"] = NULL <=> 4 >= step
        /\ block["threads"] = NULL <=> 5 >= step \/ ThreadCount = 0
        /\ block["workers"] = NULL <=> 6 >= step
    <2>1. 1 \in 1 .. 6 /\ 2 \in 1 .. 6 /\ 3 \in 1 .. 6 /\ 4 \in 1 .. 6 /\ 5 \in 1 .. 6 /\ 6 \in 1 .. 6
      OBVIOUS
    <2> QED
      BY <1>1, <2>1, RungNames DEF Skipped
  <1> HIDE DEF r
  <1>3. F = {<<"block", q>> : q \in {x \in Rungs : block[x] # NULL}}
    <2> DEFINE label == FailureLabel(r)
    <2>1. label \in Nat \ {0} /\ label = IF step <= 4 THEN 8 - step ELSE 2
      <3>1. CASE step = 1
        BY <3>1, RungNames DEF FailureLabel, r
      <3>2. CASE step = 2
        BY <3>2, RungNames DEF FailureLabel, r
      <3>3. CASE step = 3
        BY <3>3, RungNames DEF FailureLabel, r
      <3>4. CASE step = 4
        BY <3>4, RungNames DEF FailureLabel, r
      <3>5. CASE step = 5
        BY <3>5, RungNames DEF FailureLabel, r
      <3>6. CASE step = 6
        BY <3>6, RungNames DEF FailureLabel, r
      <3> QED
        BY <1>1, <3>1, <3>2, <3>3, <3>4, <3>5, <3>6
    <2> HIDE DEF label
    <2>2. \A k \in 1 .. 6 : k # 2 => (k >= label <=> block[Undone[k]] # NULL)
      <3> SUFFICES ASSUME NEW k \in 1 .. 6, k # 2
                   PROVE  k >= label <=> block[Undone[k]] # NULL
        OBVIOUS
      <3>1. CASE k = 1
        <4>1. ~(k >= label) /\ 6 >= step
          BY <1>1, <2>1, <3>1
        <4> QED
          BY <1>2, <3>1, <4>1, RungNames
      <3>2. CASE k = 3
        <4>1. k >= label <=> ~(4 >= step)
          BY <1>1, <2>1, <3>2
        <4> QED
          BY <1>2, <3>2, <4>1, RungNames
      <3>3. CASE k = 4
        <4>1. k >= label <=> ~(3 >= step)
          BY <1>1, <2>1, <3>3
        <4> QED
          BY <1>2, <3>3, <4>1, RungNames
      <3>4. CASE k = 5
        <4>1. k >= label <=> ~(2 >= step)
          BY <1>1, <2>1, <3>4
        <4> QED
          BY <1>2, <3>4, <4>1, RungNames
      <3>5. CASE k = 6
        <4>1. k >= label <=> ~(1 >= step)
          BY <1>1, <2>1, <3>5
        <4> QED
          BY <1>2, <3>5, <4>1, RungNames
      <3> QED
        BY <3>1, <3>2, <3>3, <3>4, <3>5
    <2>3. label >= 3 => 5 >= step /\ 6 >= step
      BY <1>1, <2>1
    <2>4. label <= 2 \/ 5 >= step
      BY <1>1, <2>1
    <2>5. label >= 3 => block["threads"] = NULL /\ block["workers"] = NULL
      BY <1>2, <2>3
    <2>6. label <= 2 \/ block["threads"] = NULL
      BY <1>2, <2>4
    <2>7. FreedFrom(label) = {<<"block", q>> : q \in {x \in Rungs : block[x] # NULL}}
      BY <2>1, <2>2, <2>5, <2>6, FreedRungs
    <2> QED
      BY <2>7 DEF label
  <1> HIDE DEF F
  <1>4. \A p \in Held : p \in F <=> p[1] # "queue"
    <2> SUFFICES ASSUME NEW p \in Held
                 PROVE  p \in F <=> p[1] # "queue"
      OBVIOUS
    <2>1. CASE \E q \in Rungs : p = <<"block", q>>
      BY <1>3, <2>1, Before DEF Described
    <2>2. CASE \E t \in Threads : p = <<"memory", t>>
      BY <1>1, <2>2, Before DEF Described
    <2>3. CASE \E e \in {"header", "slot_buffer"} : p = <<"queue", e>>
      BY <1>3, <2>3
    <2> QED
      BY <1>1, <2>1, <2>2, <2>3, NoSlotsHeld, Forms, HeldPlaces
  <1>5. F \subseteq Held
    BY <1>3, Before DEF Described
  <1>6. F \cap HeldData = {}
    BY <1>3 DEF HeldData
  <1>7. NothingRegistered'
    BY <1>1 DEF NothingRegistered, slotVars
  <1>8. initialised' = initialised \ {Ptr[p] : p \in F \cap HeldData}
    BY <1>1, <1>6 DEF slotVars
  <1> QED
    BY <1>1, <1>4, <1>5, <1>7, <1>8, NothingLeft

(* What fail_workers frees: all the rungs.                                  *)
LEMMA FreedAll ==
  ASSUME AllBlocks
  PROVE  FreedFrom(1) = {<<"block", r>> : r \in {q \in Rungs : block[q] # NULL}}
  <1>1. \A k \in 1 .. 6 : k # 2 => Undone[k] \in Rungs /\ ~Skipped(Undone[k])
    BY RungNames DEF Skipped
  <1>2. \A k \in 1 .. 6 : k # 2 => (k >= 1 <=> block[Undone[k]] # NULL)
    BY <1>1 DEF AllBlocks
  <1> QED
    BY <1>2, FreedRungs

(* A memory context cannot be had: those before it and all the rungs are    *)
(* freed.                                                                   *)
LEMMA CreateWorkerFailsStep ==
  ASSUME IInv, CreateWorkerFails, queue' = queue
  PROVE  IInv'
  <1> USE LifecycleAssumption
  <1> DEFINE M == {<<"memory", t>> : t \in 0 .. step - 1}
             B == FreedFrom(1)
             F == M \cup B
  <1>1. /\ phase = "memories" /\ step \in Threads /\ AllBlocks /\ NothingRegistered
        /\ \A t \in Threads : memory[t] = NULL <=> t >= step
        /\ Release(F) /\ Forget /\ UNCHANGED slotVars
    BY DEF IInv, Built, CreateWorkerFails
  <1>2. \A t : t \in 0 .. step - 1 <=> t \in Threads /\ ~(t >= step)
    BY <1>1 DEF Threads
  <1>3. \A t \in Threads : t >= 0
    BY DEF Threads
  <1>4. Gone = 0
    BY <1>1 DEF Gone
  <1>5. M \subseteq Held
    BY <1>1, <1>2, <1>3, <1>4, Before DEF Described
  <1>6. B = {<<"block", r>> : r \in {q \in Rungs : block[q] # NULL}}
    BY <1>1, FreedAll
  <1> HIDE DEF B
  <1>7. B \subseteq Held
    BY <1>6, Before DEF Described
  <1>8. \A p \in Held : p \in F <=> p[1] # "queue"
    <2> SUFFICES ASSUME NEW p \in Held
                 PROVE  p \in F <=> p[1] # "queue"
      OBVIOUS
    <2>1. CASE \E q \in Rungs : p = <<"block", q>>
      BY <1>6, <2>1, Before DEF Described
    <2>2. CASE \E t \in Threads : p = <<"memory", t>>
      <3>1. PICK t \in Threads : p = <<"memory", t>>
        BY <2>2
      <3>2. memory[t] # NULL
        BY <3>1, Before DEF Described
      <3>3. t \in 0 .. step - 1
        BY <1>1, <1>2, <3>2
      <3> QED
        BY <3>1, <3>3
    <2>3. CASE \E e \in {"header", "slot_buffer"} : p = <<"queue", e>>
      BY <1>6, <2>3
    <2> QED
      BY <1>1, <2>1, <2>2, <2>3, NoSlotsHeld, Forms, HeldPlaces
  <1>9. F \cap HeldData = {}
    BY <1>6 DEF HeldData
  <1>10. NothingRegistered'
    BY <1>1 DEF NothingRegistered, slotVars
  <1>11. initialised' = initialised \ {Ptr[p] : p \in F \cap HeldData}
    BY <1>1, <1>9 DEF slotVars
  <1>12. F \subseteq Held
    BY <1>5, <1>7
  <1> HIDE DEF F
  <1> QED
    BY <1>1, <1>8, <1>10, <1>11, <1>12, NothingLeft

(* The loop of register_slot has run for every worker.                      *)
LEMMA RegisterDoneStep ==
  ASSUME IInv, RegisterDone, queue' = queue
  PROVE  IInv'
  <1> USE LifecycleAssumption
  <1> USE DEF RegisterDone, contextVars
  <1>1. /\ phase = "registering" /\ step \in 0 .. ThreadCount + 1 /\ step > ThreadCount
        /\ slot_count \in 0 .. MaxSlots /\ slot_capacity \in Nat
        /\ slot_count < MaxSlots /\ slot_count < slot_capacity
        /\ phase' = "ready" /\ step' = 0 /\ slot_count' = slot_count + 1
    BY DEF IInv, Built, TypeOK
  <1>2. \A t \in Threads : t < step
    BY <1>1 DEF Threads
  <1>3. TypeOK'
    <2>1. slot_count' \in 0 .. MaxSlots /\ slot_count' <= slot_capacity
      BY <1>1
    <2> QED
      BY <1>1, <2>1 DEF IInv, TypeOK
  <1>4. Ownership'
    BY <1>1, Unmoved DEF IInv, Gone
  <1>5. Built'
    BY <1>1 DEF IInv, Built, AllBlocks, QueueWhole
  <1>6. DataThere'
    <2> SUFFICES ASSUME NEW t \in Threads
                 PROVE  /\ slot_count' <= Len(slots[t].data)
                        /\ \A k \in 1 .. Len(slots[t].data) :
                             slots[t].data[k] # NULL <=> k <= slot_count'
      BY <1>1 DEF DataThere
    <2>1. /\ slot_count < Len(slots[t].data) /\ Len(slots[t].data) \in Nat
          /\ \A k \in 1 .. Len(slots[t].data) :
               slots[t].data[k] # NULL <=> k <= slot_count \/ k = slot_count + 1
      BY <1>1, <1>2, SlotTypes DEF IInv, DataThere
    <2>2. \A k \in 1 .. Len(slots[t].data) :
            k <= slot_count' <=> k <= slot_count \/ k = slot_count + 1
      BY <1>1, <2>1
    <2> QED
      BY <1>1, <2>1, <2>2
  <1>7. IsFiniteSet(heap)' /\ NoBadFree'
    BY DEF IInv, NoBadFree
  <1> QED
    BY <1>3, <1>4, <1>5, <1>6, <1>7 DEF IInv

(* destroy begins: nothing is freed yet.                                    *)
LEMMA DestroyBeginStep ==
  ASSUME IInv, DestroyBegin, queue' = queue
  PROVE  IInv'
  <1> USE LifecycleAssumption
  <1> USE DEF DestroyBegin, contextVars, slotVars
  <1>1. TypeOK'
    BY DEF IInv, TypeOK
  <1>2. Ownership'
    BY Unmoved DEF IInv, Gone
  <1>3. Built'
    BY DEF IInv, Built, AllBlocks, QueueWhole
  <1>4. DataThere'
    BY DEF IInv, DataThere
  <1>5. IsFiniteSet(heap)' /\ NoBadFree'
    BY DEF IInv, NoBadFree
  <1> QED
    BY <1>1, <1>2, <1>3, <1>4, <1>5 DEF IInv

(* Worker after worker its slots, its array, its memory context.            *)
LEMMA DestroyWorkerStep ==
  ASSUME IInv, DestroyWorker, queue' = queue
  PROVE  IInv'
  <1> USE LifecycleAssumption
  <1> USE DEF DestroyWorker
  <1> DEFINE F == NonNull(SlotData(step) \cup {<<"array", step>>}) \cup {<<"memory", step>>}
  <1>1. /\ phase = "destroying" /\ phase' = "destroying" /\ step' = step + 1
        /\ step \in Threads /\ step \in Nat /\ step' \in 0 .. ThreadCount + 1
        /\ Gone = step /\ Gone' = step + 1 /\ slot_count \in Nat
        /\ memory[step] # NULL
    BY DEF IInv, Built, TypeOK, Threads, Gone
  <1>2. /\ slot_count <= Len(slots[step].data) /\ Len(slots[step].data) \in Nat
        /\ \A k \in 1 .. Len(slots[step].data) : slots[step].data[k] # NULL <=> k <= slot_count
    BY <1>1, SlotTypes DEF IInv, DataThere
  <1>3. \A p : p \in F <=>
          \/ p = <<"memory", step>>
          \/ p = <<"array", step>> /\ slots[step].array # NULL
          \/ \E k \in Nat : p = <<"data", step, k>> /\ k \in 1 .. Len(slots[step].data)
                            /\ slots[step].data[k] # NULL
    <2>1. \A k : k \in 1 .. slot_count <=>
            k \in Nat /\ k \in 1 .. Len(slots[step].data) /\ slots[step].data[k] # NULL
      BY <1>1, <1>2
    <2>2. \A k : At(<<"data", step, k>>) = slots[step].data[k]
      BY DEF At
    <2>3. At(<<"array", step>>) = slots[step].array
      BY DEF At
    <2> QED
      BY <2>1, <2>2, <2>3 DEF NonNull, SlotData
  <1> HIDE DEF F
  <1>4. \A t \in Threads : (t >= step <=> t >= step + 1 \/ t = step) /\ ~(step >= step + 1)
    BY <1>1 DEF Threads
  <1>5. step >= step
    BY <1>1
  <1>6. F \subseteq Held
    BY <1>1, <1>3, <1>5, Before DEF Described
  <1>7. heap' = heap \ {Ptr[p] : p \in F} /\ NoBadFree'
    <2>1. Release(F)
      BY DEF F
    <2> QED
      BY <1>6, <2>1, ReleaseInUse DEF IInv
  <1>8. Ptr' = Ptr
    BY DEF Ptr
  <1>9. \A p \in AllPlaces : p \in Held' <=> p \in Held /\ p \notin F
    <2> SUFFICES ASSUME NEW p \in AllPlaces
                 PROVE  p \in Held' <=> p \in Held /\ p \notin F
      OBVIOUS
    <2>1. CASE \E q \in Rungs : p = <<"block", q>>
      BY <1>3, <2>1, Before, After DEF Described
    <2>2. CASE \E t \in Threads : p = <<"memory", t>>
      BY <1>1, <1>3, <1>4, <2>2, Before, After DEF Described
    <2>3. CASE p = <<"configs">>
      BY <1>3, <2>3, Before, After DEF Described
    <2>4. CASE \E t \in Threads : p = <<"array", t>>
      BY <1>1, <1>3, <1>4, <2>4, Before, After DEF Described
    <2>5. CASE \E e \in {"header", "slot_buffer"} : p = <<"queue", e>>
      BY <1>3, <2>5, Before, After DEF Described
    <2>6. CASE \E t \in Threads : \E k \in Nat : p = <<"data", t, k>>
      <3>1. PICK t \in Threads : \E k \in Nat : p = <<"data", t, k>>
        BY <2>6
      <3>2. PICK k \in Nat : p = <<"data", t, k>>
        BY <3>1
      <3>3. p \in Held <=> k \in 1 .. Len(slots[t].data) /\ slots[t].data[k] # NULL /\ t >= step
        BY <1>1, <3>2, Before DEF Described
      <3>4. p \in Held' <=>
              k \in 1 .. Len(slots[t].data) /\ slots[t].data[k] # NULL /\ t >= step + 1
        BY <1>1, <3>2, After DEF Described
      <3>5. p \in F <=> t = step /\ k \in 1 .. Len(slots[t].data) /\ slots[t].data[k] # NULL
        BY <1>3, <3>2
      <3> QED
        BY <1>4, <3>3, <3>4, <3>5
    <2> QED
      BY <2>1, <2>2, <2>3, <2>4, <2>5, <2>6, Forms
  <1>10. initialised' = initialised \ {Ptr[p] : p \in F \cap HeldData}
    <2>1. \A p : p \in F \cap HeldData <=> \E k \in 1 .. slot_count : p = <<"data", step, k>>
      <3>1. \A k : k \in 1 .. slot_count <=>
              k \in Nat /\ k \in 1 .. Len(slots[step].data) /\ slots[step].data[k] # NULL
        BY <1>1, <1>2
      <3> QED
        BY <1>3, <1>6, <3>1 DEF HeldData
    <2>2. \A k \in 1 .. slot_count : Ptr[<<"data", step, k>>] = slots[step].data[k]
      BY <1>1, Before DEF Described
    <2> HIDE DEF DestroyWorker
    <2> DEFINE S == {slots[step].data[k] : k \in 1 .. slot_count}
               D == {Ptr[p] : p \in F \cap HeldData}
    <2>3. \A p \in F \cap HeldData : Ptr[p] \in S
      BY <2>1, <2>2
    <2>4. \A k \in 1 .. slot_count : slots[step].data[k] \in D
      <3> SUFFICES ASSUME NEW k \in 1 .. slot_count
                   PROVE  slots[step].data[k] \in D
        OBVIOUS
      <3>1. <<"data", step, k>> \in F \cap HeldData
        BY <2>1
      <3> QED
        BY <2>2, <3>1
    <2>5. D = S
      BY <2>3, <2>4
    <2>6. initialised' = initialised \ S
      BY DEF DestroyWorker
    <2> HIDE DEF D, S
    <2>7. initialised' = initialised \ D
      BY <2>5, <2>6
    <2> QED
      BY <2>7 DEF D
  <1>11. Ownership'
    BY <1>6, <1>7, <1>8, <1>9, <1>10, FreesBlocks DEF IInv
  <1>12. initialised' \subseteq heap'
    BY <1>11 DEF Ownership, Owns, HeldData
  <1>13. TypeOK'
    <2>1. bad_free' \in BOOLEAN
      BY DEF Release, IInv, TypeOK
    <2> HIDE DEF DestroyWorker
    <2>2. heap' \subseteq Nat \ {NULL}
      BY <1>7 DEF IInv, TypeOK
    <2>4. step' \in Nat
      BY <1>1
    <2>3. UNCHANGED <<phase, block, memory, slot_count, slot_capacity, slot_configs, slots>>
      BY DEF DestroyWorker
    <2> QED
      BY <1>12, <2>1, <2>2, <2>3, <2>4 DEF IInv, TypeOK
  <1>14. Built' /\ DataThere' /\ IsFiniteSet(heap)'
    BY <1>1, <1>7, FiniteHeap DEF IInv, Built, AllBlocks, DataThere, QueueWhole
  <1> QED
    BY <1>7, <1>11, <1>13, <1>14 DEF IInv

(* What is left when all the workers are gone.                              *)
LEMMA DestroyContextStep ==
  ASSUME IInv, DestroyContext, queue' = queue
  PROVE  IInv'
  <1> USE LifecycleAssumption
  <1> DEFINE C == NonNull({<<"configs">>})
             B == FreedFrom(1)
             F == C \cup B
  <1>1. /\ phase = "destroying" /\ step \in Nat /\ step > ThreadCount /\ Gone = step /\ AllBlocks
        /\ Release(F) /\ Forget /\ NothingRegistered' /\ UNCHANGED initialised
    BY DEF IInv, Built, TypeOK, DestroyContext, Gone, NothingRegistered
  <1>2. \A t \in Threads : ~(t >= Gone)
    BY <1>1 DEF Threads
  <1>3. \A p : p \in C <=> p = <<"configs">> /\ slot_configs # NULL
    BY DEF NonNull, At
  <1>4. B = {<<"block", r>> : r \in {q \in Rungs : block[q] # NULL}}
    BY <1>1, FreedAll
  <1> HIDE DEF B, C
  <1>5. F \subseteq Held
    BY <1>3, <1>4, Before DEF Described
  <1>6. \A p \in Held : p[1] \in {"block", "configs", "queue"}
    <2> SUFFICES ASSUME NEW p \in Held
                 PROVE  p[1] \in {"block", "configs", "queue"}
      OBVIOUS
    <2>1. ~\E t \in Threads : p = <<"memory", t>> \/ p = <<"array", t>>
      BY <1>2, Before DEF Described
    <2>2. ~\E t \in Threads : \E k \in Nat : p = <<"data", t, k>>
      BY <1>2, Before DEF Described
    <2> QED
      BY <2>1, <2>2, Forms, HeldPlaces
  <1>7. \A p \in Held : p \in F <=> p[1] # "queue"
    <2> SUFFICES ASSUME NEW p \in Held
                 PROVE  p \in F <=> p[1] # "queue"
      OBVIOUS
    <2>1. CASE \E q \in Rungs : p = <<"block", q>>
      BY <1>4, <2>1, Before DEF Described
    <2>2. CASE p = <<"configs">>
      BY <1>3, <2>2, Before DEF Described
    <2>3. CASE \E e \in {"header", "slot_buffer"} : p = <<"queue", e>>
      BY <1>3, <1>4, <2>3
    <2> QED
      BY <1>6, <2>1, <2>2, <2>3, Forms, HeldPlaces
  <1>8. HeldData = {}
    BY <1>6 DEF HeldData
  <1>9. initialised' = initialised \ {Ptr[p] : p \in F \cap HeldData}
    BY <1>1, <1>8
  <1> HIDE DEF F
  <1> QED
    BY <1>1, <1>5, <1>7, <1>9, NothingLeft

(* A queue is put into, or taken out of, the places of a queue.             *)
LEMMA QueueCreateStep ==
  ASSUME IInv, QueueCreate
  PROVE  IInv'
  <1> USE DEF QueueCreate, contextVars, slotVars
  <1> DEFINE hd == <<"queue", "header">>
             bf == <<"queue", "slot_buffer">>
  <1>1. /\ Fresh(1) \in Nat \ {NULL} /\ Fresh(1) \notin heap
        /\ Fresh(2) \in Nat \ {NULL} /\ Fresh(2) \notin heap /\ Fresh(1) # Fresh(2)
    BY FreshBlocks DEF IInv, NULL
  <1>2. /\ queue'["header"] = Fresh(1) /\ queue'["slot_buffer"] = Fresh(2)
        /\ queue["header"] = NULL /\ queue["slot_buffer"] = NULL
    BY DEF NoQueue
  <1>3. Gone' = Gone
    BY DEF Gone
  <1>4. /\ Ptr'[hd] = Fresh(1) /\ Ptr'[bf] = Fresh(2)
        /\ hd \notin Held /\ bf \notin Held /\ hd \in Held' /\ bf \in Held' /\ hd # bf
    BY <1>1, <1>2, Before, After DEF Described
  <1>5. \A p \in AllPlaces : p # hd /\ p # bf =>
          (p \in Held' <=> p \in Held) /\ Ptr'[p] = Ptr[p]
    <2> SUFFICES ASSUME NEW p \in AllPlaces, p # hd, p # bf
                 PROVE  (p \in Held' <=> p \in Held) /\ Ptr'[p] = Ptr[p]
      OBVIOUS
    <2>1. ~\E e \in {"header", "slot_buffer"} : p = <<"queue", e>>
      OBVIOUS
    <2> QED
      BY <1>3, <2>1, Forms, Before, After DEF Described
  <1>6. hd[1] # "data" /\ bf[1] # "data"
    OBVIOUS
  <1> HIDE DEF hd, bf
  <1>7. Held' = (Held \cup {hd}) \cup {bf} /\ \A p \in Held : Ptr'[p] = Ptr[p]
    BY <1>4, <1>5, HeldPlaces
  <1>8. Ownership'
    <2>1. Owns(Ptr', Held \cup {hd}, heap \cup {Ptr'[hd]})
      BY <1>1, <1>4, <1>7, OwnsMore DEF IInv, Ownership
    <2>2. Owns(Ptr', (Held \cup {hd}) \cup {bf}, (heap \cup {Ptr'[hd]}) \cup {Ptr'[bf]})
      BY <1>1, <1>4, <2>1, OwnsMore
    <2>3. heap' = (heap \cup {Ptr'[hd]}) \cup {Ptr'[bf]}
      BY <1>4
    <2>4. HeldData' = HeldData
      BY <1>6, <1>7 DEF HeldData
    <2>5. Owns(Ptr', HeldData, initialised)
      BY <1>7, OwnsSame DEF IInv, Ownership, HeldData
    <2> QED
      BY <1>7, <2>2, <2>3, <2>4, <2>5 DEF Ownership
  <1>9. TypeOK'
    BY <1>1 DEF IInv, TypeOK
  <1>10. Built'
    BY <1>1, <1>2 DEF IInv, Built, NothingRegistered, QueueWhole
  <1>11. DataThere' /\ IsFiniteSet(heap)' /\ NoBadFree'
    BY FiniteHeap DEF IInv, DataThere, NoBadFree
  <1> QED
    BY <1>8, <1>9, <1>10, <1>11 DEF IInv

(* The header of a queue is freed again when its slots cannot be had.       *)
LEMMA QueueCreateFailsStep ==
  ASSUME IInv, QueueCreateFails
  PROVE  IInv'
  <1> USE DEF QueueCreateFails, contextVars, slotVars
  <1>1. heap' = heap
    BY FreshBlocks DEF IInv
  <1>2. Ownership'
    BY <1>1, Unmoved DEF IInv, Gone
  <1>3. TypeOK' /\ Built' /\ DataThere' /\ IsFiniteSet(heap)' /\ NoBadFree'
    BY <1>1 DEF IInv, TypeOK, Built, AllBlocks, NothingRegistered, DataThere, NoBadFree, QueueWhole
  <1> QED
    BY <1>2, <1>3 DEF IInv

(* Both blocks of a queue are freed.                                        *)
LEMMA QueueDestroyStep ==
  ASSUME IInv, QueueDestroy
  PROVE  IInv'
  <1> USE DEF QueueDestroy, contextVars, slotVars
  <1>1. queue["header"] # NULL /\ queue["slot_buffer"] # NULL
    BY DEF IInv, Built, TypeOK, NoQueue, QueueWhole
  <1>2. queue'["header"] = NULL /\ queue'["slot_buffer"] = NULL
    BY DEF NoQueue
  <1>3. Gone' = Gone
    BY DEF Gone
  <1>4. QueuePlaces \subseteq Held
    BY <1>1, Before DEF Described, QueuePlaces
  <1>5. heap' = heap \ {Ptr[p] : p \in QueuePlaces} /\ NoBadFree'
    BY <1>4, ReleaseInUse DEF IInv
  <1>6. \A p \in AllPlaces :
          (p \in Held' <=> p \in Held /\ p \notin QueuePlaces)
          /\ (p \notin QueuePlaces => Ptr'[p] = Ptr[p])
    <2> SUFFICES ASSUME NEW p \in AllPlaces
                 PROVE  (p \in Held' <=> p \in Held /\ p \notin QueuePlaces)
                        /\ (p \notin QueuePlaces => Ptr'[p] = Ptr[p])
      OBVIOUS
    <2>1. CASE p \in QueuePlaces
      BY <1>2, <2>1, After DEF Described, QueuePlaces
    <2>2. CASE p \notin QueuePlaces
      <3>1. ~\E e \in {"header", "slot_buffer"} : p = <<"queue", e>>
        BY <2>2 DEF QueuePlaces
      <3> QED
        BY <1>3, <2>2, <3>1, Forms, Before, After DEF Described
    <2> QED
      BY <2>1, <2>2
  <1>7. Ownership'
    <2>1. QueuePlaces \cap HeldData = {}
      BY DEF QueuePlaces, HeldData
    <2>2. initialised' = initialised \ {Ptr[p] : p \in QueuePlaces \cap HeldData}
      BY <2>1
    <2>3. \A p \in AllPlaces : p \in Held' <=> p \in Held /\ p \notin QueuePlaces
      BY <1>6
    <2>4. \A p \in Held \ QueuePlaces : Ptr'[p] = Ptr[p]
      BY <1>6, HeldPlaces
    <2> QED
      BY <1>4, <1>5, <2>2, <2>3, <2>4, FreesBlocks DEF IInv
  <1>8. TypeOK'
    <2>1. initialised' \subseteq heap'
      BY <1>7 DEF Ownership, Owns, HeldData
    <2>2. bad_free' \in BOOLEAN
      BY DEF Release, IInv, TypeOK
    <2>3. heap' \subseteq Nat \ {NULL} /\ queue' \in [header : Nat, slot_buffer : Nat]
      BY <1>5 DEF IInv, TypeOK, NoQueue, NULL
    <2> QED
      BY <2>1, <2>2, <2>3 DEF IInv, TypeOK
  <1>9. Built' /\ DataThere'
    BY <1>2 DEF IInv, Built, AllBlocks, NothingRegistered, DataThere, QueueWhole
  <1>10. IsFiniteSet(heap)'
    BY <1>5, FiniteHeap DEF IInv
  <1> QED
    BY <1>5, <1>7, <1>8, <1>9, <1>10 DEF IInv

(* The array of configurations is grown when it is full.                    *)
LEMMA RegisterBeginStep ==
  ASSUME IInv, RegisterBegin, queue' = queue
  PROVE  IInv'
  <1> USE LifecycleAssumption
  <1>1. /\ phase = "ready" /\ phase' = "registering" /\ step = 0 /\ step' = 0
        /\ UNCHANGED <<bad_free, block, memory, slot_count, slots, initialised>>
        /\ slot_count < MaxSlots /\ slot_count \in Nat /\ slot_capacity \in Nat
        /\ slot_count <= slot_capacity
    BY NoneDangling DEF IInv, TypeOK, Built, RegisterBegin, contextVars
  <1>2. /\ Fresh(1) \in Nat \ {NULL} /\ Fresh(1) \notin heap
        /\ heap \subseteq Nat \ {NULL} /\ slot_configs \in Nat
    BY FreshBlocks DEF IInv, TypeOK, NULL
  <1>3. \/ /\ ~ConfigsFull /\ UNCHANGED <<heap, slot_configs, slot_capacity>>
        \/ /\ ConfigsFull /\ heap' = (heap \cup {Fresh(1)}) \ {slot_configs}
           /\ slot_configs' = Fresh(1)
           /\ slot_capacity' = IF slot_capacity = 0 THEN SlotInitialCapacity
                               ELSE slot_capacity * 2
    BY DEF RegisterBegin
  <1>4. slot_capacity' \in Nat /\ slot_count < slot_capacity'
    <2>1. CASE ~ConfigsFull
      <3>1. slot_count < slot_capacity
        BY <1>1, <2>1 DEF ConfigsFull
      <3>2. slot_capacity' = slot_capacity
        BY <1>3, <2>1
      <3> QED
        BY <1>1, <3>1, <3>2
    <2>2. CASE ConfigsFull
      <3>1. slot_count = slot_capacity
        BY <1>1, <2>2 DEF ConfigsFull
      <3>2. slot_capacity' = IF slot_capacity = 0 THEN SlotInitialCapacity
                             ELSE slot_capacity * 2
        BY <1>3, <2>2
      <3> QED
        BY <1>1, <3>1, <3>2
    <2> QED
      BY <2>1, <2>2
  <1>5. Gone = 0 /\ Gone' = 0
    BY <1>1 DEF Gone
  <1>6. Ownership'
    <2>1. CASE ~ConfigsFull
      BY <1>1, <1>3, <1>5, <2>1, Unmoved DEF IInv, contextVars
    <2>2. CASE ConfigsFull
      <3> DEFINE p == <<"configs">>
      <3>1. /\ Ptr'[p] = Fresh(1) /\ Ptr[p] = slot_configs /\ p \in Held' /\ p[1] # "data"
            /\ p \in Held <=> slot_configs # NULL
        BY <1>2, <1>3, <2>2, Before, After DEF Described
      <3>2. \A x \in AllPlaces : x # p => (x \in Held' <=> x \in Held) /\ Ptr'[x] = Ptr[x]
        <4> SUFFICES ASSUME NEW x \in AllPlaces, x # p
                     PROVE  (x \in Held' <=> x \in Held) /\ Ptr'[x] = Ptr[x]
          OBVIOUS
        <4> QED
          BY <1>1, <1>5, Forms, Before, After DEF Described
      <3> HIDE DEF p
      <3>3. Held' = Held \cup {p} /\ \A x \in Held \ {p} : Ptr'[x] = Ptr[x]
        BY <3>1, <3>2, HeldPlaces
      <3>4. slot_configs # Fresh(1)
        <4>1. slot_configs # NULL => slot_configs \in heap
          BY <3>1 DEF IInv, Ownership, Owns
        <4> QED
          BY <1>2, <4>1
      <3>5. Owns(Ptr', Held \cup {p}, (heap \cup {Ptr'[p]}) \ {slot_configs})
        <4>1. Ptr'[p] \notin heap /\ slot_configs # Ptr'[p]
          BY <1>2, <3>1, <3>4
        <4>2. p \in Held => slot_configs = Ptr[p]
          BY <3>1
        <4>3. p \notin Held => slot_configs \notin heap
          BY <1>2, <3>1
        <4> QED
          BY <3>3, <4>1, <4>2, <4>3, OwnsRenewed DEF IInv, Ownership
      <3>6. heap' = (heap \cup {Ptr'[p]}) \ {slot_configs}
        BY <1>3, <2>2, <3>1
      <3>7. HeldData' = HeldData /\ \A x \in HeldData : Ptr'[x] = Ptr[x]
        BY <3>1, <3>3 DEF HeldData
      <3>8. Owns(Ptr', HeldData, initialised)
        BY <3>7, OwnsSame DEF IInv, Ownership
      <3> QED
        BY <1>1, <3>3, <3>5, <3>6, <3>7, <3>8 DEF Ownership
    <2> QED
      BY <2>1, <2>2
  <1>7. TypeOK'
    <2>1. initialised' \subseteq heap'
      BY <1>6 DEF Ownership, Owns, HeldData
    <2>2. heap' \subseteq Nat \ {NULL} /\ slot_configs' \in Nat
      BY <1>2, <1>3
    <2> QED
      BY <1>1, <1>4, <2>1, <2>2 DEF IInv, TypeOK
  <1>8. Built'
    BY <1>1, <1>4 DEF IInv, Built, AllBlocks, QueueWhole
  <1>9. DataThere'
    <2>1. \A t \in Threads : ~(t < 0)
      BY DEF Threads
    <2> QED
      BY <1>1, <2>1 DEF IInv, DataThere
  <1>10. NoBadFree' /\ IsFiniteSet(heap)'
    <2>1. IsFiniteSet((heap \cup {Fresh(1)}) \ {slot_configs})
      BY FiniteHeap DEF IInv
    <2> QED
      BY <1>1, <1>3, <2>1 DEF IInv, NoBadFree
  <1> QED
    BY <1>6, <1>7, <1>8, <1>9, <1>10 DEF IInv

(* A worker's slots with an array that has room for one more.               *)
OneMore(s, a, d) ==
  /\ s \in [Threads -> [array : Nat, data : Seq(Nat)]]
  /\ \A t \in Threads : t # step => s[t] = slots[t]
  /\ s[step].array = a
  /\ Len(s[step].data) = slot_count + 1
  /\ \A k \in 1 .. slot_count : s[step].data[k] = slots[step].data[k]
  /\ s[step].data[slot_count + 1] = d

(* That is what register_slot makes of the slots of a worker.               *)
LEMMA ExtendedSlots ==
  ASSUME TypeOK, DataThere, step \in Threads, NEW a \in Nat, NEW d \in Nat
  PROVE  OneMore(Extended(a, d), a, d)
  <1> DEFINE old  == slots[step].data
             copy == Copied(old)
             data == Append(copy, d)
  <1>1. old \in Seq(Nat) /\ slot_count \in Nat /\ slot_count <= Len(old) /\ Len(old) \in Nat
    BY SlotTypes DEF TypeOK, DataThere
  <1>2. /\ copy \in Seq(Nat) /\ Len(copy) = slot_count
        /\ \A k \in 1 .. slot_count : copy[k] = old[k]
    <2> HIDE DEF old
    <2>1. copy = SubSeq(old, 1, slot_count)
      BY DEF Copied
    <2> QED
      BY <1>1, <2>1
  <1>3. /\ data \in Seq(Nat) /\ Len(data) = slot_count + 1 /\ data[slot_count + 1] = d
        /\ \A k \in 1 .. slot_count : data[k] = old[k]
    <2> HIDE DEF old, copy
    <2> QED
      BY <1>1, <1>2
  <1>4. Extended(a, d) = [slots EXCEPT ![step] = [array |-> a, data |-> data]]
    BY DEF Extended
  <1> HIDE DEF data
  <1>5. slots \in [Threads -> [array : Nat, data : Seq(Nat)]]
    BY DEF TypeOK
  <1>6. Extended(a, d)[step] = [array |-> a, data |-> data]
    BY <1>4, <1>5
  <1>7. /\ Extended(a, d) \in [Threads -> [array : Nat, data : Seq(Nat)]]
        /\ \A t \in Threads : t # step => Extended(a, d)[t] = slots[t]
    BY <1>3, <1>4, <1>5
  <1> QED
    BY <1>3, <1>6, <1>7 DEF OneMore

(* The pointers of a worker whose array has been replaced: the array's is   *)
(* new, those to data are as before, and there is one more unless it is     *)
(* NULL.                                                                    *)
LEMMA ExtendedOwns ==
  ASSUME IInv, phase = "registering", step \in Threads, NEW d \in Nat,
         d \notin heap, d # Fresh(1),
         NEW f, f = Pointers(block, memory, slot_configs, Extended(Fresh(1), d), queue),
         NEW L, L = InUse(block, memory, slot_configs, Extended(Fresh(1), d), queue, 0)
  PROVE  /\ d = NULL => /\ Owns(f, L, (heap \cup {Fresh(1)}) \ OldArray)
                        /\ Owns(f, {p \in L : p[1] = "data"}, initialised)
         /\ d # NULL => /\ Owns(f, L, ((heap \cup {Fresh(1)}) \ OldArray) \cup {d})
                        /\ Owns(f, {p \in L : p[1] = "data"}, initialised \cup {d})
  <1> DEFINE s  == Extended(Fresh(1), d)
             ar == <<"array", step>>
             nw == <<"data", step, slot_count + 1>>
             A  == slots[step].array
             K  == (heap \cup {Fresh(1)}) \ OldArray
  <1>1. /\ Fresh(1) \in Nat /\ Fresh(1) # NULL /\ Fresh(1) \notin heap
        /\ heap \subseteq Nat \ {NULL} /\ initialised \subseteq heap
        /\ slot_count \in Nat /\ slot_count + 1 \in Nat /\ A \in Nat
    <2>1. TypeOK /\ IsFiniteSet(heap)
      BY DEF IInv
    <2>2. A \in Nat
      BY <2>1, SlotTypes
    <2>3. Fresh(1) \in Nat /\ Fresh(1) # NULL /\ Fresh(1) \notin heap
      BY <2>1, FreshBlocks DEF NULL
    <2> QED
      BY <2>1, <2>2, <2>3 DEF TypeOK
  <1>2. Gone = 0 /\ \A t \in Threads : t >= 0 /\ ~(step < step)
    BY DEF Gone, Threads
  <1>3. /\ \A t \in Threads : t # step => s[t] = slots[t]
        /\ s[step].array = Fresh(1) /\ Len(s[step].data) = slot_count + 1
        /\ \A k \in 1 .. slot_count : s[step].data[k] = slots[step].data[k]
        /\ s[step].data[slot_count + 1] = d
    <2>1. TypeOK /\ DataThere /\ Fresh(1) \in Nat
      BY <1>1 DEF IInv
    <2>2. OneMore(s, Fresh(1), d)
      BY <2>1, ExtendedSlots
    <2> QED
      BY <2>2 DEF OneMore
  <1>4. /\ slot_count <= Len(slots[step].data) /\ Len(slots[step].data) \in Nat
        /\ \A k \in 1 .. Len(slots[step].data) :
             slots[step].data[k] # NULL <=> k <= slot_count
    BY <1>1, <1>2, SlotTypes DEF IInv, DataThere
  <1> HIDE DEF s
  <1>5. Described(f, L, block, memory, slot_configs, s, queue, 0)
    BY PlaceByPlace DEF s
  <1>6. Described(Ptr, Held, block, memory, slot_configs, slots, queue, 0)
    BY <1>2, Before
  <1>7. \A k \in Nat :
          (<<"data", step, k>> \in Held <=> k \in 1 .. slot_count)
          /\ (<<"data", step, k>> \in L <=> k \in 1 .. slot_count \/ (k = slot_count + 1 /\ d # NULL))
    <2> SUFFICES ASSUME NEW k \in Nat
                 PROVE  (<<"data", step, k>> \in Held <=> k \in 1 .. slot_count)
                        /\ (<<"data", step, k>> \in L <=>
                              k \in 1 .. slot_count \/ (k = slot_count + 1 /\ d # NULL))
      OBVIOUS
    <2>1. <<"data", step, k>> \in Held <=>
            k \in 1 .. Len(slots[step].data) /\ slots[step].data[k] # NULL
      BY <1>2, <1>6 DEF Described
    <2>2. k \in 1 .. slot_count <=>
            k \in 1 .. Len(slots[step].data) /\ slots[step].data[k] # NULL
      <3>1. k \in 1 .. slot_count <=> k \in 1 .. Len(slots[step].data) /\ k <= slot_count
        BY <1>1, <1>4
      <3> QED
        BY <1>4, <3>1
    <2>3. <<"data", step, k>> \in L <=>
            k \in 1 .. slot_count + 1 /\ s[step].data[k] # NULL
      BY <1>2, <1>3, <1>5 DEF Described
    <2>4. k \in 1 .. slot_count + 1 <=> k \in 1 .. slot_count \/ k = slot_count + 1
      BY <1>1
    <2>5. k \in 1 .. slot_count => s[step].data[k] # NULL
      BY <1>3, <2>2
    <2>6. k = slot_count + 1 => s[step].data[k] = d
      BY <1>3
    <2>7. <<"data", step, k>> \in Held <=> k \in 1 .. slot_count
      BY <2>1, <2>2
    <2>8. <<"data", step, k>> \in L <=> k \in 1 .. slot_count \/ (k = slot_count + 1 /\ d # NULL)
      <3>1. CASE k \in 1 .. slot_count
        BY <2>3, <2>4, <2>5, <3>1
      <3>2. CASE k = slot_count + 1
        <4>1. k \notin 1 .. slot_count
          BY <1>1, <3>2
        <4> QED
          BY <2>3, <2>4, <2>6, <3>2, <4>1
      <3>3. CASE k \notin 1 .. slot_count /\ k # slot_count + 1
        BY <2>3, <2>4, <3>3
      <3> QED
        BY <3>1, <3>2, <3>3
    <2> QED
      BY <2>7, <2>8
  <1>8. /\ f[ar] = Fresh(1) /\ ar \in L /\ Ptr[ar] = A /\ (ar \in Held <=> A # NULL)
        /\ f[nw] = d /\ nw \notin Held /\ (nw \in L <=> d # NULL) /\ ar # nw
    <2>1. f[ar] = Fresh(1) /\ ar \in L /\ Ptr[ar] = A /\ (ar \in Held <=> A # NULL)
      BY <1>1, <1>2, <1>3, <1>5, <1>6 DEF Described
    <2>2. f[nw] = d
      BY <1>1, <1>3, <1>5 DEF Described
    <2>3. ~(slot_count + 1 \in 1 .. slot_count)
      BY <1>1
    <2> QED
      BY <1>1, <1>7, <2>1, <2>2, <2>3
  <1>9. \A p \in AllPlaces : p # ar /\ p # nw => (p \in L <=> p \in Held)
                                                 /\ (p \in Held => f[p] = Ptr[p])
    <2> SUFFICES ASSUME NEW p \in AllPlaces, p # ar, p # nw
                 PROVE  (p \in L <=> p \in Held) /\ (p \in Held => f[p] = Ptr[p])
      OBVIOUS
    <2>1. CASE \E r \in Rungs : p = <<"block", r>>
      BY <2>1, <1>5, <1>6 DEF Described
    <2>2. CASE \E t \in Threads : p = <<"memory", t>>
      BY <2>2, <1>5, <1>6 DEF Described
    <2>3. CASE p = <<"configs">>
      BY <2>3, <1>5, <1>6 DEF Described
    <2>4. CASE \E t \in Threads : p = <<"array", t>>
      BY <2>4, <1>3, <1>5, <1>6 DEF Described
    <2>5. CASE \E e \in {"header", "slot_buffer"} : p = <<"queue", e>>
      BY <2>5, <1>5, <1>6 DEF Described
    <2>6. CASE \E t \in Threads : \E k \in Nat : p = <<"data", t, k>>
      <3>1. PICK t \in Threads : \E k \in Nat : p = <<"data", t, k>>
        BY <2>6
      <3>2. PICK k \in Nat : p = <<"data", t, k>>
        BY <3>1
      <3>3. CASE t # step
        BY <1>3, <1>5, <1>6, <3>2, <3>3 DEF Described
      <3>4. CASE t = step
        <4>1. k # slot_count + 1
          BY <3>2, <3>4
        <4>2. f[p] = s[step].data[k] /\ Ptr[p] = slots[step].data[k]
          BY <1>5, <1>6, <3>2, <3>4 DEF Described
        <4>3. (p \in Held <=> k \in 1 .. slot_count) /\ (p \in L <=> k \in 1 .. slot_count)
          <5>1. p = <<"data", step, k>>
            BY <3>2, <3>4
          <5> HIDE DEF nw
          <5>2. /\ <<"data", step, k>> \in Held <=> k \in 1 .. slot_count
                /\ <<"data", step, k>> \in L <=>
                     k \in 1 .. slot_count \/ (k = slot_count + 1 /\ d # NULL)
            BY <1>7
          <5> QED
            BY <4>1, <5>1, <5>2
        <4>4. k \in 1 .. slot_count => f[p] = Ptr[p]
          BY <1>3, <4>2
        <4> QED
          BY <4>3, <4>4
      <3> QED
        BY <3>3, <3>4
    <2> QED
      BY <2>1, <2>2, <2>3, <2>4, <2>5, <2>6, Forms
  <1>10. L \subseteq AllPlaces /\ Held \subseteq AllPlaces
    BY HeldPlaces DEF InUse
  <1>11. ar[1] # "data" /\ nw[1] = "data"
    OBVIOUS
  <1> HIDE DEF ar, nw
  <1>12. Owns(f, Held \cup {ar}, K)
    <2>1. A # NULL => A \in heap
      BY <1>8 DEF IInv, Ownership, Owns
    <2>2. A # f[ar] /\ f[ar] \notin heap
      BY <1>1, <1>8, <2>1
    <2>3. ar \in Held => A = Ptr[ar]
      BY <1>8
    <2>4. ar \notin Held => A \notin heap
      BY <1>1, <1>8
    <2>5. \A x \in Held \ {ar} : f[x] = Ptr[x]
      BY <1>8, <1>9, <1>10
    <2>6. Owns(f, Held \cup {ar}, (heap \cup {f[ar]}) \ {A})
      BY <2>2, <2>3, <2>4, <2>5, OwnsRenewed DEF IInv, Ownership
    <2> QED
      BY <1>8, <2>6 DEF OldArray
  <1>13. Owns(f, HeldData, initialised)
    <2>1. \A x \in HeldData : f[x] = Ptr[x]
      BY <1>8, <1>9, <1>10, <1>11 DEF HeldData
    <2> QED
      BY <2>1, OwnsSame DEF IInv, Ownership
  <1>14. CASE d = NULL
    <2>1. L = Held \cup {ar}
      BY <1>8, <1>9, <1>10, <1>14
    <2>2. {p \in L : p[1] = "data"} = HeldData
      BY <1>11, <2>1 DEF HeldData
    <2> QED
      BY <1>12, <1>13, <1>14, <2>1, <2>2
  <1>15. CASE d # NULL
    <2>1. L = (Held \cup {ar}) \cup {nw}
      BY <1>8, <1>9, <1>10, <1>15
    <2>2. {p \in L : p[1] = "data"} = HeldData \cup {nw}
      BY <1>11, <2>1 DEF HeldData
    <2>3. d \notin K /\ nw \notin Held \cup {ar} /\ nw \notin HeldData /\ d \notin initialised
      BY <1>1, <1>8 DEF HeldData
    <2> HIDE DEF K
    <2>4. Owns(f, (Held \cup {ar}) \cup {nw}, K \cup {d})
      BY <1>8, <1>12, <2>3, OwnsMore
    <2>5. Owns(f, HeldData \cup {nw}, initialised \cup {d})
      BY <1>8, <1>13, <2>3, OwnsMore
    <2> QED
      BY <1>15, <2>1, <2>2, <2>4, <2>5 DEF K
  <1> QED
    BY <1>14, <1>15

(* The loop of register_slot is at a worker.                                *)
LEMMA Registering ==
  ASSUME IInv, phase = "registering", step <= ThreadCount
  PROVE  /\ step \in Threads /\ Gone = 0
         /\ slots \in [Threads -> [array : Nat, data : Seq(Nat)]]
         /\ heap \subseteq Nat \ {NULL} /\ IsFiniteSet(heap)
         /\ \A t \in Threads :
              /\ slot_count <= Len(slots[t].data)
              /\ \A k \in 1 .. Len(slots[t].data) :
                   slots[t].data[k] # NULL <=>
                     k <= slot_count \/ (t < step /\ k = slot_count + 1)
              /\ t < step => slot_count < Len(slots[t].data)
  <1> USE LifecycleAssumption
  <1>1. step \in Threads
    BY DEF IInv, Built, Threads
  <1> QED
    BY <1>1 DEF IInv, TypeOK, DataThere, Gone

(* A worker gets a new array, and a data block for the new slot.            *)
LEMMA RegisterWorkerStep ==
  ASSUME IInv, RegisterWorker, queue' = queue
  PROVE  IInv'
  <1> USE LifecycleAssumption
  <1> DEFINE s == Extended(Fresh(1), Fresh(2))
  <1>1. /\ phase = "registering" /\ phase' = "registering"
        /\ step \in Threads /\ step' = step + 1 /\ step' \in 0 .. ThreadCount + 1
        /\ heap' = (heap \cup {Fresh(1), Fresh(2)}) \ OldArray /\ slots' = s
        /\ initialised' = initialised \cup {Fresh(2)}
        /\ UNCHANGED <<bad_free, block, memory, slot_count, slot_capacity, slot_configs>>
    <2> USE DEF RegisterWorker, contextVars
    <2>0. bad_free' = bad_free
      BY Registering, NoneDangling DEF IInv, TypeOK, DanglingArray, Threads
    <2>1. phase = "registering" /\ step \in 0 .. ThreadCount + 1 /\ step <= ThreadCount
      BY DEF IInv, Built
    <2>2. step \in Threads /\ step + 1 \in 0 .. ThreadCount + 1
      BY <2>1 DEF Threads
    <2> QED
      BY <2>0, <2>1, <2>2
  <1>2. /\ Fresh(1) \in Nat /\ Fresh(1) # NULL /\ Fresh(1) \notin heap
        /\ Fresh(2) \in Nat /\ Fresh(2) # NULL /\ Fresh(2) \notin heap /\ Fresh(2) # Fresh(1)
        /\ heap \subseteq Nat \ {NULL} /\ IsFiniteSet(heap) /\ slot_count \in Nat
    BY FreshBlocks DEF IInv, TypeOK, NULL
  <1>3. /\ s \in [Threads -> [array : Nat, data : Seq(Nat)]]
        /\ \A t \in Threads : t # step => s[t] = slots[t]
        /\ Len(s[step].data) = slot_count + 1
        /\ \A k \in 1 .. slot_count : s[step].data[k] = slots[step].data[k]
        /\ s[step].data[slot_count + 1] = Fresh(2)
    <2>1. TypeOK /\ DataThere
      BY DEF IInv
    <2>2. OneMore(s, Fresh(1), Fresh(2))
      BY <1>1, <1>2, <2>1, ExtendedSlots
    <2> QED
      BY <2>2 DEF OneMore
  <1> HIDE DEF s
  <1>4. Ownership'
    <2>1. Ptr' = Pointers(block, memory, slot_configs, Extended(Fresh(1), Fresh(2)), queue)
      BY <1>1 DEF Ptr, s
    <2>2. Held' = InUse(block, memory, slot_configs, Extended(Fresh(1), Fresh(2)), queue, 0)
      BY <1>1 DEF Held, Gone, s
    <2>3. /\ Owns(Ptr', Held', ((heap \cup {Fresh(1)}) \ OldArray) \cup {Fresh(2)})
          /\ Owns(Ptr', {p \in Held' : p[1] = "data"}, initialised \cup {Fresh(2)})
      BY <1>1, <1>2, <2>1, <2>2, ExtendedOwns
    <2>4. Fresh(2) \notin OldArray
      <3>1. slots[step].array \in heap \/ slots[step].array = NULL
        <4>1. step >= 0 /\ Gone = 0
          BY <1>1 DEF Threads, Gone
        <4>2. slots[step].array # NULL => <<"array", step>> \in Held
          BY <1>1, <4>1, Before DEF Described
        <4>3. Ptr[<<"array", step>>] = slots[step].array
          BY <1>1, Before DEF Described
        <4> QED
          BY <4>2, <4>3 DEF IInv, Ownership, Owns
      <3> QED
        BY <1>2, <3>1 DEF OldArray
    <2>5. heap' = ((heap \cup {Fresh(1)}) \ OldArray) \cup {Fresh(2)}
      BY <1>1, <2>4
    <2> QED
      BY <1>1, <2>3, <2>5 DEF Ownership, HeldData
  <1>5. TypeOK'
    <2>1. initialised' \subseteq heap'
      BY <1>4 DEF Ownership, Owns, HeldData
    <2>2. heap' \subseteq Nat \ {NULL}
      BY <1>1, <1>2
    <2>3. step' \in Nat
      BY <1>1
    <2> QED
      BY <1>1, <1>3, <2>1, <2>2, <2>3 DEF IInv, TypeOK
  <1>6. Built'
    BY <1>1 DEF IInv, Built, AllBlocks, QueueWhole
  <1>7. DataThere'
    <2> SUFFICES ASSUME NEW t \in Threads
                 PROVE  /\ slot_count <= Len(s[t].data)
                        /\ \A k \in 1 .. Len(s[t].data) :
                             s[t].data[k] # NULL <=>
                               k <= slot_count \/ (t < step + 1 /\ k = slot_count + 1)
                        /\ t < step + 1 => slot_count < Len(s[t].data)
      BY <1>1 DEF DataThere
    <2>1. t < step + 1 <=> t < step \/ t = step
      BY <1>1 DEF Threads
    <2>2. CASE t # step
      BY <1>1, <1>3, <2>1, <2>2 DEF IInv, DataThere
    <2>3. CASE t = step
      <3>1. \A k \in 1 .. slot_count : slots[step].data[k] # NULL
        <4>1. slot_count <= Len(slots[step].data) /\ Len(slots[step].data) \in Nat
          BY <1>1, SlotTypes DEF IInv, DataThere
        <4>2. \A k \in 1 .. slot_count : k \in 1 .. Len(slots[step].data) /\ k <= slot_count
          BY <1>2, <4>1
        <4> QED
          BY <1>1, <4>2 DEF IInv, DataThere
      <3>2. \A k \in 1 .. slot_count + 1 : k \in 1 .. slot_count \/ k = slot_count + 1
        BY <1>2
      <3>3. \A k \in 1 .. slot_count + 1 : s[step].data[k] # NULL
        BY <1>2, <1>3, <3>1, <3>2
      <3>4. \A k \in 1 .. slot_count + 1 : k <= slot_count \/ k = slot_count + 1
        BY <1>2
      <3>5. slot_count <= slot_count + 1 /\ slot_count < slot_count + 1
        BY <1>2
      <3> QED
        BY <1>3, <2>1, <2>3, <3>3, <3>4, <3>5
    <2> QED
      BY <2>2, <2>3
  <1>8. NoBadFree' /\ IsFiniteSet(heap)'
    <2>1. IsFiniteSet((heap \cup {Fresh(1), Fresh(2)}) \ OldArray)
      BY <1>2, FiniteHeap
    <2> QED
      BY <1>1, <2>1 DEF IInv, NoBadFree
  <1> QED
    BY <1>4, <1>5, <1>6, <1>7, <1>8 DEF IInv

(* fail_slots, from a heap h and workers' slots s that own their blocks.    *)
LEMMA UndoStep ==
  ASSUME IInv, phase = "registering", step \in Threads, queue' = queue, NEW h, NEW s,
         Undo(h, s, FALSE), h \subseteq Nat \ {NULL}, IsFiniteSet(h),
         s \in [Threads -> [array : Nat, data : Seq(Nat)]],
         NEW f, f = Pointers(block, memory, slot_configs, s, queue),
         NEW L, L = InUse(block, memory, slot_configs, s, queue, 0),
         Owns(f, L, h), Owns(f, {p \in L : p[1] = "data"}, initialised),
         \A t \in Threads :
           /\ slot_count <= Len(s[t].data)
           /\ \A k \in 1 .. Len(s[t].data) :
                s[t].data[k] # NULL <=> k <= slot_count \/ (t < step /\ k = slot_count + 1)
           /\ t < step => slot_count < Len(s[t].data)
  PROVE  IInv'
  <1> USE LifecycleAssumption
  <1> DEFINE n     == slot_count + 1
             F     == {<<"data", t, n>> : t \in Completed}
             freed == {s[t].data[n] : t \in Completed}
  <1>1. /\ heap' = h \ freed /\ bad_free' = (bad_free \/ ~(freed \subseteq h))
        /\ initialised' = initialised \ freed
        /\ slots' = [t \in Threads |-> IF t \in Completed THEN [s[t] EXCEPT !.data[n] = NULL]
                                       ELSE s[t]]
        /\ phase' = "ready" /\ step' = 0
        /\ UNCHANGED <<block, memory, slot_count, slot_capacity, slot_configs>>
    BY DEF Undo, contextVars
  <1>2. slot_count \in Nat /\ n \in Nat /\ ~(n <= slot_count)
    BY DEF IInv, TypeOK
  <1>3. /\ \A t : t \in Completed <=> t \in Threads /\ t < step
        /\ \A t \in Threads : t >= 0 /\ ~(t < 0)
    BY DEF Completed, Threads
  <1>4. \A t \in Threads : /\ s[t].data \in Seq(Nat) /\ Len(s[t].data) \in Nat
                           /\ \A k \in 1 .. Len(s[t].data) : s[t].data[k] \in Nat
    OBVIOUS
  <1>5. \A t \in Completed : t \in Threads /\ n \in 1 .. Len(s[t].data) /\ s[t].data[n] # NULL
    <2> SUFFICES ASSUME NEW t \in Completed
                 PROVE  t \in Threads /\ n \in 1 .. Len(s[t].data) /\ s[t].data[n] # NULL
      OBVIOUS
    <2>1. t \in Threads /\ t < step
      BY <1>3
    <2>2. slot_count < Len(s[t].data)
      BY <2>1
    <2>3. n \in 1 .. Len(s[t].data)
      BY <1>2, <1>4, <2>1, <2>2
    <2> QED
      BY <2>1, <2>3
  <1>6. \A t \in Threads :
          /\ slots'[t].array = s[t].array /\ Len(slots'[t].data) = Len(s[t].data)
          /\ slots'[t].data \in Seq(Nat) /\ slots'[t].array \in Nat
          /\ slots'[t] \in [array : Nat, data : Seq(Nat)]
          /\ \A k \in 1 .. Len(s[t].data) :
               slots'[t].data[k] = IF t \in Completed /\ k = n THEN NULL ELSE s[t].data[k]
    <2> SUFFICES ASSUME NEW t \in Threads
                 PROVE  /\ slots'[t].array = s[t].array /\ Len(slots'[t].data) = Len(s[t].data)
                        /\ slots'[t].data \in Seq(Nat) /\ slots'[t].array \in Nat
                        /\ slots'[t] \in [array : Nat, data : Seq(Nat)]
                        /\ \A k \in 1 .. Len(s[t].data) :
                             slots'[t].data[k] = IF t \in Completed /\ k = n THEN NULL
                                                 ELSE s[t].data[k]
      OBVIOUS
    <2>1. CASE t \in Completed
      <3> DEFINE data == [s[t].data EXCEPT ![n] = NULL]
      <3>1. slots'[t] = [s[t] EXCEPT !.data = data]
        BY <1>1, <2>1
      <3>2. /\ data \in Seq(Nat) /\ Len(data) = Len(s[t].data)
            /\ \A k \in 1 .. Len(s[t].data) : data[k] = IF k = n THEN NULL ELSE s[t].data[k]
        BY <1>4, <1>5, <2>1 DEF NULL
      <3> HIDE DEF data
      <3>3. slots'[t].array = s[t].array /\ slots'[t].data = data
            /\ slots'[t] \in [array : Nat, data : Seq(Nat)]
        BY <3>1, <3>2
      <3> QED
        BY <2>1, <3>2, <3>3
    <2>2. CASE t \notin Completed
      BY <1>1, <1>4, <2>2
    <2> QED
      BY <2>1, <2>2
  <1>7. Described(f, L, block, memory, slot_configs, s, queue, 0)
    BY PlaceByPlace
  <1>8. Described(Ptr', Held', block, memory, slot_configs, slots', queue, 0)
    BY <1>1, After DEF Gone
  <1> HIDE DEF n
  <1>9. \A p : p \in F <=> \E t \in Completed : p = <<"data", t, n>>
    OBVIOUS
  <1>10. F \subseteq L /\ \A t \in Completed : f[<<"data", t, n>>] = s[t].data[n]
    BY <1>2, <1>3, <1>5, <1>7, <1>9 DEF Described
  <1> HIDE DEF F
  <1>11. \A b : b \in freed <=> \E p \in F : f[p] = b
    <2>1. \A b : b \in freed <=> \E t \in Completed : s[t].data[n] = b
      BY DEF freed
    <2>2. \A b : (\E p \in F : f[p] = b) <=> \E t \in Completed : f[<<"data", t, n>>] = b
      BY <1>9
    <2> HIDE DEF freed
    <2>3. \A t \in Completed : f[<<"data", t, n>>] = s[t].data[n]
      BY <1>10
    <2>4. ASSUME NEW b
          PROVE  (\E t \in Completed : s[t].data[n] = b)
                   <=> \E t \in Completed : f[<<"data", t, n>>] = b
      BY <2>3
    <2> QED
      BY <2>1, <2>2, <2>4
  <1>12. L \subseteq AllPlaces /\ Held' \subseteq AllPlaces
    BY DEF InUse, Held
  <1> HIDE DEF freed
  <1>13. \A p \in AllPlaces : (p \in Held' <=> p \in L /\ p \notin F)
                              /\ (p \in Held' => Ptr'[p] = f[p])
    <2> SUFFICES ASSUME NEW p \in AllPlaces
                 PROVE  (p \in Held' <=> p \in L /\ p \notin F) /\ (p \in Held' => Ptr'[p] = f[p])
      OBVIOUS
    <2>0. p \in F => p[1] = "data"
      BY <1>9
    <2>1. CASE \E r \in Rungs : p = <<"block", r>>
      BY <1>7, <1>8, <2>0, <2>1 DEF Described
    <2>2. CASE \E t \in Threads : p = <<"memory", t>>
      BY <1>7, <1>8, <2>0, <2>2 DEF Described
    <2>3. CASE p = <<"configs">>
      BY <1>7, <1>8, <2>0, <2>3 DEF Described
    <2>4. CASE \E t \in Threads : p = <<"array", t>>
      BY <1>3, <1>6, <1>7, <1>8, <2>0, <2>4 DEF Described
    <2>5. CASE \E e \in {"header", "slot_buffer"} : p = <<"queue", e>>
      <3>1. \A e \in {"header", "slot_buffer"} :
              f[<<"queue", e>>] = queue[e] /\ (<<"queue", e>> \in L <=> queue[e] # NULL)
        BY <1>7 DEF Described
      <3>2. \A e \in {"header", "slot_buffer"} :
              Ptr'[<<"queue", e>>] = queue[e] /\ (<<"queue", e>> \in Held' <=> queue[e] # NULL)
        BY <1>8 DEF Described
      <3>3. PICK e \in {"header", "slot_buffer"} : p = <<"queue", e>>
        BY <2>5
      <3>4. p[1] = "queue"
        BY <3>3
      <3>5. p \notin F
        BY <2>0, <3>4
      <3> QED
        BY <3>1, <3>2, <3>3, <3>5
    <2>6. CASE \E t \in Threads : \E k \in Nat : p = <<"data", t, k>>
      <3>1. PICK t \in Threads : \E k \in Nat : p = <<"data", t, k>>
        BY <2>6
      <3>2. PICK k \in Nat : p = <<"data", t, k>>
        BY <3>1
      <3>3. /\ f[p] = s[t].data[k] /\ Ptr'[p] = slots'[t].data[k]
            /\ p \in L <=> k \in 1 .. Len(s[t].data) /\ s[t].data[k] # NULL
            /\ p \in Held' <=> k \in 1 .. Len(s[t].data) /\ slots'[t].data[k] # NULL
        BY <1>3, <1>6, <1>7, <1>8, <3>2 DEF Described
      <3>4. p \in F <=> t \in Completed /\ k = n
        BY <1>9, <3>2
      <3>5. k \in 1 .. Len(s[t].data) =>
              slots'[t].data[k] = IF t \in Completed /\ k = n THEN NULL ELSE s[t].data[k]
        BY <1>6
      <3> QED
        BY <3>3, <3>4, <3>5
    <2> QED
      BY <2>1, <2>2, <2>3, <2>4, <2>5, <2>6, Forms
  <1>14. Held' = L \ F /\ \A p \in L \ F : Ptr'[p] = f[p]
    BY <1>12, <1>13
  <1>15. Ownership'
    <2>1. Owns(Ptr', Held', heap')
      <3>1. \A b : b \in heap' <=> b \in h /\ \A p \in F : f[p] # b
        BY <1>1, <1>11
      <3>2. F \subseteq L /\ \A p : p \in Held' <=> p \in L /\ p \notin F
        BY <1>10, <1>14
      <3>3. \A p \in Held' : Ptr'[p] = f[p]
        BY <1>14
      <3>4. Without(F, f, L, h, Ptr', Held', heap')
        BY <3>1, <3>2, <3>3 DEF Without
      <3> QED
        BY <3>4, OwnsLeft
    <2> DEFINE D == {p \in L : p[1] = "data"}
    <2>2. F \subseteq D /\ \A p : p \in HeldData' <=> p \in D /\ p \notin F
      BY <1>9, <1>10, <1>14 DEF HeldData
    <2>3. \A p \in HeldData' : Ptr'[p] = f[p]
      BY <1>14 DEF HeldData
    <2> HIDE DEF D
    <2>4. Owns(f, D, initialised)
      BY DEF D
    <2>5. \A b : b \in initialised' <=> b \in initialised /\ \A p \in F : f[p] # b
      BY <1>1, <1>11
    <2>6. Owns(Ptr', HeldData', initialised')
      <3>1. Without(F, f, D, initialised, Ptr', HeldData', initialised')
        BY <2>2, <2>3, <2>5 DEF Without
      <3> QED
        BY <2>4, <3>1, OwnsLeft
    <2> QED
      BY <2>1, <2>6 DEF Ownership
  <1>16. freed \subseteq h
    BY <1>10, <1>11 DEF Owns
  <1>17. TypeOK'
    <2>1. initialised' \subseteq heap'
      BY <1>15 DEF Ownership, Owns, HeldData
    <2>2. slots' \in [Threads -> [array : Nat, data : Seq(Nat)]]
      <3>1. DOMAIN slots' = Threads /\ slots' = [t \in Threads |-> slots'[t]]
        BY <1>1
      <3> QED
        BY <1>6, <3>1
    <2>3. heap' \subseteq Nat \ {NULL} /\ bad_free' \in BOOLEAN
      BY <1>1 DEF IInv, TypeOK
    <2> QED
      BY <1>1, <2>1, <2>2, <2>3 DEF IInv, TypeOK
  <1>18. Built'
    BY <1>1 DEF IInv, Built, AllBlocks, QueueWhole
  <1>19. DataThere'
    <2> SUFFICES ASSUME NEW t \in Threads
                 PROVE  /\ slot_count <= Len(slots'[t].data)
                        /\ \A k \in 1 .. Len(slots'[t].data) :
                             slots'[t].data[k] # NULL <=> k <= slot_count
      BY <1>1 DEF DataThere
    <2>1. slot_count <= Len(slots'[t].data) /\ Len(slots'[t].data) = Len(s[t].data)
      BY <1>6
    <2>2. ASSUME NEW k \in 1 .. Len(s[t].data)
          PROVE  slots'[t].data[k] # NULL <=> k <= slot_count
      <3>1. s[t].data[k] # NULL <=> k <= slot_count \/ (t < step /\ k = n)
        BY DEF n
      <3>2. slots'[t].data[k] = IF t \in Completed /\ k = n THEN NULL ELSE s[t].data[k]
        BY <1>6
      <3>3. t \in Completed <=> t < step
        BY <1>3
      <3>4. k = n => ~(k <= slot_count)
        BY <1>2 DEF n
      <3> QED
        BY <3>1, <3>2, <3>3, <3>4
    <2> QED
      BY <2>1, <2>2
  <1>20. NoBadFree' /\ IsFiniteSet(heap)'
    <2>1. IsFiniteSet(h \ freed)
      BY FS_Difference
    <2> QED
      BY <1>1, <1>16, <2>1 DEF IInv, NoBadFree
  <1> QED
    BY <1>15, <1>17, <1>18, <1>19, <1>20 DEF IInv

(* There is no memory for the array.                                        *)
LEMMA RegisterArrayFailsStep ==
  ASSUME IInv, RegisterArrayFails, queue' = queue
  PROVE  IInv'
  <1>1. phase = "registering" /\ step <= ThreadCount /\ Undo(heap, slots, FALSE)
    BY DEF RegisterArrayFails
  <1>2. /\ Ptr = Pointers(block, memory, slot_configs, slots, queue)
        /\ Held = InUse(block, memory, slot_configs, slots, queue, 0)
    BY <1>1, Registering DEF Ptr, Held
  <1>3. Owns(Ptr, Held, heap) /\ Owns(Ptr, {p \in Held : p[1] = "data"}, initialised)
    BY DEF IInv, Ownership, HeldData
  <1> QED
    BY <1>1, <1>2, <1>3, Registering, UndoStep

(* There is no memory for the data: the array has been replaced.            *)
LEMMA RegisterDataFailsStep ==
  ASSUME IInv, RegisterDataFails, queue' = queue
  PROVE  IInv'
  <1> USE LifecycleAssumption
  <1> DEFINE s == Extended(Fresh(1), NULL)
             h == (heap \cup {Fresh(1)}) \ OldArray
             f == Pointers(block, memory, slot_configs, Extended(Fresh(1), NULL), queue)
             L == InUse(block, memory, slot_configs, Extended(Fresh(1), NULL), queue, 0)
  <1>1. phase = "registering" /\ step <= ThreadCount /\ step \in Threads /\ Undo(h, s, FALSE)
    <2>1. phase = "registering" /\ step <= ThreadCount /\ Undo(h, s, DanglingArray)
      BY DEF RegisterDataFails
    <2>2. step \in Threads /\ ~DanglingArray
      BY <2>1, Registering, NoneDangling DEF IInv, DanglingArray, Threads
    <2> QED
      BY <2>1, <2>2 DEF Undo
  <1>2. /\ Fresh(1) \in Nat /\ Fresh(1) # NULL /\ Fresh(1) \notin heap
        /\ heap \subseteq Nat \ {NULL} /\ IsFiniteSet(heap) /\ slot_count \in Nat
        /\ TypeOK /\ DataThere /\ NULL \in Nat /\ NULL \notin heap
    BY FreshBlocks DEF IInv, TypeOK, NULL
  <1>3. OneMore(s, Fresh(1), NULL)
    BY <1>1, <1>2, ExtendedSlots
  <1>4. Owns(f, L, h) /\ Owns(f, {p \in L : p[1] = "data"}, initialised)
    BY <1>1, <1>2, ExtendedOwns
  <1>5. h \subseteq Nat \ {NULL} /\ IsFiniteSet(h)
    BY <1>2, FiniteHeap
  <1> HIDE DEF h, s
  <1>6. s \in [Threads -> [array : Nat, data : Seq(Nat)]]
    BY <1>3 DEF OneMore
  <1>7. \A t \in Threads :
          /\ slot_count <= Len(s[t].data)
          /\ \A k \in 1 .. Len(s[t].data) :
               s[t].data[k] # NULL <=> k <= slot_count \/ (t < step /\ k = slot_count + 1)
          /\ t < step => slot_count < Len(s[t].data)
    <2> SUFFICES ASSUME NEW t \in Threads
                 PROVE  /\ slot_count <= Len(s[t].data)
                        /\ \A k \in 1 .. Len(s[t].data) :
                             s[t].data[k] # NULL <=>
                               k <= slot_count \/ (t < step /\ k = slot_count + 1)
                        /\ t < step => slot_count < Len(s[t].data)
      OBVIOUS
    <2>1. CASE t # step
      <3>1. s[t] = slots[t]
        BY <1>3, <2>1 DEF OneMore
      <3> QED
        BY <1>1, <3>1, Registering
    <2>2. CASE t = step
      <3>1. /\ Len(s[t].data) = slot_count + 1 /\ s[t].data[slot_count + 1] = NULL
            /\ \A k \in 1 .. slot_count : s[t].data[k] = slots[t].data[k]
        BY <1>3, <2>2 DEF OneMore
      <3>2. ~(t < step)
        BY <1>1, <2>2 DEF Threads
      <3>3. \A k \in 1 .. slot_count : slots[t].data[k] # NULL
        <4>1. slot_count <= Len(slots[t].data) /\ Len(slots[t].data) \in Nat
          BY <1>1, <1>2, SlotTypes, Registering
        <4>2. \A k \in 1 .. slot_count : k \in 1 .. Len(slots[t].data) /\ k <= slot_count
          BY <1>2, <4>1
        <4> QED
          BY <1>1, <4>2, Registering
      <3>4. \A k \in 1 .. slot_count + 1 :
              (k \in 1 .. slot_count <=> k <= slot_count) /\ (k \in 1 .. slot_count \/ k = slot_count + 1)
              /\ ~(slot_count + 1 <= slot_count)
        BY <1>2
      <3>5. \A k \in 1 .. slot_count + 1 : s[t].data[k] # NULL <=> k <= slot_count
        BY <3>1, <3>3, <3>4
      <3>6. slot_count <= slot_count + 1
        BY <1>2
      <3> QED
        BY <3>1, <3>2, <3>5, <3>6
    <2> QED
      BY <2>1, <2>2
  <1>8. /\ f = Pointers(block, memory, slot_configs, s, queue)
        /\ L = InUse(block, memory, slot_configs, s, queue, 0)
    BY DEF s
  <1> HIDE DEF f, L
  <1> QED
    BY <1>1, <1>4, <1>5, <1>6, <1>7, <1>8, UndoStep
-----------------------------------------------------------------------------
(****************************************************************************)
(* The invariant, and what follows from it.                                 *)
(****************************************************************************)
LEMMA StutterStep ==
  ASSUME IInv, UNCHANGED vars
  PROVE  IInv'
  BY DEF IInv, vars, TypeOK, NoBadFree, Ownership, Ptr, Held, HeldData, Gone, Built,
         NothingRegistered, AllBlocks, QueueWhole, DataThere

(* Each step keeps the invariant.                                           *)
LEMMA IInvStep ==
  ASSUME IInv, [Next]_vars
  PROVE  IInv'
  <1>1. CASE Create /\ queue' = queue
    BY <1>1, CreateBeginStep, AllocateRungStep, RungFailsStep, CreateWorkerStep,
       CreateWorkerFailsStep DEF Create
  <1>2. CASE Register /\ queue' = queue
    BY <1>2, RegisterBeginStep, RegisterWorkerStep, RegisterDoneStep, RegisterArrayFailsStep,
       RegisterDataFailsStep, StutterStep DEF Register, RegisterBeginFails
  <1>3. CASE Destroy /\ queue' = queue
    BY <1>3, DestroyBeginStep, DestroyWorkerStep, DestroyContextStep DEF Destroy
  <1>4. CASE QueueCreate \/ QueueCreateFails \/ QueueDestroy
    BY <1>4, QueueCreateStep, QueueCreateFailsStep, QueueDestroyStep
  <1>5. CASE UNCHANGED vars
    BY <1>5, StutterStep
  <1> QED
    BY <1>1, <1>2, <1>3, <1>4, <1>5 DEF Next

(* Whatever is allocated, whichever allocation fails and whatever is torn   *)
(* down: each block in use has one place of its own, and nothing else is    *)
(* allocated.                                                               *)
THEOREM Invariance == Spec => []IInv
  <1>1. Init => IInv
    BY InitIInv
  <1>2. IInv /\ [Next]_vars => IInv'
    BY IInvStep
  <1> QED
    BY <1>1, <1>2, PTL DEF Spec

(* Every variable stays within its type.                                    *)
THEOREM Typing == Spec => []TypeOK
  <1>1. IInv => TypeOK
    BY DEF IInv
  <1> QED
    BY <1>1, Invariance, PTL

(* No failure path of create or of register_slot, and no teardown, frees a  *)
(* block twice or one that was not allocated.                               *)
THEOREM FreedOnce == Spec => []NoBadFree
  <1>1. IInv => NoBadFree
    BY DEF IInv
  <1> QED
    BY <1>1, Invariance, PTL

(* What may be reached is what is held, while nobody has been torn down.    *)
LEMMA ReachableIsHeld ==
  ASSUME IInv, Gone = 0
  PROVE  NonNull(Places) = Held
  <1> USE LifecycleAssumption
  <1>1. \A p : p \in Places <=>
                 p \in AllPlaces /\ (p[1] = "data" => p[3] \in 1 .. Len(slots[p[2]].data))
    <2>1. \A t \in Threads : \A k \in 1 .. Len(slots[t].data) : k \in Nat
      BY SlotTypes DEF IInv
    <2> SUFFICES ASSUME NEW p
                 PROVE  p \in Places <=>
                          p \in AllPlaces
                          /\ (p[1] = "data" => p[3] \in 1 .. Len(slots[p[2]].data))
      OBVIOUS
    <2>2. p \in Places <=>
            \/ \E r \in Rungs : p = <<"block", r>>
            \/ \E t \in Threads : p = <<"memory", t>>
            \/ p = <<"configs">>
            \/ \E t \in Threads : p = <<"array", t>>
            \/ \E e \in {"header", "slot_buffer"} : p = <<"queue", e>>
            \/ \E t \in Threads : \E k \in 1 .. Len(slots[t].data) : p = <<"data", t, k>>
      BY DEF Places, QueuePlaces
    <2>3. (\E t \in Threads : \E k \in 1 .. Len(slots[t].data) : p = <<"data", t, k>>)
            <=> (\E t \in Threads : \E k \in Nat : p = <<"data", t, k>>)
                /\ p[3] \in 1 .. Len(slots[p[2]].data)
      BY <2>1
    <2>4. CASE \E t \in Threads : \E k \in Nat : p = <<"data", t, k>>
      BY <2>2, <2>3, <2>4, Forms
    <2>5. CASE ~\E t \in Threads : \E k \in Nat : p = <<"data", t, k>>
      BY <2>2, <2>3, <2>5, Forms
    <2> QED
      BY <2>4, <2>5
  <1>2. \A p \in AllPlaces : p[1] \in {"memory", "array", "data"} => p[2] \in Threads /\ p[2] >= 0
    <2>1. \A t \in Threads : t >= 0
      BY DEF Threads
    <2>2. \A p \in AllPlaces : p[1] \in {"memory", "array", "data"} => p[2] \in Threads
      BY Forms
    <2> QED
      BY <2>1, <2>2
  <1>3. \A p \in AllPlaces : At(p) = Ptr[p]
    BY HeldPlaces
  <1> QED
    BY <1>1, <1>2, <1>3 DEF NonNull, Held, InUse, Ptr

(* Nothing leaks and no pointer dangles, whatever has failed: between calls *)
(* what the pool has given out is what the context and the queue point to.  *)
THEOREM NoLeak == Spec => []HeapIsReachable
  <1>1. ASSUME IInv
        PROVE  HeapIsReachable
    <2> USE <1>1
    <2>1. \A b : b \in heap <=> \E p \in Held : Ptr[p] = b
      BY DEF IInv, Ownership, Owns
    <2>2. \A p \in Held : At(p) = Ptr[p]
      BY HeldPlaces
    <2>3. ASSUME phase = "ready"
          PROVE  heap = Reachable
      <3>1. NonNull(Places) = Held
        BY <2>3, ReachableIsHeld DEF Gone
      <3> QED
        BY <2>1, <2>2, <3>1 DEF Reachable
    <2>4. ASSUME phase = "none"
          PROVE  heap = QueueBlocks
      <3>1. block = [r \in Rungs |-> NULL] /\ memory = [t \in Threads |-> NULL] /\ NothingRegistered
        BY <2>4 DEF IInv, Built
      <3>2. \A p \in Held : p[1] = "queue"
        <4> SUFFICES ASSUME NEW p \in Held
                     PROVE  p[1] = "queue"
          OBVIOUS
        <4>1. ~\E r \in Rungs : p = <<"block", r>>
          BY <3>1, Before DEF Described
        <4>2. ~\E t \in Threads : p = <<"memory", t>>
          BY <3>1, Before DEF Described
        <4> QED
          BY <3>1, <4>1, <4>2, NoSlotsHeld, Forms, HeldPlaces
      <3>3. \A p : p \in Held <=> p \in QueuePlaces /\ Ptr[p] # NULL
        <4>1. \A p \in QueuePlaces : p \in Held <=> Ptr[p] # NULL
          BY Before DEF Described, QueuePlaces
        <4>2. \A p \in Held : p \in QueuePlaces
          BY <3>2, Forms, HeldPlaces DEF QueuePlaces
        <4> QED
          BY <4>1, <4>2
      <3>4. \A p \in QueuePlaces : At(p) = Ptr[p]
        BY HeldPlaces, Forms DEF QueuePlaces
      <3>5. NonNull(QueuePlaces) = Held
        BY <3>3, <3>4 DEF NonNull
      <3> QED
        BY <2>1, <2>2, <3>5 DEF QueueBlocks
    <2> QED
      BY <2>3, <2>4 DEF HeapIsReachable
  <1> QED
    BY <1>1, Invariance, PTL

(* Once register_slot has returned, every worker has for every slot a data  *)
(* block that the init callback has run on, and no two share one.           *)
THEOREM SlotsOfOwn == Spec => []SlotsComplete
  <1>1. ASSUME IInv
        PROVE  SlotsComplete
    <2> USE <1>1, LifecycleAssumption
    <2> SUFFICES ASSUME phase = "ready"
                 PROVE  /\ \A t \in Threads : \A k \in 1 .. slot_count :
                             slots[t].data[k] \in initialised
                        /\ \A t, u \in Threads : \A k, l \in 1 .. slot_count :
                             slots[t].data[k] = slots[u].data[l] => t = u /\ k = l
      BY DEF SlotsComplete
    <2>1. ASSUME NEW t \in Threads, NEW k \in 1 .. slot_count
          PROVE  /\ <<"data", t, k>> \in HeldData
                 /\ Ptr[<<"data", t, k>>] = slots[t].data[k]
      <3>1. slot_count <= Len(slots[t].data) /\ Len(slots[t].data) \in Nat /\ slot_count \in Nat
        BY SlotTypes DEF IInv, DataThere, TypeOK
      <3>2. k \in Nat /\ k \in 1 .. Len(slots[t].data) /\ k <= slot_count
        BY <3>1
      <3>3. slots[t].data[k] # NULL
        BY <3>2 DEF IInv, DataThere
      <3>4. t >= Gone
        BY DEF Gone, Threads
      <3>5. <<"data", t, k>> \in Held /\ Ptr[<<"data", t, k>>] = slots[t].data[k]
        BY <3>2, <3>3, <3>4, Before DEF Described
      <3> QED
        BY <3>5 DEF HeldData
    <2>2. /\ \A p \in HeldData : Ptr[p] \in initialised
          /\ \A p, q \in HeldData : Ptr[p] = Ptr[q] => p = q
      BY DEF IInv, Ownership, Owns
    <2>3. ASSUME NEW t \in Threads, NEW k \in 1 .. slot_count
          PROVE  slots[t].data[k] \in initialised
      <3>1. <<"data", t, k>> \in HeldData /\ Ptr[<<"data", t, k>>] = slots[t].data[k]
        BY <2>1
      <3> QED
        BY <2>2, <3>1
    <2>4. ASSUME NEW t \in Threads, NEW u \in Threads,
                 NEW k \in 1 .. slot_count, NEW l \in 1 .. slot_count,
                 slots[t].data[k] = slots[u].data[l]
          PROVE  t = u /\ k = l
      <3>1. <<"data", t, k>> \in HeldData /\ Ptr[<<"data", t, k>>] = slots[t].data[k]
        BY <2>1
      <3>2. <<"data", u, l>> \in HeldData /\ Ptr[<<"data", u, l>>] = slots[u].data[l]
        BY <2>1
      <3>3. <<"data", t, k>> = <<"data", u, l>>
        BY <2>2, <2>4, <3>1, <3>2
      <3> QED
        BY <3>3
    <2> QED
      BY <2>3, <2>4
  <1> QED
    BY <1>1, Invariance, PTL

(* The registered slots of all workers are where they were.                 *)
SlotsStay(s, r) ==
  \A t \in Threads : \A k \in 1 .. slot_count :
    k <= Len(r[t].data) /\ r[t].data[k] = s[t].data[k]

(* fail_slots moves no registered slot.                                     *)
LEMMA UndoStays ==
  ASSUME NEW h, NEW s, NEW bad, Undo(h, s, bad), slot_count \in Nat,
         s \in [Threads -> [array : Nat, data : Seq(Nat)]],
         \A t \in Threads : slot_count <= Len(s[t].data)
  PROVE  SlotsStay(s, slots')
  <1> DEFINE n == slot_count + 1
  <1>1. slots' = [t \in Threads |-> IF t \in Completed THEN [s[t] EXCEPT !.data[n] = NULL]
                                    ELSE s[t]]
    BY DEF Undo
  <1> SUFFICES ASSUME NEW t \in Threads, NEW k \in 1 .. slot_count
               PROVE  k <= Len(slots'[t].data) /\ slots'[t].data[k] = s[t].data[k]
    BY DEF SlotsStay
  <1>2. /\ k # n /\ s[t].data \in Seq(Nat) /\ Len(s[t].data) \in Nat
        /\ k <= Len(s[t].data) /\ k \in 1 .. Len(s[t].data)
    <2>1. s[t].data \in Seq(Nat) /\ Len(s[t].data) \in Nat /\ slot_count <= Len(s[t].data)
      OBVIOUS
    <2> QED
      BY <2>1
  <1> HIDE DEF n
  <1>3. CASE t \in Completed
    <2> DEFINE data == [s[t].data EXCEPT ![n] = NULL]
    <2>1. slots'[t] = [s[t] EXCEPT !.data = data]
      BY <1>1, <1>3
    <2>2. Len(data) = Len(s[t].data) /\ data[k] = s[t].data[k]
      BY <1>2
    <2> HIDE DEF data
    <2>3. slots'[t].data = data
      BY <2>1
    <2> QED
      BY <1>2, <2>2, <2>3
  <1>4. CASE t \notin Completed
    BY <1>1, <1>2, <1>4
  <1> QED
    BY <1>3, <1>4

(* Registering a slot, or failing to, moves no worker's data: what          *)
(* worker_slot has handed out stays valid until destroy.                    *)
THEOREM SlotsStayPut == Spec => SlotsStable
  <1> DEFINE Body == phase = "ready" \/ phase = "registering" => SlotsStay(slots, slots')
  <1>1. ASSUME IInv, [Next]_vars
        PROVE  Body
    <2> USE LifecycleAssumption
    <2> SUFFICES ASSUME phase = "ready" \/ phase = "registering"
                 PROVE  SlotsStay(slots, slots')
      OBVIOUS
    <2>1. /\ slot_count \in Nat /\ slots \in [Threads -> [array : Nat, data : Seq(Nat)]]
          /\ \A t \in Threads : slot_count <= Len(slots[t].data) /\ Len(slots[t].data) \in Nat
      BY <1>1, SlotTypes DEF IInv, TypeOK, DataThere
    <2>2. SlotsStay(slots, slots)
      BY <2>1 DEF SlotsStay
    <2>3. CASE slots' = slots
      BY <2>2, <2>3
    <2>4. ASSUME phase = "registering", step <= ThreadCount, NEW d \in Nat
          PROVE  /\ Extended(Fresh(1), d) \in [Threads -> [array : Nat, data : Seq(Nat)]]
                 /\ SlotsStay(slots, Extended(Fresh(1), d))
                 /\ \A t \in Threads : slot_count <= Len(Extended(Fresh(1), d)[t].data)
      <3> DEFINE s == Extended(Fresh(1), d)
      <3>1. step \in Threads /\ TypeOK /\ DataThere /\ Fresh(1) \in Nat
        BY <1>1, <2>4, Registering, FreshBlocks DEF IInv
      <3>2. OneMore(s, Fresh(1), d)
        BY <3>1, ExtendedSlots
      <3> HIDE DEF s
      <3>3. \A t \in Threads :
              /\ slot_count <= Len(s[t].data)
              /\ \A k \in 1 .. slot_count : k <= Len(s[t].data) /\ s[t].data[k] = slots[t].data[k]
        <4> SUFFICES ASSUME NEW t \in Threads
                     PROVE  /\ slot_count <= Len(s[t].data)
                            /\ \A k \in 1 .. slot_count :
                                 k <= Len(s[t].data) /\ s[t].data[k] = slots[t].data[k]
          OBVIOUS
        <4>1. CASE t = step
          <5>1. /\ Len(s[t].data) = slot_count + 1
                /\ \A k \in 1 .. slot_count : s[t].data[k] = slots[t].data[k]
            BY <3>2, <4>1 DEF OneMore
          <5> QED
            BY <2>1, <5>1
        <4>2. CASE t # step
          <5>1. s[t] = slots[t]
            BY <3>2, <4>2 DEF OneMore
          <5> QED
            BY <2>1, <5>1
        <4> QED
          BY <4>1, <4>2
      <3>4. s \in [Threads -> [array : Nat, data : Seq(Nat)]]
        BY <3>2 DEF OneMore
      <3> QED
        BY <3>3, <3>4 DEF s, SlotsStay
    <2>5. CASE RegisterWorker
      <3>1. phase = "registering" /\ step <= ThreadCount /\ slots' = Extended(Fresh(1), Fresh(2))
        BY <2>5 DEF RegisterWorker
      <3>2. Fresh(2) \in Nat
        BY <1>1, FreshBlocks DEF IInv
      <3> QED
        BY <2>4, <3>1, <3>2
    <2>6. CASE RegisterArrayFails
      BY <2>1, <2>6, UndoStays DEF RegisterArrayFails
    <2>7. CASE RegisterDataFails
      <3> DEFINE s == Extended(Fresh(1), NULL)
      <3>1. phase = "registering" /\ step <= ThreadCount
            /\ Undo((heap \cup {Fresh(1)}) \ OldArray, s, DanglingArray)
        BY <2>7 DEF RegisterDataFails
      <3>2. NULL \in Nat
        BY DEF NULL
      <3>3. /\ s \in [Threads -> [array : Nat, data : Seq(Nat)]]
            /\ SlotsStay(slots, s) /\ \A t \in Threads : slot_count <= Len(s[t].data)
        BY <2>4, <3>1, <3>2
      <3> HIDE DEF s
      <3>4. SlotsStay(s, slots')
        BY <2>1, <3>1, <3>3, UndoStays
      <3> QED
        BY <3>3, <3>4 DEF SlotsStay
    <2>8. ~RegisterWorker /\ ~RegisterArrayFails /\ ~RegisterDataFails => slots' = slots
      BY <1>1 DEF Next, Create, Register, Destroy, CreateBegin, AllocateRung, RungFails,
         CreateWorker, CreateWorkerFails, RegisterBegin, RegisterBeginFails, RegisterDone,
         DestroyBegin, DestroyWorker, DestroyContext, QueueCreate, QueueCreateFails,
         QueueDestroy, slotVars, vars
    <2> QED
      BY <2>3, <2>5, <2>6, <2>7, <2>8
  <1>2. Body => (phase = "ready" \/ phase = "registering" =>
                   \A t \in Threads : \A k \in 1 .. slot_count :
                     k <= Len(slots'[t].data) /\ slots'[t].data[k] = slots[t].data[k])
    BY DEF SlotsStay
  <1> HIDE DEF Body
  <1> QED
    BY <1>1, <1>2, Invariance, PTL DEF Spec, SlotsStable
=============================================================================
