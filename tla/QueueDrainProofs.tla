-------------------------- MODULE QueueDrainProofs ---------------------------
(****************************************************************************)
(* Theorems about the program of QueueDrain, for any number of producers    *)
(* and consumers, any number of elements and every capacity from 2 up:      *)
(* the acquires and releases of the sequence numbers order all accesses to  *)
(* the elements, and closing after all producers have been joined loses     *)
(* nothing, whatever old values the loads return.                           *)
(****************************************************************************)
EXTENDS QueueDrain, PartitionProofs, WellFoundedInduction

Odd(n) == n % 2 = 1

(* The k-th value stored in a sequence number: the odd ones say "free" for  *)
(* a position of slot s, the even ones that this position was published.    *)
Value(s, k) ==
  IF Odd(k) THEN s + Capacity * (k \div 2) ELSE s + Capacity * (k \div 2 - 1) + 1
-----------------------------------------------------------------------------
(****************************************************************************)
(* The inductive invariant.  A thread between its claim and its store owns  *)
(* the slot of its position, alone, and the latest sequence number of that  *)
(* slot is the one that let it in.                                          *)
(****************************************************************************)
QueueType ==
  /\ enqueue_position \in Nat /\ dequeue_position \in Nat
  /\ sequence \in [Slots -> Seq([value : Nat, known : Nat])]
  /\ closed \in [flag : BOOLEAN, oldest : [Slots -> Nat]]
  /\ element \in [Slots -> [item : Items \cup {<<>>}, accesses : Nat]]

PcType ==
  /\ pc \in [Threads -> {"push", "write", "publish", "pop", "read", "release", "check", "done"}]
  /\ \A t \in Producers : pc[t] \in {"push", "write", "publish", "done"}
  /\ \A t \in Consumers : pc[t] \in {"pop", "read", "release", "check", "done"}

KnowledgeType ==
  /\ oldest \in [Threads -> [Slots -> Nat]]
  /\ known \in [Threads -> Nat]
  /\ position \in [Threads -> Nat]

ProgramType ==
  /\ next \in [Producers -> Nat]
  /\ last_try \in [Consumers -> BOOLEAN]
  /\ popped \in [Items -> Nat]
  /\ raced \in BOOLEAN

TypeOK == QueueType /\ PcType /\ KnowledgeType /\ ProgramType

Latest(s) == Len(sequence[s])

Pushing(t) == pc[t] \in {"write", "publish"}

Popping(t) == pc[t] \in {"read", "release"}

Owns(t) == Pushing(t) \/ Popping(t)

(* What is stored, and what is known with it: all the accesses before.      *)
Stored ==
  \A s \in Slots :
    /\ Latest(s) >= 1
    /\ \A k \in 1 .. Latest(s) : sequence[s][k] = [value |-> Value(s, k), known |-> k - 1]

(* Nothing is published that was not claimed, nothing is freed that was not *)
(* taken.                                                                   *)
Passed ==
  /\ dequeue_position <= enqueue_position
  /\ \A s \in Slots : \A k \in 1 .. Latest(s) :
       Value(s, k) <= IF Odd(k) THEN dequeue_position + Capacity - 1 ELSE enqueue_position

(* An owner has the position that the latest sequence number speaks of, and *)
(* knows of all accesses to the element: as many as there are stores before *)
(* its own, and then its own.                                               *)
Place(t) ==
  LET s == Slot(position[t]) IN
  /\ Pushing(t) => /\ dequeue_position <= position[t] /\ position[t] < enqueue_position
                   /\ Odd(Latest(s)) /\ Value(s, Latest(s)) = position[t]
  /\ Popping(t) => /\ position[t] < dequeue_position
                   /\ ~Odd(Latest(s)) /\ Value(s, Latest(s)) = position[t] + 1
  /\ Owns(t) => /\ known[t] = element[s].accesses
                /\ known[t] = IF pc[t] \in {"write", "read"} THEN Latest(s) - 1 ELSE Latest(s)

Places == \A t \in Threads : Place(t)

Alone ==
  \A t, u \in Threads : Owns(t) /\ Owns(u) /\ t # u => Slot(position[t]) # Slot(position[u])

Accessed(t, s) == pc[t] \in {"publish", "release"} /\ Slot(position[t]) = s

Counted ==
  \A s \in Slots :
    \/ element[s].accesses = Latest(s) - 1
    \/ \E t \in Threads : Accessed(t, s)

(* A published position that was taken is still owned, until it is freed.   *)
Taken ==
  \A s \in Slots :
    ~Odd(Latest(s)) /\ Value(s, Latest(s)) <= dequeue_position
      => \E t \in Threads : Popping(t) /\ Slot(position[t]) = s

Sequences == Stored /\ Passed /\ Places /\ Alone /\ Counted /\ Taken /\ ~raced

(* Whoever reads old values back to the k-th of the slot of q finds q       *)
(* published.                                                               *)
Tells(q, array) == Value(Slot(q), array[Slot(q)]) > q

(* Old values end somewhere.                                                *)
Ranges ==
  \A s \in Slots :
    /\ closed.oldest[s] \in 1 .. Latest(s)
    /\ \A t \in Threads : oldest[t][s] \in 1 .. Latest(s)

(* Each position claimed by a producer is still owned by it, or was         *)
(* published by one that knows.                                             *)
PublisherKnows ==
  \A q \in 0 .. enqueue_position - 1 :
    \/ \E t \in Producers : Pushing(t) /\ position[t] = q
    \/ \E t \in Producers : Tells(q, oldest[t])

(* `closed' makes that known to who sees it set, ...                        *)
ClosedTells ==
  closed.flag => /\ \A t \in Producers : pc[t] = "done"
                 /\ \A q \in 0 .. enqueue_position - 1 : Tells(q, closed.oldest)

LastTryTells ==
  \A c \in Consumers : last_try[c] =>
    closed.flag /\ \A q \in 0 .. enqueue_position - 1 : Tells(q, oldest[c])

(* ... so that a consumer which ends has found all positions taken.         *)
EndedLast ==
  \A c \in Consumers : pc[c] = "done" => closed.flag /\ enqueue_position <= dequeue_position

Closing == Ranges /\ PublisherKnows /\ ClosedTells /\ LastTryTells /\ EndedLast

(* A slot holds an element from the write to the read.                      *)
Full(s) == Odd(element[s].accesses)

Written(i) ==
  \/ i[2] < next[i[1]]
  \/ i[2] = next[i[1]] /\ pc[i[1]] = "publish"

Numbers ==
  \A t \in Producers : next[t] \in 1 .. Quota + 1 /\ (pc[t] = "done" <=> next[t] = Quota + 1)

InSlots ==
  /\ \A s \in Slots : Full(s) => /\ element[s].item \in Items /\ Written(element[s].item)
                                 /\ popped[element[s].item] = 0
  /\ \A s, r \in Slots : Full(s) /\ Full(r) /\ s # r => element[s].item # element[r].item

OncePopped ==
  \A i \in Items :
    /\ popped[i] \in {0, 1}
    /\ ~Written(i) => popped[i] = 0
    /\ Written(i) /\ popped[i] = 0 => \E s \in Slots : Full(s) /\ element[s].item = i

Elements == Numbers /\ InSlots /\ OncePopped

IInv == TypeOK /\ Sequences /\ Closing /\ Elements
-----------------------------------------------------------------------------
USE DrainAssumption

(* Slots and the positions that fall on them.                               *)
LEMMA SlotType ==
  ASSUME NEW p \in Nat
  PROVE  Slot(p) \in Slots
  BY QuotientRemainder DEF Slot, Slots

(* A position is some laps and then its slot, ...                           *)
LEMMA SlotShape ==
  ASSUME NEW p \in Nat
  PROVE  \E a \in Nat, r \in Nat : p = Capacity * a + r /\ r < Capacity /\ r = Slot(p)
  <1> DEFINE a == p \div Capacity
             r == p % Capacity
  <1>1. a \in Nat /\ r \in Nat /\ r < Capacity /\ p = Capacity * a + r
    BY SMT
  <1>2. r = Slot(p)
    BY DEF Slot
  <1> HIDE DEF a, r
  <1> QED
    BY <1>1, <1>2

(* ... in one way only.                                                     *)
LEMMA SlotUnique ==
  ASSUME NEW p \in Nat, NEW a \in Nat, NEW s \in Slots, p = Capacity * a + s
  PROVE  Slot(p) = s
  <1>1. s \in Nat /\ s < Capacity
    BY DEF Slots
  <1> QED
    BY <1>1, RemainderUnique DEF Slot

(* The values in terms of a lap, for the two kinds.                         *)
LEMMA ValueShape ==
  ASSUME NEW s \in Slots, NEW k \in Nat \ {0}
  PROVE  \E a \in Nat :
           /\ Capacity * a \in Nat
           /\ \/ Odd(k) /\ k = 2 * a + 1 /\ Value(s, k) = s + Capacity * a
              \/ ~Odd(k) /\ k = 2 * a + 2 /\ Value(s, k) = s + Capacity * a + 1
  <1>1. CASE Odd(k)
    <2>1. PICK a \in Nat : a = k \div 2 /\ k = 2 * a + 1
      BY <1>1 DEF Odd
    <2>2. Capacity * a \in Nat
      BY SMT
    <2>3. Value(s, k) = s + Capacity * a
      BY <1>1, <2>1 DEF Value
    <2> QED
      BY <1>1, <2>1, <2>2, <2>3
  <1>2. CASE ~Odd(k)
    <2>1. PICK a \in Nat : a = k \div 2 - 1 /\ k = 2 * a + 2
      BY <1>2 DEF Odd
    <2>2. Capacity * a \in Nat
      BY SMT
    <2>3. Value(s, k) = s + Capacity * a + 1
      BY <1>2, <2>1 DEF Value
    <2> QED
      BY <1>2, <2>1, <2>2, <2>3
  <1> QED
    BY <1>1, <1>2

(* Odd and even follow each other.                                          *)
LEMMA OddNext ==
  ASSUME NEW k \in Nat
  PROVE  Odd(k + 1) <=> ~Odd(k)
  BY DEF Odd

(* The k-th value of a slot is a natural number.                            *)
LEMMA ValueType ==
  ASSUME NEW s \in Slots, NEW k \in Nat \ {0}
  PROVE  Value(s, k) \in Nat
  <1>1. PICK a \in Nat : /\ Capacity * a \in Nat
                         /\ Value(s, k) = s + Capacity * a \/ Value(s, k) = s + Capacity * a + 1
    BY ValueShape
  <1> QED
    BY <1>1 DEF Slots

(* The first value, and each one from the one before.                       *)
LEMMA ValueFirst ==
  ASSUME NEW s \in Slots
  PROVE  Value(s, 1) = s /\ Odd(1)
  BY DEF Value, Odd, Slots

(* From one value of a slot to the next: publishing adds 1, giving back for *)
(* the next lap adds Capacity - 1.                                          *)
LEMMA ValueNext ==
  ASSUME NEW s \in Slots, NEW k \in Nat \ {0}
  PROVE  Value(s, k + 1) = Value(s, k) + IF Odd(k) THEN 1 ELSE Capacity - 1
  <1>1. PICK a \in Nat :
          /\ Capacity * a \in Nat
          /\ \/ Odd(k) /\ k = 2 * a + 1 /\ Value(s, k) = s + Capacity * a
             \/ ~Odd(k) /\ k = 2 * a + 2 /\ Value(s, k) = s + Capacity * a + 1
    BY ValueShape
  <1>2. PICK b \in Nat :
          /\ Capacity * b \in Nat
          /\ \/ Odd(k + 1) /\ k + 1 = 2 * b + 1 /\ Value(s, k + 1) = s + Capacity * b
             \/ ~Odd(k + 1) /\ k + 1 = 2 * b + 2 /\ Value(s, k + 1) = s + Capacity * b + 1
    <2>1. k + 1 \in Nat \ {0}
      OBVIOUS
    <2> QED
      BY <2>1, ValueShape
  <1>3. Odd(k + 1) <=> ~Odd(k)
    BY OddNext
  <1>4. CASE Odd(k)
    <2>1. a = b
      BY <1>1, <1>2, <1>3, <1>4
    <2> QED
      BY <1>1, <1>2, <1>3, <1>4, <2>1 DEF Slots
  <1>5. CASE ~Odd(k)
    <2>1. b = a + 1
      BY <1>1, <1>2, <1>3, <1>5
    <2>2. Capacity * (a + 1) = Capacity * a + Capacity
      BY SMT
    <2> QED
      BY <1>1, <1>2, <1>3, <1>5, <2>1, <2>2 DEF Slots
  <1> QED
    BY <1>4, <1>5

(* The values of a slot increase: this is where a capacity of 1 would fail. *)
LEMMA ValueGrows ==
  ASSUME NEW s \in Slots, NEW j \in Nat \ {0}, NEW k \in Nat \ {0}, j < k
  PROVE  Value(s, j) < Value(s, k)
  <1>1. PICK a \in Nat :
          /\ Capacity * a \in Nat
          /\ \/ Odd(j) /\ j = 2 * a + 1 /\ Value(s, j) = s + Capacity * a
             \/ ~Odd(j) /\ j = 2 * a + 2 /\ Value(s, j) = s + Capacity * a + 1
    BY ValueShape
  <1>2. PICK b \in Nat :
          /\ Capacity * b \in Nat
          /\ \/ Odd(k) /\ k = 2 * b + 1 /\ Value(s, k) = s + Capacity * b
             \/ ~Odd(k) /\ k = 2 * b + 2 /\ Value(s, k) = s + Capacity * b + 1
    BY ValueShape
  <1>3. a = b \/ a + 1 <= b
    BY <1>1, <1>2
  <1>4. CASE a = b
    BY <1>1, <1>2, <1>4 DEF Slots
  <1>5. CASE a + 1 <= b
    <2>1. (a + 1) * Capacity <= b * Capacity
      BY <1>5, Monotone
    <2>2. (a + 1) * Capacity = Capacity * a + Capacity /\ b * Capacity = Capacity * b
      BY SMT
    <2> QED
      BY <1>1, <1>2, <2>1, <2>2 DEF Slots
  <1> QED
    BY <1>3, <1>4, <1>5

(* "Free" is said of positions of the slot itself, and so is "published".   *)
LEMMA ValueSlot ==
  ASSUME NEW s \in Slots, NEW k \in Nat \ {0}
  PROVE  /\ Odd(k) => Slot(Value(s, k)) = s
         /\ ~Odd(k) => Value(s, k) - 1 \in Nat /\ Slot(Value(s, k) - 1) = s
  <1>1. PICK a \in Nat :
          /\ Capacity * a \in Nat
          /\ \/ Odd(k) /\ k = 2 * a + 1 /\ Value(s, k) = s + Capacity * a
             \/ ~Odd(k) /\ k = 2 * a + 2 /\ Value(s, k) = s + Capacity * a + 1
    BY ValueShape
  <1>2. s \in Nat
    BY DEF Slots
  <1>3. Slot(Capacity * a + s) = s
    <2>1. PICK p \in Nat : p = Capacity * a + s
      BY <1>1, <1>2
    <2> QED
      BY <2>1, SlotUnique
  <1> QED
    BY <1>1, <1>2, <1>3

(* Neighbouring positions have different slots.                             *)
LEMMA SlotNext ==
  ASSUME NEW p \in Nat
  PROVE  Slot(p + 1) # Slot(p)
  <1>1. PICK a \in Nat, r \in Nat :
          p = Capacity * a + r /\ r < Capacity /\ r = Slot(p)
    BY SlotShape
  <1>2. p = Capacity * a + r /\ r < Capacity /\ Capacity * a \in Nat
    <2>1. Capacity * a \in Nat
      BY SMT
    <2> QED
      BY <1>1, <2>1
  <1>3. CASE r + 1 < Capacity
    <2>1. r \in Slots /\ r + 1 \in Slots
      BY <1>3 DEF Slots
    <2>2. Slot(p) = r
      BY <1>2, <2>1, SlotUnique
    <2>3. p + 1 \in Nat /\ p + 1 = Capacity * a + (r + 1)
      BY <1>2
    <2>4. Slot(p + 1) = r + 1
      BY <2>1, <2>3, SlotUnique
    <2> QED
      BY <2>2, <2>4
  <1>4. CASE r + 1 >= Capacity
    <2>1. r = Capacity - 1 /\ r \in Slots /\ 0 \in Slots
      BY <1>2, <1>4 DEF Slots
    <2>2. Slot(p) = r
      BY <1>2, <2>1, SlotUnique
    <2>3. Capacity * (a + 1) = Capacity * a + Capacity /\ a + 1 \in Nat
      BY SMT
    <2>4. p + 1 \in Nat /\ p + 1 = Capacity * (a + 1) + 0
      BY <1>2, <2>1, <2>3
    <2>5. Slot(p + 1) = 0
      BY <2>1, <2>3, <2>4, SlotUnique
    <2> QED
      BY <2>1, <2>2, <2>5
  <1> QED
    BY <1>2, <1>3, <1>4
-----------------------------------------------------------------------------
(* Largest elements, for the two uses of Max.                               *)
LEMMA MaxOfTwo ==
  ASSUME NEW a \in Nat, NEW b \in Nat
  PROVE  /\ Max({a, b}) \in {a, b}
         /\ a <= Max({a, b}) /\ b <= Max({a, b})
  <1>1. \E x \in {a, b} : \A y \in {a, b} : x >= y
    OBVIOUS
  <1>2. Max({a, b}) \in {a, b} /\ \A y \in {a, b} : Max({a, b}) >= y
    BY <1>1 DEF Max
  <1> QED
    BY <1>2

(* A nonempty set of bounded numbers has a largest element.                 *)
LEMMA MaxOfBounded ==
  ASSUME NEW n \in Nat, NEW S, S \subseteq 1 .. n, S # {}
  PROVE  Max(S) \in S /\ \A y \in S : y <= Max(S)
  <1> DEFINE R == OpToRel(<, Nat)
             T == {n - x : x \in S}
  <1>1. T \subseteq Nat /\ T # {}
    <2>1. PICK x \in S : TRUE
      OBVIOUS
    <2>2. n - x \in T
      BY <2>1
    <2>3. \A y \in S : n - y \in Nat
      OBVIOUS
    <2> QED
      BY <2>2, <2>3
  <1>2. PICK m \in T : \A y \in T : <<y, m>> \notin R
    <2>1. IsWellFoundedOn(R, Nat)
      BY NatLessThanWellFounded
    <2> HIDE DEF R, T
    <2> QED
      BY <1>1, <2>1, WFMin
  <1>3. \A y \in T : ~(y < m)
    <2> TAKE y \in T
    <2>1. y \in Nat /\ m \in Nat /\ <<y, m>> \notin R
      BY <1>1, <1>2
    <2> HIDE DEF T
    <2> QED
      BY <2>1 DEF OpToRel
  <1>4. PICK x \in S : m = n - x
    BY <1>2
  <1>5. \A y \in S : x >= y
    <2> TAKE y \in S
    <2>1. ~(n - y < n - x)
      BY <1>3, <1>4
    <2> QED
      BY <2>1
  <1>6. \E z \in S : \A y \in S : z >= y
    BY <1>5
  <1>7. Max(S) \in S /\ \A y \in S : Max(S) >= y
    BY <1>6 DEF Max
  <1>8. \A y \in S : y \in Int
    OBVIOUS
  <1>9. Max(S) \in Int
    BY <1>7, <1>8
  <1> HIDE DEF Max
  <1> QED
    BY <1>7, <1>8, <1>9
-----------------------------------------------------------------------------
(* At first every slot has its first value and nobody knows anything else.  *)
LEMMA InitIInv == Init => IInv
  <1> SUFFICES ASSUME Init
               PROVE  IInv
    OBVIOUS
  <1>1. TypeOK
    <2>1. 1 \in Nat /\ 0 \in Nat /\ Slots \subseteq Nat
      BY DEF Slots
    <2>2. sequence \in [Slots -> Seq([value : Nat, known : Nat])]
      BY <2>1 DEF Init
    <2>3. closed \in [flag : BOOLEAN, oldest : [Slots -> Nat]]
      BY <2>1 DEF Init
    <2>4. element \in [Slots -> [item : Items \cup {<<>>}, accesses : Nat]]
      BY <2>1 DEF Init
    <2>5. /\ oldest \in [Threads -> [Slots -> Nat]] /\ known \in [Threads -> Nat]
          /\ position \in [Threads -> Nat] /\ next \in [Producers -> Nat]
          /\ last_try \in [Consumers -> BOOLEAN] /\ popped \in [Items -> Nat]
      BY <2>1 DEF Init
    <2>6. /\ pc \in [Threads -> {"push", "write", "publish", "pop", "read", "release", "check",
                                "done"}]
          /\ \A t \in Producers : pc[t] \in {"push", "write", "publish", "done"}
          /\ \A t \in Consumers : pc[t] \in {"pop", "read", "release", "check", "done"}
      BY DEF Init, Threads
    <2> QED
      BY <2>2, <2>3, <2>4, <2>5, <2>6 DEF Init, TypeOK, QueueType, PcType, KnowledgeType, ProgramType
  <1>2. /\ \A s \in Slots : sequence[s] = <<[value |-> s, known |-> 0]>> /\ Latest(s) = 1
        /\ \A t \in Threads : ~Owns(t)
    BY DEF Init, Latest, Threads, Owns, Pushing, Popping
  <1>3. Sequences
    <2>0. \A s \in Slots : \A k \in 1 .. Latest(s) : k = 1 /\ Value(s, k) = s /\ Odd(k)
      <3> TAKE s \in Slots
      <3>1. Latest(s) = 1
        BY <1>2
      <3> TAKE k \in 1 .. Latest(s)
      <3>2. k = 1
        BY <3>1
      <3> QED
        BY <3>2, ValueFirst
    <2>1. Stored
      <3>1. \A s \in Slots : \A k \in 1 .. Latest(s) :
              sequence[s][k] = [value |-> Value(s, k), known |-> k - 1]
        <4> TAKE s \in Slots
        <4> TAKE k \in 1 .. Latest(s)
        <4>1. k = 1 /\ Value(s, k) = s /\ k - 1 = 0
          BY <2>0
        <4>2. sequence[s][1] = [value |-> s, known |-> 0]
          BY <1>2
        <4> QED
          BY <4>1, <4>2
      <3>2. ASSUME NEW s \in Slots PROVE Latest(s) >= 1
        <4>1. Latest(s) = 1
          BY <1>2
        <4> QED
          BY <4>1
      <3> QED
        BY <3>1, <3>2 DEF Stored
    <2>2. Passed
      BY <2>0 DEF Passed, Init, Slots
    <2>3. Places /\ Alone
      BY <1>2 DEF Places, Place, Alone, Owns
    <2>4. Counted
      BY <1>2 DEF Counted, Init
    <2>5. Taken
      BY <1>2, ValueFirst DEF Taken
    <2> QED
      BY <2>1, <2>2, <2>3, <2>4, <2>5 DEF Sequences, Init
  <1>4. Closing
    BY <1>2 DEF Closing, Ranges, PublisherKnows, ClosedTells, LastTryTells, EndedLast, Init,
      Threads
  <1>5. Elements
    <2>1. \A s \in Slots : ~Full(s)
      BY DEF Full, Odd, Init
    <2>2. \A i \in Items : ~Written(i)
      BY DEF Written, Init, Items, Threads
    <2>3. Numbers
      BY DEF Numbers, Init, Threads
    <2> QED
      BY <2>1, <2>2, <2>3 DEF Elements, InSlots, OncePopped, Init
  <1> QED
    BY <1>1, <1>3, <1>4, <1>5 DEF IInv
-----------------------------------------------------------------------------
(* A claim reads one of the values stored in the slot, and all the accesses *)
(* that were known where it was stored.                                     *)
LEMMA ClaimReads ==
  ASSUME IInv, NEW t \in Threads, NEW p \in Nat, NEW value, NEW label, Claim(t, p, value, label)
  PROVE  \E k \in 1 .. Latest(Slot(p)) :
           /\ value = Value(Slot(p), k)
           /\ known' = [known EXCEPT ![t] = k - 1]
  <1> DEFINE s == Slot(p)
  <1>1. s \in Slots
    BY SlotType
  <1>2. PICK k \in oldest[t][s] .. Latest(s) :
          /\ sequence[s][k].value = value
          /\ known' = [known EXCEPT ![t] = sequence[s][k].known]
    BY DEF Claim, Readable, Acquired, Latest
  <1>3. oldest[t][s] \in 1 .. Latest(s) /\ Latest(s) \in Nat
    BY <1>1 DEF IInv, Closing, Ranges, TypeOK, QueueType, PcType, KnowledgeType, ProgramType, Latest
  <1>4. k \in 1 .. Latest(s)
    BY <1>2, <1>3
  <1>5. sequence[s][k] = [value |-> Value(s, k), known |-> k - 1]
    BY <1>1, <1>4 DEF IInv, Sequences, Stored
  <1>6. value = Value(s, k) /\ known' = [known EXCEPT ![t] = k - 1]
    BY <1>2, <1>5
  <1> QED
    BY <1>4, <1>6

(* Who owns no slot of its own accord leaves it counted.                    *)
LEMMA NotOwned ==
  ASSUME IInv, NEW s \in Slots, \A u \in Threads : Owns(u) => Slot(position[u]) # s
  PROVE  element[s].accesses = Latest(s) - 1
  BY DEF IInv, Sequences, Counted, Accessed, Owns, Pushing, Popping

(* Basic facts about types that most steps need.                            *)
LEMMA Types ==
  ASSUME IInv
  PROVE  /\ \A s \in Slots : Latest(s) \in Nat \ {0} /\ Value(s, Latest(s)) \in Nat
         /\ \A t \in Threads : position[t] \in Nat /\ Slot(position[t]) \in Slots
         /\ \A t \in Threads : Owns(t) <=> (Pushing(t) \/ Popping(t))
         /\ \A t \in Threads : ~(Pushing(t) /\ Popping(t))
         /\ \A t \in Producers : t \in Threads /\ ~Popping(t)
         /\ \A t \in Consumers : t \in Threads /\ ~Pushing(t)
         /\ enqueue_position \in Nat /\ dequeue_position \in Nat
  <1>1. \A s \in Slots : Latest(s) \in Nat \ {0}
    BY DEF IInv, TypeOK, QueueType, PcType, KnowledgeType, ProgramType, Sequences, Stored, Latest
  <1>2. \A s \in Slots : Value(s, Latest(s)) \in Nat
    BY <1>1, ValueType
  <1>3. \A t \in Threads : position[t] \in Nat /\ Slot(position[t]) \in Slots
    BY SlotType DEF IInv, TypeOK, QueueType, PcType, KnowledgeType, ProgramType
  <1>4. /\ \A t \in Threads : Owns(t) <=> (Pushing(t) \/ Popping(t))
        /\ \A t \in Threads : ~(Pushing(t) /\ Popping(t))
        /\ \A t \in Producers : t \in Threads /\ ~Popping(t)
        /\ \A t \in Consumers : t \in Threads /\ ~Pushing(t)
    BY DEF IInv, TypeOK, QueueType, PcType, KnowledgeType, ProgramType, Owns, Pushing, Popping, Threads
  <1>5. enqueue_position \in Nat /\ dequeue_position \in Nat
    BY DEF IInv, TypeOK, QueueType, PcType, KnowledgeType, ProgramType
  <1> QED
    BY <1>1, <1>2, <1>3, <1>4, <1>5

(* A producer which claims a position has read the latest value of its      *)
(* slot, although it might have read an old one, and nobody owns the slot.  *)
LEMMA PushClaimsFree ==
  ASSUME IInv, NEW t \in Producers, PushClaim(t), NEW s \in Slots, s = Slot(enqueue_position)
  PROVE  /\ Odd(Latest(s)) /\ Value(s, Latest(s)) = enqueue_position
         /\ known' = [known EXCEPT ![t] = Latest(s) - 1]
         /\ \A u \in Threads : Owns(u) => Slot(position[u]) # s
  <1>1. PICK k \in 1 .. Latest(s) :
          enqueue_position = Value(s, k) /\ known' = [known EXCEPT ![t] = k - 1]
    BY Types, ClaimReads DEF PushClaim
  <1>2. k \in Nat \ {0} /\ Latest(s) \in Nat \ {0} /\ enqueue_position \in Nat
    BY <1>1, Types
  <1>3. Odd(k)
    <2> SUFFICES ASSUME ~Odd(k)
                 PROVE  FALSE
      OBVIOUS
    <2>1. PICK p \in Nat : p = enqueue_position - 1 /\ Slot(p) = s
      BY <1>1, <1>2, ValueSlot
    <2>2. enqueue_position = p + 1
      BY <1>2, <2>1
    <2> QED
      BY <2>1, <2>2, SlotNext
  <1>4. Latest(s) = k
    <2> SUFFICES ASSUME k < Latest(s)
                 PROVE  FALSE
      BY <1>1, <1>2
    <2>1. k + 1 \in 1 .. Latest(s) /\ ~Odd(k + 1)
      BY <1>2, <1>3, OddNext
    <2>2. Value(s, k + 1) <= enqueue_position
      BY <2>1 DEF IInv, Sequences, Passed
    <2>3. Value(s, k + 1) = Value(s, k) + 1
      BY <1>2, <1>3, ValueNext
    <2> QED
      BY <1>1, <1>2, <2>2, <2>3
  <1>5. ASSUME NEW u \in Threads, Owns(u), Slot(position[u]) = s
        PROVE  FALSE
    <2>1. Place(u)
      BY DEF IInv, Sequences, Places
    <2>2. Pushing(u) /\ position[u] < enqueue_position /\ Value(s, Latest(s)) = position[u]
      BY <1>3, <1>4, <1>5, <2>1, Types DEF Place
    <2> QED
      BY <1>1, <1>2, <1>4, <2>2, Types
  <1> QED
    BY <1>1, <1>3, <1>4, <1>5

(* A pop that claims has read the latest value of its slot, which is the    *)
(* published one, and no other thread is at that slot.                      *)
LEMMA PopClaimsPublished ==
  ASSUME IInv, NEW t \in Consumers, PopClaim(t), NEW s \in Slots, s = Slot(dequeue_position)
  PROVE  /\ ~Odd(Latest(s)) /\ Value(s, Latest(s)) = dequeue_position + 1
         /\ known' = [known EXCEPT ![t] = Latest(s) - 1]
         /\ \A u \in Threads : Owns(u) => Slot(position[u]) # s
         /\ dequeue_position < enqueue_position
  <1>1. PICK k \in 1 .. Latest(s) :
          dequeue_position + 1 = Value(s, k) /\ known' = [known EXCEPT ![t] = k - 1]
    BY Types, ClaimReads DEF PopClaim
  <1>2. k \in Nat \ {0} /\ Latest(s) \in Nat \ {0} /\ dequeue_position \in Nat
    BY <1>1, Types
  <1>3. ~Odd(k)
    <2> SUFFICES ASSUME Odd(k)
                 PROVE  FALSE
      OBVIOUS
    <2>1. Slot(dequeue_position + 1) = s
      BY <1>1, <1>2, ValueSlot
    <2> QED
      BY <1>2, <2>1, SlotNext
  <1>4. Latest(s) = k
    <2> SUFFICES ASSUME k < Latest(s)
                 PROVE  FALSE
      BY <1>1, <1>2
    <2>1. k + 1 \in 1 .. Latest(s) /\ Odd(k + 1)
      BY <1>2, <1>3, OddNext
    <2>2. Value(s, k + 1) <= dequeue_position + Capacity - 1
      BY <2>1 DEF IInv, Sequences, Passed
    <2>3. Value(s, k + 1) = Value(s, k) + Capacity - 1
      BY <1>2, <1>3, ValueNext
    <2> QED
      BY <1>1, <1>2, <2>2, <2>3
  <1>5. ASSUME NEW u \in Threads, Owns(u), Slot(position[u]) = s
        PROVE  FALSE
    <2>1. Place(u)
      BY DEF IInv, Sequences, Places
    <2>2. Popping(u) /\ position[u] < dequeue_position /\ Value(s, Latest(s)) = position[u] + 1
      BY <1>3, <1>4, <1>5, <2>1, Types DEF Place
    <2> QED
      BY <1>1, <1>2, <1>4, <2>2, Types
  <1>6. dequeue_position < enqueue_position
    <2>1. Value(s, k) <= enqueue_position
      BY <1>1, <1>3 DEF IInv, Sequences, Passed
    <2> QED
      BY <1>1, <1>2, <2>1, Types
  <1> QED
    BY <1>1, <1>3, <1>4, <1>5, <1>6
-----------------------------------------------------------------------------
(* A step of a program counter, by the kind of thread.                      *)
LEMMA GoToType ==
  ASSUME PcType, NEW t, NEW label, GoTo(t, label),
         \/ t \in Producers /\ label \in {"push", "write", "publish", "done"}
         \/ t \in Consumers /\ label \in {"pop", "read", "release", "check", "done"}
  PROVE  PcType'
  <1>1. t \in Threads /\ pc' = [pc EXCEPT ![t] = label]
    BY DEF GoTo, Threads
  <1>2. pc' \in [Threads -> {"push", "write", "publish", "pop", "read", "release", "check", "done"}]
    BY <1>1 DEF PcType
  <1>3. pc'[t] = label /\ \A u \in Threads : u # t => pc'[u] = pc[u]
    BY <1>1 DEF PcType
  <1>4. \A u \in Producers : pc'[u] \in {"push", "write", "publish", "done"}
    BY <1>3 DEF PcType, Threads
  <1>5. \A u \in Consumers : pc'[u] \in {"pop", "read", "release", "check", "done"}
    BY <1>3 DEF PcType, Threads
  <1> QED
    BY <1>2, <1>4, <1>5 DEF PcType

(* Each step keeps the types.                                               *)
LEMMA TypeStep ==
  ASSUME IInv, [Next]_vars
  PROVE  TypeOK'
  <1> USE Types
  <1>t. QueueType /\ PcType /\ KnowledgeType /\ ProgramType
    BY DEF IInv, TypeOK
  <1>1. ASSUME NEW t \in Producers, PushClaim(t)
        PROVE  TypeOK'
    <2>1. PICK s \in Slots : s = Slot(enqueue_position)
      BY SlotType
    <2>2. known' = [known EXCEPT ![t] = Latest(s) - 1] /\ Latest(s) - 1 \in Nat
      BY <1>1, <2>1, PushClaimsFree
    <2>3. known' \in [Threads -> Nat]
      BY <1>t, <2>2 DEF KnowledgeType
    <2>4. PcType'
      BY <1>t, <1>1, GoToType DEF PushClaim, Claim
    <2>5. position' \in [Threads -> Nat] /\ enqueue_position' \in Nat
      BY <1>t, <1>1 DEF PushClaim, Claim, KnowledgeType
    <2> QED
      BY <1>t, <1>1, <2>3, <2>4, <2>5
      DEF TypeOK, QueueType, KnowledgeType, ProgramType, PushClaim, history
  <1>2. ASSUME NEW t \in Consumers, PopClaim(t)
        PROVE  TypeOK'
    <2>1. PICK s \in Slots : s = Slot(dequeue_position)
      BY SlotType
    <2>2. known' = [known EXCEPT ![t] = Latest(s) - 1] /\ Latest(s) - 1 \in Nat
      BY <1>2, <2>1, PopClaimsPublished
    <2>3. known' \in [Threads -> Nat]
      BY <1>t, <2>2 DEF KnowledgeType
    <2>4. PcType'
      BY <1>t, <1>2, GoToType DEF PopClaim, Claim
    <2>5. position' \in [Threads -> Nat] /\ dequeue_position' \in Nat
      BY <1>t, <1>2 DEF PopClaim, Claim, KnowledgeType
    <2> QED
      BY <1>t, <1>2, <2>3, <2>4, <2>5
      DEF TypeOK, QueueType, KnowledgeType, ProgramType, PopClaim, history
  <1>3. ASSUME NEW t \in Threads, NEW item, item \in Items \cup {<<>>}, Access(t, item)
        PROVE  /\ element' \in [Slots -> [item : Items \cup {<<>>}, accesses : Nat]]
               /\ known' \in [Threads -> Nat] /\ raced' \in BOOLEAN
    <2>1. PICK n \in Nat : n = element[Slot(position[t])].accesses
      BY <1>t DEF QueueType
    <2>2. /\ element' = [element EXCEPT ![Slot(position[t])] = [item |-> item, accesses |-> n + 1]]
          /\ known' = [known EXCEPT ![t] = n + 1]
      BY <1>3, <2>1 DEF Access
    <2>3. raced' \in BOOLEAN
      BY <1>3 DEF Access
    <2>4. known' \in [Threads -> Nat]
      BY <1>t, <2>2 DEF KnowledgeType
    <2>5. element' \in [Slots -> [item : Items \cup {<<>>}, accesses : Nat]]
      <3>1. [item |-> item, accesses |-> n + 1] \in [item : Items \cup {<<>>}, accesses : Nat]
        BY <1>3
      <3> QED
        BY <1>t, <2>2, <3>1 DEF QueueType
    <2> QED
      BY <2>3, <2>4, <2>5
  <1>4. ASSUME NEW t \in Producers, PushWrite(t)
        PROVE  TypeOK'
    <2>1. <<t, next[t]>> \in Items
      BY <1>t, <1>4 DEF PushWrite, Items, IInv, Elements, Numbers, ProgramType
    <2>2. /\ element' \in [Slots -> [item : Items \cup {<<>>}, accesses : Nat]]
          /\ known' \in [Threads -> Nat] /\ raced' \in BOOLEAN
      BY <1>3, <1>4, <2>1 DEF PushWrite
    <2>3. PcType'
      BY <1>t, <1>4, GoToType DEF PushWrite
    <2> QED
      BY <1>t, <1>4, <2>2, <2>3 DEF TypeOK, QueueType, KnowledgeType, ProgramType, PushWrite
  <1>5. ASSUME NEW t \in Consumers, PopRead(t)
        PROVE  TypeOK'
    <2>1. PICK item \in Items \cup {<<>>} : item = element[Slot(position[t])].item
      BY <1>t DEF QueueType
    <2>2. Access(t, item) /\ popped' = [popped EXCEPT ![item] = @ + 1]
      BY <1>5, <2>1 DEF PopRead
    <2>3. /\ element' \in [Slots -> [item : Items \cup {<<>>}, accesses : Nat]]
          /\ known' \in [Threads -> Nat] /\ raced' \in BOOLEAN
      BY <1>3, <2>1, <2>2
    <2>4. popped' \in [Items -> Nat]
      <3>1. ASSUME NEW i \in Items
            PROVE  popped'[i] \in Nat
        BY <1>t, <2>2 DEF ProgramType
      <3>2. popped' = [i \in Items |-> popped'[i]]
        BY <1>t, <2>2 DEF ProgramType
      <3> QED
        BY <3>1, <3>2
    <2>5. PcType'
      BY <1>t, <1>5, GoToType DEF PopRead
    <2> QED
      BY <1>t, <1>5, <2>3, <2>4, <2>5
      DEF TypeOK, QueueType, KnowledgeType, ProgramType, PopRead
  <1>6. ASSUME NEW t \in Threads, NEW value \in Nat, Store(t, value)
        PROVE  /\ sequence' \in [Slots -> Seq([value : Nat, known : Nat])]
               /\ oldest' \in [Threads -> [Slots -> Nat]]
               /\ known' \in [Threads -> Nat] /\ position' \in [Threads -> Nat]
    <2>1. PICK s \in Slots : s = Slot(position[t])
      OBVIOUS
    <2>2. /\ sequence' = [sequence EXCEPT ![s] = Append(@, [value |-> value, known |-> known[t]])]
          /\ oldest' = [oldest EXCEPT ![t][s] = Latest(s) + 1]
          /\ known' = [known EXCEPT ![t] = 0] /\ position' = [position EXCEPT ![t] = 0]
      BY <1>6, <2>1 DEF Store, Latest
    <2>3. /\ sequence[s] \in Seq([value : Nat, known : Nat])
          /\ [value |-> value, known |-> known[t]] \in [value : Nat, known : Nat]
      BY <1>t DEF QueueType, KnowledgeType
    <2>4. sequence' \in [Slots -> Seq([value : Nat, known : Nat])]
      <3>1. Append(sequence[s], [value |-> value, known |-> known[t]])
              \in Seq([value : Nat, known : Nat])
        BY <2>3
      <3> QED
        BY <1>t, <2>2, <3>1 DEF QueueType
    <2>5. oldest' \in [Threads -> [Slots -> Nat]]
      <3>1. PICK n \in Nat : n = Latest(s) + 1
        OBVIOUS
      <3>2. oldest[t] \in [Slots -> Nat] /\ oldest \in [Threads -> [Slots -> Nat]]
        BY <1>t DEF KnowledgeType
      <3>3. [oldest[t] EXCEPT ![s] = n] \in [Slots -> Nat]
        BY <3>2
      <3>4. oldest' = [oldest EXCEPT ![t] = [oldest[t] EXCEPT ![s] = n]]
        BY <2>2, <3>1
      <3> QED
        BY <3>2, <3>3, <3>4
    <2> QED
      BY <1>t, <2>2, <2>4, <2>5 DEF KnowledgeType
  <1>7. ASSUME NEW t \in Producers, PushPublish(t)
        PROVE  TypeOK'
    <2>1. position[t] + 1 \in Nat
      OBVIOUS
    <2>2. /\ sequence' \in [Slots -> Seq([value : Nat, known : Nat])]
          /\ oldest' \in [Threads -> [Slots -> Nat]]
          /\ known' \in [Threads -> Nat] /\ position' \in [Threads -> Nat]
      BY <1>6, <1>7, <2>1 DEF PushPublish
    <2>3. next' \in [Producers -> Nat]
      BY <1>t, <1>7 DEF PushPublish, ProgramType
    <2>4. PcType'
      BY <1>t, <1>7, GoToType DEF PushPublish
    <2> QED
      BY <1>t, <1>7, <2>2, <2>3, <2>4
      DEF TypeOK, QueueType, KnowledgeType, ProgramType, PushPublish, history
  <1>8. ASSUME NEW t \in Consumers, PopRelease(t)
        PROVE  TypeOK'
    <2>1. Released(position[t]) \in Nat
      BY DEF Released
    <2>2. /\ sequence' \in [Slots -> Seq([value : Nat, known : Nat])]
          /\ oldest' \in [Threads -> [Slots -> Nat]]
          /\ known' \in [Threads -> Nat] /\ position' \in [Threads -> Nat]
      BY <1>6, <1>8, <2>1 DEF PopRelease
    <2>3. PcType'
      BY <1>t, <1>8, GoToType DEF PopRelease
    <2>4. last_try' \in [Consumers -> BOOLEAN]
      BY <1>t, <1>8 DEF PopRelease, ProgramType
    <2> QED
      BY <1>t, <1>8, <2>2, <2>3, <2>4
      DEF TypeOK, QueueType, KnowledgeType, ProgramType, PopRelease, history
  <1>9. ASSUME NEW t \in Consumers, PopEmpty(t) \/ SeesOpen(t)
        PROVE  TypeOK'
    <2>1. PcType'
      BY <1>t, <1>9, GoToType DEF PopEmpty, SeesOpen
    <2> QED
      BY <1>t, <1>9, <2>1 DEF TypeOK, QueueType, KnowledgeType, ProgramType, PopEmpty, SeesOpen,
        queueVars, knowledge, history
  <1>10. ASSUME NEW t \in Consumers, SeesClosed(t)
        PROVE  TypeOK'
    <2>1. ASSUME NEW s \in Slots
          PROVE  Max({oldest[t][s], closed.oldest[s]}) \in Nat
      <3>1. oldest[t][s] \in Nat /\ closed.oldest[s] \in Nat
        BY <1>t DEF QueueType, KnowledgeType
      <3> QED
        BY <3>1, MaxOfTwo
    <2>2. oldest' \in [Threads -> [Slots -> Nat]]
      BY <1>t, <1>10, <2>1 DEF SeesClosed, KnowledgeType
    <2>3. last_try' \in [Consumers -> BOOLEAN]
      BY <1>t, <1>10 DEF SeesClosed, ProgramType
    <2>4. PcType'
      BY <1>t, <1>10, GoToType DEF SeesClosed
    <2> QED
      BY <1>t, <1>10, <2>2, <2>3, <2>4
      DEF TypeOK, QueueType, KnowledgeType, ProgramType, SeesClosed, queueVars, history
  <1>11. ASSUME Close
         PROVE  TypeOK'
    <2>1. ASSUME NEW s \in Slots
          PROVE  Max({oldest[p][s] : p \in Joined}) \in Nat
      <3>1. {oldest[p][s] : p \in Joined} \subseteq 1 .. Latest(s)
        BY DEF IInv, Closing, Ranges, Joined
      <3>2. {oldest[p][s] : p \in Joined} # {}
        BY <1>11 DEF Close, MayClose
      <3>3. Latest(s) \in Nat
        OBVIOUS
      <3>4. Max({oldest[p][s] : p \in Joined}) \in 1 .. Latest(s)
        BY <3>1, <3>2, <3>3, MaxOfBounded
      <3> QED
        BY <3>3, <3>4
    <2>2. closed' \in [flag : BOOLEAN, oldest : [Slots -> Nat]]
      BY <1>11, <2>1 DEF Close
    <2> QED
      BY <1>t, <1>11, <2>2
      DEF TypeOK, QueueType, PcType, KnowledgeType, ProgramType, Close, knowledge, history
  <1>12. CASE UNCHANGED vars
    BY <1>t, <1>12
    DEF TypeOK, QueueType, PcType, KnowledgeType, ProgramType, vars, queueVars, knowledge, history
  <1> QED
    BY <1>1, <1>2, <1>4, <1>5, <1>7, <1>8, <1>9, <1>10, <1>11, <1>12
    DEF Next, Produce, Consume
-----------------------------------------------------------------------------
(* A thread keeps its place while what its place depends on stays.          *)
LEMMA PlaceKept ==
  ASSUME NEW u \in Threads, NEW s, s = Slot(position[u]), Place(u),
         pc'[u] = pc[u], position'[u] = position[u], known'[u] = known[u],
         Owns(u) => Latest(s)' = Latest(s) /\ element'[s].accesses = element[s].accesses,
         Pushing(u) => dequeue_position' <= position[u] /\ position[u] < enqueue_position',
         Popping(u) => position[u] < dequeue_position'
  PROVE  Place(u)'
  <1>1. s = Slot(position'[u])
    BY DEF Slot
  <1>2. /\ Pushing(u)' <=> Pushing(u)
        /\ Popping(u)' <=> Popping(u)
        /\ Owns(u)' <=> Owns(u)
        /\ Owns(u) <=> Pushing(u) \/ Popping(u)
    BY DEF Pushing, Popping, Owns
  <1>3. ASSUME Owns(u)
        PROVE  Value(s, Latest(s))' = Value(s, Latest(s)) /\ (Odd(Latest(s))' <=> Odd(Latest(s)))
    BY <1>3 DEF Value, Odd
  <1>4. Pushing(u) => /\ dequeue_position' <= position[u] /\ position[u] < enqueue_position'
                      /\ Odd(Latest(s))' /\ Value(s, Latest(s))' = position[u]
    BY <1>2, <1>3 DEF Place
  <1>5. Popping(u) => /\ position[u] < dequeue_position'
                      /\ ~Odd(Latest(s))' /\ Value(s, Latest(s))' = position[u] + 1
    BY <1>2, <1>3 DEF Place
  <1>6. Owns(u) => /\ known'[u] = element'[s].accesses
                   /\ known'[u] = IF pc'[u] \in {"write", "read"} THEN Latest(s)' - 1
                                                                 ELSE Latest(s)'
    BY DEF Place
  <1> QED
    BY <1>1, <1>2, <1>4, <1>5, <1>6 DEF Place, Value, Odd, Latest

(* Claims, of both kinds.                                                   *)
LEMMA ClaimStep ==
  ASSUME IInv, NEW t \in Threads, NEW p \in Nat, NEW s \in Slots, s = Slot(p),
         NEW label \in {"write", "read"},
         ~Owns(t), \A u \in Threads : Owns(u) => Slot(position[u]) # s,
         pc' = [pc EXCEPT ![t] = label],
         position' = [position EXCEPT ![t] = p],
         known' = [known EXCEPT ![t] = Latest(s) - 1],
         UNCHANGED <<sequence, element, raced>>,
         dequeue_position' \in Nat, enqueue_position' \in Nat,
         dequeue_position <= dequeue_position', enqueue_position <= enqueue_position',
         dequeue_position' <= enqueue_position',
         label = "write" => /\ Odd(Latest(s)) /\ Value(s, Latest(s)) = p
                            /\ dequeue_position' <= p /\ p < enqueue_position',
         label = "read" => /\ ~Odd(Latest(s)) /\ Value(s, Latest(s)) = p + 1
                           /\ p < dequeue_position',
         \A u \in Threads : Pushing(u) => dequeue_position' <= position[u],
         \A r \in Slots : r # s /\ ~Odd(Latest(r)) /\ Value(r, Latest(r)) <= dequeue_position'
           => Value(r, Latest(r)) <= dequeue_position
  PROVE  Sequences'
  <1> USE Types
  <1>s. Stored /\ Passed /\ Places /\ Alone /\ Counted /\ Taken /\ ~raced
    BY DEF IInv, Sequences
  <1>t. pc \in [Threads -> {"push", "write", "publish", "pop", "read", "release", "check", "done"}]
        /\ position \in [Threads -> Nat] /\ known \in [Threads -> Nat]
    BY DEF IInv, TypeOK, PcType, KnowledgeType
  <1>1. /\ pc'[t] = label /\ position'[t] = p /\ known'[t] = Latest(s) - 1
        /\ \A u \in Threads : u # t => /\ pc'[u] = pc[u] /\ position'[u] = position[u]
                                       /\ known'[u] = known[u]
    BY <1>t
  <1>2. \A r \in Slots : Latest(r)' = Latest(r) /\ element'[r] = element[r]
    BY DEF Latest
  <1>3. /\ \A u \in Threads : u # t => (Owns(u)' <=> Owns(u)) /\ (Pushing(u)' <=> Pushing(u))
                                       /\ (Popping(u)' <=> Popping(u))
        /\ Owns(t)' /\ (Pushing(t)' <=> label = "write") /\ (Popping(t)' <=> label = "read")
    BY <1>1 DEF Owns, Pushing, Popping
  <1>4. Stored'
    BY <1>s DEF Stored, Latest, Value, Odd
  <1>5. Passed'
    <2> SUFFICES ASSUME NEW r \in Slots, NEW k \in 1 .. Latest(r)
                 PROVE  Value(r, k) <= IF Odd(k) THEN dequeue_position' + Capacity - 1
                                                 ELSE enqueue_position'
      BY <1>2 DEF Passed, Value, Odd
    <2>1. Value(r, k) <= IF Odd(k) THEN dequeue_position + Capacity - 1 ELSE enqueue_position
      BY <1>s DEF Passed
    <2>2. Value(r, k) \in Nat
      BY ValueType
    <2> QED
      BY <2>1, <2>2
  <1>6. ASSUME NEW u \in Threads
        PROVE  Place(u)'
    <2>1. CASE u = t
      <3>1. element[s].accesses = Latest(s) - 1
        BY NotOwned
      <3>2. Slot(position'[t]) = s
        BY <1>1
      <3> QED
        BY <1>1, <1>2, <1>3, <2>1, <3>1, <3>2 DEF Place, Value, Odd
    <2>2. CASE u # t
      <3>1. Place(u)
        BY <1>s DEF Places
      <3>2. /\ Pushing(u) => dequeue_position' <= position[u] /\ position[u] < enqueue_position'
            /\ Popping(u) => position[u] < dequeue_position'
        BY <3>1 DEF Place
      <3> QED
        BY <1>1, <1>2, <2>2, <3>1, <3>2, PlaceKept
    <2> QED
      BY <2>1, <2>2
  <1>7. Alone'
    <2> SUFFICES ASSUME NEW u \in Threads, NEW v \in Threads, Owns(u)', Owns(v)', u # v
                 PROVE  Slot(position'[u]) # Slot(position'[v])
      BY DEF Alone, Slot
    <2> QED
      BY <1>s, <1>1, <1>3 DEF Alone
  <1>8. Counted'
    <2> SUFFICES ASSUME NEW r \in Slots
                 PROVE  \/ element'[r].accesses = Latest(r)' - 1
                        \/ \E u \in Threads : Accessed(u, r)'
      BY DEF Counted
    <2>1. CASE element[r].accesses = Latest(r) - 1
      BY <1>2, <2>1
    <2>2. ASSUME NEW u \in Threads, Accessed(u, r)
          PROVE  Accessed(u, r)'
      <3>1. u # t
        BY <2>2 DEF Accessed, Owns, Pushing, Popping
      <3> QED
        BY <1>1, <2>2, <3>1 DEF Accessed, Slot
    <2> QED
      BY <1>s, <2>1, <2>2 DEF Counted
  <1>9. Taken'
    <2> SUFFICES ASSUME NEW r \in Slots, ~Odd(Latest(r)), Value(r, Latest(r)) <= dequeue_position'
                 PROVE  \E u \in Threads : Popping(u)' /\ Slot(position'[u]) = r
      BY <1>2 DEF Taken, Value, Odd, Slot
    <2>1. CASE r = s
      BY <1>1, <1>3, <2>1
    <2>2. CASE r # s
      <3>1. PICK u \in Threads : Popping(u) /\ Slot(position[u]) = r
        BY <1>s, <2>2 DEF Taken
      <3> QED
        BY <1>1, <1>3, <3>1
    <2> QED
      BY <2>1, <2>2
  <1>10. Places'
    BY <1>6 DEF Places
  <1> QED
    BY <1>s, <1>4, <1>5, <1>10, <1>7, <1>8, <1>9 DEF Sequences
(* Accesses to the element, of both kinds: the owner knows of all before.   *)
LEMMA AccessStep ==
  ASSUME IInv, NEW t \in Threads, NEW item, Access(t, item),
         NEW label, GoTo(t, label),
         \/ pc[t] = "write" /\ label = "publish"
         \/ pc[t] = "read" /\ label = "release",
         UNCHANGED <<enqueue_position, dequeue_position, sequence, position>>
  PROVE  /\ Sequences'
         /\ \A s \in Slots : element'[s] =
              IF s = Slot(position[t])
              THEN [item |-> item, accesses |-> element[s].accesses + 1] ELSE element[s]
         /\ element[Slot(position[t])].accesses = Latest(Slot(position[t])) - 1
  <1> USE Types
  <1>s. Stored /\ Passed /\ Places /\ Alone /\ Counted /\ Taken /\ ~raced
    BY DEF IInv, Sequences
  <1>t. /\ pc \in [Threads -> {"push", "write", "publish", "pop", "read", "release", "check", "done"}]
        /\ known \in [Threads -> Nat]
        /\ element \in [Slots -> [item : Items \cup {<<>>}, accesses : Nat]]
    BY DEF IInv, TypeOK, PcType, KnowledgeType, QueueType
  <1> DEFINE s == Slot(position[t])
  <1>1. s \in Slots /\ Owns(t) /\ Place(t)
    BY <1>s DEF Owns, Pushing, Popping, Places
  <1>2. PICK n \in Nat : n = element[s].accesses
    BY <1>t, <1>1
  <1>3. known[t] = n /\ n = Latest(s) - 1
    BY <1>1, <1>2 DEF Place
  <1>4. /\ element' = [element EXCEPT ![s] = [item |-> item, accesses |-> n + 1]]
        /\ known' = [known EXCEPT ![t] = n + 1] /\ ~raced'
    BY <1>s, <1>2, <1>3 DEF Access
  <1>5. \A r \in Slots : element'[r] =
          IF r = s THEN [item |-> item, accesses |-> n + 1] ELSE element[r]
    BY <1>t, <1>4
  <1> HIDE DEF s
  <1>6. /\ pc'[t] = label /\ known'[t] = n + 1
        /\ \A u \in Threads : u # t => pc'[u] = pc[u] /\ known'[u] = known[u]
    BY <1>t, <1>4 DEF GoTo
  <1>7. \A r \in Slots : Latest(r)' = Latest(r)
    BY DEF Latest
  <1>8. \A u \in Threads : (Owns(u)' <=> Owns(u)) /\ (Pushing(u)' <=> Pushing(u))
                           /\ (Popping(u)' <=> Popping(u))
    BY <1>6 DEF Owns, Pushing, Popping
  <1>9. Stored' /\ Passed'
    BY <1>s DEF Stored, Passed, Latest, Value, Odd
  <1>10. ASSUME NEW u \in Threads
         PROVE  Place(u)'
    <2>1. Place(u)
      BY <1>s DEF Places
    <2>2. CASE u = t
      <3>1. Slot(position'[t]) = s
        BY DEF s
      <3>2. element'[s].accesses = n + 1
        BY <1>1, <1>5
      <3>3. s = Slot(position[t])
        BY DEF s
      <3> QED
        BY <1>1, <1>3, <1>6, <1>7, <1>8, <2>1, <2>2, <3>1, <3>2, <3>3
        DEF Place, Value, Odd
    <2>3. CASE u # t
      <3>1. Owns(u) => Slot(position[u]) # s
        BY <1>s, <1>1, <2>3 DEF Alone, s
      <3>2. /\ Pushing(u) => dequeue_position <= position[u] /\ position[u] < enqueue_position
            /\ Popping(u) => position[u] < dequeue_position
        BY <2>1 DEF Place
      <3>3. Owns(u) => /\ Latest(Slot(position[u]))' = Latest(Slot(position[u]))
                       /\ element'[Slot(position[u])].accesses = element[Slot(position[u])].accesses
        BY <1>5, <1>7, <3>1
      <3> QED
        BY <1>6, <2>1, <2>3, <3>2, <3>3, PlaceKept
    <2> QED
      BY <2>2, <2>3
  <1>11. Alone'
    BY <1>s, <1>8 DEF Alone, Slot
  <1>12. Counted'
    <2> SUFFICES ASSUME NEW r \in Slots
                 PROVE  \/ element'[r].accesses = Latest(r)' - 1
                        \/ \E u \in Threads : Accessed(u, r)'
      BY DEF Counted
    <2>1. CASE r = s
      <3>1. Accessed(t, r)'
        BY <1>6, <2>1 DEF Accessed, s, Slot
      <3> QED
        BY <3>1
    <2>2. CASE r # s
      <3>1. CASE element[r].accesses = Latest(r) - 1
        BY <1>5, <1>7, <2>2, <3>1
      <3>2. ASSUME NEW u \in Threads, Accessed(u, r)
            PROVE  Accessed(u, r)'
        <4>1. u # t
          BY <2>2, <3>2 DEF Accessed, s
        <4> QED
          BY <1>6, <3>2, <4>1 DEF Accessed, Slot
      <3> QED
        BY <1>s, <3>1, <3>2 DEF Counted
    <2> QED
      BY <2>1, <2>2
  <1>13. Taken'
    BY <1>s, <1>7, <1>8 DEF Taken, Value, Odd, Slot
  <1>14. Places'
    BY <1>10 DEF Places
  <1>15. Sequences'
    BY <1>4, <1>9, <1>14, <1>11, <1>12, <1>13 DEF Sequences
  <1> QED
    BY <1>2, <1>3, <1>5, <1>15 DEF s

(* Stores of a sequence number, of both kinds.                              *)
LEMMA StoreStep ==
  ASSUME IInv, NEW t \in Threads, NEW value, Store(t, value),
         NEW label, GoTo(t, label), label \notin {"write", "publish", "read", "release"},
         NEW s \in Slots, s = Slot(position[t]),
         pc[t] \in {"publish", "release"},
         value = Value(s, Latest(s) + 1),
         value <= IF Odd(Latest(s) + 1) THEN dequeue_position + Capacity - 1 ELSE enqueue_position,
         ~Odd(Latest(s) + 1) => dequeue_position < value,
         UNCHANGED <<enqueue_position, dequeue_position, element, raced>>
  PROVE  /\ Sequences'
         /\ \A r \in Slots : Latest(r)' = IF r = s THEN Latest(r) + 1 ELSE Latest(r)
  <1> USE Types
  <1>s. Stored /\ Passed /\ Places /\ Alone /\ Counted /\ Taken /\ ~raced
    BY DEF IInv, Sequences
  <1>t. /\ pc \in [Threads -> {"push", "write", "publish", "pop", "read", "release", "check", "done"}]
        /\ known \in [Threads -> Nat] /\ position \in [Threads -> Nat]
        /\ sequence \in [Slots -> Seq([value : Nat, known : Nat])]
    BY DEF IInv, TypeOK, PcType, KnowledgeType, QueueType
  <1>1. Owns(t) /\ Place(t)
    BY <1>s DEF Owns, Pushing, Popping, Places
  <1>2. PICK n \in Nat \ {0} : n = Latest(s)
    OBVIOUS
  <1>3. known[t] = n /\ element[s].accesses = n
    BY <1>1, <1>2 DEF Place
  <1>4. PICK new \in [value : Nat, known : Nat] : new = [value |-> Value(s, n + 1), known |-> n]
    <2>1. Value(s, n + 1) \in Nat
      BY ValueType
    <2> QED
      BY <2>1
  <1>5. /\ sequence' = [sequence EXCEPT ![s] = Append(@, new)]
        /\ position' = [position EXCEPT ![t] = 0] /\ known' = [known EXCEPT ![t] = 0]
    BY <1>2, <1>3, <1>4 DEF Store
  <1>6. /\ sequence'[s] = Append(sequence[s], new)
        /\ \A r \in Slots : r # s => sequence'[r] = sequence[r]
    BY <1>t, <1>5
  <1>7. /\ Latest(s)' = n + 1
        /\ sequence'[s][n + 1] = new
        /\ \A k \in 1 .. n : sequence'[s][k] = sequence[s][k]
    <2>1. sequence[s] \in Seq([value : Nat, known : Nat]) /\ Len(sequence[s]) = n
      BY <1>t, <1>2 DEF Latest
    <2>2. Len(Append(sequence[s], new)) = n + 1
      BY <2>1
    <2>3. Append(sequence[s], new)[n + 1] = new
      BY <2>1
    <2>4. \A k \in 1 .. n : Append(sequence[s], new)[k] = sequence[s][k]
      BY <2>1
    <2> QED
      BY <1>6, <2>2, <2>3, <2>4 DEF Latest
  <1>8. \A r \in Slots : r # s => Latest(r)' = Latest(r)
    BY <1>6 DEF Latest
  <1>9. /\ pc'[t] = label
        /\ \A u \in Threads : u # t => /\ pc'[u] = pc[u] /\ known'[u] = known[u]
                                       /\ position'[u] = position[u]
    BY <1>t, <1>5 DEF GoTo
  <1>10. ~Owns(t)' /\ \A u \in Threads : u # t =>
           (Owns(u)' <=> Owns(u)) /\ (Pushing(u)' <=> Pushing(u)) /\ (Popping(u)' <=> Popping(u))
    BY <1>9 DEF Owns, Pushing, Popping
  <1>11. \A u \in Threads : u # t /\ Owns(u) => Slot(position[u]) # s
    BY <1>s, <1>1 DEF Alone
  <1>12. Stored'
    <2>1. ASSUME NEW r \in Slots
          PROVE  /\ Latest(r)' >= 1
                 /\ \A k \in 1 .. Latest(r)' :
                      sequence'[r][k] = [value |-> Value(r, k), known |-> k - 1]
      <3>1. CASE r # s
        <4>1. /\ Latest(r) >= 1
              /\ \A k \in 1 .. Latest(r) :
                   sequence[r][k] = [value |-> Value(r, k), known |-> k - 1]
          BY <1>s DEF Stored
        <4> QED
          BY <1>6, <1>8, <3>1, <4>1
      <3>2. CASE r = s
        <4>1. \A k \in 1 .. n : sequence[s][k] = [value |-> Value(s, k), known |-> k - 1]
          BY <1>s, <1>2 DEF Stored
        <4>2. ASSUME NEW k \in 1 .. n + 1
              PROVE  sequence'[s][k] = [value |-> Value(s, k), known |-> k - 1]
          <5>1. CASE k \in 1 .. n
            BY <1>7, <4>1, <5>1
          <5>2. CASE k = n + 1
            <6>1. k - 1 = n
              BY <5>2
            <6> QED
              BY <1>4, <1>7, <5>2, <6>1
          <5> QED
            BY <5>1, <5>2
        <4> QED
          BY <1>7, <3>2, <4>2
      <3> QED
        BY <3>1, <3>2
    <2> QED
      BY <2>1 DEF Stored, Value, Odd
  <1>13. Passed'
    <2>1. ASSUME NEW r \in Slots, NEW k \in 1 .. Latest(r)'
          PROVE  Value(r, k) <= IF Odd(k) THEN dequeue_position + Capacity - 1
                                          ELSE enqueue_position
      <3>1. CASE r = s /\ k = n + 1
        BY <1>2, <3>1
      <3>2. CASE k \in 1 .. Latest(r)
        BY <1>s, <3>2 DEF Passed
      <3> QED
        BY <1>2, <1>7, <1>8, <3>1, <3>2
    <2>2. dequeue_position <= enqueue_position
      BY <1>s DEF Passed
    <2> QED
      BY <2>1, <2>2 DEF Passed, Value, Odd
  <1>14. ASSUME NEW u \in Threads
         PROVE  Place(u)'
    <2>1. CASE u = t
      BY <1>10, <2>1 DEF Place, Owns
    <2>2. CASE u # t
      <3>1. Place(u)
        BY <1>s DEF Places
      <3>2. /\ Pushing(u) => dequeue_position <= position[u] /\ position[u] < enqueue_position
            /\ Popping(u) => position[u] < dequeue_position
        BY <3>1 DEF Place
      <3>3. PICK r \in Slots : r = Slot(position[u])
        OBVIOUS
      <3>4. Owns(u) => Latest(r)' = Latest(r)
        BY <1>8, <1>11, <2>2, <3>3
      <3> QED
        BY <1>9, <2>2, <3>1, <3>2, <3>3, <3>4, PlaceKept
    <2> QED
      BY <2>1, <2>2
  <1>15. Alone'
    <2> SUFFICES ASSUME NEW u \in Threads, NEW v \in Threads, Owns(u)', Owns(v)', u # v
                 PROVE  Slot(position'[u]) # Slot(position'[v])
      BY DEF Alone, Slot
    <2> QED
      BY <1>s, <1>9, <1>10 DEF Alone
  <1>16. Counted'
    <2> SUFFICES ASSUME NEW r \in Slots
                 PROVE  \/ element'[r].accesses = Latest(r)' - 1
                        \/ \E u \in Threads : Accessed(u, r)'
      BY DEF Counted
    <2>1. CASE r = s
      BY <1>3, <1>7, <2>1
    <2>2. CASE r # s
      <3>1. CASE element[r].accesses = Latest(r) - 1
        BY <1>8, <2>2, <3>1
      <3>2. ASSUME NEW u \in Threads, Accessed(u, r)
            PROVE  Accessed(u, r)'
        <4>1. u # t
          BY <2>2, <3>2 DEF Accessed
        <4> QED
          BY <1>9, <3>2, <4>1 DEF Accessed, Slot
      <3> QED
        BY <1>s, <3>1, <3>2 DEF Counted
    <2> QED
      BY <2>1, <2>2
  <1>17. Taken'
    <2> SUFFICES ASSUME NEW r \in Slots, ~Odd(Latest(r)'), Value(r, Latest(r)') <= dequeue_position
                 PROVE  \E u \in Threads : Popping(u)' /\ Slot(position'[u]) = r
      BY DEF Taken, Value, Odd, Slot
    <2>1. r # s
      <3> SUFFICES ASSUME r = s
                   PROVE  FALSE
        OBVIOUS
      <3>1. dequeue_position < Value(s, n + 1)
        BY <1>2, <1>7
      <3>2. Value(s, n + 1) <= dequeue_position
        BY <1>7
      <3>3. Value(s, n + 1) \in Nat
        BY ValueType
      <3> QED
        BY <3>1, <3>2, <3>3
    <2>2. PICK u \in Threads : Popping(u) /\ Slot(position[u]) = r
      BY <1>s, <1>8, <2>1 DEF Taken
    <2> QED
      BY <1>9, <1>10, <2>1, <2>2
  <1>18. Places'
    BY <1>14 DEF Places
  <1>19. Sequences'
    BY <1>s, <1>12, <1>13, <1>18, <1>15, <1>16, <1>17 DEF Sequences
  <1> QED
    BY <1>2, <1>7, <1>8, <1>19
(* The store that publishes is the next value of the slot, ...              *)
LEMMA PublishStores ==
  ASSUME IInv, NEW t \in Producers, PushPublish(t), NEW s \in Slots, s = Slot(position[t])
  PROVE  /\ Sequences'
         /\ \A r \in Slots : Latest(r)' = IF r = s THEN Latest(r) + 1 ELSE Latest(r)
         /\ Odd(Latest(s)) /\ Value(s, Latest(s) + 1) = position[t] + 1
         /\ element[s].accesses = Latest(s)
  <1> USE Types
  <1>1. Pushing(t) /\ pc[t] = "publish" /\ Place(t)
    BY DEF PushPublish, Pushing, IInv, Sequences, Places
  <1>2. /\ Odd(Latest(s)) /\ Value(s, Latest(s)) = position[t]
        /\ dequeue_position <= position[t] /\ position[t] < enqueue_position
        /\ element[s].accesses = Latest(s)
    BY <1>1 DEF Place
  <1>3. Value(s, Latest(s) + 1) = position[t] + 1 /\ ~Odd(Latest(s) + 1)
    BY <1>2, ValueNext, OddNext
  <1>4. PICK label : GoTo(t, label) /\ label \in {"push", "done"}
    BY DEF PushPublish
  <1>5. Store(t, position[t] + 1)
    BY DEF PushPublish
  <1>6. /\ Sequences'
        /\ \A r \in Slots : Latest(r)' = IF r = s THEN Latest(r) + 1 ELSE Latest(r)
    BY <1>1, <1>2, <1>3, <1>4, <1>5, StoreStep DEF PushPublish, history
  <1> QED
    BY <1>2, <1>3, <1>6

(* ... and so is the one that frees.                                        *)
LEMMA ReleaseStores ==
  ASSUME IInv, NEW t \in Consumers, PopRelease(t), NEW s \in Slots, s = Slot(position[t])
  PROVE  /\ Sequences'
         /\ \A r \in Slots : Latest(r)' = IF r = s THEN Latest(r) + 1 ELSE Latest(r)
         /\ ~Odd(Latest(s)) /\ element[s].accesses = Latest(s)
  <1> USE Types
  <1>1. Popping(t) /\ pc[t] = "release" /\ Place(t)
    BY DEF PopRelease, Popping, IInv, Sequences, Places
  <1>2. /\ ~Odd(Latest(s)) /\ Value(s, Latest(s)) = position[t] + 1
        /\ position[t] < dequeue_position
        /\ element[s].accesses = Latest(s)
    BY <1>1 DEF Place
  <1>3. Value(s, Latest(s) + 1) = position[t] + Capacity /\ Odd(Latest(s) + 1)
    BY <1>2, ValueNext, OddNext
  <1>4. GoTo(t, "pop") /\ Store(t, position[t] + Capacity)
    BY DEF PopRelease, Released
  <1>5. /\ Sequences'
        /\ \A r \in Slots : Latest(r)' = IF r = s THEN Latest(r) + 1 ELSE Latest(r)
    BY <1>1, <1>2, <1>3, <1>4, StoreStep DEF PopRelease, history
  <1> QED
    BY <1>2, <1>5

(* The copy of a push is the access whose turn it is.                       *)
LEMMA WriteAccesses ==
  ASSUME IInv, NEW t \in Producers, PushWrite(t), NEW s \in Slots, s = Slot(position[t])
  PROVE  /\ Sequences'
         /\ \A r \in Slots : element'[r] =
              IF r = s THEN [item |-> <<t, next[t]>>, accesses |-> element[r].accesses + 1]
                       ELSE element[r]
         /\ Odd(Latest(s)) /\ element[s].accesses = Latest(s) - 1
  <1> USE Types
  <1>1. Pushing(t) /\ pc[t] = "write" /\ Place(t) /\ Access(t, <<t, next[t]>>) /\ GoTo(t, "publish")
    BY DEF PushWrite, Pushing, IInv, Sequences, Places
  <1>2. Odd(Latest(s))
    BY <1>1 DEF Place
  <1> QED
    BY <1>1, <1>2, AccessStep DEF PushWrite

(* The copy of a pop is the access whose turn it is.                        *)
LEMMA ReadAccesses ==
  ASSUME IInv, NEW t \in Consumers, PopRead(t), NEW s \in Slots, s = Slot(position[t])
  PROVE  /\ Sequences'
         /\ \A r \in Slots : element'[r] =
              IF r = s THEN [item |-> element[s].item, accesses |-> element[r].accesses + 1]
                       ELSE element[r]
         /\ ~Odd(Latest(s)) /\ element[s].accesses = Latest(s) - 1
  <1> USE Types
  <1>1. Popping(t) /\ pc[t] = "read" /\ Place(t) /\ GoTo(t, "release")
    BY DEF PopRead, Popping, IInv, Sequences, Places
  <1>2. PICK item : item = element[s].item /\ Access(t, item)
    BY DEF PopRead
  <1>3. ~Odd(Latest(s))
    BY <1>1 DEF Place
  <1> QED
    BY <1>1, <1>2, <1>3, AccessStep DEF PopRead

(* Each step keeps what is said about sequence numbers, positions and       *)
(* accesses.                                                                *)
LEMMA SequencesStep ==
  ASSUME IInv, [Next]_vars
  PROVE  Sequences'
  <1> USE Types
  <1>s. Stored /\ Passed /\ Places /\ Alone /\ Counted /\ Taken /\ ~raced
    BY DEF IInv, Sequences
  <1>t. pc \in [Threads -> {"push", "write", "publish", "pop", "read", "release", "check", "done"}]
    BY DEF IInv, TypeOK, PcType
  <1>1. ASSUME NEW t \in Producers, PushClaim(t)
        PROVE  Sequences'
    <2>1. PICK s \in Slots : s = Slot(enqueue_position)
      BY SlotType
    <2>2. /\ Odd(Latest(s)) /\ Value(s, Latest(s)) = enqueue_position
          /\ known' = [known EXCEPT ![t] = Latest(s) - 1]
          /\ \A u \in Threads : Owns(u) => Slot(position[u]) # s
      BY <1>1, <2>1, PushClaimsFree
    <2>3. /\ ~Owns(t) /\ pc' = [pc EXCEPT ![t] = "write"]
          /\ position' = [position EXCEPT ![t] = enqueue_position]
          /\ enqueue_position' = enqueue_position + 1 /\ dequeue_position' = dequeue_position
          /\ UNCHANGED <<sequence, element, raced>>
      BY <1>1 DEF PushClaim, Claim, GoTo, Owns, Pushing, Popping, history
    <2>4. dequeue_position <= enqueue_position
      BY <1>s DEF Passed
    <2>5. \A u \in Threads : Pushing(u) => dequeue_position <= position[u]
      BY <1>s DEF Places, Place
    <2>6. /\ dequeue_position' \in Nat /\ enqueue_position' \in Nat
          /\ dequeue_position' <= enqueue_position' /\ enqueue_position <= enqueue_position'
          /\ dequeue_position' <= enqueue_position /\ enqueue_position < enqueue_position'
          /\ dequeue_position <= dequeue_position'
      BY <2>3, <2>4
    <2>7. \A r \in Slots : Value(r, Latest(r)) <= dequeue_position'
            => Value(r, Latest(r)) <= dequeue_position
      BY <2>3
    <2>8. \A u \in Threads : Pushing(u) => dequeue_position' <= position[u]
      BY <2>3, <2>5
    <2> QED
      BY <2>1, <2>2, <2>3, <2>6, <2>7, <2>8, ClaimStep
  <1>2. ASSUME NEW t \in Consumers, PopClaim(t)
        PROVE  Sequences'
    <2>1. PICK s \in Slots : s = Slot(dequeue_position)
      BY SlotType
    <2>2. /\ ~Odd(Latest(s)) /\ Value(s, Latest(s)) = dequeue_position + 1
          /\ known' = [known EXCEPT ![t] = Latest(s) - 1]
          /\ \A u \in Threads : Owns(u) => Slot(position[u]) # s
          /\ dequeue_position < enqueue_position
      BY <1>2, <2>1, PopClaimsPublished
    <2>3. /\ ~Owns(t) /\ pc' = [pc EXCEPT ![t] = "read"]
          /\ position' = [position EXCEPT ![t] = dequeue_position]
          /\ enqueue_position' = enqueue_position /\ dequeue_position' = dequeue_position + 1
          /\ UNCHANGED <<sequence, element, raced>>
      BY <1>2 DEF PopClaim, Claim, GoTo, Owns, Pushing, Popping, history
    <2>4. ASSUME NEW u \in Threads, Pushing(u)
          PROVE  dequeue_position' <= position[u]
      <3>1. dequeue_position <= position[u]
        BY <1>s, <2>4 DEF Places, Place
      <3>2. position[u] # dequeue_position
        BY <2>1, <2>2, <2>4
      <3> QED
        BY <2>3, <3>1, <3>2
    <2>5. ASSUME NEW r \in Slots, r # s, ~Odd(Latest(r)), Value(r, Latest(r)) <= dequeue_position'
          PROVE  Value(r, Latest(r)) <= dequeue_position
      <3> SUFFICES ASSUME Value(r, Latest(r)) = dequeue_position + 1
                   PROVE  FALSE
        BY <2>3, <2>5
      <3>1. Value(r, Latest(r)) - 1 = dequeue_position
        OBVIOUS
      <3>2. Slot(dequeue_position) = r
        BY <2>5, <3>1, ValueSlot
      <3> QED
        BY <2>1, <2>5, <3>2
    <2>6. /\ dequeue_position' \in Nat /\ enqueue_position' \in Nat
          /\ dequeue_position' <= enqueue_position' /\ dequeue_position <= dequeue_position'
          /\ dequeue_position < dequeue_position' /\ enqueue_position <= enqueue_position'
      BY <2>2, <2>3
    <2> QED
      BY <2>1, <2>2, <2>3, <2>4, <2>5, <2>6, ClaimStep
  <1>3. ASSUME NEW t \in Threads,
               (t \in Producers /\ (PushWrite(t) \/ PushPublish(t)))
                 \/ (t \in Consumers /\ (PopRead(t) \/ PopRelease(t)))
        PROVE  Sequences'
    <2>1. PICK s \in Slots : s = Slot(position[t])
      OBVIOUS
    <2> QED
      BY <1>3, <2>1, PublishStores, ReleaseStores, WriteAccesses, ReadAccesses
  <1>4. ASSUME UNCHANGED <<enqueue_position, dequeue_position, sequence, element, position, known,
                           raced>>,
               \A u \in Threads :
                 pc'[u] = pc[u] \/ (~Owns(u) /\ pc'[u] \in {"pop", "check", "done"})
        PROVE  Sequences'
    <2>1. \A u \in Threads : (Owns(u)' <=> Owns(u)) /\ (Pushing(u)' <=> Pushing(u))
                             /\ (Popping(u)' <=> Popping(u)) /\ (Owns(u) => pc'[u] = pc[u])
      BY <1>4 DEF Owns, Pushing, Popping
    <2>2. \A u \in Threads, s \in Slots : Accessed(u, s)' <=> Accessed(u, s)
      BY <1>4 DEF Accessed, Owns, Pushing, Popping, Slot
    <2>3. Stored' /\ Passed'
      BY <1>s, <1>4 DEF Stored, Passed, Latest, Value, Odd
    <2>4. ASSUME NEW u \in Threads
          PROVE  Place(u)'
      <3>1. Place(u)
        BY <1>s DEF Places
      <3>2. CASE Owns(u)
        BY <1>4, <2>1, <3>1, <3>2 DEF Place, Latest, Value, Odd, Slot
      <3>3. CASE ~Owns(u)
        BY <2>1, <3>3 DEF Place, Owns
      <3> QED
        BY <3>2, <3>3
    <2>5. Alone'
      BY <1>s, <1>4, <2>1 DEF Alone, Slot
    <2>6. Counted'
      BY <1>s, <1>4, <2>2 DEF Counted, Latest
    <2>7. Taken'
      BY <1>s, <1>4, <2>1 DEF Taken, Latest, Value, Odd, Slot
    <2>8. Places'
      BY <2>4 DEF Places
    <2> QED
      BY <1>s, <1>4, <2>3, <2>5, <2>6, <2>7, <2>8 DEF Sequences
  <1>5. ASSUME NEW t \in Consumers, PopEmpty(t) \/ SeesOpen(t) \/ SeesClosed(t)
        PROVE  Sequences'
    <2>1. /\ UNCHANGED <<enqueue_position, dequeue_position, sequence, element, position, known,
                         raced>>
          /\ pc[t] \in {"pop", "check"} /\ \E label \in {"pop", "check", "done"} : GoTo(t, label)
      BY <1>5 DEF PopEmpty, SeesOpen, SeesClosed, queueVars, knowledge, history
    <2>2. \A u \in Threads :
            pc'[u] = pc[u] \/ (~Owns(u) /\ pc'[u] \in {"pop", "check", "done"})
      BY <1>t, <2>1 DEF GoTo, Owns, Pushing, Popping
    <2> QED
      BY <1>4, <2>1, <2>2
  <1>6. CASE Close \/ UNCHANGED vars
    BY <1>4, <1>6 DEF Close, vars, queueVars, knowledge, history
  <1> QED
    BY <1>1, <1>2, <1>3, <1>5, <1>6 DEF Next, Produce, Consume, Threads
-----------------------------------------------------------------------------
(* Values read later are not older.                                         *)
LEMMA ValueNotOlder ==
  ASSUME NEW s \in Slots, NEW j \in Nat \ {0}, NEW k \in Nat \ {0}, j <= k
  PROVE  Value(s, j) <= Value(s, k) /\ Value(s, j) \in Nat /\ Value(s, k) \in Nat
  <1>1. Value(s, j) \in Nat /\ Value(s, k) \in Nat
    BY ValueType
  <1>2. CASE j = k
    BY <1>1, <1>2
  <1>3. CASE j < k
    BY <1>1, <1>3, ValueGrows
  <1> QED
    BY <1>1, <1>2, <1>3

(* What an older value of a sequence number tells, a later one tells.       *)
LEMMA TellsMore ==
  ASSUME NEW q \in Nat, NEW one, NEW other,
         one[Slot(q)] \in Nat \ {0}, other[Slot(q)] \in Nat \ {0},
         one[Slot(q)] <= other[Slot(q)], Tells(q, one)
  PROVE  Tells(q, other)
  <1>1. Slot(q) \in Slots
    BY SlotType
  <1>2. Value(Slot(q), one[Slot(q)]) <= Value(Slot(q), other[Slot(q)])
        /\ Value(Slot(q), one[Slot(q)]) \in Nat /\ Value(Slot(q), other[Slot(q)]) \in Nat
    BY <1>1, ValueNotOlder
  <1>3. Value(Slot(q), one[Slot(q)]) > q
    BY DEF Tells
  <1>4. Value(Slot(q), other[Slot(q)]) > q
    BY <1>2, <1>3
  <1> QED
    BY <1>4 DEF Tells

(* A thread never gets to read older values again.                          *)
LEMMA OldestStep ==
  ASSUME IInv, [Next]_vars, NEW t \in Threads, NEW s \in Slots
  PROVE  /\ oldest[t][s] \in Nat \ {0} /\ oldest'[t][s] \in Nat \ {0}
         /\ oldest[t][s] <= oldest'[t][s] /\ oldest'[t][s] <= Latest(s)'
         /\ Latest(s) <= Latest(s)' /\ Latest(s)' \in Nat
  <1> USE Types
  <1>t. oldest \in [Threads -> [Slots -> Nat]] /\ closed.oldest \in [Slots -> Nat]
    BY DEF IInv, TypeOK, KnowledgeType, QueueType
  <1>1. PICK old \in Nat \ {0}, n \in Nat \ {0} :
          old = oldest[t][s] /\ n = Latest(s) /\ old <= n
    BY DEF IInv, Closing, Ranges
  <1>2. ASSUME NEW u \in Threads, NEW value, Store(u, value),
               \A r \in Slots : Latest(r)' = IF r = Slot(position[u]) THEN Latest(r) + 1 ELSE Latest(r)
        PROVE  /\ oldest'[t][s] \in {old, n + 1} /\ Latest(s)' \in {n, n + 1}
               /\ oldest'[t][s] = n + 1 => Latest(s)' = n + 1
    <2>1. PICK r \in Slots : r = Slot(position[u])
      OBVIOUS
    <2>2. PICK m \in Nat : m = Latest(r) + 1
      OBVIOUS
    <2>3. oldest' = [oldest EXCEPT ![u] = [oldest[u] EXCEPT ![r] = m]]
      BY <1>2, <2>1, <2>2 DEF Store, Latest
    <2>4. oldest[u] \in [Slots -> Nat]
      BY <1>t
    <2>5. CASE t = u /\ s = r
      BY <1>t, <1>1, <1>2, <2>1, <2>2, <2>3, <2>4, <2>5
    <2>6. CASE ~(t = u /\ s = r)
      BY <1>t, <1>1, <1>2, <2>1, <2>3, <2>4, <2>6
    <2> QED
      BY <2>5, <2>6
  <1>3. CASE \E u \in Producers : PushPublish(u)
    <2>1. PICK u \in Producers : PushPublish(u)
      BY <1>3
    <2>2. \A r \in Slots : Latest(r)' = IF r = Slot(position[u]) THEN Latest(r) + 1 ELSE Latest(r)
      BY <2>1, PublishStores
    <2>3. Store(u, position[u] + 1)
      BY <2>1 DEF PushPublish
    <2>4. /\ oldest'[t][s] \in {old, n + 1} /\ Latest(s)' \in {n, n + 1}
          /\ oldest'[t][s] = n + 1 => Latest(s)' = n + 1
      BY <1>2, <2>2, <2>3
    <2> QED
      BY <1>1, <2>4
  <1>4. CASE \E u \in Consumers : PopRelease(u)
    <2>1. PICK u \in Consumers : PopRelease(u)
      BY <1>4
    <2>2. \A r \in Slots : Latest(r)' = IF r = Slot(position[u]) THEN Latest(r) + 1 ELSE Latest(r)
      BY <2>1, ReleaseStores
    <2>3. Store(u, Released(position[u]))
      BY <2>1 DEF PopRelease
    <2>4. /\ oldest'[t][s] \in {old, n + 1} /\ Latest(s)' \in {n, n + 1}
          /\ oldest'[t][s] = n + 1 => Latest(s)' = n + 1
      BY <1>2, <2>2, <2>3
    <2> QED
      BY <1>1, <2>4
  <1>5. CASE \E u \in Consumers : SeesClosed(u)
    <2>1. PICK u \in Consumers : SeesClosed(u)
      BY <1>5
    <2>2. /\ sequence' = sequence
          /\ oldest' = [oldest EXCEPT ![u] =
               [r \in Slots |-> Max({oldest[u][r], closed.oldest[r]})]]
      BY <2>1 DEF SeesClosed, queueVars
    <2>3. Latest(s)' = n
      BY <1>1, <2>2 DEF Latest
    <2>4. CASE t = u
      <3>1. PICK c \in Nat \ {0} : c = closed.oldest[s] /\ c <= n
        BY <1>1 DEF IInv, Closing, Ranges
      <3>2. oldest'[t][s] = Max({old, c})
        BY <1>t, <1>1, <2>2, <2>4, <3>1
      <3>3. Max({old, c}) \in {old, c} /\ old <= Max({old, c})
        BY MaxOfTwo
      <3> QED
        BY <1>1, <2>3, <3>1, <3>2, <3>3
    <2>5. CASE t # u
      <3>1. oldest'[t] = oldest[t]
        BY <1>t, <2>2, <2>5
      <3> QED
        BY <1>1, <2>3, <3>1
    <2> QED
      BY <2>4, <2>5
  <1>6. CASE UNCHANGED <<oldest, sequence>>
    BY <1>1, <1>6 DEF Latest
  <1> QED
    BY <1>3, <1>4, <1>5, <1>6
    DEF Next, Produce, Consume, PushClaim, PushWrite, PopClaim, PopEmpty, PopRead, SeesOpen,
      Close, vars, queueVars, knowledge

(* Once closed, the queue stays closed and the producers have ended.        *)
LEMMA ClosedStays ==
  ASSUME IInv, [Next]_vars, closed.flag
  PROVE  /\ closed' = closed /\ enqueue_position' = enqueue_position
         /\ \A t \in Producers : pc'[t] = "done"
  <1>t. pc \in [Threads -> {"push", "write", "publish", "pop", "read", "release", "check", "done"}]
    BY DEF IInv, TypeOK, PcType
  <1>1. \A t \in Producers : pc[t] = "done"
    BY DEF IInv, Closing, ClosedTells
  <1>2. ~Close /\ \A t \in Producers : ~Produce(t)
    BY <1>1 DEF Close, Produce, PushClaim, PushWrite, PushPublish
  <1>3. CASE UNCHANGED vars
    BY <1>1, <1>3 DEF vars, queueVars
  <1>4. ASSUME NEW c \in Consumers, Consume(c)
        PROVE  /\ closed' = closed /\ enqueue_position' = enqueue_position
               /\ \A t \in Producers : pc'[t] = "done"
    <2>1. /\ closed' = closed /\ enqueue_position' = enqueue_position
          /\ \E label : GoTo(c, label)
      BY <1>4 DEF Consume, PopClaim, PopEmpty, PopRead, PopRelease, SeesClosed, SeesOpen, Claim,
        queueVars
    <2>2. \A t \in Producers : t # c /\ t \in Threads
      BY DEF Threads
    <2> QED
      BY <1>t, <1>1, <2>1, <2>2 DEF GoTo
  <1> QED
    BY <1>2, <1>3, <1>4 DEF Next

(* A push under way stays so until it publishes.                            *)
LEMMA PushGoesOn ==
  ASSUME IInv, [Next]_vars, NEW t \in Producers, Pushing(t), ~PushPublish(t)
  PROVE  Pushing(t)' /\ position'[t] = position[t]
  <1>t. /\ pc \in [Threads -> {"push", "write", "publish", "pop", "read", "release", "check", "done"}]
        /\ position \in [Threads -> Nat]
    BY DEF IInv, TypeOK, PcType, KnowledgeType
  <1>1. t \in Threads /\ t \notin Consumers
    BY DEF Threads
  <1>2. CASE pc'[t] = pc[t] /\ position'[t] = position[t]
    BY <1>2 DEF Pushing
  <1>3. ASSUME NEW u \in Threads, u # t, Produce(u) \/ Consume(u)
        PROVE  pc'[t] = pc[t] /\ position'[t] = position[t]
    <2>1. \E label : GoTo(u, label)
      BY <1>3 DEF Produce, PushClaim, PushWrite, PushPublish, Consume, PopClaim, PopEmpty, PopRead,
        PopRelease, SeesClosed, SeesOpen, Claim
    <2>2. pc'[t] = pc[t]
      BY <1>t, <1>1, <1>3, <2>1 DEF GoTo
    <2>3. position' = position \/ \E p : position' = [position EXCEPT ![u] = p]
      BY <1>3 DEF Produce, PushClaim, PushWrite, PushPublish, Consume, PopClaim, PopEmpty, PopRead,
        PopRelease, SeesClosed, SeesOpen, Claim, Store
    <2> QED
      BY <1>t, <1>1, <1>3, <2>2, <2>3
  <1>4. CASE PushWrite(t)
    <2>1. position' = position /\ pc'[t] = "publish"
      BY <1>t, <1>1, <1>4 DEF PushWrite, GoTo
    <2> QED
      BY <2>1 DEF Pushing
  <1>5. ~PushClaim(t)
    BY DEF PushClaim, Pushing
  <1>6. CASE Close \/ UNCHANGED vars
    BY <1>2, <1>6 DEF Close, vars
  <1>7. CASE \E u \in Threads : u # t /\ (Produce(u) \/ Consume(u))
    BY <1>2, <1>3, <1>7
  <1> QED
    BY <1>1, <1>4, <1>5, <1>6, <1>7 DEF Next, Produce, Threads
(* A consumer which reads the sequence number as not yet published, having  *)
(* seen the queue closed, looks at a position nobody claimed.               *)
LEMMA LastTryFindsEnd ==
  ASSUME IInv, NEW c \in Consumers, PopEmpty(c), last_try[c]
  PROVE  closed.flag /\ enqueue_position <= dequeue_position
  <1> USE Types
  <1>1. closed.flag /\ \A q \in 0 .. enqueue_position - 1 : Tells(q, oldest[c])
    BY DEF IInv, Closing, LastTryTells
  <1>2. PICK p \in 0 .. dequeue_position : \E m \in Readable(c, p) : m.value < p + 1
    BY DEF PopEmpty
  <1>3. PICK s \in Slots : s = Slot(p)
    BY <1>2, SlotType
  <1>4. PICK k \in oldest[c][s] .. Latest(s) : sequence[s][k].value < p + 1
    BY <1>2, <1>3 DEF Readable, Latest
  <1>5. oldest[c][s] \in 1 .. Latest(s) /\ Latest(s) \in Nat \ {0}
    BY DEF IInv, Closing, Ranges
  <1>6. k \in 1 .. Latest(s) /\ k \in Nat \ {0} /\ oldest[c][s] \in Nat \ {0} /\ oldest[c][s] <= k
    BY <1>4, <1>5
  <1>7. sequence[s][k].value = Value(s, k)
    <2>1. sequence[s][k] = [value |-> Value(s, k), known |-> k - 1]
      BY <1>6 DEF IInv, Sequences, Stored
    <2> QED
      BY <2>1
  <1>8. Value(s, oldest[c][s]) <= Value(s, k)
        /\ Value(s, oldest[c][s]) \in Nat /\ Value(s, k) \in Nat
    BY <1>6, ValueNotOlder
  <1>9. ~(p < enqueue_position)
    <2> SUFFICES ASSUME p < enqueue_position
                 PROVE  FALSE
      OBVIOUS
    <2>1. Value(s, oldest[c][s]) > p
      BY <1>1, <1>2, <1>3 DEF Tells
    <2> QED
      BY <1>2, <1>4, <1>7, <1>8, <2>1
  <1> QED
    BY <1>1, <1>2, <1>9

(* Closing hands over what all the producers know.                          *)
LEMMA CloseTells ==
  ASSUME IInv, Close
  PROVE  /\ \A s \in Slots : closed'.oldest[s] \in 1 .. Latest(s)
         /\ closed'.flag /\ \A t \in Producers : pc[t] = "done"
         /\ \A q \in 0 .. enqueue_position - 1 : Tells(q, closed'.oldest)
  <1> USE Types
  <1>1. Joined = Producers /\ Producers # {} /\ \A t \in Producers : pc[t] = "done"
    BY DEF Close, MayClose, Joined
  <1>2. closed'.flag /\ closed'.oldest = [s \in Slots |-> Max({oldest[p][s] : p \in Producers})]
    BY <1>1 DEF Close
  <1>3. ASSUME NEW s \in Slots
        PROVE  /\ closed'.oldest[s] \in 1 .. Latest(s)
               /\ \A p \in Producers : oldest[p][s] <= closed'.oldest[s]
    <2> DEFINE S == {oldest[p][s] : p \in Producers}
    <2>1. S \subseteq 1 .. Latest(s)
      BY DEF IInv, Closing, Ranges
    <2>2. S # {} /\ Latest(s) \in Nat
      BY <1>1
    <2>3. closed'.oldest[s] = Max(S)
      BY <1>2
    <2>4. \A p \in Producers : oldest[p][s] \in S
      OBVIOUS
    <2> HIDE DEF S
    <2>5. Max(S) \in S /\ \A y \in S : y <= Max(S)
      BY <2>1, <2>2, MaxOfBounded
    <2> QED
      BY <2>1, <2>3, <2>4, <2>5
  <1>4. ASSUME NEW q \in 0 .. enqueue_position - 1
        PROVE  Tells(q, closed'.oldest)
    <2>1. PICK t \in Producers : Tells(q, oldest[t])
      BY <1>1 DEF IInv, Closing, PublisherKnows, Pushing
    <2>2. q \in Nat /\ Slot(q) \in Slots
      BY SlotType
    <2>3. /\ oldest[t][Slot(q)] \in Nat \ {0} /\ closed'.oldest[Slot(q)] \in Nat \ {0}
          /\ oldest[t][Slot(q)] <= closed'.oldest[Slot(q)]
      BY <1>3, <2>2 DEF IInv, Closing, Ranges
    <2> QED
      BY <2>1, <2>2, <2>3, TellsMore
  <1> QED
    BY <1>1, <1>2, <1>3, <1>4

(* Each step keeps what is said about closing and the last try.             *)
LEMMA ClosingStep ==
  ASSUME IInv, [Next]_vars
  PROVE  Closing'
  <1> USE Types
  <1>s. Ranges /\ PublisherKnows /\ ClosedTells /\ LastTryTells /\ EndedLast
    BY DEF IInv, Closing
  <1>t. /\ pc \in [Threads -> {"push", "write", "publish", "pop", "read", "release", "check", "done"}]
        /\ position \in [Threads -> Nat] /\ last_try \in [Consumers -> BOOLEAN]
        /\ oldest \in [Threads -> [Slots -> Nat]]
    BY DEF IInv, TypeOK, PcType, KnowledgeType, ProgramType
  <1>1. Ranges'
    <2>1. ASSUME NEW s \in Slots
          PROVE  closed'.oldest[s] \in 1 .. Latest(s)'
      <3>1. PICK t \in Threads : TRUE
        BY DEF Threads
      <3>2. Latest(s) \in Nat /\ Latest(s) <= Latest(s)' /\ Latest(s)' \in Nat
        BY <3>1, OldestStep
      <3>3. closed.oldest[s] \in 1 .. Latest(s)
        BY <1>s DEF Ranges
      <3>4. CASE Close
        <4>1. closed'.oldest[s] \in 1 .. Latest(s)
          BY <3>4, CloseTells
        <4> QED
          BY <3>2, <4>1
      <3>5. CASE closed' = closed
        BY <3>2, <3>3, <3>5
      <3> QED
        BY <3>4, <3>5 DEF Next, Produce, PushClaim, PushWrite, PushPublish, Consume, PopClaim,
          PopEmpty, PopRead, PopRelease, SeesClosed, SeesOpen, vars, queueVars
    <2>2. ASSUME NEW s \in Slots, NEW t \in Threads
          PROVE  oldest'[t][s] \in 1 .. Latest(s)'
      BY OldestStep
    <2> QED
      BY <2>1, <2>2 DEF Ranges
  <1>2. \A t \in Threads : \A q \in Nat : Tells(q, oldest[t]) => Tells(q, oldest'[t])
    <2> SUFFICES ASSUME NEW t \in Threads, NEW q \in Nat, Tells(q, oldest[t])
                 PROVE  Tells(q, oldest'[t])
      OBVIOUS
    <2>1. Slot(q) \in Slots
      BY SlotType
    <2>2. /\ oldest[t][Slot(q)] \in Nat \ {0} /\ oldest'[t][Slot(q)] \in Nat \ {0}
          /\ oldest[t][Slot(q)] <= oldest'[t][Slot(q)]
      BY <2>1, OldestStep
    <2> QED
      BY <2>2, TellsMore
  <1>3. ASSUME NEW q \in 0 .. enqueue_position - 1
        PROVE  \/ \E t \in Producers : Pushing(t)' /\ position'[t] = q
               \/ \E t \in Producers : Tells(q, oldest'[t])
    <2>1. CASE \E t \in Producers : Tells(q, oldest[t])
      BY <1>2, <2>1
    <2>2. CASE \E t \in Producers : Pushing(t) /\ position[t] = q
      <3>1. PICK t \in Producers : Pushing(t) /\ position[t] = q
        BY <2>2
      <3>2. CASE PushPublish(t)
        <4>1. PICK s \in Slots : s = Slot(q)
          BY SlotType
        <4>2. PICK n \in Nat \ {0} : n = Latest(s) + 1
          OBVIOUS
        <4>3. Value(s, n) = q + 1
          BY <3>1, <3>2, <4>1, <4>2, PublishStores
        <4>4. oldest'[t][s] = n
          <5>1. oldest' = [oldest EXCEPT ![t][s] = n]
            BY <3>1, <3>2, <4>1, <4>2 DEF PushPublish, Store, Latest
          <5> QED
            BY <1>t, <5>1
        <4>5. Value(s, oldest'[t][s]) > q
          BY <4>3, <4>4
        <4> QED
          BY <4>1, <4>5 DEF Tells
      <3>3. CASE ~PushPublish(t)
        BY <3>1, <3>3, PushGoesOn
      <3> QED
        BY <3>2, <3>3
    <2> QED
      BY <1>s, <2>1, <2>2 DEF PublisherKnows
  <1>4. PublisherKnows'
    <2>1. CASE enqueue_position' = enqueue_position
      BY <1>3, <2>1 DEF PublisherKnows, Tells, Value, Odd, Slot
    <2>2. CASE \E t \in Producers : PushClaim(t)
      <3>1. PICK t \in Producers : PushClaim(t)
        BY <2>2
      <3>2. /\ enqueue_position' = enqueue_position + 1
            /\ pc'[t] = "write" /\ position'[t] = enqueue_position
        BY <1>t, <3>1 DEF PushClaim, Claim, GoTo
      <3>3. ASSUME NEW q \in 0 .. enqueue_position' - 1
            PROVE  \/ \E u \in Producers : Pushing(u)' /\ position'[u] = q
                   \/ \E u \in Producers : Tells(q, oldest'[u])
        <4>1. CASE q = enqueue_position
          BY <3>2, <4>1 DEF Pushing
        <4>2. CASE q # enqueue_position
          <5>1. q \in 0 .. enqueue_position - 1
            BY <3>2, <4>2
          <5> QED
            BY <1>3, <5>1
        <4> QED
          BY <4>1, <4>2
      <3> QED
        BY <3>3 DEF PublisherKnows, Tells, Value, Odd, Slot
    <2> QED
      BY <2>1, <2>2 DEF Next, Produce, PushWrite, PushPublish, Consume, PopClaim, PopEmpty,
        PopRead, PopRelease, SeesClosed, SeesOpen, Close, vars, queueVars
  <1>5. ClosedTells'
    <2>1. CASE closed.flag
      <3>1. /\ closed' = closed /\ enqueue_position' = enqueue_position
            /\ \A t \in Producers : pc'[t] = "done"
        BY <2>1, ClosedStays
      <3> QED
        BY <1>s, <2>1, <3>1 DEF ClosedTells, Tells, Value, Odd, Slot
    <2>2. CASE Close
      <3>1. /\ closed'.flag /\ \A t \in Producers : pc'[t] = "done"
            /\ \A q \in 0 .. enqueue_position' - 1 : Tells(q, closed'.oldest)
        BY <2>2, CloseTells DEF Close
      <3> QED
        BY <3>1 DEF ClosedTells, Tells, Value, Odd, Slot
    <2>3. CASE ~closed.flag /\ closed' = closed
      BY <2>3 DEF ClosedTells
    <2> QED
      BY <2>1, <2>2, <2>3 DEF Next, Produce, PushClaim, PushWrite, PushPublish, Consume, PopClaim,
        PopEmpty, PopRead, PopRelease, SeesClosed, SeesOpen, vars, queueVars
  <1>6. LastTryTells'
    <2> SUFFICES ASSUME NEW c \in Consumers, last_try'[c]
                 PROVE  /\ closed'.flag
                        /\ \A q \in 0 .. enqueue_position' - 1 : Tells(q, oldest'[c])
      BY DEF LastTryTells, Tells, Value, Odd, Slot
    <2>1. CASE last_try[c]
      <3>1. closed.flag /\ \A q \in 0 .. enqueue_position - 1 : Tells(q, oldest[c])
        BY <1>s, <2>1 DEF LastTryTells
      <3>2. closed' = closed /\ enqueue_position' = enqueue_position
        BY <3>1, ClosedStays
      <3> QED
        BY <1>2, <3>1, <3>2
    <2>2. CASE ~last_try[c]
      <3>1. SeesClosed(c)
        <4>1. ASSUME NEW u \in Consumers, PopRelease(u)
              PROVE  FALSE
          <5>1. last_try'[c] = IF c = u THEN FALSE ELSE last_try[c]
            BY <1>t, <4>1 DEF PopRelease
          <5> QED
            BY <2>2, <5>1
        <4>2. ASSUME NEW u \in Consumers, SeesClosed(u), u # c
              PROVE  FALSE
          <5>1. last_try'[c] = last_try[c]
            BY <1>t, <4>2 DEF SeesClosed
          <5> QED
            BY <2>2, <5>1
        <4>3. last_try' # last_try
          BY <2>2
        <4> QED
          BY <4>1, <4>2, <4>3 DEF Next, Produce, PushClaim, PushWrite, PushPublish, Consume,
            PopClaim, PopEmpty, PopRead, SeesOpen, Close, vars
      <3>2. closed.flag
        BY <3>1 DEF SeesClosed
      <3>3. closed' = closed /\ enqueue_position' = enqueue_position
        BY <3>2, ClosedStays
      <3>4. ASSUME NEW q \in 0 .. enqueue_position - 1
            PROVE  Tells(q, oldest'[c])
        <4>1. Tells(q, closed.oldest)
          BY <1>s, <3>2 DEF ClosedTells
        <4>2. PICK s \in Slots : s = Slot(q)
          BY SlotType
        <4>3. PICK a \in Nat \ {0}, b \in Nat \ {0} : a = closed.oldest[s] /\ b = oldest[c][s]
          BY <1>s DEF Ranges
        <4>4. oldest'[c][s] = Max({b, a})
          <5>1. oldest' = [oldest EXCEPT ![c] =
                  [r \in Slots |-> Max({oldest[c][r], closed.oldest[r]})]]
            BY <3>1 DEF SeesClosed
          <5> QED
            BY <1>t, <4>3, <5>1
        <4>5. Max({b, a}) \in Nat \ {0} /\ a <= Max({b, a})
          BY MaxOfTwo
        <4> QED
          BY <4>1, <4>2, <4>3, <4>4, <4>5, TellsMore
      <3> QED
        BY <3>2, <3>3, <3>4
    <2> QED
      BY <1>t, <2>1, <2>2
  <1>7. EndedLast'
    <2> SUFFICES ASSUME NEW c \in Consumers, pc'[c] = "done"
                 PROVE  closed'.flag /\ enqueue_position' <= dequeue_position'
      BY DEF EndedLast
    <2>1. closed.flag /\ enqueue_position <= dequeue_position
      <3>1. CASE pc[c] = "done"
        BY <1>s, <3>1 DEF EndedLast
      <3>2. CASE pc[c] # "done"
        <4>1. c \notin Producers /\ c \in Threads
          BY DEF Threads
        <4>2. PopEmpty(c) /\ last_try[c]
          BY <1>t, <3>2, <4>1 DEF Next, Produce, PushClaim, PushWrite, PushPublish, Consume,
            PopClaim, PopEmpty, PopRead, PopRelease, SeesClosed, SeesOpen, Close, vars, Claim, GoTo,
            Threads
        <4> QED
          BY <4>2, LastTryFindsEnd
      <3> QED
        BY <3>1, <3>2
    <2>2. closed' = closed /\ enqueue_position' = enqueue_position
      BY <2>1, ClosedStays
    <2>3. dequeue_position' \in {dequeue_position, dequeue_position + 1}
      BY DEF Next, Produce, PushClaim, PushWrite, PushPublish, Consume, PopClaim, PopEmpty,
        PopRead, PopRelease, SeesClosed, SeesOpen, Close, vars, queueVars
    <2> QED
      BY <2>1, <2>2, <2>3
  <1> QED
    BY <1>1, <1>4, <1>5, <1>6, <1>7 DEF Closing
-----------------------------------------------------------------------------
(* Steps other than a write, a publication and a read leave all elements    *)
(* where they are.                                                          *)
LEMMA ElementsStay ==
  ASSUME IInv, UNCHANGED <<element, next, popped>>,
         \A t \in Producers : /\ pc'[t] = "publish" <=> pc[t] = "publish"
                              /\ pc'[t] = "done" <=> pc[t] = "done"
  PROVE  Elements'
  <1>s. Numbers /\ InSlots /\ OncePopped
    BY DEF IInv, Elements
  <1>1. \A i \in Items : i[1] \in Producers
    BY DEF Items
  <1>2. \A i \in Items : Written(i)' <=> Written(i)
    BY <1>1 DEF Written
  <1>3. \A s \in Slots : Full(s)' <=> Full(s)
    BY DEF Full, Odd
  <1>4. Numbers'
    BY <1>s DEF Numbers
  <1>5. InSlots'
    <2>1. \A s \in Slots : Full(s)' => /\ element'[s].item \in Items /\ Written(element[s].item)'
                                       /\ popped'[element'[s].item] = 0
      BY <1>s, <1>2, <1>3 DEF InSlots
    <2>2. \A s, r \in Slots : Full(s)' /\ Full(r)' /\ s # r
            => element'[s].item # element'[r].item
      BY <1>s, <1>3 DEF InSlots
    <2> QED
      BY <2>1, <2>2 DEF InSlots, Written, Full, Odd
  <1>6. OncePopped'
    BY <1>s, <1>2, <1>3 DEF OncePopped
  <1> QED
    BY <1>4, <1>5, <1>6 DEF Elements

(* What InSlots says of the next state.                                     *)
LEMMA InSlotsNext ==
  ASSUME \A r \in Slots : Full(r)' =>
           \E i \in Items : i = element'[r].item /\ Written(i)' /\ popped'[i] = 0,
         \A r, q \in Slots : Full(r)' /\ Full(q)' /\ r # q => element'[r].item # element'[q].item
  PROVE  InSlots'
  <1>1. ASSUME NEW r \in Slots, Full(r)'
        PROVE  /\ element'[r].item \in Items /\ Written(element[r].item)'
               /\ popped'[element'[r].item] = 0
    <2>1. PICK i \in Items : i = element'[r].item /\ Written(i)' /\ popped'[i] = 0
      BY <1>1
    <2>2. Written(element[r].item)'
      BY <2>1 DEF Written
    <2> QED
      BY <2>1, <2>2
  <1> QED
    BY <1>1 DEF InSlots, Written, Full, Odd

(* A push writes its element into its own slot.                             *)
LEMMA WriteElements ==
  ASSUME IInv, NEW t \in Producers, PushWrite(t)
  PROVE  Elements'
  <1> USE Types
  <1>s. Numbers /\ InSlots /\ OncePopped
    BY DEF IInv, Elements
  <1>t. /\ pc \in [Threads -> {"push", "write", "publish", "pop", "read", "release", "check", "done"}]
        /\ next \in [Producers -> Nat]
        /\ element \in [Slots -> [item : Items \cup {<<>>}, accesses : Nat]]
        /\ popped \in [Items -> Nat]
    BY DEF IInv, TypeOK, PcType, QueueType, ProgramType
  <1>1. PICK s \in Slots : s = Slot(position[t])
    OBVIOUS
  <1>2. PICK new \in Items : new = <<t, next[t]>> /\ new[1] = t /\ new[2] = next[t]
    <2>1. next[t] \in 1 .. Quota
      BY <1>s, <1>t DEF Numbers, PushWrite
    <2>2. <<t, next[t]>> \in Items
      BY <2>1 DEF Items
    <2> QED
      BY <2>2
  <1>3. /\ \A r \in Slots : element'[r] =
             IF r = s THEN [item |-> new, accesses |-> element[r].accesses + 1] ELSE element[r]
        /\ Odd(Latest(s)) /\ element[s].accesses = Latest(s) - 1
    BY <1>1, <1>2, WriteAccesses
  <1>e. /\ element'[s].item = new /\ element'[s].accesses = element[s].accesses + 1
        /\ \A r \in Slots : r # s => element'[r] = element[r]
    <2>1. element'[s] = [item |-> new, accesses |-> element[s].accesses + 1]
      BY <1>3
    <2>2. element'[s].item = new /\ element'[s].accesses = element[s].accesses + 1
      BY <2>1
    <2>3. \A r \in Slots : r # s => element'[r] = element[r]
      BY <1>3
    <2> QED
      BY <2>2, <2>3
  <1>4. ~Full(s) /\ Full(s)' /\ \A r \in Slots : r # s => (Full(r)' <=> Full(r))
    <2>1. PICK n \in Nat \ {0} : n = Latest(s) /\ n % 2 = 1
      BY <1>3 DEF Odd
    <2>2. element[s].accesses = n - 1 /\ element'[s].accesses = n
      BY <1>3, <1>e, <2>1
    <2>3. ~Full(s) /\ Full(s)'
      BY <2>1, <2>2 DEF Full, Odd
    <2>4. \A r \in Slots : r # s => (Full(r)' <=> Full(r))
      BY <1>e DEF Full, Odd
    <2> QED
      BY <2>3, <2>4
  <1>5. /\ pc[t] = "write" /\ pc'[t] = "publish" /\ next' = next /\ popped' = popped
        /\ \A u \in Threads : u # t => pc'[u] = pc[u]
    BY <1>t DEF PushWrite, GoTo
  <1>6. \A i \in Items : i[1] \in Producers /\ i[1] \in Threads /\ i[2] \in Nat
                         /\ (i[1] = t /\ i[2] = next[t] => i = new)
    BY <1>2 DEF Items
  <1>7. ~Written(new) /\ Written(new)' /\ \A i \in Items : i # new => (Written(i)' <=> Written(i))
    <2>1. ~Written(new) /\ Written(new)'
      BY <1>t, <1>2, <1>5 DEF Written
    <2>2. \A i \in Items : i # new => (Written(i)' <=> Written(i))
      BY <1>5, <1>6 DEF Written
    <2> QED
      BY <2>1, <2>2
  <1>8. Numbers'
    BY <1>s, <1>5 DEF Numbers
  <1>9. InSlots'
    <2>1. ASSUME NEW r \in Slots, Full(r)'
          PROVE  \E i \in Items : /\ i = element'[r].item /\ Written(i)' /\ popped'[i] = 0
                                  /\ r # s => i # new
      <3>1. CASE r = s
        <4>1. element'[r].item = new
          BY <1>e, <3>1
        <4>2. popped[new] = 0
          BY <1>s, <1>7 DEF OncePopped
        <4> QED
          BY <1>5, <1>7, <3>1, <4>1, <4>2
      <3>2. CASE r # s
        <4>1. Full(r) /\ element'[r] = element[r]
          BY <1>e, <1>4, <2>1, <3>2
        <4>2. PICK i \in Items : i = element[r].item /\ Written(i) /\ popped[i] = 0
          BY <1>s, <4>1 DEF InSlots
        <4>3. i # new
          BY <1>7, <4>2
        <4> QED
          BY <1>5, <1>7, <4>1, <4>2, <4>3
      <3> QED
        BY <3>1, <3>2
    <2>2. ASSUME NEW r \in Slots, NEW q \in Slots, Full(r)', Full(q)', r # q
          PROVE  element'[r].item # element'[q].item
      <3>1. CASE r = s \/ q = s
        BY <1>e, <2>1, <2>2, <3>1
      <3>2. CASE r # s /\ q # s
        BY <1>s, <1>e, <1>4, <2>2, <3>2 DEF InSlots
      <3> QED
        BY <3>1, <3>2
    <2> QED
      BY <2>1, <2>2, InSlotsNext
  <1>10. OncePopped'
    <2>1. ASSUME NEW i \in Items
          PROVE  /\ popped'[i] \in {0, 1}
                 /\ ~Written(i)' => popped'[i] = 0
                 /\ Written(i)' /\ popped'[i] = 0
                      => \E r \in Slots : Full(r)' /\ element'[r].item = i
      <3>1. popped[i] \in {0, 1} /\ (~Written(i) => popped[i] = 0)
        BY <1>s DEF OncePopped
      <3>2. CASE i = new
        <4>1. element'[s].item = new
          BY <1>e
        <4> QED
          BY <1>4, <1>5, <1>7, <3>1, <3>2, <4>1
      <3>3. CASE i # new
        <4>1. ASSUME Written(i), popped[i] = 0
              PROVE  \E r \in Slots : Full(r)' /\ element'[r].item = i
          <5>1. PICK r \in Slots : Full(r) /\ element[r].item = i
            BY <1>s, <4>1 DEF OncePopped
          <5>2. r # s
            BY <1>4, <5>1
          <5> QED
            BY <1>3, <1>4, <5>1, <5>2
        <4> QED
          BY <1>5, <1>7, <3>1, <3>3, <4>1
      <3> QED
        BY <3>2, <3>3
    <2> QED
      BY <2>1 DEF OncePopped
  <1> QED
    BY <1>8, <1>9, <1>10 DEF Elements

(* A push that publishes goes on to its next element.                       *)
LEMMA PublishElements ==
  ASSUME IInv, NEW t \in Producers, PushPublish(t)
  PROVE  Elements'
  <1>s. Numbers /\ InSlots /\ OncePopped
    BY DEF IInv, Elements
  <1>t. /\ pc \in [Threads -> {"push", "write", "publish", "pop", "read", "release", "check", "done"}]
        /\ next \in [Producers -> Nat]
    BY DEF IInv, TypeOK, PcType, ProgramType
  <1>1. /\ pc[t] = "publish" /\ next'[t] = next[t] + 1
        /\ pc'[t] = (IF next[t] < Quota THEN "push" ELSE "done")
        /\ \A u \in Producers : u # t => pc'[u] = pc[u] /\ next'[u] = next[u]
        /\ element' = element /\ popped' = popped
    BY <1>t DEF PushPublish, GoTo, Threads, history
  <1>2. \A i \in Items : i[1] \in Producers /\ i[2] \in Nat
    BY DEF Items
  <1>3. \A i \in Items : Written(i)' <=> Written(i)
    <2> TAKE i \in Items
    <2>1. CASE i[1] = t
      <3>1. PICK n \in Nat : n = next[t]
        BY <1>t
      <3>2. Written(i) <=> i[2] < n \/ i[2] = n
        BY <1>1, <2>1, <3>1 DEF Written
      <3>3. pc'[t] # "publish" /\ next'[t] = n + 1
        BY <1>1, <3>1
      <3>4. Written(i)' <=> i[2] < n + 1
        BY <2>1, <3>3 DEF Written
      <3> QED
        BY <1>2, <3>2, <3>4
    <2>2. CASE i[1] # t
      BY <1>1, <1>2, <2>2 DEF Written
    <2> QED
      BY <2>1, <2>2
  <1>4. \A s \in Slots : Full(s)' <=> Full(s)
    BY <1>1 DEF Full, Odd
  <1>5. Numbers'
    <2>1. ASSUME NEW u \in Producers
          PROVE  next'[u] \in 1 .. Quota + 1 /\ (pc'[u] = "done" <=> next'[u] = Quota + 1)
      <3>1. next[u] \in 1 .. Quota + 1 /\ (pc[u] = "done" <=> next[u] = Quota + 1)
        BY <1>s DEF Numbers
      <3>2. CASE u = t
        <4>1. PICK n \in 1 .. Quota : n = next[t]
          BY <1>1, <3>1, <3>2
        <4>2. CASE n < Quota
          BY <1>1, <3>2, <4>1, <4>2
        <4>3. CASE n = Quota
          BY <1>1, <3>2, <4>1, <4>3
        <4> QED
          BY <4>1, <4>2, <4>3
      <3>3. CASE u # t
        BY <1>1, <3>1, <3>3
      <3> QED
        BY <3>2, <3>3
    <2> QED
      BY <2>1 DEF Numbers
  <1>6. InSlots'
    <2>1. \A s \in Slots : Full(s)' =>
            \E i \in Items : i = element'[s].item /\ Written(i)' /\ popped'[i] = 0
      BY <1>s, <1>1, <1>3, <1>4 DEF InSlots
    <2>2. \A s, r \in Slots : Full(s)' /\ Full(r)' /\ s # r
            => element'[s].item # element'[r].item
      BY <1>s, <1>1, <1>4 DEF InSlots
    <2> QED
      BY <2>1, <2>2, InSlotsNext
  <1>7. OncePopped'
    BY <1>s, <1>1, <1>3, <1>4 DEF OncePopped
  <1> QED
    BY <1>5, <1>6, <1>7 DEF Elements

(* A pop takes the element of its slot, which nobody has taken.             *)
LEMMA ReadElements ==
  ASSUME IInv, NEW t \in Consumers, PopRead(t)
  PROVE  Elements'
  <1> USE Types
  <1>s. Numbers /\ InSlots /\ OncePopped
    BY DEF IInv, Elements
  <1>t. /\ pc \in [Threads -> {"push", "write", "publish", "pop", "read", "release", "check", "done"}]
        /\ popped \in [Items -> Nat]
    BY DEF IInv, TypeOK, PcType, ProgramType
  <1>1. PICK s \in Slots : s = Slot(position[t])
    OBVIOUS
  <1>2. PICK old : old = element[s].item
    OBVIOUS
  <1>3. /\ \A r \in Slots : element'[r] =
             IF r = s THEN [item |-> old, accesses |-> element[r].accesses + 1] ELSE element[r]
        /\ ~Odd(Latest(s)) /\ element[s].accesses = Latest(s) - 1
    BY <1>1, <1>2, ReadAccesses
  <1>e. /\ element'[s].item = old /\ element'[s].accesses = element[s].accesses + 1
        /\ \A r \in Slots : r # s => element'[r] = element[r]
    <2>1. element'[s] = [item |-> old, accesses |-> element[s].accesses + 1]
      BY <1>3
    <2>2. element'[s].item = old /\ element'[s].accesses = element[s].accesses + 1
      BY <2>1
    <2>3. \A r \in Slots : r # s => element'[r] = element[r]
      BY <1>3
    <2> QED
      BY <2>2, <2>3
  <1>4. Full(s) /\ ~Full(s)' /\ \A r \in Slots : r # s => (Full(r)' <=> Full(r))
    <2>1. PICK n \in Nat \ {0} : n = Latest(s) /\ n % 2 = 0
      BY <1>3 DEF Odd
    <2>2. element[s].accesses = n - 1 /\ element'[s].accesses = n
      BY <1>3, <1>e, <2>1
    <2>3. Full(s) /\ ~Full(s)'
      BY <2>1, <2>2 DEF Full, Odd
    <2>4. \A r \in Slots : r # s => (Full(r)' <=> Full(r))
      BY <1>e DEF Full, Odd
    <2> QED
      BY <2>3, <2>4
  <1>5. old \in Items /\ Written(old) /\ popped[old] = 0
    BY <1>s, <1>2, <1>4 DEF InSlots
  <1>6. /\ next' = next /\ popped' = [popped EXCEPT ![old] = @ + 1]
        /\ \A u \in Producers : pc'[u] = pc[u]
    BY <1>t, <1>1, <1>2 DEF PopRead, GoTo, Threads
  <1>7. popped'[old] = 1 /\ \A i \in Items : i # old => popped'[i] = popped[i]
    BY <1>t, <1>5, <1>6
  <1>8. \A i \in Items : Written(i)' <=> Written(i)
    <2>1. \A i \in Items : i[1] \in Producers
      BY DEF Items
    <2> QED
      BY <1>6, <2>1 DEF Written
  <1>9. Numbers'
    BY <1>s, <1>6 DEF Numbers
  <1>10. InSlots'
    <2>1. ASSUME NEW r \in Slots, Full(r)'
          PROVE  /\ Full(r) /\ element'[r] = element[r]
                 /\ \E i \in Items : i = element'[r].item /\ Written(i)' /\ popped'[i] = 0
      <3>1. r # s /\ Full(r) /\ element'[r] = element[r]
        BY <1>e, <1>4, <2>1
      <3>2. PICK i \in Items : i = element[r].item /\ Written(i) /\ popped[i] = 0
        BY <1>s, <3>1 DEF InSlots
      <3>3. i # old
        BY <1>s, <1>2, <1>4, <3>1, <3>2 DEF InSlots
      <3> QED
        BY <1>7, <1>8, <3>1, <3>2, <3>3
    <2>2. \A r, q \in Slots : Full(r)' /\ Full(q)' /\ r # q => element'[r].item # element'[q].item
      BY <1>s, <2>1 DEF InSlots
    <2> QED
      BY <2>1, <2>2, InSlotsNext
  <1>11. OncePopped'
    <2>1. ASSUME NEW i \in Items
          PROVE  /\ popped'[i] \in {0, 1}
                 /\ ~Written(i)' => popped'[i] = 0
                 /\ Written(i)' /\ popped'[i] = 0
                      => \E r \in Slots : Full(r)' /\ element'[r].item = i
      <3>1. CASE i = old
        BY <1>5, <1>7, <1>8, <3>1
      <3>2. CASE i # old
        <4>1. popped[i] \in {0, 1} /\ (~Written(i) => popped[i] = 0) /\ popped'[i] = popped[i]
          BY <1>s, <1>7, <3>2 DEF OncePopped
        <4>2. ASSUME Written(i), popped[i] = 0
              PROVE  \E r \in Slots : Full(r)' /\ element'[r].item = i
          <5>1. PICK r \in Slots : Full(r) /\ element[r].item = i
            BY <1>s, <4>2 DEF OncePopped
          <5>2. r # s
            BY <1>2, <3>2, <5>1
          <5> QED
            BY <1>3, <1>4, <5>1, <5>2
        <4> QED
          BY <1>8, <4>1, <4>2
      <3> QED
        BY <3>1, <3>2
    <2> QED
      BY <2>1 DEF OncePopped
  <1> QED
    BY <1>9, <1>10, <1>11 DEF Elements

(* Each step keeps what is said about where each element is.                *)
LEMMA ElementsStep ==
  ASSUME IInv, [Next]_vars
  PROVE  Elements'
  <1>t. pc \in [Threads -> {"push", "write", "publish", "pop", "read", "release", "check", "done"}]
    BY DEF IInv, TypeOK, PcType
  <1>1. CASE \E t \in Producers : PushWrite(t) \/ PushPublish(t)
    BY <1>1, WriteElements, PublishElements
  <1>2. CASE \E t \in Consumers : PopRead(t)
    BY <1>2, ReadElements
  <1>3. CASE Close \/ UNCHANGED vars
    BY <1>3, ElementsStay DEF Close, vars, queueVars, history
  <1>4. ASSUME NEW t \in Producers, PushClaim(t)
        PROVE  Elements'
    <2>1. UNCHANGED <<element, next, popped>> /\ pc[t] = "push" /\ GoTo(t, "write")
      BY <1>4 DEF PushClaim, Claim, history
    <2>2. \A u \in Producers : /\ pc'[u] = "publish" <=> pc[u] = "publish"
                               /\ pc'[u] = "done" <=> pc[u] = "done"
      BY <1>t, <2>1 DEF GoTo, Threads
    <2> QED
      BY <2>1, <2>2, ElementsStay
  <1>5. ASSUME NEW t \in Consumers,
               PopClaim(t) \/ PopEmpty(t) \/ PopRelease(t) \/ SeesClosed(t) \/ SeesOpen(t)
        PROVE  Elements'
    <2>1. UNCHANGED <<element, next, popped>> /\ \E label : GoTo(t, label)
      BY <1>5 DEF PopClaim, PopEmpty, PopRelease, SeesClosed, SeesOpen, Claim, queueVars, history
    <2>2. \A u \in Producers : pc'[u] = pc[u]
      BY <1>t, <2>1 DEF GoTo, Threads
    <2> QED
      BY <2>1, <2>2, ElementsStay
  <1> QED
    BY <1>1, <1>2, <1>3, <1>4, <1>5 DEF Next, Produce, Consume
-----------------------------------------------------------------------------
(* The inductive invariant: between claim and store a thread owns its slot  *)
(* and knows of all accesses to its element before; `closed' tells of all   *)
(* published positions; an element is popped once or still in a slot        *)
(* (bc_concurrency_queue_push, _pop, _close, _is_closed).                   *)
THEOREM Invariance == Spec => []IInv
  <1>1. IInv /\ [Next]_vars => IInv'
    BY TypeStep, SequencesStep, ClosingStep, ElementsStep DEF IInv
  <1> QED
    BY InitIInv, <1>1, PTL DEF Spec

(* The memory orders of bc_concurrency_queue_push and _pop are enough: with *)
(* relaxed positions and acquire and release on the sequence numbers alone, *)
(* no two accesses to an element race.                                      *)
THEOREM RaceFreedom == Spec => []NoRace
  <1>1. IInv => NoRace
    BY DEF IInv, Sequences, NoRace
  <1> QED
    BY Invariance, <1>1, PTL

(* bc_concurrency_queue_close after all producers have been joined: when    *)
(* the consumers have ended, each element has been popped, and none twice.  *)
THEOREM Delivery == Spec => []NothingMissed
  <1>1. IInv => NothingMissed
    <2> SUFFICES ASSUME IInv
                 PROVE  NothingMissed
      OBVIOUS
    <2> USE Types
    <2>1. \A i \in Items : popped[i] <= 1
      <3>1. \A i \in Items : popped[i] \in {0, 1}
        BY DEF IInv, Elements, OncePopped
      <3> QED
        BY <3>1
    <2>2. ASSUME \A c \in Consumers : pc[c] = "done", NEW i \in Items
          PROVE  popped[i] = 1
      <3>1. PICK c \in Consumers : pc[c] = "done"
        BY <2>2
      <3>2. closed.flag /\ enqueue_position <= dequeue_position
        BY <3>1 DEF IInv, Closing, EndedLast
      <3>3. \A t \in Producers : pc[t] = "done"
        BY <3>2 DEF IInv, Closing, ClosedTells
      <3>4. \A t \in Threads : ~Owns(t) /\ \A s \in Slots : ~Accessed(t, s)
        BY <2>2, <3>3 DEF Threads, Owns, Pushing, Popping, Accessed
      <3>5. Written(i)
        <4>1. i[1] \in Producers /\ i[2] \in 1 .. Quota
          BY DEF Items
        <4>2. next[i[1]] = Quota + 1
          BY <3>3, <4>1 DEF IInv, Elements, Numbers
        <4> QED
          BY <4>1, <4>2 DEF Written
      <3>6. \A s \in Slots : ~Full(s)
        <4> SUFFICES ASSUME NEW s \in Slots, Full(s)
                     PROVE  FALSE
          OBVIOUS
        <4>1. PICK n \in Nat \ {0} : n = Latest(s)
          OBVIOUS
        <4>2. element[s].accesses = n - 1
          BY <3>4, <4>1 DEF IInv, Sequences, Counted
        <4>3. ~Odd(n)
          BY <4>1, <4>2 DEF Full, Odd
        <4>4. Value(s, n) <= enqueue_position
          <5>1. n \in 1 .. Latest(s)
            BY <4>1
          <5> QED
            BY <4>3, <5>1 DEF IInv, Sequences, Passed
        <4>5. Value(s, n) <= dequeue_position
          <5>1. Value(s, n) \in Nat
            BY ValueType
          <5> QED
            BY <3>2, <4>4, <5>1
        <4> QED
          BY <3>4, <4>1, <4>3, <4>5 DEF IInv, Sequences, Taken, Owns
      <3> QED
        BY <3>5, <3>6 DEF IInv, Elements, OncePopped
    <2> QED
      BY <2>1, <2>2 DEF NothingMissed
  <1> QED
    BY Invariance, <1>1, PTL
=============================================================================
