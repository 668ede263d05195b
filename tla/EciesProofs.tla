----------------------------- MODULE EciesProofs -----------------------------
(***************************************************************************)
(* Theorems about keys.cpp and ecies.cpp, for all lengths of the data.     *)
(***************************************************************************)
EXTENDS EciesInv, SequenceTheorems, TLAPS

-----------------------------------------------------------------------------
(* Lists of steps. *)

\* Before the first step, and from one step to the next.
LEMMA HeldFirst ==
  ASSUME NEW steps, NEW before \in SUBSET Locals
  PROVE  Held(steps, before, 1) = before
  BY DEF Held

LEMMA HeldNext ==
  ASSUME NEW steps, NEW before, NEW i \in Nat \ {0}
  PROVE  Held(steps, before, i + 1)
           = (Held(steps, before, i) \cup (steps[i].gives \cap Locals)) \ steps[i].frees
<1>1. /\ \A k : k \in 1..(i + 1) - 1 <=> k \in 1..i - 1 \/ k = i
      /\ \A j \in 1..i - 1 : \A k : k \in j..(i + 1) - 1 <=> k \in j..i - 1 \/ k = i
      /\ \A k : k \in i..(i + 1) - 1 <=> k = i
  OBVIOUS
<1>2. ASSUME NEW o \in Held(steps, before, i + 1)
      PROVE  o \in (Held(steps, before, i) \cup (steps[i].gives \cap Locals)) \ steps[i].frees
  <2>1. o \in Locals /\ o \notin steps[i].frees
    BY <1>1, <1>2 DEF Held
  <2> QED
    BY <1>1, <1>2, <2>1 DEF Held
<1>3. ASSUME NEW o \in (Held(steps, before, i) \cup (steps[i].gives \cap Locals)) \ steps[i].frees
      PROVE  o \in Held(steps, before, i + 1)
  BY <1>1, <1>3 DEF Held
<1> QED
  BY <1>2, <1>3

\* What is held depends on the steps before only.
LEMMA HeldPrefix ==
  ASSUME NEW s, NEW t, NEW before, NEW n \in Nat, \A i \in 1..n : s[i] = t[i],
         NEW i \in 1..n + 1
  PROVE  Held(s, before, i) = Held(t, before, i)
<1>1. \A k \in 1..i - 1 : s[k] = t[k]
  OBVIOUS
<1>2. \A j \in 1..i - 1 : \A k \in j..i - 1 : s[k] = t[k]
  OBVIOUS
<1> QED
  BY <1>1, <1>2 DEF Held

LEMMA Intervals ==
  ASSUME NEW n \in Nat, NEW i \in Nat \ {0}
  PROVE  /\ \A k : k \in 1..(n + i) - 1 <=> k \in 1..(n + 1) - 1 \/ \E l \in 1..i - 1 : k = n + l
         /\ \A j \in 1..(n + 1) - 1 : \A k : k \in j..(n + i) - 1 <=>
              k \in j..(n + 1) - 1 \/ \E l \in 1..i - 1 : k = n + l
         /\ \A j \in 1..i - 1 : \A k : k \in (n + j)..(n + i) - 1 <=>
              \E l \in j..i - 1 : k = n + l
<1>1. \A k : k \in 1..(n + i) - 1 => k \in 1..(n + 1) - 1 \/ \E l \in 1..i - 1 : k = n + l
  <2>1. ASSUME NEW k \in 1..(n + i) - 1, k \notin 1..(n + 1) - 1 PROVE \E l \in 1..i - 1 : k = n + l
    <3>1. k - n \in 1..i - 1 /\ k = n + (k - n)
      BY <2>1
    <3> QED
      BY <3>1
  <2> QED
    BY <2>1
<1>2. \A k : k \in 1..(n + i) - 1 <=> k \in 1..(n + 1) - 1 \/ \E l \in 1..i - 1 : k = n + l
  BY <1>1
<1>3. \A j \in 1..(n + 1) - 1 : \A k : k \in j..(n + i) - 1 <=>
         k \in j..(n + 1) - 1 \/ \E l \in 1..i - 1 : k = n + l
  BY <1>1
<1>4. ASSUME NEW j \in 1..i - 1, NEW k \in (n + j)..(n + i) - 1 PROVE \E l \in j..i - 1 : k = n + l
  <2>1. k - n \in j..i - 1 /\ k = n + (k - n)
    BY <1>4
  <2> QED
    BY <2>1
<1>5. \A j \in 1..i - 1 : \A k : k \in (n + j)..(n + i) - 1 <=>
        \E l \in j..i - 1 : k = n + l
  BY <1>4
<1> QED
  BY <1>2, <1>3, <1>5

\* Steps from n + 1 on start with what is held there.
Continues(s, n, t) == n \in Nat /\ Len(t) \in Nat /\ \A i \in 1..Len(t) : s[n + i] = t[i]
Shifted(s, n, t, before, i) == Held(s, before, n + i) = Held(t, Held(s, before, n + 1), i)

LEMMA HeldShift ==
  ASSUME NEW s, NEW t, NEW before, NEW n, Continues(s, n, t), NEW i \in 1..Len(t) + 1
  PROVE  Shifted(s, n, t, before, i)
<1> SUFFICES Held(s, before, n + i) = Held(t, Held(s, before, n + 1), i)
  BY DEF Shifted
<1>0. n \in Nat /\ i \in Nat \ {0} /\ \A k \in 1..i - 1 : s[n + k] = t[k]
  BY DEF Continues
<1>1. /\ \A k \in 1..i - 1 : s[n + k] = t[k]
      /\ \A k : k \in 1..(n + i) - 1 <=> k \in 1..(n + 1) - 1 \/ \E l \in 1..i - 1 : k = n + l
      /\ \A j \in 1..(n + 1) - 1 : \A k : k \in j..(n + i) - 1 <=>
           k \in j..(n + 1) - 1 \/ \E l \in 1..i - 1 : k = n + l
      /\ \A j \in 1..i - 1 : \A k : k \in (n + j)..(n + i) - 1 <=>
           \E l \in j..i - 1 : k = n + l
  BY <1>0, Intervals
<1> DEFINE middle == Held(s, before, n + 1)
<1>2. ASSUME NEW o \in Held(s, before, n + i) PROVE o \in Held(t, middle, i)
  <2>1. CASE o \in before /\ \A k \in 1..(n + i) - 1 : o \notin s[k].frees
    <3>1. o \in middle
      BY <1>1, <2>1 DEF Held
    <3>2. \A l \in 1..i - 1 : o \notin t[l].frees
      BY <1>1, <2>1
    <3> QED
      BY <3>1, <3>2, <1>2 DEF Held
  <2>2. ASSUME NEW j \in 1..(n + i) - 1, o \in s[j].gives,
               \A k \in j..(n + i) - 1 : o \notin s[k].frees
        PROVE  o \in Held(t, middle, i)
    <3>1. CASE j \in 1..(n + 1) - 1
      <4>1. o \in middle
        BY <1>1, <1>2, <2>2, <3>1 DEF Held
      <4>2. \A l \in 1..i - 1 : o \notin t[l].frees
        BY <1>1, <2>2, <3>1
      <4> QED
        BY <4>1, <4>2, <1>2 DEF Held
    <3>2. ASSUME NEW l \in 1..i - 1, j = n + l PROVE o \in Held(t, middle, i)
      <4>1. o \in t[l].gives
        BY <1>1, <2>2, <3>2
      <4>2. ASSUME NEW k \in l..i - 1 PROVE o \notin t[k].frees
        <5>1. k \in 1..i - 1 /\ n + k \in (n + l)..(n + i) - 1
          BY <1>0
        <5> QED
          BY <5>1, <1>1, <2>2, <3>2
      <4> QED
        BY <4>1, <4>2, <1>2 DEF Held
    <3> QED
      BY <1>1, <2>2, <3>1, <3>2
  <2> QED
    BY <1>2, <2>1, <2>2 DEF Held
<1>3. ASSUME NEW o \in Held(t, middle, i) PROVE o \in Held(s, before, n + i)
  <2>0. o \in Locals
    BY <1>3 DEF Held
  <2>1. CASE o \in middle /\ \A l \in 1..i - 1 : o \notin t[l].frees
    <3>1. CASE o \in before /\ \A k \in 1..(n + 1) - 1 : o \notin s[k].frees
      <4>1. \A k \in 1..(n + i) - 1 : o \notin s[k].frees
        BY <1>1, <2>1, <3>1
      <4> QED
        BY <2>0, <3>1, <4>1 DEF Held
    <3>2. ASSUME NEW j \in 1..(n + 1) - 1, o \in s[j].gives,
                 \A k \in j..(n + 1) - 1 : o \notin s[k].frees
          PROVE  o \in Held(s, before, n + i)
      <4>1. \A k \in j..(n + i) - 1 : o \notin s[k].frees
        BY <1>1, <2>1, <3>2
      <4>2. j \in 1..(n + i) - 1
        BY <1>1
      <4> QED
        BY <2>0, <3>2, <4>1, <4>2 DEF Held
    <3> QED
      BY <2>1, <3>1, <3>2 DEF Held
  <2>2. ASSUME NEW l \in 1..i - 1, o \in t[l].gives, \A k \in l..i - 1 : o \notin t[k].frees
        PROVE  o \in Held(s, before, n + i)
    <3>1. n + l \in 1..(n + i) - 1 /\ o \in s[n + l].gives
      BY <1>1, <2>2
    <3>2. \A k \in (n + l)..(n + i) - 1 : o \notin s[k].frees
      BY <1>1, <2>2
    <3> QED
      BY <2>0, <3>1, <3>2 DEF Held
  <2> QED
    BY <1>3, <2>1, <2>2 DEF Held
<1> QED
  BY <1>2, <1>3

LEMMA SoundConcat ==
  ASSUME NEW fn, NEW s \in Seq(Steps), NEW t \in Seq(Steps),
         NEW a \in SUBSET Locals, NEW b, NEW c,
         Sound(fn, s, a, b), Sound(fn, t, b, c)
  PROVE  s \o t \in Seq(Steps) /\ Sound(fn, s \o t, a, c)
<1> DEFINE n == Len(s)
<1> DEFINE m == Len(t)
<1>1. /\ s \o t \in Seq(Steps) /\ Len(s \o t) = n + m /\ n \in Nat /\ m \in Nat
      /\ \A i \in 1..n : (s \o t)[i] = s[i]
      /\ \A i \in 1..m : (s \o t)[n + i] = t[i]
  <2>1. /\ s \o t \in Seq(Steps) /\ Len(s \o t) = n + m /\ n \in Nat /\ m \in Nat
        /\ \A i \in 1..n + m : (s \o t)[i] = IF i <= n THEN s[i] ELSE t[i - n]
    BY ConcatProperties
  <2> QED
    BY <2>1
<1> HIDE DEF n, m
<1>2. ASSUME NEW i \in 1..n + 1 PROVE Held(s \o t, a, i) = Held(s, a, i)
  <2>1. n \in Nat /\ \A j \in 1..n : (s \o t)[j] = s[j]
    BY <1>1
  <2> QED
    BY <2>1, HeldPrefix, Zenon
<1>3. b = Held(s \o t, a, n + 1)
  <2>1. n + 1 \in 1..n + 1
    BY <1>1
  <2> QED
    BY <2>1, <1>2 DEF Sound, n
<1>4. ASSUME NEW i \in 1..m + 1 PROVE Held(s \o t, a, n + i) = Held(t, b, i)
  <2>1. Continues(s \o t, n, t) /\ i \in 1..Len(t) + 1
    BY <1>1 DEF Continues, m
  <2>2. Held(s \o t, a, n + i) = Held(t, Held(s \o t, a, n + 1), i)
    BY <2>1, HeldShift DEF Shifted
  <2> QED
    BY <2>2, <1>3
<1>5. ASSUME NEW i \in 1..Len(s \o t) PROVE StepOK(fn, (s \o t)[i], Held(s \o t, a, i))
  <2>1. CASE i <= n
    <3>1. i \in 1..n /\ i \in 1..n + 1
      BY <1>1, <2>1
    <3> QED
      BY <3>1, <1>1, <1>2 DEF Sound, n
  <2>2. CASE i > n
    <3>1. i - n \in 1..m /\ i - n \in 1..m + 1 /\ i = n + (i - n)
      BY <1>1, <2>2
    <3>2. StepOK(fn, t[i - n], Held(t, b, i - n))
      BY <3>1 DEF Sound, m
    <3>3. (s \o t)[i] = t[i - n] /\ Held(s \o t, a, i) = Held(t, b, i - n)
      BY <3>1, <1>1, <1>4
    <3> QED
      BY <3>2, <3>3
  <2> QED
    BY <1>1, <2>1, <2>2
<1>6. c = Held(s \o t, a, Len(s \o t) + 1)
  <2>1. c = Held(t, b, m + 1)
    BY DEF Sound, m
  <2>2. Len(s \o t) + 1 = n + (m + 1) /\ m + 1 \in 1..m + 1
    BY <1>1
  <2> QED
    BY <2>1, <2>2, <1>4
<1> QED
  BY <1>1, <1>5, <1>6 DEF Sound

\* A list of up to nine steps is right if it is right with what is held in front
\* of each of them, which is given by a list of its own.
RightAt(fn, s, h, i) ==
  StepOK(fn, s[i], h[i]) /\ h[i + 1] = (h[i] \cup s[i].gives) \ s[i].frees
Right(fn, s, h) == Len(s) \in 0..9 /\ \A i \in 1..Len(s) : RightAt(fn, s, h, i)

LEMMA SoundSteps ==
  ASSUME NEW fn, NEW s \in Seq(Steps), NEW h, h[1] \in SUBSET Locals, Right(fn, s, h)
  PROVE  Sound(fn, s, h[1], h[Len(s) + 1])
<1> DEFINE n == Len(s)
<1> DEFINE a == h[1]
<1>1. n \in 0..9
  BY DEF Right
<1>2. ASSUME NEW i \in 1..n, Held(s, a, i) = h[i] PROVE Held(s, a, i + 1) = h[i + 1]
  <2>1. s[i].gives \subseteq Locals /\ h[i + 1] = (h[i] \cup s[i].gives) \ s[i].frees
    BY DEF StepOK, Right, RightAt
  <2>2. Held(s, a, i + 1) = (Held(s, a, i) \cup (s[i].gives \cap Locals)) \ s[i].frees
    <3>1. i \in Nat \ {0}
      BY <1>1
    <3> QED
      BY <3>1, HeldNext, Zenon
  <2> QED
    BY <1>2, <2>1, <2>2
<1>3. Held(s, a, 1) = h[1]
  BY HeldFirst
<1> HIDE DEF n, a
<1>4. \A i \in 1..n + 1 : Held(s, a, i) = h[i]
  <2>1. 1 <= n => Held(s, a, 2) = h[2]
    BY <1>1, <1>2, <1>3
  <2>2. 2 <= n => Held(s, a, 3) = h[3]
    BY <1>1, <1>2, <2>1
  <2>3. 3 <= n => Held(s, a, 4) = h[4]
    BY <1>1, <1>2, <2>2
  <2>4. 4 <= n => Held(s, a, 5) = h[5]
    BY <1>1, <1>2, <2>3
  <2>5. 5 <= n => Held(s, a, 6) = h[6]
    BY <1>1, <1>2, <2>4
  <2>6. 6 <= n => Held(s, a, 7) = h[7]
    BY <1>1, <1>2, <2>5
  <2>7. 7 <= n => Held(s, a, 8) = h[8]
    BY <1>1, <1>2, <2>6
  <2>8. 8 <= n => Held(s, a, 9) = h[9]
    BY <1>1, <1>2, <2>7
  <2>9. 9 <= n => Held(s, a, 10) = h[10]
    BY <1>1, <1>2, <2>8
  <2> QED
    BY <1>1, <1>3, <2>1, <2>2, <2>3, <2>4, <2>5, <2>6, <2>7, <2>8, <2>9
<1>5. \A i \in 1..n : StepOK(fn, s[i], Held(s, a, i))
  BY <1>1, <1>4 DEF n, Right, RightAt
<1>6. h[n + 1] = Held(s, a, n + 1)
  BY <1>1, <1>4
<1> QED
  BY <1>5, <1>6 DEF Sound, n, a

\* When the first step has succeeded the others are right.
LEMMA SoundTail ==
  ASSUME NEW fn, NEW s \in Seq(Steps), s # <<>>, NEW a \in SUBSET Locals, NEW c, Sound(fn, s, a, c)
  PROVE  /\ StepOK(fn, Head(s), a)
         /\ Sound(fn, Tail(s), (a \cup Head(s).gives) \ Head(s).frees, c)
<1>1. /\ Head(s) = s[1] /\ Tail(s) \in Seq(Steps) /\ Len(s) \in Nat \ {0}
      /\ Len(s) = Len(Tail(s)) + 1 /\ Len(Tail(s)) \in Nat
      /\ \A i \in 1..Len(Tail(s)) : s[1 + i] = Tail(s)[i]
  OBVIOUS
<1> DEFINE m == Len(Tail(s))
<1> DEFINE b == Held(s, a, 2)
<1>2. StepOK(fn, s[1], a)
  BY <1>1, HeldFirst DEF Sound
<1>3. b = (a \cup s[1].gives) \ s[1].frees
  <2>1. s[1].gives \subseteq Locals
    BY <1>2 DEF StepOK
  <2>2. Held(s, a, 1 + 1) = (Held(s, a, 1) \cup (s[1].gives \cap Locals)) \ s[1].frees
    <3>1. 1 \in Nat \ {0}
      OBVIOUS
    <3> QED
      BY <3>1, HeldNext, Zenon
  <2>3. b = Held(s, a, 1 + 1)
    OBVIOUS
  <2> QED
    BY <2>1, <2>2, <2>3, HeldFirst
<1>4. ASSUME NEW i \in 1..m + 1 PROVE Held(s, a, 1 + i) = Held(Tail(s), b, i)
  <2>1. b = Held(s, a, 1 + 1)
    OBVIOUS
  <2>2. Continues(s, 1, Tail(s)) /\ i \in 1..Len(Tail(s)) + 1
    BY <1>1 DEF Continues
  <2> HIDE DEF b, m
  <2>3. Shifted(s, 1, Tail(s), a, i)
    BY <2>2, HeldShift, Zenon
  <2> QED
    BY <2>1, <2>3 DEF Shifted
<1>5. ASSUME NEW i \in 1..m PROVE StepOK(fn, Tail(s)[i], Held(Tail(s), b, i))
  <2>1. 1 + i \in 1..Len(s) /\ i \in 1..m + 1
    BY <1>1
  <2>2. StepOK(fn, s[1 + i], Held(s, a, 1 + i))
    BY <2>1 DEF Sound
  <2> QED
    BY <1>1, <1>4, <2>1, <2>2
<1>6. c = Held(Tail(s), b, m + 1)
  <2>1. Len(s) + 1 = 1 + (m + 1) /\ m + 1 \in 1..m + 1
    BY <1>1
  <2> QED
    BY <2>1, <1>4 DEF Sound
<1> QED
  BY <1>1, <1>2, <1>3, <1>5, <1>6 DEF Sound

-----------------------------------------------------------------------------
(* The functions of keys.cpp and ecies.cpp. *)

LEMMA ObjectNames ==
  /\ {"ecKey", "publicKey1", "privateKey1", "publicKey2", "privateKey2", "eliptic",
      "publicKey", "privateKey", "cipherText", "data"} = Pointers
  /\ Locals \subseteq Objects /\ Pointers \subseteq Objects
  /\ Locals \cap Pointers = {}
<1>1. /\ Len(Startup) = 7
      /\ Startup[1].to = "ecKey" /\ Startup[2].to = "eliptic"
      /\ Startup[3].to = "publicKey1" /\ Startup[4].to = "privateKey1"
      /\ Startup[5].to = "eliptic"
      /\ Startup[6].to = "publicKey2" /\ Startup[7].to = "privateKey2"
  BY DEF Startup, Unit
<1>2. {Startup[i].to : i \in 1..Len(Startup)}
        = {"ecKey", "eliptic", "publicKey1", "privateKey1", "publicKey2", "privateKey2"}
  BY <1>1
<1>3. {c.to : c \in PerFrame} = {"publicKey", "privateKey", "cipherText", "data"}
  BY DEF PerFrame
<1>4. Pointers = {"ecKey", "publicKey1", "privateKey1", "publicKey2", "privateKey2", "eliptic",
                   "publicKey", "privateKey", "cipherText", "data"}
  <2>1. Pointers = {"ecKey", "eliptic", "publicKey1", "privateKey1", "publicKey2", "privateKey2"}
                   \cup {"publicKey", "privateKey", "cipherText", "data"}
    BY <1>2, <1>3 DEF Pointers
  <2> QED
    BY <2>1
<1>5. Locals \cap Pointers = {}
  BY <1>4 DEF Locals
<1> QED
  BY <1>4, <1>5 DEF Objects

LEMMA StepType ==
  ASSUME NEW call \in Names, NEW uses, NEW gives, NEW undo, NEW frees,
         uses \cup gives \cup undo \cup frees \subseteq Objects
  PROVE  /\ Step(call, uses, gives, undo, frees) \in Steps
         /\ Unchecked(Step(call, uses, gives, undo, frees)) \in Steps
<1>1. /\ uses \in SUBSET Objects /\ gives \in SUBSET Objects
      /\ undo \in SUBSET Objects /\ frees \in SUBSET Objects
  OBVIOUS
<1>2. Step(call, uses, gives, undo, frees) \in Steps
  BY <1>1, SMT DEF Step, Steps
<1>3. Unchecked(Step(call, uses, gives, undo, frees)) \in Steps
  <2>1. Unchecked(Step(call, uses, gives, undo, frees))
          = [call |-> call, uses |-> uses, gives |-> gives, undo |-> undo, frees |-> frees,
             otherwise |-> "crash", writes |-> 0]
    BY DEF Unchecked, Step
  <2> QED
    BY <1>1, <2>1, SMT DEF Steps
<1> QED
  BY <1>2, <1>3

LEMMA StepWrites ==
  ASSUME NEW call \in Names, NEW uses, NEW gives, NEW undo, NEW frees, NEW n \in Nat,
         uses \cup gives \cup undo \cup frees \subseteq Objects
  PROVE  [Step(call, uses, gives, undo, frees) EXCEPT !.writes = n] \in Steps
<1>1. [Step(call, uses, gives, undo, frees) EXCEPT !.writes = n]
        = [call |-> call, uses |-> uses, gives |-> gives, undo |-> undo, frees |-> frees,
           otherwise |-> "return", writes |-> n]
  BY DEF Step
<1>2. /\ uses \in SUBSET Objects /\ gives \in SUBSET Objects
      /\ undo \in SUBSET Objects /\ frees \in SUBSET Objects
  OBVIOUS
<1>3. [call |-> call, uses |-> uses, gives |-> gives, undo |-> undo, frees |-> frees,
       otherwise |-> "return", writes |-> n] \in Steps
  BY <1>2, SMT DEF Steps
<1> QED
  BY <1>1, <1>3, Zenon

\* Steps that write nothing and are all looked at, before the envelope is made.
Quiet(s) ==
  \A i \in 1..Len(s) :
    s[i].writes = 0 /\ s[i].otherwise = "return" /\ {"cryptex", "hmac"} \cap s[i].gives = {}

LEMMA QuietConcat ==
  ASSUME NEW s \in Seq(Steps), NEW t \in Seq(Steps)
  PROVE  /\ Quiet(s) /\ Quiet(t) => Quiet(s \o t)
         /\ Reading(s) /\ Reading(t) => Reading(s \o t)
         /\ Quiet(s) => Reading(s)
<1>1. /\ Len(s) \in Nat /\ Len(t) \in Nat /\ Len(s \o t) = Len(s) + Len(t)
      /\ \A i \in 1..Len(s) + Len(t) : (s \o t)[i] = IF i <= Len(s) THEN s[i] ELSE t[i - Len(s)]
  BY ConcatProperties
<1>2. \A i \in 1..Len(s \o t) : \/ \E j \in 1..Len(s) : (s \o t)[i] = s[j]
                                \/ \E j \in 1..Len(t) : (s \o t)[i] = t[j]
  <2>1. ASSUME NEW i \in 1..Len(s \o t), i > Len(s) PROVE i - Len(s) \in 1..Len(t)
    BY <1>1, <2>1
  <2> QED
    BY <1>1, <2>1
<1>3. ASSUME Quiet(s), Quiet(t) PROVE Quiet(s \o t)
  BY <1>2, <1>3 DEF Quiet
<1>4. ASSUME Reading(s), Reading(t) PROVE Reading(s \o t)
  BY <1>2, <1>4 DEF Reading
<1>5. ASSUME Quiet(s) PROVE Reading(s)
  BY <1>5 DEF Quiet, Reading
<1> QED
  BY <1>3, <1>4, <1>5

\* Steps in front of others, and steps that come long before the writing.
LEMMA WritingConcat ==
  ASSUME NEW s \in Seq(Steps), NEW t \in Seq(Steps), NEW n \in Nat, NEW length,
         Writing(s, Len(t) + n, length), Writing(t, n, length)
  PROVE  Writing(s \o t, n, length)
<1>1. /\ Len(s) \in Nat /\ Len(t) \in Nat /\ Len(s \o t) = Len(s) + Len(t)
      /\ \A i \in 1..Len(s) + Len(t) : (s \o t)[i] = IF i <= Len(s) THEN s[i] ELSE t[i - Len(s)]
  BY ConcatProperties
<1> SUFFICES ASSUME NEW i \in 1..Len(s \o t)
             PROVE  LET after == Len(s \o t) - i + n
                    IN  /\ WrittenBefore(after, length)
                             = WrittenBefore(after + 1, length) + (s \o t)[i].writes
                        /\ (s \o t)[i].otherwise = "crash" => after > 2
                        /\ "hmac" \in (s \o t)[i].gives => after <= 2
  BY DEF Writing
<1>2. CASE i <= Len(s)
  <2>1. i \in 1..Len(s) /\ (s \o t)[i] = s[i] /\ Len(s \o t) - i + n = Len(s) - i + (Len(t) + n)
    BY <1>1, <1>2
  <2> QED
    BY <2>1 DEF Writing
<1>3. CASE i > Len(s)
  <2>1. /\ i - Len(s) \in 1..Len(t) /\ (s \o t)[i] = t[i - Len(s)]
        /\ Len(s \o t) - i + n = Len(t) - (i - Len(s)) + n
    BY <1>1, <1>3
  <2> QED
    BY <2>1 DEF Writing
<1> QED
  BY <1>1, <1>2, <1>3

LEMMA QuietWriting ==
  ASSUME NEW s \in Seq(Steps), Quiet(s), NEW n \in Nat, n >= 6, NEW length \in Nat
  PROVE  Writing(s, n, length)
<1>1. ASSUME NEW i \in 1..Len(s)
      PROVE  LET after == Len(s) - i + n
             IN  WrittenBefore(after, length) = 0 /\ WrittenBefore(after + 1, length) = 0
  BY <1>1 DEF WrittenBefore
<1>2. ASSUME NEW i \in 1..Len(s)
      PROVE  s[i].writes = 0 /\ s[i].otherwise = "return" /\ "hmac" \notin s[i].gives
  BY <1>2 DEF Quiet
<1> QED
  BY <1>1, <1>2 DEF Writing

\* The pieces of ecies_key_create and of ecies_key_create_public_octets.
KeyNew(key, held) ==
  <<Step("EC_KEY_new", {}, {key}, held, {})>>

LEMMA KeyNewSound ==
  ASSUME NEW fn, NEW key \in {"key", "ephemeral"}, NEW held \in {{}, {"user"}}
  PROVE  /\ KeyNew(key, held) \in Seq(Steps) /\ Quiet(KeyNew(key, held))
         /\ Sound(fn, KeyNew(key, held), held, held \cup {key})
<1> DEFINE s == KeyNew(key, held)
<1> DEFINE h == <<held, held \cup {key}>>
<1>1. s \in Seq(Steps) /\ Len(s) = 1 /\ Quiet(s)
  <2>1. {key} \cup held \subseteq Objects
    BY ObjectNames DEF Locals
  <2>2. /\ Step("EC_KEY_new", {}, {key}, held, {}) \in Steps
    BY <2>1, StepType, SMT DEF Names
  <2>3. s \in Seq(Steps) /\ Len(s) = 1
    BY <2>2 DEF KeyNew
  <2>4. Quiet(s)
    BY <2>3 DEF Quiet, Step, KeyNew
  <2> QED
    BY <2>3, <2>4
<1>2. RightAt(fn, s, h, 1)
  BY DEF RightAt, StepOK, Step, Locals, Forgotten, KeyNew
<1> HIDE DEF s
<1>3. h[1] \in SUBSET Locals /\ h[1] = held /\ h[Len(s) + 1] = held \cup {key}
  BY <1>1 DEF Locals
<1> HIDE DEF h
<1>4. Right(fn, s, h)
  BY <1>1, <1>2 DEF Right
<1>5. Sound(fn, s, h[1], h[Len(s) + 1])
  BY <1>1, <1>3, <1>4, SoundSteps, Zenon
<1> QED
  BY <1>1, <1>3, <1>5 DEF s

\* A copy of the global group, if there is one.
LEMMA GroupOfGlobal ==
  ASSUME NEW fn, NEW key \in {"key", "ephemeral"}, NEW held \in {{}, {"user"}}, eliptic
  PROVE  /\ EciesGroup(held \cup {key}) \in Seq(Steps) /\ Quiet(EciesGroup(held \cup {key}))
         /\ Sound(fn, EciesGroup(held \cup {key}), held \cup {key}, held \cup {key, "group"})
<1> DEFINE s == EciesGroup(held \cup {key})
<1> DEFINE h == <<held \cup {key}, held \cup {key, "group"}>>
<1>1. s \in Seq(Steps) /\ Len(s) = 1 /\ Quiet(s)
  <2>1. {"eliptic", "group", key} \cup held \subseteq Objects
    BY ObjectNames DEF Locals
  <2>2. /\ Step("EC_GROUP_dup", {"eliptic"}, {"group"}, held \cup {key}, {}) \in Steps
    BY <2>1, StepType, SMT DEF Names
  <2>3. s \in Seq(Steps) /\ Len(s) = 1
    BY <2>2 DEF EciesGroup
  <2>4. Quiet(s)
    BY <2>3 DEF Quiet, Step, EciesGroup
  <2> QED
    BY <2>3, <2>4
<1>2. RightAt(fn, s, h, 1)
  BY DEF RightAt, StepOK, Step, Locals, Forgotten, EciesGroup
<1> HIDE DEF s
<1>3. h[1] \in SUBSET Locals /\ h[1] = held \cup {key} /\ h[Len(s) + 1] = held \cup {key, "group"}
  BY <1>1 DEF Locals
<1> HIDE DEF h
<1>4. Right(fn, s, h)
  BY <1>1, <1>2 DEF Right
<1>5. Sound(fn, s, h[1], h[Len(s) + 1])
  BY <1>1, <1>3, <1>4, SoundSteps, Zenon
<1> QED
  BY <1>1, <1>3, <1>5 DEF s

\* If there is none, the group that is copied is left behind.
LEMMA GroupOfItsOwn ==
  ASSUME NEW fn, NEW key \in {"key", "ephemeral"}, NEW held \in {{}, {"user"}}, ~eliptic, fn = "ecies_key_create", held = {}
  PROVE  /\ EciesGroup(held \cup {key}) \in Seq(Steps) /\ Quiet(EciesGroup(held \cup {key}))
         /\ Sound(fn, EciesGroup(held \cup {key}), held \cup {key}, held \cup {key, "group"} \cup {"original"})
<1> DEFINE s == EciesGroup(held \cup {key})
<1> DEFINE h == <<held \cup {key}, held \cup {key, "original"},
                  held \cup {key, "original"},
                  held \cup {key, "group"} \cup {"original"}>>
<1>1. s \in Seq(Steps) /\ Len(s) = 3 /\ Quiet(s)
  <2>1. {"original", key, "group"} \cup held \subseteq Objects
    BY ObjectNames DEF Locals
  <2>2. /\ Step("EC_GROUP_new_by_curve_name", {}, {"original"}, held \cup {key},
               {}) \in Steps
        /\ Step("EC_GROUP_precompute_mult", {"original"}, {},
               (held \cup {key}) \cup {"original"}, {}) \in Steps
        /\ Step("EC_GROUP_dup", {"original"}, {"group"}, held \cup {key}, {}) \in Steps
    BY <2>1, StepType, SMT DEF Names
  <2>3. s \in Seq(Steps) /\ Len(s) = 3
    BY <2>2 DEF EciesGroup
  <2>4. Quiet(s)
    BY <2>3 DEF Quiet, Step, EciesGroup
  <2> QED
    BY <2>3, <2>4
<1>2. RightAt(fn, s, h, 1)
  BY DEF RightAt, StepOK, Step, Locals, Forgotten, EciesGroup
<1>3. RightAt(fn, s, h, 2)
  BY DEF RightAt, StepOK, Step, Locals, Forgotten, EciesGroup
<1>4. RightAt(fn, s, h, 3)
  BY DEF RightAt, StepOK, Step, Locals, Forgotten, EciesGroup
<1> HIDE DEF s
<1>5. h[1] \in SUBSET Locals /\ h[1] = held \cup {key} /\ h[Len(s) + 1] = held \cup {key, "group"} \cup {"original"}
  BY <1>1 DEF Locals
<1> HIDE DEF h
<1>6. Right(fn, s, h)
  BY <1>1, <1>2, <1>3, <1>4 DEF Right
<1>7. Sound(fn, s, h[1], h[Len(s) + 1])
  BY <1>1, <1>5, <1>6, SoundSteps, Zenon
<1> QED
  BY <1>1, <1>5, <1>7 DEF s

KeyMake(key, held) ==
  <<Step("EC_KEY_set_group", {key, "group"}, {}, held \cup {key, "group"}, {"group"}),
    Step("EC_KEY_generate_key", {key}, {}, held \cup {key}, {})>>

LEMMA KeyMakeSound ==
  ASSUME NEW fn, NEW key \in {"key", "ephemeral"}, NEW held \in {{}, {"user"}},
         NEW left \in {{}, {"original"}}
  PROVE  /\ KeyMake(key, held) \in Seq(Steps) /\ Quiet(KeyMake(key, held))
         /\ Sound(fn, KeyMake(key, held), held \cup {key, "group"} \cup left, held \cup {key} \cup left)
<1> DEFINE s == KeyMake(key, held)
<1> DEFINE h == <<held \cup {key, "group"} \cup left, held \cup {key} \cup left,
                  held \cup {key} \cup left>>
<1>1. s \in Seq(Steps) /\ Len(s) = 2 /\ Quiet(s)
  <2>1. {key, "group"} \cup held \subseteq Objects
    BY ObjectNames DEF Locals
  <2>2. /\ Step("EC_KEY_set_group", {key, "group"}, {}, held \cup {key, "group"},
               {"group"}) \in Steps
        /\ Step("EC_KEY_generate_key", {key}, {}, held \cup {key}, {}) \in Steps
    BY <2>1, StepType, SMT DEF Names
  <2>3. s \in Seq(Steps) /\ Len(s) = 2
    BY <2>2 DEF KeyMake
  <2>4. Quiet(s)
    BY <2>3 DEF Quiet, Step, KeyMake
  <2> QED
    BY <2>3, <2>4
<1>2. RightAt(fn, s, h, 1)
  BY DEF RightAt, StepOK, Step, Locals, Forgotten, KeyMake
<1>3. RightAt(fn, s, h, 2)
  BY DEF RightAt, StepOK, Step, Locals, Forgotten, KeyMake
<1> HIDE DEF s
<1>4. h[1] \in SUBSET Locals /\ h[1] = held \cup {key, "group"} \cup left /\ h[Len(s) + 1] = held \cup {key} \cup left
  BY <1>1 DEF Locals
<1> HIDE DEF h
<1>5. Right(fn, s, h)
  BY <1>1, <1>2, <1>3 DEF Right
<1>6. Sound(fn, s, h[1], h[Len(s) + 1])
  BY <1>1, <1>4, <1>5, SoundSteps, Zenon
<1> QED
  BY <1>1, <1>4, <1>6 DEF s

KeyOctets(key, held) ==
  <<Step("EC_KEY_set_group", {key, "group"}, {}, held \cup {key, "group"}, {}),
    Step("EC_POINT_new", {"group"}, {"point"}, held \cup {key, "group"}, {}),
    Step("EC_POINT_oct2point", {"group", "point"}, {}, held \cup {key, "group"}, {}),
    Step("EC_KEY_set_public_key", {key, "point"}, {}, held \cup {key, "group", "point"},
          {"group", "point"}),
    Step("EC_KEY_check_key", {key}, {}, held \cup {key}, {})>>

LEMMA KeyOctetsSound ==
  ASSUME NEW fn, NEW key \in {"key", "ephemeral"}, NEW held \in {{}, {"user"}}
  PROVE  /\ KeyOctets(key, held) \in Seq(Steps) /\ Quiet(KeyOctets(key, held))
         /\ Sound(fn, KeyOctets(key, held), held \cup {key, "group"}, held \cup {key})
<1> DEFINE s == KeyOctets(key, held)
<1> DEFINE h == <<held \cup {key, "group"}, held \cup {key, "group"},
                  held \cup {key, "group", "point"}, held \cup {key, "group", "point"},
                  held \cup {key}, held \cup {key}>>
<1>1. s \in Seq(Steps) /\ Len(s) = 5 /\ Quiet(s)
  <2>1. {key, "group", "point"} \cup held \subseteq Objects
    BY ObjectNames DEF Locals
  <2>2. /\ Step("EC_KEY_set_group", {key, "group"}, {}, held \cup {key, "group"},
               {}) \in Steps
        /\ Step("EC_POINT_new", {"group"}, {"point"}, held \cup {key, "group"},
               {}) \in Steps
        /\ Step("EC_POINT_oct2point", {"group", "point"}, {},
               held \cup {key, "group"}, {}) \in Steps
        /\ Step("EC_KEY_set_public_key", {key, "point"}, {},
               held \cup {key, "group", "point"}, {"group", "point"}) \in Steps
        /\ Step("EC_KEY_check_key", {key}, {}, held \cup {key}, {}) \in Steps
    BY <2>1, StepType, SMT DEF Names
  <2>3. s \in Seq(Steps) /\ Len(s) = 5
    BY <2>2 DEF KeyOctets
  <2>4. Quiet(s)
    BY <2>3 DEF Quiet, Step, KeyOctets
  <2> QED
    BY <2>3, <2>4
<1>2. RightAt(fn, s, h, 1)
  BY DEF RightAt, StepOK, Step, Locals, Forgotten, KeyOctets
<1>3. RightAt(fn, s, h, 2)
  BY DEF RightAt, StepOK, Step, Locals, Forgotten, KeyOctets
<1>4. RightAt(fn, s, h, 3)
  BY DEF RightAt, StepOK, Step, Locals, Forgotten, KeyOctets
<1>5. RightAt(fn, s, h, 4)
  BY DEF RightAt, StepOK, Step, Locals, Forgotten, KeyOctets
<1>6. RightAt(fn, s, h, 5)
  BY DEF RightAt, StepOK, Step, Locals, Forgotten, KeyOctets
<1> HIDE DEF s
<1>7. h[1] \in SUBSET Locals /\ h[1] = held \cup {key, "group"} /\ h[Len(s) + 1] = held \cup {key}
  BY <1>1 DEF Locals
<1> HIDE DEF h
<1>8. Right(fn, s, h)
  BY <1>1, <1>2, <1>3, <1>4, <1>5, <1>6 DEF Right
<1>9. Sound(fn, s, h[1], h[Len(s) + 1])
  BY <1>1, <1>7, <1>8, SoundSteps, Zenon
<1> QED
  BY <1>1, <1>7, <1>9 DEF s

\* A key from a string.
LEMMA PublicHexSound ==
  ASSUME NEW fn
  PROVE  /\ EciesKeyCreatePublicHex("user", {}) \in Seq(Steps) /\ Quiet(EciesKeyCreatePublicHex("user", {}))
         /\ Sound(fn, EciesKeyCreatePublicHex("user", {}), {}, {"user"})
<1> DEFINE s == EciesKeyCreatePublicHex("user", {})
<1> DEFINE h == <<{}, {"user"}, {"user", "group"}, {"user", "group"},
                  {"user", "group", "point"}, {"user"}, {"user"}>>
<1>1. s \in Seq(Steps) /\ Len(s) = 6 /\ Quiet(s)
  <2>1. {"user", "group", "point"} \subseteq Objects
    BY ObjectNames DEF Locals
  <2>2. /\ Step("EC_KEY_new", {}, {"user"}, {}, {}) \in Steps
        /\ Step("EC_GROUP_new_by_curve_name", {}, {"group"}, {} \cup {"user"}, {}) \in Steps
        /\ Step("EC_KEY_set_group", {"user", "group"}, {}, {} \cup {"user", "group"},
               {}) \in Steps
        /\ Step("EC_POINT_hex2point", {"group"}, {"point"}, {} \cup {"user"}, {}) \in Steps
        /\ Step("EC_KEY_set_public_key", {"user", "point"}, {},
               {} \cup {"user", "group", "point"}, {"group", "point"}) \in Steps
        /\ Step("EC_KEY_check_key", {"user"}, {}, {} \cup {"user"}, {}) \in Steps
    BY <2>1, StepType, SMT DEF Names
  <2>3. s \in Seq(Steps) /\ Len(s) = 6
    BY <2>2 DEF EciesKeyCreatePublicHex
  <2>4. Quiet(s)
    BY <2>3 DEF Quiet, Step, EciesKeyCreatePublicHex
  <2> QED
    BY <2>3, <2>4
<1>2. RightAt(fn, s, h, 1)
  BY DEF RightAt, StepOK, Step, Locals, Forgotten, EciesKeyCreatePublicHex
<1>3. RightAt(fn, s, h, 2)
  BY DEF RightAt, StepOK, Step, Locals, Forgotten, EciesKeyCreatePublicHex
<1>4. RightAt(fn, s, h, 3)
  BY DEF RightAt, StepOK, Step, Locals, Forgotten, EciesKeyCreatePublicHex
<1>5. RightAt(fn, s, h, 4)
  BY DEF RightAt, StepOK, Step, Locals, Forgotten, EciesKeyCreatePublicHex
<1>6. RightAt(fn, s, h, 5)
  BY DEF RightAt, StepOK, Step, Locals, Forgotten, EciesKeyCreatePublicHex
<1>7. RightAt(fn, s, h, 6)
  BY DEF RightAt, StepOK, Step, Locals, Forgotten, EciesKeyCreatePublicHex
<1> HIDE DEF s
<1>8. h[1] \in SUBSET Locals /\ h[1] = {} /\ h[Len(s) + 1] = {"user"}
  BY <1>1 DEF Locals
<1> HIDE DEF h
<1>9. Right(fn, s, h)
  BY <1>1, <1>2, <1>3, <1>4, <1>5, <1>6, <1>7 DEF Right
<1>10. Sound(fn, s, h[1], h[Len(s) + 1])
  BY <1>1, <1>8, <1>9, SoundSteps, Zenon
<1> QED
  BY <1>1, <1>8, <1>10 DEF s

LEMMA PrivateHexSound ==
  ASSUME NEW fn
  PROVE  /\ EciesKeyCreatePrivateHex("user", {}) \in Seq(Steps) /\ Quiet(EciesKeyCreatePrivateHex("user", {}))
         /\ Sound(fn, EciesKeyCreatePrivateHex("user", {}), {}, {"user"})
<1> DEFINE s == EciesKeyCreatePrivateHex("user", {})
<1> DEFINE h == <<{}, {"user"}, {"user", "group"}, {"user"}, {"user", "bn"}, {"user"}>>
<1>1. s \in Seq(Steps) /\ Len(s) = 5 /\ Quiet(s)
  <2>1. {"user", "group", "bn"} \subseteq Objects
    BY ObjectNames DEF Locals
  <2>2. /\ Step("EC_KEY_new", {}, {"user"}, {}, {}) \in Steps
        /\ Step("EC_GROUP_new_by_curve_name", {}, {"group"}, {} \cup {"user"}, {}) \in Steps
        /\ Step("EC_KEY_set_group", {"user", "group"}, {}, {} \cup {"user", "group"},
               {"group"}) \in Steps
        /\ Step("BN_hex2bn", {}, {"bn"}, {} \cup {"user"}, {}) \in Steps
        /\ Step("EC_KEY_set_private_key", {"user", "bn"}, {}, {} \cup {"user", "bn"},
               {"bn"}) \in Steps
    BY <2>1, StepType, SMT DEF Names
  <2>3. s \in Seq(Steps) /\ Len(s) = 5
    BY <2>2 DEF EciesKeyCreatePrivateHex
  <2>4. Quiet(s)
    BY <2>3 DEF Quiet, Step, EciesKeyCreatePrivateHex
  <2> QED
    BY <2>3, <2>4
<1>2. RightAt(fn, s, h, 1)
  BY DEF RightAt, StepOK, Step, Locals, Forgotten, EciesKeyCreatePrivateHex
<1>3. RightAt(fn, s, h, 2)
  BY DEF RightAt, StepOK, Step, Locals, Forgotten, EciesKeyCreatePrivateHex
<1>4. RightAt(fn, s, h, 3)
  BY DEF RightAt, StepOK, Step, Locals, Forgotten, EciesKeyCreatePrivateHex
<1>5. RightAt(fn, s, h, 4)
  BY DEF RightAt, StepOK, Step, Locals, Forgotten, EciesKeyCreatePrivateHex
<1>6. RightAt(fn, s, h, 5)
  BY DEF RightAt, StepOK, Step, Locals, Forgotten, EciesKeyCreatePrivateHex
<1> HIDE DEF s
<1>7. h[1] \in SUBSET Locals /\ h[1] = {} /\ h[Len(s) + 1] = {"user"}
  BY <1>1 DEF Locals
<1> HIDE DEF h
<1>8. Right(fn, s, h)
  BY <1>1, <1>2, <1>3, <1>4, <1>5, <1>6 DEF Right
<1>9. Sound(fn, s, h[1], h[Len(s) + 1])
  BY <1>1, <1>7, <1>8, SoundSteps, Zenon
<1> QED
  BY <1>1, <1>7, <1>9 DEF s

\* The string of a key.
LEMMA GetHexSound ==
  ASSUME NEW fn \in {"ecies_key_public_get_hex", "ecies_key_private_get_hex"},
         NEW call \in {"EC_POINT_point2hex", "BN_bn2hex"}
  PROVE  /\ GetHex(call) \in Seq(Steps) /\ Reading(GetHex(call))
         /\ Sound(fn, GetHex(call), {}, {"hex"})
<1> DEFINE s == GetHex(call)
<1> DEFINE h == <<{}, {"hex"}>>
<1>1. s \in Seq(Steps) /\ Len(s) = 1 /\ Reading(s)
  <2>1. {"ecKey", "hex"} \subseteq Objects
    BY ObjectNames DEF Locals
  <2>2. /\ Step(call, {"ecKey"}, {"hex"}, {}, {}) \in Steps
    BY <2>1, StepType, SMT DEF Names
  <2>3. s \in Seq(Steps) /\ Len(s) = 1
    BY <2>2 DEF GetHex
  <2>4. Reading(s)
    BY <2>3 DEF Reading, Step, GetHex
  <2> QED
    BY <2>3, <2>4
<1>2. RightAt(fn, s, h, 1)
  BY DEF RightAt, StepOK, Step, Locals, Forgotten, GetHex, OfCaller
<1> HIDE DEF s
<1>3. h[1] \in SUBSET Locals /\ h[1] = {} /\ h[Len(s) + 1] = {"hex"}
  BY <1>1 DEF Locals
<1> HIDE DEF h
<1>4. Right(fn, s, h)
  BY <1>1, <1>2 DEF Right
<1>5. Sound(fn, s, h[1], h[Len(s) + 1])
  BY <1>1, <1>3, <1>4, SoundSteps, Zenon
<1> QED
  BY <1>1, <1>3, <1>5 DEF s

\* The pieces of ecies_encrypt after the keys.
EncryptBegin ==
  <<Step("ECDH_compute_key", {"user", "ephemeral"}, {}, {"user", "ephemeral"}, {}),
    Step("EC_POINT_point2oct", {"ephemeral"}, {}, {"user", "ephemeral"}, {}),
    Unchecked(Step("secure_alloc", {}, {"cryptex"}, {}, {})),
    Step("EC_POINT_point2oct", {"ephemeral", "cryptex"}, {},
          {"user", "ephemeral"} \cup {"cryptex"}, {"user", "ephemeral"}),
    Step("EVP_EncryptInit_ex", {}, {"cipher"}, {"cipher", "cryptex"}, {})>>

LEMMA EncryptBeginSound ==
  ASSUME NEW length \in Nat, NEW n \in Nat, n = IF length % Block = 0 THEN 5 ELSE 6
  PROVE  /\ EncryptBegin \in Seq(Steps) /\ Writing(EncryptBegin, n, length)
         /\ Sound("ecies_encrypt", EncryptBegin, {"user", "ephemeral"}, {"cryptex", "cipher"})
<1> DEFINE s == EncryptBegin
<1> DEFINE h == <<{"user", "ephemeral"}, {"user", "ephemeral"}, {"user", "ephemeral"},
                  {"user", "ephemeral", "cryptex"}, {"cryptex"}, {"cryptex", "cipher"}>>
<1>1. s \in Seq(Steps) /\ Len(s) = 5 /\ Writing(s, n, length)
  <2>1. {"user", "ephemeral", "cryptex", "cipher"} \subseteq Objects
    BY ObjectNames DEF Locals
  <2>2. /\ Step("ECDH_compute_key", {"user", "ephemeral"}, {}, {"user", "ephemeral"},
               {}) \in Steps
        /\ Step("EC_POINT_point2oct", {"ephemeral"}, {}, {"user", "ephemeral"},
               {}) \in Steps
        /\ Unchecked(Step("secure_alloc", {}, {"cryptex"}, {}, {})) \in Steps
        /\ Step("EC_POINT_point2oct", {"ephemeral", "cryptex"}, {},
               {"user", "ephemeral"} \cup {"cryptex"}, {"user", "ephemeral"}) \in Steps
        /\ Step("EVP_EncryptInit_ex", {}, {"cipher"}, {"cipher", "cryptex"}, {}) \in Steps
    BY <2>1, StepType, SMT DEF Names
  <2>3. s \in Seq(Steps) /\ Len(s) = 5
    BY <2>2 DEF EncryptBegin, Unchecked
  <2>4. Writing(s, n, length)
    BY <2>3 DEF Writing, WrittenBefore, Padded, Block, Step, EncryptBegin, Unchecked
  <2> QED
    BY <2>3, <2>4
<1>2. RightAt("ecies_encrypt", s, h, 1)
  BY DEF RightAt, StepOK, Step, Locals, Forgotten, EncryptBegin, Unchecked
<1>3. RightAt("ecies_encrypt", s, h, 2)
  BY DEF RightAt, StepOK, Step, Locals, Forgotten, EncryptBegin, Unchecked
<1>4. RightAt("ecies_encrypt", s, h, 3)
  BY DEF RightAt, StepOK, Step, Locals, Forgotten, EncryptBegin, Unchecked
<1>5. RightAt("ecies_encrypt", s, h, 4)
  BY DEF RightAt, StepOK, Step, Locals, Forgotten, EncryptBegin, Unchecked
<1>6. RightAt("ecies_encrypt", s, h, 5)
  BY DEF RightAt, StepOK, Step, Locals, Forgotten, EncryptBegin, Unchecked
<1> HIDE DEF s
<1>7. h[1] \in SUBSET Locals /\ h[1] = {"user", "ephemeral"} /\ h[Len(s) + 1] = {"cryptex", "cipher"}
  BY <1>1 DEF Locals
<1> HIDE DEF h
<1>8. Right("ecies_encrypt", s, h)
  BY <1>1, <1>2, <1>3, <1>4, <1>5, <1>6 DEF Right
<1>9. Sound("ecies_encrypt", s, h[1], h[Len(s) + 1])
  BY <1>1, <1>7, <1>8, SoundSteps, Zenon
<1> QED
  BY <1>1, <1>7, <1>9 DEF s

\* Whole blocks are written at once, what is left over in a block of its own.
LEMMA EncryptBodySound ==
  ASSUME NEW length \in Nat
  PROVE  /\ EncryptBody(length) \in Seq(Steps) /\ Writing(EncryptBody(length), 4, length)
         /\ Sound("ecies_encrypt", EncryptBody(length), {"cryptex", "cipher"}, {"cryptex", "cipher"})
         /\ Len(EncryptBody(length)) = IF length % Block = 0 THEN 1 ELSE 2
<1> DEFINE update(n) == [Step("EVP_EncryptUpdate", {"cipher", "cryptex"}, {}, {"cipher", "cryptex"}, {})
                           EXCEPT !.writes = n]
<1> DEFINE held == {"cryptex", "cipher"}
<1>1. ASSUME NEW n \in Nat
      PROVE  update(n) \in Steps /\ update(n).writes = n /\ update(n).otherwise = "return"
             /\ update(n).gives = {} /\ update(n).frees = {}
             /\ StepOK("ecies_encrypt", update(n), held)
  <2>1. {"cipher", "cryptex"} \subseteq Objects
    BY ObjectNames DEF Locals
  <2>2. update(n) \in Steps
    BY <1>1, <2>1, StepWrites, SMT DEF Names
  <2>3. update(n) = [call |-> "EVP_EncryptUpdate", uses |-> {"cipher", "cryptex"}, gives |-> {},
                     undo |-> {"cipher", "cryptex"}, frees |-> {}, otherwise |-> "return", writes |-> n]
    BY DEF Step
  <2> HIDE DEF update
  <2> QED
    BY <2>2, <2>3 DEF StepOK
<1> HIDE DEF update
<1>2. ASSUME NEW n \in Nat
      PROVE  <<update(n)>> \in Seq(Steps) /\ Sound("ecies_encrypt", <<update(n)>>, held, held)
  <2> DEFINE h == <<held, held>>
  <2>1. <<update(n)>> \in Seq(Steps) /\ Len(<<update(n)>>) = 1 /\ <<update(n)>>[1] = update(n)
    BY <1>1, <1>2
  <2>2. RightAt("ecies_encrypt", <<update(n)>>, h, 1)
    BY <1>1, <1>2, <2>1 DEF RightAt
  <2>3. h[1] \in SUBSET Locals /\ h[1] = held /\ h[1 + 1] = held
    BY DEF Locals
  <2> HIDE DEF h, held
  <2>4. Right("ecies_encrypt", <<update(n)>>, h)
    BY <2>1, <2>2 DEF Right
  <2>5. Sound("ecies_encrypt", <<update(n)>>, h[1], h[Len(<<update(n)>>) + 1])
    BY <2>1, <2>3, <2>4, SoundSteps, Zenon
  <2> QED
    BY <2>1, <2>3, <2>5
<1>3. length % Block \in Nat /\ length % Block <= length /\ length - (length % Block) \in Nat
  BY DEF Block
<1>4. held \in SUBSET Locals
  BY DEF Locals
<1> DEFINE whole == <<update(length - (length % Block))>>
<1> DEFINE last == <<update(Block)>>
<1>5. EncryptBody(length) = whole \o IF length % Block = 0 THEN <<>> ELSE last
  BY DEF EncryptBody, update
<1>6. CASE length % Block = 0
  <2>1. whole \o <<>> = whole
    BY <1>2, <1>3, ConcatEmptySeq
  <2>2. Writing(whole, 4, length)
    BY <1>1, <1>3, <1>6 DEF Writing, WrittenBefore, Padded
  <2> QED
    BY <1>2, <1>3, <1>5, <1>6, <2>1, <2>2
<1>7. CASE length % Block # 0
  <2>1. Block \in Nat
    BY DEF Block
  <2>2. Writing(whole, 5, length)
    BY <1>1, <1>3, <1>7 DEF Writing, WrittenBefore
  <2>3. Writing(last, 4, length)
    BY <1>1, <1>3, <1>7, <2>1 DEF Writing, WrittenBefore, Padded
  <2>4. Len(last) + 4 = 5 /\ Len(last) = 1 /\ Len(whole) = 1
    OBVIOUS
  <2>5. whole \in Seq(Steps) /\ Sound("ecies_encrypt", whole, held, held)
    BY <1>2, <1>3
  <2>6. last \in Seq(Steps) /\ Sound("ecies_encrypt", last, held, held)
    BY <1>2, <2>1
  <2> HIDE DEF whole, last, held
  <2>7. Writing(whole \o last, 4, length)
    <3>1. 4 \in Nat
      OBVIOUS
    <3> QED
      BY <2>2, <2>3, <2>4, <2>5, <2>6, <3>1, WritingConcat
  <2>8. whole \o last \in Seq(Steps) /\ Sound("ecies_encrypt", whole \o last, held, held)
    BY <1>4, <2>5, <2>6, SoundConcat
  <2>9. Len(whole \o last) = 2
    <3>1. Len(whole \o last) = Len(whole) + Len(last)
      BY <2>5, <2>6, ConcatProperties, Zenon
    <3> QED
      BY <2>4, <3>1
  <2> QED
    BY <1>5, <1>7, <2>7, <2>8, <2>9 DEF held
<1> QED
  BY <1>6, <1>7

EncryptEnd ==
  <<Step("EVP_EncryptFinal_ex", {"cipher", "cryptex"}, {}, {"cipher", "cryptex"},
          {"cipher"}),
    Step("HMAC_Init_ex", {}, {"hmac"}, {"hmac", "cryptex"}, {}),
    Step("HMAC_Update", {"hmac", "cryptex"}, {}, {"hmac", "cryptex"}, {}),
    Step("HMAC_Final", {"hmac", "cryptex"}, {}, {"hmac", "cryptex"}, {"hmac"})>>

LEMMA EncryptEndSound ==
  ASSUME NEW length \in Nat
  PROVE  /\ EncryptEnd \in Seq(Steps) /\ Writing(EncryptEnd, 0, length)
         /\ Sound("ecies_encrypt", EncryptEnd, {"cryptex", "cipher"}, {"cryptex"})
<1> DEFINE s == EncryptEnd
<1> DEFINE h == <<{"cryptex", "cipher"}, {"cryptex"}, {"cryptex", "hmac"},
                  {"cryptex", "hmac"}, {"cryptex"}>>
<1>1. s \in Seq(Steps) /\ Len(s) = 4 /\ Writing(s, 0, length)
  <2>1. {"cipher", "cryptex", "hmac"} \subseteq Objects
    BY ObjectNames DEF Locals
  <2>2. /\ Step("EVP_EncryptFinal_ex", {"cipher", "cryptex"}, {},
               {"cipher", "cryptex"}, {"cipher"}) \in Steps
        /\ Step("HMAC_Init_ex", {}, {"hmac"}, {"hmac", "cryptex"}, {}) \in Steps
        /\ Step("HMAC_Update", {"hmac", "cryptex"}, {}, {"hmac", "cryptex"}, {}) \in Steps
        /\ Step("HMAC_Final", {"hmac", "cryptex"}, {}, {"hmac", "cryptex"},
               {"hmac"}) \in Steps
    BY <2>1, StepType, SMT DEF Names
  <2>3. s \in Seq(Steps) /\ Len(s) = 4
    BY <2>2 DEF EncryptEnd
  <2>4. Writing(s, 0, length)
    BY <2>3 DEF Writing, WrittenBefore, Padded, Block, Step, EncryptEnd
  <2> QED
    BY <2>3, <2>4
<1>2. RightAt("ecies_encrypt", s, h, 1)
  BY DEF RightAt, StepOK, Step, Locals, Forgotten, EncryptEnd
<1>3. RightAt("ecies_encrypt", s, h, 2)
  BY DEF RightAt, StepOK, Step, Locals, Forgotten, EncryptEnd
<1>4. RightAt("ecies_encrypt", s, h, 3)
  BY DEF RightAt, StepOK, Step, Locals, Forgotten, EncryptEnd
<1>5. RightAt("ecies_encrypt", s, h, 4)
  BY DEF RightAt, StepOK, Step, Locals, Forgotten, EncryptEnd
<1> HIDE DEF s
<1>6. h[1] \in SUBSET Locals /\ h[1] = {"cryptex", "cipher"} /\ h[Len(s) + 1] = {"cryptex"}
  BY <1>1 DEF Locals
<1> HIDE DEF h
<1>7. Right("ecies_encrypt", s, h)
  BY <1>1, <1>2, <1>3, <1>4, <1>5 DEF Right
<1>8. Sound("ecies_encrypt", s, h[1], h[Len(s) + 1])
  BY <1>1, <1>6, <1>7, SoundSteps, Zenon
<1> QED
  BY <1>1, <1>6, <1>8 DEF s

\* ecies_decrypt after the keys.
DecryptEnd ==
  <<Step("ECDH_compute_key", {"user", "ephemeral"}, {}, {"user", "ephemeral"},
          {"user", "ephemeral"}),
    Step("HMAC_Init_ex", {}, {"hmac"}, {"hmac"}, {}),
    Step("HMAC_Update", {"hmac", "cipherText"}, {}, {"hmac"}, {}),
    Step("HMAC_Final", {"hmac"}, {}, {"hmac"}, {"hmac"}),
    Step("memcmp", {"cipherText"}, {}, {}, {}),
    Step("malloc", {}, {"output"}, {}, {}),
    Step("EVP_DecryptInit_ex", {}, {"cipher"}, {"cipher", "output"}, {}),
    Step("EVP_DecryptUpdate", {"cipher", "output", "cipherText"}, {},
          {"cipher", "output"}, {}),
    Step("EVP_DecryptFinal_ex", {"cipher", "output"}, {}, {"cipher", "output"},
          {"cipher"})>>

LEMMA DecryptEndSound ==
  /\ DecryptEnd \in Seq(Steps) /\ Reading(DecryptEnd)
  /\ Sound("ecies_decrypt", DecryptEnd, {"user", "ephemeral"}, {"output"})
<1> DEFINE s == DecryptEnd
<1> DEFINE h == <<{"user", "ephemeral"}, {}, {"hmac"}, {"hmac"}, {}, {}, {"output"},
                  {"output", "cipher"}, {"output", "cipher"}, {"output"}>>
<1>1. s \in Seq(Steps) /\ Len(s) = 9 /\ Reading(s)
  <2>1. {"user", "ephemeral", "hmac", "cipherText", "output", "cipher"} \subseteq Objects
    BY ObjectNames DEF Locals
  <2>2. /\ Step("ECDH_compute_key", {"user", "ephemeral"}, {}, {"user", "ephemeral"},
               {"user", "ephemeral"}) \in Steps
        /\ Step("HMAC_Init_ex", {}, {"hmac"}, {"hmac"}, {}) \in Steps
        /\ Step("HMAC_Update", {"hmac", "cipherText"}, {}, {"hmac"}, {}) \in Steps
        /\ Step("HMAC_Final", {"hmac"}, {}, {"hmac"}, {"hmac"}) \in Steps
        /\ Step("memcmp", {"cipherText"}, {}, {}, {}) \in Steps
        /\ Step("malloc", {}, {"output"}, {}, {}) \in Steps
        /\ Step("EVP_DecryptInit_ex", {}, {"cipher"}, {"cipher", "output"}, {}) \in Steps
        /\ Step("EVP_DecryptUpdate", {"cipher", "output", "cipherText"}, {},
               {"cipher", "output"}, {}) \in Steps
        /\ Step("EVP_DecryptFinal_ex", {"cipher", "output"}, {}, {"cipher", "output"},
               {"cipher"}) \in Steps
    BY <2>1, StepType, SMT DEF Names
  <2>3. s \in Seq(Steps) /\ Len(s) = 9
    BY <2>2 DEF DecryptEnd
  <2>4. Reading(s)
    <3>1. s[1].writes = 0 /\ "cryptex" \notin s[1].gives
      BY DEF Step, DecryptEnd
    <3>2. s[2].writes = 0 /\ "cryptex" \notin s[2].gives
      BY DEF Step, DecryptEnd
    <3>3. s[3].writes = 0 /\ "cryptex" \notin s[3].gives
      BY DEF Step, DecryptEnd
    <3>4. s[4].writes = 0 /\ "cryptex" \notin s[4].gives
      BY DEF Step, DecryptEnd
    <3>5. s[5].writes = 0 /\ "cryptex" \notin s[5].gives
      BY DEF Step, DecryptEnd
    <3>6. s[6].writes = 0 /\ "cryptex" \notin s[6].gives
      BY DEF Step, DecryptEnd
    <3>7. s[7].writes = 0 /\ "cryptex" \notin s[7].gives
      BY DEF Step, DecryptEnd
    <3>8. s[8].writes = 0 /\ "cryptex" \notin s[8].gives
      BY DEF Step, DecryptEnd
    <3>9. s[9].writes = 0 /\ "cryptex" \notin s[9].gives
      BY DEF Step, DecryptEnd
    <3> HIDE DEF s
    <3> QED
      BY <2>3, <3>1, <3>2, <3>3, <3>4, <3>5, <3>6, <3>7, <3>8, <3>9 DEF Reading
  <2> QED
    BY <2>3, <2>4
<1>2. RightAt("ecies_decrypt", s, h, 1)
  BY DEF RightAt, StepOK, Step, Locals, Forgotten, DecryptEnd, OfCaller
<1>3. RightAt("ecies_decrypt", s, h, 2)
  BY DEF RightAt, StepOK, Step, Locals, Forgotten, DecryptEnd, OfCaller
<1>4. RightAt("ecies_decrypt", s, h, 3)
  BY DEF RightAt, StepOK, Step, Locals, Forgotten, DecryptEnd, OfCaller
<1>5. RightAt("ecies_decrypt", s, h, 4)
  BY DEF RightAt, StepOK, Step, Locals, Forgotten, DecryptEnd, OfCaller
<1>6. RightAt("ecies_decrypt", s, h, 5)
  BY DEF RightAt, StepOK, Step, Locals, Forgotten, DecryptEnd, OfCaller
<1>7. RightAt("ecies_decrypt", s, h, 6)
  BY DEF RightAt, StepOK, Step, Locals, Forgotten, DecryptEnd, OfCaller
<1>8. RightAt("ecies_decrypt", s, h, 7)
  BY DEF RightAt, StepOK, Step, Locals, Forgotten, DecryptEnd, OfCaller
<1>9. RightAt("ecies_decrypt", s, h, 8)
  BY DEF RightAt, StepOK, Step, Locals, Forgotten, DecryptEnd, OfCaller
<1>10. RightAt("ecies_decrypt", s, h, 9)
  BY DEF RightAt, StepOK, Step, Locals, Forgotten, DecryptEnd, OfCaller
<1> HIDE DEF s
<1>11. h[1] \in SUBSET Locals /\ h[1] = {"user", "ephemeral"} /\ h[Len(s) + 1] = {"output"}
  BY <1>1 DEF Locals
<1> HIDE DEF h
<1>12. Right("ecies_decrypt", s, h)
  BY <1>1, <1>2, <1>3, <1>4, <1>5, <1>6, <1>7, <1>8, <1>9, <1>10 DEF Right
<1>13. Sound("ecies_decrypt", s, h[1], h[Len(s) + 1])
  BY <1>1, <1>11, <1>12, SoundSteps, Zenon
<1> QED
  BY <1>1, <1>11, <1>13 DEF s

-----------------------------------------------------------------------------
(* The functions. *)

LEMMA KeyCreateSound ==
  ASSUME NEW fn, NEW key \in {"key", "ephemeral"}, NEW held \in {{}, {"user"}},
         NEW left \in {{}, {"original"}},
         \/ eliptic /\ left = {}
         \/ ~eliptic /\ left = {"original"} /\ fn = "ecies_key_create" /\ held = {}
  PROVE  /\ EciesKeyCreate(key, held) \in Seq(Steps) /\ Quiet(EciesKeyCreate(key, held))
         /\ Sound(fn, EciesKeyCreate(key, held), held, held \cup {key} \cup left)
<1> DEFINE group == EciesGroup(held \cup {key})
<1>1. /\ KeyNew(key, held) \in Seq(Steps) /\ Quiet(KeyNew(key, held))
      /\ Sound(fn, KeyNew(key, held), held, held \cup {key})
  BY KeyNewSound
<1>2. /\ group \in Seq(Steps) /\ Quiet(group)
      /\ Sound(fn, group, held \cup {key}, held \cup {key, "group"} \cup left)
  <2>1. CASE eliptic /\ left = {}
    <3>1. held \cup {key, "group"} \cup left = held \cup {key, "group"}
      BY <2>1
    <3> QED
      BY <2>1, <3>1, GroupOfGlobal
  <2>2. CASE ~eliptic /\ left = {"original"} /\ fn = "ecies_key_create" /\ held = {}
    BY <2>2, GroupOfItsOwn
  <2> QED
    BY <2>1, <2>2
<1>3. /\ KeyMake(key, held) \in Seq(Steps) /\ Quiet(KeyMake(key, held))
      /\ Sound(fn, KeyMake(key, held), held \cup {key, "group"} \cup left, held \cup {key} \cup left)
  BY KeyMakeSound
<1>4. EciesKeyCreate(key, held) = (KeyNew(key, held) \o group) \o KeyMake(key, held)
  BY DEF EciesKeyCreate, KeyNew, KeyMake
<1>5. held \in SUBSET Locals
  BY DEF Locals
<1> DEFINE first == KeyNew(key, held) \o group
<1> HIDE DEF group
<1>6. /\ first \in Seq(Steps) /\ Quiet(first)
      /\ Sound(fn, first, held, held \cup {key, "group"} \cup left)
  BY <1>1, <1>2, <1>5, QuietConcat, SoundConcat
<1> HIDE DEF first
<1>7. first \o KeyMake(key, held) \in Seq(Steps) /\ Quiet(first \o KeyMake(key, held))
  BY <1>3, <1>5, <1>6, QuietConcat, SoundConcat
<1>8. Sound(fn, first \o KeyMake(key, held), held, held \cup {key} \cup left)
  BY <1>3, <1>5, <1>6, SoundConcat
<1> QED
  BY <1>4, <1>7, <1>8 DEF first

LEMMA PublicOctetsSound ==
  ASSUME NEW fn, eliptic
  PROVE  LET s == EciesKeyCreatePublicOctets("ephemeral", {"user"})
         IN  /\ s \in Seq(Steps) /\ Quiet(s)
             /\ Sound(fn, s, {"user"}, {"user", "ephemeral"})
<1> DEFINE key == "ephemeral"
<1> DEFINE held == {"user"}
<1> DEFINE group == EciesGroup(held \cup {key})
<1>0. /\ key \in {"key", "ephemeral"} /\ held \in {{}, {"user"}} /\ held \in SUBSET Locals
      /\ held \cup {key} \in SUBSET Locals /\ held \cup {key} = {"user", "ephemeral"}
  BY DEF Locals
<1>4. EciesKeyCreatePublicOctets(key, held) = (KeyNew(key, held) \o group) \o KeyOctets(key, held)
  BY DEF EciesKeyCreatePublicOctets, KeyNew, KeyOctets
<1> HIDE DEF key, held
<1>1. /\ KeyNew(key, held) \in Seq(Steps) /\ Quiet(KeyNew(key, held))
      /\ Sound(fn, KeyNew(key, held), held, held \cup {key})
  BY <1>0, KeyNewSound
<1>2. /\ group \in Seq(Steps) /\ Quiet(group)
      /\ Sound(fn, group, held \cup {key}, held \cup {key, "group"})
  BY <1>0, GroupOfGlobal
<1>3. /\ KeyOctets(key, held) \in Seq(Steps) /\ Quiet(KeyOctets(key, held))
      /\ Sound(fn, KeyOctets(key, held), held \cup {key, "group"}, held \cup {key})
  BY <1>0, KeyOctetsSound
<1> DEFINE first == KeyNew(key, held) \o group
<1> HIDE DEF group
<1>6. first \in Seq(Steps) /\ Quiet(first) /\ Sound(fn, first, held, held \cup {key, "group"})
  BY <1>0, <1>1, <1>2, QuietConcat, SoundConcat
<1> HIDE DEF first
<1>7. first \o KeyOctets(key, held) \in Seq(Steps) /\ Quiet(first \o KeyOctets(key, held))
  BY <1>3, <1>6, <1>0, QuietConcat, SoundConcat
<1>8. Sound(fn, first \o KeyOctets(key, held), held, held \cup {key})
  BY <1>3, <1>0, <1>6, SoundConcat
<1>9. /\ EciesKeyCreatePublicOctets(key, held) \in Seq(Steps)
      /\ Quiet(EciesKeyCreatePublicOctets(key, held))
      /\ Sound(fn, EciesKeyCreatePublicOctets(key, held), held, held \cup {key})
  BY <1>4, <1>7, <1>8 DEF first
<1> QED
  BY <1>0, <1>9 DEF key, held

LEMMA EncryptSound ==
  ASSUME NEW length \in Nat, eliptic
  PROVE  LET s == EciesEncrypt(length)
         IN  /\ s \in Seq(Steps) /\ Writing(s, 0, length) /\ WrittenBefore(Len(s), length) = 0
             /\ Sound("ecies_encrypt", s, {}, {"cryptex"})
<1> DEFINE fn == "ecies_encrypt"
<1> DEFINE public == EciesKeyCreatePublicHex("user", {})
<1> DEFINE key == EciesKeyCreate("ephemeral", {"user"})
<1> DEFINE body == EncryptBody(length)
<1> DEFINE keys == {"user", "ephemeral"}
<1>0. EciesEncrypt(length) = (public \o key) \o ((EncryptBegin \o body) \o EncryptEnd)
  BY DEF EciesEncrypt, EncryptBegin, EncryptEnd
<1>1. public \in Seq(Steps) /\ Quiet(public) /\ Sound(fn, public, {}, {"user"})
  BY PublicHexSound
<1>2. key \in Seq(Steps) /\ Quiet(key) /\ Sound(fn, key, {"user"}, keys)
  <2>1. /\ "ephemeral" \in {"key", "ephemeral"} /\ {"user"} \in {{}, {"user"}}
        /\ {} \in {{}, {"original"}} /\ {"user"} \cup {"ephemeral"} \cup {} = keys
    OBVIOUS
  <2> HIDE DEF keys
  <2> QED
    BY <2>1, KeyCreateSound
<1>3. Len(public) = 6 /\ Len(EncryptBegin) = 5 /\ Len(EncryptEnd) = 4
  BY DEF EciesKeyCreatePublicHex, EncryptBegin, EncryptEnd
<1>4. /\ body \in Seq(Steps) /\ Writing(body, 4, length)
      /\ Sound(fn, body, {"cryptex", "cipher"}, {"cryptex", "cipher"})
      /\ Len(body) = IF length % Block = 0 THEN 1 ELSE 2
  BY EncryptBodySound
<1>5. /\ EncryptBegin \in Seq(Steps) /\ Writing(EncryptBegin, Len(body) + 4, length)
      /\ Sound(fn, EncryptBegin, keys, {"cryptex", "cipher"})
  <2>1. Len(body) + 4 = IF length % Block = 0 THEN 5 ELSE 6
    BY <1>4
  <2>2. Len(body) + 4 \in Nat
    BY <2>1
  <2> HIDE DEF body, keys
  <2>3. keys = {"user", "ephemeral"}
    BY DEF keys
  <2> QED
    BY <2>1, <2>2, <2>3, EncryptBeginSound
<1>6. /\ EncryptEnd \in Seq(Steps) /\ Writing(EncryptEnd, 0, length)
      /\ Sound(fn, EncryptEnd, {"cryptex", "cipher"}, {"cryptex"})
  BY EncryptEndSound
<1>7. {} \in SUBSET Locals /\ keys \in SUBSET Locals /\ {"cryptex", "cipher"} \in SUBSET Locals
  BY DEF Locals
<1> HIDE DEF fn, public, key, body, keys
<1> DEFINE first == public \o key
<1> DEFINE middle == EncryptBegin \o body
<1>8. first \in Seq(Steps) /\ Quiet(first) /\ Sound(fn, first, {}, keys)
  BY <1>1, <1>2, <1>7, QuietConcat, SoundConcat
<1>9. Len(first) \in Nat /\ Len(first) >= 6
  <2>1. Len(first) = Len(public) + Len(key)
    BY <1>1, <1>2, ConcatProperties, Zenon
  <2> QED
    BY <1>1, <1>2, <1>3, <2>1
<1>10. /\ middle \in Seq(Steps) /\ Writing(middle, 4, length)
       /\ Sound(fn, middle, keys, {"cryptex", "cipher"})
  <2>1. Writing(middle, 4, length)
    BY <1>4, <1>5, WritingConcat
  <2> QED
    BY <2>1, <1>4, <1>5, <1>7, SoundConcat
<1>11. Len(middle) \in Nat /\ Len(middle) >= 6
  <2>1. Len(middle) = Len(EncryptBegin) + Len(body)
    BY <1>4, <1>5, ConcatProperties, Zenon
  <2> QED
    BY <1>4, <1>3, <2>1
<1> HIDE DEF first, middle
<1> DEFINE last == middle \o EncryptEnd
<1>12. /\ last \in Seq(Steps) /\ Writing(last, 0, length) /\ Sound(fn, last, keys, {"cryptex"})
  <2>1. Writing(last, 0, length)
    <3>1. 0 \in Nat /\ Len(EncryptEnd) + 0 = 4
      BY <1>3
    <3> QED
      BY <3>1, <1>6, <1>10, WritingConcat
  <2> QED
    BY <2>1, <1>6, <1>7, <1>10, SoundConcat
<1>13. Len(last) \in Nat /\ Len(last) >= 6
  <2>1. Len(last) = Len(middle) + Len(EncryptEnd)
    BY <1>6, <1>10, ConcatProperties, Zenon
  <2> QED
    BY <1>3, <1>11, <2>1
<1> HIDE DEF last
<1>14. first \o last \in Seq(Steps) /\ Sound(fn, first \o last, {}, {"cryptex"})
  BY <1>7, <1>8, <1>12, SoundConcat
<1>15. Writing(first \o last, 0, length)
  <2>1. 0 \in Nat /\ Len(last) + 0 \in Nat /\ Len(last) + 0 >= 6
    BY <1>13
  <2>2. Writing(first, Len(last) + 0, length)
    BY <1>8, <2>1, QuietWriting
  <2> QED
    BY <1>8, <1>12, <2>1, <2>2, WritingConcat
<1>16. WrittenBefore(Len(first \o last), length) = 0
  <2>1. Len(first \o last) = Len(first) + Len(last)
    BY <1>8, <1>12, ConcatProperties, Zenon
  <2>2. Len(first \o last) \in Nat /\ Len(first \o last) >= 6
    BY <1>9, <1>13, <2>1
  <2> QED
    BY <2>2 DEF WrittenBefore
<1> QED
  BY <1>0, <1>14, <1>15, <1>16 DEF fn, first, last, middle

LEMMA DecryptSound ==
  ASSUME eliptic
  PROVE  /\ EciesDecrypt \in Seq(Steps) /\ Reading(EciesDecrypt)
         /\ Sound("ecies_decrypt", EciesDecrypt, {}, {"output"})
<1> DEFINE fn == "ecies_decrypt"
<1> DEFINE private == EciesKeyCreatePrivateHex("user", {})
<1> DEFINE key == EciesKeyCreatePublicOctets("ephemeral", {"user"})
<1> DEFINE keys == {"user", "ephemeral"}
<1>0. EciesDecrypt = (private \o key) \o DecryptEnd
  BY DEF EciesDecrypt, DecryptEnd
<1>1. private \in Seq(Steps) /\ Quiet(private) /\ Sound(fn, private, {}, {"user"})
  BY PrivateHexSound
<1>2. key \in Seq(Steps) /\ Quiet(key) /\ Sound(fn, key, {"user"}, keys)
  BY PublicOctetsSound
<1>3. DecryptEnd \in Seq(Steps) /\ Reading(DecryptEnd) /\ Sound(fn, DecryptEnd, keys, {"output"})
  BY DecryptEndSound
<1>4. {} \in SUBSET Locals
  OBVIOUS
<1> HIDE DEF fn, private, key, keys
<1> DEFINE first == private \o key
<1>5. first \in Seq(Steps) /\ Quiet(first) /\ Sound(fn, first, {}, keys)
  BY <1>1, <1>2, <1>4, QuietConcat, SoundConcat
<1> HIDE DEF first
<1>6. Reading(first)
  BY <1>5, QuietConcat
<1>7. first \o DecryptEnd \in Seq(Steps) /\ Sound(fn, first \o DecryptEnd, {}, {"output"})
  BY <1>3, <1>4, <1>5, SoundConcat
<1>8. Reading(first \o DecryptEnd)
  BY <1>3, <1>5, <1>6, QuietConcat
<1> QED
  BY <1>0, <1>7, <1>8 DEF fn, first

-----------------------------------------------------------------------------
(* The calls. *)

LEMMA StartupFacts ==
  /\ Startup \in Seq(Calls) /\ Len(Startup) = 7
  /\ Startup[1].fn = "ecies_key_create" /\ Startup[2].fn = "ecies_group_init"
  /\ Startup[5].fn = "ecies_group_init"
  /\ \A i \in {3, 4, 6, 7} : Startup[i].fn \in {"ecies_key_public_get_hex", "ecies_key_private_get_hex"}
  /\ \A i \in 1..7 : Startup[i] \in Calls \ PerFrame
<1> DEFINE s1 == [fn |-> "ecies_key_create", to |-> "ecKey"]
<1> DEFINE s2 == [fn |-> "ecies_group_init", to |-> "eliptic"]
<1> DEFINE s3 == [fn |-> "ecies_key_public_get_hex", to |-> "publicKey1"]
<1> DEFINE s4 == [fn |-> "ecies_key_private_get_hex", to |-> "privateKey1"]
<1> DEFINE s6 == [fn |-> "ecies_key_public_get_hex", to |-> "publicKey2"]
<1> DEFINE s7 == [fn |-> "ecies_key_private_get_hex", to |-> "privateKey2"]
<1>1. Len(Startup) = 7
  BY DEF Startup, Unit
<1>2. Startup[1] = s1 /\ Startup[2] = s2 /\ Startup[3] = s3 /\ Startup[4] = s4
  BY DEF Startup, Unit
<1>3. Startup[5] = s2 /\ Startup[6] = s6 /\ Startup[7] = s7
  BY DEF Startup, Unit
<1>4. \A i \in 1..7 : Startup[i] \in {s1, s2, s3, s4, s6, s7}
  BY <1>2, <1>3
<1>5. {s1, s2, s3, s4, s6, s7} \cap PerFrame = {}
  BY DEF PerFrame
<1>6. \A i \in 1..7 : Startup[i] \in Calls
  BY <1>1 DEF Calls
<1>7. Startup \in Seq(Calls)
  <2>1. Startup = <<s1, s2, s3, s4>> \o <<s2, s6, s7>>
    BY DEF Startup, Unit
  <2>2. <<s1, s2, s3, s4>> \in Seq(Calls) /\ <<s2, s6, s7>> \in Seq(Calls)
    <3>1. {s1, s2, s3, s4, s6, s7} \subseteq Calls
      BY <1>2, <1>3, <1>6
    <3> HIDE DEF s1, s2, s3, s4, s6, s7
    <3> QED
      BY <3>1
  <2> HIDE DEF s1, s2, s3, s4, s6, s7
  <2> QED
    BY <2>1, <2>2, ConcatProperties
<1> QED
  BY <1>1, <1>2, <1>3, <1>4, <1>5, <1>6, <1>7

LEMMA CallFacts ==
  ASSUME NEW c \in Calls
  PROVE  /\ c.fn \in {"ecies_key_create", "ecies_group_init", "ecies_key_public_get_hex",
                      "ecies_key_private_get_hex", "ecies_encrypt", "ecies_decrypt"}
         /\ c.to \in Pointers /\ c.to \notin Locals
         /\ c.fn \in {"ecies_encrypt", "ecies_decrypt"} => c \in PerFrame
         /\ c \in PerFrame => c.fn \notin {"ecies_key_create", "ecies_group_init"}
         /\ c.to = "eliptic" => c.fn = "ecies_group_init"
         /\ c # Idle /\ c # Crashed
         /\ Result[c.fn] \in Locals
<1>1. c \in {[fn |-> "ecies_key_create", to |-> "ecKey"],
             [fn |-> "ecies_group_init", to |-> "eliptic"],
             [fn |-> "ecies_key_public_get_hex", to |-> "publicKey1"],
             [fn |-> "ecies_key_private_get_hex", to |-> "privateKey1"],
             [fn |-> "ecies_key_public_get_hex", to |-> "publicKey2"],
             [fn |-> "ecies_key_private_get_hex", to |-> "privateKey2"]} \cup PerFrame
  <2>1. CASE c \in PerFrame
    BY <2>1
  <2>2. ASSUME NEW i \in 1..7, c = Startup[i]
        PROVE  c \in {[fn |-> "ecies_key_create", to |-> "ecKey"],
                      [fn |-> "ecies_group_init", to |-> "eliptic"],
                      [fn |-> "ecies_key_public_get_hex", to |-> "publicKey1"],
                      [fn |-> "ecies_key_private_get_hex", to |-> "privateKey1"],
                      [fn |-> "ecies_key_public_get_hex", to |-> "publicKey2"],
                      [fn |-> "ecies_key_private_get_hex", to |-> "privateKey2"]}
    BY <2>2 DEF Startup, Unit
  <2> QED
    BY <2>1, <2>2, StartupFacts DEF Calls
<1>2. c.to \in Pointers
  BY <1>1, ObjectNames DEF PerFrame
<1> QED
  BY <1>1, <1>2, ObjectNames DEF PerFrame, Idle, Crashed, Result, Locals

\* The functions but ecies_group_init are right from their first step on.
LEMMA BodySound ==
  ASSUME NEW c \in Calls, c.fn # "ecies_group_init", NEW length \in Lengths,
         c \in PerFrame => eliptic
  PROVE  /\ Body(c, length) \in Seq(Steps)
         /\ \E after \in SUBSET Left(c.fn) : Sound(c.fn, Body(c, length), {}, after)
         /\ c.fn = "ecies_encrypt" => /\ Writing(Body(c, length), 0, length)
                                      /\ WrittenBefore(Len(Body(c, length)), length) = 0
         /\ c.fn # "ecies_encrypt" => Reading(Body(c, length))
<1>0. length \in Nat
  BY LengthsAssumption, SMT
<1>1. CASE c.fn = "ecies_key_create"
  <2> DEFINE left == IF eliptic THEN {} ELSE {"original"}
  <2>1. /\ "key" \in {"key", "ephemeral"} /\ {} \in {{}, {"user"}} /\ left \in {{}, {"original"}}
        /\ \/ eliptic /\ left = {}
           \/ ~eliptic /\ left = {"original"} /\ c.fn = "ecies_key_create"
    BY <1>1
  <2>2. {"key", "original"} \subseteq Left(c.fn)
    <3>1. Result[c.fn] = "key"
      BY <1>1 DEF Result
    <3>2. "original" \in {o \in Locals : <<c.fn, o>> \in Forgotten}
      BY <1>1 DEF Forgotten, Locals
    <3> QED
      BY <3>1, <3>2 DEF Left
  <2>6. {} \cup {"key"} \cup left \in SUBSET Left(c.fn)
    BY <2>2, SMT
  <2> HIDE DEF left
  <2>3. /\ EciesKeyCreate("key", {}) \in Seq(Steps) /\ Quiet(EciesKeyCreate("key", {}))
        /\ Sound(c.fn, EciesKeyCreate("key", {}), {}, {} \cup {"key"} \cup left)
    BY <2>1, KeyCreateSound
  <2>4. Reading(EciesKeyCreate("key", {}))
    BY <2>3, QuietConcat
  <2>5. Body(c, length) = EciesKeyCreate("key", {})
    BY <1>1 DEF Body
  <2> QED
    BY <1>1, <2>3, <2>4, <2>5, <2>6
<1>2. CASE c.fn \in {"ecies_key_public_get_hex", "ecies_key_private_get_hex"}
  <2>1. PICK call \in {"EC_POINT_point2hex", "BN_bn2hex"} : Body(c, length) = GetHex(call)
    BY <1>2 DEF Body
  <2>2. {"hex"} \in SUBSET Left(c.fn)
    BY <1>2 DEF Left, Result
  <2>3. /\ GetHex(call) \in Seq(Steps) /\ Reading(GetHex(call))
        /\ Sound(c.fn, GetHex(call), {}, {"hex"})
    BY <1>2, GetHexSound
  <2> QED
    BY <1>2, <2>1, <2>2, <2>3
<1>3. CASE c.fn = "ecies_encrypt"
  <2>1. eliptic
    BY <1>3, CallFacts
  <2>2. {"cryptex"} \in SUBSET Left(c.fn)
    BY <1>3 DEF Left, Result
  <2>3. Body(c, length) = EciesEncrypt(length)
    BY <1>3 DEF Body
  <2>4. /\ EciesEncrypt(length) \in Seq(Steps) /\ Writing(EciesEncrypt(length), 0, length)
        /\ WrittenBefore(Len(EciesEncrypt(length)), length) = 0
        /\ Sound("ecies_encrypt", EciesEncrypt(length), {}, {"cryptex"})
    BY <1>0, <2>1, EncryptSound
  <2> QED
    BY <1>3, <2>2, <2>3, <2>4
<1>4. CASE c.fn = "ecies_decrypt"
  <2>1. eliptic
    BY <1>4, CallFacts
  <2>2. {"output"} \in SUBSET Left(c.fn)
    BY <1>4 DEF Left, Result
  <2>3. Body(c, length) = EciesDecrypt
    BY <1>4 DEF Body
  <2>4. /\ EciesDecrypt \in Seq(Steps) /\ Reading(EciesDecrypt)
        /\ Sound("ecies_decrypt", EciesDecrypt, {}, {"output"})
    BY <2>1, DecryptSound
  <2> QED
    BY <1>4, <2>2, <2>3, <2>4
<1>5. c.fn \in {"ecies_key_create", "ecies_group_init", "ecies_key_public_get_hex",
               "ecies_key_private_get_hex", "ecies_encrypt", "ecies_decrypt"}
  BY CallFacts
<1> QED
  BY <1>1, <1>2, <1>3, <1>4, <1>5, SMT

-----------------------------------------------------------------------------
(* The inductive invariant. *)

LEMMA Suffix ==
  ASSUME NEW S, NEW s \in Seq(S), NEW k \in 1..Len(s) + 1
  PROVE  LET t == SubSeq(s, k, Len(s))
         IN  /\ t \in Seq(S) /\ Len(t) = Len(s) - k + 1
             /\ \A i \in 1..Len(t) : t[i] = s[k + i - 1]
             /\ k = Len(s) + 1 => t = <<>>
             /\ k <= Len(s) => /\ t # <<>> /\ Head(t) = s[k]
                               /\ k + 1 \in 1..Len(s) + 1
                               /\ Tail(t) = SubSeq(s, k + 1, Len(s))
<1> DEFINE t == SubSeq(s, k, Len(s))
<1>1. /\ t \in Seq(S) /\ Len(t) = Len(s) - k + 1
      /\ \A i \in 1..Len(t) : t[i] = s[k + i - 1]
  BY SubSeqProperties
<1>2. k = Len(s) + 1 => t = <<>>
  BY <1>1
<1>3. ASSUME k <= Len(s)
      PROVE  /\ t # <<>> /\ Head(t) = s[k] /\ k + 1 \in 1..Len(s) + 1
             /\ Tail(t) = SubSeq(s, k + 1, Len(s))
  <2>0. Len(s) \in Nat /\ Len(t) \in Nat \ {0} /\ k + 1 \in 1..Len(s) + 1 /\ k + 1 - 1 = k
    BY <1>1, <1>3
  <2> HIDE DEF t
  <2>1. t # <<>> /\ Head(t) = t[1] /\ t[1] = s[k] /\ k + 1 \in 1..Len(s) + 1
    BY <1>1, <2>0
  <2> DEFINE u == SubSeq(s, k + 1, Len(s))
  <2>2. /\ u \in Seq(S) /\ Len(u) = Len(s) - k
        /\ \A i \in 1..Len(u) : u[i] = s[k + i]
    BY <1>3, SubSeqProperties
  <2>3. /\ Tail(t) \in Seq(S) /\ Len(Tail(t)) = Len(t) - 1
        /\ \A i \in 1..Len(Tail(t)) : Tail(t)[i] = t[i + 1]
    BY <1>1, <2>1
  <2> HIDE DEF u
  <2>4. Len(Tail(t)) = Len(u) /\ \A i \in 1..Len(u) : Tail(t)[i] = u[i]
    <3>1. Len(Tail(t)) = Len(u)
      BY <1>1, <2>0, <2>2, <2>3
    <3>2. ASSUME NEW i \in 1..Len(u) PROVE Tail(t)[i] = u[i]
      <4>1. i + 1 \in 1..Len(t) /\ k + (i + 1) - 1 = k + i
        BY <1>1, <2>0, <2>2, <3>2
      <4> QED
        BY <1>1, <2>2, <2>3, <3>1, <3>2, <4>1
    <3> QED
      BY <3>1, <3>2
  <2>5. Tail(t) = u
    BY <2>2, <2>3, <2>4, SeqEqual
  <2> QED
    BY <2>1, <2>5 DEF u
<1> HIDE DEF t
<1> QED
  BY <1>1, <1>2, <1>3 DEF t

\* A function that is over leaves what the caller is given and what is forgotten.
LEMMA Stored ==
  ASSUME NEW c \in Calls, NEW ok \in BOOLEAN, NEW existing \in SUBSET Objects, NEW by, NEW kept,
         StoreResult(c, ok, existing, by, kept),
         \A l \in kept : l[2] \in Objects /\ (l[2] \in Locals => l \in Forgotten),
         \A o \in existing \cap Locals :
           (ok /\ o = Result[c.fn]) \/ <<by, o>> \in Forgotten
  PROVE  /\ doing' = Idle /\ rest' = <<>>
         /\ live' \subseteq Pointers
         /\ live' \ {c.to} \subseteq existing
         /\ ~ok => c.to \notin live'
         /\ \A l \in lost' : l[2] \in Objects
         /\ LocalsFreed'
<1>1. c.to \in Pointers /\ c.to \notin Locals
  BY CallFacts
<1>2. Pointers \subseteq Objects /\ Locals \cap Pointers = {} /\ Objects = Locals \cup Pointers
  BY ObjectNames DEF Objects
<1>3. doing' = Idle /\ rest' = <<>>
  BY DEF StoreResult
<1>4. live' \subseteq Pointers /\ live' \ {c.to} \subseteq existing /\ (~ok => c.to \notin live')
  BY <1>1 DEF StoreResult
<1>5. \A l \in lost' : l[2] \in Objects /\ (l[2] \in Locals => l \in Forgotten)
  <2>1. ASSUME NEW l \in lost'
        PROVE  \/ l \in kept
               \/ \E o \in existing \cap Locals : l = <<by, o>> /\ ~(ok /\ o = Result[c.fn])
               \/ l = <<c.fn, c.to>>
    BY <1>2, <2>1 DEF StoreResult
  <2> QED
    BY <1>1, <1>2, <2>1
<1>6. LocalsFreed'
  BY <1>5 DEF LocalsFreed, Forgotten
<1> QED
  BY <1>3, <1>4, <1>5, <1>6

\* Between the calls nothing is in progress.
LEMMA IdleOK ==
  ASSUME doing' = Idle, rest' = <<>>,
         envelope'.body = Padded(envelope'.orig), envelope'.written <= envelope'.body
  PROVE  GroupInitOK' /\ FunctionOK' /\ DecryptOK' /\ EnvelopeOK'
<1>1. doing'.fn = "none" /\ doing' \notin Calls /\ doing' # Crashed
  <2>1. Idle # Crashed /\ Idle.fn = "none"
    BY DEF Idle, Crashed
  <2> QED
    BY <2>1, CallFacts
<1> QED
  BY <1>1 DEF GroupInitOK, FunctionOK, DecryptOK, EnvelopeOK

LEMMA InitInv == Init => EciesInvariant
<1> SUFFICES ASSUME Init PROVE EciesInvariant
  OBVIOUS
<1>1. TypesOK
  <2>1. <<>> \in Seq(Steps) /\ [orig |-> 0, body |-> 0, written |-> 0] \in [orig : Nat, body : Nat, written : Nat]
    OBVIOUS
  <2> QED
    BY <2>1 DEF Init, TypesOK
<1>2. Idle.fn = "none" /\ Idle \notin Calls /\ Idle # Crashed
  <2>1. Idle # Crashed /\ Idle.fn = "none"
    BY DEF Idle, Crashed
  <2> QED
    BY <2>1, CallFacts
<1>3. TodoOK
  <2>1. Startup = SubSeq(Startup, 1, Len(Startup))
    BY StartupFacts, SubSeqFull
  <2>2. 1 \in 1..Len(Startup) + 1 /\ Len(Startup) = 7
    BY StartupFacts
  <2>3. Idle \notin PerFrame
    BY <1>2 DEF Calls
  <2> QED
    BY <1>2, <2>1, <2>2, <2>3 DEF Init, TodoOK
<1>4. GroupInitOK /\ FunctionOK /\ DecryptOK
  BY <1>2 DEF Init, GroupInitOK, FunctionOK, DecryptOK
<1>5. EnvelopeOK
  BY <1>2 DEF Init, EnvelopeOK, Padded, Block
<1>6. NothingDangling /\ LocalsFreed
  BY DEF Init, NothingDangling, LocalsFreed
<1> QED
  BY <1>1, <1>3, <1>4, <1>5, <1>6 DEF EciesInvariant

\* What there is of todo at a call.
LEMMA TodoFacts ==
  ASSUME TodoOK
  PROVE  /\ todo \in Seq(Calls) /\ Len(todo) \in 0..7
         /\ todo # <<>> =>
              /\ Head(todo) \in Calls \ PerFrame
              /\ Len(Tail(todo)) = Len(todo) - 1
              /\ \E k \in 1..Len(Startup) + 1 : Tail(todo) = SubSeq(Startup, k, Len(Startup))
              /\ Len(todo) - 1 = 5 => Head(todo).fn = "ecies_group_init"
<1>1. PICK k \in 1..Len(Startup) + 1 : todo = SubSeq(Startup, k, Len(Startup))
  BY DEF TodoOK
<1>2. Startup \in Seq(Calls) /\ Len(Startup) = 7
  BY StartupFacts
<1>3. /\ todo \in Seq(Calls) /\ Len(todo) = 8 - k
      /\ k = 8 => todo = <<>>
      /\ k <= 7 => /\ Head(todo) = Startup[k] /\ k + 1 \in 1..Len(Startup) + 1
                   /\ Tail(todo) = SubSeq(Startup, k + 1, Len(Startup))
  <2>1. Len(Startup) - k + 1 = 8 - k /\ Len(Startup) + 1 = 8
    BY <1>2
  <2> QED
    BY <1>1, <1>2, <2>1, Suffix
<1>4. ASSUME todo # <<>>
      PROVE  /\ Head(todo) \in Calls \ PerFrame
             /\ Len(Tail(todo)) = Len(todo) - 1
             /\ \E j \in 1..Len(Startup) + 1 : Tail(todo) = SubSeq(Startup, j, Len(Startup))
             /\ Len(todo) - 1 = 5 => Head(todo).fn = "ecies_group_init"
  <2>1. k \in 1..7
    BY <1>2, <1>3, <1>4
  <2>2. Head(todo) \in Calls \ PerFrame
    BY <1>3, <2>1, StartupFacts
  <2>3. Len(Tail(todo)) = Len(todo) - 1
    BY <1>3, <1>4
  <2>4. Len(todo) - 1 = 5 => k = 2
    BY <1>3, <2>1
  <2>5. Len(todo) - 1 = 5 => Head(todo).fn = "ecies_group_init"
    BY <1>3, <2>1, <2>4, StartupFacts
  <2>6. \E j \in 1..Len(Startup) + 1 : Tail(todo) = SubSeq(Startup, j, Len(Startup))
    <3>1. k + 1 \in 1..Len(Startup) + 1 /\ Tail(todo) = SubSeq(Startup, k + 1, Len(Startup))
      BY <1>3, <2>1
    <3> QED
      BY <3>1
  <2> QED
    BY <2>2, <2>3, <2>5, <2>6
<1>5. Len(todo) \in 0..7
  BY <1>2, <1>3
<1> QED
  BY <1>3, <1>4, <1>5

LEMMA StepGoesOn ==
  ASSUME NEW call \in Names, {"group"} \subseteq Objects
  PROVE  /\ [call |-> call, uses |-> {"group"}, gives |-> {}, undo |-> {"group"}, frees |-> {},
             otherwise |-> "continue", writes |-> 0] \in Steps
         /\ [call |-> call, uses |-> {"group"}, gives |-> {}, undo |-> {}, frees |-> {},
             otherwise |-> "succeed", writes |-> 0] \in Steps
<1>1. [call |-> call, uses |-> {"group"}, gives |-> {}, undo |-> {"group"}, frees |-> {},
       otherwise |-> "continue", writes |-> 0] \in Steps
  BY SMT DEF Steps
<1>2. [call |-> call, uses |-> {"group"}, gives |-> {}, undo |-> {}, frees |-> {},
       otherwise |-> "succeed", writes |-> 0] \in Steps
  BY SMT DEF Steps
<1> QED
  BY <1>1, <1>2

LEMMA GroupInitFacts ==
  /\ EciesGroupInit \in Seq(Steps) /\ Len(EciesGroupInit) = 3 /\ Reading(EciesGroupInit)
  /\ EciesGroupInit[1] = [call |-> "EC_GROUP_new_by_curve_name", uses |-> {}, gives |-> {"group"},
                          undo |-> {}, frees |-> {}, otherwise |-> "crash", writes |-> 0]
  /\ EciesGroupInit[2] = [call |-> "EC_GROUP_precompute_mult", uses |-> {"group"}, gives |-> {},
                          undo |-> {"group"}, frees |-> {}, otherwise |-> "continue", writes |-> 0]
  /\ EciesGroupInit[3] = [call |-> "EC_GROUP_set_point_conversion_form", uses |-> {"group"},
                          gives |-> {}, undo |-> {}, frees |-> {},
                          otherwise |-> "succeed", writes |-> 0]
<1>1. EciesGroupInit[1] = [call |-> "EC_GROUP_new_by_curve_name", uses |-> {}, gives |-> {"group"},
                           undo |-> {}, frees |-> {}, otherwise |-> "crash", writes |-> 0]
  BY DEF EciesGroupInit, Unchecked, Step
<1>2. EciesGroupInit[2] = [call |-> "EC_GROUP_precompute_mult", uses |-> {"group"}, gives |-> {},
                           undo |-> {"group"}, frees |-> {}, otherwise |-> "continue", writes |-> 0]
  BY DEF EciesGroupInit, Step
<1>3. EciesGroupInit[3] = [call |-> "EC_GROUP_set_point_conversion_form", uses |-> {"group"},
                           gives |-> {}, undo |-> {}, frees |-> {},
                           otherwise |-> "succeed", writes |-> 0]
  BY DEF EciesGroupInit, Step
<1>4. {"group"} \subseteq Objects
  BY ObjectNames DEF Locals
<1>5. EciesGroupInit[1] \in Steps /\ EciesGroupInit[2] \in Steps /\ EciesGroupInit[3] \in Steps
  <2>1. EciesGroupInit[1] \in Steps
    <3>1. Unchecked(Step("EC_GROUP_new_by_curve_name", {}, {"group"}, {}, {})) \in Steps
      BY <1>4, StepType, SMT DEF Names
    <3> QED
      BY <3>1 DEF EciesGroupInit
  <2>2. /\ \A call \in Names :
             [call |-> call, uses |-> {"group"}, gives |-> {}, undo |-> {"group"}, frees |-> {},
              otherwise |-> "continue", writes |-> 0] \in Steps
        /\ \A call \in Names :
             [call |-> call, uses |-> {"group"}, gives |-> {}, undo |-> {}, frees |-> {},
              otherwise |-> "succeed", writes |-> 0] \in Steps
    BY <1>4, StepGoesOn
  <2>3. {"EC_GROUP_precompute_mult", "EC_GROUP_set_point_conversion_form"} \subseteq Names
    BY DEF Names
  <2> QED
    BY <1>2, <1>3, <2>1, <2>2, <2>3, Zenon
<1>6. Len(EciesGroupInit) = 3 /\ EciesGroupInit \in Seq(Steps)
  <2> DEFINE a == Unchecked(Step("EC_GROUP_new_by_curve_name", {}, {"group"}, {}, {}))
  <2> DEFINE b == [Step("EC_GROUP_precompute_mult", {"group"}, {}, {"group"}, {})
                     EXCEPT !.otherwise = "continue"]
  <2> DEFINE d == [Step("EC_GROUP_set_point_conversion_form", {"group"}, {}, {}, {})
                     EXCEPT !.otherwise = "succeed"]
  <2>1. EciesGroupInit = <<a, b, d>>
    BY DEF EciesGroupInit
  <2> HIDE DEF a, b, d
  <2>2. EciesGroupInit[1] = a /\ EciesGroupInit[2] = b /\ EciesGroupInit[3] = d
    BY <2>1
  <2>3. a \in Steps /\ b \in Steps /\ d \in Steps
    BY <1>5, <2>2, Zenon
  <2> QED
    BY <2>1, <2>3
<1>7. Reading(EciesGroupInit)
  <2>1. EciesGroupInit[1].writes = 0 /\ EciesGroupInit[1].gives = {"group"}
    BY <1>1
  <2>2. EciesGroupInit[2].writes = 0 /\ EciesGroupInit[2].gives = {}
    BY <1>2
  <2>3. EciesGroupInit[3].writes = 0 /\ EciesGroupInit[3].gives = {}
    BY <1>3
  <2> QED
    BY <1>6, <2>1, <2>2, <2>3 DEF Reading
<1> QED
  BY <1>1, <1>2, <1>3, <1>6, <1>7

LEMMA CallInv ==
  ASSUME EciesInvariant, NEW c \in Calls, NEW length \in Lengths, Call(c, length)
  PROVE  EciesInvariant'
<1>0. TypesOK /\ NothingDangling /\ LocalsFreed /\ TodoOK /\ EnvelopeOK
  BY DEF EciesInvariant
<1>1. /\ doing = Idle /\ misused' = {} /\ eliptic' = eliptic
      /\ live \subseteq Pointers /\ live \subseteq Objects
      /\ "eliptic" \in live => eliptic
      /\ envelope \in [orig : Nat, body : Nat, written : Nat]
      /\ eliptic \in BOOLEAN
  BY <1>0 DEF Call, TypesOK
<1>2. Idle.fn = "none" /\ Idle \notin Calls /\ Idle # Crashed /\ Idle \notin PerFrame
  <2>1. Idle # Crashed /\ Idle.fn = "none"
    BY DEF Idle, Crashed
  <2> QED
    BY <2>1, CallFacts DEF Calls
<1>3. length \in Nat
  BY LengthsAssumption, SMT
<1>4. Len(todo) <= 5 => eliptic
  BY <1>0, <1>1, <1>2 DEF TodoOK
<1>5. /\ \E k \in 1..Len(Startup) + 1 : todo' = SubSeq(Startup, k, Len(Startup))
      /\ Len(todo') <= 5 /\ ~(Len(todo') = 5 /\ c.fn = "ecies_group_init") => eliptic
      /\ c \in PerFrame => todo' = <<>> /\ eliptic
  <2>1. CASE todo # <<>> /\ c = Head(todo) /\ todo' = Tail(todo)
    BY <1>0, <1>4, <2>1, TodoFacts
  <2>2. CASE todo = <<>> /\ c \in PerFrame /\ todo' = todo
    <3>1. Len(todo) = 0
      BY <2>2
    <3> QED
      BY <1>0, <1>4, <2>2, <3>1 DEF TodoOK
  <2> QED
    BY <2>1, <2>2 DEF Call
<1>6. NothingDangling'
  BY <1>1 DEF NothingDangling
<1>7. CASE /\ ~Refused(c) /\ lost' = {} /\ doing' = c /\ rest' = Body(c, length) /\ live' = live
           /\ envelope' = IF c.fn = "ecies_encrypt"
                          THEN [orig |-> length, body |-> Padded(length), written |-> 0]
                          ELSE envelope
  <2>0. c # Idle /\ c # Crashed /\ live' \cap Locals = {}
    BY <1>1, <1>7, CallFacts, ObjectNames
  <2>1. /\ rest' \in Seq(Steps)
        /\ c.fn # "ecies_group_init" => \E after \in SUBSET Left(c.fn) : Sound(c.fn, rest', {}, after)
        /\ c.fn = "ecies_encrypt" => /\ Writing(rest', 0, length)
                                     /\ WrittenBefore(Len(rest'), length) = 0
        /\ c.fn # "ecies_encrypt" => Reading(rest')
        /\ c.fn = "ecies_group_init" => rest' = EciesGroupInit
    <3>1. CASE c.fn # "ecies_group_init"
      BY <1>5, <1>7, <3>1, BodySound
    <3>2. CASE c.fn = "ecies_group_init"
      <4>1. rest' = EciesGroupInit
        BY <1>7, <3>2 DEF Body
      <4> QED
        BY <3>2, <4>1, GroupInitFacts
    <3> QED
      BY <3>1, <3>2
  <2>2. envelope' \in [orig : Nat, body : Nat, written : Nat]
    <3>1. Padded(length) \in Nat
      BY <1>3 DEF Padded, Block
    <3> QED
      BY <1>1, <1>3, <1>7, <3>1
  <2>3. TypesOK'
    BY <1>1, <1>7, <2>0, <2>1, <2>2 DEF TypesOK
  <2>4. LocalsFreed'
    BY <1>7 DEF LocalsFreed
  <2>5. TodoOK'
    BY <1>1, <1>5, <1>7 DEF TodoOK
  <2>6. GroupInitOK'
    <3>1. ASSUME c.fn = "ecies_group_init"
          PROVE  rest' = SubSeq(EciesGroupInit, 1, 3) /\ Len(rest') = 3
      <4>1. SubSeq(EciesGroupInit, 1, Len(EciesGroupInit)) = EciesGroupInit
        BY GroupInitFacts, SubSeqFull
      <4> QED
        BY <2>1, <3>1, <4>1, GroupInitFacts
    <3> QED
      BY <1>7, <2>0, <3>1 DEF GroupInitOK
  <2>7. FunctionOK'
    BY <1>7, <2>0, <2>1 DEF FunctionOK
  <2>8. DecryptOK'
    BY <1>7 DEF DecryptOK, Refused
  <2>9. EnvelopeOK'
    <3>1. "cryptex" \notin live' /\ "hmac" \notin live'
      BY <2>0 DEF Locals
    <3>2. CASE c.fn = "ecies_encrypt"
      <4>1. envelope'.orig = length /\ envelope'.body = Padded(length) /\ envelope'.written = 0
        BY <1>7, <3>2
      <4>2. 0 <= Padded(length)
        BY <1>3 DEF Padded, Block
      <4> QED
        BY <1>7, <2>0, <2>1, <3>1, <3>2, <4>1, <4>2 DEF EnvelopeOK
    <3>3. CASE c.fn # "ecies_encrypt"
      BY <1>0, <1>7, <2>0, <2>1, <3>1, <3>3 DEF EnvelopeOK
    <3> QED
      BY <3>2, <3>3
  <2> QED
    BY <1>6, <2>3, <2>4, <2>5, <2>6, <2>7, <2>8, <2>9 DEF EciesInvariant
<1>8. CASE Refused(c) /\ StoreResult(c, FALSE, live, c.fn, {}) /\ envelope' = envelope
  <2>1. /\ doing' = Idle /\ rest' = <<>> /\ live' \subseteq Pointers
        /\ live' \ {c.to} \subseteq live /\ c.to \notin live'
        /\ \A l \in lost' : l[2] \in Objects
        /\ LocalsFreed'
    <3>1. live \cap Locals = {}
      BY <1>1, ObjectNames
    <3>2. FALSE \in BOOLEAN
      OBVIOUS
    <3> QED
      BY <1>1, <1>8, <3>1, <3>2, Stored
  <2>2. c.fn # "ecies_group_init"
    BY <1>8 DEF Refused
  <2>3. TypesOK'
    BY <1>1, <1>8, <2>1, ObjectNames DEF TypesOK
  <2>4. TodoOK'
    BY <1>1, <1>2, <1>5, <2>1, <2>2 DEF TodoOK
  <2>5. GroupInitOK' /\ FunctionOK' /\ DecryptOK' /\ EnvelopeOK'
    <3>1. envelope'.body = Padded(envelope'.orig) /\ envelope'.written <= envelope'.body
      BY <1>0, <1>8 DEF EnvelopeOK
    <3> QED
      BY <2>1, <3>1, IdleOK
  <2> QED
    BY <1>6, <2>1, <2>3, <2>4, <2>5 DEF EciesInvariant
<1> QED
  BY <1>7, <1>8 DEF Call

\* What a step of any function but ecies_group_init needs is there.
LEMMA StepFacts ==
  ASSUME EciesInvariant, rest # <<>>
  PROVE  /\ doing \in Calls /\ doing # Idle /\ doing # Crashed
         /\ Head(rest) \in Steps /\ Tail(rest) \in Seq(Steps)
         /\ Len(rest) \in Nat \ {0} /\ Len(Tail(rest)) = Len(rest) - 1
         /\ doing.fn # "ecies_group_init" =>
              /\ StepOK(doing.fn, Head(rest), live \cap Locals)
              /\ \E after \in SUBSET Left(doing.fn) :
                   Sound(doing.fn, Tail(rest),
                         ((live \cap Locals) \cup Head(rest).gives) \ Head(rest).frees, after)
<1>1. TypesOK /\ FunctionOK
  BY DEF EciesInvariant
<1>2. doing \in Calls /\ doing # Idle /\ doing # Crashed /\ rest \in Seq(Steps)
  BY <1>1 DEF TypesOK
<1>3. /\ Head(rest) \in Steps /\ Tail(rest) \in Seq(Steps)
      /\ Len(rest) \in Nat \ {0} /\ Len(Tail(rest)) = Len(rest) - 1
  BY <1>2
<1>4. ASSUME doing.fn # "ecies_group_init"
      PROVE  /\ StepOK(doing.fn, Head(rest), live \cap Locals)
             /\ \E after \in SUBSET Left(doing.fn) :
                  Sound(doing.fn, Tail(rest),
                        ((live \cap Locals) \cup Head(rest).gives) \ Head(rest).frees, after)
  <2>1. PICK after \in SUBSET Left(doing.fn) : Sound(doing.fn, rest, live \cap Locals, after)
    BY <1>1, <1>2, <1>4 DEF FunctionOK
  <2>2. live \cap Locals \in SUBSET Locals
    OBVIOUS
  <2>3. /\ StepOK(doing.fn, Head(rest), live \cap Locals)
        /\ Sound(doing.fn, Tail(rest),
                 ((live \cap Locals) \cup Head(rest).gives) \ Head(rest).frees, after)
    BY <1>2, <2>1, <2>2, SoundTail
  <2> QED
    BY <2>3
<1> QED
  BY <1>2, <1>3, <1>4

\* The rest of a list that writes, and of one that does not.
LEMMA RestFacts ==
  ASSUME NEW s \in Seq(Steps), s # <<>>
  PROVE  /\ Reading(s) => Head(s).writes = 0 /\ "cryptex" \notin Head(s).gives /\ Reading(Tail(s))
         /\ \A length : Writing(s, 0, length) =>
              /\ WrittenBefore(Len(s) - 1, length) = WrittenBefore(Len(s), length) + Head(s).writes
              /\ Head(s).otherwise = "crash" => Len(s) - 1 > 2
              /\ "hmac" \in Head(s).gives => Len(s) - 1 <= 2
              /\ Writing(Tail(s), 0, length)
<1>1. /\ Head(s) = s[1] /\ Len(s) \in Nat \ {0} /\ Len(Tail(s)) = Len(s) - 1
      /\ \A i \in 1..Len(Tail(s)) : i + 1 \in 1..Len(s) /\ Tail(s)[i] = s[i + 1]
  OBVIOUS
<1>2. 1 \in 1..Len(s)
  BY <1>1
<1>3. ASSUME Reading(s)
      PROVE  Head(s).writes = 0 /\ "cryptex" \notin Head(s).gives /\ Reading(Tail(s))
  BY <1>1, <1>2, <1>3 DEF Reading
<1>4. ASSUME NEW length, Writing(s, 0, length)
      PROVE  /\ WrittenBefore(Len(s) - 1, length) = WrittenBefore(Len(s), length) + Head(s).writes
             /\ Head(s).otherwise = "crash" => Len(s) - 1 > 2
             /\ "hmac" \in Head(s).gives => Len(s) - 1 <= 2
             /\ Writing(Tail(s), 0, length)
  <2>1. Len(s) - 1 + 0 = Len(s) - 1 /\ Len(s) - 1 + 0 + 1 = Len(s)
    BY <1>1
  <2>2. /\ WrittenBefore(Len(s) - 1, length) = WrittenBefore(Len(s), length) + Head(s).writes
        /\ Head(s).otherwise = "crash" => Len(s) - 1 > 2
        /\ "hmac" \in Head(s).gives => Len(s) - 1 <= 2
    BY <1>1, <1>2, <1>4, <2>1 DEF Writing
  <2>3. ASSUME NEW i \in 1..Len(Tail(s))
        PROVE  LET after == Len(Tail(s)) - i + 0
               IN  /\ WrittenBefore(after, length)
                        = WrittenBefore(after + 1, length) + Tail(s)[i].writes
                   /\ Tail(s)[i].otherwise = "crash" => after > 2
                   /\ "hmac" \in Tail(s)[i].gives => after <= 2
    <3>1. i + 1 \in 1..Len(s) /\ Tail(s)[i] = s[i + 1] /\ Len(Tail(s)) - i + 0 = Len(s) - (i + 1) + 0
      BY <1>1, <2>3
    <3> QED
      BY <1>4, <3>1 DEF Writing
  <2>4. Writing(Tail(s), 0, length)
    BY <2>3 DEF Writing
  <2> QED
    BY <2>2, <2>4
<1> QED
  BY <1>3, <1>4

\* What ecies_encrypt has written is never more than the body.
LEMMA WrittenFits ==
  ASSUME NEW length \in Nat, NEW n \in Nat
  PROVE  /\ WrittenBefore(n, length) \in Nat /\ WrittenBefore(n, length) <= Padded(length)
         /\ n <= 2 => WrittenBefore(n, length) = Padded(length)
         /\ length <= Padded(length) /\ Padded(length) \in Nat
  BY DEF WrittenBefore, Padded, Block

\* In ecies_group_init.
LEMMA GroupInitRest ==
  ASSUME EciesInvariant, rest # <<>>, doing.fn = "ecies_group_init"
  PROVE  /\ Len(rest) \in 1..3 /\ Head(rest) = EciesGroupInit[4 - Len(rest)]
         /\ \E k \in 1..4 : Tail(rest) = SubSeq(EciesGroupInit, k, 3)
         /\ live \cap Locals \subseteq {"group"}
         /\ Len(rest) = 3 => live \cap Locals = {}
         /\ Len(rest) = 2 => "group" \in live
<1>1. GroupInitOK
  BY DEF EciesInvariant
<1>2. PICK k \in 1..4 : rest = SubSeq(EciesGroupInit, k, 3)
  BY <1>1 DEF GroupInitOK
<1>3. EciesGroupInit \in Seq(Steps) /\ Len(EciesGroupInit) = 3 /\ k \in 1..Len(EciesGroupInit) + 1
  BY GroupInitFacts
<1>4. /\ Len(rest) = 4 - k /\ (k = 4 => rest = <<>>)
      /\ k <= 3 => /\ Head(rest) = EciesGroupInit[k] /\ k + 1 \in 1..4
                   /\ Tail(rest) = SubSeq(EciesGroupInit, k + 1, 3)
  <2>1. 3 - k + 1 = 4 - k /\ 3 + 1 = 4
    OBVIOUS
  <2> QED
    BY <1>2, <1>3, <2>1, Suffix
<1>5. k \in 1..3 /\ 4 - Len(rest) = k
  BY <1>4
<1> QED
  BY <1>1, <1>4, <1>5 DEF GroupInitOK

\* The envelope after a step that succeeds.
LEMMA SucceedEnvelope ==
  ASSUME EciesInvariant, Succeed
  PROVE  EnvelopeOK' /\ envelope' \in [orig : Nat, body : Nat, written : Nat]
<1>1. /\ rest # <<>> /\ rest' = Tail(rest) /\ doing' = doing
      /\ envelope' = [envelope EXCEPT !.written = @ + Head(rest).writes]
      /\ live' \subseteq live \cup Head(rest).gives
  BY DEF Succeed
<1>2. TypesOK /\ EnvelopeOK
  BY DEF EciesInvariant
<1>3. /\ doing \in Calls /\ doing # Crashed /\ rest \in Seq(Steps) /\ Head(rest).writes \in Nat
      /\ envelope \in [orig : Nat, body : Nat, written : Nat]
  <2>1. Head(rest) \in Steps
    BY <1>1, StepFacts
  <2> QED
    BY <1>1, <1>2, <2>1, StepFacts DEF TypesOK, Steps
<1>4. /\ envelope' \in [orig : Nat, body : Nat, written : Nat]
      /\ envelope'.orig = envelope.orig /\ envelope'.body = envelope.body
      /\ envelope'.written = envelope.written + Head(rest).writes
  BY <1>1, <1>3
<1>5. Len(rest) \in Nat \ {0} /\ Len(Tail(rest)) = Len(rest) - 1
  BY <1>1, StepFacts
<1>6. CASE doing.fn = "ecies_encrypt"
  <2>1. /\ envelope.written = WrittenBefore(Len(rest), envelope.orig)
        /\ Writing(rest, 0, envelope.orig)
        /\ "hmac" \in live => Len(rest) <= 2
        /\ envelope.body = Padded(envelope.orig)
    BY <1>2, <1>6 DEF EnvelopeOK
  <2>2. /\ WrittenBefore(Len(rest) - 1, envelope.orig)
             = WrittenBefore(Len(rest), envelope.orig) + Head(rest).writes
        /\ "hmac" \in Head(rest).gives => Len(rest) - 1 <= 2
        /\ Writing(Tail(rest), 0, envelope.orig)
    BY <1>1, <1>3, <2>1, RestFacts
  <2>3. WrittenBefore(Len(rest) - 1, envelope.orig) <= Padded(envelope.orig)
    <3>1. Len(rest) - 1 \in Nat /\ envelope.orig \in Nat
      BY <1>3, <1>5
    <3> QED
      BY <3>1, WrittenFits
  <2>4. envelope'.written = WrittenBefore(Len(rest'), envelope'.orig)
    BY <1>1, <1>4, <1>5, <2>1, <2>2
  <2>5. envelope'.written <= envelope'.body
    BY <1>1, <1>4, <1>5, <2>1, <2>3, <2>4
  <2>6. "hmac" \in live' => Len(rest') <= 2
    BY <1>1, <1>5, <2>1, <2>2
  <2> QED
    BY <1>1, <1>3, <1>4, <1>6, <2>1, <2>2, <2>4, <2>5, <2>6 DEF EnvelopeOK
<1>7. CASE doing.fn # "ecies_encrypt"
  <2>1. "cryptex" \notin live /\ Reading(rest)
    BY <1>2, <1>3, <1>7 DEF EnvelopeOK
  <2>2. Head(rest).writes = 0 /\ "cryptex" \notin Head(rest).gives /\ Reading(Tail(rest))
    BY <1>1, <1>3, <2>1, RestFacts
  <2>3. envelope'.written = envelope.written
    BY <1>3, <1>4, <2>2
  <2> QED
    BY <1>1, <1>2, <1>3, <1>4, <1>7, <2>1, <2>2, <2>3 DEF EnvelopeOK
<1> QED
  BY <1>4, <1>6, <1>7

\* A step that succeeds.
LEMMA SucceedInv ==
  ASSUME EciesInvariant, Succeed
  PROVE  EciesInvariant'
<1> DEFINE step == Head(rest)
<1> DEFINE held == live \cap Locals
<1>1. /\ rest # <<>> /\ ~NullKey
      /\ live' = (live \cup step.gives) \ step.frees
      /\ lost' = lost \cup {<<step.call, o>> : o \in step.gives \cap live}
      /\ misused' = misused \cup {<<step.call, o>> :
                      o \in (step.uses \cup step.frees) \ (live \cup step.gives)}
      /\ rest' = Tail(rest)
      /\ todo' = todo /\ doing' = doing /\ eliptic' = eliptic
  BY DEF Succeed, Misuse
<1>2. /\ TypesOK /\ NothingDangling /\ LocalsFreed
      /\ TodoOK /\ GroupInitOK /\ FunctionOK /\ DecryptOK /\ EnvelopeOK
  BY DEF EciesInvariant
<1>3. EnvelopeOK' /\ envelope' \in [orig : Nat, body : Nat, written : Nat]
  BY <1>1, SucceedEnvelope
<1>4. TodoOK'
  BY <1>1, <1>2 DEF TodoOK
<1>5. doing \in Calls /\ doing # Idle /\ doing # Crashed /\ Tail(rest) \in Seq(Steps)
  BY <1>1, StepFacts
<1>6. Objects = Locals \cup Pointers /\ Locals \cap Pointers = {} /\ {"ecKey", "cipherText", "eliptic"} \subseteq Pointers
  BY ObjectNames DEF Objects
<1>7. CASE doing.fn # "ecies_group_init"
  <2>1. /\ step.gives \subseteq Locals \ held
        /\ step.frees \subseteq held \cup step.gives
        /\ step.uses \subseteq held \cup step.gives \cup OfCaller(doing.fn)
                            \cup (IF step.call = "EC_GROUP_dup" THEN {"eliptic"} ELSE {})
    BY <1>1, <1>7, StepFacts DEF StepOK
  <2>2. \E after \in SUBSET Left(doing.fn) :
          Sound(doing.fn, Tail(rest), (held \cup step.gives) \ step.frees, after)
    BY <1>1, <1>7, StepFacts
  <2>3. /\ live' \cap Locals = (held \cup step.gives) \ step.frees
        /\ live' \cap Pointers = live \cap Pointers
        /\ live' \subseteq Objects
    BY <1>1, <1>2, <1>6, <2>1 DEF TypesOK
  <2>4. lost' = lost
    BY <1>1, <2>1
  <2>5. ASSUME NEW o \in (step.uses \cup step.frees) \ (live \cup step.gives)
        PROVE  o = "eliptic" /\ step.call = "EC_GROUP_dup"
    <3>1. o \in OfCaller(doing.fn) \cup (IF step.call = "EC_GROUP_dup" THEN {"eliptic"} ELSE {})
      BY <2>1, <2>5
    <3>2. o # "ecKey"
      BY <1>1, <2>1, <2>5 DEF NullKey
    <3>3. doing.fn = "ecies_decrypt" => o # "cipherText"
      BY <1>2, <2>5 DEF DecryptOK
    <3> QED
      BY <3>1, <3>2, <3>3 DEF OfCaller
  <2>6. NothingDangling'
    BY <1>1, <1>2, <2>5 DEF NothingDangling
  <2>7. \A l \in lost' \cup misused' : l[2] \in Objects
    <3>1. \A l \in lost \cup misused : l[2] \in Objects
      BY <1>2 DEF TypesOK
    <3>2. \A l \in misused' : l \in misused \/ l = <<step.call, "eliptic">>
      BY <1>1, <2>5
    <3> QED
      BY <1>6, <2>4, <3>1, <3>2
  <2>8. TypesOK'
    BY <1>1, <1>2, <1>3, <1>5, <1>6, <2>3, <2>7 DEF TypesOK
  <2>9. LocalsFreed'
    BY <1>2, <2>4 DEF LocalsFreed
  <2>10. FunctionOK'
    BY <1>1, <2>2, <2>3 DEF FunctionOK
  <2>11. DecryptOK' /\ GroupInitOK'
    BY <1>1, <1>2, <1>6, <1>7, <2>3 DEF DecryptOK, GroupInitOK
  <2> QED
    BY <1>3, <1>4, <2>6, <2>8, <2>9, <2>10, <2>11 DEF EciesInvariant
<1>8. CASE doing.fn = "ecies_group_init"
  <2>1. /\ Len(rest) \in 1..3 /\ step = EciesGroupInit[4 - Len(rest)]
        /\ \E k \in 1..4 : Tail(rest) = SubSeq(EciesGroupInit, k, 3)
        /\ held \subseteq {"group"}
        /\ Len(rest) = 3 => held = {}
        /\ Len(rest) = 2 => "group" \in live
        /\ Len(Tail(rest)) = Len(rest) - 1
    BY <1>1, <1>8, GroupInitRest, StepFacts
  <2>2. /\ step.uses \subseteq {"group"} /\ step.frees = {}
        /\ Len(rest) = 3 => step.gives = {"group"} /\ step.uses = {}
        /\ Len(rest) # 3 => step.gives = {}
        /\ Len(rest) = 1 => step.call = "EC_GROUP_set_point_conversion_form"
    <3>1. CASE Len(rest) = 3
      BY <2>1, <3>1, GroupInitFacts
    <3>2. CASE Len(rest) = 2
      BY <2>1, <3>2, GroupInitFacts
    <3>3. CASE Len(rest) = 1
      BY <2>1, <3>3, GroupInitFacts
    <3> QED
      BY <2>1, <3>1, <3>2, <3>3
  <2>3. lost' = lost
    <3>1. step.gives \cap live = {}
      BY <2>1, <2>2 DEF Locals
    <3> QED
      BY <1>1, <3>1
  <2>4. misused' \subseteq misused \cup {<<"EC_GROUP_set_point_conversion_form", "group">>}
    BY <1>1, <2>1, <2>2
  <2>5. NothingDangling'
    BY <1>2, <2>4 DEF NothingDangling
  <2>6. /\ live' \subseteq live \cup {"group"} /\ live \subseteq live'
        /\ Len(rest) = 3 => "group" \in live'
        /\ "group" \in Locals
    BY <1>1, <2>1, <2>2 DEF Locals
  <2>7. TypesOK'
    <3>1. \A l \in lost' \cup misused' : l[2] \in Objects
      BY <1>2, <1>6, <2>3, <2>4, <2>6 DEF TypesOK
    <3>2. live' \subseteq Objects /\ ("eliptic" \in live' => eliptic')
      BY <1>1, <1>2, <1>6, <2>6 DEF TypesOK
    <3> QED
      BY <1>1, <1>2, <1>3, <1>5, <3>1, <3>2 DEF TypesOK
  <2>8. LocalsFreed'
    BY <1>2, <2>3 DEF LocalsFreed
  <2>9. GroupInitOK'
    <3>1. live' \cap Locals \subseteq {"group"}
      BY <2>1, <2>6
    <3>2. Len(rest') # 3 /\ (Len(rest') = 2 => "group" \in live')
      BY <1>1, <2>1, <2>6
    <3>3. \E k \in 1..4 : rest' = SubSeq(EciesGroupInit, k, 3)
      BY <1>1, <2>1
    <3> QED
      BY <3>1, <3>2, <3>3 DEF GroupInitOK
  <2>10. FunctionOK' /\ DecryptOK'
    BY <1>1, <1>8 DEF FunctionOK, DecryptOK
  <2> QED
    BY <1>3, <1>4, <2>5, <2>7, <2>8, <2>9, <2>10 DEF EciesInvariant
<1> QED
  BY <1>7, <1>8

\* A step that fails and ends its function.
LEMMA FailInv ==
  ASSUME EciesInvariant, Fail
  PROVE  EciesInvariant'
<1> DEFINE step == Head(rest)
<1> DEFINE held == live \cap Locals
<1>1. /\ rest # <<>> /\ step.otherwise = "return"
      /\ misused' = misused \cup {<<step.call, o>> :
                      o \in (step.uses \cup step.undo) \ (live \cup step.gives)}
      /\ StoreResult(doing, FALSE, live \ step.undo, step.call, lost)
      /\ ~NullKey
      /\ todo' = todo /\ eliptic' = eliptic /\ envelope' = envelope
  BY DEF Fail, Misuse
<1>2. /\ TypesOK /\ NothingDangling /\ LocalsFreed /\ TodoOK /\ DecryptOK /\ EnvelopeOK
  BY DEF EciesInvariant
<1>3. doing \in Calls /\ doing # Crashed
  BY <1>1, StepFacts
<1>4. doing.fn # "ecies_group_init"
  <2>1. ASSUME doing.fn = "ecies_group_init" PROVE FALSE
    <3>1. Len(rest) \in 1..3 /\ step = EciesGroupInit[4 - Len(rest)]
      BY <1>1, <2>1, GroupInitRest
    <3>2. step.otherwise # "return"
      <4>1. CASE Len(rest) = 3
        BY <3>1, <4>1, GroupInitFacts
      <4>2. CASE Len(rest) = 2
        BY <3>1, <4>2, GroupInitFacts
      <4>3. CASE Len(rest) = 1
        BY <3>1, <4>3, GroupInitFacts
      <4> QED
        BY <3>1, <4>1, <4>2, <4>3
    <3> QED
      BY <1>1, <3>2
  <2> QED
    BY <2>1
<1>5. /\ step.undo \subseteq held \cup step.gives
      /\ step.uses \subseteq held \cup step.gives \cup OfCaller(doing.fn)
                          \cup (IF step.call = "EC_GROUP_dup" THEN {"eliptic"} ELSE {})
      /\ \A o \in held \ step.undo : <<step.call, o>> \in Forgotten
  BY <1>1, <1>4, StepFacts DEF StepOK
<1>6. Objects = Locals \cup Pointers /\ {"ecKey", "cipherText", "eliptic"} \subseteq Objects \ Locals
  BY ObjectNames DEF Objects
<1>7. ASSUME NEW o \in (step.uses \cup step.undo) \ (live \cup step.gives)
      PROVE  o = "eliptic" /\ step.call = "EC_GROUP_dup"
  <2>1. o \in OfCaller(doing.fn) \cup (IF step.call = "EC_GROUP_dup" THEN {"eliptic"} ELSE {})
    BY <1>5, <1>7
  <2>2. o # "ecKey"
    BY <1>1, <1>5, <1>6, <1>7 DEF NullKey
  <2>3. doing.fn = "ecies_decrypt" => o # "cipherText"
    BY <1>2, <1>7 DEF DecryptOK
  <2> QED
    BY <2>1, <2>2, <2>3 DEF OfCaller
<1>8. NothingDangling'
  BY <1>1, <1>2, <1>7 DEF NothingDangling
<1>9. /\ doing' = Idle /\ rest' = <<>>
      /\ live' \subseteq Pointers
      /\ live' \subseteq live
      /\ \A l \in lost' : l[2] \in Objects
      /\ LocalsFreed'
  <2>1. FALSE \in BOOLEAN /\ live \ step.undo \in SUBSET Objects
    BY <1>2 DEF TypesOK
  <2>2. \A l \in lost : l[2] \in Objects /\ (l[2] \in Locals => l \in Forgotten)
    BY <1>2 DEF TypesOK, LocalsFreed, Forgotten
  <2>3. \A o \in (live \ step.undo) \cap Locals :
          (FALSE /\ o = Result[doing.fn]) \/ <<step.call, o>> \in Forgotten
    BY <1>5
  <2>4. /\ doing' = Idle /\ rest' = <<>>
        /\ live' \subseteq Pointers
        /\ live' \ {doing.to} \subseteq live \ step.undo
        /\ ~FALSE => doing.to \notin live'
        /\ \A l \in lost' : l[2] \in Objects
        /\ LocalsFreed'
    BY <1>1, <1>3, <2>1, <2>2, <2>3, Stored
  <2> QED
    BY <2>4
<1>10. TypesOK'
  <2>1. \A l \in misused' : l[2] \in Objects
    <3>1. \A l \in misused' : l \in misused \/ l = <<step.call, "eliptic">>
      BY <1>1, <1>7
    <3> QED
      BY <1>2, <1>6, <3>1 DEF TypesOK
  <2> QED
    BY <1>1, <1>2, <1>6, <1>9, <2>1 DEF TypesOK
<1>11. TodoOK'
  <2>1. Idle \notin PerFrame /\ Idle # Crashed /\ Idle.fn = "none"
    BY CallFacts DEF Calls, Idle, Crashed
  <2> QED
    BY <1>1, <1>2, <1>3, <1>4, <1>9, <2>1 DEF TodoOK
<1>12. GroupInitOK' /\ FunctionOK' /\ DecryptOK' /\ EnvelopeOK'
  BY <1>1, <1>2, <1>9, IdleOK DEF EnvelopeOK
<1> QED
  BY <1>8, <1>9, <1>10, <1>11, <1>12 DEF EciesInvariant

\* The step of ecies_group_init that goes on after a failure.
LEMMA FailAndGoOnInv ==
  ASSUME EciesInvariant, FailAndGoOn
  PROVE  EciesInvariant'
<1> DEFINE step == Head(rest)
<1>1. /\ rest # <<>> /\ step.otherwise = "continue"
      /\ misused' = misused \cup {<<step.call, o>> :
                      o \in (step.uses \cup step.undo) \ (live \cup step.gives)}
      /\ live' = live \ step.undo
      /\ rest' = Tail(rest)
      /\ todo' = todo /\ doing' = doing /\ lost' = lost /\ eliptic' = eliptic /\ envelope' = envelope
  BY DEF FailAndGoOn, Misuse
<1>2. /\ TypesOK /\ NothingDangling /\ LocalsFreed /\ TodoOK /\ DecryptOK /\ EnvelopeOK
  BY DEF EciesInvariant
<1>3. doing \in Calls /\ doing # Idle /\ doing # Crashed /\ Tail(rest) \in Seq(Steps)
  BY <1>1, StepFacts
<1>4. doing.fn = "ecies_group_init"
  BY <1>1, StepFacts DEF StepOK
<1>5. /\ Len(rest) \in 1..3 /\ step = EciesGroupInit[4 - Len(rest)]
      /\ \E k \in 1..4 : Tail(rest) = SubSeq(EciesGroupInit, k, 3)
      /\ live \cap Locals \subseteq {"group"}
      /\ Len(rest) = 2 => "group" \in live
      /\ Len(Tail(rest)) = Len(rest) - 1
  BY <1>1, <1>4, GroupInitRest, StepFacts
<1>6. Len(rest) = 2
  <2>1. CASE Len(rest) = 3
    BY <1>1, <1>5, <2>1, GroupInitFacts
  <2>2. CASE Len(rest) = 1
    BY <1>1, <1>5, <2>2, GroupInitFacts
  <2> QED
    BY <1>5, <2>1, <2>2
<1>7. step.uses = {"group"} /\ step.undo = {"group"} /\ step.gives = {}
  BY <1>5, <1>6, GroupInitFacts
<1>8. misused' = misused /\ live' \subseteq live
  BY <1>1, <1>5, <1>6, <1>7
<1>9. TypesOK' /\ NothingDangling' /\ LocalsFreed' /\ TodoOK'
  <2>1. TypesOK'
    BY <1>1, <1>2, <1>3, <1>8 DEF TypesOK
  <2> QED
    BY <1>1, <1>2, <1>8, <2>1 DEF NothingDangling, LocalsFreed, TodoOK
<1>10. GroupInitOK'
  <2>1. live' \cap Locals \subseteq {"group"}
    BY <1>5, <1>8
  <2>2. Len(rest') # 3 /\ Len(rest') # 2
    <3>1. rest' = Tail(rest) /\ Len(Tail(rest)) = Len(rest) - 1
      BY <1>1, <1>5
    <3>2. Len(rest') = 1
      BY <1>6, <3>1
    <3> QED
      BY <3>2
  <2>3. \E k \in 1..4 : rest' = SubSeq(EciesGroupInit, k, 3)
    BY <1>1, <1>5
  <2> QED
    BY <2>1, <2>2, <2>3 DEF GroupInitOK
<1>11. FunctionOK' /\ DecryptOK'
  BY <1>1, <1>4 DEF FunctionOK, DecryptOK
<1>12. EnvelopeOK'
  <2>1. "cryptex" \notin live /\ Reading(rest)
    BY <1>2, <1>3, <1>4 DEF EnvelopeOK
  <2>2. Reading(Tail(rest))
    BY <1>1, <1>2, <2>1, RestFacts DEF TypesOK
  <2> QED
    BY <1>1, <1>2, <1>3, <1>4, <2>1, <2>2 DEF EnvelopeOK
<1> QED
  BY <1>9, <1>10, <1>11, <1>12 DEF EciesInvariant

\* The program ends where a null pointer is used.
LEMMA CrashInv ==
  ASSUME EciesInvariant, Crash
  PROVE  EciesInvariant'
<1> DEFINE step == Head(rest)
<1>1. /\ rest # <<>>
      /\ step.otherwise = "crash" \/ NullKey
      /\ doing' = Crashed /\ rest' = <<>>
      /\ todo' = todo /\ live' = live /\ lost' = lost /\ misused' = misused
      /\ eliptic' = eliptic /\ envelope' = envelope
  BY DEF Crash
<1>2. /\ TypesOK /\ NothingDangling /\ LocalsFreed /\ TodoOK /\ EnvelopeOK
  BY DEF EciesInvariant
<1>3. doing \in Calls /\ rest \in Seq(Steps)
  BY <1>1, <1>2, StepFacts DEF TypesOK
<1>4. Crashed \notin PerFrame /\ Crashed # Idle /\ Crashed.fn = "crashed" /\ Crashed \notin Calls
  BY CallFacts DEF Calls, Idle, Crashed
<1>5. TypesOK' /\ NothingDangling' /\ LocalsFreed' /\ TodoOK'
  <2>1. TypesOK'
    BY <1>1, <1>2, <1>4 DEF TypesOK
  <2>2. TodoOK'
    BY <1>1, <1>2, <1>4 DEF TodoOK
  <2> QED
    BY <1>1, <1>2, <2>1, <2>2 DEF NothingDangling, LocalsFreed
<1>6. GroupInitOK' /\ FunctionOK' /\ DecryptOK'
  BY <1>1, <1>4 DEF GroupInitOK, FunctionOK, DecryptOK
<1>7. ~({"cryptex", "hmac"} \subseteq live)
  <2>1. CASE doing.fn # "ecies_encrypt"
    BY <1>2, <1>3, <2>1 DEF EnvelopeOK
  <2>2. CASE doing.fn = "ecies_encrypt"
    <3>1. StepOK(doing.fn, step, live \cap Locals)
      BY <1>1, <2>2, StepFacts
    <3>2. ~NullKey
      <4>1. "ecKey" \notin Locals
        BY ObjectNames
      <4> QED
        BY <2>2, <3>1, <4>1 DEF StepOK, OfCaller, NullKey
    <3>3. Writing(rest, 0, envelope.orig) /\ ("hmac" \in live => Len(rest) <= 2)
      BY <1>2, <2>2 DEF EnvelopeOK
    <3>4. Len(rest) - 1 > 2 /\ Len(rest) \in Nat
      BY <1>1, <1>3, <3>2, <3>3, RestFacts
    <3> QED
      BY <3>3, <3>4
  <2> QED
    BY <2>1, <2>2
<1>8. EnvelopeOK'
  BY <1>1, <1>2, <1>4, <1>7 DEF EnvelopeOK
<1> QED
  BY <1>5, <1>6, <1>8 DEF EciesInvariant

\* A function that is over without a failure.
LEMMA ReturnInv ==
  ASSUME EciesInvariant, Return
  PROVE  EciesInvariant'
<1>1. /\ rest = <<>> /\ doing \notin {Idle, Crashed}
      /\ StoreResult(doing, TRUE, live, doing.fn, lost)
      /\ eliptic' = (eliptic \/ doing.fn = "ecies_group_init")
      /\ todo' = todo /\ misused' = misused /\ envelope' = envelope
  BY DEF Return
<1>2. /\ TypesOK /\ NothingDangling /\ LocalsFreed /\ TodoOK
      /\ GroupInitOK /\ FunctionOK /\ EnvelopeOK
  BY DEF EciesInvariant
<1>3. doing \in Calls /\ doing # Crashed
  BY <1>1, <1>2 DEF TypesOK
<1>4. live \cap Locals \subseteq Left(doing.fn)
  <2>1. CASE doing.fn = "ecies_group_init"
    <3>1. Result["ecies_group_init"] = "group"
      BY DEF Result
    <3> QED
      BY <1>2, <2>1, <3>1 DEF GroupInitOK, Left
  <2>2. CASE doing.fn # "ecies_group_init"
    <3>1. PICK after \in SUBSET Left(doing.fn) : Sound(doing.fn, rest, live \cap Locals, after)
      BY <1>2, <1>3, <2>2 DEF FunctionOK
    <3>2. after = Held(rest, live \cap Locals, Len(rest) + 1) /\ Len(rest) + 1 = 1
      BY <1>1, <3>1 DEF Sound
    <3>3. after = live \cap Locals
      BY <3>2, HeldFirst
    <3> QED
      BY <3>1, <3>3
  <2> QED
    BY <2>1, <2>2
<1>5. /\ doing' = Idle /\ rest' = <<>>
      /\ live' \subseteq Pointers
      /\ live' \ {doing.to} \subseteq live
      /\ \A l \in lost' : l[2] \in Objects
      /\ LocalsFreed'
  <2>1. TRUE \in BOOLEAN /\ live \in SUBSET Objects
    BY <1>2 DEF TypesOK
  <2>2. \A l \in lost : l[2] \in Objects /\ (l[2] \in Locals => l \in Forgotten)
    BY <1>2 DEF TypesOK, LocalsFreed, Forgotten
  <2>3. \A o \in live \cap Locals :
          (TRUE /\ o = Result[doing.fn]) \/ <<doing.fn, o>> \in Forgotten
    BY <1>4 DEF Left
  <2>4. /\ doing' = Idle /\ rest' = <<>>
        /\ live' \subseteq Pointers
        /\ live' \ {doing.to} \subseteq live
        /\ ~TRUE => doing.to \notin live'
        /\ \A l \in lost' : l[2] \in Objects
        /\ LocalsFreed'
    BY <1>1, <1>3, <2>1, <2>2, <2>3, Stored
  <2> QED
    BY <2>4
<1>6. "eliptic" \in live' => eliptic'
  <2>1. CASE doing.to = "eliptic"
    BY <1>1, <1>3, <2>1, CallFacts
  <2>2. CASE doing.to # "eliptic"
    BY <1>1, <1>2, <1>5, <2>2 DEF TypesOK
  <2> QED
    BY <2>1, <2>2
<1>7. TypesOK'
  <2>1. eliptic' \in BOOLEAN
    BY <1>1, <1>2 DEF TypesOK
  <2>2. live' \subseteq Objects
    BY <1>5 DEF Objects
  <2> QED
    BY <1>1, <1>2, <1>5, <1>6, <2>1, <2>2 DEF TypesOK
<1>8. TodoOK'
  <2>1. Idle \notin PerFrame /\ Idle # Crashed /\ Idle.fn = "none"
    BY CallFacts DEF Calls, Idle, Crashed
  <2> QED
    BY <1>1, <1>2, <1>3, <1>5, <2>1 DEF TodoOK
<1>9. GroupInitOK' /\ FunctionOK' /\ DecryptOK' /\ EnvelopeOK'
  BY <1>1, <1>2, <1>5, IdleOK DEF EnvelopeOK
<1>10. NothingDangling'
  BY <1>1, <1>2 DEF NothingDangling
<1> QED
  BY <1>5, <1>7, <1>8, <1>9, <1>10 DEF EciesInvariant


\* A step of the program, or none.
LEMMA NextInv ==
  ASSUME EciesInvariant, [Next]_vars
  PROVE  EciesInvariant'
<1>1. CASE \E c \in Calls, length \in Lengths : Call(c, length)
  <2>1. PICK c \in Calls, length \in Lengths : Call(c, length)
    BY <1>1
  <2> QED
    BY <2>1, CallInv
<1>2. CASE Succeed
  BY <1>2, SucceedInv
<1>3. CASE Fail
  BY <1>3, FailInv
<1>4. CASE FailAndGoOn
  BY <1>4, FailAndGoOnInv
<1>5. CASE Crash
  BY <1>5, CrashInv
<1>6. CASE Return
  BY <1>6, ReturnInv
<1>7. CASE UNCHANGED vars
  <2>1. /\ todo' = todo /\ doing' = doing /\ rest' = rest /\ live' = live
        /\ lost' = lost /\ misused' = misused /\ eliptic' = eliptic /\ envelope' = envelope
    BY <1>7 DEF vars
  <2>2. TypesOK' /\ NothingDangling' /\ LocalsFreed' /\ TodoOK' /\ EnvelopeOK'
    BY <2>1 DEF EciesInvariant, TypesOK, NothingDangling, LocalsFreed, TodoOK, EnvelopeOK
  <2>3. GroupInitOK' /\ FunctionOK' /\ DecryptOK'
    BY <2>1 DEF EciesInvariant, GroupInitOK, FunctionOK, DecryptOK
  <2> QED
    BY <2>2, <2>3 DEF EciesInvariant
<1> QED
  BY <1>1, <1>2, <1>3, <1>4, <1>5, <1>6, <1>7 DEF Next, Calls

-----------------------------------------------------------------------------
\* Whatever is encrypted, and whichever calls fail: what the function in
\* progress holds is what its remaining steps count on, and what the caller is
\* left with is its own.
THEOREM EciesInvariantHolds == Spec => []EciesInvariant
<1>1. Init => EciesInvariant
  BY InitInv
<1>2. EciesInvariant /\ [Next]_vars => EciesInvariant'
  BY NextInv
<1> QED
  BY <1>1, <1>2, PTL DEF Spec

\* The type invariant of the calls to keys.cpp and ecies.cpp.
THEOREM EciesTypes == Spec => []TypeOK
<1>1. EciesInvariant => TypeOK
  BY DEF EciesInvariant, TypesOK, TypeOK, Calls
<1> QED
  BY <1>1, EciesInvariantHolds, PTL

\* No function of keys.cpp and ecies.cpp uses or frees an object that is not
\* there, with the one exception that NothingDangling names, whichever of its
\* calls fail and whatever the lengths of the frames.
THEOREM NothingIsDangling == Spec => []NothingDangling
<1>1. EciesInvariant => NothingDangling
  BY DEF EciesInvariant
<1> QED
  BY <1>1, EciesInvariantHolds, PTL

\* A function that is over has freed what it acquired and does not return,
\* with the three exceptions that LocalsFreed names, whichever call failed.
THEOREM LocalsAreFreed == Spec => []LocalsFreed
<1>1. EciesInvariant => LocalsFreed
  BY DEF EciesInvariant
<1> QED
  BY <1>1, EciesInvariantHolds, PTL

\* What the cipher puts out fits the envelope for every length of a frame, and
\* the code is computed over an envelope that is full.
THEOREM EnvelopeIsFilled == Spec => []EnvelopeFilled
<1>1. EciesInvariant => EnvelopeFilled
  <2> SUFFICES ASSUME EciesInvariant PROVE EnvelopeFilled
    OBVIOUS
  <2>1. TypesOK /\ EnvelopeOK
    BY DEF EciesInvariant
  <2>2. /\ envelope.orig \in Nat /\ envelope.body \in Nat /\ envelope.written \in Nat
        /\ envelope.body = Padded(envelope.orig) /\ envelope.written <= envelope.body
    BY <2>1 DEF TypesOK, EnvelopeOK
  <2>3. envelope.orig <= envelope.body
    BY <2>2 DEF Padded, Block
  <2>4. BodyData + envelope.written <= TotalLength(envelope.body)
    BY <2>2 DEF BodyData, TotalLength, HeadLength, KeyLength, MacLength
  <2>5. ASSUME "cryptex" \in live, "hmac" \in live PROVE envelope.written = envelope.body
    <3>1. doing # Crashed
      BY <2>1, <2>5 DEF EnvelopeOK
    <3>2. doing # Idle
      BY <2>1, <2>5, ObjectNames DEF TypesOK
    <3>3. doing \in Calls /\ doing.fn = "ecies_encrypt"
      BY <2>1, <2>5, <3>1, <3>2 DEF TypesOK, EnvelopeOK
    <3>4. envelope.written = WrittenBefore(Len(rest), envelope.orig) /\ Len(rest) <= 2
      BY <2>1, <2>5, <3>3 DEF EnvelopeOK
    <3>5. Len(rest) \in Nat
      BY <2>1 DEF TypesOK
    <3>6. WrittenBefore(Len(rest), envelope.orig) = Padded(envelope.orig)
      BY <2>2, <3>4, <3>5, WrittenFits
    <3> QED
      BY <2>2, <3>4, <3>6
  <2> QED
    BY <2>3, <2>4, <2>5 DEF EnvelopeFilled
<1> QED
  BY <1>1, EciesInvariantHolds, PTL

=============================================================================
