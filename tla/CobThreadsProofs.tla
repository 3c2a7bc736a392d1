-------------------------- MODULE CobThreadsProofs --------------------------
(***************************************************************************)
(* Proofs about the script threads of a unit, for any number of threads    *)
(* and signals, any length of a turn and any depth of the call stack.      *)
(***************************************************************************)
EXTENDS CobThreads, FiniteSetTheorems, SequenceTheorems, WellFoundedInduction, TLAPS

(* Every set of numbers has a smallest one.                                *)
LEMMA LeastNumber ==
  ASSUME NEW S \in SUBSET Nat, S # {}
  PROVE  \E n \in S : \A j \in S : n <= j
<1>1. \E n \in S : \A j \in S : ~ (<<j, n>> \in OpToRel(<, Nat))
  BY NatLessThanWellFounded, WFMin, Zenon
<1>2. PICK n \in S : \A j \in S : ~ (<<j, n>> \in OpToRel(<, Nat))
  BY <1>1
<1>3. ASSUME NEW j \in S PROVE n <= j
  <2>1. <<j, n>> \in Nat \X Nat
    OBVIOUS
  <2>2. ~ (j < n)
    BY <1>2, <2>1 DEF OpToRel
  <2>. QED  BY <2>2
<1>. QED  BY <1>3

LEMMA QueueFacts ==
  ASSUME NEW S, NEW q \in Seq(S)
  PROVE  /\ Len(q) \in Nat /\ DOMAIN q = 1 .. Len(q)
         /\ \A k \in 1 .. Len(q) : q[k] \in S
         /\ q = <<>> <=> Len(q) = 0
BY LenProperties, ElementOfSeq

LEMMA AppendFacts ==
  ASSUME NEW S, NEW q \in Seq(S), NEW e \in S
  PROVE  /\ Append(q, e) \in Seq(S) /\ Len(Append(q, e)) = Len(q) + 1
         /\ \A k \in 1 .. Len(q) : k \in 1 .. Len(q) + 1 /\ Append(q, e)[k] = q[k]
         /\ Append(q, e)[Len(q) + 1] = e
         /\ \A k \in 1 .. Len(q) + 1 : k \in 1 .. Len(q) \/ k = Len(q) + 1
<1>1. Len(q) \in Nat
  BY QueueFacts
<1>2. /\ Append(q, e) \in Seq(S) /\ Len(Append(q, e)) = Len(q) + 1
      /\ \A k \in 1 .. Len(q) : Append(q, e)[k] = q[k]
      /\ Append(q, e)[Len(q) + 1] = e
  BY AppendProperties
<1>3. \A k \in 1 .. Len(q) : k \in 1 .. Len(q) + 1
  BY <1>1
<1>4. \A k \in 1 .. Len(q) + 1 : k \in 1 .. Len(q) \/ k = Len(q) + 1
  BY <1>1
<1>. QED  BY <1>2, <1>3, <1>4

-----------------------------------------------------------------------------
(* Kept is what it is meant to be.                                         *)
Step(f, q, S, k) == IF q[k] \in S THEN Append(f[k - 1], q[k]) ELSE f[k - 1]

LEMMA KeptExists ==
  ASSUME NEW T, NEW q \in Seq(T), NEW S
  PROVE  \E f : f = [k \in 0 .. Len(q) |->
                       IF k = 0 THEN <<>>
                       ELSE IF q[k] \in S THEN Append(f[k - 1], q[k]) ELSE f[k - 1]]
<1> DEFINE l == Len(q)
           Good(n) == \E f \in [0 .. n -> Seq(T)] :
                        f[0] = <<>> /\ \A k \in 1 .. n : f[k] = Step(f, q, S, k)
           Bad == {n \in 0 .. l : ~ Good(n)}
<1>1. l \in Nat /\ \A k \in 1 .. l : q[k] \in T
  BY QueueFacts
<1> HIDE DEF l
<1>2. Good(0)
  <2> DEFINE f == [k \in 0 .. 0 |-> <<>>]
  <2>1. f \in [0 .. 0 -> Seq(T)] /\ f[0] = <<>>
    OBVIOUS
  <2>2. 1 .. 0 = {}
    OBVIOUS
  <2> HIDE DEF f
  <2>. QED  BY <2>1, <2>2
<1>3. ASSUME NEW n \in 1 .. l, Good(n - 1)
      PROVE  Good(n)
  <2>1. PICK f \in [0 .. n - 1 -> Seq(T)] :
          f[0] = <<>> /\ \A k \in 1 .. n - 1 : f[k] = Step(f, q, S, k)
    BY <1>3
  <2> DEFINE g == [k \in 0 .. n |-> IF k = n THEN Step(f, q, S, n) ELSE f[k]]
  <2>2. n \in Nat /\ n # 0 /\ n - 1 \in 0 .. n - 1
    BY <1>1
  <2>3. Step(f, q, S, n) \in Seq(T)
    <3>1. f[n - 1] \in Seq(T) /\ q[n] \in T
      BY <1>1, <2>1, <2>2
    <3>2. Append(f[n - 1], q[n]) \in Seq(T)
      BY <3>1, AppendFacts
    <3>. QED  BY <3>1, <3>2 DEF Step
  <2>4. \A k \in 0 .. n : k # n => k \in 0 .. n - 1
    BY <2>2
  <2>5. g \in [0 .. n -> Seq(T)]
    BY <2>3, <2>4
  <2>6. \A k \in 0 .. n : g[k] = IF k = n THEN Step(f, q, S, n) ELSE f[k]
    OBVIOUS
  <2>7. g[0] = <<>>
    BY <2>1, <2>2, <2>6
  <2> HIDE DEF g
  <2>8. ASSUME NEW k \in 1 .. n
        PROVE  g[k] = Step(g, q, S, k)
    <3>1. k - 1 \in 0 .. n /\ k - 1 # n /\ k \in 0 .. n
      BY <2>2
    <3>2. g[k - 1] = f[k - 1]
      BY <2>6, <3>1
    <3>3. Step(g, q, S, k) = Step(f, q, S, k)
      BY <3>2 DEF Step
    <3>4. CASE k = n
      BY <2>6, <3>1, <3>3, <3>4
    <3>5. CASE k # n
      <4>1. k \in 1 .. n - 1
        BY <2>2, <3>5
      <4>. QED  BY <2>1, <2>6, <3>1, <3>3, <3>5, <4>1
    <3>. QED  BY <3>4, <3>5
  <2>. QED  BY <2>5, <2>7, <2>8
<1> HIDE DEF Good
<1>4. Bad = {}
  <2> SUFFICES ASSUME Bad # {} PROVE FALSE
    OBVIOUS
  <2>1. Bad \in SUBSET Nat
    BY <1>1
  <2>2. PICK n \in Bad : \A j \in Bad : n <= j
    BY <2>1, LeastNumber
  <2>3. n \in 0 .. l /\ ~ Good(n)
    OBVIOUS
  <2>4. n # 0
    BY <1>2, <2>3
  <2>5. n \in 1 .. l /\ n - 1 \in 0 .. l /\ ~ (n <= n - 1)
    BY <1>1, <2>3, <2>4
  <2>6. Good(n - 1)
    BY <2>2, <2>5
  <2>. QED  BY <1>3, <2>3, <2>5, <2>6
<1>5. Good(l)
  BY <1>1, <1>4
<1>6. PICK f \in [0 .. l -> Seq(T)] :
        f[0] = <<>> /\ \A k \in 1 .. l : f[k] = Step(f, q, S, k)
  BY <1>5 DEF Good
<1>7. \A k \in 0 .. l : k # 0 => k \in 1 .. l
  BY <1>1
<1>8. f = [k \in 0 .. l |-> IF k = 0 THEN <<>>
                            ELSE IF q[k] \in S THEN Append(f[k - 1], q[k]) ELSE f[k - 1]]
  BY <1>6, <1>7 DEF Step
<1>. QED  BY <1>8 DEF l

LEMMA KeptSteps ==
  ASSUME NEW T, NEW q \in Seq(T), NEW S
  PROVE  \E f : /\ f[0] = <<>> /\ Kept(q, S) = f[Len(q)]
                /\ \A k \in 1 .. Len(q) : f[k] = Step(f, q, S, k)
<1> DEFINE P(g) == g = [k \in 0 .. Len(q) |->
                       IF k = 0 THEN <<>>
                       ELSE IF q[k] \in S THEN Append(g[k - 1], q[k]) ELSE g[k - 1]]
           f == CHOOSE g : P(g)
<1>0. \E g : P(g)
  BY KeptExists
<1>1. P(f)
  <2> HIDE DEF P
  <2>. QED  BY <1>0
<1>2. Kept(q, S) = f[Len(q)]
  BY DEF Kept
<1>3. Len(q) \in Nat
  BY QueueFacts
<1> HIDE DEF f
<1>4. f[0] = <<>>
  BY <1>1, <1>3
<1>5. ASSUME NEW k \in 1 .. Len(q)
      PROVE  f[k] = Step(f, q, S, k)
  <2>1. k \in 0 .. Len(q) /\ k # 0
    BY <1>3
  <2>. QED  BY <1>1, <2>1 DEF Step
<1>. QED  BY <1>2, <1>4, <1>5

NoTwice(q) == \A j, k \in 1 .. Len(q) : q[j] = q[k] => j = k
PartKept(r, q, n, S) ==
  /\ Len(r) <= n
  /\ \A j \in 1 .. Len(r) : \E k \in 1 .. n : q[k] \in S /\ r[j] = q[k]
  /\ \A k \in 1 .. n : q[k] \in S => \E j \in 1 .. Len(r) : r[j] = q[k]
  /\ NoTwice(q) => NoTwice(r)

LEMMA KeptFacts ==
  ASSUME NEW T, NEW q \in Seq(T), NEW S
  PROVE  Kept(q, S) \in Seq(T) /\ PartKept(Kept(q, S), q, Len(q), S)
<1> DEFINE l == Len(q)
<1>1. PICK f : /\ f[0] = <<>> /\ Kept(q, S) = f[Len(q)]
               /\ \A k \in 1 .. Len(q) : f[k] = Step(f, q, S, k)
  BY KeptSteps
<1> DEFINE Good(n) == f[n] \in Seq(T) /\ PartKept(f[n], q, n, S)
           Bad == {n \in 0 .. l : ~ Good(n)}
<1>2. l \in Nat /\ \A k \in 1 .. l : q[k] \in T
  BY QueueFacts
<1>3. \A k \in 1 .. l : f[k] = Step(f, q, S, k)
  BY <1>1
<1> HIDE DEF l
<1>4. Good(0)
  <2>1. Len(<<>>) = 0 /\ 1 .. 0 = {} /\ <<>> \in Seq(T)
    OBVIOUS
  <2>. QED  BY <1>1, <2>1 DEF PartKept, NoTwice
<1>5. ASSUME NEW n \in 1 .. l, Good(n - 1)
      PROVE  Good(n)
  <2> DEFINE r == f[n - 1]
  <2>1. n \in Nat \ {0} /\ q[n] \in T /\ n \in 1 .. n
    BY <1>2
  <2>2. /\ r \in Seq(T) /\ Len(r) \in Nat /\ Len(r) <= n - 1
        /\ \A j \in 1 .. Len(r) : \E k \in 1 .. n - 1 : q[k] \in S /\ r[j] = q[k]
        /\ \A k \in 1 .. n - 1 : q[k] \in S => \E j \in 1 .. Len(r) : r[j] = q[k]
        /\ NoTwice(q) => NoTwice(r)
    BY <1>5, QueueFacts DEF PartKept
  <2>3. \A k \in 1 .. n - 1 : k \in 1 .. n
    BY <2>1
  <2>4. \A k \in 1 .. n : k # n => k \in 1 .. n - 1
    BY <2>1
  <2>5. f[n] = IF q[n] \in S THEN Append(r, q[n]) ELSE r
    BY <1>3 DEF Step
  <2> HIDE DEF r
  <2>6. CASE q[n] \notin S
    <3>1. f[n] = r
      BY <2>5, <2>6
    <3>2. Len(r) <= n
      BY <2>1, <2>2
    <3>. QED  BY <2>2, <2>3, <2>4, <2>6, <3>1, <3>2 DEF PartKept
  <2>7. CASE q[n] \in S
    <3> DEFINE t == Append(r, q[n])
    <3>1. /\ t \in Seq(T) /\ Len(t) = Len(r) + 1
          /\ \A k \in 1 .. Len(r) : k \in 1 .. Len(r) + 1 /\ t[k] = r[k]
          /\ t[Len(r) + 1] = q[n]
          /\ \A k \in 1 .. Len(r) + 1 : k \in 1 .. Len(r) \/ k = Len(r) + 1
          /\ Len(r) + 1 \in 1 .. Len(r) + 1
      BY <2>1, <2>2, AppendFacts
    <3> HIDE DEF t
    <3>2. f[n] = t
      BY <2>5, <2>7 DEF t
    <3>3. Len(t) <= n
      BY <2>1, <2>2, <3>1
    <3>4. ASSUME NEW j \in 1 .. Len(t)
          PROVE  \E k \in 1 .. n : q[k] \in S /\ t[j] = q[k]
      BY <2>1, <2>2, <2>3, <2>7, <3>1
    <3>5. ASSUME NEW k \in 1 .. n, q[k] \in S
          PROVE  \E j \in 1 .. Len(t) : t[j] = q[k]
      BY <2>2, <2>4, <3>1, <3>5
    <3>6. ASSUME NoTwice(q)
          PROVE  NoTwice(t)
      <4>1. ASSUME NEW j \in 1 .. Len(r)
            PROVE  r[j] # q[n]
        <5>1. PICK k \in 1 .. n - 1 : r[j] = q[k]
          BY <2>2
        <5>2. k \in 1 .. Len(q) /\ n \in 1 .. Len(q) /\ k # n
          BY <1>2, <2>1 DEF l
        <5>. QED  BY <3>6, <5>1, <5>2 DEF NoTwice
      <4>2. \A j, k \in 1 .. Len(r) : r[j] = r[k] => j = k
        BY <2>2, <3>6 DEF NoTwice
      <4>3. \A j, k \in 1 .. Len(r) + 1 : t[j] = t[k] => j = k
        BY <3>1, <4>1, <4>2
      <4>. QED  BY <3>1, <4>3 DEF NoTwice
    <3>. QED  BY <3>1, <3>2, <3>3, <3>4, <3>5, <3>6 DEF PartKept
  <2>. QED  BY <2>6, <2>7
<1> HIDE DEF Good
<1>6. Bad = {}
  <2> SUFFICES ASSUME Bad # {} PROVE FALSE
    OBVIOUS
  <2>1. Bad \in SUBSET Nat
    BY <1>2
  <2>2. PICK n \in Bad : \A j \in Bad : n <= j
    BY <2>1, LeastNumber
  <2>3. n \in 0 .. l /\ ~ Good(n)
    OBVIOUS
  <2>4. n # 0
    BY <1>4, <2>3
  <2>5. n \in 1 .. l /\ n - 1 \in 0 .. l /\ ~ (n <= n - 1)
    BY <1>2, <2>3, <2>4
  <2>6. Good(n - 1)
    BY <2>2, <2>5
  <2>. QED  BY <1>5, <2>3, <2>5, <2>6
<1>7. Good(l)
  BY <1>2, <1>6
<1>. QED  BY <1>1, <1>7 DEF Good, l

(* What is not kept may as well be left out at the front.                  *)
LEMMA KeptSuffix ==
  ASSUME NEW T, NEW q \in Seq(T), NEW r \in Seq(T), NEW S, NEW R,
         NEW n \in Nat, Len(q) = n + Len(r),
         \A k \in 1 .. n : q[k] \notin S,
         \A k \in 1 .. Len(r) : r[k] = q[n + k] /\ (r[k] \in R <=> q[n + k] \in S)
  PROVE  Kept(q, S) = Kept(r, R)
<1> DEFINE l == Len(r)
<1>1. PICK f : /\ f[0] = <<>> /\ Kept(q, S) = f[Len(q)]
               /\ \A k \in 1 .. Len(q) : f[k] = Step(f, q, S, k)
  BY KeptSteps
<1>2. PICK g : /\ g[0] = <<>> /\ Kept(r, R) = g[Len(r)]
               /\ \A k \in 1 .. Len(r) : g[k] = Step(g, r, R, k)
  BY KeptSteps
<1>3. l \in Nat
  BY QueueFacts
<1>4. /\ \A k \in 1 .. n + l : f[k] = Step(f, q, S, k)
      /\ \A k \in 1 .. l : g[k] = Step(g, r, R, k)
      /\ \A k \in 1 .. l : r[k] = q[n + k] /\ (r[k] \in R <=> q[n + k] \in S)
  BY <1>1, <1>2
<1> HIDE DEF l
<1>5. f[n] = <<>>
  <2> DEFINE Bad == {k \in 0 .. n : f[k] # <<>>}
  <2> SUFFICES ASSUME Bad # {} PROVE FALSE
    OBVIOUS
  <2>1. Bad \in SUBSET Nat
    OBVIOUS
  <2>2. PICK k \in Bad : \A j \in Bad : k <= j
    BY <2>1, LeastNumber
  <2>3. k \in 0 .. n /\ f[k] # <<>> /\ k # 0
    BY <1>1
  <2>4. k \in 1 .. n /\ k \in 1 .. n + l /\ k - 1 \in 0 .. n /\ ~ (k <= k - 1)
    BY <1>3, <2>3
  <2>5. f[k - 1] = <<>>
    BY <2>2, <2>4
  <2>6. f[k] = f[k - 1]
    BY <1>4, <2>4 DEF Step
  <2>. QED  BY <2>3, <2>5, <2>6
<1>6. f[n + l] = g[l]
  <2> DEFINE Bad == {k \in 0 .. l : f[n + k] # g[k]}
  <2> SUFFICES ASSUME Bad # {} PROVE FALSE
    BY <1>3
  <2>1. Bad \in SUBSET Nat
    OBVIOUS
  <2>2. PICK k \in Bad : \A j \in Bad : k <= j
    BY <2>1, LeastNumber
  <2>3. k \in 0 .. l /\ f[n + k] # g[k]
    OBVIOUS
  <2>4. k # 0
    BY <1>2, <1>5, <2>3
  <2>5. /\ k \in 1 .. l /\ n + k \in 1 .. n + l /\ k - 1 \in 0 .. l /\ ~ (k <= k - 1)
        /\ n + k - 1 = n + (k - 1)
    BY <1>3, <2>3, <2>4
  <2>6. f[n + (k - 1)] = g[k - 1]
    BY <2>2, <2>5
  <2>7. f[n + k] = Step(f, q, S, n + k) /\ g[k] = Step(g, r, R, k)
    BY <1>4, <2>5
  <2>8. r[k] = q[n + k] /\ (r[k] \in R <=> q[n + k] \in S)
    BY <1>4, <2>5
  <2>9. f[n + k] = IF q[n + k] \in S THEN Append(f[n + (k - 1)], q[n + k]) ELSE f[n + (k - 1)]
    BY <2>5, <2>7 DEF Step
  <2>. QED  BY <2>3, <2>6, <2>7, <2>8, <2>9 DEF Step
<1>. QED  BY <1>1, <1>2, <1>6 DEF l

LEMMA KeptNothing ==
  ASSUME NEW T, NEW q \in Seq(T), NEW S, \A k \in 1 .. Len(q) : q[k] \notin S
  PROVE  Kept(q, S) = <<>>
<1>1. PICK f : /\ f[0] = <<>> /\ Kept(q, S) = f[Len(q)]
               /\ \A k \in 1 .. Len(q) : f[k] = Step(f, q, S, k)
  BY KeptSteps
<1>2. PICK l \in Nat : l = Len(q)
  BY QueueFacts
<1>3. \A k \in 1 .. l : f[k] = f[k - 1]
  BY <1>1, <1>2 DEF Step
<1> DEFINE Bad == {k \in 0 .. l : f[k] # <<>>}
<1> SUFFICES ASSUME Bad # {} PROVE FALSE
  BY <1>1, <1>2
<1>4. Bad \in SUBSET Nat
  OBVIOUS
<1>5. PICK k \in Bad : \A j \in Bad : k <= j
  BY <1>4, LeastNumber
<1>6. k \in 0 .. l /\ f[k] # <<>> /\ k # 0
  BY <1>1
<1>7. k \in 1 .. l /\ k - 1 \in 0 .. l /\ ~ (k <= k - 1)
  BY <1>2, <1>6
<1>. QED  BY <1>3, <1>5, <1>6, <1>7

-----------------------------------------------------------------------------
(* What is always true of the threads.                                     *)
Typed ==
  /\ childs \in Seq(Kids) /\ freeThreads \in Seq(Kids) /\ made \subseteq Kids
  /\ th \in [Threads -> [running : BOOLEAN, depth : 0 .. MaxDepth,
                         sleep : 0 .. MaxSleep, mask : SUBSET Signals]]
  /\ at \in {"idle", "tick", "query"}
  /\ i \in -1 .. Cardinality(Kids)
  /\ turn \in Threads \cup {NoThread} /\ query \in Threads \cup {NoThread}
  /\ at = "query" => query \in Threads
  /\ codes \in 0 .. MaxCode - 1
  /\ due \subseteq Threads /\ ran \subseteq Threads

(* Every object that was made is in one of the lists, once; only those in  *)
(* use run, and the one whose opcodes are executed does.                   *)
Listed ==
  /\ NoTwice(childs) /\ NoTwice(freeThreads)
  /\ \A j \in 1 .. Len(childs), k \in 1 .. Len(freeThreads) : childs[j] # freeThreads[k]
  /\ \A t \in Kids : t \in made <=>
       \/ \E j \in 1 .. Len(childs) : childs[j] = t
       \/ \E k \in 1 .. Len(freeThreads) : freeThreads[k] = t
Dead ==
  /\ \A k \in 1 .. Len(freeThreads) : ~ Running(freeThreads[k])
  /\ \A t \in Kids \ made : ~ Running(t)
Executes ==
  turn # NoThread => at # "idle" /\ Running(turn) /\ th[turn].depth > 0

(* Within a tick: who is due and had no turn yet is still to come, unless  *)
(* it was killed, and who is still to come had no turn yet.                *)
Awake(t) == Running(t) /\ th[t].depth > 0 /\ th[t].sleep <= 1
InTick ==
  at = "tick" =>
    /\ i <= Len(childs)
    /\ turn # NoThread => turn \in ran
    /\ turn # NoThread /\ i = -1 => turn = Root
    /\ \A t \in due : t = Root \/ \E j \in 1 .. Len(childs) : childs[j] = t
    /\ \A t \in due \ ran : Running(t) =>
         /\ Awake(t)
         /\ t = Root => i >= 0
         /\ t # Root => \E j \in 1 .. i : childs[j] = t
    /\ \A j \in 1 .. i : childs[j] \notin ran /\ (Awake(childs[j]) => childs[j] \in due)
    /\ i >= 0 => Root \notin ran

CobInv == Typed /\ Listed /\ Dead /\ Executes /\ InTick

LEMMA FrontFacts ==
  ASSUME NEW S, NEW q \in Seq(S), q # <<>>
  PROVE  /\ Len(q) \in Nat \ {0} /\ Last(q) = q[Len(q)] /\ Last(q) \in S
         /\ Front(q) \in Seq(S) /\ Len(Front(q)) = Len(q) - 1
         /\ \A k \in 1 .. Len(q) - 1 : Front(q)[k] = q[k]
<1>1. Len(q) \in Nat \ {0} /\ \A k \in 1 .. Len(q) : q[k] \in S
  BY QueueFacts
<1>2. /\ SubSeq(q, 1, Len(q) - 1) \in Seq(S)
      /\ Len(SubSeq(q, 1, Len(q) - 1))
           = IF 1 <= Len(q) - 1 THEN Len(q) - 1 - 1 + 1 ELSE 0
      /\ \A k \in 1 .. Len(q) - 1 - 1 + 1 : SubSeq(q, 1, Len(q) - 1)[k] = q[1 + k - 1]
  <2>1. Len(q) - 1 \in Int /\ \A k \in 1 .. Len(q) - 1 : q[k] \in S
    BY <1>1
  <2>. QED  BY <2>1, SubSeqProperties
<1>3. \A k \in 1 .. Len(q) - 1 : k \in 1 .. Len(q) - 1 - 1 + 1 /\ 1 + k - 1 = k
  BY <1>1
<1>4. Front(q) = SubSeq(q, 1, Len(q) - 1) /\ Last(q) = q[Len(q)]
  BY DEF Front, Last
<1>5. Len(Front(q)) = Len(q) - 1
  <2>1. \A l \in Nat \ {0} : (IF 1 <= l - 1 THEN l - 1 - 1 + 1 ELSE 0) = l - 1
    OBVIOUS
  <2>. QED  BY <1>1, <1>2, <1>4, <2>1
<1>6. Len(q) \in 1 .. Len(q)
  BY <1>1
<1>. QED  BY <1>1, <1>2, <1>3, <1>4, <1>5, <1>6

(* A thread that is started runs nowhere yet: it comes from freeThreads,   *)
(* is new, or is a root that has ended.                                    *)
LEMMA ForkFacts ==
  ASSUME Typed, Listed, Dead, NEW t \in Threads, NEW byRoot \in BOOLEAN, Fork(t, byRoot)
  PROVE  /\ ~ Running(t)
         /\ childs' \in Seq(Kids) /\ freeThreads' \in Seq(Kids) /\ made' \subseteq Kids
         /\ Listed'
         /\ \A k \in 1 .. Len(freeThreads') : freeThreads'[k] # t /\ ~ Running(freeThreads'[k])
         /\ \A x \in Kids \ made' : x # t /\ ~ Running(x)
         /\ Len(childs) <= Len(childs')
         /\ \A j \in 1 .. Len(childs) :
              j \in 1 .. Len(childs') /\ childs'[j] = childs[j] /\ childs[j] # t
<1>1. /\ childs \in Seq(Kids) /\ freeThreads \in Seq(Kids) /\ made \subseteq Kids
      /\ Root \notin Kids
  BY CobAssumption DEF Typed
<1>2. /\ Len(childs) \in Nat /\ \A j \in 1 .. Len(childs) : childs[j] \in Kids
      /\ Len(freeThreads) \in Nat /\ \A j \in 1 .. Len(freeThreads) : freeThreads[j] \in Kids
  BY <1>1, QueueFacts
<1>3. CASE byRoot /\ ~ Running(Root)
  <2>1. t = Root /\ UNCHANGED <<childs, freeThreads, made>>
    BY <1>3 DEF Fork
  <2>2. Listed'
    BY <2>1 DEF Listed, NoTwice
  <2>. QED  BY <1>1, <1>2, <1>3, <2>1, <2>2 DEF Dead
<1>4. CASE ~ (byRoot /\ ~ Running(Root))
  <2>1. GetThread(t) /\ childs' = Append(childs, t)
    BY <1>4 DEF Fork
  <2>2. ASSUME freeThreads' \in Seq(Kids), made' \subseteq Kids, t \in Kids, ~ Running(t),
               t \in made',
               \A j \in 1 .. Len(childs) : childs[j] # t,
               NoTwice(freeThreads'),
               \A j \in 1 .. Len(freeThreads') :
                 freeThreads'[j] # t /\ \E k \in 1 .. Len(freeThreads) : freeThreads'[j] = freeThreads[k],
               \A x \in Kids : x # t =>
                 /\ x \in made' <=> x \in made
                 /\ (\E k \in 1 .. Len(freeThreads) : freeThreads[k] = x)
                      => \E k \in 1 .. Len(freeThreads') : freeThreads'[k] = x
        PROVE  /\ ~ Running(t)
               /\ childs' \in Seq(Kids) /\ freeThreads' \in Seq(Kids) /\ made' \subseteq Kids
               /\ Listed'
               /\ \A k \in 1 .. Len(freeThreads') : freeThreads'[k] # t /\ ~ Running(freeThreads'[k])
               /\ \A x \in Kids \ made' : x # t /\ ~ Running(x)
               /\ Len(childs) <= Len(childs')
               /\ \A j \in 1 .. Len(childs) :
                    j \in 1 .. Len(childs') /\ childs'[j] = childs[j] /\ childs[j] # t
    <3>1. /\ childs' \in Seq(Kids) /\ Len(childs') = Len(childs) + 1
          /\ \A k \in 1 .. Len(childs) : k \in 1 .. Len(childs) + 1 /\ childs'[k] = childs[k]
          /\ childs'[Len(childs) + 1] = t
          /\ \A k \in 1 .. Len(childs) + 1 : k \in 1 .. Len(childs) \/ k = Len(childs) + 1
          /\ Len(childs) + 1 \in 1 .. Len(childs) + 1
      BY <1>1, <1>2, <2>1, <2>2, AppendFacts
    <3>2. NoTwice(childs')
      <4>1. \A j, k \in 1 .. Len(childs) : childs[j] = childs[k] => j = k
        BY DEF Listed, NoTwice
      <4>2. \A j, k \in 1 .. Len(childs) + 1 : childs'[j] = childs'[k] => j = k
        <5> SUFFICES ASSUME NEW j \in 1 .. Len(childs) + 1, NEW k \in 1 .. Len(childs) + 1,
                            childs'[j] = childs'[k]
                     PROVE  j = k
          OBVIOUS
        <5>1. CASE j \in 1 .. Len(childs) /\ k \in 1 .. Len(childs)
          BY <3>1, <4>1, <5>1
        <5>2. CASE j \in 1 .. Len(childs) /\ k = Len(childs) + 1
          BY <2>2, <3>1, <5>2
        <5>3. CASE j = Len(childs) + 1 /\ k \in 1 .. Len(childs)
          BY <2>2, <3>1, <5>3
        <5>4. CASE j = Len(childs) + 1 /\ k = Len(childs) + 1
          BY <5>4
        <5>. QED  BY <3>1, <5>1, <5>2, <5>3, <5>4
      <4>. QED  BY <3>1, <4>2 DEF NoTwice
    <3>3. \A j \in 1 .. Len(childs'), k \in 1 .. Len(freeThreads') : childs'[j] # freeThreads'[k]
      <4>1. \A j \in 1 .. Len(childs), k \in 1 .. Len(freeThreads) : childs[j] # freeThreads[k]
        BY DEF Listed
      <4>. QED  BY <2>2, <3>1, <4>1
    <3>4. ASSUME NEW x \in Kids
          PROVE  x \in made' <=>
                   \/ \E j \in 1 .. Len(childs') : childs'[j] = x
                   \/ \E k \in 1 .. Len(freeThreads') : freeThreads'[k] = x
      <4>1. CASE x = t
        BY <2>2, <3>1, <4>1
      <4>2. CASE x # t
        <5>1. x \in made' <=>
                 \/ \E j \in 1 .. Len(childs) : childs[j] = x
                 \/ \E k \in 1 .. Len(freeThreads) : freeThreads[k] = x
          BY <2>2, <4>2 DEF Listed
        <5>2. (\E j \in 1 .. Len(childs) : childs[j] = x)
                <=> \E j \in 1 .. Len(childs') : childs'[j] = x
          BY <3>1, <4>2
        <5>3. (\E k \in 1 .. Len(freeThreads) : freeThreads[k] = x)
                <=> \E k \in 1 .. Len(freeThreads') : freeThreads'[k] = x
          BY <2>2, <4>2
        <5>. QED  BY <5>1, <5>2, <5>3
      <4>. QED  BY <4>1, <4>2
    <3>5. Listed'
      BY <2>2, <3>2, <3>3, <3>4 DEF Listed
    <3>6. \A k \in 1 .. Len(freeThreads') : ~ Running(freeThreads'[k])
      BY <2>2 DEF Dead
    <3>7. \A x \in Kids \ made' : x # t /\ ~ Running(x)
      BY <2>2 DEF Dead
    <3>8. Len(childs) <= Len(childs')
      BY <1>2, <3>1
    <3>. QED  BY <2>2, <3>1, <3>5, <3>6, <3>7, <3>8
  <2>3. CASE freeThreads # <<>>
    <3>1. t = Last(freeThreads) /\ freeThreads' = Front(freeThreads) /\ made' = made
      BY <2>1, <2>3 DEF GetThread
    <3>2. /\ Len(freeThreads) \in Nat \ {0} /\ t = freeThreads[Len(freeThreads)] /\ t \in Kids
          /\ freeThreads' \in Seq(Kids) /\ Len(freeThreads') = Len(freeThreads) - 1
          /\ \A k \in 1 .. Len(freeThreads) - 1 : freeThreads'[k] = freeThreads[k]
      BY <1>1, <2>3, <3>1, FrontFacts
    <3>3. /\ Len(freeThreads) \in 1 .. Len(freeThreads)
          /\ \A k \in 1 .. Len(freeThreads) - 1 :
               k \in 1 .. Len(freeThreads) /\ k # Len(freeThreads)
          /\ \A k \in 1 .. Len(freeThreads) :
               k = Len(freeThreads) \/ k \in 1 .. Len(freeThreads) - 1
      BY <3>2
    <3>4. \A j, k \in 1 .. Len(freeThreads) : freeThreads[j] = freeThreads[k] => j = k
      BY DEF Listed, NoTwice
    <3>5. NoTwice(freeThreads') /\ \A k \in 1 .. Len(freeThreads') : freeThreads'[k] # t
      BY <3>2, <3>3, <3>4 DEF NoTwice
    <3>6. ~ Running(t) /\ \A j \in 1 .. Len(childs) : childs[j] # t
      BY <3>2, <3>3 DEF Dead, Listed
    <3>7. t \in made
      BY <3>2, <3>3 DEF Listed
    <3>8. \A j \in 1 .. Len(freeThreads') :
            \E k \in 1 .. Len(freeThreads) : freeThreads'[j] = freeThreads[k]
      BY <3>2, <3>3
    <3>9. \A x \in Kids : x # t /\ (\E k \in 1 .. Len(freeThreads) : freeThreads[k] = x) =>
               \E k \in 1 .. Len(freeThreads') : freeThreads'[k] = x
      BY <3>2, <3>3
    <3>. QED  BY <1>1, <2>2, <3>1, <3>2, <3>5, <3>6, <3>7, <3>8, <3>9
  <2>4. CASE freeThreads = <<>>
    <3>1. t \in Kids \ made /\ made' = made \cup {t} /\ freeThreads' = freeThreads
      BY <2>1, <2>4 DEF GetThread
    <3>2. ~ Running(t) /\ \A j \in 1 .. Len(childs) : childs[j] # t
      BY <3>1 DEF Dead, Listed
    <3>3. \A k \in 1 .. Len(freeThreads) : freeThreads[k] # t
      BY <3>1 DEF Listed
    <3>4. NoTwice(freeThreads')
      BY <3>1 DEF Listed
    <3>. QED  BY <1>1, <2>2, <3>1, <3>2, <3>3, <3>4
  <2>. QED  BY <2>3, <2>4
<1>. QED  BY <1>3, <1>4

(* InTick after the step, spelled out.                                     *)
AwakeNext(x) == th'[x].running /\ th'[x].depth > 0 /\ th'[x].sleep <= 1

LEMMA InTickNext ==
  ASSUME at' = "tick" =>
           /\ i' <= Len(childs')
           /\ turn' # NoThread => turn' \in ran'
           /\ turn' # NoThread /\ i' = -1 => turn' = Root
           /\ \A t \in due' : t = Root \/ \E j \in 1 .. Len(childs') : childs'[j] = t
           /\ \A t \in due' \ ran' : th'[t].running =>
                /\ AwakeNext(t)
                /\ t = Root => i' >= 0
                /\ t # Root => \E j \in 1 .. i' : childs'[j] = t
           /\ \A j \in 1 .. i' :
                childs'[j] \notin ran' /\ (AwakeNext(childs'[j]) => childs'[j] \in due')
           /\ i' >= 0 => Root \notin ran'
  PROVE  InTick'
BY DEF InTick, Awake, AwakeNext, Running

(* What the others did when one thread executed an opcode: nothing, or     *)
(* they were killed, or started (and were not among the childs).           *)
Elsewhere(x) ==
  \/ th'[x].running => th'[x] = th[x]
  \/ /\ ~ Running(x) /\ turn # NoThread
     /\ \A j \in 1 .. Len(childs) : childs[j] # x
     /\ th'[x].running => th'[x].depth > 0 /\ th'[x].sleep <= 1

LEMMA InTickKept ==
  ASSUME Typed, Executes, InTick, UNCHANGED <<at, i, due, ran>>,
         turn' \in {turn, NoThread}, Len(childs') \in Nat, Len(childs) <= Len(childs'),
         \A j \in 1 .. Len(childs) : j \in 1 .. Len(childs') /\ childs'[j] = childs[j],
         \A x \in Threads : x # turn => Elsewhere(x)
  PROVE  InTick'
<1>0. SUFFICES ASSUME at = "tick" PROVE InTick'
  BY InTickNext
<1>1. /\ i \in Int /\ i >= -1 /\ i <= Len(childs) /\ Len(childs) \in Nat
      /\ due \subseteq Threads /\ Root \in Threads /\ NoThread \notin Threads
      /\ \A j \in 1 .. Len(childs) : childs[j] \in Threads
  <2>1. childs \in Seq(Kids)
    BY DEF Typed
  <2>2. Len(childs) \in Nat /\ \A j \in 1 .. Len(childs) : childs[j] \in Kids
    BY <2>1, QueueFacts
  <2>3. i \in Int /\ i >= -1
    BY CobAssumption, FS_CardinalityType DEF Typed
  <2>. QED  BY <1>0, <2>2, <2>3, CobAssumption DEF InTick, Threads, Typed
<1>5. \A x \in Threads : Awake(x) <=> th[x].running /\ th[x].depth > 0 /\ th[x].sleep <= 1
  BY DEF Awake, Running
<1>6. ASSUME NEW t \in due \ ran, th'[t].running
      PROVE  /\ AwakeNext(t)
             /\ t = Root => i >= 0
             /\ t # Root => \E j \in 1 .. i : childs'[j] = t
  <2>1. t \in Threads
    BY <1>1
  <2>5. CASE t = turn
    BY <1>0, <1>1, <2>1, <2>5 DEF InTick
  <2>2. t = Root \/ \E j \in 1 .. Len(childs) : childs[j] = t
    BY <1>0 DEF InTick
  <2>3. CASE th'[t] = th[t]
    <3>1. Running(t)
      BY <1>6, <2>1, <2>3 DEF Running
    <3>2. /\ Awake(t)
          /\ t = Root => i >= 0
          /\ t # Root => \E j \in 1 .. i : childs[j] = t
      BY <1>0, <3>1 DEF InTick
    <3>3. AwakeNext(t)
      BY <1>5, <2>1, <2>3, <3>2 DEF AwakeNext
    <3>4. \A j \in 1 .. i : childs'[j] = childs[j]
      BY <1>1
    <3>. QED  BY <3>2, <3>3, <3>4
  <2>4. CASE t # turn /\ th'[t] # th[t]
    <3>1. /\ ~ Running(t) /\ turn # NoThread
          /\ \A j \in 1 .. Len(childs) : childs[j] # t
          /\ th'[t].depth > 0 /\ th'[t].sleep <= 1
      BY <1>6, <2>1, <2>4 DEF Elsewhere
    <3>2. t = Root /\ AwakeNext(t)
      BY <1>6, <2>1, <2>2, <3>1 DEF AwakeNext
    <3>3. i # -1
      BY <1>0, <2>4, <3>1, <3>2 DEF InTick, Executes
    <3>. QED  BY <1>1, <3>2, <3>3
  <2>. QED  BY <2>3, <2>4, <2>5
<1>7. ASSUME NEW j \in 1 .. i
      PROVE  childs'[j] \notin ran /\ (AwakeNext(childs'[j]) => childs'[j] \in due)
  <2>1. j \in 1 .. Len(childs) /\ childs'[j] = childs[j] /\ childs[j] \in Threads
    BY <1>1
  <2>2. childs[j] \notin ran /\ (Awake(childs[j]) => childs[j] \in due)
    BY <1>0 DEF InTick
  <2>4. PICK y : y = childs[j]
    OBVIOUS
  <2>5. childs'[j] = y
    BY <2>1, <2>4
  <2>3. ASSUME AwakeNext(y)
        PROVE  y \in due
    <3>1. y \in Threads /\ y # turn
      BY <1>0, <1>1, <2>1, <2>2, <2>4 DEF InTick
    <3>2. th'[y].running
      BY <2>3 DEF AwakeNext
    <3>3. th'[y] = th[y]
      BY <2>1, <2>4, <3>1, <3>2 DEF Elsewhere
    <3>4. Awake(y)
      BY <1>5, <2>3, <3>1, <3>3 DEF AwakeNext
    <3>. QED  BY <2>2, <2>4, <3>4
  <2>. QED  BY <2>2, <2>3, <2>4, <2>5
<1>8. \A t \in due : t = Root \/ \E j \in 1 .. Len(childs') : childs'[j] = t
  BY <1>0 DEF InTick
<1>9. /\ i <= Len(childs') /\ (i >= 0 => Root \notin ran)
      /\ turn' # NoThread => turn' \in ran
      /\ turn' # NoThread /\ i = -1 => turn' = Root
  BY <1>0, <1>1 DEF InTick
<1>. QED  BY <1>6, <1>7, <1>8, <1>9, InTickNext

-----------------------------------------------------------------------------
(* The opcodes.                                                            *)
Rec == [running : BOOLEAN, depth : 0 .. MaxDepth, sleep : 0 .. MaxSleep, mask : SUBSET Signals]

(* The limit of the turn.                                                  *)
LEMMA GoesFacts ==
  ASSUME codes \in 0 .. MaxCode - 1, NEW t, NEW more \in BOOLEAN, Goes(t, more)
  PROVE  /\ codes' \in 0 .. MaxCode - 1
         /\ turn' \in {t, NoThread} /\ (turn' # NoThread => more)
<1>1. MaxCode \in Nat \ {0}
  BY CobAssumption
<1>2. codes' = (IF more /\ codes + 1 < MaxCode THEN codes + 1 ELSE 0)
  BY DEF Goes
<1>3. turn' = (IF more /\ codes + 1 < MaxCode THEN t ELSE NoThread)
  BY DEF Goes
<1>4. codes' \in 0 .. MaxCode - 1
  BY <1>1, <1>2
<1>. QED  BY <1>3, <1>4

(* An opcode changes its own thread, and may kill others.                  *)
OpChange(t) ==
  /\ th' \in [Threads -> Rec]
  /\ \A x \in Threads : x # t => (th'[x].running => th'[x] = th[x])
  /\ codes' \in 0 .. MaxCode - 1 /\ turn' \in {t, NoThread}
  /\ turn' # NoThread => th'[t].running /\ th'[t].depth > 0

LEMMA OpcodeChanges ==
  ASSUME Typed, Executes, NEW t \in Threads, turn = t,
         \/ Plain(t) \/ Wait(t) \/ SleepOp(t) \/ CallOp(t) \/ ReturnOp(t) \/ Unknown(t)
         \/ \E sig \in Signals : SignalOp(t, sig)
         \/ \E m \in SUBSET Signals : SetMask(t, m)
  PROVE  OpChange(t) /\ UNCHANGED keptByMost
<1>1. /\ th \in [Threads -> Rec] /\ codes \in 0 .. MaxCode - 1
      /\ t # NoThread /\ MaxDepth \in Nat /\ MaxSleep \in Nat
  BY CobAssumption DEF Typed, Rec, Threads
<1>2. th[t] \in Rec
  BY <1>1
<1>3. /\ th[t].running \in BOOLEAN /\ th[t].depth \in 0 .. MaxDepth
      /\ th[t].sleep \in 0 .. MaxSleep /\ th[t].mask \in SUBSET Signals
      /\ th[t].running /\ th[t].depth > 0
  BY <1>1, <1>2 DEF Rec, Executes, Running
<1>4. ASSUME NEW r \in Rec, th' = [th EXCEPT ![t] = r], NEW more \in BOOLEAN, Goes(t, more),
             more => r.running /\ r.depth > 0
      PROVE  OpChange(t)
  <2>1. codes' \in 0 .. MaxCode - 1 /\ turn' \in {t, NoThread} /\ (turn' # NoThread => more)
    BY <1>1, <1>4, GoesFacts
  <2>2. th' \in [Threads -> Rec] /\ th'[t] = r /\ \A x \in Threads : x # t => th'[x] = th[x]
    BY <1>1, <1>4
  <2>. QED  BY <1>4, <2>1, <2>2 DEF OpChange
<1>5. ASSUME NEW more \in BOOLEAN, Goes(t, more), UNCHANGED th
      PROVE  OpChange(t)
  <2>1. codes' \in 0 .. MaxCode - 1 /\ turn' \in {t, NoThread} /\ (turn' # NoThread => more)
    BY <1>1, <1>5, GoesFacts
  <2>. QED  BY <1>1, <1>3, <1>5, <2>1 DEF OpChange
<1>6. CASE Plain(t)
  BY <1>5, <1>6 DEF Plain
<1>7. CASE Wait(t)
  BY <1>5, <1>7 DEF Wait
<1>8. CASE SleepOp(t)
  <2>1. PICK n \in 1 .. MaxSleep : th' = [th EXCEPT ![t].sleep = n]
    BY <1>8 DEF SleepOp
  <2>2. Goes(t, FALSE) /\ UNCHANGED keptByMost
    BY <1>8 DEF SleepOp
  <2>3. PICK r : r = [th[t] EXCEPT !.sleep = n]
    OBVIOUS
  <2>4. n \in 0 .. MaxSleep
    BY <1>1
  <2>5. r \in Rec
    BY <1>2, <2>3, <2>4 DEF Rec
  <2>6. th' = [th EXCEPT ![t] = r]
    BY <2>1, <2>3
  <2>. QED  BY <1>4, <2>2, <2>5, <2>6
<1>9. CASE CallOp(t)
  <2>1. /\ th[t].depth < MaxDepth /\ th' = [th EXCEPT ![t].depth = @ + 1]
        /\ Goes(t, TRUE) \/ Goes(t, FALSE)
        /\ UNCHANGED keptByMost
    BY <1>9 DEF CallOp
  <2>2. PICK r : r = [th[t] EXCEPT !.depth = @ + 1]
    OBVIOUS
  <2>3. th[t].depth + 1 \in 0 .. MaxDepth /\ th[t].depth + 1 > 0
    BY <1>1, <1>3, <2>1
  <2>4. r \in Rec
    BY <1>2, <2>2, <2>3 DEF Rec
  <2>5. r.running /\ r.depth > 0
    BY <1>2, <1>3, <2>2, <2>3 DEF Rec
  <2>6. th' = [th EXCEPT ![t] = r]
    BY <2>1, <2>2
  <2>. QED  BY <1>4, <2>1, <2>4, <2>5, <2>6
<1>10. CASE ReturnOp(t)
  <2>1. /\ th' = [th EXCEPT ![t].depth = @ - 1]
        /\ Goes(t, th[t].depth > 1)
        /\ UNCHANGED keptByMost
    BY <1>10 DEF ReturnOp
  <2>2. PICK r : r = [th[t] EXCEPT !.depth = @ - 1]
    OBVIOUS
  <2>3. th[t].depth - 1 \in 0 .. MaxDepth /\ (th[t].depth > 1 => th[t].depth - 1 > 0)
    BY <1>1, <1>3
  <2>4. r \in Rec
    BY <1>2, <2>2, <2>3 DEF Rec
  <2>5. th[t].depth > 1 => r.running /\ r.depth > 0
    BY <1>2, <1>3, <2>2, <2>3 DEF Rec
  <2>6. th' = [th EXCEPT ![t] = r]
    BY <2>1, <2>2
  <2>7. CASE th[t].depth > 1
    <3>1. Goes(t, TRUE)
      BY <2>1, <2>7 DEF Goes
    <3>. QED  BY <1>4, <2>1, <2>4, <2>5, <2>6, <2>7, <3>1
  <2>8. CASE ~ (th[t].depth > 1)
    <3>1. Goes(t, FALSE)
      BY <2>1, <2>8 DEF Goes
    <3>. QED  BY <1>4, <2>1, <2>4, <2>6, <3>1
  <2>. QED  BY <2>7, <2>8
<1>11. CASE Unknown(t)
  <2>1. /\ th' = [th EXCEPT ![t].depth = @ - 1, ![t].running = th[t].depth > 1]
        /\ Goes(t, FALSE)
        /\ UNCHANGED keptByMost
    BY <1>11 DEF Unknown
  <2>2. PICK r : r = [th[t] EXCEPT !.depth = @ - 1, !.running = th[t].depth > 1]
    OBVIOUS
  <2>3. th[t].depth - 1 \in 0 .. MaxDepth /\ (th[t].depth > 1) \in BOOLEAN
    BY <1>1, <1>3
  <2>4. r \in Rec
    BY <1>2, <2>2, <2>3 DEF Rec
  <2>5. th' = [th EXCEPT ![t] = r]
    BY <2>1, <2>2
  <2>. QED  BY <1>4, <2>1, <2>4, <2>5
<1>12. ASSUME NEW sig \in Signals, SignalOp(t, sig)
       PROVE  OpChange(t) /\ UNCHANGED keptByMost
  <2> DEFINE hit == {k \in Range(childs) \cup {Root} : sig \in th[k].mask}
  <2>1. /\ th' = [k \in Threads |-> IF k \in hit THEN [th[k] EXCEPT !.running = FALSE] ELSE th[k]]
        /\ Goes(t, t \notin hit)
        /\ UNCHANGED keptByMost
    BY <1>12 DEF SignalOp
  <2> HIDE DEF hit
  <2>2. ASSUME NEW k \in Threads
        PROVE  /\ th'[k] \in Rec
               /\ th'[k].running => th'[k] = th[k]
               /\ k \notin hit => th'[k] = th[k]
    <3>1. th[k] \in Rec
      BY <1>1
    <3>2. [th[k] EXCEPT !.running = FALSE] \in Rec
      BY <3>1 DEF Rec
    <3>3. th'[k] = IF k \in hit THEN [th[k] EXCEPT !.running = FALSE] ELSE th[k]
      BY <2>1
    <3>4. ~ [th[k] EXCEPT !.running = FALSE].running
      BY <3>1 DEF Rec
    <3>. QED  BY <3>1, <3>2, <3>3, <3>4
  <2>3. th' \in [Threads -> Rec]
    BY <2>1, <2>2
  <2>4. PICK more \in BOOLEAN : more = (t \notin hit)
    OBVIOUS
  <2>5. codes' \in 0 .. MaxCode - 1 /\ turn' \in {t, NoThread} /\ (turn' # NoThread => more)
    BY <1>1, <2>1, <2>4, GoesFacts
  <2>. QED  BY <1>3, <2>1, <2>2, <2>3, <2>4, <2>5 DEF OpChange
<1>13. ASSUME NEW m \in SUBSET Signals, SetMask(t, m)
       PROVE  OpChange(t) /\ UNCHANGED keptByMost
  <2>1. /\ th' = [th EXCEPT ![t].mask = m]
        /\ Goes(t, TRUE)
        /\ UNCHANGED keptByMost
    BY <1>13 DEF SetMask
  <2>2. PICK r : r = [th[t] EXCEPT !.mask = m]
    OBVIOUS
  <2>3. r \in Rec
    BY <1>2, <2>2 DEF Rec
  <2>4. r.running /\ r.depth > 0
    BY <1>2, <1>3, <2>2 DEF Rec
  <2>5. th' = [th EXCEPT ![t] = r]
    BY <2>1, <2>2
  <2>. QED  BY <1>4, <2>1, <2>3, <2>4, <2>5
<1>14. UNCHANGED keptByMost
  BY <1>6, <1>7, <1>8, <1>9, <1>10, <1>11, <1>12, <1>13
     DEF Plain, Wait, SleepOp, CallOp, ReturnOp, Unknown
<1>15. OpChange(t)
  BY <1>6, <1>7, <1>8, <1>9, <1>10, <1>11, <1>12, <1>13
<1>. QED  BY <1>14, <1>15

LEMMA OpcodeKeeps ==
  ASSUME CobInv, NEW t \in Threads, turn = t, OpChange(t), UNCHANGED keptByMost
  PROVE  CobInv'
<1>1. Typed /\ Listed /\ Dead /\ Executes /\ InTick
  BY DEF CobInv
<1>2. /\ UNCHANGED <<childs, freeThreads, made>> /\ UNCHANGED <<at, i, query, due, ran>>
  BY DEF keptByMost, keptByOps
<1>3. /\ th' \in [Threads -> Rec]
      /\ \A x \in Threads : x # t => (th'[x].running => th'[x] = th[x])
      /\ codes' \in 0 .. MaxCode - 1 /\ turn' \in {t, NoThread}
      /\ turn' # NoThread => th'[t].running /\ th'[t].depth > 0
  BY DEF OpChange
<1>4. t # NoThread /\ Root \notin Kids /\ Running(t) /\ at # "idle"
  BY <1>1, CobAssumption DEF Threads, Executes
<1>5. Typed'
  BY <1>1, <1>2, <1>3 DEF Typed, Rec
<1>6. Listed'
  BY <1>1, <1>2 DEF Listed, NoTwice
<1>7. Dead'
  <2>1. \A x \in Threads : ~ th[x].running => ~ th'[x].running
    BY <1>3, <1>4 DEF Running
  <2>2. freeThreads \in Seq(Kids)
    BY <1>1 DEF Typed
  <2>3. \A k \in 1 .. Len(freeThreads) : freeThreads[k] \in Threads
    BY <2>2, QueueFacts DEF Threads
  <2>. QED  BY <1>1, <1>2, <2>1, <2>3 DEF Dead, Running, Threads
<1>8. Executes'
  BY <1>2, <1>3, <1>4 DEF Executes, Running
<1>9. InTick'
  <2>1. childs \in Seq(Kids)
    BY <1>1 DEF Typed
  <2>2. Len(childs) \in Nat
    BY <2>1, QueueFacts
  <2>3. \A x \in Threads : x # turn => Elsewhere(x)
    BY <1>3 DEF Elsewhere
  <2>. QED  BY <1>1, <1>2, <1>3, <2>2, <2>3, InTickKept
<1>. QED  BY <1>5, <1>6, <1>7, <1>8, <1>9 DEF CobInv

-----------------------------------------------------------------------------
(* Threads that are started.                                               *)
LEMMA StartedFacts ==
  ASSUME NEW mask \in SUBSET Signals
  PROVE  /\ Started(mask) \in Rec /\ Started(mask).running
         /\ Started(mask).depth = 1 /\ Started(mask).sleep = 0
         /\ Blank \in Rec /\ ~ Blank.running
<1>1. 0 \in 0 .. MaxSleep /\ 0 \in 0 .. MaxDepth /\ 1 \in 0 .. MaxDepth /\ {} \in SUBSET Signals
  BY CobAssumption
<1>. QED  BY <1>1 DEF Started, Blank, Rec

LEMMA ForkKeeps ==
  ASSUME CobInv, NEW t \in Threads, NEW byRoot \in BOOLEAN, Fork(t, byRoot),
         NEW r \in Rec, th' = [th EXCEPT ![t] = r]
  PROVE  /\ th' \in [Threads -> Rec] /\ th'[t] = r /\ ~ Running(t)
         /\ \A x \in Threads : x # t => th'[x] = th[x]
         /\ Listed' /\ Dead'
         /\ childs' \in Seq(Kids) /\ freeThreads' \in Seq(Kids) /\ made' \subseteq Kids
         /\ Len(childs') \in Nat /\ Len(childs) <= Len(childs')
         /\ \A j \in 1 .. Len(childs) :
              j \in 1 .. Len(childs') /\ childs'[j] = childs[j] /\ childs[j] # t
<1>1. Typed /\ Listed /\ Dead
  BY DEF CobInv
<1>2. /\ ~ Running(t)
      /\ childs' \in Seq(Kids) /\ freeThreads' \in Seq(Kids) /\ made' \subseteq Kids
      /\ Listed'
      /\ \A k \in 1 .. Len(freeThreads') : freeThreads'[k] # t /\ ~ Running(freeThreads'[k])
      /\ \A x \in Kids \ made' : x # t /\ ~ Running(x)
      /\ Len(childs) <= Len(childs')
      /\ \A j \in 1 .. Len(childs) :
           j \in 1 .. Len(childs') /\ childs'[j] = childs[j] /\ childs[j] # t
  BY <1>1, ForkFacts
<1>3. th \in [Threads -> Rec]
  BY <1>1 DEF Typed, Rec
<1>4. /\ th' \in [Threads -> Rec] /\ th'[t] = r
      /\ \A x \in Threads : x # t => th'[x] = th[x]
  BY <1>3
<1>5. \A k \in 1 .. Len(freeThreads') : freeThreads'[k] \in Threads
  BY <1>2, QueueFacts DEF Threads
<1>6. \A k \in 1 .. Len(freeThreads') : ~ th'[freeThreads'[k]].running
  BY <1>2, <1>4, <1>5 DEF Running
<1>7. \A x \in Kids \ made' : ~ th'[x].running
  BY <1>2, <1>4 DEF Running, Threads
<1>8. Dead'
  BY <1>6, <1>7 DEF Dead, Running
<1>9. Len(childs') \in Nat
  BY <1>2, QueueFacts
<1>. QED  BY <1>2, <1>4, <1>8, <1>9

LEMMA LaunchKeeps ==
  ASSUME CobInv, NEW t \in Threads, Launch(t)
  PROVE  CobInv'
<1>1. /\ at = "idle" \/ turn # NoThread
      /\ Fork(t, TRUE)
      /\ UNCHANGED <<sched, due, ran>>
  BY DEF Launch
<1>2. PICK r \in {Started({}), Blank} : th' = [th EXCEPT ![t] = r]
  BY DEF Launch
<1>3. r \in Rec /\ (r.running => r.depth > 0 /\ r.sleep <= 1)
  BY <1>2, StartedFacts
<1>4. /\ th' \in [Threads -> Rec] /\ th'[t] = r /\ ~ Running(t)
      /\ \A x \in Threads : x # t => th'[x] = th[x]
      /\ Listed' /\ Dead'
      /\ childs' \in Seq(Kids) /\ freeThreads' \in Seq(Kids) /\ made' \subseteq Kids
      /\ Len(childs') \in Nat /\ Len(childs) <= Len(childs')
      /\ \A j \in 1 .. Len(childs) :
           j \in 1 .. Len(childs') /\ childs'[j] = childs[j] /\ childs[j] # t
  BY <1>1, <1>2, <1>3, ForkKeeps
<1>5. UNCHANGED <<at, i, turn, codes, query, due, ran>>
  BY <1>1 DEF sched
<1>6. Typed /\ Executes /\ InTick
  BY DEF CobInv
<1>7. Typed'
  BY <1>4, <1>5, <1>6 DEF Typed, Rec
<1>8. Executes'
  BY <1>4, <1>5, <1>6 DEF Executes, Running, Typed
<1>9. InTick'
  <2>1. CASE at = "idle"
    BY <1>5, <2>1, InTickNext
  <2>2. CASE turn # NoThread
    <3>1. \A x \in Threads : x # turn => Elsewhere(x)
      BY <1>3, <1>4, <2>2 DEF Elsewhere
    <3>. QED  BY <1>4, <1>5, <1>6, <3>1, InTickKept
  <2>. QED  BY <1>1, <2>1, <2>2
<1>. QED  BY <1>4, <1>7, <1>8, <1>9 DEF CobInv

LEMMA ExecuteKeeps ==
  ASSUME CobInv, NEW t \in Threads, Execute(t)
  PROVE  CobInv'
<1>1. /\ at = "idle" /\ Fork(t, TRUE)
      /\ th' = [th EXCEPT ![t] = Started({})]
      /\ at' = "query" /\ query' = t
      /\ UNCHANGED <<i, turn, codes, due, ran>>
  BY DEF Execute
<1>2. Started({}) \in Rec
  BY StartedFacts
<1>4. /\ th' \in [Threads -> Rec] /\ Listed' /\ Dead'
      /\ childs' \in Seq(Kids) /\ freeThreads' \in Seq(Kids) /\ made' \subseteq Kids
  BY <1>1, <1>2, ForkKeeps
<1>6. Typed /\ Executes
  BY DEF CobInv
<1>7. Typed'
  BY <1>1, <1>4, <1>6 DEF Typed, Rec
<1>8. Executes'
  BY <1>1, <1>6 DEF Executes
<1>9. InTick'
  BY <1>1, InTickNext
<1>. QED  BY <1>4, <1>7, <1>8, <1>9 DEF CobInv

LEMMA StartScriptKeeps ==
  ASSUME CobInv, NEW t \in Threads, turn = t, NEW k \in Threads, StartScript(t, k)
  PROVE  CobInv'
<1>1. /\ Fork(k, t = Root)
      /\ th' = [th EXCEPT ![k] = Started(th[t].mask)]
      /\ Goes(t, TRUE)
      /\ UNCHANGED <<at, i, query, due, ran>>
  BY DEF StartScript, keptByOps
<1>2. Typed /\ Executes /\ InTick
  BY DEF CobInv
<1>3. th \in [Threads -> Rec] /\ t # NoThread
  BY <1>2, CobAssumption DEF Typed, Rec, Threads
<1>4. th[t] \in Rec
  BY <1>3
<1>5. th[t].mask \in SUBSET Signals
  BY <1>4 DEF Rec
<1>6. PICK r : r = Started(th[t].mask)
  OBVIOUS
<1>7. r \in Rec /\ r.running /\ r.depth > 0 /\ r.sleep <= 1
  BY <1>5, <1>6, StartedFacts
<1>8. PICK byRoot \in BOOLEAN : Fork(k, byRoot)
  <2>1. CASE t = Root
    <3>1. Fork(k, TRUE)
      BY <1>1, <2>1 DEF Fork
    <3>. QED  BY <3>1
  <2>2. CASE t # Root
    <3>1. Fork(k, FALSE)
      BY <1>1, <2>2 DEF Fork
    <3>. QED  BY <3>1
  <2>. QED  BY <2>1, <2>2
<1>9. /\ th' \in [Threads -> Rec] /\ th'[k] = r /\ ~ Running(k)
      /\ \A x \in Threads : x # k => th'[x] = th[x]
      /\ Listed' /\ Dead'
      /\ childs' \in Seq(Kids) /\ freeThreads' \in Seq(Kids) /\ made' \subseteq Kids
      /\ Len(childs') \in Nat /\ Len(childs) <= Len(childs')
      /\ \A j \in 1 .. Len(childs) :
           j \in 1 .. Len(childs') /\ childs'[j] = childs[j] /\ childs[j] # k
  BY <1>1, <1>6, <1>7, <1>8, ForkKeeps
<1>10. codes' \in 0 .. MaxCode - 1 /\ turn' \in {t, NoThread}
  <2>1. codes \in 0 .. MaxCode - 1
    BY <1>2 DEF Typed
  <2>. QED  BY <1>1, <2>1, GoesFacts
<1>11. Typed'
  BY <1>1, <1>2, <1>9, <1>10 DEF Typed, Rec
<1>12. Executes'
  BY <1>1, <1>2, <1>3, <1>9, <1>10 DEF Executes, Running
<1>13. InTick'
  <2>1. \A x \in Threads : x # turn => Elsewhere(x)
    BY <1>3, <1>7, <1>9 DEF Elsewhere
  <2>. QED  BY <1>1, <1>2, <1>9, <1>10, <2>1, InTickKept
<1>. QED  BY <1>9, <1>11, <1>12, <1>13 DEF CobInv

-----------------------------------------------------------------------------
(* The start of a turn: either opcodes are executed, or the thread does    *)
(* not run any more, or it goes on sleeping.                               *)
Begun(t) == turn' = t /\ codes' = 0 /\ ran' = ran \cup {t} /\ th'[t].running /\ th'[t].depth > 0
NotBegun(t) == UNCHANGED <<turn, codes, ran>>

LEMMA BeginFacts ==
  ASSUME Typed, NEW t \in Threads, NEW dt \in {0, 1}, Begin(t, dt)
  PROVE  /\ th' \in [Threads -> Rec]
         /\ \A x \in Threads : x # t => th'[x] = th[x]
         /\ th'[t].running => Running(t)
         /\ \/ Begun(t) /\ (dt = 1 => Awake(t))
            \/ NotBegun(t) /\ (dt = 1 /\ th'[t].running => ~ Awake(t))
<1>1. /\ th \in [Threads -> Rec] /\ MaxSleep \in Nat
  BY CobAssumption DEF Typed, Rec
<1>2. th[t] \in Rec
  BY <1>1
<1>3. /\ th[t].running \in BOOLEAN /\ th[t].depth \in 0 .. MaxDepth
      /\ th[t].sleep \in 0 .. MaxSleep /\ th[t].mask \in SUBSET Signals
      /\ MaxDepth \in Nat
  BY <1>2, CobAssumption DEF Rec
<1> DEFINE s == IF th[t].sleep > dt THEN th[t].sleep - dt ELSE 0
           stays == ~ Running(t) \/ th[t].sleep > dt \/ (th[t].sleep > 0 /\ dt = 0)
<1>4. CASE stays
  <2>1. /\ th' = [th EXCEPT ![t].sleep = IF Running(t) THEN s ELSE @]
        /\ NotBegun(t)
    BY <1>4 DEF Begin, NotBegun
  <2>2. PICK n : n = IF Running(t) THEN s ELSE th[t].sleep
    OBVIOUS
  <2>3. s \in 0 .. MaxSleep
    BY <1>1, <1>3
  <2> HIDE DEF s
  <2>4. n \in 0 .. MaxSleep
    BY <1>3, <2>2, <2>3
  <2>5. PICK r : r = [th[t] EXCEPT !.sleep = n]
    OBVIOUS
  <2>6. r \in Rec /\ r.running = th[t].running
    BY <1>2, <2>4, <2>5 DEF Rec
  <2>7. th' = [th EXCEPT ![t] = r]
    BY <2>1, <2>2, <2>5
  <2>8. /\ th' \in [Threads -> Rec] /\ th'[t] = r
        /\ \A x \in Threads : x # t => th'[x] = th[x]
    BY <1>1, <2>6, <2>7
  <2>9. th'[t].running => Running(t)
    BY <2>6, <2>8 DEF Running
  <2>10. dt = 1 /\ th'[t].running => ~ Awake(t)
    BY <1>1, <1>3, <1>4, <2>9 DEF Awake
  <2>. QED  BY <2>1, <2>8, <2>9, <2>10
<1>5. CASE ~ stays /\ th[t].depth = 0
  <2>1. /\ th' = [th EXCEPT ![t].running = FALSE, ![t].sleep = 0]
        /\ NotBegun(t)
    BY <1>5 DEF Begin, NotBegun
  <2>2. PICK r : r = [th[t] EXCEPT !.running = FALSE, !.sleep = 0]
    OBVIOUS
  <2>0. 0 \in 0 .. MaxSleep
    BY <1>1
  <2> HIDE DEF s, stays
  <2>3. r \in Rec /\ ~ r.running
    BY <1>2, <2>0, <2>2 DEF Rec
  <2>4. th' = [th EXCEPT ![t] = r]
    BY <2>1, <2>2
  <2>5. /\ th' \in [Threads -> Rec] /\ th'[t] = r
        /\ \A x \in Threads : x # t => th'[x] = th[x]
    BY <1>1, <2>3, <2>4
  <2>. QED  BY <2>1, <2>3, <2>5
<1>6. CASE ~ stays /\ th[t].depth # 0
  <2>1. /\ th' = [th EXCEPT ![t].sleep = 0]
        /\ turn' = t /\ codes' = 0 /\ ran' = ran \cup {t}
    BY <1>6 DEF Begin
  <2>2. PICK r : r = [th[t] EXCEPT !.sleep = 0]
    OBVIOUS
  <2>3. r \in Rec /\ r.running = th[t].running /\ r.depth = th[t].depth
    BY <1>1, <1>2, <2>2 DEF Rec
  <2>4. th' = [th EXCEPT ![t] = r]
    BY <2>1, <2>2
  <2>5. /\ th' \in [Threads -> Rec] /\ th'[t] = r
        /\ \A x \in Threads : x # t => th'[x] = th[x]
    BY <1>1, <2>3, <2>4
  <2>6. Running(t) /\ th[t].depth > 0
    BY <1>3, <1>6
  <2>7. dt = 1 => Awake(t)
    BY <1>1, <1>3, <1>6, <2>6 DEF Awake
  <2>8. Begun(t)
    BY <2>1, <2>3, <2>5, <2>6 DEF Begun, Running
  <2>. QED  BY <2>5, <2>6, <2>7, <2>8
<1>. QED  BY <1>4, <1>5, <1>6

(* Whoever's turn it is, the rest of the invariant stands.                 *)
LEMMA BeginKeeps ==
  ASSUME Typed, Listed, Dead, Executes, turn = NoThread, at # "idle",
         NEW t \in Threads, NEW dt \in {0, 1}, Begin(t, dt),
         UNCHANGED <<childs, freeThreads, made, at, query, due>>,
         i' \in -1 .. Cardinality(Kids)
  PROVE  Typed' /\ Listed' /\ Dead' /\ Executes'
<1>1. /\ th' \in [Threads -> Rec]
      /\ \A x \in Threads : x # t => th'[x] = th[x]
      /\ th'[t].running => Running(t)
      /\ Begun(t) \/ NotBegun(t)
  BY BeginFacts
<1>2. 0 \in 0 .. MaxCode - 1
  BY CobAssumption
<1>3. Typed'
  BY <1>1, <1>2 DEF Typed, Rec, Begun, NotBegun
<1>4. Listed'
  BY DEF Listed, NoTwice
<1>5. Dead'
  <2>1. \A x \in Threads : ~ th[x].running => ~ th'[x].running
    BY <1>1 DEF Running
  <2>2. freeThreads \in Seq(Kids)
    BY DEF Typed
  <2>3. \A k \in 1 .. Len(freeThreads) : freeThreads[k] \in Threads
    BY <2>2, QueueFacts DEF Threads
  <2>. QED  BY <2>1, <2>3 DEF Dead, Running, Threads
<1>6. Executes'
  BY <1>1 DEF Executes, Running, Begun, NotBegun
<1>. QED  BY <1>3, <1>4, <1>5, <1>6

LEMMA NextChildKeeps ==
  ASSUME CobInv, NextChild
  PROVE  CobInv' /\ (turn' # NoThread => turn' \notin ran /\ turn' \in due)
<1>1. Typed /\ Listed /\ Dead /\ Executes /\ InTick
  BY DEF CobInv
<1>2. /\ at = "tick" /\ turn = NoThread /\ i > 0 /\ i' = i - 1
      /\ UNCHANGED <<childs, freeThreads, made, at, query, due>>
      /\ Begin(childs[i], 1)
  BY DEF NextChild
<1>3. /\ i <= Len(childs)
      /\ \A x \in due : x = Root \/ \E j \in 1 .. Len(childs) : childs[j] = x
      /\ \A x \in due \ ran : Running(x) =>
           /\ Awake(x)
           /\ x = Root => i >= 0
           /\ x # Root => \E j \in 1 .. i : childs[j] = x
      /\ \A j \in 1 .. i : childs[j] \notin ran /\ (Awake(childs[j]) => childs[j] \in due)
      /\ i >= 0 => Root \notin ran
  BY <1>1, <1>2 DEF InTick
<1>4. /\ childs \in Seq(Kids) /\ i \in -1 .. Cardinality(Kids) /\ Cardinality(Kids) \in Nat
      /\ due \subseteq Threads
  BY <1>1, CobAssumption, FS_CardinalityType DEF Typed
<1>5. Len(childs) \in Nat /\ \A j \in 1 .. Len(childs) : childs[j] \in Kids
  BY <1>4, QueueFacts
<1>6. i \in 1 .. Len(childs) /\ i \in 1 .. i
  BY <1>2, <1>3, <1>4, <1>5
<1>7. PICK t \in Kids : t = childs[i]
  BY <1>5, <1>6
<1>8. /\ t \in Threads /\ t # Root /\ t \notin ran /\ t # NoThread
      /\ Awake(t) => t \in due
  BY <1>3, <1>6, <1>7, CobAssumption DEF Threads
<1>9. Begin(t, 1)
  BY <1>2, <1>7
<1>10. /\ \A x \in Threads : x # t => th'[x] = th[x]
       /\ th'[t].running => Running(t)
       /\ \/ Begun(t) /\ Awake(t)
          \/ NotBegun(t) /\ (th'[t].running => ~ Awake(t))
  BY <1>1, <1>8, <1>9, BeginFacts
<1>11. i' \in -1 .. Cardinality(Kids)
  BY <1>2, <1>4
<1>12. Typed' /\ Listed' /\ Dead' /\ Executes'
  BY <1>1, <1>2, <1>8, <1>9, <1>11, BeginKeeps
<1>13. turn' # NoThread => turn' = t /\ turn' \in ran' /\ t \in due
  BY <1>2, <1>8, <1>10 DEF Begun, NotBegun
<1>14. ran \subseteq ran' /\ ran' \subseteq ran \cup {t}
  BY <1>10 DEF Begun, NotBegun
<1>15. i - 1 <= Len(childs) /\ i - 1 # -1 /\ i - 1 >= 0
       /\ \A j \in 1 .. i : j # i => j \in 1 .. i - 1
  BY <1>2, <1>4, <1>3, <1>5
<1>16. ASSUME NEW x \in due \ ran', th'[x].running
       PROVE  /\ AwakeNext(x)
              /\ x # Root => \E j \in 1 .. i - 1 : childs[j] = x
  <2>1. x \in Threads /\ x \notin ran
    BY <1>4, <1>14
  <2>2. CASE x = t
    <3>1. ~ Awake(t) /\ Running(t)
      BY <1>10, <1>16, <2>2 DEF Begun
    <3>. QED  BY <1>3, <2>1, <2>2, <3>1
  <2>3. CASE x # t
    <3>1. th'[x] = th[x]
      BY <1>10, <2>1, <2>3
    <3>2. Running(x)
      BY <1>16, <3>1 DEF Running
    <3>3. Awake(x) /\ (x # Root => \E j \in 1 .. i : childs[j] = x)
      BY <1>3, <2>1, <3>2
    <3>4. AwakeNext(x)
      BY <3>1, <3>3 DEF Awake, AwakeNext, Running
    <3>. QED  BY <1>7, <1>15, <2>3, <3>3, <3>4
  <2>. QED  BY <2>2, <2>3
<1>17. ASSUME NEW j \in 1 .. i - 1
       PROVE  childs[j] \notin ran' /\ (AwakeNext(childs[j]) => childs[j] \in due)
  <2>1. j \in 1 .. i /\ j \in 1 .. Len(childs) /\ j # i
    BY <1>3, <1>4, <1>5
  <2>2. childs[j] # t
    BY <1>1, <1>6, <1>7, <2>1 DEF Listed, NoTwice
  <2>3. childs[j] \in Threads
    BY <1>5, <2>1 DEF Threads
  <2>4. th'[childs[j]] = th[childs[j]]
    BY <1>10, <2>2, <2>3
  <2>5. AwakeNext(childs[j]) => Awake(childs[j])
    BY <2>4 DEF Awake, AwakeNext, Running
  <2>. QED  BY <1>3, <1>14, <2>1, <2>2, <2>5
<1>18. i - 1 >= 0 => Root \notin ran'
  BY <1>2, <1>3, <1>4, <1>8, <1>14
<1>19. InTick'
  BY <1>2, <1>3, <1>13, <1>15, <1>16, <1>17, <1>18, InTickNext
<1>. QED  BY <1>8, <1>12, <1>13, <1>19 DEF CobInv

LEMMA RootsTurnKeeps ==
  ASSUME CobInv, RootsTurn
  PROVE  CobInv' /\ (turn' # NoThread => turn' \notin ran /\ turn' = Root)
<1>1. Typed /\ Listed /\ Dead /\ Executes /\ InTick
  BY DEF CobInv
<1>2. /\ at = "tick" /\ turn = NoThread /\ i = 0 /\ i' = -1
      /\ UNCHANGED <<childs, freeThreads, made, at, query, due>>
      /\ Begin(Root, 1)
  BY DEF RootsTurn
<1>3. /\ \A x \in due : x = Root \/ \E j \in 1 .. Len(childs) : childs[j] = x
      /\ \A x \in due \ ran : Running(x) =>
           /\ Awake(x)
           /\ x # Root => \E j \in 1 .. i : childs[j] = x
      /\ Root \notin ran
  BY <1>1, <1>2 DEF InTick
<1>4. /\ childs \in Seq(Kids) /\ Cardinality(Kids) \in Nat
      /\ due \subseteq Threads /\ Root \in Threads /\ Root # NoThread
  BY <1>1, CobAssumption, FS_CardinalityType DEF Typed, Threads
<1>5. Len(childs) \in Nat
  BY <1>4, QueueFacts
<1>6. /\ \A x \in Threads : x # Root => th'[x] = th[x]
      /\ th'[Root].running => Running(Root)
      /\ \/ Begun(Root) /\ Awake(Root)
         \/ NotBegun(Root) /\ (th'[Root].running => ~ Awake(Root))
  BY <1>1, <1>2, <1>4, BeginFacts
<1>7. i' \in -1 .. Cardinality(Kids)
  BY <1>2, <1>4
<1>8. Typed' /\ Listed' /\ Dead' /\ Executes'
  BY <1>1, <1>2, <1>4, <1>7, BeginKeeps
<1>9. /\ turn' # NoThread => turn' = Root /\ turn' \in ran'
      /\ ran \subseteq ran' /\ (NotBegun(Root) \/ Root \in ran')
  BY <1>2, <1>6 DEF Begun, NotBegun
<1>10. \A x \in due \ ran' : ~ th'[x].running
  <2> SUFFICES ASSUME NEW x \in due \ ran', th'[x].running PROVE FALSE
    OBVIOUS
  <2>1. x \in Threads /\ x \notin ran
    BY <1>4, <1>9
  <2>2. CASE x = Root
    <3>1. ~ Awake(Root) /\ Running(Root)
      BY <1>6, <1>9, <2>2 DEF Begun
    <3>. QED  BY <1>3, <2>1, <2>2, <3>1
  <2>3. CASE x # Root
    <3>1. Running(x)
      BY <1>6, <2>1, <2>3 DEF Running
    <3>. QED  BY <1>2, <1>3, <2>1, <2>3, <3>1
  <2>. QED  BY <2>2, <2>3
<1>11. -1 <= Len(childs) /\ 1 .. -1 = {}
  BY <1>5
<1>12. InTick'
  BY <1>2, <1>3, <1>9, <1>10, <1>11, InTickNext
<1>. QED  BY <1>3, <1>8, <1>9, <1>12 DEF CobInv

LEMMA RunAgainKeeps ==
  ASSUME CobInv, RunAgain
  PROVE  CobInv'
<1>1. Typed /\ Listed /\ Dead /\ Executes
  BY DEF CobInv
<1>2. /\ at = "query" /\ turn = NoThread
      /\ UNCHANGED <<childs, freeThreads, made, at, i, query, due>>
      /\ Begin(query, 0)
  BY DEF RunAgain
<1>3. query \in Threads /\ i' \in -1 .. Cardinality(Kids)
  BY <1>1, <1>2 DEF Typed
<1>4. Typed' /\ Listed' /\ Dead' /\ Executes'
  BY <1>1, <1>2, <1>3, BeginKeeps
<1>5. InTick'
  BY <1>2, InTickNext
<1>. QED  BY <1>4, <1>5 DEF CobInv

LEMMA EndsKeep ==
  ASSUME CobInv, TickEnds \/ QueryEnds
  PROVE  CobInv'
<1>1. /\ at' = "idle" /\ turn = NoThread
      /\ i' = i \/ i' = 0
      /\ query' = query \/ query' = NoThread
      /\ UNCHANGED <<childs, freeThreads, th, made, turn, codes, due, ran>>
  BY DEF TickEnds, TickOver, QueryEnds
<1>2. Cardinality(Kids) \in Nat
  BY CobAssumption, FS_CardinalityType
<1>3. 0 \in -1 .. Cardinality(Kids)
  BY <1>2
<1>4. Typed' /\ Listed' /\ Dead' /\ Executes'
  BY <1>1, <1>3 DEF CobInv, Typed, Listed, NoTwice, Dead, Executes, Running
<1>5. InTick'
  BY <1>1, InTickNext
<1>. QED  BY <1>4, <1>5 DEF CobInv

-----------------------------------------------------------------------------
(* The start of a tick: the lists are cleaned.                             *)
LEMMA ConcatFacts ==
  ASSUME NEW S, NEW q \in Seq(S), NEW r \in Seq(S)
  PROVE  /\ q \o r \in Seq(S)
         /\ \A k \in 1 .. Len(q) : k \in 1 .. Len(q \o r) /\ (q \o r)[k] = q[k]
         /\ \A k \in 1 .. Len(r) :
              Len(q) + k \in 1 .. Len(q \o r) /\ (q \o r)[Len(q) + k] = r[k]
         /\ \A k \in 1 .. Len(q \o r) :
              k \in 1 .. Len(q) \/ \E j \in 1 .. Len(r) : k = Len(q) + j
<1>1. Len(q) \in Nat /\ Len(r) \in Nat
  BY QueueFacts
<1>2. /\ q \o r \in Seq(S) /\ Len(q \o r) = Len(q) + Len(r)
      /\ \A k \in 1 .. Len(q) + Len(r) :
           (q \o r)[k] = IF k <= Len(q) THEN q[k] ELSE r[k - Len(q)]
  BY ConcatProperties
<1>3. \A k \in 1 .. Len(q) : k \in 1 .. Len(q) + Len(r) /\ k <= Len(q)
  BY <1>1
<1>4. \A k \in 1 .. Len(r) :
        /\ Len(q) + k \in 1 .. Len(q) + Len(r) /\ ~ (Len(q) + k <= Len(q))
        /\ (Len(q) + k) - Len(q) = k
  BY <1>1
<1>5. ASSUME NEW k \in 1 .. Len(q) + Len(r)
      PROVE  k \in 1 .. Len(q) \/ \E j \in 1 .. Len(r) : k = Len(q) + j
  <2>1. k \in 1 .. Len(q) \/ (k - Len(q) \in 1 .. Len(r) /\ k = Len(q) + (k - Len(q)))
    BY <1>1
  <2>. QED  BY <2>1
<1>. QED  BY <1>2, <1>3, <1>4, <1>5

LEMMA ConcatNoTwice ==
  ASSUME NEW S, NEW q \in Seq(S), NEW r \in Seq(S), NoTwice(q), NoTwice(r),
         \A j \in 1 .. Len(q), k \in 1 .. Len(r) : q[j] # r[k]
  PROVE  NoTwice(q \o r)
<1> SUFFICES ASSUME NEW j \in 1 .. Len(q \o r), NEW k \in 1 .. Len(q \o r),
                    (q \o r)[j] = (q \o r)[k]
             PROVE  j = k
  BY DEF NoTwice
<1>1. /\ \A n \in 1 .. Len(q) : (q \o r)[n] = q[n]
      /\ \A n \in 1 .. Len(r) : (q \o r)[Len(q) + n] = r[n]
      /\ \A n \in 1 .. Len(q \o r) :
           n \in 1 .. Len(q) \/ \E m \in 1 .. Len(r) : n = Len(q) + m
  BY ConcatFacts
<1>2. CASE j \in 1 .. Len(q) /\ k \in 1 .. Len(q)
  BY <1>1, <1>2 DEF NoTwice
<1>3. CASE j \in 1 .. Len(q) /\ \E m \in 1 .. Len(r) : k = Len(q) + m
  BY <1>1, <1>3
<1>4. CASE (\E m \in 1 .. Len(r) : j = Len(q) + m) /\ k \in 1 .. Len(q)
  BY <1>1, <1>4
<1>5. CASE (\E m \in 1 .. Len(r) : j = Len(q) + m) /\ \E m \in 1 .. Len(r) : k = Len(q) + m
  <2>1. PICK m \in 1 .. Len(r) : j = Len(q) + m
    BY <1>5
  <2>2. PICK n \in 1 .. Len(r) : k = Len(q) + n
    BY <1>5
  <2>3. r[m] = r[n]
    BY <1>1, <2>1, <2>2
  <2>4. m = n
    BY <2>3 DEF NoTwice
  <2>. QED  BY <2>1, <2>2, <2>4
<1>. QED  BY <1>1, <1>2, <1>3, <1>4, <1>5

(* A list of different threads is no longer than there are threads.        *)
LEMMA NoTwiceShort ==
  ASSUME NEW q \in Seq(Kids), NoTwice(q)
  PROVE  Len(q) <= Cardinality(Kids)
<1>1. /\ Len(q) \in Nat /\ \A k \in 1 .. Len(q) : q[k] \in Kids
      /\ Cardinality(Kids) \in Nat /\ IsFiniteSet(Kids)
  BY QueueFacts, CobAssumption, FS_CardinalityType
<1> DEFINE f == [k \in 1 .. Len(q) |-> q[k]]
<1>2. f \in [1 .. Len(q) -> Kids]
  BY <1>1
<1>3. \A j, k \in 1 .. Len(q) : f[j] = f[k] => j = k
  BY DEF NoTwice
<1>4. IsFiniteSet(1 .. Len(q)) /\ Cardinality(1 .. Len(q)) = Len(q)
  <2>1. 1 \in Int /\ Len(q) \in Int
    BY <1>1
  <2>2. /\ IsFiniteSet(1 .. Len(q))
        /\ Cardinality(1 .. Len(q)) = IF 1 > Len(q) THEN 0 ELSE Len(q) - 1 + 1
    BY <2>1, FS_Interval
  <2>. QED  BY <1>1, <2>2
<1> HIDE DEF f
<1>5. ~ (Cardinality(Kids) < Len(q))
  BY <1>1, <1>2, <1>3, <1>4, FS_PigeonHole
<1>. QED  BY <1>1, <1>5

(* clean() moves the dead from one list to the other and loses nobody.     *)
LEMMA CleanFacts ==
  ASSUME Typed, Listed, Dead, Clean, UNCHANGED <<th, made>>
  PROVE  /\ childs' \in Seq(Kids) /\ freeThreads' \in Seq(Kids)
         /\ Listed' /\ Dead'
         /\ Len(childs') \in Nat /\ Len(childs') <= Cardinality(Kids)
         /\ \A t \in Kids : Running(t) => \E j \in 1 .. Len(childs') : childs'[j] = t
         /\ \A j \in 1 .. Len(childs') : childs'[j] \in Kids
<1>1. /\ childs \in Seq(Kids) /\ freeThreads \in Seq(Kids) /\ Kids \subseteq Threads
  BY DEF Typed, Threads
<1>2. PICK K : K = Kept(childs, Threads \ Alive)
  OBVIOUS
<1>3. childs' = Kept(childs, Alive) /\ freeThreads' = freeThreads \o K
  BY <1>2 DEF Clean
<1>4. /\ childs' \in Seq(Kids) /\ PartKept(childs', childs, Len(childs), Alive)
      /\ K \in Seq(Kids) /\ PartKept(K, childs, Len(childs), Threads \ Alive)
  BY <1>1, <1>2, <1>3, KeptFacts
<1>5. /\ Len(childs) \in Nat /\ \A j \in 1 .. Len(childs) : childs[j] \in Kids
      /\ Len(freeThreads) \in Nat /\ \A j \in 1 .. Len(freeThreads) : freeThreads[j] \in Kids
      /\ Len(childs') \in Nat /\ \A j \in 1 .. Len(childs') : childs'[j] \in Kids
      /\ Len(K) \in Nat /\ \A j \in 1 .. Len(K) : K[j] \in Kids
  BY <1>1, <1>4, QueueFacts
<1>6. /\ \A j \in 1 .. Len(childs') : \E k \in 1 .. Len(childs) :
           childs[k] \in Alive /\ childs'[j] = childs[k]
      /\ \A k \in 1 .. Len(childs) : childs[k] \in Alive =>
           \E j \in 1 .. Len(childs') : childs'[j] = childs[k]
      /\ NoTwice(childs')
  BY <1>4 DEF PartKept, Listed
<1>7. /\ \A j \in 1 .. Len(K) : \E k \in 1 .. Len(childs) :
           childs[k] \in Threads \ Alive /\ K[j] = childs[k]
      /\ \A k \in 1 .. Len(childs) : childs[k] \in Threads \ Alive =>
           \E j \in 1 .. Len(K) : K[j] = childs[k]
      /\ NoTwice(K)
  BY <1>4 DEF PartKept, Listed
<1>8. /\ \A j \in 1 .. Len(childs), k \in 1 .. Len(freeThreads) : childs[j] # freeThreads[k]
      /\ NoTwice(freeThreads)
  BY DEF Listed
<1>9. freeThreads' \in Seq(Kids) /\ NoTwice(freeThreads')
  <2>1. \A j \in 1 .. Len(freeThreads), k \in 1 .. Len(K) : freeThreads[j] # K[k]
    BY <1>7, <1>8
  <2>. QED  BY <1>1, <1>3, <1>4, <1>7, <1>8, <2>1, ConcatFacts, ConcatNoTwice
<1>10. /\ \A k \in 1 .. Len(freeThreads) :
            k \in 1 .. Len(freeThreads') /\ freeThreads'[k] = freeThreads[k]
       /\ \A k \in 1 .. Len(K) :
            Len(freeThreads) + k \in 1 .. Len(freeThreads') /\ freeThreads'[Len(freeThreads) + k] = K[k]
       /\ \A k \in 1 .. Len(freeThreads') :
            k \in 1 .. Len(freeThreads) \/ \E j \in 1 .. Len(K) : k = Len(freeThreads) + j
  BY <1>1, <1>3, <1>4, ConcatFacts
<1>11. \A k \in 1 .. Len(freeThreads') :
         \/ \E j \in 1 .. Len(freeThreads) : freeThreads'[k] = freeThreads[j]
         \/ \E j \in 1 .. Len(K) : freeThreads'[k] = K[j]
  BY <1>10
<1>12. \A j \in 1 .. Len(childs'), k \in 1 .. Len(freeThreads') : childs'[j] # freeThreads'[k]
  <2> SUFFICES ASSUME NEW j \in 1 .. Len(childs'), NEW k \in 1 .. Len(freeThreads'),
                      childs'[j] = freeThreads'[k]
               PROVE  FALSE
    OBVIOUS
  <2>1. PICK m \in 1 .. Len(childs) : childs[m] \in Alive /\ childs'[j] = childs[m]
    BY <1>6
  <2>2. CASE \E n \in 1 .. Len(freeThreads) : freeThreads'[k] = freeThreads[n]
    BY <1>8, <2>1, <2>2
  <2>3. CASE \E n \in 1 .. Len(K) : freeThreads'[k] = K[n]
    <3>1. PICK n \in 1 .. Len(K) : freeThreads'[k] = K[n]
      BY <2>3
    <3>2. K[n] \notin Alive
      BY <1>7
    <3>. QED  BY <2>1, <3>1, <3>2
  <2>. QED  BY <1>11, <2>2, <2>3
<1>13. ASSUME NEW t \in Kids
       PROVE  t \in made <=>
                \/ \E j \in 1 .. Len(childs') : childs'[j] = t
                \/ \E k \in 1 .. Len(freeThreads') : freeThreads'[k] = t
  <2>1. t \in made <=>
          \/ \E j \in 1 .. Len(childs) : childs[j] = t
          \/ \E k \in 1 .. Len(freeThreads) : freeThreads[k] = t
    BY DEF Listed
  <2>2. CASE t \in Alive
    <3>1. (\E j \in 1 .. Len(childs) : childs[j] = t)
             <=> \E j \in 1 .. Len(childs') : childs'[j] = t
      BY <1>6, <2>2
    <3>2. (\E k \in 1 .. Len(freeThreads) : freeThreads[k] = t)
             <=> \E k \in 1 .. Len(freeThreads') : freeThreads'[k] = t
      <4>1. \A j \in 1 .. Len(K) : K[j] # t
        BY <1>7, <2>2
      <4>. QED  BY <1>10, <1>11, <4>1
    <3>. QED  BY <2>1, <3>1, <3>2
  <2>3. CASE t \notin Alive
    <3>1. t \in Threads \ Alive
      BY <1>1, <2>3
    <3>2. ~ \E j \in 1 .. Len(childs') : childs'[j] = t
      BY <1>6, <2>3
    <3>3. (\E j \in 1 .. Len(childs) : childs[j] = t) <=> \E j \in 1 .. Len(K) : K[j] = t
      BY <1>7, <3>1
    <3>4. (\E k \in 1 .. Len(freeThreads') : freeThreads'[k] = t) <=>
            \/ \E k \in 1 .. Len(freeThreads) : freeThreads[k] = t
            \/ \E j \in 1 .. Len(K) : K[j] = t
      BY <1>10, <1>11
    <3>. QED  BY <2>1, <3>2, <3>3, <3>4
  <2>. QED  BY <2>2, <2>3
<1>14. Listed'
  BY <1>6, <1>9, <1>12, <1>13 DEF Listed
<1>15. \A k \in 1 .. Len(freeThreads') : ~ Running(freeThreads'[k])
  <2>1. \A j \in 1 .. Len(K) : ~ Running(K[j])
    BY <1>7 DEF Alive
  <2>2. \A j \in 1 .. Len(freeThreads) : ~ Running(freeThreads[j])
    BY DEF Dead
  <2>. QED  BY <1>11, <2>1, <2>2
<1>16. Dead'
  BY <1>15 DEF Dead, Running
<1>17. ASSUME NEW t \in Kids, Running(t)
       PROVE  \E j \in 1 .. Len(childs') : childs'[j] = t
  <2>1. t \in made /\ t \in Alive
    BY <1>1, <1>17 DEF Dead, Alive
  <2>2. ~ \E k \in 1 .. Len(freeThreads) : freeThreads[k] = t
    BY <1>17 DEF Dead
  <2>3. \E j \in 1 .. Len(childs) : childs[j] = t
    BY <2>1, <2>2 DEF Listed
  <2>. QED  BY <1>6, <2>1, <2>3
<1>18. Len(childs') <= Cardinality(Kids)
  BY <1>4, <1>6, NoTwiceShort
<1>. QED  BY <1>4, <1>5, <1>9, <1>14, <1>16, <1>17, <1>18

LEMMA TickKeeps ==
  ASSUME CobInv, Tick
  PROVE  CobInv' /\ turn' = NoThread
<1>1. Typed /\ Listed /\ Dead /\ Executes
  BY DEF CobInv
<1>2. /\ at = "idle" /\ Clean /\ at' = "tick" /\ i' = Len(childs') /\ ran' = {}
      /\ due' = {t \in Threads : Awake(t)}
      /\ UNCHANGED <<th, made, turn, codes, query>>
  BY DEF Tick, Awake
<1>3. /\ childs' \in Seq(Kids) /\ freeThreads' \in Seq(Kids)
      /\ Listed' /\ Dead'
      /\ Len(childs') \in Nat /\ Len(childs') <= Cardinality(Kids)
      /\ \A t \in Kids : Running(t) => \E j \in 1 .. Len(childs') : childs'[j] = t
      /\ \A j \in 1 .. Len(childs') : childs'[j] \in Kids
  BY <1>1, <1>2, CleanFacts
<1>4. turn = NoThread
  BY <1>1, <1>2 DEF Executes
<1>5. Cardinality(Kids) \in Nat
  BY CobAssumption, FS_CardinalityType
<1>6. i' \in -1 .. Cardinality(Kids) /\ i' <= Len(childs') /\ i' >= 0
  BY <1>2, <1>3, <1>5
<1>7. Typed'
  BY <1>1, <1>2, <1>3, <1>6 DEF Typed
<1>8. Executes'
  BY <1>2, <1>4 DEF Executes
<1>9. \A t \in Threads : AwakeNext(t) <=> Awake(t)
  BY <1>2 DEF Awake, AwakeNext, Running
<1>10. \A t \in due' : t \in Threads /\ Awake(t) /\ Running(t)
  BY <1>2 DEF Awake
<1>11. \A t \in due' : t = Root \/ \E j \in 1 .. Len(childs') : childs'[j] = t
  BY <1>3, <1>10 DEF Threads
<1>12. \A t \in due' \ ran' : AwakeNext(t) /\ (t # Root => \E j \in 1 .. i' : childs'[j] = t)
  BY <1>2, <1>9, <1>10, <1>11
<1>13. \A j \in 1 .. i' : childs'[j] \notin ran' /\ (AwakeNext(childs'[j]) => childs'[j] \in due')
  BY <1>2, <1>3, <1>9 DEF Threads
<1>14. InTick'
  BY <1>2, <1>4, <1>6, <1>11, <1>12, <1>13, InTickNext
<1>. QED  BY <1>2, <1>3, <1>4, <1>7, <1>8, <1>14 DEF CobInv

-----------------------------------------------------------------------------
(* A saved unit is loaded.                                                 *)
LEMMA LoadedKeeps ==
  ASSUME CobInv, at = "idle", NEW first \in Threads, NEW kept \in Seq(Kids), NoTwice(kept),
         Loaded(first, kept)
  PROVE  CobInv'
<1>1. Typed /\ Listed /\ Dead /\ Executes
  BY DEF CobInv
<1>2. /\ childs' = kept /\ freeThreads' = <<>> /\ made' = Range(kept)
      /\ th' = [t \in Threads |-> IF t = Root THEN th[first]
                                  ELSE IF t \in Range(kept) THEN th[t] ELSE Blank]
      /\ UNCHANGED <<at, i, turn, codes, query, due, ran>>
  BY DEF Loaded, sched
<1>3. /\ Len(kept) \in Nat /\ DOMAIN kept = 1 .. Len(kept)
      /\ \A k \in 1 .. Len(kept) : kept[k] \in Kids
  BY QueueFacts
<1>4. \A t : t \in Range(kept) <=> \E k \in 1 .. Len(kept) : kept[k] = t
  BY <1>3 DEF Range
<1>5. made' \subseteq Kids
  BY <1>2, <1>3, <1>4
<1>6. /\ <<>> \in Seq(Kids) /\ Len(<<>>) = 0 /\ 1 .. 0 = {}
  OBVIOUS
<1>7. th \in [Threads -> Rec] /\ Blank \in Rec /\ ~ Blank.running
  <2>1. {} \in SUBSET Signals
    OBVIOUS
  <2>. QED  BY <1>1, <2>1, StartedFacts DEF Typed, Rec
<1>8. \A t \in Threads : th'[t] = IF t = Root THEN th[first]
                                  ELSE IF t \in Range(kept) THEN th[t] ELSE Blank
  BY <1>2
<1>9. th' \in [Threads -> Rec]
  <2>1. \A t \in Threads : th'[t] \in Rec
    BY <1>7, <1>8
  <2>. QED  BY <1>2, <2>1
<1>10. Typed'
  BY <1>1, <1>2, <1>5, <1>6, <1>9 DEF Typed, Rec
<1>11. Listed'
  <2>1. NoTwice(<<>>)
    BY <1>6 DEF NoTwice
  <2>2. NoTwice(childs') /\ NoTwice(freeThreads')
    BY <1>2, <2>1
  <2>. QED  BY <1>2, <1>4, <1>6, <2>2 DEF Listed
<1>12. Dead'
  <2>1. \A t \in Kids \ made' : ~ th'[t].running
    BY <1>2, <1>7, <1>8, CobAssumption DEF Threads
  <2>2. \A k \in 1 .. Len(freeThreads') : ~ th'[freeThreads'[k]].running
    BY <1>2, <1>6
  <2>. QED  BY <2>1, <2>2 DEF Dead, Running
<1>13. Executes'
  BY <1>1, <1>2 DEF Executes
<1>14. InTick'
  BY <1>2, InTickNext
<1>. QED  BY <1>10, <1>11, <1>12, <1>13, <1>14 DEF CobInv

(* What FirstRunning is, and what comes after it.                          *)
LEMMA FirstRunningFacts ==
  ASSUME Typed
  PROVE  \/ FirstRunning = 0 /\ (Running(Root) \/ \A k \in 1 .. Len(childs) : ~ Running(childs[k]))
         \/ \E m \in 1 .. Len(childs) :
              /\ FirstRunning = m /\ ~ Running(Root)
              /\ Running(childs[m]) /\ \A j \in 1 .. m - 1 : ~ Running(childs[j])
<1>1. childs \in Seq(Kids)
  BY DEF Typed
<1>2. Len(childs) \in Nat /\ DOMAIN childs = 1 .. Len(childs)
  BY <1>1, QueueFacts
<1> DEFINE Nobody == \A k \in DOMAIN childs : ~ Running(childs[k])
           P(k) == Running(childs[k]) /\ \A j \in 1 .. k - 1 : ~ Running(childs[j])
           R == {k \in 1 .. Len(childs) : Running(childs[k])}
<1>3. CASE Running(Root) \/ Nobody
  BY <1>2, <1>3 DEF FirstRunning
<1>4. CASE ~ (Running(Root) \/ Nobody)
  <2>1. R # {} /\ R \in SUBSET Nat
    BY <1>2, <1>4
  <2>2. PICK n \in R : \A j \in R : n <= j
    BY <2>1, LeastNumber
  <2>3. n \in 1 .. Len(childs) /\ P(n)
    <3>1. \A j \in 1 .. n - 1 : j \in 1 .. Len(childs) /\ ~ (n <= j)
      BY <1>2
    <3>. QED  BY <2>2, <3>1
  <2>4. FirstRunning = CHOOSE k \in 1 .. Len(childs) : P(k)
    BY <1>2, <1>4 DEF FirstRunning
  <2>5. PICK m : m = FirstRunning
    OBVIOUS
  <2>6. m \in 1 .. Len(childs) /\ P(m)
    <3> HIDE DEF P
    <3>. QED  BY <2>3, <2>4, <2>5
  <2>. QED  BY <1>4, <2>5, <2>6
<1>. QED  BY <1>3, <1>4

LEMMA RestFacts ==
  ASSUME NEW S, NEW q \in Seq(S), NEW m \in 1 .. Len(q)
  PROVE  /\ SubSeq(q, m + 1, Len(q)) \in Seq(S)
         /\ Len(q) = m + Len(SubSeq(q, m + 1, Len(q)))
         /\ \A k \in 1 .. Len(SubSeq(q, m + 1, Len(q))) :
              m + k \in 1 .. Len(q) /\ SubSeq(q, m + 1, Len(q))[k] = q[m + k]
<1>1. PICK l \in Nat : l = Len(q)
  BY QueueFacts
<1>2. PICK r : r = SubSeq(q, m + 1, l)
  OBVIOUS
<1>3. m \in Nat /\ 1 <= m /\ m <= l
  BY <1>1
<1>4. m + 1 \in Int /\ l \in Int /\ \A k \in m + 1 .. l : q[k] \in S
  <2>1. \A k \in m + 1 .. l : k \in 1 .. Len(q)
    BY <1>1, <1>3
  <2>. QED  BY <1>3, <2>1, QueueFacts
<1>5. /\ r \in Seq(S)
      /\ Len(r) = IF m + 1 <= l THEN l - (m + 1) + 1 ELSE 0
      /\ \A k \in 1 .. l - (m + 1) + 1 : r[k] = q[m + 1 + k - 1]
  BY <1>2, <1>4, SubSeqProperties
<1>6. (IF m + 1 <= l THEN l - (m + 1) + 1 ELSE 0) = l - m
  BY <1>3
<1>7. \A k \in 1 .. l - m :
        k \in 1 .. l - (m + 1) + 1 /\ m + 1 + k - 1 = m + k /\ m + k \in 1 .. l
  BY <1>3
<1>8. Len(r) = l - m /\ l = m + (l - m)
  BY <1>3, <1>5, <1>6
<1>. QED  BY <1>1, <1>2, <1>5, <1>7, <1>8

LEMMA ReloadSafe ==
  ASSUME CobInv, Reload
  PROVE  CobInv'
<1>1. Typed /\ Listed /\ at = "idle"
  BY DEF CobInv, Reload
<1>2. childs \in Seq(Kids) /\ NoTwice(childs) /\ Root \in Threads /\ Kids \subseteq Threads
  BY <1>1 DEF Typed, Listed, Threads
<1>3. Len(childs) \in Nat /\ \A k \in 1 .. Len(childs) : childs[k] \in Kids
  BY <1>2, QueueFacts
<1>4. CASE FirstRunning = 0
  <2>1. PICK kept : kept = IF Running(Root) THEN childs ELSE <<>>
    OBVIOUS
  <2>2. NoTwice(<<>>) /\ <<>> \in Seq(Kids)
    <3>1. Len(<<>>) = 0 /\ 1 .. 0 = {} /\ <<>> \in Seq(Kids)
      OBVIOUS
    <3>. QED  BY <3>1 DEF NoTwice
  <2>3. kept \in Seq(Kids) /\ NoTwice(kept)
    BY <1>2, <2>1, <2>2
  <2>4. Loaded(Root, kept)
    BY <1>4, <2>1 DEF Reload
  <2>. QED  BY <1>1, <1>2, <2>3, <2>4, LoadedKeeps
<1>5. CASE FirstRunning # 0
  <2>1. PICK m \in 1 .. Len(childs) : FirstRunning = m
    BY <1>1, <1>5, FirstRunningFacts
  <2>2. PICK kept : kept = SubSeq(childs, m + 1, Len(childs))
    OBVIOUS
  <2>3. /\ kept \in Seq(Kids)
        /\ \A k \in 1 .. Len(kept) : m + k \in 1 .. Len(childs) /\ kept[k] = childs[m + k]
    BY <1>2, <2>2, RestFacts
  <2>4. m \in Nat
    BY <1>3
  <2>5. NoTwice(kept)
    <3> SUFFICES ASSUME NEW j \in 1 .. Len(kept), NEW k \in 1 .. Len(kept), kept[j] = kept[k]
                 PROVE  j = k
      BY DEF NoTwice
    <3>1. m + j = m + k
      BY <1>2, <2>3 DEF NoTwice
    <3>. QED  BY <2>4, <3>1
  <2>6. Loaded(childs[m], kept)
    BY <1>5, <2>1, <2>2 DEF Reload
  <2>7. childs[m] \in Threads
    BY <1>2, <1>3
  <2>. QED  BY <1>1, <2>3, <2>5, <2>6, <2>7, LoadedKeeps
<1>. QED  BY <1>4, <1>5

-----------------------------------------------------------------------------
LEMMA CobStarts == Init => CobInv
<1> SUFFICES ASSUME Init PROVE CobInv
  OBVIOUS
<1>1. /\ childs = <<>> /\ freeThreads = <<>> /\ made = {}
      /\ th = [t \in Threads |-> Blank]
      /\ at = "idle" /\ i = 0 /\ turn = NoThread /\ codes = 0 /\ query = NoThread
      /\ due = {} /\ ran = {}
  BY DEF Init
<1>2. <<>> \in Seq(Kids) /\ Len(<<>>) = 0 /\ 1 .. 0 = {}
  OBVIOUS
<1>3. Blank \in Rec /\ ~ Blank.running
  <2>1. {} \in SUBSET Signals
    OBVIOUS
  <2>. QED  BY <2>1, StartedFacts
<1>4. Cardinality(Kids) \in Nat /\ 0 \in 0 .. MaxCode - 1
  BY CobAssumption, FS_CardinalityType
<1>5. i \in -1 .. Cardinality(Kids)
  BY <1>1, <1>4
<1>6. th \in [Threads -> Rec] /\ \A t \in Threads : ~ th[t].running
  BY <1>1, <1>3
<1>7. Typed
  BY <1>1, <1>2, <1>4, <1>5, <1>6 DEF Typed, Rec
<1>8. Listed /\ Dead
  BY <1>1, <1>2, <1>6 DEF Listed, NoTwice, Dead, Running, Threads
<1>9. Executes /\ InTick
  BY <1>1 DEF Executes, InTick
<1>. QED  BY <1>7, <1>8, <1>9 DEF CobInv

(* What a step does about turns, for OneTurnEach.                          *)
FairTurn ==
  at = "tick" /\ turn = NoThread /\ turn' # NoThread
    => turn' \notin ran /\ turn' \in due \cup {Root}

LEMMA CobStep ==
  ASSUME CobInv, [Next]_vars
  PROVE  CobInv' /\ FairTurn
<1>1. CASE NextChild
  BY <1>1, NextChildKeeps DEF FairTurn
<1>2. CASE RootsTurn
  BY <1>2, RootsTurnKeeps DEF FairTurn
<1>3. CASE TickEnds \/ QueryEnds
  BY <1>3, EndsKeep DEF FairTurn, TickEnds, QueryEnds
<1>4. CASE RunAgain
  BY <1>4, RunAgainKeeps DEF FairTurn, RunAgain
<1>5. ASSUME NEW t \in Threads, Opcode(t)
      PROVE  CobInv' /\ FairTurn
  <2>1. turn = t /\ t # NoThread /\ Typed /\ Executes
    BY <1>5, CobAssumption DEF Opcode, CobInv, Threads
  <2>2. FairTurn
    BY <2>1 DEF FairTurn
  <2>3. CASE \E k \in Threads : StartScript(t, k)
    BY <2>1, <2>2, <2>3, StartScriptKeeps
  <2>4. CASE \/ Plain(t) \/ Wait(t) \/ SleepOp(t) \/ CallOp(t) \/ ReturnOp(t) \/ Unknown(t)
             \/ \E sig \in Signals : SignalOp(t, sig)
             \/ \E m \in SUBSET Signals : SetMask(t, m)
    <3>1. OpChange(t) /\ UNCHANGED keptByMost
      BY <2>1, <2>4, OpcodeChanges
    <3>. QED  BY <2>1, <2>2, <3>1, OpcodeKeeps
  <2>. QED  BY <1>5, <2>3, <2>4 DEF Opcode
<1>6. CASE Tick
  BY <1>6, TickKeeps DEF FairTurn
<1>7. CASE Reload
  BY <1>7, ReloadSafe DEF FairTurn, Reload
<1>8. ASSUME NEW t \in Threads, Launch(t)
      PROVE  CobInv' /\ FairTurn
  BY <1>8, LaunchKeeps DEF FairTurn, Launch, sched
<1>9. ASSUME NEW t \in Threads, Execute(t)
      PROVE  CobInv' /\ FairTurn
  BY <1>9, ExecuteKeeps DEF FairTurn, Execute
<1>10. CASE UNCHANGED vars
  <2>1. UNCHANGED <<childs, freeThreads, th, made, at, i, turn, codes, query, due, ran>>
    BY <1>10 DEF vars, sched
  <2>2. Typed' /\ Listed' /\ Dead' /\ Executes'
    BY <2>1 DEF CobInv, Typed, Listed, NoTwice, Dead, Executes, Running
  <2>3. InTick'
    BY <2>1 DEF CobInv, InTick, Awake, Running
  <2>. QED  BY <2>1, <2>2, <2>3 DEF CobInv, FairTurn
<1>. QED  BY <1>1, <1>2, <1>3, <1>4, <1>5, <1>6, <1>7, <1>8, <1>9, <1>10 DEF Next, VM

-----------------------------------------------------------------------------
(* The turns before and after a load.                                      *)
OrderIs ==
  /\ InOrder \in Seq(Rec) /\ Len(InOrder) = Len(childs) + 1
  /\ InOrder[1] = th[Root]
  /\ \A k \in 1 .. Len(childs) : InOrder[1 + k] = th[childs[k]]

LEMMA InOrderFacts == Typed => OrderIs
<1> SUFFICES ASSUME Typed PROVE OrderIs
  OBVIOUS
<1>1. /\ childs \in Seq(Kids) /\ th \in [Threads -> Rec] /\ Root \in Threads
      /\ Kids \subseteq Threads
  BY DEF Typed, Rec, Threads
<1>2. Len(childs) \in Nat /\ \A k \in 1 .. Len(childs) : childs[k] \in Kids
  BY <1>1, QueueFacts
<1>3. PICK q : q = <<Root>> \o childs
  OBVIOUS
<1>4. /\ <<Root>> \in Seq(Threads) /\ Len(<<Root>>) = 1 /\ <<Root>>[1] = Root
      /\ childs \in Seq(Threads)
  <2>1. childs \in Seq(Threads)
    BY <1>1, <1>2
  <2>. QED  BY <1>1, <2>1
<1>5. /\ q[1] = Root /\ \A k \in 1 .. Len(childs) : q[1 + k] = childs[k]
  <2>1. /\ \A k \in 1 .. Len(<<Root>>) : q[k] = <<Root>>[k]
        /\ \A k \in 1 .. Len(childs) : q[Len(<<Root>>) + k] = childs[k]
    BY <1>3, <1>4, ConcatFacts
  <2>. QED  BY <1>4, <2>1
<1>6. \A k \in 1 .. Len(childs) + 1 : k = 1 \/ (k - 1 \in 1 .. Len(childs) /\ k = 1 + (k - 1))
  BY <1>2
<1>7. \A k \in 1 .. Len(childs) + 1 : q[k] \in Threads
  BY <1>1, <1>2, <1>5, <1>6
<1>8. InOrder = [k \in 1 .. Len(childs) + 1 |-> th[q[k]]]
  BY <1>3 DEF InOrder
<1>9. \A k \in 1 .. Len(childs) + 1 : th[q[k]] \in Rec
  BY <1>1, <1>7
<1>10. InOrder \in Seq(Rec) /\ Len(InOrder) = Len(childs) + 1
  <2>1. PICK l \in Nat : l = Len(childs) + 1
    BY <1>2
  <2>2. \A k \in 1 .. l : th[q[k]] \in Rec
    BY <1>9, <2>1
  <2>3. [k \in 1 .. l |-> th[q[k]]] \in Seq(Rec) /\ Len([k \in 1 .. l |-> th[q[k]]]) = l
    BY <2>2
  <2>. QED  BY <1>8, <2>1, <2>3
<1>11. /\ 1 \in 1 .. Len(childs) + 1
       /\ \A k \in 1 .. Len(childs) : 1 + k \in 1 .. Len(childs) + 1
  BY <1>2
<1>. QED  BY <1>5, <1>8, <1>10, <1>11 DEF OrderIs

LEMMA LoadKeepsTurns ==
  ASSUME CobInv, Reload
  PROVE  InTurn' = InTurn
<1>1. Typed /\ Typed'
  BY ReloadSafe DEF CobInv
<1>2. Typed' => OrderIs'
  BY InOrderFacts, PTL
<1>3. PICK q : q = InOrder
  OBVIOUS
<1>4. PICK r : r = InOrder'
  OBVIOUS
<1>5. /\ childs \in Seq(Kids) /\ childs' \in Seq(Kids)
      /\ Root \in Threads /\ Root \notin Kids /\ Kids \subseteq Threads
  BY <1>1, CobAssumption DEF Typed, Threads
<1>6. /\ Len(childs) \in Nat /\ \A k \in 1 .. Len(childs) : childs[k] \in Kids
      /\ Len(childs') \in Nat /\ \A k \in 1 .. Len(childs') : childs'[k] \in Kids
      /\ DOMAIN childs = 1 .. Len(childs) /\ DOMAIN childs' = 1 .. Len(childs')
  BY <1>5, QueueFacts
<1>7. /\ q \in Seq(Rec) /\ Len(q) = 1 + Len(childs) /\ q[1] = th[Root]
      /\ \A k \in 1 .. Len(childs) : q[1 + k] = th[childs[k]]
  BY <1>1, <1>3, <1>6, InOrderFacts DEF OrderIs
<1>8. /\ r \in Seq(Rec) /\ Len(r) = 1 + Len(childs') /\ r[1] = th'[Root]
      /\ \A k \in 1 .. Len(childs') : r[1 + k] = th'[childs'[k]]
  BY <1>1, <1>2, <1>4, <1>6 DEF OrderIs
<1>9. PICK S : S = {t \in Range(q) : t.running}
  OBVIOUS
<1>10. PICK R : R = {t \in Range(r) : t.running}
  OBVIOUS
<1>11. InTurn = Kept(q, S) /\ InTurn' = Kept(r, R)
  BY <1>3, <1>4, <1>9, <1>10 DEF InTurn
<1>12. /\ \A k \in 1 .. Len(q) : q[k] \in S <=> q[k].running
       /\ \A k \in 1 .. Len(r) : r[k] \in R <=> r[k].running
  <2>1. DOMAIN q = 1 .. Len(q) /\ DOMAIN r = 1 .. Len(r)
    BY <1>7, <1>8, QueueFacts
  <2>. QED  BY <1>9, <1>10, <2>1 DEF Range
<1>13. /\ \A k \in 1 .. 1 + Len(childs) : k = 1 \/ \E j \in 1 .. Len(childs) : k = 1 + j
       /\ \A k \in 1 .. 1 + Len(childs') : k = 1 \/ \E j \in 1 .. Len(childs') : k = 1 + j
  <2>1. \A l \in Nat : \A k \in 1 .. 1 + l : k = 1 \/ (k - 1 \in 1 .. l /\ k = 1 + (k - 1))
    OBVIOUS
  <2>. QED  BY <1>6, <2>1
<1>14. \A t \in Threads : Running(t) <=> th[t].running
  BY DEF Running
<1>15. PICK first, kept :
         /\ Loaded(first, kept)
         /\ FirstRunning = 0 => first = Root /\ kept = IF Running(Root) THEN childs ELSE <<>>
         /\ FirstRunning # 0 =>
              /\ first = childs[FirstRunning]
              /\ kept = SubSeq(childs, FirstRunning + 1, Len(childs))
  BY DEF Reload
<1>16. /\ childs' = kept
       /\ th'[Root] = th[first] /\ \A k \in 1 .. Len(childs') : th'[childs'[k]] = th[childs'[k]]
  <2>1. /\ childs' = kept
        /\ th' = [t \in Threads |-> IF t = Root THEN th[first]
                                    ELSE IF t \in Range(kept) THEN th[t] ELSE Blank]
    BY <1>15 DEF Loaded
  <2>2. \A k \in 1 .. Len(childs') : childs'[k] \in Range(kept) /\ childs'[k] \in Kids
    BY <1>6, <2>1 DEF Range
  <2>. QED  BY <1>5, <2>1, <2>2
<1>17. CASE FirstRunning = 0 /\ Running(Root)
  <2>1. childs' = childs /\ first = Root
    BY <1>15, <1>16, <1>17
  <2>2. \A k \in 1 .. Len(r) : r[k] = q[k]
    BY <1>7, <1>8, <1>13, <1>16, <2>1
  <2>3. Len(q) = 0 + Len(r) /\ 0 \in Nat /\ 1 .. 0 = {} /\ \A k \in 1 .. Len(r) : 0 + k = k
    BY <1>6, <1>7, <1>8, <2>1
  <2>4. \A k \in 1 .. Len(r) : r[k] = q[0 + k] /\ (r[k] \in R <=> q[0 + k] \in S)
    <3>1. Len(r) = Len(q)
      BY <1>7, <1>8, <2>1
    <3>. QED  BY <1>12, <2>2, <2>3, <3>1
  <2>5. Kept(q, S) = Kept(r, R)
    BY <1>7, <1>8, <2>3, <2>4, KeptSuffix
  <2>. QED  BY <1>11, <2>5
<1>18. CASE FirstRunning = 0 /\ ~ Running(Root)
  <2>1. childs' = <<>> /\ first = Root
    BY <1>15, <1>16, <1>18
  <2>2. \A k \in 1 .. Len(childs) : ~ Running(childs[k])
    <3>1. FirstRunning \notin 1 .. Len(childs)
      BY <1>6, <1>18
    <3>. QED  BY <1>1, <1>18, <3>1, FirstRunningFacts
  <2>3. ASSUME NEW k \in 1 .. Len(q)
        PROVE  q[k] \notin S
    <3>1. CASE k = 1
      BY <1>5, <1>7, <1>12, <1>14, <1>18, <3>1
    <3>2. CASE \E j \in 1 .. Len(childs) : k = 1 + j
      <4>1. PICK j \in 1 .. Len(childs) : k = 1 + j
        BY <3>2
      <4>2. ~ q[k].running
        BY <1>5, <1>6, <1>7, <1>14, <2>2, <4>1
      <4>. QED  BY <1>12, <4>2
    <3>. QED  BY <1>7, <1>13, <3>1, <3>2
  <2>4. Len(childs') = 0 /\ 1 .. 0 = {}
    BY <2>1
  <2>5. \A k \in 1 .. Len(r) : r[k] \notin R
    BY <1>5, <1>8, <1>12, <1>13, <1>14, <1>16, <1>18, <2>1, <2>4
  <2>6. Kept(q, S) = <<>> /\ Kept(r, R) = <<>>
    BY <1>7, <1>8, <2>3, <2>5, KeptNothing
  <2>. QED  BY <1>11, <2>6
<1>19. CASE FirstRunning # 0
  <2>1. PICK m \in 1 .. Len(childs) :
          /\ FirstRunning = m /\ ~ Running(Root)
          /\ Running(childs[m]) /\ \A j \in 1 .. m - 1 : ~ Running(childs[j])
    BY <1>1, <1>19, FirstRunningFacts
  <2>2. first = childs[m] /\ childs' = SubSeq(childs, m + 1, Len(childs))
    BY <1>15, <1>16, <1>19, <2>1
  <2>3. /\ Len(childs) = m + Len(childs')
        /\ \A k \in 1 .. Len(childs') : m + k \in 1 .. Len(childs) /\ childs'[k] = childs[m + k]
    BY <1>5, <2>2, RestFacts
  <2>4. m \in Nat /\ m <= Len(childs) /\ m >= 1
    BY <1>6
  <2>5. Len(q) = m + Len(r)
    BY <1>6, <1>7, <1>8, <2>3, <2>4
  <2>6. ASSUME NEW k \in 1 .. m
        PROVE  q[k] \notin S
    <3>1. CASE k = 1
      <4>1. 1 \in 1 .. Len(q)
        BY <1>6, <1>7
      <4>. QED  BY <1>5, <1>7, <1>12, <1>14, <2>1, <3>1, <4>1
    <3>2. CASE k # 1
      <4>1. PICK j \in Nat : j = k - 1
        BY <2>4, <3>2
      <4>2. j \in 1 .. m - 1 /\ j \in 1 .. Len(childs) /\ k = 1 + j /\ k \in 1 .. 1 + Len(childs)
        BY <1>6, <2>4, <3>2, <4>1
      <4>. QED  BY <1>5, <1>6, <1>7, <1>12, <1>14, <2>1, <4>2
    <3>. QED  BY <3>1, <3>2
  <2>7. ASSUME NEW k \in 1 .. Len(r)
        PROVE  r[k] = q[m + k] /\ m + k \in 1 .. Len(q)
    <3>1. CASE k = 1
      <4>1. m + 1 = 1 + m /\ m + 1 \in 1 .. 1 + Len(childs)
        BY <1>6, <2>4
      <4>. QED  BY <1>7, <1>8, <1>16, <2>2, <3>1, <4>1
    <3>2. CASE \E j \in 1 .. Len(childs') : k = 1 + j
      <4>1. PICK j \in 1 .. Len(childs') : k = 1 + j
        BY <3>2
      <4>2. m + j \in 1 .. Len(childs) /\ childs'[j] = childs[m + j]
        BY <2>3
      <4>3. m + k = 1 + (m + j) /\ m + k \in 1 .. 1 + Len(childs)
        BY <1>6, <2>4, <4>1, <4>2
      <4>. QED  BY <1>7, <1>8, <1>16, <4>1, <4>2, <4>3
    <3>. QED  BY <1>8, <1>13, <3>1, <3>2
  <2>8. \A k \in 1 .. Len(r) : r[k] = q[m + k] /\ (r[k] \in R <=> q[m + k] \in S)
    BY <1>12, <2>7
  <2>9. Kept(q, S) = Kept(r, R)
    <3>1. ASSUME NEW n \in Nat, Len(q) = n + Len(r),
                 \A k \in 1 .. n : q[k] \notin S,
                 \A k \in 1 .. Len(r) : r[k] = q[n + k] /\ (r[k] \in R <=> q[n + k] \in S)
          PROVE  Kept(q, S) = Kept(r, R)
      <4>1. q \in Seq(Rec) /\ r \in Seq(Rec)
        BY <1>7, <1>8
      <4>. QED  BY <3>1, <4>1, KeptSuffix, SMTT(60)
    <3>. QED  BY <2>4, <2>5, <2>6, <2>8, <3>1
  <2>. QED  BY <1>11, <2>9
<1>. QED  BY <1>17, <1>18, <1>19

-----------------------------------------------------------------------------
(* The invariant holds whatever the scripts do, ...                        *)
THEOREM CobInductive == Spec => []CobInv
<1>1. CobInv /\ [Next]_vars => CobInv'
  BY CobStep
<1>. QED  BY CobStarts, <1>1, PTL DEF Spec

(* ... so every variable keeps to its type: the loop of run() stays within *)
(* the list, and a turn within its limit.                                  *)
THEOREM CobTypeCorrect == Spec => []TypeOK
<1>1. CobInv => TypeOK
  BY DEF CobInv, Typed, TypeOK, Rec
<1>. QED  BY CobInductive, <1>1, PTL

(* No thread object is lost or handed out twice, those to be used again    *)
(* are dead, and opcodes are executed for threads that run only.           *)
THEOREM ThreadsListedOnce == Spec => []EachThreadOnce
<1>1. ASSUME CobInv PROVE EachThreadOnce
  <2>1. /\ childs \in Seq(Kids) /\ freeThreads \in Seq(Kids) /\ made \subseteq Kids
        /\ Listed /\ Dead /\ Executes
    BY <1>1 DEF CobInv, Typed
  <2>2. PICK q : q = childs \o freeThreads
    OBVIOUS
  <2>3. q \in Seq(Kids) /\ NoTwice(q)
    BY <2>1, <2>2, ConcatFacts, ConcatNoTwice DEF Listed
  <2>4. DOMAIN q = 1 .. Len(q) /\ \A k \in 1 .. Len(q) : q[k] \in Kids
    BY <2>3, QueueFacts
  <2>5. IsInjective(q)
    BY <2>3, <2>4 DEF IsInjective, NoTwice
  <2>6. \A t : (\E k \in 1 .. Len(q) : q[k] = t) <=>
          \/ \E j \in 1 .. Len(childs) : childs[j] = t
          \/ \E k \in 1 .. Len(freeThreads) : freeThreads[k] = t
    <3>1. /\ \A k \in 1 .. Len(childs) : k \in 1 .. Len(q) /\ q[k] = childs[k]
          /\ \A k \in 1 .. Len(freeThreads) :
               Len(childs) + k \in 1 .. Len(q) /\ q[Len(childs) + k] = freeThreads[k]
          /\ \A k \in 1 .. Len(q) :
               k \in 1 .. Len(childs) \/ \E j \in 1 .. Len(freeThreads) : k = Len(childs) + j
      BY <2>1, <2>2, ConcatFacts
    <3>2. ASSUME NEW t, NEW k \in 1 .. Len(q), q[k] = t
          PROVE  \/ \E j \in 1 .. Len(childs) : childs[j] = t
                 \/ \E j \in 1 .. Len(freeThreads) : freeThreads[j] = t
      <4>1. CASE k \in 1 .. Len(childs)
        BY <3>1, <3>2, <4>1
      <4>2. CASE \E j \in 1 .. Len(freeThreads) : k = Len(childs) + j
        <5>1. PICK j \in 1 .. Len(freeThreads) : k = Len(childs) + j
          BY <4>2
        <5>2. q[k] = freeThreads[j]
          BY <3>1, <5>1
        <5>. QED  BY <3>2, <5>2
      <4>. QED  BY <3>1, <4>1, <4>2
    <3>3. ASSUME NEW t, NEW j \in 1 .. Len(freeThreads), freeThreads[j] = t
          PROVE  \E k \in 1 .. Len(q) : q[k] = t
      BY <3>1, <3>3
    <3>. QED  BY <3>1, <3>2, <3>3
  <2>7. Range(q) = made
    <3>1. \A t : t \in Range(q) <=> \E k \in 1 .. Len(q) : q[k] = t
      BY <2>4 DEF Range
    <3>2. \A t \in Range(q) : t \in Kids
      BY <2>4, <3>1
    <3>3. \A t \in Kids : t \in Range(q) <=> t \in made
      BY <2>1, <2>6, <3>1 DEF Listed
    <3>. QED  BY <2>1, <3>2, <3>3
  <2>8. \A t \in Range(freeThreads) : ~ Running(t)
    <3>1. DOMAIN freeThreads = 1 .. Len(freeThreads)
      BY <2>1, QueueFacts
    <3>. QED  BY <2>1, <3>1 DEF Range, Dead
  <2>. QED  BY <2>1, <2>2, <2>5, <2>7, <2>8 DEF EachThreadOnce, Executes
<1>. QED  BY CobInductive, <1>1, PTL

(* A tick passes nobody over, however the lists change while it runs.      *)
THEOREM TicksServeAll == Spec => []TickServesAll
<1>1. ASSUME CobInv PROVE TickServesAll
  <2> SUFFICES ASSUME at = "tick", turn = NoThread, i = -1, NEW t \in due \ ran, Running(t)
               PROVE  FALSE
    BY DEF TickServesAll, TickOver
  <2>1. /\ t = Root => i >= 0
        /\ t # Root => \E j \in 1 .. i : childs[j] = t
    BY <1>1 DEF CobInv, InTick
  <2>. QED  BY <2>1
<1>. QED  BY CobInductive, <1>1, PTL

(* Nobody has two turns in a tick, and a child started in it has none.     *)
THEOREM OneTurn == Spec => OneTurnEach
<1>1. CobInv /\ [Next]_vars => FairTurn
  BY CobStep
<1>2. CobInv /\ [Next]_vars => [FairTurn]_vars
  BY <1>1
<1>3. Spec => [][FairTurn]_vars
  BY CobInductive, <1>2, PTL DEF Spec
<1>. QED  BY <1>3 DEF OneTurnEach, FairTurn
(* Loading a saved unit changes neither what its threads were doing nor    *)
(* the order they have their turns in.                                     *)
THEOREM LoadingKeeps == Spec => ReloadKeeps
<1>1. CobInv /\ [Next]_vars => (Reload => InTurn' = InTurn)
  BY LoadKeepsTurns
<1>2. CobInv /\ [Next]_vars => [Reload => InTurn' = InTurn]_vars
  BY <1>1
<1>3. Spec => [][Reload => InTurn' = InTurn]_vars
  BY CobInductive, <1>2, PTL DEF Spec
<1>. QED  BY <1>3 DEF ReloadKeeps
=============================================================================
