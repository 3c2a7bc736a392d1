------------------------ MODULE FileTransferProofs ------------------------
(***************************************************************************)
(* Proofs about the transfers of files, for any number of requests, any    *)
(* sizes of the files and any window.                                      *)
(***************************************************************************)
EXTENDS FileTransfer, FiniteSetTheorems, SequenceTheorems, WellFoundedInduction, TLAPS

Piece == Requests \X Nat
Getters ==
  [at : {"none", "start", "length", "data", "done", "failed"}, port : Nat,
   ready : BOOLEAN, buffer : Piece \cup {<<>>}, sofar : Nat, length : Nat,
   data : Seq(Piece), late : BOOLEAN]
Senders ==
  [at : {"none", "start", "data", "window", "last", "dead"}, port : Nat,
   pos : Nat, progress : Nat]
Packets == [port : Nat, piece : Piece]
UpMessage == [what : {"X", "R"}, port : Nat, n : Nat]
Tasks == {"stop", "get"} \X Kinds

Known == 1..Len(kind)
Chunks(r) == Size[kind[r]]

Typed ==
  /\ kind \in Seq(Kinds) /\ Len(kind) <= MaxRequests
  /\ get \in [Requests -> Getters] /\ getters \subseteq Known
  /\ send \in [Requests -> Senders]
  /\ down \in Seq(Packets)
  /\ up \in Seq(UpMessage)
  /\ specialq \in Seq(Nat \X Requests)
  /\ todo \in Seq(Tasks)
  /\ previous \in [Kinds -> Nat] /\ open \in BOOLEAN
  /\ lost \subseteq Known /\ dirty \in BOOLEAN /\ admin \in {"idle", "reset"}

(* There is room for what the menu will ask for.                           *)
Room ==
  \A j \in 1..Len(todo) :
    todo[j][1] = "get" => Len(kind) + (Len(todo) - j) + 1 <= MaxRequests

(* A getter off the list is dead, and a port is used again only then; a    *)
(* getter that was handed a packet has it.                                 *)
Waits(g) == g.at \in {"length", "data"}
Listed ==
  /\ \A r \in Requests : r > Len(kind) => get[r].at = "none" /\ send[r] = Silent
  /\ \A r \in Known : get[r].at # "none" /\ (r \in getters \/ Dead(r))
  /\ \A q, r \in Known : q < r /\ get[q].port = get[r].port => q \notin getters
  /\ \A r \in Known : Waits(get[r]) /\ ~get[r].ready => get[r].buffer \in Known \X Nat

(* A request is on its way once, and its sender starts when it is served.  *)
Asks(i) == up[i].what = "X"
Asked ==
  /\ \A i \in 1..Len(up) : Asks(i) =>
       up[i].n \in Known /\ up[i].port = get[up[i].n].port /\ send[up[i].n].at = "none"
  /\ \A i \in 1..Len(specialq) :
       /\ specialq[i][2] \in Known /\ specialq[i][1] = get[specialq[i][2]].port
       /\ send[specialq[i][2]].at = "none"
  /\ \A i, j \in 1..Len(up) : Asks(i) /\ Asks(j) /\ up[i].n = up[j].n => i = j
  /\ \A i, j \in 1..Len(specialq) : specialq[i][2] = specialq[j][2] => i = j
  /\ \A i \in 1..Len(up), j \in 1..Len(specialq) : Asks(i) => up[i].n # specialq[j][2]

(* What the stream carries down, and to which port.                        *)
Places == 1..Len(down)
Of(i) == down[i].piece[1]
Chunk(i) == down[i].piece[2]
Carried ==
  /\ \A r \in Known : send[r].at # "none" => send[r].port = get[r].port
  /\ \A i \in Places : Of(i) \in Known /\ Chunk(i) <= Reads(Of(i))
                       /\ down[i].port = get[Of(i)].port

(* The chunks of a file go down in order, behind those its getter has.     *)
Has(g, r, k) == g.buffer = <<r, k>> \/ \E j \in 1..Len(g.data) : g.data[j] = <<r, k>>
Sent(r) ==
  /\ send[r].pos <= Reads(r) /\ (send[r].at = "data" => send[r].pos < Reads(r))
  /\ send[r].at \in {"none", "start"} =>
       /\ send[r].pos = 0 /\ \A i \in Places : Of(i) # r
       /\ \A k \in Nat : ~Has(get[r], r, k)
  /\ send[r].at \in {"data", "window", "last"} =>
       /\ \A i \in Places : Of(i) = r => Chunk(i) <= send[r].pos
       /\ \A k \in Nat : Has(get[r], r, k) => k <= send[r].pos
  /\ \A i, j \in Places : Of(i) = r /\ Of(j) = r /\ i < j => Chunk(i) < Chunk(j)
  /\ \A i \in Places, k \in Nat : Of(i) = r /\ Has(get[r], r, k) => k < Chunk(i)

(* The transfers FilesAreWhole is about: what the getter has is the        *)
(* beginning of its file, and the rest of what was sent is on the stream,  *)
(* from the chunk it expects on (but for an empty one at its end).         *)
Clear(r) == CleanPort(r) /\ ~get[r].late /\ get[r].at # "failed"
Expected(g) ==
  IF g.at = "start" THEN 0
  ELSE IF g.at = "length" THEN (IF g.ready THEN 0 ELSE 1)
  ELSE IF g.at = "data" /\ ~g.ready THEN g.sofar + 2 ELSE g.sofar + 1
Good(r, g) ==
  /\ g.sofar <= Chunks(r) /\ Len(g.data) = g.sofar
  /\ \A j \in 1..g.sofar : g.data[j] = <<r, j>>
  /\ g.at \in {"start", "length"} => g.sofar = 0
  /\ g.at = "start" => ~g.ready
  /\ g.at = "length" /\ ~g.ready => g.buffer = <<r, 0>>
  /\ g.at = "data" => g.length = Chunks(r) /\ g.sofar < Chunks(r)
  /\ g.at = "data" /\ ~g.ready => g.buffer = <<r, g.sofar + 1>>
  /\ g.at = "done" => g.sofar = Chunks(r)
OnStream(r, k) == \E i \in Places : Of(i) = r /\ Chunk(i) = k
Flow(r, n) ==
  /\ \A i \in Places : Of(i) = r =>
       n <= Chunk(i) /\ \A k \in Nat : n <= k /\ k <= Chunk(i) => OnStream(r, k)
  /\ send[r].at \in {"none", "start"} => n = 0
  /\ send[r].at \in {"data", "window", "last"} =>
       /\ n <= send[r].pos + 1
       /\ \A k \in Nat : n <= k /\ k <= send[r].pos /\ k <= Chunks(r) => OnStream(r, k)
InOrder(r) == Clear(r) => Good(r, get[r]) /\ Flow(r, Expected(get[r]))

(* The acknowledgements that reach the sender of a getter are its own.     *)
Answers(i, r) == up[i].what = "R" /\ up[i].port = get[r].port
Unserved(i, r) == \E j \in 1..Len(up) : i < j /\ Asks(j) /\ up[j].n = r
Acked(r) ==
  ~Dead(r) =>
    /\ \A i \in 1..Len(up) : Answers(i, r) => up[i].n <= get[r].sofar \/ Unserved(i, r)
    /\ Sending(r) => send[r].progress <= get[r].sofar
    /\ send[r].at = "data" => send[r].pos <= get[r].sofar + Window
    /\ send[r].at \in {"window", "last"} => send[r].pos <= get[r].sofar + Window + 1

FileInv ==
  /\ Typed /\ Room /\ Listed /\ Asked /\ Carried
  /\ \A r \in Known : Sent(r) /\ InOrder(r) /\ Acked(r)

-----------------------------------------------------------------------------
(* Sequences.                                                              *)

LEMMA QueueFacts ==
  ASSUME NEW S, NEW q \in Seq(S)
  PROVE  /\ Len(q) \in Nat /\ \A i \in 1..Len(q) : q[i] \in S
         /\ q = <<>> <=> Len(q) = 0
BY LenProperties, ElementOfSeq

LEMMA AppendFacts ==
  ASSUME NEW S, NEW q \in Seq(S), NEW e \in S
  PROVE  /\ Append(q, e) \in Seq(S) /\ Len(Append(q, e)) = Len(q) + 1
         /\ \A i \in 1..Len(q) : i \in 1..Len(q) + 1 /\ Append(q, e)[i] = q[i]
         /\ Append(q, e)[Len(q) + 1] = e /\ Len(q) + 1 \in 1..Len(q) + 1
         /\ \A i \in 1..Len(q) + 1 : i \in 1..Len(q) \/ i = Len(q) + 1
<1>1. Len(q) \in Nat
  BY QueueFacts
<1>2. /\ Append(q, e) \in Seq(S) /\ Len(Append(q, e)) = Len(q) + 1
      /\ \A i \in 1..Len(q) : Append(q, e)[i] = q[i]
      /\ Append(q, e)[Len(q) + 1] = e
  BY AppendProperties
<1>3. /\ \A i \in 1..Len(q) : i \in 1..Len(q) + 1
      /\ Len(q) + 1 \in 1..Len(q) + 1
      /\ \A i \in 1..Len(q) + 1 : i \in 1..Len(q) \/ i = Len(q) + 1
  BY <1>1
<1>. QED  BY <1>2, <1>3

LEMMA TailFacts ==
  ASSUME NEW S, NEW q \in Seq(S), q # <<>>
  PROVE  /\ Tail(q) \in Seq(S) /\ Len(Tail(q)) = Len(q) - 1 /\ Len(q) \in Nat \ {0}
         /\ \A i \in 1..Len(Tail(q)) : i + 1 \in 1..Len(q) /\ Tail(q)[i] = q[i + 1]
         /\ Head(q) = q[1] /\ 1 \in 1..Len(q)
         /\ \A i \in 1..Len(q) : i = 1 \/ i - 1 \in 1..Len(Tail(q))
<1>1. Len(q) \in Nat \ {0}
  BY QueueFacts
<1>2. /\ Tail(q) \in Seq(S) /\ Len(Tail(q)) = Len(q) - 1
      /\ \A i \in 1..Len(Tail(q)) : Tail(q)[i] = q[i + 1]
      /\ Head(q) = q[1]
  BY <1>1, HeadTailProperties
<1>3. /\ \A i \in 1..Len(Tail(q)) : i + 1 \in 1..Len(q)
      /\ 1 \in 1..Len(q) /\ \A i \in 1..Len(q) : i = 1 \/ i - 1 \in 1..Len(Tail(q))
  BY <1>1, <1>2
<1>. QED  BY <1>1, <1>2, <1>3

-----------------------------------------------------------------------------
(* What the invariant says of the properties.                              *)

LEMMA KnownFacts ==
  ASSUME Typed
  PROVE  /\ Len(kind) \in Nat /\ Known \subseteq Requests
         /\ \A r \in Known : /\ r \in Nat /\ kind[r] \in Kinds /\ get[r] \in Getters
                             /\ send[r] \in Senders /\ Chunks(r) \in Nat \ {0}
                             /\ Reads(r) \in Nat /\ Chunks(r) <= Reads(r)
                             /\ Reads(r) <= Chunks(r) + 1
                             /\ (kind[r] \notin Even => Reads(r) = Chunks(r))
<1>1. Len(kind) \in Nat /\ \A r \in 1..Len(kind) : kind[r] \in Kinds
  BY QueueFacts DEF Typed
<1>2. Known \subseteq Requests
  BY <1>1, FileAssumption DEF Typed, Known, Requests
<1>3. \A r \in Known : r \in Nat /\ kind[r] \in Kinds
  BY <1>1 DEF Known
<1>4. Size \in [Kinds -> Nat \ {0}]
  BY FileAssumption
<1>5. \A r \in Known : Chunks(r) \in Nat \ {0}
  BY <1>3, <1>4 DEF Chunks, Reads
<1>6. \A r \in Known : get[r] \in Getters /\ send[r] \in Senders
  BY <1>2 DEF Typed
<1>7. \A r \in Known : Reads(r) = Chunks(r) \/ (kind[r] \in Even /\ Reads(r) = Chunks(r) + 1)
  BY <1>5 DEF Reads, Chunks
<1>8. \A r \in Known : /\ Reads(r) \in Nat /\ Chunks(r) <= Reads(r)
                        /\ Reads(r) <= Chunks(r) + 1
                        /\ (kind[r] \notin Even => Reads(r) = Chunks(r))
  <2>1. \A n \in Nat : n <= n /\ n <= n + 1 /\ n + 1 <= n + 1 /\ n + 1 \in Nat
    OBVIOUS
  <2>2. ASSUME NEW r \in Known
        PROVE  /\ Reads(r) \in Nat /\ Chunks(r) <= Reads(r)
               /\ Reads(r) <= Chunks(r) + 1
               /\ (kind[r] \notin Even => Reads(r) = Chunks(r))
    <3>1. Chunks(r) \in Nat
      BY <1>5
    <3>2. CASE Reads(r) = Chunks(r)
      BY <2>1, <3>1, <3>2
    <3>3. CASE kind[r] \in Even /\ Reads(r) = Chunks(r) + 1
      BY <2>1, <3>1, <3>3
    <3>. QED  BY <1>7, <3>2, <3>3
  <2>. QED  BY <2>2
<1>. QED  BY <1>1, <1>2, <1>3, <1>5, <1>6, <1>8

LEMMA TypesFollow == FileInv => TypeOK
<1>. SUFFICES ASSUME FileInv PROVE TypeOK
  OBVIOUS
<1>1. Typed /\ Listed
  BY DEF FileInv
<1>2. ASSUME NEW r \in Requests
      PROVE  send[r].pos \in 0..(IF r <= Len(kind) THEN Reads(r) ELSE 0)
  <2>1. CASE r \in Known
    <3>1. Sent(r) /\ send[r].pos \in Nat /\ r <= Len(kind)
      BY <1>1, <2>1, KnownFacts DEF FileInv, Known, Senders
    <3>. QED  BY <1>1, <2>1, <3>1, KnownFacts DEF Sent
  <2>2. CASE r \notin Known
    <3>1. r > Len(kind) /\ Len(kind) \in Nat /\ r \in Nat
      BY <1>1, <2>2, KnownFacts, FileAssumption DEF Known, Requests
    <3>2. send[r].pos = 0
      BY <1>1, <3>1 DEF Listed, Silent
    <3>. QED  BY <3>1, <3>2
  <2>. QED  BY <2>1, <2>2
<1>3. \A r \in Requests : get[r] \in Getters /\ send[r] \in Senders
  BY <1>1 DEF Typed
<1>. QED  BY <1>1, <1>2, <1>3 DEF TypeOK, Typed, Known, Getters, Senders

LEMMA WholeFollows == FileInv => FilesAreWhole
<1>. SUFFICES ASSUME FileInv, NEW r \in 1..Len(kind),
                     get[r].at = "done", CleanPort(r), ~get[r].late
              PROVE  get[r].data = Whole(r)
  BY DEF FilesAreWhole
<1>1. Typed /\ r \in Known /\ InOrder(r) /\ Clear(r)
  BY DEF FileInv, Known, Clear
<1>2. get[r].data \in Seq(Piece) /\ Chunks(r) \in Nat
  BY <1>1, KnownFacts DEF Getters
<1>3. Len(get[r].data) = Chunks(r) /\ \A j \in 1..Chunks(r) : get[r].data[j] = <<r, j>>
  BY <1>1 DEF InOrder, Good
<1>4. get[r].data = [j \in 1..Chunks(r) |-> get[r].data[j]]
  BY <1>2, <1>3
<1>. QED  BY <1>3, <1>4 DEF Whole, Chunks, Reads

LEMMA WindowFollows == FileInv => WindowKept
<1>. SUFFICES ASSUME FileInv, NEW r \in 1..Len(kind), Sending(r), ~Dead(r)
              PROVE  send[r].pos - get[r].sofar <= Window + 1
  BY DEF WindowKept
<1>1. Typed /\ r \in Known /\ Acked(r) /\ Sent(r)
  BY DEF FileInv, Known
<1>2. get[r].sofar \in Nat /\ send[r].pos \in Nat /\ Window \in Nat
      /\ send[r].at \in {"start", "data", "window", "last"}
  BY <1>1, KnownFacts, FileAssumption DEF Getters, Senders, Sending
<1>. QED  BY <1>1, <1>2 DEF Acked, Sent

-----------------------------------------------------------------------------
(* Whose the packets of a port are.                                        *)

LEMMA PlaceFacts ==
  ASSUME Typed
  PROVE  /\ Len(down) \in Nat
         /\ \A i \in Places : /\ i \in Nat /\ down[i] \in Packets
                              /\ Of(i) \in Requests /\ Chunk(i) \in Nat
                              /\ down[i].piece = <<Of(i), Chunk(i)>>
<1>1. Len(down) \in Nat /\ \A i \in Places : down[i] \in Packets
  BY QueueFacts DEF Typed, Places
<1>2. \A i \in Places : i \in Nat
  BY <1>1 DEF Places
<1>3. ASSUME NEW p \in Piece
      PROVE  p[1] \in Requests /\ p[2] \in Nat /\ p = <<p[1], p[2]>>
  BY DEF Piece
<1>4. \A i \in Places : down[i].piece \in Piece
  BY <1>1 DEF Packets
<1>. QED  BY <1>1, <1>2, <1>3, <1>4 DEF Of, Chunk

(* A getter on the list, on a port all earlier getters of which have read  *)
(* their whole file, is the only one packets of that port are for.         *)
LEMMA OnlyIts ==
  ASSUME FileInv, NEW r \in getters, CleanPort(r),
         NEW i \in Places, down[i].port = get[r].port
  PROVE  Of(i) = r
<1>1. Typed /\ Listed /\ Carried /\ r \in Known
  BY DEF FileInv, Typed
<1> DEFINE q == Of(i)
<1>2. /\ q \in Known /\ Chunk(i) <= Reads(q) /\ get[q].port = get[r].port
      /\ r \in Nat /\ q \in Nat /\ Chunk(i) \in Nat /\ Chunks(q) \in Nat \ {0}
  BY <1>1, KnownFacts, PlaceFacts DEF Carried
<1> HIDE DEF q
<1>3. ~(r < q)
  BY <1>1, <1>2 DEF Listed
<1>4. ASSUME q < r PROVE FALSE
  <2>1. q \in 1..(r - 1)
    BY <1>1, <1>2, <1>4 DEF Known
  <2>2. get[q].data = Whole(q) /\ Reads(q) = Chunks(q)
    BY <1>1, <1>2, <2>1, KnownFacts DEF CleanPort
  <2>3. get[q].data \in Seq(Piece)
    BY <1>1, <1>2, KnownFacts DEF Getters
  <2>4. Chunks(q) \in 1..Len(get[q].data) /\ get[q].data[Chunks(q)] = <<q, Chunks(q)>>
    <3>1. Chunks(q) \in 1..Chunks(q)
      BY <1>2
    <3>. QED  BY <1>2, <2>2, <3>1 DEF Whole, Chunks, Reads
  <2>5. Has(get[q], q, Chunks(q))
    BY <2>4 DEF Has
  <2>6. Sent(q)
    BY <1>2 DEF FileInv
  <2>7. Chunks(q) < Chunk(i)
    BY <1>2, <2>5, <2>6 DEF Sent, q
  <2>. QED  BY <1>2, <2>2, <2>7
<1>5. q = r
  BY <1>2, <1>3, <1>4
<1>. QED  BY <1>5 DEF q

LEMMA ExpectedFacts ==
  ASSUME NEW g \in Getters
  PROVE  Expected(g) \in Nat
BY DEF Expected, Getters

(* The first packet of its sender is the chunk such a getter expects.      *)
LEMMA ItsNext ==
  ASSUME FileInv, NEW r \in Known, Clear(r), down # <<>>, Of(1) = r
  PROVE  /\ Chunk(1) = Expected(get[r])
         /\ Chunk(1) <= Chunks(r) => r \in getters /\ ~Dead(r)
         /\ down[1].port = get[r].port /\ down[1].piece = <<r, Expected(get[r])>>
<1>1. /\ Typed /\ Listed /\ Carried /\ Sent(r)
      /\ Good(r, get[r]) /\ Flow(r, Expected(get[r]))
  BY DEF FileInv, InOrder
<1>2. /\ 1 \in Places /\ get[r] \in Getters /\ Expected(get[r]) \in Nat /\ Chunks(r) \in Nat
      /\ Chunk(1) \in Nat /\ down[1].piece = <<r, Chunk(1)>>
  <2>1. 1 \in Places
    BY <1>1, QueueFacts DEF Typed, Places
  <2>. QED  BY <1>1, <2>1, KnownFacts, PlaceFacts, ExpectedFacts
<1>3. Expected(get[r]) <= Chunk(1) /\ down[1].port = get[r].port
  BY <1>1, <1>2 DEF Flow, Carried
<1>4. Chunk(1) = Expected(get[r])
  <2>1. OnStream(r, Expected(get[r]))
    BY <1>1, <1>2, <1>3 DEF Flow
  <2>2. PICK j \in Places : Of(j) = r /\ Chunk(j) = Expected(get[r])
    BY <2>1 DEF OnStream
  <2>3. j \in Nat /\ (j = 1 \/ 1 < j)
    BY <1>1, <2>2, PlaceFacts DEF Places
  <2>4. 1 < j => Chunk(1) < Chunk(j)
    BY <1>1, <1>2, <2>2 DEF Sent
  <2>. QED  BY <1>2, <1>3, <2>2, <2>3, <2>4
<1>5. Chunk(1) <= Chunks(r) => get[r].at # "done"
  <2>1. get[r].at = "done" => Expected(get[r]) = Chunks(r) + 1
    BY <1>1 DEF Good, Expected
  <2>. QED  BY <1>2, <1>4, <2>1
<1>6. Chunk(1) <= Chunks(r) => ~Dead(r)
  BY <1>5 DEF Dead, Clear
<1>7. Chunk(1) <= Chunks(r) => r \in getters
  BY <1>1, <1>6 DEF Listed
<1>. QED  BY <1>2, <1>3, <1>4, <1>6, <1>7

(* What CleanPort says of a request does not change any more.              *)
LEMMA StillClean ==
  ASSUME Typed, Listed, NEW r \in Known,
         \A q \in Known : /\ kind'[q] = kind[q] /\ get'[q].port = get[q].port
                          /\ q \notin getters => get'[q].data = get[q].data
  PROVE  CleanPort(r)' <=> CleanPort(r)
<1>1. r \in Nat /\ \A q \in 1..(r - 1) : q \in Known /\ q < r
  BY KnownFacts DEF Known
<1>2. \A q \in 1..(r - 1) : Whole(q)' = Whole(q)
  BY <1>1 DEF Whole
<1>3. \A q \in 1..(r - 1) : get[q].port = get[r].port => get'[q].data = get[q].data
  BY <1>1 DEF Listed
<1>. QED  BY <1>1, <1>2, <1>3 DEF CleanPort

-----------------------------------------------------------------------------
(* A step of one getter.                                                   *)

LEMMA UpFacts ==
  ASSUME Typed
  PROVE  /\ up \in Seq(UpMessage) /\ Len(up) \in Nat
         /\ \A i \in 1..Len(up) : up[i] \in UpMessage /\ up[i].n \in Nat
<1>1. up \in Seq(UpMessage)
  BY DEF Typed
<1>2. Len(up) \in Nat /\ \A i \in 1..Len(up) : up[i] \in UpMessage
  BY <1>1, QueueFacts
<1>. QED  BY <1>1, <1>2 DEF UpMessage

Alive(g) == g.at \in {"start", "length", "data"}
Ended(g) == g.at \in {"done", "failed"}

(* g is what becomes of getter r, which neither takes a packet off the     *)
(* stream nor forgets what it has, unless it fails.                        *)
Becomes(r, g) ==
  /\ g \in Getters /\ g.port = get[r].port /\ g.at # "none"
  /\ \A k \in Nat : Has(g, r, k) => Has(get[r], r, k)
  /\ Clear(r) /\ g.at # "failed" /\ Good(r, get[r]) =>
       Good(r, g) /\ Expected(g) = Expected(get[r])
  /\ g.late = get[r].late \/ g.at = "failed"
  /\ (Waits(g) => g.ready) /\ (get[r].at = "failed" => g.at = "failed")
  /\ Ended(g) \/ get[r].sofar <= g.sofar
GetterStep(r, g) ==
  /\ r \in getters /\ Becomes(r, g) /\ (Alive(get[r]) \/ Ended(g))
  /\ get' = [get EXCEPT ![r] = g]
  /\ getters' = getters \/ (Ended(g) /\ getters' = getters \ {r})
  /\ UNCHANGED <<kind, down, send, specialq>>
Answered(r, g) ==
  \/ up' = up
  \/ \E n \in Nat : /\ up' = Append(up, [what |-> "R", port |-> get[r].port, n |-> n])
                    /\ Ended(g) \/ n <= g.sofar

LEMMA GetterStepFacts ==
  ASSUME Typed, NEW r, NEW g, GetterStep(r, g)
  PROVE  /\ Typed /\ r \in Known /\ g \in Getters /\ get' \in [Requests -> Getters]
         /\ get'[r] = g /\ \A q \in Known \ {r} : get'[q] = get[q]
         /\ \A q \in Known : get'[q].port = get[q].port
         /\ Known' = Known /\ getters' \subseteq Known'
         /\ \A q \in Known : q \notin getters => q # r
         /\ \A q \in Known : Dead(q) => Dead(q)'
         /\ \A q \in Known : q \in getters => q \in getters' \/ Dead(q)'
<1>1. /\ r \in Known /\ g \in Getters /\ get' = [get EXCEPT ![r] = g]
      /\ get \in [Requests -> Getters] /\ Known \subseteq Requests
      /\ g.port = get[r].port /\ r \in getters /\ (Alive(get[r]) \/ Ended(g)) /\ kind' = kind
  BY KnownFacts DEF Typed, GetterStep, Becomes
<1>2. /\ get' \in [Requests -> Getters] /\ get'[r] = g
      /\ \A q \in Known \ {r} : get'[q] = get[q]
  BY <1>1
<1>3. \A q \in Known : get'[q].port = get[q].port
  BY <1>1, <1>2
<1>4. Known' = Known
  BY <1>1 DEF Known
<1>5. \A q \in Known : Dead(q) => Dead(q)'
  BY <1>1, <1>2 DEF Dead, Alive, Ended
<1>6. getters' \subseteq Known'
  BY <1>4 DEF GetterStep, Typed
<1>7. \A q \in Known : q \in getters => q \in getters' \/ Dead(q)'
  BY <1>2 DEF GetterStep, Ended, Dead
<1>. QED  BY <1>1, <1>2, <1>3, <1>4, <1>5, <1>6, <1>7

LEMMA GetterLists ==
  ASSUME FileInv, NEW r, NEW g, GetterStep(r, g)
  PROVE  Listed'
<1>1. Typed /\ Listed /\ UNCHANGED <<kind, send>>
  BY DEF FileInv, GetterStep
<1>2. /\ r \in Known /\ g.at # "none" /\ Known' = Known
      /\ get'[r] = g /\ \A q \in Known \ {r} : get'[q] = get[q]
      /\ \A q \in Known : get'[q].port = get[q].port
      /\ \A q \in Known : Dead(q) => Dead(q)'
      /\ \A q \in Known : q \in getters => q \in getters' \/ Dead(q)'
      /\ getters' \subseteq getters
  BY <1>1, GetterStepFacts DEF GetterStep, Becomes
<1>3. \A q \in Requests : q > Len(kind) => get'[q] = get[q]
  <2>1. \A q \in Requests : q > Len(kind) => q # r
    BY <1>1, <1>2, KnownFacts, FileAssumption DEF Requests, Known
  <2>2. get' = [get EXCEPT ![r] = g] /\ get \in [Requests -> Getters]
    BY <1>1 DEF GetterStep, Typed
  <2>. QED  BY <2>1, <2>2
<1>4. (\A q \in Requests : q > Len(kind) => get[q].at = "none" /\ send[q] = Silent)'
  BY <1>1, <1>3 DEF Listed
<1>5. (\A q \in Known : get[q].at # "none" /\ (q \in getters \/ Dead(q)))'
  BY <1>1, <1>2 DEF Listed
<1>6. (\A p, q \in Known : p < q /\ get[p].port = get[q].port => p \notin getters)'
  BY <1>1, <1>2 DEF Listed
<1>7. Waits(g) => g.ready
  BY DEF GetterStep, Becomes
<1>8. (\A q \in Known : Waits(get[q]) /\ ~get[q].ready => get[q].buffer \in Known \X Nat)'
  BY <1>1, <1>2, <1>7 DEF Listed, Waits
<1>. QED  BY <1>4, <1>5, <1>6, <1>8 DEF Listed

LEMMA GetterAsks ==
  ASSUME FileInv, NEW r, NEW g, GetterStep(r, g), Answered(r, g)
  PROVE  Asked' /\ Carried' /\ up' \in Seq(UpMessage)
<1>1. Typed /\ Asked /\ Carried /\ UNCHANGED <<kind, send, down, specialq>>
  BY DEF FileInv, GetterStep
<1>2. Known' = Known /\ \A q \in Known : get'[q].port = get[q].port
  BY <1>1, GetterStepFacts
<1>3. Carried'
  BY <1>1, <1>2 DEF Carried, Places, Of, Chunk, Chunks, Reads
<1>4. /\ up' \in Seq(UpMessage)
      /\ \A i \in 1..Len(up') : up'[i].what = "X" => i \in 1..Len(up) /\ up'[i] = up[i]
  <2>1. CASE up' = up
    BY <1>1, <2>1 DEF Typed
  <2>2. CASE up' # up
    <3>1. PICK n \in Nat : up' = Append(up, [what |-> "R", port |-> get[r].port, n |-> n])
      BY <2>2 DEF Answered
    <3>2. get[r].port \in Nat
      BY <1>1, GetterStepFacts, KnownFacts DEF Getters
    <3>3. [what |-> "R", port |-> get[r].port, n |-> n] \in UpMessage
      BY <3>2 DEF UpMessage
    <3>. QED  BY <1>1, <3>1, <3>3, AppendFacts DEF Typed
  <2>. QED  BY <2>1, <2>2
<1>5. \A i \in 1..Len(up') : Asks(i)' => i \in 1..Len(up) /\ Asks(i) /\ up'[i] = up[i]
  BY <1>4 DEF Asks
<1>6. (\A i \in 1..Len(up) : Asks(i) =>
         up[i].n \in Known /\ up[i].port = get[up[i].n].port /\ send[up[i].n].at = "none")'
  BY <1>1, <1>2, <1>5 DEF Asked
<1>7. (\A i \in 1..Len(specialq) :
         /\ specialq[i][2] \in Known /\ specialq[i][1] = get[specialq[i][2]].port
         /\ send[specialq[i][2]].at = "none")'
  BY <1>1, <1>2 DEF Asked
<1>8. (/\ \A i, j \in 1..Len(up) : Asks(i) /\ Asks(j) /\ up[i].n = up[j].n => i = j
       /\ \A i, j \in 1..Len(specialq) : specialq[i][2] = specialq[j][2] => i = j
       /\ \A i \in 1..Len(up), j \in 1..Len(specialq) : Asks(i) => up[i].n # specialq[j][2])'
  BY <1>1, <1>5 DEF Asked
<1>. QED  BY <1>3, <1>4, <1>6, <1>7, <1>8 DEF Asked

LEMMA GetterSent ==
  ASSUME FileInv, NEW r, NEW g, GetterStep(r, g), NEW q \in Known
  PROVE  Sent(q)'
<1>1. Typed /\ Sent(q) /\ UNCHANGED <<kind, send, down>>
  BY DEF FileInv, GetterStep
<1>2. \A k \in Nat : Has(get'[q], q, k) => Has(get[q], q, k)
  <2>1. CASE q = r
    BY <1>1, <2>1, GetterStepFacts DEF GetterStep, Becomes
  <2>2. CASE q # r
    <3>1. get'[q] = get[q]
      BY <1>1, <2>2, GetterStepFacts
    <3>. QED  BY <3>1
  <2>. QED  BY <2>1, <2>2
<1>3. \A k \in Nat : Has(get[q], q, k)' => Has(get[q], q, k)
  BY <1>2 DEF Has
<1>4. Places' = Places /\ Chunks(q)' = Chunks(q) /\ Reads(q)' = Reads(q)
      /\ \A i : Of(i)' = Of(i) /\ Chunk(i)' = Chunk(i)
  BY <1>1 DEF Places, Chunks, Reads, Of, Chunk
<1>. QED  BY <1>1, <1>3, <1>4 DEF Sent

LEMMA GetterInOrder ==
  ASSUME FileInv, NEW r, NEW g, GetterStep(r, g), NEW q \in Known
  PROVE  InOrder(q)'
<1>1. Typed /\ Listed /\ InOrder(q) /\ UNCHANGED <<kind, send, down>>
  BY DEF FileInv, GetterStep
<1>2. CleanPort(q)' <=> CleanPort(q)
  <2>1. \A p \in Known : /\ kind'[p] = kind[p] /\ get'[p].port = get[p].port
                         /\ p \notin getters => get'[p].data = get[p].data
    BY <1>1, GetterStepFacts
  <2>. QED  BY <1>1, <2>1, StillClean
<1>3. CASE q # r
  <2>1. get'[q] = get[q]
    BY <1>1, <1>3, GetterStepFacts
  <2>2. Clear(q)' => Clear(q)
    BY <1>2, <2>1 DEF Clear
  <2>. QED  BY <1>1, <2>1, <2>2 DEF InOrder, Good, Chunks, Reads, Expected, Flow, Places, Of, Chunk, OnStream
<1>4. CASE q = r
  <2>1. get'[r] = g /\ Becomes(r, g)
    BY <1>1, GetterStepFacts DEF GetterStep
  <2>2. Clear(r)' => Clear(r) /\ g.at # "failed"
    BY <1>2, <1>4, <2>1 DEF Clear, Becomes
  <2>3. ASSUME Clear(r)'
        PROVE  Good(r, g) /\ Expected(g) = Expected(get[r]) /\ Flow(r, Expected(g))
    BY <1>1, <1>4, <2>1, <2>2, <2>3 DEF InOrder, Becomes
  <2>. QED
    BY <1>1, <1>4, <2>1, <2>3
       DEF InOrder, Good, Chunks, Reads, Expected, Flow, Places, Of, Chunk, OnStream
<1>. QED  BY <1>3, <1>4

LEMMA GetterAcked ==
  ASSUME FileInv, NEW r, NEW g, GetterStep(r, g), Answered(r, g), NEW q \in Known
  PROVE  Acked(q)'
<1>1. Typed /\ Listed /\ Acked(q) /\ UNCHANGED <<kind, send>>
  BY DEF FileInv, GetterStep
<1>. SUFFICES ASSUME ~Dead(q)' PROVE Acked(q)'
  BY DEF Acked
<1>2. /\ r \in Known /\ r \in getters /\ get'[r] = g /\ g \in Getters
      /\ \A p \in Known \ {r} : get'[p] = get[p]
      /\ \A p \in Known : get'[p].port = get[p].port
      /\ ~Dead(q)
  BY <1>1, GetterStepFacts DEF GetterStep
<1>3. q \in getters
  BY <1>1, <1>2 DEF Listed
<1>4. q # r => get[q].port # get[r].port
  <2>1. q \in Nat /\ r \in Nat
    BY <1>1, <1>2, KnownFacts
  <2>. QED  BY <1>1, <1>2, <1>3, <2>1 DEF Listed
<1>5. /\ get[q].sofar \in Nat /\ get'[q].sofar \in Nat /\ get[q].sofar <= get'[q].sofar
      /\ Window \in Nat /\ send[q].pos \in Nat /\ send[q].progress \in Nat
  <2>1. get[q] \in Getters /\ send[q] \in Senders
    BY <1>1, KnownFacts
  <2>2. CASE q = r
    <3>1. ~Ended(g)
      BY <1>2, <2>2 DEF Ended, Dead
    <3>2. get[r].sofar <= g.sofar
      BY <3>1 DEF GetterStep, Becomes
    <3>. QED  BY <1>2, <2>1, <2>2, <3>2, FileAssumption DEF Getters, Senders
  <2>3. CASE q # r
    <3>1. get'[q] = get[q]
      BY <1>2, <2>3
    <3>. QED  BY <2>1, <3>1, FileAssumption DEF Getters, Senders
  <2>. QED  BY <2>2, <2>3
<1>6. \A i \in 1..Len(up) : Answers(i, q) => up[i].n <= get[q].sofar \/ Unserved(i, q)
  BY <1>1, <1>2 DEF Acked
<1>7. \A i \in 1..Len(up) : up[i].n \in Nat
  BY <1>1, UpFacts
<1>8. (\A i \in 1..Len(up) : Answers(i, q) => up[i].n <= get[q].sofar \/ Unserved(i, q))'
  <2>1. CASE up' = up
    <3>1. \A i : (Answers(i, q)' <=> Answers(i, q)) /\ (Unserved(i, q)' <=> Unserved(i, q))
      BY <1>2, <2>1 DEF Answers, Unserved, Asks
    <3>. QED  BY <1>5, <1>6, <1>7, <2>1, <3>1
  <2>2. CASE up' # up
    <3>1. PICK n \in Nat : /\ up' = Append(up, [what |-> "R", port |-> get[r].port, n |-> n])
                           /\ Ended(g) \/ n <= g.sofar
      BY <2>2 DEF Answered
    <3>2. [what |-> "R", port |-> get[r].port, n |-> n] \in UpMessage /\ up \in Seq(UpMessage)
      BY <1>1, <1>2, KnownFacts, UpFacts DEF Getters, UpMessage
    <3>3. /\ Len(up') = Len(up) + 1 /\ Len(up) \in Nat
          /\ \A i \in 1..Len(up) : i \in 1..Len(up') /\ up'[i] = up[i]
          /\ up'[Len(up) + 1] = [what |-> "R", port |-> get[r].port, n |-> n]
          /\ \A i \in 1..Len(up') : i \in 1..Len(up) \/ i = Len(up) + 1
      BY <3>1, <3>2, AppendFacts, QueueFacts
    <3>4. \A i \in 1..Len(up) : /\ Answers(i, q)' => Answers(i, q)
                                /\ Unserved(i, q) => Unserved(i, q)'
      BY <1>2, <3>3 DEF Answers, Unserved, Asks
    <3>5. ASSUME NEW i, i = Len(up) + 1, Answers(i, q)'
          PROVE  up'[i].n <= get'[q].sofar
      <4>1. q = r
        BY <1>2, <1>4, <3>3, <3>5 DEF Answers
      <4>2. ~Ended(g)
        BY <1>2, <4>1 DEF Ended, Dead
      <4>. QED  BY <1>2, <3>1, <3>3, <3>5, <4>1, <4>2
    <3>6. ASSUME NEW i \in 1..Len(up'), Answers(i, q)'
          PROVE  up'[i].n <= get'[q].sofar \/ Unserved(i, q)'
      <4>1. CASE i \in 1..Len(up)
        <5>1. up[i].n <= get[q].sofar \/ Unserved(i, q)
          BY <1>6, <3>4, <3>6, <4>1
        <5>. QED  BY <1>5, <1>7, <3>3, <3>4, <4>1, <5>1
      <4>2. CASE i = Len(up) + 1
        BY <3>5, <3>6, <4>2
      <4>. QED  BY <3>3, <4>1, <4>2
    <3>7. \A i \in 1..Len(up') : Answers(i, q)' => up'[i].n <= get'[q].sofar \/ Unserved(i, q)'
      BY <3>6
    <3>. QED  BY <3>7
  <2>. QED  BY <2>1, <2>2
<1>9. Sending(q)' <=> Sending(q)
  BY <1>1 DEF Sending
<1>10. /\ Sending(q) => send[q].progress <= get[q].sofar
       /\ send[q].at = "data" => send[q].pos <= get[q].sofar + Window
       /\ send[q].at \in {"window", "last"} => send[q].pos <= get[q].sofar + Window + 1
  BY <1>1, <1>2 DEF Acked
<1>11. /\ Sending(q) => send[q].progress <= get'[q].sofar
       /\ send[q].at = "data" => send[q].pos <= get'[q].sofar + Window
       /\ send[q].at \in {"window", "last"} => send[q].pos <= get'[q].sofar + Window + 1
  BY <1>5, <1>10
<1>. QED  BY <1>1, <1>8, <1>9, <1>11 DEF Acked

(* The queue of the menu's tasks got no longer, or lost its first one.     *)
SameTasks == todo' = todo \/ (todo # <<>> /\ todo' = Tail(todo))

LEMMA RoomKept ==
  ASSUME Typed, Room, kind' = kind, SameTasks
  PROVE  Room' /\ todo' \in Seq(Tasks)
<1>1. todo \in Seq(Tasks)
  BY DEF Typed
<1>2. CASE todo' = todo
  BY <1>1, <1>2 DEF Room
<1>3. CASE todo # <<>> /\ todo' = Tail(todo)
  <2>1. /\ todo' \in Seq(Tasks) /\ Len(todo') = Len(todo) - 1
        /\ Len(todo) \in Nat
        /\ \A i \in 1..Len(todo') : i + 1 \in 1..Len(todo) /\ todo'[i] = todo[i + 1]
    BY <1>1, <1>3, TailFacts
  <2>2. ASSUME NEW j \in 1..Len(todo'), todo'[j][1] = "get"
        PROVE  Len(kind) + (Len(todo') - j) + 1 <= MaxRequests
    <3>1. Len(kind) + (Len(todo) - (j + 1)) + 1 <= MaxRequests
      BY <2>1, <2>2 DEF Room
    <3>. QED  BY <2>1, <3>1, KnownFacts
  <2>. QED  BY <2>1, <2>2 DEF Room
<1>. QED  BY <1>2, <1>3 DEF SameTasks

(* The flags and the menu's own variables.                                 *)
RestTyped ==
  /\ previous \in [Kinds -> Nat] /\ open \in BOOLEAN
  /\ lost \subseteq Known /\ dirty \in BOOLEAN /\ admin \in {"idle", "reset"}

LEMMA GetterStepKeeps ==
  ASSUME FileInv, NEW r, NEW g, GetterStep(r, g), Answered(r, g), SameTasks, RestTyped'
  PROVE  FileInv'
<1>1. Typed /\ UNCHANGED <<kind, down, send, specialq>>
  BY DEF FileInv, GetterStep
<1>2. Room' /\ todo' \in Seq(Tasks)
  BY <1>1, RoomKept DEF FileInv
<1>3. Listed'
  BY GetterLists
<1>4. Asked' /\ Carried' /\ up' \in Seq(UpMessage)
  BY GetterAsks
<1>5. \A q \in Known : Sent(q)' /\ InOrder(q)' /\ Acked(q)'
  BY GetterSent, GetterInOrder, GetterAcked
<1>6. get' \in [Requests -> Getters] /\ getters' \subseteq Known' /\ Known' = Known
  BY <1>1, GetterStepFacts
<1>7. Typed'
  BY <1>1, <1>2, <1>4, <1>6 DEF Typed, RestTyped
<1>. QED  BY <1>2, <1>3, <1>4, <1>5, <1>6, <1>7 DEF FileInv

-----------------------------------------------------------------------------
(* Largest elements: the longest file, the last port.                      *)

LEMMA LeastNumber ==
  ASSUME NEW S \in SUBSET Nat, S # {}
  PROVE  \E n \in S : \A j \in S : n <= j
<1>1. \E n \in S : \A j \in S : ~ (<<j, n>> \in OpToRel(<, Nat))
  BY NatLessThanWellFounded, WFMin, Zenon
<1>2. PICK n \in S : \A j \in S : ~ (<<j, n>> \in OpToRel(<, Nat))
  BY <1>1
<1>3. ASSUME NEW j \in S PROVE n <= j
  <2>1. <<j, n>> \in Nat \X Nat
    OBVIOUS
  <2>2. ~ (j < n)
    BY <1>2, <2>1 DEF OpToRel
  <2>. QED  BY <2>2
<1>. QED  BY <1>3

LEMMA Greatest ==
  ASSUME NEW S, IsFiniteSet(S), S # {}, NEW f \in [S -> Nat]
  PROVE  \E m \in S : \A q \in S : f[q] <= f[m]
<1> DEFINE Tops(A) == \E m \in A : \A q \in A : f[q] <= f[m]
           Bad == {n \in Nat : \E A \in SUBSET S : A # {} /\ Cardinality(A) = n /\ ~Tops(A)}
<1>1. \A A \in SUBSET S : IsFiniteSet(A) /\ Cardinality(A) \in Nat
  BY FS_Subset, FS_CardinalityType
<1>2. CASE Bad = {}
  <2>1. S \in SUBSET S /\ Cardinality(S) \in Nat
    BY <1>1
  <2>2. Tops(S)
    BY <1>2, <2>1
  <2>. QED  BY <2>2
<1>3. CASE Bad # {}
  <2>1. PICK n \in Bad : \A j \in Bad : n <= j
    BY <1>3, LeastNumber
  <2>2. PICK A \in SUBSET S : A # {} /\ Cardinality(A) = n /\ ~Tops(A)
    BY <2>1
  <2>3. PICK a : a \in A
    BY <2>2
  <2> DEFINE B == A \ {a}
  <2>4. B \in SUBSET S /\ Cardinality(B) = n - 1 /\ Cardinality(B) \in Nat /\ n \in Nat
    BY <1>1, <2>2, <2>3, FS_RemoveElement
  <2>5. B # {}
    <3>1. f[a] \in Nat
      BY <2>3
    <3>. QED  BY <2>2, <2>3, <3>1
  <2>6. Tops(B)
    <3>1. Cardinality(B) \notin Bad
      <4> HIDE DEF B, Bad
      <4>1. ~(n <= Cardinality(B))
        BY <2>4
      <4>. QED  BY <2>1, <4>1
    <3>. QED  BY <2>4, <2>5, <3>1
  <2>7. PICK m \in B : \A q \in B : f[q] <= f[m]
    BY <2>6
  <2>8. f[a] \in Nat /\ f[m] \in Nat /\ \A q \in A : q = a \/ q \in B
    BY <2>3, <2>7
  <2>9. CASE f[a] <= f[m]
    <3>1. m \in A /\ \A q \in A : f[q] <= f[m]
      BY <2>7, <2>8, <2>9
    <3>. QED  BY <2>2, <3>1
  <2>10. CASE ~(f[a] <= f[m])
    <3>1. \A q \in B : f[q] \in Nat /\ f[q] <= f[m]
      BY <2>7
    <3>2. a \in A /\ \A q \in A : f[q] <= f[a]
      BY <2>3, <2>8, <2>10, <3>1
    <3>. QED  BY <2>2, <3>2
  <2>. QED  BY <2>9, <2>10
<1>. QED  BY <1>2, <1>3

(* Four bytes that are no length still are a number.                       *)
LEMMA GarbageIsNumber == Garbage \subseteq Nat
<1>1. IsFiniteSet(Kinds) /\ Kinds # {} /\ Size \in [Kinds -> Nat]
  BY FileAssumption, FS_AddElement DEF Kinds
<1>2. PICK m \in Kinds : \A k \in Kinds : Size[k] <= Size[m]
  BY <1>1, Greatest
<1> DEFINE P(n) == \A k \in Kinds : Size[k] <= n
           top == CHOOSE n \in {Size[k] : k \in Kinds} : P(n)
<1>3. \E n \in {Size[k] : k \in Kinds} : P(n)
  BY <1>2
<1> HIDE DEF P
<1>4. top \in {Size[k] : k \in Kinds}
  BY <1>3
<1>5. top \in Nat
  BY <1>1, <1>4
<1> HIDE DEF top
<1>6. Garbage = {0, 1 + top}
  BY DEF Garbage, top, P
<1>. QED  BY <1>5, <1>6

-----------------------------------------------------------------------------
(* GetFileThread::proc.                                                    *)

LEMMA WrittenFacts ==
  ASSUME NEW g \in Getters, g.at = "data", g.buffer \in Piece
  PROVE  /\ Written(g) \in Getters /\ Written(g).port = g.port /\ Written(g).late = g.late
         /\ Written(g).length = g.length /\ Written(g).buffer = <<>>
         /\ Written(g).data = IF Empty(g.buffer) THEN g.data ELSE Append(g.data, g.buffer)
         /\ Written(g).sofar =
              IF Empty(g.buffer) THEN g.sofar
              ELSE g.sofar + IF g.buffer[2] = 0 THEN 0 ELSE 1
         /\ Written(g).ready <=> Written(g).sofar < g.length
         /\ Written(g).at = IF Written(g).ready THEN "data" ELSE "done"
         /\ g.sofar <= Written(g).sofar
<1> DEFINE n == IF g.buffer[2] = 0 THEN 0 ELSE 1
           o == Empty(g.buffer)
           d == IF o THEN g.data ELSE Append(g.data, g.buffer)
           s == IF o THEN g.sofar ELSE g.sofar + n
           more == IF o THEN g ELSE [g EXCEPT !.data = Append(@, g.buffer), !.sofar = @ + n]
           a == IF more.sofar >= more.length THEN "done" ELSE more.at
           b == more.sofar < more.length
           w == [more EXCEPT !.at = a, !.ready = b, !.buffer = <<>>]
<1>1. n \in Nat /\ g.sofar \in Nat /\ g.length \in Nat /\ g.data \in Seq(Piece)
  BY DEF Getters
<1>2. d \in Seq(Piece) /\ s \in Nat /\ g.sofar <= s
  BY <1>1, AppendFacts
<1>3. Written(g) = w
  BY DEF Written
<1>o. o \in BOOLEAN
  BY DEF Empty
<1> HIDE DEF o
<1>m. more = [g EXCEPT !.data = d, !.sofar = s]
  <2>1. CASE o
    <3>1. more = g /\ d = g.data /\ s = g.sofar
      BY <2>1
    <3>. QED  BY <3>1 DEF Getters
  <2>2. CASE ~o
    BY <2>2 DEF Getters
  <2>. QED  BY <1>o, <2>1, <2>2
<1> HIDE DEF d, s
<1> HIDE DEF more
<1>4. /\ more \in Getters /\ more.data = d /\ more.sofar = s /\ more.port = g.port
      /\ more.late = g.late /\ more.length = g.length /\ more.at = "data"
  BY <1>2, <1>m DEF Getters
<1>5. a \in {"data", "done"} /\ b \in BOOLEAN
  BY <1>4
<1>6. a = IF b THEN "data" ELSE "done"
  BY <1>1, <1>2, <1>4
<1>7. b <=> s < g.length
  BY <1>4
<1> HIDE DEF a, b
<1>w. w = [more EXCEPT !.at = a, !.ready = b, !.buffer = <<>>]
  OBVIOUS
<1> HIDE DEF w
<1>8. /\ w \in Getters /\ w.at = a /\ w.ready = b /\ w.buffer = <<>>
      /\ w.data = more.data /\ w.sofar = more.sofar /\ w.port = more.port
      /\ w.late = more.late /\ w.length = more.length
  BY <1>4, <1>5, <1>w DEF Getters
<1>9. w.sofar = IF Empty(g.buffer) THEN g.sofar
                ELSE g.sofar + IF g.buffer[2] = 0 THEN 0 ELSE 1
  BY <1>4, <1>8 DEF s, o
<1>10. w.data = IF Empty(g.buffer) THEN g.data ELSE Append(g.data, g.buffer)
  BY <1>4, <1>8 DEF d, o
<1>. QED  BY <1>2, <1>3, <1>4, <1>6, <1>7, <1>8, <1>9, <1>10

LEMMA FailedBecomes ==
  ASSUME FileInv, NEW r \in Known
  PROVE  /\ Becomes(r, Failed(get[r])) /\ Ended(Failed(get[r]))
         /\ Failed(get[r]).at = "failed"
<1>1. Typed /\ get[r] \in Getters
  BY KnownFacts DEF FileInv
<1>2. get[r].port \in Nat /\ <<>> \in Seq(Piece) /\ Len(<<>>) = 0
  BY <1>1 DEF Getters
<1>3. /\ Failed(get[r]).at = "failed" /\ Failed(get[r]).port = get[r].port
      /\ Failed(get[r]).buffer = <<>> /\ Failed(get[r]).data = <<>>
      /\ Failed(get[r]) \in Getters
  BY <1>2 DEF Failed, Idle, Getters
<1>4. \A k \in Nat : ~Has(Failed(get[r]), r, k)
  <2>1. \A j : j \notin 1..Len(Failed(get[r]).data)
    BY <1>2, <1>3
  <2>. QED  BY <1>3, <2>1 DEF Has
<1>. QED  BY <1>3, <1>4 DEF Becomes, Ended, Waits

LEMMA WrittenBecomes ==
  ASSUME FileInv, NEW r \in Known, get[r].at = "data", ~get[r].ready
  PROVE  Becomes(r, Written(get[r]))
<1> DEFINE g == get[r]
           w == Written(g)
<1>1. Typed /\ Listed /\ g \in Getters /\ Chunks(r) \in Nat
  BY KnownFacts DEF FileInv
<1>2. g.buffer \in Known \X Nat
  BY <1>1 DEF Listed, Waits
<1>3. g.buffer \in Piece
  BY <1>1, <1>2, KnownFacts DEF Piece
<1>4. /\ w \in Getters /\ w.port = g.port /\ w.late = g.late
      /\ w.length = g.length /\ w.buffer = <<>>
      /\ w.data = IF Empty(g.buffer) THEN g.data ELSE Append(g.data, g.buffer)
      /\ w.sofar = IF Empty(g.buffer) THEN g.sofar
                   ELSE g.sofar + IF g.buffer[2] = 0 THEN 0 ELSE 1
      /\ w.ready <=> w.sofar < g.length
      /\ w.at = IF w.ready THEN "data" ELSE "done"
      /\ g.sofar <= w.sofar
  BY <1>1, <1>3, WrittenFacts
<1>5. g.data \in Seq(Piece) /\ g.sofar \in Nat /\ g.length \in Nat
  BY <1>1 DEF Getters
<1> HIDE DEF w, g
<1>6. ~Empty(g.buffer) =>
        /\ Len(w.data) = Len(g.data) + 1 /\ Len(g.data) \in Nat
        /\ \A i \in 1..Len(g.data) : w.data[i] = g.data[i]
        /\ w.data[Len(g.data) + 1] = g.buffer
        /\ \A i \in 1..Len(g.data) + 1 : i \in 1..Len(g.data) \/ i = Len(g.data) + 1
  BY <1>3, <1>4, <1>5, AppendFacts, QueueFacts
<1>7. \A k \in Nat : Has(w, r, k) => Has(g, r, k)
  <2>1. CASE Empty(g.buffer)
    BY <1>3, <1>4, <2>1 DEF Has, Piece
  <2>2. CASE ~Empty(g.buffer)
    BY <1>4, <1>6, <2>2 DEF Has
  <2>. QED  BY <2>1, <2>2
<1>8. ASSUME Good(r, g)
      PROVE  Good(r, w) /\ Expected(w) = Expected(g)
  <2>1. /\ Len(g.data) = g.sofar /\ \A j \in 1..g.sofar : g.data[j] = <<r, j>>
        /\ g.length = Chunks(r) /\ g.sofar < Chunks(r) /\ g.buffer = <<r, g.sofar + 1>>
    BY <1>8 DEF Good, g
  <2>2. g.buffer[2] # 0 /\ ~Empty(g.buffer)
    BY <1>1, <1>5, <2>1 DEF Empty, Chunks, Reads
  <2>3. w.sofar = g.sofar + 1
    BY <1>4, <2>2
  <2>4. Len(w.data) = w.sofar /\ \A j \in 1..w.sofar : w.data[j] = <<r, j>>
    BY <1>6, <2>1, <2>2, <2>3
  <2>5. w.sofar <= Chunks(r) /\ (w.at = "data" => w.sofar < Chunks(r) /\ w.ready)
        /\ (w.at = "done" => w.sofar = Chunks(r)) /\ w.at \in {"data", "done"}
    BY <1>1, <1>4, <1>5, <2>1, <2>3
  <2>6. Expected(w) = w.sofar + 1
    BY <2>5 DEF Expected
  <2>7. Expected(g) = g.sofar + 2
    BY DEF Expected, g
  <2>8. Expected(w) = Expected(g)
    BY <1>5, <2>3, <2>6, <2>7
  <2>. QED  BY <1>4, <2>1, <2>4, <2>5, <2>8 DEF Good
<1>. QED  BY <1>4, <1>7, <1>8 DEF Becomes, g, w, Ended, Waits

LEMMA AliveIsListed ==
  ASSUME FileInv, NEW r \in Requests, Alive(get[r])
  PROVE  r \in Known /\ r \in getters
<1>1. Typed /\ Listed
  BY DEF FileInv
<1>2. r \in Known
  BY <1>1, KnownFacts, FileAssumption DEF Listed, Alive, Known, Requests
<1>. QED  BY <1>1, <1>2 DEF Listed, Dead, Alive

LEMMA FailsKeeps ==
  ASSUME FileInv, NEW r \in Requests, Alive(get[r]),
         get' = [get EXCEPT ![r] = Failed(@)],
         UNCHANGED <<kind, getters, todo, previous, open, send, specialq, down, up, admin, lost>>,
         dirty' \in BOOLEAN
  PROVE  FileInv'
<1> DEFINE g == Failed(get[r])
<1>1. r \in Known /\ r \in getters
  BY AliveIsListed
<1>2. Becomes(r, g)
  BY <1>1, FailedBecomes
<1>3. get' = [get EXCEPT ![r] = g]
  OBVIOUS
<1> HIDE DEF g
<1>4. GetterStep(r, g) /\ Answered(r, g) /\ SameTasks
  BY <1>1, <1>2, <1>3 DEF GetterStep, Answered, SameTasks
<1>5. RestTyped'
  BY DEF FileInv, Typed, RestTyped, Known
<1>. QED  BY <1>4, <1>5, GetterStepKeeps

LEMMA GetterStartsKeeps ==
  ASSUME FileInv, NEW r \in Requests, GetterStarts(r)
  PROVE  FileInv'
<1>1. /\ get[r].at = "start"
      /\ UNCHANGED <<kind, getters, todo, previous, open, send, specialq, down, up, admin, lost>>
  BY DEF GetterStarts, host
<1>2. Alive(get[r])
  BY <1>1 DEF Alive
<1>3. CASE get' = [get EXCEPT ![r] = Failed(@)] /\ setFileDirty
  BY <1>1, <1>2, <1>3, FailsKeeps DEF setFileDirty
<1>4. CASE /\ get' = [get EXCEPT ![r].at = "length", ![r].ready = TRUE]
           /\ UNCHANGED dirty
  <2> DEFINE g == [get[r] EXCEPT !.at = "length", !.ready = TRUE]
  <2>1. r \in Known /\ r \in getters /\ get[r] \in Getters /\ get \in [Requests -> Getters]
    BY <1>2, AliveIsListed, KnownFacts DEF FileInv, Typed
  <2>2. get' = [get EXCEPT ![r] = g]
    BY <1>4, <2>1
  <2>3. /\ g \in Getters /\ g.port = get[r].port /\ g.at = "length" /\ g.ready
        /\ g.late = get[r].late /\ g.sofar = get[r].sofar /\ g.buffer = get[r].buffer
        /\ g.data = get[r].data
    BY <2>1 DEF Getters
  <2> HIDE DEF g
  <2>4. \A k \in Nat : Has(g, r, k) => Has(get[r], r, k)
    BY <2>3 DEF Has
  <2>5. ASSUME Good(r, get[r]) PROVE Good(r, g) /\ Expected(g) = Expected(get[r])
    BY <1>1, <2>3, <2>5 DEF Good, Expected
  <2>6. get[r].sofar <= g.sofar
    BY <2>1, <2>3 DEF Getters
  <2>7. GetterStep(r, g) /\ Answered(r, g) /\ SameTasks
    BY <1>1, <1>2, <2>1, <2>2, <2>3, <2>4, <2>5, <2>6
       DEF GetterStep, Becomes, Answered, SameTasks
  <2>8. RestTyped'
    BY <1>1, <1>4 DEF FileInv, Typed, RestTyped, Known
  <2>. QED  BY <2>7, <2>8, GetterStepKeeps
<1>. QED  BY <1>3, <1>4 DEF GetterStarts

LEMMA GetterTimesOutKeeps ==
  ASSUME FileInv, NEW r \in Requests, GetterTimesOut(r)
  PROVE  FileInv'
<1>1. Alive(get[r])
  BY DEF GetterTimesOut, Alive
<1>. QED  BY <1>1, FailsKeeps DEF GetterTimesOut, setFileDirty, host

LEMMA GetterReadsLengthKeeps ==
  ASSUME FileInv, NEW r \in Requests, GetterReadsLength(r)
  PROVE  FileInv'
<1>1. /\ get[r].at = "length" /\ ~get[r].ready
      /\ UNCHANGED <<kind, getters, todo, previous, open, send, specialq, down, up,
                     dirty, admin, lost>>
  BY DEF GetterReadsLength, host, clean
<1>2. PICK n \in Lengths(get[r].buffer) :
        get' = [get EXCEPT ![r].at = "data", ![r].length = n, ![r].ready = TRUE,
                           ![r].buffer = <<>>]
  BY DEF GetterReadsLength
<1> DEFINE g == [get[r] EXCEPT !.at = "data", !.length = n, !.ready = TRUE, !.buffer = <<>>]
<1>3. /\ r \in Known /\ r \in getters /\ get[r] \in Getters /\ get \in [Requests -> Getters]
      /\ Alive(get[r]) /\ Chunks(r) \in Nat \ {0}
  BY <1>1, AliveIsListed, KnownFacts DEF FileInv, Typed, Alive
<1>4. get[r].buffer \in Known \X Nat
  BY <1>1, <1>3 DEF FileInv, Listed, Waits
<1>5. n \in Nat /\ (get[r].buffer = <<r, 0>> => n = Chunks(r))
  <2>1. \A q \in Known : Chunks(q) \in Nat
    BY KnownFacts DEF FileInv
  <2>2. CASE get[r].buffer[2] = 0
    <3>1. n = Chunks(get[r].buffer[1]) /\ get[r].buffer[1] \in Known
      BY <1>2, <1>4, <2>2 DEF Lengths, Chunks, Reads
    <3>. QED  BY <2>1, <3>1
  <2>3. CASE get[r].buffer[2] # 0
    BY <1>2, <2>3, GarbageIsNumber DEF Lengths
  <2>. QED  BY <2>2, <2>3
<1>6. get' = [get EXCEPT ![r] = g]
  BY <1>2, <1>3
<1>7. /\ g \in Getters /\ g.port = get[r].port /\ g.at = "data" /\ g.ready
      /\ g.late = get[r].late /\ g.sofar = get[r].sofar /\ g.buffer = <<>>
      /\ g.data = get[r].data /\ g.length = n
  BY <1>3, <1>5 DEF Getters
<1> HIDE DEF g
<1>8. \A k \in Nat : Has(g, r, k) => Has(get[r], r, k)
  BY <1>7 DEF Has
<1>9. ASSUME Good(r, get[r]) PROVE Good(r, g) /\ Expected(g) = Expected(get[r])
  <2>1. get[r].sofar = 0 /\ n = Chunks(r) /\ 0 < Chunks(r)
    BY <1>1, <1>3, <1>5, <1>9 DEF Good
  <2>. QED  BY <1>1, <1>7, <1>9, <2>1 DEF Good, Expected
<1>10. get[r].sofar <= g.sofar
  BY <1>3, <1>7 DEF Getters
<1>11. GetterStep(r, g) /\ Answered(r, g) /\ SameTasks
  BY <1>1, <1>3, <1>6, <1>7, <1>8, <1>9, <1>10
     DEF GetterStep, Becomes, Answered, SameTasks
<1>12. RestTyped'
  BY <1>1 DEF FileInv, Typed, RestTyped, Known
<1>. QED  BY <1>11, <1>12, GetterStepKeeps

LEMMA GetterReadsDataKeeps ==
  ASSUME FileInv, NEW r \in Requests, GetterReadsData(r)
  PROVE  FileInv'
<1> DEFINE g == Written(get[r])
<1>1. /\ get[r].at = "data" /\ ~get[r].ready /\ get' = [get EXCEPT ![r] = Written(@)]
      /\ UNCHANGED <<kind, getters, todo, previous, open, send, specialq, down, admin, lost>>
      /\ up' = Acknowledged(get[r]) /\ (dirty' = TRUE \/ dirty' = dirty)
  BY DEF GetterReadsData, host, setFileDirty
<1>2. r \in Known /\ r \in getters /\ Alive(get[r]) /\ get \in [Requests -> Getters]
  BY <1>1, AliveIsListed DEF FileInv, Typed, Alive
<1>3. Becomes(r, g)
  BY <1>1, <1>2, WrittenBecomes
<1>4. \/ Acknowledged(get[r]) = up
      \/ Acknowledged(get[r]) = Append(up, [what |-> "R", port |-> get[r].port, n |-> g.sofar])
  BY DEF Acknowledged
<1>5. get' = [get EXCEPT ![r] = g]
  BY <1>1
<1> HIDE DEF g
<1>6. g.sofar \in Nat
  BY <1>3 DEF Becomes, Getters
<1>7. GetterStep(r, g) /\ Answered(r, g) /\ SameTasks
  BY <1>1, <1>2, <1>3, <1>4, <1>5, <1>6 DEF GetterStep, Answered, SameTasks
<1>8. RestTyped'
  BY <1>1 DEF FileInv, Typed, RestTyped, Known
<1>. QED  BY <1>7, <1>8, GetterStepKeeps

-----------------------------------------------------------------------------
(* The menu.                                                               *)

(* No getter, sender or stream moves; dead getters may leave the list.     *)
LEMMA NothingMoves ==
  ASSUME FileInv, UNCHANGED <<kind, get, send, down, up, specialq>>,
         getters' \subseteq getters, \A r \in getters : r \in getters' \/ Dead(r),
         Room', todo' \in Seq(Tasks), RestTyped'
  PROVE  FileInv'
<1>1. /\ Typed /\ Listed /\ Asked /\ Carried
      /\ \A r \in Known : Sent(r) /\ InOrder(r) /\ Acked(r)
  BY DEF FileInv
<1>2. Known' = Known /\ Typed'
  BY <1>1 DEF Typed, RestTyped, Known
<1>3. Listed'
  BY <1>1, <1>2 DEF Listed, Dead
<1>4. Asked' /\ Carried'
  BY <1>1, <1>2 DEF Asked, Asks, Carried, Places, Of, Chunk, Chunks, Reads
<1>5. /\ Places' = Places /\ \A i : Of(i)' = Of(i) /\ Chunk(i)' = Chunk(i)
      /\ \A r : Chunks(r)' = Chunks(r) /\ Reads(r)' = Reads(r)
      /\ \A r, k : (Has(get[r], r, k)' <=> Has(get[r], r, k)) /\ (OnStream(r, k)' <=> OnStream(r, k))
  BY DEF Places, Of, Chunk, Chunks, Reads, Has, OnStream
<1>6. \A r \in Known : Sent(r)'
  BY <1>1, <1>5 DEF Sent
<1>7. ASSUME NEW r \in Known PROVE InOrder(r)'
  <2>1. Clear(r)' <=> Clear(r)
    BY DEF Clear, CleanPort, Whole
  <2>2. Good(r, get[r])' <=> Good(r, get[r])
    BY <1>5 DEF Good
  <2>3. Expected(get[r])' = Expected(get[r])
    BY DEF Expected
  <2>4. Flow(r, Expected(get[r]))' <=> Flow(r, Expected(get[r]))
    BY <1>5, <2>3 DEF Flow
  <2>. QED  BY <1>1, <2>1, <2>2, <2>4 DEF InOrder
<1>8. \A r \in Known : Acked(r)'
  BY <1>1 DEF Acked, Answers, Unserved, Asks, Sending, Dead
<1>. QED  BY <1>2, <1>3, <1>4, <1>6, <1>7, <1>8 DEF FileInv

LEMMA StopOneKeeps ==
  ASSUME FileInv, StopOne
  PROVE  FileInv'
<1> DEFINE port == previous[Head(todo)[2]]
           hit == {r \in getters : get[r].port = port}
           handed(r) == get[r].at = "data" /\ ~get[r].ready
           e(r) == IF handed(r) THEN Written(get[r]) ELSE get[r]
<1>1. /\ SameTasks /\ UNCHANGED <<kind, previous, open, send, specialq, down, admin, lost>>
      /\ (dirty' = TRUE \/ dirty' = dirty)
  BY DEF StopOne, SameTasks, host, setFileDirty
<1>2. \/ UNCHANGED <<get, getters, up>>
      \/ \E r \in hit :
           /\ getters' = getters \ {r}
           /\ get' = [get EXCEPT ![r] = IF e(r).at = "done" THEN e(r) ELSE Failed(get[r])]
           /\ up' = IF handed(r) THEN Acknowledged(get[r]) ELSE up
  BY DEF StopOne
<1>3. RestTyped'
  BY <1>1 DEF FileInv, Typed, RestTyped, Known
<1>4. Room' /\ todo' \in Seq(Tasks)
  BY <1>1, RoomKept DEF FileInv
<1>5. CASE UNCHANGED <<get, getters, up>>
  BY <1>1, <1>3, <1>4, <1>5, NothingMoves
<1>6. ASSUME NEW r \in hit,
             getters' = getters \ {r},
             get' = [get EXCEPT ![r] = IF e(r).at = "done" THEN e(r) ELSE Failed(get[r])],
             up' = IF handed(r) THEN Acknowledged(get[r]) ELSE up
      PROVE  FileInv'
  <2> DEFINE g == IF e(r).at = "done" THEN e(r) ELSE Failed(get[r])
  <2>1. r \in getters /\ r \in Known /\ Typed /\ get \in [Requests -> Getters]
    BY DEF FileInv, Typed
  <2>2. Becomes(r, g) /\ Ended(g)
    <3>1. CASE handed(r) /\ e(r).at = "done"
      BY <2>1, <3>1, WrittenBecomes DEF Ended
    <3>2. CASE ~handed(r) /\ e(r).at = "done"
      <4>1. g = get[r] /\ get[r].at = "done" /\ get[r] \in Getters
        BY <2>1, <3>2, KnownFacts
      <4>. QED  BY <4>1 DEF Becomes, Ended, Waits
    <3>3. CASE e(r).at # "done"
      BY <2>1, <3>3, FailedBecomes
    <3>. QED  BY <3>1, <3>2, <3>3
  <2>3. Answered(r, g)
    <3>1. CASE handed(r)
      <4>1. Written(get[r]).sofar \in Nat
        BY <2>1, <3>1, WrittenBecomes DEF Becomes, Getters
      <4>2. \/ Acknowledged(get[r]) = up
            \/ Acknowledged(get[r]) =
                 Append(up, [what |-> "R", port |-> get[r].port, n |-> Written(get[r]).sofar])
        BY DEF Acknowledged
      <4>. QED  BY <1>6, <2>2, <3>1, <4>1, <4>2 DEF Answered
    <3>2. CASE ~handed(r)
      BY <1>6, <3>2 DEF Answered
    <3>. QED  BY <3>1, <3>2
  <2>4. GetterStep(r, g)
    BY <1>1, <1>6, <2>1, <2>2 DEF GetterStep
  <2>. QED  BY <1>1, <1>3, <2>3, <2>4, GetterStepKeeps
<1>. QED  BY <1>2, <1>5, <1>6

LEMMA SetToSeqFacts ==
  ASSUME NEW S, IsFiniteSet(S)
  PROVE  /\ Cardinality(S) \in Nat
         /\ \A j \in 1..Cardinality(S) : SetToSeq(S)[j] \in S
<1>1. Cardinality(S) \in Nat /\ ExistsBijection(1..Cardinality(S), S)
  BY FS_CardinalityType
<1>2. \E f \in [1..Cardinality(S) -> S] : IsInjective(f)
  BY <1>1 DEF ExistsBijection, Bijection, Injection
<1>3. SetToSeq(S) \in [1..Cardinality(S) -> S]
  BY <1>2 DEF SetToSeq
<1>. QED  BY <1>1, <1>3

LEMMA MapTasks ==
  ASSUME NEW op \in {"stop", "get"}, NEW S \in SUBSET MapFiles
  PROVE  LET t == [j \in 1..Cardinality(S) |-> <<op, SetToSeq(S)[j]>>]
         IN  /\ Cardinality(S) \in Nat /\ t \in Seq(Tasks) /\ Len(t) = Cardinality(S)
             /\ \A j \in 1..Len(t) : t[j][1] = op
<1> DEFINE n == Cardinality(S)
           t == [j \in 1..n |-> <<op, SetToSeq(S)[j]>>]
<1>1. n \in Nat /\ \A j \in 1..n : SetToSeq(S)[j] \in S
  BY FileAssumption, FS_Subset, SetToSeqFacts
<1> HIDE DEF n
<1>2. \A j \in 1..n : <<op, SetToSeq(S)[j]>> \in Tasks
  BY <1>1 DEF Tasks, Kinds
<1>3. t \in Seq(Tasks) /\ Len(t) = n
  BY <1>1, <1>2
<1>4. \A j \in 1..n : t[j][1] = op
  OBVIOUS
<1>. QED  BY <1>1, <1>3, <1>4 DEF n

(* First what stops, then what is got.                                     *)
LEMMA StopsThenGets ==
  ASSUME Typed, NEW s \in Seq(Tasks), NEW t \in Seq(Tasks),
         \A j \in 1..Len(s) : s[j][1] = "stop",
         Len(kind) + Len(t) <= MaxRequests,
         kind' = kind, todo' = s \o t
  PROVE  Room' /\ todo' \in Seq(Tasks)
<1>1. /\ todo' \in Seq(Tasks) /\ Len(todo') = Len(s) + Len(t)
      /\ Len(s) \in Nat /\ Len(t) \in Nat /\ Len(kind) \in Nat /\ MaxRequests \in Nat
  BY KnownFacts, QueueFacts, ConcatProperties, FileAssumption
<1>2. \A j \in 1..Len(s) : todo'[j] = s[j]
  BY <1>1, ConcatProperties
<1>3. ASSUME NEW j \in 1..Len(todo'), todo'[j][1] = "get"
      PROVE  Len(kind) + (Len(todo') - j) + 1 <= MaxRequests
  <2>1. j \notin 1..Len(s)
    BY <1>2, <1>3
  <2>. QED  BY <1>1, <2>1
<1>. QED  BY <1>1, <1>3 DEF Room

LEMMA TodoOnly ==
  ASSUME FileInv, UNCHANGED <<kind, get, getters, previous, host, down, up, clean>>,
         open' \in BOOLEAN, Room', todo' \in Seq(Tasks)
  PROVE  FileInv'
<1>1. RestTyped'
  BY DEF FileInv, Typed, RestTyped, Known, clean
<1>. QED  BY <1>1, NothingMoves DEF host

LEMMA SetMapKeeps ==
  ASSUME FileInv, SetMap
  PROVE  FileInv'
<1>1. PICK need \in SUBSET MapFiles :
        /\ Len(kind) + Cardinality(need) <= MaxRequests
        /\ todo' = [j \in 1..Cardinality(MapFiles) |-> <<"stop", SetToSeq(MapFiles)[j]>>]
                   \o [j \in 1..Cardinality(need) |-> <<"get", SetToSeq(need)[j]>>]
  BY DEF SetMap
<1> DEFINE s == [j \in 1..Cardinality(MapFiles) |-> <<"stop", SetToSeq(MapFiles)[j]>>]
           t == [j \in 1..Cardinality(need) |-> <<"get", SetToSeq(need)[j]>>]
<1>2. s \in Seq(Tasks) /\ \A j \in 1..Len(s) : s[j][1] = "stop"
  BY MapTasks
<1>3. t \in Seq(Tasks) /\ Len(t) = Cardinality(need)
  BY MapTasks
<1>4. todo' = s \o t /\ Len(kind) + Len(t) <= MaxRequests
  BY <1>1, <1>3
<1> HIDE DEF s, t
<1>5. Room' /\ todo' \in Seq(Tasks)
  BY <1>2, <1>3, <1>4, StopsThenGets DEF FileInv, SetMap
<1>. QED  BY <1>5, TodoOnly DEF SetMap, FileInv, Typed

LEMMA SetScriptKeeps ==
  ASSUME FileInv, SetScript
  PROVE  FileInv'
<1>1. todo' = << <<"stop", Script>>, <<"get", Script>> >> /\ Len(kind) < MaxRequests
  BY DEF SetScript
<1>2. <<"stop", Script>> \in Tasks /\ <<"get", Script>> \in Tasks
  BY DEF Tasks, Kinds
<1>3. /\ todo' \in Seq(Tasks) /\ Len(todo') = 2 /\ todo'[1] = <<"stop", Script>>
  BY <1>1, <1>2
<1>4. kind' = kind /\ Len(kind) \in Nat /\ MaxRequests \in Nat
  BY KnownFacts, FileAssumption DEF FileInv, SetScript
<1>5. ASSUME NEW j \in 1..Len(todo'), todo'[j][1] = "get"
      PROVE  Len(kind) + (Len(todo') - j) + 1 <= MaxRequests
  <2>1. j # 1
    BY <1>3, <1>5
  <2>2. j = 2
    BY <1>3, <2>1
  <2>. QED  BY <1>1, <1>3, <1>4, <2>2
<1>6. Room'
  BY <1>4, <1>5 DEF Room
<1>. QED  BY <1>3, <1>6, TodoOnly DEF SetScript, FileInv, Typed

LEMMA LeaveKeeps ==
  ASSUME FileInv, Leave
  PROVE  FileInv'
<1> DEFINE a == << <<"stop", Script>> >>
           b == [j \in 1..Cardinality(MapFiles) |-> <<"stop", SetToSeq(MapFiles)[j]>>]
<1>1. <<"stop", Script>> \in Tasks
  BY DEF Tasks, Kinds
<1>2. a \in Seq(Tasks) /\ Len(a) = 1 /\ a[1][1] = "stop"
  BY <1>1
<1>3. b \in Seq(Tasks) /\ Len(b) \in Nat /\ \A j \in 1..Len(b) : b[j][1] = "stop"
  BY MapTasks, QueueFacts
<1>4. todo' = a \o b /\ kind' = kind
  BY DEF Leave
<1> HIDE DEF a, b
<1>5. todo' \in Seq(Tasks) /\ Len(todo') = Len(a) + Len(b)
  BY <1>2, <1>3, <1>4, ConcatProperties
<1>6. ASSUME NEW j \in 1..Len(todo') PROVE todo'[j][1] = "stop"
  <2>1. CASE j = 1
    BY <1>2, <1>3, <1>4, <2>1, ConcatProperties
  <2>2. CASE j # 1
    <3>1. j - 1 \in 1..Len(b) /\ todo'[j] = b[j - 1]
      BY <1>2, <1>3, <1>4, <1>5, <2>2, ConcatProperties
    <3>. QED  BY <1>3, <3>1
  <2>. QED  BY <2>1, <2>2
<1>7. Room'
  BY <1>6 DEF Room
<1>. QED  BY <1>5, <1>7, TodoOnly DEF Leave

LEMMA NextPortIsNew ==
  ASSUME Typed
  PROVE  NextPort \in Nat /\ \A q \in getters : get[q].port # NextPort
<1> DEFINE used == {get[r].port : r \in getters} \cup {BasePort}
           P(p) == \A q \in used : q <= p
           last == CHOOSE p \in used : P(p)
<1>1. used \subseteq Nat /\ \A r \in getters : get[r].port \in Nat
  BY KnownFacts DEF Typed, Getters, BasePort
<1>2. \E p \in used : P(p)
  <2>1. CASE getters = {}
    <3>1. used = {BasePort} /\ BasePort \in Nat
      BY <2>1 DEF BasePort
    <3>. QED  BY <3>1
  <2>2. CASE getters # {}
    <3> DEFINE f == [r \in getters |-> get[r].port]
    <3>1. IsFiniteSet(getters) /\ f \in [getters -> Nat]
      <4>1. getters \subseteq 1..Len(kind) /\ Len(kind) \in Nat
        BY KnownFacts DEF Typed, Known
      <4>2. IsFiniteSet(1..Len(kind))
        BY <4>1, FS_Interval
      <4>. QED  BY <1>1, <4>1, <4>2, FS_Subset
    <3> HIDE DEF f
    <3>2. PICK m \in getters : \A q \in getters : f[q] <= f[m]
      BY <2>2, <3>1, Greatest
    <3>3. \A q \in getters : f[q] = get[q].port
      BY DEF f
    <3>4. \A q \in getters : get[q].port <= get[m].port
      BY <3>2, <3>3
    <3>5. get[m].port \in Nat /\ BasePort \in Nat /\ get[m].port \in used /\ BasePort \in used
      BY <1>1, <3>2 DEF BasePort
    <3>6. CASE BasePort <= get[m].port
      BY <3>4, <3>5, <3>6
    <3>7. CASE ~(BasePort <= get[m].port)
      <4>1. \A q \in getters : get[q].port <= BasePort
        BY <1>1, <3>4, <3>5, <3>7
      <4>. QED  BY <3>5, <4>1
    <3>. QED  BY <3>6, <3>7
  <2>. QED  BY <2>1, <2>2
<1> HIDE DEF P
<1>3. last \in used /\ P(last)
  BY <1>2
<1>4. NextPort = 1 + last
  BY DEF NextPort, P
<1> HIDE DEF last
<1>5. \A q \in getters : get[q].port \in used
  OBVIOUS
<1>6. last \in Nat /\ \A q \in used : q <= last
  BY <1>1, <1>3 DEF P
<1> HIDE DEF used
<1>7. \A q \in getters : get[q].port \in Nat /\ get[q].port <= last
  BY <1>1, <1>5, <1>6
<1>. QED  BY <1>4, <1>6, <1>7

(* What the menu does to ask for one more file.                            *)
LEMMA GetOneFacts ==
  ASSUME FileInv, GetOne, NEW r, r = Len(kind) + 1
  PROVE  /\ r \in Requests /\ r \notin Known /\ Known' = Known \cup {r}
         /\ \A q \in Known : q < r /\ q \in Nat
         /\ kind' \in Seq(Kinds) /\ Len(kind') = r /\ r \in Nat /\ kind'[r] \in Kinds
         /\ \A q \in Known : kind'[q] = kind[q]
         /\ get' \in [Requests -> Getters]
         /\ get'[r].at = "start" /\ get'[r].port = NextPort /\ get'[r].buffer = <<>>
         /\ get'[r].data = <<>> /\ get'[r].sofar = 0 /\ ~get'[r].ready
         /\ Len(get'[r].data) = 0 /\ \A k \in Nat : ~Has(get'[r], r, k)
         /\ \A q \in Requests \ {r} : get'[q] = get[q]
         /\ \A q \in Known : get'[q] = get[q]
         /\ getters' = getters \cup {r}
         /\ previous' \in [Kinds -> Nat]
         /\ up' = Append(up, [what |-> "X", port |-> NextPort, n |-> r])
         /\ todo # <<>> /\ todo' = Tail(todo) /\ Head(todo)[1] = "get"
         /\ UNCHANGED <<open, send, specialq, down, dirty, admin, lost>>
         /\ send[r] = Silent
<1>1. Typed /\ Room /\ Listed
  BY DEF FileInv
<1>2. /\ todo # <<>> /\ todo' = Tail(todo) /\ Head(todo)[1] = "get"
      /\ kind' = Append(kind, Head(todo)[2]) /\ getters' = getters \cup {r}
      /\ get' = [get EXCEPT ![r] = [Idle EXCEPT !.at = "start", !.port = NextPort]]
      /\ previous' = [previous EXCEPT ![Head(todo)[2]] = NextPort]
      /\ up' = Append(up, [what |-> "X", port |-> NextPort, n |-> r])
      /\ UNCHANGED <<open, send, specialq, down, dirty, admin, lost>>
  BY DEF GetOne, host, clean
<1>3. /\ Head(todo) = todo[1] /\ 1 \in 1..Len(todo) /\ Len(todo) \in Nat \ {0}
      /\ Head(todo)[2] \in Kinds
  <2>1. todo \in Seq(Tasks)
    BY <1>1 DEF Typed
  <2>2. Head(todo) = todo[1] /\ 1 \in 1..Len(todo) /\ Len(todo) \in Nat \ {0}
    BY <1>2, <2>1, TailFacts
  <2>3. todo[1] \in Tasks
    BY <2>1, <2>2, QueueFacts
  <2>. QED  BY <2>2, <2>3 DEF Tasks
<1>4. Len(kind) \in Nat /\ MaxRequests \in Nat /\ r \in Requests /\ r \in Nat
  <2>1. Len(kind) \in Nat /\ MaxRequests \in Nat
    BY <1>1, KnownFacts, FileAssumption
  <2>2. Len(kind) + (Len(todo) - 1) + 1 <= MaxRequests
    BY <1>1, <1>2, <1>3 DEF Room
  <2>. QED  BY <1>3, <2>1, <2>2 DEF Requests
<1>5. /\ kind' \in Seq(Kinds) /\ Len(kind') = r /\ kind'[r] \in Kinds
      /\ \A q \in Known : kind'[q] = kind[q]
  BY <1>1, <1>2, <1>3, AppendFacts DEF Typed, Known
<1>6. /\ r \notin Known /\ Known' = Known \cup {r} /\ \A q \in Known : q < r /\ q \in Nat
  BY <1>4, <1>5 DEF Known
<1>7. [Idle EXCEPT !.at = "start", !.port = NextPort] \in Getters
  <2>1. NextPort \in Nat /\ <<>> \in Seq(Piece)
    BY <1>1, NextPortIsNew
  <2>. QED  BY <2>1 DEF Idle, Getters
<1>8. /\ get' \in [Requests -> Getters] /\ get'[r] = [Idle EXCEPT !.at = "start", !.port = NextPort]
      /\ \A q \in Requests \ {r} : get'[q] = get[q]
  BY <1>1, <1>2, <1>4, <1>7 DEF Typed
<1>9. \A q \in Known : get'[q] = get[q]
  BY <1>1, <1>6, <1>8, KnownFacts
<1>10. previous' \in [Kinds -> Nat]
  <2>1. NextPort \in Nat /\ previous \in [Kinds -> Nat]
    BY <1>1, NextPortIsNew DEF Typed
  <2>. QED  BY <1>2, <2>1
<1>11. send[r] = Silent
  BY <1>1, <1>4 DEF Listed
<1>12. /\ get'[r].at = "start" /\ get'[r].port = NextPort /\ get'[r].buffer = <<>>
       /\ get'[r].data = <<>> /\ get'[r].sofar = 0 /\ ~get'[r].ready
  BY <1>8 DEF Idle
<1>13. Len(get'[r].data) = 0 /\ \A k \in Nat : ~Has(get'[r], r, k)
  <2>1. Len(get'[r].data) = 0 /\ \A j : j \notin 1..Len(get'[r].data)
    BY <1>12
  <2>. QED  BY <1>12, <2>1 DEF Has
<1>. QED  BY <1>2, <1>4, <1>5, <1>6, <1>8, <1>9, <1>10, <1>11, <1>12, <1>13

LEMMA GetOneRoom ==
  ASSUME FileInv, GetOne
  PROVE  Room' /\ todo' \in Seq(Tasks)
<1> DEFINE r == Len(kind) + 1
<1>1. /\ Len(kind') = Len(kind) + 1 /\ todo # <<>> /\ todo' = Tail(todo) /\ Head(todo)[1] = "get"
  BY GetOneFacts
<1>2. todo \in Seq(Tasks) /\ Len(kind) \in Nat /\ Room /\ MaxRequests \in Nat
  BY KnownFacts, FileAssumption DEF FileInv, Typed
<1>3. /\ todo' \in Seq(Tasks) /\ Len(todo') = Len(todo) - 1 /\ Len(todo) \in Nat
      /\ Head(todo) = todo[1] /\ 1 \in 1..Len(todo)
  BY <1>1, <1>2, TailFacts
<1>4. Len(kind) + (Len(todo) - 1) + 1 <= MaxRequests
  BY <1>1, <1>2, <1>3 DEF Room
<1>5. ASSUME NEW j \in 1..Len(todo')
      PROVE  Len(kind') + (Len(todo') - j) + 1 <= MaxRequests
  BY <1>1, <1>2, <1>3, <1>4
<1>. QED  BY <1>3, <1>5 DEF Room

LEMMA GetOneLists ==
  ASSUME FileInv, GetOne
  PROVE  Listed'
<1>r. PICK r : r = Len(kind) + 1
  OBVIOUS
<1>1. Typed /\ Listed
  BY DEF FileInv
<1>2. /\ r \in Requests /\ r \notin Known /\ Known' = Known \cup {r}
      /\ \A q \in Known : q < r /\ q \in Nat
      /\ Len(kind') = r /\ r \in Nat /\ getters' = getters \cup {r}
      /\ \A q \in Requests \ {r} : get'[q] = get[q]
      /\ \A q \in Known : get'[q] = get[q]
      /\ send' = send
  BY <1>r, GetOneFacts
<1>3. get'[r].at = "start" /\ get'[r].port = NextPort
  BY <1>r, GetOneFacts
<1>4. \A q \in getters : q \in Known /\ get[q].port # NextPort
  BY <1>1, NextPortIsNew DEF Typed
<1>5. \A q \in Requests : q > r => q > Len(kind) /\ q # r
  BY <1>r, <1>1, KnownFacts, FileAssumption DEF Requests
<1>6. (\A q \in Requests : q > Len(kind) => get[q].at = "none" /\ send[q] = Silent)'
  BY <1>1, <1>2, <1>5 DEF Listed
<1>7. (\A q \in Known : get[q].at # "none" /\ (q \in getters \/ Dead(q)))'
  BY <1>1, <1>2, <1>3 DEF Listed, Dead
<1>8. ASSUME NEW p \in Known', NEW q \in Known', p < q, get'[p].port = get'[q].port
      PROVE  p \notin getters'
  <2>1. p \in Known /\ p # r
    <3>1. p # r
      BY <1>2, <1>8
    <3>. QED  BY <1>2, <3>1
  <2>2. CASE q \in Known
    BY <1>1, <1>2, <1>8, <2>1, <2>2 DEF Listed
  <2>3. CASE q = r
    BY <1>2, <1>3, <1>4, <1>8, <2>1, <2>3
  <2>. QED  BY <1>2, <2>2, <2>3
<1>9. (\A q \in Known : Waits(get[q]) /\ ~get[q].ready => get[q].buffer \in Known \X Nat)'
  <2>1. ASSUME NEW q \in Known', Waits(get'[q]), ~get'[q].ready
        PROVE  get'[q].buffer \in Known' \X Nat
    <3>1. q # r
      BY <1>3, <2>1 DEF Waits
    <3>2. get[q].buffer \in Known \X Nat /\ get'[q] = get[q]
      BY <1>1, <1>2, <2>1, <3>1 DEF Listed
    <3>. QED  BY <1>2, <3>2
  <2>. QED  BY <2>1 DEF Waits
<1>10. (\A p, q \in Known : p < q /\ get[p].port = get[q].port => p \notin getters)'
  BY <1>8
<1>. QED  BY <1>6, <1>7, <1>9, <1>10 DEF Listed

LEMMA GetOneAsks ==
  ASSUME FileInv, GetOne
  PROVE  Asked' /\ Carried' /\ up' \in Seq(UpMessage)
<1>r. PICK r : r = Len(kind) + 1
  OBVIOUS
<1> DEFINE x == [what |-> "X", port |-> NextPort, n |-> r]
<1>1. Typed /\ Asked /\ Carried /\ up \in Seq(UpMessage)
  BY DEF FileInv, Typed
<1>2. /\ r \notin Known /\ Known' = Known \cup {r} /\ r \in Nat
      /\ \A q \in Known : get'[q] = get[q] /\ kind'[q] = kind[q]
      /\ UNCHANGED <<send, specialq, down>> /\ up' = Append(up, x)
      /\ send[r] = Silent
  BY <1>r, GetOneFacts
<1>3. get'[r].port = NextPort /\ send[r].at = "none"
  <2>1. get'[r].port = NextPort
    BY <1>r, GetOneFacts
  <2>2. send[r].at = "none"
    BY <1>2 DEF Silent
  <2>. QED  BY <2>1, <2>2
<1>4. x \in UpMessage /\ x.what = "X" /\ x.port = NextPort /\ x.n = r
  BY <1>1, <1>2, NextPortIsNew DEF UpMessage
<1> HIDE DEF x
<1>5. /\ up' \in Seq(UpMessage)
      /\ \A i \in 1..Len(up') : i \in 1..Len(up) \/ i = Len(up) + 1
      /\ \A i \in 1..Len(up) : up'[i] = up[i]
      /\ up'[Len(up) + 1] = x
  BY <1>1, <1>2, <1>4, AppendFacts
<1>6. \A i \in 1..Len(up') :
        \/ i \in 1..Len(up) /\ up'[i] = up[i] /\ (Asks(i)' => Asks(i))
        \/ i = Len(up) + 1 /\ up'[i] = x
  BY <1>5 DEF Asks
<1>7. \A i \in 1..Len(up) : Asks(i) =>
        up[i].n \in Known /\ up[i].port = get[up[i].n].port /\ send[up[i].n].at = "none"
  BY <1>1 DEF Asked
<1>8. (\A i \in 1..Len(up) : Asks(i) =>
         up[i].n \in Known /\ up[i].port = get[up[i].n].port /\ send[up[i].n].at = "none")'
  <2>1. ASSUME NEW i \in 1..Len(up'), Asks(i)'
        PROVE  /\ up'[i].n \in Known' /\ up'[i].port = get'[up'[i].n].port
               /\ send'[up'[i].n].at = "none"
    <3>1. CASE i \in 1..Len(up) /\ up'[i] = up[i] /\ Asks(i)
      BY <1>2, <1>7, <3>1
    <3>2. CASE up'[i] = x
      BY <1>2, <1>3, <1>4, <3>2
    <3>. QED  BY <1>6, <2>1, <3>1, <3>2
  <2>. QED  BY <2>1
<1>9. \A i \in 1..Len(specialq) :
        /\ specialq[i][2] \in Known /\ specialq[i][1] = get[specialq[i][2]].port
        /\ send[specialq[i][2]].at = "none"
  BY <1>1 DEF Asked
<1>10. (\A i \in 1..Len(specialq) :
          /\ specialq[i][2] \in Known /\ specialq[i][1] = get[specialq[i][2]].port
          /\ send[specialq[i][2]].at = "none")'
  BY <1>2, <1>9
<1>11. (\A i, j \in 1..Len(up) : Asks(i) /\ Asks(j) /\ up[i].n = up[j].n => i = j)'
  <2>1. ASSUME NEW i \in 1..Len(up'), NEW j \in 1..Len(up'),
               Asks(i)', Asks(j)', up'[i].n = up'[j].n
        PROVE  i = j
    <3>1. CASE i \in 1..Len(up) /\ up'[i] = up[i] /\ Asks(i)
      <4>1. up'[j] # x
        BY <1>2, <1>4, <1>7, <2>1, <3>1
      <4>. QED  BY <1>1, <1>6, <2>1, <3>1, <4>1 DEF Asked
    <3>2. CASE i = Len(up) + 1 /\ up'[i] = x
      <4>1. ~(j \in 1..Len(up) /\ up'[j] = up[j] /\ Asks(j))
        BY <1>2, <1>4, <1>7, <2>1, <3>2
      <4>. QED  BY <1>6, <2>1, <3>2, <4>1
    <3>. QED  BY <1>6, <2>1, <3>1, <3>2
  <2>. QED  BY <2>1
<1>12. (\A i, j \in 1..Len(specialq) : specialq[i][2] = specialq[j][2] => i = j)'
  BY <1>1, <1>2 DEF Asked
<1>13. (\A i \in 1..Len(up), j \in 1..Len(specialq) : Asks(i) => up[i].n # specialq[j][2])'
  <2>1. ASSUME NEW i \in 1..Len(up'), NEW j \in 1..Len(specialq'), Asks(i)'
        PROVE  up'[i].n # specialq'[j][2]
    <3>1. CASE i \in 1..Len(up) /\ up'[i] = up[i] /\ Asks(i)
      BY <1>1, <1>2, <3>1 DEF Asked
    <3>2. CASE up'[i] = x
      BY <1>2, <1>4, <1>9, <3>2
    <3>. QED  BY <1>6, <2>1, <3>1, <3>2
  <2>. QED  BY <2>1
<1>14. Carried'
  <2>1. \A q \in Known' : send'[q].at # "none" => q \in Known
    BY <1>2, <1>3
  <2>2. \A q \in Known : get'[q] = get[q] /\ Chunks(q)' = Chunks(q) /\ Reads(q)' = Reads(q)
    BY <1>2 DEF Chunks, Reads
  <2>3. Places' = Places /\ \A i : Of(i)' = Of(i) /\ Chunk(i)' = Chunk(i)
    BY <1>2 DEF Places, Of, Chunk
  <2>4. (\A q \in Known : send[q].at # "none" => send[q].port = get[q].port)'
    BY <1>1, <1>2, <2>1 DEF Carried
  <2>5. \A i \in Places : /\ Of(i) \in Known /\ Chunk(i) <= Reads(Of(i))
                          /\ down[i].port = get[Of(i)].port
    BY <1>1 DEF Carried
  <2>6. \A i \in Places : /\ Of(i) \in Known' /\ Chunk(i) <= Reads(Of(i))'
                          /\ down[i].port = get'[Of(i)].port
    BY <1>2, <2>2, <2>3, <2>5 DEF Chunks, Reads, Of
  <2>7. (\A i \in Places : /\ Of(i) \in Known /\ Chunk(i) <= Reads(Of(i))
                           /\ down[i].port = get[Of(i)].port)'
    BY <1>2, <2>3, <2>6 DEF Chunks, Reads
  <2>. QED  BY <2>4, <2>7 DEF Carried
<1>. QED  BY <1>5, <1>8, <1>10, <1>11, <1>12, <1>13, <1>14 DEF Asked

LEMMA GetOneKeeps ==
  ASSUME FileInv, GetOne
  PROVE  FileInv'
<1>r. PICK r : r = Len(kind) + 1
  OBVIOUS
<1> DEFINE x == [what |-> "X", port |-> NextPort, n |-> r]
<1>1. /\ Typed /\ Listed /\ Carried /\ up \in Seq(UpMessage)
      /\ \A q \in Known : Sent(q) /\ InOrder(q) /\ Acked(q)
  BY DEF FileInv, Typed
<1>2. /\ r \in Requests /\ r \notin Known /\ Known' = Known \cup {r} /\ r \in Nat
      /\ \A q \in Known : q < r /\ q \in Nat
      /\ Len(kind') = r /\ kind' \in Seq(Kinds) /\ getters' = getters \cup {r}
      /\ get' \in [Requests -> Getters]
      /\ \A q \in Known : get'[q] = get[q] /\ kind'[q] = kind[q]
      /\ previous' \in [Kinds -> Nat]
      /\ UNCHANGED <<open, send, specialq, down, dirty, admin, lost>>
      /\ up' = Append(up, x) /\ send[r] = Silent
  BY <1>r, GetOneFacts
<1>3. /\ get'[r].at = "start" /\ get'[r].port = NextPort /\ get'[r].buffer = <<>>
      /\ get'[r].data = <<>> /\ get'[r].sofar = 0 /\ ~get'[r].ready
      /\ Len(get'[r].data) = 0 /\ \A k \in Nat : ~Has(get'[r], r, k)
  BY <1>r, GetOneFacts
<1>4. send[r].at = "none" /\ send[r].pos = 0
  BY <1>2 DEF Silent
<1>5. r <= MaxRequests
  BY <1>2, FileAssumption DEF Requests
<1>6. x.what = "X" /\ x.n = r /\ x \in UpMessage
  BY <1>1, <1>2, NextPortIsNew DEF UpMessage
<1>7. kind'[r] \in Kinds /\ Chunks(r)' \in Nat \ {0} /\ Reads(r)' \in Nat \ {0}
  <2>1. kind'[r] \in Kinds
    BY <1>r, GetOneFacts
  <2>2. Chunks(r)' \in Nat \ {0}
    BY <2>1, FileAssumption DEF Chunks
  <2>3. Reads(r)' = Chunks(r)' + (IF kind'[r] \in Even THEN 1 ELSE 0)
    BY DEF Chunks, Reads
  <2>. QED  BY <2>1, <2>2, <2>3
<1> HIDE DEF x
<1>8. /\ Len(up') = Len(up) + 1 /\ Len(up) \in Nat
      /\ \A i \in 1..Len(up') : i \in 1..Len(up) \/ i = Len(up) + 1
      /\ \A i \in 1..Len(up) : i \in 1..Len(up') /\ up'[i] = up[i]
      /\ up'[Len(up) + 1] = x /\ Len(up) + 1 \in 1..Len(up')
  BY <1>1, <1>2, <1>6, AppendFacts, QueueFacts
<1>9. Places' = Places /\ \A i : Of(i)' = Of(i) /\ Chunk(i)' = Chunk(i)
  BY <1>2 DEF Places, Of, Chunk
<1>10. \A i \in Places : Of(i) # r
  BY <1>1, <1>2 DEF Carried
<1>11. \A q \in Known : Chunks(q)' = Chunks(q) /\ Reads(q)' = Reads(q)
  BY <1>2 DEF Chunks, Reads
<1>12. Sent(r)'
  <2>1. \A k \in Nat : ~Has(get[r], r, k)'
    BY <1>2, <1>3 DEF Has
  <2>. QED  BY <1>2, <1>4, <1>7, <1>9, <1>10, <2>1 DEF Sent
<1>13. InOrder(r)'
  <2>1. Good(r, get[r])'
    BY <1>3, <1>7 DEF Good
  <2>2. Expected(get[r])' = 0
    BY <1>3 DEF Expected
  <2>3. Flow(r, Expected(get[r]))'
    BY <1>2, <1>4, <1>9, <1>10, <2>2 DEF Flow
  <2>. QED  BY <2>1, <2>3 DEF InOrder
<1>14. Acked(r)'
  <2>1. ASSUME NEW i \in 1..Len(up'), Answers(i, r)'
        PROVE  Unserved(i, r)'
    <3>1. up'[i].what = "R"
      BY <2>1 DEF Answers
    <3>2. i \in 1..Len(up)
      BY <1>6, <1>8, <3>1
    <3>3. i < Len(up) + 1
      BY <1>8, <3>2
    <3>. QED  BY <1>6, <1>8, <3>3 DEF Unserved, Asks
  <2>. QED  BY <1>2, <1>4, <2>1 DEF Acked, Sending
<1>15. ASSUME NEW q \in Known
       PROVE  Sent(q)' /\ InOrder(q)' /\ Acked(q)'
  <2>1. /\ q # r /\ get'[q] = get[q] /\ send' = send /\ down' = down
        /\ Sent(q) /\ InOrder(q) /\ Acked(q) /\ Chunks(q)' = Chunks(q) /\ Reads(q)' = Reads(q)
    BY <1>1, <1>2, <1>11
  <2>2. \A k \in Nat : Has(get[q], q, k)' <=> Has(get[q], q, k)
    BY <2>1 DEF Has
  <2>3. Sent(q)'
    BY <1>9, <2>1, <2>2 DEF Sent
  <2>4. CleanPort(q)' <=> CleanPort(q)
    BY <1>1, <1>2, StillClean
  <2>5. InOrder(q)'
    BY <1>9, <2>1, <2>4 DEF InOrder, Clear, Good, Expected, Flow, OnStream
  <2>6. Acked(q)'
    <3>1. Dead(q)' <=> Dead(q)
      BY <2>1 DEF Dead
    <3>2. ASSUME NEW i \in 1..Len(up'), Answers(i, q)', ~Dead(q)
          PROVE  up'[i].n <= get'[q].sofar \/ Unserved(i, q)'
      <4>1. i \in 1..Len(up)
        BY <1>6, <1>8, <3>2 DEF Answers
      <4>2. Answers(i, q) /\ (Unserved(i, q) => Unserved(i, q)')
        BY <1>8, <2>1, <3>2, <4>1 DEF Answers, Unserved, Asks
      <4>3. up[i].n <= get[q].sofar \/ Unserved(i, q)
        BY <2>1, <3>2, <4>1, <4>2 DEF Acked
      <4>. QED  BY <1>8, <2>1, <4>1, <4>2, <4>3
    <3>. QED  BY <2>1, <3>1, <3>2 DEF Acked, Sending
  <2>. QED  BY <2>3, <2>5, <2>6
<1>16. Listed' /\ Asked' /\ Carried' /\ up' \in Seq(UpMessage) /\ Room' /\ todo' \in Seq(Tasks)
  BY GetOneLists, GetOneAsks, GetOneRoom
<1>17. Typed'
  <2>1. getters' \subseteq Known' /\ lost' \subseteq Known'
    BY <1>1, <1>2 DEF Typed
  <2>. QED  BY <1>1, <1>2, <1>5, <1>16, <2>1 DEF Typed
<1>. QED  BY <1>2, <1>12, <1>13, <1>14, <1>15, <1>16, <1>17 DEF FileInv

-----------------------------------------------------------------------------
(* A packet leaves the stream down.                                        *)

HeadGone == down # <<>> /\ down' = Tail(down)

LEMMA HeadGoneFacts ==
  ASSUME Typed, HeadGone
  PROVE  /\ down' \in Seq(Packets) /\ 1 \in Places /\ Head(down) = down[1]
         /\ \A i \in Places' : /\ i \in Nat /\ i + 1 \in Places /\ down'[i] = down[i + 1]
                               /\ Of(i)' = Of(i + 1) /\ Chunk(i)' = Chunk(i + 1)
         /\ \A i \in Places : i = 1 \/ (i - 1 \in Places' /\ (i - 1) + 1 = i)
<1>1. down \in Seq(Packets) /\ down # <<>> /\ down' = Tail(down)
  BY DEF Typed, HeadGone
<1>2. /\ down' \in Seq(Packets) /\ Len(down') = Len(down) - 1 /\ Len(down) \in Nat \ {0}
      /\ \A i \in 1..Len(down') : i + 1 \in 1..Len(down) /\ down'[i] = down[i + 1]
      /\ Head(down) = down[1] /\ 1 \in 1..Len(down)
      /\ \A i \in 1..Len(down) : i = 1 \/ i - 1 \in 1..Len(down')
  BY <1>1, TailFacts
<1>3. \A i \in 1..Len(down) : (i - 1) + 1 = i
  BY <1>2
<1>4. \A i \in 1..Len(down') : i \in Nat
  BY <1>2
<1>. QED  BY <1>2, <1>3, <1>4 DEF Places, Of, Chunk

LEMMA HeadGoneSent ==
  ASSUME Typed, HeadGone, NEW q \in Known, Sent(q), UNCHANGED <<kind, send>>,
         \A k \in Nat : Has(get[q], q, k)' => Has(get[q], q, k) \/ (Of(1) = q /\ k = Chunk(1))
  PROVE  Sent(q)'
<1>1. /\ 1 \in Places
      /\ \A i \in Places' : /\ i \in Nat /\ i + 1 \in Places
                            /\ Of(i)' = Of(i + 1) /\ Chunk(i)' = Chunk(i + 1)
  BY HeadGoneFacts
<1>2. \A i \in Places : i \in Nat /\ Chunk(i) \in Nat
  BY PlaceFacts
<1>3. Chunks(q)' = Chunks(q) /\ Reads(q)' = Reads(q) /\ send[q] \in Senders /\ Chunks(q) \in Nat /\ Reads(q) \in Nat
  BY KnownFacts DEF Chunks, Reads
<1>4. (send[q].pos <= Reads(q) /\ (send[q].at = "data" => send[q].pos < Reads(q)))'
  BY <1>3 DEF Sent
<1>5. ASSUME send[q].at \in {"none", "start"}
      PROVE  (/\ send[q].pos = 0 /\ \A i \in Places : Of(i) # q
              /\ \A k \in Nat : ~Has(get[q], q, k))'
  BY <1>1, <1>5 DEF Sent
<1>6. ASSUME send[q].at \in {"data", "window", "last"}
      PROVE  (/\ \A i \in Places : Of(i) = q => Chunk(i) <= send[q].pos
              /\ \A k \in Nat : Has(get[q], q, k) => k <= send[q].pos)'
  BY <1>1, <1>6 DEF Sent
<1>7. (\A i, j \in Places : Of(i) = q /\ Of(j) = q /\ i < j => Chunk(i) < Chunk(j))'
  <2>1. \A i, j \in Nat : i < j => i + 1 < j + 1
    OBVIOUS
  <2>. QED  BY <1>1, <2>1 DEF Sent
<1>8. ASSUME NEW i \in Places', NEW k \in Nat, Of(i)' = q, Has(get[q], q, k)'
      PROVE  k < Chunk(i)'
  <2>1. i + 1 \in Places /\ Of(i + 1) = q /\ Chunk(i)' = Chunk(i + 1) /\ 1 < i + 1
    BY <1>1, <1>2, <1>8 DEF Places
  <2>2. CASE Has(get[q], q, k)
    BY <2>1, <2>2 DEF Sent
  <2>3. CASE Of(1) = q /\ k = Chunk(1)
    BY <1>1, <2>1, <2>3 DEF Sent
  <2>. QED  BY <1>8, <2>2, <2>3
<1>. QED  BY <1>4, <1>5, <1>6, <1>7, <1>8 DEF Sent

(* The rest of a file is still on the stream.                              *)
LEMMA HeadGoneFlow ==
  ASSUME Typed, HeadGone, NEW q \in Known, Sent(q), UNCHANGED send,
         NEW n \in Nat, Flow(q, n), NEW m \in Nat,
         IF Of(1) = q THEN Chunk(1) = n /\ m = n + 1 ELSE m = n,
         kind' = kind
  PROVE  Flow(q, m)'
<1>1. /\ 1 \in Places
      /\ \A i \in Places' : /\ i \in Nat /\ i + 1 \in Places
                            /\ Of(i)' = Of(i + 1) /\ Chunk(i)' = Chunk(i + 1)
      /\ \A i \in Places : i = 1 \/ (i - 1 \in Places' /\ (i - 1) + 1 = i)
  BY HeadGoneFacts
<1>2. \A i \in Places : i \in Nat /\ Chunk(i) \in Nat
  BY PlaceFacts
<1>3. ASSUME NEW k \in Nat, m <= k, OnStream(q, k)
      PROVE  OnStream(q, k)'
  <2>1. PICK j \in Places : Of(j) = q /\ Chunk(j) = k
    BY <1>3 DEF OnStream
  <2>2. j # 1
    BY <1>3, <2>1
  <2>3. j - 1 \in Places' /\ Of(j - 1)' = Of((j - 1) + 1) /\ (j - 1) + 1 = j
        /\ Chunk(j - 1)' = Chunk((j - 1) + 1)
    BY <1>1, <2>1, <2>2
  <2>4. Of(j - 1)' = q /\ Chunk(j - 1)' = k
    BY <2>1, <2>3
  <2>. QED  BY <2>3, <2>4 DEF OnStream
<1>4. \A k \in Nat : m <= k => n <= k
  OBVIOUS
<1>5. ASSUME NEW i \in Places', Of(i)' = q
      PROVE  m <= Chunk(i)' /\ \A k \in Nat : m <= k /\ k <= Chunk(i)' => OnStream(q, k)'
  <2>1. /\ i + 1 \in Places /\ Of(i + 1) = q /\ Chunk(i)' = Chunk(i + 1) /\ 1 < i + 1
        /\ Chunk(i + 1) \in Nat /\ Chunk(1) \in Nat
    BY <1>1, <1>2, <1>5 DEF Places
  <2>2. n <= Chunk(i + 1) /\ \A k \in Nat : n <= k /\ k <= Chunk(i + 1) => OnStream(q, k)
    BY <2>1 DEF Flow
  <2>3. Of(1) = q => Chunk(1) < Chunk(i + 1)
    BY <1>1, <2>1 DEF Sent
  <2>4. m <= Chunk(i + 1)
    BY <2>1, <2>2, <2>3
  <2>. QED  BY <1>3, <1>4, <2>1, <2>2, <2>4
<1>6. send'[q].at \in {"none", "start"} => m = 0
  BY <1>1 DEF Flow, Sent
<1>7. ASSUME send'[q].at \in {"data", "window", "last"}
      PROVE  m <= send'[q].pos + 1
             /\ \A k \in Nat : m <= k /\ k <= send'[q].pos /\ k <= Chunks(q)' => OnStream(q, k)'
  <2>1. /\ n <= send[q].pos + 1
        /\ \A k \in Nat : n <= k /\ k <= send[q].pos /\ k <= Chunks(q) => OnStream(q, k)
    BY <1>7 DEF Flow
  <2>2. Of(1) = q => Chunk(1) <= send[q].pos
    BY <1>1, <1>7 DEF Sent
  <2>3. send[q].pos \in Nat /\ send' = send
    BY KnownFacts DEF Senders
  <2>4. m <= send[q].pos + 1
    BY <2>1, <2>2, <2>3
  <2>5. Chunks(q)' = Chunks(q)
    BY DEF Chunks
  <2>. QED  BY <1>3, <1>4, <2>1, <2>3, <2>4, <2>5
<1>. QED  BY <1>5, <1>6, <1>7 DEF Flow

(* Nothing follows an empty chunk.                                         *)
LEMMA EmptyGoneFlow ==
  ASSUME Typed, Carried, HeadGone, NEW q \in Known, Sent(q), UNCHANGED <<kind, send>>,
         NEW n \in Nat, Flow(q, n), Of(1) = q, n = Chunk(1), n > Chunks(q)
  PROVE  Flow(q, n)'
<1>1. /\ 1 \in Places
      /\ \A i \in Places' : /\ i \in Nat /\ i + 1 \in Places
                            /\ Of(i)' = Of(i + 1) /\ Chunk(i)' = Chunk(i + 1)
  BY HeadGoneFacts
<1>2. /\ Chunks(q) \in Nat /\ Reads(q) \in Nat /\ Reads(q) <= Chunks(q) + 1
      /\ send[q] \in Senders
      /\ Chunks(q)' = Chunks(q)
  BY KnownFacts DEF Chunks
<1>3. ASSUME NEW i \in Places', Of(i)' = q PROVE FALSE
  <2>1. i + 1 \in Places /\ Of(i + 1) = q /\ 1 < i + 1
    BY <1>1, <1>3, PlaceFacts DEF Places
  <2>2. Chunk(1) < Chunk(i + 1)
    BY <1>1, <2>1 DEF Sent
  <2>3. Chunk(i + 1) <= Reads(q) /\ Chunk(i + 1) \in Nat
    BY <2>1, PlaceFacts DEF Carried
  <2>. QED  BY <1>2, <2>2, <2>3
<1>4. send[q].at \notin {"none", "start"}
  BY <1>1 DEF Sent
<1>5. ASSUME send[q].at \in {"data", "window", "last"}
      PROVE  /\ n <= send[q].pos + 1
             /\ \A k \in Nat : ~(n <= k /\ k <= send[q].pos /\ k <= Chunks(q))
  BY <1>2, <1>5 DEF Flow
<1>. QED  BY <1>2, <1>3, <1>4, <1>5 DEF Flow

(* A step of the client in which the head of the stream is taken: what it  *)
(* is worth to the getters is left to show.                                *)
Takes ==
  /\ HeadGone /\ get' \in [Requests -> Getters]
  /\ UNCHANGED <<kind, getters, todo, previous, open, send, specialq, up>>
  /\ \A q \in Requests :
       /\ get'[q].port = get[q].port /\ get'[q].data = get[q].data
       /\ get'[q].sofar = get[q].sofar /\ (Dead(q)' <=> Dead(q))
       /\ get'[q].at = "none" <=> get[q].at = "none"
       /\ get'[q].buffer \in {get[q].buffer, down[1].piece}

LEMMA TakesKeeps ==
  ASSUME FileInv, Takes, RestTyped',
         \A q \in Known : Waits(get'[q]) /\ ~get'[q].ready => get'[q].buffer \in Known \X Nat,
         \A q \in Known : InOrder(q)'
  PROVE  FileInv'
<1>1. /\ Typed /\ Room /\ Listed /\ Asked /\ Carried
      /\ \A q \in Known : Sent(q) /\ InOrder(q) /\ Acked(q)
  BY DEF FileInv
<1>2. /\ HeadGone /\ get' \in [Requests -> Getters]
      /\ UNCHANGED <<kind, getters, todo, previous, open, send, specialq, up>>
      /\ \A q \in Requests :
           /\ get'[q].port = get[q].port /\ get'[q].data = get[q].data
           /\ get'[q].sofar = get[q].sofar /\ (Dead(q)' <=> Dead(q))
           /\ get'[q].at = "none" <=> get[q].at = "none"
  BY DEF Takes
<1>3. /\ down' \in Seq(Packets)
      /\ \A i \in Places' : /\ i + 1 \in Places /\ down'[i] = down[i + 1]
                            /\ Of(i)' = Of(i + 1) /\ Chunk(i)' = Chunk(i + 1)
  BY <1>1, <1>2, HeadGoneFacts
<1>4. Known' = Known /\ Known \subseteq Requests /\ \A q \in Known : Chunks(q)' = Chunks(q) /\ Reads(q)' = Reads(q)
  BY <1>1, <1>2, KnownFacts DEF Known, Chunks, Reads
<1>5. Typed'
  BY <1>1, <1>2, <1>3, <1>4 DEF Typed, RestTyped
<1>6. Room'
  BY <1>1, <1>2 DEF Room
<1>7. Listed'
  <2>1. (\A r \in Requests : r > Len(kind) => get[r].at = "none" /\ send[r] = Silent)'
    BY <1>1, <1>2 DEF Listed
  <2>2. (\A r \in Known : get[r].at # "none" /\ (r \in getters \/ Dead(r)))'
    BY <1>1, <1>2, <1>4 DEF Listed
  <2>3. (\A q, r \in Known : q < r /\ get[q].port = get[r].port => q \notin getters)'
    BY <1>1, <1>2, <1>4 DEF Listed
  <2>4. (\A r \in Known : Waits(get[r]) /\ ~get[r].ready => get[r].buffer \in Known \X Nat)'
    BY <1>4 DEF Waits
  <2>. QED  BY <2>1, <2>2, <2>3, <2>4 DEF Listed
<1>8. Asked'
  <2>1. \A i : Asks(i)' <=> Asks(i)
    BY <1>2 DEF Asks
  <2>2. (\A i \in 1..Len(up) : Asks(i) =>
           up[i].n \in Known /\ up[i].port = get[up[i].n].port /\ send[up[i].n].at = "none")'
    BY <1>1, <1>2, <1>4, <2>1 DEF Asked
  <2>3. (\A i \in 1..Len(specialq) :
           /\ specialq[i][2] \in Known /\ specialq[i][1] = get[specialq[i][2]].port
           /\ send[specialq[i][2]].at = "none")'
    BY <1>1, <1>2, <1>4 DEF Asked
  <2>4. (/\ \A i, j \in 1..Len(up) : Asks(i) /\ Asks(j) /\ up[i].n = up[j].n => i = j
         /\ \A i, j \in 1..Len(specialq) : specialq[i][2] = specialq[j][2] => i = j
         /\ \A i \in 1..Len(up), j \in 1..Len(specialq) : Asks(i) => up[i].n # specialq[j][2])'
    BY <1>1, <1>2, <2>1 DEF Asked
  <2>. QED  BY <2>2, <2>3, <2>4 DEF Asked
<1>9. Carried'
  <2>1. (\A q \in Known : send[q].at # "none" => send[q].port = get[q].port)'
    BY <1>1, <1>2, <1>4 DEF Carried
  <2>2. \A i \in Places : /\ Of(i) \in Known /\ Chunk(i) <= Reads(Of(i))
                          /\ down[i].port = get[Of(i)].port
    BY <1>1 DEF Carried
  <2>3. ASSUME NEW i \in Places'
        PROVE  (/\ Of(i) \in Known /\ Chunk(i) <= Reads(Of(i))
                /\ down[i].port = get[Of(i)].port)'
    <3>1. PICK o \in Known : o = Of(i + 1)
      BY <1>3, <2>2
    <3>2. Of(i)' = o /\ Chunk(i)' <= Reads(o) /\ down'[i].port = get[o].port
      BY <1>3, <2>2, <3>1
    <3>3. Reads(Of(i))' = Reads(o) /\ get'[o].port = get[o].port
      BY <1>2, <1>4, <3>2 DEF Chunks, Reads
    <3>. QED  BY <1>4, <3>2, <3>3
  <2>. QED  BY <2>1, <2>3 DEF Carried
<1>10. ASSUME NEW q \in Known PROVE Sent(q)'
  <2>1. get'[q].buffer \in {get[q].buffer, down[1].piece}
    BY <1>4 DEF Takes
  <2>2. \A k \in Nat : Has(get[q], q, k)' => Has(get[q], q, k) \/ (Of(1) = q /\ k = Chunk(1))
    BY <1>2, <1>4, <2>1 DEF Has, Of, Chunk
  <2>. QED  BY <1>1, <1>2, <2>2, HeadGoneSent
<1>11. ASSUME NEW q \in Known PROVE Acked(q)'
  BY <1>1, <1>2, <1>4 DEF Acked, Answers, Unserved, Asks, Sending
<1>. QED  BY <1>4, <1>5, <1>6, <1>7, <1>8, <1>9, <1>10, <1>11 DEF FileInv

LEMMA ClientReceivesKeeps ==
  ASSUME FileInv, ClientReceives
  PROVE  FileInv'
<1> DEFINE of == {r \in getters : get[r].port = Head(down).port}
<1>1. /\ Typed /\ Listed /\ Carried
      /\ \A q \in Known : Sent(q) /\ InOrder(q)
  BY DEF FileInv
<1>2. /\ HeadGone /\ \A r \in of : get[r].ready /\ ~Dead(r)
      /\ get' = [r \in Requests |-> IF r \in of
                   THEN [get[r] EXCEPT !.buffer = Head(down).piece, !.ready = FALSE] ELSE get[r]]
      /\ UNCHANGED <<kind, getters, todo, previous, open, send, specialq, up, dirty, admin, lost>>
  BY DEF ClientReceives, HeadGone, host, clean
<1>3. Head(down) = down[1] /\ 1 \in Places /\ down[1].piece = <<Of(1), Chunk(1)>>
      /\ Chunk(1) \in Nat /\ Of(1) \in Known /\ down[1].piece \in Piece
  <2>1. Head(down) = down[1] /\ 1 \in Places
    BY <1>1, <1>2, HeadGoneFacts
  <2>. QED  BY <1>1, <2>1, PlaceFacts DEF Carried, Packets
<1>4. \A r \in of : r \in Known /\ r \in getters /\ get[r].port = down[1].port
  BY <1>1, <1>3 DEF Typed
<1>5. get \in [Requests -> Getters] /\ Known \subseteq Requests
  BY <1>1, KnownFacts DEF Typed
<1>6. ASSUME NEW r \in of
      PROVE  /\ get'[r] \in Getters /\ get'[r].buffer = down[1].piece /\ get'[r].ready = FALSE
             /\ get'[r].port = get[r].port /\ get'[r].data = get[r].data
             /\ get'[r].sofar = get[r].sofar /\ get'[r].at = get[r].at
             /\ get'[r].late = get[r].late /\ get'[r].length = get[r].length
  <2>1. r \in Requests /\ get[r] \in Getters
    BY <1>4, <1>5
  <2>2. get'[r] = [get[r] EXCEPT !.buffer = down[1].piece, !.ready = FALSE]
    BY <1>2, <1>3, <2>1
  <2>. QED  BY <1>3, <2>1, <2>2 DEF Getters
<1>7. \A r \in Requests \ of : get'[r] = get[r]
  BY <1>2
<1>8. of \subseteq Requests
  BY <1>4, <1>5
<1> HIDE DEF of
<1>9. get' \in [Requests -> Getters]
  BY <1>2, <1>5, <1>6, <1>7
<1>10. Takes
  <2>1. \A q \in Requests : get'[q].at = get[q].at
    BY <1>6, <1>7
  <2>2. \A q \in Requests : Dead(q)' <=> Dead(q)
    BY <2>1 DEF Dead
  <2>3. \A q \in Requests : get'[q].buffer = get[q].buffer \/ get'[q].buffer = down[1].piece
    BY <1>6, <1>7
  <2>4. \A q \in Requests :
          /\ get'[q].port = get[q].port /\ get'[q].data = get[q].data
          /\ get'[q].sofar = get[q].sofar
    BY <1>6, <1>7
  <2>5. UNCHANGED <<kind, getters, todo, previous, open, send, specialq, up>>
    BY <1>2
  <2>. QED  BY <1>2, <1>9, <2>1, <2>2, <2>3, <2>4, <2>5 DEF Takes
<1>11. \A q \in Known : Waits(get'[q]) /\ ~get'[q].ready => get'[q].buffer \in Known \X Nat
  <2>1. \A q \in Known : q \in of => get'[q].buffer \in Known \X Nat
    <3>1. down[1].piece \in Known \X Nat
      BY <1>3
    <3>. QED  BY <1>6, <3>1
  <2>2. \A q \in Known : q \notin of => get'[q] = get[q]
    BY <1>5, <1>7
  <2>. QED  BY <1>1, <2>1, <2>2 DEF Listed
<1>12. ASSUME NEW q \in Known, Clear(q)'
       PROVE  (Good(q, get[q]) /\ Flow(q, Expected(get[q])))'
  <2>1. CleanPort(q)' <=> CleanPort(q)
    BY <1>1, <1>2, <1>5, <1>10, StillClean DEF Takes
  <2>2. Clear(q)
    BY <1>5, <1>6, <1>7, <1>12, <2>1 DEF Clear
  <2>3. /\ Good(q, get[q]) /\ Flow(q, Expected(get[q])) /\ Expected(get[q]) \in Nat
        /\ Chunks(q)' = Chunks(q) /\ Reads(q)' = Reads(q) /\ get[q] \in Getters
    BY <1>1, <1>2, <2>2, KnownFacts, ExpectedFacts DEF InOrder, Chunks, Reads
  <2>4. PICK n \in Nat : n = Expected(get[q])
    BY <2>3
  <2>5. CASE q \in of
    <3>1. Of(1) = q
      BY <1>3, <1>4, <2>2, <2>5, OnlyIts DEF Clear
    <3>2. Chunk(1) = n /\ down[1].piece = <<q, n>>
      BY <1>2, <2>2, <2>4, <3>1, ItsNext DEF HeadGone
    <3>3. get[q].ready /\ get[q].at \in {"length", "data"}
      BY <1>1, <1>2, <2>2, <2>3, <2>5 DEF Good, Clear, Dead, Getters, Listed
    <3>4. /\ get'[q].buffer = <<q, n>> /\ get'[q].ready = FALSE
          /\ get'[q].data = get[q].data /\ get'[q].sofar = get[q].sofar
          /\ get'[q].at = get[q].at /\ get'[q].length = get[q].length
      BY <1>6, <2>5, <3>2
    <3>5. n = (IF get[q].at = "length" THEN 0 ELSE get[q].sofar + 1) /\ get[q].sofar \in Nat
      BY <2>3, <2>4, <3>3 DEF Expected, Getters
    <3>6. Expected(get[q])' = n + 1
      BY <3>3, <3>4, <3>5 DEF Expected
    <3>7. Good(q, get[q])'
      BY <2>3, <3>3, <3>4, <3>5 DEF Good
    <3>8. Flow(q, n + 1)'
      <4>1. n + 1 \in Nat
        OBVIOUS
      <4>. QED  BY <1>1, <1>2, <2>3, <2>4, <3>1, <3>2, <4>1, HeadGoneFlow
    <3>. QED  BY <3>6, <3>7, <3>8 DEF Flow
  <2>6. CASE q \notin of
    <3>1. get'[q] = get[q]
      BY <1>5, <1>7, <2>6
    <3>3. Flow(q, n)'
      <4>1. CASE Of(1) # q
        BY <1>1, <1>2, <2>3, <2>4, <4>1, HeadGoneFlow
      <4>2. CASE Of(1) = q
        <5>1. /\ Chunk(1) = n /\ down[1].port = get[q].port
              /\ Chunk(1) <= Chunks(q) => q \in getters
          BY <1>2, <2>2, <2>4, <4>2, ItsNext DEF HeadGone
        <5>2. Chunks(q) \in Nat /\ Chunk(1) \in Nat /\ ~(Chunk(1) <= Chunks(q))
          BY <1>1, <1>3, <2>4, <2>6, <5>1, KnownFacts DEF of
        <5>3. n > Chunks(q)
          BY <2>4, <5>1, <5>2
        <5>. QED  BY <1>1, <1>2, <2>3, <2>4, <4>2, <5>1, <5>3, EmptyGoneFlow
      <4>. QED  BY <4>1, <4>2
    <3>4. Expected(get[q])' = n
      BY <2>4, <3>1 DEF Expected
    <3>5. Good(q, get[q])'
      BY <2>3, <3>1 DEF Good
    <3>. QED  BY <3>3, <3>4, <3>5 DEF Flow
  <2>. QED  BY <2>5, <2>6
<1>13. RestTyped'
  BY <1>2 DEF FileInv, Typed, RestTyped, Known
<1>14. \A q \in Known : InOrder(q)'
  BY <1>12 DEF InOrder
<1>. QED  BY <1>10, <1>11, <1>13, <1>14, TakesKeeps

LEMMA LengthComesLateKeeps ==
  ASSUME FileInv, NEW r \in Requests, LengthComesLate(r)
  PROVE  FileInv'
<1>1. /\ Typed /\ Listed /\ Carried
      /\ \A q \in Known : Sent(q) /\ InOrder(q)
  BY DEF FileInv
<1>2. PICK n \in Garbage : get' = [get EXCEPT ![r].at = "data", ![r].length = n, ![r].late = TRUE]
  BY DEF LengthComesLate
<1>3. /\ HeadGone /\ get[r].at = "length" /\ get[r].ready /\ Head(down).port = get[r].port
      /\ UNCHANGED <<kind, getters, todo, previous, open, send, specialq, up, dirty, admin, lost>>
  BY DEF LengthComesLate, HeadGone, host, clean
<1>4. r \in Known /\ r \in getters /\ get[r] \in Getters /\ get \in [Requests -> Getters]
      /\ Known \subseteq Requests
  BY <1>1, <1>3, AliveIsListed, KnownFacts DEF Alive, Typed
<1> DEFINE g == [get[r] EXCEPT !.at = "data", !.length = n, !.late = TRUE]
<1>5. get' = [get EXCEPT ![r] = g]
  BY <1>2, <1>4
<1>6. /\ g \in Getters /\ g.at = "data" /\ g.ready /\ g.late /\ g.port = get[r].port
      /\ g.data = get[r].data /\ g.sofar = get[r].sofar /\ g.buffer = get[r].buffer
  BY <1>2, <1>3, <1>4, GarbageIsNumber DEF Getters
<1> HIDE DEF g
<1>7. /\ get' \in [Requests -> Getters] /\ get'[r] = g
      /\ \A q \in Requests \ {r} : get'[q] = get[q]
  BY <1>4, <1>5, <1>6
<1>8. Takes
  <2>1. \A q \in Requests : Dead(q)' <=> Dead(q)
    BY <1>3, <1>6, <1>7 DEF Dead
  <2>2. \A q \in Requests :
          /\ get'[q].port = get[q].port /\ get'[q].data = get[q].data
          /\ get'[q].sofar = get[q].sofar /\ get'[q].buffer = get[q].buffer
          /\ get'[q].at = "none" <=> get[q].at = "none"
    BY <1>3, <1>6, <1>7
  <2>. QED  BY <1>3, <1>7, <2>1, <2>2 DEF Takes
<1>9. \A q \in Known : Waits(get'[q]) /\ ~get'[q].ready => get'[q].buffer \in Known \X Nat
  BY <1>1, <1>4, <1>6, <1>7 DEF Listed
<1>10. ASSUME NEW q \in Known, Clear(q)'
       PROVE  (Good(q, get[q]) /\ Flow(q, Expected(get[q])))'
  <2>1. q # r
    BY <1>6, <1>7, <1>10 DEF Clear
  <2>2. get'[q] = get[q]
    BY <1>4, <1>7, <2>1
  <2>3. CleanPort(q)' <=> CleanPort(q)
    BY <1>1, <1>3, <1>4, <1>8, StillClean DEF Takes
  <2>4. Clear(q)
    BY <1>10, <2>2, <2>3 DEF Clear
  <2>5. /\ Good(q, get[q]) /\ Flow(q, Expected(get[q])) /\ Expected(get[q]) \in Nat
        /\ Chunks(q)' = Chunks(q) /\ Reads(q)' = Reads(q)
    BY <1>1, <1>3, <2>4, KnownFacts, ExpectedFacts DEF InOrder, Chunks, Reads
  <2>6. PICK m \in Nat : m = Expected(get[q])
    BY <2>5
  <2>7. Of(1) # q \/ Chunk(1) > Chunks(q)
    <3>1. SUFFICES ASSUME Of(1) = q, ~(Chunk(1) > Chunks(q)) PROVE FALSE
      OBVIOUS
    <3>0. 1 \in Places /\ Chunk(1) \in Nat /\ Chunks(q) \in Nat /\ Chunk(1) <= Chunks(q)
      BY <1>1, <1>3, <3>1, PlaceFacts, KnownFacts, HeadGoneFacts
    <3>2. q \in getters /\ down[1].port = get[q].port
      BY <1>3, <2>4, <3>0, <3>1, ItsNext DEF HeadGone
    <3>3. get[q].port = get[r].port
      BY <1>1, <1>3, <3>2, HeadGoneFacts
    <3>4. q \in Nat /\ r \in Nat
      BY <1>1, <1>4, KnownFacts
    <3>. QED  BY <1>1, <1>4, <2>1, <3>2, <3>3, <3>4 DEF Listed
  <2>8. Flow(q, m)'
    <3>1. CASE Of(1) # q
      BY <1>1, <1>3, <2>5, <2>6, <3>1, HeadGoneFlow
    <3>2. CASE Of(1) = q
      <4>1. Chunk(1) = m
        BY <1>3, <2>4, <2>6, <3>2, ItsNext DEF HeadGone
      <4>2. m > Chunks(q)
        BY <2>7, <3>2, <4>1
      <4>. QED  BY <1>1, <1>3, <2>5, <2>6, <3>2, <4>1, <4>2, EmptyGoneFlow
    <3>. QED  BY <3>1, <3>2
  <2>9. Expected(get[q])' = m
    BY <2>2, <2>6 DEF Expected
  <2>10. Good(q, get[q])'
    BY <2>2, <2>5 DEF Good
  <2>. QED  BY <2>8, <2>9, <2>10 DEF Flow
<1>11. RestTyped'
  BY <1>3 DEF FileInv, Typed, RestTyped, Known
<1>12. \A q \in Known : InOrder(q)'
  BY <1>10 DEF InOrder
<1>. QED  BY <1>8, <1>9, <1>11, <1>12, TakesKeeps

-----------------------------------------------------------------------------
(* The host.                                                               *)

HostSide ==
  /\ UNCHANGED <<kind, get, getters, todo, previous, open, dirty, admin, lost>>
  /\ send' \in [Requests -> Senders]
  /\ \A q \in Requests : q \notin Known => send'[q] = send[q]

LEMMA HostSideKeeps ==
  ASSUME FileInv, HostSide, down' \in Seq(Packets), up' \in Seq(UpMessage),
         specialq' \in Seq(Nat \X Requests), Asked', Carried',
         \A q \in Known : Sent(q)' /\ Acked(q)',
         \A q \in Known, n \in Nat : Flow(q, n) => Flow(q, n)'
  PROVE  FileInv'
<1>1. /\ Typed /\ Room /\ Listed /\ \A q \in Known : InOrder(q)
      /\ UNCHANGED <<kind, get, getters, todo, previous, open, dirty, admin, lost>>
  BY DEF FileInv, HostSide
<1>2. Known' = Known /\ Typed'
  BY <1>1 DEF Typed, Known, HostSide
<1>3. Room'
  BY <1>1 DEF Room
<1>4. Listed'
  <2>1. (\A r \in Requests : r > Len(kind) => get[r].at = "none" /\ send[r] = Silent)'
    <3>1. \A r \in Requests : r > Len(kind) => r \notin Known
      BY <1>1, KnownFacts, FileAssumption DEF Known, Requests
    <3>. QED  BY <1>1, <3>1 DEF Listed, HostSide
  <2>. QED  BY <1>1, <1>2, <2>1 DEF Listed, Dead, Waits
<1>5. ASSUME NEW q \in Known PROVE InOrder(q)'
  <2>1. Clear(q)' <=> Clear(q)
    BY <1>1 DEF Clear, CleanPort, Whole
  <2>2. Expected(get[q])' = Expected(get[q]) /\ Expected(get[q]) \in Nat
    BY <1>1, KnownFacts, ExpectedFacts
  <2>3. PICK n \in Nat : n = Expected(get[q])
    BY <2>2
  <2>4. Clear(q) => Good(q, get[q]) /\ Flow(q, n)
    BY <1>1, <2>3 DEF InOrder
  <2>5. Good(q, get[q]) => Good(q, get[q])'
    BY <1>1 DEF Good, Chunks, Reads
  <2>6. Flow(q, n) => Flow(q, n)'
    OBVIOUS
  <2>7. Flow(q, n)' => Flow(q, Expected(get[q]))'
    BY <2>2, <2>3 DEF Flow
  <2>. QED  BY <2>1, <2>4, <2>5, <2>6, <2>7 DEF InOrder
<1>. QED  BY <1>2, <1>3, <1>4, <1>5 DEF FileInv

(* The stream down is as it was for request q.                             *)
SameStream(q) ==
  \/ down' = down
  \/ \E p \in Packets : down' = Append(down, p) /\ p.piece[1] # q

LEMMA SameStreamFacts ==
  ASSUME Typed, NEW q, SameStream(q)
  PROVE  /\ \A i \in Places' : Of(i)' = q => i \in Places
         /\ \A i \in Places : i \in Places' /\ Of(i)' = Of(i) /\ Chunk(i)' = Chunk(i)
         /\ \A k \in Nat : OnStream(q, k) => OnStream(q, k)'
<1>1. CASE down' = down
  BY <1>1 DEF Places, Of, Chunk, OnStream
<1>2. ASSUME NEW p \in Packets, down' = Append(down, p), p.piece[1] # q
      PROVE  /\ \A i \in Places' : Of(i)' = q => i \in Places
             /\ \A i \in Places : i \in Places' /\ Of(i)' = Of(i) /\ Chunk(i)' = Chunk(i)
  <2>1. down \in Seq(Packets)
    BY DEF Typed
  <2>2. /\ Len(down') = Len(down) + 1
        /\ \A i \in 1..Len(down) : i \in 1..Len(down') /\ down'[i] = down[i]
        /\ down'[Len(down) + 1] = p
        /\ \A i \in 1..Len(down') : i \in 1..Len(down) \/ i = Len(down) + 1
    BY <1>2, <2>1, AppendFacts
  <2>. QED  BY <1>2, <2>2 DEF Places, Of, Chunk
<1>3. /\ \A i \in Places' : Of(i)' = q => i \in Places
      /\ \A i \in Places : i \in Places' /\ Of(i)' = Of(i) /\ Chunk(i)' = Chunk(i)
  BY <1>1, <1>2 DEF SameStream
<1>4. ASSUME NEW k \in Nat, OnStream(q, k) PROVE OnStream(q, k)'
  BY <1>3, <1>4 DEF OnStream
<1>. QED  BY <1>3, <1>4

(* A sender that sends nothing: it waits, goes on, or is over.             *)
MovesOn(q) ==
  \/ send'[q].at = "dead" /\ send'[q].pos = 0
  \/ send'[q].at = send[q].at /\ send'[q].pos = send[q].pos
  \/ /\ send[q].at = "window" /\ send'[q].pos = send[q].pos
     /\ send'[q].at = "last" \/ (send'[q].at = "data" /\ send[q].pos < Reads(q))

LEMMA MovesOnKeeps ==
  ASSUME Typed, NEW q \in Known, Sent(q), UNCHANGED <<kind, get>>, SameStream(q), MovesOn(q)
  PROVE  Sent(q)' /\ \A n \in Nat : Flow(q, n) => Flow(q, n)'
<1>1. /\ \A i \in Places' : Of(i)' = q => i \in Places
      /\ \A i \in Places : i \in Places' /\ Of(i)' = Of(i) /\ Chunk(i)' = Chunk(i)
      /\ \A k \in Nat : OnStream(q, k) => OnStream(q, k)'
  BY SameStreamFacts
<1>2. /\ Chunks(q)' = Chunks(q) /\ Reads(q)' = Reads(q) /\ Chunks(q) \in Nat /\ Reads(q) \in Nat
      /\ \A k \in Nat : Has(get[q], q, k)' <=> Has(get[q], q, k)
  BY KnownFacts DEF Chunks, Reads, Has
<1>3. (/\ \A i, j \in Places : Of(i) = q /\ Of(j) = q /\ i < j => Chunk(i) < Chunk(j)
       /\ \A i \in Places, k \in Nat : Of(i) = q /\ Has(get[q], q, k) => k < Chunk(i))'
  BY <1>1, <1>2 DEF Sent
<1>4. ASSUME NEW n \in Nat, Flow(q, n)
      PROVE  (\A i \in Places : Of(i) = q =>
                n <= Chunk(i) /\ \A k \in Nat : n <= k /\ k <= Chunk(i) => OnStream(q, k))'
  BY <1>1, <1>4 DEF Flow
<1>5. CASE send'[q].at = "dead" /\ send'[q].pos = 0
  <2>1. Sent(q)'
    BY <1>2, <1>3, <1>5 DEF Sent
  <2>. QED  BY <1>4, <1>5, <2>1 DEF Flow
<1>6. CASE send'[q].at = send[q].at /\ send'[q].pos = send[q].pos
  <2>1. (send[q].pos <= Reads(q) /\ (send[q].at = "data" => send[q].pos < Reads(q)))'
    BY <1>2, <1>6 DEF Sent
  <2>2. (send[q].at \in {"none", "start"} =>
           /\ send[q].pos = 0 /\ \A i \in Places : Of(i) # q
           /\ \A k \in Nat : ~Has(get[q], q, k))'
    BY <1>1, <1>2, <1>6 DEF Sent
  <2>3. (send[q].at \in {"data", "window", "last"} =>
           /\ \A i \in Places : Of(i) = q => Chunk(i) <= send[q].pos
           /\ \A k \in Nat : Has(get[q], q, k) => k <= send[q].pos)'
    BY <1>1, <1>2, <1>6 DEF Sent
  <2>4. Sent(q)'
    BY <1>3, <2>1, <2>2, <2>3 DEF Sent
  <2>5. ASSUME NEW n \in Nat, Flow(q, n) PROVE Flow(q, n)'
    BY <1>1, <1>2, <1>4, <1>6, <2>5 DEF Flow
  <2>. QED  BY <2>4, <2>5
<1>7. CASE /\ send[q].at = "window" /\ send'[q].pos = send[q].pos
           /\ send'[q].at = "last" \/ (send'[q].at = "data" /\ send[q].pos < Reads(q))
  <2>1. (send[q].pos <= Reads(q) /\ (send[q].at = "data" => send[q].pos < Reads(q)))'
    BY <1>2, <1>7 DEF Sent
  <2>2. (send[q].at \in {"data", "window", "last"} =>
           /\ \A i \in Places : Of(i) = q => Chunk(i) <= send[q].pos
           /\ \A k \in Nat : Has(get[q], q, k) => k <= send[q].pos)'
    BY <1>1, <1>2, <1>7 DEF Sent
  <2>3. send'[q].at \notin {"none", "start"}
    BY <1>7
  <2>4. Sent(q)'
    BY <1>3, <2>1, <2>2, <2>3 DEF Sent
  <2>5. ASSUME NEW n \in Nat, Flow(q, n) PROVE Flow(q, n)'
    BY <1>1, <1>2, <1>4, <1>7, <2>5 DEF Flow
  <2>. QED  BY <2>4, <2>5
<1>. QED  BY <1>5, <1>6, <1>7 DEF MovesOn

(* A sender that sends a chunk.                                            *)
LEMMA SendsChunk ==
  ASSUME Typed, NEW r \in Known, Sent(r), UNCHANGED <<kind, get>>,
         NEW k \in Nat, NEW p \in Packets, p.piece = <<r, k>>, down' = Append(down, p),
         send'[r].pos = k, send'[r].at \in {"data", "window", "last"}, k <= Reads(r),
         send'[r].at = "data" => k < Reads(r),
         \/ send[r].at = "start" /\ k = 0
         \/ send[r].at = "data" /\ k = send[r].pos + 1
  PROVE  Sent(r)' /\ \A n \in Nat : Flow(r, n) => Flow(r, n)'
<1> DEFINE l == Len(down) + 1
<1>1. /\ \A i \in Places : /\ i \in Places' /\ Of(i)' = Of(i) /\ Chunk(i)' = Chunk(i)
                           /\ i \in Nat /\ i < l
      /\ \A i \in Places' : i \in Places \/ i = l
      /\ l \in Places' /\ l \in Nat /\ down'[l].piece = <<r, k>>
  <2>1. down \in Seq(Packets)
    BY DEF Typed
  <2>2. /\ Len(down') = Len(down) + 1 /\ Len(down) \in Nat
        /\ \A i \in 1..Len(down) : i \in 1..Len(down') /\ down'[i] = down[i]
        /\ down'[Len(down) + 1] = p /\ Len(down) + 1 \in 1..Len(down')
        /\ \A i \in 1..Len(down') : i \in 1..Len(down) \/ i = Len(down) + 1
    BY <2>1, AppendFacts, QueueFacts
  <2>3. \A i \in 1..Len(down) : i \in Nat /\ i < Len(down) + 1
    BY <2>2
  <2>. QED  BY <2>2, <2>3 DEF Places, Of, Chunk
<1>2. PICK m : m = l
  OBVIOUS
<1> HIDE DEF l
<1>3. m \in Places' /\ m \in Nat /\ Of(m)' = r /\ Chunk(m)' = k
  <2>1. m \in Places' /\ m \in Nat /\ down'[m].piece = <<r, k>>
    BY <1>1, <1>2
  <2>. QED  BY <2>1 DEF Of, Chunk
<1>4. /\ Chunks(r)' = Chunks(r) /\ Reads(r)' = Reads(r) /\ Chunks(r) \in Nat /\ Reads(r) \in Nat /\ send[r] \in Senders
      /\ \A j \in Nat : Has(get[r], r, j)' <=> Has(get[r], r, j)
  BY KnownFacts DEF Chunks, Reads, Has
<1>5. \A i \in Places : i \in Nat /\ Chunk(i) \in Nat
  BY PlaceFacts
<1>6. send[r].pos \in Nat
  BY <1>4 DEF Senders
(* What was sent before is below the chunk that is sent now.               *)
<1>7. /\ \A i \in Places : Of(i) = r => Chunk(i) < k
      /\ \A j \in Nat : Has(get[r], r, j) => j < k
  <2>1. CASE send[r].at = "start" /\ k = 0
    BY <2>1 DEF Sent
  <2>2. CASE send[r].at = "data" /\ k = send[r].pos + 1
    <3>1. /\ \A i \in Places : Of(i) = r => Chunk(i) <= send[r].pos
          /\ \A j \in Nat : Has(get[r], r, j) => j <= send[r].pos
      BY <2>2 DEF Sent
    <3>2. \A j \in Nat : j <= send[r].pos => j < k
      BY <1>6, <2>2
    <3>. QED  BY <1>5, <3>1, <3>2
  <2>. QED  BY <2>1, <2>2
<1>8. Sent(r)'
  <2>1. (send[r].pos <= Reads(r) /\ (send[r].at = "data" => send[r].pos < Reads(r)))'
    BY <1>4
  <2>2. ASSUME NEW i \in Places', Of(i)' = r PROVE Chunk(i)' <= k
    <3>1. CASE i \in Places
      <4>1. Of(i)' = Of(i) /\ Chunk(i)' = Chunk(i) /\ Chunk(i) \in Nat
        BY <1>1, <1>5, <3>1
      <4>2. Chunk(i) < k
        BY <1>7, <2>2, <3>1, <4>1
      <4>. QED  BY <4>1, <4>2
    <3>2. CASE i \notin Places
      <4>1. i = m
        BY <1>1, <1>2, <3>2
      <4>. QED  BY <1>3, <4>1
    <3>. QED  BY <3>1, <3>2
  <2>3. \A j \in Nat : Has(get[r], r, j)' => j <= k
    BY <1>4, <1>7
  <2>4. ASSUME NEW i \in Places', NEW j \in Places', Of(i)' = r, Of(j)' = r, i < j
        PROVE  Chunk(i)' < Chunk(j)'
    <3>1. CASE j \in Places
      <4>1. i \in Places
        <5>1. j \in Nat /\ j < m /\ m \in Nat /\ (i = m \/ i \in Places)
          BY <1>1, <1>2, <3>1
        <5>. QED  BY <2>4, <5>1
      <4>. QED  BY <1>1, <2>4, <3>1, <4>1 DEF Sent
    <3>2. CASE j = m
      <4>1. i \in Places
        BY <1>1, <1>2, <1>3, <2>4, <3>2
      <4>. QED  BY <1>1, <1>3, <1>7, <2>4, <3>2, <4>1
    <3>. QED  BY <1>1, <1>2, <3>1, <3>2
  <2>5. ASSUME NEW i \in Places', NEW j \in Nat, Of(i)' = r, Has(get[r], r, j)'
        PROVE  j < Chunk(i)'
    <3>1. CASE i \in Places
      BY <1>1, <1>4, <2>5, <3>1 DEF Sent
    <3>2. CASE i = m
      BY <1>3, <1>4, <1>7, <2>5, <3>2
    <3>. QED  BY <1>1, <1>2, <3>1, <3>2
  <2>. QED  BY <2>1, <2>2, <2>3, <2>4, <2>5 DEF Sent
<1>9. ASSUME NEW n \in Nat, Flow(r, n) PROVE Flow(r, n)'
  <2>1. OnStream(r, k)'
    BY <1>3 DEF OnStream
  <2>2. \A j \in Nat : OnStream(r, j) => OnStream(r, j)'
    BY <1>1 DEF OnStream
  <2>3. n <= k /\ \A j \in Nat : n <= j /\ j <= k => OnStream(r, j)'
    <3>1. CASE send[r].at = "start" /\ k = 0
      <4>1. n = 0
        BY <1>9, <3>1 DEF Flow
      <4>2. \A j \in Nat : j <= 0 => j = 0
        OBVIOUS
      <4>. QED  BY <2>1, <3>1, <4>1, <4>2
    <3>2. CASE send[r].at = "data" /\ k = send[r].pos + 1
      <4>0. send[r].pos < Reads(r) /\ Reads(r) <= Chunks(r) + 1
        BY <3>2, KnownFacts DEF Sent
      <4>1. n <= send[r].pos + 1 /\ \A j \in Nat : n <= j /\ j <= send[r].pos => OnStream(r, j)
        BY <1>4, <1>6, <1>9, <3>2, <4>0 DEF Flow
      <4>2. \A j \in Nat : j <= k => j <= send[r].pos \/ j = k
        BY <1>6, <3>2
      <4>. QED  BY <2>1, <2>2, <3>2, <4>1, <4>2
    <3>. QED  BY <3>1, <3>2
  <2>4. ASSUME NEW i \in Places', Of(i)' = r
        PROVE  n <= Chunk(i)' /\ \A j \in Nat : n <= j /\ j <= Chunk(i)' => OnStream(r, j)'
    <3>1. CASE i \in Places
      <4>1. n <= Chunk(i) /\ \A j \in Nat : n <= j /\ j <= Chunk(i) => OnStream(r, j)
        BY <1>1, <1>9, <2>4, <3>1 DEF Flow
      <4>. QED  BY <1>1, <2>2, <3>1, <4>1
    <3>2. CASE i = m
      BY <1>3, <2>3, <3>2
    <3>. QED  BY <1>1, <1>2, <3>1, <3>2
  <2>5. n <= k + 1
    BY <2>3
  <2>. QED  BY <2>3, <2>4, <2>5 DEF Flow
<1>. QED  BY <1>8, <1>9

LEMMA AskedStays ==
  ASSUME Asked, UNCHANGED <<kind, get, up, specialq>>,
         \A q \in Known : send[q].at = "none" => send'[q].at = "none"
  PROVE  Asked'
<1>1. Known' = Known /\ \A i : Asks(i)' <=> Asks(i)
  BY DEF Known, Asks
<1>2. (\A i \in 1..Len(up) : Asks(i) =>
         up[i].n \in Known /\ up[i].port = get[up[i].n].port /\ send[up[i].n].at = "none")'
  BY <1>1 DEF Asked
<1>3. (\A i \in 1..Len(specialq) :
         /\ specialq[i][2] \in Known /\ specialq[i][1] = get[specialq[i][2]].port
         /\ send[specialq[i][2]].at = "none")'
  BY <1>1 DEF Asked
<1>4. (/\ \A i, j \in 1..Len(up) : Asks(i) /\ Asks(j) /\ up[i].n = up[j].n => i = j
       /\ \A i, j \in 1..Len(specialq) : specialq[i][2] = specialq[j][2] => i = j
       /\ \A i \in 1..Len(up), j \in 1..Len(specialq) : Asks(i) => up[i].n # specialq[j][2])'
  BY <1>1 DEF Asked
<1>. QED  BY <1>2, <1>3, <1>4 DEF Asked

(* The sender s of request r after its step.                               *)
SenderStep(r, s) ==
  /\ r \in Known /\ Sending(r) /\ s \in Senders /\ s.port = send[r].port /\ s.at # "none"
  /\ send' = [send EXCEPT ![r] = s]
  /\ UNCHANGED <<client, specialq, up, clean>>
  /\ \/ down' = down
     \/ \E k \in Nat : down' = Append(down, Packet(r, k)) /\ k <= Reads(r)
InWindow(r, s) ==
  ~Dead(r) =>
    /\ s.at # "dead" => s.progress <= get[r].sofar
    /\ s.at = "data" => s.pos <= get[r].sofar + Window
    /\ s.at \in {"window", "last"} => s.pos <= get[r].sofar + Window + 1

LEMMA SenderStepKeeps ==
  ASSUME FileInv, NEW r, NEW s, SenderStep(r, s), InWindow(r, s),
         Sent(r)' /\ \A n \in Nat : Flow(r, n) => Flow(r, n)'
  PROVE  FileInv'
<1>1. /\ Typed /\ Asked /\ Carried /\ \A q \in Known : Sent(q) /\ Acked(q)
      /\ r \in Known /\ Sending(r) /\ s \in Senders /\ s.port = send[r].port /\ s.at # "none"
      /\ send' = [send EXCEPT ![r] = s] /\ send \in [Requests -> Senders]
      /\ UNCHANGED <<kind, get, getters, todo, previous, open, dirty, admin, lost, specialq, up>>
  BY DEF FileInv, SenderStep, client, clean, Typed
<1>2. /\ Known \subseteq Requests /\ send' \in [Requests -> Senders] /\ send'[r] = s
      /\ \A q \in Requests \ {r} : send'[q] = send[q]
      /\ send[r].at # "none"
  BY <1>1, KnownFacts DEF Sending
<1>3. HostSide
  BY <1>1, <1>2 DEF HostSide
<1>4. Asked'
  BY <1>1, <1>2, AskedStays
<1>5. send[r].port = get[r].port /\ send[r].port \in Nat
  BY <1>1, <1>2 DEF Carried, Senders
<1>6. \A k \in Nat : /\ Packet(r, k) \in Packets /\ Packet(r, k).piece = <<r, k>>
                     /\ Packet(r, k).port = get[r].port
  BY <1>1, <1>2, <1>5 DEF Packet, Packets, Piece
<1>7. \A q \in Known : q # r => SameStream(q)
  BY <1>6 DEF SenderStep, SameStream
<1>8. down' \in Seq(Packets) /\ Carried'
  <2>1. (\A q \in Known : send[q].at # "none" => send[q].port = get[q].port)'
    BY <1>1, <1>2, <1>5 DEF Carried, Known
  <2>2. \A i \in Places : /\ Of(i) \in Known /\ Chunk(i) <= Reads(Of(i))
                          /\ down[i].port = get[Of(i)].port
    BY <1>1 DEF Carried
  <2>3. CASE down' = down
    <3>1. (\A i \in Places : /\ Of(i) \in Known /\ Chunk(i) <= Reads(Of(i))
                             /\ down[i].port = get[Of(i)].port)'
      BY <1>1, <2>2, <2>3 DEF Places, Of, Chunk, Chunks, Reads, Known
    <3>. QED  BY <1>1, <2>1, <2>3, <3>1 DEF Carried, Typed
  <2>4. CASE down' # down
    <3>1. PICK k \in Nat : down' = Append(down, Packet(r, k)) /\ k <= Reads(r)
      BY <2>4 DEF SenderStep
    <3>2. PICK p \in Packets : p = Packet(r, k) /\ p.piece = <<r, k>> /\ p.port = get[r].port
      BY <1>6
    <3>3. /\ down' \in Seq(Packets) /\ Len(down') = Len(down) + 1
          /\ \A i \in 1..Len(down) : down'[i] = down[i]
          /\ down'[Len(down) + 1] = p
          /\ \A i \in 1..Len(down') : i \in 1..Len(down) \/ i = Len(down) + 1
      BY <1>1, <3>1, <3>2, AppendFacts DEF Typed
    <3>4. ASSUME NEW i \in Places'
          PROVE  /\ Of(i)' \in Known /\ Chunk(i)' <= Reads(Of(i)')
                 /\ down'[i].port = get[Of(i)'].port
      <4>1. CASE i \in Places
        BY <2>2, <3>3, <4>1 DEF Places, Of, Chunk
      <4>2. CASE i = Len(down) + 1
        BY <1>1, <3>1, <3>2, <3>3, <4>2 DEF Of, Chunk
      <4>. QED  BY <3>3, <4>1, <4>2 DEF Places
    <3>5. (\A i \in Places : /\ Of(i) \in Known /\ Chunk(i) <= Reads(Of(i))
                             /\ down[i].port = get[Of(i)].port)'
      BY <1>1, <3>4 DEF Chunks, Reads, Known
    <3>. QED  BY <2>1, <3>3, <3>5 DEF Carried
  <2>. QED  BY <2>3, <2>4
<1>9. ASSUME NEW q \in Known
      PROVE  Sent(q)' /\ \A n \in Nat : Flow(q, n) => Flow(q, n)'
  <2>1. CASE q = r
    BY <2>1
  <2>2. CASE q # r
    <3>1. MovesOn(q)
      BY <1>2, <2>2 DEF MovesOn
    <3>. QED  BY <1>1, <1>7, <2>2, <3>1, MovesOnKeeps
  <2>. QED  BY <2>1, <2>2
<1>10. ASSUME NEW q \in Known PROVE Acked(q)'
  <2>1. /\ Dead(q)' <=> Dead(q)
        /\ \A i \in 1..Len(up) : /\ Answers(i, q)' <=> Answers(i, q)
                                 /\ Unserved(i, q)' <=> Unserved(i, q)
    BY <1>1 DEF Dead, Answers, Unserved, Asks
  <2>2. Acked(q) /\ Dead(q)' => Acked(q)'
    BY DEF Acked
  <2>3. CASE q = r
    <3>1. Sending(r)' => s.at # "dead"
      BY <1>2 DEF Sending
    <3>. QED  BY <1>1, <1>2, <2>1, <2>3, <3>1 DEF Acked, InWindow
  <2>4. CASE q # r
    <3>1. send'[q] = send[q] /\ (Sending(q)' <=> Sending(q))
      BY <1>2, <2>4 DEF Sending
    <3>. QED  BY <1>1, <2>1, <3>1 DEF Acked
  <2>. QED  BY <2>3, <2>4
<1>11. up' \in Seq(UpMessage) /\ specialq' \in Seq(Nat \X Requests)
  BY <1>1 DEF Typed
<1>. QED  BY <1>3, <1>4, <1>8, <1>9, <1>10, <1>11, HostSideKeeps

LEMMA SendingIsKnown ==
  ASSUME FileInv, NEW r \in Requests, Sending(r)
  PROVE  /\ r \in Known /\ Typed /\ Sent(r) /\ Acked(r) /\ send[r] \in Senders
         /\ send \in [Requests -> Senders] /\ Chunks(r) \in Nat \ {0}
         /\ Reads(r) \in Nat /\ Chunks(r) <= Reads(r)
         /\ get[r].sofar \in Nat /\ send[r].pos \in Nat /\ send[r].progress \in Nat
         /\ Window \in Nat
<1>1. Typed /\ Listed
  BY DEF FileInv
<1>2. r \in Known
  <2>1. r > Len(kind) => send[r] = Silent
    BY <1>1 DEF Listed
  <2>. QED  BY <1>1, <2>1, KnownFacts, FileAssumption DEF Sending, Silent, Known, Requests
<1>. QED  BY <1>1, <1>2, KnownFacts, FileAssumption DEF FileInv, Typed, Getters, Senders

LEMMA OverFacts ==
  ASSUME FileInv, NEW r \in Requests, Sending(r), send' = [send EXCEPT ![r] = Over(@)],
         UNCHANGED <<client, specialq, down, up, clean>>
  PROVE  FileInv'
<1> DEFINE s == Over(send[r])
<1>1. r \in Known /\ Typed /\ Sent(r) /\ send[r] \in Senders /\ send \in [Requests -> Senders]
      /\ Known \subseteq Requests
  BY SendingIsKnown, KnownFacts
<1>2. /\ s \in Senders /\ s.port = send[r].port /\ s.at = "dead" /\ s.pos = 0
  BY <1>1 DEF Over, Silent, Senders
<1>3. send' = [send EXCEPT ![r] = s]
  OBVIOUS
<1> HIDE DEF s
<1>4. SenderStep(r, s)
  BY <1>1, <1>2, <1>3 DEF SenderStep
<1>5. InWindow(r, s)
  BY <1>2 DEF InWindow
<1>6. send'[r].at = "dead" /\ send'[r].pos = 0
  BY <1>1, <1>2, <1>3
<1>7. MovesOn(r) /\ SameStream(r)
  BY <1>6 DEF MovesOn, SameStream
<1>8. Sent(r)' /\ \A n \in Nat : Flow(r, n) => Flow(r, n)'
  BY <1>1, <1>7, MovesOnKeeps DEF client
<1>. QED  BY <1>4, <1>5, <1>8, SenderStepKeeps

LEMMA SenderStartsKeeps ==
  ASSUME FileInv, NEW r \in Requests, SenderStarts(r)
  PROVE  FileInv'
<1>1. send[r].at = "start" /\ Sending(r) /\ UNCHANGED <<client, specialq, up, clean>>
  BY DEF SenderStarts, Sending
<1>2. CASE send' = [send EXCEPT ![r] = Over(@)] /\ UNCHANGED down
  BY <1>1, <1>2, OverFacts
<1>3. CASE /\ send' = [send EXCEPT ![r].at = "data"]
           /\ down' = Append(down, Packet(r, 0))
  <2> DEFINE s == [send[r] EXCEPT !.at = "data"]
  <2>1. /\ r \in Known /\ Typed /\ Sent(r) /\ Acked(r) /\ send[r] \in Senders
        /\ send \in [Requests -> Senders] /\ Chunks(r) \in Nat \ {0} /\ get[r].sofar \in Nat
        /\ send[r].pos = 0 /\ Window \in Nat /\ Reads(r) \in Nat /\ Chunks(r) <= Reads(r)
    BY <1>1, SendingIsKnown DEF Sent
  <2>2. /\ s \in Senders /\ s.at = "data" /\ s.port = send[r].port
        /\ s.pos = send[r].pos /\ s.progress = send[r].progress
    BY <2>1 DEF Senders
  <2>3. send' = [send EXCEPT ![r] = s]
    BY <1>3, <2>1
  <2> HIDE DEF s
  <2>4. Packet(r, 0) \in Packets /\ Packet(r, 0).piece = <<r, 0>>
    BY <2>1 DEF Packet, Packets, Piece, Senders
  <2>5. send'[r] = s
    BY <2>1, <2>3
  <2>6. SenderStep(r, s)
    <3>1. \E k \in Nat : down' = Append(down, Packet(r, k)) /\ k <= Reads(r)
      <4>1. 0 \in Nat /\ 0 <= Reads(r)
        BY <2>1
      <4>. QED  BY <1>3, <4>1
    <3>. QED  BY <1>1, <2>1, <2>2, <2>3, <3>1 DEF SenderStep
  <2>7. InWindow(r, s)
    BY <1>1, <2>1, <2>2 DEF InWindow, Acked
  <2>8. Sent(r)' /\ \A n \in Nat : Flow(r, n) => Flow(r, n)'
    <3>1. UNCHANGED <<kind, get>> /\ 0 \in Nat /\ 0 <= Reads(r) /\ 0 < Reads(r)
      BY <1>1, <2>1 DEF client
    <3>. QED  BY <1>1, <1>3, <2>1, <2>2, <2>4, <2>5, <3>1, SendsChunk
  <2>. QED  BY <2>6, <2>7, <2>8, SenderStepKeeps
<1>. QED  BY <1>2, <1>3 DEF SenderStarts

LEMMA SenderSendsKeeps ==
  ASSUME FileInv, NEW r \in Requests, SenderSends(r)
  PROVE  FileInv'
<1>1. /\ send[r].at = "data" /\ Sending(r) /\ UNCHANGED <<client, specialq, up, clean>>
      /\ send' = [send EXCEPT ![r].pos = @ + 1,
                   ![r].at = IF send[r].pos < Size[kind[r]] THEN "window" ELSE "last"]
      /\ down' = Append(down, Packet(r, send[r].pos + 1))
  BY DEF SenderSends, Sending
<1> DEFINE k == send[r].pos + 1
           a == IF send[r].pos < Size[kind[r]] THEN "window" ELSE "last"
           s == [send[r] EXCEPT !.pos = k, !.at = a]
<1>2. /\ r \in Known /\ Typed /\ Sent(r) /\ Acked(r) /\ send[r] \in Senders
      /\ send \in [Requests -> Senders] /\ Chunks(r) \in Nat \ {0} /\ get[r].sofar \in Nat
      /\ send[r].pos \in Nat /\ Window \in Nat /\ Reads(r) \in Nat
  BY <1>1, SendingIsKnown
<1>3. k \in Nat /\ k <= Reads(r)
  BY <1>1, <1>2 DEF Sent
<1>4. send' = [send EXCEPT ![r] = s]
  BY <1>1, <1>2
<1>5. PICK m \in Nat : m = k
  BY <1>3
<1>a. a \in {"window", "last"}
  OBVIOUS
<1> HIDE DEF a
<1>6. /\ s \in Senders /\ s.at = a /\ s.port = send[r].port
      /\ s.pos = m /\ s.progress = send[r].progress
  BY <1>2, <1>5, <1>a DEF Senders
<1> HIDE DEF s
<1>7. Packet(r, m) \in Packets /\ Packet(r, m).piece = <<r, m>>
  <2>1. r \in Requests /\ send[r].port \in Nat
    BY <1>2 DEF Senders
  <2>. QED  BY <2>1 DEF Packet, Packets, Piece
<1>8. send'[r] = s /\ down' = Append(down, Packet(r, m)) /\ m <= Reads(r)
  BY <1>1, <1>2, <1>3, <1>4, <1>5
<1>9. SenderStep(r, s)
  BY <1>1, <1>2, <1>4, <1>6, <1>8, <1>a DEF SenderStep
<1>10. InWindow(r, s)
  <2>1. ASSUME ~Dead(r)
        PROVE  send[r].progress <= get[r].sofar /\ send[r].pos <= get[r].sofar + Window
    BY <1>1, <1>2, <2>1 DEF Acked
  <2>2. send[r].pos <= get[r].sofar + Window => m <= get[r].sofar + Window + 1
    BY <1>2, <1>5
  <2>. QED  BY <1>6, <1>a, <2>1, <2>2 DEF InWindow
<1>11. Sent(r)' /\ \A n \in Nat : Flow(r, n) => Flow(r, n)'
  <2>1. /\ UNCHANGED <<kind, get>> /\ send'[r].pos = m
        /\ send'[r].at \in {"window", "last"} /\ send'[r].at # "data"
    BY <1>1, <1>6, <1>8, <1>a DEF client
  <2>2. send[r].at = "data" /\ m = send[r].pos + 1
    BY <1>1, <1>5
  <2>. QED  BY <1>2, <1>7, <1>8, <2>1, <2>2, SendsChunk
<1>. QED  BY <1>9, <1>10, <1>11, SenderStepKeeps

LEMMA SenderGoesOnKeeps ==
  ASSUME FileInv, NEW r \in Requests, SenderGoesOn(r)
  PROVE  FileInv'
<1>1. send[r].at = "window" /\ Sending(r) /\ UNCHANGED <<client, specialq, down, up, clean>>
  BY DEF SenderGoesOn, Sending
<1>2. CASE send' = [send EXCEPT ![r] = Over(@)]
  BY <1>1, <1>2, OverFacts
<1>3. CASE MayGoOn(r) /\ send' = [send EXCEPT ![r].at = IF Eof(r) THEN "last" ELSE "data"]
  <2> DEFINE a == IF Eof(r) THEN "last" ELSE "data"
             s == [send[r] EXCEPT !.at = a]
  <2>1. /\ r \in Known /\ Typed /\ Sent(r) /\ Acked(r) /\ send[r] \in Senders
        /\ send \in [Requests -> Senders] /\ Chunks(r) \in Nat \ {0} /\ get[r].sofar \in Nat
        /\ send[r].pos \in Nat /\ send[r].progress \in Nat /\ Window \in Nat
    BY <1>1, SendingIsKnown
  <2>2. send' = [send EXCEPT ![r] = s]
    BY <1>3, <2>1
  <2>3. a \in {"last", "data"} /\ (a = "data" => send[r].pos < Reads(r))
    BY <2>1 DEF Eof, Chunks, Reads
  <2> HIDE DEF a
  <2>4. /\ s \in Senders /\ s.at = a /\ s.port = send[r].port
        /\ s.pos = send[r].pos /\ s.progress = send[r].progress
    BY <2>1, <2>3 DEF Senders
  <2> HIDE DEF s
  <2>5. send'[r] = s
    BY <2>1, <2>2
  <2>6. SenderStep(r, s)
    BY <1>1, <2>1, <2>2, <2>3, <2>4 DEF SenderStep
  <2>7. InWindow(r, s)
    <3>1. ASSUME ~Dead(r)
          PROVE  send[r].progress <= get[r].sofar /\ send[r].pos <= get[r].sofar + Window
      <4>1. send[r].progress <= get[r].sofar
        BY <1>1, <2>1, <3>1 DEF Acked
      <4>2. send[r].progress >= send[r].pos - Window
        BY <1>3 DEF MayGoOn
      <4>. QED  BY <2>1, <4>1, <4>2
    <3>2. send[r].pos <= get[r].sofar + Window => send[r].pos <= get[r].sofar + Window + 1
      BY <2>1
    <3>. QED  BY <2>3, <2>4, <3>1, <3>2 DEF InWindow
  <2>8. MovesOn(r) /\ SameStream(r)
    BY <1>1, <2>3, <2>4, <2>5 DEF MovesOn, SameStream
  <2>9. Sent(r)' /\ \A n \in Nat : Flow(r, n) => Flow(r, n)'
    BY <1>1, <2>1, <2>8, MovesOnKeeps DEF client
  <2>. QED  BY <2>6, <2>7, <2>9, SenderStepKeeps
<1>. QED  BY <1>2, <1>3 DEF SenderGoesOn

LEMMA SenderEndsKeeps ==
  ASSUME FileInv, NEW r \in Requests, SenderEnds(r)
  PROVE  FileInv'
BY OverFacts DEF SenderEnds, Sending

(* The host's SocketThread takes a message.                                *)
LEMMA UpTail ==
  ASSUME Typed, up # <<>>, up' = Tail(up)
  PROVE  /\ up' \in Seq(UpMessage) /\ Head(up) = up[1] /\ 1 \in 1..Len(up)
         /\ up[1] \in UpMessage
         /\ \A i \in 1..Len(up') : /\ i \in Nat /\ i + 1 \in 1..Len(up) /\ i + 1 # 1
                                   /\ up'[i] = up[i + 1] /\ (Asks(i)' <=> Asks(i + 1))
         /\ \A i \in 1..Len(up) : i = 1 \/ (i - 1 \in 1..Len(up') /\ (i - 1) + 1 = i)
         /\ \A i \in 1..Len(up) : i \in Nat
<1>1. up \in Seq(UpMessage) /\ \A i \in 1..Len(up) : up[i] \in UpMessage
  BY UpFacts
<1>2. /\ up' \in Seq(UpMessage) /\ Len(up') = Len(up) - 1 /\ Len(up) \in Nat \ {0}
      /\ \A i \in 1..Len(up') : i + 1 \in 1..Len(up) /\ up'[i] = up[i + 1]
      /\ Head(up) = up[1] /\ 1 \in 1..Len(up)
      /\ \A i \in 1..Len(up) : i = 1 \/ i - 1 \in 1..Len(up')
  BY <1>1, TailFacts
<1>3. \A i \in 1..Len(up) : (i - 1) + 1 = i /\ i \in Nat
  BY <1>2
<1>4. \A i \in 1..Len(up') : i \in Nat /\ i + 1 # 1
  BY <1>2
<1>. QED  BY <1>1, <1>2, <1>3, <1>4 DEF Asks

LEMMA UpTailAcked ==
  ASSUME FileInv, up # <<>>, up' = Tail(up), UNCHANGED get, NEW q \in Known, ~Dead(q)
  PROVE  (\A i \in 1..Len(up) : Answers(i, q) => up[i].n <= get[q].sofar \/ Unserved(i, q))'
<1>1. Typed /\ Acked(q)
  BY DEF FileInv
<1>2. /\ \A i \in 1..Len(up') : /\ i \in Nat /\ i + 1 \in 1..Len(up)
                                /\ up'[i] = up[i + 1] /\ (Asks(i)' <=> Asks(i + 1))
      /\ \A i \in 1..Len(up) : i = 1 \/ (i - 1 \in 1..Len(up') /\ (i - 1) + 1 = i)
      /\ \A i \in 1..Len(up) : i \in Nat
  BY <1>1, UpTail
<1>3. ASSUME NEW i \in 1..Len(up'), Answers(i, q)'
      PROVE  up'[i].n <= get'[q].sofar \/ Unserved(i, q)'
  <2>1. Answers(i + 1, q)
    BY <1>2, <1>3 DEF Answers
  <2>2. up[i + 1].n <= get[q].sofar \/ Unserved(i + 1, q)
    BY <1>1, <1>2, <2>1 DEF Acked
  <2>3. ASSUME Unserved(i + 1, q) PROVE Unserved(i, q)'
    <3>1. PICK j \in 1..Len(up) : i + 1 < j /\ Asks(j) /\ up[j].n = q
      BY <2>3 DEF Unserved
    <3>2. j \in Nat /\ i \in Nat
      BY <1>2
    <3>3. j # 1 /\ i < j - 1
      BY <3>1, <3>2
    <3>4. j - 1 \in 1..Len(up') /\ (j - 1) + 1 = j
      BY <1>2, <3>3
    <3>5. Asks(j - 1)' /\ up'[j - 1] = up[j]
      BY <1>2, <3>1, <3>4
    <3>. QED  BY <3>1, <3>3, <3>4, <3>5 DEF Unserved
  <2>. QED  BY <1>2, <2>2, <2>3
<1>. QED  BY <1>3

LEMMA HostReceivesKeeps ==
  ASSUME FileInv, HostReceives
  PROVE  FileInv'
<1>1. /\ Typed /\ Asked /\ Carried /\ \A q \in Known : Sent(q) /\ Acked(q)
      /\ Known \subseteq Requests
      /\ specialq \in Seq(Nat \X Requests) /\ down \in Seq(Packets)
      /\ send \in [Requests -> Senders]
  BY KnownFacts DEF FileInv, Typed
<1>2. /\ up # <<>> /\ up' = Tail(up)
      /\ UNCHANGED <<kind, get, getters, todo, previous, open, down, dirty, admin, lost>>
  BY DEF HostReceives, client, clean
<1>3. /\ up' \in Seq(UpMessage) /\ Head(up) = up[1] /\ 1 \in 1..Len(up) /\ up[1] \in UpMessage
      /\ \A i \in 1..Len(up') : /\ i \in Nat /\ i + 1 \in 1..Len(up) /\ i + 1 # 1
                                /\ up'[i] = up[i + 1] /\ (Asks(i)' <=> Asks(i + 1))
      /\ \A i \in 1..Len(up) : i = 1 \/ (i - 1 \in 1..Len(up') /\ (i - 1) + 1 = i)
  BY <1>1, <1>2, UpTail
<1>4. Known' = Known
  BY <1>2 DEF Known
<1>5. \A i, j \in 1..Len(up') : i + 1 = j + 1 => i = j
  BY <1>3
<1>6. /\ \A i \in 1..Len(up') : Asks(i)' =>
           /\ up'[i].n \in Known /\ up'[i].port = get[up'[i].n].port
           /\ send[up'[i].n].at = "none"
      /\ \A i, j \in 1..Len(up') : Asks(i)' /\ Asks(j)' /\ up'[i].n = up'[j].n => i = j
      /\ \A i \in 1..Len(up'), j \in 1..Len(specialq) : Asks(i)' => up'[i].n # specialq[j][2]
      /\ \A i \in 1..Len(up') : Asks(1) /\ Asks(i)' => up'[i].n # up[1].n
  <2>1. ASSUME NEW i \in 1..Len(up'), Asks(i)'
        PROVE  /\ i + 1 \in 1..Len(up) /\ up'[i] = up[i + 1] /\ Asks(i + 1)
    BY <1>3, <2>1
  <2>2. ASSUME NEW i \in 1..Len(up'), Asks(i)'
        PROVE  /\ up'[i].n \in Known /\ up'[i].port = get[up'[i].n].port
               /\ send[up'[i].n].at = "none"
    BY <1>1, <2>1, <2>2 DEF Asked
  <2>3. ASSUME NEW i \in 1..Len(up'), NEW j \in 1..Len(up'), Asks(i)', Asks(j)',
               up'[i].n = up'[j].n
        PROVE  i = j
    <3>1. /\ i + 1 \in 1..Len(up) /\ up'[i] = up[i + 1] /\ Asks(i + 1)
          /\ j + 1 \in 1..Len(up) /\ up'[j] = up[j + 1] /\ Asks(j + 1)
      BY <2>1, <2>3
    <3>2. up[i + 1].n = up[j + 1].n
      BY <2>3, <3>1
    <3>3. i + 1 = j + 1
      BY <1>1, <3>1, <3>2 DEF Asked
    <3>. QED  BY <1>5, <3>3
  <2>4. ASSUME NEW i \in 1..Len(up'), NEW j \in 1..Len(specialq), Asks(i)'
        PROVE  up'[i].n # specialq[j][2]
    <3>1. i + 1 \in 1..Len(up) /\ up'[i] = up[i + 1] /\ Asks(i + 1)
      BY <2>1, <2>4
    <3>2. up[i + 1].n # specialq[j][2]
      BY <1>1, <3>1 DEF Asked
    <3>. QED  BY <3>1, <3>2
  <2>5. ASSUME NEW i \in 1..Len(up'), Asks(1), Asks(i)'
        PROVE  up'[i].n # up[1].n
    <3>1. i + 1 \in 1..Len(up) /\ up'[i] = up[i + 1] /\ Asks(i + 1) /\ i + 1 # 1
      BY <1>3, <2>1, <2>5
    <3>2. up[i + 1].n # up[1].n
      BY <1>1, <1>3, <2>5, <3>1 DEF Asked
    <3>. QED  BY <3>1, <3>2
  <2>. QED  BY <2>2, <2>3, <2>4, <2>5
<1>7. CASE Head(up).what = "X"
  <2> DEFINE e == <<up[1].port, up[1].n>>
  <2>1. specialq' = Append(specialq, e) /\ send' = send /\ Asks(1)
    BY <1>3, <1>7 DEF HostReceives, Asks
  <2>2. up[1].n \in Known /\ up[1].port = get[up[1].n].port /\ send[up[1].n].at = "none"
    BY <1>1, <1>3, <2>1 DEF Asked
  <2>3. e \in Nat \X Requests /\ e[1] = up[1].port /\ e[2] = up[1].n
    BY <1>1, <1>3, <2>2 DEF UpMessage
  <2> HIDE DEF e
  <2>4. /\ specialq' \in Seq(Nat \X Requests) /\ Len(specialq') = Len(specialq) + 1
        /\ \A i \in 1..Len(specialq) : specialq'[i] = specialq[i]
        /\ specialq'[Len(specialq) + 1] = e
        /\ \A i \in 1..Len(specialq') : i \in 1..Len(specialq) \/ i = Len(specialq) + 1
    BY <1>1, <2>1, <2>3, AppendFacts
  <2>5. \A i \in 1..Len(specialq') :
          \/ i \in 1..Len(specialq) /\ specialq'[i] = specialq[i]
          \/ i = Len(specialq) + 1 /\ specialq'[i] = e
    BY <2>4
  <2>6. \A i \in 1..Len(specialq) :
          /\ specialq[i][2] \in Known /\ specialq[i][1] = get[specialq[i][2]].port
          /\ send[specialq[i][2]].at = "none" /\ specialq[i][2] # up[1].n
    BY <1>1, <1>3, <2>1 DEF Asked
  <2>7. (\A i \in 1..Len(specialq) :
           /\ specialq[i][2] \in Known /\ specialq[i][1] = get[specialq[i][2]].port
           /\ send[specialq[i][2]].at = "none")'
    BY <1>2, <1>4, <2>1, <2>2, <2>3, <2>5, <2>6
  <2>8. ASSUME NEW i \in 1..Len(specialq'), NEW j \in 1..Len(specialq'),
               specialq'[i][2] = specialq'[j][2]
        PROVE  i = j
    <3>1. CASE i \in 1..Len(specialq) /\ specialq'[i] = specialq[i]
      <4>1. specialq'[j] # e
        BY <2>3, <2>6, <2>8, <3>1
      <4>. QED  BY <1>1, <2>5, <2>8, <3>1, <4>1 DEF Asked
    <3>2. CASE i = Len(specialq) + 1 /\ specialq'[i] = e
      BY <2>3, <2>5, <2>6, <2>8, <3>2
    <3>. QED  BY <2>5, <3>1, <3>2
  <2>9. ASSUME NEW i \in 1..Len(up'), NEW j \in 1..Len(specialq'), Asks(i)'
        PROVE  up'[i].n # specialq'[j][2]
    <3>1. CASE specialq'[j] = e
      BY <1>6, <2>1, <2>3, <2>9, <3>1
    <3>2. CASE j \in 1..Len(specialq) /\ specialq'[j] = specialq[j]
      BY <1>6, <2>9, <3>2
    <3>. QED  BY <2>5, <3>1, <3>2
  <2>10. Asked'
    <3>1. (\A i \in 1..Len(up) : Asks(i) =>
             up[i].n \in Known /\ up[i].port = get[up[i].n].port /\ send[up[i].n].at = "none")'
      BY <1>2, <1>4, <1>6, <2>1
    <3>2. (/\ \A i, j \in 1..Len(up) : Asks(i) /\ Asks(j) /\ up[i].n = up[j].n => i = j
           /\ \A i, j \in 1..Len(specialq) : specialq[i][2] = specialq[j][2] => i = j
           /\ \A i \in 1..Len(up), j \in 1..Len(specialq) : Asks(i) => up[i].n # specialq[j][2])'
      BY <1>6, <2>8, <2>9
    <3>. QED  BY <2>7, <3>1, <3>2 DEF Asked
  <2>11. Carried'
    BY <1>1, <1>2, <2>1 DEF Carried, Known, Places, Of, Chunk, Chunks, Reads
  <2>12. ASSUME NEW q \in Known
         PROVE  Sent(q)' /\ \A n \in Nat : Flow(q, n) => Flow(q, n)'
    <3>1. MovesOn(q) /\ SameStream(q)
      BY <1>2, <2>1 DEF MovesOn, SameStream
    <3>. QED  BY <1>1, <1>2, <3>1, MovesOnKeeps
  <2>13. ASSUME NEW q \in Known PROVE Acked(q)'
    <3>1. Dead(q)' <=> Dead(q)
      BY <1>2 DEF Dead
    <3>2. ~Dead(q) => (\A i \in 1..Len(up) : Answers(i, q) => up[i].n <= get[q].sofar \/ Unserved(i, q))'
      BY <1>2, UpTailAcked
    <3>. QED  BY <1>1, <1>2, <2>1, <3>1, <3>2 DEF Acked, Sending
  <2>14. HostSide
    BY <1>1, <1>2, <2>1 DEF HostSide
  <2>. QED  BY <1>1, <1>2, <1>3, <2>4, <2>10, <2>11, <2>12, <2>13, <2>14, HostSideKeeps
<1>8. CASE Head(up).what # "X"
  <2>1. /\ specialq' = specialq
        /\ send' = [r \in Requests |->
                      IF Sending(r) /\ send[r].port = up[1].port
                      THEN [send[r] EXCEPT !.progress = up[1].n] ELSE send[r]]
        /\ up[1].what = "R" /\ up[1].n \in Nat
    BY <1>3, <1>8 DEF HostReceives, UpMessage
  <2>2. ASSUME NEW q \in Requests
        PROVE  /\ send'[q] \in Senders /\ send'[q].at = send[q].at /\ send'[q].pos = send[q].pos
               /\ send'[q].port = send[q].port
               /\ \/ send'[q] = send[q]
                  \/ Sending(q) /\ send[q].port = up[1].port /\ send'[q].progress = up[1].n
    <3>1. CASE Sending(q) /\ send[q].port = up[1].port
      <4>1. send'[q] = [send[q] EXCEPT !.progress = up[1].n]
        BY <2>1, <3>1
      <4>. QED  BY <1>1, <2>1, <3>1, <4>1 DEF Senders
    <3>2. CASE ~(Sending(q) /\ send[q].port = up[1].port)
      <4>1. send'[q] = send[q]
        BY <2>1, <3>2
      <4>. QED  BY <1>1, <4>1
    <3>. QED  BY <3>1, <3>2
  <2>3. send' \in [Requests -> Senders]
    BY <2>1, <2>2
  <2>4. \A q \in Requests : q \notin Known => send'[q] = send[q]
    <3>1. \A q \in Requests : Sending(q) => q \in Known
      BY SendingIsKnown
    <3>. QED  BY <2>2, <3>1
  <2>5. HostSide
    BY <1>2, <2>3, <2>4 DEF HostSide
  <2>6. Asked'
    <3>1. (\A i \in 1..Len(up) : Asks(i) =>
             up[i].n \in Known /\ up[i].port = get[up[i].n].port /\ send[up[i].n].at = "none")'
      BY <1>1, <1>2, <1>4, <1>6, <2>2
    <3>2. (\A i \in 1..Len(specialq) :
             /\ specialq[i][2] \in Known /\ specialq[i][1] = get[specialq[i][2]].port
             /\ send[specialq[i][2]].at = "none")'
      BY <1>1, <1>2, <1>4, <2>1, <2>2 DEF Asked
    <3>3. (/\ \A i, j \in 1..Len(up) : Asks(i) /\ Asks(j) /\ up[i].n = up[j].n => i = j
           /\ \A i, j \in 1..Len(specialq) : specialq[i][2] = specialq[j][2] => i = j
           /\ \A i \in 1..Len(up), j \in 1..Len(specialq) : Asks(i) => up[i].n # specialq[j][2])'
      BY <1>1, <1>6, <2>1 DEF Asked
    <3>. QED  BY <3>1, <3>2, <3>3 DEF Asked
  <2>7. Carried'
    BY <1>1, <1>2, <2>2 DEF Carried, Known, Places, Of, Chunk, Chunks, Reads
  <2>8. ASSUME NEW q \in Known
        PROVE  Sent(q)' /\ \A n \in Nat : Flow(q, n) => Flow(q, n)'
    <3>1. MovesOn(q) /\ SameStream(q)
      BY <1>1, <1>2, <2>2 DEF MovesOn, SameStream
    <3>. QED  BY <1>1, <1>2, <3>1, MovesOnKeeps
  <2>9. ASSUME NEW q \in Known PROVE Acked(q)'
    <3>1. Dead(q)' <=> Dead(q)
      BY <1>2 DEF Dead
    <3>2. ~Dead(q) => (\A i \in 1..Len(up) : Answers(i, q) => up[i].n <= get[q].sofar \/ Unserved(i, q))'
      BY <1>2, UpTailAcked
    <3>3. Sending(q)' <=> Sending(q)
      BY <1>1, <2>2 DEF Sending
    <3>4. ASSUME ~Dead(q), Sending(q), send[q].port = up[1].port
          PROVE  up[1].n <= get[q].sofar
      <4>1. send[q].at # "none" /\ send[q].port = get[q].port
        BY <1>1, <3>4 DEF Carried, Sending
      <4>2. Answers(1, q)
        BY <2>1, <3>4, <4>1 DEF Answers
      <4>3. ~Unserved(1, q)
        BY <1>1, <4>1 DEF Unserved, Asked
      <4>. QED  BY <1>1, <1>3, <3>4, <4>2, <4>3 DEF Acked
    <3>5. ASSUME ~Dead(q), Sending(q) PROVE send'[q].progress <= get[q].sofar
      BY <1>1, <2>2, <3>4, <3>5 DEF Acked
    <3>. QED  BY <1>1, <1>2, <2>2, <3>1, <3>2, <3>3, <3>5 DEF Acked
  <2>. QED  BY <1>1, <1>2, <1>3, <2>1, <2>5, <2>6, <2>7, <2>8, <2>9, HostSideKeeps
<1>. QED  BY <1>7, <1>8

(* The host's menu serves a request.                                       *)
LEMMA HostServesKeeps ==
  ASSUME FileInv, HostServes
  PROVE  FileInv'
<1>1. /\ Typed /\ Listed /\ Asked /\ Carried /\ \A q \in Known : Sent(q) /\ Acked(q)
      /\ Known \subseteq Requests /\ \A q \in Known : Chunks(q) \in Nat \ {0}
      /\ specialq \in Seq(Nat \X Requests) /\ down \in Seq(Packets)
      /\ up \in Seq(UpMessage) /\ send \in [Requests -> Senders]
  BY KnownFacts DEF FileInv, Typed
<1>2. /\ specialq # <<>> /\ specialq' = Tail(specialq)
      /\ UNCHANGED <<kind, get, getters, todo, previous, open, down, up, dirty, admin, lost>>
  BY DEF HostServes, client, clean
<1>3. /\ specialq' \in Seq(Nat \X Requests) /\ Head(specialq) = specialq[1]
      /\ 1 \in 1..Len(specialq)
      /\ \A i \in 1..Len(specialq') : /\ i + 1 \in 1..Len(specialq) /\ i \in Nat
                                      /\ specialq'[i] = specialq[i + 1] /\ i + 1 # 1
  <2>1. /\ specialq' \in Seq(Nat \X Requests) /\ Head(specialq) = specialq[1]
        /\ 1 \in 1..Len(specialq)
        /\ \A i \in 1..Len(specialq') : /\ i + 1 \in 1..Len(specialq)
                                        /\ specialq'[i] = specialq[i + 1]
    BY <1>1, <1>2, TailFacts
  <2>2. \A i \in 1..Len(specialq') : i \in Nat /\ i + 1 # 1
    BY <2>1, QueueFacts
  <2>. QED  BY <2>1, <2>2
<1>. PICK r \in Requests, port \in Nat : specialq[1] = <<port, r>>
  <2>1. specialq[1] \in Nat \X Requests
    BY <1>1, <1>3, QueueFacts
  <2>. QED  BY <2>1
<1>4. /\ send' = [q \in Requests |->
                    IF q = r THEN [Silent EXCEPT !.at = "start", !.port = port]
                    ELSE IF Sending(q) /\ send[q].port = port THEN Over(send[q]) ELSE send[q]]
  <2>1. Head(specialq)[1] = port /\ Head(specialq)[2] = r
    BY <1>3
  <2>. QED  BY <2>1 DEF HostServes
<1>5. r \in Known /\ port = get[r].port /\ send[r].at = "none"
  BY <1>1, <1>3 DEF Asked
<1>6. \A i \in 1..Len(specialq') : specialq'[i][2] # r
  <2>1. ASSUME NEW i \in 1..Len(specialq') PROVE specialq[i + 1][2] # r
    <3>1. i + 1 \in 1..Len(specialq) /\ i + 1 # 1 /\ specialq[1][2] = r
      BY <1>3
    <3>. QED  BY <1>1, <1>3, <3>1 DEF Asked
  <2>. QED  BY <1>3, <2>1
<1>7. \A i \in 1..Len(up) : Asks(i) => up[i].n # r
  BY <1>1, <1>3 DEF Asked
<1>8. Silent \in Senders /\ \A s \in Senders : Over(s) \in Senders
      /\ Over(s).port = s.port /\ Over(s).at = "dead" /\ Over(s).pos = 0
  BY DEF Over, Silent, Senders, NoPort
<1>9. /\ send'[r] \in Senders /\ send'[r].at = "start" /\ send'[r].port = port
      /\ send'[r].pos = 0 /\ send'[r].progress = 0
  <2>1. send'[r] = [Silent EXCEPT !.at = "start", !.port = port]
    BY <1>4
  <2>2. send'[r] = [at |-> "start", port |-> port, pos |-> 0, progress |-> 0]
    BY <2>1 DEF Silent
  <2>. QED  BY <2>2 DEF Senders
<1>10. ASSUME NEW q \in Requests, q # r
       PROVE  /\ send'[q] \in Senders /\ send'[q].port = send[q].port
              /\ \/ send'[q] = send[q]
                 \/ Sending(q) /\ send'[q].at = "dead" /\ send'[q].pos = 0
  <2>1. send[q] \in Senders
    BY <1>1
  <2>2. CASE Sending(q) /\ send[q].port = port
    <3>1. send'[q] = Over(send[q])
      BY <1>4, <1>10, <2>2
    <3>. QED  BY <1>8, <2>1, <2>2, <3>1
  <2>3. CASE ~(Sending(q) /\ send[q].port = port)
    <3>1. send'[q] = send[q]
      BY <1>4, <1>10, <2>3
    <3>. QED  BY <2>1, <3>1
  <2>. QED  BY <2>2, <2>3
<1>11. Known' = Known
  BY <1>2 DEF Known
<1>12. HostSide
  <2>1. send' \in [Requests -> Senders]
    BY <1>4, <1>9, <1>10
  <2>2. \A q \in Requests : Sending(q) => q \in Known
    BY SendingIsKnown
  <2>3. \A q \in Requests : q \notin Known => send'[q] = send[q]
    BY <1>5, <1>10, <2>2
  <2>. QED  BY <1>2, <2>1, <2>3 DEF HostSide
<1>13. \A q \in Known \ {r} : send[q].at = "none" => send'[q].at = "none"
  BY <1>1, <1>10 DEF Sending
<1>14. Asked'
  <2>1. (\A i \in 1..Len(up) : Asks(i) =>
           up[i].n \in Known /\ up[i].port = get[up[i].n].port /\ send[up[i].n].at = "none")'
    BY <1>1, <1>2, <1>7, <1>11, <1>13 DEF Asked, Asks
  <2>2. ASSUME NEW i \in 1..Len(specialq')
        PROVE  /\ specialq'[i][2] \in Known /\ specialq'[i][1] = get[specialq'[i][2]].port
               /\ send'[specialq'[i][2]].at = "none"
    <3>1. /\ i + 1 \in 1..Len(specialq) /\ specialq'[i] = specialq[i + 1]
          /\ specialq'[i][2] # r
      BY <1>3, <1>6
    <3>2. /\ specialq[i + 1][2] \in Known
          /\ specialq[i + 1][1] = get[specialq[i + 1][2]].port
          /\ send[specialq[i + 1][2]].at = "none"
      BY <1>1, <3>1 DEF Asked
    <3>. QED  BY <1>13, <3>1, <3>2
  <2>3. (\A i \in 1..Len(specialq) :
           /\ specialq[i][2] \in Known /\ specialq[i][1] = get[specialq[i][2]].port
           /\ send[specialq[i][2]].at = "none")'
    BY <1>2, <1>11, <2>2
  <2>4. (\A i, j \in 1..Len(up) : Asks(i) /\ Asks(j) /\ up[i].n = up[j].n => i = j)'
    BY <1>1, <1>2 DEF Asked, Asks
  <2>5. ASSUME NEW i \in 1..Len(specialq'), NEW j \in 1..Len(specialq'),
               specialq'[i][2] = specialq'[j][2]
        PROVE  i = j
    <3>1. /\ i + 1 \in 1..Len(specialq) /\ specialq'[i] = specialq[i + 1]
          /\ j + 1 \in 1..Len(specialq) /\ specialq'[j] = specialq[j + 1]
          /\ i \in Nat /\ j \in Nat
      BY <1>3
    <3>2. i + 1 = j + 1
      BY <1>1, <2>5, <3>1 DEF Asked
    <3>. QED  BY <3>1, <3>2
  <2>6. ASSUME NEW i \in 1..Len(up), NEW j \in 1..Len(specialq'), Asks(i)
        PROVE  up[i].n # specialq'[j][2]
    <3>1. j + 1 \in 1..Len(specialq) /\ specialq'[j] = specialq[j + 1]
      BY <1>3
    <3>. QED  BY <1>1, <2>6, <3>1 DEF Asked
  <2>7. (\A i \in 1..Len(up), j \in 1..Len(specialq) : Asks(i) => up[i].n # specialq[j][2])'
    BY <1>2, <2>6 DEF Asks
  <2>. QED  BY <2>1, <2>3, <2>4, <2>5, <2>7 DEF Asked
<1>15. Carried'
  <2>1. ASSUME NEW q \in Known, send'[q].at # "none" PROVE send'[q].port = get[q].port
    <3>1. CASE q = r
      BY <1>5, <1>9, <3>1
    <3>2. CASE q # r
      <4>1. q \in Requests
        BY <1>1
      <4>2. send'[q].port = send[q].port /\ send[q].at # "none"
        BY <1>10, <2>1, <3>2, <4>1 DEF Sending
      <4>. QED  BY <1>1, <4>2 DEF Carried
    <3>. QED  BY <3>1, <3>2
  <2>. QED  BY <1>1, <1>2, <2>1 DEF Carried, Known, Places, Of, Chunk, Chunks, Reads
<1>16. ASSUME NEW q \in Known
       PROVE  Sent(q)' /\ \A n \in Nat : Flow(q, n) => Flow(q, n)'
  <2>1. CASE q = r
    <3>1. /\ send[r].pos = 0 /\ \A i \in Places : Of(i) # r
          /\ \A k \in Nat : ~Has(get[r], r, k)
      BY <1>1, <1>5 DEF Sent
    <3>2. /\ \A i \in Places' : Of(i)' # r
          /\ \A k \in Nat : ~Has(get[r], r, k)'
      BY <1>2, <3>1 DEF Places, Of, Has
    <3>3. Reads(r)' \in Nat \ {0}
      <4>1. Reads(r)' = Reads(r)
        BY <1>2 DEF Reads
      <4>. QED  BY <1>1, <1>5, <4>1, KnownFacts
    <3>4. Sent(r)'
      BY <1>9, <3>2, <3>3 DEF Sent
    <3>5. ASSUME NEW n \in Nat, Flow(r, n) PROVE Flow(r, n)'
      BY <1>5, <1>9, <3>2, <3>5 DEF Flow
    <3>. QED  BY <2>1, <3>4, <3>5
  <2>2. CASE q # r
    <3>1. q \in Requests
      BY <1>1
    <3>2. MovesOn(q) /\ SameStream(q)
      BY <1>2, <1>10, <2>2, <3>1 DEF MovesOn, SameStream
    <3>. QED  BY <1>1, <1>2, <3>2, MovesOnKeeps
  <2>. QED  BY <2>1, <2>2
<1>17. ASSUME NEW q \in Known PROVE Acked(q)'
  <2>1. /\ Dead(q)' <=> Dead(q)
        /\ ~Dead(q) => (\A i \in 1..Len(up) : Answers(i, q) =>
                          up[i].n <= get[q].sofar \/ Unserved(i, q))'
    <3>1. \A i : (Answers(i, q)' <=> Answers(i, q)) /\ (Unserved(i, q)' <=> Unserved(i, q))
      BY <1>2 DEF Answers, Unserved, Asks
    <3>2. ~Dead(q) => \A i \in 1..Len(up) : Answers(i, q) =>
                        up[i].n <= get[q].sofar \/ Unserved(i, q)
      BY <1>1 DEF Acked
    <3>. QED  BY <1>2, <3>1, <3>2 DEF Dead
  <2>2. get[q].sofar \in Nat
    BY <1>1, KnownFacts DEF Getters
  <2>3. CASE q = r
    BY <1>2, <1>9, <2>1, <2>2, <2>3 DEF Acked, Sending
  <2>4. CASE q # r /\ send'[q] = send[q]
    BY <1>1, <1>2, <2>1, <2>4 DEF Acked, Sending
  <2>5. CASE q # r /\ send'[q].at = "dead"
    BY <2>1, <2>5 DEF Acked, Sending
  <2>. QED  BY <1>1, <1>10, <2>3, <2>4, <2>5
<1>. QED  BY <1>1, <1>2, <1>3, <1>12, <1>14, <1>15, <1>16, <1>17, HostSideKeeps

-----------------------------------------------------------------------------
(* The AdminThread.                                                        *)

LEMMA CleanKeeps ==
  ASSUME FileInv, Clean
  PROVE  FileInv'
<1>1. /\ Typed /\ Room
      /\ UNCHANGED <<kind, get, todo, previous, open, send, specialq, down, up, dirty>>
      /\ getters' = {r \in getters : ~Dead(r)} /\ lost' = {} /\ admin' = "reset"
  BY DEF FileInv, Clean, host
<1>2. RestTyped' /\ Room' /\ todo' \in Seq(Tasks)
  BY <1>1 DEF RestTyped, Typed, Room
<1>. QED  BY <1>1, <1>2, NothingMoves

LEMMA ResetDirtyKeeps ==
  ASSUME FileInv, ResetDirty
  PROVE  FileInv'
<1>1. Typed /\ Room /\ UNCHANGED <<kind, get, getters, todo, previous, open, host, down, up>>
  BY DEF FileInv, ResetDirty, client
<1>2. RestTyped' /\ Room' /\ todo' \in Seq(Tasks)
  BY <1>1 DEF ResetDirty, RestTyped, Typed, Room, Known
<1>. QED  BY <1>1, <1>2, NothingMoves DEF host

-----------------------------------------------------------------------------
(* The invariant is inductive.                                             *)

LEMMA InitHolds == Init => FileInv
<1>. SUFFICES ASSUME Init PROVE FileInv
  OBVIOUS
<1>1. /\ Len(kind) = 0 /\ Len(down) = 0 /\ Len(up) = 0 /\ Len(specialq) = 0 /\ Len(todo) = 0
      /\ Known = {}
  BY DEF Init, Known
<1>2. Idle \in Getters /\ Silent \in Senders
  BY DEF Idle, Silent, NoPort, Getters, Senders
<1>3. Typed
  <2>1. /\ kind \in Seq(Kinds) /\ Len(kind) <= MaxRequests /\ down \in Seq(Packets)
        /\ up \in Seq(UpMessage) /\ specialq \in Seq(Nat \X Requests) /\ todo \in Seq(Tasks)
    BY <1>1, FileAssumption, EmptySeq DEF Init
  <2>2. get \in [Requests -> Getters] /\ send \in [Requests -> Senders]
    BY <1>2 DEF Init
  <2>3. previous \in [Kinds -> Nat]
    BY DEF Init, NoPort
  <2>. QED  BY <2>1, <2>2, <2>3 DEF Init, Typed
<1>4. Room /\ Asked /\ Carried
  BY <1>1 DEF Room, Asked, Carried, Places
<1>5. Listed
  BY <1>1 DEF Init, Listed, Idle
<1>. QED  BY <1>1, <1>3, <1>4, <1>5 DEF FileInv

(* Every step of the client, the host, a thread of either or the menus     *)
(* leaves the streams, the lists and the transfers as FileInv says.        *)
THEOREM FileInductive == FileInv /\ [Next]_vars => FileInv'
<1>. SUFFICES ASSUME FileInv, [Next]_vars PROVE FileInv'
  OBVIOUS
<1>1. CASE User
  BY <1>1, SetMapKeeps, SetScriptKeeps, LeaveKeeps DEF User
<1>2. CASE ClientMenu
  BY <1>2, StopOneKeeps, GetOneKeeps DEF ClientMenu
<1>3. CASE ClientReceives
  BY <1>3, ClientReceivesKeeps
<1>4. CASE HostReceives
  BY <1>4, HostReceivesKeeps
<1>5. CASE HostServes
  BY <1>5, HostServesKeeps
<1>6. ASSUME NEW r \in Requests, Getter(r) PROVE FileInv'
  BY <1>6, GetterStartsKeeps, GetterReadsLengthKeeps, GetterReadsDataKeeps,
     GetterTimesOutKeeps, LengthComesLateKeeps DEF Getter
<1>7. ASSUME NEW r \in Requests, Sender(r) PROVE FileInv'
  BY <1>7, SenderStartsKeeps, SenderSendsKeeps, SenderGoesOnKeeps, SenderEndsKeeps DEF Sender
<1>8. CASE Admin
  BY <1>8, CleanKeeps, ResetDirtyKeeps DEF Admin
<1>9. CASE UNCHANGED vars
  <2>1. /\ UNCHANGED <<kind, get, getters, send, down, up, specialq>>
        /\ UNCHANGED <<todo, previous, open, dirty, admin, lost>>
    BY <1>9 DEF vars, client, host, clean
  <2>2. Typed /\ Room
    BY DEF FileInv
  <2>3. RestTyped' /\ Room' /\ todo' \in Seq(Tasks)
    BY <2>1, <2>2 DEF RestTyped, Typed, Room, Known
  <2>. QED  BY <2>1, <2>3, NothingMoves
<1>. QED  BY <1>1, <1>2, <1>3, <1>4, <1>5, <1>6, <1>7, <1>8, <1>9 DEF Next

LEMMA FilesHold == Spec => []FileInv
<1>1. Init => FileInv
  BY InitHolds
<1>2. FileInv /\ [Next]_vars => FileInv'
  BY FileInductive
<1>. QED  BY <1>1, <1>2, PTL DEF Spec

(* The types of the getters, the senders, the lists and the flags.         *)
THEOREM FileTypeCorrect == Spec => []TypeOK
<1>1. FileInv => TypeOK
  BY TypesFollow
<1>. QED  BY <1>1, FilesHold, PTL

(* A file put in place of its .part is the file the getter asked for,      *)
(* whole and in order, whatever was stopped, timed out or failed meanwhile *)
(* and whichever transfers had its port before, if those got all they      *)
(* asked for and its length did not come late.                             *)
THEOREM WholeFiles == Spec => []FilesAreWhole
<1>1. FileInv => FilesAreWhole
  BY WholeFollows
<1>. QED  BY <1>1, FilesHold, PTL

(* A sender never runs further ahead of its own getter than the window and *)
(* the chunk it has just sent.                                             *)
THEOREM WindowNeverPassed == Spec => []WindowKept
<1>1. FileInv => WindowKept
  BY WindowFollows
<1>. QED  BY <1>1, FilesHold, PTL
=============================================================================
