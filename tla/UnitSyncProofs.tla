--------------------------- MODULE UnitSyncProofs ---------------------------
(***************************************************************************)
(* Proofs about the unit arrays of a network game, for any number of       *)
(* machines, slots and units.                                              *)
(*                                                                         *)
(* SyncInv has two halves.  The first holds in every game: Typed, Free (a  *)
(* free slot is free once and empty), Held (a unit a thread is busy with   *)
(* is there), Apart (the threads of a machine are busy with units of       *)
(* different players until raced), Fresh and Unsaid (a unit is announced   *)
(* once) and Speakers and Callers (who says and does what about whom).     *)
(* The second is about the players whose units one machine creates:        *)
(* Mirrored says that what a machine has of such a player, and the events  *)
(* still on their way to it, lead to what the player has announced; Doomed *)
(* that a unit which is gone somewhere will be gone everywhere.            *)
(***************************************************************************)
EXTENDS UnitSync, FiniteSetTheorems, SequenceTheorems, TLAPS

Event == [type : {"EVENT_UNIT_CREATION", "EVENT_UNIT_DEATH"}, player : Machines,
          slot : Places, unit : 1 .. MaxUnits]
Creates(e) == e.type = "EVENT_UNIT_CREATION"
Calls == [step : {"idle", "created", "found", "dying"}, player : Machines, slot : Places]
Busy(m, t) == doing[m][t].step # "idle"

Typed ==
  /\ game \in Games
  /\ stack \in [Machines -> [Machines -> Seq(Places)]]
  /\ tab \in [Machines -> [Machines -> [Places -> 0 .. MaxUnits]]]
  /\ chan \in [Machines -> [Machines -> Seq(Event)]]
  /\ doing \in [Machines -> [Threads -> Calls]]
  /\ seized \in [Machines -> SUBSET (Machines \X Places)]
  /\ born \in 1 .. MaxUnits
  /\ raced \in BOOLEAN

(* A free slot is on the stack once and holds nothing.                     *)
Free ==
  \A m, p \in Machines :
    /\ \A i, j \in 1 .. Len(stack[m][p]) : stack[m][p][i] = stack[m][p][j] => i = j
    /\ \A i \in 1 .. Len(stack[m][p]) : tab[m][p][stack[m][p][i]] = 0

(* A unit that is being announced or killed is there.                      *)
Unit(m, t) == tab[m][doing[m][t].player][doing[m][t].slot]
Held == \A m \in Machines, t \in Threads : Busy(m, t) => Unit(m, t) # 0

Apart ==
  ~ raced => \A m \in Machines, t, x \in Threads :
    t # x /\ Busy(m, t) /\ Busy(m, x) => doing[m][t].player # doing[m][x].player

(* A unit that was announced is new to who has still to hear of it ...     *)
Fresh ==
  /\ \A m, p \in Machines : \A j, k \in Places :
       /\ tab[m][p][k] <= born
       /\ tab[m][p][j] = tab[m][p][k] /\ tab[m][p][j] # 0 => j = k
  /\ \A m, n \in Machines : \A i \in 1 .. Len(chan[m][n]) :
       Creates(chan[m][n][i]) =>
         /\ chan[m][n][i].unit <= born
         /\ \A k \in Places : tab[n][chan[m][n][i].player][k] # chan[m][n][i].unit
  /\ \A m, x, n \in Machines : \A i \in 1 .. Len(chan[m][n]), j \in 1 .. Len(chan[x][n]) :
       Creates(chan[m][n][i]) /\ Creates(chan[x][n][j]) /\ chan[m][n][i].unit = chan[x][n][j].unit
         => m = x /\ i = j

(* ... and one that is still to be announced is new to everybody else.     *)
Pending(m) == At(m, "engine", "created")
Unsaid ==
  \A m \in Machines : Pending(m) =>
    /\ \A n \in Machines, k \in Places :
         n # m => tab[n][doing[m]["engine"].player][k] # Unit(m, "engine")
    /\ \A x, n \in Machines : \A i \in 1 .. Len(chan[x][n]) :
         Creates(chan[x][n][i]) => chan[x][n][i].unit # Unit(m, "engine")
    /\ \A x \in Machines : Pending(x) /\ x # m => Unit(x, "engine") # Unit(m, "engine")

(* Who says what: a machine about the units of its player, the script      *)
(* about those it creates, and a captor about those it takes.              *)
Speakers ==
  /\ \A m \in Machines : chan[m][m] = <<>>
  /\ \A m, n \in Machines : \A i \in 1 .. Len(chan[m][n]) :
       IF Creates(chan[m][n][i])
       THEN \/ chan[m][n][i].player = m /\ m \in game.builders \cup game.captors
            \/ m = Server /\ chan[m][n][i].player \in game.scripted
       ELSE chan[m][n][i].player = m \/ m \in game.captors

(* Who does what: the engine creates units of its player, and whoever does *)
(* not kill because of an event kills his own or what he captured.         *)
Fits(m, t, c) ==
  /\ c.step = "created" =>
       t = "engine" /\ c.player = m /\ m \in game.builders \cup game.captors
  /\ c.step = "found" => c.player = m \/ m \in game.captors
  /\ c.step = "dying" => t = "net" \/ c.player = m \/ m \in game.captors
Callers ==
  /\ \A m, p \in Machines, k \in Places :
       <<p, k>> \in seized[m] => p # m /\ m \in game.captors
  /\ \A m \in Machines, t \in Threads : Fits(m, t, doing[m][t])

(* Nobody else captures p's units, and the script creates none for p, or   *)
(* p is the server; or p's units are never created.                        *)
OwnsAlone(p) ==
  /\ game.captors \subseteq {p}
  /\ p \in game.scripted => p = Server
BuildsNothing(p) == p \notin game.builders \cup game.captors \cup game.scripted

(* What m has of p, and what it has of p by what was announced: a unit     *)
(* that was not announced is not there yet, one that was is gone.          *)
Copies == [stack : Seq(Places), tab : [Places -> 0 .. MaxUnits]]
Copy(m, p) == [stack |-> stack[m][p], tab |-> tab[m][p]]
Freed(s, k) == [stack |-> Append(s.stack, k), tab |-> [s.tab EXCEPT ![k] = 0]]
Filled(s, u) == [stack |-> Front(s.stack), tab |-> [s.tab EXCEPT ![Last(s.stack)] = u]]
Half(c, p, k) == c.step \in {"created", "dying"} /\ c.player = p /\ c.slot = k
Halves(m, p) == {k \in Places : \E t \in Threads : Half(doing[m][t], p, k)}
Settles(K, c) == IF K = {} THEN c ELSE Freed(c, CHOOSE k \in K : TRUE)
Settled(m, p) == Settles(Halves(m, p), Copy(m, p))

(* Event e leads from what one has of p to what one then has.              *)
Leads(p, s, e, t) ==
  IF e.player # p THEN t = s
  ELSE IF Creates(e)
  THEN s.stack # <<>> /\ Last(s.stack) = e.slot /\ t = Filled(s, e.unit)
  ELSE s.tab[e.slot] = e.unit /\ t = Freed(s, e.slot)
Follows(p, q, s, t) ==
  \E way \in [1 .. Len(q) + 1 -> Copies] :
    /\ way[1] = s /\ way[Len(q) + 1] = t
    /\ \A i \in 1 .. Len(q) : Leads(p, way[i], q[i], way[i + 1])
Mirrored ==
  ~ raced => \A p, n \in Machines : OwnsAlone(p) /\ n # p =>
    Follows(p, chan[p][n], Settled(n, p), Settled(p, p))

(* The unit of p in slot k is gone on n, or will be.                       *)
Names(e, p, k) == ~ Creates(e) /\ e.player = p /\ e.slot = k
Announced(n, p, k) ==
  \E m \in Machines : \E i \in 1 .. Len(chan[m][n]) : Names(chan[m][n][i], p, k)
Dies(c, p, k) == c.step = "dying" /\ c.player = p /\ c.slot = k
Dying(n, p, k) == \E t \in Threads : Dies(doing[n][t], p, k)
OnItsWay(n, p, k) == tab[n][p][k] = 0 \/ Dying(n, p, k) \/ Announced(n, p, k)
First(k) == IF k = MaxUnitPerPlayer - 1 THEN 1 ELSE 0
Doomed ==
  \A p \in Machines : BuildsNothing(p) => \A k \in Places :
    /\ \A n \in Machines : tab[n][p][k] \in {0, First(k)}
    /\ \A m, n \in Machines : OnItsWay(m, p, k) => OnItsWay(n, p, k)

SyncInv ==
  /\ Typed /\ Free /\ Held /\ Apart /\ Fresh /\ Unsaid
  /\ Speakers /\ Callers /\ Mirrored /\ Doomed

-----------------------------------------------------------------------------
(* Stacks and queues: what they are without an end, or with one more.      *)
LEMMA QueueFacts ==
  ASSUME NEW S, NEW q \in Seq(S)
  PROVE  /\ Len(q) \in Nat /\ DOMAIN q = 1 .. Len(q)
         /\ \A k \in 1 .. Len(q) : q[k] \in S
         /\ q = <<>> <=> Len(q) = 0
BY LenProperties, ElementOfSeq

LEMMA FrontFacts ==
  ASSUME NEW S, NEW q \in Seq(S), q # <<>>
  PROVE  /\ Len(q) \in Nat \ {0}
         /\ Last(q) = q[Len(q)] /\ Last(q) \in S
         /\ Front(q) \in Seq(S) /\ Len(Front(q)) = Len(q) - 1
         /\ \A i \in 1 .. Len(q) - 1 : Front(q)[i] = q[i]
<1>1. Len(q) \in Nat \ {0} /\ \A k \in 1 .. Len(q) : q[k] \in S
  BY QueueFacts
<1>2. /\ SubSeq(q, 1, Len(q) - 1) \in Seq(S)
      /\ Len(SubSeq(q, 1, Len(q) - 1))
           = IF 1 <= Len(q) - 1 THEN Len(q) - 1 - 1 + 1 ELSE 0
      /\ \A i \in 1 .. Len(q) - 1 - 1 + 1 : SubSeq(q, 1, Len(q) - 1)[i] = q[1 + i - 1]
  <2>1. Len(q) - 1 \in Int /\ \A i \in 1 .. Len(q) - 1 : q[i] \in S
    BY <1>1
  <2>. QED  BY <2>1, SubSeqProperties
<1>3. \A i \in 1 .. Len(q) - 1 : i \in 1 .. Len(q) - 1 - 1 + 1 /\ 1 + i - 1 = i
  BY <1>1
<1>4. Front(q) = SubSeq(q, 1, Len(q) - 1) /\ Last(q) = q[Len(q)]
  BY DEF Front, Last
<1>5. Len(Front(q)) = Len(q) - 1
  <2>1. \A l \in Nat \ {0} : (IF 1 <= l - 1 THEN l - 1 - 1 + 1 ELSE 0) = l - 1
    OBVIOUS
  <2>. QED  BY <1>1, <1>2, <1>4, <2>1
<1>6. \A i \in 1 .. Len(q) - 1 : Front(q)[i] = q[i]
  BY <1>2, <1>3, <1>4
<1>7. Len(q) \in 1 .. Len(q)
  BY <1>1
<1>. QED  BY <1>1, <1>2, <1>4, <1>5, <1>6, <1>7

LEMMA TailFacts ==
  ASSUME NEW S, NEW q \in Seq(S), q # <<>>
  PROVE  /\ Len(q) \in Nat \ {0} /\ Head(q) = q[1] /\ Head(q) \in S
         /\ Tail(q) \in Seq(S) /\ Len(Tail(q)) = Len(q) - 1
         /\ \A i \in 1 .. Len(Tail(q)) : i + 1 \in 1 .. Len(q) /\ Tail(q)[i] = q[i + 1]
<1>1. Len(q) \in Nat \ {0} /\ q[1] \in S
  BY QueueFacts
<1>2. /\ Head(q) \in S /\ Tail(q) \in Seq(S) /\ Len(Tail(q)) = Len(q) - 1
      /\ \A i \in 1 .. Len(Tail(q)) : Tail(q)[i] = q[i + 1]
  BY HeadTailProperties
<1>3. Head(q) = q[1]
  OBVIOUS
<1>4. \A i \in 1 .. Len(Tail(q)) : i + 1 \in 1 .. Len(q)
  BY <1>1, <1>2
<1>. QED  BY <1>1, <1>2, <1>3, <1>4

LEMMA AppendFacts ==
  ASSUME NEW S, NEW q \in Seq(S), NEW e \in S
  PROVE  /\ Append(q, e) \in Seq(S) /\ Len(Append(q, e)) = Len(q) + 1
         /\ \A i \in 1 .. Len(q) + 1 :
              /\ i \in 1 .. Len(q) \/ i = Len(q) + 1
              /\ Append(q, e)[i] = IF i \in 1 .. Len(q) THEN q[i] ELSE e
<1>1. Len(q) \in Nat
  BY QueueFacts
<1>2. /\ Append(q, e) \in Seq(S) /\ Len(Append(q, e)) = Len(q) + 1
      /\ \A i \in 1 .. Len(q) : Append(q, e)[i] = q[i]
      /\ Append(q, e)[Len(q) + 1] = e
  BY AppendProperties
<1>3. \A i \in 1 .. Len(q) + 1 : i \in 1 .. Len(q) \/ i = Len(q) + 1
  BY <1>1
<1>4. Len(q) + 1 \notin 1 .. Len(q)
  BY <1>1
<1>. QED  BY <1>2, <1>3, <1>4

-----------------------------------------------------------------------------
(* What the actions are made of: a slot is taken or given back, an event   *)
(* is sent or handled.                                                     *)
TakenOnly(m, p, u) ==
  LET s == stack[m][p]
  IN  /\ s # <<>>
      /\ stack' \in [Machines -> [Machines -> Seq(Places)]]
      /\ tab' \in [Machines -> [Machines -> [Places -> 0 .. MaxUnits]]]
      /\ \A x, q \in Machines :
           stack'[x][q] = IF x = m /\ q = p THEN Front(s) ELSE stack[x][q]
      /\ \A x, q \in Machines, k \in Places :
           tab'[x][q][k] = IF x = m /\ q = p /\ k = Last(s) THEN u ELSE tab[x][q][k]
      /\ \A x, q \in Machines : x # m \/ q # p => tab'[x][q] = tab[x][q]
      /\ tab'[m][p] = [tab[m][p] EXCEPT ![Last(s)] = u]

LEMMA TakeFacts ==
  ASSUME Typed, NEW m \in Machines, NEW p \in Machines, NEW u \in 1 .. MaxUnits,
         Take(m, p, u)
  PROVE  TakenOnly(m, p, u)
<1>1. /\ stack \in [Machines -> [Machines -> Seq(Places)]]
      /\ tab \in [Machines -> [Machines -> [Places -> 0 .. MaxUnits]]]
  BY DEF Typed
<1>2. stack[m][p] \in Seq(Places) /\ stack[m][p] # <<>>
  BY <1>1 DEF Take
<1>3. Last(stack[m][p]) \in Places /\ Front(stack[m][p]) \in Seq(Places)
  BY <1>2, FrontFacts
<1>4. u \in 0 .. MaxUnits
  BY SyncAssumption
<1>5. /\ stack' = [stack EXCEPT ![m][p] = Front(stack[m][p])]
      /\ tab' = [tab EXCEPT ![m][p][Last(stack[m][p])] = u]
  BY DEF Take
<1> HIDE DEF Places
<1>6. stack' \in [Machines -> [Machines -> Seq(Places)]]
  BY <1>1, <1>3, <1>5
<1>7. tab' \in [Machines -> [Machines -> [Places -> 0 .. MaxUnits]]]
  BY <1>1, <1>3, <1>4, <1>5
<1>8. \A x, q \in Machines :
        stack'[x][q] = IF x = m /\ q = p THEN Front(stack[m][p]) ELSE stack[x][q]
  BY <1>1, <1>5
<1>9. \A x, q \in Machines, k \in Places :
        tab'[x][q][k] = IF x = m /\ q = p /\ k = Last(stack[m][p]) THEN u ELSE tab[x][q][k]
  BY <1>1, <1>5
<1>10. \A x, q \in Machines : x # m \/ q # p => tab'[x][q] = tab[x][q]
  BY <1>1, <1>5
<1>11. tab'[m][p] = [tab[m][p] EXCEPT ![Last(stack[m][p])] = u]
  BY <1>1, <1>5
<1>. QED  BY <1>2, <1>6, <1>7, <1>8, <1>9, <1>10, <1>11 DEF TakenOnly

FreedOnly(m, p, k) ==
  /\ stack' \in [Machines -> [Machines -> Seq(Places)]]
  /\ tab' \in [Machines -> [Machines -> [Places -> 0 .. MaxUnits]]]
  /\ \A x, q \in Machines :
       stack'[x][q] = IF x = m /\ q = p THEN Append(stack[m][p], k) ELSE stack[x][q]
  /\ \A x, q \in Machines, j \in Places :
       tab'[x][q][j] = IF x = m /\ q = p /\ j = k THEN 0 ELSE tab[x][q][j]
  /\ \A x, q \in Machines : x # m \/ q # p => tab'[x][q] = tab[x][q]
  /\ tab'[m][p] = [tab[m][p] EXCEPT ![k] = 0]

LEMMA ReleaseFacts ==
  ASSUME Typed, NEW m \in Machines, NEW p \in Machines, NEW k \in Places,
         Release(m, p, k)
  PROVE  FreedOnly(m, p, k)
<1>1. /\ stack \in [Machines -> [Machines -> Seq(Places)]]
      /\ tab \in [Machines -> [Machines -> [Places -> 0 .. MaxUnits]]]
  BY DEF Typed
<1>2. stack[m][p] \in Seq(Places)
  BY <1>1
<1>3. Append(stack[m][p], k) \in Seq(Places)
  BY <1>2, AppendFacts
<1>4. 0 \in 0 .. MaxUnits
  BY SyncAssumption
<1>5. /\ stack' = [stack EXCEPT ![m][p] = Append(stack[m][p], k)]
      /\ tab' = [tab EXCEPT ![m][p][k] = 0]
  BY DEF Release
<1>6. stack' \in [Machines -> [Machines -> Seq(Places)]]
  BY <1>1, <1>3, <1>5
<1>7. tab' \in [Machines -> [Machines -> [Places -> 0 .. MaxUnits]]]
  BY <1>1, <1>4, <1>5
<1>8. \A x, q \in Machines :
        stack'[x][q] = IF x = m /\ q = p THEN Append(stack[m][p], k) ELSE stack[x][q]
  BY <1>1, <1>5
<1>9. \A x, q \in Machines, j \in Places :
        tab'[x][q][j] = IF x = m /\ q = p /\ j = k THEN 0 ELSE tab[x][q][j]
  BY <1>1, <1>5
<1>10. \A x, q \in Machines : x # m \/ q # p => tab'[x][q] = tab[x][q]
  BY <1>1, <1>5
<1>11. tab'[m][p] = [tab[m][p] EXCEPT ![k] = 0]
  BY <1>1, <1>5
<1>. QED  BY <1>6, <1>7, <1>8, <1>9, <1>10, <1>11 DEF FreedOnly

SaidOnly(m, e) ==
  /\ chan' \in [Machines -> [Machines -> Seq(Event)]]
  /\ \A x, n \in Machines :
       chan'[x][n] = IF x = m /\ n # m THEN Append(chan[m][n], e) ELSE chan[x][n]

LEMMA SendFacts ==
  ASSUME Typed, NEW m \in Machines, NEW e \in Event, Send(m, e)
  PROVE  SaidOnly(m, e)
<1>1. chan \in [Machines -> [Machines -> Seq(Event)]]
  BY DEF Typed
<1>2. chan' = [chan EXCEPT ![m] =
                 [n \in Machines |-> IF n = m THEN chan[m][n] ELSE Append(chan[m][n], e)]]
  BY DEF Send
<1>3. \A x, n \in Machines :
        chan'[x][n] = IF x = m /\ n # m THEN Append(chan[m][n], e) ELSE chan[x][n]
  BY <1>1, <1>2
<1>4. \A n \in Machines : Append(chan[m][n], e) \in Seq(Event)
  <2>1. \A n \in Machines : chan[m][n] \in Seq(Event)
    BY <1>1
  <2>. QED  BY <2>1, AppendFacts
<1>5. chan' \in [Machines -> [Machines -> Seq(Event)]]
  BY <1>1, <1>2, <1>4
<1>. QED  BY <1>3, <1>5 DEF SaidOnly

HeardOnly(m, n) ==
  /\ chan[m][n] # <<>>
  /\ chan' \in [Machines -> [Machines -> Seq(Event)]]
  /\ \A x, y \in Machines :
       chan'[x][y] = IF x = m /\ y = n THEN Tail(chan[m][n]) ELSE chan[x][y]

LEMMA HearFacts ==
  ASSUME Typed, NEW m \in Machines, NEW n \in Machines,
         chan[m][n] # <<>>, chan' = [chan EXCEPT ![m][n] = Tail(@)]
  PROVE  HeardOnly(m, n)
<1>1. chan \in [Machines -> [Machines -> Seq(Event)]] /\ chan[m][n] # <<>>
  BY DEF Typed
<1>2. chan' = [chan EXCEPT ![m][n] = Tail(chan[m][n])]
  OBVIOUS
<1>3. Tail(chan[m][n]) \in Seq(Event)
  <2>1. chan[m][n] \in Seq(Event)
    BY <1>1
  <2>. QED  BY <1>1, <2>1, TailFacts
<1>4. \A x, y \in Machines :
        chan'[x][y] = IF x = m /\ y = n THEN Tail(chan[m][n]) ELSE chan[x][y]
  BY <1>1, <1>2
<1>5. chan' \in [Machines -> [Machines -> Seq(Event)]]
  BY <1>1, <1>2, <1>3
<1>. QED  BY <1>1, <1>4, <1>5 DEF HeardOnly

CallOnly(m, t, c) ==
  /\ doing' \in [Machines -> [Threads -> Calls]]
  /\ \A x \in Machines, y \in Threads :
       doing'[x][y] = IF x = m /\ y = t THEN c ELSE doing[x][y]

LEMMA CallFacts ==
  ASSUME Typed, NEW m \in Machines, NEW t \in Threads, NEW c \in Calls,
         doing' = [doing EXCEPT ![m][t] = c]
  PROVE  CallOnly(m, t, c)
<1>1. doing \in [Machines -> [Threads -> Calls]]
  BY DEF Typed
<1> HIDE DEF Calls, Threads
<1>. QED  BY <1>1 DEF CallOnly

LEMMA CallTyped ==
  ASSUME NEW s \in {"idle", "created", "found", "dying"}, NEW p \in Machines, NEW k \in Places
  PROVE  /\ Call(s, p, k) \in Calls
         /\ Call(s, p, k).step = s /\ Call(s, p, k).player = p /\ Call(s, p, k).slot = k
<1> HIDE DEF Places
<1>. QED  BY DEF Call, Calls

LEMMA IdleTyped == Idle \in Calls /\ Idle.step = "idle"
<1>1. Server \in Machines /\ 0 \in Places /\ "idle" \in {"idle", "created", "found", "dying"}
  BY SyncAssumption DEF Places
<1> HIDE DEF Places
<1>. QED  BY <1>1, CallTyped DEF Idle

LEMMA DoingTyped ==
  ASSUME Typed, NEW m \in Machines, NEW t \in Threads
  PROVE  /\ doing[m][t] \in Calls
         /\ doing[m][t].step \in {"idle", "created", "found", "dying"}
         /\ doing[m][t].player \in Machines /\ doing[m][t].slot \in Places
<1>1. doing[m][t] \in Calls
  BY DEF Typed
<1> HIDE DEF Places
<1>. QED  BY <1>1 DEF Calls

-----------------------------------------------------------------------------
(* The way from what a machine has of p to what p has: an event more at    *)
(* its end, one less at its beginning, none at all.                        *)
LEMMA FollowsExtended ==
  ASSUME NEW p \in Machines, NEW q \in Seq(Event), NEW e \in Event,
         NEW s, NEW t, NEW w \in Copies,
         Follows(p, q, s, t), Leads(p, t, e, w)
  PROVE  Follows(p, Append(q, e), s, w)
<1> DEFINE n == Len(q)
<1>1. n \in Nat
  BY QueueFacts
<1>2. PICK way \in [1 .. n + 1 -> Copies] :
        /\ way[1] = s /\ way[n + 1] = t
        /\ \A i \in 1 .. n : Leads(p, way[i], q[i], way[i + 1])
  BY DEF Follows
<1> DEFINE longer == [i \in 1 .. n + 1 + 1 |-> IF i \in 1 .. n + 1 THEN way[i] ELSE w]
<1>3. Len(Append(q, e)) = n + 1
  BY AppendFacts
<1>4. \A i \in 1 .. n + 1 :
        /\ i \in 1 .. n \/ i = n + 1
        /\ Append(q, e)[i] = IF i \in 1 .. n THEN q[i] ELSE e
  BY AppendFacts
<1> HIDE DEF n
<1>5. longer \in [1 .. n + 1 + 1 -> Copies]
  OBVIOUS
<1>6. \A i \in 1 .. n + 1 : longer[i] = way[i]
  BY <1>1
<1>7. longer[n + 1 + 1] = w
  BY <1>1
<1>8. longer[1] = s
  BY <1>1, <1>2, <1>6
<1> HIDE DEF longer
<1>9. ASSUME NEW i \in 1 .. n + 1
      PROVE  Leads(p, longer[i], Append(q, e)[i], longer[i + 1])
  <2>1. CASE i \in 1 .. n
    <3>1. i + 1 \in 1 .. n + 1
      BY <1>1, <2>1
    <3>2. longer[i] = way[i] /\ longer[i + 1] = way[i + 1] /\ Append(q, e)[i] = q[i]
      BY <1>4, <1>6, <2>1, <3>1
    <3>. QED  BY <1>2, <2>1, <3>2
  <2>2. CASE i = n + 1
    <3>1. i \notin 1 .. n
      BY <1>1, <2>2
    <3>2. Append(q, e)[i] = e
      BY <1>4, <3>1
    <3>3. longer[i] = t /\ longer[i + 1] = w
      BY <1>2, <1>6, <1>7, <2>2
    <3>. QED  BY <3>2, <3>3
  <2>. QED  BY <1>4, <2>1, <2>2
<1>. QED  BY <1>3, <1>5, <1>7, <1>8, <1>9 DEF Follows

LEMMA FollowsTail ==
  ASSUME NEW p \in Machines, NEW q \in Seq(Event), q # <<>>, NEW s, NEW t,
         Follows(p, q, s, t)
  PROVE  \E w \in Copies : Leads(p, s, Head(q), w) /\ Follows(p, Tail(q), w, t)
<1> DEFINE n == Len(q)
<1>1. n \in Nat \ {0} /\ Head(q) = q[1] /\ Len(Tail(q)) = n - 1
  BY TailFacts
<1>2. \A i \in 1 .. n - 1 : i + 1 \in 1 .. n /\ Tail(q)[i] = q[i + 1]
  BY TailFacts
<1>3. PICK way \in [1 .. n + 1 -> Copies] :
        /\ way[1] = s /\ way[n + 1] = t
        /\ \A i \in 1 .. n : Leads(p, way[i], q[i], way[i + 1])
  BY DEF Follows
<1> HIDE DEF n
<1> DEFINE rest == [i \in 1 .. n - 1 + 1 |-> way[i + 1]]
<1>4. \A i \in 1 .. n - 1 + 1 : i + 1 \in 1 .. n + 1
  BY <1>1
<1>5. rest \in [1 .. n - 1 + 1 -> Copies]
  BY <1>4
<1>6. rest[1] = way[2] /\ rest[n - 1 + 1] = t /\ way[2] \in Copies /\ 1 \in 1 .. n
  BY <1>1, <1>3
<1>7. \A i \in 1 .. n - 1 :
        i + 1 \in 1 .. n /\ rest[i] = way[i + 1] /\ rest[i + 1] = way[i + 1 + 1]
  BY <1>1
<1> HIDE DEF rest
<1>8. \A i \in 1 .. n - 1 : Leads(p, rest[i], Tail(q)[i], rest[i + 1])
  BY <1>2, <1>3, <1>7
<1>9. Follows(p, Tail(q), way[2], t)
  BY <1>1, <1>5, <1>6, <1>8 DEF Follows
<1>10. Leads(p, s, Head(q), way[2])
  <2>1. Leads(p, way[1], q[1], way[1 + 1])
    BY <1>3, <1>6
  <2>. QED  BY <1>1, <1>3, <2>1
<1>. QED  BY <1>6, <1>9, <1>10

LEMMA FollowsNothing ==
  ASSUME NEW p \in Machines, NEW s, NEW t, Follows(p, <<>>, s, t)
  PROVE  s = t
<1>1. Len(<<>>) = 0 /\ 0 + 1 = 1
  OBVIOUS
<1>. QED  BY <1>1 DEF Follows

(* An event about another player changes nothing of p.                     *)
LEMMA FollowsOthers ==
  ASSUME NEW p \in Machines, NEW q \in Seq(Event), NEW e \in Event,
         NEW s, NEW t \in Copies, Follows(p, q, s, t), e.player # p
  PROVE  Follows(p, Append(q, e), s, t)
<1>1. Leads(p, t, e, t)
  BY DEF Leads
<1>. QED  BY <1>1, FollowsExtended

LEMMA CopyTyped ==
  ASSUME Typed, NEW m \in Machines, NEW p \in Machines
  PROVE  /\ Copy(m, p) \in Copies
         /\ Copy(m, p).stack = stack[m][p] /\ Copy(m, p).tab = tab[m][p]
<1>1. stack[m][p] \in Seq(Places) /\ tab[m][p] \in [Places -> 0 .. MaxUnits]
  BY DEF Typed
<1> HIDE DEF Places
<1>. QED  BY <1>1 DEF Copy, Copies

LEMMA FreedTyped ==
  ASSUME NEW s \in Copies, NEW k \in Places
  PROVE  Freed(s, k) \in Copies
<1>1. s.stack \in Seq(Places) /\ s.tab \in [Places -> 0 .. MaxUnits]
  BY DEF Copies
<1>2. Append(s.stack, k) \in Seq(Places)
  BY <1>1, AppendFacts
<1>3. 0 \in 0 .. MaxUnits
  BY SyncAssumption
<1>4. [s.tab EXCEPT ![k] = 0] \in [Places -> 0 .. MaxUnits]
  BY <1>1, <1>3
<1>. QED  BY <1>2, <1>4 DEF Freed, Copies

(* What a machine has by what was announced, by what its threads do.       *)
LEMMA SettledTyped ==
  ASSUME Typed, NEW m \in Machines, NEW p \in Machines
  PROVE  Settled(m, p) \in Copies
<1>1. Copy(m, p) \in Copies
  BY CopyTyped
<1>2. CASE Halves(m, p) = {}
  BY <1>1, <1>2 DEF Settled, Settles
<1>3. CASE Halves(m, p) # {}
  <2>1. (CHOOSE k \in Halves(m, p) : TRUE) \in Places
    BY <1>3 DEF Halves
  <2>. QED  BY <1>1, <1>3, <2>1, FreedTyped DEF Settled, Settles
<1>. QED  BY <1>2, <1>3

LEMMA SettlesOne ==
  ASSUME NEW k, NEW c
  PROVE  Settles({k}, c) = Freed(c, k) /\ Settles({}, c) = c
<1>1. (CHOOSE j \in {k} : TRUE) = k
  OBVIOUS
<1>. QED  BY <1>1 DEF Settles

LEMMA CopySame ==
  ASSUME NEW m \in Machines, NEW p \in Machines,
         stack'[m][p] = stack[m][p], tab'[m][p] = tab[m][p]
  PROVE  Copy(m, p)' = Copy(m, p)
BY DEF Copy

LEMMA SettledSame ==
  ASSUME NEW m \in Machines, NEW p \in Machines,
         stack'[m][p] = stack[m][p], tab'[m][p] = tab[m][p], Halves(m, p)' = Halves(m, p)
  PROVE  Settled(m, p)' = Settled(m, p)
BY CopySame DEF Settled

(* A call of thread t that is of no consequence for player q.              *)
LEMMA HalvesSame ==
  ASSUME NEW m \in Machines, NEW t \in Threads, NEW c, CallOnly(m, t, c),
         NEW x \in Machines, NEW q \in Machines,
         x # m \/ \A k \in Places : Half(c, q, k) <=> Half(doing[m][t], q, k)
  PROVE  Halves(x, q)' = Halves(x, q)
<1>1. ASSUME NEW k \in Places, NEW y \in Threads
      PROVE  Half(doing'[x][y], q, k) <=> Half(doing[x][y], q, k)
  BY DEF CallOnly
<1>2. Halves(x, q)' = {k \in Places : \E y \in Threads : Half(doing'[x][y], q, k)}
  BY DEF Halves, Half
<1>. QED  BY <1>1, <1>2 DEF Halves

LEMMA HalvesUnchanged ==
  ASSUME doing' = doing, NEW x \in Machines, NEW q \in Machines
  PROVE  Halves(x, q)' = Halves(x, q)
BY DEF Halves, Half

(* While nothing raced, one thread at most is busy with a player's units.  *)
LEMMA HalvesOne ==
  ASSUME Typed, Apart, ~ raced, NEW m \in Machines, NEW t \in Threads, Busy(m, t)
  PROVE  LET c == doing[m][t]
         IN  Halves(m, c.player) = IF c.step = "found" THEN {} ELSE {c.slot}
<1>1. PICK c : c = doing[m][t]
  OBVIOUS
<1>2. c.step \in {"created", "found", "dying"} /\ c.player \in Machines /\ c.slot \in Places
  BY <1>1, DoingTyped DEF Busy
<1>3. ASSUME NEW x \in Threads, NEW k \in Places, Half(doing[m][x], c.player, k)
      PROVE  x = t
  <2>1. Busy(m, x)
    BY <1>3 DEF Half, Busy
  <2>2. doing[m][x].player = c.player
    BY <1>3 DEF Half
  <2>. QED  BY <1>1, <2>1, <2>2 DEF Apart
<1>4. \A k \in Places : k \in Halves(m, c.player) <=> Half(c, c.player, k)
  BY <1>1, <1>3 DEF Halves
<1>5. \A k \in Places : Half(c, c.player, k) <=> c.step # "found" /\ k = c.slot
  BY <1>2 DEF Half
<1>6. Halves(m, c.player) \subseteq Places
  BY DEF Halves
<1>7. Halves(m, c.player) = IF c.step = "found" THEN {} ELSE {c.slot}
  BY <1>2, <1>4, <1>5, <1>6
<1>. QED  BY <1>1, <1>7

LEMMA HalvesNone ==
  ASSUME NEW m \in Machines, NEW q \in Machines,
         \A x \in Threads : Busy(m, x) => doing[m][x].player # q \/ At(m, x, "found")
  PROVE  Halves(m, q) = {}
BY DEF Halves, Half, Busy, At

(* A thread that has nothing to do with the others' players begins a call. *)
LEMMA MeetsNobody ==
  ASSUME Typed, NEW m \in Machines, NEW t \in Threads, ~ Busy(m, t), NEW c, ~ Meets(m, t, c)
  PROVE  /\ \A x \in Threads : Busy(m, x) => x # t /\ doing[m][x].player # c.player
         /\ c.player \in Machines => Halves(m, c.player) = {}
<1>1. ASSUME NEW x \in Threads, Busy(m, x)
      PROVE  x # t /\ doing[m][x].player # c.player
  <2>1. x # t
    BY <1>1
  <2>2. ~ Clash(doing[m][x], c)
    BY <2>1 DEF Meets
  <2>. QED  BY <1>1, <2>1, <2>2 DEF Clash, Busy
<1>. QED  BY <1>1, HalvesNone

LEMMA HalvesBegun ==
  ASSUME Typed, NEW m \in Machines, NEW t \in Threads, ~ Busy(m, t), NEW c \in Calls,
         CallOnly(m, t, c), ~ Meets(m, t, c), c.step \in {"created", "dying"}
  PROVE  Halves(m, c.player)' = {c.slot}
<1>1. c.player \in Machines /\ c.slot \in Places
  BY DEF Calls
<1>2. \A x \in Threads : Busy(m, x) => x # t /\ doing[m][x].player # c.player
  BY MeetsNobody
<1>3. Halves(m, c.player)' = {k \in Places : \E y \in Threads : Half(doing'[m][y], c.player, k)}
  BY DEF Halves, Half
<1>4. \A y \in Threads, k \in Places : Half(doing'[m][y], c.player, k) <=> y = t /\ k = c.slot
  <2> SUFFICES ASSUME NEW y \in Threads, NEW k \in Places
               PROVE  Half(doing'[m][y], c.player, k) <=> y = t /\ k = c.slot
    OBVIOUS
  <2>1. CASE y = t
    <3>1. doing'[m][y] = c
      BY <2>1 DEF CallOnly
    <3>. QED  BY <2>1, <3>1 DEF Half
  <2>2. CASE y # t
    <3>1. doing'[m][y] = doing[m][y]
      BY <2>2 DEF CallOnly
    <3>2. Half(doing[m][y], c.player, k) => Busy(m, y) /\ doing[m][y].player = c.player
      BY DEF Half, Busy
    <3>. QED  BY <1>2, <2>2, <3>1, <3>2
  <2>. QED  BY <2>1, <2>2
<1>. QED  BY <1>1, <1>3, <1>4

LEMMA HalvesEnded ==
  ASSUME Typed, Apart, ~ raced, NEW m \in Machines, NEW t \in Threads, Busy(m, t),
         CallOnly(m, t, Idle), NEW p \in Machines, p = doing[m][t].player
  PROVE  Halves(m, p)' = {}
<1>2. Halves(m, p)' = {k \in Places : \E y \in Threads : Half(doing'[m][y], p, k)}
  BY DEF Halves, Half
<1>3. ASSUME NEW y \in Threads, NEW k \in Places PROVE ~ Half(doing'[m][y], p, k)
  <2>1. CASE y = t
    <3>1. doing'[m][y] = Idle
      BY <2>1 DEF CallOnly
    <3>. QED  BY <3>1, IdleTyped DEF Half
  <2>2. CASE y # t
    <3>1. doing'[m][y] = doing[m][y]
      BY <2>2 DEF CallOnly
    <3>2. Half(doing[m][y], p, k) => Busy(m, y) /\ doing[m][y].player = p
      BY DEF Half, Busy
    <3>. QED  BY <2>2, <3>1, <3>2 DEF Apart
  <2>. QED  BY <2>1, <2>2
<1>. QED  BY <1>2, <1>3

-----------------------------------------------------------------------------
(* Which events are on their way after one more was sent, or one was       *)
(* handled.                                                                *)
LEMMA SaidPlaces ==
  ASSUME Typed, NEW m \in Machines, NEW e \in Event, SaidOnly(m, e)
  PROVE  \A x, n \in Machines : \A i \in 1 .. Len(chan'[x][n]) :
           \/ i \in 1 .. Len(chan[x][n]) /\ chan'[x][n][i] = chan[x][n][i]
           \/ /\ x = m /\ n # m /\ i = Len(chan[m][n]) + 1
              /\ chan'[x][n][i] = e
<1> SUFFICES ASSUME NEW x \in Machines, NEW n \in Machines,
                    NEW i \in 1 .. Len(chan'[x][n])
             PROVE  \/ i \in 1 .. Len(chan[x][n]) /\ chan'[x][n][i] = chan[x][n][i]
                    \/ /\ x = m /\ n # m /\ i = Len(chan[m][n]) + 1
                       /\ chan'[x][n][i] = e
  OBVIOUS
<1>1. chan[x][n] \in Seq(Event)
  BY DEF Typed
<1>2. CASE x = m /\ n # m
  <2>1. chan'[x][n] = Append(chan[x][n], e)
    BY <1>2 DEF SaidOnly
  <2>2. /\ i \in 1 .. Len(chan[x][n]) \/ i = Len(chan[x][n]) + 1
        /\ Append(chan[x][n], e)[i] = IF i \in 1 .. Len(chan[x][n]) THEN chan[x][n][i] ELSE e
    BY <1>1, <2>1, AppendFacts
  <2>. QED  BY <1>2, <2>1, <2>2
<1>3. CASE ~ (x = m /\ n # m)
  <2>1. chan'[x][n] = chan[x][n]
    BY <1>3 DEF SaidOnly
  <2>. QED  BY <2>1
<1>. QED  BY <1>2, <1>3

LEMMA EventsBefore ==
  ASSUME Typed, NEW m \in Machines, NEW n \in Machines,
         chan' = chan \/ HeardOnly(m, n)
  PROVE  \E d \in [Machines -> [Machines -> {0, 1}]] :
           /\ HeardOnly(m, n) => d[m][n] = 1
           /\ \A x, y \in Machines : \A i \in 1 .. Len(chan'[x][y]) :
             /\ i + d[x][y] \in 1 .. Len(chan[x][y])
             /\ chan'[x][y][i] = chan[x][y][i + d[x][y]]
<1>1. CASE ~ HeardOnly(m, n)
  <2> DEFINE d == [x \in Machines |-> [y \in Machines |-> 0]]
  <2>1. d \in [Machines -> [Machines -> {0, 1}]] /\ \A x, y \in Machines : d[x][y] = 0
    OBVIOUS
  <2> HIDE DEF d
  <2>2. \A x, y \in Machines : \A i \in 1 .. Len(chan'[x][y]) :
          /\ i + d[x][y] = i
          /\ i \in 1 .. Len(chan[x][y])
    BY <1>1, <2>1
  <2>. QED  BY <1>1, <2>1, <2>2
<1>2. CASE HeardOnly(m, n)
  <2> DEFINE d == [x \in Machines |-> [y \in Machines |-> IF x = m /\ y = n THEN 1 ELSE 0]]
  <2>1. /\ d \in [Machines -> [Machines -> {0, 1}]]
        /\ \A x, y \in Machines : d[x][y] = IF x = m /\ y = n THEN 1 ELSE 0
    OBVIOUS
  <2> HIDE DEF d
  <2>2. ASSUME NEW x \in Machines, NEW y \in Machines, NEW i \in 1 .. Len(chan'[x][y])
        PROVE  /\ i + d[x][y] \in 1 .. Len(chan[x][y])
               /\ chan'[x][y][i] = chan[x][y][i + d[x][y]]
    <3>1. CASE x = m /\ y = n
      <4>1. chan'[x][y] = Tail(chan[x][y]) /\ chan[x][y] # <<>>
        BY <1>2, <3>1 DEF HeardOnly
      <4>2. chan[x][y] \in Seq(Event)
        BY DEF Typed
      <4>3. i + 1 \in 1 .. Len(chan[x][y]) /\ Tail(chan[x][y])[i] = chan[x][y][i + 1]
        BY <4>1, <4>2, TailFacts
      <4>. QED  BY <2>1, <3>1, <4>1, <4>3
    <3>2. CASE ~ (x = m /\ y = n)
      <4>1. chan'[x][y] = chan[x][y] /\ d[x][y] = 0
        BY <1>2, <2>1, <3>2 DEF HeardOnly
      <4>2. i + d[x][y] = i
        BY <4>1
      <4>. QED  BY <4>1, <4>2
    <3>. QED  BY <3>1, <3>2
  <2>. QED  BY <2>1, <2>2
<1>. QED  BY <1>1, <1>2

-----------------------------------------------------------------------------
(* The stacks and the calls.                                               *)
LEMMA FreeAfterTake ==
  ASSUME Typed, Free, NEW m \in Machines, NEW p \in Machines, NEW u \in 1 .. MaxUnits,
         TakenOnly(m, p, u)
  PROVE  Free'
<1> DEFINE s == stack[m][p]
<1>1. s \in Seq(Places) /\ s # <<>>
  BY DEF Typed, TakenOnly
<1>2. /\ Len(s) \in Nat \ {0} /\ Last(s) = s[Len(s)] /\ Last(s) \in Places
      /\ Len(Front(s)) = Len(s) - 1
      /\ \A i \in 1 .. Len(s) - 1 : Front(s)[i] = s[i]
  BY <1>1, FrontFacts
<1>4. ASSUME NEW x \in Machines, NEW q \in Machines
      PROVE  /\ \A i, j \in 1 .. Len(stack'[x][q]) :
                  stack'[x][q][i] = stack'[x][q][j] => i = j
             /\ \A i \in 1 .. Len(stack'[x][q]) : tab'[x][q][stack'[x][q][i]] = 0
  <2>1. CASE x = m /\ q = p
    <3>1. stack'[x][q] = Front(s)
      BY <2>1 DEF TakenOnly
    <3>2. ASSUME NEW i \in 1 .. Len(s) - 1
          PROVE  /\ i \in 1 .. Len(s) /\ Len(s) \in 1 .. Len(s) /\ i # Len(s)
                 /\ Front(s)[i] = s[i] /\ s[i] \in Places
      <4>1. i \in 1 .. Len(s) /\ Len(s) \in 1 .. Len(s) /\ i # Len(s)
        BY <1>2
      <4>. QED  BY <1>1, <1>2, <4>1, QueueFacts
    <3>3. \A i, j \in 1 .. Len(s) : s[i] = s[j] => i = j
      BY DEF Free
    <3>4. \A i \in 1 .. Len(s) : tab[m][p][s[i]] = 0
      BY DEF Free
    <3>5. \A k \in Places : tab'[m][p][k] = IF k = Last(s) THEN u ELSE tab[m][p][k]
      BY DEF TakenOnly
    <3> HIDE DEF s
    <3>6. \A i, j \in 1 .. Len(s) - 1 : Front(s)[i] = Front(s)[j] => i = j
      BY <3>2, <3>3
    <3>7. ASSUME NEW i \in 1 .. Len(s) - 1
          PROVE  tab'[m][p][Front(s)[i]] = 0
      <4>1. s[i] # s[Len(s)]
        BY <3>2, <3>3
      <4>. QED  BY <1>2, <3>2, <3>4, <3>5, <4>1
    <3>. QED  BY <1>2, <2>1, <3>1, <3>6, <3>7
  <2>2. CASE x # m \/ q # p
    <3>1. stack'[x][q] = stack[x][q] /\ tab'[x][q] = tab[x][q]
      BY <2>2 DEF TakenOnly
    <3>. QED  BY <3>1 DEF Free
  <2>. QED  BY <2>1, <2>2
<1>. QED  BY <1>4 DEF Free

LEMMA FreeAfterRelease ==
  ASSUME Typed, Free, NEW m \in Machines, NEW p \in Machines, NEW k \in Places,
         FreedOnly(m, p, k), tab[m][p][k] # 0
  PROVE  Free'
<1> DEFINE s == stack[m][p]
<1>1. s \in Seq(Places)
  BY DEF Typed
<1>2. /\ Len(s) \in Nat
      /\ Len(Append(s, k)) = Len(s) + 1
      /\ \A i \in 1 .. Len(s) + 1 :
           /\ i \in 1 .. Len(s) \/ i = Len(s) + 1
           /\ Append(s, k)[i] = IF i \in 1 .. Len(s) THEN s[i] ELSE k
  BY <1>1, AppendFacts, QueueFacts
<1>3. \A i \in 1 .. Len(s) : s[i] \in Places
  BY <1>1, QueueFacts
<1>4. ASSUME NEW x \in Machines, NEW q \in Machines
      PROVE  /\ \A i, j \in 1 .. Len(stack'[x][q]) :
                  stack'[x][q][i] = stack'[x][q][j] => i = j
             /\ \A i \in 1 .. Len(stack'[x][q]) : tab'[x][q][stack'[x][q][i]] = 0
  <2>1. CASE x = m /\ q = p
    <3>1. stack'[x][q] = Append(s, k)
      BY <2>1 DEF FreedOnly
    <3>2. \A i, j \in 1 .. Len(s) : s[i] = s[j] => i = j
      BY DEF Free
    <3>3. \A i \in 1 .. Len(s) : tab[m][p][s[i]] = 0
      BY DEF Free
    <3>4. \A j \in Places : tab'[m][p][j] = IF j = k THEN 0 ELSE tab[m][p][j]
      BY DEF FreedOnly
    <3> HIDE DEF s
    <3>5. \A i \in 1 .. Len(s) : s[i] # k
      BY <3>3
    <3>6. \A i, j \in 1 .. Len(s) + 1 : Append(s, k)[i] = Append(s, k)[j] => i = j
      BY <1>2, <3>2, <3>5
    <3>7. \A i \in 1 .. Len(s) + 1 : tab'[m][p][Append(s, k)[i]] = 0
      BY <1>2, <1>3, <3>3, <3>4
    <3>. QED  BY <1>2, <2>1, <3>1, <3>6, <3>7
  <2>2. CASE x # m \/ q # p
    <3>1. stack'[x][q] = stack[x][q] /\ tab'[x][q] = tab[x][q]
      BY <2>2 DEF FreedOnly
    <3>. QED  BY <3>1 DEF Free
  <2>. QED  BY <2>1, <2>2
<1>. QED  BY <1>4 DEF Free

LEMMA UnitLater ==
  ASSUME NEW m \in Machines, NEW t \in Threads
  PROVE  /\ Unit(m, t)' = tab'[m][doing'[m][t].player][doing'[m][t].slot]
         /\ Busy(m, t)' <=> doing'[m][t].step # "idle"
         /\ doing'[m][t] = doing[m][t] => (Busy(m, t)' <=> Busy(m, t))
BY DEF Unit, Busy

LEMMA HeldAfterTake ==
  ASSUME Typed, Held, NEW m \in Machines, NEW p \in Machines, NEW u \in 1 .. MaxUnits,
         TakenOnly(m, p, u),
         \A x \in Machines, t \in Threads :
           \/ doing'[x][t] = doing[x][t]
           \/ x = m /\ doing'[x][t].player = p /\ doing'[x][t].slot = Last(stack[m][p])
  PROVE  Held'
<1>1. u # 0
  BY SyncAssumption
<1>2. \A x, q \in Machines, k \in Places :
        tab'[x][q][k] = IF x = m /\ q = p /\ k = Last(stack[m][p]) THEN u ELSE tab[x][q][k]
  BY DEF TakenOnly
<1>3. Last(stack[m][p]) \in Places
  <2>1. stack[m][p] \in Seq(Places) /\ stack[m][p] # <<>>
    BY DEF Typed, TakenOnly
  <2>. QED  BY <2>1, FrontFacts
<1>4. ASSUME NEW x \in Machines, NEW t \in Threads, Busy(x, t)'
      PROVE  Unit(x, t)' # 0
  <2>1. CASE doing'[x][t] = doing[x][t]
    <3>1. doing[x][t].player \in Machines /\ doing[x][t].slot \in Places
      BY DoingTyped
    <3>2. Busy(x, t)
      BY <1>4, <2>1, UnitLater
    <3>3. tab[x][doing[x][t].player][doing[x][t].slot] # 0
      BY <3>2 DEF Held, Unit
    <3>4. Unit(x, t)' = tab'[x][doing[x][t].player][doing[x][t].slot]
      BY <2>1, UnitLater
    <3>. QED  BY <1>1, <1>2, <3>1, <3>3, <3>4
  <2>2. CASE x = m /\ doing'[x][t].player = p /\ doing'[x][t].slot = Last(stack[m][p])
    BY <1>1, <1>2, <1>3, <2>2, UnitLater
  <2>. QED  BY <2>1, <2>2
<1>. QED  BY <1>4 DEF Held

LEMMA HeldAfterRelease ==
  ASSUME Typed, Held, Apart, ~ raced, NEW m \in Machines, NEW t \in Threads, Busy(m, t),
         CallOnly(m, t, Idle), NEW p \in Machines, NEW k \in Places,
         p = doing[m][t].player, FreedOnly(m, p, k)
  PROVE  Held'
<1>2. \A x, q \in Machines, j \in Places :
        tab'[x][q][j] = IF x = m /\ q = p /\ j = k THEN 0 ELSE tab[x][q][j]
  BY DEF FreedOnly
<1>3. ASSUME NEW x \in Machines, NEW y \in Threads, Busy(x, y)'
      PROVE  Unit(x, y)' # 0
  <2>1. ~ (x = m /\ y = t)
    BY <1>3, UnitLater, IdleTyped DEF CallOnly
  <2>2. doing'[x][y] = doing[x][y]
    BY <2>1 DEF CallOnly
  <2>3. Busy(x, y)
    BY <1>3, <2>2, UnitLater
  <2>4. doing[x][y].player \in Machines /\ doing[x][y].slot \in Places
    BY DoingTyped
  <2>5. ~ (x = m /\ doing[x][y].player = p)
    BY <2>1, <2>3 DEF Apart
  <2>6. tab[x][doing[x][y].player][doing[x][y].slot] # 0
    BY <2>3 DEF Held, Unit
  <2>7. Unit(x, y)' = tab'[x][doing[x][y].player][doing[x][y].slot]
    BY <2>2, UnitLater
  <2>8. tab'[x][doing[x][y].player][doing[x][y].slot] = tab[x][doing[x][y].player][doing[x][y].slot]
    BY <1>2, <2>4, <2>5
  <2>. QED  BY <2>6, <2>7, <2>8
<1>. QED  BY <1>3 DEF Held

LEMMA HeldAfterCall ==
  ASSUME Held, NEW m \in Machines, NEW t \in Threads, NEW c, CallOnly(m, t, c), tab' = tab,
         c.step # "idle" => tab[m][c.player][c.slot] # 0
  PROVE  Held'
<1>1. ASSUME NEW x \in Machines, NEW y \in Threads, Busy(x, y)'
      PROVE  Unit(x, y)' # 0
  <2>1. CASE x = m /\ y = t
    <3>1. doing'[x][y] = c
      BY <2>1 DEF CallOnly
    <3>. QED  BY <1>1, <2>1, <3>1, UnitLater
  <2>2. CASE ~ (x = m /\ y = t)
    <3>1. doing'[x][y] = doing[x][y]
      BY <2>2 DEF CallOnly
    <3>. QED  BY <1>1, <3>1, UnitLater DEF Held, Unit
  <2>. QED  BY <2>1, <2>2
<1>. QED  BY <1>1 DEF Held

LEMMA ApartAfterCall ==
  ASSUME Typed, Apart, ~ raced, NEW m \in Machines, NEW t \in Threads, NEW c,
         CallOnly(m, t, c),
         \/ c.step = "idle"
         \/ Busy(m, t) /\ c.player = doing[m][t].player
         \/ ~ Busy(m, t) /\ raced' = Meets(m, t, c)
  PROVE  Apart'
<1> SUFFICES ASSUME ~ raced', NEW x \in Machines, NEW y \in Threads, NEW z \in Threads,
                    y # z, doing'[x][y].step # "idle", doing'[x][z].step # "idle"
             PROVE  doing'[x][y].player # doing'[x][z].player
  BY DEF Apart, Busy
<1>1. ASSUME c.step # "idle", NEW v \in Threads, v # t, doing[m][v].step # "idle"
      PROVE  doing[m][v].player # c.player
  <2>1. Busy(m, v)
    BY <1>1 DEF Busy
  <2>2. CASE Busy(m, t) /\ c.player = doing[m][t].player
    BY <1>1, <2>1, <2>2 DEF Apart
  <2>3. CASE ~ Busy(m, t) /\ raced' = Meets(m, t, c)
    BY <2>1, <2>3, MeetsNobody
  <2>. QED  BY <1>1, <2>2, <2>3
<1>2. \A v \in Threads : doing'[x][v] = IF x = m /\ v = t THEN c ELSE doing[x][v]
  BY DEF CallOnly
<1>3. CASE x = m /\ y = t
  BY <1>1, <1>2, <1>3
<1>4. CASE x = m /\ z = t
  BY <1>1, <1>2, <1>4
<1>5. CASE x # m \/ (y # t /\ z # t)
  <2>1. doing'[x][y] = doing[x][y] /\ doing'[x][z] = doing[x][z]
    BY <1>2, <1>5
  <2>2. Busy(x, y) /\ Busy(x, z)
    BY <2>1 DEF Busy
  <2>. QED  BY <2>1, <2>2 DEF Apart
<1>. QED  BY <1>3, <1>4, <1>5

LEMMA ApartSame ==
  ASSUME Apart, ~ raced, doing' = doing
  PROVE  Apart'
BY DEF Apart, Busy


-----------------------------------------------------------------------------
(* A unit is announced once: what becomes of it when units are created,    *)
(* announced, heard of and killed.                                         *)
LEMMA EventTyped ==
  ASSUME Typed, NEW x \in Machines, NEW n \in Machines, NEW i \in 1 .. Len(chan[x][n])
  PROVE  /\ chan[x][n][i] \in Event
         /\ chan[x][n][i].player \in Machines /\ chan[x][n][i].slot \in Places
         /\ chan[x][n][i].unit \in 1 .. MaxUnits
<1>1. chan[x][n] \in Seq(Event)
  BY DEF Typed
<1>2. chan[x][n][i] \in Event
  BY <1>1, QueueFacts
<1>. QED  BY <1>2 DEF Event

LEMMA FreshAfterTake ==
  ASSUME Typed, Fresh, NEW m \in Machines, NEW p \in Machines, NEW e \in Event, Creates(e),
         e.player = p, e.unit = born + 1, born' = born + 1, TakenOnly(m, p, born + 1),
         chan' = chan \/ SaidOnly(m, e)
  PROVE  Fresh'
<1>1. born \in 1 .. MaxUnits
  BY DEF Typed
<1>2. born \in Nat /\ MaxUnits \in Nat
  BY <1>1, SyncAssumption
<1>3. \A x, q \in Machines, k \in Places :
        tab'[x][q][k] = IF x = m /\ q = p /\ k = Last(stack[m][p]) THEN born + 1
                        ELSE tab[x][q][k]
  BY DEF TakenOnly
<1>4. \A x, q \in Machines, k \in Places : tab[x][q][k] \in 0 .. born
  <2>1. \A x, q \in Machines, k \in Places : tab[x][q][k] \in 0 .. MaxUnits
    BY DEF Typed
  <2>2. \A x, q \in Machines, k \in Places : tab[x][q][k] <= born
    BY DEF Fresh
  <2>. QED  BY <1>2, <2>1, <2>2
<1>5. ASSUME NEW x \in Machines, NEW q \in Machines, NEW j \in Places, NEW k \in Places
      PROVE  /\ tab'[x][q][k] <= born'
             /\ tab'[x][q][j] = tab'[x][q][k] /\ tab'[x][q][j] # 0 => j = k
  <2>1. tab[x][q][j] \in 0 .. born /\ tab[x][q][k] \in 0 .. born
    BY <1>4
  <2>2. tab[x][q][j] = tab[x][q][k] /\ tab[x][q][j] # 0 => j = k
    BY DEF Fresh
  <2>3. tab'[x][q][k] <= born'
    BY <1>1, <1>2, <1>3, <2>1
  <2>4. tab'[x][q][j] = tab'[x][q][k] /\ tab'[x][q][j] # 0 => j = k
    BY <1>2, <1>3, <2>1, <2>2
  <2>. QED  BY <2>3, <2>4
<1>6. \A x, n \in Machines : \A i \in 1 .. Len(chan[x][n]) : Creates(chan[x][n][i]) =>
        /\ chan[x][n][i].unit \in 1 .. born
        /\ chan[x][n][i].player \in Machines
        /\ \A k \in Places : tab[n][chan[x][n][i].player][k] # chan[x][n][i].unit
  <2> SUFFICES ASSUME NEW x \in Machines, NEW n \in Machines,
                      NEW i \in 1 .. Len(chan[x][n]), Creates(chan[x][n][i])
               PROVE  /\ chan[x][n][i].unit \in 1 .. born
                      /\ chan[x][n][i].player \in Machines
                      /\ \A k \in Places : tab[n][chan[x][n][i].player][k] # chan[x][n][i].unit
    OBVIOUS
  <2>1. /\ chan[x][n][i].unit <= born
        /\ \A k \in Places : tab[n][chan[x][n][i].player][k] # chan[x][n][i].unit
    BY DEF Fresh
  <2>2. chan[x][n][i].unit \in 1 .. MaxUnits /\ chan[x][n][i].player \in Machines
    BY EventTyped
  <2>. QED  BY <1>2, <2>1, <2>2
<1>7. \A x, n \in Machines : \A i \in 1 .. Len(chan'[x][n]) :
        \/ i \in 1 .. Len(chan[x][n]) /\ chan'[x][n][i] = chan[x][n][i]
        \/ x = m /\ n # m /\ i = Len(chan[m][n]) + 1 /\ chan'[x][n][i] = e
  <2>1. CASE chan' = chan
    BY <2>1
  <2>2. CASE SaidOnly(m, e)
    BY <2>2, SaidPlaces
  <2>. QED  BY <2>1, <2>2
<1>8. ASSUME NEW x \in Machines, NEW n \in Machines, NEW i \in 1 .. Len(chan'[x][n]),
             Creates(chan'[x][n][i])
      PROVE  /\ chan'[x][n][i].unit <= born'
             /\ \A k \in Places : tab'[n][chan'[x][n][i].player][k] # chan'[x][n][i].unit
  <2>1. CASE i \in 1 .. Len(chan[x][n]) /\ chan'[x][n][i] = chan[x][n][i]
    <3>1. /\ chan[x][n][i].unit \in 1 .. born /\ chan[x][n][i].player \in Machines
          /\ \A k \in Places : tab[n][chan[x][n][i].player][k] # chan[x][n][i].unit
      BY <1>6, <1>8, <2>1
    <3>2. chan[x][n][i].unit # born + 1 /\ chan[x][n][i].unit <= born + 1
      BY <1>2, <3>1
    <3>. QED  BY <1>1, <1>3, <2>1, <3>1, <3>2
  <2>2. CASE x = m /\ n # m /\ chan'[x][n][i] = e
    <3>1. \A k \in Places : tab'[n][p][k] \in 0 .. born
      BY <1>3, <1>4, <2>2
    <3>. QED  BY <1>1, <1>2, <2>2, <3>1
  <2>. QED  BY <1>7, <2>1, <2>2
<1>9. ASSUME NEW x \in Machines, NEW y \in Machines, NEW n \in Machines,
             NEW i \in 1 .. Len(chan'[x][n]), NEW j \in 1 .. Len(chan'[y][n]),
             Creates(chan'[x][n][i]), Creates(chan'[y][n][j]),
             chan'[x][n][i].unit = chan'[y][n][j].unit
      PROVE  x = y /\ i = j
  <2>1. CASE i \in 1 .. Len(chan[x][n]) /\ chan'[x][n][i] = chan[x][n][i]
    <3>1. chan[x][n][i].unit # born + 1
      BY <1>2, <1>6, <1>9, <2>1
    <3>2. chan'[y][n][j] # e
      BY <1>1, <1>9, <2>1, <3>1
    <3>3. j \in 1 .. Len(chan[y][n]) /\ chan'[y][n][j] = chan[y][n][j]
      BY <1>7, <3>2
    <3>. QED  BY <1>9, <2>1, <3>3 DEF Fresh
  <2>2. CASE x = m /\ n # m /\ i = Len(chan[m][n]) + 1 /\ chan'[x][n][i] = e
    <3>1. chan'[y][n][j].unit = born + 1
      BY <1>1, <1>9, <2>2
    <3>2. ~ (j \in 1 .. Len(chan[y][n]) /\ chan'[y][n][j] = chan[y][n][j])
      BY <1>2, <1>6, <1>9, <3>1
    <3>. QED  BY <1>7, <2>2, <3>2
  <2>. QED  BY <1>7, <2>1, <2>2
<1>. QED  BY <1>5, <1>8, <1>9 DEF Fresh

(* The announcement of a unit nobody else has or hears of.                 *)
LEMMA FreshAfterSaid ==
  ASSUME Typed, Fresh, NEW m \in Machines, NEW e \in Event, SaidOnly(m, e), Creates(e),
         UNCHANGED <<tab, born>>, e.unit <= born,
         \A n \in Machines, k \in Places : n # m => tab[n][e.player][k] # e.unit,
         \A x, n \in Machines : \A i \in 1 .. Len(chan[x][n]) :
           Creates(chan[x][n][i]) => chan[x][n][i].unit # e.unit
  PROVE  Fresh'
<1>1. \A x, n \in Machines : \A i \in 1 .. Len(chan'[x][n]) :
        \/ i \in 1 .. Len(chan[x][n]) /\ chan'[x][n][i] = chan[x][n][i]
        \/ x = m /\ n # m /\ i = Len(chan[m][n]) + 1 /\ chan'[x][n][i] = e
  BY SaidPlaces
<1>2. ASSUME NEW x \in Machines, NEW y \in Machines, NEW n \in Machines,
             NEW i \in 1 .. Len(chan'[x][n]), NEW j \in 1 .. Len(chan'[y][n]),
             Creates(chan'[x][n][i]), Creates(chan'[y][n][j]),
             chan'[x][n][i].unit = chan'[y][n][j].unit
      PROVE  x = y /\ i = j
  <2>1. CASE i \in 1 .. Len(chan[x][n]) /\ chan'[x][n][i] = chan[x][n][i]
    <3>1. chan'[y][n][j] # e
      BY <1>2, <2>1
    <3>2. j \in 1 .. Len(chan[y][n]) /\ chan'[y][n][j] = chan[y][n][j]
      BY <1>1, <3>1
    <3>. QED  BY <1>2, <2>1, <3>2 DEF Fresh
  <2>2. CASE x = m /\ n # m /\ i = Len(chan[m][n]) + 1 /\ chan'[x][n][i] = e
    <3>1. ~ (j \in 1 .. Len(chan[y][n]) /\ chan'[y][n][j] = chan[y][n][j])
      BY <1>2, <2>2
    <3>. QED  BY <1>1, <2>2, <3>1
  <2>. QED  BY <1>1, <2>1, <2>2
<1>3. ASSUME NEW x \in Machines, NEW n \in Machines, NEW i \in 1 .. Len(chan'[x][n]),
             Creates(chan'[x][n][i])
      PROVE  /\ chan'[x][n][i].unit <= born'
             /\ \A k \in Places : tab'[n][chan'[x][n][i].player][k] # chan'[x][n][i].unit
  <2>1. CASE i \in 1 .. Len(chan[x][n]) /\ chan'[x][n][i] = chan[x][n][i]
    <3>1. Creates(chan[x][n][i])
      BY <1>3, <2>1
    <3>2. /\ chan[x][n][i].unit <= born
          /\ \A k \in Places : tab[n][chan[x][n][i].player][k] # chan[x][n][i].unit
      BY <2>1, <3>1 DEF Fresh
    <3>. QED  BY <2>1, <3>2
  <2>2. CASE n # m /\ chan'[x][n][i] = e
    BY <2>2
  <2>. QED  BY <1>1, <2>1, <2>2
<1>4. \A x, q \in Machines : \A j, k \in Places :
        /\ tab'[x][q][k] <= born'
        /\ tab'[x][q][j] = tab'[x][q][k] /\ tab'[x][q][j] # 0 => j = k
  BY DEF Fresh
<1>. QED  BY <1>2, <1>3, <1>4 DEF Fresh

LEMMA FreshAfterDeath ==
  ASSUME Typed, Fresh, NEW m \in Machines, NEW e \in Event, SaidOnly(m, e), ~ Creates(e),
         UNCHANGED <<tab, born>>
  PROVE  Fresh'
<1>1. \A x, n \in Machines : \A i \in 1 .. Len(chan'[x][n]) : Creates(chan'[x][n][i]) =>
        i \in 1 .. Len(chan[x][n]) /\ chan'[x][n][i] = chan[x][n][i]
  <2>1. \A x, n \in Machines : \A i \in 1 .. Len(chan'[x][n]) :
          \/ i \in 1 .. Len(chan[x][n]) /\ chan'[x][n][i] = chan[x][n][i]
          \/ x = m /\ n # m /\ i = Len(chan[m][n]) + 1 /\ chan'[x][n][i] = e
    BY SaidPlaces
  <2>. QED  BY <2>1
<1>2. ASSUME NEW x \in Machines, NEW y \in Machines, NEW n \in Machines,
             NEW i \in 1 .. Len(chan'[x][n]), NEW j \in 1 .. Len(chan'[y][n]),
             Creates(chan'[x][n][i]), Creates(chan'[y][n][j]),
             chan'[x][n][i].unit = chan'[y][n][j].unit
      PROVE  x = y /\ i = j
  <2>1. i \in 1 .. Len(chan[x][n]) /\ chan'[x][n][i] = chan[x][n][i]
    BY <1>1, <1>2
  <2>2. j \in 1 .. Len(chan[y][n]) /\ chan'[y][n][j] = chan[y][n][j]
    BY <1>1, <1>2
  <2>. QED  BY <1>2, <2>1, <2>2 DEF Fresh
<1>3. ASSUME NEW x \in Machines, NEW n \in Machines, NEW i \in 1 .. Len(chan'[x][n]),
             Creates(chan'[x][n][i])
      PROVE  /\ chan'[x][n][i].unit <= born'
             /\ \A k \in Places : tab'[n][chan'[x][n][i].player][k] # chan'[x][n][i].unit
  <2>1. i \in 1 .. Len(chan[x][n]) /\ chan'[x][n][i] = chan[x][n][i]
    BY <1>1, <1>3
  <2>2. Creates(chan[x][n][i])
    BY <1>3, <2>1
  <2>3. /\ chan[x][n][i].unit <= born
        /\ \A k \in Places : tab[n][chan[x][n][i].player][k] # chan[x][n][i].unit
    BY <2>1, <2>2 DEF Fresh
  <2>. QED  BY <2>1, <2>3
<1>4. \A x, q \in Machines : \A j, k \in Places :
        /\ tab'[x][q][k] <= born'
        /\ tab'[x][q][j] = tab'[x][q][k] /\ tab'[x][q][j] # 0 => j = k
  BY DEF Fresh
<1>. QED  BY <1>2, <1>3, <1>4 DEF Fresh

(* Units and events that are only less than they were.                     *)
LEMMA FreshAfterLess ==
  ASSUME Typed, Fresh, NEW m \in Machines, NEW n \in Machines,
         chan' = chan \/ HeardOnly(m, n), born' = born,
         \A x, q \in Machines, k \in Places : tab'[x][q][k] \in {0, tab[x][q][k]}
  PROVE  Fresh'
<1>1. PICK d \in [Machines -> [Machines -> {0, 1}]] :
        \A x, y \in Machines : \A i \in 1 .. Len(chan'[x][y]) :
          /\ i + d[x][y] \in 1 .. Len(chan[x][y])
          /\ chan'[x][y][i] = chan[x][y][i + d[x][y]]
  BY EventsBefore
<1>2. ASSUME NEW x \in Machines, NEW q \in Machines, NEW j \in Places, NEW k \in Places
      PROVE  /\ tab'[x][q][k] <= born'
             /\ tab'[x][q][j] = tab'[x][q][k] /\ tab'[x][q][j] # 0 => j = k
  <2>1. tab[x][q][k] <= born /\ (tab[x][q][j] = tab[x][q][k] /\ tab[x][q][j] # 0 => j = k)
    BY DEF Fresh
  <2>2. tab'[x][q][k] \in {0, tab[x][q][k]} /\ tab'[x][q][j] \in {0, tab[x][q][j]}
    OBVIOUS
  <2>3. 0 <= born
    BY SyncAssumption DEF Typed
  <2>. QED  BY <2>1, <2>2, <2>3
<1>3. ASSUME NEW x \in Machines, NEW y \in Machines, NEW i \in 1 .. Len(chan'[x][y]),
             Creates(chan'[x][y][i])
      PROVE  /\ chan'[x][y][i].unit <= born'
             /\ \A k \in Places : tab'[y][chan'[x][y][i].player][k] # chan'[x][y][i].unit
  <2> DEFINE j == i + d[x][y]
  <2>1. j \in 1 .. Len(chan[x][y]) /\ chan'[x][y][i] = chan[x][y][j]
    BY <1>1
  <2> HIDE DEF j
  <2>2. /\ chan[x][y][j].unit <= born
        /\ \A k \in Places : tab[y][chan[x][y][j].player][k] # chan[x][y][j].unit
    BY <1>3, <2>1 DEF Fresh
  <2>3. chan[x][y][j].unit \in 1 .. MaxUnits /\ chan[x][y][j].player \in Machines
    BY <2>1, EventTyped
  <2>4. chan[x][y][j].unit # 0
    BY <2>3, SyncAssumption
  <2>5. \A k \in Places : tab'[y][chan[x][y][j].player][k]
                             \in {0, tab[y][chan[x][y][j].player][k]}
    BY <2>3
  <2>6. \A k \in Places : tab'[y][chan[x][y][j].player][k] # chan[x][y][j].unit
    BY <2>2, <2>4, <2>5
  <2>. QED  BY <2>1, <2>2, <2>6
<1>4. ASSUME NEW x \in Machines, NEW z \in Machines, NEW y \in Machines,
             NEW i \in 1 .. Len(chan'[x][y]), NEW j \in 1 .. Len(chan'[z][y]),
             Creates(chan'[x][y][i]), Creates(chan'[z][y][j]),
             chan'[x][y][i].unit = chan'[z][y][j].unit
      PROVE  x = z /\ i = j
  <2>1. i + d[x][y] \in 1 .. Len(chan[x][y]) /\ chan'[x][y][i] = chan[x][y][i + d[x][y]]
    BY <1>1
  <2>2. j + d[z][y] \in 1 .. Len(chan[z][y]) /\ chan'[z][y][j] = chan[z][y][j + d[z][y]]
    BY <1>1
  <2> DEFINE a == i + d[x][y]
             b == j + d[z][y]
  <2> HIDE DEF a, b
  <2>5. \A u, v, w \in Machines :
          \A k \in 1 .. Len(chan[u][w]), l \in 1 .. Len(chan[v][w]) :
            Creates(chan[u][w][k]) /\ Creates(chan[v][w][l])
              /\ chan[u][w][k].unit = chan[v][w][l].unit => u = v /\ k = l
    BY DEF Fresh
  <2>6. /\ a \in 1 .. Len(chan[x][y]) /\ b \in 1 .. Len(chan[z][y])
        /\ chan'[x][y][i] = chan[x][y][a] /\ chan'[z][y][j] = chan[z][y][b]
    BY <2>1, <2>2 DEF a, b
  <2>7. x = z /\ a = b
    BY <1>4, <2>5, <2>6
  <2>3. x = z /\ i + d[x][y] = j + d[z][y]
    BY <2>7 DEF a, b
  <2>4. d[x][y] \in {0, 1} /\ i \in Int /\ j \in Int
    OBVIOUS
  <2>. QED  BY <2>3, <2>4
<1>. QED  BY <1>2, <1>3, <1>4 DEF Fresh

(* A unit that is announced takes the slot it finds on top.                *)
LEMMA FreshAfterHearing ==
  ASSUME Typed, Fresh, NEW m \in Machines, NEW n \in Machines, HeardOnly(m, n),
         NEW e \in Event, e = Head(chan[m][n]), Creates(e),
         TakenOnly(n, e.player, e.unit), born' = born
  PROVE  Fresh'
<1> DEFINE p == e.player
           u == e.unit
           top == Last(stack[n][p])
<1>1. PICK d \in [Machines -> [Machines -> {0, 1}]] :
        /\ HeardOnly(m, n) => d[m][n] = 1
        /\ \A x, y \in Machines : \A i \in 1 .. Len(chan'[x][y]) :
          /\ i + d[x][y] \in 1 .. Len(chan[x][y])
          /\ chan'[x][y][i] = chan[x][y][i + d[x][y]]
  BY EventsBefore
<1>2. p \in Machines /\ u \in 1 .. MaxUnits
  BY DEF Event
<1>3. 1 \in 1 .. Len(chan[m][n]) /\ chan[m][n][1] = e
  <2>1. chan[m][n] \in Seq(Event) /\ chan[m][n] # <<>>
    BY DEF Typed, HeardOnly
  <2>2. Len(chan[m][n]) \in Nat \ {0} /\ Head(chan[m][n]) = chan[m][n][1]
    BY <2>1, TailFacts
  <2>. QED  BY <2>2
<1>4. u <= born /\ \A k \in Places : tab[n][p][k] # u
  BY <1>3 DEF Fresh
<1>5. \A x, q \in Machines, k \in Places :
        tab'[x][q][k] = IF x = n /\ q = p /\ k = top THEN u ELSE tab[x][q][k]
  BY DEF TakenOnly
<1>6. \A u1, v, w \in Machines :
        \A k \in 1 .. Len(chan[u1][w]), l \in 1 .. Len(chan[v][w]) :
          Creates(chan[u1][w][k]) /\ Creates(chan[v][w][l])
            /\ chan[u1][w][k].unit = chan[v][w][l].unit => u1 = v /\ k = l
  BY DEF Fresh
<1> HIDE DEF p, u, top
<1>7. ASSUME NEW x \in Machines, NEW q \in Machines, NEW j \in Places, NEW k \in Places
      PROVE  /\ tab'[x][q][k] <= born'
             /\ tab'[x][q][j] = tab'[x][q][k] /\ tab'[x][q][j] # 0 => j = k
  <2>1. tab[x][q][k] <= born /\ (tab[x][q][j] = tab[x][q][k] /\ tab[x][q][j] # 0 => j = k)
    BY DEF Fresh
  <2>2. CASE x = n /\ q = p
    BY <1>4, <1>5, <2>1, <2>2
  <2>3. CASE ~ (x = n /\ q = p)
    <3>1. tab'[x][q][k] = tab[x][q][k] /\ tab'[x][q][j] = tab[x][q][j]
      BY <1>5, <2>3
    <3>. QED  BY <2>1, <3>1
  <2>. QED  BY <2>2, <2>3
<1>8. ASSUME NEW x \in Machines, NEW y \in Machines, NEW i \in 1 .. Len(chan'[x][y]),
             Creates(chan'[x][y][i])
      PROVE  /\ chan'[x][y][i].unit <= born'
             /\ \A k \in Places : tab'[y][chan'[x][y][i].player][k] # chan'[x][y][i].unit
  <2> DEFINE j == i + d[x][y]
  <2>1. j \in 1 .. Len(chan[x][y]) /\ chan'[x][y][i] = chan[x][y][j]
    BY <1>1
  <2>2. ~ (x = m /\ y = n /\ j = 1)
    <3>1. x = m /\ y = n => j = i + 1
      BY <1>1
    <3>. QED  BY <3>1
  <2> HIDE DEF j
  <2>3. /\ chan[x][y][j].unit <= born
        /\ \A k \in Places : tab[y][chan[x][y][j].player][k] # chan[x][y][j].unit
    BY <1>8, <2>1 DEF Fresh
  <2>4. chan[x][y][j].player \in Machines
    BY <2>1, EventTyped
  <2>5. y = n => chan[x][y][j].unit # u
    BY <1>3, <1>6, <1>8, <2>1, <2>2 DEF u
  <2>6. \A k \in Places : tab'[y][chan[x][y][j].player][k] # chan[x][y][j].unit
    BY <1>5, <2>3, <2>4, <2>5
  <2>. QED  BY <2>1, <2>3, <2>6
<1>9. ASSUME NEW x \in Machines, NEW z \in Machines, NEW y \in Machines,
             NEW i \in 1 .. Len(chan'[x][y]), NEW j \in 1 .. Len(chan'[z][y]),
             Creates(chan'[x][y][i]), Creates(chan'[z][y][j]),
             chan'[x][y][i].unit = chan'[z][y][j].unit
      PROVE  x = z /\ i = j
  <2> DEFINE a == i + d[x][y]
             b == j + d[z][y]
  <2>1. /\ a \in 1 .. Len(chan[x][y]) /\ b \in 1 .. Len(chan[z][y])
        /\ chan'[x][y][i] = chan[x][y][a] /\ chan'[z][y][j] = chan[z][y][b]
    BY <1>1
  <2> HIDE DEF a, b
  <2>2. x = z /\ a = b
    BY <1>6, <1>9, <2>1
  <2>3. x = z /\ i + d[x][y] = j + d[z][y]
    BY <2>2 DEF a, b
  <2>4. d[x][y] \in {0, 1} /\ i \in Int /\ j \in Int
    OBVIOUS
  <2>. QED  BY <2>3, <2>4
<1>. QED  BY <1>7, <1>8, <1>9 DEF Fresh

(* A unit that is still to be announced remains new to everybody else if   *)
(* it is none of those, U, that come to new places.                        *)
LEMMA UnsaidKept ==
  ASSUME Typed, Held, Unsaid, NEW U,
         \A x \in Machines : Pending(x)' =>
           /\ Pending(x) /\ doing'[x]["engine"] = doing[x]["engine"]
           /\ Unit(x, "engine")' = Unit(x, "engine") /\ Unit(x, "engine") \notin U,
         \A x, q \in Machines, k \in Places : tab'[x][q][k] \in {0, tab[x][q][k]} \cup U,
         \A x, n \in Machines : \A i \in 1 .. Len(chan'[x][n]) : Creates(chan'[x][n][i]) =>
           \/ chan'[x][n][i].unit \in U
           \/ \E j \in 1 .. Len(chan[x][n]) : chan[x][n][j] = chan'[x][n][i]
  PROVE  Unsaid'
<1> SUFFICES ASSUME NEW m \in Machines, Pending(m)'
             PROVE  /\ \A n \in Machines, k \in Places :
                         n # m => tab'[n][doing'[m]["engine"].player][k] # Unit(m, "engine")'
                    /\ \A x, n \in Machines : \A i \in 1 .. Len(chan'[x][n]) :
                         Creates(chan'[x][n][i]) => chan'[x][n][i].unit # Unit(m, "engine")'
                    /\ \A x \in Machines : Pending(x)' /\ x # m =>
                         Unit(x, "engine")' # Unit(m, "engine")'
  BY DEF Unsaid, Creates
<1>1. PICK u : u = Unit(m, "engine")
  OBVIOUS
<1>2. /\ Pending(m) /\ doing'[m]["engine"] = doing[m]["engine"]
      /\ Unit(m, "engine")' = u /\ u \notin U
  BY <1>1
<1>3. /\ \A n \in Machines, k \in Places : n # m => tab[n][doing[m]["engine"].player][k] # u
      /\ \A x, n \in Machines : \A i \in 1 .. Len(chan[x][n]) :
           Creates(chan[x][n][i]) => chan[x][n][i].unit # u
      /\ \A x \in Machines : Pending(x) /\ x # m => Unit(x, "engine") # u
  BY <1>1, <1>2 DEF Unsaid
<1>4. "engine" \in Threads
  BY DEF Threads
<1>5. u # 0
  BY <1>1, <1>2, <1>4 DEF Held, Busy, Pending, At
<1>6. doing[m]["engine"].player \in Machines
  BY <1>4, DoingTyped
<1>7. ASSUME NEW n \in Machines, NEW k \in Places, n # m
      PROVE  tab'[n][doing'[m]["engine"].player][k] # u
  <2>1. tab'[n][doing[m]["engine"].player][k]
          \in {0, tab[n][doing[m]["engine"].player][k]} \cup U
    BY <1>6
  <2>. QED  BY <1>2, <1>3, <1>5, <1>7, <2>1
<1>8. ASSUME NEW x \in Machines, NEW n \in Machines, NEW i \in 1 .. Len(chan'[x][n]),
             Creates(chan'[x][n][i])
      PROVE  chan'[x][n][i].unit # u
  <2>1. CASE chan'[x][n][i].unit \in U
    BY <1>2, <2>1
  <2>2. CASE \E j \in 1 .. Len(chan[x][n]) : chan[x][n][j] = chan'[x][n][i]
    <3>1. PICK j \in 1 .. Len(chan[x][n]) : chan[x][n][j] = chan'[x][n][i]
      BY <2>2
    <3>2. Creates(chan[x][n][j])
      BY <1>8, <3>1
    <3>3. chan[x][n][j].unit # u
      BY <1>3, <3>2
    <3>. QED  BY <3>1, <3>3
  <2>. QED  BY <1>8, <2>1, <2>2
<1>9. ASSUME NEW x \in Machines, Pending(x)', x # m
      PROVE  Unit(x, "engine")' # u
  BY <1>3, <1>9
<1>. QED  BY <1>2, <1>7, <1>8, <1>9

(* The engine of m has popped a slot for a unit.                           *)
LEMMA UnsaidAfterPop ==
  ASSUME Typed, Held, Fresh, Unsaid, NEW m \in Machines, NEW c \in Calls,
         c.step = "created", c.player = m, c.slot = Last(stack[m][m]),
         CallOnly(m, "engine", c), TakenOnly(m, m, born + 1), chan' = chan,
         \A x \in Machines : x # m => tab'[x] = tab[x]
  PROVE  Unsaid'
<1>1. "engine" \in Threads /\ born \in 1 .. MaxUnits
  BY DEF Threads, Typed
<1>2. \A x \in Machines : doing'[x]["engine"] = IF x = m THEN c ELSE doing[x]["engine"]
  BY <1>1 DEF CallOnly
<1>3. \A x, q \in Machines, k \in Places :
        tab'[x][q][k] = IF x = m /\ q = m /\ k = Last(stack[m][m]) THEN born + 1
                        ELSE tab[x][q][k]
  BY DEF TakenOnly
<1>4. \A x, q \in Machines, k \in Places : tab[x][q][k] \in 0 .. born
  <2>1. \A x, q \in Machines, k \in Places : tab[x][q][k] \in 0 .. MaxUnits
    BY DEF Typed
  <2>2. \A x, q \in Machines, k \in Places : tab[x][q][k] <= born
    BY DEF Fresh
  <2>. QED  BY <1>1, <2>1, <2>2
<1>5. \A x, n \in Machines : \A i \in 1 .. Len(chan[x][n]) :
        Creates(chan[x][n][i]) => chan[x][n][i].unit # born + 1
  <2>1. \A x, n \in Machines : \A i \in 1 .. Len(chan[x][n]) :
          Creates(chan[x][n][i]) => chan[x][n][i].unit <= born
    BY DEF Fresh
  <2>2. \A x, n \in Machines : \A i \in 1 .. Len(chan[x][n]) : chan[x][n][i].unit \in 1 .. MaxUnits
    BY EventTyped
  <2>3. \A u \in 1 .. MaxUnits : u <= born => u # born + 1
    BY <1>1, SyncAssumption
  <2>. QED  BY <2>1, <2>2, <2>3
<1>6. \A x \in Machines : Unit(x, "engine")' = IF x = m THEN born + 1 ELSE Unit(x, "engine")
  <2> SUFFICES ASSUME NEW x \in Machines
               PROVE  Unit(x, "engine")' = IF x = m THEN born + 1 ELSE Unit(x, "engine")
    OBVIOUS
  <2>1. Unit(x, "engine")' = tab'[x][doing'[x]["engine"].player][doing'[x]["engine"].slot]
    BY <1>1, UnitLater
  <2>2. CASE x = m
    <3>1. c.slot \in Places
      BY DEF Calls
    <3>. QED  BY <1>2, <1>3, <2>1, <2>2, <3>1
  <2>3. CASE x # m
    <3>1. doing'[x]["engine"] = doing[x]["engine"] /\ tab'[x] = tab[x]
      BY <1>2, <2>3
    <3>. QED  BY <2>1, <2>3, <3>1 DEF Unit
  <2>. QED  BY <2>2, <2>3
<1>7. \A x \in Machines : x # m => (Pending(x)' <=> Pending(x))
  BY <1>2 DEF Pending, At
<1>8. \A x \in Machines : Unit(x, "engine") \in 0 .. born
  BY <1>1, <1>4, DoingTyped DEF Unit
<1>9. ASSUME NEW x \in Machines, Pending(x)'
      PROVE  /\ \A n \in Machines, k \in Places :
                  n # x => tab'[n][doing'[x]["engine"].player][k] # Unit(x, "engine")'
             /\ \A y, n \in Machines : \A i \in 1 .. Len(chan'[y][n]) :
                  Creates(chan'[y][n][i]) => chan'[y][n][i].unit # Unit(x, "engine")'
             /\ \A y \in Machines : Pending(y)' /\ y # x =>
                  Unit(y, "engine")' # Unit(x, "engine")'
  <2>1. CASE x = m
    <3>1. Unit(x, "engine")' = born + 1 /\ doing'[x]["engine"].player = m
      BY <1>2, <1>6, <2>1
    <3>2. \A n \in Machines, k \in Places : n # x => tab'[n][m][k] # born + 1
      BY <1>1, <1>3, <1>4, <2>1
    <3>3. \A y \in Machines : y # x => Unit(y, "engine")' # born + 1
      BY <1>1, <1>6, <1>8, <2>1
    <3>. QED  BY <1>5, <3>1, <3>2, <3>3
  <2>2. CASE x # m
    <3>1. /\ Pending(x) /\ Unit(x, "engine")' = Unit(x, "engine")
          /\ doing'[x]["engine"] = doing[x]["engine"]
      BY <1>2, <1>6, <1>7, <1>9, <2>2
    <3>2. doing[x]["engine"].player \in Machines
      BY <1>1, DoingTyped
    <3>3. Unit(x, "engine") # born + 1
      BY <1>1, <1>8
    <3>4. /\ \A n \in Machines, k \in Places :
               n # x => tab[n][doing[x]["engine"].player][k] # Unit(x, "engine")
          /\ \A y, n \in Machines : \A i \in 1 .. Len(chan[y][n]) :
               Creates(chan[y][n][i]) => chan[y][n][i].unit # Unit(x, "engine")
          /\ \A y \in Machines : Pending(y) /\ y # x => Unit(y, "engine") # Unit(x, "engine")
      BY <3>1 DEF Unsaid
    <3>5. \A n \in Machines, k \in Places :
            n # x => tab'[n][doing[x]["engine"].player][k] # Unit(x, "engine")
      BY <1>3, <3>2, <3>3, <3>4
    <3>6. \A y \in Machines : Pending(y)' /\ y # x => Unit(y, "engine")' # Unit(x, "engine")
      BY <1>6, <1>7, <3>3, <3>4
    <3>. QED  BY <3>1, <3>4, <3>5, <3>6
  <2>. QED  BY <2>1, <2>2
<1>. QED  BY <1>9 DEF Unsaid, Creates

-----------------------------------------------------------------------------
(* Who says what, and who does what, stays so.                             *)
LEMMA SpeakersAfterSaid ==
  ASSUME Typed, Speakers, game' = game, NEW m \in Machines, NEW e \in Event,
         SaidOnly(m, e),
         IF Creates(e)
         THEN \/ e.player = m /\ m \in game.builders \cup game.captors
              \/ m = Server /\ e.player \in game.scripted
         ELSE e.player = m \/ m \in game.captors
  PROVE  Speakers'
<1>1. \A x, n \in Machines : \A i \in 1 .. Len(chan'[x][n]) :
        \/ i \in 1 .. Len(chan[x][n]) /\ chan'[x][n][i] = chan[x][n][i]
        \/ x = m /\ n # m /\ i = Len(chan[m][n]) + 1 /\ chan'[x][n][i] = e
  BY SaidPlaces
<1>2. \A x \in Machines : chan'[x][x] = <<>>
  BY DEF Speakers, SaidOnly
<1>3. ASSUME NEW x \in Machines, NEW n \in Machines, NEW i \in 1 .. Len(chan'[x][n])
      PROVE  IF Creates(chan'[x][n][i])
             THEN \/ chan'[x][n][i].player = x /\ x \in game'.builders \cup game'.captors
                  \/ x = Server /\ chan'[x][n][i].player \in game'.scripted
             ELSE chan'[x][n][i].player = x \/ x \in game'.captors
  <2>1. CASE i \in 1 .. Len(chan[x][n]) /\ chan'[x][n][i] = chan[x][n][i]
    BY <2>1 DEF Speakers
  <2>2. CASE x = m /\ chan'[x][n][i] = e
    BY <2>2
  <2>. QED  BY <1>1, <2>1, <2>2
<1>. QED  BY <1>2, <1>3 DEF Speakers

LEMMA SpeakersAfterLess ==
  ASSUME Typed, Speakers, game' = game, NEW m \in Machines, NEW n \in Machines,
         chan' = chan \/ HeardOnly(m, n)
  PROVE  Speakers'
<1>1. PICK d \in [Machines -> [Machines -> {0, 1}]] :
        \A x, y \in Machines : \A i \in 1 .. Len(chan'[x][y]) :
          /\ i + d[x][y] \in 1 .. Len(chan[x][y])
          /\ chan'[x][y][i] = chan[x][y][i + d[x][y]]
  BY EventsBefore
<1>2. ASSUME NEW x \in Machines PROVE chan'[x][x] = <<>>
  <2>1. chan[x][x] = <<>>
    BY DEF Speakers
  <2>2. CASE chan' = chan
    BY <2>1, <2>2
  <2>3. CASE HeardOnly(m, n)
    BY <2>1, <2>3 DEF HeardOnly
  <2>. QED  BY <2>2, <2>3
<1>3. ASSUME NEW x \in Machines, NEW y \in Machines, NEW i \in 1 .. Len(chan'[x][y])
      PROVE  IF Creates(chan'[x][y][i])
             THEN \/ chan'[x][y][i].player = x /\ x \in game'.builders \cup game'.captors
                  \/ x = Server /\ chan'[x][y][i].player \in game'.scripted
             ELSE chan'[x][y][i].player = x \/ x \in game'.captors
  <2> DEFINE j == i + d[x][y]
  <2>1. j \in 1 .. Len(chan[x][y]) /\ chan'[x][y][i] = chan[x][y][j]
    BY <1>1
  <2> HIDE DEF j
  <2>. QED  BY <2>1 DEF Speakers
<1>. QED  BY <1>2, <1>3 DEF Speakers

LEMMA CallersLater ==
  ASSUME Callers, game' = game,
         \A x \in Machines, t \in Threads :
           doing'[x][t] = doing[x][t] \/ Fits(x, t, doing'[x][t]),
         \A x, q \in Machines, k \in Places :
           <<q, k>> \in seized'[x] =>
             <<q, k>> \in seized[x] \/ (q # x /\ x \in game.captors)
  PROVE  Callers'
<1>1. \A x \in Machines, t \in Threads : Fits(x, t, doing'[x][t])
  BY DEF Callers
<1>2. \A x \in Machines, t \in Threads : Fits(x, t, doing[x][t])'
  BY <1>1 DEF Fits
<1>3. \A x, q \in Machines, k \in Places :
        <<q, k>> \in seized'[x] => q # x /\ x \in game'.captors
  BY DEF Callers
<1>. QED  BY <1>2, <1>3 DEF Callers

-----------------------------------------------------------------------------
(* The deaths a machine will hear of.                                      *)
LEMMA AnnouncedSaid ==
  ASSUME Typed, NEW m \in Machines, NEW e \in Event, SaidOnly(m, e),
         NEW n \in Machines, NEW p \in Machines, NEW k \in Places
  PROVE  Announced(n, p, k)' <=> (Announced(n, p, k) \/ (n # m /\ Names(e, p, k)))
<1>1. \A x \in Machines : \A i \in 1 .. Len(chan'[x][n]) :
        \/ i \in 1 .. Len(chan[x][n]) /\ chan'[x][n][i] = chan[x][n][i]
        \/ x = m /\ n # m /\ i = Len(chan[m][n]) + 1 /\ chan'[x][n][i] = e
  BY SaidPlaces
<1>2. ASSUME NEW x \in Machines, NEW i \in 1 .. Len(chan[x][n])
      PROVE  i \in 1 .. Len(chan'[x][n]) /\ chan'[x][n][i] = chan[x][n][i]
  <2>1. CASE x = m /\ n # m
    <3>1. chan'[x][n] = Append(chan[x][n], e) /\ chan[x][n] \in Seq(Event)
      BY <2>1 DEF SaidOnly, Typed
    <3>2. Len(chan[x][n]) \in Nat
      BY <3>1, QueueFacts
    <3>3. i \in 1 .. Len(chan[x][n]) + 1
      BY <3>2
    <3>. QED  BY <3>1, <3>3, AppendFacts
  <2>2. CASE ~ (x = m /\ n # m)
    <3>1. chan'[x][n] = chan[x][n]
      BY <2>2 DEF SaidOnly
    <3>. QED  BY <3>1
  <2>. QED  BY <2>1, <2>2
<1>3. ASSUME n # m
      PROVE  /\ Len(chan[m][n]) + 1 \in 1 .. Len(chan'[m][n])
             /\ chan'[m][n][Len(chan[m][n]) + 1] = e
  <2>1. chan'[m][n] = Append(chan[m][n], e) /\ chan[m][n] \in Seq(Event)
    BY <1>3 DEF SaidOnly, Typed
  <2>2. Len(chan[m][n]) \in Nat
    BY <2>1, QueueFacts
  <2>. QED  BY <2>1, <2>2, AppendFacts
<1>4. ASSUME Announced(n, p, k)'
      PROVE  Announced(n, p, k) \/ (n # m /\ Names(e, p, k))
  <2>1. PICK x \in Machines : \E i \in 1 .. Len(chan'[x][n]) : Names(chan'[x][n][i], p, k)
    BY <1>4 DEF Announced, Names, Creates
  <2>2. PICK i \in 1 .. Len(chan'[x][n]) : Names(chan'[x][n][i], p, k)
    BY <2>1
  <2>. QED  BY <1>1, <2>2 DEF Announced
<1>5. ASSUME Announced(n, p, k)
      PROVE  Announced(n, p, k)'
  <2>1. PICK x \in Machines : \E i \in 1 .. Len(chan[x][n]) : Names(chan[x][n][i], p, k)
    BY <1>5 DEF Announced
  <2>2. PICK i \in 1 .. Len(chan[x][n]) : Names(chan[x][n][i], p, k)
    BY <2>1
  <2>3. i \in 1 .. Len(chan'[x][n]) /\ Names(chan'[x][n][i], p, k)
    BY <1>2, <2>2
  <2>. QED  BY <2>3 DEF Announced, Names, Creates
<1>6. ASSUME n # m, Names(e, p, k)
      PROVE  Announced(n, p, k)'
  <2>1. /\ Len(chan[m][n]) + 1 \in 1 .. Len(chan'[m][n])
        /\ Names(chan'[m][n][Len(chan[m][n]) + 1], p, k)
    BY <1>3, <1>6
  <2>. QED  BY <2>1 DEF Announced, Names, Creates
<1>. QED  BY <1>4, <1>5, <1>6

LEMMA AnnouncedHeard ==
  ASSUME Typed, NEW m \in Machines, NEW n \in Machines, HeardOnly(m, n),
         NEW y \in Machines, NEW p \in Machines, NEW k \in Places
  PROVE  /\ Announced(y, p, k)' => Announced(y, p, k)
         /\ Announced(y, p, k) =>
              Announced(y, p, k)' \/ (y = n /\ Names(Head(chan[m][n]), p, k))
         /\ Names(Head(chan[m][n]), p, k) => Announced(n, p, k)
<1>1. chan[m][n] \in Seq(Event) /\ chan[m][n] # <<>>
  BY DEF Typed, HeardOnly
<1>2. /\ Len(chan[m][n]) \in Nat \ {0} /\ Head(chan[m][n]) = chan[m][n][1]
      /\ Len(Tail(chan[m][n])) = Len(chan[m][n]) - 1
      /\ \A i \in 1 .. Len(Tail(chan[m][n])) : Tail(chan[m][n])[i] = chan[m][n][i + 1]
  BY <1>1, TailFacts
<1>3. ASSUME Announced(y, p, k)'
      PROVE  Announced(y, p, k)
  <2>1. PICK d \in [Machines -> [Machines -> {0, 1}]] :
          \A x, z \in Machines : \A i \in 1 .. Len(chan'[x][z]) :
            /\ i + d[x][z] \in 1 .. Len(chan[x][z])
            /\ chan'[x][z][i] = chan[x][z][i + d[x][z]]
    <3>1. chan' = chan \/ HeardOnly(m, n)
      OBVIOUS
    <3>2. \E d \in [Machines -> [Machines -> {0, 1}]] :
            /\ HeardOnly(m, n) => d[m][n] = 1
            /\ \A x, z \in Machines : \A i \in 1 .. Len(chan'[x][z]) :
                 /\ i + d[x][z] \in 1 .. Len(chan[x][z])
                 /\ chan'[x][z][i] = chan[x][z][i + d[x][z]]
      BY <3>1, EventsBefore
    <3>. QED  BY <3>2
  <2>2. PICK x \in Machines : \E i \in 1 .. Len(chan'[x][y]) : Names(chan'[x][y][i], p, k)
    BY <1>3 DEF Announced, Names, Creates
  <2>3. PICK i \in 1 .. Len(chan'[x][y]) : Names(chan'[x][y][i], p, k)
    BY <2>2
  <2>4. /\ i + d[x][y] \in 1 .. Len(chan[x][y])
        /\ Names(chan[x][y][i + d[x][y]], p, k)
    BY <2>1, <2>3
  <2>. QED  BY <2>4 DEF Announced
<1>4. ASSUME Announced(y, p, k)
      PROVE  Announced(y, p, k)' \/ (y = n /\ Names(Head(chan[m][n]), p, k))
  <2>1. PICK x \in Machines : \E i \in 1 .. Len(chan[x][y]) : Names(chan[x][y][i], p, k)
    BY <1>4 DEF Announced
  <2>2. PICK i \in 1 .. Len(chan[x][y]) : Names(chan[x][y][i], p, k)
    BY <2>1
  <2>3. CASE x = m /\ y = n /\ i = 1
    BY <1>2, <2>2, <2>3
  <2>4. CASE x = m /\ y = n /\ i # 1
    <3>1. i - 1 \in 1 .. Len(Tail(chan[m][n])) /\ i - 1 + 1 = i
      BY <1>2, <2>4
    <3>2. Tail(chan[m][n])[i - 1] = chan[m][n][i]
      BY <1>2, <3>1
    <3>3. chan'[x][y] = Tail(chan[m][n])
      BY <2>4 DEF HeardOnly
    <3>4. i - 1 \in 1 .. Len(chan'[x][y]) /\ Names(chan'[x][y][i - 1], p, k)
      BY <2>2, <2>4, <3>1, <3>2, <3>3
    <3>. QED  BY <3>4 DEF Announced, Names, Creates
  <2>5. CASE ~ (x = m /\ y = n)
    <3>1. chan'[x][y] = chan[x][y]
      BY <2>5 DEF HeardOnly
    <3>2. i \in 1 .. Len(chan'[x][y]) /\ Names(chan'[x][y][i], p, k)
      BY <2>2, <3>1
    <3>. QED  BY <3>2 DEF Announced, Names, Creates
  <2>. QED  BY <2>3, <2>4, <2>5
<1>5. ASSUME Names(Head(chan[m][n]), p, k)
      PROVE  Announced(n, p, k)
  <2>1. 1 \in 1 .. Len(chan[m][n]) /\ Names(chan[m][n][1], p, k)
    BY <1>2, <1>5
  <2>. QED  BY <2>1 DEF Announced
<1>. QED  BY <1>3, <1>4, <1>5

LEMMA NothingBuilt ==
  ASSUME Speakers, NEW p \in Machines, BuildsNothing(p),
         NEW m \in Machines, NEW n \in Machines, NEW i \in 1 .. Len(chan[m][n]),
         Creates(chan[m][n][i])
  PROVE  chan[m][n][i].player # p
BY DEF Speakers, BuildsNothing

(* A unit that was on its way out remains so, and it is so for everyone.   *)
LEMMA DoomedLater ==
  ASSUME Doomed, game' = game,
         \A p \in Machines : BuildsNothing(p) => \A k \in Places :
           /\ \A n \in Machines : tab'[n][p][k] \in {0, tab[n][p][k]}
           /\ \/ \A n \in Machines : OnItsWay(n, p, k)'
              \/ \A n \in Machines : OnItsWay(n, p, k)' <=> OnItsWay(n, p, k)
  PROVE  Doomed'
<1>1. SUFFICES ASSUME NEW p \in Machines, BuildsNothing(p), NEW k \in Places
               PROVE  /\ \A n \in Machines : tab'[n][p][k] \in {0, First(k)}
                      /\ \A m, n \in Machines : OnItsWay(m, p, k)' => OnItsWay(n, p, k)'
  <2>1. \A p \in Machines : BuildsNothing(p)' <=> BuildsNothing(p)
    BY DEF BuildsNothing
  <2>. QED  BY <2>1 DEF Doomed, First
<1>2. \A n \in Machines : tab'[n][p][k] \in {0, First(k)}
  BY <1>1 DEF Doomed
<1>3. \A m, n \in Machines : OnItsWay(m, p, k) => OnItsWay(n, p, k)
  BY <1>1 DEF Doomed
<1>4. CASE \A n \in Machines : OnItsWay(n, p, k)'
  BY <1>2, <1>4
<1>5. CASE \A n \in Machines : OnItsWay(n, p, k)' <=> OnItsWay(n, p, k)
  BY <1>2, <1>3, <1>5
<1>. QED  BY <1>1, <1>2, <1>4, <1>5

LEMMA WayLater ==
  ASSUME NEW n \in Machines, NEW p \in Machines, NEW k \in Places
  PROVE  OnItsWay(n, p, k)' <=> tab'[n][p][k] = 0 \/ Dying(n, p, k)' \/ Announced(n, p, k)'
BY DEF OnItsWay

LEMMA DyingLater ==
  ASSUME NEW m \in Machines, NEW t \in Threads, NEW c, CallOnly(m, t, c),
         NEW n \in Machines, NEW p \in Machines, NEW k \in Places
  PROVE  /\ n # m \/ (Dies(c, p, k) <=> Dies(doing[m][t], p, k)) =>
               (Dying(n, p, k)' <=> Dying(n, p, k))
         /\ n = m /\ Dies(c, p, k) => Dying(n, p, k)'
<1>1. Dying(n, p, k)' <=> \E x \in Threads : Dies(doing'[n][x], p, k)
  BY DEF Dying, Dies
<1>2. \A x \in Threads : doing'[n][x] = IF n = m /\ x = t THEN c ELSE doing[n][x]
  BY DEF CallOnly
<1>3. ASSUME n # m \/ (Dies(c, p, k) <=> Dies(doing[m][t], p, k)), NEW x \in Threads
      PROVE  Dies(doing'[n][x], p, k) <=> Dies(doing[n][x], p, k)
  BY <1>2, <1>3
<1>4. ASSUME n = m, Dies(c, p, k)
      PROVE  Dying(n, p, k)'
  BY <1>1, <1>2, <1>4
<1>. QED  BY <1>1, <1>3, <1>4 DEF Dying

(* Nothing happens to the units of a player who builds nothing.            *)
LEMMA DoomedKept ==
  ASSUME Doomed, game' = game,
         \A q \in Machines : BuildsNothing(q) => \A n \in Machines, k \in Places :
           /\ tab'[n][q][k] = tab[n][q][k]
           /\ Dying(n, q, k)' <=> Dying(n, q, k)
           /\ Announced(n, q, k)' <=> Announced(n, q, k)
  PROVE  Doomed'
<1>1. ASSUME NEW q \in Machines, BuildsNothing(q), NEW k \in Places, NEW n \in Machines
      PROVE  /\ tab'[n][q][k] \in {0, tab[n][q][k]}
             /\ OnItsWay(n, q, k)' <=> OnItsWay(n, q, k)
  <2>1. /\ tab'[n][q][k] = tab[n][q][k]
        /\ Dying(n, q, k)' <=> Dying(n, q, k)
        /\ Announced(n, q, k)' <=> Announced(n, q, k)
    BY <1>1
  <2>. QED  BY <2>1, WayLater DEF OnItsWay
<1>. QED  BY <1>1, DoomedLater

LEMMA DoomedAfterSending ==
  ASSUME Typed, Doomed, game' = game, tab' = tab, NEW m \in Machines, NEW t \in Threads,
         NEW p \in Machines, NEW k \in Places, NEW c, CallOnly(m, t, c), Dies(c, p, k),
         doing[m][t].step = "found", NEW e \in Event, SaidOnly(m, e), Names(e, p, k)
  PROVE  Doomed'
<1>1. ASSUME NEW n \in Machines
      PROVE  OnItsWay(n, p, k)'
  <2>1. CASE n = m
    <3>1. Dying(n, p, k)'
      BY <2>1, DyingLater
    <3>. QED  BY <3>1, WayLater
  <2>2. CASE n # m
    <3>1. Announced(n, p, k)'
      BY <2>2, AnnouncedSaid
    <3>. QED  BY <3>1, WayLater
  <2>. QED  BY <2>1, <2>2
<1>2. ASSUME NEW q \in Machines, NEW j \in Places, q # p \/ j # k, NEW n \in Machines
      PROVE  OnItsWay(n, q, j)' <=> OnItsWay(n, q, j)
  <2>1. ~ Names(e, q, j) /\ ~ Dies(c, q, j) /\ ~ Dies(doing[m][t], q, j)
    BY <1>2 DEF Names, Dies
  <2>2. Announced(n, q, j)' <=> Announced(n, q, j)
    BY <2>1, AnnouncedSaid
  <2>3. Dying(n, q, j)' <=> Dying(n, q, j)
    BY <2>1, DyingLater
  <2>. QED  BY <2>2, <2>3, WayLater DEF OnItsWay
<1>3. ASSUME NEW q \in Machines, NEW j \in Places
      PROVE  /\ \A n \in Machines : tab'[n][q][j] \in {0, tab[n][q][j]}
             /\ \/ \A n \in Machines : OnItsWay(n, q, j)'
                \/ \A n \in Machines : OnItsWay(n, q, j)' <=> OnItsWay(n, q, j)
  <2>1. CASE q = p /\ j = k
    BY <1>1, <2>1
  <2>2. CASE q # p \/ j # k
    BY <1>2, <2>2
  <2>. QED  BY <2>1, <2>2
<1>. QED  BY <1>3, DoomedLater

LEMMA DoomedAfterRelease ==
  ASSUME Typed, Doomed, game' = game, chan' = chan, NEW m \in Machines, NEW t \in Threads,
         NEW p \in Machines, NEW k \in Places, CallOnly(m, t, Idle),
         doing[m][t].player = p, doing[m][t].slot = k, doing[m][t].step = "dying",
         FreedOnly(m, p, k)
  PROVE  Doomed'
<1>1. \A n, q \in Machines, j \in Places :
        tab'[n][q][j] = IF n = m /\ q = p /\ j = k THEN 0 ELSE tab[n][q][j]
  BY DEF FreedOnly
<1>2. ASSUME NEW q \in Machines, NEW j \in Places, NEW n \in Machines
      PROVE  /\ tab'[n][q][j] \in {0, tab[n][q][j]}
             /\ OnItsWay(n, q, j)' <=> OnItsWay(n, q, j)
  <2>1. Announced(n, q, j)' <=> Announced(n, q, j)
    BY DEF Announced, Names, Creates
  <2>2. CASE n = m /\ q = p /\ j = k
    <3>1. tab'[n][q][j] = 0
      BY <1>1, <2>2
    <3>2. Dying(n, q, j)
      BY <2>2 DEF Dying, Dies
    <3>. QED  BY <3>1, <3>2, WayLater DEF OnItsWay
  <2>3. CASE ~ (n = m /\ q = p /\ j = k)
    <3>1. tab'[n][q][j] = tab[n][q][j]
      BY <1>1, <2>3
    <3>2. n # m \/ (Dies(Idle, q, j) <=> Dies(doing[m][t], q, j))
      BY <2>3, IdleTyped DEF Dies
    <3>3. Dying(n, q, j)' <=> Dying(n, q, j)
      BY <3>2, DyingLater
    <3>. QED  BY <2>1, <3>1, <3>3, WayLater DEF OnItsWay
  <2>. QED  BY <2>2, <2>3
<1>. QED  BY <1>2, DoomedLater

(* The handled event is a death that is carried out or was already, or is  *)
(* none of a player who builds nothing.                                    *)
LEMMA DoomedAfterHearing ==
  ASSUME Typed, Doomed, game' = game, NEW m \in Machines, NEW n \in Machines, HeardOnly(m, n),
         \A q \in Machines : BuildsNothing(q) => \A x \in Machines, j \in Places :
            /\ tab'[x][q][j] = tab[x][q][j]
            /\ IF x = n /\ Names(Head(chan[m][n]), q, j)
               THEN tab'[x][q][j] = 0 \/ Dying(x, q, j)'
               ELSE Dying(x, q, j)' <=> Dying(x, q, j)
  PROVE  Doomed'
<1>1. ASSUME NEW q \in Machines, BuildsNothing(q), NEW j \in Places, NEW x \in Machines
      PROVE  /\ tab'[x][q][j] \in {0, tab[x][q][j]}
             /\ OnItsWay(x, q, j)' <=> OnItsWay(x, q, j)
  <2>1. /\ Announced(x, q, j)' => Announced(x, q, j)
        /\ Announced(x, q, j) =>
             Announced(x, q, j)' \/ (x = n /\ Names(Head(chan[m][n]), q, j))
        /\ Names(Head(chan[m][n]), q, j) => Announced(n, q, j)
    BY AnnouncedHeard
  <2>2. /\ tab'[x][q][j] = tab[x][q][j]
        /\ IF x = n /\ Names(Head(chan[m][n]), q, j)
           THEN tab'[x][q][j] = 0 \/ Dying(x, q, j)'
           ELSE Dying(x, q, j)' <=> Dying(x, q, j)
    BY <1>1
  <2>. QED  BY <2>1, <2>2, WayLater DEF OnItsWay
<1>. QED  BY <1>1, DoomedLater

-----------------------------------------------------------------------------
(* The way of a player whose units it alone creates.                       *)
(* The way of a player whose units it alone creates.                       *)
LEMMA FilledByTake ==
  ASSUME Typed, NEW m \in Machines, NEW p \in Machines, NEW u, TakenOnly(m, p, u)
  PROVE  /\ Copy(m, p)' = Filled(Copy(m, p), u) /\ Copy(m, p)' \in Copies
         /\ Copy(m, p).stack # <<>> /\ Last(Copy(m, p).stack) = Last(stack[m][p])
<1>1. stack'[m][p] = Front(stack[m][p]) /\ stack[m][p] # <<>>
  BY DEF TakenOnly
<1>2. tab'[m][p] = [tab[m][p] EXCEPT ![Last(stack[m][p])] = u]
  BY DEF TakenOnly
<1>3. stack'[m][p] \in Seq(Places) /\ tab'[m][p] \in [Places -> 0 .. MaxUnits]
  <2>1. /\ stack' \in [Machines -> [Machines -> Seq(Places)]]
        /\ tab' \in [Machines -> [Machines -> [Places -> 0 .. MaxUnits]]]
    BY DEF TakenOnly
  <2>. QED  BY <2>1
<1>4. Copy(m, p).stack = stack[m][p] /\ Copy(m, p).tab = tab[m][p]
  BY CopyTyped
<1> HIDE DEF Places
<1>5. Copy(m, p)' = [stack |-> stack'[m][p], tab |-> tab'[m][p]]
  BY DEF Copy
<1>. QED  BY <1>1, <1>2, <1>3, <1>4, <1>5 DEF Filled, Copies

LEMMA FreedByRelease ==
  ASSUME Typed, NEW m \in Machines, NEW p \in Machines, NEW k \in Places,
         FreedOnly(m, p, k)
  PROVE  Copy(m, p)' = Freed(Copy(m, p), k) /\ Copy(m, p)' \in Copies
<1>1. stack'[m][p] = Append(stack[m][p], k) /\ tab'[m][p] = [tab[m][p] EXCEPT ![k] = 0]
  BY DEF FreedOnly
<1>2. stack'[m][p] \in Seq(Places) /\ tab'[m][p] \in [Places -> 0 .. MaxUnits]
  <2>1. /\ stack' \in [Machines -> [Machines -> Seq(Places)]]
        /\ tab' \in [Machines -> [Machines -> [Places -> 0 .. MaxUnits]]]
    BY DEF FreedOnly
  <2>. QED  BY <2>1
<1>3. Copy(m, p).stack = stack[m][p] /\ Copy(m, p).tab = tab[m][p]
  BY CopyTyped
<1> HIDE DEF Places
<1>4. Copy(m, p)' = [stack |-> stack'[m][p], tab |-> tab'[m][p]]
  BY DEF Copy
<1>. QED  BY <1>1, <1>2, <1>3, <1>4 DEF Freed, Copies

(* The last of a queue taken off and put back, or the other way round.     *)
LEMMA BackAgain ==
  ASSUME NEW S, NEW q \in Seq(S), q # <<>>
  PROVE  Append(Front(q), Last(q)) = q /\ Last(q) \in S
<1>1. /\ Len(q) \in Nat \ {0} /\ Last(q) = q[Len(q)] /\ Last(q) \in S
      /\ Front(q) \in Seq(S) /\ Len(Front(q)) = Len(q) - 1
      /\ \A i \in 1 .. Len(q) - 1 : Front(q)[i] = q[i]
  BY FrontFacts
<1> DEFINE a == Append(Front(q), Last(q))
<1>2. /\ a \in Seq(S) /\ Len(a) = Len(Front(q)) + 1
      /\ \A i \in 1 .. Len(Front(q)) + 1 :
           /\ i \in 1 .. Len(Front(q)) \/ i = Len(Front(q)) + 1
           /\ a[i] = IF i \in 1 .. Len(Front(q)) THEN Front(q)[i] ELSE Last(q)
  BY <1>1, AppendFacts
<1> HIDE DEF a
<1>3. Len(a) = Len(q)
  BY <1>1, <1>2
<1>4. \A i \in 1 .. Len(q) : a[i] = q[i]
  BY <1>1, <1>2
<1>5. a = q
  BY <1>2, <1>3, <1>4, SeqEqual
<1>. QED  BY <1>1, <1>5 DEF a

LEMMA ForthAgain ==
  ASSUME NEW S, NEW q \in Seq(S), NEW k \in S
  PROVE  Append(q, k) # <<>> /\ Last(Append(q, k)) = k /\ Front(Append(q, k)) = q
<1> DEFINE a == Append(q, k)
<1>1. /\ a \in Seq(S) /\ Len(a) = Len(q) + 1 /\ Len(q) \in Nat
      /\ \A i \in 1 .. Len(q) + 1 :
           /\ i \in 1 .. Len(q) \/ i = Len(q) + 1
           /\ a[i] = IF i \in 1 .. Len(q) THEN q[i] ELSE k
  BY AppendFacts, QueueFacts
<1> HIDE DEF a
<1>2. a # <<>>
  BY <1>1, QueueFacts
<1>3. /\ Last(a) = a[Len(a)] /\ Front(a) \in Seq(S) /\ Len(Front(a)) = Len(a) - 1
      /\ \A i \in 1 .. Len(a) - 1 : Front(a)[i] = a[i]
  BY <1>1, <1>2, FrontFacts
<1>4. Last(a) = k
  BY <1>1, <1>3
<1>5. Len(Front(a)) = Len(q) /\ \A i \in 1 .. Len(q) : Front(a)[i] = q[i]
  BY <1>1, <1>3
<1>6. Front(a) = q
  BY <1>3, <1>5, SeqEqual
<1>. QED  BY <1>2, <1>4, <1>6 DEF a

(* A slot that was just filled, without what is in it, is free again.      *)
LEMMA FreedFilled ==
  ASSUME NEW s \in Copies, s.stack # <<>>, NEW u, NEW k, k = Last(s.stack), s.tab[k] = 0
  PROVE  Freed(Filled(s, u), k) = s
<1>1. s.stack \in Seq(Places) /\ s.tab \in [Places -> 0 .. MaxUnits]
  BY DEF Copies
<1> HIDE DEF Places
<1>2. Append(Front(s.stack), k) = s.stack /\ k \in Places
  BY <1>1, BackAgain
<1>3. [[s.tab EXCEPT ![k] = u] EXCEPT ![k] = 0] = s.tab
  BY <1>1, <1>2
<1>4. s = [stack |-> s.stack, tab |-> s.tab]
  BY DEF Copies
<1>. QED  BY <1>2, <1>3, <1>4 DEF Freed, Filled

(* A slot that was just freed and is filled again with what was in it.     *)
LEMMA FilledFreed ==
  ASSUME NEW s \in Copies, NEW k \in Places, NEW u, u = s.tab[k]
  PROVE  /\ Freed(s, k).stack # <<>> /\ Last(Freed(s, k).stack) = k
         /\ Filled(Freed(s, k), u) = s
<1>1. s.stack \in Seq(Places) /\ s.tab \in [Places -> 0 .. MaxUnits]
  BY DEF Copies
<1> HIDE DEF Places
<1>2. /\ Append(s.stack, k) # <<>> /\ Last(Append(s.stack, k)) = k
      /\ Front(Append(s.stack, k)) = s.stack
  BY <1>1, ForthAgain
<1>3. [[s.tab EXCEPT ![k] = 0] EXCEPT ![k] = u] = s.tab
  BY <1>1
<1>4. s = [stack |-> s.stack, tab |-> s.tab]
  BY DEF Copies
<1>5. /\ Freed(s, k).stack = Append(s.stack, k)
      /\ Freed(s, k).tab = [s.tab EXCEPT ![k] = 0]
  BY DEF Freed
<1>. QED  BY <1>2, <1>3, <1>4, <1>5 DEF Filled

(* An event about a player who alone creates and kills its units comes     *)
(* from that player.                                                       *)
LEMMA AloneSpeaks ==
  ASSUME Speakers, NEW m \in Machines, NEW n \in Machines, NEW i \in 1 .. Len(chan[m][n]),
         NEW q \in Machines, OwnsAlone(q), chan[m][n][i].player = q
  PROVE  m = q
<1>1. CASE Creates(chan[m][n][i])
  <2>1. \/ chan[m][n][i].player = m
        \/ m = Server /\ chan[m][n][i].player \in game.scripted
    BY <1>1 DEF Speakers
  <2>. QED  BY <2>1 DEF OwnsAlone
<1>2. CASE ~ Creates(chan[m][n][i])
  <2>1. chan[m][n][i].player = m \/ m \in game.captors
    BY <1>2 DEF Speakers
  <2>. QED  BY <2>1 DEF OwnsAlone
<1>. QED  BY <1>1, <1>2

LEMMA HeadEvent ==
  ASSUME Typed, NEW m \in Machines, NEW n \in Machines, chan[m][n] # <<>>
  PROVE  /\ 1 \in 1 .. Len(chan[m][n]) /\ chan[m][n][1] = Head(chan[m][n])
         /\ Head(chan[m][n]) \in Event
         /\ Head(chan[m][n]).player \in Machines /\ Head(chan[m][n]).slot \in Places
         /\ Head(chan[m][n]).unit \in 1 .. MaxUnits
<1>1. chan[m][n] \in Seq(Event)
  BY DEF Typed
<1>2. Len(chan[m][n]) \in Nat \ {0} /\ Head(chan[m][n]) = chan[m][n][1]
  BY <1>1, TailFacts
<1>3. 1 \in 1 .. Len(chan[m][n])
  BY <1>2
<1>. QED  BY <1>2, <1>3, EventTyped

(* Such a player's units are dealt with elsewhere because of his events.   *)
LEMMA AloneHalves ==
  ASSUME Typed, Callers, NEW q \in Machines, OwnsAlone(q), NEW x \in Machines, x # q,
         At(x, "net", "idle")
  PROVE  Halves(x, q) = {}
<1>1. ASSUME NEW t \in Threads, Busy(x, t), doing[x][t].player = q
      PROVE  At(x, t, "found")
  <2>1. t # "net"
    BY <1>1 DEF At, Busy
  <2>2. Fits(x, t, doing[x][t])
    BY DEF Callers
  <2>3. x \notin game.captors
    BY DEF OwnsAlone
  <2>4. doing[x][t].step \in {"idle", "created", "found", "dying"}
    BY DoingTyped
  <2>. QED  BY <1>1, <2>1, <2>2, <2>3, <2>4 DEF Fits, At, Busy
<1>. QED  BY <1>1, HalvesNone

LEMMA MirroredLater ==
  ASSUME game' = game,
         ~ raced' => \A q, n \in Machines : OwnsAlone(q) /\ n # q =>
           Follows(q, chan'[q][n], Settled(n, q)', Settled(q, q)')
  PROVE  Mirrored'
<1>1. \A q \in Machines : OwnsAlone(q)' <=> OwnsAlone(q)
  BY DEF OwnsAlone
<1>2. \A q, n \in Machines :
        Follows(q, chan[q][n], Settled(n, q), Settled(q, q))'
          <=> Follows(q, chan'[q][n], Settled(n, q)', Settled(q, q)')
  BY DEF Follows, Leads, Creates, Freed, Filled
<1>. QED  BY <1>1, <1>2 DEF Mirrored

(* Nothing is said, and nobody's units are other than they were.           *)
LEMMA MirroredSame ==
  ASSUME Mirrored, ~ raced, game' = game, chan' = chan,
         ~ raced' => \A x, q \in Machines : Settled(x, q)' = Settled(x, q)
  PROVE  Mirrored'
<1>1. ASSUME ~ raced', NEW q \in Machines, NEW n \in Machines, OwnsAlone(q), n # q
      PROVE  Follows(q, chan'[q][n], Settled(n, q)', Settled(q, q)')
  <2>1. Follows(q, chan[q][n], Settled(n, q), Settled(q, q))
    BY <1>1 DEF Mirrored
  <2>2. Settled(n, q)' = Settled(n, q) /\ Settled(q, q)' = Settled(q, q)
    BY <1>1
  <2>. QED  BY <2>1, <2>2
<1>. QED  BY <1>1, MirroredLater

LEMMA AllSettledTyped == Typed => \A m, p \in Machines : Settled(m, p) \in Copies
BY SettledTyped

LEMMA AllSettledTypedLater ==
  Typed' => \A m, p \in Machines : Settled(m, p)' \in Copies
<1>1. Typed' => (\A m, p \in Machines : Settled(m, p) \in Copies)'
  BY AllSettledTyped, PTL
<1>. QED  BY <1>1 DEF Copies

(* Machine m says what it did with its units.                              *)
LEMMA MirroredAfterSaid ==
  ASSUME Typed, Typed', Mirrored, ~ raced, game' = game, NEW m \in Machines,
         NEW e \in Event, SaidOnly(m, e),
         ~ raced' => \A x, q \in Machines : OwnsAlone(q) /\ (x # m \/ q # m) =>
           Settled(x, q)' = Settled(x, q),
         ~ raced' /\ OwnsAlone(m) => Leads(m, Settled(m, m), e, Settled(m, m)')
  PROVE  Mirrored'
<1>1. ASSUME ~ raced', NEW q \in Machines, NEW n \in Machines, OwnsAlone(q), n # q
      PROVE  Follows(q, chan'[q][n], Settled(n, q)', Settled(q, q)')
  <2>1. /\ Follows(q, chan[q][n], Settled(n, q), Settled(q, q))
        /\ chan[q][n] \in Seq(Event)
    BY <1>1 DEF Mirrored, Typed
  <2>2. Settled(n, q)' = Settled(n, q)
    BY <1>1
  <2>3. CASE q = m
    <3>1. chan'[q][n] = Append(chan[q][n], e)
      BY <1>1, <2>3 DEF SaidOnly
    <3>2. Leads(q, Settled(q, q), e, Settled(q, q)')
      BY <1>1, <2>3
    <3>3. Settled(q, q) \in Copies
      BY SettledTyped
    <3>4. PICK w \in Copies : w = Settled(q, q)'
      BY AllSettledTypedLater
    <3>5. Follows(q, Append(chan[q][n], e), Settled(n, q), w)
      BY <2>1, <3>2, <3>3, <3>4, FollowsExtended
    <3>. QED  BY <2>2, <3>1, <3>4, <3>5
  <2>4. CASE q # m
    <3>1. chan'[q][n] = chan[q][n]
      BY <2>4 DEF SaidOnly
    <3>2. Settled(q, q)' = Settled(q, q)
      BY <1>1, <2>4
    <3>. QED  BY <2>1, <2>2, <3>1, <3>2
  <2>. QED  BY <2>3, <2>4
<1>. QED  BY <1>1, MirroredLater

(* Machine n has heard something of m.                                     *)
LEMMA MirroredAfterHeard ==
  ASSUME Typed, Mirrored, Speakers, ~ raced, game' = game, NEW m \in Machines, NEW n \in Machines,
         HeardOnly(m, n),
         ~ raced' => \A x, q \in Machines : OwnsAlone(q) /\ (x # n \/ q # m) =>
           Settled(x, q)' = Settled(x, q),
         ~ raced' /\ OwnsAlone(m) /\ n # m =>
           \A w \in Copies : Leads(m, Settled(n, m), Head(chan[m][n]), w) => Settled(n, m)' = w
  PROVE  Mirrored'
<1>1. chan[m][n] # <<>>
  BY DEF HeardOnly
<1>2. m # n
  BY <1>1 DEF Speakers
<1>3. ASSUME ~ raced', NEW q \in Machines, NEW y \in Machines, OwnsAlone(q), y # q
      PROVE  Follows(q, chan'[q][y], Settled(y, q)', Settled(q, q)')
  <2>1. /\ Follows(q, chan[q][y], Settled(y, q), Settled(q, q))
        /\ chan[q][y] \in Seq(Event)
    BY <1>3 DEF Mirrored, Typed
  <2>2. Settled(q, q)' = Settled(q, q)
    BY <1>2, <1>3
  <2>3. CASE m = q /\ y = n
    <3>1. PICK w \in Copies : /\ Leads(q, Settled(n, q), Head(chan[q][n]), w)
                              /\ Follows(q, Tail(chan[q][n]), w, Settled(q, q))
      BY <1>1, <2>1, <2>3, FollowsTail
    <3>2. Settled(n, q)' = w
      BY <1>3, <2>3, <3>1
    <3>3. chan'[q][n] = Tail(chan[q][n])
      BY <2>3 DEF HeardOnly
    <3>. QED  BY <2>2, <2>3, <3>1, <3>2, <3>3
  <2>4. CASE ~ (m = q /\ y = n)
    <3>1. chan'[q][y] = chan[q][y]
      BY <2>4 DEF HeardOnly
    <3>2. Settled(y, q)' = Settled(y, q)
      BY <1>3, <2>4
    <3>. QED  BY <2>1, <2>2, <3>1, <3>2
  <2>. QED  BY <2>3, <2>4
<1>. QED  BY <1>3, MirroredLater

(* What a machine has of the players a step is not about.                  *)
LEMMA SettledElsewhere ==
  ASSUME NEW m \in Machines, NEW t \in Threads, NEW p \in Machines, NEW c, CallOnly(m, t, c),
         \A k \in Places, q \in Machines : q # p => (Half(c, q, k) <=> Half(doing[m][t], q, k)),
         \A x, q \in Machines : x # m \/ q # p =>
           stack'[x][q] = stack[x][q] /\ tab'[x][q] = tab[x][q],
         NEW x \in Machines, NEW q \in Machines, x # m \/ q # p
  PROVE  Settled(x, q)' = Settled(x, q)
<1>1. Halves(x, q)' = Halves(x, q)
  <2>1. x # m \/ \A k \in Places : Half(c, q, k) <=> Half(doing[m][t], q, k)
    OBVIOUS
  <2>. QED  BY <2>1, HalvesSame
<1>. QED  BY <1>1, SettledSame

LEMMA SettledUnmoved ==
  ASSUME doing' = doing, NEW m \in Machines, NEW p \in Machines,
         \A x, q \in Machines : x # m \/ q # p =>
           stack'[x][q] = stack[x][q] /\ tab'[x][q] = tab[x][q],
         NEW x \in Machines, NEW q \in Machines, x # m \/ q # p
  PROVE  Settled(x, q)' = Settled(x, q)
BY HalvesUnchanged, SettledSame

LEMMA SettledLater ==
  ASSUME NEW m \in Machines, NEW p \in Machines
  PROVE  /\ Halves(m, p)' = {} => Settled(m, p)' = Copy(m, p)'
         /\ \A k : Halves(m, p)' = {k} => Settled(m, p)' = Freed(Copy(m, p)', k)
         /\ Halves(m, p) = {} => Settled(m, p) = Copy(m, p)
         /\ \A k : Halves(m, p) = {k} => Settled(m, p) = Freed(Copy(m, p), k)
<1>1. Settled(m, p)' = Settles(Halves(m, p)', Copy(m, p)')
  BY DEF Settled, Settles, Freed
<1>2. Settled(m, p) = Settles(Halves(m, p), Copy(m, p))
  BY DEF Settled
<1>3. \A k, c : Settles({k}, c) = Freed(c, k) /\ Settles({}, c) = c
  BY SettlesOne
<1>. QED  BY <1>1, <1>2, <1>3

LEMMA FreeSame ==
  ASSUME Free, stack' = stack, tab' = tab
  PROVE  Free'
BY DEF Free

LEMMA FitsIdle ==
  ASSUME NEW m \in Machines, NEW t \in Threads
  PROVE  Fits(m, t, Idle)
BY IdleTyped DEF Fits

(* The units threads are busy with are not in slots that are taken.        *)
LEMMA UnitAfterTake ==
  ASSUME Typed, Free, Held, NEW m \in Machines, NEW p \in Machines, NEW u,
         TakenOnly(m, p, u), NEW x \in Machines, NEW t \in Threads, Busy(x, t),
         doing'[x][t] = doing[x][t]
  PROVE  Unit(x, t)' = Unit(x, t)
<1>1. doing[x][t].player \in Machines /\ doing[x][t].slot \in Places
  BY DoingTyped
<1>2. Unit(x, t) # 0
  BY DEF Held
<1>3. tab[m][p][Last(stack[m][p])] = 0
  <2>1. PICK s \in Seq(Places) : s = stack[m][p] /\ s # <<>>
    BY DEF Typed, TakenOnly
  <2>2. Len(s) \in Nat \ {0} /\ Last(s) = s[Len(s)]
    BY <2>1, FrontFacts
  <2>3. Len(s) \in 1 .. Len(s)
    BY <2>2
  <2>4. \A i \in 1 .. Len(s) : tab[m][p][s[i]] = 0
    BY <2>1 DEF Free
  <2>. QED  BY <2>1, <2>2, <2>3, <2>4
<1>4. ~ (x = m /\ doing[x][t].player = p /\ doing[x][t].slot = Last(stack[m][p]))
  BY <1>2, <1>3 DEF Unit
<1>5. \A y, q \in Machines, k \in Places :
        y # m \/ q # p \/ k # Last(stack[m][p]) => tab'[y][q][k] = tab[y][q][k]
  BY DEF TakenOnly
<1>6. tab'[x][doing[x][t].player][doing[x][t].slot] = tab[x][doing[x][t].player][doing[x][t].slot]
  BY <1>1, <1>4, <1>5
<1>7. Unit(x, t)' = tab'[x][doing[x][t].player][doing[x][t].slot]
  BY UnitLater
<1>. QED  BY <1>6, <1>7 DEF Unit

(* Nothing is created and nobody hears of a new unit.                      *)
LEMMA UnsaidAfterCall ==
  ASSUME Typed, Held, Unsaid, NEW m \in Machines, NEW t \in Threads, NEW c,
         CallOnly(m, t, c), c.step # "created", tab' = tab,
         \A x, n \in Machines : \A i \in 1 .. Len(chan'[x][n]) : Creates(chan'[x][n][i]) =>
           \E j \in 1 .. Len(chan[x][n]) : chan[x][n][j] = chan'[x][n][i]
  PROVE  Unsaid'
<1>1. "engine" \in Threads
  BY DEF Threads
<1>4. PICK U : U = {}
  OBVIOUS
<1>2. ASSUME NEW x \in Machines, Pending(x)'
      PROVE  /\ Pending(x) /\ doing'[x]["engine"] = doing[x]["engine"]
             /\ Unit(x, "engine")' = Unit(x, "engine") /\ Unit(x, "engine") \notin U
  <2>1. doing'[x]["engine"].step = "created"
    BY <1>2 DEF Pending, At
  <2>2. doing'[x]["engine"] = doing[x]["engine"]
    BY <1>1, <2>1 DEF CallOnly
  <2>3. Unit(x, "engine")' = Unit(x, "engine")
    BY <1>1, <2>2, UnitLater DEF Unit
  <2>. QED  BY <1>4, <2>1, <2>2, <2>3 DEF Pending, At
<1>3. \A x, q \in Machines, k \in Places : tab'[x][q][k] \in {0, tab[x][q][k]} \cup U
  OBVIOUS
<1>5. \A x, n \in Machines : \A i \in 1 .. Len(chan'[x][n]) : Creates(chan'[x][n][i]) =>
        \/ chan'[x][n][i].unit \in U
        \/ \E j \in 1 .. Len(chan[x][n]) : chan[x][n][j] = chan'[x][n][i]
  OBVIOUS
<1>. QED  BY <1>2, <1>3, <1>5, UnsaidKept

LEMMA LessCreations ==
  ASSUME Typed, NEW m \in Machines, NEW n \in Machines, chan' = chan \/ HeardOnly(m, n)
  PROVE  \A x, y \in Machines : \A i \in 1 .. Len(chan'[x][y]) : Creates(chan'[x][y][i]) =>
           \E j \in 1 .. Len(chan[x][y]) : chan[x][y][j] = chan'[x][y][i]
<1>1. PICK d \in [Machines -> [Machines -> {0, 1}]] :
        \A x, y \in Machines : \A i \in 1 .. Len(chan'[x][y]) :
          /\ i + d[x][y] \in 1 .. Len(chan[x][y])
          /\ chan'[x][y][i] = chan[x][y][i + d[x][y]]
  BY EventsBefore
<1>. QED  BY <1>1

-----------------------------------------------------------------------------
(* The actions, one by one.                                                *)
LEMMA CreateKeeps ==
  ASSUME SyncInv, ~ raced, game' = game, NEW m \in Machines,
         m \in game.builders \cup game.captors, CreateUnit(m),
         seized' \in [Machines -> SUBSET (Machines \X Places)],
         \A x, q \in Machines, k \in Places :
           <<q, k>> \in seized'[x] =>
             <<q, k>> \in seized[x] \/ (q # x /\ x \in game.captors)
  PROVE  SyncInv'
<1>1. /\ Typed /\ Free /\ Held /\ Apart /\ Fresh /\ Unsaid
      /\ Speakers /\ Callers /\ Mirrored /\ Doomed
  BY DEF SyncInv
<1>2. PICK k : k = Last(stack[m][m])
  OBVIOUS
<1> DEFINE c == Call("created", m, k)
           e == Create(m, k, born + 1)
<1>3. /\ born \in 1 .. MaxUnits /\ born < MaxUnits /\ born' = born + 1
      /\ Take(m, m, born + 1) /\ chan' = chan
      /\ doing[m]["engine"].step = "idle" /\ doing' = [doing EXCEPT ![m]["engine"] = c]
      /\ raced' = Meets(m, "engine", c)
  BY <1>1, <1>2 DEF CreateUnit, Begins, At, Typed
<1>4. born + 1 \in 1 .. MaxUnits /\ "engine" \in Threads
  BY <1>3, SyncAssumption DEF Threads
<1>5. TakenOnly(m, m, born + 1)
  BY <1>1, <1>3, <1>4, TakeFacts
<1>6. stack[m][m] \in Seq(Places) /\ stack[m][m] # <<>>
  BY <1>1, <1>5 DEF Typed, TakenOnly
<1>7. k \in Places
  BY <1>2, <1>6, FrontFacts
<1>8. c \in Calls /\ c.step = "created" /\ c.player = m /\ c.slot = k
  BY <1>7, CallTyped
<1>9. CallOnly(m, "engine", c)
  BY <1>1, <1>3, <1>4, <1>8, CallFacts
<1>10. e \in Event /\ Creates(e) /\ e.player = m /\ e.unit = born + 1
  BY <1>4, <1>7 DEF Create, Event, Creates
<1> HIDE DEF c, e
<1>11. ~ Busy(m, "engine")
  BY <1>3 DEF Busy
<1>12. Typed'
  <2>1. /\ stack' \in [Machines -> [Machines -> Seq(Places)]]
        /\ tab' \in [Machines -> [Machines -> [Places -> 0 .. MaxUnits]]]
    BY <1>5 DEF TakenOnly
  <2>2. doing' \in [Machines -> [Threads -> Calls]]
    BY <1>9 DEF CallOnly
  <2>3. raced' \in BOOLEAN
    BY <1>3 DEF Meets
  <2>. QED  BY <1>1, <1>3, <1>4, <2>1, <2>2, <2>3 DEF Typed
<1>13. Free'
  BY <1>1, <1>4, <1>5, FreeAfterTake
<1>14. Held'
  <2>1. \A x \in Machines, t \in Threads :
          \/ doing'[x][t] = doing[x][t]
          \/ x = m /\ doing'[x][t].player = m /\ doing'[x][t].slot = Last(stack[m][m])
    BY <1>2, <1>8, <1>9 DEF CallOnly
  <2>. QED  BY <1>1, <1>4, <1>5, <2>1, HeldAfterTake
<1>15. Apart'
  BY <1>1, <1>3, <1>4, <1>9, <1>11, ApartAfterCall
<1>16. Fresh'
  BY <1>1, <1>3, <1>5, <1>10, FreshAfterTake
<1>17. Unsaid'
  <2>1. \A x \in Machines : x # m => tab'[x] = tab[x]
    <3> SUFFICES ASSUME NEW x \in Machines, x # m PROVE tab'[x] = tab[x]
      OBVIOUS
    <3>1. \A q \in Machines : tab'[x][q] = tab[x][q]
      BY <1>5 DEF TakenOnly
    <3>2. /\ tab[x] \in [Machines -> [Places -> 0 .. MaxUnits]]
          /\ tab'[x] \in [Machines -> [Places -> 0 .. MaxUnits]]
      BY <1>1, <1>5 DEF Typed, TakenOnly
    <3>. QED  BY <3>1, <3>2
  <2>. QED  BY <1>1, <1>2, <1>3, <1>5, <1>8, <1>9, <2>1, UnsaidAfterPop
<1>18. Speakers'
  BY <1>1, <1>3, SpeakersAfterLess
<1>19. Callers'
  <2>1. Fits(m, "engine", c)
    BY <1>8 DEF Fits
  <2>2. \A x \in Machines, t \in Threads :
          doing'[x][t] = doing[x][t] \/ Fits(x, t, doing'[x][t])
    BY <1>9, <2>1 DEF CallOnly
  <2>. QED  BY <1>1, <2>2, CallersLater
<1>20. Mirrored'
  <2>1. ASSUME ~ raced', NEW x \in Machines, NEW q \in Machines
        PROVE  Settled(x, q)' = Settled(x, q)
    <3>1. CASE x = m /\ q = m
      <4>1. ~ Meets(m, "engine", c)
        BY <1>3, <2>1
      <4>2. Halves(m, m) = {}
        BY <1>1, <1>4, <1>8, <1>11, <4>1, MeetsNobody
      <4>3. Halves(m, c.player)' = {c.slot}
        BY <1>1, <1>4, <1>8, <1>9, <1>11, <4>1, HalvesBegun
      <4>4. Halves(m, m)' = {k}
        <5>1. \A y \in Machines : y = c.player => Halves(m, y)' = {c.slot}
          BY <4>3
        <5>. QED  BY <1>8, <5>1
      <4>5. /\ Copy(m, m)' = Filled(Copy(m, m), born + 1)
            /\ Copy(m, m).stack # <<>> /\ Last(Copy(m, m).stack) = k
        BY <1>1, <1>2, <1>5, FilledByTake
      <4>6. Copy(m, m) \in Copies /\ Copy(m, m).tab[k] = 0
        <5>1. Copy(m, m) \in Copies /\ Copy(m, m).tab = tab[m][m]
          BY <1>1, CopyTyped
        <5>2. PICK s \in Seq(Places) : s = stack[m][m] /\ s # <<>>
          BY <1>6
        <5>3. Len(s) \in Nat \ {0} /\ Last(s) = s[Len(s)]
          BY <5>2, FrontFacts
        <5>4. Len(s) \in 1 .. Len(s)
          BY <5>3
        <5>5. \A i \in 1 .. Len(s) : tab[m][m][s[i]] = 0
          BY <1>1, <5>2 DEF Free
        <5>. QED  BY <1>2, <5>1, <5>2, <5>3, <5>4, <5>5
      <4>7. Freed(Filled(Copy(m, m), born + 1), k) = Copy(m, m)
        BY <4>5, <4>6, FreedFilled
      <4>8. Settled(m, m)' = Freed(Copy(m, m)', k) /\ Settled(m, m) = Copy(m, m)
        BY <4>2, <4>4, SettledLater
      <4>9. Settled(m, m)' = Settled(m, m)
        BY <4>5, <4>7, <4>8
      <4>. QED  BY <3>1, <4>9
    <3>2. CASE x # m \/ q # m
      <4>1. \A j \in Places, y \in Machines :
              y # m => (Half(c, y, j) <=> Half(doing[m]["engine"], y, j))
        BY <1>3, <1>8 DEF Half
      <4>2. \A y, z \in Machines : y # m \/ z # m =>
              stack'[y][z] = stack[y][z] /\ tab'[y][z] = tab[y][z]
        BY <1>5 DEF TakenOnly
      <4>. QED  BY <1>4, <1>9, <3>2, <4>1, <4>2, SettledElsewhere
    <3>. QED  BY <3>1, <3>2
  <2>. QED  BY <1>1, <1>3, <2>1, MirroredSame
<1>21. Doomed'
  <2>1. ASSUME NEW q \in Machines, BuildsNothing(q), NEW x \in Machines, NEW j \in Places
        PROVE  /\ tab'[x][q][j] = tab[x][q][j]
               /\ Dying(x, q, j)' <=> Dying(x, q, j)
               /\ Announced(x, q, j)' <=> Announced(x, q, j)
    <3>1. q # m
      BY <2>1 DEF BuildsNothing
    <3>2. tab'[x][q] = tab[x][q]
      BY <1>5, <3>1 DEF TakenOnly
    <3>3. Dies(c, q, j) <=> Dies(doing[m]["engine"], q, j)
      BY <1>3, <1>8 DEF Dies
    <3>4. Dying(x, q, j)' <=> Dying(x, q, j)
      BY <1>4, <1>9, <3>3, DyingLater
    <3>5. Announced(x, q, j)' <=> Announced(x, q, j)
      BY <1>3 DEF Announced, Names, Creates
    <3>. QED  BY <3>2, <3>4, <3>5
  <2>. QED  BY <1>1, <2>1, DoomedKept
<1>. QED
  BY <1>12, <1>13, <1>14, <1>15, <1>16, <1>17, <1>18, <1>19, <1>20, <1>21 DEF SyncInv

LEMMA AnnounceKeeps ==
  ASSUME SyncInv, ~ raced, game' = game, NEW m \in Machines, Announce(m)
  PROVE  SyncInv'
<1>1. /\ Typed /\ Free /\ Held /\ Apart /\ Fresh /\ Unsaid
      /\ Speakers /\ Callers /\ Mirrored /\ Doomed
  BY DEF SyncInv
<1>2. "engine" \in Threads
  BY DEF Threads
<1>3. PICK c \in Calls : c = doing[m]["engine"]
  BY <1>1, <1>2, DoingTyped
<1>4. c.step = "created" /\ c.player = m /\ m \in game.builders \cup game.captors
  <2>1. c.step = "created"
    BY <1>3 DEF Announce, At
  <2>2. Fits(m, "engine", c)
    BY <1>1, <1>2, <1>3 DEF Callers
  <2>. QED  BY <2>1, <2>2 DEF Fits
<1>5. PICK k \in Places : k = c.slot
  BY <1>1, <1>2, <1>3, DoingTyped
<1>6. PICK u : u = tab[m][m][k]
  OBVIOUS
<1> DEFINE e == Create(m, k, u)
<1>7. /\ Send(m, e) /\ doing' = [doing EXCEPT ![m]["engine"] = Idle] /\ raced' = raced
      /\ stack' = stack /\ tab' = tab /\ seized' = seized /\ born' = born
  BY <1>3, <1>4, <1>5, <1>6 DEF Announce, Goes
<1>8. Busy(m, "engine") /\ Pending(m) /\ Unit(m, "engine") = u
  BY <1>3, <1>4, <1>5, <1>6 DEF Busy, Pending, At, Unit
<1>9. u \in 1 .. MaxUnits /\ u <= born
  <2>1. u # 0
    BY <1>1, <1>2, <1>8 DEF Held
  <2>2. u \in 0 .. MaxUnits
    BY <1>1, <1>6 DEF Typed
  <2>3. u <= born
    BY <1>1, <1>6 DEF Fresh
  <2>. QED  BY <2>1, <2>2, <2>3, SyncAssumption
<1>10. e \in Event /\ Creates(e) /\ e.player = m /\ e.unit = u /\ e.slot = k
  BY <1>9 DEF Create, Event, Creates
<1> HIDE DEF e
<1>11. SaidOnly(m, e)
  BY <1>1, <1>7, <1>10, SendFacts
<1>12. CallOnly(m, "engine", Idle)
  BY <1>1, <1>2, <1>7, CallFacts, IdleTyped
<1>13. Typed'
  <2>1. chan' \in [Machines -> [Machines -> Seq(Event)]]
    BY <1>11 DEF SaidOnly
  <2>2. doing' \in [Machines -> [Threads -> Calls]]
    BY <1>12 DEF CallOnly
  <2>. QED  BY <1>1, <1>7, <2>1, <2>2 DEF Typed
<1>14. Free'
  BY <1>1, <1>7, FreeSame
<1>15. Held'
  BY <1>1, <1>2, <1>7, <1>12, HeldAfterCall, IdleTyped
<1>16. Apart'
  BY <1>1, <1>2, <1>12, ApartAfterCall, IdleTyped
<1>17. /\ \A n \in Machines, j \in Places : n # m => tab[n][m][j] # u
       /\ \A x, n \in Machines : \A i \in 1 .. Len(chan[x][n]) :
            Creates(chan[x][n][i]) => chan[x][n][i].unit # u
       /\ \A x \in Machines : Pending(x) /\ x # m => Unit(x, "engine") # u
  BY <1>1, <1>3, <1>4, <1>8 DEF Unsaid
<1>18. Fresh'
  BY <1>1, <1>7, <1>9, <1>10, <1>11, <1>17, FreshAfterSaid
<1>19. Unsaid'
  <2>1. ASSUME NEW x \in Machines, Pending(x)'
        PROVE  /\ Pending(x) /\ doing'[x]["engine"] = doing[x]["engine"]
               /\ Unit(x, "engine")' = Unit(x, "engine") /\ Unit(x, "engine") \notin {u}
    <3>1. doing'[x]["engine"].step = "created"
      BY <2>1 DEF Pending, At
    <3>2. x # m
      BY <1>2, <1>12, <3>1, IdleTyped DEF CallOnly
    <3>3. doing'[x]["engine"] = doing[x]["engine"]
      BY <1>2, <1>12, <3>2 DEF CallOnly
    <3>4. Pending(x)
      BY <3>1, <3>3 DEF Pending, At
    <3>5. Unit(x, "engine")' = Unit(x, "engine")
      BY <1>2, <1>7, <3>3, UnitLater DEF Unit
    <3>. QED  BY <1>17, <3>2, <3>3, <3>4, <3>5
  <2>2. \A x, q \in Machines, j \in Places : tab'[x][q][j] \in {0, tab[x][q][j]} \cup {u}
    BY <1>7
  <2>3. ASSUME NEW x \in Machines, NEW n \in Machines, NEW i \in 1 .. Len(chan'[x][n]),
               Creates(chan'[x][n][i])
        PROVE  \/ chan'[x][n][i].unit \in {u}
               \/ \E j \in 1 .. Len(chan[x][n]) : chan[x][n][j] = chan'[x][n][i]
    <3>1. \/ i \in 1 .. Len(chan[x][n]) /\ chan'[x][n][i] = chan[x][n][i]
          \/ chan'[x][n][i] = e
      BY <1>1, <1>10, <1>11, SaidPlaces
    <3>. QED  BY <1>10, <3>1
  <2>. QED  BY <1>1, <2>1, <2>2, <2>3, UnsaidKept
<1>20. Speakers'
  BY <1>1, <1>4, <1>10, <1>11, SpeakersAfterSaid
<1>21. Callers'
  <2>1. \A x \in Machines, t \in Threads :
          doing'[x][t] = doing[x][t] \/ Fits(x, t, doing'[x][t])
    BY <1>12, FitsIdle DEF CallOnly
  <2>. QED  BY <1>1, <1>7, <2>1, CallersLater
<1>22. Mirrored'
  <2>1. ASSUME NEW x \in Machines, NEW q \in Machines, x # m \/ q # m
        PROVE  Settled(x, q)' = Settled(x, q)
    <3>1. \A j \in Places, y \in Machines :
            y # m => (Half(Idle, y, j) <=> Half(doing[m]["engine"], y, j))
      BY <1>3, <1>4, IdleTyped DEF Half
    <3>2. \A y, z \in Machines : y # m \/ z # m =>
            stack'[y][z] = stack[y][z] /\ tab'[y][z] = tab[y][z]
      BY <1>7
    <3>. QED  BY <1>2, <1>12, <2>1, <3>1, <3>2, SettledElsewhere
  <2>2. Leads(m, Settled(m, m), e, Settled(m, m)')
    <3>1. Halves(m, m) = {k}
      <4>1. Halves(m, doing[m]["engine"].player)
              = IF doing[m]["engine"].step = "found" THEN {} ELSE {doing[m]["engine"].slot}
        BY <1>1, <1>2, <1>8, HalvesOne
      <4>. QED  BY <1>3, <1>4, <1>5, <4>1
    <3>2. Halves(m, m)' = {}
      BY <1>1, <1>2, <1>3, <1>4, <1>8, <1>12, HalvesEnded
    <3>3. Copy(m, m)' = Copy(m, m)
      BY <1>7, CopySame
    <3>4. Settled(m, m) = Freed(Copy(m, m), k) /\ Settled(m, m)' = Copy(m, m)
      BY <3>1, <3>2, <3>3, SettledLater
    <3>5. Copy(m, m) \in Copies /\ Copy(m, m).tab[k] = u
      BY <1>1, <1>6, CopyTyped
    <3>6. /\ Freed(Copy(m, m), k).stack # <<>> /\ Last(Freed(Copy(m, m), k).stack) = k
          /\ Filled(Freed(Copy(m, m), k), u) = Copy(m, m)
      BY <3>5, FilledFreed
    <3>. QED  BY <1>10, <3>4, <3>6 DEF Leads
  <2>. QED  BY <1>1, <1>10, <1>11, <1>13, <2>1, <2>2, MirroredAfterSaid
<1>23. Doomed'
  <2>1. ASSUME NEW q \in Machines, NEW x \in Machines, NEW j \in Places
        PROVE  /\ tab'[x][q][j] = tab[x][q][j]
               /\ Dying(x, q, j)' <=> Dying(x, q, j)
               /\ Announced(x, q, j)' <=> Announced(x, q, j)
    <3>1. Dies(Idle, q, j) <=> Dies(doing[m]["engine"], q, j)
      BY <1>3, <1>4, IdleTyped DEF Dies
    <3>2. Dying(x, q, j)' <=> Dying(x, q, j)
      BY <1>2, <1>12, <3>1, DyingLater
    <3>3. ~ Names(e, q, j)
      BY <1>10 DEF Names
    <3>4. Announced(x, q, j)' <=> Announced(x, q, j)
      BY <1>1, <1>10, <1>11, <3>3, AnnouncedSaid
    <3>. QED  BY <1>7, <3>2, <3>4
  <2>. QED  BY <1>1, <2>1, DoomedKept
<1>. QED
  BY <1>13, <1>14, <1>15, <1>16, <1>18, <1>19, <1>20, <1>21, <1>22, <1>23 DEF SyncInv

LEMMA ScriptKeeps ==
  ASSUME SyncInv, ~ raced, game' = game, NEW p \in Machines, ScriptCreates(p)
  PROVE  SyncInv'
<1>1. /\ Typed /\ Free /\ Held /\ Apart /\ Fresh /\ Unsaid
      /\ Speakers /\ Callers /\ Mirrored /\ Doomed
  BY DEF SyncInv
<1>2. Server \in Machines /\ "main" \in Threads /\ "engine" \in Threads
  BY SyncAssumption DEF Threads
<1>3. PICK k : k = Last(stack[Server][p])
  OBVIOUS
<1> DEFINE c == Call("created", p, k)
           e == Create(p, k, born + 1)
<1>4. /\ p \in game.scripted /\ born \in 1 .. MaxUnits /\ born < MaxUnits /\ born' = born + 1
      /\ Take(Server, p, born + 1) /\ Send(Server, e)
      /\ doing[Server]["main"].step = "idle" /\ doing' = doing /\ seized' = seized
      /\ raced' = Meets(Server, "main", c)
  BY <1>1, <1>3 DEF ScriptCreates, At, Typed
<1>5. born + 1 \in 1 .. MaxUnits
  BY <1>4, SyncAssumption
<1>6. TakenOnly(Server, p, born + 1)
  BY <1>1, <1>2, <1>4, <1>5, TakeFacts
<1>7. stack[Server][p] \in Seq(Places) /\ stack[Server][p] # <<>>
  BY <1>1, <1>2, <1>6 DEF Typed, TakenOnly
<1>8. k \in Places
  BY <1>3, <1>7, FrontFacts
<1>9. c.player = p
  BY <1>8, CallTyped
<1>10. /\ e \in Event /\ Creates(e) /\ e.player = p /\ e.unit = born + 1 /\ e.slot = k
  BY <1>5, <1>8 DEF Create, Event, Creates
<1> HIDE DEF c, e
<1>11. SaidOnly(Server, e)
  BY <1>1, <1>2, <1>4, <1>10, SendFacts
<1>12. Typed'
  <2>1. /\ stack' \in [Machines -> [Machines -> Seq(Places)]]
        /\ tab' \in [Machines -> [Machines -> [Places -> 0 .. MaxUnits]]]
    BY <1>6 DEF TakenOnly
  <2>2. chan' \in [Machines -> [Machines -> Seq(Event)]]
    BY <1>11 DEF SaidOnly
  <2>3. raced' \in BOOLEAN
    BY <1>4 DEF Meets
  <2>. QED  BY <1>1, <1>4, <1>5, <2>1, <2>2, <2>3 DEF Typed
<1>13. Free'
  BY <1>1, <1>2, <1>5, <1>6, FreeAfterTake
<1>14. Held'
  BY <1>1, <1>2, <1>4, <1>5, <1>6, HeldAfterTake
<1>15. Apart'
  BY <1>1, <1>4, ApartSame
<1>16. Fresh'
  BY <1>1, <1>2, <1>4, <1>6, <1>10, <1>11, FreshAfterTake
<1>17. Unsaid'
  <2>1. ASSUME NEW x \in Machines, Pending(x)'
        PROVE  /\ Pending(x) /\ doing'[x]["engine"] = doing[x]["engine"]
               /\ Unit(x, "engine")' = Unit(x, "engine")
               /\ Unit(x, "engine") \notin {born + 1}
    <3>1. Pending(x) /\ doing'[x]["engine"] = doing[x]["engine"]
      BY <1>4, <2>1 DEF Pending, At
    <3>2. Busy(x, "engine")
      BY <3>1 DEF Busy, Pending, At
    <3>3. Unit(x, "engine")' = Unit(x, "engine")
      BY <1>1, <1>2, <1>6, <3>1, <3>2, UnitAfterTake
    <3>4. Unit(x, "engine") # born + 1
      <4>1. doing[x]["engine"].player \in Machines /\ doing[x]["engine"].slot \in Places
        BY <1>1, <1>2, DoingTyped
      <4>2. Unit(x, "engine") <= born /\ Unit(x, "engine") \in 0 .. MaxUnits
        <5>1. \A q \in Machines, j \in Places : tab[x][q][j] <= born /\ tab[x][q][j] \in 0 .. MaxUnits
          BY <1>1 DEF Fresh, Typed
        <5>. QED  BY <4>1, <5>1 DEF Unit
      <4>. QED  BY <1>4, <4>2, SyncAssumption
    <3>. QED  BY <3>1, <3>3, <3>4
  <2>2. \A x, q \in Machines, j \in Places : tab'[x][q][j] \in {0, tab[x][q][j]} \cup {born + 1}
    <3>1. \A x, q \in Machines, j \in Places :
            tab'[x][q][j] = IF x = Server /\ q = p /\ j = Last(stack[Server][p])
                            THEN born + 1 ELSE tab[x][q][j]
      BY <1>6 DEF TakenOnly
    <3>. QED  BY <3>1
  <2>3. ASSUME NEW x \in Machines, NEW n \in Machines, NEW i \in 1 .. Len(chan'[x][n]),
               Creates(chan'[x][n][i])
        PROVE  \/ chan'[x][n][i].unit \in {born + 1}
               \/ \E j \in 1 .. Len(chan[x][n]) : chan[x][n][j] = chan'[x][n][i]
    <3>1. \/ i \in 1 .. Len(chan[x][n]) /\ chan'[x][n][i] = chan[x][n][i]
          \/ chan'[x][n][i] = e
      BY <1>1, <1>2, <1>10, <1>11, SaidPlaces
    <3>. QED  BY <1>10, <3>1
  <2>4. PICK U : U = {born + 1}
    OBVIOUS
  <2>5. /\ \A x \in Machines : Pending(x)' =>
             /\ Pending(x) /\ doing'[x]["engine"] = doing[x]["engine"]
             /\ Unit(x, "engine")' = Unit(x, "engine") /\ Unit(x, "engine") \notin U
        /\ \A x, q \in Machines, j \in Places : tab'[x][q][j] \in {0, tab[x][q][j]} \cup U
        /\ \A x, n \in Machines : \A i \in 1 .. Len(chan'[x][n]) : Creates(chan'[x][n][i]) =>
             \/ chan'[x][n][i].unit \in U
             \/ \E j \in 1 .. Len(chan[x][n]) : chan[x][n][j] = chan'[x][n][i]
    BY <2>1, <2>2, <2>3, <2>4
  <2>. QED  BY <1>1, <2>5, UnsaidKept
<1>18. Speakers'
  BY <1>1, <1>2, <1>4, <1>10, <1>11, SpeakersAfterSaid
<1>19. Callers'
  BY <1>1, <1>4, CallersLater
<1>20. Mirrored'
  <2>1. \A y, z \in Machines : y # Server \/ z # p =>
          stack'[y][z] = stack[y][z] /\ tab'[y][z] = tab[y][z]
    BY <1>6 DEF TakenOnly
  <2>2. ASSUME NEW x \in Machines, NEW q \in Machines, x # Server \/ q # p
        PROVE  Settled(x, q)' = Settled(x, q)
    BY <1>2, <1>4, <2>1, <2>2, SettledUnmoved
  <2>3. ASSUME NEW x \in Machines, NEW q \in Machines, OwnsAlone(q), x # Server \/ q # Server
        PROVE  Settled(x, q)' = Settled(x, q)
    BY <1>4, <2>2, <2>3 DEF OwnsAlone
  <2>4. ASSUME ~ raced'
        PROVE  Leads(Server, Settled(Server, Server), e, Settled(Server, Server)')
    <3>1. CASE p = Server
      <4>1. ~ Busy(Server, "main") /\ ~ Meets(Server, "main", c)
        BY <1>4, <2>4 DEF Busy
      <4>2. Halves(Server, Server) = {}
        BY <1>1, <1>2, <1>9, <3>1, <4>1, MeetsNobody
      <4>3. Halves(Server, Server)' = {}
        BY <1>2, <1>4, <4>2, HalvesUnchanged
      <4>4. /\ Copy(Server, Server)' = Filled(Copy(Server, Server), born + 1)
            /\ Copy(Server, Server).stack # <<>> /\ Last(Copy(Server, Server).stack) = k
        BY <1>1, <1>2, <1>3, <1>6, <3>1, FilledByTake
      <4>5. /\ Settled(Server, Server) = Copy(Server, Server)
            /\ Settled(Server, Server)' = Copy(Server, Server)'
        BY <1>2, <4>2, <4>3, SettledLater
      <4>. QED  BY <1>10, <3>1, <4>4, <4>5 DEF Leads
    <3>2. CASE p # Server
      BY <1>2, <1>10, <2>2, <3>2 DEF Leads
    <3>. QED  BY <3>1, <3>2
  <2>. QED  BY <1>1, <1>2, <1>10, <1>11, <1>12, <2>3, <2>4, MirroredAfterSaid
<1>21. Doomed'
  <2>1. ASSUME NEW q \in Machines, BuildsNothing(q), NEW x \in Machines, NEW j \in Places
        PROVE  /\ tab'[x][q][j] = tab[x][q][j]
               /\ Dying(x, q, j)' <=> Dying(x, q, j)
               /\ Announced(x, q, j)' <=> Announced(x, q, j)
    <3>1. q # p
      BY <1>4, <2>1 DEF BuildsNothing
    <3>2. tab'[x][q] = tab[x][q]
      BY <1>6, <3>1 DEF TakenOnly
    <3>3. Dying(x, q, j)' <=> Dying(x, q, j)
      BY <1>4 DEF Dying, Dies
    <3>4. ~ Names(e, q, j)
      BY <1>10 DEF Names
    <3>5. Announced(x, q, j)' <=> Announced(x, q, j)
      BY <1>1, <1>2, <1>10, <1>11, <3>4, AnnouncedSaid
    <3>. QED  BY <3>2, <3>3, <3>5
  <2>. QED  BY <1>1, <2>1, DoomedKept
<1>. QED
  BY <1>12, <1>13, <1>14, <1>15, <1>16, <1>17, <1>18, <1>19, <1>20, <1>21 DEF SyncInv

LEMMA FindsKeeps ==
  ASSUME SyncInv, ~ raced, game' = game, NEW m \in Machines, NEW t \in Threads,
         NEW p \in Machines, NEW k \in Places, Finds(m, t, p, k)
  PROVE  SyncInv'
<1>1. /\ Typed /\ Free /\ Held /\ Apart /\ Fresh /\ Unsaid
      /\ Speakers /\ Callers /\ Mirrored /\ Doomed
  BY DEF SyncInv
<1> DEFINE c == Call("found", p, k)
<1>2. c \in Calls /\ c.step = "found" /\ c.player = p /\ c.slot = k
  BY CallTyped
<1>3. /\ p = m \/ <<p, k>> \in seized[m]
      /\ doing[m][t].step = "idle" /\ doing' = [doing EXCEPT ![m][t] = c]
      /\ raced' = Meets(m, t, c)
      /\ stack' = stack /\ tab' = tab /\ chan' = chan /\ seized' = seized /\ born' = born
  BY DEF Finds, Begins, At
<1>4. tab[m][p][k] # 0
  BY DEF Finds
<1> HIDE DEF c
<1>5. CallOnly(m, t, c)
  BY <1>1, <1>2, <1>3, CallFacts
<1>6. ~ Busy(m, t)
  BY <1>3 DEF Busy
<1>7. Typed'
  <2>1. doing' \in [Machines -> [Threads -> Calls]]
    BY <1>5 DEF CallOnly
  <2>2. raced' \in BOOLEAN
    BY <1>3 DEF Meets
  <2>. QED  BY <1>1, <1>3, <2>1, <2>2 DEF Typed
<1>8. Free'
  BY <1>1, <1>3, FreeSame
<1>9. Held'
  BY <1>1, <1>2, <1>3, <1>4, <1>5, HeldAfterCall
<1>10. Apart'
  BY <1>1, <1>3, <1>5, <1>6, ApartAfterCall
<1>11. Fresh'
  BY <1>1, <1>3 DEF Fresh
<1>12. Unsaid'
  <2>1. \A x, n \in Machines : \A i \in 1 .. Len(chan'[x][n]) : Creates(chan'[x][n][i]) =>
          \E j \in 1 .. Len(chan[x][n]) : chan[x][n][j] = chan'[x][n][i]
    BY <1>3
  <2>. QED  BY <1>1, <1>2, <1>3, <1>5, <2>1, UnsaidAfterCall
<1>13. Speakers'
  BY <1>1, <1>3, SpeakersAfterLess
<1>14. Callers'
  <2>1. <<p, k>> \in seized[m] => m \in game.captors
    BY <1>1 DEF Callers
  <2>2. Fits(m, t, c)
    BY <1>2, <1>3, <2>1 DEF Fits
  <2>3. \A x \in Machines, y \in Threads :
          doing'[x][y] = doing[x][y] \/ Fits(x, y, doing'[x][y])
    BY <1>5, <2>2 DEF CallOnly
  <2>. QED  BY <1>1, <1>3, <2>3, CallersLater
<1>15. Mirrored'
  <2>1. ASSUME NEW x \in Machines, NEW q \in Machines
        PROVE  Settled(x, q)' = Settled(x, q)
    <3>1. \A j \in Places : Half(c, q, j) <=> Half(doing[m][t], q, j)
      BY <1>2, <1>3 DEF Half
    <3>2. Halves(x, q)' = Halves(x, q)
      BY <1>5, <3>1, HalvesSame
    <3>. QED  BY <1>3, <3>2, SettledSame
  <2>. QED  BY <1>1, <1>3, <2>1, MirroredSame
<1>16. Doomed'
  <2>1. ASSUME NEW q \in Machines, NEW x \in Machines, NEW j \in Places
        PROVE  /\ tab'[x][q][j] = tab[x][q][j]
               /\ Dying(x, q, j)' <=> Dying(x, q, j)
               /\ Announced(x, q, j)' <=> Announced(x, q, j)
    <3>1. Dies(c, q, j) <=> Dies(doing[m][t], q, j)
      BY <1>2, <1>3 DEF Dies
    <3>2. Dying(x, q, j)' <=> Dying(x, q, j)
      BY <1>5, <3>1, DyingLater
    <3>3. Announced(x, q, j)' <=> Announced(x, q, j)
      BY <1>3 DEF Announced, Names, Creates
    <3>. QED  BY <1>3, <3>2, <3>3
  <2>. QED  BY <1>1, <2>1, DoomedKept
<1>. QED
  BY <1>7, <1>8, <1>9, <1>10, <1>11, <1>12, <1>13, <1>14, <1>15, <1>16 DEF SyncInv

LEMMA KillSendsKeeps ==
  ASSUME SyncInv, ~ raced, game' = game, NEW m \in Machines, NEW t \in Threads,
         KillSends(m, t)
  PROVE  SyncInv'
<1>1. /\ Typed /\ Free /\ Held /\ Apart /\ Fresh /\ Unsaid
      /\ Speakers /\ Callers /\ Mirrored /\ Doomed
  BY DEF SyncInv
<1>2. PICK p \in Machines, k \in Places : p = doing[m][t].player /\ k = doing[m][t].slot
  BY <1>1, DoingTyped
<1>3. PICK u : u = tab[m][p][k]
  OBVIOUS
<1> DEFINE c == [doing[m][t] EXCEPT !.step = "dying"]
           e == Death(p, k, u)
<1>4. /\ doing[m][t].step = "found" /\ Send(m, e)
      /\ doing' = [doing EXCEPT ![m][t] = c] /\ raced' = raced
      /\ stack' = stack /\ tab' = tab /\ seized' = seized /\ born' = born
  BY <1>2, <1>3 DEF KillSends, Goes, At
<1>5. c \in Calls /\ c.step = "dying" /\ c.player = p /\ c.slot = k
  <2>1. doing[m][t] \in Calls
    BY <1>1, DoingTyped
  <2> HIDE DEF Places
  <2>. QED  BY <1>2, <2>1 DEF Calls
<1>6. Busy(m, t)
  BY <1>4 DEF Busy
<1>7. u \in 1 .. MaxUnits
  <2>1. u # 0
    BY <1>1, <1>2, <1>3, <1>6 DEF Held, Unit
  <2>2. u \in 0 .. MaxUnits
    BY <1>1, <1>3 DEF Typed
  <2>. QED  BY <2>1, <2>2, SyncAssumption
<1>8. /\ e \in Event /\ ~ Creates(e) /\ Names(e, p, k)
      /\ e.player = p /\ e.unit = u /\ e.slot = k
  BY <1>7 DEF Death, Event, Creates, Names
<1> HIDE DEF c, e
<1>9. SaidOnly(m, e)
  BY <1>1, <1>4, <1>8, SendFacts
<1>10. CallOnly(m, t, c)
  BY <1>1, <1>4, <1>5, CallFacts
<1>11. Typed'
  <2>1. chan' \in [Machines -> [Machines -> Seq(Event)]]
    BY <1>9 DEF SaidOnly
  <2>2. doing' \in [Machines -> [Threads -> Calls]]
    BY <1>10 DEF CallOnly
  <2>. QED  BY <1>1, <1>4, <2>1, <2>2 DEF Typed
<1>12. Free'
  BY <1>1, <1>4, FreeSame
<1>13. Held'
  <2>1. tab[m][c.player][c.slot] # 0
    BY <1>3, <1>5, <1>7, SyncAssumption
  <2>. QED  BY <1>1, <1>4, <1>10, <2>1, HeldAfterCall
<1>14. Apart'
  <2>1. c.player = doing[m][t].player
    BY <1>2, <1>5
  <2>. QED  BY <1>1, <1>6, <1>10, <2>1, ApartAfterCall
<1>15. Fresh'
  BY <1>1, <1>4, <1>8, <1>9, FreshAfterDeath
<1>16. Unsaid'
  <2>1. \A x, n \in Machines : \A i \in 1 .. Len(chan'[x][n]) : Creates(chan'[x][n][i]) =>
          \E j \in 1 .. Len(chan[x][n]) : chan[x][n][j] = chan'[x][n][i]
    <3>1. \A x, n \in Machines : \A i \in 1 .. Len(chan'[x][n]) :
            \/ i \in 1 .. Len(chan[x][n]) /\ chan'[x][n][i] = chan[x][n][i]
            \/ chan'[x][n][i] = e
      BY <1>1, <1>8, <1>9, SaidPlaces
    <3>. QED  BY <1>8, <3>1
  <2>2. c.step # "created"
    BY <1>5
  <2>. QED  BY <1>1, <1>4, <1>10, <2>1, <2>2, UnsaidAfterCall
<1>17. p = m \/ m \in game.captors
  <2>1. Fits(m, t, doing[m][t])
    BY <1>1 DEF Callers
  <2>. QED  BY <1>2, <1>4, <2>1 DEF Fits
<1>18. Speakers'
  BY <1>1, <1>8, <1>9, <1>17, SpeakersAfterSaid
<1>19. Callers'
  <2>1. Fits(m, t, c)
    BY <1>5, <1>17 DEF Fits
  <2>2. \A x \in Machines, y \in Threads :
          doing'[x][y] = doing[x][y] \/ Fits(x, y, doing'[x][y])
    BY <1>10, <2>1 DEF CallOnly
  <2>. QED  BY <1>1, <1>4, <2>2, CallersLater
<1>20. Mirrored'
  <2>1. ASSUME NEW x \in Machines, NEW q \in Machines, x # m \/ q # p
        PROVE  Settled(x, q)' = Settled(x, q)
    <3>1. \A j \in Places, y \in Machines :
            y # p => (Half(c, y, j) <=> Half(doing[m][t], y, j))
      BY <1>4, <1>5 DEF Half
    <3>2. \A y, z \in Machines : y # m \/ z # p =>
            stack'[y][z] = stack[y][z] /\ tab'[y][z] = tab[y][z]
      BY <1>4
    <3>. QED  BY <1>10, <2>1, <3>1, <3>2, SettledElsewhere
  <2>2. ASSUME NEW x \in Machines, NEW q \in Machines, OwnsAlone(q), x # m \/ q # m
        PROVE  Settled(x, q)' = Settled(x, q)
    BY <1>17, <2>1, <2>2 DEF OwnsAlone
  <2>3. Leads(m, Settled(m, m), e, Settled(m, m)')
    <3>1. CASE p = m
      <4>1. Halves(m, m) = {}
        <5>1. Halves(m, doing[m][t].player)
                = IF doing[m][t].step = "found" THEN {} ELSE {doing[m][t].slot}
          BY <1>1, <1>6, HalvesOne
        <5>. QED  BY <1>2, <1>4, <3>1, <5>1
      <4>2. Halves(m, m)' = {k}
        <5>1. \A j \in Places : j \in Halves(m, m)' <=> \E y \in Threads : Half(doing'[m][y], m, j)
          BY DEF Halves, Half
        <5>2. \A j \in Places, y \in Threads : ~ Half(doing[m][y], m, j)
          BY <4>1 DEF Halves
        <5>3. \A y \in Threads : doing'[m][y] = IF y = t THEN c ELSE doing[m][y]
          BY <1>10 DEF CallOnly
        <5>4. \A j \in Places : Half(c, m, j) <=> j = k
          BY <1>5, <3>1 DEF Half
        <5>5. Halves(m, m)' \subseteq Places
          BY DEF Halves
        <5>6. \A j \in Places : j \in Halves(m, m)' <=> j = k
          BY <5>1, <5>2, <5>3, <5>4
        <5>. QED  BY <5>5, <5>6
      <4>3. Copy(m, m)' = Copy(m, m)
        BY <1>4, CopySame
      <4>4. Settled(m, m) = Copy(m, m) /\ Settled(m, m)' = Freed(Copy(m, m), k)
        BY <4>1, <4>2, <4>3, SettledLater
      <4>5. Copy(m, m).tab[k] = u
        BY <1>1, <1>3, <3>1, CopyTyped
      <4>. QED  BY <1>8, <3>1, <4>4, <4>5 DEF Leads
    <3>2. CASE p # m
      BY <1>8, <2>1, <3>2 DEF Leads
    <3>. QED  BY <3>1, <3>2
  <2>. QED  BY <1>1, <1>8, <1>9, <1>11, <2>2, <2>3, MirroredAfterSaid
<1>21. Doomed'
  <2>1. Dies(c, p, k)
    BY <1>5 DEF Dies
  <2>. QED  BY <1>1, <1>4, <1>8, <1>9, <1>10, <2>1, DoomedAfterSending
<1>. QED
  BY <1>11, <1>12, <1>13, <1>14, <1>15, <1>16, <1>18, <1>19, <1>20, <1>21 DEF SyncInv

LEMMA KillReleasesKeeps ==
  ASSUME SyncInv, ~ raced, game' = game, NEW m \in Machines, NEW t \in Threads,
         KillReleases(m, t)
  PROVE  SyncInv'
<1>1. /\ Typed /\ Free /\ Held /\ Apart /\ Fresh /\ Unsaid
      /\ Speakers /\ Callers /\ Mirrored /\ Doomed
  BY DEF SyncInv
<1>2. PICK p \in Machines, k \in Places : p = doing[m][t].player /\ k = doing[m][t].slot
  BY <1>1, DoingTyped
<1>3. /\ doing[m][t].step = "dying" /\ Release(m, p, k)
      /\ doing' = [doing EXCEPT ![m][t] = Idle] /\ raced' = raced
      /\ seized' = [seized EXCEPT ![m] = seized[m] \ {<<p, k>>}]
      /\ chan' = chan /\ born' = born
  BY <1>2 DEF KillReleases, Goes, At
<1>4. FreedOnly(m, p, k)
  BY <1>1, <1>3, ReleaseFacts
<1>5. CallOnly(m, t, Idle)
  BY <1>1, <1>3, CallFacts, IdleTyped
<1>6. Busy(m, t) /\ tab[m][p][k] # 0
  <2>1. Busy(m, t)
    BY <1>3 DEF Busy
  <2>. QED  BY <1>1, <1>2, <2>1 DEF Held, Unit
<1>7. /\ seized' \in [Machines -> SUBSET (Machines \X Places)]
      /\ \A x \in Machines : seized'[x] \subseteq seized[x]
  <2>1. seized \in [Machines -> SUBSET (Machines \X Places)]
    BY <1>1 DEF Typed
  <2>2. PICK s : s = seized[m] \ {<<p, k>>}
    OBVIOUS
  <2>3. s \subseteq seized[m] /\ s \in SUBSET (Machines \X Places)
    BY <2>1, <2>2
  <2>4. seized' = [seized EXCEPT ![m] = s]
    BY <1>3, <2>2
  <2>. QED  BY <2>1, <2>3, <2>4
<1>8. \A x, q \in Machines, j \in Places :
        tab'[x][q][j] = IF x = m /\ q = p /\ j = k THEN 0 ELSE tab[x][q][j]
  BY <1>4 DEF FreedOnly
<1>9. \A x, q \in Machines, j \in Places : tab'[x][q][j] \in {0, tab[x][q][j]}
  BY <1>8
<1>10. Typed'
  <2>1. /\ stack' \in [Machines -> [Machines -> Seq(Places)]]
        /\ tab' \in [Machines -> [Machines -> [Places -> 0 .. MaxUnits]]]
    BY <1>4 DEF FreedOnly
  <2>2. doing' \in [Machines -> [Threads -> Calls]]
    BY <1>5 DEF CallOnly
  <2>. QED  BY <1>1, <1>3, <1>7, <2>1, <2>2 DEF Typed
<1>11. Free'
  BY <1>1, <1>4, <1>6, FreeAfterRelease
<1>12. Held'
  BY <1>1, <1>2, <1>4, <1>5, <1>6, HeldAfterRelease
<1>13. Apart'
  BY <1>1, <1>5, IdleTyped, ApartAfterCall
<1>14. Fresh'
  BY <1>1, <1>3, <1>9, FreshAfterLess
<1>15. Unsaid'
  <2>1. "engine" \in Threads
    BY DEF Threads
  <2>2. PICK U : U = {}
    OBVIOUS
  <2>3. ASSUME NEW x \in Machines, Pending(x)'
        PROVE  /\ Pending(x) /\ doing'[x]["engine"] = doing[x]["engine"]
               /\ Unit(x, "engine")' = Unit(x, "engine") /\ Unit(x, "engine") \notin U
    <3>1. doing'[x]["engine"].step = "created"
      BY <2>3 DEF Pending, At
    <3>2. ~ (x = m /\ t = "engine")
      BY <1>5, <2>1, <3>1, IdleTyped DEF CallOnly
    <3>3. doing'[x]["engine"] = doing[x]["engine"]
      BY <1>5, <2>1, <3>2 DEF CallOnly
    <3>4. Pending(x) /\ Busy(x, "engine")
      BY <3>1, <3>3 DEF Pending, At, Busy
    <3>5. ~ (x = m /\ doing[x]["engine"].player = p)
      BY <1>1, <1>2, <1>6, <2>1, <3>2, <3>4 DEF Apart
    <3>6. doing[x]["engine"].player \in Machines /\ doing[x]["engine"].slot \in Places
      BY <1>1, <2>1, DoingTyped
    <3>7. tab'[x][doing[x]["engine"].player][doing[x]["engine"].slot]
            = tab[x][doing[x]["engine"].player][doing[x]["engine"].slot]
      BY <1>8, <3>5, <3>6
    <3>8. Unit(x, "engine")' = tab'[x][doing[x]["engine"].player][doing[x]["engine"].slot]
      BY <2>1, <3>3, UnitLater
    <3>9. Unit(x, "engine")' = Unit(x, "engine")
      BY <3>7, <3>8 DEF Unit
    <3>. QED  BY <2>2, <3>3, <3>4, <3>9
  <2>4. \A x, q \in Machines, j \in Places : tab'[x][q][j] \in {0, tab[x][q][j]} \cup U
    BY <1>9
  <2>5. \A x, n \in Machines : \A i \in 1 .. Len(chan'[x][n]) : Creates(chan'[x][n][i]) =>
          \/ chan'[x][n][i].unit \in U
          \/ \E j \in 1 .. Len(chan[x][n]) : chan[x][n][j] = chan'[x][n][i]
    BY <1>3
  <2>. QED  BY <1>1, <2>3, <2>4, <2>5, UnsaidKept
<1>16. Speakers'
  BY <1>1, <1>3, SpeakersAfterLess
<1>17. Callers'
  <2>1. \A x \in Machines, y \in Threads :
          doing'[x][y] = doing[x][y] \/ Fits(x, y, doing'[x][y])
    BY <1>5, FitsIdle DEF CallOnly
  <2>. QED  BY <1>1, <1>7, <2>1, CallersLater
<1>18. Mirrored'
  <2>1. ASSUME NEW x \in Machines, NEW q \in Machines
        PROVE  Settled(x, q)' = Settled(x, q)
    <3>1. CASE x = m /\ q = p
      <4>1. Halves(m, p) = {k}
        <5>1. Halves(m, doing[m][t].player)
                = IF doing[m][t].step = "found" THEN {} ELSE {doing[m][t].slot}
          BY <1>1, <1>6, HalvesOne
        <5>. QED  BY <1>2, <1>3, <5>1
      <4>2. Halves(m, p)' = {}
        BY <1>1, <1>2, <1>5, <1>6, HalvesEnded
      <4>3. Copy(m, p)' = Freed(Copy(m, p), k)
        BY <1>1, <1>4, FreedByRelease
      <4>4. Settled(m, p) = Freed(Copy(m, p), k) /\ Settled(m, p)' = Copy(m, p)'
        BY <4>1, <4>2, SettledLater
      <4>5. Settled(m, p)' = Settled(m, p)
        BY <4>3, <4>4
      <4>. QED  BY <3>1, <4>5
    <3>2. CASE x # m \/ q # p
      <4>1. \A j \in Places, y \in Machines :
              y # p => (Half(Idle, y, j) <=> Half(doing[m][t], y, j))
        BY <1>2, IdleTyped DEF Half
      <4>2. \A y, z \in Machines : y # m \/ z # p =>
              stack'[y][z] = stack[y][z] /\ tab'[y][z] = tab[y][z]
        BY <1>4 DEF FreedOnly
      <4>. QED  BY <1>5, <3>2, <4>1, <4>2, SettledElsewhere
    <3>. QED  BY <3>1, <3>2
  <2>. QED  BY <1>1, <1>3, <2>1, MirroredSame
<1>19. Doomed'
  BY <1>1, <1>2, <1>3, <1>4, <1>5, DoomedAfterRelease
<1>. QED
  BY <1>10, <1>11, <1>12, <1>13, <1>14, <1>15, <1>16, <1>17, <1>18, <1>19 DEF SyncInv

LEMMA HearsCreationKeeps ==
  ASSUME SyncInv, ~ raced, game' = game, NEW m \in Machines, NEW n \in Machines,
         HearsCreation(m, n)
  PROVE  SyncInv'
<1>1. /\ Typed /\ Free /\ Held /\ Apart /\ Fresh /\ Unsaid
      /\ Speakers /\ Callers /\ Mirrored /\ Doomed
  BY DEF SyncInv
<1>2. chan[m][n] # <<>>
  BY DEF HearsCreation
<1>3. PICK e \in Event : e = Head(chan[m][n])
  BY <1>1, <1>2, HeadEvent
<1>4. PICK p \in Machines, u \in 1 .. MaxUnits, k \in Places :
        p = e.player /\ u = e.unit /\ k = e.slot
  BY <1>1, <1>2, <1>3, HeadEvent
<1>5. 1 \in 1 .. Len(chan[m][n]) /\ chan[m][n][1] = e
  BY <1>1, <1>2, <1>3, HeadEvent
<1> DEFINE c == Call("created", p, Last(stack[n][p]))
           Takes == Take(n, p, u) /\ raced' = Meets(n, "net", c)
           Fails == stack[n][p] = <<>> /\ stack' = stack /\ tab' = tab /\ raced' = raced
<1>6. /\ e.type = "EVENT_UNIT_CREATION" /\ At(n, "net", "idle")
      /\ chan' = [chan EXCEPT ![m][n] = Tail(@)]
      /\ doing' = doing /\ seized' = seized /\ born' = born
  BY <1>3 DEF HearsCreation
<1>7. Takes \/ Fails
  BY <1>3, <1>4 DEF HearsCreation
<1>8. HeardOnly(m, n) /\ Creates(e)
  BY <1>1, <1>2, <1>6, HearFacts DEF Creates
<1>9. Takes => TakenOnly(n, p, u)
  BY <1>1, TakeFacts
<1>10. Typed'
  <2>1. /\ stack' \in [Machines -> [Machines -> Seq(Places)]]
        /\ tab' \in [Machines -> [Machines -> [Places -> 0 .. MaxUnits]]]
    <3>1. CASE Takes
      BY <1>9, <3>1 DEF TakenOnly
    <3>2. CASE Fails
      BY <1>1, <3>2 DEF Typed
    <3>. QED  BY <1>7, <3>1, <3>2
  <2>2. chan' \in [Machines -> [Machines -> Seq(Event)]]
    BY <1>8 DEF HeardOnly
  <2>3. raced' \in BOOLEAN
    BY <1>1, <1>7 DEF Meets, Typed
  <2>. QED  BY <1>1, <1>6, <2>1, <2>2, <2>3 DEF Typed
<1>11. Free'
  BY <1>1, <1>7, <1>9, FreeAfterTake, FreeSame
<1>12. Held'
  <2>1. CASE Takes
    BY <1>1, <1>6, <1>9, <2>1, HeldAfterTake
  <2>2. CASE Fails
    BY <1>1, <1>6, <2>2 DEF Held, Unit, Busy
  <2>. QED  BY <1>7, <2>1, <2>2
<1>13. Apart'
  BY <1>1, <1>6, ApartSame
<1>14. Fresh'
  <2>1. CASE Takes
    <3>1. TakenOnly(n, e.player, e.unit)
      BY <1>4, <1>9, <2>1
    <3>. QED  BY <1>1, <1>3, <1>6, <1>8, <3>1, FreshAfterHearing
  <2>2. CASE Fails
    BY <1>1, <1>6, <1>8, <2>2, FreshAfterLess
  <2>. QED  BY <1>7, <2>1, <2>2
<1>15. Unsaid'
  <2>1. "engine" \in Threads
    BY DEF Threads
  <2>2. PICK U : U = {u}
    OBVIOUS
  <2>3. ASSUME NEW x \in Machines, Pending(x)'
        PROVE  /\ Pending(x) /\ doing'[x]["engine"] = doing[x]["engine"]
               /\ Unit(x, "engine")' = Unit(x, "engine") /\ Unit(x, "engine") \notin U
    <3>1. Pending(x) /\ doing'[x]["engine"] = doing[x]["engine"]
      BY <1>6, <2>3 DEF Pending, At
    <3>2. Busy(x, "engine")
      BY <3>1 DEF Busy, Pending, At
    <3>3. Unit(x, "engine")' = Unit(x, "engine")
      <4>1. CASE Takes
        BY <1>1, <1>9, <2>1, <3>1, <3>2, <4>1, UnitAfterTake
      <4>2. CASE Fails
        BY <3>1, <4>2 DEF Unit
      <4>. QED  BY <1>7, <4>1, <4>2
    <3>4. Unit(x, "engine") # u
      BY <1>1, <1>4, <1>5, <1>8, <3>1 DEF Unsaid
    <3>. QED  BY <2>2, <3>1, <3>3, <3>4
  <2>4. \A x, q \in Machines, j \in Places : tab'[x][q][j] \in {0, tab[x][q][j]} \cup U
    <3>1. CASE Takes
      <4>1. \A x, q \in Machines, j \in Places :
              tab'[x][q][j] = IF x = n /\ q = p /\ j = Last(stack[n][p]) THEN u ELSE tab[x][q][j]
        BY <1>9, <3>1 DEF TakenOnly
      <4>. QED  BY <2>2, <4>1
    <3>2. CASE Fails
      BY <3>2
    <3>. QED  BY <1>7, <3>1, <3>2
  <2>5. \A x, y \in Machines : \A i \in 1 .. Len(chan'[x][y]) : Creates(chan'[x][y][i]) =>
          \E j \in 1 .. Len(chan[x][y]) : chan[x][y][j] = chan'[x][y][i]
    BY <1>1, <1>8, LessCreations
  <2>6. \A x, y \in Machines : \A i \in 1 .. Len(chan'[x][y]) : Creates(chan'[x][y][i]) =>
          \/ chan'[x][y][i].unit \in U
          \/ \E j \in 1 .. Len(chan[x][y]) : chan[x][y][j] = chan'[x][y][i]
    BY <2>5
  <2>. QED  BY <1>1, <2>3, <2>4, <2>6, UnsaidKept
<1>16. Speakers'
  BY <1>1, <1>8, SpeakersAfterLess
<1>17. Callers'
  BY <1>1, <1>6, CallersLater
<1>18. p = m \/ (m = Server /\ p \in game.scripted)
  BY <1>1, <1>4, <1>5, <1>8 DEF Speakers
<1>19. Mirrored'
  <2>1. ASSUME NEW x \in Machines, NEW q \in Machines, x # n \/ q # p
        PROVE  Settled(x, q)' = Settled(x, q)
    <3>1. \A y, z \in Machines : y # n \/ z # p =>
            stack'[y][z] = stack[y][z] /\ tab'[y][z] = tab[y][z]
      <4>1. CASE Takes
        BY <1>9, <4>1 DEF TakenOnly
      <4>2. CASE Fails
        BY <4>2
      <4>. QED  BY <1>7, <4>1, <4>2
    <3>. QED  BY <1>6, <2>1, <3>1, SettledUnmoved
  <2>2. ASSUME NEW x \in Machines, NEW q \in Machines, OwnsAlone(q), x # n \/ q # m
        PROVE  Settled(x, q)' = Settled(x, q)
    BY <1>18, <2>1, <2>2 DEF OwnsAlone
  <2>3. ASSUME OwnsAlone(m), n # m, NEW w \in Copies,
               Leads(m, Settled(n, m), Head(chan[m][n]), w)
        PROVE  Settled(n, m)' = w
    <3>1. CASE p = m
      <4>1. Halves(n, m) = {}
        BY <1>1, <1>6, <2>3, AloneHalves
      <4>2. Halves(n, m)' = {}
        BY <1>6, <4>1, HalvesUnchanged
      <4>3. Settled(n, m) = Copy(n, m) /\ Settled(n, m)' = Copy(n, m)'
        BY <4>1, <4>2, SettledLater
      <4>4. Copy(n, m).stack # <<>> /\ w = Filled(Copy(n, m), u)
        BY <1>3, <1>4, <1>8, <2>3, <3>1, <4>3 DEF Leads
      <4>5. CASE Takes
        <5>1. Copy(n, m)' = Filled(Copy(n, m), u)
          BY <1>1, <1>9, <3>1, <4>5, FilledByTake
        <5>. QED  BY <4>3, <4>4, <5>1
      <4>6. CASE Fails
        <5>1. Copy(n, m).stack = stack[n][m]
          BY <1>1, CopyTyped
        <5>. QED  BY <3>1, <4>4, <4>6, <5>1
      <4>. QED  BY <1>7, <4>5, <4>6
    <3>2. CASE p # m
      <4>1. w = Settled(n, m)
        BY <1>3, <1>4, <2>3, <3>2 DEF Leads
      <4>. QED  BY <2>1, <3>2, <4>1
    <3>. QED  BY <3>1, <3>2
  <2>. QED  BY <1>1, <1>8, <2>2, <2>3, MirroredAfterHeard
<1>20. Doomed'
  <2>1. ASSUME NEW q \in Machines, BuildsNothing(q), NEW x \in Machines, NEW j \in Places
        PROVE  /\ tab'[x][q][j] = tab[x][q][j]
               /\ ~ Names(Head(chan[m][n]), q, j)
               /\ Dying(x, q, j)' <=> Dying(x, q, j)
    <3>1. q # p
      BY <1>1, <1>4, <1>5, <1>8, <2>1, NothingBuilt
    <3>2. tab'[x][q] = tab[x][q]
      <4>1. CASE Takes
        BY <1>9, <3>1, <4>1 DEF TakenOnly
      <4>2. CASE Fails
        BY <4>2
      <4>. QED  BY <1>7, <4>1, <4>2
    <3>3. ~ Names(e, q, j)
      BY <1>8 DEF Names
    <3>4. Dying(x, q, j)' <=> Dying(x, q, j)
      BY <1>6 DEF Dying, Dies
    <3>. QED  BY <1>3, <3>2, <3>3, <3>4
  <2>. QED  BY <1>1, <1>8, <2>1, DoomedAfterHearing
<1>. QED
  BY <1>10, <1>11, <1>12, <1>13, <1>14, <1>15, <1>16, <1>17, <1>19, <1>20 DEF SyncInv

LEMMA HearsDeathKeeps ==
  ASSUME SyncInv, ~ raced, game' = game, NEW m \in Machines, NEW n \in Machines,
         HearsDeath(m, n)
  PROVE  SyncInv'
<1>1. /\ Typed /\ Free /\ Held /\ Apart /\ Fresh /\ Unsaid
      /\ Speakers /\ Callers /\ Mirrored /\ Doomed
  BY DEF SyncInv
<1>2. chan[m][n] # <<>> /\ "net" \in Threads
  BY DEF HearsDeath, Threads
<1>3. PICK e \in Event : e = Head(chan[m][n])
  BY <1>1, <1>2, HeadEvent
<1>4. PICK p \in Machines, u \in 1 .. MaxUnits, k \in Places :
        p = e.player /\ u = e.unit /\ k = e.slot
  BY <1>1, <1>2, <1>3, HeadEvent
<1>5. 1 \in 1 .. Len(chan[m][n]) /\ chan[m][n][1] = e
  BY <1>1, <1>2, <1>3, HeadEvent
<1>6. /\ e.type = "EVENT_UNIT_DEATH" /\ doing[n]["net"].step = "idle"
      /\ chan' = [chan EXCEPT ![m][n] = Tail(@)]
      /\ stack' = stack /\ tab' = tab /\ seized' = seized /\ born' = born
  BY <1>3 DEF HearsDeath, At
<1>7. IF tab[n][p][k] # 0
      THEN Begins(n, "net", Call("dying", p, k))
      ELSE doing' = doing /\ raced' = raced
  BY <1>3, <1>4 DEF HearsDeath
<1>8. HeardOnly(m, n) /\ ~ Creates(e) /\ Names(e, p, k)
  BY <1>1, <1>2, <1>4, <1>6, HearFacts DEF Creates, Names
<1>9. doing[n]["net"] \in Calls /\ ~ Busy(n, "net")
  BY <1>1, <1>2, <1>6, DoingTyped DEF Busy
<1>10. PICK c \in Calls : c = IF tab[n][p][k] # 0 THEN Call("dying", p, k) ELSE doing[n]["net"]
  BY <1>9, CallTyped
<1>11. /\ tab[n][p][k] # 0 => c.step = "dying" /\ c.player = p /\ c.slot = k
       /\ tab[n][p][k] = 0 => c = doing[n]["net"]
  BY <1>10, CallTyped
<1>12. CallOnly(n, "net", c)
  <2>1. CASE tab[n][p][k] # 0
    BY <1>1, <1>2, <1>7, <1>10, <2>1, CallFacts DEF Begins
  <2>2. CASE tab[n][p][k] = 0
    <3>1. doing' = doing /\ c = doing[n]["net"]
      BY <1>7, <1>11, <2>2
    <3>. QED  BY <1>1, <3>1 DEF CallOnly, Typed
  <2>. QED  BY <2>1, <2>2
<1>13. tab[n][p][k] # 0 => raced' = Meets(n, "net", c)
  BY <1>7, <1>10 DEF Begins
<1>14. Typed'
  <2>1. chan' \in [Machines -> [Machines -> Seq(Event)]]
    BY <1>8 DEF HeardOnly
  <2>2. doing' \in [Machines -> [Threads -> Calls]]
    BY <1>12 DEF CallOnly
  <2>3. raced' \in BOOLEAN
    BY <1>1, <1>7, <1>13 DEF Meets, Typed
  <2>. QED  BY <1>1, <1>6, <2>1, <2>2, <2>3 DEF Typed
<1>15. Free'
  BY <1>1, <1>6, FreeSame
<1>16. Held'
  <2>1. c.step # "idle" => tab[n][c.player][c.slot] # 0
    BY <1>6, <1>11
  <2>. QED  BY <1>1, <1>2, <1>6, <1>12, <2>1, HeldAfterCall
<1>17. Apart'
  <2>1. c.step = "idle" \/ (~ Busy(n, "net") /\ raced' = Meets(n, "net", c))
    BY <1>6, <1>9, <1>11, <1>13
  <2>. QED  BY <1>1, <1>2, <1>12, <2>1, ApartAfterCall
<1>18. Fresh'
  BY <1>1, <1>6, <1>8, FreshAfterLess
<1>19. Unsaid'
  <2>1. \A x, y \in Machines : \A i \in 1 .. Len(chan'[x][y]) : Creates(chan'[x][y][i]) =>
          \E j \in 1 .. Len(chan[x][y]) : chan[x][y][j] = chan'[x][y][i]
    BY <1>1, <1>8, LessCreations
  <2>2. c.step # "created"
    BY <1>6, <1>11
  <2>. QED  BY <1>1, <1>2, <1>6, <1>12, <2>1, <2>2, UnsaidAfterCall
<1>20. Speakers'
  BY <1>1, <1>8, SpeakersAfterLess
<1>21. Callers'
  <2>1. Fits(n, "net", c)
    BY <1>6, <1>11 DEF Fits
  <2>2. \A x \in Machines, y \in Threads :
          doing'[x][y] = doing[x][y] \/ Fits(x, y, doing'[x][y])
    BY <1>12, <2>1 DEF CallOnly
  <2>. QED  BY <1>1, <1>6, <2>2, CallersLater
<1>22. p = m \/ m \in game.captors
  BY <1>1, <1>4, <1>5, <1>8 DEF Speakers
<1>23. Mirrored'
  <2>1. ASSUME NEW x \in Machines, NEW q \in Machines, x # n \/ q # p
        PROVE  Settled(x, q)' = Settled(x, q)
    <3>1. \A j \in Places, y \in Machines :
            y # p => (Half(c, y, j) <=> Half(doing[n]["net"], y, j))
      BY <1>6, <1>11 DEF Half
    <3>2. \A y, z \in Machines : y # n \/ z # p =>
            stack'[y][z] = stack[y][z] /\ tab'[y][z] = tab[y][z]
      BY <1>6
    <3>. QED  BY <1>2, <1>12, <2>1, <3>1, <3>2, SettledElsewhere
  <2>2. ASSUME NEW x \in Machines, NEW q \in Machines, OwnsAlone(q), x # n \/ q # m
        PROVE  Settled(x, q)' = Settled(x, q)
    BY <1>22, <2>1, <2>2 DEF OwnsAlone
  <2>3. ASSUME ~ raced', OwnsAlone(m), n # m, NEW w \in Copies,
               Leads(m, Settled(n, m), Head(chan[m][n]), w)
        PROVE  Settled(n, m)' = w
    <3>1. CASE p = m
      <4>1. Halves(n, m) = {}
        BY <1>1, <1>6, <2>3, AloneHalves DEF At
      <4>2. Settled(n, m) = Copy(n, m) /\ Copy(n, m)' = Copy(n, m)
        BY <1>6, <4>1, SettledLater, CopySame
      <4>3. Copy(n, m).tab[k] = u /\ w = Freed(Copy(n, m), k)
        BY <1>3, <1>4, <1>8, <2>3, <3>1, <4>2 DEF Leads
      <4>4. tab[n][p][k] = u
        BY <1>1, <3>1, <4>3, CopyTyped
      <4>5. tab[n][p][k] # 0
        BY <4>4, SyncAssumption
      <4>6. c.step = "dying" /\ c.player = m /\ c.slot = k /\ ~ Meets(n, "net", c)
        BY <1>11, <1>13, <2>3, <3>1, <4>5
      <4>7. Halves(n, c.player)' = {c.slot}
        BY <1>1, <1>2, <1>9, <1>12, <4>6, HalvesBegun
      <4>8. Halves(n, m)' = {k}
        <5>1. \A y \in Machines : y = c.player => Halves(n, y)' = {c.slot}
          BY <4>7
        <5>. QED  BY <4>6, <5>1
      <4>9. Settled(n, m)' = Freed(Copy(n, m)', k)
        BY <4>8, SettledLater
      <4>. QED  BY <4>2, <4>3, <4>9
    <3>2. CASE p # m
      <4>1. w = Settled(n, m)
        BY <1>3, <1>4, <2>3, <3>2 DEF Leads
      <4>. QED  BY <2>1, <3>2, <4>1
    <3>. QED  BY <3>1, <3>2
  <2>. QED  BY <1>1, <1>8, <2>2, <2>3, MirroredAfterHeard
<1>24. Doomed'
  <2>1. ASSUME NEW q \in Machines, NEW x \in Machines, NEW j \in Places
        PROVE  /\ tab'[x][q][j] = tab[x][q][j]
               /\ IF x = n /\ Names(Head(chan[m][n]), q, j)
                  THEN tab'[x][q][j] = 0 \/ Dying(x, q, j)'
                  ELSE Dying(x, q, j)' <=> Dying(x, q, j)
    <3>1. CASE x = n /\ Names(Head(chan[m][n]), q, j)
      <4>1. q = p /\ j = k
        BY <1>3, <1>4, <3>1 DEF Names
      <4>2. CASE tab[n][p][k] # 0
        <5>1. Dies(c, q, j)
          BY <1>11, <4>1, <4>2 DEF Dies
        <5>. QED  BY <1>2, <1>6, <1>12, <3>1, <5>1, DyingLater
      <4>3. CASE tab[n][p][k] = 0
        BY <1>6, <3>1, <4>1, <4>3
      <4>. QED  BY <4>2, <4>3
    <3>2. CASE ~ (x = n /\ Names(Head(chan[m][n]), q, j))
      <4>1. x # n \/ (Dies(c, q, j) <=> Dies(doing[n]["net"], q, j))
        <5>1. ASSUME x = n, Dies(c, q, j)
              PROVE  FALSE
          <6>1. tab[n][p][k] # 0
            BY <1>6, <1>11, <5>1 DEF Dies
          <6>2. q = p /\ j = k
            BY <1>11, <5>1, <6>1 DEF Dies
          <6>. QED  BY <1>3, <1>8, <3>2, <5>1, <6>2
        <5>2. ~ Dies(doing[n]["net"], q, j)
          BY <1>6 DEF Dies
        <5>. QED  BY <5>1, <5>2
      <4>2. Dying(x, q, j)' <=> Dying(x, q, j)
        BY <1>2, <1>12, <4>1, DyingLater
      <4>. QED  BY <1>6, <3>2, <4>2
    <3>. QED  BY <3>1, <3>2
  <2>. QED  BY <1>1, <1>8, <2>1, DoomedAfterHearing
<1>. QED
  BY <1>14, <1>15, <1>16, <1>17, <1>18, <1>19, <1>20, <1>21, <1>23, <1>24 DEF SyncInv

-----------------------------------------------------------------------------
(* A step in which no thread begins, ends or touches a slot.               *)
LEMMA NothingKeeps ==
  ASSUME SyncInv, game' = game,
         UNCHANGED <<stack, tab, chan, doing, born, raced>>,
         seized' \in [Machines -> SUBSET (Machines \X Places)],
         \A x, q \in Machines, k \in Places :
           <<q, k>> \in seized'[x] =>
             <<q, k>> \in seized[x] \/ (q # x /\ x \in game.captors)
  PROVE  SyncInv'
<1>1. /\ Typed /\ Free /\ Held /\ Apart /\ Fresh /\ Unsaid
      /\ Speakers /\ Callers /\ Mirrored /\ Doomed
  BY DEF SyncInv
<1>2. /\ stack' = stack /\ tab' = tab /\ chan' = chan /\ doing' = doing /\ born' = born
      /\ (raced' <=> raced) /\ raced' = raced
  OBVIOUS
<1>3. Typed' /\ Free' /\ Fresh' /\ Speakers'
  BY <1>1, <1>2 DEF Typed, Free, Fresh, Speakers, Creates
<1>4. Held' /\ Apart'
  BY <1>1, <1>2 DEF Held, Apart, Busy, Unit
<1>5. Unsaid'
  BY <1>1, <1>2 DEF Unsaid, Pending, At, Unit, Creates
<1>6. Callers'
  BY <1>1, <1>2, CallersLater
<1>7. Mirrored'
  <2>1. ASSUME NEW x \in Machines, NEW q \in Machines
        PROVE  Settled(x, q)' = Settled(x, q)
    <3>1. Halves(x, q)' = Halves(x, q)
      BY <1>2, HalvesUnchanged
    <3>. QED  BY <1>2, <3>1, SettledSame
  <2>2. CASE raced
    BY <1>2, <2>2 DEF Mirrored
  <2>3. CASE ~ raced
    BY <1>1, <1>2, <2>1, <2>3, MirroredSame
  <2>. QED  BY <2>2, <2>3
<1>8. Doomed'
  <2>1. ASSUME NEW q \in Machines, NEW n \in Machines, NEW k \in Places
        PROVE  /\ tab'[n][q][k] = tab[n][q][k]
               /\ Dying(n, q, k)' <=> Dying(n, q, k)
               /\ Announced(n, q, k)' <=> Announced(n, q, k)
    BY <1>2 DEF Dying, Dies, Announced, Names, Creates
  <2>. QED  BY <1>1, <2>1, DoomedKept
<1>. QED  BY <1>3, <1>4, <1>5, <1>6, <1>7, <1>8 DEF SyncInv

LEMMA InitKeeps == Init => SyncInv
<1> SUFFICES ASSUME Init PROVE SyncInv
  OBVIOUS
<1> DEFINE start == [i \in 1 .. MaxUnitPerPlayer - 1 |-> i - 1]
           units == [k \in Places |-> IF k = MaxUnitPerPlayer - 1 THEN 1 ELSE 0]
<1>1. MaxUnitPerPlayer \in Nat \ {0} /\ MaxUnits \in Nat \ {0}
  BY SyncAssumption
<1>2. /\ game \in Games /\ born = 1 /\ raced = FALSE
      /\ stack = [m \in Machines |-> [p \in Machines |-> start]]
      /\ tab = [m \in Machines |-> [p \in Machines |-> units]]
      /\ chan = [m \in Machines |-> [n \in Machines |-> <<>>]]
      /\ doing = [m \in Machines |-> [t \in Threads |-> Idle]]
      /\ seized = [m \in Machines |-> {}]
  BY DEF Init
<1>3. /\ start \in Seq(Places) /\ Len(start) = MaxUnitPerPlayer - 1
      /\ \A i \in 1 .. Len(start) : start[i] = i - 1 /\ start[i] \in Places
  <2>1. \A i \in 1 .. MaxUnitPerPlayer - 1 : i - 1 \in 0 .. MaxUnitPerPlayer - 1
    BY <1>1
  <2>2. start \in [1 .. MaxUnitPerPlayer - 1 -> Places]
    BY <2>1 DEF Places
  <2>3. MaxUnitPerPlayer - 1 \in Nat
    BY <1>1
  <2>4. start \in Seq(Places)
    BY <2>2, <2>3, SeqDef
  <2>5. Len(start) = MaxUnitPerPlayer - 1
    BY <2>2, <2>3
  <2>. QED  BY <2>1, <2>4, <2>5 DEF Places
<1>4. /\ units \in [Places -> 0 .. MaxUnits]
      /\ \A k \in Places : units[k] = First(k)
  BY <1>1 DEF First
<1>5. \A k \in Places : units[k] \in {0, 1} /\ (units[k] = 1 <=> k = MaxUnitPerPlayer - 1)
  OBVIOUS
<1> HIDE DEF start, units
<1>6. \A m, p \in Machines :
        /\ stack[m][p] = start /\ tab[m][p] = units /\ chan[m][p] = <<>>
        /\ seized[m] = {}
  BY <1>2
<1>7. \A m \in Machines, t \in Threads :
        doing[m][t] = Idle /\ ~ Busy(m, t) /\ ~ (doing[m][t].step = "dying")
                           /\ ~ (doing[m][t].step = "created")
  BY <1>2, IdleTyped DEF Busy
<1>8. Len(<<>>) = 0 /\ 1 .. 0 = {}
  OBVIOUS
<1>9. Typed
  <2>1. <<>> \in Seq(Event)
    OBVIOUS
  <2>2. doing \in [Machines -> [Threads -> Calls]]
    BY <1>2, IdleTyped
  <2>3. /\ stack \in [Machines -> [Machines -> Seq(Places)]]
        /\ tab \in [Machines -> [Machines -> [Places -> 0 .. MaxUnits]]]
    BY <1>2, <1>3, <1>4
  <2>4. chan \in [Machines -> [Machines -> Seq(Event)]]
    BY <1>2, <2>1
  <2>5. born \in 1 .. MaxUnits
    BY <1>1, <1>2
  <2>. QED  BY <1>2, <2>2, <2>3, <2>4, <2>5 DEF Typed
<1>10. Free
  <2>1. \A i, j \in 1 .. Len(start) : start[i] = start[j] => i = j
    BY <1>3
  <2>2. \A i \in 1 .. Len(start) : units[start[i]] = 0
    BY <1>1, <1>3, <1>5
  <2>. QED  BY <1>6, <2>1, <2>2 DEF Free
<1>11. Held /\ Apart
  BY <1>7 DEF Held, Apart
<1>12. Fresh
  <2>1. \A j, k \in Places :
          /\ units[k] <= born
          /\ units[j] = units[k] /\ units[j] # 0 => j = k
    BY <1>2, <1>5
  <2>. QED  BY <1>6, <1>8, <2>1 DEF Fresh
<1>13. Unsaid
  <2>1. "engine" \in Threads
    BY DEF Threads
  <2>2. \A m \in Machines : ~ Pending(m)
    BY <1>7, <2>1 DEF Pending, At
  <2>. QED  BY <2>2 DEF Unsaid
<1>14. Speakers
  BY <1>6, <1>8 DEF Speakers
<1>15. Callers
  BY <1>6, <1>7, FitsIdle DEF Callers
<1>16. Mirrored
  <2>1. ASSUME NEW p \in Machines, NEW n \in Machines
        PROVE  Follows(p, chan[p][n], Settled(n, p), Settled(p, p))
    <3>1. Halves(n, p) = {} /\ Halves(p, p) = {}
      BY <1>7, HalvesNone
    <3>2. Settled(n, p) = Copy(n, p) /\ Settled(p, p) = Copy(p, p)
      BY <3>1, SettledLater
    <3>3. Copy(p, p) = Copy(n, p)
      BY <1>6 DEF Copy
    <3>4. Copy(n, p) \in Copies
      BY <1>9, CopyTyped
    <3> DEFINE way == [i \in 1 .. 1 |-> Copy(n, p)]
    <3>5. way \in [1 .. 0 + 1 -> Copies] /\ way[1] = Copy(n, p) /\ way[0 + 1] = Copy(n, p)
      BY <3>4
    <3> HIDE DEF way
    <3>6. Follows(p, <<>>, Copy(n, p), Copy(n, p))
      BY <1>8, <3>5 DEF Follows
    <3>. QED  BY <1>6, <3>2, <3>3, <3>6
  <2>. QED  BY <2>1 DEF Mirrored
<1>17. Doomed
  <2>1. ASSUME NEW p \in Machines, NEW k \in Places
        PROVE  /\ \A n \in Machines : tab[n][p][k] \in {0, First(k)}
               /\ \A m, n \in Machines : OnItsWay(m, p, k) => OnItsWay(n, p, k)
    <3>1. \A n \in Machines : tab[n][p][k] = units[k]
      BY <1>6
    <3>2. \A n \in Machines : ~ Announced(n, p, k)
      BY <1>6, <1>8 DEF Announced
    <3>3. \A n \in Machines : ~ Dying(n, p, k)
      BY <1>7 DEF Dying, Dies
    <3>. QED  BY <1>4, <3>1, <3>2, <3>3 DEF OnItsWay
  <2>. QED  BY <2>1 DEF Doomed
<1>. QED
  BY <1>9, <1>10, <1>11, <1>12, <1>13, <1>14, <1>15, <1>16, <1>17 DEF SyncInv

LEMMA StepKeeps == SyncInv /\ [Next]_vars => SyncInv'
<1> SUFFICES ASSUME SyncInv, [Next]_vars
             PROVE  SyncInv'
  OBVIOUS
<1>1. seized \in [Machines -> SUBSET (Machines \X Places)]
  BY DEF SyncInv, Typed
<1>2. ASSUME NEW m \in Machines, Build(m), game' = game, ~ raced
      PROVE  SyncInv'
  <2>1. m \in game.builders \cup game.captors /\ CreateUnit(m) /\ seized' = seized
    BY <1>2 DEF Build
  <2>. QED  BY <1>1, <1>2, <2>1, CreateKeeps
<1>3. ASSUME NEW m \in Machines, NEW p \in Machines, NEW k \in Places, Capture(m, p, k),
             game' = game, ~ raced
      PROVE  SyncInv'
  <2>1. /\ m \in game.captors /\ p # m
        /\ seized' = [seized EXCEPT ![m] = seized[m] \cup {<<p, k>>}]
        /\ CreateUnit(m) \/ UNCHANGED <<stack, tab, chan, doing, born, raced>>
    BY <1>3 DEF Capture
  <2>2. seized' \in [Machines -> SUBSET (Machines \X Places)]
    <3>1. seized[m] \cup {<<p, k>>} \in SUBSET (Machines \X Places)
      BY <1>1
    <3>. QED  BY <1>1, <2>1, <3>1
  <2>3. ASSUME NEW x \in Machines, NEW q \in Machines, NEW j \in Places,
               <<q, j>> \in seized'[x]
        PROVE  <<q, j>> \in seized[x] \/ (q # x /\ x \in game.captors)
    <3>1. CASE x = m
      <4>1. seized'[x] = seized[x] \cup {<<p, k>>}
        BY <1>1, <2>1, <3>1
      <4>2. <<q, j>> = <<p, k>> => q = p
        OBVIOUS
      <4>. QED  BY <2>1, <2>3, <3>1, <4>1, <4>2
    <3>2. CASE x # m
      BY <1>1, <2>1, <2>3, <3>2
    <3>. QED  BY <3>1, <3>2
  <2>4. CASE CreateUnit(m)
    <3>1. m \in game.builders \cup game.captors
      BY <2>1
    <3>. QED  BY <1>3, <2>2, <2>3, <2>4, <3>1, CreateKeeps
  <2>5. CASE UNCHANGED <<stack, tab, chan, doing, born, raced>>
    BY <1>3, <2>2, <2>3, <2>5, NothingKeeps
  <2>. QED  BY <2>1, <2>4, <2>5
<1>4. ASSUME UNCHANGED vars
      PROVE  SyncInv'
  BY <1>1, <1>4, NothingKeeps DEF vars
<1>5. ASSUME NEW m \in Machines, NEW n \in Machines, Receive(m, n), game' = game, ~ raced
      PROVE  SyncInv'
  BY <1>5, HearsCreationKeeps, HearsDeathKeeps DEF Receive
<1>6. ASSUME NEW m \in Machines, NEW t \in Threads, KillSends(m, t) \/ KillReleases(m, t),
             game' = game, ~ raced
      PROVE  SyncInv'
  BY <1>6, KillSendsKeeps, KillReleasesKeeps
<1>7. ASSUME NEW m \in Machines, Announce(m), game' = game, ~ raced
      PROVE  SyncInv'
  BY <1>7, AnnounceKeeps
<1>8. ASSUME NEW p \in Machines, ScriptCreates(p), game' = game, ~ raced
      PROVE  SyncInv'
  BY <1>8, ScriptKeeps
<1>9. ASSUME NEW m \in Machines, NEW p \in Machines, NEW t \in Threads, NEW k \in Places,
             Finds(m, t, p, k), game' = game, ~ raced
      PROVE  SyncInv'
  BY <1>9, FindsKeeps
<1>10. ASSUME Next
       PROVE  SyncInv'
  <2>1. ~ raced /\ game' = game /\ Step
    BY <1>10 DEF Next
  <2>. QED  BY <1>2, <1>3, <1>5, <1>6, <1>7, <1>8, <1>9, <2>1 DEF Step
<1>. QED
  BY <1>4, <1>10

-----------------------------------------------------------------------------
(* Whatever happens, SyncInv holds.                                        *)
THEOREM SyncInductive == Spec => []SyncInv
BY InitKeeps, StepKeeps, PTL DEF Spec

(* A stack of free slots has no room for more slots than the player has.   *)
LEMMA StackFits ==
  ASSUME NEW s \in Seq(Places), \A i, j \in 1 .. Len(s) : s[i] = s[j] => i = j
  PROVE  Len(s) <= MaxUnitPerPlayer
<1> DEFINE l == Len(s)
<1>1. l \in Nat /\ \A i \in 1 .. l : s[i] \in Places
  BY QueueFacts
<1>2. s \in [1 .. l -> Places]
  OBVIOUS
<1>3. MaxUnitPerPlayer \in Nat \ {0}
  BY SyncAssumption
<1>4. IsFiniteSet(Places) /\ Cardinality(Places) = MaxUnitPerPlayer
  <2>1. 0 \in Int /\ MaxUnitPerPlayer - 1 \in Int
    BY <1>3
  <2>2. /\ IsFiniteSet(0 .. MaxUnitPerPlayer - 1)
        /\ Cardinality(0 .. MaxUnitPerPlayer - 1)
             = IF 0 > MaxUnitPerPlayer - 1 THEN 0 ELSE MaxUnitPerPlayer - 1 - 0 + 1
    BY <2>1, FS_Interval
  <2>. QED  BY <1>3, <2>2 DEF Places
<1>5. IsFiniteSet(1 .. l) /\ Cardinality(1 .. l) = l
  <2>1. 1 \in Int /\ l \in Int
    BY <1>1
  <2>2. /\ IsFiniteSet(1 .. l)
        /\ Cardinality(1 .. l) = IF 1 > l THEN 0 ELSE l - 1 + 1
    BY <2>1, FS_Interval
  <2>. QED  BY <1>1, <2>2
<1> HIDE DEF l
<1>6. ASSUME l > MaxUnitPerPlayer PROVE FALSE
  <2>1. PICK x, y \in 1 .. l : x # y /\ s[x] = s[y]
    BY <1>1, <1>2, <1>3, <1>4, <1>5, <1>6, FS_PigeonHole
  <2>. QED  BY <2>1 DEF l
<1>. QED  BY <1>1, <1>3, <1>6 DEF l

(* On every machine of every game a unit is in one slot, no free slot      *)
(* holds one, no slot is free twice, and none of a unit that is being      *)
(* announced or killed is free yet.                                        *)
THEOREM SyncTypeCorrect == Spec => []TypeOK
<1>1. SyncInv => TypeOK
  <2> SUFFICES ASSUME SyncInv PROVE TypeOK
    OBVIOUS
  <2>1. Typed /\ Free /\ Held /\ Fresh
    BY DEF SyncInv
  <2>2. ASSUME NEW m \in Machines, NEW p \in Machines
        PROVE  /\ Len(stack[m][p]) <= MaxUnitPerPlayer /\ Range(stack[m][p]) \subseteq Places
               /\ tab[m][p] \in [Places -> 0 .. MaxUnits]
               /\ IsInjective(stack[m][p])
               /\ \A k \in Range(stack[m][p]) : tab[m][p][k] = 0
               /\ \A j, k \in Places :
                    tab[m][p][j] = tab[m][p][k] /\ tab[m][p][j] # 0 => j = k
               /\ \A i \in DOMAIN chan[m][p] :
                    /\ chan[m][p][i].slot \in Places
                    /\ chan[m][p][i].unit \in 1 .. MaxUnits
    <3>1. /\ stack[m][p] \in Seq(Places) /\ tab[m][p] \in [Places -> 0 .. MaxUnits]
          /\ chan[m][p] \in Seq(Event)
      BY <2>1 DEF Typed
    <3>2. /\ \A i, j \in 1 .. Len(stack[m][p]) : stack[m][p][i] = stack[m][p][j] => i = j
          /\ \A i \in 1 .. Len(stack[m][p]) : tab[m][p][stack[m][p][i]] = 0
      BY <2>1 DEF Free
    <3>3. /\ DOMAIN stack[m][p] = 1 .. Len(stack[m][p])
          /\ \A i \in 1 .. Len(stack[m][p]) : stack[m][p][i] \in Places
          /\ DOMAIN chan[m][p] = 1 .. Len(chan[m][p])
      BY <3>1, QueueFacts
    <3>4. Len(stack[m][p]) <= MaxUnitPerPlayer
      BY <3>1, <3>2, StackFits
    <3>5. IsInjective(stack[m][p]) /\ Range(stack[m][p]) \subseteq Places
      BY <3>2, <3>3 DEF IsInjective, Range
    <3>6. \A k \in Range(stack[m][p]) : tab[m][p][k] = 0
      BY <3>2, <3>3 DEF Range
    <3>7. \A j, k \in Places : tab[m][p][j] = tab[m][p][k] /\ tab[m][p][j] # 0 => j = k
      BY <2>1 DEF Fresh
    <3>8. \A i \in DOMAIN chan[m][p] :
            chan[m][p][i].slot \in Places /\ chan[m][p][i].unit \in 1 .. MaxUnits
      BY <2>1, <3>3, EventTyped
    <3>. QED  BY <3>1, <3>4, <3>5, <3>6, <3>7, <3>8
  <2>3. ASSUME NEW m \in Machines, NEW t \in Threads
        PROVE  /\ doing[m][t].step \in {"idle", "created", "found", "dying"}
               /\ doing[m][t].player \in Machines /\ doing[m][t].slot \in Places
               /\ doing[m][t].step # "idle" =>
                    tab[m][doing[m][t].player][doing[m][t].slot] # 0
    <3>1. doing[m][t].step # "idle" => tab[m][doing[m][t].player][doing[m][t].slot] # 0
      BY <2>1 DEF Held, Busy, Unit
    <3>. QED  BY <2>1, <3>1, DoingTyped
  <2>4. /\ game \in Games /\ born \in 1 .. MaxUnits /\ raced \in BOOLEAN
        /\ \A m \in Machines : seized[m] \subseteq Machines \X Places
    BY <2>1 DEF Typed
  <2>. QED  BY <2>2, <2>3, <2>4 DEF TypeOK
<1>. QED  BY <1>1, SyncInductive, PTL

(* Where every player who builds is the only one to create its units, the  *)
(* machines agree on every unit once all events are handled, as long as no *)
(* two threads of a machine create and kill at once.  (Where the script or *)
(* a captor creates units too, run unit_sync_capture shows how they come   *)
(* to differ.)                                                             *)
THEOREM UnitsAgree ==
  Spec => []((\A p \in Machines : OwnsAlone(p) \/ BuildsNothing(p)) => Agreement)
<1>1. SyncInv => ((\A p \in Machines : OwnsAlone(p) \/ BuildsNothing(p)) => Agreement)
  <2> SUFFICES ASSUME SyncInv, \A p \in Machines : OwnsAlone(p) \/ BuildsNothing(p), Quiet,
                      ~ raced
               PROVE  \A m, n \in Machines : tab[m] = tab[n]
    BY DEF Agreement
  <2>1. Typed /\ Mirrored /\ Doomed
    BY DEF SyncInv
  <2>2. /\ \A m, n \in Machines : chan[m][n] = <<>>
        /\ \A m \in Machines, t \in Threads : ~ Busy(m, t) /\ doing[m][t].step # "dying"
    BY DEF Quiet, At, Busy
  <2>3. ASSUME NEW m \in Machines, NEW n \in Machines, NEW p \in Machines
        PROVE  tab[m][p] = tab[n][p]
    <3>1. CASE OwnsAlone(p)
      <4>1. ASSUME NEW x \in Machines
            PROVE  Settled(x, p) = Copy(x, p)
        <5>1. Halves(x, p) = {}
          BY <2>2, HalvesNone
        <5>. QED  BY <5>1, SettledLater
      <4>2. ASSUME NEW x \in Machines
            PROVE  tab[x][p] = tab[p][p]
        <5>1. CASE x # p
          <6>1. Follows(p, chan[p][x], Settled(x, p), Settled(p, p))
            BY <2>1, <3>1, <5>1 DEF Mirrored
          <6>2. Follows(p, <<>>, Copy(x, p), Copy(p, p))
            BY <2>2, <4>1, <6>1
          <6>3. Copy(x, p) = Copy(p, p)
            BY <6>2, FollowsNothing
          <6>. QED  BY <2>1, <6>3, CopyTyped
        <5>. QED  BY <5>1
      <4>. QED  BY <4>2
    <3>2. CASE BuildsNothing(p)
      <4>1. Len(<<>>) = 0 /\ 1 .. 0 = {}
        OBVIOUS
      <4>2. \A x \in Machines, k \in Places : OnItsWay(x, p, k) <=> tab[x][p][k] = 0
        BY <2>2, <4>1 DEF OnItsWay, Announced, Dying, Dies
      <4>3. \A k \in Places : tab[m][p][k] = 0 <=> tab[n][p][k] = 0
        BY <2>1, <3>2, <4>2 DEF Doomed
      <4>4. \A k \in Places : tab[m][p][k] \in {0, First(k)} /\ tab[n][p][k] \in {0, First(k)}
        BY <2>1, <3>2 DEF Doomed
      <4>5. tab[m][p] \in [Places -> 0 .. MaxUnits] /\ tab[n][p] \in [Places -> 0 .. MaxUnits]
        BY <2>1 DEF Typed
      <4>6. \A k \in Places : tab[m][p][k] = tab[n][p][k]
        BY <4>3, <4>4
      <4>. QED  BY <4>5, <4>6
    <3>. QED  BY <3>1, <3>2
  <2>4. \A m \in Machines : tab[m] \in [Machines -> [Places -> 0 .. MaxUnits]]
    BY <2>1 DEF Typed
  <2>. QED  BY <2>3, <2>4
<1>. QED  BY <1>1, SyncInductive, PTL

(* What a machine has of a player is settled but for one slot, at most.    *)
LEMMA HalvesFew ==
  ASSUME SyncInv, ~ raced, NEW n \in Machines, NEW p \in Machines
  PROVE  Halves(n, p) = {} \/ \E k \in Places : Halves(n, p) = {k}
<1>1. Typed /\ Apart
  BY DEF SyncInv
<1>2. ASSUME Halves(n, p) # {}
      PROVE  \E k \in Places : Halves(n, p) = {k}
  <2>1. PICK k \in Places, t \in Threads : Half(doing[n][t], p, k)
    BY <1>2 DEF Halves
  <2>2. Busy(n, t) /\ doing[n][t].player = p /\ doing[n][t].step # "found"
    BY <2>1 DEF Half, Busy
  <2>3. Halves(n, p) = {doing[n][t].slot}
    BY <1>1, <2>2, HalvesOne
  <2>. QED  BY <1>1, <2>3, DoingTyped
<1>. QED  BY <1>2

(* Where the script creates units for nobody but the server's player every *)
(* death finds the unit its sender meant, as long as no two threads of a   *)
(* machine create and kill at once.                                        *)
THEOREM DeathsFindTheirUnit ==
  Spec => []((\A p \in Machines : p \in game.scripted => p = Server) => EventsFindTheirUnit)
<1>1. SyncInv =>
        ((\A p \in Machines : p \in game.scripted => p = Server) => EventsFindTheirUnit)
  <2> SUFFICES ASSUME SyncInv, game.captors = {}, ~ raced,
                      \A p \in Machines : p \in game.scripted => p = Server,
                      NEW m \in Machines, NEW n \in Machines, chan[m][n] # <<>>,
                      Head(chan[m][n]).type = "EVENT_UNIT_DEATH"
               PROVE  tab[n][Head(chan[m][n]).player][Head(chan[m][n]).slot]
                        = Head(chan[m][n]).unit
    BY DEF EventsFindTheirUnit
  <2> DEFINE e == Head(chan[m][n])
  <2>1. Typed /\ Speakers /\ Mirrored
    BY DEF SyncInv
  <2>2. /\ 1 \in 1 .. Len(chan[m][n]) /\ chan[m][n][1] = e
        /\ e.player \in Machines /\ e.slot \in Places /\ e.unit \in 1 .. MaxUnits
    BY <2>1, HeadEvent
  <2>3. ~ Creates(e)
    BY DEF Creates
  <2> HIDE DEF e
  <2>4. e.player = m
    BY <2>1, <2>2, <2>3 DEF Speakers
  <2>5. m # n
    BY <2>1 DEF Speakers
  <2>6. OwnsAlone(m)
    BY DEF OwnsAlone
  <2>7. Follows(m, chan[m][n], Settled(n, m), Settled(m, m)) /\ chan[m][n] \in Seq(Event)
    BY <2>1, <2>5, <2>6 DEF Mirrored, Typed
  <2>8. PICK w \in Copies : Leads(m, Settled(n, m), Head(chan[m][n]), w)
    BY <2>7, FollowsTail
  <2>9. Settled(n, m).tab[e.slot] = e.unit
    BY <2>3, <2>4, <2>8 DEF Leads, e
  <2>10. tab[n][m][e.slot] = e.unit
    <3>1. Copy(n, m).tab = tab[n][m] /\ tab[n][m] \in [Places -> 0 .. MaxUnits]
      BY <2>1, CopyTyped DEF Typed
    <3>2. CASE Halves(n, m) = {}
      BY <2>9, <3>1, <3>2, SettledLater
    <3>3. ASSUME NEW k \in Places, Halves(n, m) = {k}
          PROVE  tab[n][m][e.slot] = e.unit
      <4>1. Settled(n, m) = Freed(Copy(n, m), k)
        BY <3>3, SettledLater
      <4>2. Settled(n, m).tab = [tab[n][m] EXCEPT ![k] = 0]
        BY <3>1, <4>1 DEF Freed
      <4>3. e.unit # 0
        BY <2>2, SyncAssumption
      <4>. QED  BY <2>2, <2>9, <3>1, <4>2, <4>3
    <3>. QED  BY <3>2, <3>3, HalvesFew
  <2>. QED  BY <2>4, <2>10 DEF e
<1>. QED  BY <1>1, SyncInductive, PTL
=============================================================================
