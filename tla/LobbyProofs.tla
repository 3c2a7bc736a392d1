----------------------------- MODULE LobbyProofs -----------------------------
(***************************************************************************)
(* Proofs about the setup menu and the wait room, for any number of        *)
(* clients, slots, units and games.                                        *)
(*                                                                         *)
(* The invariants are about what is on its way.  Typed is TypeOK with the  *)
(* messages; Placed says that a client has one slot at most, whatever copy *)
(* of the game one looks at; Together that nobody runs ahead of the        *)
(* server's menu; Known that a client who knows something old will hear of *)
(* it; and Counted that who is ready has complained of all he misses.      *)
(* For the games in which people act one after the other, Calm says who    *)
(* knows better than the server, and until when.                           *)
(***************************************************************************)
EXTENDS Lobby, FiniteSetTheorems, SequenceTheorems, TLAPS

(* What a client and the server say.                                       *)
FromClient(c) ==
  {Msg(t) : t \in {"NEW_PLAYER", "REQUEST", "UPDATE", "PLAYER_LEFT", "READY"}}
  \cup [type : {"INFO"}, limit : Limits,
        slots : UNION {[D -> {s \in Slot : s.who = c}] : D \in SUBSET Slots}]
  \cup [type : {"MISSING"}, unit : Units, relayed : BOOLEAN]
FromServer ==
  {Msg(t) : t \in {"UPDATE", "REQUEST", "START", "END", "BEGIN"}}
  \cup [type : {"LIMIT"}, limit : Limits]
  \cup [type : {"DATA"}, limit : Limits, slots : [Slots -> Slot]]
  \cup [type : {"USING", "MISSING"}, unit : Units]

Typed ==
  /\ game \in Games
  /\ phase \in [Machines -> {"away", "menu", "leaving", "load", "wait", "battle", "gone"}]
  /\ view \in [Machines -> [Slots -> Slot]]
  /\ limit \in [Machines -> Limits]
  /\ conn \subseteq Clients /\ dropped \in BOOLEAN
  /\ edits \in 0 .. game.edits
  /\ have \in [Machines -> SUBSET Units] /\ usable \in [Machines -> SUBSET Units]
  /\ untold \subseteq Clients
  /\ top \in SeqOf(Machines \cup {"ai"}, NbSlots)
  /\ ready \subseteq DOMAIN top /\ dead \subseteq DOMAIN top
  /\ DOMAIN toServer = Clients /\ DOMAIN toClient = Clients
  /\ \A c \in Clients : toServer[c] \in Seq(FromClient(c)) /\ toClient[c] \in Seq(FromServer)

(* Where a client is, in any copy of the slots, sent or kept.              *)
PutAt(c, i) ==
  \/ \E m \in Machines : view[m][i].who = c
  \/ \E d \in Clients : \E msg \in Range(toClient[d]) :
       msg.type = "DATA" /\ msg.slots[i].who = c
  \/ \E msg \in Range(toServer[c]) : msg.type = "INFO" /\ i \in DOMAIN msg.slots
Asked(c) == \E msg \in Range(toServer[c]) : msg.type = "NEW_PLAYER"
Placed ==
  /\ \A c \in Clients :
       /\ \A i, j \in Slots : PutAt(c, i) /\ PutAt(c, j) => i = j
       /\ phase[c] = "away" \/ Asked(c) => \A i \in Slots : ~ PutAt(c, i)
       /\ phase[c] = "away" => ~ Asked(c)
       /\ \A k \in DOMAIN toServer[c] : toServer[c][k].type = "NEW_PLAYER" => k = 1
  /\ \A i, j \in Own(Server) : i = j

(* Nobody leaves the menu before the server, and who is gone is told       *)
(* nothing.                                                                *)
Together ==
  /\ \A c \in Clients \ conn : toClient[c] = <<>>
  /\ untold # {} => phase[Server] = "wait"
  /\ InMenu(Server) => \A c \in Clients :
       /\ phase[c] \in {"away", "menu", "gone"}
       /\ c \in conn => InMenu(c)
       /\ \A msg \in Range(toClient[c]) : msg.type # "START"

(* What client c will have in slot i when it has read what it was sent.    *)
WillSee(c, i, slot) ==
  /\ \A k \in DOMAIN toClient[c] :
       /\ toClient[c][k].type = "DATA"
       /\ \A j \in DOMAIN toClient[c] : j > k => toClient[c][j].type # "DATA"
       => toClient[c][k].slots[i] = slot
  /\ (\A k \in DOMAIN toClient[c] : toClient[c][k].type # "DATA") => view[c][i] = slot
KnownBy(c) ==
  \/ dropped
  \/ \E msg \in Range(toClient[c]) : msg.type = "UPDATE"
  \/ \E msg \in Range(toServer[c]) : msg.type = "REQUEST"
  \/ \A i \in Slots : view[Server][i].who # c => WillSee(c, i, Seen(view[Server])[i])
Known == InMenu(Server) => \A c \in conn : KnownBy(c)

(* A client complains of a unit before it is ready.                        *)
ReadyAfter(c, u) ==
  \A k \in DOMAIN toServer[c] : toServer[c][k].type = "READY" =>
    \E j \in 1 .. k - 1 : toServer[c][j].type = "MISSING" /\ toServer[c][j].unit = u
EndsAfter(c, u) ==
  \A k \in DOMAIN toClient[c] : toClient[c][k].type = "END" =>
    \/ \E j \in 1 .. k - 1 : toClient[c][j].type = "USING" /\ toClient[c][j].unit = u
    \/ \E msg \in Range(toServer[c]) : msg.type = "MISSING" /\ msg.unit = u
Before ==
  phase[Server] \in {"menu", "leaving", "load"} =>
    /\ ready = {} /\ dead = {}
    /\ \A c \in Clients : /\ \A msg \in Range(toClient[c]) : msg.type # "END"
                         /\ \A msg \in Range(toServer[c]) : msg.type # "READY"
During ==
  /\ phase[Server] = "wait" => \A c \in Clients : \A u \in usable[Server] \ have[c] :
       ReadyAfter(c, u) /\ EndsAfter(c, u)
  /\ phase[Server] \in {"wait", "battle"} =>
       \A i \in ready : top[i] \in Clients /\ top[i] = view[Server][i].who =>
         usable[Server] \subseteq have[top[i]]
Counted ==
  /\ usable[Server] \subseteq have[Server]
  /\ phase[Server] = "battle" => AllReady
  /\ Before /\ During

LobbyInv == Typed /\ Placed /\ Together /\ Known /\ Counted

-----------------------------------------------------------------------------
(* Queues: a message more, one less, a part.                               *)
LEMMA QueueFacts ==
  ASSUME NEW S, NEW q \in Seq(S)
  PROVE  /\ Len(q) \in Nat /\ DOMAIN q = 1 .. Len(q)
         /\ Range(q) \subseteq S /\ \A k \in DOMAIN q : q[k] \in Range(q)
         /\ q = <<>> <=> Len(q) = 0
BY LenProperties, RangeEquality, ElementOfSeq DEF Range

LEMMA Appended ==
  ASSUME NEW S, NEW q \in Seq(S), NEW e \in S
  PROVE  /\ Append(q, e) \in Seq(S)
         /\ DOMAIN Append(q, e) = 1 .. Len(q) + 1
         /\ \A k \in 1 .. Len(q) : Append(q, e)[k] = q[k]
         /\ Append(q, e)[Len(q) + 1] = e
         /\ Range(Append(q, e)) = Range(q) \cup {e}
<1>1. /\ Append(q, e) \in Seq(S) /\ Len(Append(q, e)) = Len(q) + 1
      /\ \A k \in 1 .. Len(q) : Append(q, e)[k] = q[k]
      /\ Append(q, e)[Len(q) + 1] = e
  BY AppendProperties
<1>2. DOMAIN Append(q, e) = 1 .. Len(q) + 1 /\ Len(q) \in Nat
  BY <1>1, LenProperties
<1>3. Range(Append(q, e)) = Range(q) \cup {e}
  <2>1. Range(q) = {q[k] : k \in 1 .. Len(q)}
    BY RangeEquality
  <2>2. Range(Append(q, e)) = {Append(q, e)[k] : k \in 1 .. Len(q) + 1}
    BY <1>2 DEF Range
  <2>3. \A k \in 1 .. Len(q) + 1 : k \in 1 .. Len(q) \/ k = Len(q) + 1
    BY <1>2
  <2>4. \A k \in 1 .. Len(q) : k \in 1 .. Len(q) + 1
    BY <1>2
  <2>5. Len(q) + 1 \in 1 .. Len(q) + 1
    BY <1>2
  <2>. QED  BY <1>1, <2>1, <2>2, <2>3, <2>4, <2>5
<1>. QED  BY <1>1, <1>2, <1>3

(* A part of a queue, of which the tail is one.                            *)
LEMMA PartOf ==
  ASSUME NEW S, NEW q \in Seq(S), NEW m \in 1 .. Len(q) + 1, NEW n \in m - 1 .. Len(q)
  PROVE  /\ SubSeq(q, m, n) \in Seq(S)
         /\ DOMAIN SubSeq(q, m, n) = 1 .. n - m + 1
         /\ \A k \in 1 .. n - m + 1 : SubSeq(q, m, n)[k] = q[m + k - 1]
         /\ Range(SubSeq(q, m, n)) \subseteq Range(q)
<1>0. Len(q) \in Nat /\ m \in Int /\ n \in Int /\ n - m + 1 \in Nat
  BY LenProperties
<1>1. \A k \in m .. n : q[k] \in S /\ k \in 1 .. Len(q)
  BY <1>0, ElementOfSeq
<1>2. /\ SubSeq(q, m, n) \in Seq(S)
      /\ Len(SubSeq(q, m, n)) = IF m <= n THEN n - m + 1 ELSE 0
      /\ \A k \in 1 .. n - m + 1 : SubSeq(q, m, n)[k] = q[m + k - 1]
  BY <1>0, <1>1, SubSeqProperties
<1>3. Len(SubSeq(q, m, n)) = n - m + 1
  BY <1>0, <1>2
<1>4. DOMAIN SubSeq(q, m, n) = 1 .. n - m + 1
  BY <1>2, <1>3, LenProperties
<1>5. \A k \in 1 .. n - m + 1 : m + k - 1 \in 1 .. Len(q)
  BY <1>0
<1>6. Range(q) = {q[k] : k \in 1 .. Len(q)}
  BY RangeEquality
<1>7. Range(SubSeq(q, m, n)) \subseteq Range(q)
  BY <1>2, <1>4, <1>5, <1>6 DEF Range
<1>. QED  BY <1>2, <1>4, <1>7

LEMMA HeadTaken ==
  ASSUME NEW S, NEW q \in Seq(S), q # <<>>
  PROVE  /\ Len(q) >= 1 /\ 1 \in DOMAIN q
         /\ Head(q) = q[1] /\ Head(q) \in S /\ Head(q) \in Range(q)
         /\ Tail(q) \in Seq(S)
         /\ DOMAIN Tail(q) = 1 .. Len(q) - 1 /\ Len(Tail(q)) = Len(q) - 1
         /\ \A k \in 1 .. Len(q) - 1 : Tail(q)[k] = q[k + 1]
         /\ Range(Tail(q)) \subseteq Range(q)
         /\ \A e \in Range(q) : e = Head(q) \/ e \in Range(Tail(q))
<1>1. Len(q) \in Nat \ {0} /\ DOMAIN q = 1 .. Len(q)
  BY EmptySeq, LenProperties
<1>2. /\ Head(q) \in S /\ Tail(q) \in Seq(S) /\ Len(Tail(q)) = Len(q) - 1
      /\ \A k \in 1 .. Len(q) - 1 : Tail(q)[k] = q[k + 1]
  BY HeadTailProperties
<1>3. Head(q) = q[1] /\ 1 \in DOMAIN q /\ DOMAIN Tail(q) = 1 .. Len(q) - 1
  BY <1>1, <1>2, LenProperties
<1>4. Range(q) = {q[k] : k \in 1 .. Len(q)}
      /\ Range(Tail(q)) = {Tail(q)[k] : k \in 1 .. Len(q) - 1}
  BY <1>1, <1>3 DEF Range
<1>5. \A k \in 1 .. Len(q) - 1 : k + 1 \in 1 .. Len(q)
  BY <1>1
<1>6. \A k \in 1 .. Len(q) : k = 1 \/ (k - 1 \in 1 .. Len(q) - 1 /\ (k - 1) + 1 = k)
  BY <1>1
<1>7. Range(Tail(q)) \subseteq Range(q)
  BY <1>2, <1>4, <1>5
<1>8. ASSUME NEW e \in Range(q) PROVE e = Head(q) \/ e \in Range(Tail(q))
  <2>1. PICK k \in 1 .. Len(q) : e = q[k]
    BY <1>4
  <2>2. CASE k = 1
    BY <1>3, <2>1, <2>2
  <2>3. CASE k # 1
    <3>1. k - 1 \in 1 .. Len(q) - 1 /\ Tail(q)[k - 1] = q[k]
      BY <1>2, <1>6, <2>3
    <3>. QED  BY <1>4, <2>1, <3>1
  <2>. QED  BY <2>2, <2>3
<1>. QED  BY <1>1, <1>2, <1>3, <1>4, <1>7, <1>8

(* q2 is what is left of q when messages are taken off it, or lost.        *)
LeftOf(q2, q) ==
  \E s \in 0 .. Len(q) : /\ Len(q2) + s <= Len(q)
                         /\ \A k \in 1 .. Len(q2) : q2[k] = q[k + s]

LEMMA LeftOver ==
  ASSUME NEW S, NEW q \in Seq(S)
  PROVE  /\ LeftOf(q, q) /\ LeftOf(<<>>, q) /\ <<>> \in Seq(S)
         /\ q # <<>> => LeftOf(Tail(q), q)
         /\ \A k \in 0 .. Len(q) : SubSeq(q, 1, k) \in Seq(S) /\ LeftOf(SubSeq(q, 1, k), q)
         /\ \A k \in 1 .. Len(q) + 1 :
              SubSeq(q, k, Len(q)) \in Seq(S) /\ LeftOf(SubSeq(q, k, Len(q)), q)
<1>1. Len(q) \in Nat
  BY QueueFacts
<1>2. LeftOf(q, q)
  BY <1>1 DEF LeftOf
<1>3. <<>> \in Seq(S) /\ LeftOf(<<>>, q)
  BY <1>1, EmptySeq DEF LeftOf
<1>4. ASSUME q # <<>> PROVE LeftOf(Tail(q), q)
  <2>1. /\ Len(q) >= 1 /\ Len(Tail(q)) = Len(q) - 1
        /\ \A k \in 1 .. Len(q) - 1 : Tail(q)[k] = q[k + 1]
    BY <1>4, HeadTaken
  <2>. QED  BY <1>1, <2>1 DEF LeftOf
<1>5. ASSUME NEW k \in 0 .. Len(q)
      PROVE  SubSeq(q, 1, k) \in Seq(S) /\ LeftOf(SubSeq(q, 1, k), q)
  <2>1. k \in Nat /\ 1 \in 1 .. Len(q) + 1 /\ k \in 1 - 1 .. Len(q) /\ k - 1 + 1 = k
    BY <1>1
  <2>2. /\ SubSeq(q, 1, k) \in Seq(S) /\ DOMAIN SubSeq(q, 1, k) = 1 .. k
        /\ \A j \in 1 .. k : SubSeq(q, 1, k)[j] = q[1 + j - 1]
    BY <2>1, PartOf
  <2>3. Len(SubSeq(q, 1, k)) = k
    BY <2>1, <2>2
  <2>4. \A j \in 1 .. k : SubSeq(q, 1, k)[j] = q[j + 0]
    BY <2>1, <2>2
  <2>. QED  BY <1>1, <2>2, <2>3, <2>4 DEF LeftOf
<1>6. ASSUME NEW k \in 1 .. Len(q) + 1
      PROVE  SubSeq(q, k, Len(q)) \in Seq(S) /\ LeftOf(SubSeq(q, k, Len(q)), q)
  <2>1. Len(q) \in k - 1 .. Len(q) /\ k \in Nat /\ Len(q) - k + 1 \in Nat
    BY <1>1
  <2>2. /\ SubSeq(q, k, Len(q)) \in Seq(S) /\ DOMAIN SubSeq(q, k, Len(q)) = 1 .. Len(q) - k + 1
        /\ \A j \in 1 .. Len(q) - k + 1 : SubSeq(q, k, Len(q))[j] = q[k + j - 1]
    BY <2>1, PartOf
  <2>3. Len(SubSeq(q, k, Len(q))) = Len(q) - k + 1
    BY <2>1, <2>2
  <2>4. \A j \in 1 .. Len(q) - k + 1 : SubSeq(q, k, Len(q))[j] = q[j + (k - 1)]
    BY <1>1, <2>1, <2>2
  <2>5. k - 1 \in 0 .. Len(q) /\ (Len(q) - k + 1) + (k - 1) <= Len(q)
    BY <1>1, <2>1
  <2>. QED  BY <2>2, <2>3, <2>4, <2>5 DEF LeftOf
<1>. QED  BY <1>2, <1>3, <1>4, <1>5, <1>6

(* Of what is left of what is left.                                        *)
LEMMA LeftOfLeft ==
  ASSUME NEW S, NEW q \in Seq(S), NEW r \in Seq(S), NEW t \in Seq(S),
         LeftOf(t, r), LeftOf(r, q)
  PROVE  LeftOf(t, q)
<1>1. Len(q) \in Nat /\ Len(r) \in Nat /\ Len(t) \in Nat
  BY QueueFacts
<1>2. PICK a \in 0 .. Len(q) : Len(r) + a <= Len(q) /\ \A k \in 1 .. Len(r) : r[k] = q[k + a]
  BY DEF LeftOf
<1>3. PICK b \in 0 .. Len(r) : Len(t) + b <= Len(r) /\ \A k \in 1 .. Len(t) : t[k] = r[k + b]
  BY DEF LeftOf
<1>4. a + b \in 0 .. Len(q) /\ Len(t) + (a + b) <= Len(q)
  BY <1>1, <1>2, <1>3
<1>5. \A k \in 1 .. Len(t) : k + b \in 1 .. Len(r) /\ t[k] = q[k + (a + b)]
  BY <1>1, <1>2, <1>3
<1>. QED  BY <1>4, <1>5 DEF LeftOf

LEMMA LeftIn ==
  ASSUME NEW S, NEW q \in Seq(S), NEW t \in Seq(S), LeftOf(t, q)
  PROVE  Range(t) \subseteq Range(q)
<1>1. Len(q) \in Nat /\ Len(t) \in Nat
  BY QueueFacts
<1>2. PICK a \in 0 .. Len(q) : Len(t) + a <= Len(q) /\ \A k \in 1 .. Len(t) : t[k] = q[k + a]
  BY DEF LeftOf
<1>3. \A k \in 1 .. Len(t) : k + a \in 1 .. Len(q)
  BY <1>1, <1>2
<1>. QED  BY <1>2, <1>3, RangeEquality

-----------------------------------------------------------------------------
(* What is sent.                                                           *)
LEMMA Said ==
  /\ \A c \in Clients, t \in {"NEW_PLAYER", "REQUEST", "UPDATE", "PLAYER_LEFT", "READY"} :
       Msg(t) \in FromClient(c) /\ Msg(t).type = t
  /\ \A t \in {"UPDATE", "REQUEST", "START", "END", "BEGIN"} :
       Msg(t) \in FromServer /\ Msg(t).type = t
BY DEF FromClient, FromServer, Msg

LEMMA TellFacts ==
  ASSUME Typed, NEW to \in SUBSET Clients, NEW msg \in FromServer
  PROVE  /\ DOMAIN Tell(to, msg) = Clients
         /\ \A d \in Clients :
              /\ Tell(to, msg)[d] = IF d \in to \cap conn THEN Append(toClient[d], msg)
                                                          ELSE toClient[d]
              /\ Tell(to, msg)[d] \in Seq(FromServer)
              /\ Range(Tell(to, msg)[d]) = IF d \in to \cap conn THEN Range(toClient[d]) \cup {msg}
                                                                 ELSE Range(toClient[d])
<1>1. \A d \in Clients : toClient[d] \in Seq(FromServer)
  BY DEF Typed
<1>2. \A d \in Clients : /\ Append(toClient[d], msg) \in Seq(FromServer)
                         /\ Range(Append(toClient[d], msg)) = Range(toClient[d]) \cup {msg}
  BY <1>1, Appended
<1>. QED  BY <1>1, <1>2 DEF Tell

LEMMA AskFacts ==
  ASSUME Typed, NEW c \in Clients, NEW msg \in FromClient(c), Ask(c, msg)
  PROVE  /\ DOMAIN toServer' = Clients
         /\ \A d \in Clients :
              /\ toServer'[d] = IF d = c /\ c \in conn THEN Append(toServer[d], msg) ELSE toServer[d]
              /\ toServer'[d] \in Seq(FromClient(d))
              /\ Range(toServer'[d]) = IF d = c /\ c \in conn THEN Range(toServer[d]) \cup {msg}
                                                              ELSE Range(toServer[d])
<1>1. \A d \in Clients : toServer[d] \in Seq(FromClient(d))
  BY DEF Typed
<1>2. /\ Append(toServer[c], msg) \in Seq(FromClient(c))
      /\ Range(Append(toServer[c], msg)) = Range(toServer[c]) \cup {msg}
  BY <1>1, Appended
<1>3. DOMAIN toServer = Clients
  BY DEF Typed
<1>. QED  BY <1>1, <1>2, <1>3 DEF Ask

(* What everybody is told.                                                 *)
LEMMA ToldAll ==
  ASSUME Typed, NEW msg \in FromServer, toClient' = Tell(Clients, msg)
  PROVE  /\ DOMAIN toClient' = Clients
         /\ \A d \in Clients :
              /\ toClient'[d] = IF d \in conn THEN Append(toClient[d], msg) ELSE toClient[d]
              /\ toClient'[d] \in Seq(FromServer)
              /\ Range(toClient'[d]) = IF d \in conn THEN Range(toClient[d]) \cup {msg}
                                                     ELSE Range(toClient[d])
<1>1. Clients \in SUBSET Clients
  OBVIOUS
<1>2. /\ DOMAIN Tell(Clients, msg) = Clients
      /\ \A d \in Clients :
           /\ Tell(Clients, msg)[d] = IF d \in Clients \cap conn THEN Append(toClient[d], msg)
                                                                ELSE toClient[d]
           /\ Tell(Clients, msg)[d] \in Seq(FromServer)
           /\ Range(Tell(Clients, msg)[d]) = IF d \in Clients \cap conn
                                             THEN Range(toClient[d]) \cup {msg}
                                             ELSE Range(toClient[d])
  BY <1>1, TellFacts
<1>. QED  BY <1>2

LEMMA ToldOthers ==
  ASSUME Typed, NEW c \in Clients, NEW msg \in FromServer
  PROVE  /\ DOMAIN Tell(Clients \ {c}, msg) = Clients
         /\ \A d \in Clients :
              /\ Tell(Clients \ {c}, msg)[d] = IF d # c /\ d \in conn THEN Append(toClient[d], msg)
                                                                   ELSE toClient[d]
              /\ Tell(Clients \ {c}, msg)[d] \in Seq(FromServer)
              /\ Range(Tell(Clients \ {c}, msg)[d]) = IF d # c /\ d \in conn
                                                      THEN Range(toClient[d]) \cup {msg}
                                                      ELSE Range(toClient[d])
<1>1. Clients \ {c} \in SUBSET Clients
  OBVIOUS
<1>2. /\ DOMAIN Tell(Clients \ {c}, msg) = Clients
      /\ \A d \in Clients :
           /\ Tell(Clients \ {c}, msg)[d] = IF d \in (Clients \ {c}) \cap conn
                                            THEN Append(toClient[d], msg) ELSE toClient[d]
           /\ Tell(Clients \ {c}, msg)[d] \in Seq(FromServer)
           /\ Range(Tell(Clients \ {c}, msg)[d]) = IF d \in (Clients \ {c}) \cap conn
                                                   THEN Range(toClient[d]) \cup {msg}
                                                   ELSE Range(toClient[d])
  BY <1>1, TellFacts
<1>. QED  BY <1>2

(* A connection that is cut: what was told to c is lost, and of what it    *)
(* said the end.                                                           *)
LEMMA CutFacts ==
  ASSUME Typed, NEW c \in Clients, NEW q \in Seq(FromClient(c)), NEW told, CutConnection(c, q, told),
         DOMAIN told = Clients, \A d \in Clients : told[d] \in Seq(FromServer)
  PROVE  /\ DOMAIN toServer' = Clients /\ DOMAIN toClient' = Clients
         /\ conn' = conn \ {c}
         /\ \A d \in Clients : /\ toServer'[d] \in Seq(FromClient(d))
                               /\ toClient'[d] \in Seq(FromServer)
                               /\ toClient'[d] = IF d = c THEN <<>> ELSE told[d]
                               /\ d # c => toServer'[d] = toServer[d]
         /\ LeftOf(toServer'[c], q)
         /\ \E k \in 0 .. Len(q) : toServer'[c] = SubSeq(q, 1, k)
<1>1. /\ DOMAIN toServer = Clients
      /\ \A d \in Clients : toServer[d] \in Seq(FromClient(d))
  BY DEF Typed
<1>2. PICK k \in 0 .. Len(q) : toServer' = [toServer EXCEPT ![c] = SubSeq(q, 1, k)]
  BY DEF CutConnection
<1>3. SubSeq(q, 1, k) \in Seq(FromClient(c)) /\ LeftOf(SubSeq(q, 1, k), q)
  BY LeftOver
<1>4. conn' = conn \ {c} /\ toClient' = [told EXCEPT ![c] = <<>>]
  BY DEF CutConnection
<1>5. <<>> \in Seq(FromServer)
  BY EmptySeq
<1>6. toServer'[c] = SubSeq(q, 1, k) /\ \A d \in Clients : d # c => toServer'[d] = toServer[d]
  BY <1>1, <1>2
<1>7. \A d \in Clients : toClient'[d] = IF d = c THEN <<>> ELSE told[d]
  BY <1>4
<1>8. DOMAIN toServer' = Clients /\ DOMAIN toClient' = Clients
  BY <1>1, <1>2, <1>4
<1>. QED  BY <1>1, <1>3, <1>4, <1>5, <1>6, <1>7, <1>8

-----------------------------------------------------------------------------
(* What keeps Placed, Known and Counted.                                   *)
LEMMA PlacedKept ==
  ASSUME Typed, Placed,
         \A c \in Clients : phase'[c] = "away" => phase[c] = "away",
         \A m \in Machines, i \in Slots, c \in Clients : view'[m][i].who = c => PutAt(c, i),
         \A d \in Clients : \A e \in Range(toClient'[d]) :
           \/ e \in Range(toClient[d])
           \/ e.type = "DATA" =>
                \A c \in Clients, i \in Slots : e.slots[i].who = c => PutAt(c, i),
         \A c \in Clients : \A e \in Range(toServer'[c]) :
           \/ e \in Range(toServer[c])
           \/ /\ e.type # "NEW_PLAYER" \/ (phase[c] = "away" /\ phase'[c] # "away")
              /\ e.type = "INFO" => \A i \in DOMAIN e.slots : PutAt(c, i),
         \A c \in Clients : \A k \in DOMAIN toServer'[c] :
           toServer'[c][k].type = "NEW_PLAYER" => k = 1,
         \A i, j \in Own(Server)' : i = j
  PROVE  Placed'
<1>1. ASSUME NEW c \in Clients, NEW i \in Slots, PutAt(c, i)' PROVE PutAt(c, i)
  BY <1>1 DEF PutAt
<1>2. \A c \in Clients : Asked(c)' => Asked(c) \/ (phase[c] = "away" /\ phase'[c] # "away")
  BY DEF Asked
<1>. QED  BY <1>1, <1>2 DEF Placed

LEMMA LeftAt ==
  ASSUME NEW S, NEW q \in Seq(S), NEW t \in Seq(S), LeftOf(t, q)
  PROVE  \E a \in 0 .. Len(q) : \A k \in 1 .. Len(t) :
           k + a \in 1 .. Len(q) /\ t[k] = q[k + a] /\ (k + a = 1 => k = 1)
<1>1. Len(q) \in Nat /\ Len(t) \in Nat
  BY QueueFacts
<1>2. PICK a \in 0 .. Len(q) : Len(t) + a <= Len(q) /\ \A k \in 1 .. Len(t) : t[k] = q[k + a]
  BY DEF LeftOf
<1>3. \A k \in 1 .. Len(t) : k + a \in 1 .. Len(q) /\ (k + a = 1 => k = 1)
  BY <1>1, <1>2
<1>. QED  BY <1>2, <1>3

LEMMA LastPlaceOr == \A n \in Nat : \A k \in 1 .. n + 1 : k \in 1 .. n \/ k = n + 1
OBVIOUS

(* The first thing a client says stays the first.                          *)
LEMMA FirstKept ==
  ASSUME NEW S, NEW q \in Seq(S), NEW t \in Seq(S),
         \A k \in DOMAIN q : q[k].type = "NEW_PLAYER" => k = 1,
         \/ LeftOf(t, q)
         \/ \E e \in S : e.type # "NEW_PLAYER" /\ t = Append(q, e)
  PROVE  \A k \in DOMAIN t : t[k].type = "NEW_PLAYER" => k = 1
<1>1. /\ Len(q) \in Nat /\ DOMAIN q = 1 .. Len(q)
      /\ Len(t) \in Nat /\ DOMAIN t = 1 .. Len(t)
  BY QueueFacts
<1>2. CASE LeftOf(t, q)
  <2>1. PICK a \in 0 .. Len(q) : \A k \in 1 .. Len(t) :
          k + a \in 1 .. Len(q) /\ t[k] = q[k + a] /\ (k + a = 1 => k = 1)
    BY <1>2, LeftAt
  <2>2. \A k \in 1 .. Len(t) : t[k].type = "NEW_PLAYER" => k = 1
    BY <1>1, <2>1
  <2>. QED  BY <1>1, <2>2
<1>3. ASSUME NEW e \in S, e.type # "NEW_PLAYER", t = Append(q, e)
      PROVE  \A k \in DOMAIN t : t[k].type = "NEW_PLAYER" => k = 1
  <2>1. /\ DOMAIN t = 1 .. Len(q) + 1 /\ t[Len(q) + 1] = e
        /\ \A k \in 1 .. Len(q) : t[k] = q[k]
    BY <1>3, Appended
  <2>2. \A k \in 1 .. Len(q) + 1 : k \in 1 .. Len(q) \/ k = Len(q) + 1
    BY <1>1, LastPlaceOr
  <2>. QED  BY <1>1, <1>3, <2>1, <2>2
<1>. QED  BY <1>2, <1>3

LEMMA KnownKept ==
  ASSUME Typed, NEW c \in Clients, KnownBy(c),
         dropped => dropped',
         \/ toClient'[c] = toClient[c]
         \/ \E e \in FromServer : e.type # "DATA" /\ toClient'[c] = Append(toClient[c], e),
         \A e \in Range(toServer[c]) : e.type = "REQUEST" => e \in Range(toServer'[c]),
         \A i \in Slots : \/ view'[c][i] = view[c][i]
                          \/ view[c][i].who = c,
         \A i \in Slots : \/ view'[Server][i] = view[Server][i]
                          \/ view'[Server][i].who = c
  PROVE  KnownBy(c)'
<1>1. toClient[c] \in Seq(FromServer) /\ c \notin {"open", "closed"}
  BY LobbyAssumption DEF Typed, Machines, Nobody
<1>2. Len(toClient[c]) \in Nat /\ DOMAIN toClient[c] = 1 .. Len(toClient[c])
  BY <1>1, QueueFacts
<1>3. \A k \in DOMAIN toClient[c] : k \in DOMAIN toClient'[c] /\ toClient'[c][k] = toClient[c][k]
  BY <1>1, <1>2, Appended
<1>4. \A k \in DOMAIN toClient'[c] : k \in DOMAIN toClient[c] \/ toClient'[c][k].type # "DATA"
  BY <1>1, <1>2, Appended
<1>5. Range(toClient[c]) \subseteq Range(toClient'[c])
  <2>1. ASSUME NEW e \in FromServer, toClient'[c] = Append(toClient[c], e)
        PROVE  Range(toClient'[c]) = Range(toClient[c]) \cup {e}
    BY <1>1, <2>1, Appended
  <2>. QED  BY <2>1
<1>6. ASSUME NEW i \in Slots, view'[Server][i].who # c,
             view[Server][i].who # c => WillSee(c, i, Seen(view[Server])[i])
      PROVE  WillSee(c, i, Seen(view[Server])[i])'
  <2>1. view'[Server][i] = view[Server][i] /\ view[Server][i].who # c
    BY <1>6
  <2>2. Seen(view'[Server])[i] = Seen(view[Server])[i]
    BY <2>1 DEF Seen, LooksOpen
  <2>3. Seen(view[Server])[i].who # c
    <3>1. view[Server][i] \in Slot
      BY DEF Typed, Machines
    <3>. QED  BY <1>1, <2>1, <3>1 DEF Seen, LooksOpen, Slot
  <2>4. WillSee(c, i, Seen(view[Server])[i])
    BY <1>6, <2>1
  <2>5. (\A k \in DOMAIN toClient[c] : toClient[c][k].type # "DATA")
          => view'[c][i] = Seen(view[Server])[i]
    BY <2>3, <2>4 DEF WillSee
  <2>6. (\A k \in DOMAIN toClient'[c] : toClient'[c][k].type # "DATA")
          => view'[c][i] = Seen(view[Server])[i]
    BY <1>3, <2>5
  <2>7. ASSUME NEW k \in DOMAIN toClient'[c], toClient'[c][k].type = "DATA",
               \A j \in DOMAIN toClient'[c] : j > k => toClient'[c][j].type # "DATA"
        PROVE  toClient'[c][k].slots[i] = Seen(view[Server])[i]
    BY <1>3, <1>4, <2>4, <2>7 DEF WillSee
  <2>. QED  BY <2>2, <2>6, <2>7 DEF WillSee
<1>. QED  BY <1>5, <1>6 DEF KnownBy

(* While the server is in its menu nobody is told of units.                *)
LEMMA CountedInMenu ==
  ASSUME Typed, Counted, InMenu(Server), phase'[Server] \in {"menu", "leaving"},
         UNCHANGED <<have, usable, top, ready, dead>>,
         \A c \in Clients : \A e \in Range(toClient'[c]) :
           e \in Range(toClient[c]) \/ e.type # "END",
         \A c \in Clients : \A e \in Range(toServer'[c]) :
           e \in Range(toServer[c]) \/ e.type # "READY"
  PROVE  Counted'
<1>1. Before'
  BY DEF Counted, Before, InMenu
<1>2. During'
  BY DEF During
<1>. QED  BY <1>1, <1>2 DEF Counted

(* What it has read of the list is behind it, unless it complained.        *)
LEMMA ReadsList ==
  ASSUME Typed, NEW c \in Clients, NEW u, ReadyAfter(c, u), EndsAfter(c, u),
         toClient[c] # <<>>, toClient'[c] = Tail(toClient[c]),
         \/ /\ toServer'[c] = toServer[c]
            /\ ~ (Head(toClient[c]).type = "USING" /\ Head(toClient[c]).unit = u)
         \/ \E e \in FromClient(c) :
              /\ toServer'[c] = Append(toServer[c], e)
              /\ e.type = "READY" => Head(toClient[c]).type = "END"
              /\ Head(toClient[c]).type = "USING" /\ Head(toClient[c]).unit = u
                   => e.type = "MISSING" /\ e.unit = u
  PROVE  ReadyAfter(c, u)' /\ EndsAfter(c, u)'
<1> DEFINE q == toClient[c]
           s == toServer[c]
           t == toServer'[c]
<1>1. /\ q \in Seq(FromServer) /\ DOMAIN q = 1 .. Len(q) /\ Len(q) \in Nat
      /\ s \in Seq(FromClient(c)) /\ DOMAIN s = 1 .. Len(s) /\ Len(s) \in Nat
      /\ \A k \in DOMAIN s : s[k] \in Range(s)
      /\ \A e \in Range(s) : \E k \in DOMAIN s : s[k] = e
  BY QueueFacts DEF Typed, Range
<1>2. /\ Len(q) >= 1 /\ 1 \in DOMAIN q /\ Head(q) = q[1] /\ DOMAIN Tail(q) = 1 .. Len(q) - 1
      /\ \A k \in 1 .. Len(q) - 1 : Tail(q)[k] = q[k + 1]
  BY <1>1, HeadTaken
<1>3. \A k \in DOMAIN q : q[k].type = "END" =>
        \/ \E j \in 1 .. k - 1 : q[j].type = "USING" /\ q[j].unit = u
        \/ \E msg \in Range(s) : msg.type = "MISSING" /\ msg.unit = u
  BY DEF EndsAfter
<1>4. \A k \in DOMAIN s : s[k].type = "READY" =>
        \E j \in 1 .. k - 1 : s[j].type = "MISSING" /\ s[j].unit = u
  BY DEF ReadyAfter
<1>5. /\ Range(s) \subseteq Range(t)
      /\ q[1].type = "USING" /\ q[1].unit = u
           => \E msg \in Range(t) : msg.type = "MISSING" /\ msg.unit = u
      /\ \/ t = s
         \/ \E e \in FromClient(c) :
              /\ DOMAIN t = 1 .. Len(s) + 1 /\ \A k \in 1 .. Len(s) : t[k] = s[k]
              /\ t[Len(s) + 1] = e
              /\ e.type = "READY" => q[1].type = "END"
  <2>1. CASE toServer'[c] = toServer[c]
    BY <1>2, <2>1
  <2>2. ASSUME NEW e \in FromClient(c), t = Append(s, e), e.type = "READY" => Head(q).type = "END",
               Head(q).type = "USING" /\ Head(q).unit = u => e.type = "MISSING" /\ e.unit = u
        PROVE  /\ Range(s) \subseteq Range(t)
               /\ q[1].type = "USING" /\ q[1].unit = u
                    => \E msg \in Range(t) : msg.type = "MISSING" /\ msg.unit = u
               /\ DOMAIN t = 1 .. Len(s) + 1 /\ \A k \in 1 .. Len(s) : t[k] = s[k]
               /\ t[Len(s) + 1] = e
               /\ e.type = "READY" => q[1].type = "END"
    <3>1. /\ DOMAIN t = 1 .. Len(s) + 1 /\ \A k \in 1 .. Len(s) : t[k] = s[k]
          /\ t[Len(s) + 1] = e /\ Range(t) = Range(s) \cup {e}
      BY <1>1, <2>2, Appended
    <3>. QED  BY <1>2, <2>2, <3>1
  <2>. QED  BY <2>1, <2>2
<1> HIDE DEF q, s, t
<1>6. \A k \in DOMAIN t : t[k].type = "READY" =>
        \E j \in 1 .. k - 1 : t[j].type = "MISSING" /\ t[j].unit = u
  <2>1. CASE t = s
    BY <1>4, <2>1
  <2>2. ASSUME NEW e \in FromClient(c),
               DOMAIN t = 1 .. Len(s) + 1, \A k \in 1 .. Len(s) : t[k] = s[k],
               t[Len(s) + 1] = e, e.type = "READY" => q[1].type = "END",
               NEW k \in DOMAIN t, t[k].type = "READY"
        PROVE  \E j \in 1 .. k - 1 : t[j].type = "MISSING" /\ t[j].unit = u
    <3>1. CASE k \in 1 .. Len(s)
      <4>1. PICK j \in 1 .. k - 1 : s[j].type = "MISSING" /\ s[j].unit = u
        BY <1>1, <1>4, <2>2, <3>1
      <4>2. j \in 1 .. Len(s)
        BY <1>1, <3>1
      <4>. QED  BY <2>2, <4>1, <4>2
    <3>2. CASE k \notin 1 .. Len(s)
      <4>1. k = Len(s) + 1
        BY <1>1, <2>2, <3>2
      <4>2. q[1].type = "END"
        BY <2>2, <4>1
      <4>3. PICK msg \in Range(s) : msg.type = "MISSING" /\ msg.unit = u
        <5>1. 1 .. 1 - 1 = {}
          OBVIOUS
        <5>. QED  BY <1>2, <1>3, <4>2, <5>1
      <4>4. PICK j \in 1 .. Len(s) : s[j] = msg
        BY <1>1
      <4>5. j \in 1 .. k - 1
        BY <1>1, <4>1
      <4>. QED  BY <2>2, <4>3, <4>4, <4>5
    <3>. QED  BY <3>1, <3>2
  <2>. QED  BY <1>5, <2>1, <2>2
<1>7. ASSUME NEW k \in DOMAIN Tail(q), Tail(q)[k].type = "END"
      PROVE  \/ \E j \in 1 .. k - 1 : Tail(q)[j].type = "USING" /\ Tail(q)[j].unit = u
             \/ \E msg \in Range(t) : msg.type = "MISSING" /\ msg.unit = u
  <2>1. k \in 1 .. Len(q) - 1 /\ k + 1 \in DOMAIN q /\ q[k + 1].type = "END" /\ (k + 1) - 1 = k
    BY <1>1, <1>2, <1>7
  <2>2. \/ \E j \in 1 .. k : q[j].type = "USING" /\ q[j].unit = u
        \/ \E msg \in Range(s) : msg.type = "MISSING" /\ msg.unit = u
    BY <1>3, <2>1
  <2>3. ASSUME NEW j \in 1 .. k, q[j].type = "USING", q[j].unit = u, j # 1
        PROVE  \E i \in 1 .. k - 1 : Tail(q)[i].type = "USING" /\ Tail(q)[i].unit = u
    <3>1. j - 1 \in 1 .. k - 1 /\ j - 1 \in 1 .. Len(q) - 1 /\ (j - 1) + 1 = j
      BY <1>1, <2>1, <2>3
    <3>2. Tail(q)[j - 1] = q[j]
      BY <1>2, <3>1
    <3>. QED  BY <2>3, <3>1, <3>2
  <2>. QED  BY <1>5, <2>2, <2>3
<1>8. toClient'[c] = Tail(q)
  BY DEF q
<1>. QED  BY <1>6, <1>7, <1>8 DEF ReadyAfter, EndsAfter, t

(* Later a step counts if it changes the messages of a client so:          *)
CountsStep(c) ==
  \/ /\ \/ toServer'[c] = toServer[c]
        \/ \E e \in FromClient(c) : e.type # "READY" /\ toServer'[c] = Append(toServer[c], e)
     /\ \/ toClient'[c] = toClient[c]
        \/ \E e \in FromServer : e.type # "END" /\ toClient'[c] = Append(toClient[c], e)
        \/ toClient'[c] = <<>>
  \/ /\ \E k \in 0 .. Len(toServer[c]) : toServer'[c] = SubSeq(toServer[c], 1, k)
     /\ toClient'[c] = <<>>
  \/ /\ DOMAIN toServer'[c] = DOMAIN toServer[c]
     /\ \A k \in DOMAIN toServer[c] :
          /\ toServer'[c][k].type = toServer[c][k].type
          /\ toServer[c][k].type = "MISSING" => toServer'[c][k].unit = toServer[c][k].unit
     /\ toClient'[c] = toClient[c]
  \/ /\ \/ toServer'[c] = toServer[c]
        \/ \E e \in FromClient(c) : e.type # "READY" /\ toServer'[c] = Append(toServer[c], e)
     /\ toClient[c] # <<>> /\ toClient'[c] = Tail(toClient[c])
     /\ Head(toClient[c]).type # "USING"

LEMMA CountsKept ==
  ASSUME Typed, NEW c \in Clients, NEW u, ReadyAfter(c, u), EndsAfter(c, u), CountsStep(c)
  PROVE  ReadyAfter(c, u)' /\ EndsAfter(c, u)'
<1>1. /\ toServer[c] \in Seq(FromClient(c)) /\ toClient[c] \in Seq(FromServer)
      /\ Len(toServer[c]) \in Nat /\ DOMAIN toServer[c] = 1 .. Len(toServer[c])
      /\ Len(toClient[c]) \in Nat /\ DOMAIN toClient[c] = 1 .. Len(toClient[c])
  BY QueueFacts DEF Typed
<1>2. ASSUME NEW e \in FromClient(c), e.type # "READY", toServer'[c] = Append(toServer[c], e)
      PROVE  ReadyAfter(c, u)' /\ Range(toServer[c]) \subseteq Range(toServer'[c])
  <2>1. /\ DOMAIN toServer'[c] = 1 .. Len(toServer[c]) + 1
        /\ \A k \in 1 .. Len(toServer[c]) : toServer'[c][k] = toServer[c][k]
        /\ toServer'[c][Len(toServer[c]) + 1] = e
        /\ Range(toServer[c]) \subseteq Range(toServer'[c])
    BY <1>1, <1>2, Appended
  <2>2. ASSUME NEW k \in DOMAIN toServer'[c], toServer'[c][k].type = "READY"
        PROVE  \E j \in 1 .. k - 1 : toServer'[c][j].type = "MISSING" /\ toServer'[c][j].unit = u
    <3>1. k \in 1 .. Len(toServer[c])
      BY <1>1, <1>2, <2>1, <2>2
    <3>2. PICK j \in 1 .. k - 1 : toServer[c][j].type = "MISSING" /\ toServer[c][j].unit = u
      BY <1>1, <2>1, <2>2, <3>1 DEF ReadyAfter
    <3>3. j \in 1 .. Len(toServer[c])
      BY <1>1, <3>1
    <3>. QED  BY <2>1, <3>2, <3>3
  <2>. QED  BY <2>1, <2>2 DEF ReadyAfter
<1>3. ASSUME toServer'[c] = toServer[c]
      PROVE  ReadyAfter(c, u)' /\ Range(toServer[c]) \subseteq Range(toServer'[c])
  BY <1>3 DEF ReadyAfter
<1>4. ASSUME NEW e \in FromServer, e.type # "END", toClient'[c] = Append(toClient[c], e),
             Range(toServer[c]) \subseteq Range(toServer'[c])
      PROVE  EndsAfter(c, u)'
  <2>1. /\ DOMAIN toClient'[c] = 1 .. Len(toClient[c]) + 1
        /\ \A k \in 1 .. Len(toClient[c]) : toClient'[c][k] = toClient[c][k]
        /\ toClient'[c][Len(toClient[c]) + 1] = e
    BY <1>1, <1>4, Appended
  <2>2. ASSUME NEW k \in DOMAIN toClient'[c], toClient'[c][k].type = "END"
        PROVE  \/ \E j \in 1 .. k - 1 : toClient'[c][j].type = "USING" /\ toClient'[c][j].unit = u
               \/ \E msg \in Range(toServer'[c]) : msg.type = "MISSING" /\ msg.unit = u
    <3>1. k \in 1 .. Len(toClient[c])
      BY <1>1, <1>4, <2>1, <2>2
    <3>2. \/ \E j \in 1 .. k - 1 : toClient[c][j].type = "USING" /\ toClient[c][j].unit = u
          \/ \E msg \in Range(toServer[c]) : msg.type = "MISSING" /\ msg.unit = u
      BY <1>1, <2>1, <2>2, <3>1 DEF EndsAfter
    <3>3. \A j \in 1 .. k - 1 : j \in 1 .. Len(toClient[c])
      BY <1>1, <3>1
    <3>. QED  BY <1>4, <2>1, <3>2, <3>3
  <2>. QED  BY <2>2 DEF EndsAfter
<1>5. ASSUME toClient'[c] = toClient[c], Range(toServer[c]) \subseteq Range(toServer'[c])
      PROVE  EndsAfter(c, u)'
  BY <1>5 DEF EndsAfter
<1>6. ASSUME toClient'[c] = <<>> PROVE EndsAfter(c, u)'
  BY <1>6 DEF EndsAfter
<1>7. ASSUME NEW k \in 0 .. Len(toServer[c]), toServer'[c] = SubSeq(toServer[c], 1, k)
      PROVE  ReadyAfter(c, u)'
  <2>1. 1 \in 1 .. Len(toServer[c]) + 1 /\ k \in 1 - 1 .. Len(toServer[c]) /\ k - 1 + 1 = k
    BY <1>1
  <2>2. /\ DOMAIN toServer'[c] = 1 .. k
        /\ \A j \in 1 .. k : toServer'[c][j] = toServer[c][1 + j - 1]
    BY <1>1, <1>7, <2>1, PartOf
  <2>3. \A j \in 1 .. k : toServer'[c][j] = toServer[c][j] /\ j \in DOMAIN toServer[c]
    BY <1>1, <2>2
  <2>4. ASSUME NEW n \in 1 .. k, toServer'[c][n].type = "READY"
        PROVE  \E j \in 1 .. n - 1 : toServer'[c][j].type = "MISSING" /\ toServer'[c][j].unit = u
    <3>1. PICK j \in 1 .. n - 1 : toServer[c][j].type = "MISSING" /\ toServer[c][j].unit = u
      BY <2>3, <2>4 DEF ReadyAfter
    <3>2. j \in 1 .. k
      OBVIOUS
    <3>. QED  BY <2>3, <3>1, <3>2
  <2>. QED  BY <2>2, <2>4 DEF ReadyAfter
<1>8. ASSUME DOMAIN toServer'[c] = DOMAIN toServer[c], toClient'[c] = toClient[c],
             \A k \in DOMAIN toServer[c] :
               /\ toServer'[c][k].type = toServer[c][k].type
               /\ toServer[c][k].type = "MISSING" => toServer'[c][k].unit = toServer[c][k].unit
      PROVE  ReadyAfter(c, u)' /\ EndsAfter(c, u)'
  <2>1. ReadyAfter(c, u)'
    <3>1. ASSUME NEW k \in DOMAIN toServer'[c], toServer'[c][k].type = "READY"
          PROVE  \E j \in 1 .. k - 1 : toServer'[c][j].type = "MISSING" /\ toServer'[c][j].unit = u
      <4>1. PICK j \in 1 .. k - 1 : toServer[c][j].type = "MISSING" /\ toServer[c][j].unit = u
        BY <1>8, <3>1 DEF ReadyAfter
      <4>2. j \in DOMAIN toServer[c]
        BY <1>1, <1>8, <3>1
      <4>. QED  BY <1>8, <4>1, <4>2
    <3>. QED  BY <3>1 DEF ReadyAfter
  <2>2. \A e \in Range(toServer[c]) : e.type = "MISSING" =>
          \E f \in Range(toServer'[c]) : f.type = "MISSING" /\ f.unit = e.unit
    BY <1>8 DEF Range
  <2>3. EndsAfter(c, u)'
    BY <1>8, <2>2 DEF EndsAfter
  <2>. QED  BY <2>1, <2>3
<1>9. ASSUME \/ toServer'[c] = toServer[c]
             \/ \E e \in FromClient(c) : e.type # "READY" /\ toServer'[c] = Append(toServer[c], e),
             toClient[c] # <<>>, toClient'[c] = Tail(toClient[c]),
             Head(toClient[c]).type # "USING"
      PROVE  ReadyAfter(c, u)' /\ EndsAfter(c, u)'
  BY <1>9, ReadsList
<1>. QED  BY <1>2, <1>3, <1>4, <1>5, <1>6, <1>7, <1>8, <1>9 DEF CountsStep

LEMMA CountedLater ==
  ASSUME Typed, Counted, phase'[Server] = phase[Server], UNCHANGED <<have, top, ready>>,
         usable'[Server] = usable[Server],
         phase[Server] \in {"wait", "battle"} => view'[Server] = view[Server],
         phase[Server] # "wait" => dead' = dead,
         \A c \in Clients : \A e \in Range(toClient'[c]) :
           e \in Range(toClient[c]) \/ e.type # "END",
         \A c \in Clients : \A e \in Range(toServer'[c]) :
           e \in Range(toServer[c]) \/ e.type # "READY",
         phase[Server] = "wait" => \A c \in Clients : CountsStep(c)
  PROVE  Counted'
<1>1. Before'
  BY DEF Counted, Before
<1>2. During'
  <2>1. ASSUME phase'[Server] = "wait", NEW c \in Clients, NEW u \in usable'[Server] \ have'[c]
        PROVE  ReadyAfter(c, u)' /\ EndsAfter(c, u)'
    <3>1. ReadyAfter(c, u) /\ EndsAfter(c, u) /\ CountsStep(c)
      BY <2>1 DEF Counted, During
    <3>. QED  BY <3>1, CountsKept
  <2>2. phase'[Server] \in {"wait", "battle"} =>
          \A i \in ready' : top'[i] \in Clients /\ top'[i] = view'[Server][i].who =>
            usable'[Server] \subseteq have'[top'[i]]
    BY DEF Counted, During
  <2>. QED  BY <2>1, <2>2 DEF During
<1>3. phase'[Server] = "battle" => AllReady'
  BY DEF Counted, AllReady, Awaited
<1>. QED  BY <1>1, <1>2, <1>3 DEF Counted

-----------------------------------------------------------------------------
(* The clients' users.                                                     *)
LEMMA JoinKeeps ==
  ASSUME LobbyInv, NEW c \in Clients, Join(c)
  PROVE  LobbyInv'
<1>1. /\ phase[c] = "away" /\ InMenu(Server)
      /\ phase' = [phase EXCEPT ![c] = "menu"]
      /\ conn' = conn \cup {c}
      /\ toServer' = [toServer EXCEPT ![c] = <<Msg("NEW_PLAYER"), Msg("REQUEST")>>]
      /\ UNCHANGED <<game, edits, gameVars, dropped, toClient, unitVars>>
  BY DEF Join
<1>2. Typed /\ Placed /\ Together /\ Known /\ Counted /\ c # Server /\ c \in Machines
  BY LobbyAssumption DEF LobbyInv, Machines
<1> DEFINE q == <<Msg("NEW_PLAYER"), Msg("REQUEST")>>
<1>3. /\ q \in Seq(FromClient(c)) /\ DOMAIN q = 1 .. 2
      /\ q[1] = Msg("NEW_PLAYER") /\ q[2] = Msg("REQUEST")
      /\ Msg("NEW_PLAYER").type = "NEW_PLAYER" /\ Msg("REQUEST").type = "REQUEST"
  BY Said
<1> HIDE DEF q
<1>4. Range(q) = {Msg("NEW_PLAYER"), Msg("REQUEST")}
  BY <1>3 DEF Range
<1>5. \A d \in Clients : toServer'[d] = IF d = c THEN q ELSE toServer[d]
  BY <1>1, <1>2 DEF q, Typed
<1>6. \A d \in Machines : phase'[d] = IF d = c THEN "menu" ELSE phase[d]
  BY <1>1, <1>2 DEF Typed
<1>7. Typed'
  <2>1. DOMAIN toServer' = Clients
    BY <1>1, <1>2 DEF Typed
  <2>2. \A d \in Clients : toServer'[d] \in Seq(FromClient(d))
    BY <1>2, <1>3, <1>5 DEF Typed
  <2>3. phase' \in [Machines -> {"away", "menu", "leaving", "load", "wait", "battle", "gone"}]
    BY <1>1, <1>2 DEF Typed
  <2>. QED  BY <1>1, <1>2, <2>1, <2>2, <2>3 DEF Typed, gameVars, unitVars
<1>8. Placed'
  <2>1. \A d \in Clients : phase'[d] = "away" => phase[d] = "away"
    BY <1>6 DEF Machines
  <2>2. \A m \in Machines, i \in Slots, d \in Clients : view'[m][i].who = d => PutAt(d, i)
    BY <1>1 DEF gameVars, PutAt
  <2>3. \A d \in Clients : \A e \in Range(toServer'[d]) :
          \/ e \in Range(toServer[d])
          \/ phase[d] = "away" /\ phase'[d] # "away" /\ e.type # "INFO"
    <3>1. phase'[c] = "menu"
      BY <1>2, <1>6
    <3>. QED  BY <1>1, <1>3, <1>4, <1>5, <3>1
  <2>4. \A d \in Clients : \A k \in DOMAIN toServer'[d] :
          toServer'[d][k].type = "NEW_PLAYER" => k = 1
    BY <1>2, <1>3, <1>5 DEF Placed
  <2>5. \A i, j \in Own(Server)' : i = j
    BY <1>1, <1>2 DEF Placed, Own, gameVars
  <2>6. \A d \in Clients : toClient'[d] = toClient[d]
    BY <1>1
  <2>. QED  BY <1>2, <2>1, <2>2, <2>3, <2>4, <2>5, <2>6, PlacedKept
<1>9. Together'
  BY <1>1, <1>2, <1>6 DEF Together, InMenu, Machines, unitVars
<1>10. Known'
  <2>1. KnownBy(c)'
    BY <1>3, <1>4, <1>5 DEF KnownBy
  <2>2. ASSUME NEW d \in conn, d # c PROVE KnownBy(d)'
    <3>1. KnownBy(d) /\ d \in Clients
      BY <1>1, <1>2 DEF Known, Typed
    <3>. QED  BY <1>1, <1>2, <1>5, <2>2, <3>1, KnownKept DEF gameVars
  <2>. QED  BY <1>1, <2>1, <2>2 DEF Known
<1>11. Counted'
  <2>1. phase'[Server] \in {"menu", "leaving"}
    BY <1>1, <1>2, <1>6 DEF InMenu, Machines
  <2>2. \A d \in Clients : \A e \in Range(toServer'[d]) :
          e \in Range(toServer[d]) \/ e.type # "READY"
    BY <1>3, <1>4, <1>5
  <2>. QED  BY <1>1, <1>2, <2>1, <2>2, CountedInMenu DEF unitVars
<1>. QED  BY <1>7, <1>8, <1>9, <1>10, <1>11 DEF LobbyInv

(* What a machine does by itself before it is in a battle: the limit and   *)
(* the number of edits stay in their ranges.                               *)
LEMMA EditsKept ==
  ASSUME Typed, UNCHANGED game, NEW what, Acts(what) \/ UNCHANGED edits
  PROVE  edits' \in 0 .. game'.edits
<1>1. game.edits \in Nat /\ edits \in 0 .. game.edits
  BY LobbyAssumption DEF Typed
<1>. QED  BY <1>1 DEF Acts

LEMMA ClientEditsKeeps ==
  ASSUME LobbyInv, NEW c \in Clients, ClientEdits(c)
  PROVE  LobbyInv'
<1>1. /\ InMenu(c) /\ Ask(c, Msg("UPDATE")) /\ Acts("edit")
      /\ UNCHANGED <<game, phase, limit, conn, dropped, toClient, unitVars>>
  BY DEF ClientEdits
<1>2. Typed /\ Placed /\ Together /\ Known /\ Counted /\ c # Server /\ c \in Machines
      /\ Server \in Machines
  BY LobbyAssumption DEF LobbyInv, Machines
<1>3. PICK i \in Own(c), ch \in Settings, r \in BOOLEAN :
        view' = [view EXCEPT ![c][i] = [@ EXCEPT !.choice = ch, !.ready = r]]
  BY DEF ClientEdits
<1>4. /\ view \in [Machines -> [Slots -> Slot]] /\ i \in Slots /\ view[c][i] \in Slot
      /\ view[c][i].who = c
  BY <1>2, <1>3 DEF Typed, Own
<1>5. [view[c][i] EXCEPT !.choice = ch, !.ready = r] \in Slot
      /\ [view[c][i] EXCEPT !.choice = ch, !.ready = r].who = c
  BY <1>4 DEF Slot
<1>6. view' = [view EXCEPT ![c] = [view[c] EXCEPT ![i] =
                 [view[c][i] EXCEPT !.choice = ch, !.ready = r]]]
  BY <1>3
<1>7. /\ view' \in [Machines -> [Slots -> Slot]]
      /\ \A m \in Machines, j \in Slots :
           IF m = c /\ j = i THEN view'[m][j].who = c ELSE view'[m][j] = view[m][j]
  BY <1>2, <1>4, <1>5, <1>6
<1>8. /\ DOMAIN toServer' = Clients
      /\ \A d \in Clients :
           /\ toServer'[d] = IF d = c /\ c \in conn THEN Append(toServer[d], Msg("UPDATE"))
                                                    ELSE toServer[d]
           /\ toServer'[d] \in Seq(FromClient(d))
           /\ Range(toServer'[d]) = IF d = c /\ c \in conn THEN Range(toServer[d]) \cup {Msg("UPDATE")}
                                                           ELSE Range(toServer[d])
      /\ Msg("UPDATE") \in FromClient(c) /\ Msg("UPDATE").type = "UPDATE"
  BY <1>1, <1>2, Said, AskFacts
<1>9. Typed'
  BY <1>1, <1>2, <1>7, <1>8, EditsKept DEF Typed, unitVars
<1>10. Placed'
  <2>1. \A m \in Machines, j \in Slots, d \in Clients : view'[m][j].who = d => PutAt(d, j)
    BY <1>2, <1>4, <1>7 DEF PutAt
  <2>2. \A d \in Clients : \A k \in DOMAIN toServer'[d] :
          toServer'[d][k].type = "NEW_PLAYER" => k = 1
    <3>1. ASSUME NEW d \in Clients
          PROVE  \A k \in DOMAIN toServer'[d] : toServer'[d][k].type = "NEW_PLAYER" => k = 1
      <4>1. /\ toServer[d] \in Seq(FromClient(d)) /\ toServer'[d] \in Seq(FromClient(d))
            /\ LeftOf(toServer[d], toServer[d])
        BY <1>2, <1>8, LeftOver DEF Typed
      <4>2. \A k \in DOMAIN toServer[d] : toServer[d][k].type = "NEW_PLAYER" => k = 1
        BY <1>2 DEF Placed
      <4>3. \/ LeftOf(toServer'[d], toServer[d])
            \/ \E e \in FromClient(d) :
                 e.type # "NEW_PLAYER" /\ toServer'[d] = Append(toServer[d], e)
        BY <1>8, <4>1
      <4>. QED  BY <4>1, <4>2, <4>3, FirstKept
    <3>. QED  BY <3>1
  <2>3. \A j, k \in Own(Server)' : j = k
    BY <1>2, <1>7 DEF Placed, Own
  <2>. QED  BY <1>1, <1>2, <1>8, <2>1, <2>2, <2>3, PlacedKept
<1>11. Together'
  BY <1>1, <1>2 DEF Together, InMenu, unitVars
<1>12. Known'
  <2>1. ASSUME NEW d \in conn, InMenu(Server) PROVE KnownBy(d)'
    <3>1. KnownBy(d) /\ d \in Clients /\ d \in Machines /\ d # Server
      BY <1>2, <2>1, LobbyAssumption DEF Known, Typed, Machines
    <3>2. \A j \in Slots : view'[d][j] = view[d][j] \/ view[d][j].who = d
      BY <1>4, <1>7, <3>1
    <3>3. \A j \in Slots : view'[Server][j] = view[Server][j]
      BY <1>2, <1>7
    <3>. QED  BY <1>1, <1>2, <1>8, <3>1, <3>2, <3>3, KnownKept
  <2>. QED  BY <1>1, <2>1 DEF Known, InMenu
<1>13. Counted'
  <2>1. view'[Server] = view[Server]
    BY <1>2, <1>4, <1>6
  <2>2. \A d \in Clients : CountsStep(d)
    BY <1>1, <1>8 DEF CountsStep
  <2>. QED  BY <1>1, <1>2, <1>8, <2>1, <2>2, CountedLater DEF unitVars
<1>. QED  BY <1>9, <1>10, <1>11, <1>12, <1>13 DEF LobbyInv

(* A client that is cut off, by itself, by the server or by the network.   *)
LEMMA CutKeeps ==
  ASSUME LobbyInv, NEW c \in Clients, NEW what, Acts(what) \/ UNCHANGED edits,
         UNCHANGED <<game, gameVars, unitVars>>,
         UNCHANGED phase \/ phase' = [phase EXCEPT ![c] = "gone"],
         UNCHANGED dropped \/ dropped' = TRUE,
         CutConnection(c, toServer[c], toClient)
  PROVE  LobbyInv'
<1>1. Typed /\ Placed /\ Together /\ Known /\ Counted /\ c # Server /\ c \in Machines
      /\ Server \in Machines
  BY LobbyAssumption DEF LobbyInv, Machines
<1>2. /\ DOMAIN toServer' = Clients /\ DOMAIN toClient' = Clients
      /\ conn' = conn \ {c}
      /\ \A d \in Clients : /\ toServer'[d] \in Seq(FromClient(d))
                            /\ toClient'[d] \in Seq(FromServer)
                            /\ toClient'[d] = IF d = c THEN <<>> ELSE toClient[d]
                            /\ d # c => toServer'[d] = toServer[d]
      /\ LeftOf(toServer'[c], toServer[c])
      /\ \E k \in 0 .. Len(toServer[c]) : toServer'[c] = SubSeq(toServer[c], 1, k)
  BY <1>1, CutFacts DEF Typed
<1>3. \A d \in Clients : /\ LeftOf(toServer'[d], toServer[d])
                         /\ Range(toServer'[d]) \subseteq Range(toServer[d])
                         /\ Range(toClient'[d]) \subseteq Range(toClient[d])
  <2>1. ASSUME NEW d \in Clients
        PROVE  /\ LeftOf(toServer'[d], toServer[d])
               /\ Range(toServer'[d]) \subseteq Range(toServer[d])
               /\ Range(toClient'[d]) \subseteq Range(toClient[d])
    <3>1. /\ toServer[d] \in Seq(FromClient(d)) /\ toServer'[d] \in Seq(FromClient(d))
          /\ toClient[d] \in Seq(FromServer)
      BY <1>1, <1>2 DEF Typed
    <3>2. LeftOf(toServer'[d], toServer[d])
      BY <1>2, <3>1, LeftOver
    <3>3. Range(toServer'[d]) \subseteq Range(toServer[d])
      BY <3>1, <3>2, LeftIn
    <3>4. Range(<<>>) = {}
      BY DEF Range
    <3>. QED  BY <1>2, <3>2, <3>3, <3>4
  <2>. QED  BY <2>1
<1>4. /\ phase' \in [Machines -> {"away", "menu", "leaving", "load", "wait", "battle", "gone"}]
      /\ \A m \in Machines : phase'[m] = phase[m] \/ (m = c /\ phase'[m] = "gone")
  BY <1>1 DEF Typed
<1>5. Typed'
  BY <1>1, <1>2, <1>4, EditsKept DEF Typed, gameVars, unitVars
<1>6. Placed'
  <2>1. \A d \in Clients : phase'[d] = "away" => phase[d] = "away"
    BY <1>4 DEF Machines
  <2>2. \A m \in Machines, i \in Slots, d \in Clients : view'[m][i].who = d => PutAt(d, i)
    BY DEF gameVars, PutAt
  <2>3. ASSUME NEW d \in Clients
        PROVE  \A k \in DOMAIN toServer'[d] : toServer'[d][k].type = "NEW_PLAYER" => k = 1
    <3>1. toServer[d] \in Seq(FromClient(d)) /\ toServer'[d] \in Seq(FromClient(d))
      BY <1>1, <1>2 DEF Typed
    <3>. QED  BY <1>1, <1>3, <3>1, FirstKept DEF Placed
  <2>4. \A i, j \in Own(Server)' : i = j
    BY <1>1 DEF Placed, Own, gameVars
  <2>. QED  BY <1>1, <1>3, <2>1, <2>2, <2>3, <2>4, PlacedKept
<1>7. Together'
  BY <1>1, <1>2, <1>3, <1>4 DEF Together, InMenu, unitVars, Machines
<1>8. Known'
  <2>1. ASSUME NEW d \in conn', InMenu(Server)' PROVE KnownBy(d)'
    <3>1. KnownBy(d) /\ d \in Clients /\ d # c
      BY <1>1, <1>2, <1>4, <2>1 DEF Known, Typed, InMenu
    <3>. QED  BY <1>1, <1>2, <3>1, KnownKept DEF gameVars
  <2>. QED  BY <2>1 DEF Known
<1>9. Counted'
  <2>1. \A d \in Clients : CountsStep(d)
    BY <1>2 DEF CountsStep
  <2>2. \A d \in conn' : phase'[d] \in {"menu", "leaving"}
                           => phase[d] \in {"menu", "leaving"}
    BY <1>1, <1>2, <1>4 DEF Typed, Machines
  <2>3. phase'[Server] = phase[Server]
    BY <1>1, <1>4
  <2>. QED  BY <1>1, <1>2, <1>3, <2>1, <2>2, <2>3, CountedLater DEF gameVars, unitVars
<1>. QED  BY <1>5, <1>6, <1>7, <1>8, <1>9 DEF LobbyInv

LEMMA NothingLeft == Range(<<>>) = {}
BY DEF Range

LEMMA ClientLeavesKeeps ==
  ASSUME LobbyInv, NEW c \in Clients, ClientLeaves(c)
  PROVE  LobbyInv'
<1>1. /\ InMenu(c) /\ Acts("leave") /\ Ask(c, Msg("PLAYER_LEFT"))
      /\ phase' = [phase EXCEPT ![c] = "gone"]
      /\ conn' = conn \ {c}
      /\ toClient' = [toClient EXCEPT ![c] = <<>>]
      /\ UNCHANGED <<game, gameVars, dropped, unitVars>>
  BY DEF ClientLeaves
<1>2. Typed /\ Placed /\ Together /\ Known /\ Counted /\ c # Server /\ c \in Machines
      /\ Server \in Machines
  BY LobbyAssumption DEF LobbyInv, Machines
<1>3. /\ DOMAIN toServer' = Clients
      /\ \A d \in Clients :
           /\ toServer'[d] = IF d = c /\ c \in conn THEN Append(toServer[d], Msg("PLAYER_LEFT"))
                                                    ELSE toServer[d]
           /\ toServer'[d] \in Seq(FromClient(d))
           /\ Range(toServer'[d]) = IF d = c /\ c \in conn
                                    THEN Range(toServer[d]) \cup {Msg("PLAYER_LEFT")}
                                    ELSE Range(toServer[d])
      /\ Msg("PLAYER_LEFT") \in FromClient(c) /\ Msg("PLAYER_LEFT").type = "PLAYER_LEFT"
  BY <1>1, <1>2, Said, AskFacts
<1>4. /\ DOMAIN toClient' = Clients
      /\ \A d \in Clients : toClient'[d] = IF d = c THEN <<>> ELSE toClient[d]
  BY <1>1, <1>2 DEF Typed
<1>5. \A d \in Clients : /\ toClient'[d] \in Seq(FromServer)
                         /\ Range(toClient'[d]) \subseteq Range(toClient[d])
  BY <1>2, <1>4, EmptySeq, NothingLeft DEF Typed
<1>6. /\ phase' \in [Machines -> {"away", "menu", "leaving", "load", "wait", "battle", "gone"}]
      /\ \A m \in Machines : phase'[m] = IF m = c THEN "gone" ELSE phase[m]
  BY <1>1, <1>2 DEF Typed
<1>7. Typed'
  BY <1>1, <1>2, <1>3, <1>4, <1>5, <1>6, EditsKept DEF Typed, gameVars, unitVars
<1>8. Placed'
  <2>1. \A d \in Clients : phase'[d] = "away" => phase[d] = "away"
    BY <1>6 DEF Machines
  <2>2. \A m \in Machines, i \in Slots, d \in Clients : view'[m][i].who = d => PutAt(d, i)
    BY <1>1 DEF gameVars, PutAt
  <2>3. ASSUME NEW d \in Clients
        PROVE  \A k \in DOMAIN toServer'[d] : toServer'[d][k].type = "NEW_PLAYER" => k = 1
    <3>1. /\ toServer[d] \in Seq(FromClient(d)) /\ toServer'[d] \in Seq(FromClient(d))
          /\ LeftOf(toServer[d], toServer[d])
      BY <1>2, <1>3, LeftOver DEF Typed
    <3>2. \A k \in DOMAIN toServer[d] : toServer[d][k].type = "NEW_PLAYER" => k = 1
      BY <1>2 DEF Placed
    <3>3. \/ LeftOf(toServer'[d], toServer[d])
          \/ \E e \in FromClient(d) :
               e.type # "NEW_PLAYER" /\ toServer'[d] = Append(toServer[d], e)
      BY <1>3, <3>1
    <3>. QED  BY <3>1, <3>2, <3>3, FirstKept
  <2>4. \A i, j \in Own(Server)' : i = j
    BY <1>1, <1>2 DEF Placed, Own, gameVars
  <2>. QED  BY <1>2, <1>3, <1>5, <2>1, <2>2, <2>3, <2>4, PlacedKept
<1>9. Together'
  BY <1>1, <1>2, <1>4, <1>5, <1>6 DEF Together, InMenu, unitVars, Machines
<1>10. Known'
  <2>1. ASSUME NEW d \in conn', InMenu(Server)' PROVE KnownBy(d)'
    <3>1. KnownBy(d) /\ d \in Clients /\ d # c
      BY <1>1, <1>2, <1>6, <2>1 DEF Known, Typed, InMenu
    <3>. QED  BY <1>1, <1>2, <1>3, <1>4, <3>1, KnownKept DEF gameVars
  <2>. QED  BY <2>1 DEF Known
<1>11. Counted'
  <2>1. \A d \in Clients : CountsStep(d)
    BY <1>3, <1>4 DEF CountsStep
  <2>2. \A d \in conn' : phase'[d] \in {"menu", "leaving"}
                           => phase[d] \in {"menu", "leaving"}
    BY <1>1, <1>2, <1>6 DEF Typed, Machines
  <2>3. phase'[Server] = phase[Server]
    BY <1>2, <1>6
  <2>. QED  BY <1>1, <1>2, <1>3, <1>5, <2>1, <2>2, <2>3, CountedLater DEF gameVars, unitVars
<1>. QED  BY <1>7, <1>8, <1>9, <1>10, <1>11 DEF LobbyInv

LEMMA CutOffKeeps ==
  ASSUME LobbyInv, NEW c \in Clients, CutOff(c)
  PROVE  LobbyInv'
<1>1. /\ c \notin conn /\ phase[c] \notin {"away", "gone", "battle"}
      /\ phase' = [phase EXCEPT ![c] = IF InMenu(c) THEN "gone" ELSE "battle"]
      /\ UNCHANGED <<game, edits, gameVars, netVars, unitVars>>
  BY DEF CutOff
<1>2. Typed /\ Placed /\ Together /\ Known /\ Counted /\ c # Server /\ c \in Machines
      /\ Server \in Machines
  BY LobbyAssumption DEF LobbyInv, Machines
<1>3. /\ phase' \in [Machines -> {"away", "menu", "leaving", "load", "wait", "battle", "gone"}]
      /\ \A m \in Machines :
           phase'[m] = IF m = c THEN IF InMenu(c) THEN "gone" ELSE "battle" ELSE phase[m]
  BY <1>1, <1>2 DEF Typed
<1>4. Typed'
  BY <1>1, <1>2, <1>3 DEF Typed, gameVars, netVars, unitVars
<1>5. Placed'
  <2>1. \A d \in Clients : (phase'[d] = "away" => phase[d] = "away")
    BY <1>3 DEF Machines
  <2>. QED  BY <1>1, <1>2, <2>1 DEF Placed, PutAt, Asked, Own, gameVars, netVars
<1>6. Together'
  BY <1>1, <1>2, <1>3 DEF Together, InMenu, netVars, unitVars, Machines
<1>7. Known'
  <2>1. InMenu(Server)' = InMenu(Server)
    BY <1>2, <1>3 DEF InMenu
  <2>2. \A d \in Clients : KnownBy(d)' = KnownBy(d)
    BY <1>1 DEF KnownBy, WillSee, Seen, LooksOpen, gameVars, netVars
  <2>. QED  BY <1>1, <1>2, <2>1, <2>2 DEF Known, Typed, netVars
<1>8. Counted'
  <2>1. \A d \in Clients : CountsStep(d)
    BY <1>1 DEF CountsStep, netVars
  <2>2. \A d \in conn' : phase'[d] \in {"menu", "leaving"}
                           => phase[d] \in {"menu", "leaving"}
    BY <1>1, <1>2, <1>3 DEF Typed, Machines, netVars
  <2>3. phase'[Server] = phase[Server]
    BY <1>2, <1>3
  <2>. QED  BY <1>1, <1>2, <2>1, <2>2, <2>3, CountedLater DEF gameVars, netVars, unitVars
<1>. QED  BY <1>4, <1>5, <1>6, <1>7, <1>8 DEF LobbyInv

LEMMA ClientUserKeeps ==
  ASSUME LobbyInv, NEW c \in Clients, ClientUser(c)
  PROVE  LobbyInv'
<1>1. CASE Crash(c)
  BY <1>1, CutKeeps DEF Crash
<1>2. CASE DropsSlow(c)
  BY <1>2, CutKeeps DEF DropsSlow
<1>. QED  BY <1>1, <1>2, JoinKeeps, ClientEditsKeeps, ClientLeavesKeeps DEF ClientUser

-----------------------------------------------------------------------------
(* The server's menu.  It changes its slots and tells everybody, ...       *)
LEMMA ServerChanges ==
  ASSUME LobbyInv, InMenu(Server), NEW what, Acts(what) \/ UNCHANGED edits,
         UNCHANGED <<game, phase, conn, toServer, unitVars>>, dropped' \in BOOLEAN,
         limit' \in [Machines -> Limits], view' \in [Machines -> [Slots -> Slot]],
         \A m \in Clients : view'[m] = view[m],
         \A i \in Slots, d \in Clients : view'[Server][i].who = d => view[Server][i].who = d,
         \A i, j \in Own(Server)' : i = j,
         NEW msg \in FromServer, toClient' = Tell(Clients, msg),
         \/ msg.type = "UPDATE"
         \/ msg.type = "LIMIT" /\ UNCHANGED <<view, dropped>>
  PROVE  LobbyInv'
<1>1. Typed /\ Placed /\ Together /\ Known /\ Counted /\ Server \in Machines
  BY DEF LobbyInv, Machines
<1>2. /\ DOMAIN toClient' = Clients
      /\ \A d \in Clients :
           /\ toClient'[d] = IF d \in conn THEN Append(toClient[d], msg) ELSE toClient[d]
           /\ toClient'[d] \in Seq(FromServer)
           /\ Range(toClient'[d]) = IF d \in conn THEN Range(toClient[d]) \cup {msg}
                                                  ELSE Range(toClient[d])
  BY <1>1, ToldAll
<1>3. msg.type \notin {"DATA", "START", "END"}
  OBVIOUS
<1>4. Typed'
  BY <1>1, <1>2, EditsKept DEF Typed, unitVars
<1>5. Placed'
  <2>1. \A m \in Machines, i \in Slots, d \in Clients : view'[m][i].who = d => PutAt(d, i)
    BY DEF PutAt, Machines
  <2>2. \A d \in Clients : \A e \in Range(toClient'[d]) :
          e \in Range(toClient[d]) \/ e.type # "DATA"
    BY <1>2, <1>3
  <2>. QED  BY <1>1, <2>1, <2>2, PlacedKept DEF Placed
<1>6. Together'
  BY <1>1, <1>2, <1>3 DEF Together, InMenu, unitVars
<1>7. Known'
  <2>1. ASSUME NEW d \in conn PROVE KnownBy(d)'
    <3>1. KnownBy(d) /\ d \in Clients
      BY <1>1, <2>1 DEF Known, Typed
    <3>2. CASE msg.type = "UPDATE"
      BY <1>2, <2>1, <3>1, <3>2 DEF KnownBy
    <3>3. CASE msg.type = "LIMIT" /\ UNCHANGED <<view, dropped>>
      BY <1>1, <1>2, <3>1, <3>3, KnownKept
    <3>. QED  BY <3>2, <3>3
  <2>. QED  BY <2>1 DEF Known
<1>8. Counted'
  <2>1. \A d \in Clients : \A e \in Range(toClient'[d]) :
          e \in Range(toClient[d]) \/ e.type # "END"
    BY <1>2, <1>3
  <2>. QED  BY <1>1, <2>1, CountedInMenu DEF InMenu, unitVars
<1>. QED  BY <1>4, <1>5, <1>6, <1>7, <1>8 DEF LobbyInv

(* ... and who is cut off by it leaves playerDropped behind.               *)
LEMMA KickKeeps ==
  ASSUME LobbyInv, InMenu(Server), NEW c \in Clients, NEW what, Acts(what) \/ UNCHANGED edits,
         UNCHANGED <<game, phase, limit, unitVars>>, dropped' = TRUE,
         view' \in [Machines -> [Slots -> Slot]],
         \A m \in Clients : view'[m] = view[m],
         \A i \in Slots, d \in Clients : view'[Server][i].who = d => view[Server][i].who = d,
         \A i, j \in Own(Server)' : i = j,
         NEW q \in Seq(FromClient(c)), LeftOf(q, toServer[c]),
         NEW to \in SUBSET Clients, NEW msg \in FromServer,
         msg.type \notin {"DATA", "START", "END"},
         NEW told, told = toClient \/ told = Tell(to, msg), CutConnection(c, q, told)
  PROVE  LobbyInv'
<1>1. Typed /\ Placed /\ Together /\ Known /\ Counted /\ Server \in Machines
  BY DEF LobbyInv, Machines
<1>2. /\ DOMAIN told = Clients
      /\ \A d \in Clients : /\ told[d] \in Seq(FromServer)
                            /\ \A e \in Range(told[d]) : e \in Range(toClient[d]) \/ e = msg
                            /\ told[d] = toClient[d] \/ told[d] = Append(toClient[d], msg)
                            /\ d \notin conn => told[d] = toClient[d]
  <2>1. CASE told = toClient
    BY <1>1, <2>1 DEF Typed
  <2>2. CASE told = Tell(to, msg)
    <3>1. /\ DOMAIN Tell(to, msg) = Clients
          /\ \A d \in Clients :
               /\ Tell(to, msg)[d] = IF d \in to \cap conn THEN Append(toClient[d], msg)
                                                          ELSE toClient[d]
               /\ Tell(to, msg)[d] \in Seq(FromServer)
               /\ Range(Tell(to, msg)[d]) = IF d \in to \cap conn THEN Range(toClient[d]) \cup {msg}
                                                                 ELSE Range(toClient[d])
      BY ONLY <1>1, TellFacts, to \in SUBSET Clients, msg \in FromServer
    <3>. QED  BY <2>2, <3>1
  <2>. QED  BY <2>1, <2>2
<1>3. /\ DOMAIN toServer' = Clients /\ DOMAIN toClient' = Clients
      /\ conn' = conn \ {c}
      /\ \A d \in Clients : /\ toServer'[d] \in Seq(FromClient(d))
                            /\ toClient'[d] \in Seq(FromServer)
                            /\ toClient'[d] = IF d = c THEN <<>> ELSE told[d]
                            /\ d # c => toServer'[d] = toServer[d]
      /\ LeftOf(toServer'[c], q)
  BY <1>1, <1>2, CutFacts
<1>4. \A d \in Clients : /\ LeftOf(toServer'[d], toServer[d])
                         /\ Range(toServer'[d]) \subseteq Range(toServer[d])
                         /\ \A e \in Range(toClient'[d]) : e \in Range(toClient[d]) \/ e = msg
  <2>1. ASSUME NEW d \in Clients
        PROVE  /\ LeftOf(toServer'[d], toServer[d])
               /\ Range(toServer'[d]) \subseteq Range(toServer[d])
               /\ \A e \in Range(toClient'[d]) : e \in Range(toClient[d]) \/ e = msg
    <3>1. toServer[d] \in Seq(FromClient(d)) /\ toServer'[d] \in Seq(FromClient(d))
      BY <1>1, <1>3 DEF Typed
    <3>2. LeftOf(toServer'[d], toServer[d])
      <4>1. CASE d = c
        BY <1>3, <3>1, <4>1, LeftOfLeft
      <4>2. CASE d # c
        BY <1>3, <3>1, <4>2, LeftOver
      <4>. QED  BY <4>1, <4>2
    <3>3. Range(toServer'[d]) \subseteq Range(toServer[d])
      BY <3>1, <3>2, LeftIn
    <3>. QED  BY <1>2, <1>3, <3>2, <3>3, NothingLeft
  <2>. QED  BY <2>1
<1>5. Typed'
  BY <1>1, <1>3, EditsKept DEF Typed, unitVars
<1>6. Placed'
  <2>1. \A m \in Machines, i \in Slots, d \in Clients : view'[m][i].who = d => PutAt(d, i)
    BY DEF PutAt, Machines
  <2>2. \A d \in Clients : \A e \in Range(toClient'[d]) :
          e \in Range(toClient[d]) \/ e.type # "DATA"
    BY <1>4
  <2>3. ASSUME NEW d \in Clients
        PROVE  \A k \in DOMAIN toServer'[d] : toServer'[d][k].type = "NEW_PLAYER" => k = 1
    <3>1. toServer[d] \in Seq(FromClient(d)) /\ toServer'[d] \in Seq(FromClient(d))
      BY <1>1, <1>3 DEF Typed
    <3>2. \A k \in DOMAIN toServer[d] : toServer[d][k].type = "NEW_PLAYER" => k = 1
      BY <1>1 DEF Placed
    <3>. QED  BY <1>4, <3>1, <3>2, FirstKept
  <2>. QED  BY <1>1, <1>4, <2>1, <2>2, <2>3, PlacedKept
<1>7. Together'
  BY <1>1, <1>2, <1>3, <1>4 DEF Together, InMenu, unitVars
<1>8. Known'
  BY DEF Known, KnownBy
<1>9. Counted'
  <2>1. \A d \in Clients : \A e \in Range(toClient'[d]) :
          e \in Range(toClient[d]) \/ e.type # "END"
    BY <1>4
  <2>. QED  BY <1>1, <1>4, <2>1, CountedInMenu DEF InMenu, unitVars
<1>. QED  BY <1>5, <1>6, <1>7, <1>8, <1>9 DEF LobbyInv

(* What the server's user does in the menu.                                *)
LEMMA OwnKept ==
  ASSUME Placed, \A i \in Slots : view'[Server][i].who = Server => view[Server][i].who = Server
  PROVE  \A i, j \in Own(Server)' : i = j
BY DEF Placed, Own

LEMMA ServerUserKeeps ==
  ASSUME LobbyInv, ServerEdits \/ (\E i \in Slots : ServerRetypes(i)) \/ (\E l \in Limits : ServerLimits(l))
  PROVE  LobbyInv'
<1>1. /\ Typed /\ Placed /\ Server \in Machines /\ Server \notin Clients
      /\ view \in [Machines -> [Slots -> Slot]] /\ limit \in [Machines -> Limits]
      /\ dropped \in BOOLEAN
  BY LobbyAssumption DEF LobbyInv, Typed, Machines
<1>2. Msg("UPDATE") \in FromServer /\ Msg("UPDATE").type = "UPDATE"
  BY Said
<1>3. CASE ServerEdits
  <2>1. PICK i \in Slots :
          /\ view[Server][i].who \notin {"open", "closed"}
          /\ \/ view' = [view EXCEPT ![Server][i].choice = 1 - @]
             \/ \E ch \in Settings :
                  view' = [view EXCEPT ![Server][i] = [@ EXCEPT !.choice = ch, !.named = TRUE]]
             \/ i \in Own(Server) /\ view' = [view EXCEPT ![Server][i].ready = ~ @]
    BY <1>3 DEF ServerEdits
  <2>2. view[Server][i] \in Slot
    BY <1>1
  <2>3. PICK s \in Slot : /\ s.who = view[Server][i].who
                          /\ view' = [view EXCEPT ![Server][i] = s]
    <3>1. CASE view' = [view EXCEPT ![Server][i].choice = 1 - @]
      <4>1. [view[Server][i] EXCEPT !.choice = 1 - @] \in Slot
        BY <2>2 DEF Slot, Settings
      <4>2. [view[Server][i] EXCEPT !.choice = 1 - @].who = view[Server][i].who
        BY <2>2 DEF Slot
      <4>. QED  BY <3>1, <4>1, <4>2
    <3>2. CASE view' = [view EXCEPT ![Server][i].ready = ~ @]
      <4>1. [view[Server][i] EXCEPT !.ready = ~ @] \in Slot
        BY <2>2 DEF Slot
      <4>2. [view[Server][i] EXCEPT !.ready = ~ @].who = view[Server][i].who
        BY <2>2 DEF Slot
      <4>. QED  BY <3>2, <4>1, <4>2
    <3>3. ASSUME NEW ch \in Settings,
                 view' = [view EXCEPT ![Server][i] = [@ EXCEPT !.choice = ch, !.named = TRUE]]
          PROVE  \E s \in Slot : /\ s.who = view[Server][i].who
                                 /\ view' = [view EXCEPT ![Server][i] = s]
      <4>. DEFINE s == [view[Server][i] EXCEPT !.choice = ch, !.named = TRUE]
      <4>1. s \in Slot /\ s.who = view[Server][i].who
        BY <2>2, <3>3 DEF Slot
      <4>. QED  BY <3>3, <4>1
    <3>. QED  BY <2>1, <3>1, <3>2, <3>3
  <2>4. /\ view' \in [Machines -> [Slots -> Slot]]
        /\ \A m \in Clients : view'[m] = view[m]
        /\ \A j \in Slots : view'[Server][j].who = view[Server][j].who
    BY <1>1, <2>3 DEF Machines
  <2>. QED  BY <1>1, <1>2, <1>3, <2>4, OwnKept, ServerChanges DEF ServerEdits
<1>4. ASSUME NEW i \in Slots, ServerRetypes(i) PROVE LobbyInv'
  <2>1. /\ NextType(i) \in Nobody \cup {Server}
        /\ NextType(i) = Server => Own(Server) = {}
    <3>1. Server \notin {"ai", "open", "closed"}
      BY LobbyAssumption DEF Machines, Nobody
    <3>. QED  BY <3>1 DEF NextType, Nobody
  <2>2. NextType(i) \notin Clients
    BY <2>1, LobbyAssumption DEF Machines, Nobody
  <2>3. [view[Server][i] EXCEPT !.who = NextType(i)] \in Slot
        /\ [view[Server][i] EXCEPT !.who = NextType(i)].who = NextType(i)
    <3>1. view[Server][i] \in Slot
      BY <1>1
    <3>. QED  BY <2>1, <3>1 DEF Slot, Machines, Nobody
  <2>4. view' = [view EXCEPT ![Server][i] = [view[Server][i] EXCEPT !.who = NextType(i)]]
    BY <1>4 DEF ServerRetypes
  <2>5. /\ view' \in [Machines -> [Slots -> Slot]]
        /\ \A m \in Clients : view'[m] = view[m]
        /\ \A j \in Slots : view'[Server][j].who = IF j = i THEN NextType(i) ELSE view[Server][j].who
    BY <1>1, <2>3, <2>4 DEF Machines
  <2>6. \A j, k \in Own(Server)' : j = k
    <3>1. CASE NextType(i) = Server
      BY <1>1, <2>1, <2>5, <3>1 DEF Own
    <3>2. CASE NextType(i) # Server
      BY <1>1, <2>5, <3>2, OwnKept
    <3>. QED  BY <3>1, <3>2
  <2>7. \A j \in Slots, d \in Clients : view'[Server][j].who = d => view[Server][j].who = d
    BY <2>2, <2>5
  <2> DEFINE c == view[Server][i].who
             told == Tell(Clients, Msg("UPDATE"))
  <2>8. /\ InMenu(Server) /\ Acts("type") /\ UNCHANGED <<game, phase, limit, unitVars>>
        /\ IF c \in Clients THEN CutConnection(c, toServer[c], told) /\ dropped' = TRUE
                            ELSE toClient' = told /\ UNCHANGED <<conn, dropped, toServer>>
    BY <1>4 DEF ServerRetypes
  <2>9. CASE c \in Clients
    <3>1. toServer[c] \in Seq(FromClient(c)) /\ LeftOf(toServer[c], toServer[c])
      BY <1>1, <2>9, LeftOver DEF Typed
    <3> HIDE DEF c, told
    <3>2. told = Tell(Clients, Msg("UPDATE"))
      BY DEF told
    <3>3. CutConnection(c, toServer[c], told) /\ dropped' = TRUE
      BY <2>8, <2>9
    <3>. QED  BY <1>2, <2>5, <2>6, <2>7, <2>8, <2>9, <3>1, <3>2, <3>3, KickKeeps
  <2>10. CASE c \notin Clients
    BY <1>1, <1>2, <2>5, <2>6, <2>7, <2>8, <2>10, ServerChanges
  <2>. QED  BY <2>9, <2>10
<1>5. ASSUME NEW l \in Limits, ServerLimits(l) PROVE LobbyInv'
  <2>1. [type |-> "LIMIT", limit |-> l] \in FromServer
    BY DEF FromServer
  <2>2. /\ limit' \in [Machines -> Limits] /\ InMenu(Server) /\ Acts("limit")
        /\ UNCHANGED <<game, phase, view, conn, dropped, toServer, unitVars>>
        /\ toClient' = Tell(Clients, [type |-> "LIMIT", limit |-> l])
    BY <1>1, <1>5 DEF ServerLimits
  <2>3. \A i, j \in Own(Server)' : i = j
    BY <1>1, <2>2, OwnKept
  <2>. QED  BY <1>1, <2>1, <2>2, <2>3, ServerChanges
<1>. QED  BY <1>3, <1>4, <1>5

LEMMA NoticesDroppedKeeps ==
  ASSUME LobbyInv, NoticesDropped
  PROVE  LobbyInv'
<1>1. /\ Typed /\ Placed /\ Server \in Machines /\ Server \notin Clients
      /\ view \in [Machines -> [Slots -> Slot]] /\ limit \in [Machines -> Limits]
      /\ dropped \in BOOLEAN /\ conn \subseteq Clients
  BY LobbyAssumption DEF LobbyInv, Typed, Machines
<1>2. Msg("UPDATE") \in FromServer /\ Msg("UPDATE").type = "UPDATE"
  BY Said
<1>3. /\ InMenu(Server) /\ dropped' = FALSE
      /\ view' = [view EXCEPT ![Server] = [i \in Slots |->
                    IF view[Server][i].who \in Clients \ conn
                    THEN [view[Server][i] EXCEPT !.who = "open", !.choice = 0, !.named = FALSE]
                    ELSE view[Server][i]]]
      /\ toClient' = Tell(Clients, Msg("UPDATE"))
      /\ UNCHANGED <<game, phase, edits, limit, conn, toServer, unitVars>>
  BY DEF NoticesDropped
<1>4. "open" \notin Machines /\ "open" \in Nobody
  BY LobbyAssumption DEF Nobody
<1>5. ASSUME NEW s \in Slot
      PROVE  /\ [s EXCEPT !.who = "open", !.choice = 0, !.named = FALSE] \in Slot
             /\ [s EXCEPT !.who = "open", !.choice = 0, !.named = FALSE].who = "open"
  BY <1>4 DEF Slot, Settings
<1>6. /\ \A m \in Clients : view'[m] = view[m]
      /\ \A i \in Slots : /\ view'[Server][i] \in Slot
                          /\ view'[Server][i].who \in {"open", view[Server][i].who}
  <2>. DEFINE kept == [i \in Slots |->
                         IF view[Server][i].who \in Clients \ conn
                         THEN [view[Server][i] EXCEPT !.who = "open", !.choice = 0, !.named = FALSE]
                         ELSE view[Server][i]]
  <2>1. view' = [view EXCEPT ![Server] = kept]
    BY <1>3
  <2>2. \A i \in Slots : view[Server][i] \in Slot
    BY <1>1
  <2>3. ASSUME NEW i \in Slots
        PROVE  kept[i] \in Slot /\ kept[i].who \in {"open", view[Server][i].who}
    <3>1. CASE view[Server][i].who \in Clients \ conn
      <4>1. kept[i] = [view[Server][i] EXCEPT !.who = "open", !.choice = 0, !.named = FALSE]
        BY <3>1
      <4>. QED  BY <4>1, <2>2, <1>5
    <3>2. CASE view[Server][i].who \notin Clients \ conn
      <4>1. kept[i] = view[Server][i]
        BY <3>2
      <4>. QED  BY <4>1, <2>2
    <3>. QED  BY <3>1, <3>2
  <2>. HIDE DEF kept
  <2>4. view'[Server] = kept /\ \A m \in Clients : view'[m] = view[m]
    BY <1>1, <2>1 DEF Machines
  <2>. QED  BY <2>3, <2>4
<1>7. view' \in [Machines -> [Slots -> Slot]]
  BY <1>1, <1>3, <1>5
<1>8. \A i, j \in Own(Server)' : i = j
  BY <1>1, <1>4, <1>6, OwnKept
<1>9. \A i \in Slots, d \in Clients : view'[Server][i].who = d => view[Server][i].who = d
  BY <1>4, <1>6 DEF Machines
<1>10. limit' \in [Machines -> Limits] /\ dropped' \in BOOLEAN
  BY <1>1, <1>3
<1>. QED  BY <1>2, <1>3, <1>6, <1>7, <1>8, <1>9, <1>10, ServerChanges

(* The menu is left.                                                       *)
LEMMA ServerStartsKeeps ==
  ASSUME LobbyInv, ServerStarts
  PROVE  LobbyInv'
<1>1. Typed /\ Placed /\ Together /\ Counted /\ Server \in Machines /\ Server \notin Clients
  BY LobbyAssumption DEF LobbyInv, Machines
<1>2. /\ InMenu(Server)
      /\ phase' = [phase EXCEPT ![Server] = "leaving"]
      /\ toClient' = Tell(Clients, Msg("START"))
      /\ UNCHANGED <<game, edits, gameVars, conn, dropped, toServer, unitVars>>
  BY DEF ServerStarts
<1>3. Msg("START") \in FromServer /\ Msg("START").type = "START"
  BY Said
<1>4. /\ DOMAIN toClient' = Clients
      /\ \A d \in Clients :
           /\ toClient'[d] = IF d \in conn THEN Append(toClient[d], Msg("START")) ELSE toClient[d]
           /\ toClient'[d] \in Seq(FromServer)
           /\ Range(toClient'[d]) = IF d \in conn THEN Range(toClient[d]) \cup {Msg("START")}
                                                  ELSE Range(toClient[d])
  BY <1>1, <1>2, <1>3, ToldAll
<1>5. /\ phase' \in [Machines -> {"away", "menu", "leaving", "load", "wait", "battle", "gone"}]
      /\ \A m \in Machines : phase'[m] = IF m = Server THEN "leaving" ELSE phase[m]
  BY <1>1, <1>2 DEF Typed
<1>6. Typed'
  BY <1>1, <1>2, <1>4, <1>5 DEF Typed, gameVars, unitVars
<1>7. Placed'
  <2>1. \A m \in Machines, i \in Slots, d \in Clients : view'[m][i].who = d => PutAt(d, i)
    BY <1>2 DEF PutAt, gameVars
  <2>2. \A d \in Clients : \A e \in Range(toClient'[d]) :
          e \in Range(toClient[d]) \/ e.type # "DATA"
    BY <1>3, <1>4
  <2>3. \A d \in Clients : phase'[d] = "away" => phase[d] = "away"
    BY <1>1, <1>5 DEF Machines
  <2>4. \A i, j \in Own(Server)' : i = j
    BY <1>1, <1>2 DEF Placed, Own, gameVars
  <2>. QED  BY <1>1, <1>2, <2>1, <2>2, <2>3, <2>4, PlacedKept DEF Placed
<1>8. Together'
  BY <1>1, <1>2, <1>4, <1>5 DEF Together, InMenu, unitVars
<1>9. Known'
  BY <1>1, <1>5 DEF Known, InMenu
<1>10. Counted'
  <2>1. \A d \in Clients : \A e \in Range(toClient'[d]) :
          e \in Range(toClient[d]) \/ e.type # "END"
    BY <1>3, <1>4
  <2>. QED  BY <1>1, <1>2, <1>5, <2>1, CountedInMenu DEF unitVars
<1>. QED  BY <1>6, <1>7, <1>8, <1>9, <1>10 DEF LobbyInv

(* What the server hears in the menu: a message of c is taken.             *)
Hears(c) ==
  /\ InMenu(Server) /\ toServer[c] # <<>>
  /\ toServer' = [toServer EXCEPT ![c] = Tail(toServer[c])]
  /\ UNCHANGED <<game, phase, edits, unitVars, conn, dropped>>
  /\ limit' \in [Machines -> Limits] /\ view' \in [Machines -> [Slots -> Slot]]
  /\ \A m \in Clients : view'[m] = view[m]
  /\ DOMAIN toClient' = Clients
  /\ \A d \in Clients : /\ toClient'[d] \in Seq(FromServer)
                        /\ d \notin conn => toClient'[d] = toClient[d]
                        /\ \A e \in Range(toClient'[d]) :
                             e \in Range(toClient[d]) \/ e.type \notin {"START", "END"}

LEMMA TakenFacts ==
  ASSUME Typed, Placed, NEW c \in Clients, toServer[c] # <<>>,
         toServer' = [toServer EXCEPT ![c] = Tail(toServer[c])]
  PROVE  /\ DOMAIN toServer' = Clients
         /\ Head(toServer[c]) \in FromClient(c) /\ Head(toServer[c]) \in Range(toServer[c])
         /\ toServer[c][1] = Head(toServer[c])
         /\ \A d \in Clients :
              /\ toServer'[d] = IF d = c THEN Tail(toServer[d]) ELSE toServer[d]
              /\ toServer'[d] \in Seq(FromClient(d)) /\ LeftOf(toServer'[d], toServer[d])
              /\ Range(toServer'[d]) \subseteq Range(toServer[d])
              /\ \A k \in DOMAIN toServer'[d] : toServer'[d][k].type = "NEW_PLAYER" => k = 1
         /\ \A d \in Clients : \A e \in Range(toServer[d]) :
              e \in Range(toServer'[d]) \/ (d = c /\ e = Head(toServer[c]))
<1>1. /\ DOMAIN toServer = Clients
      /\ \A d \in Clients : toServer[d] \in Seq(FromClient(d))
  BY DEF Typed
<1>2. \A d \in Clients : toServer'[d] = IF d = c THEN Tail(toServer[d]) ELSE toServer[d]
  BY <1>1
<1>3. /\ Head(toServer[c]) \in FromClient(c) /\ Head(toServer[c]) \in Range(toServer[c])
      /\ toServer[c][1] = Head(toServer[c])
      /\ Tail(toServer[c]) \in Seq(FromClient(c)) /\ LeftOf(Tail(toServer[c]), toServer[c])
      /\ \A e \in Range(toServer[c]) : e = Head(toServer[c]) \/ e \in Range(Tail(toServer[c]))
  BY <1>1, HeadTaken, LeftOver
<1>4. ASSUME NEW d \in Clients
      PROVE  /\ toServer'[d] \in Seq(FromClient(d)) /\ LeftOf(toServer'[d], toServer[d])
             /\ Range(toServer'[d]) \subseteq Range(toServer[d])
             /\ \A k \in DOMAIN toServer'[d] : toServer'[d][k].type = "NEW_PLAYER" => k = 1
  <2>1. toServer'[d] \in Seq(FromClient(d)) /\ LeftOf(toServer'[d], toServer[d])
    <3>1. CASE d = c
      BY <1>2, <1>3, <3>1
    <3>2. CASE d # c
      BY <1>1, <1>2, <3>2, LeftOver
    <3>. QED  BY <3>1, <3>2
  <2>2. Range(toServer'[d]) \subseteq Range(toServer[d])
    BY <1>1, <2>1, LeftIn
  <2>3. \A k \in DOMAIN toServer[d] : toServer[d][k].type = "NEW_PLAYER" => k = 1
    BY DEF Placed
  <2>4. \A k \in DOMAIN toServer'[d] : toServer'[d][k].type = "NEW_PLAYER" => k = 1
    BY <1>1, <2>1, <2>3, FirstKept
  <2>. QED  BY <2>1, <2>2, <2>4
<1>5. DOMAIN toServer' = Clients
  BY <1>1
<1>. QED  BY <1>2, <1>3, <1>4, <1>5

LEMMA HearsKeeps ==
  ASSUME LobbyInv, NEW c \in Clients, Hears(c)
  PROVE  Typed' /\ Together' /\ Counted'
<1>1. Typed /\ Placed /\ Together /\ Known /\ Counted /\ Server \in Machines
  BY DEF LobbyInv, Machines
<1>2. /\ DOMAIN toServer' = Clients
      /\ \A d \in Clients : /\ toServer'[d] \in Seq(FromClient(d))
                            /\ Range(toServer'[d]) \subseteq Range(toServer[d])
  BY <1>1, TakenFacts DEF Hears
<1>3. Typed'
  BY <1>1, <1>2 DEF Typed, Hears, unitVars
<1>4. Together'
  BY <1>1 DEF Together, InMenu, Hears, unitVars
<1>5. Counted'
  <2>1. /\ InMenu(Server) /\ phase'[Server] \in {"menu", "leaving"}
        /\ UNCHANGED <<game, have, usable, top, ready, dead>>
        /\ \A d \in Clients : \A e \in Range(toClient'[d]) :
             e \in Range(toClient[d]) \/ e.type # "END"
    BY DEF InMenu, Hears, unitVars
  <2>. QED  BY <1>1, <1>2, <2>1, CountedInMenu
<1>. QED  BY <1>3, <1>4, <1>5

(* A new player gets a slot, or is sent away.                              *)
LEMMA NewPlayerKeeps ==
  ASSUME LobbyInv, NEW c \in Clients, InMenu(Server), toServer[c] # <<>>,
         Head(toServer[c]).type = "NEW_PLAYER", NewPlayer(c, Tail(toServer[c])),
         UNCHANGED <<game, phase, edits, unitVars>>
  PROVE  LobbyInv'
<1>1. /\ Typed /\ Placed /\ Together /\ Known /\ Counted /\ Server \in Machines
      /\ Server \notin Clients /\ c \in Machines /\ c # Server
      /\ view \in [Machines -> [Slots -> Slot]] /\ limit \in [Machines -> Limits]
  BY LobbyAssumption DEF LobbyInv, Typed, Machines
<1>2. Msg("UPDATE") \in FromServer /\ Msg("UPDATE").type = "UPDATE"
  BY Said
<1>3. CASE FirstOpen = {}
  <2>1. CutConnection(c, Tail(toServer[c]), toClient) /\ dropped' = TRUE /\ UNCHANGED gameVars
    BY <1>3 DEF NewPlayer
  <2>2. Tail(toServer[c]) \in Seq(FromClient(c)) /\ LeftOf(Tail(toServer[c]), toServer[c])
    <3>1. toServer[c] \in Seq(FromClient(c))
      BY <1>1 DEF Typed
    <3>. QED  BY <3>1, HeadTaken, LeftOver
  <2>3. /\ limit' = limit /\ view' \in [Machines -> [Slots -> Slot]]
        /\ \A m \in Clients : view'[m] = view[m]
        /\ \A i \in Slots, d \in Clients : view'[Server][i].who = d => view[Server][i].who = d
        /\ \A i \in Slots : view'[Server][i].who = Server => view[Server][i].who = Server
    BY <1>1, <2>1 DEF gameVars
  <2>4. \A i, j \in Own(Server)' : i = j
    BY <1>1, <2>3, OwnKept
  <2>5. Msg("UPDATE").type \notin {"DATA", "START", "END"} /\ {} \in SUBSET Clients
    BY <1>2
  <2>. QED  BY <1>2, <2>1, <2>2, <2>3, <2>4, <2>5, KickKeeps
<1>4. CASE FirstOpen # {}
  <2>1. /\ view' = [view EXCEPT ![Server] = [i \in Slots |->
                      IF i \in FirstOpen THEN [view[Server][i] EXCEPT !.who = c] ELSE view[Server][i]]]
        /\ toClient' = Tell(Clients \ {c}, Msg("UPDATE"))
        /\ toServer' = [toServer EXCEPT ![c] = Tail(toServer[c])]
        /\ UNCHANGED <<limit, conn, dropped>>
    BY <1>4 DEF NewPlayer
  <2>2. ASSUME NEW s \in Slot
        PROVE  [s EXCEPT !.who = c] \in Slot /\ [s EXCEPT !.who = c].who = c
    BY <1>1, <2>2 DEF Slot
  <2>3. /\ view' \in [Machines -> [Slots -> Slot]]
        /\ \A m \in Clients : view'[m] = view[m]
        /\ \A i \in Slots : IF i \in FirstOpen THEN view'[Server][i].who = c
                                               ELSE view'[Server][i] = view[Server][i]
    BY <1>1, <2>1, <2>2
  <2>4. /\ DOMAIN toClient' = Clients
        /\ \A d \in Clients :
             /\ toClient'[d] = IF d # c /\ d \in conn THEN Append(toClient[d], Msg("UPDATE"))
                                                      ELSE toClient[d]
             /\ toClient'[d] \in Seq(FromServer)
             /\ Range(toClient'[d]) = IF d # c /\ d \in conn
                                      THEN Range(toClient[d]) \cup {Msg("UPDATE")}
                                      ELSE Range(toClient[d])
    <3>1. Typed /\ Msg("UPDATE") \in FromServer
      BY <1>1, <1>2
    <3>2. toClient' = Tell(Clients \ {c}, Msg("UPDATE"))
      BY <2>1
    <3>. QED  BY <3>1, <3>2, ToldOthers
  <2>5. /\ Head(toServer[c]) \in Range(toServer[c]) /\ toServer[c][1] = Head(toServer[c])
        /\ \A d \in Clients :
             /\ toServer'[d] = IF d = c THEN Tail(toServer[d]) ELSE toServer[d]
             /\ Range(toServer'[d]) \subseteq Range(toServer[d])
             /\ \A k \in DOMAIN toServer'[d] : toServer'[d][k].type = "NEW_PLAYER" => k = 1
        /\ \A d \in Clients : \A e \in Range(toServer[d]) :
             e \in Range(toServer'[d]) \/ (d = c /\ e = Head(toServer[c]))
    BY <1>1, <2>1, TakenFacts
  <2>6. Hears(c)
    <3>1. limit' \in [Machines -> Limits]
      BY <1>1, <2>1
    <3>2. \A d \in Clients : \A e \in Range(toClient'[d]) :
            e \in Range(toClient[d]) \/ e.type \notin {"START", "END"}
      BY <1>2, <2>4
    <3>. QED  BY <2>1, <2>3, <2>4, <3>1, <3>2 DEF Hears
  <2>7. Typed' /\ Together' /\ Counted'
    BY <2>6, HearsKeeps
  <2>8. Placed'
    <3>1. \A i, j \in FirstOpen : i = j
      <4>1. \A i, j \in FirstOpen : i \in Int /\ j \in Int /\ j \notin 1 .. i - 1 /\ i \notin 1 .. j - 1
        BY DEF FirstOpen, Slots
      <4>2. \A i \in FirstOpen : i >= 1
        BY DEF FirstOpen, Slots
      <4>. QED  BY <4>1, <4>2
    <3>2. Asked(c) /\ phase[c] # "away" /\ \A i \in Slots : ~ PutAt(c, i)
      BY <1>1, <2>5 DEF Asked, Placed
    <3>3. ~ Asked(c)'
      <4>1. toServer[c] \in Seq(FromClient(c))
        BY <1>1 DEF Typed
      <4>2. ASSUME NEW k \in DOMAIN toServer'[c], toServer'[c][k].type = "NEW_PLAYER" PROVE FALSE
        <5>1. k = 1
          BY <2>5, <4>2
        <5>2. /\ DOMAIN toServer[c] = 1 .. Len(toServer[c]) /\ Len(toServer[c]) \in Nat
              /\ DOMAIN Tail(toServer[c]) = 1 .. Len(toServer[c]) - 1
              /\ \A j \in 1 .. Len(toServer[c]) - 1 : Tail(toServer[c])[j] = toServer[c][j + 1]
          BY <4>1, HeadTaken, QueueFacts
        <5>3. /\ 1 \in DOMAIN Tail(toServer[c]) /\ Tail(toServer[c])[1].type = "NEW_PLAYER"
          BY <2>1, <1>1, <4>2, <5>1 DEF Typed
        <5>4. /\ 1 \in 1 .. Len(toServer[c]) - 1 /\ 1 + 1 = 2
              /\ 2 \in 1 .. Len(toServer[c])
          BY <5>2, <5>3
        <5>5. 2 \in DOMAIN toServer[c] /\ toServer[c][2].type = "NEW_PLAYER" /\ 2 # 1
          BY <5>2, <5>3, <5>4
        <5>. QED  BY <1>1, <5>5 DEF Placed
      <4>. QED  BY <4>2 DEF Asked, Range
    <3>4. ASSUME NEW d \in Clients, NEW i \in Slots, PutAt(d, i)'
          PROVE  PutAt(d, i) \/ (d = c /\ i \in FirstOpen)
      <4>1. ASSUME NEW m \in Machines, view'[m][i].who = d
            PROVE  PutAt(d, i) \/ (d = c /\ i \in FirstOpen)
        BY <2>3, <4>1 DEF PutAt, Machines
      <4>2. ASSUME NEW b \in Clients, NEW msg \in Range(toClient'[b]), msg.type = "DATA",
                   msg.slots[i].who = d
            PROVE  PutAt(d, i)
        BY <1>2, <2>4, <4>2 DEF PutAt
      <4>3. ASSUME NEW msg \in Range(toServer'[d]), msg.type = "INFO", i \in DOMAIN msg.slots
            PROVE  PutAt(d, i)
        BY <2>5, <4>3 DEF PutAt
      <4>. QED  BY <3>4, <4>1, <4>2, <4>3 DEF PutAt
    <3>5. \A d \in Clients : Asked(d)' => Asked(d)
      BY <2>5 DEF Asked
    <3>6. \A i, j \in Own(Server)' : i = j
      <4>1. \A i \in Slots : view'[Server][i].who = Server => view[Server][i].who = Server
        BY <1>1, <2>3
      <4>. QED  BY <1>1, <4>1, OwnKept
    <3>7. ASSUME NEW d \in Clients
          PROVE  /\ \A i, j \in Slots : PutAt(d, i)' /\ PutAt(d, j)' => i = j
                 /\ phase'[d] = "away" \/ Asked(d)' => \A i \in Slots : ~ PutAt(d, i)'
                 /\ phase'[d] = "away" => ~ Asked(d)'
      BY <1>1, <3>1, <3>2, <3>3, <3>4, <3>5 DEF Placed
    <3>. QED  BY <2>5, <3>6, <3>7 DEF Placed
  <2>9. Known'
    <3>1. ASSUME NEW d \in conn PROVE KnownBy(d)'
      <4>1. KnownBy(d) /\ d \in Clients
        BY <1>1, <3>1 DEF Known, Typed
      <4>2. CASE d # c
        BY <1>2, <2>4, <3>1, <4>1, <4>2 DEF KnownBy
      <4>3. CASE d = c
        <5>1. \A e \in Range(toServer[c]) : e.type = "REQUEST" => e \in Range(toServer'[c])
          BY <2>5
        <5>2. \A i \in Slots : view'[c][i] = view[c][i]
          BY <2>3
        <5>3. \A i \in Slots : view'[Server][i] = view[Server][i] \/ view'[Server][i].who = c
          BY <2>3
        <5>. QED  BY <1>1, <2>1, <2>4, <4>1, <4>3, <5>1, <5>2, <5>3, KnownKept
      <4>. QED  BY <4>2, <4>3
    <3>. QED  BY <2>1, <3>1 DEF Known
  <2>. QED  BY <2>7, <2>8, <2>9 DEF LobbyInv
<1>. QED  BY <1>3, <1>4

(* Who asks for the game will see it.                                      *)
LEMMA SeenFacts ==
  ASSUME Typed
  PROVE  /\ Seen(view[Server]) \in [Slots -> Slot]
         /\ \A i \in Slots, d \in Clients : /\ d \in {view[Server][i].who, Seen(view[Server])[i].who} =>
                                               Seen(view[Server])[i] = view[Server][i]
<1>1. view[Server] \in [Slots -> Slot] /\ Clients \cap {"ai", "open", "closed"} = {}
  BY LobbyAssumption DEF Typed, Machines, Nobody
<1>2. ASSUME NEW s \in Slot
      PROVE  [s EXCEPT !.who = "open", !.named = FALSE] \in Slot
             /\ [s EXCEPT !.who = "open", !.named = FALSE].who = "open"
  BY <1>2 DEF Slot, Nobody
<1>3. \A i \in Slots : view[Server][i] \in Slot
  BY <1>1
<1>4. ASSUME NEW i \in Slots
      PROVE  /\ Seen(view[Server])[i] \in Slot
             /\ \A d \in Clients : d \in {view[Server][i].who, Seen(view[Server])[i].who} =>
                                    Seen(view[Server])[i] = view[Server][i]
  <2>1. CASE LooksOpen(view[Server][i])
    <3>1. Seen(view[Server])[i] = [view[Server][i] EXCEPT !.who = "open", !.named = FALSE]
      BY <2>1 DEF Seen
    <3>2. Seen(view[Server])[i] \in Slot /\ Seen(view[Server])[i].who = "open"
      BY <1>2, <1>3, <3>1
    <3>3. view[Server][i].who \in {"ai", "open", "closed"}
      BY <2>1 DEF LooksOpen
    <3>. QED  BY <1>1, <3>2, <3>3
  <2>2. CASE ~ LooksOpen(view[Server][i])
    BY <1>3, <2>2 DEF Seen
  <2>. QED  BY <2>1, <2>2
<1>. QED  BY <1>4 DEF Seen

LEMMA SeesLast ==
  ASSUME Typed, NEW c \in Clients, NEW data \in FromServer, data.type = "DATA",
         toClient'[c] = Append(toClient[c], data), data.slots = Seen(view'[Server])
  PROVE  KnownBy(c)'
<1>1. toClient[c] \in Seq(FromServer)
  BY DEF Typed
<1>2. /\ Len(toClient[c]) \in Nat /\ DOMAIN toClient'[c] = 1 .. Len(toClient[c]) + 1
      /\ toClient'[c][Len(toClient[c]) + 1] = data
  BY <1>1, Appended, QueueFacts
<1>3. ASSUME NEW i \in Slots, NEW k \in DOMAIN toClient'[c],
             \A j \in DOMAIN toClient'[c] : j > k => toClient'[c][j].type # "DATA"
      PROVE  toClient'[c][k].slots[i] = Seen(view'[Server])[i]
  <2>1. k = Len(toClient[c]) + 1
    <3>1. Len(toClient[c]) + 1 \in DOMAIN toClient'[c] /\ k \in 1 .. Len(toClient[c]) + 1
      BY <1>2
    <3>2. ~ Len(toClient[c]) + 1 > k
      BY <1>2, <1>3, <3>1
    <3>. QED  BY <1>2, <3>1, <3>2
  <2>. QED  BY <1>2, <2>1
<1>4. ~ \A k \in DOMAIN toClient'[c] : toClient'[c][k].type # "DATA"
  <2>1. Len(toClient[c]) + 1 \in DOMAIN toClient'[c]
    BY <1>2
  <2>. QED  BY <1>2, <2>1
<1>. QED  BY <1>3, <1>4 DEF KnownBy, WillSee

LEMMA RequestKeeps ==
  ASSUME LobbyInv, NEW c \in Clients, InMenu(Server), toServer[c] # <<>>,
         Request(c, Tail(toServer[c])), UNCHANGED <<game, phase, edits, unitVars>>
  PROVE  LobbyInv'
<1>1. /\ Typed /\ Placed /\ Together /\ Known /\ Counted /\ Server \in Machines
      /\ view \in [Machines -> [Slots -> Slot]] /\ limit \in [Machines -> Limits]
  BY DEF LobbyInv, Typed, Machines
<1> DEFINE new == [type |-> "LIMIT", limit |-> limit[Server]]
           told == Tell(Clients \ {c}, new)
           data == [type |-> "DATA", limit |-> limit[Server], slots |-> Seen(view[Server])]
<1>2. /\ toServer' = [toServer EXCEPT ![c] = Tail(toServer[c])]
      /\ toClient' = IF c \in conn THEN [told EXCEPT ![c] = Append(@, data)] ELSE told
      /\ UNCHANGED <<gameVars, conn, dropped>>
  BY DEF Request
<1>3. /\ new \in FromServer /\ new.type = "LIMIT"
      /\ data \in FromServer /\ data.type = "DATA" /\ data.slots = Seen(view[Server])
      /\ \A i \in Slots, d \in Clients : data.slots[i].who = d => view[Server][i].who = d
  <2>1. limit[Server] \in Limits
    BY <1>1
  <2>. QED  BY <1>1, <2>1, SeenFacts DEF FromServer
<1> HIDE DEF new, data
<1>4. /\ DOMAIN told = Clients
      /\ \A d \in Clients :
           /\ told[d] = IF d # c /\ d \in conn THEN Append(toClient[d], new) ELSE toClient[d]
           /\ told[d] \in Seq(FromServer)
           /\ Range(told[d]) = IF d # c /\ d \in conn THEN Range(toClient[d]) \cup {new}
                                                      ELSE Range(toClient[d])
  BY <1>1, <1>3, ToldOthers
<1> HIDE DEF told
<1>5. /\ DOMAIN toClient' = Clients
      /\ \A d \in Clients : IF d = c /\ c \in conn THEN toClient'[d] = Append(told[d], data)
                                                   ELSE toClient'[d] = told[d]
  BY <1>2, <1>4
<1>6. ASSUME NEW d \in Clients
      PROVE  /\ toClient'[d] = IF d \notin conn THEN toClient[d]
                               ELSE Append(toClient[d], IF d = c THEN data ELSE new)
             /\ toClient'[d] \in Seq(FromServer)
             /\ \A e \in Range(toClient'[d]) : e \in Range(toClient[d]) \/ e \in {data, new}
  <2>1. CASE d = c /\ c \in conn
    <3>1. told[d] = toClient[d] /\ told[d] \in Seq(FromServer)
      BY <1>4, <2>1
    <3>2. /\ Append(toClient[d], data) \in Seq(FromServer)
          /\ Range(Append(toClient[d], data)) = Range(toClient[d]) \cup {data}
      BY <1>3, <3>1, Appended
    <3>. QED  BY <1>5, <2>1, <3>1, <3>2
  <2>2. CASE ~ (d = c /\ c \in conn)
    BY <1>4, <1>5, <2>2
  <2>. QED  BY <2>1, <2>2
<1>7. Hears(c)
  <2>1. limit' = limit /\ view' = view /\ limit \in [Machines -> Limits]
        /\ view \in [Machines -> [Slots -> Slot]]
    BY <1>1, <1>2 DEF gameVars, Typed
  <2>2. \A e \in {data, new} : e.type \notin {"START", "END"}
    BY <1>3
  <2>3. \A d \in Clients : \A e \in Range(toClient'[d]) :
          e \in Range(toClient[d]) \/ e.type \notin {"START", "END"}
    BY <1>6, <2>2
  <2>. QED  BY <1>1, <1>2, <1>5, <1>6, <2>1, <2>3 DEF Hears
<1>8. Typed' /\ Together' /\ Counted'
  BY <1>7, HearsKeeps
<1>9. /\ \A d \in Clients :
           /\ Range(toServer'[d]) \subseteq Range(toServer[d])
           /\ d # c => toServer'[d] = toServer[d]
           /\ \A k \in DOMAIN toServer'[d] : toServer'[d][k].type = "NEW_PLAYER" => k = 1
  BY <1>1, <1>2, TakenFacts
<1>10. Placed'
  <2>1. \A m \in Machines, i \in Slots, d \in Clients : view'[m][i].who = d => PutAt(d, i)
    BY <1>2 DEF PutAt, gameVars
  <2>2. \A b \in Clients : \A e \in Range(toClient'[b]) :
          \/ e \in Range(toClient[b])
          \/ e.type = "DATA" => \A d \in Clients, i \in Slots : e.slots[i].who = d => PutAt(d, i)
    BY <1>1, <1>3, <1>6 DEF PutAt
  <2>3. \A i, j \in Own(Server)' : i = j
    BY <1>1, <1>2 DEF Placed, Own, gameVars
  <2>. QED  BY <1>1, <1>9, <2>1, <2>2, <2>3, PlacedKept
<1>11. Known'
  <2>1. ASSUME NEW d \in conn PROVE KnownBy(d)'
    <3>1. KnownBy(d) /\ d \in Clients
      BY <1>1, <2>1 DEF Known, Typed
    <3>2. CASE d = c
      <4>1. toClient'[c] = Append(toClient[c], data) /\ data.slots = Seen(view'[Server])
        BY <1>2, <1>3, <1>6, <2>1, <3>2 DEF gameVars
      <4>. QED  BY <1>1, <1>3, <3>2, <4>1, SeesLast
    <3>3. CASE d # c
      <4>1. toClient'[d] = Append(toClient[d], new) /\ new.type # "DATA"
        BY <1>3, <1>6, <2>1, <3>1, <3>3
      <4>2. /\ \A e \in Range(toServer[d]) : e.type = "REQUEST" => e \in Range(toServer'[d])
            /\ view' = view /\ dropped' = dropped
        BY <1>2, <1>9, <3>1, <3>3 DEF gameVars
      <4>. QED  BY <1>1, <1>3, <3>1, <4>1, <4>2, KnownKept
    <3>. QED  BY <3>2, <3>3
  <2>. QED  BY <1>2, <2>1 DEF Known
<1>. QED  BY <1>8, <1>10, <1>11 DEF LobbyInv

LEMMA UpdateKeeps ==
  ASSUME LobbyInv, NEW c \in Clients, InMenu(Server), toServer[c] # <<>>,
         Head(toServer[c]).type = "UPDATE",
         Update(c, Tail(toServer[c])), UNCHANGED <<game, phase, edits, unitVars>>
  PROVE  LobbyInv'
<1>1. /\ Typed /\ Placed /\ Together /\ Known /\ Counted /\ Server \in Machines
      /\ view \in [Machines -> [Slots -> Slot]] /\ limit \in [Machines -> Limits]
  BY DEF LobbyInv, Typed, Machines
<1>2. /\ toServer' = [toServer EXCEPT ![c] = Tail(toServer[c])]
      /\ toClient' = Tell(Clients, Msg("REQUEST"))
      /\ UNCHANGED <<gameVars, conn, dropped>>
      /\ Msg("REQUEST") \in FromServer /\ Msg("REQUEST").type = "REQUEST"
  BY Said DEF Update
<1>3. /\ DOMAIN toClient' = Clients
      /\ \A d \in Clients :
           /\ toClient'[d] = IF d \in conn THEN Append(toClient[d], Msg("REQUEST")) ELSE toClient[d]
           /\ toClient'[d] \in Seq(FromServer)
           /\ Range(toClient'[d]) = IF d \in conn THEN Range(toClient[d]) \cup {Msg("REQUEST")}
                                                  ELSE Range(toClient[d])
  BY <1>1, <1>2, ToldAll
<1>4. /\ \A d \in Clients :
           /\ Range(toServer'[d]) \subseteq Range(toServer[d])
           /\ \A k \in DOMAIN toServer'[d] : toServer'[d][k].type = "NEW_PLAYER" => k = 1
      /\ \A d \in Clients : \A e \in Range(toServer[d]) :
           e \in Range(toServer'[d]) \/ (d = c /\ e = Head(toServer[c]))
  BY <1>1, <1>2, TakenFacts
<1>5. \A d \in Clients : \A e \in Range(toClient'[d]) :
        e \in Range(toClient[d]) \/ e.type \notin {"START", "END", "DATA"}
  BY <1>2, <1>3
<1>6. Hears(c)
  BY <1>1, <1>2, <1>3, <1>5 DEF Hears, gameVars
<1>7. Typed' /\ Together' /\ Counted'
  BY <1>6, HearsKeeps
<1>8. Placed'
  <2>1. \A m \in Machines, i \in Slots, d \in Clients : view'[m][i].who = d => PutAt(d, i)
    BY <1>2 DEF PutAt, gameVars
  <2>2. \A i, j \in Own(Server)' : i = j
    BY <1>1, <1>2 DEF Placed, Own, gameVars
  <2>. QED  BY <1>1, <1>4, <1>5, <2>1, <2>2, PlacedKept
<1>9. Known'
  <2>1. ASSUME NEW d \in conn PROVE KnownBy(d)'
    <3>1. KnownBy(d) /\ d \in Clients
      BY <1>1, <2>1 DEF Known, Typed
    <3>2. toClient'[d] = Append(toClient[d], Msg("REQUEST")) /\ Msg("REQUEST").type # "DATA"
      BY <1>2, <1>3, <2>1, <3>1
    <3>3. /\ \A e \in Range(toServer[d]) : e.type = "REQUEST" => e \in Range(toServer'[d])
          /\ view' = view /\ dropped' = dropped
      BY <1>2, <1>4, <3>1 DEF gameVars
    <3>. QED  BY <1>1, <1>2, <3>1, <3>2, <3>3, KnownKept
  <2>. QED  BY <1>2, <2>1 DEF Known
<1>. QED  BY <1>7, <1>8, <1>9 DEF LobbyInv

LEMMA InfoKeeps ==
  ASSUME LobbyInv, NEW c \in Clients, InMenu(Server), toServer[c] # <<>>,
         Head(toServer[c]).type = "INFO",
         Info(c, Tail(toServer[c]), Head(toServer[c])), UNCHANGED <<game, phase, edits, unitVars>>
  PROVE  LobbyInv'
<1>1. /\ Typed /\ Placed /\ Together /\ Known /\ Counted /\ Server \in Machines
      /\ Server \notin Clients
      /\ view \in [Machines -> [Slots -> Slot]] /\ limit \in [Machines -> Limits]
  BY LobbyAssumption DEF LobbyInv, Typed, Machines
<1> DEFINE msg == Head(toServer[c])
<1>2. /\ view' = [view EXCEPT ![Server] = [i \in Slots |->
                    IF i \in DOMAIN msg.slots THEN msg.slots[i] ELSE view[Server][i]]]
      /\ limit' = [limit EXCEPT ![Server] = msg.limit]
      /\ toClient' = IF DOMAIN msg.slots = {} THEN toClient
                     ELSE Tell(Clients \ {c}, Msg("UPDATE"))
      /\ toServer' = [toServer EXCEPT ![c] = Tail(toServer[c])]
      /\ UNCHANGED <<conn, dropped>>
      /\ Msg("UPDATE") \in FromServer /\ Msg("UPDATE").type = "UPDATE"
  BY Said DEF Info
<1>3. /\ msg \in FromClient(c) /\ msg \in Range(toServer[c]) /\ msg.type = "INFO"
      /\ \A d \in Clients :
           /\ Range(toServer'[d]) \subseteq Range(toServer[d])
           /\ \A k \in DOMAIN toServer'[d] : toServer'[d][k].type = "NEW_PLAYER" => k = 1
      /\ \A d \in Clients : \A e \in Range(toServer[d]) :
           e \in Range(toServer'[d]) \/ (d = c /\ e = msg)
  BY <1>1, <1>2, TakenFacts
<1> HIDE DEF msg
<1>4. /\ msg.limit \in Limits
      /\ \E D \in SUBSET Slots : msg.slots \in [D -> {s \in Slot : s.who = c}]
  BY <1>3 DEF FromClient, Msg
<1>5. /\ DOMAIN msg.slots \subseteq Slots
      /\ \A i \in DOMAIN msg.slots : msg.slots[i] \in Slot /\ msg.slots[i].who = c
  BY <1>4
<1>6. /\ limit' \in [Machines -> Limits] /\ view' \in [Machines -> [Slots -> Slot]]
      /\ \A m \in Clients : view'[m] = view[m]
      /\ \A i \in Slots : IF i \in DOMAIN msg.slots THEN view'[Server][i].who = c
                                                    ELSE view'[Server][i] = view[Server][i]
  BY <1>1, <1>2, <1>4, <1>5
<1>7. /\ DOMAIN toClient' = Clients
      /\ \A d \in Clients :
           /\ toClient'[d] = IF DOMAIN msg.slots # {} /\ d # c /\ d \in conn
                             THEN Append(toClient[d], Msg("UPDATE")) ELSE toClient[d]
           /\ toClient'[d] \in Seq(FromServer)
           /\ Range(toClient'[d]) = IF DOMAIN msg.slots # {} /\ d # c /\ d \in conn
                                    THEN Range(toClient[d]) \cup {Msg("UPDATE")}
                                    ELSE Range(toClient[d])
  <2>1. CASE DOMAIN msg.slots = {}
    BY <1>1, <1>2, <2>1 DEF Typed
  <2>2. CASE DOMAIN msg.slots # {}
    <3>1. /\ DOMAIN Tell(Clients \ {c}, Msg("UPDATE")) = Clients
          /\ \A d \in Clients :
               /\ Tell(Clients \ {c}, Msg("UPDATE"))[d]
                    = IF d # c /\ d \in conn THEN Append(toClient[d], Msg("UPDATE")) ELSE toClient[d]
               /\ Tell(Clients \ {c}, Msg("UPDATE"))[d] \in Seq(FromServer)
               /\ Range(Tell(Clients \ {c}, Msg("UPDATE"))[d])
                    = IF d # c /\ d \in conn THEN Range(toClient[d]) \cup {Msg("UPDATE")}
                                             ELSE Range(toClient[d])
      BY <1>1, <1>2, ToldOthers
    <3>. QED  BY <1>2, <2>2, <3>1
  <2>. QED  BY <2>1, <2>2
<1>8. \A d \in Clients : \A e \in Range(toClient'[d]) :
        e \in Range(toClient[d]) \/ e.type \notin {"START", "END", "DATA"}
  BY <1>2, <1>7
<1>9. Hears(c)
  BY <1>1, <1>2, <1>6, <1>7, <1>8 DEF Hears
<1>10. Typed' /\ Together' /\ Counted'
  BY <1>9, HearsKeeps
<1>11. Placed'
  <2>1. \A i \in DOMAIN msg.slots : PutAt(c, i)
    BY <1>3 DEF PutAt
  <2>2. \A m \in Machines, i \in Slots, d \in Clients : view'[m][i].who = d => PutAt(d, i)
    <3>1. ASSUME NEW m \in Machines, NEW i \in Slots, NEW d \in Clients, view'[m][i].who = d
          PROVE  PutAt(d, i)
      <4>1. CASE m = Server /\ i \in DOMAIN msg.slots
        BY <1>6, <2>1, <3>1, <4>1
      <4>2. CASE ~ (m = Server /\ i \in DOMAIN msg.slots)
        BY <1>6, <3>1, <4>2 DEF PutAt, Machines
      <4>. QED  BY <4>1, <4>2
    <3>. QED  BY <3>1
  <2>3. \A i, j \in Own(Server)' : i = j
    <3>1. \A i \in Slots : view'[Server][i].who = Server => view[Server][i].who = Server
      BY <1>1, <1>6
    <3>. QED  BY <1>1, <3>1, OwnKept
  <2>4. \A d \in Clients : phase'[d] = "away" => phase[d] = "away"
    OBVIOUS
  <2>. QED  BY <1>1, <1>3, <1>8, <2>2, <2>3, <2>4, PlacedKept
<1>12. Known'
  <2>1. ASSUME NEW d \in conn PROVE KnownBy(d)'
    <3>1. KnownBy(d) /\ d \in Clients
      BY <1>1, <2>1 DEF Known, Typed
    <3>2. CASE d # c /\ DOMAIN msg.slots # {}
      BY <1>2, <1>7, <2>1, <3>1, <3>2 DEF KnownBy
    <3>3. CASE ~ (d # c /\ DOMAIN msg.slots # {})
      <4>1. toClient'[d] = toClient[d]
        BY <1>7, <3>1, <3>3
      <4>2. \A e \in Range(toServer[d]) : e.type = "REQUEST" => e \in Range(toServer'[d])
        BY <1>3, <3>1
      <4>3. \A i \in Slots : view'[d][i] = view[d][i]
        BY <1>6, <3>1
      <4>4. \A i \in Slots : view'[Server][i] = view[Server][i] \/ view'[Server][i].who = d
        BY <1>6, <3>3
      <4>5. dropped => dropped'
        BY <1>2
      <4>. QED  BY <1>1, <3>1, <4>1, <4>2, <4>3, <4>4, <4>5, KnownKept
    <3>. QED  BY <3>2, <3>3
  <2>. QED  BY <1>2, <2>1 DEF Known
<1>. QED  BY <1>10, <1>11, <1>12 DEF LobbyInv

LEMMA PlayerLeftKeeps ==
  ASSUME LobbyInv, NEW c \in Clients, InMenu(Server), toServer[c] # <<>>,
         PlayerLeft(c, Tail(toServer[c])), UNCHANGED <<game, phase, edits, unitVars>>
  PROVE  LobbyInv'
<1>1. /\ Typed /\ Placed /\ Server \in Machines /\ Server \notin Clients
      /\ view \in [Machines -> [Slots -> Slot]] /\ toServer[c] \in Seq(FromClient(c))
  BY LobbyAssumption DEF LobbyInv, Typed, Machines
<1> DEFINE told == Tell(Clients \ {c}, Msg("REQUEST"))
           q == Tail(toServer[c])
<1>2. /\ CutConnection(c, q, told) /\ dropped' = TRUE /\ UNCHANGED limit
      /\ view' = [view EXCEPT ![Server] = [i \in Slots |->
                    IF view[Server][i].who = c THEN [view[Server][i] EXCEPT !.who = "open"]
                                               ELSE view[Server][i]]]
      /\ Msg("REQUEST") \in FromServer /\ Msg("REQUEST").type \notin {"DATA", "START", "END"}
  BY Said DEF PlayerLeft
<1>3. "open" \notin Machines /\ "open" \in Nobody
  BY LobbyAssumption DEF Nobody
<1>4. \A s \in Slot : [s EXCEPT !.who = "open"] \in Slot /\ [s EXCEPT !.who = "open"].who = "open"
  BY <1>3 DEF Slot
<1>5. /\ view' \in [Machines -> [Slots -> Slot]]
      /\ \A m \in Clients : view'[m] = view[m]
      /\ \A i \in Slots : view'[Server][i].who \in {"open", view[Server][i].who}
  BY <1>1, <1>2, <1>4
<1>6. \A i, j \in Own(Server)' : i = j
  BY <1>1, <1>3, <1>5, OwnKept
<1>7. \A i \in Slots, d \in Clients : view'[Server][i].who = d => view[Server][i].who = d
  BY <1>3, <1>5 DEF Machines
<1>8. q \in Seq(FromClient(c)) /\ LeftOf(q, toServer[c])
  BY <1>1, HeadTaken, LeftOver
<1>9. Clients \ {c} \in SUBSET Clients /\ told = Tell(Clients \ {c}, Msg("REQUEST"))
  OBVIOUS
<1> HIDE DEF told, q
<1>. QED  BY <1>2, <1>5, <1>6, <1>7, <1>8, <1>9, KickKeeps

LEMMA ServerHearsKeeps ==
  ASSUME LobbyInv, NEW c \in Clients, ServerHears(c)
  PROVE  LobbyInv'
BY NewPlayerKeeps, RequestKeeps, UpdateKeeps, InfoKeeps, PlayerLeftKeeps DEF ServerHears

-----------------------------------------------------------------------------
(* A client's menu: what it takes it sees, and still waits for the rest.   *)
LEMMA TailSees ==
  ASSUME NEW c \in Clients, toClient[c] \in Seq(FromServer), toClient[c] # <<>>,
         NEW i \in Slots, NEW slot, WillSee(c, i, slot), toClient'[c] = Tail(toClient[c]),
         view'[c][i] = IF Head(toClient[c]).type = "DATA" THEN Head(toClient[c]).slots[i]
                                                          ELSE view[c][i]
  PROVE  /\ \A k \in DOMAIN toClient'[c] :
              /\ toClient'[c][k].type = "DATA"
              /\ \A j \in DOMAIN toClient'[c] : j > k => toClient'[c][j].type # "DATA"
              => toClient'[c][k].slots[i] = slot
         /\ (\A k \in DOMAIN toClient'[c] : toClient'[c][k].type # "DATA") => view'[c][i] = slot
<1> DEFINE q == toClient[c]
<1>1. /\ DOMAIN q = 1 .. Len(q) /\ Len(q) \in Nat /\ Len(q) >= 1 /\ 1 \in DOMAIN q
      /\ Head(q) = q[1] /\ DOMAIN Tail(q) = 1 .. Len(q) - 1
      /\ \A k \in 1 .. Len(q) - 1 : Tail(q)[k] = q[k + 1]
  BY HeadTaken, QueueFacts
<1>2. /\ \A k \in DOMAIN q : /\ q[k].type = "DATA"
                             /\ \A j \in DOMAIN q : j > k => q[j].type # "DATA"
                             => q[k].slots[i] = slot
      /\ (\A k \in DOMAIN q : q[k].type # "DATA") => view[c][i] = slot
  BY DEF WillSee
<1>3. toClient'[c] = Tail(q)
  OBVIOUS
<1> HIDE DEF q
<1>4. \A k \in 1 .. Len(q) - 1 : k + 1 \in DOMAIN q /\ k \in Int
  BY <1>1
<1>5. \A j \in DOMAIN q : j \in Int /\ (j = 1 \/ (j - 1 \in 1 .. Len(q) - 1 /\ (j - 1) + 1 = j))
  BY <1>1
<1>6. ASSUME NEW k \in DOMAIN Tail(q), Tail(q)[k].type = "DATA",
             \A j \in DOMAIN Tail(q) : j > k => Tail(q)[j].type # "DATA"
      PROVE  Tail(q)[k].slots[i] = slot
  <2>1. k \in 1 .. Len(q) - 1 /\ k + 1 \in DOMAIN q /\ Tail(q)[k] = q[k + 1] /\ k \in Int /\ k >= 1
    BY <1>1, <1>4
  <2>2. ASSUME NEW j \in DOMAIN q, j > k + 1 PROVE q[j].type # "DATA"
    <3>1. j # 1 /\ j \in Int
      BY <1>5, <2>1, <2>2
    <3>2. j - 1 \in 1 .. Len(q) - 1 /\ (j - 1) + 1 = j /\ j - 1 > k
      BY <1>5, <2>1, <2>2, <3>1
    <3>3. Tail(q)[j - 1] = q[j]
      BY <1>1, <3>2
    <3>. QED  BY <1>1, <1>6, <3>2, <3>3
  <2>. QED  BY <1>2, <1>6, <2>1, <2>2
<1>7. ASSUME \A k \in DOMAIN Tail(q) : Tail(q)[k].type # "DATA" PROVE view'[c][i] = slot
  <2>1. \A j \in DOMAIN q : j # 1 => q[j].type # "DATA"
    <3>1. ASSUME NEW j \in DOMAIN q, j # 1 PROVE q[j].type # "DATA"
      <4>1. j - 1 \in 1 .. Len(q) - 1 /\ (j - 1) + 1 = j
        BY <1>5, <3>1
      <4>2. Tail(q)[j - 1] = q[j]
        BY <1>1, <4>1
      <4>. QED  BY <1>1, <1>7, <4>1, <4>2
    <3>. QED  BY <3>1
  <2>2. view'[c][i] = IF q[1].type = "DATA" THEN q[1].slots[i] ELSE view[c][i]
    BY <1>1 DEF q
  <2>3. CASE q[1].type = "DATA"
    <3>1. \A j \in DOMAIN q : j > 1 => q[j].type # "DATA"
      BY <2>1
    <3>. QED  BY <1>1, <1>2, <2>2, <2>3, <3>1
  <2>4. CASE q[1].type # "DATA"
    BY <1>2, <2>1, <2>2, <2>4
  <2>. QED  BY <2>3, <2>4
<1>. QED  BY <1>3, <1>6, <1>7

LEMMA OwnDataFacts ==
  ASSUME Typed, NEW c \in Clients
  PROVE  /\ OwnData(c) \in FromClient(c) /\ OwnData(c).type = "INFO"
         /\ \A i \in DOMAIN OwnData(c).slots : PutAt(c, i)
<1>1. /\ c \in Machines /\ view[c] \in [Slots -> Slot] /\ limit[c] \in Limits
      /\ Own(c) \in SUBSET Slots /\ \A i \in Own(c) : view[c][i].who = c /\ i \in Slots
  BY DEF Typed, Machines, Own
<1> DEFINE slots == [i \in Own(c) |-> view[c][i]]
<1>2. slots \in [Own(c) -> {s \in Slot : s.who = c}]
  BY <1>1
<1>3. slots \in UNION {[D -> {s \in Slot : s.who = c}] : D \in SUBSET Slots}
  BY <1>1, <1>2
<1>4. DOMAIN slots = Own(c)
  OBVIOUS
<1> HIDE DEF slots
<1>5. OwnData(c) = [type |-> "INFO", limit |-> limit[c], slots |-> slots]
  BY DEF OwnData, slots
<1>6. OwnData(c) \in [type : {"INFO"}, limit : Limits,
        slots : UNION {[D -> {s \in Slot : s.who = c}] : D \in SUBSET Slots}]
  BY <1>1, <1>3, <1>5
<1>7. OwnData(c) \in FromClient(c) /\ OwnData(c).type = "INFO"
  BY <1>5, <1>6 DEF FromClient
<1>8. \A i \in DOMAIN OwnData(c).slots : PutAt(c, i)
  BY <1>1, <1>4, <1>5 DEF PutAt
<1>. QED  BY <1>7, <1>8

LEMMA ClientHearsKeeps ==
  ASSUME LobbyInv, NEW c \in Clients, ClientHears(c)
  PROVE  LobbyInv'
<1> DEFINE msg == Head(toClient[c])
           said == IF msg.type = "UPDATE" THEN Msg("REQUEST") ELSE OwnData(c)
<1>1. /\ Typed /\ Placed /\ Together /\ Known /\ Counted /\ Server \in Machines
      /\ Server \notin Clients /\ c \in Machines /\ c # Server
      /\ view \in [Machines -> [Slots -> Slot]] /\ limit \in [Machines -> Limits]
      /\ toClient[c] \in Seq(FromServer)
      /\ phase \in [Machines -> {"away", "menu", "leaving", "load", "wait", "battle", "gone"}]
  BY LobbyAssumption DEF LobbyInv, Typed, Machines
<1>2. /\ InMenu(c) /\ toClient[c] # <<>>
      /\ toClient' = [toClient EXCEPT ![c] = Tail(toClient[c])]
      /\ \/ /\ msg.type \in {"UPDATE", "REQUEST"} /\ Ask(c, said) /\ UNCHANGED <<phase, gameVars>>
         \/ /\ msg.type = "LIMIT" /\ limit' = [limit EXCEPT ![c] = msg.limit]
            /\ UNCHANGED <<phase, view, toServer>>
         \/ /\ msg.type = "DATA" /\ limit' = [limit EXCEPT ![c] = msg.limit]
            /\ view' = [view EXCEPT ![c] = msg.slots]
            /\ UNCHANGED <<phase, toServer>>
         \/ /\ msg.type = "START" /\ phase' = [phase EXCEPT ![c] = "leaving"]
            /\ UNCHANGED <<gameVars, toServer>>
      /\ UNCHANGED <<game, edits, conn, dropped, unitVars>>
  BY DEF ClientHears
<1>3. c \in conn
  BY <1>1, <1>2 DEF Together
<1>4. /\ msg \in FromServer /\ msg \in Range(toClient[c])
      /\ Tail(toClient[c]) \in Seq(FromServer) /\ Range(Tail(toClient[c])) \subseteq Range(toClient[c])
      /\ \A e \in Range(toClient[c]) : e = msg \/ e \in Range(Tail(toClient[c]))
  BY <1>1, <1>2, HeadTaken
<1>5. /\ DOMAIN toClient' = Clients
      /\ \A d \in Clients :
           /\ toClient'[d] = IF d = c THEN Tail(toClient[c]) ELSE toClient[d]
           /\ toClient'[d] \in Seq(FromServer)
           /\ Range(toClient'[d]) \subseteq Range(toClient[d])
  BY <1>1, <1>2, <1>4 DEF Typed
<1>6. /\ said \in FromClient(c) /\ said.type \notin {"NEW_PLAYER", "READY"}
      /\ said.type = "INFO" => \A i \in DOMAIN said.slots : PutAt(c, i)
      /\ msg.type = "UPDATE" => said.type = "REQUEST"
  BY <1>1, Said, OwnDataFacts
<1> HIDE DEF msg, said
<1>7. /\ DOMAIN toServer' = Clients
      /\ \A d \in Clients :
           /\ toServer'[d] = toServer[d] \/ (d = c /\ toServer'[d] = Append(toServer[d], said))
           /\ toServer'[d] \in Seq(FromClient(d))
           /\ Range(toServer[d]) \subseteq Range(toServer'[d])
           /\ \A e \in Range(toServer'[d]) : e \in Range(toServer[d]) \/ (d = c /\ e = said)
      /\ msg.type = "UPDATE" => said \in Range(toServer'[c])
  <2>1. CASE UNCHANGED toServer /\ msg.type # "UPDATE"
    BY <1>1, <2>1 DEF Typed
  <2>2. CASE Ask(c, said)
    <3>1. /\ DOMAIN toServer' = Clients
          /\ \A d \in Clients :
               /\ toServer'[d] = IF d = c /\ c \in conn THEN Append(toServer[d], said) ELSE toServer[d]
               /\ toServer'[d] \in Seq(FromClient(d))
               /\ Range(toServer'[d]) = IF d = c /\ c \in conn THEN Range(toServer[d]) \cup {said}
                                                               ELSE Range(toServer[d])
      BY <1>1, <1>6, <2>2, AskFacts
    <3>. QED  BY <1>3, <3>1
  <2>. QED  BY <1>2, <2>1, <2>2
<1>8. /\ view' \in [Machines -> [Slots -> Slot]] /\ limit' \in [Machines -> Limits]
      /\ \A m \in Machines : m # c => view'[m] = view[m]
      /\ \A i \in Slots : view'[c][i] = IF msg.type = "DATA" THEN msg.slots[i] ELSE view[c][i]
  <2>1. CASE msg.type = "DATA"
    <3>1. msg.limit \in Limits /\ msg.slots \in [Slots -> Slot]
      BY <1>4, <2>1 DEF FromServer, Msg
    <3>. QED  BY <1>1, <1>2, <2>1, <3>1
  <2>2. CASE msg.type # "DATA"
    <3>1. view' = view
      BY <1>2, <2>2 DEF gameVars
    <3>2. msg.type = "LIMIT" => msg.limit \in Limits
      BY <1>4 DEF FromServer, Msg
    <3>. QED  BY <1>1, <1>2, <2>2, <3>1, <3>2 DEF gameVars
  <2>. QED  BY <2>1, <2>2
<1>9. /\ phase' \in [Machines -> {"away", "menu", "leaving", "load", "wait", "battle", "gone"}]
      /\ \A m \in Machines : \/ phase'[m] = phase[m]
                             \/ m = c /\ msg.type = "START" /\ phase'[m] = "leaving"
  BY <1>1, <1>2
<1>10. Typed'
  BY <1>1, <1>2, <1>5, <1>7, <1>8, <1>9 DEF Typed, unitVars
<1>11. Placed'
  <2>1. \A d \in Clients : phase'[d] = "away" => phase[d] = "away"
    BY <1>9 DEF Machines
  <2>2. \A m \in Machines, i \in Slots, d \in Clients : view'[m][i].who = d => PutAt(d, i)
    BY <1>4, <1>8 DEF PutAt
  <2>3. \A d \in Clients : \A e \in Range(toServer'[d]) :
          \/ e \in Range(toServer[d])
          \/ /\ e.type # "NEW_PLAYER"
             /\ e.type = "INFO" => \A i \in DOMAIN e.slots : PutAt(d, i)
    BY <1>6, <1>7
  <2>4. ASSUME NEW d \in Clients
        PROVE  \A k \in DOMAIN toServer'[d] : toServer'[d][k].type = "NEW_PLAYER" => k = 1
    <3>1. /\ toServer[d] \in Seq(FromClient(d)) /\ toServer'[d] \in Seq(FromClient(d))
          /\ LeftOf(toServer[d], toServer[d])
      BY <1>1, <1>7, LeftOver DEF Typed
    <3>2. \A k \in DOMAIN toServer[d] : toServer[d][k].type = "NEW_PLAYER" => k = 1
      BY <1>1 DEF Placed
    <3>3. \/ LeftOf(toServer'[d], toServer[d])
          \/ \E e \in FromClient(d) :
               e.type # "NEW_PLAYER" /\ toServer'[d] = Append(toServer[d], e)
      BY <1>6, <1>7, <3>1
    <3>. QED  BY <3>1, <3>2, <3>3, FirstKept
  <2>5. \A i, j \in Own(Server)' : i = j
    BY <1>1, <1>8 DEF Placed, Own
  <2>. QED  BY <1>1, <1>5, <2>1, <2>2, <2>3, <2>4, <2>5, PlacedKept
<1>12. InMenu(Server) => msg.type # "START"
  BY <1>1, <1>4 DEF Together
<1>13. InMenu(Server)' = InMenu(Server)
  BY <1>1, <1>9 DEF InMenu
<1>14. Together'
  <2>1. untold' # {} => phase'[Server] = "wait"
    BY <1>1, <1>2, <1>9 DEF Together, unitVars
  <2>2. \A d \in Clients \ conn' : toClient'[d] = <<>>
    BY <1>1, <1>2, <1>3, <1>5 DEF Together
  <2>3. ASSUME InMenu(Server)', NEW d \in Clients
        PROVE  /\ phase'[d] \in {"away", "menu", "gone"}
               /\ d \in conn' => InMenu(d)'
               /\ \A e \in Range(toClient'[d]) : e.type # "START"
    <3>1. phase'[d] = phase[d]
      BY <1>9, <1>12, <1>13, <2>3 DEF Machines
    <3>. QED  BY <1>1, <1>2, <1>5, <1>13, <2>3, <3>1 DEF Together, InMenu
  <2>. QED  BY <2>1, <2>2, <2>3 DEF Together
<1>15. Known'
  <2>1. ASSUME NEW d \in conn, InMenu(Server) PROVE KnownBy(d)'
    <3>1. KnownBy(d) /\ d \in Clients /\ d \in Machines
      BY <1>1, <2>1 DEF Known, Typed, Machines
    <3>2. CASE d # c
      <4>1. /\ toClient'[d] = toClient[d] /\ toServer'[d] = toServer[d] /\ view'[d] = view[d]
            /\ view'[Server] = view[Server] /\ dropped' = dropped
        BY <1>1, <1>2, <1>5, <1>7, <1>8, <3>1, <3>2
      <4>. QED  BY <1>1, <3>1, <4>1, KnownKept
    <3>3. CASE d = c
      <4>1. CASE msg.type = "UPDATE"
        BY <1>6, <1>7, <3>3, <4>1 DEF KnownBy
      <4>2. CASE msg.type # "UPDATE"
        <5>1. /\ \A e \in Range(toClient[c]) : e.type = "UPDATE" => e \in Range(toClient'[c])
              /\ Range(toServer[c]) \subseteq Range(toServer'[c])
              /\ view'[Server] = view[Server] /\ dropped' = dropped
          BY <1>1, <1>2, <1>4, <1>5, <1>7, <1>8, <4>2
        <5>2. ASSUME NEW i \in Slots, WillSee(c, i, Seen(view[Server])[i])
              PROVE  WillSee(c, i, Seen(view[Server])[i])'
          <6>1. /\ toClient'[c] = Tail(toClient[c])
                /\ view'[c][i] = IF Head(toClient[c]).type = "DATA" THEN Head(toClient[c]).slots[i]
                                                                    ELSE view[c][i]
            BY <1>5, <1>8 DEF msg
          <6> DEFINE slot == Seen(view[Server])[i]
          <6>2. WillSee(c, i, slot)
            BY <5>2
          <6>3. slot = Seen(view'[Server])[i]
            BY <5>1
          <6> HIDE DEF slot
          <6>4. /\ \A k \in DOMAIN toClient'[c] :
                     /\ toClient'[c][k].type = "DATA"
                     /\ \A j \in DOMAIN toClient'[c] : j > k => toClient'[c][j].type # "DATA"
                     => toClient'[c][k].slots[i] = slot
                /\ (\A k \in DOMAIN toClient'[c] : toClient'[c][k].type # "DATA")
                     => view'[c][i] = slot
            BY <1>1, <1>2, <6>1, <6>2, TailSees
          <6>. QED  BY <6>3, <6>4 DEF WillSee
        <5>. QED  BY <3>1, <3>3, <5>1, <5>2 DEF KnownBy
      <4>. QED  BY <4>1, <4>2
    <3>. QED  BY <3>2, <3>3
  <2>. QED  BY <1>2, <1>13, <2>1 DEF Known
<1>16. Counted'
  <2>1. ASSUME NEW d \in Clients PROVE CountsStep(d)
    <3>1. msg.type # "USING"
      BY <1>2
    <3>2. d # c => toServer'[d] = toServer[d] /\ toClient'[d] = toClient[d]
      BY <1>5, <1>7
    <3>3. d = c => /\ \/ toServer'[d] = toServer[d]
                      \/ \E e \in FromClient(d) :
                           e.type # "READY" /\ toServer'[d] = Append(toServer[d], e)
                   /\ toClient[d] # <<>> /\ toClient'[d] = Tail(toClient[d])
                   /\ Head(toClient[d]).type # "USING"
      BY <1>2, <1>5, <1>6, <1>7, <3>1 DEF msg
    <3>. QED  BY <3>2, <3>3 DEF CountsStep
  <2>3. phase'[Server] = phase[Server] /\ view'[Server] = view[Server]
    BY <1>1, <1>8, <1>9
  <2>4. /\ \A d \in Clients : \A e \in Range(toClient'[d]) :
             e \in Range(toClient[d]) \/ e.type # "END"
        /\ \A d \in Clients : \A e \in Range(toServer'[d]) :
             e \in Range(toServer[d]) \/ e.type # "READY"
    BY <1>5, <1>6, <1>7
  <2>. QED  BY <1>1, <1>2, <2>1, <2>3, <2>4, CountedLater DEF unitVars
<1>. QED  BY <1>10, <1>11, <1>14, <1>15, <1>16 DEF LobbyInv

-----------------------------------------------------------------------------
(* The map is loaded, ...                                                  *)
LEMMA ClientLoadsKeeps ==
  ASSUME LobbyInv, NEW c \in Clients, ClientLoads(c)
  PROVE  LobbyInv'
<1>1. /\ Typed /\ Placed /\ Together /\ Known /\ Counted /\ Server \in Machines
      /\ Server \notin Clients /\ c \in Machines /\ c # Server
      /\ phase \in [Machines -> {"away", "menu", "leaving", "load", "wait", "battle", "gone"}]
  BY LobbyAssumption DEF LobbyInv, Typed, Machines
<1>2. /\ phase[c] = "leaving" /\ phase' = [phase EXCEPT ![c] = "load"]
      /\ UNCHANGED <<game, edits, gameVars, netVars, unitVars>>
  BY DEF ClientLoads
<1>3. /\ phase' \in [Machines -> {"away", "menu", "leaving", "load", "wait", "battle", "gone"}]
      /\ \A m \in Machines : phase'[m] = IF m = c THEN "load" ELSE phase[m]
  BY <1>1, <1>2
<1>4. ~ InMenu(Server) /\ ~ InMenu(Server)'
  BY <1>1, <1>2, <1>3 DEF Together, InMenu
<1>5. Typed'
  BY <1>1, <1>2, <1>3 DEF Typed, gameVars, netVars, unitVars
<1>6. Placed'
  <2>1. \A m \in Machines, i \in Slots, d \in Clients : view'[m][i].who = d => PutAt(d, i)
    BY <1>2 DEF PutAt, gameVars
  <2>2. \A d \in Clients : phase'[d] = "away" => phase[d] = "away"
    BY <1>3 DEF Machines
  <2>3. \A i, j \in Own(Server)' : i = j
    BY <1>1, <1>2 DEF Placed, Own, gameVars
  <2>. QED  BY <1>1, <1>2, <2>1, <2>2, <2>3, PlacedKept DEF Placed, netVars
<1>7. Together'
  BY <1>1, <1>2, <1>3, <1>4 DEF Together, InMenu, netVars, unitVars
<1>8. Known'
  BY <1>4 DEF Known
<1>9. Counted'
  <2>1. \A d \in Clients : CountsStep(d)
    BY <1>2 DEF CountsStep, netVars
  <2>2. phase'[Server] = phase[Server] /\ view'[Server] = view[Server]
    BY <1>1, <1>2, <1>3 DEF gameVars
  <2>. QED  BY <1>1, <1>2, <2>1, <2>2, CountedLater DEF netVars, unitVars
<1>. QED  BY <1>5, <1>6, <1>7, <1>8, <1>9 DEF LobbyInv

LEMMA ServerLoadsKeeps ==
  ASSUME LobbyInv, ServerLoads
  PROVE  LobbyInv'
<1>1. /\ Typed /\ Placed /\ Together /\ Known /\ Counted /\ Server \in Machines
      /\ Server \notin Clients /\ NbSlots \in Nat
      /\ phase \in [Machines -> {"away", "menu", "leaving", "load", "wait", "battle", "gone"}]
  BY LobbyAssumption DEF LobbyInv, Typed, Machines
<1>2. /\ phase[Server] = "leaving" /\ phase' = [phase EXCEPT ![Server] = "load"]
      /\ \E from \in SeqOf(Taken, NbSlots) :
           top' = [k \in DOMAIN from |-> view[Server][from[k]].who]
      /\ UNCHANGED <<game, edits, gameVars, netVars, have, usable, untold, ready, dead>>
  BY DEF ServerLoads
<1>3. /\ phase' \in [Machines -> {"away", "menu", "leaving", "load", "wait", "battle", "gone"}]
      /\ \A m \in Machines : phase'[m] = IF m = Server THEN "load" ELSE phase[m]
  BY <1>1, <1>2
<1>4. top' \in SeqOf(Machines \cup {"ai"}, NbSlots)
  <2>1. PICK n \in 0 .. NbSlots :
          \E from \in [1 .. n -> Taken] : top' = [k \in DOMAIN from |-> view[Server][from[k]].who]
    BY <1>2 DEF SeqOf
  <2>2. \A i \in Taken : view[Server][i].who \in Machines \cup {"ai"}
    BY <1>1 DEF Typed, Taken, Slot, Nobody
  <2>3. top' \in [1 .. n -> Machines \cup {"ai"}]
    BY <2>1, <2>2
  <2>. QED  BY <2>1, <2>3 DEF SeqOf
<1>5. ready = {} /\ dead = {} /\ ready' = {} /\ dead' = {}
  BY <1>1, <1>2 DEF Counted, Before
<1>6. Typed'
  BY <1>1, <1>2, <1>3, <1>4, <1>5 DEF Typed, gameVars, netVars
<1>7. Placed'
  <2>1. \A m \in Machines, i \in Slots, d \in Clients : view'[m][i].who = d => PutAt(d, i)
    BY <1>2 DEF PutAt, gameVars
  <2>2. \A d \in Clients : phase'[d] = "away" => phase[d] = "away"
    BY <1>1, <1>3 DEF Machines
  <2>3. \A i, j \in Own(Server)' : i = j
    BY <1>1, <1>2 DEF Placed, Own, gameVars
  <2>. QED  BY <1>1, <1>2, <2>1, <2>2, <2>3, PlacedKept DEF Placed, netVars
<1>8. Together'
  BY <1>1, <1>2, <1>3 DEF Together, InMenu, netVars
<1>9. Known'
  BY <1>1, <1>3 DEF Known, InMenu
<1>10. Counted'
  <2>1. Before'
    BY <1>1, <1>2, <1>5 DEF Counted, Before, netVars
  <2>2. During'
    BY <1>1, <1>3 DEF During
  <2>. QED  BY <1>1, <1>2, <1>3, <2>1, <2>2 DEF Counted
<1>. QED  BY <1>6, <1>7, <1>8, <1>9, <1>10 DEF LobbyInv

(* ... and the wait room opened, where nobody has ended its list of units. *)
LEMMA ServerWaitsKeeps ==
  ASSUME LobbyInv, ServerWaits
  PROVE  LobbyInv'
<1>1. /\ Typed /\ Placed /\ Together /\ Known /\ Counted /\ Server \in Machines
      /\ Server \notin Clients
      /\ phase \in [Machines -> {"away", "menu", "leaving", "load", "wait", "battle", "gone"}]
  BY LobbyAssumption DEF LobbyInv, Typed, Machines
<1>2. /\ phase[Server] = "load" /\ phase' = [phase EXCEPT ![Server] = "wait"]
      /\ untold' = conn /\ dead' = {}
      /\ ready' = {i \in DOMAIN top : top[i] \notin Clients}
      /\ UNCHANGED <<game, edits, gameVars, netVars, have, usable, top>>
  BY DEF ServerWaits
<1>3. /\ phase' \in [Machines -> {"away", "menu", "leaving", "load", "wait", "battle", "gone"}]
      /\ \A m \in Machines : phase'[m] = IF m = Server THEN "wait" ELSE phase[m]
  BY <1>1, <1>2
<1>4. Typed'
  BY <1>1, <1>2, <1>3 DEF Typed, gameVars, netVars
<1>5. Placed'
  <2>1. \A m \in Machines, i \in Slots, d \in Clients : view'[m][i].who = d => PutAt(d, i)
    BY <1>2 DEF PutAt, gameVars
  <2>2. \A d \in Clients : phase'[d] = "away" => phase[d] = "away"
    BY <1>1, <1>3 DEF Machines
  <2>3. \A i, j \in Own(Server)' : i = j
    BY <1>1, <1>2 DEF Placed, Own, gameVars
  <2>. QED  BY <1>1, <1>2, <2>1, <2>2, <2>3, PlacedKept DEF Placed, netVars
<1>6. Together'
  BY <1>1, <1>2, <1>3 DEF Together, InMenu, netVars
<1>7. Known'
  BY <1>1, <1>3 DEF Known, InMenu
<1>8. Counted'
  <2>1. Before'
    BY <1>1, <1>3 DEF Before
  <2>2. During'
    <3>1. Before
      BY <1>1 DEF Counted
    <3>2. ASSUME NEW c \in Clients
          PROVE  /\ \A k \in DOMAIN toServer'[c] : toServer'[c][k].type # "READY"
                 /\ \A k \in DOMAIN toClient'[c] : toClient'[c][k].type # "END"
      BY <1>2, <3>1 DEF Before, netVars, Range
    <3>3. \A c \in Clients : \A u \in usable'[Server] \ have'[c] : ReadyAfter(c, u)' /\ EndsAfter(c, u)'
      BY <3>2 DEF ReadyAfter, EndsAfter
    <3>. QED  BY <1>2, <3>3 DEF During
  <2>. QED  BY <1>1, <1>2, <1>3, <2>1, <2>2 DEF Counted
<1>. QED  BY <1>4, <1>5, <1>6, <1>7, <1>8 DEF LobbyInv

-----------------------------------------------------------------------------
(* The list of units has every unit of the server, and then an end.        *)
LEMMA SameLength ==
  ASSUME NEW a \in Nat, NEW b \in Nat, 1 .. a = 1 .. b
  PROVE  a = b
<1>1. (a \in 1 .. a <=> a >= 1) /\ (b \in 1 .. b <=> b >= 1)
  OBVIOUS
<1>2. a >= 1 => a <= b
  BY <1>1
<1>3. b >= 1 => b <= a
  BY <1>1
<1>. QED  BY <1>2, <1>3

LEMMA Listed ==
  ASSUME NEW S, IsFiniteSet(S)
  PROVE  /\ SetToSeq(S) \in Seq(S) /\ Len(SetToSeq(S)) \in Nat
         /\ DOMAIN SetToSeq(S) = 1 .. Len(SetToSeq(S))
         /\ \A i, j \in 1 .. Len(SetToSeq(S)) : SetToSeq(S)[i] = SetToSeq(S)[j] => i = j
         /\ \A e \in S : \E i \in 1 .. Len(SetToSeq(S)) : SetToSeq(S)[i] = e
<1> DEFINE n == Cardinality(S)
           D == 1 .. n
           q == SetToSeq(S)
<1>1. n \in Nat /\ ExistsBijection(D, S)
  <2>1. PICK m \in Nat : ExistsBijection(1 .. m, S)
    BY FS_NatBijection
  <2>2. n = m
    BY <2>1, FS_CountingElements
  <2>. QED  BY <2>1, <2>2
<1>2. \E f \in [D -> S] : IsInjective(f)
  BY <1>1 DEF ExistsBijection, Bijection, Injection
<1>3. q \in [D -> S] /\ IsInjective(q)
  BY <1>2 DEF SetToSeq
<1>4. q \in Injection(D, S)
  BY <1>3 DEF Injection
<1>5. Cardinality(D) = n
  BY <1>1, FS_Interval
<1>6. q \in Surjection(D, S)
  BY <1>4, <1>5, FS_Injection
<1>7. \A e \in S : \E i \in D : q[i] = e
  BY <1>6 DEF Surjection
<1> HIDE DEF n
<1>8. q \in Seq(S) /\ Len(q) = n /\ DOMAIN q = D
  <2>1. q \in Seq(S)
    BY <1>1, <1>3, SeqDef
  <2>2. DOMAIN q = 1 .. Len(q) /\ Len(q) \in Nat /\ DOMAIN q = 1 .. n
    BY <1>3, <2>1, LenProperties
  <2>3. Len(q) = n
    BY <1>1, <2>2, SameLength
  <2>. QED  BY <2>1, <2>2, <2>3
<1>9. \A i, j \in D : q[i] = q[j] => i = j
  BY <1>3 DEF IsInjective
<1>. QED  BY <1>1, <1>7, <1>8, <1>9

LEMMA UnitListFacts ==
  ASSUME Typed
  PROVE  /\ UnitList \in Seq(FromServer) /\ Len(UnitList) \in Nat /\ Len(UnitList) >= 1
         /\ \A k \in 1 .. Len(UnitList) - 1 : UnitList[k].type = "USING"
         /\ UnitList[Len(UnitList)].type = "END"
         /\ \A u \in have[Server] : \E k \in 1 .. Len(UnitList) - 1 :
              UnitList[k].type = "USING" /\ UnitList[k].unit = u
<1> DEFINE H == have[Server]
           Using(u) == [type |-> "USING", unit |-> u]
           T == {Using(u) : u \in H}
           q == SetToSeq(T)
           n == Len(q)
           e == <<Msg("END")>>
<1>1. H \subseteq Units /\ IsFiniteSet(H)
  <2>1. H \subseteq Units
    BY DEF Typed, Machines
  <2>. QED  BY <2>1, LobbyAssumption, FS_Subset
<1>2. IsFiniteSet(T)
  <2>1. [u \in H |-> Using(u)] \in Surjection(H, T)
    BY DEF Surjection
  <2>. QED  BY <1>1, <2>1, FS_Surjection
<1>3. /\ q \in Seq(T) /\ n \in Nat /\ DOMAIN q = 1 .. n
      /\ \A t \in T : \E i \in 1 .. n : q[i] = t
  BY <1>2, Listed
<1>4. T \subseteq FromServer /\ \A t \in T : t.type = "USING" /\ t.unit \in H /\ t = Using(t.unit)
  BY <1>1 DEF FromServer
<1>5. \A u \in H : Using(u) \in T /\ Using(u).type = "USING" /\ Using(u).unit = u
  OBVIOUS
<1> HIDE DEF T, q, n, Using
<1>6. q \in Seq(FromServer) /\ \A k \in 1 .. n : q[k] \in T
  <2>1. \A k \in 1 .. n : q[k] \in T
    BY <1>3, ElementOfSeq DEF n
  <2>. QED  BY <1>3, <1>4, <2>1, SeqDef
<1>7. /\ e \in Seq(FromServer) /\ Len(e) = 1 /\ e[1] = Msg("END") /\ Msg("END").type = "END"
  BY Said
<1>8. UnitList = q \o e
  BY DEF UnitList, q, T, Using
<1> HIDE DEF e
<1>9. /\ UnitList \in Seq(FromServer) /\ Len(UnitList) = n + 1
      /\ \A i \in 1 .. n + 1 : UnitList[i] = IF i <= n THEN q[i] ELSE e[i - n]
  <2>1. /\ q \o e \in Seq(FromServer) /\ Len(q \o e) = Len(q) + Len(e)
        /\ \A i \in 1 .. Len(q) + Len(e) : (q \o e)[i] = IF i <= Len(q) THEN q[i] ELSE e[i - Len(q)]
    BY <1>6, <1>7, ConcatProperties
  <2>. QED  BY <1>7, <1>8, <2>1 DEF n
<1>10. /\ (n + 1) - 1 = n /\ n + 1 >= 1 /\ n + 1 \in 1 .. n + 1 /\ ~ n + 1 <= n
       /\ (n + 1) - n = 1 /\ \A k \in 1 .. n : k \in 1 .. n + 1 /\ k <= n
  BY <1>3
<1>11. UnitList[n + 1].type = "END"
  BY <1>7, <1>9, <1>10
<1>12. \A k \in 1 .. n : UnitList[k] = q[k]
  BY <1>9, <1>10
<1>13. \A k \in 1 .. n : UnitList[k].type = "USING"
  BY <1>4, <1>6, <1>12
<1>14. \A u \in H : \E k \in 1 .. n : UnitList[k].type = "USING" /\ UnitList[k].unit = u
  BY <1>3, <1>5, <1>12
<1>. QED  BY <1>3, <1>9, <1>10, <1>11, <1>13, <1>14

LEMMA EndsAfterList ==
  ASSUME Typed, NEW c \in Clients, NEW u \in have[Server], EndsAfter(c, u),
         toClient'[c] = toClient[c] \o UnitList, toServer'[c] = toServer[c]
  PROVE  EndsAfter(c, u)'
<1> DEFINE q == toClient[c]
           l == UnitList
           t == toClient'[c]
<1>1. /\ q \in Seq(FromServer) /\ DOMAIN q = 1 .. Len(q) /\ Len(q) \in Nat
  BY QueueFacts DEF Typed
<1>2. /\ l \in Seq(FromServer) /\ Len(l) \in Nat /\ Len(l) >= 1
      /\ \A k \in 1 .. Len(l) - 1 : l[k].type = "USING"
      /\ l[Len(l)].type = "END"
      /\ \E k \in 1 .. Len(l) - 1 : l[k].type = "USING" /\ l[k].unit = u
  BY UnitListFacts
<1>3. t = q \o l
  OBVIOUS
<1>4. \A k \in DOMAIN q : q[k].type = "END" =>
        \/ \E j \in 1 .. k - 1 : q[j].type = "USING" /\ q[j].unit = u
        \/ \E msg \in Range(toServer[c]) : msg.type = "MISSING" /\ msg.unit = u
  BY DEF EndsAfter
<1> HIDE DEF q, l
<1>5. /\ t \in Seq(FromServer) /\ DOMAIN t = 1 .. Len(q) + Len(l)
      /\ \A i \in 1 .. Len(q) + Len(l) : t[i] = IF i <= Len(q) THEN q[i] ELSE l[i - Len(q)]
  <2>1. /\ q \o l \in Seq(FromServer) /\ Len(q \o l) = Len(q) + Len(l)
        /\ \A i \in 1 .. Len(q) + Len(l) : (q \o l)[i] = IF i <= Len(q) THEN q[i] ELSE l[i - Len(q)]
    BY <1>1, <1>2, ConcatProperties
  <2>. QED  BY <1>3, <2>1, LenProperties
<1> HIDE DEF t
<1>6. \A k \in 1 .. Len(q) : k \in 1 .. Len(q) + Len(l) /\ k <= Len(q)
  BY <1>1, <1>2
<1>7. \A k \in 1 .. Len(q) : t[k] = q[k]
  BY <1>5, <1>6
<1>8. ASSUME NEW k \in DOMAIN t, t[k].type = "END"
      PROVE  \/ \E j \in 1 .. k - 1 : t[j].type = "USING" /\ t[j].unit = u
             \/ \E msg \in Range(toServer[c]) : msg.type = "MISSING" /\ msg.unit = u
  <2>1. CASE k <= Len(q)
    <3>1. k \in 1 .. Len(q) /\ \A j \in 1 .. k - 1 : j \in 1 .. Len(q)
      BY <1>1, <1>2, <1>5, <2>1
    <3>. QED  BY <1>1, <1>4, <1>7, <1>8, <3>1
  <2>2. CASE ~ k <= Len(q)
    <3>1. /\ k - Len(q) \in 1 .. Len(l) /\ t[k] = l[k - Len(q)] /\ k \in Int
      BY <1>1, <1>2, <1>5, <2>2
    <3>2. k - Len(q) \notin 1 .. Len(l) - 1
      BY <1>2, <1>8, <3>1
    <3>3. PICK i \in 1 .. Len(l) - 1 : l[i].type = "USING" /\ l[i].unit = u
      BY <1>2
    <3>4. /\ Len(q) + i \in 1 .. k - 1 /\ Len(q) + i \in 1 .. Len(q) + Len(l)
          /\ ~ Len(q) + i <= Len(q) /\ (Len(q) + i) - Len(q) = i
      BY <1>1, <1>2, <3>1, <3>2
    <3>5. t[Len(q) + i] = l[i]
      BY <1>5, <3>4
    <3>. QED  BY <3>3, <3>4, <3>5
  <2>. QED  BY <2>1, <2>2
<1>. QED  BY <1>8 DEF EndsAfter, t

LEMMA TellsUnitsKeeps ==
  ASSUME LobbyInv, NEW c \in Clients, TellsUnits(c)
  PROVE  LobbyInv'
<1>1. /\ Typed /\ Placed /\ Together /\ Known /\ Counted /\ Server \in Machines
      /\ DOMAIN toClient = Clients /\ toClient[c] \in Seq(FromServer)
  BY DEF LobbyInv, Typed, Machines
<1>2. /\ c \in untold /\ untold' = untold \ {c}
      /\ toClient' = IF c \in conn THEN [toClient EXCEPT ![c] = @ \o UnitList] ELSE toClient
      /\ UNCHANGED <<game, phase, edits, gameVars, conn, dropped, toServer,
                     have, usable, top, ready, dead>>
  BY DEF TellsUnits
<1>3. phase[Server] = "wait"
  BY <1>1, <1>2 DEF Together
<1>4. /\ UnitList \in Seq(FromServer) /\ Len(UnitList) \in Nat /\ Len(UnitList) >= 1
      /\ \A k \in 1 .. Len(UnitList) : UnitList[k].type \in {"USING", "END"}
  <2>1. /\ UnitList \in Seq(FromServer) /\ Len(UnitList) \in Nat /\ Len(UnitList) >= 1
        /\ \A k \in 1 .. Len(UnitList) - 1 : UnitList[k].type = "USING"
        /\ UnitList[Len(UnitList)].type = "END"
    BY <1>1, UnitListFacts
  <2>2. \A k \in 1 .. Len(UnitList) : k \in 1 .. Len(UnitList) - 1 \/ k = Len(UnitList)
    BY <2>1
  <2>. QED  BY <2>1, <2>2
<1>5. /\ toClient[c] \o UnitList \in Seq(FromServer)
      /\ \A e \in Range(toClient[c] \o UnitList) :
           e \in Range(toClient[c]) \/ e.type \in {"USING", "END"}
  <2> DEFINE q == toClient[c]
             l == UnitList
  <2>1. q \in Seq(FromServer) /\ Len(q) \in Nat /\ DOMAIN q = 1 .. Len(q)
        /\ \A k \in DOMAIN q : q[k] \in Range(q)
    BY <1>1, QueueFacts
  <2>2. /\ q \o l \in Seq(FromServer) /\ Len(q \o l) = Len(q) + Len(l)
        /\ \A i \in 1 .. Len(q) + Len(l) : (q \o l)[i] = IF i <= Len(q) THEN q[i] ELSE l[i - Len(q)]
    BY <1>4, <2>1, ConcatProperties
  <2>3. DOMAIN (q \o l) = 1 .. Len(q) + Len(l)
    BY <2>2, LenProperties
  <2> HIDE DEF q, l
  <2>4. \A i \in 1 .. Len(q) + Len(l) :
          /\ i <= Len(q) => i \in 1 .. Len(q)
          /\ ~ i <= Len(q) => i - Len(q) \in 1 .. Len(l)
    BY <1>4, <2>1 DEF l
  <2>5. \A i \in 1 .. Len(q) + Len(l) :
          (q \o l)[i] \in Range(q) \/ (q \o l)[i].type \in {"USING", "END"}
    BY <1>4, <2>1, <2>2, <2>4 DEF l
  <2>. QED  BY <2>2, <2>3, <2>5 DEF Range, q, l
<1>6. /\ DOMAIN toClient' = Clients
      /\ \A d \in Clients :
           /\ IF d = c /\ c \in conn THEN toClient'[d] = toClient[d] \o UnitList
                                     ELSE toClient'[d] = toClient[d]
           /\ toClient'[d] \in Seq(FromServer)
           /\ \A e \in Range(toClient'[d]) : e \in Range(toClient[d]) \/ e.type \in {"USING", "END"}
  BY <1>1, <1>2, <1>5 DEF Typed
<1>7. Typed'
  BY <1>1, <1>2, <1>6 DEF Typed, gameVars
<1>8. Placed'
  <2>1. \A m \in Machines, i \in Slots, d \in Clients : view'[m][i].who = d => PutAt(d, i)
    BY <1>2 DEF PutAt, gameVars
  <2>2. \A i, j \in Own(Server)' : i = j
    BY <1>1, <1>2 DEF Placed, Own, gameVars
  <2>3. \A d \in Clients : \A e \in Range(toClient'[d]) : e \in Range(toClient[d]) \/ e.type # "DATA"
    BY <1>6
  <2>. QED  BY <1>1, <1>2, <2>1, <2>2, <2>3, PlacedKept DEF Placed
<1>9. Together'
  BY <1>1, <1>2, <1>3, <1>6 DEF Together, InMenu
<1>10. Known'
  BY <1>2, <1>3 DEF Known, InMenu
<1>11. Counted'
  <2>1. Before'
    BY <1>2, <1>3 DEF Before
  <2>2. During'
    <3>1. During /\ usable[Server] \subseteq have[Server]
      BY <1>1 DEF Counted
    <3>2. ASSUME NEW d \in Clients, NEW u \in usable[Server] \ have[d]
          PROVE  ReadyAfter(d, u)' /\ EndsAfter(d, u)'
      <4>1. ReadyAfter(d, u) /\ EndsAfter(d, u) /\ u \in have[Server]
        BY <1>3, <3>1, <3>2 DEF During
      <4>2. ReadyAfter(d, u)' /\ toServer'[d] = toServer[d]
        BY <1>2, <4>1 DEF ReadyAfter
      <4>3. CASE d = c /\ c \in conn
        BY <1>1, <1>6, <4>1, <4>2, <4>3, EndsAfterList
      <4>4. CASE ~ (d = c /\ c \in conn)
        BY <1>6, <4>1, <4>2, <4>4 DEF EndsAfter
      <4>. QED  BY <4>2, <4>3, <4>4
    <3>. QED  BY <1>2, <1>3, <3>1, <3>2 DEF During, gameVars
  <2>. QED  BY <1>1, <1>2, <1>3, <2>1, <2>2 DEF Counted
<1>. QED  BY <1>7, <1>8, <1>9, <1>10, <1>11 DEF LobbyInv

-----------------------------------------------------------------------------
(* A client in the wait room.                                              *)
LEMMA ClientWaitsKeeps ==
  ASSUME LobbyInv, NEW c \in Clients, ClientWaits(c)
  PROVE  LobbyInv'
<1>1. /\ Typed /\ Placed /\ Together /\ Known /\ Counted /\ Server \in Machines
      /\ Server \notin Clients /\ c \in Machines /\ c # Server
      /\ phase \in [Machines -> {"away", "menu", "leaving", "load", "wait", "battle", "gone"}]
      /\ usable \in [Machines -> SUBSET Units]
  BY LobbyAssumption DEF LobbyInv, Typed, Machines
<1>2. /\ phase[c] = "load" /\ phase' = [phase EXCEPT ![c] = "wait"]
      /\ usable' = [usable EXCEPT ![c] = {}]
      /\ UNCHANGED <<game, edits, gameVars, netVars, have, untold, top, ready, dead>>
  BY DEF ClientWaits
<1>3. /\ phase' \in [Machines -> {"away", "menu", "leaving", "load", "wait", "battle", "gone"}]
      /\ \A m \in Machines : phase'[m] = IF m = c THEN "wait" ELSE phase[m]
      /\ usable' \in [Machines -> SUBSET Units] /\ usable'[Server] = usable[Server]
  BY <1>1, <1>2
<1>4. ~ InMenu(Server) /\ ~ InMenu(Server)'
  BY <1>1, <1>2, <1>3 DEF Together, InMenu
<1>5. Typed'
  BY <1>1, <1>2, <1>3 DEF Typed, gameVars, netVars
<1>6. Placed'
  <2>1. \A m \in Machines, i \in Slots, d \in Clients : view'[m][i].who = d => PutAt(d, i)
    BY <1>2 DEF PutAt, gameVars
  <2>2. \A d \in Clients : phase'[d] = "away" => phase[d] = "away"
    BY <1>3 DEF Machines
  <2>3. \A i, j \in Own(Server)' : i = j
    BY <1>1, <1>2 DEF Placed, Own, gameVars
  <2>. QED  BY <1>1, <1>2, <2>1, <2>2, <2>3, PlacedKept DEF Placed, netVars
<1>7. Together'
  BY <1>1, <1>2, <1>3, <1>4 DEF Together, InMenu, netVars
<1>8. Known'
  BY <1>4 DEF Known
<1>9. Counted'
  <2>1. \A d \in Clients : CountsStep(d)
    BY <1>2 DEF CountsStep, netVars
  <2>2. \A d \in conn' : phase'[d] \in {"menu", "leaving"} => phase[d] \in {"menu", "leaving"}
    BY <1>1, <1>2, <1>3 DEF Typed, Machines, netVars
  <2>3. phase'[Server] = phase[Server] /\ view'[Server] = view[Server]
    BY <1>1, <1>2, <1>3 DEF gameVars
  <2>. QED  BY <1>1, <1>2, <1>3, <2>1, <2>2, <2>3, CountedLater DEF netVars
<1>. QED  BY <1>5, <1>6, <1>7, <1>8, <1>9 DEF LobbyInv

LEMMA ClientWaitingKeeps ==
  ASSUME LobbyInv, NEW c \in Clients, ClientWaiting(c)
  PROVE  LobbyInv'
<1> DEFINE msg == Head(toClient[c])
           missed == [type |-> "MISSING", unit |-> msg.unit, relayed |-> FALSE]
<1>1. /\ Typed /\ Placed /\ Together /\ Known /\ Counted /\ Server \in Machines
      /\ Server \notin Clients /\ c \in Machines /\ c # Server
      /\ phase \in [Machines -> {"away", "menu", "leaving", "load", "wait", "battle", "gone"}]
      /\ usable \in [Machines -> SUBSET Units] /\ have \in [Machines -> SUBSET Units]
      /\ toClient[c] \in Seq(FromServer)
  BY LobbyAssumption DEF LobbyInv, Typed, Machines
<1>2. /\ phase[c] = "wait" /\ toClient[c] # <<>>
      /\ toClient' = [toClient EXCEPT ![c] = Tail(toClient[c])]
      /\ \/ msg.type = "USING" /\ ChecksUnit(c, msg.unit) /\ UNCHANGED phase
         \/ msg.type = "END" /\ Ask(c, Msg("READY")) /\ UNCHANGED <<phase, usable>>
         \/ /\ msg.type = "MISSING" /\ usable' = [usable EXCEPT ![c] = @ \ {msg.unit}]
            /\ UNCHANGED <<phase, toServer>>
         \/ /\ msg.type = "BEGIN" /\ phase' = [phase EXCEPT ![c] = "battle"]
            /\ UNCHANGED <<toServer, usable>>
      /\ UNCHANGED <<game, edits, gameVars, conn, dropped, have, untold, top, ready, dead>>
  BY DEF ClientWaiting
<1>3. c \in conn
  BY <1>1, <1>2 DEF Together
<1>4. /\ msg \in FromServer /\ msg \in Range(toClient[c])
      /\ Tail(toClient[c]) \in Seq(FromServer) /\ Range(Tail(toClient[c])) \subseteq Range(toClient[c])
  BY <1>1, <1>2, HeadTaken
<1>5. msg.type = "USING" => msg.unit \in Units /\ missed \in FromClient(c)
  BY <1>4 DEF FromServer, FromClient, Msg
<1>6. /\ DOMAIN toClient' = Clients
      /\ \A d \in Clients :
           /\ toClient'[d] = IF d = c THEN Tail(toClient[c]) ELSE toClient[d]
           /\ toClient'[d] \in Seq(FromServer)
           /\ Range(toClient'[d]) \subseteq Range(toClient[d])
  BY <1>1, <1>2, <1>4 DEF Typed
<1>7. missed.type = "MISSING" /\ missed.unit = msg.unit
  OBVIOUS
<1>8. \/ UNCHANGED toServer /\ (msg.type = "USING" => msg.unit \in have[c])
      \/ /\ msg.type = "USING" /\ msg.unit \notin have[c]
         /\ missed \in FromClient(c) /\ Ask(c, missed)
      \/ msg.type = "END" /\ Ask(c, Msg("READY"))
  BY <1>2, <1>5 DEF ChecksUnit
<1>9. /\ phase' \in [Machines -> {"away", "menu", "leaving", "load", "wait", "battle", "gone"}]
      /\ \A m \in Machines : phase'[m] = phase[m] \/ (m = c /\ phase'[m] = "battle")
      /\ usable' \in [Machines -> SUBSET Units] /\ usable'[Server] = usable[Server]
  <2>1. usable' \in [Machines -> SUBSET Units] /\ usable'[Server] = usable[Server]
    BY <1>1, <1>2, <1>5 DEF ChecksUnit
  <2>. QED  BY <1>1, <1>2, <2>1
<1> HIDE DEF msg, missed
<1>10. /\ DOMAIN toServer' = Clients
       /\ \A d \in Clients : toServer'[d] \in Seq(FromClient(d)) /\ (d # c => toServer'[d] = toServer[d])
       /\ \/ toServer'[c] = toServer[c] /\ (msg.type = "USING" => msg.unit \in have[c])
          \/ \E e \in FromClient(c) :
               /\ toServer'[c] = Append(toServer[c], e) /\ Range(toServer'[c]) = Range(toServer[c]) \cup {e}
               /\ \/ msg.type = "END" /\ e = Msg("READY")
                  \/ msg.type = "USING" /\ e = missed
  <2>1. CASE UNCHANGED toServer /\ (msg.type = "USING" => msg.unit \in have[c])
    BY <1>1, <2>1 DEF Typed
  <2>2. ASSUME NEW e \in FromClient(c), Ask(c, e)
        PROVE  /\ DOMAIN toServer' = Clients
               /\ \A d \in Clients : /\ toServer'[d] \in Seq(FromClient(d))
                                     /\ d # c => toServer'[d] = toServer[d]
               /\ toServer'[c] = Append(toServer[c], e)
               /\ Range(toServer'[c]) = Range(toServer[c]) \cup {e}
    <3>1. /\ DOMAIN toServer' = Clients
          /\ \A d \in Clients :
               /\ toServer'[d] = IF d = c /\ c \in conn THEN Append(toServer[d], e) ELSE toServer[d]
               /\ toServer'[d] \in Seq(FromClient(d))
               /\ Range(toServer'[d]) = IF d = c /\ c \in conn THEN Range(toServer[d]) \cup {e}
                                                               ELSE Range(toServer[d])
      BY <1>1, <2>2, AskFacts
    <3>. QED  BY <1>3, <3>1
  <2>3. Msg("READY") \in FromClient(c)
    BY Said
  <2>. QED  BY <1>8, <2>1, <2>2, <2>3
<1>11. Msg("READY").type = "READY" /\ missed.type = "MISSING" /\ missed.unit = msg.unit
  BY <1>7, Said
<1>12. \A d \in Clients : \A e \in Range(toServer'[d]) :
         \/ e \in Range(toServer[d])
         \/ d = c /\ e.type = "MISSING"
         \/ d = c /\ e.type = "READY" /\ msg.type = "END"
  BY <1>10, <1>11
<1>13. ~ InMenu(Server) /\ ~ InMenu(Server)' /\ phase'[Server] = phase[Server]
  BY <1>1, <1>2, <1>9 DEF Together, InMenu
<1>14. Typed'
  BY <1>1, <1>2, <1>6, <1>9, <1>10 DEF Typed, gameVars
<1>15. Placed'
  <2>1. \A m \in Machines, i \in Slots, d \in Clients : view'[m][i].who = d => PutAt(d, i)
    BY <1>2 DEF PutAt, gameVars
  <2>2. \A d \in Clients : phase'[d] = "away" => phase[d] = "away"
    BY <1>9 DEF Machines
  <2>3. \A i, j \in Own(Server)' : i = j
    BY <1>1, <1>2 DEF Placed, Own, gameVars
  <2>4. ASSUME NEW d \in Clients
        PROVE  \A k \in DOMAIN toServer'[d] : toServer'[d][k].type = "NEW_PLAYER" => k = 1
    <3>1. /\ toServer[d] \in Seq(FromClient(d)) /\ toServer'[d] \in Seq(FromClient(d))
          /\ LeftOf(toServer[d], toServer[d])
      BY <1>1, <1>10, LeftOver DEF Typed
    <3>2. \A k \in DOMAIN toServer[d] : toServer[d][k].type = "NEW_PLAYER" => k = 1
      BY <1>1 DEF Placed
    <3>3. \/ LeftOf(toServer'[d], toServer[d])
          \/ \E e \in FromClient(d) :
               e.type # "NEW_PLAYER" /\ toServer'[d] = Append(toServer[d], e)
      BY <1>10, <1>11, <3>1
    <3>. QED  BY <3>1, <3>2, <3>3, FirstKept
  <2>5. \A d \in Clients : \A e \in Range(toServer'[d]) :
          e \in Range(toServer[d]) \/ e.type \notin {"NEW_PLAYER", "INFO"}
    BY <1>12
  <2>. QED  BY <1>1, <1>6, <2>1, <2>2, <2>3, <2>4, <2>5, PlacedKept
<1>16. Together'
  <2>1. \A d \in Clients \ conn' : toClient'[d] = <<>>
    BY <1>1, <1>2, <1>3, <1>6 DEF Together
  <2>. QED  BY <1>1, <1>2, <1>13, <2>1 DEF Together
<1>17. Known'
  BY <1>13 DEF Known
<1>18. Counted'
  <2>1. Before'
    <3>1. ASSUME phase[Server] \in {"menu", "leaving", "load"}, NEW d \in Clients
          PROVE  /\ \A e \in Range(toClient'[d]) : e.type # "END"
                 /\ \A e \in Range(toServer'[d]) : e.type # "READY"
      BY <1>1, <1>4, <1>6, <1>12, <3>1 DEF Counted, Before
    <3>2. phase[Server] \in {"menu", "leaving", "load"} => ready' = {} /\ dead' = {}
      BY <1>1, <1>2 DEF Counted, Before
    <3>. QED  BY <1>13, <3>1, <3>2 DEF Before
  <2>2. During'
    <3>1. During
      BY <1>1 DEF Counted
    <3>3. ASSUME phase[Server] = "wait", NEW d \in Clients, NEW u \in usable[Server] \ have[d]
          PROVE  ReadyAfter(d, u)' /\ EndsAfter(d, u)'
      <4>1. ReadyAfter(d, u) /\ EndsAfter(d, u)
        BY <3>1, <3>3 DEF During
      <4>2. CASE d # c
        BY <1>6, <1>10, <4>1, <4>2 DEF ReadyAfter, EndsAfter
      <4>3. CASE d = c
        <5>1. /\ toClient'[c] = Tail(toClient[c])
              /\ \/ /\ toServer'[c] = toServer[c]
                    /\ ~ (Head(toClient[c]).type = "USING" /\ Head(toClient[c]).unit = u)
                 \/ \E e \in FromClient(c) :
                      /\ toServer'[c] = Append(toServer[c], e)
                      /\ e.type = "READY" => Head(toClient[c]).type = "END"
                      /\ Head(toClient[c]).type = "USING" /\ Head(toClient[c]).unit = u
                           => e.type = "MISSING" /\ e.unit = u
          BY <1>6, <1>10, <1>11, <3>3, <4>3 DEF msg
        <5>. QED  BY <1>1, <1>2, <4>1, <4>3, <5>1, ReadsList
      <4>. QED  BY <4>2, <4>3
    <3>4. phase'[Server] \in {"wait", "battle"} =>
            \A i \in ready' : top'[i] \in Clients /\ top'[i] = view'[Server][i].who =>
              usable'[Server] \subseteq have'[top'[i]]
      BY <1>2, <1>9, <1>13, <3>1 DEF During, gameVars
    <3>. QED  BY <1>2, <1>9, <1>13, <3>3, <3>4 DEF During
  <2>3. phase'[Server] = "battle" => AllReady'
    BY <1>1, <1>2, <1>13 DEF Counted, AllReady, Awaited, gameVars
  <2>. QED  BY <1>1, <1>2, <1>9, <2>1, <2>2, <2>3 DEF Counted
<1>. QED  BY <1>14, <1>15, <1>16, <1>17, <1>18 DEF LobbyInv

-----------------------------------------------------------------------------
(* The server in the wait room: what is missing is passed on, ...          *)
LEMMA RelaysKeeps ==
  ASSUME LobbyInv, NEW c \in Clients, Relays(c)
  PROVE  LobbyInv'
<1>1. /\ Typed /\ Placed /\ Together /\ Known /\ Counted /\ Server \in Machines
      /\ toServer[c] \in Seq(FromClient(c)) /\ DOMAIN toServer = Clients
  BY DEF LobbyInv, Typed, Machines
<1>2. PICK k \in DOMAIN toServer[c] :
        /\ toServer[c][k].type = "MISSING"
        /\ toServer' = [toServer EXCEPT ![c][k].relayed = TRUE]
        /\ toClient' = Tell(Clients \ {c}, [type |-> "MISSING", unit |-> toServer[c][k].unit])
        /\ UNCHANGED <<game, phase, edits, gameVars, conn, dropped, unitVars>>
  BY DEF Relays
<1> DEFINE q == toServer[c]
           m == q[k]
           m2 == [m EXCEPT !.relayed = TRUE]
           new == [type |-> "MISSING", unit |-> m.unit]
<1>3. /\ q \in Seq(FromClient(c)) /\ DOMAIN q = 1 .. Len(q) /\ Len(q) \in Nat /\ m \in Range(q)
      /\ Range(q) \subseteq FromClient(c) /\ \A j \in DOMAIN q : q[j] \in Range(q)
  BY <1>1, QueueFacts
<1>4. m \in [type : {"MISSING"}, unit : Units, relayed : BOOLEAN]
  BY <1>2, <1>3 DEF FromClient, Msg
<1>5. /\ m2 \in FromClient(c) /\ m2.type = "MISSING" /\ m2.unit = m.unit
      /\ new \in FromServer /\ new.type = "MISSING"
  <2>1. m2 \in [type : {"MISSING"}, unit : Units, relayed : BOOLEAN] /\ m2.unit = m.unit
    BY <1>4
  <2>. QED  BY <1>4, <2>1 DEF FromClient, FromServer
<1>6. toServer' = [toServer EXCEPT ![c] = [q EXCEPT ![k] = m2]]
  BY <1>2
<1>7. toClient' = Tell(Clients \ {c}, new)
  BY <1>2
<1> HIDE DEF q, m2, new
<1>8. /\ DOMAIN toServer' = Clients
      /\ \A d \in Clients : d # c => toServer'[d] = toServer[d]
      /\ toServer'[c] = [q EXCEPT ![k] = m2]
  BY <1>1, <1>6
<1>9. k \in DOMAIN q
  BY DEF q
<1>10. /\ toServer'[c] \in Seq(FromClient(c)) /\ DOMAIN toServer'[c] = DOMAIN q
       /\ \A j \in DOMAIN q : toServer'[c][j] = IF j = k THEN m2 ELSE q[j]
       /\ \A j \in DOMAIN q : j # k => q[j] \in Range(toServer'[c])
  <2>1. DOMAIN toServer'[c] = DOMAIN q /\ \A j \in DOMAIN q : toServer'[c][j] = IF j = k THEN m2 ELSE q[j]
    BY <1>8, <1>9
  <2>2. \A j \in DOMAIN q : toServer'[c][j] \in FromClient(c)
    BY <1>3, <1>5, <2>1
  <2>3. [q EXCEPT ![k] = m2] \in [1 .. Len(q) -> FromClient(c)]
    BY <1>3, <1>5, <1>9
  <2>4. toServer'[c] \in Seq(FromClient(c))
    BY <1>3, <1>8, <2>3, SeqDef
  <2>. QED  BY <2>1, <2>4 DEF Range
<1>11. \A e \in Range(toServer'[c]) : e \in Range(q) \/ e = m2
  BY <1>3, <1>10 DEF Range
<1>12. /\ DOMAIN toClient' = Clients
       /\ \A d \in Clients :
            /\ toClient'[d] = IF d # c /\ d \in conn THEN Append(toClient[d], new) ELSE toClient[d]
            /\ toClient'[d] \in Seq(FromServer)
            /\ Range(toClient'[d]) = IF d # c /\ d \in conn THEN Range(toClient[d]) \cup {new}
                                                            ELSE Range(toClient[d])
  <2>1. /\ DOMAIN Tell(Clients \ {c}, new) = Clients
        /\ \A d \in Clients :
             /\ Tell(Clients \ {c}, new)[d] = IF d # c /\ d \in conn THEN Append(toClient[d], new)
                                                                   ELSE toClient[d]
             /\ Tell(Clients \ {c}, new)[d] \in Seq(FromServer)
             /\ Range(Tell(Clients \ {c}, new)[d]) = IF d # c /\ d \in conn
                                                      THEN Range(toClient[d]) \cup {new}
                                                      ELSE Range(toClient[d])
    BY <1>1, <1>5, ToldOthers
  <2>. QED  BY <1>7, <2>1
<1>13. Typed'
  BY <1>1, <1>2, <1>8, <1>10, <1>12 DEF Typed, gameVars, unitVars
<1>14. Placed'
  <2>1. \A b \in Machines, i \in Slots, d \in Clients : view'[b][i].who = d => PutAt(d, i)
    BY <1>2 DEF PutAt, gameVars
  <2>2. \A i, j \in Own(Server)' : i = j
    BY <1>1, <1>2 DEF Placed, Own, gameVars
  <2>3. \A d \in Clients : \A e \in Range(toServer'[d]) :
          e \in Range(toServer[d]) \/ e.type \notin {"NEW_PLAYER", "INFO"}
    BY <1>5, <1>8, <1>11 DEF q
  <2>4. \A d \in Clients : \A e \in Range(toClient'[d]) : e \in Range(toClient[d]) \/ e.type # "DATA"
    BY <1>5, <1>12
  <2>5. \A d \in Clients : \A j \in DOMAIN toServer'[d] : toServer'[d][j].type = "NEW_PLAYER" => j = 1
    <3>1. \A j \in DOMAIN toServer'[c] : toServer'[c][j].type = "NEW_PLAYER" => j = 1
      BY <1>1, <1>5, <1>10 DEF Placed, q
    <3>. QED  BY <1>1, <1>8, <3>1 DEF Placed
  <2>. QED  BY <1>1, <1>2, <2>1, <2>2, <2>3, <2>4, <2>5, PlacedKept
<1>15. Together'
  <2>1. conn' = conn /\ untold' = untold /\ phase' = phase
    BY <1>2 DEF unitVars
  <2>2. \A d \in Clients \ conn : toClient'[d] = <<>>
    BY <1>1, <1>12 DEF Together
  <2>3. \A d \in Clients : \A e \in Range(toClient'[d]) : e \in Range(toClient[d]) \/ e.type # "START"
    BY <1>5, <1>12
  <2>. QED  BY <1>1, <2>1, <2>2, <2>3 DEF Together, InMenu
<1>16. Known'
  <2>1. ASSUME NEW d \in conn, InMenu(Server) PROVE KnownBy(d)'
    <3>1. KnownBy(d) /\ d \in Clients
      BY <1>1, <2>1 DEF Known, Typed
    <3>2. toClient'[d] = toClient[d] \/ toClient'[d] = Append(toClient[d], new)
      BY <1>12, <3>1
    <3>3. \A e \in Range(toServer[d]) : e.type = "REQUEST" => e \in Range(toServer'[d])
      <4>1. ASSUME NEW e \in Range(q), e.type = "REQUEST" PROVE e \in Range(toServer'[c])
        <5>1. PICK j \in DOMAIN q : q[j] = e
          BY DEF Range
        <5>2. j # k
          BY <1>2, <4>1, <5>1 DEF q
        <5>. QED  BY <1>10, <5>1, <5>2
      <4>. QED  BY <1>8, <3>1, <4>1 DEF q
    <3>. QED  BY <1>1, <1>2, <1>5, <3>1, <3>2, <3>3, KnownKept DEF gameVars
  <2>. QED  BY <1>2, <2>1 DEF Known, InMenu
<1>17. Counted'
  <2>1. ASSUME NEW d \in Clients PROVE CountsStep(d)
    <3>1. CASE d = c
      <4>1. /\ DOMAIN toServer'[c] = DOMAIN toServer[c] /\ toClient'[c] = toClient[c]
            /\ \A j \in DOMAIN toServer[c] :
                 /\ toServer'[c][j].type = toServer[c][j].type
                 /\ toServer[c][j].type = "MISSING" => toServer'[c][j].unit = toServer[c][j].unit
        BY <1>2, <1>5, <1>10, <1>12 DEF q
      <4>. QED  BY <3>1, <4>1 DEF CountsStep
    <3>2. CASE d # c
      BY <1>5, <1>8, <1>12, <3>2 DEF CountsStep
    <3>. QED  BY <3>1, <3>2
  <2>2. /\ \A d \in Clients : \A e \in Range(toClient'[d]) : e \in Range(toClient[d]) \/ e.type # "END"
        /\ \A d \in Clients : \A e \in Range(toServer'[d]) : e \in Range(toServer[d]) \/ e.type # "READY"
    BY <1>5, <1>8, <1>11, <1>12 DEF q
  <2>. QED  BY <1>1, <1>2, <2>1, <2>2, CountedLater DEF gameVars, unitVars
<1>. QED  BY <1>13, <1>14, <1>15, <1>16, <1>17 DEF LobbyInv

(* ... and who is ready has said all that it misses.                       *)
LEMMA ReadsAnswers ==
  ASSUME Typed, NEW c \in Clients, NEW u, ReadyAfter(c, u), EndsAfter(c, u),
         toServer[c] # <<>>, toServer'[c] = Tail(toServer[c]), toClient'[c] = toClient[c]
  PROVE  /\ Head(toServer[c]).type # "READY"
         /\ \/ Head(toServer[c]).type = "MISSING" /\ Head(toServer[c]).unit = u
            \/ ReadyAfter(c, u)' /\ EndsAfter(c, u)'
<1> DEFINE s == toServer[c]
<1>1. /\ s \in Seq(FromClient(c)) /\ DOMAIN s = 1 .. Len(s) /\ Len(s) \in Nat
  BY QueueFacts DEF Typed
<1>2. /\ 1 \in DOMAIN s /\ Head(s) = s[1] /\ DOMAIN Tail(s) = 1 .. Len(s) - 1
      /\ \A k \in 1 .. Len(s) - 1 : Tail(s)[k] = s[k + 1]
      /\ \A e \in Range(s) : e = Head(s) \/ e \in Range(Tail(s))
  BY <1>1, HeadTaken
<1>3. /\ \A k \in DOMAIN s : s[k].type = "READY" =>
           \E j \in 1 .. k - 1 : s[j].type = "MISSING" /\ s[j].unit = u
      /\ \A k \in DOMAIN toClient[c] : toClient[c][k].type = "END" =>
           \/ \E j \in 1 .. k - 1 : toClient[c][j].type = "USING" /\ toClient[c][j].unit = u
           \/ \E msg \in Range(s) : msg.type = "MISSING" /\ msg.unit = u
      /\ toServer'[c] = Tail(s) /\ toClient'[c] = toClient[c]
  BY DEF ReadyAfter, EndsAfter
<1> HIDE DEF s
<1>4. Head(s).type # "READY"
  <2>1. 1 .. 1 - 1 = {}
    OBVIOUS
  <2>. QED  BY <1>2, <1>3, <2>1
<1>5. ASSUME ~ (Head(s).type = "MISSING" /\ Head(s).unit = u)
      PROVE  ReadyAfter(c, u)' /\ EndsAfter(c, u)'
  <2>1. ASSUME NEW k \in DOMAIN Tail(s), Tail(s)[k].type = "READY"
        PROVE  \E j \in 1 .. k - 1 : Tail(s)[j].type = "MISSING" /\ Tail(s)[j].unit = u
    <3>1. k \in 1 .. Len(s) - 1 /\ k + 1 \in DOMAIN s /\ s[k + 1].type = "READY" /\ (k + 1) - 1 = k
      BY <1>1, <1>2, <2>1
    <3>2. PICK j \in 1 .. k : s[j].type = "MISSING" /\ s[j].unit = u
      BY <1>3, <3>1
    <3>3. j # 1
      BY <1>2, <1>5, <3>2
    <3>4. j - 1 \in 1 .. k - 1 /\ j - 1 \in 1 .. Len(s) - 1 /\ (j - 1) + 1 = j
      BY <1>1, <3>1, <3>3
    <3>5. Tail(s)[j - 1] = s[j]
      BY <1>2, <3>4
    <3>. QED  BY <3>2, <3>4, <3>5
  <2>2. ReadyAfter(c, u)'
    <3>1. toServer'[c] = Tail(s) /\ toServer[c] = s
      BY <1>3 DEF s
    <3>. QED  BY <2>1, <3>1 DEF ReadyAfter
  <2>3. (\E msg \in Range(s) : msg.type = "MISSING" /\ msg.unit = u)
          => \E msg \in Range(Tail(s)) : msg.type = "MISSING" /\ msg.unit = u
    BY <1>2, <1>5
  <2>4. EndsAfter(c, u)'
    BY <1>3, <2>3 DEF EndsAfter
  <2>. QED  BY <2>2, <2>4
<1>. QED  BY <1>4, <1>5 DEF s

LEMMA ServerWaitingKeeps ==
  ASSUME LobbyInv, NEW c \in Clients, ServerWaiting(c)
  PROVE  LobbyInv'
<1> DEFINE msg == Head(toServer[c])
<1>1. /\ Typed /\ Placed /\ Together /\ Known /\ Counted /\ Server \in Machines
      /\ usable \in [Machines -> SUBSET Units] /\ ready \subseteq DOMAIN top
      /\ Heard(c) \subseteq DOMAIN top
  BY DEF LobbyInv, Typed, Machines, Heard, Awaited
<1>2. /\ phase[Server] = "wait" /\ untold = {} /\ toServer[c] # <<>>
      /\ toServer' = [toServer EXCEPT ![c] = Tail(toServer[c])]
      /\ \/ /\ msg.type = "MISSING"
            /\ usable' = [usable EXCEPT ![Server] = @ \ {msg.unit}] /\ UNCHANGED ready
         \/ msg.type = "READY" /\ ready' = ready \cup Heard(c) /\ UNCHANGED usable
         \/ msg.type \notin {"MISSING", "READY"} /\ UNCHANGED <<usable, ready>>
      /\ UNCHANGED <<game, phase, edits, gameVars, conn, dropped, toClient,
                     have, untold, top, dead>>
  BY DEF ServerWaiting
<1>3. /\ DOMAIN toServer' = Clients
      /\ \A d \in Clients :
           /\ toServer'[d] = IF d = c THEN Tail(toServer[d]) ELSE toServer[d]
           /\ toServer'[d] \in Seq(FromClient(d))
           /\ Range(toServer'[d]) \subseteq Range(toServer[d])
           /\ \A k \in DOMAIN toServer'[d] : toServer'[d][k].type = "NEW_PLAYER" => k = 1
  BY <1>1, <1>2, TakenFacts
<1> HIDE DEF msg
<1>4. /\ usable' \in [Machines -> SUBSET Units]
      /\ usable'[Server] \subseteq usable[Server]
      /\ msg.type = "MISSING" => msg.unit \notin usable'[Server]
      /\ ready' \subseteq DOMAIN top
      /\ \A i \in ready' : i \in ready \/ (view[Server][i].who = c /\ msg.type = "READY")
  BY <1>1, <1>2 DEF Heard
<1>5. Typed'
  BY <1>1, <1>2, <1>3, <1>4 DEF Typed, gameVars
<1>6. Placed'
  <2>1. \A m \in Machines, i \in Slots, d \in Clients : view'[m][i].who = d => PutAt(d, i)
    BY <1>2 DEF PutAt, gameVars
  <2>2. \A i, j \in Own(Server)' : i = j
    BY <1>1, <1>2 DEF Placed, Own, gameVars
  <2>. QED  BY <1>1, <1>2, <1>3, <2>1, <2>2, PlacedKept
<1>7. Together'
  BY <1>1, <1>2 DEF Together, InMenu
<1>8. Known'
  BY <1>2 DEF Known, InMenu
<1>9. Counted'
  <2>1. Before'
    BY <1>2 DEF Before
  <2>2. During'
    <3>1. During
      BY <1>1 DEF Counted
    <3>2. ASSUME NEW d \in Clients, NEW u \in usable[Server] \ have[d]
          PROVE  /\ d = c => msg.type # "READY"
                 /\ u \in usable'[Server] => ReadyAfter(d, u)' /\ EndsAfter(d, u)'
      <4>1. ReadyAfter(d, u) /\ EndsAfter(d, u) /\ toClient'[d] = toClient[d]
        BY <1>2, <3>1, <3>2 DEF During
      <4>2. CASE d # c
        BY <1>3, <4>1, <4>2 DEF ReadyAfter, EndsAfter
      <4>3. CASE d = c
        <5>1. /\ msg.type # "READY"
              /\ \/ msg.type = "MISSING" /\ msg.unit = u
                 \/ ReadyAfter(c, u)' /\ EndsAfter(c, u)'
          BY <1>1, <1>2, <1>3, <4>1, <4>3, ReadsAnswers DEF msg
        <5>. QED  BY <1>4, <4>3, <5>1
      <4>. QED  BY <4>2, <4>3
    <3>3. ASSUME NEW i \in ready', top'[i] \in Clients, top'[i] = view'[Server][i].who
          PROVE  usable'[Server] \subseteq have'[top'[i]]
      <4>1. top[i] \in Clients /\ top[i] = view[Server][i].who /\ top' = top /\ have' = have
        BY <1>2, <3>3 DEF gameVars
      <4>2. CASE i \in ready
        BY <1>2, <1>4, <3>1, <4>1, <4>2 DEF During
      <4>3. CASE i \notin ready
        <5>1. top[i] = c /\ msg.type = "READY"
          BY <1>4, <3>3, <4>1, <4>3
        <5>. QED  BY <1>4, <3>2, <4>1, <5>1
      <4>. QED  BY <4>2, <4>3
    <3>4. \A d \in Clients : \A u \in usable'[Server] \ have'[d] : ReadyAfter(d, u)' /\ EndsAfter(d, u)'
      BY <1>2, <1>4, <3>2
    <3>. QED  BY <3>3, <3>4 DEF During
  <2>. QED  BY <1>1, <1>2, <1>4, <2>1, <2>2 DEF Counted
<1>. QED  BY <1>5, <1>6, <1>7, <1>8, <1>9 DEF LobbyInv

LEMMA WaitNoticesDroppedKeeps ==
  ASSUME LobbyInv, WaitNoticesDropped
  PROVE  LobbyInv'
<1>1. /\ Typed /\ Placed /\ Together /\ Known /\ Counted
  BY DEF LobbyInv
<1>2. /\ phase[Server] = "wait" /\ dropped' = FALSE
      /\ dead' = dead \cup {i \in Awaited : view[Server][i].who \notin conn}
      /\ UNCHANGED <<game, phase, edits, gameVars, conn, toServer, toClient,
                     have, usable, untold, top, ready>>
  BY DEF WaitNoticesDropped
<1>3. Typed'
  BY <1>1, <1>2 DEF Typed, gameVars, Awaited
<1>4. Placed'
  BY <1>1, <1>2 DEF Placed, PutAt, Asked, Own, gameVars
<1>5. Together'
  BY <1>1, <1>2 DEF Together, InMenu
<1>6. Known'
  BY <1>2 DEF Known, InMenu
<1>7. Counted'
  <2>1. \A d \in Clients : CountsStep(d)
    BY <1>2 DEF CountsStep
  <2>. QED  BY <1>1, <1>2, <2>1, CountedLater DEF gameVars
<1>. QED  BY <1>3, <1>4, <1>5, <1>6, <1>7 DEF LobbyInv

LEMMA ServerBeginsKeeps ==
  ASSUME LobbyInv, ServerBegins
  PROVE  LobbyInv'
<1>1. /\ Typed /\ Placed /\ Together /\ Known /\ Counted /\ Server \in Machines
      /\ Server \notin Clients
      /\ phase \in [Machines -> {"away", "menu", "leaving", "load", "wait", "battle", "gone"}]
  BY LobbyAssumption DEF LobbyInv, Typed, Machines
<1>2. /\ phase[Server] = "wait" /\ untold = {} /\ AllReady
      /\ phase' = [phase EXCEPT ![Server] = "battle"]
      /\ toClient' = Tell(Clients, Msg("BEGIN"))
      /\ UNCHANGED <<game, edits, gameVars, conn, dropped, toServer, unitVars>>
      /\ Msg("BEGIN") \in FromServer /\ Msg("BEGIN").type = "BEGIN"
  BY Said DEF ServerBegins
<1>3. /\ DOMAIN toClient' = Clients
      /\ \A d \in Clients :
           /\ toClient'[d] = IF d \in conn THEN Append(toClient[d], Msg("BEGIN")) ELSE toClient[d]
           /\ toClient'[d] \in Seq(FromServer)
           /\ Range(toClient'[d]) = IF d \in conn THEN Range(toClient[d]) \cup {Msg("BEGIN")}
                                                  ELSE Range(toClient[d])
  BY <1>1, <1>2, ToldAll
<1>4. /\ phase' \in [Machines -> {"away", "menu", "leaving", "load", "wait", "battle", "gone"}]
      /\ \A m \in Machines : phase'[m] = IF m = Server THEN "battle" ELSE phase[m]
  BY <1>1, <1>2
<1>5. Typed'
  BY <1>1, <1>2, <1>3, <1>4 DEF Typed, gameVars, unitVars
<1>6. Placed'
  <2>1. \A m \in Machines, i \in Slots, d \in Clients : view'[m][i].who = d => PutAt(d, i)
    BY <1>2 DEF PutAt, gameVars
  <2>2. \A i, j \in Own(Server)' : i = j
    BY <1>1, <1>2 DEF Placed, Own, gameVars
  <2>3. \A d \in Clients : phase'[d] = "away" => phase[d] = "away"
    BY <1>1, <1>4 DEF Machines
  <2>4. \A d \in Clients : \A e \in Range(toClient'[d]) : e \in Range(toClient[d]) \/ e.type # "DATA"
    BY <1>2, <1>3
  <2>. QED  BY <1>1, <1>2, <2>1, <2>2, <2>3, <2>4, PlacedKept DEF Placed
<1>7. Together'
  BY <1>1, <1>2, <1>3, <1>4 DEF Together, InMenu, unitVars
<1>8. Known'
  BY <1>1, <1>4 DEF Known, InMenu
<1>9. Counted'
  <2>1. Before'
    BY <1>1, <1>4 DEF Before
  <2>2. During'
    BY <1>1, <1>2, <1>4 DEF Counted, During, gameVars, unitVars
  <2>3. AllReady'
    BY <1>2 DEF AllReady, Awaited, gameVars, unitVars
  <2>. QED  BY <1>1, <1>2, <2>1, <2>2, <2>3 DEF Counted, unitVars
<1>. QED  BY <1>5, <1>6, <1>7, <1>8, <1>9 DEF LobbyInv

-----------------------------------------------------------------------------
(* In the beginning: the slots are held by different machines, or open.    *)
LEMMA HolderFacts ==
  /\ Came \subseteq Clients
  /\ \A i \in Slots : Holder(i) \in {Server, "open"} \cup Came
  /\ \A i, j \in Slots : Holder(i) = Holder(j) /\ Holder(i) \in Machines => i = j
<1> DEFINE q == SetToSeq(Came)
           n == Len(q)
           open == [j \in Slots |-> "open"]
           S == {Server, "open"} \cup Came
           one == Hosts
           h == Len(one)
<1>1. /\ Came \subseteq Clients /\ IsFiniteSet(Came) /\ Server \notin Came /\ "open" \notin Came
      /\ "open" \notin Machines /\ NbSlots \in Nat
  <2>1. Came \subseteq Clients
    BY DEF Came
  <2>2. IsFiniteSet(Came)
    BY <2>1, LobbyAssumption, FS_Subset
  <2>3. "open" \notin Machines
    BY LobbyAssumption DEF Nobody
  <2>. QED  BY <2>1, <2>2, <2>3, LobbyAssumption DEF Machines
<1>2. /\ q \in Seq(Came) /\ n \in Nat /\ DOMAIN q = 1 .. n
      /\ \A i, j \in 1 .. n : q[i] = q[j] => i = j
  BY <1>1, Listed
<1>3. \A k \in 1 .. n : q[k] \in Came
  BY <1>2, ElementOfSeq
<1>4. /\ one \in Seq(S) /\ h \in {0, 1} /\ h \in Nat
      /\ \A k \in 1 .. h : k = 1 /\ one[k] = Server
  <2>1. CASE one = <<>>
    BY <2>1
  <2>2. CASE one = <<Server>>
    BY <2>2
  <2>. QED  BY <2>1, <2>2 DEF Hosts
<1> HIDE DEF q, one
<1>5. q \in Seq(S)
  BY <1>2, <1>3, SeqDef
<1>6. open \in Seq(S) /\ Len(open) = NbSlots /\ \A k \in 1 .. NbSlots : open[k] = "open"
  <2>1. open \in [1 .. NbSlots -> S]
    BY DEF Slots
  <2>2. \A k \in 1 .. NbSlots : open[k] = "open"
    BY DEF Slots
  <2> HIDE DEF open
  <2>3. open \in Seq(S)
    BY <1>1, <2>1, SeqDef
  <2>4. Len(open) \in Nat /\ 1 .. Len(open) = 1 .. NbSlots
    BY <2>1, <2>3, LenProperties
  <2>5. Len(open) = NbSlots
    BY <1>1, <2>4, SameLength
  <2>. QED  BY <2>2, <2>3, <2>5
<1> HIDE DEF open
<1> DEFINE pre == one \o q
<1>7. /\ pre \in Seq(S) /\ Len(pre) = h + n
      /\ \A i \in 1 .. h + n : pre[i] = IF i <= h THEN one[i] ELSE q[i - h]
  BY <1>4, <1>5, ConcatProperties
<1> HIDE DEF pre, n, h, S
<1>8. \A i \in 1 .. h + n + NbSlots : (pre \o open)[i] = IF i <= h + n THEN pre[i] ELSE open[i - (h + n)]
  <2>1. \A i \in 1 .. Len(pre) + Len(open) :
          (pre \o open)[i] = IF i <= Len(pre) THEN pre[i] ELSE open[i - Len(pre)]
    BY <1>6, <1>7, ConcatProperties
  <2>. QED  BY <1>6, <1>7, <2>1
<1>9. \A i \in Slots : i \in 1 .. h + n + NbSlots /\ i >= 1 /\ i <= NbSlots /\ i \in Int
  BY <1>1, <1>2, <1>4 DEF Slots
<1>10. \A i \in Slots : Holder(i) = IF i <= h THEN Server ELSE IF i <= h + n THEN q[i - h] ELSE "open"
  <2>1. ASSUME NEW i \in Slots
        PROVE  Holder(i) = IF i <= h THEN Server ELSE IF i <= h + n THEN q[i - h] ELSE "open"
    <3>1. Holder(i) = (pre \o open)[i]
      BY DEF Holder, pre, one, q, open
    <3>2. (pre \o open)[i] = IF i <= h + n THEN pre[i] ELSE open[i - (h + n)]
      BY <1>8, <1>9
    <3>3. CASE i <= h
      <4>1. i \in 1 .. h /\ i <= h + n /\ i \in 1 .. h + n
        BY <1>2, <1>4, <1>9, <3>3
      <4>. QED  BY <1>4, <1>7, <3>1, <3>2, <3>3, <4>1
    <3>4. CASE ~ i <= h /\ i <= h + n
      <4>1. i \in 1 .. h + n
        BY <1>2, <1>4, <1>9, <3>4
      <4>. QED  BY <1>7, <3>1, <3>2, <3>4, <4>1
    <3>5. CASE ~ i <= h + n
      <4>1. i - (h + n) \in 1 .. NbSlots /\ ~ i <= h
        BY <1>1, <1>2, <1>4, <1>9, <3>5
      <4>. QED  BY <1>6, <3>1, <3>2, <3>5, <4>1
    <3>. QED  BY <3>3, <3>4, <3>5
  <2>. QED  BY <2>1
<1>11. \A i \in Slots : ~ i <= h /\ i <= h + n => i - h \in 1 .. n
  BY <1>2, <1>4, <1>9
<1>12. \A i \in Slots : Holder(i) \in {Server, "open"} \cup Came
  BY <1>3, <1>10, <1>11
<1>13. ASSUME NEW i \in Slots, NEW j \in Slots, Holder(i) = Holder(j), Holder(i) \in Machines
       PROVE  i = j
  <2>1. i \in Int /\ j \in Int /\ i >= 1 /\ j >= 1
    BY <1>9
  <2>2. \A k \in Slots : k <= h => k = 1
    BY <1>4, <1>9
  <2>3. \A k \in Slots : Holder(k) = Server => k <= h
    BY <1>1, <1>3, <1>10, <1>11 DEF Machines
  <2>4. CASE i <= h \/ j <= h
    <3>1. Holder(i) = Server /\ Holder(j) = Server
      BY <1>10, <1>13, <2>4
    <3>. QED  BY <2>2, <2>3, <3>1
  <2>5. CASE ~ i <= h /\ ~ j <= h
    <3>1. i <= h + n /\ j <= h + n
      BY <1>1, <1>10, <1>13, <2>5
    <3>2. q[i - h] = q[j - h] /\ i - h \in 1 .. n /\ j - h \in 1 .. n
      BY <1>10, <1>11, <1>13, <2>5, <3>1
    <3>3. i - h = j - h
      BY <1>2, <3>2
    <3>. QED  BY <1>4, <2>1, <3>3
  <2>. QED  BY <2>4, <2>5
<1>. QED  BY <1>1, <1>12, <1>13

LEMMA InitHolds ==
  ASSUME Init
  PROVE  LobbyInv
<1>1. /\ Came \subseteq Clients /\ Server \notin Clients /\ Server \in Machines
      /\ "open" \notin Machines /\ "open" \in Nobody /\ Machines = {Server} \cup Clients
      /\ Came = {} \/ Came = Clients
  BY HolderFacts, LobbyAssumption DEF Machines, Nobody, Came
<1>2. \A i \in Slots : Holder(i) \in {Server, "open"} \cup Came
  BY HolderFacts
<1>3. \A i, j \in Slots : Holder(i) = Holder(j) /\ Holder(i) \in Machines => i = j
  BY HolderFacts
<1>4. /\ Empty \in Slot /\ Empty.who = "open" /\ Begun \in [Slots -> Slot]
      /\ \A i \in Slots : Begun[i].who = Holder(i)
  BY <1>1, <1>2 DEF Empty, Slot, Settings, Begun
<1>5. /\ game \in Games /\ limit \in [Machines -> Limits]
      /\ phase = [m \in Machines |-> IF m \in Came \cup {Server} THEN "menu" ELSE "away"]
      /\ view = [m \in Machines |-> IF m = Server THEN Begun
                                    ELSE IF m \in Came THEN Seen(Begun) ELSE [i \in Slots |-> Empty]]
      /\ conn = Came /\ dropped = FALSE /\ edits = 0
      /\ toServer = [c \in Clients |-> <<>>] /\ toClient = [c \in Clients |-> <<>>]
      /\ have \in [Machines -> IF May("start") THEN SUBSET Units ELSE {Units}]
      /\ usable = have /\ untold = {} /\ top = <<>> /\ ready = {} /\ dead = {}
  BY DEF Init
<1>6. /\ view \in [Machines -> [Slots -> Slot]] /\ view[Server] = Begun
      /\ \A c \in Clients : view[c] = IF c \in Came THEN Seen(Begun) ELSE [i \in Slots |-> Empty]
      /\ \A m \in Machines, i \in Slots :
           view[m][i].who = IF m \in Came \cup {Server} THEN Holder(i) ELSE "open"
  <2>1. /\ Seen(Begun) \in [Slots -> Slot]
        /\ \A i \in Slots : Seen(Begun)[i].who = Holder(i)
    <3>1. \A i \in Slots : /\ Begun[i].who \notin {"ai", "closed"} /\ Begun[i].who = Holder(i)
                           /\ Begun[i] \in Slot
      BY <1>1, <1>2, <1>4, LobbyAssumption DEF Nobody
    <3>2. \A i \in Slots : Seen(Begun)[i] \in Slot /\ Seen(Begun)[i].who = Holder(i)
      BY <3>1 DEF Seen, LooksOpen, Slot
    <3>. QED  BY <3>2 DEF Seen, LooksOpen
  <2>2. [i \in Slots |-> Empty] \in [Slots -> Slot] /\ \A i \in Slots : [j \in Slots |-> Empty][i].who = "open"
    BY <1>4
  <2>3. view[Server] = Begun
    BY <1>1, <1>5
  <2>4. \A c \in Clients : view[c] = IF c \in Came THEN Seen(Begun) ELSE [i \in Slots |-> Empty]
    BY <1>1, <1>5
  <2>5. view \in [Machines -> [Slots -> Slot]]
    BY <1>4, <1>5, <2>1, <2>2
  <2>. QED  BY <1>1, <1>4, <2>1, <2>2, <2>3, <2>4, <2>5
<1>7. \A d \in Clients : /\ toServer[d] = <<>> /\ toClient[d] = <<>>
                         /\ Range(toServer[d]) = {} /\ Range(toClient[d]) = {}
                         /\ DOMAIN toServer[d] = {} /\ DOMAIN toClient[d] = {}
                         /\ toServer[d] \in Seq(FromClient(d)) /\ toClient[d] \in Seq(FromServer)
  <2>1. \A d \in Clients : toServer[d] = <<>> /\ toClient[d] = <<>>
    BY <1>5
  <2>2. ASSUME NEW d \in Clients
        PROVE  <<>> \in Seq(FromClient(d)) /\ <<>> \in Seq(FromServer)
    BY EmptySeq
  <2>3. DOMAIN <<>> = {}
    OBVIOUS
  <2>. QED  BY <2>1, <2>2, <2>3, NothingLeft
<1>8. Typed
  <2>1. game.edits \in Nat /\ edits \in 0 .. game.edits
    BY <1>5, LobbyAssumption
  <2>2. phase \in [Machines -> {"away", "menu", "leaving", "load", "wait", "battle", "gone"}]
    BY <1>5
  <2>3. have \in [Machines -> SUBSET Units]
    <3>1. (IF May("start") THEN SUBSET Units ELSE {Units}) \subseteq SUBSET Units
      OBVIOUS
    <3>. QED  BY <1>5, <3>1
  <2>4. top \in SeqOf(Machines \cup {"ai"}, NbSlots)
    <3>1. top \in [1 .. 0 -> Machines \cup {"ai"}] /\ 0 \in 0 .. NbSlots
      BY <1>5, LobbyAssumption
    <3>. QED  BY <3>1 DEF SeqOf
  <2>. QED  BY <1>1, <1>5, <1>6, <1>7, <2>1, <2>2, <2>3, <2>4 DEF Typed
<1>9. \A m \in Machines : phase[m] = IF m \in Came \cup {Server} THEN "menu" ELSE "away"
  BY <1>5
<1>10. /\ conn = Came /\ dropped = FALSE /\ untold = {} /\ usable = have
       /\ phase[Server] = "menu"
  BY <1>1, <1>5
<1>11. Placed
  <2>1. ASSUME NEW c \in Clients, NEW i \in Slots, PutAt(c, i)
        PROVE  c \in Came /\ Holder(i) = c
    <3>1. PICK m \in Machines : view[m][i].who = c
      BY <1>7, <2>1 DEF PutAt
    <3>2. view[m][i].who # "open"
      BY <1>1, <3>1
    <3>. QED  BY <1>1, <1>2, <1>6, <3>1, <3>2
  <2>2. \A c \in Clients : ~ Asked(c)
    BY <1>7 DEF Asked
  <2>3. \A i, j \in Own(Server) : i = j
    BY <1>1, <1>3, <1>4, <1>6 DEF Own
  <2>4. ASSUME NEW c \in Clients
        PROVE  /\ \A i, j \in Slots : PutAt(c, i) /\ PutAt(c, j) => i = j
               /\ phase[c] = "away" => \A i \in Slots : ~ PutAt(c, i)
    BY <1>1, <1>3, <1>9, <2>1
  <2>. QED  BY <1>7, <2>2, <2>3, <2>4 DEF Placed
<1>12. Together
  BY <1>1, <1>7, <1>9, <1>10 DEF Together, InMenu
<1>13. Known
  <2>1. ASSUME NEW c \in conn, NEW i \in Slots PROVE WillSee(c, i, Seen(view[Server])[i])
    <3>1. c \in Clients /\ c \in Came
      BY <1>1, <1>10
    <3>2. view[c][i] = Seen(view[Server])[i]
      BY <1>6, <3>1
    <3>. QED  BY <1>7, <3>1, <3>2 DEF WillSee
  <2>. QED  BY <2>1 DEF Known, KnownBy
<1>14. Counted
  BY <1>5, <1>7, <1>10 DEF Counted, Before, During
<1>. QED  BY <1>8, <1>11, <1>12, <1>13, <1>14 DEF LobbyInv

LEMMA NothingHappens ==
  ASSUME LobbyInv, UNCHANGED vars
  PROVE  LobbyInv'
<1>1. UNCHANGED <<game, phase, edits, view, limit, conn, dropped, toServer, toClient,
                  have, usable, untold, top, ready, dead>>
  BY DEF vars, gameVars, netVars, unitVars
<1>2. Typed'
  BY <1>1 DEF LobbyInv, Typed
<1>3. Placed'
  BY <1>1 DEF LobbyInv, Placed, PutAt, Asked, Own
<1>4. Together'
  BY <1>1 DEF LobbyInv, Together, InMenu
<1>5. Known'
  <2>1. \A c \in conn : KnownBy(c)' = KnownBy(c)
    BY <1>1 DEF KnownBy, WillSee, Seen, LooksOpen
  <2>. QED  BY <1>1, <2>1 DEF LobbyInv, Known, InMenu
<1>6. Counted'
  BY <1>1 DEF LobbyInv, Counted, Before, During, ReadyAfter, EndsAfter, AllReady, Awaited
<1>. QED  BY <1>2, <1>3, <1>4, <1>5, <1>6 DEF LobbyInv

(* Every step of the menus and the wait room keeps the invariant.          *)
THEOREM LobbyInductive == Spec => []LobbyInv
<1>1. Init => LobbyInv
  BY InitHolds
<1>2. LobbyInv /\ [Next]_vars => LobbyInv'
  <2> SUFFICES ASSUME LobbyInv, [Next]_vars PROVE LobbyInv'
    OBVIOUS
  <2>1. CASE ServerUser
    BY <2>1, ServerUserKeeps, ServerStartsKeeps DEF ServerUser
  <2>2. CASE ServerAlone
    BY <2>2, NoticesDroppedKeeps, WaitNoticesDroppedKeeps, ServerLoadsKeeps, ServerWaitsKeeps,
       ServerBeginsKeeps DEF ServerAlone
  <2>3. ASSUME NEW c \in Clients, ClientUser(c) PROVE LobbyInv'
    BY <2>3, ClientUserKeeps
  <2>4. ASSUME NEW c \in Clients, ServerGoesOn(c) PROVE LobbyInv'
    BY <2>4, ServerHearsKeeps, ServerWaitingKeeps, TellsUnitsKeeps DEF ServerGoesOn
  <2>5. ASSUME NEW c \in Clients, ClientGoesOn(c) PROVE LobbyInv'
    BY <2>5, ClientHearsKeeps, ClientLoadsKeeps, ClientWaitsKeeps, ClientWaitingKeeps, CutOffKeeps
       DEF ClientGoesOn
  <2>6. ASSUME NEW c \in Clients, Relays(c) PROVE LobbyInv'
    BY <2>6, RelaysKeeps
  <2>7. CASE UNCHANGED vars
    BY <2>7, NothingHappens
  <2>. QED  BY <2>1, <2>2, <2>3, <2>4, <2>5, <2>6, <2>7 DEF Next
<1>. QED  BY <1>1, <1>2, PTL DEF Spec

(* TypeOK: the slots, limits and lists of units are what they should be,   *)
(* and nobody has two slots in any copy of the game (new_player takes the  *)
(* first open slot only, and a client's data only go to its own).          *)
THEOREM LobbyTypeCorrect == Spec => []TypeOK
<1>1. LobbyInv => TypeOK
  <2> SUFFICES ASSUME LobbyInv PROVE TypeOK
    OBVIOUS
  <2>1. Typed /\ Placed
    BY DEF LobbyInv
  <2>2. ASSUME NEW m \in Machines PROVE Cardinality(Own(m)) <= 1
    <3>1. \A i, j \in Own(m) : i = j
      BY <2>1, <2>2 DEF Placed, PutAt, Own, Machines
    <3>2. CASE Own(m) = {}
      <4>1. Cardinality(Own(m)) = 0
        BY <3>2, FS_EmptySet
      <4>. QED  BY <4>1
    <3>3. CASE Own(m) # {}
      <4>1. PICK i \in Own(m) : Own(m) = {i}
        BY <3>1, <3>3
      <4>2. Cardinality(Own(m)) = 1
        BY <4>1, FS_Singleton
      <4>. QED  BY <4>2
    <3>. QED  BY <3>2, <3>3
  <2>. QED  BY <2>1, <2>2 DEF Typed, TypeOK
<1>. QED  BY <1>1, LobbyInductive, PTL

(* Who sees the server's slot so agrees with it.                           *)
LEMMA SeenAgrees ==
  ASSUME NEW c, NEW i \in Slots, view[Server][i] \in Slot, view[c][i] = Seen(view[Server])[i]
  PROVE  Agrees(c, i)
<1>1. /\ view[c][i].who = IF LooksOpen(view[Server][i]) THEN "open" ELSE view[Server][i].who
      /\ view[c][i].choice = view[Server][i].choice /\ view[c][i].ready = view[Server][i].ready
  BY DEF Seen, LooksOpen, Slot
<1>. QED  BY <1>1 DEF Agrees, LooksOpen

(* OthersKnown: when nothing is on its way, what each client has of the    *)
(* slots of the others is what the server has.                             *)
THEOREM EveryoneKnows == Spec => []OthersKnown
<1>1. LobbyInv => OthersKnown
  <2> SUFFICES ASSUME LobbyInv, Quiet, InMenu(Server), NEW c \in conn, NEW i \in Slots,
                      view[Server][i].who # c
               PROVE  Agrees(c, i)
    BY DEF OthersKnown
  <2>1. c \in Clients /\ KnownBy(c)
    BY DEF LobbyInv, Typed, Known
  <2>2. ~ dropped /\ toServer[c] = <<>> /\ toClient[c] = <<>>
    BY <2>1 DEF Quiet
  <2>3. WillSee(c, i, Seen(view[Server])[i])
    BY <2>1, <2>2, NothingLeft DEF KnownBy
  <2>4. DOMAIN toClient[c] = {}
    BY <2>2
  <2>5. view[c][i] = Seen(view[Server])[i] /\ view[Server][i] \in Slot
    BY <2>3, <2>4 DEF WillSee, LobbyInv, Typed, Machines
  <2>. QED  BY <2>5, SeenAgrees
<1>. QED  BY <1>1, LobbyInductive, PTL

(* UnitsOnAll: a unit that can be used in the battle is a unit of every    *)
(* player who was waited for.                                              *)
THEOREM UnitsAreOnAll == Spec => []UnitsOnAll
<1>1. LobbyInv => UnitsOnAll
  <2> SUFFICES ASSUME LobbyInv, phase[Server] = "battle", NEW i \in Awaited \ dead,
                      top[i] = view[Server][i].who
               PROVE  usable[Server] \subseteq have[top[i]]
    BY DEF UnitsOnAll
  <2>1. i \in ready /\ top[i] \in Clients
    BY DEF LobbyInv, Counted, AllReady, Awaited
  <2>. QED  BY <2>1 DEF LobbyInv, Counted, During
<1>. QED  BY <1>1, LobbyInductive, PTL

-----------------------------------------------------------------------------
(* One game for all.  If people act only when nothing is under way, an     *)
(* act's consequences come to an end before the next one.                  *)
Told(c, t) == \E msg \in Range(toClient[c]) : msg.type = t
Says(c, t) == \E msg \in Range(toServer[c]) : msg.type = t

(* There is one limit on the way, the server's.                            *)
Limited ==
  \A c \in Clients :
    /\ \A msg \in Range(toClient[c]) :
         msg.type \in {"LIMIT", "DATA"} => msg.limit = limit[Server]
    /\ \A msg \in Range(toServer[c]) : msg.type = "INFO" => msg.limit = limit[Server]

(* What a client begins is first heard of when nothing else is under way.  *)
Begins == {"NEW_PLAYER", "UPDATE", "PLAYER_LEFT"}
Single ==
  \A c \in Clients : (\E t \in Begins : Says(c, t)) =>
    /\ toServer[c] \in {<<Msg("NEW_PLAYER"), Msg("REQUEST")>>, <<Msg("UPDATE")>>,
                        <<Msg("PLAYER_LEFT")>>}
    /\ ~ dropped
    /\ \A d \in Clients : toClient[d] = <<>> /\ (d # c => toServer[d] = <<>>)

(* What c has in its own slot, and what it is told of it, is the server's. *)
SlotSame(c) ==
  \A i \in Slots : c \in {view[Server][i].who, view[c][i].who} => view[c][i] = view[Server][i]
DataSame(c) ==
  \A msg \in Range(toClient[c]) : msg.type = "DATA" =>
    \A i \in Slots : c \in {view[Server][i].who, msg.slots[i].who} =>
      msg.slots[i] = view[Server][i]
InfoSame(c) ==
  \A msg \in Range(toServer[c]) : msg.type = "INFO" =>
    \A i \in DOMAIN msg.slots : msg.slots[i] = view[Server][i]

(* The clients are asked for their data.  Who has changed his own knows    *)
(* better than the server, which will hear of it before it sends its own.  *)
Editing ==
  \E c \in Clients : \/ Says(c, "UPDATE") \/ Says(c, "PLAYER_LEFT") \/ Says(c, "INFO")
                     \/ Told(c, "REQUEST")
WillTell(c) ==
  \/ toServer[c] = <<Msg("UPDATE")>>
  \/ toServer[c] = <<>> /\ toClient[c] # <<>> /\ Head(toClient[c]).type = "REQUEST"
  \/ toServer[c] # <<>> /\ Head(toServer[c]).type = "INFO"
Pending(c) ==
  /\ \A i \in Slots : view[Server][i].who = c <=> view[c][i].who = c
  /\ ~ Told(c, "DATA")
  /\ \A msg \in Range(toServer[c]) : msg.type = "INFO" => msg.slots = OwnData(c).slots
  /\ WillTell(c)
Settled(c) ==
  /\ limit[c] = limit[Server]
  /\ (SlotSame(c) /\ DataSame(c) /\ InfoSame(c)) \/ Pending(c)

(* Otherwise they hear of the server's.                                    *)
Follows(c) ==
  /\ limit[c] = limit[Server] \/ Told(c, "LIMIT") \/ Told(c, "DATA") \/ Says(c, "REQUEST")
  /\ SlotSame(c) \/ Told(c, "UPDATE") \/ Told(c, "DATA") \/ Says(c, "REQUEST")
  /\ DataSame(c)
CalmMenu ==
  /\ Limited /\ Single
  /\ \A c \in Clients : ~ Says(c, "MISSING") /\ (Says(c, "INFO") => c \in conn)
  /\ \A c \in conn : Settled(c) \/ (~ Editing /\ Follows(c))

(* Once the server has left the menu nothing changes any more.             *)
CalmStarted ==
  \A c \in conn :
    /\ view[c] = Seen(view[Server]) /\ limit[c] = limit[Server]
    /\ ~ Told(c, "DATA") /\ ~ Told(c, "LIMIT")
    /\ InMenu(c) => Told(c, "START")
Calm == game.calm => IF InMenu(Server) THEN CalmMenu ELSE CalmStarted

(* What matters of the queues is what they hold.                           *)
LEMMA QueuesOf ==
  ASSUME Typed, NEW c \in Clients
  PROVE  /\ toServer[c] \in Seq(FromClient(c)) /\ toClient[c] \in Seq(FromServer)
         /\ toServer[c] = <<>> <=> Range(toServer[c]) = {}
         /\ toClient[c] = <<>> <=> Range(toClient[c]) = {}
         /\ \A t : ~ Says(c, t) \/ toServer[c] # <<>>
         /\ \A t : ~ Told(c, t) \/ toClient[c] # <<>>
<1>1. toServer[c] \in Seq(FromClient(c)) /\ toClient[c] \in Seq(FromServer)
  BY DEF Typed
<1>2. /\ toServer[c] # <<>> => Head(toServer[c]) \in Range(toServer[c])
      /\ toClient[c] # <<>> => Head(toClient[c]) \in Range(toClient[c])
  BY <1>1, HeadTaken
<1>. QED  BY <1>1, <1>2, NothingLeft DEF Says, Told

(* A message of a client is for its own slot.                              *)
LEMMA InfoFacts ==
  ASSUME NEW c \in Clients, NEW msg \in FromClient(c), msg.type = "INFO"
  PROVE  /\ msg.limit \in Limits /\ DOMAIN msg.slots \subseteq Slots
         /\ \A i \in DOMAIN msg.slots : msg.slots[i].who = c /\ msg.slots[i] \in Slot
<1>1. msg \in [type : {"INFO"}, limit : Limits,
               slots : UNION {[D -> {s \in Slot : s.who = c}] : D \in SUBSET Slots}]
  BY DEF FromClient, Msg
<1>2. msg.limit \in Limits
  BY <1>1
<1>3. PICK D \in SUBSET Slots : msg.slots \in [D -> {s \in Slot : s.who = c}]
  BY <1>1
<1>. QED  BY <1>2, <1>3

(* Who is to tell his own is asked for it, or says it.                     *)
LEMMA MenuCases ==
  ASSUME Typed, CalmMenu
  PROVE  /\ conn \subseteq Clients
         /\ \A c \in conn : IF Editing THEN Settled(c) ELSE Follows(c)
<1>1. conn \subseteq Clients
  BY DEF Typed
<1>2. ASSUME NEW c \in conn, Settled(c), ~ Editing PROVE Follows(c)
  <2>1. /\ c \in Clients
        /\ ~ Says(c, "UPDATE") /\ ~ Says(c, "INFO") /\ ~ Told(c, "REQUEST")
    BY <1>1, <1>2 DEF Editing
  <2>2. /\ toServer[c] # <<>> => Head(toServer[c]) \in Range(toServer[c])
        /\ toClient[c] # <<>> => Head(toClient[c]) \in Range(toClient[c])
    BY <2>1, HeadTaken DEF Typed
  <2>3. ~ WillTell(c)
    <3>1. toServer[c] # <<Msg("UPDATE")>>
      <4>1. toServer[c] = <<Msg("UPDATE")>> => Head(toServer[c]).type = "UPDATE"
        BY DEF Msg
      <4>. QED  BY <2>1, <2>2, <4>1 DEF Says
    <3>. QED  BY <2>1, <2>2, <3>1 DEF WillTell, Says, Told
  <2>. QED  BY <1>2, <2>3 DEF Settled, Pending, Follows
<1>. QED  BY <1>1, <1>2 DEF CalmMenu

(* When nothing is under way all have the same game.                       *)
LEMMA QuietSame ==
  ASSUME LobbyInv, Calm, game.calm, Quiet
  PROVE  /\ \A c \in conn : view[c] = Seen(view[Server]) /\ limit[c] = limit[Server]
         /\ \A c \in conn : SlotSame(c) /\ c \in Clients
         /\ \A c \in Clients : toServer[c] = <<>> /\ toClient[c] = <<>>
         /\ ~ dropped
<1>1. /\ Typed /\ Known /\ conn \subseteq Clients /\ view \in [Machines -> [Slots -> Slot]]
      /\ Clients \subseteq Machines /\ Server \in Machines
  BY DEF LobbyInv, Typed, Machines
<1>2. /\ ~ dropped
      /\ \A c \in Clients : toServer[c] = <<>> /\ toClient[c] = <<>>
  BY DEF Quiet
<1>3. \A c \in Clients : \A t : ~ Says(c, t) /\ ~ Told(c, t)
  BY <1>1, <1>2, QueuesOf
<1>4. ASSUME NEW c \in conn
      PROVE  view[c] = Seen(view[Server]) /\ limit[c] = limit[Server]
  <2>1. CASE ~ InMenu(Server)
    BY <2>1 DEF Calm, CalmStarted
  <2>2. CASE InMenu(Server)
    <3>1. ~ Editing
      BY <1>3 DEF Editing
    <3>2. c \in Clients /\ Follows(c)
      BY <1>1, <2>2, <3>1, MenuCases DEF Calm
    <3>3. limit[c] = limit[Server] /\ SlotSame(c)
      BY <1>3, <3>2 DEF Follows
    <3>4. KnownBy(c)
      BY <1>1, <2>2 DEF Known
    <3>5. ASSUME NEW i \in Slots PROVE view[c][i] = Seen(view[Server])[i]
      <4>1. CASE view[Server][i].who = c
        BY <1>1, <3>2, <3>3, <4>1, SeenFacts DEF SlotSame
      <4>2. CASE view[Server][i].who # c
        <5>1. WillSee(c, i, Seen(view[Server])[i])
          BY <1>2, <3>2, <3>4, <4>2, NothingLeft DEF KnownBy
        <5>2. DOMAIN toClient[c] = {}
          BY <1>2, <3>2
        <5>. QED  BY <5>1, <5>2 DEF WillSee
      <4>. QED  BY <4>1, <4>2
    <3>6. view[c] \in [Slots -> Slot] /\ Seen(view[Server]) \in [Slots -> Slot]
      BY <1>1, <3>2, SeenFacts
    <3>. QED  BY <3>3, <3>5, <3>6
  <2>. QED  BY <2>1, <2>2
<1>5. ASSUME NEW c \in conn PROVE SlotSame(c) /\ c \in Clients
  <2>1. c \in Clients /\ view[c] = Seen(view[Server])
    BY <1>1, <1>4
  <2>. QED  BY <1>1, <2>1, SeenFacts DEF SlotSame
<1>. QED  BY <1>2, <1>4, <1>5

LEMMA SameFollows == LobbyInv /\ Calm => SameGame
<1> SUFFICES ASSUME LobbyInv, Calm, game.calm, Quiet, NEW c \in conn
             PROVE  limit[c] = limit[Server] /\ \A i \in Slots : Agrees(c, i)
  BY DEF SameGame
<1>1. view[c] = Seen(view[Server]) /\ limit[c] = limit[Server]
  BY QuietSame
<1>2. \A i \in Slots : view[Server][i] \in Slot
  BY DEF LobbyInv, Typed, Machines
<1>. QED  BY <1>1, <1>2, SeenAgrees

(* Who acts when nothing is under way, and nobody is asked for anything.   *)
LEMMA NobodyAsked ==
  ASSUME conn' \subseteq Clients,
         \A c \in Clients : toServer'[c] = <<>>,
         \A c \in Clients : \A e \in Range(toClient'[c]) :
           e.type = "UPDATE" \/ (e.type = "LIMIT" /\ e.limit = limit'[Server]),
         \A c \in conn' : limit'[c] = limit'[Server] \/ Told(c, "LIMIT")',
         \A c \in conn' : SlotSame(c)' \/ Told(c, "UPDATE")'
  PROVE  CalmMenu'
<1>1. \A c \in Clients : \A t : ~ Says(c, t)'
  BY NothingLeft DEF Says
<1>2. \A c \in Clients : ~ Told(c, "REQUEST")' /\ ~ Told(c, "DATA")'
  BY DEF Told
<1>3. Limited'
  BY NothingLeft DEF Limited
<1>4. Single'
  BY <1>1 DEF Single
<1>5. ~ Editing'
  BY <1>1, <1>2 DEF Editing
<1>6. \A c \in conn' : DataSame(c)'
  BY <1>2 DEF DataSame, Told
<1>7. \A c \in conn' : Follows(c)'
  BY <1>6 DEF Follows
<1>. QED  BY <1>1, <1>3, <1>4, <1>5, <1>7 DEF CalmMenu

(* What a client begins when nothing is under way.                         *)
LEMMA ClientBegins ==
  ASSUME Typed, NEW c \in Clients, conn' \subseteq Clients, ~ dropped',
         \A d \in Clients : toClient'[d] = <<>> /\ (d # c => toServer'[d] = <<>>),
         \/ /\ toServer'[c] = <<Msg("NEW_PLAYER"), Msg("REQUEST")>>
            /\ \A d \in conn' \ {c} : limit'[d] = limit'[Server] /\ SlotSame(d)'
         \/ /\ toServer'[c] = <<Msg("UPDATE")>>
            /\ \A d \in conn' : /\ limit'[d] = limit'[Server]
                                /\ d # c => SlotSame(d)'
            /\ \A i \in Slots : view'[Server][i].who = c <=> view'[c][i].who = c
         \/ /\ toServer'[c] = <<Msg("PLAYER_LEFT")>> /\ c \notin conn'
            /\ \A d \in conn' : limit'[d] = limit'[Server] /\ SlotSame(d)'
  PROVE  CalmMenu'
<1>1. /\ \A t : Msg(t).type = t
      /\ \A t : Range(<<Msg(t)>>) = {Msg(t)}
      /\ \A t, u : Range(<<Msg(t), Msg(u)>>) = {Msg(t), Msg(u)}
  <2>1. \A x, y : Range(<<x>>) = {x} /\ Range(<<x, y>>) = {x, y}
    BY DEF Range
  <2>. QED  BY <2>1 DEF Msg
<1>2. \A d \in Clients : /\ \A t : ~ Told(d, t)' /\ (d # c => ~ Says(d, t)')
                         /\ Range(toClient'[d]) = {}
                         /\ d # c => Range(toServer'[d]) = {}
  BY NothingLeft DEF Says, Told
<1>3. ~ Says(c, "MISSING")' /\ ~ Says(c, "INFO")'
  <2>1. \/ toServer'[c] = <<Msg("NEW_PLAYER"), Msg("REQUEST")>>
        \/ toServer'[c] = <<Msg("UPDATE")>>
        \/ toServer'[c] = <<Msg("PLAYER_LEFT")>>
    OBVIOUS
  <2>2. CASE toServer'[c] = <<Msg("NEW_PLAYER"), Msg("REQUEST")>>
    <3>1. Range(toServer'[c]) = {Msg("NEW_PLAYER"), Msg("REQUEST")}
      BY <1>1, <2>2
    <3>. QED  BY <1>1, <3>1 DEF Says
  <2>3. CASE toServer'[c] = <<Msg("UPDATE")>>
    <3>1. Range(toServer'[c]) = {Msg("UPDATE")}
      BY <1>1, <2>3
    <3>. QED  BY <1>1, <3>1 DEF Says
  <2>4. CASE toServer'[c] = <<Msg("PLAYER_LEFT")>>
    <3>1. Range(toServer'[c]) = {Msg("PLAYER_LEFT")}
      BY <1>1, <2>4
    <3>. QED  BY <1>1, <3>1 DEF Says
  <2>. QED  BY <2>1, <2>2, <2>3, <2>4
<1>4. Limited'
  BY <1>2, <1>3 DEF Limited, Says
<1>5. Single'
  BY <1>2 DEF Single
<1>6. \A d \in Clients : DataSame(d)' /\ InfoSame(d)'
  BY <1>2, <1>3 DEF DataSame, InfoSame, Says
<1>7. CASE /\ toServer'[c] = <<Msg("NEW_PLAYER"), Msg("REQUEST")>>
           /\ \A d \in conn' \ {c} : limit'[d] = limit'[Server] /\ SlotSame(d)'
  <2>1. Says(c, "REQUEST")' /\ ~ Says(c, "UPDATE")' /\ ~ Says(c, "PLAYER_LEFT")'
    BY <1>1, <1>7 DEF Says
  <2>2. ~ Editing'
    BY <1>2, <1>3, <2>1 DEF Editing
  <2>3. \A d \in conn' : Follows(d)'
    BY <1>6, <1>7, <2>1 DEF Follows
  <2>. QED  BY <1>2, <1>3, <1>4, <1>5, <2>2, <2>3 DEF CalmMenu
<1>8. CASE /\ toServer'[c] = <<Msg("UPDATE")>>
           /\ \A d \in conn' : /\ limit'[d] = limit'[Server]
                               /\ d # c => SlotSame(d)'
           /\ \A i \in Slots : view'[Server][i].who = c <=> view'[c][i].who = c
  <2>1. Says(c, "UPDATE")'
    BY <1>1, <1>8 DEF Says
  <2>2. Editing'
    BY <2>1 DEF Editing
  <2>3. Pending(c)'
    BY <1>2, <1>3, <1>8 DEF Pending, WillTell, Says
  <2>4. \A d \in conn' : Settled(d)'
    BY <1>6, <1>8, <2>3 DEF Settled
  <2>. QED  BY <1>2, <1>3, <1>4, <1>5, <2>2, <2>4 DEF CalmMenu
<1>9. CASE /\ toServer'[c] = <<Msg("PLAYER_LEFT")>> /\ c \notin conn'
           /\ \A d \in conn' : limit'[d] = limit'[Server] /\ SlotSame(d)'
  <2>1. Says(c, "PLAYER_LEFT")'
    BY <1>1, <1>9 DEF Says
  <2>2. Editing'
    BY <2>1 DEF Editing
  <2>3. \A d \in conn' : Settled(d)'
    BY <1>6, <1>9 DEF Settled
  <2>. QED  BY <1>2, <1>3, <1>4, <1>5, <2>2, <2>3 DEF CalmMenu
<1>. QED  BY <1>7, <1>8, <1>9

(* When something else is under way nothing begins.                        *)
LEMMA NothingBegins ==
  ASSUME Typed, Single,
         \/ dropped
         \/ \E d \in Clients : toClient[d] # <<>>
         \/ \E d \in Clients : toServer[d] # <<>> /\ Head(toServer[d]).type \notin Begins
  PROVE  \A c \in Clients : \A t \in Begins : ~ Says(c, t)
<1> SUFFICES ASSUME NEW c \in Clients, NEW t \in Begins, Says(c, t) PROVE FALSE
  OBVIOUS
<1>1. /\ toServer[c] \in {<<Msg("NEW_PLAYER"), Msg("REQUEST")>>, <<Msg("UPDATE")>>,
                          <<Msg("PLAYER_LEFT")>>}
      /\ ~ dropped
      /\ \A d \in Clients : toClient[d] = <<>> /\ (d # c => toServer[d] = <<>>)
  BY DEF Single
<1>2. Head(toServer[c]).type \in Begins
  BY <1>1 DEF Msg, Begins
<1>. QED  BY <1>1, <1>2

LEMMA HeadKept ==
  ASSUME NEW S, NEW q \in Seq(S), NEW e \in S, q # <<>>
  PROVE  Append(q, e) # <<>> /\ Head(Append(q, e)) = Head(q)
<1>1. Len(q) \in Nat /\ Len(q) >= 1 /\ Head(q) = q[1]
  BY HeadTaken
<1>2. Append(q, e) \in Seq(S) /\ Append(q, e)[1] = q[1] /\ DOMAIN Append(q, e) = 1 .. Len(q) + 1
  BY <1>1, Appended
<1>3. Append(q, e) # <<>>
  BY <1>1, <1>2
<1>. QED  BY <1>1, <1>2, <1>3, HeadTaken

(* A client that is told something new, of which its own slot is no part.  *)
LEMMA SettledKept ==
  ASSUME Typed, NEW c \in Clients, Settled(c), limit'[Server] = limit[Server],
         limit'[c] = limit[c], view'[c] = view[c], toServer'[c] = toServer[c],
         \/ toClient'[c] = toClient[c]
         \/ \E e \in FromServer : e.type # "DATA" /\ toClient'[c] = Append(toClient[c], e),
         \A i \in Slots : \/ view'[Server][i] = view[Server][i]
                          \/ c \notin {view[Server][i].who, view'[Server][i].who}
  PROVE  Settled(c)'
<1>1. toServer[c] \in Seq(FromClient(c)) /\ toClient[c] \in Seq(FromServer)
  BY DEF Typed
<1>2. \A e \in Range(toClient'[c]) : e \in Range(toClient[c]) \/ e.type # "DATA"
  <2>1. ASSUME NEW e \in FromServer, e.type # "DATA", toClient'[c] = Append(toClient[c], e)
        PROVE  Range(toClient'[c]) = Range(toClient[c]) \cup {e}
    BY <1>1, <2>1, Appended
  <2>. QED  BY <2>1
<1>3. toClient[c] # <<>> => toClient'[c] # <<>> /\ Head(toClient'[c]) = Head(toClient[c])
  BY <1>1, HeadKept
<1>4. limit'[c] = limit'[Server]
  BY DEF Settled
<1>5. CASE SlotSame(c) /\ DataSame(c) /\ InfoSame(c)
  <2>1. SlotSame(c)'
    BY <1>5 DEF SlotSame
  <2>2. DataSame(c)'
    BY <1>2, <1>5 DEF DataSame
  <2>3. ASSUME NEW e \in Range(toServer[c]), e.type = "INFO", NEW i \in DOMAIN e.slots
        PROVE  e.slots[i] = view'[Server][i]
    <3>1. e \in FromClient(c)
      BY <1>1, QueueFacts
    <3>2. i \in Slots /\ e.slots[i].who = c
      BY <2>3, <3>1, InfoFacts
    <3>3. e.slots[i] = view[Server][i]
      BY <1>5, <2>3 DEF InfoSame
    <3>. QED  BY <3>2, <3>3
  <2>4. InfoSame(c)'
    BY <2>3 DEF InfoSame
  <2>. QED  BY <1>4, <2>1, <2>2, <2>4 DEF Settled
<1>6. CASE Pending(c)
  <2>1. \A i \in Slots : view'[Server][i].who = c <=> view'[c][i].who = c
    BY <1>6 DEF Pending
  <2>2. ~ Told(c, "DATA")'
    BY <1>2, <1>6 DEF Pending, Told
  <2>3. \A e \in Range(toServer'[c]) : e.type = "INFO" => e.slots = OwnData(c).slots'
    BY <1>6 DEF Pending, OwnData, Own
  <2>4. WillTell(c)'
    BY <1>3, <1>6 DEF Pending, WillTell
  <2>. QED  BY <1>4, <2>1, <2>2, <2>3, <2>4 DEF Settled, Pending
<1>. QED  BY <1>5, <1>6 DEF Settled

LEMMA FollowsKept ==
  ASSUME Typed, NEW c \in Clients, Follows(c), limit'[Server] = limit[Server],
         limit'[c] = limit[c], view'[c] = view[c],
         Range(toServer[c]) \subseteq Range(toServer'[c]),
         Range(toClient[c]) \subseteq Range(toClient'[c]),
         \A e \in Range(toClient'[c]) : e \in Range(toClient[c]) \/ e.type # "DATA",
         \A i \in Slots : \/ view'[Server][i] = view[Server][i]
                          \/ c \notin {view[Server][i].who, view'[Server][i].who}
  PROVE  Follows(c)'
<1>1. /\ \A t : Told(c, t) => Told(c, t)'
      /\ \A t : Says(c, t) => Says(c, t)'
  BY DEF Told, Says
<1>2. SlotSame(c) => SlotSame(c)'
  BY DEF SlotSame
<1>3. DataSame(c)'
  BY DEF DataSame, Follows
<1>. QED  BY <1>1, <1>2, <1>3 DEF Follows

(* The menu stays calm if nothing new begins and the limit is the server's. *)
LEMMA MenuKept ==
  ASSUME CalmMenu, limit'[Server] = limit[Server],
         \A c \in Clients : \A e \in Range(toClient'[c]) :
           e \in Range(toClient[c]) \/ (e.type \in {"LIMIT", "DATA"} => e.limit = limit[Server]),
         \A c \in Clients : \A e \in Range(toServer'[c]) :
           \/ e \in Range(toServer[c])
           \/ /\ e.type \notin Begins \cup {"MISSING"}
              /\ e.type = "INFO" => e.limit = limit[Server] /\ c \in conn,
         \A c \in Clients : \A t \in Begins : ~ Says(c, t)',
         \A c \in conn \ conn' : \A e \in Range(toServer'[c]) : e.type # "INFO",
         \A c \in conn' : Settled(c)' \/ (~ Editing' /\ Follows(c)')
  PROVE  CalmMenu'
<1>1. Limited'
  BY DEF CalmMenu, Limited
<1>2. Single'
  BY DEF Single
<1>3. \A c \in Clients : ~ Says(c, "MISSING")' /\ (Says(c, "INFO")' => c \in conn')
  BY DEF CalmMenu, Says
<1>. QED  BY <1>1, <1>2, <1>3 DEF CalmMenu

-----------------------------------------------------------------------------
(* The server's menu hears.                                                *)
LEMMA RequestCalm ==
  ASSUME LobbyInv, CalmMenu, NEW c \in Clients, toServer[c] # <<>>,
         Head(toServer[c]).type = "REQUEST", Request(c, Tail(toServer[c]))
  PROVE  CalmMenu'
<1> DEFINE limited == [type |-> "LIMIT", limit |-> limit[Server]]
           data == [type |-> "DATA", limit |-> limit[Server], slots |-> Seen(view[Server])]
<1>1. /\ Typed /\ Placed /\ Server \in Machines /\ conn \subseteq Clients
      /\ limit \in [Machines -> Limits] /\ view \in [Machines -> [Slots -> Slot]]
      /\ c \notin {"open", "closed"}
      /\ \A d \in Clients : toServer[d] \in Seq(FromClient(d)) /\ toClient[d] \in Seq(FromServer)
  BY LobbyAssumption DEF LobbyInv, Typed, Machines, Nobody
<1>2. /\ toClient' = IF c \in conn
                     THEN [Tell(Clients \ {c}, limited) EXCEPT ![c] = Append(@, data)]
                     ELSE Tell(Clients \ {c}, limited)
      /\ toServer' = [toServer EXCEPT ![c] = Tail(toServer[c])]
      /\ UNCHANGED <<view, limit, conn, dropped>>
  BY DEF Request, gameVars
<1>3. /\ limited \in FromServer /\ limited.type = "LIMIT" /\ limited.limit = limit[Server]
      /\ data \in FromServer /\ data.type = "DATA" /\ data.limit = limit[Server]
      /\ data.slots = Seen(view[Server])
  BY <1>1, SeenFacts DEF FromServer
<1> HIDE DEF limited, data
<1>4. \A d \in Clients :
        /\ toServer'[d] = IF d = c THEN Tail(toServer[d]) ELSE toServer[d]
        /\ Range(toServer'[d]) \subseteq Range(toServer[d])
        /\ \A e \in Range(toServer[d]) : e \in Range(toServer'[d]) \/ (d = c /\ e.type = "REQUEST")
  BY <1>1, <1>2, TakenFacts
<1>5. \A d \in Clients :
        /\ toClient'[d] = IF d \notin conn THEN toClient[d]
                          ELSE Append(toClient[d], IF d = c THEN data ELSE limited)
        /\ Range(toClient'[d]) = IF d \notin conn THEN Range(toClient[d])
                                 ELSE Range(toClient[d]) \cup {IF d = c THEN data ELSE limited}
  <2>1. /\ DOMAIN Tell(Clients \ {c}, limited) = Clients
        /\ \A d \in Clients :
             Tell(Clients \ {c}, limited)[d] = IF d # c /\ d \in conn
                                               THEN Append(toClient[d], limited) ELSE toClient[d]
    BY <1>1, <1>3, ToldOthers
  <2>2. \A d \in Clients :
          toClient'[d] = IF d \notin conn THEN toClient[d]
                         ELSE Append(toClient[d], IF d = c THEN data ELSE limited)
    BY <1>2, <2>1
  <2>3. \A d \in Clients :
          /\ Range(Append(toClient[d], data)) = Range(toClient[d]) \cup {data}
          /\ Range(Append(toClient[d], limited)) = Range(toClient[d]) \cup {limited}
    BY <1>1, <1>3, Appended
  <2>. QED  BY <2>2, <2>3
<1>6. \A d \in Clients : \A t \in Begins : ~ Says(d, t) /\ ~ Says(d, t)'
  <2>1. \A d \in Clients : \A t \in Begins : ~ Says(d, t)
    <3>1. "REQUEST" \notin Begins
      BY DEF Begins
    <3>. QED  BY <1>1, <3>1, NothingBegins DEF CalmMenu
  <2>. QED  BY <1>4, <2>1 DEF Says
<1>7. Editing' = Editing
  <2>1. ASSUME NEW d \in Clients, NEW t, t # "REQUEST"
        PROVE  Says(d, t)' = Says(d, t)
    BY <1>4, <2>1 DEF Says
  <2>2. ASSUME NEW d \in Clients PROVE Told(d, "REQUEST")' = Told(d, "REQUEST")
    BY <1>3, <1>5 DEF Told
  <2>. QED  BY <2>1, <2>2 DEF Editing
<1>8. ASSUME NEW d \in conn, d # c
      PROVE  /\ Settled(d) => Settled(d)'
             /\ Follows(d) => Follows(d)'
  <2>1. /\ d \in Clients /\ toServer'[d] = toServer[d]
        /\ toClient'[d] = Append(toClient[d], limited)
        /\ Range(toServer'[d]) = Range(toServer[d])
        /\ Range(toClient'[d]) = Range(toClient[d]) \cup {limited}
    BY <1>1, <1>4, <1>5, <1>8
  <2>2. Settled(d) => Settled(d)'
    BY <1>1, <1>2, <1>3, <2>1, SettledKept
  <2>3. Follows(d) => Follows(d)'
    BY <1>1, <1>2, <1>3, <2>1, FollowsKept
  <2>. QED  BY <2>2, <2>3
<1>9. ASSUME c \in conn, DataSame(c) PROVE DataSame(c)' /\ Told(c, "DATA")'
  <2>1. ASSUME NEW i \in Slots, c \in {view[Server][i].who, data.slots[i].who}
        PROVE  data.slots[i] = view[Server][i]
    BY <1>1, <1>3, <2>1, SeenFacts
  <2>2. \A e \in Range(toClient'[c]) : e \in Range(toClient[c]) \/ e = data
    BY <1>5, <1>9
  <2>3. DataSame(c)'
    BY <1>2, <1>9, <2>1, <2>2 DEF DataSame
  <2>. QED  BY <1>3, <1>5, <1>9, <2>3 DEF Told
<1>10. ASSUME c \in conn, Settled(c) PROVE Settled(c)'
  <2>1. ~ Pending(c)
    <3>1. ~ WillTell(c)
      BY DEF WillTell, Msg
    <3>. QED  BY <3>1 DEF Pending
  <2>2. SlotSame(c) /\ DataSame(c) /\ InfoSame(c) /\ limit[c] = limit[Server]
    BY <1>10, <2>1 DEF Settled
  <2>3. SlotSame(c)' /\ InfoSame(c)'
    BY <1>2, <1>4, <2>2 DEF SlotSame, InfoSame
  <2>. QED  BY <1>2, <1>9, <1>10, <2>2, <2>3 DEF Settled
<1>11. ASSUME c \in conn, Follows(c) PROVE Follows(c)'
  BY <1>9, <1>11 DEF Follows
<1>12. \A d \in conn' : Settled(d)' \/ (~ Editing' /\ Follows(d)')
  <2>1. \A d \in conn : Settled(d) \/ (~ Editing /\ Follows(d))
    BY DEF CalmMenu
  <2>. QED  BY <1>2, <1>7, <1>8, <1>10, <1>11, <2>1
<1>13. \A d \in Clients : \A e \in Range(toClient'[d]) :
         e \in Range(toClient[d]) \/ e.limit = limit[Server]
  BY <1>3, <1>5
<1>. QED  BY <1>2, <1>4, <1>6, <1>12, <1>13, MenuKept

(* What begins is alone.                                                   *)
LEMMA BeginsAlone ==
  ASSUME Typed, Single, NEW c \in Clients, toServer[c] # <<>>, Head(toServer[c]).type \in Begins
  PROVE  /\ ~ dropped
         /\ \A d \in Clients : toClient[d] = <<>> /\ (d # c => toServer[d] = <<>>)
         /\ Tail(toServer[c]) = IF Head(toServer[c]).type = "NEW_PLAYER" THEN <<Msg("REQUEST")>>
                                                                        ELSE <<>>
         /\ Head(toServer[c]).type \in {"UPDATE", "PLAYER_LEFT"} => Editing
         /\ Head(toServer[c]).type = "NEW_PLAYER" => ~ Editing
<1>1. Head(toServer[c]) \in Range(toServer[c])
  BY HeadTaken DEF Typed
<1>2. \E t \in Begins : Says(c, t)
  BY <1>1 DEF Says
<1>3. /\ toServer[c] \in {<<Msg("NEW_PLAYER"), Msg("REQUEST")>>, <<Msg("UPDATE")>>,
                          <<Msg("PLAYER_LEFT")>>}
      /\ ~ dropped
      /\ \A d \in Clients : toClient[d] = <<>> /\ (d # c => toServer[d] = <<>>)
  BY <1>2 DEF Single
<1>4. Tail(toServer[c]) = IF Head(toServer[c]).type = "NEW_PLAYER" THEN <<Msg("REQUEST")>> ELSE <<>>
  <2>1. \A x, y : /\ Head(<<x>>) = x /\ Tail(<<x>>) = <<>>
                  /\ Head(<<x, y>>) = x /\ Tail(<<x, y>>) = <<y>>
    OBVIOUS
  <2>2. \A t : Msg(t).type = t
    BY DEF Msg
  <2>3. CASE toServer[c] = <<Msg("NEW_PLAYER"), Msg("REQUEST")>>
    BY <2>1, <2>2, <2>3
  <2>4. CASE toServer[c] = <<Msg("UPDATE")>>
    BY <2>1, <2>2, <2>4
  <2>5. CASE toServer[c] = <<Msg("PLAYER_LEFT")>>
    BY <2>1, <2>2, <2>5
  <2>. QED  BY <1>3, <2>3, <2>4, <2>5
<1>5. Head(toServer[c]).type \in {"UPDATE", "PLAYER_LEFT"} => Editing
  BY <1>1 DEF Editing, Says
<1>6. ASSUME Head(toServer[c]).type = "NEW_PLAYER" PROVE ~ Editing
  <2>1. toServer[c] = <<Msg("NEW_PLAYER"), Msg("REQUEST")>>
    BY <1>3, <1>6 DEF Msg
  <2>2. Range(toServer[c]) = {Msg("NEW_PLAYER"), Msg("REQUEST")}
    BY <2>1 DEF Range
  <2>3. \A d \in Clients : \A t : ~ Told(d, t) /\ (d # c => ~ Says(d, t))
    BY <1>3, NothingLeft DEF Told, Says
  <2>4. ~ Says(c, "UPDATE") /\ ~ Says(c, "PLAYER_LEFT") /\ ~ Says(c, "INFO")
    BY <2>2 DEF Says, Msg
  <2>. QED  BY <2>3, <2>4 DEF Editing
<1>. QED  BY <1>3, <1>4, <1>5, <1>6

LEMMA UpdateCalm ==
  ASSUME LobbyInv, CalmMenu, NEW c \in Clients, toServer[c] # <<>>,
         Head(toServer[c]).type = "UPDATE", Update(c, Tail(toServer[c]))
  PROVE  CalmMenu'
<1>1. /\ Typed /\ Placed /\ conn \subseteq Clients
      /\ \A d \in Clients : toServer[d] \in Seq(FromClient(d)) /\ toClient[d] \in Seq(FromServer)
  BY DEF LobbyInv, Typed
<1>2. /\ toClient' = Tell(Clients, Msg("REQUEST"))
      /\ toServer' = [toServer EXCEPT ![c] = Tail(toServer[c])]
      /\ UNCHANGED <<view, limit, conn, dropped>>
      /\ Msg("REQUEST") \in FromServer /\ Msg("REQUEST").type = "REQUEST"
  BY Said DEF Update, gameVars
<1>3. /\ Editing /\ Tail(toServer[c]) = <<>>
      /\ \A d \in Clients : toClient[d] = <<>> /\ (d # c => toServer[d] = <<>>)
  BY <1>1, BeginsAlone DEF CalmMenu, Begins
<1>4. \A d \in Clients : toServer'[d] = <<>>
  <2>1. \A d \in Clients : toServer'[d] = IF d = c THEN Tail(toServer[d]) ELSE toServer[d]
    BY <1>1, <1>2, TakenFacts
  <2>. QED  BY <1>3, <2>1
<1>5. \A d \in conn : toClient'[d] = <<Msg("REQUEST")>>
  <2>1. \A d \in conn : toClient'[d] = Append(<<>>, Msg("REQUEST"))
    BY <1>1, <1>2, <1>3, ToldAll
  <2>. QED  BY <2>1
<1>6. \A d \in Clients : \A e \in Range(toClient'[d]) : e.type = "REQUEST"
  <2>1. \A d \in Clients : Range(toClient'[d]) = IF d \in conn THEN Range(toClient[d]) \cup {Msg("REQUEST")}
                                                              ELSE Range(toClient[d])
    BY <1>1, <1>2, ToldAll
  <2>. QED  BY <1>2, <1>3, <2>1, NothingLeft
<1>7. \A d \in Clients : \A t : ~ Says(d, t)'
  BY <1>4, NothingLeft DEF Says
<1>8. ASSUME NEW d \in conn PROVE Settled(d)'
  <2>1. d \in Clients /\ Settled(d)
    BY <1>1, <1>3, <1>8, MenuCases
  <2>2. ~ Told(d, "DATA")' /\ DataSame(d)' /\ InfoSame(d)'
    BY <1>6, <1>7, <2>1 DEF Told, Says, DataSame, InfoSame
  <2>3. SlotSame(d) => SlotSame(d)'
    BY <1>2 DEF SlotSame
  <2>4. Pending(d) => Pending(d)'
    <3>1. WillTell(d)'
      <4>1. \A x : <<x>> # <<>> /\ Head(<<x>>) = x
        OBVIOUS
      <4>2. toServer'[d] = <<>> /\ toClient'[d] = <<Msg("REQUEST")>>
        BY <1>2, <1>4, <1>5, <2>1
      <4>3. toClient'[d] # <<>> /\ Head(toClient'[d]).type = "REQUEST"
        BY <1>2, <4>1, <4>2
      <4>. QED  BY <4>2, <4>3 DEF WillTell
    <3>2. \A e \in Range(toServer'[d]) : FALSE
      BY <1>4, <2>1, NothingLeft
    <3>. QED  BY <1>2, <2>2, <3>1, <3>2 DEF Pending
  <2>. QED  BY <1>2, <2>1, <2>2, <2>3, <2>4 DEF Settled
<1>9. \A d \in Clients : \A e \in Range(toServer'[d]) : FALSE
  BY <1>4, NothingLeft
<1>. QED  BY <1>2, <1>6, <1>7, <1>8, <1>9, MenuKept

(* What c says of its own slot is what the server has, or it knows better. *)
LEMMA InfoCalm ==
  ASSUME LobbyInv, CalmMenu, NEW c \in Clients, toServer[c] # <<>>,
         Head(toServer[c]).type = "INFO", Info(c, Tail(toServer[c]), Head(toServer[c]))
  PROVE  CalmMenu'
<1> DEFINE msg == Head(toServer[c])
<1>1. /\ Typed /\ Placed /\ Server \in Machines /\ Server \notin Clients /\ conn \subseteq Clients
      /\ limit \in [Machines -> Limits] /\ view \in [Machines -> [Slots -> Slot]]
      /\ Clients \subseteq Machines
      /\ \A d \in Clients : toServer[d] \in Seq(FromClient(d)) /\ toClient[d] \in Seq(FromServer)
  BY LobbyAssumption DEF LobbyInv, Typed, Machines
<1>2. /\ view' = [view EXCEPT ![Server] = [i \in Slots |->
                    IF i \in DOMAIN msg.slots THEN msg.slots[i] ELSE @[i]]]
      /\ limit' = [limit EXCEPT ![Server] = msg.limit]
      /\ toClient' = toClient \/ toClient' = Tell(Clients \ {c}, Msg("UPDATE"))
      /\ toServer' = [toServer EXCEPT ![c] = Tail(toServer[c])]
      /\ UNCHANGED <<conn, dropped>>
      /\ Msg("UPDATE") \in FromServer /\ Msg("UPDATE").type = "UPDATE"
      /\ msg.type = "INFO"
  BY Said DEF Info
<1>3. /\ msg \in FromClient(c) /\ msg \in Range(toServer[c])
      /\ \A d \in Clients :
           /\ toServer'[d] = IF d = c THEN Tail(toServer[d]) ELSE toServer[d]
           /\ Range(toServer'[d]) \subseteq Range(toServer[d])
  BY <1>1, <1>2, TakenFacts
<1> HIDE DEF msg
<1>4. /\ Editing /\ c \in conn /\ msg.limit = limit[Server]
      /\ \A d \in conn : Settled(d) /\ d \in Clients
      /\ Limited /\ Single
  <2>1. Says(c, "INFO")
    BY <1>2, <1>3 DEF Says
  <2>2. Editing
    BY <2>1 DEF Editing
  <2>. QED  BY <1>1, <1>2, <1>3, <2>1, <2>2, MenuCases DEF CalmMenu, Limited
<1>5. /\ \A d \in Clients : view'[d] = view[d]
      /\ \A m \in Machines : limit'[m] = limit[m]
      /\ \A i \in Slots : view'[Server][i] = IF i \in DOMAIN msg.slots THEN msg.slots[i]
                                                                      ELSE view[Server][i]
  BY <1>1, <1>2, <1>4
<1>6. \A i \in DOMAIN msg.slots : i \in Slots /\ msg.slots[i].who = c
  BY <1>2, <1>3, InfoFacts
<1>7. \A d \in Clients : \/ toClient'[d] = toClient[d]
                         \/ d # c /\ toClient'[d] = Append(toClient[d], Msg("UPDATE"))
  <2>1. \A d \in Clients :
          Tell(Clients \ {c}, Msg("UPDATE"))[d] = IF d # c /\ d \in conn
                                                  THEN Append(toClient[d], Msg("UPDATE"))
                                                  ELSE toClient[d]
    <3>1. Typed /\ Msg("UPDATE") \in FromServer
      BY <1>1, <1>2
    <3>. QED  BY <3>1, ToldOthers
  <2>. QED  BY <1>2, <2>1
<1>8. \A d \in Clients : \A e \in Range(toClient'[d]) : e \in Range(toClient[d]) \/ e.type = "UPDATE"
  <2>1. \A d \in Clients : Range(Append(toClient[d], Msg("UPDATE")))
                            = Range(toClient[d]) \cup {Msg("UPDATE")}
    BY <1>1, <1>2, Appended
  <2>. QED  BY <1>2, <1>7, <2>1
<1>9. \A d \in Clients : \A t \in Begins : ~ Says(d, t)'
  <2>1. \A d \in Clients : \A t \in Begins : ~ Says(d, t)
    <3>1. "INFO" \notin Begins
      BY DEF Begins
    <3>. QED  BY <1>1, <1>2, <1>4, <3>1, NothingBegins DEF msg
  <2>. QED  BY <1>3, <2>1 DEF Says
<1>10. \A i \in Slots : \/ view'[Server][i] = view[Server][i]
                        \/ view[Server][i].who = c /\ view'[Server][i].who = c
  <2>1. CASE InfoSame(c)
    BY <1>2, <1>3, <1>5, <2>1 DEF InfoSame
  <2>2. CASE Pending(c)
    <3>1. msg.slots = OwnData(c).slots
      BY <1>2, <1>3, <2>2 DEF Pending
    <3>2. DOMAIN msg.slots = Own(c)
      BY <3>1 DEF OwnData
    <3>3. \A i \in DOMAIN msg.slots : view[Server][i].who = c
      BY <1>6, <2>2, <3>2 DEF Pending, Own
    <3>. QED  BY <1>5, <1>6, <3>3
  <2>. QED  BY <1>4, <2>1, <2>2 DEF Settled
<1>11. ASSUME NEW d \in conn, d # c PROVE Settled(d)'
  <2>1. d \in Clients /\ Settled(d) /\ toServer'[d] = toServer[d] /\ d \in Machines
    BY <1>1, <1>3, <1>4, <1>11
  <2>2. \A i \in Slots : \/ view'[Server][i] = view[Server][i]
                         \/ d \notin {view[Server][i].who, view'[Server][i].who}
    BY <1>10, <1>11
  <2>3. \/ toClient'[d] = toClient[d]
        \/ \E e \in FromServer : e.type # "DATA" /\ toClient'[d] = Append(toClient[d], e)
    BY <1>2, <1>7, <2>1
  <2>. QED  BY <1>1, <1>5, <2>1, <2>2, <2>3, SettledKept
<1>12. Settled(c)'
  <2>1. limit'[c] = limit'[Server] /\ toClient'[c] = toClient[c] /\ view'[c] = view[c]
    BY <1>1, <1>4, <1>5, <1>7 DEF Settled
  <2>2. CASE SlotSame(c) /\ DataSame(c) /\ InfoSame(c)
    <3>1. \A i \in Slots : view'[Server][i] = view[Server][i]
      BY <1>2, <1>3, <1>5, <2>2 DEF InfoSame
    <3>2. SlotSame(c)' /\ DataSame(c)'
      BY <2>1, <2>2, <3>1 DEF SlotSame, DataSame
    <3>3. ASSUME NEW e \in Range(toServer'[c]), e.type = "INFO", NEW i \in DOMAIN e.slots
          PROVE  e.slots[i] = view'[Server][i]
      <4>1. e \in Range(toServer[c]) /\ e \in FromClient(c)
        BY <1>1, <1>3, QueueFacts
      <4>2. i \in Slots
        BY <3>3, <4>1, InfoFacts
      <4>. QED  BY <2>2, <3>1, <3>3, <4>1, <4>2 DEF InfoSame
    <3>. QED  BY <2>1, <3>2, <3>3 DEF Settled, InfoSame
  <2>3. CASE Pending(c)
    <3>1. msg.slots = OwnData(c).slots
      BY <1>2, <1>3, <2>3 DEF Pending
    <3>2. DOMAIN msg.slots = Own(c) /\ \A i \in Own(c) : msg.slots[i] = view[c][i]
      BY <3>1 DEF OwnData
    <3>3. \A i \in Own(c) : view'[Server][i] = view[c][i]
      BY <1>5, <1>6, <3>2
    <3>4. ASSUME NEW i \in Slots, c \in {view'[Server][i].who, view'[c][i].who}
          PROVE  i \in Own(c)
      BY <1>10, <2>1, <2>3, <3>4 DEF Pending, Own
    <3>5. SlotSame(c)'
      BY <2>1, <3>3, <3>4 DEF SlotSame
    <3>6. DataSame(c)'
      BY <2>1, <2>3 DEF DataSame, Pending, Told
    <3>7. \A e \in Range(toServer'[c]) : e.type = "INFO" => e.slots = OwnData(c).slots
      BY <1>3, <2>3 DEF Pending
    <3>8. \A i \in DOMAIN OwnData(c).slots : OwnData(c).slots[i] = view'[Server][i]
      BY <3>1, <3>2, <3>3
    <3>9. InfoSame(c)'
      BY <3>7, <3>8 DEF InfoSame
    <3>. QED  BY <2>1, <3>5, <3>6, <3>9 DEF Settled
  <2>. QED  BY <1>4, <2>2, <2>3 DEF Settled
<1>13. limit'[Server] = limit[Server] /\ conn' = conn
  BY <1>1, <1>2, <1>5
<1>. QED  BY <1>3, <1>8, <1>9, <1>11, <1>12, <1>13, MenuKept

LEMMA PlayerLeftCalm ==
  ASSUME LobbyInv, CalmMenu, NEW c \in Clients, toServer[c] # <<>>,
         Head(toServer[c]).type = "PLAYER_LEFT", PlayerLeft(c, Tail(toServer[c]))
  PROVE  CalmMenu'
<1> DEFINE told == Tell(Clients \ {c}, Msg("REQUEST"))
<1>1. /\ Typed /\ Server \in Machines /\ Server \notin Clients /\ conn \subseteq Clients
      /\ view \in [Machines -> [Slots -> Slot]] /\ Clients \subseteq Machines
      /\ c \notin Nobody
      /\ \A d \in Clients : toServer[d] \in Seq(FromClient(d)) /\ toClient[d] \in Seq(FromServer)
  BY LobbyAssumption DEF LobbyInv, Typed, Machines, Nobody
<1>2. /\ CutConnection(c, Tail(toServer[c]), told)
      /\ view' = [view EXCEPT ![Server] = [i \in Slots |->
                    IF view[Server][i].who = c THEN [view[Server][i] EXCEPT !.who = "open"]
                                               ELSE view[Server][i]]]
      /\ limit' = limit
      /\ Msg("REQUEST") \in FromServer /\ Msg("REQUEST").type = "REQUEST"
  BY Said DEF PlayerLeft
<1>3. /\ Editing /\ Tail(toServer[c]) = <<>>
      /\ \A d \in Clients : toClient[d] = <<>> /\ (d # c => toServer[d] = <<>>)
  BY <1>1, BeginsAlone DEF CalmMenu, Begins
<1>4. /\ DOMAIN told = Clients
      /\ \A d \in Clients : /\ told[d] \in Seq(FromServer)
                            /\ \A e \in Range(told[d]) : e.type = "REQUEST"
  <2>1. /\ DOMAIN told = Clients
        /\ \A d \in Clients :
             /\ told[d] \in Seq(FromServer)
             /\ Range(told[d]) = IF d # c /\ d \in conn THEN Range(toClient[d]) \cup {Msg("REQUEST")}
                                                       ELSE Range(toClient[d])
    <3>1. Typed /\ Msg("REQUEST") \in FromServer
      BY <1>1, <1>2
    <3>. QED  BY <3>1, ToldOthers
  <2>. QED  BY <1>2, <1>3, <2>1, NothingLeft
<1>5. <<>> \in Seq(FromClient(c)) /\ CutConnection(c, <<>>, told)
  BY <1>1, <1>2, <1>3, LeftOver
<1> HIDE DEF told
<1>6. /\ conn' = conn \ {c}
      /\ \A d \in Clients : /\ toServer'[d] \in Seq(FromClient(d))
                            /\ toClient'[d] = IF d = c THEN <<>> ELSE told[d]
                            /\ d # c => toServer'[d] = toServer[d]
      /\ LeftOf(toServer'[c], <<>>)
  <2>1. \A d \in Clients : told[d] \in Seq(FromServer)
    BY <1>4
  <2>2. ASSUME NEW q \in Seq(FromClient(c)), CutConnection(c, q, told)
        PROVE  /\ conn' = conn \ {c}
               /\ \A d \in Clients : /\ toServer'[d] \in Seq(FromClient(d))
                                     /\ toClient'[d] = IF d = c THEN <<>> ELSE told[d]
                                     /\ d # c => toServer'[d] = toServer[d]
               /\ LeftOf(toServer'[c], q)
    <3>1. Typed /\ DOMAIN told = Clients
      BY <1>1, <1>4
    <3>. QED  BY <2>1, <2>2, <3>1, CutFacts
  <2>. QED  BY <1>5, <2>2
<1>7. \A d \in Clients : toServer'[d] = <<>>
  <2>1. Range(toServer'[c]) \subseteq Range(<<>>)
    BY <1>5, <1>6, LeftIn
  <2>2. toServer'[c] = <<>>
    BY <1>6, <2>1, NothingLeft, QueueFacts, HeadTaken
  <2>. QED  BY <1>3, <1>6, <2>2
<1>8. \A d \in Clients : /\ \A t : ~ Says(d, t)'
                         /\ \A e \in Range(toServer'[d]) : FALSE
                         /\ \A e \in Range(toClient'[d]) : e.type = "REQUEST"
  BY <1>4, <1>6, <1>7, NothingLeft DEF Says
<1>9. ASSUME NEW d \in conn' PROVE Settled(d)'
  <2>1. d \in Clients /\ d # c /\ d \in conn /\ Settled(d)
    BY <1>1, <1>3, <1>6, MenuCases
  <2>2. SlotSame(d) /\ limit[d] = limit[Server]
    <3>1. ~ WillTell(d)
      <4>1. \A x : <<x>> # <<>>
        OBVIOUS
      <4>. QED  BY <1>3, <2>1, <4>1 DEF WillTell
    <3>. QED  BY <2>1, <3>1 DEF Settled, Pending
  <2>3. view'[d] = view[d]
    BY <1>1, <1>2, <2>1
  <2>4. SlotSame(d)'
    <3>1. ASSUME NEW i \in Slots, d \in {view'[Server][i].who, view[d][i].who}
          PROVE  view[d][i] = view'[Server][i]
      <4>1. view'[Server][i] = IF view[Server][i].who = c
                               THEN [view[Server][i] EXCEPT !.who = "open"] ELSE view[Server][i]
        BY <1>1, <1>2
      <4>2. view[Server][i] \in Slot
        BY <1>1
      <4>3. CASE view[Server][i].who = c
        <5>1. view'[Server][i].who = "open" /\ d # "open"
          BY <1>1, <2>1, <4>1, <4>2, <4>3, LobbyAssumption DEF Slot, Nobody, Machines
        <5>2. view[d][i].who = d
          BY <3>1, <5>1
        <5>. QED  BY <2>1, <2>2, <4>3, <5>2 DEF SlotSame
      <4>4. CASE view[Server][i].who # c
        BY <2>2, <3>1, <4>1, <4>4 DEF SlotSame
      <4>. QED  BY <4>3, <4>4
    <3>. QED  BY <2>3, <3>1 DEF SlotSame
  <2>5. DataSame(d)' /\ InfoSame(d)'
    BY <1>8, <2>1 DEF DataSame, InfoSame
  <2>. QED  BY <1>2, <2>2, <2>4, <2>5 DEF Settled
<1>10. \A d \in Clients : \A e \in Range(toClient'[d]) :
         e \in Range(toClient[d]) \/ e.type \notin {"LIMIT", "DATA"}
  BY <1>8
<1>. QED  BY <1>1, <1>2, <1>8, <1>9, <1>10, MenuKept

LEMMA NewPlayerCalm ==
  ASSUME LobbyInv, CalmMenu, NEW c \in Clients, toServer[c] # <<>>,
         Head(toServer[c]).type = "NEW_PLAYER", NewPlayer(c, Tail(toServer[c]))
  PROVE  CalmMenu'
<1> DEFINE rest == Tail(toServer[c])
<1>1. /\ Typed /\ Placed /\ Server \in Machines /\ Server \notin Clients /\ conn \subseteq Clients
      /\ view \in [Machines -> [Slots -> Slot]] /\ Clients \subseteq Machines
      /\ DOMAIN toClient = Clients
      /\ \A d \in Clients : toServer[d] \in Seq(FromClient(d)) /\ toClient[d] \in Seq(FromServer)
  BY LobbyAssumption DEF LobbyInv, Typed, Machines
<1>2. \/ /\ FirstOpen = {} /\ CutConnection(c, rest, toClient) /\ UNCHANGED <<view, limit>>
      \/ /\ view' = [view EXCEPT ![Server] =
                       [i \in Slots |-> IF i \in FirstOpen THEN [view[Server][i] EXCEPT !.who = c]
                                                           ELSE view[Server][i]]]
         /\ toClient' = Tell(Clients \ {c}, Msg("UPDATE"))
         /\ toServer' = [toServer EXCEPT ![c] = rest]
         /\ UNCHANGED <<limit, conn, dropped>>
  BY DEF NewPlayer, gameVars
<1>3. /\ ~ Editing /\ rest = <<Msg("REQUEST")>>
      /\ \A d \in Clients : toClient[d] = <<>> /\ (d # c => toServer[d] = <<>>)
  BY <1>1, BeginsAlone DEF CalmMenu, Begins
<1>4. \A e \in Range(rest) : e.type = "REQUEST"
  <2>1. Range(<<Msg("REQUEST")>>) = {Msg("REQUEST")}
    BY DEF Range
  <2>2. Msg("REQUEST").type = "REQUEST"
    BY DEF Msg
  <2>3. Range(rest) = {Msg("REQUEST")}
    BY <1>3, <2>1
  <2>. QED  BY <2>2, <2>3
<1>5. rest \in Seq(FromClient(c)) /\ Range(rest) \subseteq Range(toServer[c])
  BY <1>1, HeadTaken
<1>6. \A d \in conn : Follows(d) /\ d \in Clients
  BY <1>1, <1>3, MenuCases
<1>7. /\ Msg("UPDATE") \in FromServer /\ Msg("UPDATE").type = "UPDATE"
      /\ Msg("REQUEST").type = "REQUEST"
  BY Said DEF Msg
<1> HIDE DEF rest
<1>8. \A d \in Clients : ~ Editing /\ \A t : ~ Told(d, t) /\ (d # c => ~ Says(d, t))
  BY <1>3, NothingLeft DEF Told, Says
<1>9. ASSUME FirstOpen = {}, CutConnection(c, rest, toClient), UNCHANGED <<view, limit>>
      PROVE  CalmMenu'
  <2>1. \A d \in Clients : toClient[d] \in Seq(FromServer)
    BY <1>1
  <2>2. /\ conn' = conn \ {c}
        /\ \A d \in Clients : /\ toServer'[d] \in Seq(FromClient(d))
                              /\ toClient'[d] = IF d = c THEN <<>> ELSE toClient[d]
                              /\ d # c => toServer'[d] = toServer[d]
        /\ LeftOf(toServer'[c], rest)
    BY <1>1, <1>5, <1>9, <2>1, CutFacts
  <2>3. Range(toServer'[c]) \subseteq Range(rest)
    BY <1>5, <2>2, LeftIn
  <2>4. \A d \in Clients : /\ \A e \in Range(toServer'[d]) : e.type = "REQUEST"
                           /\ \A e \in Range(toClient'[d]) : FALSE
    BY <1>3, <1>4, <2>2, <2>3, NothingLeft
  <2>5. /\ ~ Editing'
        /\ \A d \in Clients : \A t \in Begins : ~ Says(d, t)'
    BY <2>4 DEF Editing, Says, Told, Begins
  <2>6. ASSUME NEW d \in conn' PROVE Follows(d)'
    <3>1. /\ d \in Clients /\ d # c /\ Follows(d) /\ toServer'[d] = toServer[d]
          /\ toClient'[d] = toClient[d]
      BY <1>6, <2>2
    <3>2. /\ Range(toServer'[d]) = Range(toServer[d]) /\ Range(toClient'[d]) = Range(toClient[d])
          /\ view' = view /\ limit' = limit
      BY <1>9, <3>1
    <3>. QED  BY <1>1, <3>1, <3>2, FollowsKept
  <2>7. /\ \A d \in Clients : \A e \in Range(toServer'[d]) :
             e.type \notin Begins \cup {"MISSING"} /\ e.type # "INFO"
        /\ conn \subseteq Clients /\ limit'[Server] = limit[Server]
    BY <1>1, <1>9, <2>4 DEF Begins
  <2>8. \A d \in conn' : Settled(d)' \/ (~ Editing' /\ Follows(d)')
    BY <2>5, <2>6
  <2>. QED  BY <2>4, <2>5, <2>7, <2>8, MenuKept
<1>10. ASSUME view' = [view EXCEPT ![Server] =
                         [i \in Slots |-> IF i \in FirstOpen THEN [view[Server][i] EXCEPT !.who = c]
                                                             ELSE view[Server][i]]],
              toClient' = Tell(Clients \ {c}, Msg("UPDATE")),
              toServer' = [toServer EXCEPT ![c] = rest],
              UNCHANGED <<limit, conn, dropped>>
       PROVE  CalmMenu'
  <2>1. \A d \in Clients : toServer'[d] = IF d = c THEN rest ELSE toServer[d]
    <3>1. DOMAIN toServer = Clients
      BY <1>1 DEF Typed
    <3>. QED  BY <1>10, <3>1
  <2>2. \A d \in Clients :
          Range(toClient'[d]) = IF d # c /\ d \in conn THEN Range(toClient[d]) \cup {Msg("UPDATE")}
                                                       ELSE Range(toClient[d])
    <3>1. \A d \in Clients : Range(Tell(Clients \ {c}, Msg("UPDATE"))[d])
            = IF d # c /\ d \in conn THEN Range(toClient[d]) \cup {Msg("UPDATE")}
                                     ELSE Range(toClient[d])
      <4>1. Typed /\ Msg("UPDATE") \in FromServer
        BY <1>1, <1>7
      <4>. QED  BY <4>1, ToldOthers
    <3>. QED  BY <1>10, <3>1
  <2>3. /\ \A d \in Clients : /\ \A e \in Range(toServer'[d]) : e.type = "REQUEST"
                              /\ \A e \in Range(toClient'[d]) : e.type = "UPDATE"
        /\ \A d \in conn \ {c} : Told(d, "UPDATE")'
        /\ Says(c, "REQUEST")'
    <3>1. Msg("REQUEST") \in Range(rest)
      BY <1>3 DEF Range
    <3>2. Says(c, "REQUEST")'
      BY <1>7, <2>1, <3>1 DEF Says
    <3>3. \A d \in conn \ {c} : Told(d, "UPDATE")'
      BY <1>1, <1>7, <2>2 DEF Told
    <3>. QED  BY <1>3, <1>4, <1>7, <2>1, <2>2, <3>2, <3>3, NothingLeft
  <2>4. /\ ~ Editing'
        /\ \A d \in Clients : \A t \in Begins : ~ Says(d, t)'
    BY <2>3 DEF Editing, Says, Told, Begins
  <2>5. ASSUME NEW d \in conn' PROVE Follows(d)'
    <3>1. d \in Clients /\ d \in conn /\ Follows(d)
      BY <1>6, <1>10
    <3>2. DataSame(d)'
      BY <2>3, <3>1 DEF DataSame
    <3>3. limit'[d] = limit'[Server] \/ Says(d, "REQUEST")'
      BY <1>8, <1>10, <2>3, <3>1 DEF Follows
    <3>4. Told(d, "UPDATE")' \/ Says(d, "REQUEST")'
      BY <2>3, <3>1
    <3>. QED  BY <3>2, <3>3, <3>4 DEF Follows
  <2>. QED  BY <1>10, <2>3, <2>4, <2>5, MenuKept
<1>. QED  BY <1>2, <1>9, <1>10

LEMMA ServerHearsCalm ==
  ASSUME LobbyInv, CalmMenu, NEW c \in Clients, ServerHears(c)
  PROVE  CalmMenu'
BY NewPlayerCalm, RequestCalm, UpdateCalm, InfoCalm, PlayerLeftCalm DEF ServerHears

LEMMA NoticesDroppedCalm ==
  ASSUME LobbyInv, CalmMenu, NoticesDropped
  PROVE  CalmMenu'
<1>1. /\ Typed /\ Server \in Machines /\ Server \notin Clients /\ conn \subseteq Clients
      /\ view \in [Machines -> [Slots -> Slot]] /\ Clients \subseteq Machines
      /\ "open" \notin Clients
      /\ \A d \in Clients : toServer[d] \in Seq(FromClient(d)) /\ toClient[d] \in Seq(FromServer)
  BY LobbyAssumption DEF LobbyInv, Typed, Machines, Nobody
<1>2. /\ dropped
      /\ view' = [view EXCEPT ![Server] = [i \in Slots |->
                    IF view[Server][i].who \in Clients \ conn
                    THEN [view[Server][i] EXCEPT !.who = "open", !.choice = 0, !.named = FALSE]
                    ELSE view[Server][i]]]
      /\ toClient' = Tell(Clients, Msg("UPDATE"))
      /\ UNCHANGED <<limit, conn, toServer>>
      /\ Msg("UPDATE") \in FromServer /\ Msg("UPDATE").type = "UPDATE"
  BY Said DEF NoticesDropped
<1>3. /\ \A m \in Clients : view'[m] = view[m]
      /\ \A i \in Slots : \/ view'[Server][i] = view[Server][i]
                          \/ /\ view[Server][i].who \notin conn
                             /\ view'[Server][i].who = "open"
  <2>1. \A s \in Slot : [s EXCEPT !.who = "open", !.choice = 0, !.named = FALSE].who = "open"
    BY DEF Slot
  <2>2. \A i \in Slots : view[Server][i] \in Slot
    BY <1>1
  <2>. QED  BY <1>1, <1>2, <2>1, <2>2
<1>4. \A d \in conn : /\ d \in Clients /\ d \in Machines
                      /\ \A i \in Slots : \/ view'[Server][i] = view[Server][i]
                                          \/ d \notin {view[Server][i].who, view'[Server][i].who}
  BY <1>1, <1>3
<1>5. \A d \in conn : toClient'[d] = Append(toClient[d], Msg("UPDATE"))
  BY <1>1, <1>2, ToldAll
<1>6. \A d \in Clients : Range(toClient'[d]) = IF d \in conn THEN Range(toClient[d]) \cup {Msg("UPDATE")}
                                                            ELSE Range(toClient[d])
  BY <1>1, <1>2, ToldAll
<1>7. \A d \in Clients : \A t \in Begins : ~ Says(d, t)'
  <2>1. \A d \in Clients : \A t \in Begins : ~ Says(d, t)
    BY <1>1, <1>2, NothingBegins DEF CalmMenu
  <2>. QED  BY <1>2, <2>1 DEF Says
<1>8. Editing' = Editing
  <2>1. \A d \in Clients : Told(d, "REQUEST")' = Told(d, "REQUEST")
    BY <1>2, <1>6 DEF Told
  <2>. QED  BY <1>2, <2>1 DEF Editing, Says
<1>9. ASSUME NEW d \in conn' PROVE Settled(d)' \/ (~ Editing' /\ Follows(d)')
  <2>1. d \in Clients /\ d \in conn /\ (Settled(d) \/ (~ Editing /\ Follows(d)))
    BY <1>1, <1>2 DEF CalmMenu
  <2>2. Settled(d) => Settled(d)'
    BY <1>1, <1>2, <1>3, <1>4, <1>5, <2>1, SettledKept
  <2>3. /\ Range(toServer[d]) \subseteq Range(toServer'[d])
        /\ Range(toClient[d]) \subseteq Range(toClient'[d])
        /\ \A e \in Range(toClient'[d]) : e \in Range(toClient[d]) \/ e.type # "DATA"
    BY <1>2, <1>6, <2>1
  <2>4. Follows(d) => Follows(d)'
    BY <1>1, <1>2, <1>3, <1>4, <2>1, <2>3, FollowsKept
  <2>. QED  BY <1>8, <2>1, <2>2, <2>4
<1>10. \A d \in Clients : \A e \in Range(toClient'[d]) :
         e \in Range(toClient[d]) \/ e.type = "UPDATE"
  BY <1>2, <1>6
<1>. QED  BY <1>2, <1>7, <1>9, <1>10, MenuKept

-----------------------------------------------------------------------------
(* A client's menu hears: of the server's game, or that it is to tell its  *)
(* own.                                                                    *)
LEMMA ClientHearsCalm ==
  ASSUME LobbyInv, CalmMenu, InMenu(Server), NEW c \in Clients, ClientHears(c)
  PROVE  CalmMenu'
<1> DEFINE msg == Head(toClient[c])
           said == IF msg.type = "UPDATE" THEN Msg("REQUEST") ELSE OwnData(c)
<1>1. /\ Typed /\ Together /\ Server \notin Clients /\ conn \subseteq Clients
      /\ Clients \subseteq Machines /\ Server \in Machines
      /\ view \in [Machines -> [Slots -> Slot]] /\ limit \in [Machines -> Limits]
      /\ DOMAIN toClient = Clients
      /\ \A d \in Clients : toServer[d] \in Seq(FromClient(d)) /\ toClient[d] \in Seq(FromServer)
  BY LobbyAssumption DEF LobbyInv, Typed, Machines
<1>2. /\ toClient[c] # <<>>
      /\ toClient' = [toClient EXCEPT ![c] = Tail(toClient[c])]
      /\ \/ /\ msg.type \in {"UPDATE", "REQUEST"} /\ Ask(c, said) /\ UNCHANGED <<view, limit>>
         \/ /\ msg.type = "LIMIT" /\ limit' = [limit EXCEPT ![c] = msg.limit]
            /\ UNCHANGED <<view, toServer>>
         \/ /\ msg.type = "DATA" /\ limit' = [limit EXCEPT ![c] = msg.limit]
            /\ view' = [view EXCEPT ![c] = msg.slots]
            /\ UNCHANGED toServer
         \/ msg.type = "START"
      /\ UNCHANGED <<conn, dropped>>
  BY DEF ClientHears, gameVars
<1>3. /\ msg \in FromServer /\ msg \in Range(toClient[c])
      /\ Range(Tail(toClient[c])) \subseteq Range(toClient[c])
      /\ \A e \in Range(toClient[c]) : e = msg \/ e \in Range(Tail(toClient[c]))
  BY <1>1, <1>2, HeadTaken
<1>4. msg.type # "START" /\ c \in conn
  BY <1>1, <1>2, <1>3 DEF Together
<1>5. /\ said \in FromClient(c)
      /\ msg.type = "UPDATE" => said = Msg("REQUEST") /\ said.type = "REQUEST"
      /\ msg.type = "REQUEST" => said = OwnData(c) /\ said.type = "INFO"
      /\ toServer[c] = <<>> /\ toClient[c] # <<>> => (WillTell(c) => msg.type = "REQUEST")
  <2>1. \A x : <<x>> # <<>>
    OBVIOUS
  <2>. QED  BY <1>1, <2>1, Said, OwnDataFacts DEF WillTell
<1> HIDE DEF msg, said
<1>6. \A d \in Clients : /\ toClient'[d] = IF d = c THEN Tail(toClient[c]) ELSE toClient[d]
                         /\ Range(toClient'[d]) \subseteq Range(toClient[d])
  BY <1>1, <1>2, <1>3
<1>7. \A d \in Clients :
        /\ toServer'[d] = IF d = c /\ msg.type \in {"UPDATE", "REQUEST"}
                          THEN Append(toServer[d], said) ELSE toServer[d]
        /\ Range(toServer'[d]) = IF d = c /\ msg.type \in {"UPDATE", "REQUEST"}
                                 THEN Range(toServer[d]) \cup {said} ELSE Range(toServer[d])
  <2>1. CASE msg.type \in {"UPDATE", "REQUEST"}
    <3>1. Ask(c, said)
      BY <1>2, <2>1
    <3>2. \A d \in Clients :
            /\ toServer'[d] = IF d = c /\ c \in conn THEN Append(toServer[d], said) ELSE toServer[d]
            /\ Range(toServer'[d]) = IF d = c /\ c \in conn THEN Range(toServer[d]) \cup {said}
                                                            ELSE Range(toServer[d])
      BY <1>1, <1>5, <3>1, AskFacts
    <3>. QED  BY <1>4, <2>1, <3>2
  <2>2. CASE msg.type \notin {"UPDATE", "REQUEST"}
    BY <1>2, <1>4, <2>2
  <2>. QED  BY <2>1, <2>2
<1>8. /\ \A m \in Machines : m # c => view'[m] = view[m] /\ limit'[m] = limit[m]
      /\ view'[c] = IF msg.type = "DATA" THEN msg.slots ELSE view[c]
      /\ limit'[c] = IF msg.type \in {"LIMIT", "DATA"} THEN msg.limit ELSE limit[c]
      /\ view'[Server] = view[Server] /\ limit'[Server] = limit[Server]
  BY <1>1, <1>2, <1>4
<1>9. Limited /\ Single /\ \A d \in conn : Settled(d) \/ (~ Editing /\ Follows(d))
  BY DEF CalmMenu
<1>10. \A d \in Clients : \A t \in Begins : ~ Says(d, t) /\ ~ Says(d, t)'
  <2>1. \A d \in Clients : \A t \in Begins : ~ Says(d, t)
    BY <1>1, <1>2, <1>9, NothingBegins
  <2>2. msg.type \in {"UPDATE", "REQUEST"} => said.type \notin Begins
    BY <1>5 DEF Begins
  <2>. QED  BY <1>7, <2>1, <2>2 DEF Says
<1>11. toServer[c] # <<Msg("UPDATE")>>
  <2>1. Range(<<Msg("UPDATE")>>) = {Msg("UPDATE")} /\ Msg("UPDATE").type = "UPDATE"
    BY DEF Range, Msg
  <2>. QED  BY <1>10, <2>1 DEF Says, Begins
<1>12. ASSUME NEW d \in conn, d # c
       PROVE  (Settled(d) => Settled(d)') /\ (Follows(d) => Follows(d)')
  <2>1. /\ d \in Clients /\ d \in Machines
        /\ view'[d] = view[d] /\ limit'[d] = limit[d]
        /\ toServer'[d] = toServer[d] /\ toClient'[d] = toClient[d]
        /\ Range(toServer'[d]) = Range(toServer[d]) /\ Range(toClient'[d]) = Range(toClient[d])
    BY <1>1, <1>6, <1>7, <1>8, <1>12
  <2>2. Settled(d) => Settled(d)'
    BY <1>1, <1>8, <2>1, SettledKept
  <2>3. Follows(d) => Follows(d)'
    BY <1>1, <1>8, <2>1, FollowsKept
  <2>. QED  BY <2>2, <2>3
<1>13. Editing' => Editing
  <2>1. \A d \in Clients : Told(d, "REQUEST")' => Told(d, "REQUEST")
    BY <1>6 DEF Told
  <2>2. \A d \in Clients : \A t \in {"UPDATE", "PLAYER_LEFT", "INFO"} :
          Says(d, t)' => Says(d, t) \/ msg.type = "REQUEST"
    <3>1. \A d \in Clients : \A e \in Range(toServer'[d]) :
            e \in Range(toServer[d]) \/ e.type = "REQUEST" \/ msg.type = "REQUEST"
      BY <1>5, <1>7
    <3>. QED  BY <3>1 DEF Says
  <2>3. msg.type = "REQUEST" => Told(c, "REQUEST")
    BY <1>3 DEF Told
  <2>. QED  BY <2>1, <2>2, <2>3 DEF Editing
<1>14. (msg.type \in {"LIMIT", "DATA"} => msg.limit = limit[Server])
  BY <1>3, <1>9 DEF Limited
<1>15. Settled(c) => limit'[c] = limit'[Server]
  BY <1>8, <1>14 DEF Settled
<1>16. DataSame(c) => DataSame(c)' /\ (msg.type = "DATA" => SlotSame(c)')
  BY <1>3, <1>6, <1>8 DEF DataSame, SlotSame
<1>17. msg.type # "DATA" /\ SlotSame(c) => SlotSame(c)'
  BY <1>8 DEF SlotSame
<1>18. ASSUME Settled(c) PROVE Settled(c)'
  <2>1. CASE SlotSame(c) /\ DataSame(c) /\ InfoSame(c)
    <3>1. SlotSame(c)' /\ DataSame(c)'
      BY <1>16, <1>17, <2>1
    <3>2. msg.type = "REQUEST" => \A i \in DOMAIN said.slots : said.slots[i] = view[Server][i]
      BY <1>5, <2>1 DEF OwnData, Own, SlotSame
    <3>3. \A e \in Range(toServer'[c]) : e \in Range(toServer[c]) \/ e.type # "INFO"
                                         \/ (e = said /\ msg.type = "REQUEST")
      BY <1>5, <1>7
    <3>4. InfoSame(c)'
      BY <1>8, <2>1, <3>2, <3>3 DEF InfoSame
    <3>5. limit'[c] = limit'[Server]
      BY <1>15, <1>18
    <3>. QED  BY <3>1, <3>4, <3>5 DEF Settled
  <2>2. CASE Pending(c)
    <3>1. msg.type # "DATA" /\ ~ Told(c, "DATA")'
      BY <1>3, <1>6, <2>2 DEF Pending, Told
    <3>2. view'[c] = view[c] /\ OwnData(c).slots' = OwnData(c).slots
      BY <1>8, <3>1 DEF OwnData, Own
    <3>3. \A e \in Range(toServer'[c]) : e.type = "INFO" => e.slots = OwnData(c).slots'
      BY <1>5, <1>7, <2>2, <3>2 DEF Pending
    <3>4. WillTell(c)'
      <4>1. CASE toServer[c] = <<>>
        <5>1. msg.type = "REQUEST"
          BY <1>2, <1>5, <2>2, <4>1 DEF Pending
        <5>2. toServer'[c] = <<said>>
          <6>1. toServer'[c] = Append(<<>>, said)
            BY <1>7, <4>1, <5>1
          <6>. QED  BY <6>1
        <5>3. toServer'[c] # <<>> /\ Head(toServer'[c]) = said
          BY <5>2
        <5>. QED  BY <1>5, <5>1, <5>3 DEF WillTell
      <4>2. CASE toServer[c] # <<>>
        <5>1. Head(toServer[c]).type = "INFO"
          BY <1>11, <2>2, <4>2 DEF Pending, WillTell
        <5>2. toServer'[c] # <<>> /\ Head(toServer'[c]) = Head(toServer[c])
          <6>1. /\ toServer[c] \in Seq(FromClient(c)) /\ said \in FromClient(c)
                /\ toServer'[c] \in {toServer[c], Append(toServer[c], said)}
            BY <1>1, <1>5, <1>7
          <6>. QED  BY <4>2, <6>1, HeadKept
        <5>. QED  BY <5>1, <5>2 DEF WillTell
      <4>. QED  BY <4>1, <4>2
    <3>. QED  BY <1>8, <1>15, <1>18, <2>2, <3>1, <3>2, <3>3, <3>4 DEF Settled, Pending
  <2>. QED  BY <1>18, <2>1, <2>2 DEF Settled
<1>19. ASSUME Follows(c) PROVE Follows(c)'
  <2>1. msg.type \in {"LIMIT", "DATA"} => limit'[c] = limit'[Server]
    BY <1>8, <1>14
  <2>2. \A t : Told(c, t) => msg.type = t \/ Told(c, t)'
    BY <1>3, <1>6 DEF Told
  <2>3. \A t : Says(c, t) => Says(c, t)'
    BY <1>7 DEF Says
  <2>4. msg.type = "UPDATE" => Says(c, "REQUEST")'
    BY <1>5, <1>7 DEF Says
  <2>5. limit[c] = limit[Server] => limit'[c] = limit'[Server]
    BY <1>8, <1>14
  <2>. QED  BY <1>16, <1>17, <1>19, <2>1, <2>2, <2>3, <2>4, <2>5 DEF Follows
<1>20. ASSUME NEW d \in conn' PROVE Settled(d)' \/ (~ Editing' /\ Follows(d)')
  BY <1>2, <1>9, <1>12, <1>13, <1>18, <1>19
<1>21. \A d \in Clients : \A e \in Range(toServer'[d]) :
         \/ e \in Range(toServer[d])
         \/ /\ e.type \notin Begins \cup {"MISSING"}
            /\ e.type = "INFO" => e.limit = limit[Server] /\ d \in conn
  <2>1. ASSUME msg.type = "REQUEST" PROVE said.limit = limit[Server]
    <3>1. Settled(c)
      <4>1. Editing
        BY <1>3, <2>1 DEF Editing, Told
      <4>. QED  BY <1>4, <1>9, <4>1
    <3>2. said.limit = limit[c]
      BY <1>5, <2>1 DEF OwnData
    <3>. QED  BY <3>1, <3>2 DEF Settled
  <2>2. msg.type \in {"UPDATE", "REQUEST"} => said.type \notin Begins \cup {"MISSING"}
    BY <1>5 DEF Begins
  <2>. QED  BY <1>4, <1>5, <1>7, <2>1, <2>2
<1>. QED  BY <1>2, <1>6, <1>8, <1>10, <1>20, <1>21, MenuKept

-----------------------------------------------------------------------------
(* Somebody acts, and nothing is under way.                                *)
LEMMA QuietCut ==
  ASSUME Typed, NEW c \in Clients, NEW told, CutConnection(c, toServer[c], told),
         DOMAIN told = Clients, \A d \in Clients : told[d] \in Seq(FromServer),
         \A d \in Clients : toServer[d] = <<>>
  PROVE  /\ conn' = conn \ {c}
         /\ \A d \in Clients : /\ toServer'[d] = <<>>
                               /\ toClient'[d] = IF d = c THEN <<>> ELSE told[d]
<1>1. toServer[c] \in Seq(FromClient(c))
  BY DEF Typed
<1>2. /\ conn' = conn \ {c}
      /\ \A d \in Clients : /\ toServer'[d] \in Seq(FromClient(d))
                            /\ toClient'[d] = IF d = c THEN <<>> ELSE told[d]
                            /\ d # c => toServer'[d] = toServer[d]
      /\ LeftOf(toServer'[c], toServer[c])
  BY <1>1, CutFacts
<1>3. Range(toServer'[c]) \subseteq Range(toServer[c])
  BY <1>1, <1>2, LeftIn
<1>4. toServer'[c] = <<>>
  BY <1>2, <1>3, NothingLeft, HeadTaken
<1>. QED  BY <1>2, <1>4

LEMMA CutCalm ==
  ASSUME LobbyInv, Calm, game.calm, Quiet, NEW c \in Clients,
         CutConnection(c, toServer[c], toClient), UNCHANGED <<view, limit>>
  PROVE  CalmMenu'
<1>1. /\ Typed /\ conn \subseteq Clients /\ DOMAIN toClient = Clients
      /\ \A d \in Clients : toClient[d] \in Seq(FromServer)
  BY DEF LobbyInv, Typed
<1>2. /\ \A d \in conn : limit[d] = limit[Server] /\ SlotSame(d)
      /\ \A d \in Clients : toServer[d] = <<>> /\ toClient[d] = <<>>
  BY QuietSame
<1>3. /\ conn' = conn \ {c}
      /\ \A d \in Clients : /\ toServer'[d] = <<>>
                            /\ toClient'[d] = IF d = c THEN <<>> ELSE toClient[d]
  BY <1>1, <1>2, QuietCut
<1>4. \A d \in Clients : toClient'[d] = <<>>
  BY <1>2, <1>3
<1>5. \A d \in conn' : limit'[d] = limit'[Server] /\ SlotSame(d)'
  BY <1>2, <1>3 DEF SlotSame
<1>. QED  BY <1>1, <1>3, <1>4, <1>5, NothingLeft, NobodyAsked

(* The server's user changes what he likes: the others hear that it has    *)
(* changed, or of the limit.                                               *)
LEMMA ServerUserCalm ==
  ASSUME LobbyInv, Calm, game.calm,
         ServerEdits \/ (\E i \in Slots : ServerRetypes(i)) \/ (\E l \in Limits : ServerLimits(l))
  PROVE  CalmMenu'
<1>1. /\ Typed /\ conn \subseteq Clients /\ Server \in Machines /\ Server \notin Clients
      /\ limit \in [Machines -> Limits]
      /\ \A d \in Clients : toClient[d] \in Seq(FromServer)
      /\ Msg("UPDATE") \in FromServer /\ Msg("UPDATE").type = "UPDATE"
  BY LobbyAssumption, Said DEF LobbyInv, Typed, Machines
<1>2. Quiet
  BY DEF ServerEdits, ServerRetypes, ServerLimits, Acts
<1>3. /\ \A d \in conn : limit[d] = limit[Server] /\ SlotSame(d)
      /\ \A d \in Clients : toServer[d] = <<>> /\ toClient[d] = <<>>
  BY <1>2, QuietSame
<1>4. ASSUME NEW msg \in FromServer, toClient' = Tell(Clients, msg)
      PROVE  /\ \A d \in Clients : \A e \in Range(toClient'[d]) : e = msg
             /\ \A d \in conn : msg \in Range(toClient'[d])
  <2>1. \A d \in Clients : Range(toClient'[d]) = IF d \in conn THEN Range(toClient[d]) \cup {msg}
                                                              ELSE Range(toClient[d])
    BY <1>1, <1>4, ToldAll
  <2>. QED  BY <1>1, <1>3, <2>1, NothingLeft
<1>5. ASSUME toClient' = Tell(Clients, Msg("UPDATE")), UNCHANGED <<limit, conn, toServer>>
      PROVE  CalmMenu'
  <2>1. /\ \A d \in Clients : \A e \in Range(toClient'[d]) : e.type = "UPDATE"
        /\ \A d \in conn' : Told(d, "UPDATE")'
    BY <1>1, <1>4, <1>5 DEF Told
  <2>2. /\ conn' \subseteq Clients /\ \A d \in Clients : toServer'[d] = <<>>
        /\ \A d \in conn' : limit'[d] = limit'[Server]
    BY <1>1, <1>3, <1>5
  <2>. QED  BY <2>1, <2>2, NobodyAsked
<1>6. ASSUME ServerEdits PROVE CalmMenu'
  BY <1>5, <1>6 DEF ServerEdits
<1>7. ASSUME NEW i \in Slots, ServerRetypes(i) PROVE CalmMenu'
  <2> DEFINE c == view[Server][i].who
             told == Tell(Clients, Msg("UPDATE"))
  <2>1. /\ limit' = limit
        /\ IF c \in Clients THEN CutConnection(c, toServer[c], told)
                            ELSE toClient' = told /\ UNCHANGED <<conn, dropped, toServer>>
    BY <1>7 DEF ServerRetypes
  <2>2. CASE c \notin Clients
    BY <1>5, <2>1, <2>2
  <2>3. CASE c \in Clients
    <3>1. /\ DOMAIN told = Clients
          /\ \A d \in Clients :
               /\ told[d] \in Seq(FromServer)
               /\ Range(told[d]) = IF d \in Clients \cap conn THEN Range(toClient[d]) \cup {Msg("UPDATE")}
                                                              ELSE Range(toClient[d])
      <4>1. Clients \in SUBSET Clients /\ Typed /\ Msg("UPDATE") \in FromServer
        BY <1>1
      <4>. QED  BY <4>1, TellFacts
    <3>2. \A d \in Clients : /\ \A e \in Range(told[d]) : e.type = "UPDATE"
                             /\ d \in conn => Msg("UPDATE") \in Range(told[d])
      BY <1>1, <1>3, <3>1, NothingLeft
    <3> HIDE DEF told, c
    <3>3. CutConnection(c, toServer[c], told)
      BY <2>1, <2>3
    <3>4. /\ conn' = conn \ {c}
          /\ \A d \in Clients : /\ toServer'[d] = <<>>
                                /\ toClient'[d] = IF d = c THEN <<>> ELSE told[d]
      <4>1. \A d \in Clients : told[d] \in Seq(FromServer)
        BY <3>1
      <4>. QED  BY <1>1, <1>3, <2>3, <3>1, <3>3, <4>1, QuietCut
    <3>5. \A d \in Clients : \A e \in Range(toClient'[d]) : e.type = "UPDATE"
      BY <3>2, <3>4, NothingLeft
    <3>6. \A d \in conn' : Told(d, "UPDATE")'
      BY <1>1, <3>2, <3>4 DEF Told
    <3>7. conn' \subseteq Clients /\ \A d \in conn' : limit'[d] = limit'[Server]
      BY <1>1, <1>3, <2>1, <3>4
    <3>. QED  BY <3>4, <3>5, <3>6, <3>7, NobodyAsked
  <2>. QED  BY <2>2, <2>3
<1>8. ASSUME NEW l \in Limits, ServerLimits(l) PROVE CalmMenu'
  <2> DEFINE msg == [type |-> "LIMIT", limit |-> l]
  <2>1. /\ limit' = [limit EXCEPT ![Server] = l] /\ UNCHANGED <<view, conn, toServer>>
        /\ toClient' = Tell(Clients, msg)
    BY <1>8 DEF ServerLimits
  <2>2. msg \in FromServer /\ msg.type = "LIMIT" /\ msg.limit = l
    BY DEF FromServer
  <2> HIDE DEF msg
  <2>3. limit'[Server] = l
    BY <1>1, <2>1
  <2>4. /\ \A d \in Clients : \A e \in Range(toClient'[d]) : e.type = "LIMIT" /\ e.limit = limit'[Server]
        /\ \A d \in conn' : Told(d, "LIMIT")'
    BY <1>4, <2>1, <2>2, <2>3 DEF Told
  <2>5. \A d \in conn' : SlotSame(d)'
    BY <1>3, <2>1 DEF SlotSame
  <2>. QED  BY <1>1, <1>3, <2>1, <2>4, <2>5, NobodyAsked
<1>. QED  BY <1>6, <1>7, <1>8

LEMMA JoinCalm ==
  ASSUME LobbyInv, Calm, game.calm, NEW c \in Clients, Join(c)
  PROVE  CalmMenu'
<1>1. /\ Typed /\ conn \subseteq Clients /\ DOMAIN toServer = Clients
  BY DEF LobbyInv, Typed
<1>2. /\ Quiet /\ conn' = conn \cup {c}
      /\ toServer' = [toServer EXCEPT ![c] = <<Msg("NEW_PLAYER"), Msg("REQUEST")>>]
      /\ UNCHANGED <<view, limit, dropped, toClient>>
  BY DEF Join, gameVars
<1>3. /\ \A d \in conn : limit[d] = limit[Server] /\ SlotSame(d)
      /\ \A d \in Clients : toServer[d] = <<>> /\ toClient[d] = <<>>
      /\ ~ dropped
  BY <1>2, QuietSame
<1>4. \A d \in conn' \ {c} : limit'[d] = limit'[Server] /\ SlotSame(d)'
  BY <1>2, <1>3 DEF SlotSame
<1>5. /\ conn' \subseteq Clients /\ ~ dropped'
      /\ toServer'[c] = <<Msg("NEW_PLAYER"), Msg("REQUEST")>>
      /\ \A d \in Clients : toClient'[d] = <<>> /\ (d # c => toServer'[d] = <<>>)
  BY <1>1, <1>2, <1>3
<1>. QED  BY <1>1, <1>4, <1>5, ClientBegins

LEMMA ClientEditsCalm ==
  ASSUME LobbyInv, Calm, game.calm, NEW c \in Clients, ClientEdits(c)
  PROVE  CalmMenu'
<1>1. /\ Typed /\ conn \subseteq Clients /\ Server \in Machines /\ c \in Machines /\ c # Server
      /\ view \in [Machines -> [Slots -> Slot]] /\ Clients \subseteq Machines
      /\ Msg("UPDATE") \in FromClient(c)
  BY LobbyAssumption, Said DEF LobbyInv, Typed, Machines
<1>2. /\ Quiet /\ c \in conn /\ Ask(c, Msg("UPDATE"))
      /\ UNCHANGED <<limit, conn, dropped, toClient>>
  BY DEF ClientEdits, Acts, Quiet
<1>3. /\ \A d \in conn : limit[d] = limit[Server] /\ SlotSame(d)
      /\ \A d \in Clients : toServer[d] = <<>> /\ toClient[d] = <<>>
      /\ ~ dropped
  BY <1>2, QuietSame
<1>4. PICK i \in Own(c), ch \in Settings, r \in BOOLEAN :
        view' = [view EXCEPT ![c][i] = [@ EXCEPT !.choice = ch, !.ready = r]]
  BY DEF ClientEdits
<1>5. view[c][i] \in Slot /\ [view[c][i] EXCEPT !.choice = ch, !.ready = r].who = view[c][i].who
  BY <1>1, <1>4 DEF Own, Slot
<1>6. view' = [view EXCEPT ![c] = [view[c] EXCEPT ![i] =
                 [view[c][i] EXCEPT !.choice = ch, !.ready = r]]]
  BY <1>4
<1>7. /\ \A m \in Machines : m # c => view'[m] = view[m]
      /\ \A j \in Slots : view'[c][j].who = view[c][j].who
  BY <1>1, <1>5, <1>6
<1>8. \A j \in Slots : view'[Server][j].who = c <=> view'[c][j].who = c
  BY <1>1, <1>2, <1>3, <1>7 DEF SlotSame
<1>9. \A d \in conn' : /\ limit'[d] = limit'[Server]
                       /\ d # c => SlotSame(d)'
  BY <1>1, <1>2, <1>3, <1>7 DEF SlotSame
<1>10. /\ toServer'[c] = <<Msg("UPDATE")>>
       /\ \A d \in Clients : d # c => toServer'[d] = <<>>
  <2>1. \A d \in Clients : toServer'[d] = IF d = c /\ c \in conn THEN Append(toServer[d], Msg("UPDATE"))
                                                                ELSE toServer[d]
    BY <1>1, <1>2, AskFacts
  <2>2. toServer'[c] = Append(<<>>, Msg("UPDATE"))
    BY <1>2, <1>3, <2>1
  <2>. QED  BY <1>3, <2>1, <2>2
<1>11. conn' \subseteq Clients /\ ~ dropped' /\ \A d \in Clients : toClient'[d] = <<>>
  BY <1>1, <1>2, <1>3
<1>. QED  BY <1>1, <1>8, <1>9, <1>10, <1>11, ClientBegins

LEMMA ClientLeavesCalm ==
  ASSUME LobbyInv, Calm, game.calm, NEW c \in Clients, ClientLeaves(c)
  PROVE  CalmMenu'
<1>1. /\ Typed /\ conn \subseteq Clients /\ DOMAIN toClient = Clients
      /\ Msg("PLAYER_LEFT") \in FromClient(c)
  BY Said DEF LobbyInv, Typed
<1>2. /\ Quiet /\ c \in conn /\ Ask(c, Msg("PLAYER_LEFT")) /\ conn' = conn \ {c}
      /\ toClient' = [toClient EXCEPT ![c] = <<>>]
      /\ UNCHANGED <<view, limit, dropped>>
  BY DEF ClientLeaves, Acts, Quiet, gameVars
<1>3. /\ \A d \in conn : limit[d] = limit[Server] /\ SlotSame(d)
      /\ \A d \in Clients : toServer[d] = <<>> /\ toClient[d] = <<>>
      /\ ~ dropped
  BY <1>2, QuietSame
<1>4. \A d \in conn' : limit'[d] = limit'[Server] /\ SlotSame(d)'
  BY <1>2, <1>3 DEF SlotSame
<1>5. /\ toServer'[c] = <<Msg("PLAYER_LEFT")>>
      /\ \A d \in Clients : d # c => toServer'[d] = <<>>
  <2>1. \A d \in Clients : toServer'[d] = IF d = c /\ c \in conn
                                         THEN Append(toServer[d], Msg("PLAYER_LEFT")) ELSE toServer[d]
    BY <1>1, <1>2, AskFacts
  <2>2. toServer'[c] = Append(<<>>, Msg("PLAYER_LEFT"))
    BY <1>2, <1>3, <2>1
  <2>. QED  BY <1>3, <2>1, <2>2
<1>6. /\ conn' \subseteq Clients /\ c \notin conn' /\ ~ dropped'
      /\ \A d \in Clients : toClient'[d] = <<>>
  BY <1>1, <1>2, <1>3
<1>. QED  BY <1>1, <1>4, <1>5, <1>6, ClientBegins

LEMMA MenuStays ==
  ASSUME CalmMenu, UNCHANGED <<view, limit, conn, dropped, toServer, toClient>>
  PROVE  CalmMenu'
<1>1. Limited' /\ Single'
  BY DEF CalmMenu, Limited, Single, Says
<1>2. /\ \A c \in Clients : \A t : Says(c, t)' = Says(c, t) /\ Told(c, t)' = Told(c, t)
      /\ Editing' = Editing
  BY DEF Says, Told, Editing
<1>3. \A c \in Clients : Settled(c)' = Settled(c)
  BY <1>2 DEF Settled, SlotSame, DataSame, InfoSame, Pending, WillTell, OwnData, Own, Told
<1>4. \A c \in Clients : Follows(c)' = Follows(c)
  BY <1>2 DEF Follows, SlotSame, DataSame, Told, Says
<1>5. \A c : Settled(c)' = Settled(c) /\ Follows(c)' = Follows(c)
  BY DEF Settled, SlotSame, DataSame, InfoSame, Pending, WillTell, OwnData, Own, Told, Says, Follows
<1>. QED  BY <1>1, <1>2, <1>5 DEF CalmMenu

(* The menu is left when nothing is under way.                             *)
LEMMA ServerStartsCalm ==
  ASSUME LobbyInv, Calm, game.calm, ServerStarts
  PROVE  CalmStarted' /\ ~ InMenu(Server)'
<1>1. /\ Typed /\ conn \subseteq Clients /\ Server \in Machines /\ DOMAIN phase = Machines
      /\ Msg("START") \in FromServer /\ Msg("START").type = "START"
  BY Said DEF LobbyInv, Typed, Machines
<1>2. /\ Quiet /\ phase' = [phase EXCEPT ![Server] = "leaving"]
      /\ toClient' = Tell(Clients, Msg("START"))
      /\ UNCHANGED <<view, limit, conn>>
  BY DEF ServerStarts, gameVars
<1>3. /\ \A d \in conn : view[d] = Seen(view[Server]) /\ limit[d] = limit[Server]
      /\ \A d \in Clients : toClient[d] = <<>>
  BY <1>2, QuietSame
<1>4. \A d \in conn : Range(toClient'[d]) = {Msg("START")}
  <2>1. \A d \in conn : Range(toClient'[d]) = Range(toClient[d]) \cup {Msg("START")}
    BY <1>1, <1>2, ToldAll
  <2>. QED  BY <1>1, <1>3, <2>1, NothingLeft
<1>5. \A d \in conn' : ~ Told(d, "DATA")' /\ ~ Told(d, "LIMIT")' /\ Told(d, "START")'
  BY <1>1, <1>2, <1>4 DEF Told
<1>6. \A d \in conn' : view'[d] = Seen(view[Server])' /\ limit'[d] = limit'[Server]
  BY <1>2, <1>3 DEF Seen, LooksOpen
<1>7. ~ InMenu(Server)'
  BY <1>1, <1>2 DEF InMenu
<1>. QED  BY <1>5, <1>6, <1>7 DEF CalmStarted

LEMMA StartedKept ==
  ASSUME CalmStarted, conn' \subseteq conn, UNCHANGED <<view, limit>>,
         \A c \in conn' : \A e \in Range(toClient'[c]) :
           e \in Range(toClient[c]) \/ e.type \notin {"DATA", "LIMIT"},
         \A c \in conn' : phase'[c] = "menu" =>
           /\ phase[c] = "menu"
           /\ \A e \in Range(toClient[c]) : e.type = "START" => e \in Range(toClient'[c])
  PROVE  CalmStarted'
<1>1. \A c \in conn' : view'[c] = Seen(view[Server])' /\ limit'[c] = limit'[Server]
  BY DEF CalmStarted, Seen, LooksOpen
<1>2. \A c \in conn' : ~ Told(c, "DATA")' /\ ~ Told(c, "LIMIT")'
  BY DEF CalmStarted, Told
<1>3. \A c \in conn' : InMenu(c)' => Told(c, "START")'
  BY DEF CalmStarted, InMenu, Told
<1>. QED  BY <1>1, <1>2, <1>3 DEF CalmStarted

(* While the server is in the menu.                                        *)
LEMMA MenuCalm ==
  ASSUME LobbyInv, Calm, game.calm, InMenu(Server), Next
  PROVE  Calm'
<1>1. /\ Typed /\ Together /\ CalmMenu /\ Server \notin Clients /\ DOMAIN phase = Machines
      /\ Server \in Machines /\ Clients \subseteq Machines
  BY LobbyAssumption DEF LobbyInv, Typed, Machines, Calm
<1>2. ASSUME UNCHANGED phase, CalmMenu' PROVE Calm'
  BY <1>2 DEF Calm, InMenu
<1>3. ASSUME NEW c \in Clients, NEW p, phase' = [phase EXCEPT ![c] = p], CalmMenu' PROVE Calm'
  <2>1. phase'[Server] = phase[Server]
    BY <1>1, <1>3
  <2>. QED  BY <1>3, <2>1 DEF Calm, InMenu
<1>4. /\ phase[Server] = "menu" /\ untold = {}
      /\ \A c \in Clients : phase[c] \in {"away", "menu", "gone"}
  BY <1>1 DEF Together, InMenu
<1>5. CASE ServerUser
  <2>1. ASSUME ServerEdits \/ (\E i \in Slots : ServerRetypes(i)) \/ (\E l \in Limits : ServerLimits(l))
        PROVE  Calm'
    <3>1. CalmMenu'
      BY <2>1, ServerUserCalm
    <3>2. UNCHANGED phase
      BY <2>1 DEF ServerEdits, ServerRetypes, ServerLimits
    <3>. QED  BY <1>2, <3>1, <3>2
  <2>2. ASSUME ServerStarts PROVE Calm'
    BY <2>2, ServerStartsCalm DEF Calm
  <2>. QED  BY <1>5, <2>1, <2>2 DEF ServerUser
<1>6. CASE ServerAlone
  <2>1. NoticesDropped
    BY <1>4, <1>6 DEF ServerAlone, WaitNoticesDropped, ServerLoads, ServerWaits, ServerBegins
  <2>2. CalmMenu'
    BY <1>1, <2>1, NoticesDroppedCalm
  <2>3. UNCHANGED phase
    BY <2>1 DEF NoticesDropped
  <2>. QED  BY <1>2, <2>2, <2>3
<1>7. ASSUME NEW c \in Clients, ClientUser(c) PROVE Calm'
  <2>1. CASE ClientEdits(c)
    <3>1. CalmMenu'
      BY <2>1, ClientEditsCalm
    <3>. QED  BY <1>2, <2>1, <3>1 DEF ClientEdits
  <2>2. CASE ClientLeaves(c)
    <3>1. CalmMenu'
      BY <2>2, ClientLeavesCalm
    <3>. QED  BY <1>3, <2>2, <3>1 DEF ClientLeaves
  <2>3. CASE Join(c)
    <3>1. CalmMenu'
      BY <2>3, JoinCalm
    <3>. QED  BY <1>3, <2>3, <3>1 DEF Join
  <2>4. CASE Crash(c)
    <3>1. Quiet /\ CutConnection(c, toServer[c], toClient) /\ UNCHANGED <<view, limit>>
      BY <2>4 DEF Crash, Acts, gameVars
    <3>2. CalmMenu'
      BY <3>1, CutCalm
    <3>. QED  BY <1>3, <2>4, <3>2 DEF Crash
  <2>5. CASE DropsSlow(c)
    <3>1. Quiet /\ CutConnection(c, toServer[c], toClient) /\ UNCHANGED <<view, limit>>
      BY <1>4, <2>5 DEF DropsSlow, Acts, gameVars
    <3>2. CalmMenu'
      BY <3>1, CutCalm
    <3>. QED  BY <1>2, <2>5, <3>2 DEF DropsSlow
  <2>. QED  BY <1>7, <2>1, <2>2, <2>3, <2>4, <2>5 DEF ClientUser
<1>8. ASSUME NEW c \in Clients, ServerGoesOn(c) PROVE Calm'
  <2>1. ServerHears(c)
    BY <1>4, <1>8 DEF ServerGoesOn, ServerWaiting, TellsUnits
  <2>2. CalmMenu'
    BY <1>1, <2>1, ServerHearsCalm
  <2>3. UNCHANGED phase
    BY <2>1 DEF ServerHears
  <2>. QED  BY <1>2, <2>2, <2>3
<1>9. ASSUME NEW c \in Clients, ClientGoesOn(c) PROVE Calm'
  <2>1. ClientHears(c) \/ CutOff(c)
    BY <1>4, <1>9 DEF ClientGoesOn, ClientLoads, ClientWaits, ClientWaiting
  <2>2. CASE ClientHears(c)
    <3>1. CalmMenu'
      BY <1>1, <2>2, ClientHearsCalm
    <3>2. \/ UNCHANGED phase
          \/ phase' = [phase EXCEPT ![c] = "leaving"]
      BY <2>2 DEF ClientHears
    <3>. QED  BY <1>2, <1>3, <3>1, <3>2
  <2>3. CASE CutOff(c)
    <3>1. CalmMenu'
      BY <1>1, <2>3, MenuStays DEF CutOff, gameVars, netVars
    <3>. QED  BY <1>3, <2>3, <3>1 DEF CutOff
  <2>. QED  BY <2>1, <2>2, <2>3
<1>10. ASSUME NEW c \in Clients PROVE ~ Relays(c)
  <2>1. ~ Says(c, "MISSING") /\ toServer[c] \in Seq(FromClient(c))
    BY <1>1 DEF CalmMenu, Typed
  <2>2. \A k \in DOMAIN toServer[c] : toServer[c][k] \in Range(toServer[c])
    BY <2>1, QueueFacts
  <2>. QED  BY <2>1, <2>2 DEF Relays, Says
<1>. QED  BY <1>5, <1>6, <1>7, <1>8, <1>9, <1>10 DEF Next

(* After that: nobody acts, and nobody is told anything new of the game.   *)
LEMMA StartedHears ==
  ASSUME LobbyInv, CalmStarted, NEW c \in Clients, ClientHears(c)
  PROVE  CalmStarted'
<1> DEFINE msg == Head(toClient[c])
<1>1. /\ Typed /\ Together /\ conn \subseteq Clients /\ DOMAIN toClient = Clients
      /\ DOMAIN phase = Machines /\ Clients \subseteq Machines
      /\ toClient[c] \in Seq(FromServer)
  BY DEF LobbyInv, Typed, Machines
<1>2. /\ InMenu(c) /\ toClient[c] # <<>>
      /\ toClient' = [toClient EXCEPT ![c] = Tail(toClient[c])]
      /\ \/ msg.type \in {"UPDATE", "REQUEST"} /\ UNCHANGED <<phase, view, limit>>
         \/ msg.type = "LIMIT"
         \/ msg.type = "DATA"
         \/ /\ msg.type = "START" /\ phase' = [phase EXCEPT ![c] = "leaving"]
            /\ UNCHANGED <<view, limit>>
      /\ UNCHANGED conn
  BY DEF ClientHears, gameVars
<1>3. /\ msg \in Range(toClient[c]) /\ Range(Tail(toClient[c])) \subseteq Range(toClient[c])
      /\ \A e \in Range(toClient[c]) : e = msg \/ e \in Range(Tail(toClient[c]))
  BY <1>1, <1>2, HeadTaken
<1>4. c \in conn
  BY <1>1, <1>2 DEF Together
<1>5. msg.type \notin {"DATA", "LIMIT"}
  BY <1>3, <1>4 DEF CalmStarted, Told
<1> HIDE DEF msg
<1>6. UNCHANGED <<view, limit>>
  BY <1>2, <1>5
<1>7. \A d \in conn : toClient'[d] = IF d = c THEN Tail(toClient[c]) ELSE toClient[d]
  BY <1>1, <1>2
<1>8. \A d \in conn' : \A e \in Range(toClient'[d]) : e \in Range(toClient[d])
  BY <1>2, <1>3, <1>7
<1>9. ASSUME NEW d \in conn', phase'[d] = "menu"
      PROVE  /\ phase[d] = "menu"
             /\ \A e \in Range(toClient[d]) : e.type = "START" => e \in Range(toClient'[d])
  <2>1. phase[d] = "menu"
    BY <1>1, <1>2, <1>5, <1>9
  <2>2. d = c => msg.type # "START"
    BY <1>1, <1>2, <1>9
  <2>. QED  BY <1>2, <1>3, <1>7, <2>1, <2>2
<1>. QED  BY <1>2, <1>6, <1>8, <1>9, StartedKept

LEMMA StartedWaits ==
  ASSUME LobbyInv, CalmStarted, NEW c \in Clients,
         \/ ClientLoads(c) \/ ClientWaits(c) \/ ClientWaiting(c) \/ CutOff(c)
         \/ Relays(c) \/ ServerWaiting(c) \/ TellsUnits(c)
  PROVE  CalmStarted'
<1>1. /\ Typed /\ conn \subseteq Clients /\ DOMAIN toClient = Clients
      /\ DOMAIN phase = Machines /\ c \in Machines /\ conn \subseteq Machines
      /\ \A d \in Clients : toClient[d] \in Seq(FromServer) /\ toServer[d] \in Seq(FromClient(d))
  BY DEF LobbyInv, Typed, Machines
<1>2. ASSUME \A d \in conn : \A e \in Range(toClient'[d]) :
               e \in Range(toClient[d]) \/ e.type \notin {"DATA", "LIMIT"},
             \A d \in conn : phase'[d] = "menu" =>
               phase[d] = "menu" /\ Range(toClient[d]) \subseteq Range(toClient'[d]),
             UNCHANGED <<conn, view, limit>>
      PROVE  CalmStarted'
  BY <1>2, StartedKept
<1>4. CASE ClientLoads(c) \/ ClientWaits(c) \/ CutOff(c)
  <2>1. /\ \A d \in conn : phase'[d] = "menu" => phase[d] = "menu"
        /\ UNCHANGED <<conn, view, limit, toClient>>
    BY <1>1, <1>4 DEF ClientLoads, ClientWaits, CutOff, gameVars, netVars, InMenu
  <2>. QED  BY <1>2, <2>1
<1>5. CASE ClientWaiting(c)
  <2>1. /\ phase[c] = "wait" /\ toClient[c] # <<>>
        /\ toClient' = [toClient EXCEPT ![c] = Tail(toClient[c])]
        /\ UNCHANGED phase \/ phase' = [phase EXCEPT ![c] = "battle"]
        /\ UNCHANGED <<view, limit, conn>>
    BY <1>5 DEF ClientWaiting, gameVars
  <2>2. Range(Tail(toClient[c])) \subseteq Range(toClient[c])
    BY <1>1, <2>1, HeadTaken
  <2>. QED  BY <1>1, <1>2, <2>1, <2>2
<1>6. CASE Relays(c)
  <2>1. PICK k \in DOMAIN toServer[c] :
          /\ toServer[c][k].type = "MISSING"
          /\ toClient' = Tell(Clients \ {c}, [type |-> "MISSING", unit |-> toServer[c][k].unit])
          /\ UNCHANGED <<phase, view, limit, conn>>
    BY <1>6 DEF Relays, gameVars
  <2> DEFINE msg == [type |-> "MISSING", unit |-> toServer[c][k].unit]
  <2>2. msg \in FromServer /\ msg.type = "MISSING"
    <3>1. toServer[c][k] \in FromClient(c)
      BY <1>1, QueueFacts
    <3>2. toServer[c][k].unit \in Units
      BY <2>1, <3>1 DEF FromClient, Msg
    <3>. QED  BY <3>2 DEF FromServer
  <2> HIDE DEF msg
  <2>3. \A d \in Clients : Range(toClient'[d]) = IF d # c /\ d \in conn
                                                THEN Range(toClient[d]) \cup {msg}
                                                ELSE Range(toClient[d])
    <3>1. toClient' = Tell(Clients \ {c}, msg)
      BY <2>1 DEF msg
    <3>2. \A d \in Clients : Range(Tell(Clients \ {c}, msg)[d])
            = IF d # c /\ d \in conn THEN Range(toClient[d]) \cup {msg} ELSE Range(toClient[d])
      <4>1. Typed /\ msg \in FromServer
        BY <1>1, <2>2
      <4>. QED  BY <4>1, ToldOthers
    <3>. QED  BY <3>1, <3>2
  <2>. QED  BY <1>1, <1>2, <2>1, <2>2, <2>3
<1>7. CASE ServerWaiting(c)
  BY <1>2, <1>7 DEF ServerWaiting, gameVars
<1>8. CASE TellsUnits(c)
  <2>1. /\ toClient' = IF c \in conn THEN [toClient EXCEPT ![c] = @ \o UnitList] ELSE toClient
        /\ UNCHANGED <<phase, view, limit, conn>>
    BY <1>8 DEF TellsUnits, gameVars
  <2>2. /\ UnitList \in Seq(FromServer)
        /\ \A k \in 1 .. Len(UnitList) : UnitList[k].type \notin {"DATA", "LIMIT"}
    <3>1. \A n \in Nat : \A k \in 1 .. n : k \in 1 .. n - 1 \/ k = n
      OBVIOUS
    <3>. QED  BY <1>1, <3>1, UnitListFacts
  <2>3. ASSUME c \in conn
        PROVE  /\ \A e \in Range(toClient'[c]) :
                    e \in Range(toClient[c]) \/ e.type \notin {"DATA", "LIMIT"}
               /\ Range(toClient[c]) \subseteq Range(toClient'[c])
    <3> DEFINE q == toClient[c]
               u == UnitList
    <3>1. toClient'[c] = q \o u /\ q \in Seq(FromServer) /\ u \in Seq(FromServer)
      BY <1>1, <2>1, <2>2, <2>3
    <3>2. \A k \in 1 .. Len(u) : u[k].type \notin {"DATA", "LIMIT"}
      BY <2>2
    <3> HIDE DEF q, u
    <3>3. Range(q \o u) = Range(q) \cup Range(u) /\ Range(u) = {u[k] : k \in 1 .. Len(u)}
      BY <3>1, RangeConcatenation, RangeEquality
    <3>. QED  BY <3>1, <3>2, <3>3 DEF q
  <2>4. \A d \in conn : d # c => toClient'[d] = toClient[d]
    BY <1>1, <2>1
  <2>5. \A d \in conn : \A e \in Range(toClient'[d]) :
          e \in Range(toClient[d]) \/ e.type \notin {"DATA", "LIMIT"}
    BY <2>3, <2>4
  <2>6. \A d \in conn : Range(toClient[d]) \subseteq Range(toClient'[d])
    BY <2>3, <2>4
  <2>. QED  BY <1>2, <2>1, <2>5, <2>6
<1>. QED  BY <1>4, <1>5, <1>6, <1>7, <1>8

LEMMA StartedCalm ==
  ASSUME LobbyInv, Calm, game.calm, ~ InMenu(Server), Next
  PROVE  Calm'
<1>1. /\ Typed /\ CalmStarted /\ Server \notin Clients /\ Server \in Machines
      /\ Clients \subseteq Machines /\ conn \subseteq Clients
      /\ DOMAIN phase = Machines /\ DOMAIN toClient = Clients
  BY LobbyAssumption DEF LobbyInv, Typed, Machines, Calm
<1>2. ASSUME UNCHANGED phase, CalmStarted' PROVE Calm'
  BY <1>2 DEF Calm, InMenu
<1>3. ASSUME NEW m \in Machines, NEW p, phase' = [phase EXCEPT ![m] = p],
             m # Server \/ p # "menu", CalmStarted'
      PROVE  Calm'
  <2>1. phase'[Server] = phase[Server] \/ phase'[Server] # "menu"
    BY <1>1, <1>3
  <2>. QED  BY <1>3, <2>1 DEF Calm, InMenu
<1>4. ~ ServerUser /\ \A c \in Clients : ~ ServerHears(c) /\ ~ Join(c)
  BY DEF ServerUser, ServerEdits, ServerStarts, ServerRetypes, ServerLimits, ServerHears, Join
<1>5. ASSUME NEW c \in Clients PROVE ~ ClientEdits(c) /\ ~ ClientLeaves(c)
  <2>1. ASSUME Quiet, InMenu(c) PROVE FALSE
    <3>1. c \in conn /\ toClient[c] = <<>>
      BY <2>1 DEF Quiet
    <3>2. Told(c, "START")
      BY <1>1, <2>1, <3>1 DEF CalmStarted
    <3>. QED  BY <3>1, <3>2, NothingLeft DEF Told
  <2>. QED  BY <2>1 DEF ClientEdits, ClientLeaves, Acts
<1>6. CASE ServerAlone
  <2>1. WaitNoticesDropped \/ ServerLoads \/ ServerWaits \/ ServerBegins
    BY <1>6 DEF ServerAlone, NoticesDropped
  <2>2. /\ UNCHANGED <<view, limit, conn>>
        /\ \/ UNCHANGED phase
           \/ \E p \in {"load", "wait", "battle"} : phase' = [phase EXCEPT ![Server] = p]
        /\ UNCHANGED toClient \/ toClient' = Tell(Clients, Msg("BEGIN"))
    BY <2>1 DEF WaitNoticesDropped, ServerLoads, ServerWaits, ServerBegins, gameVars, netVars
  <2>3. /\ Msg("BEGIN") \in FromServer /\ Msg("BEGIN").type = "BEGIN"
        /\ \A d \in conn : phase'[d] = phase[d]
    BY <1>1, <2>2, Said
  <2>4. \A d \in conn : /\ Range(toClient[d]) \subseteq Range(toClient'[d])
                        /\ \A e \in Range(toClient'[d]) : e \in Range(toClient[d]) \/ e.type = "BEGIN"
    <3>1. CASE toClient' = Tell(Clients, Msg("BEGIN"))
      <4>1. \A d \in conn : Range(toClient'[d]) = Range(toClient[d]) \cup {Msg("BEGIN")}
        BY <1>1, <2>3, <3>1, ToldAll
      <4>. QED  BY <2>3, <4>1
    <3>. QED  BY <2>2, <3>1
  <2>5. CalmStarted'
    BY <1>1, <2>2, <2>3, <2>4, StartedKept
  <2>. QED  BY <1>1, <1>2, <1>3, <2>2, <2>5
<1>7. ASSUME NEW c \in Clients, ClientUser(c) PROVE Calm'
  <2>1. Crash(c) \/ DropsSlow(c)
    BY <1>4, <1>5, <1>7 DEF ClientUser
  <2>2. /\ conn' = conn \ {c} /\ toClient' = [toClient EXCEPT ![c] = <<>>]
        /\ UNCHANGED <<view, limit>>
        /\ UNCHANGED phase \/ phase' = [phase EXCEPT ![c] = "gone"]
    BY <2>1 DEF Crash, DropsSlow, CutConnection, gameVars
  <2>3. \A d \in conn' : toClient'[d] = toClient[d] /\ phase'[d] = phase[d]
    BY <1>1, <2>2
  <2>4. CalmStarted'
    BY <1>1, <2>2, <2>3, StartedKept
  <2>. QED  BY <1>1, <1>2, <1>3, <2>2, <2>4
<1>8. ASSUME NEW c \in Clients, ServerGoesOn(c) \/ ClientGoesOn(c) \/ Relays(c) PROVE Calm'
  <2>1. CalmStarted'
    BY <1>1, <1>4, <1>8, StartedHears, StartedWaits DEF ServerGoesOn, ClientGoesOn
  <2>2. UNCHANGED phase \/ \E p : phase' = [phase EXCEPT ![c] = p]
    BY <1>4, <1>8 DEF ServerGoesOn, ClientGoesOn, ServerWaiting, TellsUnits, ClientHears,
       ClientLoads, ClientWaits, ClientWaiting, CutOff, Relays
  <2>. QED  BY <1>1, <1>2, <1>3, <2>1, <2>2
<1>. QED  BY <1>4, <1>6, <1>7, <1>8 DEF Next

LEMMA CalmFirst ==
  ASSUME Init
  PROVE  Calm
<1>1. /\ Typed /\ conn = Came /\ Came \subseteq Clients /\ Server \in Machines
      /\ Clients \subseteq Machines /\ Server \notin Clients
      /\ view = [m \in Machines |-> IF m = Server THEN Begun ELSE
                   IF m \in Came THEN Seen(Begun) ELSE [i \in Slots |-> Empty]]
      /\ Came # {} => \A m \in Machines : limit[m] = limit[Server]
      /\ toServer = [c \in Clients |-> <<>>] /\ toClient = [c \in Clients |-> <<>>]
      /\ InMenu(Server)
  BY InitHolds, LobbyAssumption DEF Init, LobbyInv, Came, InMenu, Machines
<1>2. \A c \in Clients : toServer[c] = <<>> /\ toClient[c] = <<>>
  BY <1>1
<1>3. \A c \in Clients : \A t : ~ Says(c, t) /\ ~ Told(c, t)
  BY <1>2, NothingLeft DEF Says, Told
<1>4. Limited /\ Single /\ ~ Editing
  BY <1>2, <1>3, NothingLeft DEF Limited, Single, Editing
<1>5. ASSUME NEW c \in conn PROVE Follows(c)
  <2>0. c \in Came /\ c \in Machines
    BY <1>1
  <2>1. view[c] = Seen(view[Server])
    <3>1. view[c] = Seen(Begun) /\ view[Server] = Begun
      BY <1>1, <2>0
    <3>. QED  BY <3>1
  <2>2. limit[c] = limit[Server]
    BY <1>1, <2>0
  <2>3. DataSame(c)
    BY <1>1, <1>3 DEF DataSame, Told
  <2>4. SlotSame(c)
    BY <1>1, <2>0, <2>1, SeenFacts DEF SlotSame
  <2>. QED  BY <2>2, <2>3, <2>4 DEF Follows
<1>. QED  BY <1>1, <1>3, <1>4, <1>5 DEF Calm, CalmMenu

(* SameGame: if people act one after the other, the clients of the menu    *)
(* have the players and choices of the server in the slots, and all have   *)
(* its limit of units, whenever nothing is on its way, in the menu and     *)
(* after it.                                                               *)
THEOREM EveryoneAgrees == Spec => []SameGame
<1>1. Init => Calm
  BY CalmFirst
<1>2. LobbyInv /\ Calm /\ [Next]_vars => Calm'
  <2> SUFFICES ASSUME LobbyInv, Calm, [Next]_vars PROVE Calm'
    OBVIOUS
  <2>1. CASE Next
    <3>1. game' = game
      BY <2>1 DEF Next, ServerUser, ServerAlone, ClientUser, ServerGoesOn, ClientGoesOn, ServerEdits,
         ServerStarts, ServerRetypes, ServerLimits, ServerHears, ServerWaiting, TellsUnits,
         NoticesDropped, WaitNoticesDropped, ServerLoads, ServerWaits, ServerBegins, ClientEdits,
         ClientLeaves, Crash, Join, DropsSlow, ClientHears, ClientLoads, ClientWaits, ClientWaiting,
         CutOff, Relays
    <3>2. CASE game.calm
      BY <2>1, <3>2, MenuCalm, StartedCalm
    <3>3. CASE ~ game.calm
      BY <3>1, <3>3 DEF Calm
    <3>. QED  BY <3>2, <3>3
  <2>2. CASE UNCHANGED vars
    <3>1. UNCHANGED <<game, phase, view, limit, conn, dropped, toServer, toClient>>
      BY <2>2 DEF vars, gameVars, netVars
    <3>2. CalmStarted => CalmStarted'
      BY <3>1 DEF CalmStarted, Seen, LooksOpen, Told, InMenu
    <3>. QED  BY <3>1, <3>2, MenuStays DEF Calm, InMenu
  <2>. QED  BY <2>1, <2>2
<1>3. LobbyInv /\ Calm => SameGame
  BY SameFollows
<1>. QED  BY <1>1, <1>2, <1>3, LobbyInductive, PTL DEF Spec
=============================================================================
