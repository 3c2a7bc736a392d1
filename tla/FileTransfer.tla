----------------------------- MODULE FileTransfer -----------------------------
(***************************************************************************)
(* Sending the files of a game from the host to a client in the setup menu *)
(* (Network, GetFileThread, SendFileThread, SocketThread, AdminThread,     *)
(* SetupGame).  The host names a map or a script; a client that lacks a    *)
(* file starts a getter, a thread with a port of its own, and asks for the *)
(* file; the host starts a sender.  The chunks go down one TCP stream, the *)
(* acknowledgements and requests go up another.  One host, one client.     *)
(* A chunk is FILE_TRANSFER_BUFFER_SIZE bytes; <<r, k>> is the k-th of the *)
(* file of request r, and k = 0 stands for its length, sent first.  The    *)
(* chunk after the last is empty: the sender of a file on disk sees its    *)
(* end only when a read comes short, and then has sent what it read.       *)
(***************************************************************************)
EXTENDS Integers, Sequences, FiniteSets, SequencesExt

CONSTANTS
  MapFiles, Script,  \* the kinds of files: of a map (tnt, ota), the script
  Size,              \* chunks of a file of each kind
  Even,              \* the kinds whose file on the host's disk fills its chunks
  Window,            \* chunks the sender runs ahead (10 in the code)
  MaxRequests        \* bound: files asked for

Kinds == MapFiles \cup {Script}
Requests == 1..MaxRequests

ASSUME FileAssumption ==
  /\ Script \notin MapFiles /\ IsFiniteSet(MapFiles)
  /\ Size \in [Kinds -> Nat \ {0}]     \* the files of a game are not empty
  /\ Even \subseteq Kinds
  /\ Window \in Nat \ {0} /\ MaxRequests \in Nat

VARIABLES
  kind,       \* the kinds of the files asked for so far, in order
  get,        \* the getters (GetFileThread) by request
  getters,    \* those listed in getfile_thread
  send,       \* the senders (SendFileThread, sendfile_thread) by request
  down, up,   \* the streams between the two SocketThreads
  specialq,   \* the host's queue of special messages: <<port, request>>
  todo,       \* what the client's menu is to do: <<operation, kind>>
  previous,   \* previous_tnt_port, previous_ota_port, previous_lua_port
  open,       \* the client is in the setup menu
  dirty, admin,  \* fileDirty and the AdminThread of the client
  lost        \* dead getters whose notice was wiped out (for StreamMoves)

client == <<kind, get, getters, todo, previous, open>>
host == <<send, specialq>>
clean == <<dirty, admin, lost>>
vars == <<client, host, down, up, clean>>

NoPort == 0
BasePort == 7776

Idle == [at |-> "none", port |-> NoPort, ready |-> FALSE, buffer |-> <<>>,
         sofar |-> 0, length |-> 0, data |-> <<>>, late |-> FALSE]
Silent == [at |-> "none", port |-> NoPort, pos |-> 0, progress |-> 0]

Init ==
  /\ kind = <<>>
  /\ get = [r \in Requests |-> Idle] /\ getters = {}
  /\ send = [r \in Requests |-> Silent]
  /\ down = <<>> /\ up = <<>> /\ specialq = <<>>
  /\ todo = <<>> /\ previous = [k \in Kinds |-> NoPort] /\ open = TRUE
  /\ dirty = FALSE /\ admin = "idle" /\ lost = {}

Reads(r) == Size[kind[r]] + (IF kind[r] \in Even THEN 1 ELSE 0)
Empty(piece) == piece[2] > Size[kind[piece[1]]]
Whole(r) == [k \in 1..Size[kind[r]] |-> <<r, k>>]
Dead(r) == get[r].at \in {"done", "failed"}
Sending(r) == send[r].at \notin {"none", "dead"}
Failed(g) == [Idle EXCEPT !.at = "failed", !.port = g.port]   \* .part is removed
Over(x) == [Silent EXCEPT !.at = "dead", !.port = x.port]
setFileDirty == dirty' = TRUE

-----------------------------------------------------------------------------
(* The client's menu.                                                      *)

(* SET MAP: stop the transfers of the old map, ask for the missing files.  *)
SetMap ==
  /\ open /\ todo = <<>>
  /\ \E need \in SUBSET MapFiles :
       /\ Len(kind) + Cardinality(need) <= MaxRequests
       /\ todo' = [j \in 1..Cardinality(MapFiles) |-> <<"stop", SetToSeq(MapFiles)[j]>>]
                  \o [j \in 1..Cardinality(need) |-> <<"get", SetToSeq(need)[j]>>]
  /\ UNCHANGED <<kind, get, getters, previous, open, host, down, up, clean>>

(* SET SCRIPT, when the client lacks the script.                           *)
SetScript ==
  /\ open /\ todo = <<>> /\ Len(kind) < MaxRequests
  /\ todo' = << <<"stop", Script>>, <<"get", Script>> >>
  /\ UNCHANGED <<kind, get, getters, previous, open, host, down, up, clean>>

(* doFinalize(): leaving the menu stops what it remembers.                 *)
Leave ==
  /\ open /\ todo = <<>> /\ open' = FALSE
  /\ todo' = << <<"stop", Script>> >>
             \o [j \in 1..Cardinality(MapFiles) |-> <<"stop", SetToSeq(MapFiles)[j]>>]
  /\ UNCHANGED <<kind, get, getters, previous, host, down, up, clean>>

(* One more chunk in the file, unless it is empty, ...                     *)
Written(g) ==
  LET n == IF g.buffer[2] = 0 THEN 0 ELSE 1   \* a length is 4 bytes, no chunk
      more == IF Empty(g.buffer) THEN g
              ELSE [g EXCEPT !.data = Append(@, g.buffer), !.sofar = @ + n]
  IN  [more EXCEPT !.at = IF more.sofar >= more.length THEN "done" ELSE @,
                   !.ready = more.sofar < more.length, !.buffer = <<>>]

(* ... and the answer to the sender.                                       *)
Acknowledged(g) ==
  IF Empty(g.buffer) THEN up
  ELSE Append(up, [what |-> "R", port |-> g.port, n |-> Written(g).sofar])

(* stopFileTransfer(port): the thread is told to end, joined and deleted.  *)
(* It still writes a chunk that was handed to it.                          *)
StopOne ==
  /\ todo # <<>> /\ Head(todo)[1] = "stop" /\ todo' = Tail(todo)
  /\ LET port == previous[Head(todo)[2]]
         hit == {r \in getters : get[r].port = port}
     IN  /\ IF port = NoPort \/ hit = {}
            THEN UNCHANGED <<get, getters, up>>
            ELSE \E r \in hit :
              LET g == get[r] handed == g.at = "data" /\ ~g.ready
                  e == IF handed THEN Written(g) ELSE g
              IN  /\ getters' = getters \ {r}
                  /\ get' = [get EXCEPT ![r] =
                       IF e.at = "done" THEN e ELSE Failed(g)]
                  /\ up' = IF handed THEN Acknowledged(g) ELSE up
         /\ IF port = NoPort THEN UNCHANGED dirty ELSE setFileDirty
  /\ UNCHANGED <<kind, previous, open, host, down, admin, lost>>

(* Mutant: the port of the last getter, whether it has ended or not.       *)
SamePort == BasePort + 1

(* The next port after those of the listed getters.                        *)
NextPort ==
  LET used == {get[r].port : r \in getters} \cup {BasePort}
  IN  1 + CHOOSE p \in used : \A q \in used : q <= p

(* getFile(): list a new getter and start it; and the special message      *)
(* REQUEST FILE name port to the host.                                     *)
GetOne ==
  /\ todo # <<>> /\ Head(todo)[1] = "get" /\ todo' = Tail(todo)
  /\ LET k == Head(todo)[2] r == Len(kind) + 1
     IN  /\ kind' = Append(kind, k) /\ getters' = getters \cup {r}
         /\ get' = [get EXCEPT ![r] = [Idle EXCEPT !.at = "start", !.port = NextPort]]
         /\ previous' = [previous EXCEPT ![k] = NextPort]
         /\ up' = Append(up, [what |-> "X", port |-> NextPort, n |-> r])
  /\ UNCHANGED <<open, host, down, clean>>

-----------------------------------------------------------------------------
(* GetFileThread::proc.                                                    *)

GetterStarts(r) ==
  /\ get[r].at = "start"
  /\ \/ get' = [get EXCEPT ![r].at = "length", ![r].ready = TRUE] /\ UNCHANGED dirty
     \/ get' = [get EXCEPT ![r] = Failed(@)] /\ setFileDirty  \* no .part file
  /\ UNCHANGED <<kind, getters, todo, previous, open, host, down, up, admin, lost>>

(* Four bytes that are no length may say the file is over, or never is.    *)
Garbage == {0, 1 + CHOOSE n \in {Size[k] : k \in Kinds} : \A k \in Kinds : Size[k] <= n}

(* The first packet is read as the length, even if it is a chunk.          *)
Lengths(b) == IF b[2] = 0 THEN {Size[kind[b[1]]]} ELSE Garbage

GetterReadsLength(r) ==
  /\ get[r].at = "length" /\ ~get[r].ready
  /\ \E n \in Lengths(get[r].buffer) :
       get' = [get EXCEPT ![r].at = "data", ![r].length = n, ![r].ready = TRUE,
                          ![r].buffer = <<>>]
  /\ UNCHANGED <<kind, getters, todo, previous, open, host, down, up, clean>>

GetterReadsData(r) ==
  /\ get[r].at = "data" /\ ~get[r].ready
  /\ get' = [get EXCEPT ![r] = Written(@)]
  /\ up' = Acknowledged(get[r])
  /\ IF get'[r].at = "done" THEN setFileDirty ELSE UNCHANGED dirty
  /\ UNCHANGED <<kind, getters, todo, previous, open, host, down, admin, lost>>

(* Mutant: only the wait for the length ends.                              *)
TimesOutOnce(r) ==
  /\ get[r].at = "length" /\ get[r].ready
  /\ get' = [get EXCEPT ![r] = Failed(@)] /\ setFileDirty
  /\ UNCHANGED <<kind, getters, todo, previous, open, host, down, up, admin, lost>>

(* Mutant: nobody is told.                                                 *)
TimesOutSilently(r) ==
  /\ get[r].at \in {"length", "data"} /\ get[r].ready
  /\ get' = [get EXCEPT ![r] = Failed(@)]
  /\ UNCHANGED <<kind, getters, todo, previous, open, host, down, up, clean>>

(* A minute without a packet.                                              *)
GetterTimesOut(r) ==
  /\ get[r].at \in {"length", "data"} /\ get[r].ready
  /\ get' = [get EXCEPT ![r] = Failed(@)] /\ setFileDirty
  /\ UNCHANGED <<kind, getters, todo, previous, open, host, down, up, admin, lost>>

(* The length comes when the minute is over, after the buffer was read and *)
(* before ready is tested: the getter goes on with what the buffer held.   *)
LengthComesLate(r) ==
  /\ get[r].at = "length" /\ get[r].ready
  /\ down # <<>> /\ Head(down).port = get[r].port /\ down' = Tail(down)
  /\ \E n \in Garbage :
       get' = [get EXCEPT ![r].at = "data", ![r].length = n, ![r].late = TRUE]
  /\ UNCHANGED <<kind, getters, todo, previous, open, host, up, clean>>

(* SocketThread, packet F.  It waits for a getter that is not ready; a     *)
(* dead one that is still listed keeps it at this packet.                  *)
ClientReceives ==
  /\ down # <<>>
  /\ LET m == Head(down) of == {r \in getters : get[r].port = m.port}
     IN  /\ \A r \in of : get[r].ready /\ ~Dead(r)
         /\ get' = [r \in Requests |-> IF r \in of
                    THEN [get[r] EXCEPT !.buffer = m.piece, !.ready = FALSE] ELSE get[r]]
         /\ down' = Tail(down)
  /\ UNCHANGED <<kind, getters, todo, previous, open, host, up, clean>>

-----------------------------------------------------------------------------
(* SendFileThread::proc.                                                   *)

Packet(r, k) == [port |-> send[r].port, piece |-> <<r, k>>]

SenderStarts(r) ==
  /\ send[r].at = "start"
  /\ \/ /\ send' = [send EXCEPT ![r].at = "data"]
        /\ down' = Append(down, Packet(r, 0))
     \/ /\ send' = [send EXCEPT ![r] = Over(@)]     \* cannot open the file
        /\ UNCHANGED down
  /\ UNCHANGED <<client, specialq, up, clean>>

(* An empty chunk is the end, and no reason to wait.                       *)
SenderSends(r) ==
  /\ send[r].at = "data"
  /\ send' = [send EXCEPT ![r].pos = @ + 1,
               ![r].at = IF send[r].pos < Size[kind[r]] THEN "window" ELSE "last"]
  /\ down' = Append(down, Packet(r, send[r].pos + 1))
  /\ UNCHANGED <<client, specialq, up, clean>>

(* Mutant: the window is one chunk wider.                                  *)
MayGoOnWider(r) == send[r].progress >= send[r].pos - Window - 1

MayGoOn(r) == send[r].progress >= send[r].pos - Window

(* Mutant: the end of the file is seen one read too late.                  *)
EofLate(r) == send[r].pos > Reads(r)

Eof(r) == send[r].pos >= Reads(r)

(* Wait for the acknowledgements, a minute at most; then the next chunk,   *)
(* or the end of the file.                                                 *)
SenderGoesOn(r) ==
  /\ send[r].at = "window"
  /\ \/ /\ MayGoOn(r)
        /\ send' = [send EXCEPT ![r].at =
             IF Eof(r) THEN "last" ELSE "data"]
     \/ ~MayGoOn(r) /\ send' = [send EXCEPT ![r] = Over(@)]
  /\ UNCHANGED <<client, specialq, down, up, clean>>

(* The last acknowledgement but one, or another minute.                    *)
SenderEnds(r) ==
  /\ send[r].at = "last"
  /\ send' = [send EXCEPT ![r] = Over(@)]
  /\ UNCHANGED <<client, specialq, down, up, clean>>

-----------------------------------------------------------------------------
(* The host's SocketThread: an acknowledgement is the progress of the      *)
(* sender with that port; a request waits for the menu.                    *)
HostReceives ==
  /\ up # <<>> /\ up' = Tail(up)
  /\ LET m == Head(up)
     IN  IF m.what = "X"
         THEN specialq' = Append(specialq, <<m.port, m.n>>) /\ UNCHANGED send
         ELSE /\ send' = [r \in Requests |->
                   IF Sending(r) /\ send[r].port = m.port
                   THEN [send[r] EXCEPT !.progress = m.n] ELSE send[r]]
              /\ UNCHANGED specialq
  /\ UNCHANGED <<client, down, clean>>

(* REQUEST FILE in the host's menu: stopFileTransfer(port, from), then     *)
(* sendFile().                                                             *)
HostServes ==
  /\ specialq # <<>> /\ specialq' = Tail(specialq)
  /\ LET port == Head(specialq)[1] r == Head(specialq)[2]
     IN  send' = [q \in Requests |->
           IF q = r THEN [Silent EXCEPT !.at = "start", !.port = port]
           ELSE IF Sending(q) /\ send[q].port = port THEN Over(send[q]) ELSE send[q]]
  /\ UNCHANGED <<client, down, up, clean>>

-----------------------------------------------------------------------------
(* AdminThread, cleanFileThread(): the dead threads leave the list; the    *)
(* flag that called for it is reset afterwards.  (The host runs the same   *)
(* on its list of senders.  A dead sender that is still listed only takes  *)
(* note of acknowledgements nobody reads, so it is left out here.)         *)
Clean ==
  /\ dirty /\ admin = "idle" /\ admin' = "reset"
  /\ getters' = {r \in getters : ~Dead(r)} /\ lost' = {}
  /\ UNCHANGED <<kind, get, todo, previous, open, host, down, up, dirty>>

ResetDirty ==
  /\ admin = "reset" /\ admin' = "idle" /\ dirty' = FALSE
  /\ lost' = {r \in getters : Dead(r)}
  /\ UNCHANGED <<client, host, down, up>>

-----------------------------------------------------------------------------
Getter(r) == GetterStarts(r) \/ GetterReadsLength(r) \/ GetterReadsData(r)
             \/ GetterTimesOut(r) \/ LengthComesLate(r)
Sender(r) == SenderStarts(r) \/ SenderSends(r) \/ SenderGoesOn(r) \/ SenderEnds(r)
ClientMenu == StopOne \/ GetOne
User == SetMap \/ SetScript \/ Leave
Admin == Clean \/ ResetDirty

Next ==
  \/ User \/ ClientMenu \/ ClientReceives \/ HostReceives \/ HostServes
  \/ \E r \in Requests : Getter(r) \/ Sender(r)
  \/ Admin

Spec == Init /\ [][Next]_vars

(* Every thread gets its turns; the user and the host's choices are free.  *)
Fairness ==
  /\ WF_vars(ClientMenu) /\ WF_vars(ClientReceives)
  /\ WF_vars(HostReceives) /\ WF_vars(HostServes)
  /\ \A r \in Requests : WF_vars(Getter(r)) /\ WF_vars(Sender(r))
  /\ WF_vars(Admin)
FairSpec == Spec /\ Fairness

-----------------------------------------------------------------------------
TypeOK ==
  /\ kind \in Seq(Kinds) /\ Len(kind) <= MaxRequests
  /\ getters \subseteq 1..Len(kind)
  /\ \A r \in Requests :
       /\ get[r].at \in {"none", "start", "length", "data", "done", "failed"}
       /\ get[r].port \in Nat /\ get[r].ready \in BOOLEAN
       /\ get[r].sofar \in Nat /\ get[r].length \in Nat
       /\ send[r].at \in {"none", "start", "data", "window", "last", "dead"}
       /\ send[r].pos \in 0..(IF r <= Len(kind) THEN Reads(r) ELSE 0)
       /\ send[r].progress \in Nat /\ send[r].port \in Nat
  /\ open \in BOOLEAN
  /\ lost \subseteq 1..Len(kind) /\ dirty \in BOOLEAN /\ admin \in {"idle", "reset"}

(* Whoever used the port of request r before read all that was sent there: *)
(* a whole file, and no empty chunk came after it.                         *)
CleanPort(r) ==
  \A q \in 1..(r - 1) :
    get[q].port = get[r].port => get[q].data = Whole(q) /\ kind[q] \notin Even

(* A file the client puts in place of its .part is the file it asked for,  *)
(* whole and in order, though several transfers share the stream, their    *)
(* ports are used again and each may be stopped or time out at any moment; *)
(* except on a port where an earlier transfer was cut short or left the    *)
(* empty chunk of a file that fills its chunks, and except with a length   *)
(* that came as the minute ended.                                          *)
FilesAreWhole ==
  \A r \in 1..Len(kind) :
    get[r].at = "done" /\ CleanPort(r) /\ ~get[r].late => get[r].data = Whole(r)

(* A sender is never more than the window and the chunk being sent ahead   *)
(* of what its own getter has written, though the acknowledgements name    *)
(* nothing but a port, which earlier transfers may have used too.          *)
WindowKept ==
  \A r \in 1..Len(kind) :
    Sending(r) /\ ~Dead(r) => send[r].pos - get[r].sofar <= Window + 1

(* Every getter ends, with its file or without, whatever becomes of the    *)
(* sender, the stream and the other transfers.                             *)
GettersEnd == \A r \in Requests : []<>(get[r].at = "none" \/ Dead(r))

(* The client's stream carries the orders of the game too.  A packet for a *)
(* dead getter holds it up only until the AdminThread has taken the getter *)
(* away, unless the reset of fileDirty wiped out the notice of its death.  *)
HeldUp(r) == r \in getters /\ Dead(r) /\ down # <<>> /\ Head(down).port = get[r].port
StreamMoves == \A r \in Requests : []<>(~HeldUp(r) \/ r \in lost)
=============================================================================
