------------------------------- MODULE FatUdp -------------------------------
(***************************************************************************)
(* Fat UDP: how an ntserv process makes up for the UDP packets that its    *)
(* client loses.  ntserv/fatudp.c keeps each semi-critical packet on one   *)
(* of several doubly linked lists and adds some of them to every           *)
(* transmission; sendUDPbuffered() and flushSockBuf() of ntserv/sockio.c   *)
(* drive it, and handleUdpReq(), forceUpdate() and initClientData() of     *)
(* ntserv/socket.c switch it on and reset it.                              *)
(*                                                                         *)
(* One process, step by step: mem holds the pointers, and an update of the *)
(* client goes through the objects that have changed, adds fat, sends and  *)
(* merges.  The network loses transmissions, a write may fail, and the     *)
(* connection may die; the process notices when it reads or, if Late, in   *)
(* the middle of an update or one update later.                            *)
(*                                                                         *)
(* What goes over TCP arrives.  A UDP socket may be open while packets     *)
(* still go over TCP, until the client has verified it; fat is added to    *)
(* what leaves by it all the same.  SIMPLE is every udpMode but fat.       *)
(***************************************************************************)
EXTENDS Integers, Sequences, FiniteSets

CONSTANTS
  Objects,      \* what has a semi-critical packet: phasers, torpedoes, ...
  Forced,       \* those whose packets forceUpdate() has sent again: not missiles
  Big,          \* the objects with large packets
  BigSize, SmallSize,   \* pkt_size
  MaxFatList,   \* MAX_FAT_LIST
  MaxFatData,   \* MAX_FAT_DATA
  MaxNonFat,    \* MAX_NONFAT
  NULL,
  Late,         \* may an update run between the client's death and reconnect()?
  Denials,      \* may forceUpdate() be refused (UDP_UPDATE_WAIT)?
  MaxChanges,   \* bound: changes of objects
  MaxLosses,    \* bound: transmissions lost
  MaxSwitches   \* bound: requests of the client, failures and reconnections

ASSUME FatUdpAssumption ==
  /\ IsFiniteSet(Objects) /\ {Big, Forced} \subseteq SUBSET Objects /\ NULL \notin Objects
  /\ {BigSize, SmallSize, MaxFatData, MaxNonFat} \subseteq Nat
  /\ BigSize < MaxFatData /\ SmallSize < MaxFatData
  /\ MaxFatList \in Nat \ {0}
  /\ {Late, Denials} \subseteq BOOLEAN
  /\ {MaxChanges, MaxLosses, MaxSwitches} \subseteq Nat

Lists == 0 .. MaxFatList - 1
pkt_size(o) == IF o \in Big THEN BigSize ELSE SmallSize
None == [head |-> NULL, tail |-> NULL]

VARIABLES
  mem,         \* next and prev of every FAT_NODE, fatlist[] and tmplist[]
  commMode, udpMode,
  udpSock,     \* is the UDP socket open?
  clientDead,
  dirty,       \* objects whose value differs from the process's copy of what it sent
  pc,          \* what the process is doing
  todo,        \* updateClient(): the objects still to be sent
  list, fatp, bytesleft,   \* locals of fatten(); list also that of fatMerge()
  sending,     \* the packets in udpbuf
  fresh,       \* does the client have the object's value?
  changes, losses, switches

modes == <<commMode, udpMode, udpSock, clientDead>>
locals == <<list, fatp, bytesleft>>
counters == <<changes, losses, switches>>
vars == <<mem, modes, dirty, pc, todo, locals, sending, fresh, counters>>

Unlinked ==
  [next |-> [o \in Objects |-> NULL], prev |-> [o \in Objects |-> NULL],
   fat |-> [l \in Lists |-> None], tmp |-> [l \in Lists |-> None]]

Init ==
  /\ mem = Unlinked
  /\ commMode = "TCP" /\ udpMode = "SIMPLE" /\ udpSock = FALSE
  /\ clientDead = FALSE
  /\ dirty = Objects
  /\ pc = "read" /\ todo = {}
  /\ list = 0 /\ fatp = NULL /\ bytesleft = 0
  /\ sending = {} /\ fresh = [o \in Objects |-> FALSE]
  /\ changes = 0 /\ losses = 0 /\ switches = 0

Fat == commMode = "UDP" /\ udpMode = "FAT"

-----------------------------------------------------------------------------
(* The lists: the head is sent first; next points to the head, prev to the *)
(* tail.                                                                   *)

(* The list in fatlist with o at the end given, if any. *)
Ending(m, end, o) == {l \in Lists : m.fat[l][end] = o}
First(ls) == CHOOSE l \in ls : \A k \in ls : l <= k

(* dequeue(): the branches on fatp->next, then those on fatp->prev. *)
OffHead(m, o) ==
  LET p == m.prev[o]
      ls == Ending(m, "head", o) IN
  IF m.next[o] # NULL
  THEN IF p = NULL THEN m ELSE [m EXCEPT !.next[p] = m.next[o]]
  ELSE IF ls = {} THEN m
  ELSE LET n == [m EXCEPT !.fat[First(ls)].head = p] IN
       IF p = NULL THEN n ELSE [n EXCEPT !.next[p] = NULL]

OffTail(m, o) ==
  LET n == m.next[o]
      ls == Ending(m, "tail", o) IN
  IF m.prev[o] # NULL
  THEN IF n = NULL THEN m ELSE [m EXCEPT !.prev[n] = m.prev[o]]
  ELSE IF ls = {} THEN m
  ELSE LET k == [m EXCEPT !.fat[First(ls)].tail = n] IN
       IF n = NULL THEN k ELSE [k EXCEPT !.prev[n] = NULL]

DequeueHeadOnly(m, o) ==
  [OffHead(m, o) EXCEPT !.prev[o] = NULL, !.next[o] = NULL]

Dequeue(m, o) ==
  [OffTail(OffHead(m, o), o) EXCEPT !.prev[o] = NULL, !.next[o] = NULL]

(* enqueue(): at the tail of a temporary list. *)
EnqueueAtHead(m, o, l) ==
  LET h == m.tmp[l].head IN
  IF h = NULL THEN [m EXCEPT !.tmp[l] = [head |-> o, tail |-> o]]
  ELSE [m EXCEPT !.prev[o] = h, !.next[h] = o, !.tmp[l].head = o]

Enqueue(m, o, l) ==
  LET t == m.tmp[l].tail IN
  IF t = NULL THEN [m EXCEPT !.tmp[l] = [head |-> o, tail |-> o]]
  ELSE [m EXCEPT !.next[o] = t, !.prev[t] = o, !.tmp[l].tail = o]

(* fatMerge(), one list. *)
MergeOneWay(m, l) ==
  LET f == m.fat[l]
      t == m.tmp[l] IN
  IF t.head = NULL THEN m
  ELSE IF f.head = NULL THEN [m EXCEPT !.fat[l] = t, !.tmp[l] = None]
  ELSE [m EXCEPT !.next[t.head] = f.tail, !.fat[l].tail = t.tail, !.tmp[l] = None]

MergeList(m, l) ==
  LET f == m.fat[l]
      t == m.tmp[l] IN
  IF t.head = NULL THEN m
  ELSE IF f.head = NULL THEN [m EXCEPT !.fat[l] = t, !.tmp[l] = None]
  ELSE [m EXCEPT !.next[t.head] = f.tail, !.prev[f.tail] = t.head,
                 !.fat[l].tail = t.tail, !.tmp[l] = None]

-----------------------------------------------------------------------------
(* updateClient() and flushSockBuf() *)

Change(o) ==
  /\ pc = "read" /\ changes < MaxChanges
  /\ changes' = changes + 1
  /\ dirty' = dirty \cup {o}
  /\ fresh' = [fresh EXCEPT ![o] = FALSE]
  /\ UNCHANGED <<mem, modes, pc, todo, locals, sending, losses, switches>>

(* intrupt(), when the daemon has signalled; unless Late, not before a dead *)
(* client has been noticed.                                                *)
Interrupt ==
  /\ pc = "read" /\ (clientDead => Late)
  /\ pc' = "update"
  /\ todo' = dirty
  /\ dirty' = {}
  /\ UNCHANGED <<mem, modes, locals, sending, fresh, counters>>

(* updateFat() *)
updateFat(o) == IF udpMode = "FAT" THEN Enqueue(Dequeue(mem, o), o, 0) ELSE mem

(* sendClientSizedPacket() of a semi-critical packet: over TCP, or into    *)
(* udpbuf.                                                                 *)
Send(o) ==
  /\ pc = "update" /\ o \in todo
  /\ todo' = todo \ {o}
  /\ IF commMode = "TCP"
     THEN fresh' = [fresh EXCEPT ![o] = TRUE] /\ UNCHANGED <<mem, sending>>
     ELSE mem' = updateFat(o) /\ sending' = sending \cup {o} /\ UNCHANGED fresh
  /\ UNCHANGED <<modes, dirty, pc, locals, counters>>

Arrives ==
  /\ fresh' = [o \in Objects |-> fresh[o] \/ (o \in sending /\ o \notin dirty)]
  /\ UNCHANGED <<commMode, udpSock, counters>>

IsLost ==
  /\ udpSock /\ sending # {} /\ losses < MaxLosses
  /\ losses' = losses + 1
  /\ UNCHANGED <<commMode, udpSock, fresh, changes, switches>>

(* gwrite() on the UDP socket fails: closeUdpConn(), and back to TCP. *)
Fails ==
  /\ udpSock /\ switches < MaxSwitches
  /\ commMode' = "TCP" /\ udpSock' = FALSE
  /\ switches' = switches + 1
  /\ UNCHANGED <<fresh, changes, losses>>

(* sendUDPbuffered(): the packet of o, or one that is not semi-critical,   *)
(* finds the buffer full, which is written to make room.  If that fails,   *)
(* the packet stays in a buffer that connUdpConn() will clear.             *)
Spill(o) ==
  /\ pc = "update" /\ o \in todo \cup {NULL} /\ commMode = "UDP"
  /\ Arrives \/ IsLost \/ Fails
  /\ todo' = todo \ {o}
  /\ mem' = IF o = NULL THEN mem ELSE updateFat(o)
  /\ sending' = IF udpSock' THEN {o} \ {NULL} ELSE {}
  /\ UNCHANGED <<udpMode, clientDead, dirty, pc, locals>>

(* flushSockBuf(): nothing at all for a dead client. *)
Flush ==
  /\ pc = "update" /\ todo = {}
  /\ list' = 0
  /\ IF clientDead THEN pc' = "gone" /\ UNCHANGED <<fatp, bytesleft>>
     ELSE IF udpSock /\ udpMode = "FAT"
     THEN pc' = "fatten" /\ fatp' = mem.fat[0].head /\ bytesleft' = MaxFatData
     ELSE pc' = "send" /\ UNCHANGED <<fatp, bytesleft>>
  /\ UNCHANGED <<mem, modes, dirty, todo, sending, fresh, counters>>

(* There are FAT_THRESH bytes in the buffer: no fat this time. *)
Overfull ==
  /\ pc = "update" /\ todo = {} /\ ~clientDead
  /\ udpSock /\ udpMode = "FAT"
  /\ pc' = "send" /\ list' = 0
  /\ UNCHANGED <<mem, modes, dirty, todo, fatp, bytesleft, sending, fresh, counters>>

FattenShort ==
  LET m == Dequeue(mem, fatp)
      left == bytesleft - pkt_size(fatp) IN
  /\ pc = "fatten" /\ fatp # NULL /\ pkt_size(fatp) < bytesleft
  /\ sending' = sending \cup {fatp}
  /\ bytesleft' = left
  /\ mem' = IF list + 2 >= MaxFatList THEN m ELSE Enqueue(m, fatp, list + 1)
  /\ IF left < MaxNonFat THEN pc' = "send" /\ UNCHANGED fatp
     ELSE fatp' = mem.prev[fatp] /\ UNCHANGED pc
  /\ UNCHANGED <<modes, dirty, todo, list, fresh, counters>>

(* fatten(): the packet fits, and is moved to the next list, or dropped. *)
Fatten ==
  LET m == Dequeue(mem, fatp)
      left == bytesleft - pkt_size(fatp) IN
  /\ pc = "fatten" /\ fatp # NULL /\ pkt_size(fatp) < bytesleft
  /\ sending' = sending \cup {fatp}
  /\ bytesleft' = left
  /\ mem' = IF list + 1 = MaxFatList THEN m ELSE Enqueue(m, fatp, list + 1)
  /\ IF left < MaxNonFat THEN pc' = "send" /\ UNCHANGED fatp
     ELSE fatp' = mem.prev[fatp] /\ UNCHANGED pc
  /\ UNCHANGED <<modes, dirty, todo, list, fresh, counters>>

TooBig ==
  /\ pc = "fatten" /\ fatp # NULL /\ pkt_size(fatp) >= bytesleft
  /\ fatp' = mem.prev[fatp]
  /\ UNCHANGED <<mem, modes, dirty, pc, todo, list, bytesleft, sending, fresh, counters>>

NextList ==
  /\ pc = "fatten" /\ fatp = NULL
  /\ IF list + 1 = MaxFatList THEN pc' = "send" /\ UNCHANGED <<list, fatp>>
     ELSE list' = list + 1 /\ fatp' = mem.fat[list'].head /\ UNCHANGED pc
  /\ UNCHANGED <<mem, modes, dirty, todo, bytesleft, sending, fresh, counters>>

(* input() tests isClientDead() before it reads again. *)
Back == IF clientDead THEN "gone" ELSE "read"

(* After the write fatMerge() runs if udpMode is still fat. *)
Written ==
  /\ pc = "send"
  /\ pc' = IF udpMode = "FAT" THEN "merge" ELSE Back
  /\ list' = 0 /\ fatp' = NULL /\ bytesleft' = 0
  /\ sending' = {}
  /\ UNCHANGED <<mem, udpMode, clientDead, dirty, todo>>

Transmit   == Written /\ Arrives
Lose       == Written /\ IsLost
WriteFails == Written /\ Fails

fatMerge ==
  /\ pc = "merge"
  /\ mem' = MergeList(mem, list)
  /\ IF list + 1 = MaxFatList THEN list' = 0 /\ pc' = Back
     ELSE list' = list + 1 /\ UNCHANGED pc
  /\ UNCHANGED <<modes, dirty, todo, fatp, bytesleft, sending, fresh, counters>>

-----------------------------------------------------------------------------
(* The client's requests, its death, and reconnect() *)

Request ==
  /\ pc = "read" /\ ~clientDead /\ switches < MaxSwitches
  /\ switches' = switches + 1
  /\ UNCHANGED <<mem, clientDead, pc, todo, locals, sending, fresh, changes, losses>>

(* handleUdpReq(), COMM_UDP: whatever socket there was is closed, and the  *)
(* new one is connected, or not.                                           *)
OpenUdp ==
  /\ Request
  /\ commMode' = "TCP" /\ udpSock' \in BOOLEAN
  /\ UNCHANGED <<udpMode, dirty>>

(* COMM_VERIFY, which comes by the UDP socket. *)
Verify ==
  /\ Request /\ udpSock /\ commMode = "TCP"
  /\ commMode' = "UDP" /\ udpMode' = "SIMPLE"
  /\ UNCHANGED <<udpSock, dirty>>

(* forceUpdate(): the process believes that its client knows nothing, but  *)
(* for what it keeps elsewhere: updateMissiles() decides by                *)
(* clientThingyStatus, updateStatus() by clientStatus2.                    *)
forceUpdate == dirty' = dirty \cup Forced \/ (Denials /\ dirty' = dirty)

(* COMM_MODE, in whatever mode the connection is, COMM_UPDATE, COMM_TCP. *)
ModeFat    == Request /\ udpMode' = "FAT" /\ forceUpdate /\ UNCHANGED <<commMode, udpSock>>
ModeSimple == Request /\ udpMode' = "SIMPLE" /\ UNCHANGED <<commMode, udpSock, dirty>>
FullUpdate == Request /\ forceUpdate /\ UNCHANGED <<commMode, udpMode, udpSock>>

(* ... or doRead() fails on the UDP socket. *)
ToTcp ==
  /\ Request /\ udpSock
  /\ commMode' = "TCP" /\ udpSock' = FALSE
  /\ UNCHANGED <<udpMode, dirty>>

(* A read or a write on the TCP socket fails.  Only sendTCPbuffered() fails *)
(* before flushSockBuf() has looked at clientDead.                         *)
Die ==
  /\ ~clientDead /\ switches < MaxSwitches
  /\ pc \in {"read", "fatten", "send", "merge"} \/ (Late /\ pc = "update")
  /\ clientDead' = TRUE
  /\ switches' = switches + 1
  /\ UNCHANGED <<mem, commMode, udpMode, udpSock, dirty, pc, todo, locals, sending,
                 fresh, changes, losses>>

(* reconnect(), and initClientData(), which calls reset_fat_list(): the    *)
(* temporary lists are not reset, nor is udpMode; and it invalidates what  *)
(* forceUpdate() does.                                                     *)
Reconnect ==
  /\ pc \in {"read", "gone"} /\ clientDead
  /\ pc' = "read"
  /\ clientDead' = FALSE /\ commMode' = "TCP" /\ udpSock' = FALSE
  /\ mem' = [Unlinked EXCEPT !.tmp = mem.tmp]
  /\ dirty' = dirty \cup Forced /\ fresh' = [o \in Objects |-> FALSE]
  /\ sending' = {}
  /\ UNCHANGED <<udpMode, todo, locals, counters>>

Update ==
  \/ \E o \in Objects : Send(o)
  \/ \E o \in Objects \cup {NULL} : Spill(o)
  \/ Interrupt \/ Flush \/ Overfull \/ Fatten \/ TooBig \/ NextList
  \/ Transmit \/ Lose \/ WriteFails \/ fatMerge \/ Reconnect

Next ==
  \/ Update
  \/ \E o \in Objects : Change(o)
  \/ OpenUdp \/ Verify \/ ModeFat \/ ModeSimple \/ FullUpdate \/ ToTcp \/ Die

(* The daemon's signals keep coming, the process finishes each update, and *)
(* not every update fills more than half of the buffer.                    *)
Spec == Init /\ [][Next]_vars
FairSpec == Spec /\ WF_vars(Update) /\ SF_vars(Flush)

-----------------------------------------------------------------------------
(* The list whose head is h, from head to tail: at most all the objects,   *)
(* and one more when the pointers run in a circle.                         *)
Walk(prev, h) ==
  LET N == Cardinality(Objects) + 1
      nth[i \in 1 .. N] ==
        IF i = 1 THEN h
        ELSE IF nth[i - 1] = NULL THEN NULL ELSE prev[nth[i - 1]]
      len == Cardinality({i \in 1 .. N : nth[i] # NULL}) IN
  [i \in 1 .. len |-> nth[i]]

Queue == [l \in Lists |-> Walk(mem.prev, mem.fat[l].head)]
Later == [l \in Lists |-> Walk(mem.prev, mem.tmp[l].head)]

Fifo == INSTANCE FatQueue WITH
          Packets <- Objects, Depth <- MaxFatList, queue <- Queue, later <- Later

Members(q) == {q[i] : i \in 1 .. Len(q)}

Ends(l, q) ==
  IF q = <<>> THEN l.head = NULL /\ l.tail = NULL
              ELSE l.head = q[1] /\ l.tail = q[Len(q)]
Chained(next, prev, q) ==
  \A i \in 1 .. Len(q) :
    /\ next[q[i]] = IF i = 1 THEN NULL ELSE q[i - 1]
    /\ prev[q[i]] = IF i = Len(q) THEN NULL ELSE q[i + 1]

(* The pointers of m are those of the lists Q and L. *)
Linked(m, Q, L) ==
  /\ Q \in [Lists -> Seq(Objects)] /\ L \in [Lists -> Seq(Objects)]
  /\ \A l \in Lists :
       /\ Ends(m.fat[l], Q[l]) /\ Chained(m.next, m.prev, Q[l])
       /\ Ends(m.tmp[l], L[l]) /\ Chained(m.next, m.prev, L[l])
  /\ \A o \in Objects :
       (\A l \in Lists : o \notin Members(Q[l]) /\ o \notin Members(L[l]))
         => m.next[o] = NULL /\ m.prev[o] = NULL

Memories == [next : [Objects -> Objects \cup {NULL}],
             prev : [Objects -> Objects \cup {NULL}],
             fat : [Lists -> [head : Objects \cup {NULL}, tail : Objects \cup {NULL}]],
             tmp : [Lists -> [head : Objects \cup {NULL}, tail : Objects \cup {NULL}]]]

(* Every variable has its type, and pointers describe lists: the end of    *)
(* each list is where its tail points, next and prev are inverse, and a    *)
(* node that is on no list has neither.  dequeue() takes a node off by     *)
(* these, whatever list it is on.                                          *)
TypeOK ==
  /\ Linked(mem, Queue, Later)
  /\ mem \in Memories
  /\ commMode \in {"TCP", "UDP"} /\ udpMode \in {"SIMPLE", "FAT"}
  /\ {udpSock, clientDead} \subseteq BOOLEAN
  /\ dirty \subseteq Objects /\ todo \subseteq Objects /\ sending \subseteq Objects
  /\ pc \in {"read", "update", "fatten", "send", "merge", "gone"}
  /\ list \in Lists /\ fatp \in Objects \cup {NULL} /\ bytesleft \in 0 .. MaxFatData
  /\ fresh \in [Objects -> BOOLEAN]

(* Why the lists stay lists, unless Late.  A node is in one place of one   *)
(* list; what is sent in an update waits on the first temporary list and   *)
(* is not sent twice in it; fatten() is at a node of the list that it goes *)
(* through; and no node waits between the updates, so that reconnect() has *)
(* no temporary list to reset.                                             *)
OnePlace(Q, L) ==
  /\ \A l, k \in Lists : \A i \in 1 .. Len(Q[l]) :
       /\ \A j \in 1 .. Len(Q[k]) : Q[l][i] = Q[k][j] => l = k /\ i = j
       /\ \A j \in 1 .. Len(L[k]) : Q[l][i] # L[k][j]
  /\ \A l, k \in Lists : \A i \in 1 .. Len(L[l]), j \in 1 .. Len(L[k]) :
       L[l][i] = L[k][j] => l = k /\ i = j
Waiting == {l \in Lists : Later[l] # <<>>}
FatInv ==
  /\ TypeOK
  /\ OnePlace(Queue, Later)
  /\ commMode = "UDP" => udpSock
  /\ pc = "update" => /\ ~clientDead /\ Waiting \subseteq {0}
                      /\ todo \cap Members(Later[0]) = {}
                      /\ udpMode = "FAT" => sending \subseteq Members(Later[0])
  /\ pc \in {"update", "fatten", "send"} /\ Waiting # {} => udpMode = "FAT"
  /\ pc = "fatten" => /\ udpSock /\ udpMode = "FAT"
                      /\ fatp \in Members(Queue[list]) \cup {NULL}
  /\ pc = "merge" => \A l \in Waiting : list <= l
  /\ pc \in {"read", "gone"} => Waiting = {}
  /\ pc \in {"read", "gone", "merge"} => sending = {}

(* The lists behave as the queues of FatQueue, through every unlinking,    *)
(* moving and merging.                                                     *)
Queues == Fifo!Spec

(* A client that stays in fat mode gets the latest value of an object, as  *)
(* long as fewer transmissions are lost than a packet has: the one that    *)
(* reports the change, and one from each list.  That holds from the moment *)
(* when the mode is switched on for what forceUpdate() sends again, and    *)
(* for a missile from its next change.                                     *)
Recovers ==
  /\ \A o \in Forced : <>[]Fat => <>[](fresh[o])
  /\ \A o \in Objects \ Forced : (o \in dirty /\ []Fat) ~> [](fresh[o])

(* "switching to fat mode will clear up your display and keep it cleared"  *)
(* (socket.c, at forceUpdate()): not so for missiles.                      *)
Cleared == <>[]Fat => <>[](\A o \in Objects : fresh[o])

(* Every packet sent in fat mode "will end up on a queue": it waits when   *)
(* the buffer is written, and joins a queue when the lists are merged.     *)
Writes == Flush \/ Overfull \/ \E o \in Objects \cup {NULL} : Spill(o)
EveryPacketQueued ==
  [][ /\ Writes /\ udpMode = "FAT" /\ ~clientDead =>
           sending \subseteq UNION {Members(Later[l]) : l \in Lists}
      /\ fatMerge => Members(Later[list]) \subseteq Members(Queue'[list]) ]_vars

=============================================================================
