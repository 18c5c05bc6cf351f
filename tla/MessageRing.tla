---------------------------- MODULE MessageRing ----------------------------
(***************************************************************************)
(* The ring of messages in shared memory: pmessage2() of common/smessage.c *)
(* and god2player() of daemon/misc.c, which post a message; and            *)
(* updateMessages() and bounce() of ntserv/socket.c, by which the ntserv   *)
(* process of each player sends its client the messages that are for him,  *)
(* and answers or refuses some of them in his place.                       *)
(*                                                                         *)
(* Nobody holds a lock.  A writer counts mc_current on, rolls it over at   *)
(* the end of the ring, clears the slot's MVALID, fills the slot, and sets *)
(* MVALID; a reader keeps an index of his own and reads up to mc_current.  *)
(* Preempt names the steps before which another process may run:           *)
(*    "roll"   between ++mc_current and its roll-over                      *)
(*    "claim"  between the choice of the slot and the loss of its MVALID   *)
(*    "fill"   between the loss of MVALID and the fields                   *)
(*    "valid"  between the fields and MVALID                               *)
(*    "copy"   between a reader's test of the flags and his copy           *)
(*    "lap"    a writer is overtaken by a whole ring of messages           *)
(*                                                                         *)
(* A text is the number of its message: what matters is whether the        *)
(* address and the text of a slot belong together.                         *)
(***************************************************************************)
EXTENDS Integers, Sequences, FiniteSets

CONSTANTS
  Players,     \* players with a client
  God,         \* the daemon, and m_from = 255
  MaxMessage,  \* MAXMESSAGE
  Groups,      \* the kinds of message posted, among MALL, MINDIV, MGOD
  Ignoring,    \* the players who ignore what other players post
  Replies,     \* how many answers a query may have
  Preempt,     \* see above
  MaxPosts,    \* bound: messages posted, answers not counted
  None         \* no message

Steps == {"roll", "claim", "fill", "valid", "copy", "lap"}
Writers == Players \cup {God}

ASSUME MessageRingAssumption ==
  /\ IsFiniteSet(Players) /\ God \notin Players
  /\ MaxMessage \in Nat \ {0, 1} /\ MaxPosts \in Nat
  /\ Groups \subseteq {"MALL", "MINDIV", "MGOD"}
  /\ Ignoring \subseteq Players
  /\ Replies \subseteq 0 .. 2
  /\ Preempt \subseteq Steps

(* A query is a message to one player that asks for his statistics; to     *)
(* himself a player sends nothing else.                                    *)
Letter ==
  {l \in [group : Groups, from : Writers, recpt : Players, query : BOOLEAN] :
     /\ l.group # "MINDIV" => l.recpt = (CHOOSE p \in Players : TRUE)
     /\ l.query => l.group = "MINDIV"
     /\ l.group = "MINDIV" /\ l.from = l.recpt => l.query
     /\ l.from = God => l.group # "MGOD" /\ ~l.query}
(* bounce(): pmessage() posts from 255.  An answer must not be answered. *)
ReplyFromPlayer(p, q) == [group |-> "MINDIV", from |-> p, recpt |-> q, query |-> FALSE]
Reply(p, q) == [group |-> "MINDIV", from |-> God, recpt |-> q, query |-> FALSE]

VARIABLES
  mc_current,  \* mctl->mc_current
  messages,    \* messages[]: valid is MVALID, letter the address, text the text
  msgCurrent,  \* msgCurrent of p's process
  shown,       \* the last message that p's process sent to its client
  pc,          \* pc[w]: the step of pmessage2() or updateMessages() w is before
  job,         \* job[w]: the letter w posts, its number, and its slot
  replies,     \* replies[p]: to whom p's process still has to post answers
  posted,      \* letters posted, answers not counted
  numbered     \* all messages

ring == <<mc_current, messages>>
reader == <<msgCurrent, shown, replies>>
vars == <<ring, reader, pc, job, posted, numbered>>

(* The ring, and what follows it in memory. *)
Slots == 0 .. MaxMessage + Cardinality(Writers)
Slot(i) == i % MaxMessage

Empty == [valid |-> FALSE, letter |-> None, text |-> 0]
NoJob == [letter |-> None, text |-> 0, slot |-> 0, answer |-> FALSE]

Init ==
  /\ mc_current = 0
  /\ messages = [i \in Slots |-> Empty]
  /\ msgCurrent = [p \in Players |-> 1]
  /\ shown = [p \in Players |-> None]
  /\ pc = [w \in Writers |-> "idle"]
  /\ job = [w \in Writers |-> NoJob]
  /\ replies = [p \in Players |-> <<>>]
  /\ posted = 0
  /\ numbered = 0

(* A process in the middle of a step that is not in Preempt runs on alone. *)
Running(w) ==
  \A v \in Writers \ {w} : pc[v] \in {"idle", "reply"} \cup Preempt

-----------------------------------------------------------------------------
(* Writers *)

(* ++mc_current, and the roll-over next. *)
Advance(w, l, answer) ==
  /\ numbered' = numbered + 1
  /\ mc_current' = mc_current + 1
  /\ job' = [job EXCEPT ![w] = [letter |-> l, text |-> numbered + 1,
                               slot |-> mc_current + 1, answer |-> answer]]
  /\ pc' = [pc EXCEPT ![w] = "roll"]
  /\ UNCHANGED <<messages, msgCurrent, shown>>

Post(w) ==
  /\ Running(w) /\ pc[w] = "idle" /\ posted < MaxPosts
  /\ \E l \in {m \in Letter : m.from = w} : Advance(w, l, FALSE)
  /\ posted' = posted + 1
  /\ UNCHANGED replies

(* bounce(), from inside updateMessages(). *)
Bounce(p) ==
  /\ Running(p) /\ pc[p] = "reply" /\ replies[p] # <<>>
  /\ Advance(p, Reply(p, Head(replies[p])), TRUE)
  /\ replies' = [replies EXCEPT ![p] = Tail(@)]
  /\ UNCHANGED posted

RollOverLate(w) ==
  /\ Running(w) /\ pc[w] = "roll"
  /\ LET rolls == job[w].slot > MaxMessage IN
     /\ mc_current' = IF rolls THEN 0 ELSE mc_current
     /\ job' = [job EXCEPT ![w].slot = IF rolls THEN 0 ELSE @]
  /\ pc' = [pc EXCEPT ![w] = "claim"]
  /\ UNCHANGED <<messages, reader, posted, numbered>>

(* pmessage2() keeps the index it has counted to; god2player() looks again. *)
RollOver(w) ==
  /\ Running(w) /\ pc[w] = "roll"
  /\ LET rolls == job[w].slot >= MaxMessage IN
     /\ mc_current' = IF rolls THEN 0 ELSE mc_current
     /\ job' = [job EXCEPT ![w].slot = IF rolls THEN 0 ELSE @]
  /\ pc' = [pc EXCEPT ![w] = "claim"]
  /\ UNCHANGED <<messages, reader, posted, numbered>>

ClaimStillValid(w) ==
  /\ Running(w) /\ pc[w] = "claim"
  /\ pc' = [pc EXCEPT ![w] = "fill"]
  /\ UNCHANGED <<ring, reader, job, posted, numbered>>

(* Assumed unless "lap": no other writer is still at the slot. *)
Claim(w) ==
  /\ Running(w) /\ pc[w] = "claim"
  /\ LET god2player == w = God /\ job[w].letter.group = "MINDIV"
         i == IF god2player THEN mc_current ELSE job[w].slot IN
     /\ \/ "lap" \in Preempt
        \/ \A v \in Writers \ {w} : pc[v] \in {"fill", "valid"} => job[v].slot # i
     /\ messages' = [messages EXCEPT ![i].valid = FALSE]
     /\ job' = [job EXCEPT ![w].slot = i]
  /\ pc' = [pc EXCEPT ![w] = "fill"]
  /\ UNCHANGED <<mc_current, reader, posted, numbered>>

Fill(w) ==
  /\ Running(w) /\ pc[w] = "fill"
  /\ messages' = [messages EXCEPT ![job[w].slot].letter = job[w].letter,
                                 ![job[w].slot].text = job[w].text]
  /\ pc' = [pc EXCEPT ![w] = "valid"]
  /\ UNCHANGED <<mc_current, reader, job, posted, numbered>>

Validate(w) ==
  /\ Running(w) /\ pc[w] = "valid"
  /\ messages' = [messages EXCEPT ![job[w].slot].valid = TRUE]
  /\ pc' = [pc EXCEPT ![w] = IF job[w].answer THEN "reply" ELSE "idle"]
  /\ job' = [job EXCEPT ![w] = NoJob]
  /\ UNCHANGED <<mc_current, reader, posted, numbered>>

-----------------------------------------------------------------------------
(* Readers: updateMessages(), one slot at a time.  Between two slots, as    *)
(* between two calls, any other process may run.                           *)

(* MTEAM is MALL with a smaller audience, and left out. *)
For(p, l) ==
  \/ l.group = "MALL"
  \/ l.group = "MINDIV" /\ l.recpt = p
  \/ l.group = "MGOD" /\ l.from = p

Pending(p) == msgCurrent[p] # Slot(mc_current + 1)
Current(p) == messages[msgCurrent[p]]

Onwards(p) ==
  /\ msgCurrent' = [msgCurrent EXCEPT ![p] = Slot(@ + 1)]
  /\ pc' = [pc EXCEPT ![p] = "idle"]

TestNoEcho(p) ==
  /\ Running(p) /\ pc[p] = "idle" /\ Pending(p)
  /\ IF Current(p).valid /\ For(p, Current(p).letter) /\ Current(p).letter.from # p
     THEN pc' = [pc EXCEPT ![p] = "copy"] /\ UNCHANGED msgCurrent
     ELSE Onwards(p)
  /\ UNCHANGED <<ring, shown, replies, job, posted, numbered>>

(* The test of the flags; a slot that is not valid is passed for good. *)
Test(p) ==
  /\ Running(p) /\ pc[p] = "idle" /\ Pending(p)
  /\ IF Current(p).valid /\ For(p, Current(p).letter)
     THEN pc' = [pc EXCEPT ![p] = "copy"] /\ UNCHANGED msgCurrent
     ELSE Onwards(p)
  /\ UNCHANGED <<ring, shown, replies, job, posted, numbered>>

Refuses(p, l) == l.from \in Players \ {p} /\ p \in Ignoring

(* A message to everybody that is ignored is dropped; one to the player is  *)
(* answered in his place, when it is a query or he ignores its sender.     *)
Copy(p) ==
  LET l == Current(p).letter
      mine == l.group = "MGOD" \/ l.from = God
      direct == l.group = "MINDIV" /\ ~mine IN
  /\ Running(p) /\ pc[p] = "copy"
  /\ \/ /\ ~mine => ~l.query /\ ~Refuses(p, l)
        /\ shown' = [shown EXCEPT ![p] = [letter |-> l, text |-> Current(p).text]]
        /\ Onwards(p)
        /\ UNCHANGED replies
     \/ /\ l.group = "MALL" /\ Refuses(p, l)
        /\ Onwards(p)
        /\ UNCHANGED <<shown, replies>>
     \/ /\ direct /\ (l.query \/ Refuses(p, l))
        /\ \E n \in IF l.query THEN Replies ELSE {1} :
             replies' = [replies EXCEPT ![p] = [i \in 1 .. n |-> l.from]]
        /\ pc' = [pc EXCEPT ![p] = "reply"]
        /\ UNCHANGED <<msgCurrent, shown>>
  /\ UNCHANGED <<ring, job, posted, numbered>>

Answered(p) ==
  /\ Running(p) /\ pc[p] = "reply" /\ replies[p] = <<>>
  /\ Onwards(p)
  /\ UNCHANGED <<ring, shown, replies, job, posted, numbered>>

(* initClientData(): what waits is not for the new connection. *)
Reconnect(p) ==
  /\ Running(p) /\ pc[p] = "idle" /\ Pending(p)
  /\ msgCurrent' = [msgCurrent EXCEPT ![p] = Slot(mc_current + 1)]
  /\ UNCHANGED <<ring, shown, replies, pc, job, posted, numbered>>

Next ==
  \/ \E w \in Writers : Post(w) \/ RollOver(w) \/ Claim(w) \/ Fill(w) \/ Validate(w)
  \/ \E p \in Players : Test(p) \/ Copy(p) \/ Bounce(p) \/ Answered(p) \/ Reconnect(p)

Spec == Init /\ [][Next]_vars

-----------------------------------------------------------------------------
(* What waits for a player: the slots from his index to the last claimed.  *)

Writing(i) == {w \in Writers : pc[w] \in {"fill", "valid"} /\ job[w].slot = i}
Text(x) == [letter |-> x.letter, text |-> x.text]
At(i) == IF Writing(i) = {} THEN Text(messages[i])
         ELSE Text(job[CHOOSE w \in Writing(i) : TRUE])

Claimed ==
  mc_current - Cardinality({w \in Writers : pc[w] \in {"roll", "claim"}})

Answering(p) == pc[p] = "copy" \/ pc[p] = "reply" \/ job[p].answer

(* A reader inside the loop has not lost a ring that is full: he goes on.  *)
Lag(p) ==
  LET d == Slot(Claimed + 1 - msgCurrent[p]) IN
  IF d = 0 /\ Answering(p) THEN MaxMessage ELSE d

Waiting(p) == [k \in 1 .. Lag(p) |-> At(Slot(msgCurrent[p] + k - 1))]
WaitingForAll == [p \in Players |-> Waiting(p)]

MostReplies == CHOOSE n \in Replies \cup {1} : \A m \in Replies \cup {1} : m <= n

AllMessages ==
  [letter : Letter \cup {Reply(p, p) : p \in Players},
   text : 1 .. MaxPosts * (1 + MostReplies)]

Ring == INSTANCE Broadcast WITH
          Size <- MaxMessage, None <- None,
          For <- LAMBDA p, m : For(p, m.letter),
          waiting <- WaitingForAll, shown <- shown

(* Every field has its type; a slot past the ring is never used. *)
TypeOK ==
  /\ mc_current \in 0 .. MaxMessage
  /\ \A i \in Slots :
       /\ messages[i].valid \in BOOLEAN
       /\ messages[i] # Empty => Text(messages[i]) \in AllMessages /\ i < MaxMessage
  /\ msgCurrent \in [Players -> 0 .. MaxMessage - 1]
  /\ \A p \in Players : shown[p] \in AllMessages \cup {None}
  /\ pc \in [Writers -> {"idle", "roll", "claim", "fill", "valid", "copy", "reply"}]
  /\ \A w \in Writers : job[w] # NoJob => Text(job[w]) \in AllMessages
  /\ \A p \in Players : replies[p] \in Seq(Players)

(* As long as no writer is interrupted between the choice of its slot and   *)
(* the loss of the slot's MVALID, updateMessages() shows a player whole     *)
(* messages that are for him, in the order in which they were posted, and   *)
(* no message twice, whatever he is late by; see Broadcast.                *)
InOrder == Ring!Spec

(* updateMessages() passes a message for its player over only when the     *)
(* message's writer is still at it, or the player ignores its sender; a     *)
(* message that is answered or refused costs the sender's answer.           *)
Owed(p) ==
  /\ For(p, At(msgCurrent[p]).letter)
  /\ Writing(msgCurrent[p]) = {}
  /\ ~(Refuses(p, At(msgCurrent[p]).letter) /\ At(msgCurrent[p]).letter.group = "MALL")

NothingMissed ==
  [][\A p \in Players :
       /\ msgCurrent'[p] = Slot(msgCurrent[p] + 1) /\ pc[p] \in {"idle", "copy"}
       /\ ~Reconnect(p) /\ Lag(p) > 0 /\ Owed(p)
       => shown'[p] = At(msgCurrent[p])]_vars

(* Messages that processes post by themselves cost no more than their      *)
(* answers: an answer is never answered or refused in its turn.            *)
OneReply == numbered <= posted * (1 + MostReplies)

(* Why no message is lost, shown twice or answered twice, when only "fill"  *)
(* and "valid" are in Preempt.  One process at a time counts on or reads; a *)
(* slot has one writer; what is valid is whole and has no writer; texts are *)
(* found once; what waits for a player has been posted; and every letter    *)
(* that may still be answered, or answer still to be posted, is paid for.   *)
Letters == Letter \cup {Reply(p, p) : p \in Players}
Shown == [letter : Letters, text : 1 .. numbered]

Types ==
  /\ posted \in 0 .. MaxPosts /\ numbered \in Nat /\ mc_current \in 0 .. MaxMessage
  /\ messages \in [Slots -> [valid : BOOLEAN, letter : Letters \cup {None}, text : Nat]]
  /\ msgCurrent \in [Players -> 0 .. MaxMessage - 1]
  /\ shown \in [Players -> Shown \cup {None}]
  /\ pc \in [Writers -> {"idle", "roll", "claim", "fill", "valid", "copy", "reply"}]
  /\ pc[God] \notin {"copy", "reply"}
  /\ job \in [Writers -> [letter : Letters \cup {None}, text : Nat,
                          slot : 0 .. MaxMessage, answer : BOOLEAN]]
  /\ replies \in [Players -> Seq(Players)]

(* Where a process may be passed by another, and where it has a message.   *)
Parked == {"idle", "reply", "fill", "valid"}
AtWork == {"roll", "claim", "fill", "valid"}

Places ==
  /\ \A w \in Writers : \A v \in Writers \ {w} : pc[v] \in Parked \/ pc[w] \in Parked
  /\ \A w \in Writers :
       /\ pc[w] \in AtWork \/ job[w] = NoJob
       /\ pc[w] = "roll" => job[w].slot = mc_current
       /\ pc[w] = "claim" => job[w].slot = mc_current
       /\ pc[w] \in {"fill", "valid"} => job[w].slot \in 0 .. MaxMessage - 1
       /\ pc[w] \in {"fill", "valid"} =>
            \A v \in Writing(job[w].slot) : v = w
       /\ pc[w] \in AtWork => Text(job[w]) \in Shown
       /\ job[w].answer => w \in Players /\ job[w].letter.from = God
  /\ mc_current = MaxMessage => \E w \in Writers : pc[w] = "roll"
  /\ \A w \in Writers : pc[w] = "roll" => mc_current # 0
  /\ \A p \in Players : replies[p] # <<>> => pc[p] = "reply" \/ job[p].answer

Contents ==
  /\ \A i \in Slots : messages[i].valid => Writing(i) = {}
  /\ \A i \in Slots : Writing(i) = {} => messages[i].valid \/ messages[i] = Empty
  /\ \A i \in Slots : messages[i] # Empty =>
       i < MaxMessage /\ Text(messages[i]) \in Shown
  /\ \A w \in Writers : pc[w] = "valid" => Text(messages[job[w].slot]) = Text(job[w])

Once ==
  /\ \A i, j \in Slots : i # j /\ At(i).text = At(j).text => At(i).text = 0
  /\ \A w \in Writers : pc[w] \in {"roll", "claim"} =>
       \A i \in Slots : At(i).text # job[w].text

Copying ==
  \A p \in Players : pc[p] = "copy" =>
    Pending(p) /\ Current(p).valid /\ For(p, Current(p).letter)

Windows ==
  \A p \in Players : \A k \in 1 .. Lag(p) :
    Waiting(p)[k] \in Shown

(* What waits for an answer: a player's message to p, unless p is at it.    *)
Direct(p, m) ==
  m.letter.group = "MINDIV" /\ m.letter.recpt = p /\ m.letter.from # God
InReply(p) == pc[p] = "reply" \/ job[p].answer
Unanswered(p) ==
  {Waiting(p)[k].text :
     k \in {j \in 1 .. Lag(p) : Direct(p, Waiting(p)[j]) /\ (j = 1 => ~InReply(p))}}

(* The texts that may still be answered, and the answers still to be posted. *)
Open ==
  (UNION {Unanswered(p) : p \in Players})
    \cup {job[w].text : w \in {v \in Writers : pc[v] \in {"roll", "claim"}
                                         /\ ~job[v].answer}}
Owing == UNION {{<<p, k>> : k \in 1 .. Len(replies[p])} : p \in Players}

Budget ==
  numbered + Cardinality(Owing) + MostReplies * Cardinality(Open)
    <= posted * (1 + MostReplies)

RingInv ==
  Types /\ Places /\ Contents /\ Once /\ Copying /\ Windows /\ Budget

=============================================================================
