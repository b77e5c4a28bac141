----------------------------- MODULE ChatNetwork ----------------------------
(***************************************************************************)
(* p2pchat/p2pchat.c as a network: processes that each connect to at most  *)
(* one running process when they start, show what is typed or received and *)
(* forward it on every other connection, part by part: a message is sent   *)
(* with a write each for its header, its user and its text, and read the   *)
(* same way.  (ChatPeer looks inside one process: the list of connections  *)
(* and the descriptors.)                                                   *)
(*                                                                         *)
(* Two steps leave the program without a defined continuation, and the     *)
(* model ends with them: Mix and Dangle set broken.                        *)
(***************************************************************************)
EXTENDS Naturals, Sequences, FiniteSets

CONSTANTS Peers,    \* the processes, each run once
          Contacts, \* pairs <<p, q>>: p may be started with q's address
          Parts,    \* the writes that send a message (3)
          MaxSays,  \* bound: messages typed at each talker
          Talkers,  \* bound: the processes where something is typed
          Capacity, \* parts a connection holds before a write waits
          Leavers   \* the processes whose user may quit, or that may crash

ASSUME ChatAssumption == /\ MaxSays \in Nat
                         /\ Parts \in Nat \ {0} /\ Capacity \in Nat \ {0}
                         /\ Talkers \subseteq Peers /\ Leavers \subseteq Peers
                         /\ Contacts \subseteq Peers \X Peers

VARIABLES status,   \* "off", "up", "left" (quit or crashed), "killed" (SIGPIPE)
          peers,    \* p_list of each process: the peers it is connected to
          backlog,  \* connections made to a process that it did not accept yet
          link,     \* link[p][q]: the messages p sent to q and q did not show,
                    \* each with the number of its parts that were written
          got,      \* got[p][q]: how many parts p has read of the first of them
                    \* (of link[q][p])
          task,     \* task[p][q]: what p's thread for q forwards, the node its
                    \* walk of the list stands at, the parts written there, and
                    \* the nodes it will come to; task[p][p] is p's UI thread
          shown,    \* shown[p][o]: the messages of origin o that p displayed
          broken    \* two messages were mixed, or a freed node is followed

vars == <<status, peers, backlog, link, got, task, shown, broken>>

Idle == [msg |-> <<>>, at |-> {}, part |-> 0, todo |-> {}]

Init == /\ status = [p \in Peers |-> "off"]
        /\ peers = [p \in Peers |-> {}] /\ backlog = [p \in Peers |-> {}]
        /\ link = [p \in Peers |-> [q \in Peers |-> <<>>]]
        /\ got = [p \in Peers |-> [q \in Peers |-> 0]]
        /\ task = [p \in Peers |-> [q \in Peers |-> Idle]]
        /\ shown = [p \in Peers |-> [o \in Peers |-> <<>>]]
        /\ broken = FALSE

Up(p) == status[p] = "up" /\ ~broken
Gone(p) == status[p] \in {"left", "killed"}
Walks(p, t) == task[p][t].at # {}

(* The mutex of ui.c: ui_run holds it while the callback forwards what was *)
(* typed, and ui_display takes it.                                         *)
UILocked(p) == Walks(p, p)

(* main, with and without the address of a peer to connect to.             *)
Start(p) == /\ status[p] = "off" /\ ~broken
            /\ status' = [status EXCEPT ![p] = "up"]
            /\ UNCHANGED <<peers, backlog, link, got, task, shown, broken>>

Connect(p, q) == /\ status[p] = "off" /\ Up(q) /\ <<p, q>> \in Contacts
                 /\ status' = [status EXCEPT ![p] = "up"]
                 /\ peers' = [peers EXCEPT ![p] = {q}]
                 /\ backlog' = [backlog EXCEPT ![q] = @ \cup {p}]
                 /\ UNCHANGED <<link, got, task, shown, broken>>

(* accept_connections                                                      *)
Accept(p, q) == /\ Up(p) /\ q \in backlog[p]
                /\ backlog' = [backlog EXCEPT ![p] = @ \ {q}]
                /\ peers' = [peers EXCEPT ![p] = @ \cup {q}]
                /\ UNCHANGED <<status, link, got, task, shown, broken>>

(* A walk at its next node, or at its end.  Connections added meanwhile    *)
(* come before the place it has reached, so it does not see them.          *)
Onward(m, nodes) ==
  IF nodes = {} THEN {[Idle EXCEPT !.msg = m]}
  ELSE {[msg |-> m, at |-> {r}, part |-> 0, todo |-> nodes \ {r}] : r \in nodes}

(* The thread of p for q (of p itself: the UI) shows a message and starts  *)
(* to forward it to everyone but q.                                        *)
ShowAndForwardBack(p, q, m) ==
  /\ shown' = [shown EXCEPT ![p][m[1]] = Append(@, m[2])]
  /\ \E w \in Onward(m, peers[p]) : task' = [task EXCEPT ![p][q] = w]
ShowAndForward(p, q, m) ==
  /\ shown' = [shown EXCEPT ![p][m[1]] = Append(@, m[2])]
  /\ \E w \in Onward(m, peers[p] \ {q}) : task' = [task EXCEPT ![p][q] = w]

(* input_callback                                                          *)
Say(p) == /\ Up(p) /\ ~UILocked(p) /\ p \in Talkers
          /\ Len(shown[p][p]) < MaxSays
          /\ ShowAndForward(p, p, <<p, Len(shown[p][p]) + 1>>)
          /\ UNCHANGED <<status, peers, backlog, link, got, broken>>

(* forward_message, one write to the node its walk stands at.  The write   *)
(* waits for room; what is written to a process that is gone is lost.      *)
Unread(p, r) == IF link[p][r] = <<>> THEN 0
                ELSE LET n == Len(link[p][r])
                     IN  Parts * (n - 1) + link[p][r][n].sent - got[r][p]

Writes(p, t, r) == /\ Up(p) /\ r \in task[p][t].at /\ task[p][t].part < Parts
                   /\ Gone(r) \/ Unread(p, r) < Capacity

Written(sent, m, n) == IF n = 1 THEN Append(sent, [msg |-> m, sent |-> 1])
                       ELSE [sent EXCEPT ![Len(sent)].sent = n]

(* The thread u of p has sent a part of its message to r, and not all.     *)
Amid(p, u, r) == r \in task[p][u].at /\ task[p][u].part \in 1..(Parts - 1)
OthersAmid(p, t, r) == \E u \in Peers \ {t} : Amid(p, u, r)

Write(p, t, r) ==
  /\ Writes(p, t, r) /\ (Gone(r) \/ ~OthersAmid(p, t, r))
  /\ task' = [task EXCEPT ![p][t].part = @ + 1]
  /\ link' = IF Gone(r) THEN link
             ELSE [link EXCEPT ![p][r] = Written(@, task[p][t].msg, task[p][t].part + 1)]
  /\ UNCHANGED <<status, peers, backlog, got, shown, broken>>

(* No lock spans the writes of a message: another thread's may come between *)
(* them, and r then takes them for the rest of the first message.          *)
Mix(p, t, r) == /\ Writes(p, t, r) /\ ~Gone(r) /\ OthersAmid(p, t, r)
                /\ broken' = TRUE
                /\ UNCHANGED <<status, peers, backlog, link, got, task, shown>>

(* curr = curr->next                                                       *)
Advance(p, t) ==
  /\ Up(p) /\ Walks(p, t) /\ task[p][t].part = Parts
  /\ \E w \in Onward(task[p][t].msg, task[p][t].todo) : task' = [task EXCEPT ![p][t] = w]
  /\ UNCHANGED <<status, peers, backlog, link, got, shown, broken>>

(* handle_messages: the next message is read when the last was forwarded,  *)
(* a part at a time, and then shown, under the UI's mutex, and forwarded.  *)
Read(p, q) ==
  /\ Up(p) /\ q \in peers[p] /\ ~Walks(p, q)
  /\ link[q][p] # <<>> /\ got[p][q] < link[q][p][1].sent
  /\ got' = [got EXCEPT ![p][q] = @ + 1]
  /\ UNCHANGED <<status, peers, backlog, link, task, shown, broken>>

HasMessageEarly(p, q) == /\ Up(p) /\ q \in peers[p] /\ ~Walks(p, q)
                         /\ link[q][p] # <<>> /\ got[p][q] = Parts - 1
HasMessage(p, q) == /\ Up(p) /\ q \in peers[p] /\ ~Walks(p, q)
                    /\ link[q][p] # <<>> /\ got[p][q] = Parts

ReceiveShowsOnly(p, q) ==
  /\ HasMessage(p, q) /\ ~UILocked(p)
  /\ link' = [link EXCEPT ![q][p] = Tail(@)] /\ got' = [got EXCEPT ![p][q] = 0]
  /\ LET m == link[q][p][1].msg IN shown' = [shown EXCEPT ![p][m[1]] = Append(@, m[2])]
  /\ UNCHANGED <<status, peers, backlog, task, broken>>
Receive(p, q) ==
  /\ HasMessage(p, q) /\ ~UILocked(p)
  /\ link' = [link EXCEPT ![q][p] = Tail(@)] /\ got' = [got EXCEPT ![p][q] = 0]
  /\ ShowAndForward(p, q, link[q][p][1].msg)
  /\ UNCHANGED <<status, peers, backlog, broken>>

(* What may arrive of the messages sent when the sender ends: any first    *)
(* part of them that holds what the receiver has read.                     *)
Arrived(sent, read) ==
  (IF read = 0 THEN {<<>>} ELSE {}) \cup
  UNION {{Append(SubSeq(sent, 1, n - 1), [sent[n] EXCEPT !.sent = k]) :
            k \in {j \in 1..sent[n].sent : n = 1 => j >= read}} : n \in 1..Len(sent)}

(* A process that ends, whatever its threads were doing: what it did not   *)
(* read is lost, and its reset connections may lose the end of what others *)
(* did not read yet.                                                       *)
End(p, how) ==
  /\ status' = [status EXCEPT ![p] = how]
  /\ peers' = [peers EXCEPT ![p] = {}] /\ backlog' = [backlog EXCEPT ![p] = {}]
  /\ task' = [task EXCEPT ![p] = [q \in Peers |-> Idle]]
  /\ got' = [got EXCEPT ![p] = [q \in Peers |-> 0]]
  /\ \E kept \in [Peers -> UNION {Arrived(link[p][r], got[r][p]) : r \in Peers}] :
       /\ \A r \in Peers : kept[r] \in Arrived(link[p][r], got[r][p])
       /\ link' = [q \in Peers |-> [r \in Peers |->
                     IF r = p THEN <<>> ELSE IF q = p THEN kept[r] ELSE link[q][r]]]
  /\ UNCHANGED <<shown, broken>>

Leave(p) == Up(p) /\ p \in Leavers /\ End(p, "left")

(* Nothing in the program blocks or handles SIGPIPE: writing to a          *)
(* connection that the other side has closed may end the writer.           *)
BrokenPipe(p) == /\ \E t, r \in Peers : Writes(p, t, r) /\ Gone(r)
                 /\ End(p, "killed")

(* The thread for q reads the end of the stream, before a message or in    *)
(* the middle of one.                                                      *)
StreamEnds(p, q) ==
  /\ Up(p) /\ q \in peers[p] /\ ~Walks(p, q) /\ Gone(q)
  /\ \/ link[q][p] = <<>>
     \/ Len(link[q][p]) = 1 /\ link[q][p][1].sent = got[p][q] /\ got[p][q] < Parts

(* remove_peer and close: the other walks no longer come to q's node.      *)
Forget(p, q) == /\ link' = [link EXCEPT ![q][p] = <<>>] /\ got' = [got EXCEPT ![p][q] = 0]
                /\ task' = [task EXCEPT ![p] = [t \in Peers |-> [task[p][t] EXCEPT !.todo = @ \ {q}]]]

DisconnectKeepsPeer(p, q) ==
  /\ StreamEnds(p, q) /\ \A t \in Peers : q \notin task[p][t].at
  /\ Forget(p, q)
  /\ UNCHANGED <<status, peers, backlog, shown, broken>>
Disconnect(p, q) ==
  /\ StreamEnds(p, q) /\ \A t \in Peers : q \notin task[p][t].at
  /\ peers' = [peers EXCEPT ![p] = @ \ {q}]
  /\ Forget(p, q)
  /\ UNCHANGED <<status, backlog, shown, broken>>

(* The node is freed and the descriptor closed while a walk stands there.  *)
Dangle(p, q) == /\ StreamEnds(p, q) /\ \E t \in Peers : q \in task[p][t].at
                /\ broken' = TRUE
                /\ UNCHANGED <<status, peers, backlog, link, got, task, shown>>

(* The thread of p for q, and p's UI thread while it forwards.             *)
Thread(p, q) == \/ Advance(p, q) \/ Read(p, q) \/ Receive(p, q) \/ Disconnect(p, q)
                \/ \E r \in Peers : Write(p, q, r)

Next == \E p \in Peers :
          \/ Start(p) \/ Say(p) \/ Leave(p) \/ BrokenPipe(p)
          \/ \E q \in Peers :
               \/ Connect(p, q) \/ Accept(p, q) \/ Thread(p, q) \/ Dangle(p, q)
               \/ \E r \in Peers : Mix(p, q, r)

Spec == Init /\ [][Next]_vars

(* The threads of a running process are scheduled; one whose write has no  *)
(* room, or whose mutex is taken, waits.                                   *)
Fairness == \A p \in Peers : /\ WF_vars(\E q \in Peers : Accept(p, q))
                             /\ \A q \in Peers : WF_vars(Thread(p, q))
FairSpec == Spec /\ Fairness
-----------------------------------------------------------------------------
(* Seen from outside, message by message: a message is on a connection     *)
(* when all its parts are, and a receiver has it to come until then.       *)
Complete(sent) ==
  LET n == Len(sent)
  IN  [i \in 1..(IF n > 0 /\ sent[n].sent < Parts THEN n - 1 ELSE n) |-> sent[i].msg]

Mail == [p \in Peers |-> [q \in Peers |-> Complete(link[p][q])]]

ToCome(w) == IF w.part < Parts THEN w.at \cup w.todo ELSE w.todo
Duty == [p \in Peers |-> [q \in Peers |->
           [msg |-> task[p][q].msg, todo |-> ToCome(task[p][q])]]]

W == INSTANCE MessageNetwork WITH link <- Mail, task <- Duty

(* The processes, writing and reading part by part, behave like a network  *)
(* of whole messages for as long as none are mixed and no freed node is    *)
(* followed.                                                               *)
PassesWholeMessages == W!Spec
-----------------------------------------------------------------------------
Messages == Peers \X (1..MaxSays)

TypeOK ==
  /\ status \in [Peers -> {"off", "up", "left", "killed"}]
  /\ peers \in [Peers -> SUBSET Peers] /\ backlog \in [Peers -> SUBSET Peers]
  /\ broken \in BOOLEAN
  /\ \A p, q \in Peers :
       /\ link[p][q] \in Seq([msg : Messages, sent : 1..Parts])
       /\ got[p][q] \in 0..Parts
       /\ task[p][q] \in [msg : Messages \cup {<<>>}, at : SUBSET Peers,
                          part : 0..Parts, todo : SUBSET Peers]
       /\ shown[p][q] \in Seq(1..MaxSays)

(* Every process shows the messages of one origin in the order they were   *)
(* typed, each once, and without a gap from the first one that reached it, *)
(* although each process forwards with one thread per connection, part by  *)
(* part, and may end in the middle of a message.  It is so until messages  *)
(* are mixed (Mix), after which a process may show anything, or a freed    *)
(* node is followed (Dangle).                                              *)
ShownInOrder == \A p, o \in Peers : \A i \in 2..Len(shown[p][o]) :
                  shown[p][o][i] = shown[p][o][i - 1] + 1

(* Only what was typed is shown, and no complete message comes back to the *)
(* process where it was typed: again until messages are mixed.             *)
ShownWasTyped ==
  /\ TypeOK
  /\ \A p, o \in Peers : \A i \in 1..Len(shown[p][o]) : shown[p][o][i] <= Len(shown[o][o])
  /\ \A p, q \in Peers : \A i \in 1..Len(link[q][p]) :
       link[q][p][i].sent = Parts => link[q][p][i].msg[1] # p

(* "can handle any other peer crashing or disconnecting without crashing a *)
(* one's own program" (QUESTIONS.txt, question 1).                         *)
OthersSurvive == \A p \in Peers : status[p] # "killed"

(* The threads that the thread of p for q waits for.  A write without room *)
(* waits for the thread that reads the connection; a thread with a message *)
(* to show waits for the UI's mutex, and so for the UI thread.             *)
Awaited(p, q) ==
  {<<r, p>> : r \in {n \in task[p][q].at : /\ task[p][q].part < Parts
                                          /\ ~Gone(n) /\ Unread(p, n) >= Capacity}}
  \cup (IF HasMessage(p, q) /\ UILocked(p) THEN {<<p, p>>} ELSE {})

(* Threads that wait for one another, in a ring, and so for ever.          *)
Jammed ==
  LET ring[S \in SUBSET (Peers \X Peers)] ==
        LET waiting == {a \in S : Awaited(a[1], a[2]) \cap S # {}}
        IN  IF waiting = S THEN S # {} ELSE ring[waiting]
  IN  ring[Peers \X Peers]

(* Everyone a message can reach when it is typed will show it, unless      *)
(* somebody leaves, messages are mixed or a freed node is followed, or     *)
(* threads come to wait for one another for ever: the UI thread, which     *)
(* holds the UI's mutex, for room in a connection whose reader waits for   *)
(* the mutex of its own UI thread, which waits for room as well.           *)
Audience(o) ==
  LET within[n \in 0..Cardinality(Peers)] ==
        IF n = 0 THEN {o}
        ELSE LET nearer == within[n - 1] IN nearer \cup UNION {peers[p] : p \in nearer}
  IN  within[Cardinality(Peers)] \ {o}

JustSaid(o) == /\ task[o][o].msg # <<>> /\ task[o][o].part = 0
               /\ task[o][o].at \cup task[o][o].todo = peers[o]
CaughtUp(p, o) == shown[p][o] # <<>> /\ shown[p][o][Len(shown[p][o])] = Len(shown[o][o])

Delivered == \A o \in Talkers : \A p \in Peers \ {o} :
  (JustSaid(o) /\ p \in Audience(o))
    ~> (CaughtUp(p, o) \/ broken \/ (\E q \in Peers : Gone(q)) \/ Jammed)

(* A process that leaves is struck off every list in the end, unless a     *)
(* thread that would notice waits in a jam.                                *)
LeaversForgotten == \A q \in Leavers :
  Gone(q) ~> ((\A p \in Peers : q \notin peers[p]) \/ broken \/ Jammed)
=============================================================================
