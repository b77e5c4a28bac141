------------------------------ MODULE ChatPeer ------------------------------
(***************************************************************************)
(* p2pchat/p2pchat.c inside one process: a thread per connection and the   *)
(* UI thread, which forward messages along the list of connections.  The   *)
(* list changes under its mutex (one step here), forward_message walks it  *)
(* without the mutex and sends a message with three writes.                *)
(***************************************************************************)
EXTENDS Naturals, Sequences, FiniteSets

CONSTANTS Conns,    \* connections ever made; each has a list node of its own
          Fds,      \* file descriptors: closed ones are handed out again
          UI,       \* the UI thread; the others are named by their connection
          NULL,     \* the null pointer, and the descriptor -1
          MaxMsgs,  \* bound: messages each speaker forwards
          Speakers, \* bound: the threads that get messages to forward
          Closers   \* the connections whose other end may go away

ASSUME PeerAssumption == /\ UI \notin Conns /\ NULL \notin Conns \cup Fds
                         /\ MaxMsgs \in Nat /\ Closers \subseteq Conns
                         /\ Speakers \subseteq Conns \cup {UI}

VARIABLES plist,    \* p_list: the nodes, head first
          nodeFd,   \* the fd field of each node
          fd,       \* the kernel's view: the open descriptor of a connection
          wire,     \* what was written to each connection: <<thread, message, part>>
          pc, count,\* each thread: control, messages handled so far
          curr, out, part  \* forward_message's curr, fd and next part to write

vars == <<plist, nodeFd, fd, wire, pc, count, curr, out, part>>
walk == <<curr, out, part>>

Seqs == INSTANCE SequencesExt
Threads == Conns \cup {UI}
Listed == Seqs!ToSet(plist)

Init == /\ plist = <<>>
        /\ nodeFd = [c \in Conns |-> NULL] /\ fd = [c \in Conns |-> NULL]
        /\ wire = [c \in Conns |-> <<>>]
        /\ pc = [t \in Threads |-> IF t = UI THEN "idle" ELSE "none"]
        /\ count = [t \in Threads |-> 0]
        /\ curr = [t \in Threads |-> NULL] /\ out = [t \in Threads |-> NULL]
        /\ part = [t \in Threads |-> 1]

Goto(t, from, to) == pc[t] = from /\ pc' = [pc EXCEPT ![t] = to]

(* accept_connections, or main for the host: add_peer, then a new thread.  *)
(* An accept that fails (here: for want of a descriptor) is reported and   *)
(* added like any other.                                                   *)
FreeFds == Fds \ {fd[d] : d \in Conns}

Accept(c) == /\ Goto(c, "none", "idle")
             /\ \E f \in IF FreeFds = {} THEN {NULL} ELSE FreeFds :
                  /\ fd' = [fd EXCEPT ![c] = f]
                  /\ nodeFd' = [nodeFd EXCEPT ![c] = f]
             /\ plist' = <<c>> \o plist
             /\ UNCHANGED <<wire, count, walk>>

(* A message was read or typed: ui_display, then forward_message starts at *)
(* the head.  While the UI thread forwards it holds the mutex of ui.c,     *)
(* which ui_display takes.                                                 *)
First == IF plist = <<>> THEN NULL ELSE Head(plist)

Begin(t) == /\ Goto(t, "idle", "walk")
            /\ pc[UI] = "idle" /\ (t # UI => nodeFd[t] # NULL)
            /\ t \in Speakers /\ count[t] < MaxMsgs
            /\ count' = [count EXCEPT ![t] = @ + 1]
            /\ curr' = [curr EXCEPT ![t] = First]
            /\ UNCHANGED <<plist, nodeFd, fd, wire, out, part>>

(* Following a pointer to a node that remove_peer freed is undefined: the  *)
(* walk stops there (see WalkersOnList).                                   *)
NextSkipsOne(c) == LET i == CHOOSE j \in 1..Len(plist) : plist[j] = c
                   IN  IF i + 1 >= Len(plist) THEN NULL ELSE plist[i + 2]
NextNode(c) == LET i == CHOOSE j \in 1..Len(plist) : plist[j] = c
               IN  IF i = Len(plist) THEN NULL ELSE plist[i + 1]

(* The connection the message came from is left out; the UI's my_fd is 0,  *)
(* which no connection has.                                                *)
NobodyIsSender(t, c) == FALSE
IsSender(t, c) == t # UI /\ nodeFd[c] = nodeFd[t]

Skip(t) == /\ pc[t] = "walk"
           /\ curr[t] \in Listed /\ IsSender(t, curr[t])
           /\ curr' = [curr EXCEPT ![t] = NextNode(curr[t])]
           /\ UNCHANGED <<plist, nodeFd, fd, wire, pc, count, out, part>>

ReadFd(t) == /\ Goto(t, "walk", "write")
             /\ curr[t] \in Listed /\ ~IsSender(t, curr[t])
             /\ out' = [out EXCEPT ![t] = nodeFd[curr[t]]]
             /\ part' = [part EXCEPT ![t] = 1]
             /\ UNCHANGED <<plist, nodeFd, fd, wire, count, curr>>

(* Header, user and message, to whatever connection has the descriptor.    *)
(* A write waits while the connection's buffer is full, for as long as the *)
(* other end does not read: nothing makes this step happen.  The UI thread *)
(* holds the mutex of ui.c meanwhile, so that no other thread can begin.   *)
Write(t) == /\ pc[t] = "write"
            /\ wire' = [c \in Conns |-> IF fd[c] = out[t] /\ out[t] # NULL
                                        THEN Append(wire[c], <<t, count[t], part[t]>>)
                                        ELSE wire[c]]
            /\ IF part[t] < 3
               THEN pc' = pc /\ part' = [part EXCEPT ![t] = @ + 1]
               ELSE pc' = [pc EXCEPT ![t] = "advance"] /\ part' = [part EXCEPT ![t] = 1]
            /\ UNCHANGED <<plist, nodeFd, fd, count, curr, out>>

Advance(t) == /\ Goto(t, "advance", "walk")
              /\ curr[t] \in Listed
              /\ curr' = [curr EXCEPT ![t] = NextNode(curr[t])]
              /\ UNCHANGED <<plist, nodeFd, fd, wire, count, out, part>>

Finish(t) == /\ curr[t] = NULL
             /\ Goto(t, "walk", "idle")
             /\ UNCHANGED <<plist, nodeFd, fd, wire, count, walk>>

(* handle_messages at the end of its stream, or when a read fails:         *)
(* remove_peer, which strikes the first node with this descriptor, then    *)
(* close.                                                                  *)
ReadFails(c) == c \in Closers \/ nodeFd[c] = NULL

RemoveHead(c) == /\ ReadFails(c)
                 /\ Goto(c, "idle", "closing")
                 /\ plist' = Tail(plist)
                 /\ UNCHANGED <<nodeFd, fd, wire, count, walk>>
Remove(c) == /\ ReadFails(c)
             /\ Goto(c, "idle", "closing")
             /\ plist' = LET i == CHOOSE j \in 1..Len(plist) :
                                    /\ nodeFd[plist[j]] = nodeFd[c]
                                    /\ \A k \in 1..(j - 1) : nodeFd[plist[k]] # nodeFd[c]
                         IN  Seqs!RemoveAt(plist, i)
             /\ UNCHANGED <<nodeFd, fd, wire, count, walk>>

Close(c) == /\ Goto(c, "closing", "ended")
            /\ fd' = [fd EXCEPT ![c] = NULL]
            /\ UNCHANGED <<plist, nodeFd, wire, count, walk>>

Walk(t) == Skip(t) \/ ReadFd(t) \/ Advance(t) \/ Finish(t)
Step(t) == Begin(t) \/ Walk(t) \/ Write(t)

Next == \/ \E c \in Conns : Accept(c) \/ Remove(c) \/ Close(c)
        \/ \E t \in Threads : Step(t)

Spec == Init /\ [][Next]_vars

(* A thread in the middle of a walk is scheduled again; its writes may     *)
(* wait for ever, and messages may never come.                             *)
FairSpec == Spec /\ \A t \in Threads : WF_vars(Walk(t))
-----------------------------------------------------------------------------
TypeOK == /\ plist \in Seq(Conns)
          /\ nodeFd \in [Conns -> Fds \cup {NULL}] /\ fd \in [Conns -> Fds \cup {NULL}]
          /\ wire \in [Conns -> Seq(Threads \X (1..MaxMsgs) \X (1..3))]
          /\ pc \in [Threads -> {"none", "idle", "walk", "write", "advance", "closing", "ended"}]
          /\ count \in [Threads -> 0..MaxMsgs]
          /\ curr \in [Threads -> Conns \cup {NULL}]
          /\ out \in [Threads -> Fds \cup {NULL}]
          /\ part \in [Threads -> 1..3]

(* The list holds a node for every thread that serves a connection and no  *)
(* other, and each of them under its own open descriptor, however          *)
(* descriptors are handed out again and accepts fail.                      *)
Served == {c \in Conns : pc[c] \notin {"none", "closing", "ended"}}

ListedWhileServed ==
  /\ TypeOK
  /\ Len(plist) = Cardinality(Served)
  /\ \A c \in Served : nodeFd[c] # NULL => c \in Listed /\ fd[c] = nodeFd[c]
  /\ \A i, j \in 1..Len(plist) :
       nodeFd[plist[i]] = nodeFd[plist[j]] => i = j \/ nodeFd[plist[i]] = NULL

(* On every connection whose descriptor served no other one, each thread's *)
(* messages are whole, in order, once, and never come back to where they   *)
(* came from.                                                              *)
Sole(c) == \A d \in Conns \ {c} : nodeFd[d] # nodeFd[c]
Earlier(c, i) == {j \in 1..(i - 1) : wire[c][j][1] = wire[c][i][1]}
Continues(w, v) == IF w[3] = 1 THEN v[3] = 3 /\ v[2] < w[2] ELSE v[3] = w[3] - 1 /\ v[2] = w[2]

PartsInOrder == \A c \in Conns : Sole(c) => \A i \in DOMAIN wire[c] :
  /\ wire[c][i][1] # c
  /\ Earlier(c, i) = {} => wire[c][i][3] = 1
  /\ \A j \in Earlier(c, i) :
       (\A k \in Earlier(c, i) : k <= j) => Continues(wire[c][i], wire[c][j])

(* What a thread starts to forward is sent to every connection then in the *)
(* list, unless one of them ends: however the list grows meanwhile, the    *)
(* walk does not come to its end without having sent it.  It does come to  *)
(* its end if the thread's own writes return, whoever else waits.          *)
Ended == {c \in Conns : pc[c] \in {"closing", "ended"}}

Begun(t, c, k) == /\ pc[t] = "walk" /\ curr[t] = First /\ count[t] = k
                  /\ c \in Listed \ {t} /\ fd[c] # NULL
SentTo(t, c, k) == \A i \in 1..3 : <<t, k, i>> \in Seqs!ToSet(wire[c])

NotLeftOut(t, c, k) == pc[t] = "idle" \/ count[t] # k => Ended # {} \/ SentTo(t, c, k)
NobodyLeftOut(t, c, k) == [](Begun(t, c, k) => []NotLeftOut(t, c, k))

WritesReturn(t) == WF_vars(Write(t))

Forwarded == \A t \in Speakers, c \in Conns, k \in 1..MaxMsgs :
  /\ NobodyLeftOut(t, c, k)
  /\ WritesReturn(t) => (Begun(t, c, k) ~> (Ended # {} \/ SentTo(t, c, k)))

(* "message meta-data so that threads know how much to read" (the comment  *)
(* at p2pchat.c:107): what follows a header is its own user and message.   *)
WholeMessages == \A c \in Conns : \A i \in 1..Len(wire[c]) :
  LET header == i - ((i - 1) % 3)
  IN  wire[c][i] = <<wire[c][header][1], wire[c][header][2], ((i - 1) % 3) + 1>>

(* "can handle any other peer crashing or disconnecting without crashing a *)
(* one's own program" (QUESTIONS.txt, question 1): a walk never stands on  *)
(* a node that was freed.                                                  *)
WalkersOnList == \A t \in Threads :
                   pc[t] \in {"walk", "advance"} => curr[t] \in Listed \cup {NULL}
=============================================================================
