--------------------------- MODULE MessageNetwork --------------------------
(***************************************************************************)
(* What the network of p2pchat processes promises while nothing goes wrong *)
(* inside them: connections are sequences of whole messages, and a process *)
(* that shows a message hands it to every other connection, one by one, in *)
(* any order and as slowly as it likes.  ChatNetwork implements it.        *)
(***************************************************************************)
EXTENDS Naturals, Sequences

CONSTANTS Peers, MaxSays, Talkers, Leavers

VARIABLES status, peers, backlog,
          link,   \* link[p][q]: messages p sent to q and q did not show
          task,   \* task[p][q]: the message and the receivers left, for the
                  \* thread of p that serves q; task[p][p] is the UI thread
          shown

vars == <<status, peers, backlog, link, task, shown>>

Idle == [msg |-> <<>>, todo |-> {}]

Init == /\ status = [p \in Peers |-> "off"]
        /\ peers = [p \in Peers |-> {}] /\ backlog = [p \in Peers |-> {}]
        /\ link = [p \in Peers |-> [q \in Peers |-> <<>>]]
        /\ task = [p \in Peers |-> [q \in Peers |-> Idle]]
        /\ shown = [p \in Peers |-> [o \in Peers |-> <<>>]]

Up(p) == status[p] = "up"
Gone(p) == status[p] \in {"left", "killed"}

Start(p) == /\ status[p] = "off"
            /\ status' = [status EXCEPT ![p] = "up"]
            /\ UNCHANGED <<peers, backlog, link, task, shown>>

Connect(p, q) == /\ status[p] = "off" /\ Up(q)
                 /\ status' = [status EXCEPT ![p] = "up"]
                 /\ peers' = [peers EXCEPT ![p] = {q}]
                 /\ backlog' = [backlog EXCEPT ![q] = @ \cup {p}]
                 /\ UNCHANGED <<link, task, shown>>

Accept(p, q) == /\ Up(p) /\ q \in backlog[p]
                /\ backlog' = [backlog EXCEPT ![p] = @ \ {q}]
                /\ peers' = [peers EXCEPT ![p] = @ \cup {q}]
                /\ UNCHANGED <<status, link, task, shown>>

ShowAndForward(p, q, m) ==
  /\ shown' = [shown EXCEPT ![p][m[1]] = Append(@, m[2])]
  /\ task' = [task EXCEPT ![p][q] = [msg |-> m, todo |-> peers[p] \ {q}]]

Say(p) == /\ Up(p) /\ task[p][p].todo = {} /\ p \in Talkers
          /\ Len(shown[p][p]) < MaxSays
          /\ ShowAndForward(p, p, <<p, Len(shown[p][p]) + 1>>)
          /\ UNCHANGED <<status, peers, backlog, link>>

Receive(p, q) == /\ Up(p) /\ q \in peers[p]
                 /\ task[p][q].todo = {} /\ task[p][p].todo = {}
                 /\ link[q][p] # <<>>
                 /\ link' = [link EXCEPT ![q][p] = Tail(@)]
                 /\ ShowAndForward(p, q, Head(link[q][p]))
                 /\ UNCHANGED <<status, peers, backlog>>

Forward(p, q, r) ==
  /\ Up(p) /\ r \in task[p][q].todo
  /\ task' = [task EXCEPT ![p][q].todo = @ \ {r}]
  /\ link' = IF Gone(r) THEN link
             ELSE [link EXCEPT ![p][r] = Append(@, task[p][q].msg)]
  /\ UNCHANGED <<status, peers, backlog, shown>>

Prefixes(s) == {SubSeq(s, 1, n) : n \in 0..Len(s)}

(* A process may end at any time, and with it what it was doing, what it   *)
(* did not show, and the end of what others did not show yet.              *)
End(p, how) ==
  /\ Up(p)
  /\ status' = [status EXCEPT ![p] = how]
  /\ peers' = [peers EXCEPT ![p] = {}] /\ backlog' = [backlog EXCEPT ![p] = {}]
  /\ task' = [task EXCEPT ![p] = [q \in Peers |-> Idle]]
  /\ \E kept \in [Peers -> UNION {Prefixes(link[p][r]) : r \in Peers}] :
       /\ \A r \in Peers : kept[r] \in Prefixes(link[p][r])
       /\ link' = [q \in Peers |-> [r \in Peers |->
                     IF r = p THEN <<>> ELSE IF q = p THEN kept[r] ELSE link[q][r]]]
  /\ UNCHANGED shown

Disconnect(p, q) ==
  /\ Up(p) /\ q \in peers[p] /\ task[p][q].todo = {}
  /\ Gone(q) /\ link[q][p] = <<>>
  /\ peers' = [peers EXCEPT ![p] = @ \ {q}]
  /\ task' = [task EXCEPT ![p] = [r \in Peers |-> [task[p][r] EXCEPT !.todo = @ \ {q}]]]
  /\ UNCHANGED <<status, backlog, link, shown>>

Next == \E p \in Peers :
          \/ Start(p) \/ Say(p) \/ End(p, "left") \/ End(p, "killed")
          \/ \E q \in Peers :
               \/ Connect(p, q) \/ Accept(p, q) \/ Receive(p, q) \/ Disconnect(p, q)
               \/ \E r \in Peers : Forward(p, q, r)

Spec == Init /\ [][Next]_vars
=============================================================================
