----------------------------- MODULE EchoServer -----------------------------
(***************************************************************************)
(* networking/server.c and client.c with the calls of socket.h they make.  *)
(* main accepts connections and starts a thread for each, which gets the   *)
(* address of main's one variable client_socket_fd and echoes lines in     *)
(* upper case until it reads "quit".  A stream of a thread is named by the *)
(* client at its other end.                                                *)
(***************************************************************************)
EXTENDS Naturals, Sequences, FiniteSets

CONSTANTS Clients, Descriptors, NONE,
          MaxLines   \* bound: lines a client sends

ASSUME EchoAssumption == /\ NONE \notin Clients \cup Descriptors
                         /\ IsFiniteSet(Clients) /\ MaxLines \in Nat

Workers == 1..Cardinality(Clients)

VARIABLES server,     \* "up", "failed" (a system call of main) or "exited" (a worker)
          main_at, started, client_socket_fd,
          backlog, sock,                     \* connections to accept; open descriptors
          worker, my_fd, to_client, from_client,
          client, sent, got,                 \* each client: state, lines sent, replies
          inbox, outbox,                     \* what is on its way to and from the server
          timely   \* every worker read client_socket_fd before main accepted again

main_vars == <<main_at, started, client_socket_fd, timely>>
worker_vars == <<worker, my_fd, to_client, from_client>>
client_vars == <<client, sent, got>>
echo_vars == <<server, main_vars, backlog, sock, worker_vars, client_vars, inbox, outbox>>

EchoInit ==
  /\ server = "up" /\ main_at = "open" /\ started = 0 /\ client_socket_fd = NONE
  /\ timely = TRUE /\ backlog = {} /\ sock = [f \in Descriptors |-> NONE]
  /\ worker = [w \in Workers |-> "none"] /\ my_fd = [w \in Workers |-> NONE]
  /\ to_client = [w \in Workers |-> NONE] /\ from_client = [w \in Workers |-> NONE]
  /\ client = [c \in Clients |-> "new"] /\ sent = [c \in Clients |-> 0]
  /\ got = [c \in Clients |-> <<>>]
  /\ inbox = [c \in Clients |-> <<>>] /\ outbox = [c \in Clients |-> <<>>]

Up == server = "up"

(* main: open the socket, then accept and create a thread, for ever.       *)
Listen == /\ Up /\ main_at = "open" /\ main_at' = "accept"
          /\ UNCHANGED <<server, started, client_socket_fd, timely, backlog, sock,
                         worker_vars, client_vars, inbox, outbox>>

Accept == /\ Up /\ main_at = "accept" /\ main_at' = "create"
          /\ \E c \in backlog, f \in {g \in Descriptors : sock[g] = NONE} :
               /\ backlog' = backlog \ {c}
               /\ sock' = [sock EXCEPT ![f] = c]
               /\ client_socket_fd' = f
          /\ timely' = (timely /\ \A w \in Workers : worker[w] # "created")
          /\ UNCHANGED <<server, started, worker_vars, client_vars, inbox, outbox>>

CreateWorker == /\ Up /\ main_at = "create" /\ main_at' = "accept"
                /\ started' = started + 1
                /\ worker' = [worker EXCEPT ![started'] = "created"]
                /\ UNCHANGED <<server, client_socket_fd, timely, backlog, sock, my_fd,
                               to_client, from_client, client_vars, inbox, outbox>>

MainFails == /\ Up /\ server' = "failed"
             /\ UNCHANGED <<main_vars, backlog, sock, worker_vars, client_vars, inbox, outbox>>

(* worker_th.                                                              *)
At(w, from, to) == Up /\ worker[w] = from /\ worker' = [worker EXCEPT ![w] = to]

ReadArg(w) == /\ At(w, "created", "dup_out")
              /\ my_fd' = [my_fd EXCEPT ![w] = client_socket_fd]
              /\ UNCHANGED <<server, main_vars, backlog, sock, to_client, from_client,
                             client_vars, inbox, outbox>>

(* A descriptor that another worker closed meanwhile ends the program.     *)
DupOut(w) == /\ At(w, "dup_out", "dup_in")
             /\ to_client' = [to_client EXCEPT ![w] = sock[my_fd[w]]]
             /\ server' = IF sock[my_fd[w]] = NONE THEN "exited" ELSE server
             /\ UNCHANGED <<main_vars, backlog, sock, my_fd, from_client,
                            client_vars, inbox, outbox>>
DupInLate(w) == /\ At(w, "dup_in", "serve")
                /\ from_client' = [from_client EXCEPT ![w] = sock[client_socket_fd]]
                /\ server' = IF sock[client_socket_fd] = NONE THEN "exited" ELSE server
                /\ UNCHANGED <<main_vars, backlog, sock, my_fd, to_client,
                               client_vars, inbox, outbox>>
DupIn(w) == /\ At(w, "dup_in", "serve")
            /\ from_client' = [from_client EXCEPT ![w] = sock[my_fd[w]]]
            /\ server' = IF sock[my_fd[w]] = NONE THEN "exited" ELSE server
            /\ UNCHANGED <<main_vars, backlog, sock, my_fd, to_client,
                           client_vars, inbox, outbox>>

Upper(line) == <<line[1], line[2], "upper">>
Quit == <<"quit">>
Gone(c) == client[c] \in {"quit", "dropped", "cut"}

(* A line is echoed; writing to a client that is gone may raise SIGPIPE.   *)
EchoUnflushed(w) ==
  /\ At(w, "serve", "serve")
  /\ \E c \in {from_client[w]} : /\ inbox[c] # <<>> /\ Head(inbox[c]) # Quit
                                 /\ inbox' = [inbox EXCEPT ![c] = Tail(@)]
  /\ UNCHANGED <<server, main_vars, backlog, sock, my_fd, to_client, from_client,
                 client_vars, outbox>>
Echo(w) == LET from == from_client[w] to == to_client[w] IN
  /\ At(w, "serve", "serve")
  /\ inbox[from] # <<>> /\ Head(inbox[from]) # Quit
  /\ inbox' = [inbox EXCEPT ![from] = Tail(@)]
  /\ outbox' = [outbox EXCEPT ![to] = Append(@, Upper(Head(inbox[from])))]
  /\ server' \in (IF Gone(to) THEN {"up", "exited"} ELSE {"up"})
  /\ UNCHANGED <<main_vars, backlog, sock, my_fd, to_client, from_client, client_vars>>

QuitRead(w) ==
  /\ At(w, "serve", "done")
  /\ inbox[from_client[w]] # <<>> /\ Head(inbox[from_client[w]]) = Quit
  /\ inbox' = [inbox EXCEPT ![from_client[w]] = Tail(@)]
  /\ to_client' = [to_client EXCEPT ![w] = NONE]
  /\ from_client' = [from_client EXCEPT ![w] = NONE]
  /\ sock' = [sock EXCEPT ![my_fd[w]] = NONE]
  /\ UNCHANGED <<server, main_vars, backlog, my_fd, client_vars, outbox>>

(* The end of a stream is not "quit": exit(2), for all threads.            *)
EndRead(w) == /\ At(w, "serve", "done")
              /\ inbox[from_client[w]] = <<>> /\ Gone(from_client[w])
              /\ server' = "exited"
              /\ UNCHANGED <<main_vars, backlog, sock, my_fd, to_client, from_client,
                             client_vars, inbox, outbox>>

(* client.c: connect, then send a line and wait for the reply.             *)
Become(c, from, to) == client[c] = from /\ client' = [client EXCEPT ![c] = to]

Connect(c) == /\ IF Up /\ main_at # "open"
                 THEN Become(c, "new", "ready") /\ backlog' = backlog \cup {c}
                 ELSE Become(c, "new", "refused") /\ UNCHANGED backlog
              /\ UNCHANGED <<server, main_vars, sock, worker_vars, sent, got, inbox, outbox>>

Send(c) == /\ Become(c, "ready", "waiting") /\ sent[c] < MaxLines
           /\ sent' = [sent EXCEPT ![c] = @ + 1]
           /\ inbox' = [inbox EXCEPT ![c] = Append(@, <<c, sent'[c], "typed">>)]
           /\ UNCHANGED <<server, main_vars, backlog, sock, worker_vars, got, outbox>>

(* The last line of stdin may lack its newline: fgets in the worker waits  *)
(* for it, and the client for the reply.                                   *)
SendUnended(c) ==
  /\ Become(c, "ready", "stuck")
  /\ UNCHANGED <<server, main_vars, backlog, sock, worker_vars, sent, got, inbox, outbox>>

SendQuit(c) == /\ Become(c, "ready", "quit")
               /\ inbox' = [inbox EXCEPT ![c] = Append(@, Quit)]
               /\ UNCHANGED <<server, main_vars, backlog, sock, worker_vars, sent, got, outbox>>

Reply(c) == /\ Become(c, "waiting", "ready") /\ outbox[c] # <<>>
            /\ got' = [got EXCEPT ![c] = Append(@, Head(outbox[c]))]
            /\ outbox' = [outbox EXCEPT ![c] = Tail(@)]
            /\ UNCHANGED <<server, main_vars, backlog, sock, worker_vars, sent, inbox>>

(* stdin ends, or the client is killed: it goes without "quit".            *)
Drop(c) == /\ \E from \in {"ready", "waiting", "stuck"} : Become(c, from, "dropped")
           /\ UNCHANGED <<server, main_vars, backlog, sock, worker_vars, sent, got, inbox, outbox>>

Held(c) == Up /\ \/ c \in backlog \/ \E f \in Descriptors : sock[f] = c
                 \/ \E w \in Workers : c \in {to_client[w], from_client[w]}
CutOff(c) == /\ \E from \in {"waiting", "stuck"} : Become(c, from, "cut")
             /\ outbox[c] = <<>> /\ ~Held(c)
             /\ UNCHANGED <<server, main_vars, backlog, sock, worker_vars, sent, got, inbox, outbox>>

EchoMain == Listen \/ Accept \/ CreateWorker
Work(w) == ReadArg(w) \/ DupOut(w) \/ DupIn(w) \/ Echo(w) \/ QuitRead(w) \/ EndRead(w)
Hear(c) == Reply(c) \/ CutOff(c)
Use(c) == Connect(c) \/ Send(c) \/ SendUnended(c) \/ SendQuit(c) \/ Drop(c)

(* The server waits for clients for ever.                                  *)
EchoNext == \/ EchoMain \/ MainFails
            \/ \E w \in Workers : Work(w)
            \/ \E c \in Clients : Hear(c) \/ Use(c)
            \/ UNCHANGED echo_vars

EchoSpec == EchoInit /\ [][EchoNext]_echo_vars
EchoFairSpec == /\ EchoSpec /\ WF_echo_vars(EchoMain)
                /\ \A w \in Workers : WF_echo_vars(Work(w))
                /\ \A c \in Clients : WF_echo_vars(Hear(c))
-----------------------------------------------------------------------------
EchoTypeOK ==
  /\ server \in {"up", "failed", "exited"} /\ timely \in BOOLEAN
  /\ main_at \in {"open", "accept", "create"} /\ started \in 0..Cardinality(Clients)
  /\ client_socket_fd \in Descriptors \cup {NONE} /\ backlog \subseteq Clients
  /\ sock \in [Descriptors -> Clients \cup {NONE}]
  /\ worker \in [Workers -> {"none", "created", "dup_out", "dup_in", "serve", "done"}]
  /\ my_fd \in [Workers -> Descriptors \cup {NONE}]
  /\ to_client \in [Workers -> Clients \cup {NONE}]
  /\ from_client \in [Workers -> Clients \cup {NONE}]
  /\ client \in [Clients -> {"new", "refused", "ready", "waiting", "stuck", "quit",
                             "dropped", "cut"}]
  /\ sent \in [Clients -> 0..MaxLines]

(* As long as each worker read its argument before the next accept, every  *)
(* client has been told its own lines, in order, in upper case.            *)
OwnLinesBack == timely => \A c \in Clients :
  /\ \A k \in DOMAIN got[c] : got[c][k] = <<c, k, "upper">>
  /\ client[c] = "ready" => Len(got[c]) = sent[c]

(* Then, too, everyone who sends a line is answered, unless a client ended *)
(* without "quit" and took the server with it, or a call of main failed.   *)
LinesAnswered == \A c \in Clients :
  (client[c] = "waiting")
    ~> \/ client[c] = "ready" \/ ~timely \/ server = "failed"
       \/ \E d \in Clients : client[d] = "dropped"
=============================================================================
