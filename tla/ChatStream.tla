----------------------------- MODULE ChatStream -----------------------------
(***************************************************************************)
(* One direction of a connection of p2pchat.c, as bytes: forward_message   *)
(* of one thread writes a header, a user and a message; handle_messages at *)
(* the other end reads as many bytes as the header says.  read returns     *)
(* what has arrived, which may be less.                                    *)
(***************************************************************************)
EXTENDS Naturals, Sequences

CONSTANTS UserLengths, MessageLengths, \* bytes, each with its null byte
          MaxMessages, \* bound: messages forwarded
          UNSET        \* a byte that was never written

ASSUME StreamAssumption ==
  /\ UserLengths \subseteq Nat \ {0} /\ MessageLengths \subseteq Nat \ {0}
  /\ MaxMessages \in Nat
  /\ UNSET \notin Nat /\ UNSET \notin {"len", "user", "message"} \X Nat \X Nat

AnyLength == UserLengths \cup MessageLengths \cup {0}

VARIABLES forwarded,    \* the lengths <<user, message>> of what was forwarded
          writer,       \* "idle", "user" or "message": what it writes next
          in_flight, arrived,  \* bytes on their way, and those that read can return
          line,         \* "up", or "cut" when no more bytes will arrive
          reader,       \* "header", "user", "message" or "ended"
          header,       \* what the reader knows as msg_len and usr_len
          usr,          \* its username array
          displayed,    \* what it handed to ui_display: <<username, message>>
          short         \* a read returned less than it asked for

stream_vars == <<forwarded, writer, in_flight, arrived, line, reader, header, usr,
                 displayed, short>>

StreamInit == /\ forwarded = <<>> /\ writer = "idle"
              /\ in_flight = <<>> /\ arrived = <<>> /\ line = "up"
              /\ reader = "header" /\ header = [msg_len |-> UNSET, usr_len |-> UNSET]
              /\ usr = <<>> /\ displayed = <<>> /\ short = FALSE

(* A byte is <<what, message number, value>>; an int of the header counts  *)
(* as one, and the value of any other byte is its position.                *)
Bytes(what, n, len) == [k \in 1..len |-> <<what, n, k>>]
HeaderSwapped(n, u, m) == << <<"len", n, u>>, <<"len", n, m>> >>
HeaderBytes(n, u, m) == << <<"len", n, m>>, <<"len", n, u>> >>

(* forward_message, for this connection: three writes.                     *)
Writes(from, to, bytes) == /\ writer = from /\ writer' = to
                           /\ in_flight' = IF line = "up" THEN in_flight \o bytes ELSE in_flight
                           /\ UNCHANGED <<arrived, line, reader, header, usr, displayed, short>>
N == Len(forwarded)

WriteHeader == /\ N < MaxMessages
               /\ \E u \in UserLengths, m \in MessageLengths :
                    /\ Writes("idle", "user", HeaderBytes(N + 1, u, m))
                    /\ forwarded' = Append(forwarded, <<u, m>>)
WriteUser == Writes("user", "message", Bytes("user", N, forwarded[N][1])) /\ UNCHANGED forwarded
WriteMessage == Writes("message", "idle", Bytes("message", N, forwarded[N][2]))
                /\ UNCHANGED forwarded

(* Some bytes arrive, in order; or the connection breaks and the rest is   *)
(* lost.                                                                   *)
BytesArrive == \E k \in 1..Len(in_flight) :
            /\ arrived' = arrived \o SubSeq(in_flight, 1, k)
            /\ in_flight' = SubSeq(in_flight, k + 1, Len(in_flight))
            /\ UNCHANGED <<forwarded, writer, line, reader, header, usr, displayed, short>>

Cut == /\ line = "up" /\ line' = "cut" /\ in_flight' = <<>>
       /\ UNCHANGED <<forwarded, writer, arrived, reader, header, usr, displayed, short>>

(* read(fd, array, size) waits for a byte or the end; 0 at the end, or for *)
(* an array of no bytes.                                                   *)
Returned(size) == IF Len(arrived) < size THEN Len(arrived) ELSE size
Array(size) == [k \in 1..size |-> IF k <= Returned(size) THEN arrived[k] ELSE UNSET]

Read(from, to, size) ==
  /\ reader = from
  /\ size > 0 => arrived # <<>> \/ line = "cut"
  /\ reader' = IF Returned(size) = 0 THEN "ended" ELSE to
  /\ short' = (short \/ Returned(size) \in 1..(size - 1))
  /\ arrived' = SubSeq(arrived, Returned(size) + 1, Len(arrived))
  /\ UNCHANGED <<forwarded, writer, in_flight, line>>

(* A length that was not read keeps its old value, and bytes of a text may *)
(* be any length.                                                          *)
LengthIn(byte, old) == IF byte = UNSET THEN IF old = UNSET THEN AnyLength ELSE {old}
                       ELSE IF byte[1] = "len" THEN {byte[3]} ELSE AnyLength

ReadHeader ==
  /\ Read("header", "user", 2)
  /\ \E m \in LengthIn(Array(2)[1], header.msg_len), u \in LengthIn(Array(2)[2], header.usr_len) :
       header' = [msg_len |-> m, usr_len |-> u]
  /\ UNCHANGED <<usr, displayed>>
ReadUser == /\ Read("user", "message", header.usr_len)
            /\ usr' = Array(header.usr_len)
            /\ UNCHANGED <<header, displayed>>
ReadMessage ==
  /\ Read("message", "header", header.msg_len)
  /\ displayed' = IF reader' = "ended" THEN displayed
                  ELSE Append(displayed, <<usr, Array(header.msg_len)>>)
  /\ usr' = <<>>
  /\ UNCHANGED header

Writer == WriteHeader \/ WriteUser \/ WriteMessage
Reader == ReadHeader \/ ReadUser \/ ReadMessage

StreamNext == \/ Writer \/ BytesArrive \/ Cut \/ Reader
              \/ UNCHANGED stream_vars  \* nobody has to type
StreamSpec == StreamInit /\ [][StreamNext]_stream_vars
-----------------------------------------------------------------------------
StreamTypeOK ==
  /\ forwarded \in Seq(UserLengths \X MessageLengths) /\ writer \in {"idle", "user", "message"}
  /\ line \in {"up", "cut"} /\ reader \in {"header", "user", "message", "ended"}
  /\ header.msg_len \in AnyLength \cup {UNSET} /\ header.usr_len \in AnyLength \cup {UNSET}
  /\ short \in BOOLEAN

(* As long as every read returned all it asked for, what is displayed is   *)
(* what was forwarded: whole messages, each under its own user, in order,  *)
(* none twice and none left out, wherever the connection breaks.           *)
ShownWhole ==
  ~short => /\ Len(displayed) <= N
            /\ \A n \in DOMAIN displayed :
                 displayed[n] = <<Bytes("user", n, forwarded[n][1]),
                                  Bytes("message", n, forwarded[n][2])>>
=============================================================================
