----------------------------- MODULE SimplePipe -----------------------------
(***************************************************************************)
(* exercises/simple_pipe.c: a parent sends coordinates to its child over   *)
(* one pipe and gets each one's magnitude back over another.  A read waits *)
(* for data or for the last writer to close, and a write to a pipe that    *)
(* nobody can read any more kills the writer.  Either process may also be  *)
(* killed from outside, which closes its ends.                             *)
(***************************************************************************)
EXTENDS Naturals, Sequences

CONSTANT Rounds  \* 10 in the code

ASSUME RoundsAssumption == Rounds \in Nat \ {0}

VARIABLES process,    \* each process: where it is, or how it ended
          ends,       \* the ends of pipes each process holds
          down, up,   \* what is in the pipe to the child, and to the parent
          round,      \* i of the parent's loop
          coordinate, \* c of the child
          magnitudes  \* those the parent printed

pipe_vars == <<process, ends, down, up, round, coordinate, magnitudes>>

Processes == {"parent", "child"}
Pipes == {"down", "up"}
Ends == Pipes \X {"read", "write"}
Over == {"exit_0", "exit_2", "killed"}

(* Both pipes are there, main is about to fork.                            *)
PipeInit == /\ process = [p \in Processes |-> IF p = "parent" THEN "fork" ELSE "none"]
            /\ ends = [p \in Processes |-> IF p = "parent" THEN Ends ELSE {}]
            /\ down = <<>> /\ up = <<>>
            /\ round = 0 /\ coordinate = 0 /\ magnitudes = <<>>

Readable(pipe) == \E p \in Processes : <<pipe, "read">> \in ends[p]
Writable(pipe) == \E p \in Processes : <<pipe, "write">> \in ends[p]

(* Process p goes on, or ends, which closes all it held.                   *)
Advance(p, from, to, closed) ==
  /\ process[p] = from /\ process' = [process EXCEPT ![p] = to]
  /\ ends' = [ends EXCEPT ![p] = IF to \in Over THEN {} ELSE @ \ closed]

Fork == /\ process["parent"] = "fork"
        /\ \/ /\ process' = [p \in Processes |-> "close"]
              /\ ends' = [ends EXCEPT !["child"] = ends["parent"]]
           \/ Advance("parent", "fork", "exit_2", {})
        /\ UNCHANGED <<down, up, round, coordinate, magnitudes>>

(* The child.                                                              *)
ChildClosesOne == /\ Advance("child", "close", "read", {<<"up", "read">>})
                  /\ UNCHANGED <<down, up, round, coordinate, magnitudes>>
ChildCloses == /\ Advance("child", "close", "read", {<<"down", "write">>, <<"up", "read">>})
               /\ UNCHANGED <<down, up, round, coordinate, magnitudes>>

ChildReads == /\ down # <<>>
              /\ Advance("child", "read", "write", {})
              /\ coordinate' = Head(down) /\ down' = Tail(down)
              /\ UNCHANGED <<up, round, magnitudes>>

ChildReadsEnd == /\ down = <<>> /\ ~Writable("down")
                 /\ Advance("child", "read", "exit_0", {})
                 /\ UNCHANGED <<down, up, round, coordinate, magnitudes>>

ChildWrites == /\ IF Readable("up")
                  THEN Advance("child", "write", "read", {}) /\ up' = Append(up, coordinate)
                  ELSE Advance("child", "write", "killed", {}) /\ UNCHANGED up
               /\ coordinate' = 0
               /\ UNCHANGED <<down, round, magnitudes>>

(* The parent keeps its own copy of to_parent for as long as it lives.     *)
ParentCloses == /\ Advance("parent", "close", "write", {<<"down", "read">>})
                /\ UNCHANGED <<down, up, round, coordinate, magnitudes>>

ParentWrites == /\ round < Rounds
                /\ IF Readable("down")
                   THEN Advance("parent", "write", "read", {}) /\ down' = Append(down, round)
                   ELSE Advance("parent", "write", "killed", {}) /\ UNCHANGED down
                /\ UNCHANGED <<up, round, coordinate, magnitudes>>

ParentReads == /\ IF up # <<>>
                  THEN /\ Advance("parent", "read", "write", {})
                       /\ magnitudes' = Append(magnitudes, Head(up)) /\ up' = Tail(up)
                       /\ round' = round + 1
                  ELSE /\ ~Writable("up")
                       /\ Advance("parent", "read", "exit_2", {})
                       /\ UNCHANGED <<magnitudes, up, round>>
               /\ UNCHANGED <<down, coordinate>>

ParentEnds == /\ round = Rounds
              /\ Advance("parent", "write", "exit_0", {})
              /\ UNCHANGED <<down, up, round, coordinate, magnitudes>>

Kill(p) == /\ process[p] \notin Over \cup {"none"}
           /\ Advance(p, process[p], "killed", {})
           /\ UNCHANGED <<down, up, round, coordinate, magnitudes>>

Child == ChildCloses \/ ChildReads \/ ChildReadsEnd \/ ChildWrites
Parent == Fork \/ ParentCloses \/ ParentWrites \/ ParentReads \/ ParentEnds

(* With the child killed the parent waits for ever, see NobodyWaits.       *)
PipeNext == \/ Child \/ Parent
            \/ \E p \in Processes : Kill(p)
            \/ /\ process["child"] \in Over \cup {"none"}
               /\ process["parent"] \in Over \cup {"read"}
               /\ UNCHANGED pipe_vars

PipeSpec == PipeInit /\ [][PipeNext]_pipe_vars
PipeFairSpec == PipeSpec /\ WF_pipe_vars(Child) /\ WF_pipe_vars(Parent)
-----------------------------------------------------------------------------
PipeTypeOK ==
  /\ process \in [Processes ->
                    Over \cup {"none", "fork", "close", "read", "write"}]
  /\ ends \in [Processes -> SUBSET Ends]
  /\ down \in Seq(0..(Rounds - 1)) /\ up \in Seq(0..(Rounds - 1))
  /\ round \in 0..Rounds /\ coordinate \in 0..(Rounds - 1)

(* In each round one coordinate goes down and its own magnitude comes back;*)
(* the processes never both wait for the other; and the child does not take*)
(* its input to be at its end while the parent may still send.             *)
RoundsAnswered ==
  /\ magnitudes = [k \in 1..round |-> k - 1]
  /\ Len(down) + Len(up) <= 1
  /\ process["parent"] = "read" /\ process["child"] = "read" => down # <<>> \/ up # <<>>
  /\ process["child"] = "exit_0" => process["parent"] \in Over

(* When the parent ends, however it does, the child ends; and each         *)
(* coordinate the parent sends gets its own magnitude back, unless someone *)
(* killed one of the two.  A parent whose child was killed waits for ever. *)
NobodyWaits ==
  /\ []RoundsAnswered
  /\ process["parent"] \in Over ~> process["child"] \in Over \cup {"none"}
  /\ process["parent"] = "read"
       ~> process["parent"] = "write" \/ "killed" \in {process["parent"], process["child"]}
=============================================================================
