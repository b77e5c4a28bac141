----------------------------- MODULE MCPrograms -----------------------------
(***************************************************************************)
(* Instances for TLC of the repository's small programs.  They share       *)
(* nothing: a behaviour runs one of them and the others stay as they       *)
(* start.                                                                  *)
(***************************************************************************)
EXTENDS LetterCount, ChatUI, ChatStream, EchoServer, SeqQueue, UniqueList,
        SimplePipe, Signals, SudokuHost, PrintArchive

VARIABLE program

Programs == {"letters", "ui", "stream", "echo", "queue", "list", "pipe", "signals", "host",
             "archive"}

(* Every file of up to five bytes, one of the largest size that is an int,  *)
(* and one that is larger.                                                 *)
MCFiles == UNION {[0..(n - 1) -> Letters \cup {NOLETTER}] : n \in 1..5}
           \cup {[p \in 0..6 |-> 0], [p \in 0..7 |-> 1]}

(* Where a program may start in several states, the others' behaviours     *)
(* need only one of them.                                                  *)
MCInit ==
  /\ program \in Programs
  /\ CountInit /\ (program # "letters" => file = [p \in 0..0 |-> 0])
  /\ SignalInit /\ (program # "signals" => \A s \in Senders : left[s] = 0 /\ signal[s] = IMPROPER)
  /\ ArchiveInit /\ (program # "archive" => archive = <<>>)
  /\ UIInit /\ StreamInit /\ EchoInit /\ QueueInit /\ ListInit /\ PipeInit /\ HostInit

Runs(p, variables) == IF program = p THEN TRUE ELSE UNCHANGED variables
OneProgram == /\ UNCHANGED program
              /\ Runs("letters", count_vars) /\ Runs("ui", ui_vars) /\ Runs("stream", stream_vars)
              /\ Runs("echo", echo_vars) /\ Runs("queue", queue_vars) /\ Runs("list", list_vars)
              /\ Runs("pipe", pipe_vars) /\ Runs("signals", signal_vars)
              /\ Runs("host", host_vars) /\ Runs("archive", archive_vars)

RunLetters == program = "letters" /\ CountNext /\ OneProgram
RunUI == program = "ui" /\ UINext /\ OneProgram
RunStream == program = "stream" /\ StreamNext /\ OneProgram
RunEcho == program = "echo" /\ EchoNext /\ OneProgram
RunQueue == program = "queue" /\ QueueNext /\ OneProgram
RunList == program = "list" /\ ListNext /\ OneProgram
RunPipe == program = "pipe" /\ PipeNext /\ OneProgram
RunSignals == program = "signals" /\ SignalNext /\ OneProgram
RunHost == program = "host" /\ HostNext /\ OneProgram
RunArchive == program = "archive" /\ ArchiveNext /\ OneProgram

MCNext == \/ RunLetters \/ RunUI \/ RunStream \/ RunEcho \/ RunQueue
          \/ RunList \/ RunPipe \/ RunSignals \/ RunHost \/ RunArchive

(* The fairness of CountFairSpec, UIFairSpec, EchoFairSpec, PipeFairSpec and*)
(* SignalFairSpec, for the program that runs.                              *)
MCSpec ==
  /\ MCInit /\ [][MCNext]_<<program, count_vars, ui_vars, stream_vars, echo_vars, queue_vars,
                            list_vars, pipe_vars, signal_vars, host_vars, archive_vars>>
  /\ WF_count_vars(program = "letters" /\ Main)
  /\ \A t \in Threads : WF_count_vars(program = "letters" /\ CountStep(t))
  /\ WF_ui_vars(program = "ui" /\ Run)
  /\ \A t \in Users : WF_ui_vars(program = "ui" /\ Display(t))
  /\ WF_echo_vars(program = "echo" /\ EchoMain)
  /\ \A w \in Workers : WF_echo_vars(program = "echo" /\ Work(w))
  /\ \A c \in Clients : WF_echo_vars(program = "echo" /\ Hear(c))
  /\ WF_pipe_vars(program = "pipe" /\ Child) /\ WF_pipe_vars(program = "pipe" /\ Parent)
  /\ WF_signal_vars(program = "signals" /\ Receiver)
  /\ \A s \in Senders : WF_signal_vars(program = "signals" /\ Sender(s))
-----------------------------------------------------------------------------
(* Every variable of every program keeps its type.                         *)
AllTypesOK == /\ CountTypeOK /\ UITypeOK /\ StreamTypeOK /\ EchoTypeOK /\ QueueTypeOK /\ ListTypeOK
              /\ PipeTypeOK /\ SignalTypeOK /\ HostTypeOK /\ ArchiveTypeOK
=============================================================================
