------------------------------- MODULE Signals ------------------------------
(***************************************************************************)
(* exercises/send_signals.c and wait_sigint.c: programs that send a signal *)
(* over and over to one that blocks a set of signals and takes them from   *)
(* there with sigwait.  A pending signal is a flag, not a queue: it is     *)
(* delivered once however often it was sent.                               *)
(***************************************************************************)
EXTENDS Naturals, FiniteSets

CONSTANTS Senders,   \* runs of send_signals
          Known,     \* the names of signals send_signals accepts
          Awaited,   \* the set wait_sigint blocks: SIGINT
          IMPROPER,  \* any other argument
          Times,     \* bound: the last argument of send_signals
          Waits      \* rounds of the receiver's loop, 10 in the code

ASSUME SignalAssumption == /\ Awaited \subseteq Known /\ IMPROPER \notin Known
                           /\ Times \in Nat /\ Waits \in Nat \ {0}
                           /\ IsFiniteSet(Senders)

VARIABLES receiver,   \* "starts", "waits", "exit_0" or "killed"
          waited,     \* i of its loop
          pending,    \* the signals blocked for it
          sender, left, \* each sender: "sends", "exit_0" or "exit_2"; signals to go
          signal,     \* its second argument
          accepted    \* how often a signal became pending that was not

signal_vars == <<receiver, waited, pending, sender, left, signal, accepted>>

SignalInit == /\ receiver = "starts" /\ waited = 0 /\ pending = {} /\ accepted = 0
              /\ sender = [s \in Senders |-> "sends"]
              /\ left \in [Senders -> 0..Times]
              /\ signal \in [Senders -> Known \cup {IMPROPER}]

(* wait_sigint: until sigprocmask every signal has its default action,     *)
(* which kills; afterwards those that are not awaited still have.          *)
Mask == /\ receiver = "starts" /\ receiver' = "waits"
        /\ UNCHANGED <<waited, pending, sender, left, signal, accepted>>

WaitOnceMore == /\ receiver = "waits" /\ waited <= Waits
                /\ \E g \in pending : pending' = pending \ {g}
                /\ waited' = waited + 1
                /\ UNCHANGED <<receiver, sender, left, signal, accepted>>
SigWait == /\ receiver = "waits" /\ waited < Waits
           /\ \E g \in pending : pending' = pending \ {g}
           /\ waited' = waited + 1
           /\ receiver' = IF waited' = Waits THEN "exit_0" ELSE "waits"
           /\ UNCHANGED <<sender, left, signal, accepted>>

(* send_signals: one round of the loop, then sleep.  kill fails on a       *)
(* process that is gone, once its parent has collected it.                 *)
Deliver(g) ==
  IF receiver = "waits" /\ g \in Awaited
  THEN /\ pending' = pending \cup {g}
       /\ accepted' = IF g \in pending THEN accepted ELSE accepted + 1
       /\ UNCHANGED receiver
  ELSE /\ receiver' = IF receiver \in {"starts", "waits"} THEN "killed" ELSE receiver
       /\ UNCHANGED <<pending, accepted>>

SendSignal(s) ==
  /\ sender[s] = "sends" /\ left[s] > 0
  /\ IF signal[s] = IMPROPER
     THEN /\ sender' = [sender EXCEPT ![s] = "exit_2"]
          /\ UNCHANGED <<left, receiver, pending, accepted>>
     ELSE \/ /\ Deliver(signal[s])
             /\ left' = [left EXCEPT ![s] = @ - 1]
             /\ UNCHANGED sender
          \/ /\ receiver \in {"exit_0", "killed"}
             /\ sender' = [sender EXCEPT ![s] = "exit_2"]
             /\ UNCHANGED <<left, receiver, pending, accepted>>
  /\ UNCHANGED <<waited, signal>>

SenderEnds(s) == /\ sender[s] = "sends" /\ left[s] = 0
                 /\ sender' = [sender EXCEPT ![s] = "exit_0"]
                 /\ UNCHANGED <<receiver, waited, pending, left, signal, accepted>>

Receiver == Mask \/ SigWait
Sender(s) == SendSignal(s) \/ SenderEnds(s)

(* A receiver that is sent too few signals waits for ever.                 *)
SignalNext == \/ Receiver
              \/ \E s \in Senders : Sender(s)
              \/ /\ \A s \in Senders : sender[s] # "sends"
                 /\ UNCHANGED signal_vars

SignalSpec == SignalInit /\ [][SignalNext]_signal_vars
SignalFairSpec == /\ SignalSpec /\ WF_signal_vars(Receiver)
                  /\ \A s \in Senders : WF_signal_vars(Sender(s))
-----------------------------------------------------------------------------
SignalTypeOK ==
  /\ receiver \in {"starts", "waits", "exit_0", "killed"}
  /\ waited \in 0..Waits /\ pending \subseteq Awaited
  /\ accepted \in 0..(Times * Cardinality(Senders))
  /\ sender \in [Senders -> {"sends", "exit_0", "exit_2"}]
  /\ left \in [Senders -> 0..Times]

(* The receiver sees a signal for each time one became pending, and no     *)
(* other; it does not end by itself before its loop had all its rounds.    *)
EachWaitedOnce == /\ waited + Cardinality(pending) = accepted
                  /\ receiver = "exit_0" => waited = Waits

(* Once enough became pending it ends, unless a signal that is not awaited *)
(* kills it.                                                               *)
EnoughSignalsEnd ==
  /\ []EachWaitedOnce
  /\ accepted >= Waits ~> receiver \in {"exit_0", "killed"}
=============================================================================
