------------------------------- MODULE ChatUI -------------------------------
(***************************************************************************)
(* p2pchat/ui.c and the threads of p2pchat.c that call it.  One recursive  *)
(* mutex protects two forms.  The UI thread reads keys and, under the      *)
(* mutex, runs the callback, which displays and forwards or ends the UI;   *)
(* the threads of connections display what they receive.                   *)
(***************************************************************************)
EXTENDS Naturals

CONSTANTS UIThread,   \* the thread of main, which runs ui_run
          Receivers,  \* threads of connections, which call ui_display
          NOBODY      \* the owner of a free mutex

ASSUME UIAssumption == /\ UIThread \notin Receivers
                       /\ NOBODY \notin Receivers \cup {UIThread}

VARIABLES ui_running,
          ui_lock, ui_depth,  \* the owner of the mutex, and how often it took it
          freed,              \* the forms that were freed
          ui_pc,              \* each thread
          in_callback         \* "no", or what input_callback was called with

ui_vars == <<ui_running, ui_lock, ui_depth, freed, ui_pc, in_callback>>
mutex == <<ui_lock, ui_depth>>

Users == Receivers \cup {UIThread}
Alive == ui_pc[UIThread] # "returned"  \* when main returns, every thread is gone

(* After ui_init, main's first ui_display is under way.                    *)
UIInit == /\ ui_running = TRUE /\ ui_lock = NOBODY /\ ui_depth = 0
          /\ freed = {} /\ in_callback = "no"
          /\ ui_pc = [t \in Users |-> IF t = UIThread THEN "display" ELSE "receive"]

Move(t, from, to) == Alive /\ ui_pc[t] = from /\ ui_pc' = [ui_pc EXCEPT ![t] = to]
Go(t, from, to) == Move(t, from, to) /\ UNCHANGED <<ui_running, mutex, freed, in_callback>>

EnterOnce(t) == ui_lock = NOBODY /\ ui_lock' = t /\ ui_depth' = 1
Enter(t) == ui_lock \in {NOBODY, t} /\ ui_lock' = t /\ ui_depth' = ui_depth + 1
Leave(t) == /\ ui_depth' = ui_depth - 1
            /\ ui_lock' = IF ui_depth = 1 THEN NOBODY ELSE t

(* ui_display, called by any thread: on the form if the UI runs, else on   *)
(* stdout.  The UI thread calls it from main, or from the callback, which  *)
(* then forwards the message.                                              *)
DisplayLock(t) == /\ Move(t, "display", "test") /\ Enter(t)
                  /\ UNCHANGED <<ui_running, freed, in_callback>>
DisplayTest(t) == Go(t, "test", IF ui_running THEN "display_form" ELSE "printf")
DisplayShow(t) == \E how \in {"display_form", "printf"} : Go(t, how, "display_unlock")
DisplayUnlock(t) ==
  /\ Move(t, "display_unlock", IF t # UIThread THEN "receive"
                               ELSE IF in_callback = "no" THEN "run" ELSE "callback_done")
  /\ Leave(t)
  /\ UNCHANGED <<ui_running, freed, in_callback>>

(* handle_messages read a whole message.                                   *)
Receive(t) == t \in Receivers /\ Go(t, "receive", "display")

(* ui_run: its loop test and getch are outside the mutex.                  *)
Return == ~ui_running /\ Go(UIThread, "run", "returned")
Key == ui_running /\ Go(UIThread, "run", "key")

(* A character edits the input field; a line that is not empty is handed   *)
(* to input_callback, which calls ui_display or, for :quit, ui_exit.       *)
Edited(to) == IF to = "input_form" THEN "no" ELSE to
KeyLock == \E to \in {"input_form", "display", "exit"} :
             /\ Move(UIThread, "key", to)
             /\ Enter(UIThread)
             /\ in_callback' = Edited(to)
             /\ UNCHANGED <<ui_running, freed>>
Edit == Go(UIThread, "input_form", "unlock")

ExitLock == /\ Move(UIThread, "exit", "stop") /\ Enter(UIThread)
            /\ UNCHANGED <<ui_running, freed, in_callback>>
ExitStop == /\ Move(UIThread, "stop", "free") /\ ui_running' = FALSE
            /\ UNCHANGED <<mutex, freed, in_callback>>
ExitFree == /\ Move(UIThread, "free", "exit_unlock") /\ freed' = {"display", "input"}
            /\ UNCHANGED <<ui_running, mutex, in_callback>>
ExitUnlock == /\ Move(UIThread, "exit_unlock", "callback_done") /\ Leave(UIThread)
              /\ UNCHANGED <<ui_running, freed, in_callback>>

(* The input field is cleared only if the callback did not end the UI.     *)
ClearAlways == /\ Move(UIThread, "callback_done", "input_form")
               /\ in_callback' = "no"
               /\ UNCHANGED <<ui_running, mutex, freed>>
CallbackDone == /\ Move(UIThread, "callback_done", IF ui_running THEN "input_form" ELSE "unlock")
                /\ in_callback' = "no"
                /\ UNCHANGED <<ui_running, mutex, freed>>
KeyUnlock == /\ Move(UIThread, "unlock", "run") /\ Leave(UIThread)
             /\ UNCHANGED <<ui_running, freed, in_callback>>

Display(t) == DisplayLock(t) \/ DisplayTest(t) \/ DisplayShow(t) \/ DisplayUnlock(t)
Run == \/ Return \/ KeyLock \/ Edit \/ CallbackDone \/ KeyUnlock
       \/ ExitLock \/ ExitStop \/ ExitFree \/ ExitUnlock

UINext == \/ \E t \in Users : Display(t) \/ Receive(t)
          \/ Run \/ Key
          \/ ~Alive /\ UNCHANGED ui_vars

(* Nobody has to press a key or to send a message.                         *)
UISpec == UIInit /\ [][UINext]_ui_vars
UIFairSpec == UISpec /\ WF_ui_vars(Run) /\ \A t \in Users : WF_ui_vars(Display(t))
-----------------------------------------------------------------------------
UITypeOK ==
  /\ ui_running \in BOOLEAN
  /\ ui_lock \in Users \cup {NOBODY} /\ ui_depth \in 0..2
  /\ freed \in SUBSET {"display", "input"}
  /\ in_callback \in {"no", "display", "exit"}
  /\ ui_pc \in [Users -> {"receive", "display", "test", "display_form", "printf",
                          "display_unlock", "run", "key", "input_form", "exit", "stop",
                          "free", "exit_unlock", "callback_done", "unlock", "returned"}]

(* No thread is about to use a form that ui_exit freed: neither a receiver *)
(* that was waiting for the mutex meanwhile, nor ui_run on return from the *)
(* callback.                                                               *)
FormsLive ==
  /\ \A t \in Users : ui_pc[t] = "display_form" => "display" \notin freed
  /\ ui_pc[UIThread] = "input_form" => "input" \notin freed

(* Once the user typed :quit, ui_run returns, although ui_exit takes the   *)
(* mutex that ui_run holds, and after it the loop test reads ui_running    *)
(* outside the mutex.                                                      *)
QuitEnds == in_callback = "exit" ~> ui_pc[UIThread] = "returned"
=============================================================================
