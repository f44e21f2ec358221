------------------------------ MODULE ModalLoop ------------------------------
(***************************************************************************)
(* Modal windows, Windows backend.  Window::setModal(true) runs an event   *)
(* loop of its own until the window is let go, so loops are nested in the  *)
(* callbacks of the loops around them, down to that of Application::run.   *)
(*                                                                         *)
(* There is one thread.  What the program does in a callback is up to it:  *)
(* any calls, in any order.  Left out: the focus, windows made or          *)
(* destroyed while others are modal, and what DefWindowProc does to        *)
(* windows once the program has quit.                                      *)
(***************************************************************************)
EXTENDS Naturals, Sequences, Functions

CONSTANTS
    Windows,
    None,       \* the window of a callback that is no onClose
    Default,    \* the windows whose onClose the program has not set
    MaxDepth    \* how deep loops are nested

ASSUME ModalAssumption ==
    /\ None \notin Windows /\ Default \subseteq Windows
    /\ MaxDepth \in Nat

VARIABLES
    visible, modal,     \* the state of each window
    modals,             \* pWindow::modal
    enabled,            \* whether the native window takes input
    loops,              \* the windows in the loop of setModal, innermost last
    callbacks,          \* whose onClose was called in each loop, or None; main()
                        \* before run counts as a callback of the outermost one
    quit,               \* applicationState.quit
    posted,             \* whether WM_QUIT is in the queue
    ended,              \* Application::run has returned
    hasMain,            \* whether Application::main is set
    careful             \* history: the program has shown each window before making it
                        \* modal, and hidden it while modal in its onClose only

vars == <<visible, modal, modals, enabled, loops, callbacks, quit, posted, ended,
          hasMain, careful>>

Init ==
    /\ visible = [w \in Windows |-> FALSE] /\ modal = [w \in Windows |-> FALSE]
    /\ modals = {} /\ enabled = [w \in Windows |-> TRUE]
    /\ loops = <<>> /\ callbacks = <<None>>
    /\ quit = FALSE /\ posted = FALSE /\ ended = FALSE
    /\ hasMain \in BOOLEAN /\ careful = TRUE

\* Whether a callback runs, in the innermost loop.
Calling == Len(callbacks) > Len(loops)

Waiting == ~Calling /\ ~ended

Top == loops[Len(loops)]

Closing == callbacks[Len(callbacks)]

Pop(s) == SubSeq(s, 1, Len(s) - 1)

-----------------------------------------------------------------------------
\* Whether messages to w are processed, and its native window is enabled,
\* with list as pWindow::modal.
Admitted(list, w) == list = {} \/ w \in list

UpdateModality == enabled' = [w \in Windows |-> Admitted(modals', w)]

\* window.setVisible(b), which ends no loop: pWindow::setModal(false) is empty.
SetVisible(w, b) ==
    /\ Calling
    /\ visible' = [visible EXCEPT ![w] = b]
    /\ careful' = (careful /\ (b \/ ~modal[w] \/ Closing = w))
    /\ UNCHANGED <<modal, modals, enabled, loops, callbacks, quit, posted, ended, hasMain>>

\* window.setModal(true), up to its loop.
Enter(w) ==
    /\ Calling /\ Len(loops) < MaxDepth
    /\ modal' = [modal EXCEPT ![w] = TRUE]
    /\ modals' = modals \union {w} /\ UpdateModality
    /\ loops' = Append(loops, w)
    /\ careful' = (careful /\ visible[w])
    /\ UNCHANGED <<visible, callbacks, quit, posted, ended, hasMain>>

\* Whether the innermost loop finds its window let go.
Leaves == Waiting /\ loops # <<>> /\ ~modal[Top]

\* Mutant of Delist: the window stays in the list.
DelistNone == UNCHANGED modals

Delist == modals' = modals \ {Top}

\* The innermost loop ends, and setModal(true) returns to its callback.
Leave ==
    /\ Leaves
    /\ Delist /\ UpdateModality
    /\ loops' = Pop(loops)
    /\ UNCHANGED <<visible, modal, callbacks, quit, posted, ended, hasMain, careful>>

\* window.setModal(false): the window's loops end when they are the innermost.
LetGo(w) ==
    /\ Calling
    /\ modal' = [modal EXCEPT ![w] = FALSE]
    /\ UNCHANGED <<visible, modals, enabled, loops, callbacks, quit, posted, ended, hasMain, careful>>

Quit ==
    /\ Calling
    /\ quit' = TRUE /\ posted' = TRUE
    /\ UNCHANGED <<visible, modal, modals, enabled, loops, callbacks, ended, hasMain, careful>>

-----------------------------------------------------------------------------
\* A timer, or a message other than WM_CLOSE, calls the program.
Dispatch ==
    /\ Waiting
    /\ callbacks' = Append(callbacks, None)
    /\ UNCHANGED <<visible, modal, modals, enabled, loops, quit, posted, ended, hasMain, careful>>

\* The user closes w: pWindow::onClose, up to the return of the program's.
Close(w) ==
    /\ Waiting /\ ~quit /\ visible[w] /\ enabled[w] /\ Admitted(modals, w)
    /\ IF w \in Default
       THEN /\ visible' = [visible EXCEPT ![w] = FALSE]
            /\ modal' = [modal EXCEPT ![w] = FALSE]
            /\ UNCHANGED callbacks
       ELSE /\ callbacks' = Append(callbacks, w)
            /\ UNCHANGED <<visible, modal>>
    /\ UNCHANGED <<modals, enabled, loops, quit, posted, ended, hasMain, careful>>

\* Mutant of HidOnClose: what was closed is not let go.
HidOnCloseNever(w) == FALSE

\* Whether w has been hidden in its onClose, which is to return.
HidOnClose(w) == w = Closing /\ ~visible[w]

\* The callback returns; onClose lets go of a window it has hidden.
Return ==
    /\ Calling /\ callbacks' = Pop(callbacks)
    /\ modal' = [w \in Windows |-> modal[w] /\ ~HidOnClose(w)]
    /\ UNCHANGED <<visible, modals, enabled, loops, quit, posted, ended, hasMain, careful>>

\* processEvents takes every message from the queue, WM_QUIT among them.
Swallow ==
    /\ Waiting /\ (loops # <<>> \/ hasMain)
    /\ posted /\ posted' = FALSE
    /\ UNCHANGED <<visible, modal, modals, enabled, loops, callbacks, quit, ended, hasMain, careful>>

\* Mutant of Quits: the message ends run, if Application::main is set or not.
QuitsByMessage == posted

\* What ends the loop of Application::run.
Quits == IF hasMain THEN quit ELSE posted

\* Application::run returns.
End ==
    /\ Waiting /\ loops = <<>>
    /\ Quits
    /\ ended' = TRUE /\ posted' = (posted /\ hasMain)
    /\ UNCHANGED <<visible, modal, modals, enabled, loops, callbacks, quit, hasMain, careful>>

Next ==
    \/ \E w \in Windows, b \in BOOLEAN : SetVisible(w, b)
    \/ \E w \in Windows : Enter(w) \/ LetGo(w) \/ Close(w)
    \/ Leave \/ Quit \/ Dispatch \/ Return \/ Swallow \/ End

\* Callbacks return.  processEvents returns again and again, since messages do
\* not arrive faster than they are taken; then the loops look at their condition.
Fairness == WF_vars(Return) /\ SF_vars(Leave) /\ SF_vars(End)

Spec == Init /\ [][Next]_vars /\ Fairness

-----------------------------------------------------------------------------
\* Every variable has its type; each loop but the innermost is in a callback.
TypeOK ==
    /\ visible \in [Windows -> BOOLEAN] /\ modal \in [Windows -> BOOLEAN]
    /\ modals \subseteq Windows /\ enabled \in [Windows -> BOOLEAN]
    /\ loops \in Seq(Windows) /\ Len(loops) <= MaxDepth
    /\ callbacks \in Seq(Windows \union {None})
    /\ Len(callbacks) \in {Len(loops), Len(loops) + 1}
    /\ quit \in BOOLEAN /\ posted \in BOOLEAN /\ ended \in BOOLEAN
    /\ hasMain \in BOOLEAN /\ careful \in BOOLEAN

\* Modal windows are in the list, and who is in the list has a loop that will
\* take it out again, whatever order windows become modal and are let go in,
\* one more than once at a time: or its input, or that of all others, would be
\* lost for good.
Listed ==
    \A w \in Windows :
      /\ modal[w] => w \in modals
      /\ w \in modals => \E i \in 1 .. Len(loops) : loops[i] = w

\* The native windows that take input are those whose messages are processed.
EnabledAdmitted == \A w \in Windows : enabled[w] = Admitted(modals, w)

\* While the program waits in a loop whose window is still modal, that window is
\* on the screen and takes input, so that the user can close it.  The test
\* .test/test-modal.cpp relies on it.
Unlocked ==
    (Waiting /\ loops # <<>> /\ modal[Top]) =>
        visible[Top] /\ enabled[Top] /\ Admitted(modals, Top)

\* In careful programs no order of calls in nested callbacks locks the user out.
Reachable == careful => Unlocked

\* A careful program whose windows are all hidden for good does not stay in a
\* modal loop.
HiddenEnds ==
    <>[](careful /\ \A w \in Windows : ~visible[w]) => <>[](loops = <<>>)

\* With Application::main, a program that quits and lets its windows go ends,
\* from whatever loop it quits in.
QuitEnds ==
    (hasMain /\ <>quit /\ <>[](\A w \in Windows : ~modal[w])) => <>ended
=============================================================================
