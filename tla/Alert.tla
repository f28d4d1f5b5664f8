------------------------------- MODULE Alert -------------------------------
(***************************************************************************)
(* The dismissible alert (src/frontend/src/components/ui/Alert.jsx) and a  *)
(* parent that removes it when its onClose prop is called.                 *)
(*                                                                         *)
(* handleClose starts the exit animation and schedules onClose 300 ms      *)
(* later with a timer nothing ever clears.  The effect on [autoClose,     *)
(* autoCloseDelay] arms a timer that runs the handleClose of the render   *)
(* that armed it, and its cleanup clears that timer.  Props are records   *)
(* [autoClose, delay, onClose]; onClose is the identity of the parent's   *)
(* callback, which changes when the parent re-renders with a new one.     *)
(* Timers fire in any order: a 300 ms exit timer and an auto-close timer  *)
(* can both be pending.                                                    *)
(***************************************************************************)
EXTENDS Naturals, Sequences, Bags

CONSTANTS
    Delays,      \* autoCloseDelay values
    Callbacks,   \* identities of the onClose callback
    NoTimer,
    MaxRenders,  \* bound: parent re-renders
    MaxClicks    \* bound: clicks on the close button

VARIABLES
    props,       \* the props of the latest render
    mounted,     \* the parent still renders the alert
    isExiting,   \* useState isExiting
    autoTimer,   \* the effect's timer: the onClose its handleClose calls
    exitTimers,  \* pending 300 ms timers: a bag of the onClose each calls
    calls,       \* the onClose calls made, in order
    renders,     \* parent re-renders so far
    clicks       \* clicks so far

vars == <<props, mounted, isExiting, autoTimer, exitTimers, calls, renders, clicks>>

Props == [autoClose : BOOLEAN, delay : Delays, onClose : Callbacks]

\* The effect body for props p: arm a timer when autoClose is set.
Arm(p) == IF p.autoClose THEN p.onClose ELSE NoTimer

Init ==
    /\ props \in Props
    /\ mounted = TRUE
    /\ isExiting = FALSE
    /\ autoTimer = Arm(props)
    /\ exitTimers = EmptyBag
    /\ calls = <<>>
    /\ renders = 0
    /\ clicks = 0

\* Mutant: handleClose starts the animation but never calls onClose.
HandleCloseNoCallback(cb) ==
    /\ isExiting' = TRUE
    /\ UNCHANGED exitTimers

\* handleClose of a render whose onClose is cb.
HandleClose(cb) ==
    /\ isExiting' = TRUE
    /\ exitTimers' = exitTimers (+) SetToBag({cb})

\* The parent re-renders the mounted alert with new props; the effect's
\* cleanup and body run when autoClose or autoCloseDelay changed.
Render ==
    /\ mounted
    /\ renders < MaxRenders
    /\ \E p \in Props \ {props} :
          /\ props' = p
          /\ autoTimer' = IF <<p.autoClose, p.delay>> = <<props.autoClose, props.delay>>
                          THEN autoTimer
                          ELSE Arm(p)
    /\ renders' = renders + 1
    /\ UNCHANGED <<mounted, isExiting, exitTimers, calls, clicks>>

\* The close button: rendered while onClose is set.
ClickClose ==
    /\ mounted
    /\ clicks < MaxClicks
    /\ HandleClose(props.onClose)
    /\ clicks' = clicks + 1
    /\ UNCHANGED <<props, mounted, autoTimer, calls, renders>>

\* The auto-close timer fires and runs the handleClose of its render.
AutoTimerFires ==
    /\ autoTimer # NoTimer
    /\ HandleClose(autoTimer)
    /\ autoTimer' = NoTimer
    /\ UNCHANGED <<props, mounted, calls, renders, clicks>>

\* An exit timer calls its onClose; the parent removes the alert, and the
\* unmount's effect cleanup clears the auto-close timer.
ExitTimerFires(cb) ==
    /\ BagIn(cb, exitTimers)
    /\ exitTimers' = exitTimers (-) SetToBag({cb})
    /\ calls' = Append(calls, cb)
    /\ mounted' = FALSE
    /\ autoTimer' = NoTimer
    /\ UNCHANGED <<props, isExiting, renders, clicks>>

Next ==
    \/ Render
    \/ ClickClose
    \/ AutoTimerFires
    \/ \E cb \in Callbacks : ExitTimerFires(cb)

\* Browser timers fire: every pending timer eventually runs.
Spec ==
    /\ Init /\ [][Next]_vars
    /\ WF_vars(AutoTimerFires)
    /\ \A cb \in Callbacks : WF_vars(ExitTimerFires(cb))

(***************************************************************************)
(* Properties.                                                             *)
(***************************************************************************)

\* An alert with autoClose set is dismissed: whatever the parent's
\* re-renders do to its props, the alert does not stay on screen with
\* autoClose on and onClose never called.
AutoCloseDismisses == <>[](mounted => ~props.autoClose)

\* The parent removes the alert on its first onClose, so a call is only
\* meaningful while the alert is shown and only to the callback the parent
\* currently passes.  handleClose's 300 ms timer is neither cleared nor
\* deduplicated (two clicks, or a click and the auto-close timer, queue
\* two), and the auto-close timer runs the handleClose of the render that
\* armed it: every onClose call is made while the alert is mounted, to
\* the onClose of the latest render.
OnCloseOnceCurrent ==
    [][ Len(calls') > Len(calls) =>
           /\ mounted
           /\ calls'[Len(calls')] = props.onClose ]_vars

=============================================================================
