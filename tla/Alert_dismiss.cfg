\* Parent re-renders that change autoClose, the delay or the onClose callback, and clicks on the close button.
CONSTANTS
    Delays <- MCDelays
    Callbacks <- MCCallbacks
    NoTimer = NoTimer
    MaxRenders = 2
    MaxClicks = 2
SPECIFICATION Spec
PROPERTY AutoCloseDismisses
\* The alert stays on screen once dismissed or when autoClose is off.
CHECK_DEADLOCK FALSE
