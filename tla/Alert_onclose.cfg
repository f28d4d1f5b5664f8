\* Parent re-renders that pass a new onClose, and clicks on the close button.
CONSTANTS
    Delays <- MCDelays
    Callbacks <- MCCallbacks
    NoTimer = NoTimer
    MaxRenders = 2
    MaxClicks = 2
SPECIFICATION Spec
PROPERTY OnCloseOnceCurrent
\* The alert stays on screen once dismissed or when autoClose is off.
CHECK_DEADLOCK FALSE
