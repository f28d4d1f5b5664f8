\* Renewals answered after a sign-out, after a new sign-in, or on a page with auth off.
CONSTANTS
    AuthEnabledValues = {TRUE, FALSE}
    NoToken = NoToken
    Public = Public
    MaxRequests = 2
SPECIFICATION Spec
PROPERTY RenewAnswersOwnSession
\* The page idles once the bounded requests are answered.
CHECK_DEADLOCK FALSE
