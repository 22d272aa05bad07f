------------------------------ MODULE Request ------------------------------
(***************************************************************************)
(* One request over a link and its receipt: Link.Request, handleRequest    *)
(* and handleResponse of rns/link.go, RequestReceipt of rns/request.go.    *)
(*                                                                         *)
(* A request or a response that does not fit a packet travels as a         *)
(* resource.  What a resource reports, and when, is taken from Resource:   *)
(* the receiver is called once the data is complete; the sender's callback *)
(* reads the status when it runs, which may no longer be COMPLETE, and may *)
(* run twice; a watchdog that gives up calls nobody.                       *)
(*                                                                         *)
(* A step is one critical section of the receipt's or the link's lock.     *)
(* handleResponse takes the receipt off the pending list under the link's  *)
(* lock and concludes it afterwards (handler); requestTimedOut and         *)
(* ResponseRejected set the status first, then take it off the list and    *)
(* call back (failing); a timeout job looks at the status and then fails   *)
(* the request (expired).  Packets may be lost, and time may pass at any   *)
(* moment.                                                                 *)
(***************************************************************************)
EXTENDS Naturals

CONSTANT MaxCalls   \* conclude callbacks of the request's resource

ASSUME CallsAssumption == MaxCalls \in Nat

VARIABLES
    kind,        \* the request is a "packet" or a "resource"
    answer,      \* and so is the response
    oversized,   \* the response is larger than maxResponseSize
    caller,      \* where the call of Link.Request stands
    status,      \* RequestReceipt.Status
    pending,     \* the receipt is in pendingRequests
    timers, expired, failing, handler,
    request, reply,    \* the ways of the request and the response
    progress,          \* the response resource reports to the receipt
    calls, concluding, \* callbacks of the request's resource: started, waiting to run
    linkUp,
    successes, failures

fixed == <<kind, answer, oversized>>
vars == <<fixed, caller, status, pending, timers, expired, failing, handler, request,
          reply, progress, calls, concluding, linkUp, successes, failures>>

Concluded == status \in {"ready", "failed"}

Init ==
    /\ kind \in {"packet", "resource"} /\ answer \in {"packet", "resource"}
    /\ oversized \in BOOLEAN
    /\ caller = "start" /\ status = "none" /\ pending = FALSE
    /\ timers = 0 /\ expired = 0 /\ failing = 0 /\ handler = "none"
    /\ request = "none" /\ reply = "none" /\ progress = FALSE
    /\ calls = 0 /\ concluding = 0 /\ linkUp = TRUE
    /\ successes = 0 /\ failures = 0
-----------------------------------------------------------------------------
(* Link.Request: list the receipt, send, arm the timeout of a packet. *)

ListReceipt ==
    /\ caller = "start"
    /\ caller' = "listed" /\ status' = "sent" /\ pending' = TRUE
    /\ UNCHANGED <<fixed, timers, expired, failing, handler, request, reply, progress,
                   calls, concluding, linkUp, successes, failures>>

(***************************************************************************)
(* An error of send takes the receipt of a packet off the list again; an   *)
(* error of Advertise does not.                                            *)
(***************************************************************************)
SendRequest ==
    /\ caller = "listed"
    /\ IF linkUp
       THEN /\ request' = "flying"
            /\ caller' = IF kind = "packet" THEN "sent" ELSE "returned"
            /\ UNCHANGED pending
       ELSE /\ caller' = "error"
            /\ pending' = IF kind = "packet" THEN FALSE ELSE pending
            /\ UNCHANGED request
    /\ UNCHANGED <<fixed, status, timers, expired, failing, handler, reply, progress,
                   calls, concluding, linkUp, successes, failures>>

\* Mutation: the timeout is armed only when the request goes out as a resource.
ReturnUnarmed ==
    /\ caller = "sent" /\ caller' = "returned"
    /\ status' = IF status = "sent" THEN "delivered" ELSE status
    /\ UNCHANGED <<fixed, pending, timers, expired, failing, handler, request, reply,
                   progress, calls, concluding, linkUp, successes, failures>>

ArmTimeout ==
    /\ caller = "sent" /\ caller' = "returned"
    /\ IF status = "sent"
       THEN status' = "delivered" /\ timers' = timers + 1
       ELSE UNCHANGED <<status, timers>>
    /\ UNCHANGED <<fixed, pending, expired, failing, handler, request, reply,
                   progress, calls, concluding, linkUp, successes, failures>>

(***************************************************************************)
(* The peer gets the request, and its handler may answer.                  *)
(***************************************************************************)
HandleRequest ==
    /\ request = "flying" /\ linkUp
    /\ request' = "arrived"
    /\ UNCHANGED <<fixed, caller, status, pending, timers, expired, failing, handler,
                   reply, progress, calls, concluding, linkUp, successes, failures>>

Respond ==
    /\ request = "arrived" /\ reply = "none" /\ linkUp
    /\ reply' = "flying"
    /\ UNCHANGED <<fixed, caller, status, pending, timers, expired, failing, handler,
                   request, progress, calls, concluding, linkUp, successes, failures>>
-----------------------------------------------------------------------------
(* A request that went out as a resource concludes. *)

(***************************************************************************)
(* ValidateProof or Cancel starts the callback.                            *)
(***************************************************************************)
RequestResourceEnds ==
    /\ kind = "resource" /\ request # "none" /\ calls < MaxCalls
    /\ calls' = calls + 1 /\ concluding' = concluding + 1
    /\ UNCHANGED <<fixed, caller, status, pending, timers, expired, failing, handler,
                   request, reply, progress, linkUp, successes, failures>>

(***************************************************************************)
(* requestResourceConcluded sets the status whatever it was.               *)
(***************************************************************************)
RequestResourceConcluded ==
    /\ concluding > 0
    /\ concluding' = concluding - 1
    /\ \/ /\ request = "arrived"
          /\ status' = "delivered" /\ timers' = timers + 1
          /\ UNCHANGED <<pending, failures>>
       \/ /\ status' = "failed" /\ pending' = FALSE /\ failures' = failures + 1
          /\ UNCHANGED timers
    /\ UNCHANGED <<fixed, caller, expired, failing, handler, request, reply, progress,
                   calls, linkUp, successes>>
-----------------------------------------------------------------------------
(* The response comes. *)

(***************************************************************************)
(* The first half of handleResponse, for a packet and for a resource that  *)
(* is complete; the size of a resource was checked when it was accepted.   *)
(***************************************************************************)
HandleResponse ==
    /\ handler = "none"
    /\ \/ answer = "packet" /\ reply = "flying"
       \/ answer = "resource" /\ reply = "accepted"
    /\ reply' = "ended"
    /\ IF linkUp /\ pending
       THEN /\ pending' = FALSE
            /\ handler' = IF answer = "packet" /\ oversized THEN "rejects" ELSE "accepts"
       ELSE UNCHANGED <<pending, handler>>
    /\ UNCHANGED <<fixed, caller, status, timers, expired, failing, request, progress,
                   calls, concluding, linkUp, successes, failures>>

\* Mutation: a receipt that has already failed is revived by its response.
ResponseReceivedUnguarded ==
    /\ handler = "accepts" /\ handler' = "none"
    /\ status' = "ready" /\ successes' = successes + 1
    /\ UNCHANGED <<fixed, caller, pending, timers, expired, failing, request, reply,
                   progress, calls, concluding, linkUp, failures>>

ResponseReceived ==
    /\ handler = "accepts" /\ handler' = "none"
    /\ IF Concluded
       THEN UNCHANGED <<status, successes>>
       ELSE status' = "ready" /\ successes' = successes + 1
    /\ UNCHANGED <<fixed, caller, pending, timers, expired, failing, request, reply,
                   progress, calls, concluding, linkUp, failures>>

(***************************************************************************)
(* The common guard of ResponseRejected and requestTimedOut.               *)
(***************************************************************************)
FailUnlessConcluded ==
    IF Concluded
    THEN UNCHANGED <<status, failing>>
    ELSE status' = "failed" /\ failing' = failing + 1

ResponseRejected ==
    /\ handler = "rejects" /\ handler' = "none"
    /\ FailUnlessConcluded
    /\ UNCHANGED <<fixed, caller, pending, timers, expired, request, reply, progress,
                   calls, concluding, linkUp, successes, failures>>

(***************************************************************************)
(* The advertisement of a response resource.                               *)
(***************************************************************************)
AcceptResponse ==
    /\ answer = "resource" /\ reply = "flying" /\ linkUp /\ handler = "none"
    /\ IF pending /\ oversized
       THEN reply' = "ended" /\ handler' = "rejects" /\ UNCHANGED progress
       ELSE reply' = "accepted" /\ progress' = pending /\ UNCHANGED handler
    /\ UNCHANGED <<fixed, caller, status, pending, timers, expired, failing, request,
                   calls, concluding, linkUp, successes, failures>>

ResponseResourceProgress ==
    /\ reply = "accepted" /\ progress /\ ~Concluded
    /\ status' = "receiving"
    /\ UNCHANGED <<fixed, caller, pending, timers, expired, failing, handler, request,
                   reply, progress, calls, concluding, linkUp, successes, failures>>

(***************************************************************************)
(* The response resource fails: cancelled by the application it calls      *)
(* failPendingResponseRequest; given up by its watchdog, or not assembled, *)
(* it calls nobody.                                                        *)
(***************************************************************************)
ResponseResourceCancelled ==
    /\ reply = "accepted" /\ reply' = "ended"
    /\ IF pending THEN FailUnlessConcluded ELSE UNCHANGED <<status, failing>>
    /\ UNCHANGED <<fixed, caller, pending, timers, expired, handler, request, progress,
                   calls, concluding, linkUp, successes, failures>>

ResponseResourceGivesUp ==
    /\ reply = "accepted" /\ reply' = "ended"
    /\ UNCHANGED <<fixed, caller, status, pending, timers, expired, failing, handler,
                   request, progress, calls, concluding, linkUp, successes, failures>>
-----------------------------------------------------------------------------
(* responseTimeoutJob *)

TimerStops ==
    /\ timers > 0 /\ status # "delivered"
    /\ timers' = timers - 1
    /\ UNCHANGED <<fixed, caller, status, pending, expired, failing, handler, request,
                   reply, progress, calls, concluding, linkUp, successes, failures>>

DeadlinePasses ==
    /\ timers > 0 /\ status = "delivered"
    /\ timers' = timers - 1 /\ expired' = expired + 1
    /\ UNCHANGED <<fixed, caller, status, pending, failing, handler, request,
                   reply, progress, calls, concluding, linkUp, successes, failures>>

RequestTimedOut ==
    /\ expired > 0 /\ expired' = expired - 1
    /\ FailUnlessConcluded
    /\ UNCHANGED <<fixed, caller, pending, timers, handler, request, reply, progress,
                   calls, concluding, linkUp, successes, failures>>

\* Mutation: the receipt of a failed request stays on the list.
ReportFailureOnly ==
    /\ failing > 0 /\ failing' = failing - 1
    /\ failures' = failures + 1
    /\ UNCHANGED <<fixed, caller, status, pending, timers, expired, handler, request,
                   reply, progress, calls, concluding, linkUp, successes>>

(***************************************************************************)
(* removePendingRequest, then failedCallback.                              *)
(***************************************************************************)
ReportFailure ==
    /\ failing > 0 /\ failing' = failing - 1
    /\ pending' = FALSE /\ failures' = failures + 1
    /\ UNCHANGED <<fixed, caller, status, timers, expired, handler, request,
                   reply, progress, calls, concluding, linkUp, successes>>

LinkCloses ==
    /\ linkUp /\ linkUp' = FALSE
    /\ UNCHANGED <<fixed, caller, status, pending, timers, expired, failing, handler,
                   request, reply, progress, calls, concluding, successes, failures>>
-----------------------------------------------------------------------------
Next ==
    \/ ListReceipt \/ SendRequest \/ ArmTimeout \/ HandleRequest \/ Respond
    \/ RequestResourceEnds \/ RequestResourceConcluded
    \/ HandleResponse \/ ResponseReceived \/ ResponseRejected \/ AcceptResponse
    \/ ResponseResourceProgress \/ ResponseResourceCancelled \/ ResponseResourceGivesUp
    \/ TimerStops \/ DeadlinePasses \/ RequestTimedOut \/ ReportFailure \/ LinkCloses

Spec == Init /\ [][Next]_vars

(***************************************************************************)
(* The call of Link.Request, the timeout job and handlers that have begun  *)
(* run to their end; the peer and the network owe nothing.                 *)
(***************************************************************************)
FairSpec ==
    /\ Spec
    /\ WF_vars(ListReceipt \/ SendRequest \/ ArmTimeout)
    /\ WF_vars(ResponseReceived \/ ResponseRejected)
    /\ WF_vars(TimerStops \/ DeadlinePasses) /\ WF_vars(RequestTimedOut)
    /\ WF_vars(ReportFailure) /\ WF_vars(RequestResourceConcluded)
-----------------------------------------------------------------------------
\* The type invariant.
TypeOK ==
    /\ kind \in {"packet", "resource"} /\ answer \in {"packet", "resource"}
    /\ oversized \in BOOLEAN
    /\ caller \in {"start", "listed", "sent", "returned", "error"}
    /\ status \in {"none", "sent", "delivered", "receiving", "ready", "failed"}
    /\ pending \in BOOLEAN
    /\ timers \in Nat /\ expired \in Nat /\ failing \in Nat
    /\ handler \in {"none", "accepts", "rejects"}
    /\ request \in {"none", "flying", "arrived"}
    /\ reply \in {"none", "flying", "accepted", "ended"}
    /\ progress \in BOOLEAN /\ calls \in Nat /\ concluding \in Nat
    /\ linkUp \in BOOLEAN /\ successes \in Nat /\ failures \in Nat

\* A request that fits a packet calls back at most once, success or failure,
\* however its response, its timeout and the failure of a response resource race.
PacketCallsBackOnce ==
    kind = "packet" => successes + failures + failing <= 1

\* What the application is told of a packet agrees with what Status says for ever
\* after: no late response, timeout or resource callback changes the outcome.
OutcomeIsFinal ==
    /\ [](kind = "packet" => /\ status = "ready" <=> successes = 1
                             /\ status = "failed" <=> failures + failing = 1)
    /\ [][kind = "packet" /\ Concluded => status' = status]_vars

\* A concluded receipt does not stay on the pending list, where a later response
\* would find it: whoever concluded it is about to take it off.
ConcludedLeavesList == Concluded /\ pending => failing > 0

\* A request that fits a packet is not forgotten once Link.Request has returned:
\* it is answered, it fails, or a response resource is coming in.
PacketConcludes ==
    kind = "packet" /\ caller = "returned"
        ~> successes + failures > 0 \/ status = "receiving"

\* The claim of requestTimedOut and responseReceived for any request: exactly one of
\* the success and failure callbacks fires.
CallsBackOnce == successes + failures <= 1
=============================================================================
