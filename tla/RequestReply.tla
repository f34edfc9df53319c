---------------------------- MODULE RequestReply ----------------------------
(***************************************************************************)
(* What a synchronous netlink request promises its caller: true and the     *)
(* whole answer the kernel gave to this request, or false and nothing.      *)
(* False says nothing about the kernel, which may serve the request before  *)
(* or after the caller has been told so.                                    *)
(***************************************************************************)
EXTENDS Naturals

CONSTANTS
    MaxCalls,   \* bound on the requests made
    Answers,    \* what the kernel may answer
    NoAnswer

VARIABLES
    calls,      \* how many requests have been made; each is its number
    phase,      \* is the caller "idle" or "waiting"?
    answer,     \* per request, the kernel's answer or NoAnswer
    result,     \* what the caller was told ...
    response    \* ... and given, when it was last told something

vars == <<calls, phase, answer, result, response>>

Init ==
    /\ calls = 0
    /\ phase = "idle"
    /\ answer = [c \in 1..MaxCalls |-> NoAnswer]
    /\ result = FALSE
    /\ response = NoAnswer

Told(ok, what) ==
    /\ result' = ok
    /\ response' = what

(* A request that leaves, or that cannot be sent.                           *)
Call ==
    /\ phase = "idle"
    /\ calls < MaxCalls
    /\ calls' = calls + 1
    /\ phase' \in {"idle", "waiting"}
    /\ Told(FALSE, NoAnswer)
    /\ UNCHANGED answer

Serve(c, a) ==
    /\ c <= calls
    /\ answer[c] = NoAnswer
    /\ answer' = [answer EXCEPT ![c] = a]
    /\ UNCHANGED <<calls, phase, result, response>>

Return ==
    /\ phase = "waiting"
    /\ phase' = "idle"
    /\ \/ /\ answer[calls] # NoAnswer
          /\ Told(TRUE, answer[calls])
       \/ Told(FALSE, NoAnswer)
    /\ UNCHANGED <<calls, answer>>

Next ==
    \/ Call
    \/ \E c \in 1..MaxCalls, a \in Answers : Serve(c, a)
    \/ Return

Spec == Init /\ [][Next]_vars
=============================================================================
