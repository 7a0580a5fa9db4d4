--------------------------- MODULE CommandContract ---------------------------
(***************************************************************************)
(* What submitting a simulation command promises, with no queue, thread or *)
(* control in sight: a command is admitted, it may take effect, it is      *)
(* resolved once, and whoever waits for it is told either the resolution   *)
(* or that the outcome is unconfirmed.                                     *)
(***************************************************************************)
CONSTANTS Commands, Kind

VARIABLES
    status,  \* "new", "admitted", or the resolution
    effect,  \* the commands whose mutation has taken effect
    told     \* the answer given to the waiter, "none" before that

vars == <<status, effect, told>>

Resolutions == {"kSucceeded", "kFailed", "kCancelled", "kTimedOut",
                "kOutcomeUnconfirmed"}
Denials == {"kFailed", "kCancelled", "kTimedOut"}
Accountable == {"node", "target", "signal"}

Init ==
    /\ status = [c \in Commands |-> "new"]
    /\ effect = {}
    /\ told = [c \in Commands |-> "none"]

Admit(c) ==
    /\ status[c] = "new"
    /\ status' = [status EXCEPT ![c] = "admitted"]
    /\ UNCHANGED <<effect, told>>

TakeEffect(c) ==
    /\ status[c] = "admitted"
    /\ effect' = effect \cup {c}
    /\ UNCHANGED <<status, told>>

Resolve(c, how) ==
    /\ status[c] = "admitted"
    /\ how = "kSucceeded" => c \in effect
    /\ how \in Denials /\ Kind[c] \in Accountable => c \notin effect
    /\ status' = [status EXCEPT ![c] = how]
    /\ UNCHANGED <<effect, told>>

Tell(c, answer) ==
    /\ told[c] = "none"
    /\ answer = status[c] \/ answer = "kOutcomeUnconfirmed"
    /\ told' = [told EXCEPT ![c] = answer]
    /\ UNCHANGED <<status, effect>>

Next ==
    \E c \in Commands :
        \/ Admit(c)
        \/ TakeEffect(c)
        \/ \E how \in Resolutions : Resolve(c, how)
        \/ \E answer \in Resolutions : Tell(c, answer)

Spec == Init /\ [][Next]_vars
=============================================================================
