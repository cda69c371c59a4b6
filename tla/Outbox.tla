------------------------------- MODULE Outbox -------------------------------
(***************************************************************************)
(* What the two notification queues of the program promise, without their  *)
(* cycles, clocks, locks and channels: a message is posted once, is handed *)
(* over only while it waits, and is done with exactly once -- taken, when  *)
(* someone has it in hand, or refused, when all its tries are used up.     *)
(* Hands are told before the outcome is written, so a message may reach    *)
(* the same hands again: at least once is the promise, and no message is   *)
(* taken up again whose outcome is written, or that has been removed.      *)
(* AlertDelivery and NotificationDelivery implement this specification.    *)
(***************************************************************************)
EXTENDS Naturals

CONSTANTS Messages,
          Hands,      \* what a message can be handed to
          MaxTries

VARIABLES state,      \* state[m]: where message m is
          handed,     \* handed[m]: the hands it has come into
          tries       \* tries[m]: the refusals written down while it exists

vars == <<state, handed, tries>>

States == {"absent", "waiting", "withheld", "taken", "refused", "gone"}

Same(m) == state'[m] = state[m] /\ tries'[m] = tries[m]

Init == /\ state = [m \in Messages |-> "absent"]
        /\ handed = [m \in Messages |-> {}]
        /\ tries = [m \in Messages |-> 0]

\* Messages are posted, to be handed over or only to be kept.
Posted(m) == state[m] = "absent" /\ state'[m] \in {"waiting", "withheld"} /\ tries'[m] = 0

Post == UNCHANGED handed /\ \A m \in Messages : Same(m) \/ Posted(m)

\* Some hands take a message that waits; nothing is written of it yet.
Leave(m) == /\ state[m] = "waiting"
            /\ handed[m] \subseteq handed'[m]
            /\ \A other \in Messages \ {m} : handed'[other] = handed[other]
            /\ UNCHANGED <<state, tries>>

\* What has become of messages that waited is written, all at once.
Taken(m)   == handed[m] # {} /\ state'[m] = "taken" /\ tries'[m] = tries[m]
Retried(m) == tries'[m] = tries[m] + 1 /\ tries'[m] < MaxTries /\ state'[m] = "waiting"
Refused(m) == tries'[m] = tries[m] + 1 /\ tries'[m] = MaxTries /\ state'[m] = "refused"

Record ==
    /\ UNCHANGED handed
    /\ \A m \in Messages :
          Same(m) \/ (state[m] = "waiting" /\ (Taken(m) \/ Retried(m) \/ Refused(m)))

\* Messages are removed, written of or not, and never posted again.
Remove ==
    /\ UNCHANGED handed
    /\ \A m \in Messages : Same(m) \/ (state'[m] = "gone" /\ tries'[m] = 0)

Next ==
    /\ state' \in [Messages -> States]
    /\ handed' \in [Messages -> SUBSET Hands]
    /\ tries' \in [Messages -> 0 .. MaxTries]
    /\ Post \/ Record \/ Remove \/ \E m \in Messages : Leave(m)

Spec == Init /\ [][Next]_vars
=============================================================================
