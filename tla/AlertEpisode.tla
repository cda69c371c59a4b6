---------------------------- MODULE AlertEpisode ----------------------------
(***************************************************************************)
(* What a custom alert rule promises about its firing episodes, without    *)
(* the machinery of cycles, transactions and tables: every rule is in at   *)
(* most one episode at a time, an episode goes open -> updated* -> closed, *)
(* a closed episode is never taken up again, and deleting a rule forgets   *)
(* all of its episodes.  AlertRules implements this specification.         *)
(***************************************************************************)
EXTENDS Naturals

CONSTANTS Rules, Events

VARIABLES phase,   \* phase[e]: where episode e is; "none" when there is no such row
          owner    \* owner[e]: the rule e belongs to, meaningful while e exists

vars == <<phase, owner>>

Phases == {"none", "open", "updated", "closed"}

Active(e) == phase[e] \in {"open", "updated"}

\* The transitions one cycle may make: AlertEventStatus, in the order the
\* lifecycle allows.
Arrows == {<<p, p>> : p \in Phases} \cup
          {<<"none", "open">>, <<"open", "updated">>,
           <<"open", "closed">>, <<"updated", "closed">>}

AtMostOneActive ==
    \A e, f \in Events : Active(e) /\ Active(f) /\ owner[e] = owner[f] => e = f

Init == /\ phase = [e \in Events |-> "none"]
        /\ owner \in [Events -> Rules]

(***************************************************************************)
(* One committed cycle: any number of rules move, each by one transition   *)
(* of one of its episodes, and no rule is left in two episodes at once.    *)
(***************************************************************************)
Advance ==
    /\ phase' \in [Events -> Phases]
    /\ owner' \in [Events -> Rules]
    /\ \A e \in Events :
          /\ <<phase[e], phase'[e]>> \in Arrows
          /\ phase[e] # "none" => owner'[e] = owner[e]
    /\ \A e, f \in Events :
          phase'[e] # phase[e] /\ phase'[f] # phase[f] /\ owner'[e] = owner'[f] => e = f
    /\ AtMostOneActive'

\* Deleting the rule takes its episodes with it.
Forget(r) ==
    /\ phase' = [e \in Events |-> IF owner[e] = r THEN "none" ELSE phase[e]]
    /\ owner' \in [Events -> Rules]
    /\ \A e \in Events : phase'[e] # "none" => owner'[e] = owner[e]

Next == Advance \/ \E r \in Rules : Forget(r)

Spec == Init /\ [][Next]_vars
=============================================================================
