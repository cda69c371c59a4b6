---------------------------- MODULE MCAlertRules ----------------------------
(***************************************************************************)
(* AlertRules on a small instance: one recipient the rule notifies and one *)
(* that only an escalation step reaches (created disabled).                *)
(***************************************************************************)
EXTENDS AlertRules

CONSTANTS r1, r2, p1, p2, c1, s1, s2

MCRuleOf == [p \in Recipients |-> r1]
MCChannelOf == [p \in Recipients |-> c1]
MCEnabledRecipients == {p1}
MCStepRule == [s \in Steps |-> r1]
MCStepRecipient == [s \in Steps |-> IF s = s1 THEN p2 ELSE p1]
MCStepDelay == [s \in Steps |-> IF s = s1 THEN 1 ELSE 2]

\* The last tick of a three-tick day is quiet, in a window that wraps: it
\* runs until midnight.
MCWindows == {None, [start |-> 2, end |-> 0]}
MCCooldowns == {2}

-----------------------------------------------------------------------------
CONSTANT UtcOffset   \* local time = UTC + UtcOffset ticks

\* `Whether now (local time) falls inside a configured quiet-hours window'
\* (engine/alert_rules.py): no rule acts in its quiet hours, local time.
LocalQuietHoursRespected ==
    [][\A w \in Workers :
          work[w].pc = "next" /\ work'[w].pc = "write" =>
              ~IsWithinQuietHours((work[w].at + UtcOffset) % Day,
                                  work[w].seen[work'[w].rule].quiet)]_vars
=============================================================================
