---------------------------- MODULE MCCronScheduler ----------------------------
EXTENDS CronScheduler

P(tab, catchup, skip, once, quiet, rotate, close) ==
  [tab |-> tab, catchup |-> catchup, skip |-> skip, once |-> once, quiet |-> quiet,
   rotate |-> rotate, close |-> close]

PanePolicies == {P(FALSE, "once", TRUE, FALSE, TRUE, FALSE, FALSE),
                 P(FALSE, "all", FALSE, TRUE, TRUE, FALSE, FALSE),
                 P(FALSE, "skip", TRUE, FALSE, FALSE, TRUE, FALSE)}
TabPolicies  == {P(TRUE, "all", TRUE, FALSE, FALSE, FALSE, TRUE)}
AllPolicies  == PanePolicies \cup TabPolicies

LivePolicies == {P(FALSE, "once", TRUE, FALSE, TRUE, TRUE, TRUE),
                 P(TRUE, "all", TRUE, FALSE, FALSE, FALSE, TRUE)}

OneHash == [c \in Crons |-> 1]
=============================================================================
