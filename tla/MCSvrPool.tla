----------------------------- MODULE MCSvrPool -----------------------------
\* Instances of SvrPool for TLC.
EXTENDS SvrPool, TLC

CONSTANTS w1, w2, a, b

MCWorker  == {w1, w2}
MCSlot    == {a, b}
OneSlot   == {a}
Addresses == {"A", "B"}

\* The configuration of a list of servers, given as <<weight, address>>.
Configured(rev, list) ==
  [reverse |-> rev,
   server |-> [j \in Server |-> [weight |-> list[j + 1][1], address |-> list[j + 1][2]]]]

\* Weights without and with a common divisor; an address that is listed twice,
\* and one that no server has.
MCConf ==
  {Configured(TRUE, <<<<4, "A">>, <<6, "A">>, <<9, "A">>>>),
   Configured(TRUE, <<<<6, "A">>, <<4, "B">>, <<8, "B">>>>),
   Configured(FALSE, <<<<9, "A">>, <<9, "A">>, <<6, "A">>>>),
   Configured(FALSE, <<<<5, "A">>, <<1, "B">>, <<1, "B">>>>)}

Uneven == {Configured(TRUE, <<<<1, "A">>, <<3, "A">>, <<1, "A">>>>)}
=============================================================================
