------------------------------ MODULE FreshView ------------------------------
(***************************************************************************)
(* What a panel that shows one report promises: requests are numbered from *)
(* when it is opened, and the report shown is never replaced by the answer *)
(* to an earlier request than its own.                                     *)
(***************************************************************************)
EXTENDS Naturals

VARIABLES
  asked,        \* the number of the last request
  shown         \* the number of the request whose answer is shown; 0: none

freshVars == <<asked, shown>>

\* The panel is opened anew; some ask for their first report at once.
Opened == asked \in {0, 1} /\ shown = 0

Reopen == asked' \in {0, 1} /\ shown' = 0

Ask == asked' = asked + 1 /\ UNCHANGED shown

Show == shown' \in shown + 1 .. asked /\ UNCHANGED asked

FreshNext == Reopen \/ Ask \/ Show

FreshSpec == Opened /\ [][FreshNext]_freshVars
=============================================================================
