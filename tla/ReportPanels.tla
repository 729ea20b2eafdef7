---------------------------- MODULE ReportPanels ----------------------------
(***************************************************************************)
(* The panels that ask for one report at a time: MemoryProfiler,           *)
(* TrafficSampler and the topology of ClusterMap, whose slot calculator    *)
(* has a request of its own.  The button that asks is disabled while a     *)
(* request is in flight.  "asked" and the number in "report" are history:  *)
(* they number the requests of the mounted panel.                          *)
(***************************************************************************)
EXTENDS ApiClient

CONSTANTS
  Namespaces,   \* the rows of a memory report one can click
  Remedies,     \* the insights of a memory report that have a command
  Durations,    \* the durations the sampler offers
  Limits,       \* the numbers of commands it offers
  ClusterKeys   \* what may stand in the slot calculator's field

ReportTabs == {"profiler", "traffic", "cluster"}

\* startSampling captures the settings of its render.
ReportCall(v) ==
  <<Request("report",
      IF v.tab = "traffic"
      THEN [nth |-> v.asked, durationSec |-> v.durationSec, maxCommands |-> v.maxCommands]
      ELSE [nth |-> v.asked, tab |-> v.tab])>>

Asking(v) == [v EXCEPT !.asked = @ + 1, !.loading = TRUE, !.error = FALSE]

Lookup(op, key) == <<Request(op, [key |-> key])>>

\* The profiler and the topology ask for their first report when they are
\* mounted, the sampler waits for its button.
ProfilerView ==
  [tab |-> "profiler", asked |-> 1, report |-> 0, loading |-> TRUE, error |-> FALSE,
   selectedNamespace |-> Null, copiedCli |-> Null]

TrafficViews ==
  {[tab |-> "traffic", asked |-> 0, report |-> 0, loading |-> FALSE, error |-> FALSE,
    durationSec |-> d, maxCommands |-> m] : d \in Durations, m \in Limits}

ClusterViews ==
  {[tab |-> "cluster", asked |-> 1, report |-> 0, loading |-> TRUE, error |-> FALSE,
    keyInput |-> k, slotResult |-> Null, isCalculating |-> FALSE] : k \in ClusterKeys}

\* What the mounting effects of a panel send.
ReportMount(v) ==
  CASE v.tab = "profiler" -> ReportCall(v)
    [] v.tab = "traffic" -> <<>>
    [] v.tab = "cluster" -> ReportCall(v) \o Lookup("first lookup", v.keyInput)

ReportTypeOK ==
  /\ view.report \in 0 .. view.asked
  /\ {view.loading, view.error} \subseteq BOOLEAN
  /\ view.tab = "profiler" =>
       /\ view.selectedNamespace \in Namespaces \cup {Null}
       /\ view.copiedCli \in Remedies \cup {Null}
  /\ view.tab = "traffic" =>
       view.durationSec \in Durations /\ view.maxCommands \in Limits
  /\ view.tab = "cluster" =>
       /\ view.keyInput \in ClusterKeys \cup {Null}
       /\ view.slotResult \in ClusterKeys \cup {Null}

-----------------------------------------------------------------------------
ReportUser(v, sent) == UserActs /\ Land(v, calls, sent) /\ UNCHANGED calm

ReportAnswer(i, v) == Land(v, RemoveAt(calls, i), <<>>) /\ UNCHANGED calm

\* A slip: the button that asks is not disabled while a request is in flight.
AskAnyTime ==
  /\ view.tab \in ReportTabs
  /\ LET v == Asking(view) IN ReportUser(v, ReportCall(v))

\* loadProfile, startSampling and loadTopology.
AskReport ==
  /\ view.tab \in ReportTabs
  /\ ~view.loading
  /\ LET v == Asking(view) IN ReportUser(v, ReportCall(v))

OnReport ==
  \E i \in DOMAIN calls, ok \in BOOLEAN :
    /\ view.tab \in ReportTabs /\ calls[i].op = "report"
    /\ Outcome(ok)
    /\ ReportAnswer(i, [view EXCEPT !.loading = FALSE,
         !.report = IF ok THEN calls[i].nth ELSE @,
         !.error = @ \/ (~ok /\ view.tab # "profiler")])

\* A block of the treemap is clicked: again to take the filter off.
SelectNamespace ==
  /\ view.tab = "profiler" /\ view.report # 0
  /\ \E n \in Namespaces :
       ReportUser([view EXCEPT !.selectedNamespace = IF @ = n THEN Null ELSE n], <<>>)

CopyCli ==
  /\ view.tab = "profiler" /\ view.report # 0
  /\ \E r \in Remedies :
       ReportUser([view EXCEPT !.copiedCli = r], Timer("copied", r))

\* The first of two timers takes away the second one's tick.
OnCopied ==
  \E i \in DOMAIN calls :
    /\ view.tab = "profiler" /\ calls[i].op = "copied"
    /\ UNCHANGED acts
    /\ ReportAnswer(i, [view EXCEPT !.copiedCli = Null])

\* A slip: the selectors stay enabled.
SetSamplingAnyTime ==
  /\ view.tab = "traffic"
  /\ \E d \in Durations, m \in Limits :
       ReportUser([view EXCEPT !.durationSec = d, !.maxCommands = m], <<>>)

\* The selectors are disabled while sampling.
SetSampling ==
  /\ view.tab = "traffic"
  /\ ~view.loading
  /\ \E d \in Durations, m \in Limits :
       /\ (d = view.durationSec) # (m = view.maxCommands)
       /\ ReportUser([view EXCEPT !.durationSec = d, !.maxCommands = m], <<>>)

SetKeyInput ==
  /\ view.tab = "cluster"
  /\ \E k \in (ClusterKeys \cup {Null}) \ {view.keyInput} :
       ReportUser([view EXCEPT !.keyInput = k], <<>>)

\* handleLookup; an empty field (Null) asks nothing.
LookupSlot ==
  /\ view.tab = "cluster"
  /\ ~view.isCalculating
  /\ view.keyInput # Null
  /\ ReportUser([view EXCEPT !.isCalculating = TRUE], Lookup("lookup", view.keyInput))

\* The lookup of the mounting effect sets the result and nothing else.
OnLookup ==
  \E i \in DOMAIN calls, ok \in BOOLEAN :
    /\ view.tab = "cluster" /\ calls[i].op \in {"lookup", "first lookup"}
    /\ Outcome(ok)
    /\ ReportAnswer(i, [view EXCEPT
         !.isCalculating = @ /\ calls[i].op # "lookup",
         !.slotResult = IF ok THEN calls[i].key ELSE @])

ReportNext ==
  \/ AskReport \/ OnReport \/ SelectNamespace \/ CopyCli \/ OnCopied
  \/ SetSampling \/ SetKeyInput \/ LookupSlot \/ OnLookup

-----------------------------------------------------------------------------
\* What a report panel shows while it waits is what it waits for: the spinner
\* and the tick have their request or timer, and the duration in the sampling
\* banner is that of the sampling session under way.
ReportIndicators ==
  /\ view.loading =>
       \E i \in DOMAIN calls :
         /\ calls[i].op = "report"
         /\ view.tab = "traffic" =>
              calls[i].durationSec = view.durationSec
              /\ calls[i].maxCommands = view.maxCommands
  /\ view.tab = "profiler" /\ view.copiedCli # Null => InFlight(calls, {"copied"})
  /\ view.tab = "cluster" /\ view.isCalculating => InFlight(calls, {"lookup"})
=============================================================================
