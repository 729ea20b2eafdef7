------------------------------- MODULE Panels -------------------------------
(***************************************************************************)
(* The panels of App, of which one is mounted at a time: switching the tab *)
(* drops the state of the one that was there, its timers and its answers,  *)
(* and mounts the other one anew.                                          *)
(***************************************************************************)
EXTENDS ReportPanels, ClientPanel, StreamPanel, TerminalPanel

panelVars == <<apiVars, sessions>>

\* What the mounting effects send.
MountCalls(v) ==
  CASE v.tab \in ReportTabs -> ReportMount(v)
    [] v.tab = "clients" -> ClientsCall
    [] v.tab = "streams" -> StreamCall(v)
    [] v.tab = "repl" -> <<>>

\* What a panel is when it is mounted.
Views == {ProfilerView, ClientsView, TerminalView}
         \cup TrafficViews \cup ClusterViews \cup StreamsView

PanelsTypeOK ==
  /\ acts \in 0 .. MaxActs
  /\ calm \in BOOLEAN
  /\ sessions \in [ClientIds -> {"new", "on", "off"}]
  /\ \/ view.tab \in ReportTabs /\ ReportTypeOK
     \/ view.tab = "clients" /\ ClientsTypeOK
     \/ view.tab = "streams" /\ StreamsTypeOK
     \/ view.tab = "repl" /\ TerminalTypeOK

PanelsInit ==
  /\ view \in Views
  /\ calls = MountCalls(view)
  /\ acts = 0
  /\ calm = TRUE
  /\ sessions = StartSessions

\* The bounds and the connections start afresh with the panel.
SwitchTab ==
  /\ view' \in {v \in Views : v.tab # view.tab}
  /\ calls' = MountCalls(view')
  /\ acts' = 0
  /\ calm' = TRUE
  /\ sessions' = StartSessions

\* onSelectKey of the profiler also leaves the panel; what it goes to is
\* KeyBrowser.
PanelsNext ==
  \/ SwitchTab
  \/ ReportNext /\ UNCHANGED sessions
  \/ ClientNext
  \/ StreamNext /\ UNCHANGED sessions
  \/ TerminalNext /\ UNCHANGED sessions

\* The interval ticks, and every request of the client panel is answered.
PanelsSpec ==
  /\ PanelsInit
  /\ [][PanelsNext]_panelVars
  /\ WF_panelVars(Poll)
  /\ WF_panelVars(ClientsProgress(1))

-----------------------------------------------------------------------------
\* Every busy sign of a panel has the request or the timer it stands for.
IndicatorsTrue ==
  /\ view.tab \in ReportTabs => ReportIndicators
  /\ view.tab = "clients" =>
       /\ view.loading => InFlight(calls, {"clients"})
       /\ view.successMsg # Null => InFlight(calls, {"message"})
  /\ view.tab = "streams" =>
       /\ view.loading => InFlight(calls, {"stream"})
       /\ view.loadingPending => InFlight(calls, {"pending"})
  /\ view.tab = "repl" => (view.executing => InFlight(calls, {"exec"}))

\* The panels that ask for one report at a time implement FreshView; the
\* others count as having asked for nothing.
Fresh ==
  INSTANCE FreshView WITH
    asked <- IF view.tab \in ReportTabs THEN view.asked ELSE 0,
    shown <- IF view.tab \in ReportTabs THEN view.report ELSE 0

\* No report is ever replaced by the answer to an earlier request, although
\* requests fail, take any time and outlive the panel that sent them.
AnswersAreFresh == Fresh!FreshSpec
=============================================================================
