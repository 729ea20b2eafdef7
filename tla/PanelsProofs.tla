---------------------------- MODULE PanelsProofs ----------------------------
(***************************************************************************)
(* Proofs about Panels.  Each panel has an invariant of its own, which     *)
(* ties every busy sign, message and table of the view to the requests in  *)
(* flight; which of the four holds is told by the tab.                     *)
(*                                                                         *)
(* Two facts about the requests carry the proofs: there is at most one of  *)
(* a kind (Single), for the buttons that are disabled while they wait, and *)
(* the youngest of a kind is for what the view names now (EndsIn), for     *)
(* those that are not.                                                     *)
(***************************************************************************)
EXTENDS Panels, RequestProofs

-----------------------------------------------------------------------------
(* The panels of one report *)

ProfilerState ==
  [tab : {"profiler"}, asked : Nat, report : Nat, loading : BOOLEAN,
   error : BOOLEAN, selectedNamespace : Namespaces \cup {Null},
   copiedCli : Remedies \cup {Null}]

TrafficState ==
  [tab : {"traffic"}, asked : Nat, report : Nat, loading : BOOLEAN,
   error : BOOLEAN, durationSec : Durations, maxCommands : Limits]

ClusterState ==
  [tab : {"cluster"}, asked : Nat, report : Nat, loading : BOOLEAN,
   error : BOOLEAN, keyInput : ClusterKeys \cup {Null},
   slotResult : ClusterKeys \cup {Null}, isCalculating : BOOLEAN]

ReportStates == ProfilerState \cup TrafficState \cup ClusterState

ReportRequests ==
  [op : {"report"}, reply : {Null}, nth : Nat, tab : ReportTabs] \cup
  [op : {"report"}, reply : {Null}, nth : Nat, durationSec : Durations,
   maxCommands : Limits] \cup
  [op : {"copied"}, reply : {Null}, arg : Remedies] \cup
  [op : {"lookup", "first lookup"}, reply : {Null}, key : ClusterKeys \cup {Null}]

\* The request c is the one the view v waits for.
StandsFor(c, v) ==
  /\ c.op = "report"
  /\ (v.tab = "traffic" =>
        (c.durationSec = v.durationSec /\ c.maxCommands = v.maxCommands))

\* What is awaited is the answer to the last request, with the settings shown;
\* what was shown before is older.
ReportHolds(v, sent) ==
  /\ v.report <= v.asked
  /\ \A c \in sent : c.op = "report" =>
       v.loading /\ c.nth = v.asked /\ v.report < v.asked
  /\ v.loading => \E c \in sent : StandsFor(c, v)
  /\ v.tab = "profiler" /\ v.copiedCli # Null => \E c \in sent : c.op = "copied"
  /\ v.tab = "cluster" /\ v.isCalculating => \E c \in sent : c.op = "lookup"

ReportInv ==
  /\ view \in ReportStates
  /\ calls \in Seq(ReportRequests)
  /\ Single(calls, "report")
  /\ ReportHolds(view, ToSet(calls))

LEMMA ReportTab ==
  ASSUME NEW v \in ReportStates
  PROVE  /\ v.tab \in ReportTabs
         /\ v.tab = "profiler" => v \in ProfilerState
         /\ v.tab = "traffic" => v \in TrafficState
         /\ v.tab = "cluster" => v \in ClusterState
         /\ v.asked \in Nat /\ v.report \in Nat
         /\ v.loading \in BOOLEAN /\ v.error \in BOOLEAN
BY DEF ReportStates, ProfilerState, TrafficState, ClusterState, ReportTabs

LEMMA ReportInvShows ==
  ASSUME ReportInv
  PROVE  view.tab \in ReportTabs /\ ReportTypeOK /\ ReportIndicators
<1>1. /\ view.tab \in ReportTabs
      /\ view.tab = "profiler" => view \in ProfilerState
      /\ view.tab = "traffic" => view \in TrafficState
      /\ view.tab = "cluster" => view \in ClusterState
      /\ view.asked \in Nat /\ view.report \in Nat
      /\ view.loading \in BOOLEAN /\ view.error \in BOOLEAN
  BY ReportTab DEF ReportInv
<1>2. ReportTypeOK
  BY <1>1 DEF ReportTypeOK, ReportInv, ReportHolds, ProfilerState, TrafficState,
       ClusterState
<1>3. \A c \in ToSet(calls) : \E i \in DOMAIN calls : calls[i] = c
  BY DEF ToSet
<1>4. ReportIndicators
  <2>1. ASSUME view.loading
        PROVE  \E i \in DOMAIN calls :
                 /\ calls[i].op = "report"
                 /\ view.tab = "traffic" =>
                      calls[i].durationSec = view.durationSec
                      /\ calls[i].maxCommands = view.maxCommands
    <3>1. PICK c \in ToSet(calls) :
            StandsFor(c, view)
      BY <2>1, Zenon DEF ReportInv, ReportHolds
    <3> QED
      BY <1>3, <3>1 DEF StandsFor
  <2>2. ASSUME view.tab = "profiler", view.copiedCli # Null
        PROVE  InFlight(calls, {"copied"})
    BY <2>2, InFlightSet DEF ReportInv, ReportHolds
  <2>3. ASSUME view.tab = "cluster", view.isCalculating
        PROVE  InFlight(calls, {"lookup"})
    BY <2>3, InFlightSet DEF ReportInv, ReportHolds
  <2> QED
    BY <2>1, <2>2, <2>3 DEF ReportIndicators
<1> QED
  BY <1>1, <1>2, <1>4

\* Requests, as the records they are.
LEMMA RequestRecords ==
  /\ \A op, k : Request(op, [key |-> k]) = [op |-> op, reply |-> Null, key |-> k]
  /\ \A op, a : Request(op, [arg |-> a]) = [op |-> op, reply |-> Null, arg |-> a]
  /\ \A op, n, t : Request(op, [nth |-> n, tab |-> t])
                     = [op |-> op, reply |-> Null, nth |-> n, tab |-> t]
  /\ \A op, n, d, m :
       Request(op, [nth |-> n, durationSec |-> d, maxCommands |-> m])
         = [op |-> op, reply |-> Null, nth |-> n, durationSec |-> d, maxCommands |-> m]
<1>1. \A op, k : Request(op, [key |-> k]) = [op |-> op, reply |-> Null, key |-> k]
  BY DEF Request, Join
<1>2. \A op, a : Request(op, [arg |-> a]) = [op |-> op, reply |-> Null, arg |-> a]
  BY DEF Request, Join
<1>3. \A op, n, t : Request(op, [nth |-> n, tab |-> t])
                      = [op |-> op, reply |-> Null, nth |-> n, tab |-> t]
  BY DEF Request, Join
<1>4. \A op, n, d, m :
        Request(op, [nth |-> n, durationSec |-> d, maxCommands |-> m])
          = [op |-> op, reply |-> Null, nth |-> n, durationSec |-> d, maxCommands |-> m]
  BY DEF Request, Join
<1> QED
  BY <1>1, <1>2, <1>3, <1>4

LEMMA ReportCallTyped ==
  ASSUME NEW v \in ReportStates
  PROVE  \E c \in ReportRequests :
           /\ ReportCall(v) = <<c>> /\ c.op = "report" /\ c.nth = v.asked
           /\ v.tab = "traffic" => /\ c.durationSec = v.durationSec
                                   /\ c.maxCommands = v.maxCommands
<1>1. CASE v.tab = "traffic"
  <2> DEFINE c == [op |-> "report", reply |-> Null, nth |-> v.asked,
                   durationSec |-> v.durationSec, maxCommands |-> v.maxCommands]
  <2>1. c \in ReportRequests
    BY <1>1, ReportTab DEF ReportRequests, TrafficState
  <2>2. ReportCall(v) = <<c>>
    BY <1>1, RequestRecords DEF ReportCall
  <2> QED
    BY <1>1, <2>1, <2>2
<1>2. CASE v.tab # "traffic"
  <2> DEFINE c == [op |-> "report", reply |-> Null, nth |-> v.asked, tab |-> v.tab]
  <2>1. c \in ReportRequests
    BY <1>2, ReportTab DEF ReportRequests
  <2>2. ReportCall(v) = <<c>>
    BY <1>2, RequestRecords DEF ReportCall
  <2> QED
    BY <1>2, <2>1, <2>2
<1> QED
  BY <1>1, <1>2

LEMMA LookupTyped ==
  ASSUME NEW op \in {"lookup", "first lookup"}, NEW key \in ClusterKeys \cup {Null}
  PROVE  \E c \in ReportRequests :
           Lookup(op, key) = <<c>> /\ c.op = op
<1> DEFINE c == [op |-> op, reply |-> Null, key |-> key]
<1>1. c \in ReportRequests
  BY DEF ReportRequests
<1>2. Lookup(op, key) = <<c>>
  BY RequestRecords DEF Lookup
<1> QED
  BY <1>1, <1>2

LEMMA CopiedTyped ==
  ASSUME NEW r \in Remedies
  PROVE  \E c \in ReportRequests :
           Timer("copied", r) = <<c>> /\ c.op = "copied"
<1> DEFINE c == [op |-> "copied", reply |-> Null, arg |-> r]
<1>1. c \in ReportRequests
  BY DEF ReportRequests
<1>2. Timer("copied", r) = <<c>>
  BY RequestRecords DEF Timer
<1> QED
  BY <1>1, <1>2

LEMMA ReportMounted ==
  ASSUME NEW v \in {ProfilerView} \cup TrafficViews \cup ClusterViews,
         view = v, calls = ReportMount(v)
  PROVE  ReportInv /\ view.asked \in {0, 1} /\ view.report = 0
<1>1. CASE v = ProfilerView
  <2>1. /\ v \in ReportStates /\ v.tab = "profiler" /\ v.asked = 1
        /\ v.report = 0 /\ v.copiedCli = Null
    BY <1>1 DEF ProfilerView, ReportStates, ProfilerState
  <2>2. v.loading
    BY <1>1 DEF ProfilerView
  <2>3. PICK c \in ReportRequests :
          calls = <<c>> /\ c.op = "report" /\ c.nth = v.asked
    BY <2>1, ReportCallTyped DEF ReportMount
  <2>4. calls \in Seq(ReportRequests) /\ ToSet(calls) = {c} /\ Single(calls, "report")
    BY <2>3 DEF ToSet, Single
  <2>5. ReportHolds(v, {c})
    BY <2>1, <2>2, <2>3 DEF ReportHolds, StandsFor
  <2> QED
    BY <2>1, <2>4, <2>5 DEF ReportInv
<1>2. CASE v \in TrafficViews
  <2>0. PICK d \in Durations, m \in Limits :
          v = [tab |-> "traffic", asked |-> 0, report |-> 0, loading |-> FALSE,
               error |-> FALSE, durationSec |-> d, maxCommands |-> m]
    BY <1>2 DEF TrafficViews
  <2>1. /\ v \in ReportStates /\ v.tab = "traffic" /\ v.asked = 0
        /\ v.report = 0 /\ ~v.loading
    BY <2>0 DEF ReportStates, TrafficState
  <2>2. calls = <<>>
    BY <2>1 DEF ReportMount
  <2>3. ReportHolds(v, {})
    BY <2>1 DEF ReportHolds
  <2> QED
    BY <2>1, <2>2, <2>3, NothingInFlight DEF ReportInv
<1>3. CASE v \in ClusterViews
  <2>1. PICK k \in ClusterKeys :
          v = [tab |-> "cluster", asked |-> 1, report |-> 0, loading |-> TRUE,
               error |-> FALSE, keyInput |-> k, slotResult |-> Null,
               isCalculating |-> FALSE]
    BY <1>3 DEF ClusterViews
  <2>2. /\ v \in ReportStates /\ v.tab = "cluster" /\ v.asked = 1
        /\ v.report = 0 /\ v.keyInput \in ClusterKeys
    BY <2>1 DEF ReportStates, ClusterState
  <2>3. v.loading /\ ~v.isCalculating
    BY <2>1
  <2>4. PICK c \in ReportRequests :
          ReportCall(v) = <<c>> /\ c.op = "report" /\ c.nth = v.asked
    BY <2>2, ReportCallTyped
  <2>5. PICK d \in ReportRequests :
          Lookup("first lookup", v.keyInput) = <<d>> /\ d.op = "first lookup"
    BY <2>2, LookupTyped
  <2>6. calls = <<c>> \o <<d>>
    BY <2>2, <2>4, <2>5 DEF ReportMount
  <2>7. /\ <<c>> \in Seq(ReportRequests) /\ ToSet(<<c>>) = {c}
        /\ Single(<<c>>, "report")
    BY <2>4 DEF ToSet, Single
  <2>8. calls \in Seq(ReportRequests) /\ ToSet(calls) = {c, d}
    <3>1. /\ <<c>> \o <<d>> \in Seq(ReportRequests)
          /\ ToSet(<<c>> \o <<d>>) = ToSet(<<c>>) \cup {d}
      <4> DEFINE q == <<c>>
      <4>1. q \in Seq(ReportRequests)
        BY <2>7
      <4> HIDE DEF q
      <4>2. q \o <<d>> \in Seq(ReportRequests) /\ ToSet(q \o <<d>>) = ToSet(q) \cup {d}
        BY <4>1, OneMore
      <4> QED
        BY <4>2 DEF q
    <3> QED
      BY <2>6, <2>7, <3>1
  <2>9. Single(calls, "report")
    BY <2>5, <2>6, <2>7, SingleSent
  <2>10. ReportHolds(v, {c, d})
    <3>1. v.report <= v.asked /\ v.report < v.asked
      BY <2>2
    <3> QED
      BY <2>2, <2>3, <2>4, <2>5, <3>1, Zenon DEF ReportHolds, StandsFor
  <2> QED
    BY <2>2, <2>8, <2>9, <2>10 DEF ReportInv
<1> QED
  BY <1>1, <1>2, <1>3

\* An answer takes its request away; the view has no new cause to name.
LEMMA ReportAnswered ==
  ASSUME ReportInv, NEW i \in DOMAIN calls, NEW v \in ReportStates,
         view' = v, calls' = RemoveAt(calls, i) \o <<>>,
         v.tab = view.tab, v.asked = view.asked,
         v.report = view.report \/ (calls[i].op = "report" /\ v.report = calls[i].nth),
         v.loading <=> view.loading /\ calls[i].op # "report",
         view.tab = "traffic" => /\ v.durationSec = view.durationSec
                                 /\ v.maxCommands = view.maxCommands,
         view.tab = "profiler" /\ v.copiedCli # Null =>
           view.copiedCli # Null /\ calls[i].op # "copied",
         view.tab = "cluster" /\ v.isCalculating =>
           view.isCalculating /\ calls[i].op # "lookup"
  PROVE  ReportInv'
<1> DEFINE rest == RemoveAt(calls, i)
<1>1. /\ calls \in Seq(ReportRequests) /\ Single(calls, "report")
      /\ ReportHolds(view, ToSet(calls)) /\ view \in ReportStates
  BY DEF ReportInv
<1>2. /\ rest \in Seq(ReportRequests)
      /\ ToSet(rest) \subseteq ToSet(calls)
      /\ \A c \in ToSet(calls) : c = calls[i] \/ c \in ToSet(rest)
      /\ Single(rest, "report")
      /\ calls[i].op = "report" => \A c \in ToSet(rest) : c.op # "report"
      /\ calls[i] \in ToSet(calls)
  <2>1. calls[i] \in ToSet(calls)
    BY DEF ToSet
  <2> QED
    BY <1>1, <2>1, RestSet
<1> HIDE DEF rest
<1>3. calls' = rest
  BY <1>2 DEF rest
<1>4. v.asked \in Nat /\ v.report \in Nat /\ view.report \in Nat
  BY <1>1, ReportTab
<1>5. /\ calls[i].op = "report" => calls[i].nth = view.asked
      /\ view.report <= view.asked
  BY <1>1, <1>2 DEF ReportHolds
<1>6. v.report <= v.asked
  BY <1>4, <1>5
<1>7. ASSUME NEW c \in ToSet(rest), c.op = "report"
      PROVE  v.loading /\ c.nth = v.asked /\ v.report < v.asked
  <2>1. view.loading /\ c.nth = view.asked /\ view.report < view.asked
    BY <1>1, <1>2, <1>7 DEF ReportHolds
  <2>2. calls[i].op # "report"
    BY <1>2, <1>7
  <2> QED
    BY <2>1, <2>2
<1>8. ASSUME v.loading
      PROVE  \E c \in ToSet(rest) : StandsFor(c, v)
  <2>1. PICK c \in ToSet(calls) : StandsFor(c, view)
    BY <1>1, <1>8, Zenon DEF ReportHolds
  <2>2. c \in ToSet(rest)
    BY <1>2, <1>8, <2>1, Zenon DEF StandsFor
  <2>3. view.tab = v.tab
    OBVIOUS
  <2> QED
    BY <2>1, <2>2, <2>3 DEF StandsFor
<1>9. v.tab = "profiler" /\ v.copiedCli # Null => \E c \in ToSet(rest) : c.op = "copied"
  BY <1>1, <1>2, Zenon DEF ReportHolds
<1>10. v.tab = "cluster" /\ v.isCalculating => \E c \in ToSet(rest) : c.op = "lookup"
  BY <1>1, <1>2, Zenon DEF ReportHolds
<1>11. ReportHolds(v, ToSet(rest))
  BY <1>6, <1>7, <1>8, <1>9, <1>10, Zenon DEF ReportHolds
<1>12. ReportHolds(view', ToSet(calls'))
  BY <1>3, <1>11
<1>13. Single(calls', "report") /\ calls' \in Seq(ReportRequests)
  BY <1>2, <1>3
<1> QED
  BY <1>12, <1>13 DEF ReportInv, ReportHolds, Single

\* The user does something that asks for no report.
LEMMA ReportActed ==
  ASSUME ReportInv, NEW v \in ReportStates, view' = v, NEW sent,
         \/ calls' = calls \o <<>> /\ sent = {}
         \/ \E c \in ReportRequests :
              calls' = calls \o <<c>> /\ c.op # "report" /\ sent = {c},
         v.tab = view.tab, v.asked = view.asked, v.report = view.report,
         v.loading = view.loading,
         view.tab = "traffic" /\ view.loading =>
           /\ v.durationSec = view.durationSec /\ v.maxCommands = view.maxCommands,
         view.tab = "profiler" /\ v.copiedCli # Null =>
           view.copiedCli # Null \/ \E c \in sent : c.op = "copied",
         view.tab = "cluster" /\ v.isCalculating =>
           view.isCalculating \/ \E c \in sent : c.op = "lookup"
  PROVE  ReportInv'
<1>1. /\ calls \in Seq(ReportRequests) /\ Single(calls, "report")
      /\ ReportHolds(view, ToSet(calls)) /\ view \in ReportStates
  BY DEF ReportInv
<1>2. /\ calls' \in Seq(ReportRequests) /\ Single(calls', "report")
      /\ ToSet(calls') = ToSet(calls) \cup sent
      /\ \A c \in sent : c.op # "report"
  <2>1. CASE calls' = calls \o <<>> /\ sent = {}
    BY <1>1, <2>1
  <2>2. ASSUME NEW c \in ReportRequests, calls' = calls \o <<c>>,
               c.op # "report", sent = {c}
        PROVE  <1>2
    BY <1>1, <2>2, OneMore, SingleSent
  <2> QED
    BY <2>1, <2>2
<1>3. ASSUME NEW c \in ToSet(calls'), c.op = "report"
      PROVE  v.loading /\ c.nth = v.asked /\ v.report < v.asked
  BY <1>1, <1>2, <1>3 DEF ReportHolds
<1>4. ASSUME v.loading
      PROVE  \E c \in ToSet(calls') : StandsFor(c, v)
  <2>1. PICK c \in ToSet(calls) : StandsFor(c, view)
    BY <1>1, <1>4, Zenon DEF ReportHolds
  <2>2. c \in ToSet(calls')
    BY <1>2
  <2> QED
    BY <1>4, <2>1, <2>2, Zenon DEF StandsFor
<1>5. v.tab = "profiler" /\ v.copiedCli # Null => \E c \in ToSet(calls') : c.op = "copied"
  BY <1>1, <1>2, Zenon DEF ReportHolds
<1>6. v.tab = "cluster" /\ v.isCalculating => \E c \in ToSet(calls') : c.op = "lookup"
  BY <1>1, <1>2, Zenon DEF ReportHolds
<1>7. v.report <= v.asked
  BY <1>1 DEF ReportHolds
<1>8. ReportHolds(v, ToSet(calls'))
  BY <1>3, <1>4, <1>5, <1>6, <1>7, Zenon DEF ReportHolds
<1>9. ReportHolds(view', ToSet(calls'))
  BY <1>8
<1> QED
  BY <1>2, <1>9 DEF ReportInv, ReportHolds, Single

LEMMA AskReportStep ==
  ASSUME ReportInv, AskReport
  PROVE  ReportInv' /\ view'.asked = view.asked + 1 /\ view'.report = view.report
         /\ view'.tab = view.tab
<1> DEFINE n == view.asked + 1
           v == [view EXCEPT !.asked = n, !.loading = TRUE, !.error = FALSE]
<1>1. /\ calls \in Seq(ReportRequests) /\ Single(calls, "report")
      /\ ReportHolds(view, ToSet(calls)) /\ view \in ReportStates
  BY DEF ReportInv
<1>2. ~view.loading
  BY DEF AskReport
<1>0. n \in Nat /\ n = view.asked + 1 /\ v = Asking(view)
  BY <1>1, ReportTab DEF Asking
<1> HIDE DEF n
<1>3. /\ v \in ReportStates /\ v.tab = view.tab /\ v.asked = n
      /\ v.report = view.report /\ v.asked \in Nat /\ v.report \in Nat
      /\ view.tab = "profiler" => v.copiedCli = view.copiedCli
  <2>1. CASE view \in ProfilerState
    BY <1>0, <2>1 DEF ReportStates, ProfilerState
  <2>2. CASE view \in TrafficState
    BY <1>0, <2>2 DEF ReportStates, TrafficState
  <2>3. CASE view \in ClusterState
    BY <1>0, <2>3 DEF ReportStates, ClusterState
  <2> QED
    BY <1>1, <2>1, <2>2, <2>3 DEF ReportStates
<1>4. v.loading /\ (view.tab = "cluster" => (v.isCalculating <=> view.isCalculating))
  <2>1. CASE view \in ProfilerState
    BY <2>1 DEF ProfilerState
  <2>2. CASE view \in TrafficState
    BY <2>2 DEF TrafficState
  <2>3. CASE view \in ClusterState
    BY <2>3 DEF ClusterState
  <2> QED
    BY <1>1, <2>1, <2>2, <2>3 DEF ReportStates
<1>5. PICK c \in ReportRequests :
        /\ ReportCall(v) = <<c>> /\ c.op = "report" /\ c.nth = v.asked
        /\ v.tab = "traffic" => /\ c.durationSec = v.durationSec
                                /\ c.maxCommands = v.maxCommands
  BY <1>3, ReportCallTyped
<1>6. view' = v /\ calls' = calls \o <<c>>
  BY <1>0, <1>5 DEF AskReport, ReportUser, Land
<1> HIDE DEF v
<1>7. \A d \in ToSet(calls) : d.op # "report"
  BY <1>1, <1>2, Zenon DEF ReportHolds
<1>8. /\ calls' \in Seq(ReportRequests) /\ Single(calls', "report")
      /\ ToSet(calls') = ToSet(calls) \cup {c}
  BY <1>1, <1>6, <1>7, OneMore, SingleSent
<1>9. view.report <= view.asked /\ view.asked \in Nat
  BY <1>1, ReportTab DEF ReportHolds
<1>10. v.report <= v.asked /\ v.report < v.asked
  BY <1>0, <1>3, <1>9
<1>11. StandsFor(c, v)
  BY <1>5 DEF StandsFor
<1>12. ReportHolds(v, ToSet(calls'))
  <2>1. \A d \in ToSet(calls') : d.op = "report" =>
          (v.loading /\ d.nth = v.asked /\ v.report < v.asked)
    BY <1>4, <1>5, <1>7, <1>8, <1>10, Zenon
  <2>2. \E d \in ToSet(calls') : StandsFor(d, v)
    BY <1>8, <1>11
  <2>3. v.tab = "profiler" /\ v.copiedCli # Null =>
          \E d \in ToSet(calls') : d.op = "copied"
    BY <1>1, <1>3, <1>8, Zenon DEF ReportHolds
  <2>4. v.tab = "cluster" /\ v.isCalculating =>
          \E d \in ToSet(calls') : d.op = "lookup"
    BY <1>1, <1>3, <1>4, <1>8, Zenon DEF ReportHolds
  <2> QED
    BY <1>10, <2>1, <2>2, <2>3, <2>4, Zenon DEF ReportHolds
<1>13. ReportHolds(view', ToSet(calls'))
  BY <1>6, <1>12
<1> QED
  BY <1>0, <1>3, <1>6, <1>8, <1>13 DEF ReportInv, ReportHolds, Single

\* The answer is that to the last request, which is newer than what is shown.
LEMMA OnReportStep ==
  ASSUME ReportInv, OnReport
  PROVE  /\ ReportInv' /\ view'.tab = view.tab /\ view'.asked = view.asked
         /\ \/ view'.report = view.report
            \/ view'.report \in view.report + 1 .. view.asked
<1>1. PICK i \in DOMAIN calls, ok \in BOOLEAN :
        /\ calls[i].op = "report"
        /\ ReportAnswer(i, [view EXCEPT !.loading = FALSE,
             !.report = IF ok THEN calls[i].nth ELSE @,
             !.error = @ \/ (~ok /\ view.tab # "profiler")])
  BY DEF OnReport
<1> DEFINE n == IF ok THEN calls[i].nth ELSE view.report
           e == view.error \/ (~ok /\ view.tab # "profiler")
           v == [view EXCEPT !.loading = FALSE, !.report = n, !.error = e]
<1>2. /\ view \in ReportStates /\ ReportHolds(view, ToSet(calls))
      /\ calls[i] \in ToSet(calls)
  BY DEF ReportInv, ToSet
<1>3. calls[i].nth = view.asked /\ view.report < view.asked
  BY <1>1, <1>2, Zenon DEF ReportHolds
<1>4. view.asked \in Nat /\ view.report \in Nat /\ n \in Nat /\ e \in BOOLEAN
  BY <1>2, <1>3, ReportTab
<1>5. n = view.report \/ (n = calls[i].nth /\ n \in view.report + 1 .. view.asked)
  BY <1>3, <1>4
<1>6. view' = v /\ calls' = RemoveAt(calls, i) \o <<>>
  BY <1>1 DEF ReportAnswer, Land
<1> HIDE DEF n, e
<1>7. /\ v \in ReportStates /\ v.tab = view.tab /\ v.asked = view.asked
      /\ v.report = n
      /\ view.tab = "traffic" => /\ v.durationSec = view.durationSec
                                 /\ v.maxCommands = view.maxCommands
      /\ view.tab = "profiler" => v.copiedCli = view.copiedCli
  <2>1. CASE view \in ProfilerState
    BY <1>4, <2>1 DEF ReportStates, ProfilerState
  <2>2. CASE view \in TrafficState
    BY <1>4, <2>2 DEF ReportStates, TrafficState
  <2>3. CASE view \in ClusterState
    BY <1>4, <2>3 DEF ReportStates, ClusterState
  <2> QED
    BY <1>2, <2>1, <2>2, <2>3 DEF ReportStates
<1>8. ~v.loading /\ (view.tab = "cluster" => (v.isCalculating <=> view.isCalculating))
  <2>1. CASE view \in ProfilerState
    BY <2>1 DEF ProfilerState
  <2>2. CASE view \in TrafficState
    BY <2>2 DEF TrafficState
  <2>3. CASE view \in ClusterState
    BY <2>3 DEF ClusterState
  <2> QED
    BY <1>2, <2>1, <2>2, <2>3 DEF ReportStates
<1> HIDE DEF v
<1>9. ReportInv'
  BY <1>1, <1>5, <1>6, <1>7, <1>8, ReportAnswered
<1> QED
  BY <1>5, <1>6, <1>7, <1>9

\* The rest leaves the report and the numbers alone.
LEMMA ReportOtherStep ==
  ASSUME ReportInv,
         \/ SelectNamespace \/ CopyCli \/ OnCopied \/ SetSampling
         \/ SetKeyInput \/ LookupSlot \/ OnLookup
  PROVE  /\ ReportInv' /\ view'.tab = view.tab /\ view'.asked = view.asked
         /\ view'.report = view.report
<1>1. /\ view \in ReportStates
      /\ view.tab \in ReportTabs
      /\ view.tab = "profiler" => view \in ProfilerState
      /\ view.tab = "traffic" => view \in TrafficState
      /\ view.tab = "cluster" => view \in ClusterState
  BY ReportTab DEF ReportInv
<1>2. ASSUME SelectNamespace
      PROVE  /\ ReportInv' /\ view'.tab = view.tab /\ view'.asked = view.asked
             /\ view'.report = view.report
  <2>1. PICK n \in Namespaces :
          ReportUser([view EXCEPT !.selectedNamespace = IF @ = n THEN Null ELSE n], <<>>)
    BY <1>2 DEF SelectNamespace
  <2> DEFINE x == IF view.selectedNamespace = n THEN Null ELSE n
             v == [view EXCEPT !.selectedNamespace = x]
  <2>2. view \in ProfilerState /\ view.tab = "profiler"
    BY <1>1, <1>2 DEF SelectNamespace
  <2>3. view' = v /\ calls' = calls \o <<>>
    BY <2>1 DEF ReportUser, Land
  <2>4. x \in Namespaces \cup {Null}
    OBVIOUS
  <2> HIDE DEF x
  <2>5. /\ v \in ReportStates /\ v.tab = view.tab /\ v.asked = view.asked
        /\ v.report = view.report /\ v.loading = view.loading
        /\ v.copiedCli = view.copiedCli
    BY <2>2, <2>4 DEF ReportStates, ProfilerState
  <2> HIDE DEF v
  <2>6. ReportInv'
    BY <2>2, <2>3, <2>5, ReportActed
  <2> QED
    BY <2>3, <2>5, <2>6
<1>3. ASSUME CopyCli
      PROVE  /\ ReportInv' /\ view'.tab = view.tab /\ view'.asked = view.asked
             /\ view'.report = view.report
  <2>1. PICK r \in Remedies : ReportUser([view EXCEPT !.copiedCli = r], Timer("copied", r))
    BY <1>3 DEF CopyCli
  <2> DEFINE v == [view EXCEPT !.copiedCli = r]
  <2>2. view \in ProfilerState /\ view.tab = "profiler"
    BY <1>1, <1>3 DEF CopyCli
  <2>3. PICK c \in ReportRequests : Timer("copied", r) = <<c>> /\ c.op = "copied"
    BY CopiedTyped
  <2>4. view' = v /\ calls' = calls \o <<c>>
    BY <2>1, <2>3 DEF ReportUser, Land
  <2>5. /\ v \in ReportStates /\ v.tab = view.tab /\ v.asked = view.asked
        /\ v.report = view.report /\ v.loading = view.loading
    BY <2>2 DEF ReportStates, ProfilerState
  <2> HIDE DEF v
  <2>6. ReportInv'
    BY <2>2, <2>3, <2>4, <2>5, ReportActed
  <2> QED
    BY <2>4, <2>5, <2>6
<1>4. ASSUME OnCopied
      PROVE  /\ ReportInv' /\ view'.tab = view.tab /\ view'.asked = view.asked
             /\ view'.report = view.report
  <2>1. PICK i \in DOMAIN calls :
          calls[i].op = "copied" /\ ReportAnswer(i, [view EXCEPT !.copiedCli = Null])
    BY <1>4 DEF OnCopied
  <2> DEFINE v == [view EXCEPT !.copiedCli = Null]
  <2>2. view' = v /\ calls' = RemoveAt(calls, i) \o <<>>
    BY <2>1 DEF ReportAnswer, Land
  <2>3. view \in ProfilerState /\ view.tab = "profiler"
    BY <1>1, <1>4 DEF OnCopied
  <2>4. /\ v \in ReportStates /\ v.tab = view.tab /\ v.asked = view.asked
        /\ v.report = view.report /\ v.loading = view.loading /\ v.copiedCli = Null
    BY <2>3 DEF ReportStates, ProfilerState
  <2> HIDE DEF v
  <2>5. ReportInv'
    BY <2>1, <2>2, <2>3, <2>4, ReportAnswered
  <2> QED
    BY <2>2, <2>4, <2>5
<1>5. ASSUME SetSampling
      PROVE  /\ ReportInv' /\ view'.tab = view.tab /\ view'.asked = view.asked
             /\ view'.report = view.report
  <2>1. PICK d \in Durations, m \in Limits :
          ReportUser([view EXCEPT !.durationSec = d, !.maxCommands = m], <<>>)
    BY <1>5 DEF SetSampling
  <2> DEFINE v == [view EXCEPT !.durationSec = d, !.maxCommands = m]
  <2>2. view' = v /\ calls' = calls \o <<>>
    BY <2>1 DEF ReportUser, Land
  <2>3. view \in TrafficState /\ view.tab = "traffic" /\ ~view.loading
    BY <1>1, <1>5 DEF SetSampling
  <2>4. /\ v \in ReportStates /\ v.tab = view.tab /\ v.asked = view.asked
        /\ v.report = view.report /\ v.loading = view.loading
    BY <2>3 DEF ReportStates, TrafficState
  <2> HIDE DEF v
  <2>5. ReportInv'
    BY <2>2, <2>3, <2>4, ReportActed
  <2> QED
    BY <2>2, <2>4, <2>5
<1>6. ASSUME SetKeyInput
      PROVE  /\ ReportInv' /\ view'.tab = view.tab /\ view'.asked = view.asked
             /\ view'.report = view.report
  <2>1. PICK k \in ClusterKeys \cup {Null} :
          ReportUser([view EXCEPT !.keyInput = k], <<>>)
    BY <1>6 DEF SetKeyInput
  <2> DEFINE v == [view EXCEPT !.keyInput = k]
  <2>2. view' = v /\ calls' = calls \o <<>>
    BY <2>1 DEF ReportUser, Land
  <2>3. view \in ClusterState /\ view.tab = "cluster"
    BY <1>1, <1>6 DEF SetKeyInput
  <2>4. /\ v \in ReportStates /\ v.tab = view.tab /\ v.asked = view.asked
        /\ v.report = view.report /\ v.loading = view.loading
    BY <2>3 DEF ReportStates, ClusterState
  <2>5. v.isCalculating <=> view.isCalculating
    BY <2>3 DEF ClusterState
  <2> HIDE DEF v
  <2>6. ReportInv'
    BY <2>2, <2>3, <2>4, <2>5, ReportActed
  <2> QED
    BY <2>2, <2>4, <2>6
<1>7. ASSUME LookupSlot
      PROVE  /\ ReportInv' /\ view'.tab = view.tab /\ view'.asked = view.asked
             /\ view'.report = view.report
  <2> DEFINE v == [view EXCEPT !.isCalculating = TRUE]
  <2>1. view \in ClusterState /\ view.tab = "cluster"
    BY <1>1, <1>7 DEF LookupSlot
  <2>2. view.keyInput \in ClusterKeys \cup {Null}
    BY <2>1 DEF ClusterState
  <2>3. PICK c \in ReportRequests : Lookup("lookup", view.keyInput) = <<c>> /\ c.op = "lookup"
    BY <2>2, LookupTyped
  <2>4. view' = v /\ calls' = calls \o <<c>>
    BY <1>7, <2>3 DEF LookupSlot, ReportUser, Land
  <2>5. /\ v \in ReportStates /\ v.tab = view.tab /\ v.asked = view.asked
        /\ v.report = view.report /\ v.loading = view.loading
    BY <2>1 DEF ReportStates, ClusterState
  <2> HIDE DEF v
  <2>6. ReportInv'
    BY <2>1, <2>3, <2>4, <2>5, ReportActed
  <2> QED
    BY <2>4, <2>5, <2>6
<1>8. ASSUME OnLookup
      PROVE  /\ ReportInv' /\ view'.tab = view.tab /\ view'.asked = view.asked
             /\ view'.report = view.report
  <2>1. PICK i \in DOMAIN calls, ok \in BOOLEAN :
          /\ calls[i].op \in {"lookup", "first lookup"}
          /\ ReportAnswer(i, [view EXCEPT
               !.isCalculating = @ /\ calls[i].op # "lookup",
               !.slotResult = IF ok THEN calls[i].key ELSE @])
    BY <1>8 DEF OnLookup
  <2> DEFINE busy == view.isCalculating /\ calls[i].op # "lookup"
             slot == IF ok THEN calls[i].key ELSE view.slotResult
             v == [view EXCEPT !.isCalculating = busy, !.slotResult = slot]
  <2>2. view' = v /\ calls' = RemoveAt(calls, i) \o <<>>
    BY <2>1 DEF ReportAnswer, Land
  <2>3. view \in ClusterState /\ view.tab = "cluster"
    BY <1>1, <1>8 DEF OnLookup
  <2>4. calls[i].key \in ClusterKeys \cup {Null} /\ calls[i].op # "report"
    <3>1. calls[i] \in ReportRequests
      BY DEF ReportInv
    <3>2. calls[i] \in [op : {"lookup", "first lookup"}, reply : {Null},
                        key : ClusterKeys \cup {Null}]
      BY <2>1, <3>1 DEF ReportRequests
    <3> QED
      BY <3>2
  <2>5. slot \in ClusterKeys \cup {Null}
    BY <2>3, <2>4 DEF ClusterState
  <2>6. busy \in BOOLEAN /\ (busy => view.isCalculating /\ calls[i].op # "lookup")
    BY <2>3, Zenon DEF ClusterState
  <2> HIDE DEF busy, slot
  <2>7. /\ v \in ReportStates /\ v.tab = view.tab /\ v.asked = view.asked
        /\ v.report = view.report /\ v.loading = view.loading
    BY <2>3, <2>5, <2>6 DEF ReportStates, ClusterState
  <2>8. v.isCalculating <=> busy
    BY <2>3, <2>6 DEF ClusterState
  <2> HIDE DEF v
  <2>9. ReportInv'
    BY <2>2, <2>3, <2>4, <2>6, <2>7, <2>8, ReportAnswered
  <2> QED
    BY <2>2, <2>7, <2>9
<1> QED
  BY <1>2, <1>3, <1>4, <1>5, <1>6, <1>7, <1>8
-----------------------------------------------------------------------------
(* The panel of the connections *)

ClientsStates ==
  [tab : {"clients"}, clients : SUBSET ClientIds, loading : BOOLEAN,
   error : BOOLEAN, killingId : ClientIds \cup {Null},
   confirmKill : ClientIds \cup {Null}, successMsg : ClientIds \cup {Null}]

Sessions == [ClientIds -> {"new", "on", "off"}]

ClientsRequest ==
  [op : {"clients"}, reply : {Null, Failed} \cup (SUBSET ClientIds), tab : {"clients"}]

KillRequest == [op : {"kill"}, reply : {Null, Failed, "ok"}, id : ClientIds]

MessageTimer == [op : {"message"}, reply : {Null}, arg : ClientIds]

ClientsRequests == ClientsRequest \cup KillRequest \cup MessageTimer

\* The connections that have been there: the panel knows no others.
Met(on) == {k \in ClientIds : on[k] # "new"}

Over(k, on) == k \in Spared \/ on[k] = "off"

\* What the panel lists, asks about or is answered has been there.
ClientsKnown(v, sent, on) ==
  /\ v.clients \subseteq Met(on)
  /\ v.confirmKill # Null => v.confirmKill \in Met(on)
  /\ \A c \in sent :
       /\ c.op = "kill" => c.id \in Met(on)
       /\ c.op = "clients" => c.reply \in {Null, Failed} \cup SUBSET Met(on)

\* A kill that was answered has found its connection gone or ended it, or the
\* connection is spared; the kill in flight is the one the panel names, and the
\* message is about a kill that was answered.
ClientsHolds(v, sent, on) ==
  /\ \A c \in sent : c.op = "kill" =>
       c.id = v.killingId /\ (c.reply \notin {Null, Failed} => Over(c.id, on))
  /\ v.killingId # Null => \E c \in sent : c.op = "kill"
  /\ v.successMsg # Null =>
       Over(v.successMsg, on) /\ \E c \in sent : c.op = "message"
  /\ v.loading => \E c \in sent : c.op = "clients"

ClientsInv ==
  /\ view \in ClientsStates
  /\ calls \in Seq(ClientsRequests)
  /\ sessions \in Sessions
  /\ Single(calls, "kill")
  /\ ClientsHolds(view, ToSet(calls), sessions)
  /\ ClientsKnown(view, ToSet(calls), sessions)

\* What has been there has been there, and what is over stays over.
LEMMA SessionsGoOn ==
  ASSUME NEW on, NEW on2,
         \A k \in ClientIds : /\ on[k] # "new" => on2[k] # "new"
                              /\ on[k] = "off" => on2[k] = "off"
  PROVE  /\ Met(on) \subseteq Met(on2)
         /\ \A k \in ClientIds : Over(k, on) => Over(k, on2)
         /\ \A v, sent : ClientsKnown(v, sent, on) => ClientsKnown(v, sent, on2)
<1>1. Met(on) \subseteq Met(on2)
  BY DEF Met
<1>2. \A k \in ClientIds : Over(k, on) => Over(k, on2)
  BY DEF Over
<1> QED
  BY <1>1, <1>2 DEF ClientsKnown

LEMMA ClientsInvShows ==
  ASSUME ClientsInv
  PROVE  /\ view.tab = "clients" /\ ClientsTypeOK /\ KillMessageTrue
         /\ view.loading => InFlight(calls, {"clients"})
         /\ view.successMsg # Null => InFlight(calls, {"message"})
<1>1. view.tab = "clients" /\ ClientsTypeOK
  BY DEF ClientsInv, ClientsStates, ClientsTypeOK
<1>2. view.loading => InFlight(calls, {"clients"})
  BY InFlightSet DEF ClientsInv, ClientsHolds
<1>3. view.successMsg # Null => InFlight(calls, {"message"})
  BY InFlightSet DEF ClientsInv, ClientsHolds
<1>4. view.killingId # Null => InFlight(calls, {"kill"})
  BY InFlightSet DEF ClientsInv, ClientsHolds
<1>5. view.successMsg \notin {Null} \cup Spared => view.successMsg \notin Connected
  BY DEF ClientsInv, ClientsHolds, Connected, Over
<1>6. \A i \in DOMAIN calls : calls[i].op = "kill" => calls[i].id = view.killingId
  BY DEF ClientsInv, ClientsHolds, ToSet
<1> QED
  BY <1>1, <1>2, <1>3, <1>4, <1>5, <1>6 DEF KillMessageTrue

LEMMA ClientsRequestsTyped ==
  /\ \E c \in ClientsRequests :
       ClientsCall = <<c>> /\ c.op = "clients" /\ c.reply = Null
  /\ \A k \in ClientIds :
       /\ \E c \in ClientsRequests :
            <<Request("kill", [id |-> k])>> = <<c>> /\ c.op = "kill"
            /\ c.id = k /\ c.reply = Null
       /\ \E c \in ClientsRequests :
            Timer("message", k) = <<c>> /\ c.op = "message"
<1>1. \E c \in ClientsRequests :
        ClientsCall = <<c>> /\ c.op = "clients" /\ c.reply = Null
  <2> DEFINE c == [op |-> "clients", reply |-> Null, tab |-> "clients"]
  <2>1. c \in ClientsRequests
    BY DEF ClientsRequests, ClientsRequest
  <2>2. Request("clients", [tab |-> "clients"]) = c
    BY DEF Request, Join
  <2> QED
    BY <2>1, <2>2 DEF ClientsCall
<1>2. ASSUME NEW k \in ClientIds
      PROVE  \E c \in ClientsRequests :
               <<Request("kill", [id |-> k])>> = <<c>> /\ c.op = "kill"
               /\ c.id = k /\ c.reply = Null
  <2> DEFINE c == [op |-> "kill", reply |-> Null, id |-> k]
  <2>1. c \in ClientsRequests
    BY DEF ClientsRequests, KillRequest
  <2>2. Request("kill", [id |-> k]) = c
    BY DEF Request, Join
  <2> QED
    BY <2>1, <2>2
<1>3. ASSUME NEW k \in ClientIds
      PROVE  \E c \in ClientsRequests : Timer("message", k) = <<c>> /\ c.op = "message"
  <2> DEFINE c == [op |-> "message", reply |-> Null, arg |-> k]
  <2>1. c \in ClientsRequests
    BY DEF ClientsRequests, MessageTimer
  <2>2. Timer("message", k) = <<c>>
    BY RequestRecords DEF Timer
  <2> QED
    BY <2>1, <2>2
<1> QED
  BY <1>1, <1>2, <1>3

\* What a request of each kind is.
LEMMA ClientsRequestKinds ==
  ASSUME NEW c \in ClientsRequests
  PROVE  /\ c.op = "clients" => c \in ClientsRequest
         /\ c.op = "kill" => c \in KillRequest
         /\ c.op = "message" => c \in MessageTimer
BY DEF ClientsRequests, ClientsRequest, KillRequest, MessageTimer

LEMMA ClientsMounted ==
  ASSUME view = ClientsView, calls = ClientsCall, sessions = StartSessions
  PROVE  ClientsInv
<1>1. /\ view \in ClientsStates /\ view.killingId = Null /\ view.successMsg = Null
      /\ view.clients = {} /\ view.confirmKill = Null
  BY DEF ClientsView, ClientsStates
<1>2. PICK c \in ClientsRequests :
        calls = <<c>> /\ c.op = "clients" /\ c.reply = Null
  BY ClientsRequestsTyped
<1>3. calls \in Seq(ClientsRequests) /\ ToSet(calls) = {c} /\ Single(calls, "kill")
  BY <1>2 DEF ToSet, Single
<1>4. ClientsHolds(view, ToSet(calls), sessions)
  BY <1>1, <1>2, <1>3 DEF ClientsHolds
<1>5. ClientsKnown(view, ToSet(calls), sessions)
  BY <1>1, <1>2, <1>3 DEF ClientsKnown
<1> QED
  BY <1>1, <1>3, <1>4, <1>5, ClientsAssumption DEF ClientsInv, Sessions

\* One request gets its reply; the others stay as they are.
LEMMA Replied ==
  ASSUME NEW S, NEW q \in Seq(S), NEW i \in DOMAIN q, NEW c \in S, c.op = q[i].op
  PROVE  /\ [q EXCEPT ![i] = c] \in Seq(S)
         /\ \A d \in ToSet([q EXCEPT ![i] = c]) : d = c \/ d \in ToSet(q)
         /\ \A d \in ToSet(q) : d = q[i] \/ d \in ToSet([q EXCEPT ![i] = c])
         /\ c \in ToSet([q EXCEPT ![i] = c])
         /\ \A op : Single(q, op) => Single([q EXCEPT ![i] = c], op)
<1> DEFINE all == [q EXCEPT ![i] = c]
<1>1. /\ all \in Seq(S) /\ DOMAIN all = DOMAIN q /\ all[i] = c
      /\ \A j \in DOMAIN q : j # i => all[j] = q[j]
  OBVIOUS
<1> HIDE DEF all
<1>2. \A j \in DOMAIN q : all[j].op = q[j].op
  BY <1>1
<1>3. \A op : Single(q, op) => Single(all, op)
  BY <1>1, <1>2 DEF Single
<1>4. /\ \A d \in ToSet(all) : d = c \/ d \in ToSet(q)
      /\ \A d \in ToSet(q) : d = q[i] \/ d \in ToSet(all)
      /\ c \in ToSet(all)
  BY <1>1 DEF ToSet
<1> QED
  BY <1>1, <1>3, <1>4 DEF all

\* The panel asks for the list and changes nothing else.
LEMMA LoadClientsStep ==
  ASSUME ClientsInv, view' = LoadClients(view), calls' = calls \o ClientsCall,
         sessions' = sessions
  PROVE  ClientsInv'
<1> DEFINE v == LoadClients(view)
<1>1. /\ view \in ClientsStates /\ calls \in Seq(ClientsRequests)
      /\ Single(calls, "kill") /\ ClientsHolds(view, ToSet(calls), sessions)
      /\ ClientsKnown(view, ToSet(calls), sessions)
  BY DEF ClientsInv
<1>2. /\ v \in ClientsStates /\ v.killingId = view.killingId
      /\ v.successMsg = view.successMsg
      /\ v.clients = view.clients /\ v.confirmKill = view.confirmKill
  BY <1>1 DEF LoadClients, ClientsStates
<1> HIDE DEF v
<1>3. PICK c \in ClientsRequests :
        ClientsCall = <<c>> /\ c.op = "clients" /\ c.reply = Null
  BY ClientsRequestsTyped
<1>4. /\ calls' \in Seq(ClientsRequests) /\ Single(calls', "kill")
      /\ ToSet(calls') = ToSet(calls) \cup {c}
  BY <1>1, <1>3, OneMore, SingleSent
<1>5. ClientsHolds(v, ToSet(calls'), sessions)
  BY <1>1, <1>2, <1>3, <1>4 DEF ClientsHolds
<1>6. view' = v
  BY DEF v
<1>7. ClientsKnown(v, ToSet(calls'), sessions)
  BY <1>1, <1>2, <1>3, <1>4 DEF ClientsKnown
<1> QED
  BY <1>2, <1>4, <1>5, <1>6, <1>7 DEF ClientsInv, ClientsHolds, ClientsKnown, Met, Over, Single

\* The user picks a connection, or none.
LEMMA ConfirmStep ==
  ASSUME ClientsInv, NEW k \in Met(sessions) \cup {Null},
         view' = [view EXCEPT !.confirmKill = k], calls' = calls \o <<>>,
         sessions' = sessions
  PROVE  ClientsInv'
<1> DEFINE v == [view EXCEPT !.confirmKill = k]
<1>1. /\ view \in ClientsStates /\ calls \in Seq(ClientsRequests)
      /\ Single(calls, "kill") /\ ClientsHolds(view, ToSet(calls), sessions)
      /\ ClientsKnown(view, ToSet(calls), sessions)
  BY DEF ClientsInv
<1>2. /\ v \in ClientsStates /\ v.killingId = view.killingId
      /\ v.successMsg = view.successMsg /\ v.loading = view.loading
      /\ v.clients = view.clients /\ v.confirmKill = k
  BY <1>1 DEF ClientsStates, Met
<1> HIDE DEF v
<1>3. calls' = calls
  BY <1>1
<1>4. ClientsHolds(v, ToSet(calls'), sessions)
  BY <1>1, <1>2, <1>3 DEF ClientsHolds
<1>5. view' = v
  BY DEF v
<1>6. ClientsKnown(v, ToSet(calls'), sessions)
  BY <1>1, <1>2, <1>3 DEF ClientsKnown
<1> QED
  BY <1>1, <1>2, <1>3, <1>4, <1>5, <1>6
     DEF ClientsInv, ClientsHolds, ClientsKnown, Met, Over, Single

\* No kill is in flight before one is sent.
LEMMA ConfirmKillStep ==
  ASSUME ClientsInv, ConfirmKill
  PROVE  ClientsInv'
<1> DEFINE k == view.confirmKill
           v == [view EXCEPT !.killingId = k]
<1>1. /\ view \in ClientsStates /\ calls \in Seq(ClientsRequests)
      /\ Single(calls, "kill") /\ ClientsHolds(view, ToSet(calls), sessions)
      /\ ClientsKnown(view, ToSet(calls), sessions)
      /\ sessions \in Sessions
  BY DEF ClientsInv
<1>2. k \in ClientIds /\ view.killingId = Null
  BY <1>1 DEF ConfirmKill, ClientsStates
<1>3. PICK c \in ClientsRequests :
        /\ <<Request("kill", [id |-> k])>> = <<c>> /\ c.op = "kill"
        /\ c.id = k /\ c.reply = Null
  BY <1>2, ClientsRequestsTyped
<1>4. view' = v /\ calls' = calls \o <<c>> /\ sessions' = sessions
  BY <1>3 DEF ConfirmKill, ClientsUser, Land
<1>5. /\ v \in ClientsStates /\ v.killingId = k
      /\ v.successMsg = view.successMsg /\ v.loading = view.loading
      /\ v.clients = view.clients /\ v.confirmKill = view.confirmKill
  BY <1>1, <1>2 DEF ClientsStates
<1> HIDE DEF v
<1>6. \A d \in ToSet(calls) : d.op # "kill"
  <2> SUFFICES ASSUME NEW d \in ToSet(calls), d.op = "kill"
               PROVE  FALSE
    OBVIOUS
  <2>1. d \in ClientsRequests
    BY <1>1 DEF ToSet
  <2>2. d.id \in ClientIds
    BY <2>1, ClientsRequestKinds DEF KillRequest
  <2>3. d.id = Null
    BY <1>1, <1>2 DEF ClientsHolds
  <2> QED
    BY <2>2, <2>3, ClientsAssumption
<1>7. /\ calls' \in Seq(ClientsRequests) /\ Single(calls', "kill")
      /\ ToSet(calls') = ToSet(calls) \cup {c}
  BY <1>1, <1>4, <1>6, OneMore, SingleSent
<1>8. ClientsHolds(v, ToSet(calls'), sessions)
  BY <1>1, <1>3, <1>5, <1>6, <1>7 DEF ClientsHolds
<1>9. ClientsKnown(v, ToSet(calls'), sessions)
  <2>1. k \in Met(sessions)
    BY <1>1, <1>2, ClientsAssumption DEF ClientsKnown
  <2> QED
    BY <1>1, <1>3, <1>5, <1>7, <2>1 DEF ClientsKnown
<1> QED
  BY <1>1, <1>4, <1>5, <1>7, <1>8, <1>9
     DEF ClientsInv, ClientsHolds, ClientsKnown, Met, Over, Single

\* What has ended stays ended.
LEMMA SessionChangesStep ==
  ASSUME ClientsInv, SessionChanges
  PROVE  ClientsInv'
<1>1. /\ view \in ClientsStates /\ calls \in Seq(ClientsRequests)
      /\ Single(calls, "kill") /\ ClientsHolds(view, ToSet(calls), sessions)
      /\ ClientsKnown(view, ToSet(calls), sessions)
      /\ sessions \in Sessions
  BY DEF ClientsInv
<1>2. PICK k \in ClientIds :
        /\ sessions[k] # "off"
        /\ sessions' = [sessions EXCEPT ![k] = IF @ = "new" THEN "on" ELSE "off"]
  BY DEF SessionChanges
<1>3. view' = view /\ calls' = calls
  BY DEF SessionChanges
<1> DEFINE on == [sessions EXCEPT ![k] = IF @ = "new" THEN "on" ELSE "off"]
<1>4. /\ on \in Sessions
      /\ \A c \in ClientIds : /\ sessions[c] # "new" => on[c] # "new"
                              /\ sessions[c] = "off" => on[c] = "off"
  BY <1>1, <1>2 DEF Sessions
<1> HIDE DEF on
<1>g. /\ \A c \in ClientIds : Over(c, sessions) => Over(c, on)
      /\ ClientsKnown(view, ToSet(calls), on)
  BY <1>1, <1>4, SessionsGoOn
<1>5. \A c \in ToSet(calls) : c.op = "kill" => c.id \in ClientIds
  BY <1>1, ClientsRequestKinds DEF ToSet, KillRequest
<1>6. view.successMsg \in ClientIds \cup {Null}
  BY <1>1 DEF ClientsStates
<1>7. ClientsHolds(view, ToSet(calls), on)
  BY <1>1, <1>g, <1>5, <1>6 DEF ClientsHolds
<1>8. sessions' = on
  BY <1>2 DEF on
<1> QED
  BY <1>1, <1>3, <1>4, <1>g, <1>7, <1>8
     DEF ClientsInv, ClientsHolds, ClientsKnown, Met, Over, Single

\* A reply changes no view; one that says a kill was done says so truly.
LEMMA ReplyStep ==
  ASSUME ClientsInv, NEW i \in DOMAIN calls, NEW r, NEW on \in Sessions,
         calls' = [calls EXCEPT ![i].reply = r], view' = view, sessions' = on,
         \A c \in ClientIds : /\ sessions[c] # "new" => on[c] # "new"
                              /\ sessions[c] = "off" => on[c] = "off",
         \/ r = Failed /\ calls[i].op \in {"clients", "kill"}
         \/ calls[i].op = "clients" /\ r \subseteq Met(on)
         \/ calls[i].op = "kill" /\ r = "ok" /\ Over(calls[i].id, on)
  PROVE  ClientsInv'
<1>1. /\ view \in ClientsStates /\ calls \in Seq(ClientsRequests)
      /\ Single(calls, "kill") /\ ClientsHolds(view, ToSet(calls), sessions)
      /\ ClientsKnown(view, ToSet(calls), sessions)
      /\ sessions \in Sessions
  BY DEF ClientsInv
<1>2. calls[i] \in ClientsRequests /\ calls[i] \in ToSet(calls)
  BY <1>1 DEF ToSet
<1>g. /\ \A k \in ClientIds : Over(k, sessions) => Over(k, on)
      /\ ClientsKnown(view, ToSet(calls), on)
  BY <1>1, SessionsGoOn
<1>m. Met(on) \subseteq ClientIds
  BY DEF Met
<1> DEFINE c == [calls[i] EXCEPT !.reply = r]
<1>3. /\ c \in ClientsRequests /\ c.op = calls[i].op /\ c.reply = r
      /\ c.op = "kill" => c.id = calls[i].id
  <2>1. CASE calls[i].op = "clients"
    <3>1. calls[i] \in ClientsRequest
      BY <1>2, <2>1, ClientsRequestKinds
    <3> QED
      BY <1>m, <2>1, <3>1 DEF ClientsRequests, ClientsRequest
  <2>2. CASE calls[i].op = "kill"
    <3>1. calls[i] \in KillRequest
      BY <1>2, <2>2, ClientsRequestKinds
    <3> QED
      BY <2>2, <3>1 DEF ClientsRequests, KillRequest
  <2> QED
    BY <2>1, <2>2
<1>4. calls' = [calls EXCEPT ![i] = c]
  OBVIOUS
<1> HIDE DEF c
<1> DEFINE now == [calls EXCEPT ![i] = c]
<1>5. /\ now \in Seq(ClientsRequests)
      /\ \A d \in ToSet(now) : d = c \/ d \in ToSet(calls)
      /\ \A d \in ToSet(calls) : d = calls[i] \/ d \in ToSet(now)
      /\ c \in ToSet(now)
      /\ Single(now, "kill")
  BY <1>1, <1>3, Replied
<1> HIDE DEF now
<1>6. \A d \in ToSet(calls) : d.op = "kill" => d.id \in ClientIds
  BY <1>1, ClientsRequestKinds DEF ToSet, KillRequest
<1>7. view.successMsg \in ClientIds \cup {Null}
  BY <1>1 DEF ClientsStates
<1>8. ASSUME NEW d \in ToSet(now), d.op = "kill"
      PROVE  d.id = view.killingId /\ (d.reply \notin {Null, Failed} => Over(d.id, on))
  <2>1. CASE d = c
    BY <1>1, <1>2, <1>3, <1>8, <2>1 DEF ClientsHolds
  <2>2. CASE d \in ToSet(calls)
    BY <1>1, <1>g, <1>6, <1>8, <2>2 DEF ClientsHolds
  <2> QED
    BY <1>5, <2>1, <2>2
<1>9. \A op : (\E d \in ToSet(calls) : d.op = op) => \E d \in ToSet(now) : d.op = op
  BY <1>3, <1>5
<1>10. ClientsHolds(view, ToSet(now), on)
  BY <1>1, <1>g, <1>7, <1>8, <1>9 DEF ClientsHolds
<1>11. calls' = now
  BY <1>4 DEF now
<1>15. ClientsKnown(view, ToSet(now), on)
  <2>1. c.op = "clients" => c.reply \in {Null, Failed} \cup SUBSET Met(on)
    BY <1>3
  <2>2. c.op = "kill" => c.id \in Met(on)
    BY <1>2, <1>3, <1>g DEF ClientsKnown
  <2> QED
    BY <1>g, <1>5, <2>1, <2>2 DEF ClientsKnown
<1>12. Single(calls', "kill") /\ calls' \in Seq(ClientsRequests)
  BY <1>5, <1>11
<1>13. view' \in ClientsStates /\ sessions' \in Sessions
  BY <1>1
<1>14. ClientsHolds(view', ToSet(calls'), sessions')
       /\ ClientsKnown(view', ToSet(calls'), sessions')
  BY <1>10, <1>11, <1>15, Zenon
<1> QED
  BY <1>12, <1>13, <1>14 DEF ClientsInv, ClientsHolds, ClientsKnown, Met, Over, Single

LEMMA ServeClientStep ==
  ASSUME ClientsInv, NEW i \in DOMAIN calls, ServeClient(i)
  PROVE  ClientsInv'
<1>1. /\ view' = view /\ sessions \in Sessions
      /\ calls[i] \in ClientsRequests
  BY DEF ServeClient, ClientsInv
<1>2. CASE /\ calls[i].op = "clients"
           /\ calls' = [calls EXCEPT ![i].reply = Connected]
           /\ sessions' = sessions
  <2>1. Connected \subseteq Met(sessions)
    BY DEF Connected, Met
  <2> HIDE DEF ServeClient
  <2> QED
    BY <1>1, <1>2, <2>1, ReplyStep
<1> DEFINE k == calls[i].id
           on == [c \in ClientIds |->
                    IF c = k /\ c \in Connected \ Spared THEN "off" ELSE sessions[c]]
<1>3. CASE /\ calls[i].op = "kill"
           /\ calls' = [calls EXCEPT ![i].reply = "ok"]
           /\ sessions' = on
  <2>1. k \in ClientIds /\ sessions[k] # "new"
    BY <1>1, <1>3 DEF ClientsInv, ClientsKnown, Met, ToSet
  <2>2. \A c \in ClientIds :
          on[c] = IF c = k /\ c \in Connected \ Spared THEN "off" ELSE sessions[c]
    OBVIOUS
  <2>3. on \in Sessions
    BY <1>1 DEF Sessions
  <2>4. sessions[k] \in {"on", "off"}
    BY <1>1, <2>1 DEF Sessions
  <2> HIDE DEF on, k
  <2>5. Over(k, on)
    BY <2>1, <2>2, <2>4 DEF Over, Connected
  <2>6. \A c \in ClientIds : /\ sessions[c] # "new" => on[c] # "new"
                             /\ sessions[c] = "off" => on[c] = "off"
    BY <2>2
  <2> QED
    BY <1>1, <1>3, <2>3, <2>5, <2>6, ReplyStep DEF k
<1> QED
  BY <1>2, <1>3 DEF ServeClient

LEMMA LoseClientStep ==
  ASSUME ClientsInv, LoseClient
  PROVE  ClientsInv'
<1>1. PICK i \in DOMAIN calls :
        /\ calls[i].op \in {"clients", "kill"}
        /\ calls' = [calls EXCEPT ![i].reply = Failed]
  BY DEF LoseClient
<1>2. view' = view /\ sessions' = sessions /\ sessions \in Sessions
  BY DEF LoseClient, ClientsInv
<1> QED
  BY <1>1, <1>2, ReplyStep

\* A list comes in; another one may still be awaited.
LEMMA OnClientsStep ==
  ASSUME ClientsInv, NEW i \in DOMAIN calls, OnClients(i)
  PROVE  ClientsInv'
<1> DEFINE rest == RemoveAt(calls, i)
           done == [view EXCEPT !.loading = FALSE]
           v == IF calls[i].reply = Failed THEN [done EXCEPT !.error = TRUE]
                ELSE [done EXCEPT !.clients = calls[i].reply]
<1>1. /\ view \in ClientsStates /\ calls \in Seq(ClientsRequests)
      /\ Single(calls, "kill") /\ ClientsHolds(view, ToSet(calls), sessions)
      /\ ClientsKnown(view, ToSet(calls), sessions)
      /\ sessions \in Sessions
  BY DEF ClientsInv
<1>2. /\ calls[i].op = "clients" /\ calls[i].reply # Null
      /\ view' = v /\ calls' = rest \o <<>> /\ sessions' = sessions
  BY DEF OnClients, Unserved, ClientsAnswer, Land
<1>3. /\ calls[i].reply = Failed \/ calls[i].reply \subseteq Met(sessions)
      /\ Met(sessions) \subseteq ClientIds
  BY <1>1, <1>2 DEF ClientsKnown, Met, ToSet
<1>4. /\ v \in ClientsStates /\ v.killingId = view.killingId
      /\ v.successMsg = view.successMsg
      /\ v.clients \subseteq Met(sessions) /\ v.confirmKill = view.confirmKill
  <2>1. CASE calls[i].reply = Failed
    BY <1>1, <2>1 DEF ClientsStates, ClientsKnown
  <2>2. CASE calls[i].reply # Failed
    <3> DEFINE list == calls[i].reply
    <3>1. list \in SUBSET ClientIds /\ list \subseteq Met(sessions)
      BY <1>3, <2>2
    <3>2. v = [view EXCEPT !.loading = FALSE, !.clients = list]
      BY <1>1, <2>2 DEF ClientsStates
    <3> HIDE DEF list, v
    <3> QED
      BY <1>1, <3>1, <3>2 DEF ClientsStates
  <2> QED
    BY <2>1, <2>2
<1>5. ~v.loading
  BY <1>1 DEF ClientsStates
<1> HIDE DEF v
<1>6. /\ rest \in Seq(ClientsRequests) /\ Single(rest, "kill")
      /\ ToSet(rest) \subseteq ToSet(calls)
      /\ \A c \in ToSet(calls) : c = calls[i] \/ c \in ToSet(rest)
  BY <1>1, RestSet
<1> HIDE DEF rest
<1>7. calls' = rest
  BY <1>2, <1>6
<1>8. ClientsHolds(v, ToSet(rest), sessions)
  BY <1>1, <1>2, <1>4, <1>5, <1>6 DEF ClientsHolds
<1>9. ClientsKnown(v, ToSet(rest), sessions)
  BY <1>1, <1>4, <1>6 DEF ClientsKnown
<1> QED
  BY <1>1, <1>2, <1>4, <1>6, <1>7, <1>8, <1>9
     DEF ClientsInv, ClientsHolds, ClientsKnown, Met, Over, Single

\* The kill that was awaited is the only one; what it leaves is a message
\* about a connection that has ended, or an error.
LEMMA OnKillStep ==
  ASSUME ClientsInv, NEW i \in DOMAIN calls, OnKill(i)
  PROVE  ClientsInv'
<1> DEFINE rest == RemoveAt(calls, i)
           v == AfterKill(calls[i])
<1>1. /\ view \in ClientsStates /\ calls \in Seq(ClientsRequests)
      /\ Single(calls, "kill") /\ ClientsHolds(view, ToSet(calls), sessions)
      /\ ClientsKnown(view, ToSet(calls), sessions)
      /\ sessions \in Sessions
  BY DEF ClientsInv
<1>2. /\ calls[i].op = "kill" /\ calls[i].reply # Null
      /\ view' = v /\ sessions' = sessions
  BY DEF OnKill, Unserved, ClientsAnswer, Land
<1>3. calls[i].id \in ClientIds /\ calls[i] \in ToSet(calls)
  BY <1>1, <1>2, ClientsRequestKinds DEF KillRequest, ToSet
<1>4. /\ rest \in Seq(ClientsRequests) /\ Single(rest, "kill")
      /\ ToSet(rest) \subseteq ToSet(calls)
      /\ \A c \in ToSet(calls) : c = calls[i] \/ c \in ToSet(rest)
      /\ \A c \in ToSet(rest) : c.op # "kill"
  BY <1>1, <1>2, RestSet
<1>5. CASE calls[i].reply = Failed
  <2>1. calls' = rest \o <<>>
    BY <1>5 DEF OnKill, ClientsAnswer, Land
  <2>2. calls' = rest
    BY <1>4, <2>1
  <2>3. /\ v \in ClientsStates /\ v.killingId = Null
        /\ v.successMsg = view.successMsg /\ v.loading = view.loading
        /\ v.clients = view.clients /\ v.confirmKill = view.confirmKill
    BY <1>1, <1>5 DEF AfterKill, ClientsStates
  <2> HIDE DEF v, rest
  <2>4. ClientsHolds(v, ToSet(rest), sessions)
    BY <1>1, <1>2, <1>4, <2>3 DEF ClientsHolds
  <2>5. ClientsKnown(v, ToSet(rest), sessions)
    BY <1>1, <1>4, <2>3 DEF ClientsKnown
  <2> QED
    BY <1>1, <1>2, <1>4, <2>2, <2>3, <2>4, <2>5
       DEF ClientsInv, ClientsHolds, ClientsKnown, Met, Over, Single
<1>6. CASE calls[i].reply # Failed
  <2>1. calls' = rest \o (ClientsCall \o Timer("message", calls[i].id))
    BY <1>6 DEF OnKill, ClientsAnswer, Land
  <2>2. PICK a \in ClientsRequests :
          ClientsCall = <<a>> /\ a.op = "clients" /\ a.reply = Null
    BY ClientsRequestsTyped
  <2>3. PICK b \in ClientsRequests :
          Timer("message", calls[i].id) = <<b>> /\ b.op = "message"
    BY <1>3, ClientsRequestsTyped
  <2>4. Over(calls[i].id, sessions)
    BY <1>1, <1>2, <1>3, <1>6 DEF ClientsHolds
  <2>5. /\ v \in ClientsStates /\ v.killingId = Null
        /\ v.successMsg = calls[i].id
        /\ v.clients = view.clients /\ v.confirmKill = Null
    BY <1>1, <1>3, <1>6 DEF AfterKill, LoadClients, ClientsStates
  <2> HIDE DEF v, rest
  <2>6. calls' = (rest \o <<a>>) \o <<b>>
    <3>1. <<a>> \in Seq(ClientsRequests) /\ <<b>> \in Seq(ClientsRequests)
      OBVIOUS
    <3>2. calls' = rest \o (<<a>> \o <<b>>)
      BY <2>1, <2>2, <2>3
    <3> QED
      BY <1>4, <3>1, <3>2, ConcatAssociative
  <2>7. /\ rest \o <<a>> \in Seq(ClientsRequests) /\ Single(rest \o <<a>>, "kill")
        /\ ToSet(rest \o <<a>>) = ToSet(rest) \cup {a}
    BY <1>4, <2>2, OneMore, SingleSent
  <2> DEFINE more == rest \o <<a>>
  <2> HIDE DEF more
  <2>8. /\ more \o <<b>> \in Seq(ClientsRequests) /\ Single(more \o <<b>>, "kill")
        /\ ToSet(more \o <<b>>) = ToSet(more) \cup {b}
    <3>1. more \in Seq(ClientsRequests) /\ Single(more, "kill")
      BY <2>7 DEF more
    <3> QED
      BY <2>3, <3>1, OneMore, SingleSent
  <2>9. /\ calls' \in Seq(ClientsRequests) /\ Single(calls', "kill")
        /\ ToSet(calls') = ToSet(rest) \cup {a, b}
    BY <2>6, <2>7, <2>8 DEF more
  <2>10. ClientsHolds(v, ToSet(rest) \cup {a, b}, sessions)
    BY <1>4, <2>2, <2>3, <2>4, <2>5 DEF ClientsHolds
  <2>13. ClientsKnown(v, ToSet(rest) \cup {a, b}, sessions)
    BY <1>1, <1>4, <2>2, <2>3, <2>5 DEF ClientsKnown
  <2>11. view' \in ClientsStates /\ sessions' \in Sessions
    BY <1>1, <1>2, <2>5
  <2>12. ClientsHolds(view', ToSet(calls'), sessions')
         /\ ClientsKnown(view', ToSet(calls'), sessions')
    BY <1>2, <2>9, <2>10, <2>13
  <2> QED
    BY <2>9, <2>11, <2>12 DEF ClientsInv, ClientsHolds, ClientsKnown, Met, Over, Single
<1> QED
  BY <1>5, <1>6

LEMMA OnMessageTimerStep ==
  ASSUME ClientsInv, NEW i \in DOMAIN calls, OnMessageTimer(i)
  PROVE  ClientsInv'
<1> DEFINE rest == RemoveAt(calls, i)
           v == [view EXCEPT !.successMsg = Null]
<1>1. /\ view \in ClientsStates /\ calls \in Seq(ClientsRequests)
      /\ Single(calls, "kill") /\ ClientsHolds(view, ToSet(calls), sessions)
      /\ ClientsKnown(view, ToSet(calls), sessions)
      /\ sessions \in Sessions
  BY DEF ClientsInv
<1>2. /\ calls[i].op = "message"
      /\ view' = v /\ calls' = rest \o <<>> /\ sessions' = sessions
  BY DEF OnMessageTimer, ClientsAnswer, Land
<1>3. /\ v \in ClientsStates /\ v.killingId = view.killingId
      /\ v.successMsg = Null /\ v.loading = view.loading
      /\ v.clients = view.clients /\ v.confirmKill = view.confirmKill
  BY <1>1 DEF ClientsStates
<1>4. /\ rest \in Seq(ClientsRequests) /\ Single(rest, "kill")
      /\ ToSet(rest) \subseteq ToSet(calls)
      /\ \A c \in ToSet(calls) : c = calls[i] \/ c \in ToSet(rest)
  BY <1>1, RestSet
<1> HIDE DEF v, rest
<1>5. calls' = rest
  BY <1>2, <1>4
<1>6. ClientsHolds(v, ToSet(rest), sessions)
  BY <1>1, <1>2, <1>3, <1>4 DEF ClientsHolds
<1>7. ClientsKnown(v, ToSet(rest), sessions)
  BY <1>1, <1>3, <1>4 DEF ClientsKnown
<1> QED
  BY <1>1, <1>2, <1>3, <1>4, <1>5, <1>6, <1>7
     DEF ClientsInv, ClientsHolds, ClientsKnown, Met, Over, Single

LEMMA ClientsKept ==
  ASSUME ClientsInv, ClientNext
  PROVE  ClientsInv'
<1>1. CASE RefreshClients
  BY <1>1, LoadClientsStep DEF RefreshClients, ClientsUser, Land
<1>2. CASE Poll
  BY <1>2, LoadClientsStep DEF Poll, Land
<1>3. CASE AskKill
  <2>1. PICK c \in view.clients : ClientsUser([view EXCEPT !.confirmKill = c], <<>>)
    BY <1>3 DEF AskKill
  <2>2. c \in Met(sessions)
    BY DEF ClientsInv, ClientsKnown
  <2> QED
    BY <2>1, <2>2, ConfirmStep DEF ClientsUser, Land
<1>4. CASE CancelKill
  BY <1>4, ConfirmStep DEF CancelKill, ClientsUser, Land
<1>5. CASE ConfirmKill
  BY <1>5, ConfirmKillStep
<1>6. CASE SessionChanges
  BY <1>6, SessionChangesStep
<1>7. CASE LoseClient
  BY <1>7, LoseClientStep
<1>8. ASSUME NEW i \in DOMAIN calls, ClientsProgress(i)
      PROVE  ClientsInv'
  BY <1>8, ServeClientStep, OnClientsStep, OnKillStep, OnMessageTimerStep
     DEF ClientsProgress
<1> QED
  BY <1>1, <1>2, <1>3, <1>4, <1>5, <1>6, <1>7, <1>8 DEF ClientNext

-----------------------------------------------------------------------------
(* The panel of the streams *)

StreamsStates ==
  [tab : {"streams"}, streamKey : StreamKeys \cup {Null},
   streamData : Streams \cup {Null}, loading : BOOLEAN,
   selectedGroup : GroupNames \cup {Null},
   pendingEntries : (Streams \X GroupNames) \cup {Null}, loadingPending : BOOLEAN]

StreamRequest == [op : {"stream"}, reply : {Null}, key : StreamKeys, had : BOOLEAN]

PendingRequest == [op : {"pending"}, reply : {Null}, key : StreamKeys, group : GroupNames]

StreamsRequests == StreamRequest \cup PendingRequest

\* The requests for what the view names.
OfStream(v) == {c \in StreamsRequests : c.op = "stream" /\ c.key = v.streamKey}

OfGroup(v) ==
  {c \in StreamsRequests :
     c.op = "pending" /\ c.key = v.streamKey /\ c.group = v.selectedGroup}

\* As long as answers come in turn, the last request of each kind is for what
\* is chosen, and so is what is shown once none is awaited.
StreamSettles(v, q) ==
  /\ EndsIn(q, "stream", OfStream(v))
  /\ ~InFlight(q, {"stream"}) => v.streamData \in {Null, v.streamKey}

GroupSettles(v, q) ==
  v.selectedGroup # Null =>
    /\ EndsIn(q, "pending", OfGroup(v))
    /\ ~InFlight(q, {"pending"}) =>
         v.pendingEntries \in {Null, <<v.streamKey, v.selectedGroup>>}

StreamsHolds(v, q) ==
  /\ v.loading => InFlight(q, {"stream"})
  /\ v.loadingPending => InFlight(q, {"pending"})
  /\ v.selectedGroup = Null => ~InFlight(q, {"pending"}) /\ v.pendingEntries = Null

StreamsInv ==
  /\ view \in StreamsStates
  /\ calls \in Seq(StreamsRequests)
  /\ StreamsHolds(view, calls)
  /\ calm /\ view.streamKey # Null =>
       StreamSettles(view, calls) /\ GroupSettles(view, calls)

LEMMA StreamsInvShows ==
  ASSUME StreamsInv
  PROVE  /\ view.tab = "streams" /\ StreamsTypeOK /\ CalmInspector
         /\ view.loading => InFlight(calls, {"stream"})
         /\ view.loadingPending => InFlight(calls, {"pending"})
<1>1. view.tab = "streams" /\ StreamsTypeOK
  BY DEF StreamsInv, StreamsStates, StreamsTypeOK
<1>2. /\ view.loading => InFlight(calls, {"stream"})
      /\ view.loadingPending => InFlight(calls, {"pending"})
  BY DEF StreamsInv, StreamsHolds
<1>3. ASSUME calm, calls = <<>>, view.streamKey # Null
      PROVE  /\ view.streamData \in {Null, view.streamKey}
             /\ view.pendingEntries \in {Null, <<view.streamKey, view.selectedGroup>>}
  <2>1. ~InFlight(calls, {"stream"}) /\ ~InFlight(calls, {"pending"})
    BY <1>3 DEF InFlight
  <2> QED
    BY <1>3, <2>1 DEF StreamsInv, StreamsHolds, StreamSettles, GroupSettles
<1> QED
  BY <1>1, <1>2, <1>3 DEF CalmInspector

LEMMA StreamCallTyped ==
  ASSUME NEW v \in StreamsStates, v.streamKey # Null
  PROVE  \E c \in StreamsRequests :
           StreamCall(v) = <<c>> /\ c \in OfStream(v) /\ c.op = "stream"
<1> DEFINE c == [op |-> "stream", reply |-> Null, key |-> v.streamKey,
                 had |-> v.selectedGroup # Null]
<1>1. v.streamKey \in StreamKeys
  BY DEF StreamsStates
<1>2. c \in StreamsRequests
  BY <1>1 DEF StreamsRequests, StreamRequest
<1>3. Request("stream", [key |-> v.streamKey, had |-> v.selectedGroup # Null]) = c
  BY DEF Request, Join
<1> QED
  BY <1>2, <1>3 DEF StreamCall, OfStream

LEMMA PendingCallTyped ==
  ASSUME NEW v \in StreamsStates
  PROVE  \/ (v.streamKey = Null \/ v.selectedGroup = Null) /\ PendingCall(v) = <<>>
         \/ /\ v.streamKey # Null /\ v.selectedGroup # Null
            /\ \E c \in StreamsRequests :
                 PendingCall(v) = <<c>> /\ c \in OfGroup(v) /\ c.op = "pending"
<1>1. CASE v.streamKey = Null \/ v.selectedGroup = Null
  BY <1>1 DEF PendingCall
<1>2. CASE v.streamKey # Null /\ v.selectedGroup # Null
  <2> DEFINE c == [op |-> "pending", reply |-> Null, key |-> v.streamKey,
                   group |-> v.selectedGroup]
  <2>1. v.streamKey \in StreamKeys /\ v.selectedGroup \in GroupNames
    BY <1>2 DEF StreamsStates
  <2>2. c \in StreamsRequests
    BY <2>1 DEF StreamsRequests, PendingRequest
  <2>3. Request("pending", [key |-> v.streamKey, group |-> v.selectedGroup]) = c
    BY DEF Request, Join
  <2> QED
    BY <1>2, <2>2, <2>3 DEF PendingCall, OfGroup
<1> QED
  BY <1>1, <1>2

\* Asking for the pending entries marks that they are awaited.
LEMMA AwaitingTyped ==
  ASSUME NEW v \in StreamsStates
  PROVE  /\ Awaiting(v) \in StreamsStates
         /\ Awaiting(v).streamKey = v.streamKey
         /\ Awaiting(v).streamData = v.streamData
         /\ Awaiting(v).selectedGroup = v.selectedGroup
         /\ Awaiting(v).pendingEntries = v.pendingEntries
         /\ Awaiting(v).loading = v.loading
         /\ Awaiting(v).loadingPending => v.loadingPending \/ PendingCall(v) # <<>>
         /\ PendingCall(Awaiting(v)) = PendingCall(v)
         /\ StreamCall(Awaiting(v)) = StreamCall(v)
<1> DEFINE x == v.loadingPending \/ PendingCall(v) # <<>>
           w == [v EXCEPT !.loadingPending = x]
<1>1. w = Awaiting(v) /\ x \in BOOLEAN
  BY DEF Awaiting, StreamsStates
<1>2. x => v.loadingPending \/ PendingCall(v) # <<>>
  OBVIOUS
<1> HIDE DEF x
<1>3. /\ w \in StreamsStates /\ w.streamKey = v.streamKey
      /\ w.streamData = v.streamData /\ w.selectedGroup = v.selectedGroup
      /\ w.pendingEntries = v.pendingEntries /\ w.loading = v.loading
  BY <1>1 DEF StreamsStates
<1>4. w.loadingPending <=> x
  BY <1>1 DEF StreamsStates
<1> HIDE DEF w
<1>5. PendingCall(w) = PendingCall(v) /\ StreamCall(w) = StreamCall(v)
  BY <1>3 DEF PendingCall, StreamCall
<1> QED
  BY <1>1, <1>2, <1>3, <1>4, <1>5

\* Once the stream is asked for, it is the one that will be shown.
LEMMA StreamSent ==
  ASSUME NEW w \in StreamsStates, NEW q \in Seq(StreamsRequests), w.streamKey # Null,
         NEW all, all = q \o StreamCall(w)
  PROVE  /\ all \in Seq(StreamsRequests)
         /\ InFlight(all, {"stream"})
         /\ InFlight(all, {"pending"}) <=> InFlight(q, {"pending"})
         /\ StreamSettles(w, all)
         /\ GroupSettles(w, q) => GroupSettles(w, all)
<1>1. PICK c \in StreamsRequests :
        StreamCall(w) = <<c>> /\ c \in OfStream(w) /\ c.op = "stream"
  BY StreamCallTyped
<1>2. all = q \o <<c>>
  BY <1>1
<1>3. all \in Seq(StreamsRequests) /\ ToSet(all) = ToSet(q) \cup {c}
  BY <1>2, OneMore
<1>4. InFlight(all, {"stream"})
  BY <1>1, <1>3, InFlightSet
<1>5. InFlight(all, {"pending"}) <=> InFlight(q, {"pending"})
  BY <1>1, <1>3, InFlightSet
<1>6. EndsIn(all, "stream", OfStream(w))
  BY <1>1, <1>2, EndsSent
<1>7. EndsIn(q, "pending", OfGroup(w)) => EndsIn(all, "pending", OfGroup(w))
  BY <1>1, <1>2, EndsSent
<1> QED
  BY <1>3, <1>4, <1>5, <1>6, <1>7 DEF StreamSettles, GroupSettles

\* Once the entries are asked for, they are the ones that will be shown.
LEMMA PendingSent ==
  ASSUME NEW w \in StreamsStates, NEW q \in Seq(StreamsRequests),
         NEW all, all = q \o PendingCall(w)
  PROVE  /\ all \in Seq(StreamsRequests)
         /\ InFlight(all, {"stream"}) <=> InFlight(q, {"stream"})
         /\ InFlight(q, {"pending"}) => InFlight(all, {"pending"})
         /\ PendingCall(w) # <<>> => InFlight(all, {"pending"})
         /\ w.selectedGroup = Null => all = q
         /\ StreamSettles(w, q) => StreamSettles(w, all)
         /\ w.streamKey # Null => GroupSettles(w, all)
<1>1. CASE PendingCall(w) = <<>> /\ (w.streamKey = Null \/ w.selectedGroup = Null)
  BY <1>1 DEF GroupSettles
<1>2. ASSUME NEW c \in StreamsRequests, PendingCall(w) = <<c>>, c \in OfGroup(w),
             c.op = "pending", w.selectedGroup # Null
      PROVE  /\ all \in Seq(StreamsRequests)
             /\ InFlight(all, {"stream"}) <=> InFlight(q, {"stream"})
             /\ InFlight(all, {"pending"})
             /\ StreamSettles(w, q) => StreamSettles(w, all)
             /\ GroupSettles(w, all)
  <2>1. all = q \o <<c>>
    BY <1>2
  <2>2. all \in Seq(StreamsRequests) /\ ToSet(all) = ToSet(q) \cup {c}
    BY <2>1, OneMore
  <2>3. InFlight(all, {"pending"})
    BY <1>2, <2>2, InFlightSet
  <2>4. InFlight(all, {"stream"}) <=> InFlight(q, {"stream"})
    BY <1>2, <2>2, InFlightSet
  <2>5. EndsIn(all, "pending", OfGroup(w))
    BY <1>2, <2>1, EndsSent
  <2>6. EndsIn(q, "stream", OfStream(w)) => EndsIn(all, "stream", OfStream(w))
    BY <1>2, <2>1, EndsSent
  <2> QED
    BY <2>2, <2>3, <2>4, <2>5, <2>6 DEF StreamSettles, GroupSettles
<1> QED
  BY <1>1, <1>2, PendingCallTyped

LEMMA StreamsLand ==
  ASSUME NEW v \in StreamsStates, NEW q \in Seq(StreamsRequests), view' = v, calls' = q,
         StreamsHolds(v, q),
         calm' /\ v.streamKey # Null => StreamSettles(v, q) /\ GroupSettles(v, q)
  PROVE  StreamsInv'
BY DEF StreamsInv, StreamsHolds, StreamSettles, GroupSettles, OfStream, OfGroup,
       EndsIn, InFlight

LEMMA SetStreamKeyStep ==
  ASSUME StreamsInv, SetStreamKey
  PROVE  StreamsInv'
<1>1. PICK k \in (StreamKeys \cup {Null}) \ {view.streamKey} :
        LET v == Awaiting([view EXCEPT !.streamKey = k, !.loading = @ \/ k # Null])
        IN StreamsUser(v, (IF k = Null THEN <<>> ELSE StreamCall(v)) \o PendingCall(v))
  BY DEF SetStreamKey
<1> DEFINE busy == view.loading \/ k # Null
           u == [view EXCEPT !.streamKey = k, !.loading = busy]
           v == Awaiting(u)
<1>2. /\ view \in StreamsStates /\ calls \in Seq(StreamsRequests)
      /\ StreamsHolds(view, calls)
  BY DEF StreamsInv
<1>3. busy \in BOOLEAN /\ (busy => view.loading \/ k # Null)
  BY <1>2 DEF StreamsStates
<1>4. /\ view' = v /\ calm' = calm
      /\ calls' = calls \o ((IF k = Null THEN <<>> ELSE StreamCall(v)) \o PendingCall(v))
  BY <1>1 DEF StreamsUser, Land
<1> HIDE DEF busy
<1>5. /\ u \in StreamsStates /\ u.streamKey = k
      /\ u.streamData = view.streamData /\ u.selectedGroup = view.selectedGroup
      /\ u.pendingEntries = view.pendingEntries
  BY <1>2, <1>3 DEF StreamsStates
<1>6. (u.loading <=> busy) /\ (u.loadingPending <=> view.loadingPending)
  BY <1>2, <1>3 DEF StreamsStates
<1> HIDE DEF u
<1>7. /\ v \in StreamsStates /\ v.streamKey = k
      /\ v.streamData = view.streamData /\ v.selectedGroup = view.selectedGroup
      /\ v.pendingEntries = view.pendingEntries /\ v.loading = u.loading
      /\ v.loadingPending => u.loadingPending \/ PendingCall(v) # <<>>
  BY <1>5, AwaitingTyped
<1> HIDE DEF v
<1>8. CASE k = Null
  <2>1. PendingCall(v) = <<>>
    BY <1>7, <1>8 DEF PendingCall
  <2>2. calls' = calls
    BY <1>2, <1>4, <1>8, <2>1
  <2>3. ~v.loading \/ view.loading
    BY <1>3, <1>6, <1>7, <1>8
  <2>4. StreamsHolds(v, calls)
    BY <1>2, <1>6, <1>7, <2>1, <2>3 DEF StreamsHolds
  <2> QED
    BY <1>2, <1>4, <1>7, <1>8, <2>2, <2>4 DEF StreamsInv, StreamsHolds
<1>9. CASE k # Null
  <2> DEFINE mid == calls \o StreamCall(v)
             all == mid \o PendingCall(v)
  <2>1. /\ mid \in Seq(StreamsRequests) /\ InFlight(mid, {"stream"})
        /\ InFlight(mid, {"pending"}) <=> InFlight(calls, {"pending"})
        /\ StreamSettles(v, mid)
    BY <1>2, <1>7, <1>9, StreamSent
  <2> HIDE DEF mid
  <2>2. /\ all \in Seq(StreamsRequests)
        /\ InFlight(all, {"stream"}) <=> InFlight(mid, {"stream"})
        /\ InFlight(mid, {"pending"}) => InFlight(all, {"pending"})
        /\ PendingCall(v) # <<>> => InFlight(all, {"pending"})
        /\ v.selectedGroup = Null => all = mid
        /\ StreamSettles(v, mid) => StreamSettles(v, all)
        /\ v.streamKey # Null => GroupSettles(v, all)
    BY <1>7, <2>1, PendingSent
  <2>3. calls' = all
    <3>1. StreamCall(v) \in Seq(StreamsRequests) /\ PendingCall(v) \in Seq(StreamsRequests)
      <4>1. PICK c \in StreamsRequests : StreamCall(v) = <<c>>
        BY <1>7, <1>9, StreamCallTyped
      <4>2. PendingCall(v) = <<>> \/ \E d \in StreamsRequests : PendingCall(v) = <<d>>
        BY <1>7, PendingCallTyped
      <4>3. \A d \in StreamsRequests : <<d>> \in Seq(StreamsRequests)
        OBVIOUS
      <4>4. <<>> \in Seq(StreamsRequests)
        OBVIOUS
      <4> QED
        BY <4>1, <4>2, <4>3, <4>4, Zenon
    <3> QED
      BY <1>2, <1>4, <1>9, <3>1, ConcatAssociative DEF mid
  <2> HIDE DEF all
  <2>4. StreamsHolds(v, all)
    <3>1. v.loadingPending => InFlight(all, {"pending"})
      BY <1>2, <1>6, <1>7, <2>1, <2>2, Zenon DEF StreamsHolds
    <3>2. v.selectedGroup = Null => ~InFlight(all, {"pending"}) /\ v.pendingEntries = Null
      BY <1>2, <1>7, <2>1, <2>2 DEF StreamsHolds
    <3> QED
      BY <2>1, <2>2, <3>1, <3>2 DEF StreamsHolds
  <2>5. StreamSettles(v, all) /\ GroupSettles(v, all)
    BY <1>7, <1>9, <2>1, <2>2
  <2> QED
    BY <1>4, <1>7, <2>2, <2>3, <2>4, <2>5, StreamsLand
<1> QED
  BY <1>8, <1>9

LEMMA RefreshStreamStep ==
  ASSUME StreamsInv, RefreshStream
  PROVE  StreamsInv'
<1> DEFINE v == [view EXCEPT !.loading = TRUE]
           all == calls \o StreamCall(v)
<1>1. /\ view \in StreamsStates /\ calls \in Seq(StreamsRequests)
      /\ StreamsHolds(view, calls) /\ view.streamKey # Null
  BY DEF StreamsInv, RefreshStream
<1>2. /\ v \in StreamsStates /\ v.streamKey = view.streamKey
      /\ v.streamData = view.streamData /\ v.selectedGroup = view.selectedGroup
      /\ v.pendingEntries = view.pendingEntries
  BY <1>1 DEF StreamsStates
<1>3. v.loadingPending <=> view.loadingPending
  BY <1>1 DEF StreamsStates
<1>4. StreamCall(v) = StreamCall(view)
  BY <1>2 DEF StreamCall
<1>5. view' = v /\ calls' = all /\ calm' = calm
  BY <1>4 DEF RefreshStream, StreamsUser, Land
<1> HIDE DEF v
<1>6. /\ all \in Seq(StreamsRequests) /\ InFlight(all, {"stream"})
      /\ InFlight(all, {"pending"}) <=> InFlight(calls, {"pending"})
      /\ StreamSettles(v, all)
      /\ GroupSettles(v, calls) => GroupSettles(v, all)
  BY <1>1, <1>2, StreamSent
<1> HIDE DEF all
<1>7. StreamsHolds(v, all)
  BY <1>1, <1>2, <1>3, <1>6 DEF StreamsHolds
<1>8. calm => StreamSettles(v, all) /\ GroupSettles(v, all)
  <2>1. calm => GroupSettles(v, calls)
    BY <1>1, <1>2 DEF StreamsInv, GroupSettles, OfGroup
  <2> QED
    BY <1>6, <2>1
<1> QED
  BY <1>2, <1>5, <1>6, <1>7, <1>8, StreamsLand

\* Another group is chosen while the stream stays.
LEMMA GroupChosen ==
  ASSUME NEW v \in StreamsStates, NEW q \in Seq(StreamsRequests),
         NEW u \in StreamsStates, u.selectedGroup \in GroupNames,
         u.loading => InFlight(q, {"stream"}),
         u.loadingPending => InFlight(q, {"pending"}),
         u.streamKey = v.streamKey, StreamSettles(v, q) => StreamSettles(u, q),
         NEW w, w = Awaiting(u),
         NEW all, all = q \o PendingCall(w)
  PROVE  /\ w \in StreamsStates /\ all \in Seq(StreamsRequests)
         /\ w.streamKey = v.streamKey
         /\ StreamsHolds(w, all)
         /\ StreamSettles(v, q) => StreamSettles(w, all)
         /\ w.streamKey # Null => GroupSettles(w, all)
<1>3. /\ w \in StreamsStates /\ w.streamKey = u.streamKey
      /\ w.streamData = u.streamData /\ w.selectedGroup = u.selectedGroup
      /\ w.loading = u.loading
      /\ w.loadingPending => u.loadingPending \/ PendingCall(w) # <<>>
  BY AwaitingTyped
<1>4. /\ all \in Seq(StreamsRequests)
      /\ InFlight(all, {"stream"}) <=> InFlight(q, {"stream"})
      /\ InFlight(q, {"pending"}) => InFlight(all, {"pending"})
      /\ PendingCall(w) # <<>> => InFlight(all, {"pending"})
      /\ StreamSettles(w, q) => StreamSettles(w, all)
      /\ w.streamKey # Null => GroupSettles(w, all)
  BY <1>3, PendingSent
<1>5. w.selectedGroup # Null
  BY <1>3, StreamsAssumption
<1>6. StreamsHolds(w, all)
  BY <1>3, <1>4, <1>5, Zenon DEF StreamsHolds
<1>7. StreamSettles(u, q) => StreamSettles(w, q)
  BY <1>3 DEF StreamSettles, OfStream
<1> QED
  BY <1>3, <1>4, <1>6, <1>7

LEMMA SelectGroupStep ==
  ASSUME StreamsInv, SelectGroup
  PROVE  StreamsInv'
<1>1. PICK g \in GroupsShown :
        LET v == Awaiting([view EXCEPT !.selectedGroup = g])
        IN StreamsUser(v, PendingCall(v))
  BY DEF SelectGroup
<1>2. /\ view \in StreamsStates /\ calls \in Seq(StreamsRequests)
      /\ StreamsHolds(view, calls)
  BY DEF StreamsInv
<1>3. g \in GroupNames
  BY <1>2 DEF GroupsShown, GroupNames, StreamsStates
<1> DEFINE u == [view EXCEPT !.selectedGroup = g]
           w == Awaiting(u)
           all == calls \o PendingCall(w)
<1>4. view' = w /\ calls' = all /\ calm' = calm
  BY <1>1 DEF StreamsUser, Land
<1>5. /\ u \in StreamsStates /\ u.selectedGroup = g
      /\ u.streamKey = view.streamKey /\ u.streamData = view.streamData
  BY <1>2, <1>3 DEF StreamsStates
<1>7. (u.loading <=> view.loading) /\ (u.loadingPending <=> view.loadingPending)
  BY <1>2 DEF StreamsStates
<1> HIDE DEF u
<1>6. /\ w \in StreamsStates /\ all \in Seq(StreamsRequests)
      /\ w.streamKey = view.streamKey
      /\ StreamsHolds(w, all)
      /\ StreamSettles(view, calls) => StreamSettles(w, all)
      /\ w.streamKey # Null => GroupSettles(w, all)
  <2>1. /\ u.loading => InFlight(calls, {"stream"})
        /\ u.loadingPending => InFlight(calls, {"pending"})
    BY <1>2, <1>7 DEF StreamsHolds
  <2>2. StreamSettles(view, calls) => StreamSettles(u, calls)
    BY <1>5 DEF StreamSettles, OfStream
  <2> QED
    BY <1>2, <1>3, <1>5, <2>1, <2>2, GroupChosen
<1> HIDE DEF w, all
<1>8. calm /\ w.streamKey # Null => StreamSettles(w, all) /\ GroupSettles(w, all)
  BY <1>6 DEF StreamsInv
<1> QED
  BY <1>4, <1>6, <1>8, StreamsLand

\* What is left in flight when an answer has come in.
LEMMA StreamsRest ==
  ASSUME NEW q \in Seq(StreamsRequests), NEW i \in DOMAIN q, NEW rest,
         rest = RemoveAt(q, i), NEW op
  PROVE  /\ rest \in Seq(StreamsRequests)
         /\ InFlight(rest, {op}) => InFlight(q, {op})
         /\ q[i].op # op /\ InFlight(q, {op}) => InFlight(rest, {op})
<1>1. /\ rest \in Seq(StreamsRequests) /\ ToSet(rest) \subseteq ToSet(q)
      /\ \A c \in ToSet(q) : c = q[i] \/ c \in ToSet(rest)
  BY RestSet
<1> QED
  BY <1>1, InFlightSet

\* The answer in turn is for the stream that is shown then, or it is not the
\* last one.
LEMMA StreamAnswered ==
  ASSUME NEW v \in StreamsStates, NEW w \in StreamsStates,
         NEW q \in Seq(StreamsRequests), NEW i \in DOMAIN q, NEW rest,
         rest = RemoveAt(q, i), StreamSettles(v, q), w.streamKey = v.streamKey,
         \/ q[i].op # "stream" /\ w.streamData = v.streamData
         \/ /\ q[i].op = "stream" /\ \A j \in 1 .. i - 1 : q[j].op # "stream"
            /\ w.streamData \in {Null, q[i].key}
  PROVE  StreamSettles(w, rest)
<1>1. OfStream(w) = OfStream(v)
  BY DEF OfStream
<1>2. EndsIn(q, "stream", OfStream(v))
  BY DEF StreamSettles
<1>3. /\ EndsIn(rest, "stream", OfStream(v))
      /\ q[i].op = "stream" /\ ~InFlight(rest, {"stream"}) => q[i] \in OfStream(v)
  <2>1. q[i].op = "stream" => \A j \in 1 .. i - 1 : q[j].op # "stream"
    OBVIOUS
  <2> QED
    BY <1>2, <2>1, EndsRemoved
<1>4. ASSUME ~InFlight(rest, {"stream"})
      PROVE  w.streamData \in {Null, w.streamKey}
  <2>1. CASE q[i].op # "stream"
    <3>1. ~InFlight(q, {"stream"})
      BY <1>4, <2>1, StreamsRest
    <3> QED
      BY <2>1, <3>1 DEF StreamSettles
  <2>2. CASE q[i].op = "stream"
    BY <1>3, <1>4, <2>2 DEF OfStream
  <2> QED
    BY <2>1, <2>2
<1> QED
  BY <1>1, <1>3, <1>4 DEF StreamSettles

LEMMA GroupAnswered ==
  ASSUME NEW v \in StreamsStates, NEW w \in StreamsStates,
         NEW q \in Seq(StreamsRequests), NEW i \in DOMAIN q, NEW rest,
         rest = RemoveAt(q, i), GroupSettles(v, q), w.streamKey = v.streamKey,
         w.selectedGroup = v.selectedGroup,
         \/ q[i].op # "pending" /\ w.pendingEntries = v.pendingEntries
         \/ /\ q[i].op = "pending" /\ \A j \in 1 .. i - 1 : q[j].op # "pending"
            /\ w.pendingEntries \in {Null, <<q[i].key, q[i].group>>}
  PROVE  GroupSettles(w, rest)
<1> SUFFICES ASSUME w.selectedGroup # Null
             PROVE  GroupSettles(w, rest)
  BY DEF GroupSettles
<1>1. OfGroup(w) = OfGroup(v)
  BY DEF OfGroup
<1>2. EndsIn(q, "pending", OfGroup(v))
  BY DEF GroupSettles
<1>3. /\ EndsIn(rest, "pending", OfGroup(v))
      /\ q[i].op = "pending" /\ ~InFlight(rest, {"pending"}) => q[i] \in OfGroup(v)
  <2>1. q[i].op = "pending" => \A j \in 1 .. i - 1 : q[j].op # "pending"
    OBVIOUS
  <2> QED
    BY <1>2, <2>1, EndsRemoved
<1>4. ASSUME ~InFlight(rest, {"pending"})
      PROVE  w.pendingEntries \in {Null, <<w.streamKey, w.selectedGroup>>}
  <2>1. CASE q[i].op # "pending"
    <3>1. ~InFlight(q, {"pending"})
      BY <1>4, <2>1, StreamsRest
    <3> QED
      BY <2>1, <3>1 DEF GroupSettles
  <2>2. CASE q[i].op = "pending"
    BY <1>3, <1>4, <2>2 DEF OfGroup
  <2> QED
    BY <2>1, <2>2
<1> QED
  BY <1>1, <1>3, <1>4 DEF GroupSettles

\* An answer for the stream leaves the entries as they were.
LEMMA StreamShown ==
  ASSUME StreamsInv, NEW i \in DOMAIN calls, calls[i].op = "stream",
         NEW rest, rest = RemoveAt(calls, i), NEW w \in StreamsStates,
         w.streamKey = view.streamKey, w.streamData \in {Null, calls[i].key},
         w.selectedGroup = view.selectedGroup,
         w.pendingEntries = view.pendingEntries,
         ~w.loading, w.loadingPending => view.loadingPending
  PROVE  /\ rest \in Seq(StreamsRequests)
         /\ StreamsHolds(w, rest)
         /\ calm /\ ~Overtakes(i, {"stream"}) /\ w.streamKey # Null =>
              StreamSettles(w, rest) /\ GroupSettles(w, rest)
<1>1. /\ view \in StreamsStates /\ calls \in Seq(StreamsRequests)
      /\ StreamsHolds(view, calls)
  BY DEF StreamsInv
<1>2. /\ rest \in Seq(StreamsRequests)
      /\ InFlight(rest, {"pending"}) <=> InFlight(calls, {"pending"})
  BY <1>1, StreamsRest
<1>3. StreamsHolds(w, rest)
  BY <1>1, <1>2, Zenon DEF StreamsHolds
<1>4. ASSUME calm, ~Overtakes(i, {"stream"}), w.streamKey # Null
      PROVE  StreamSettles(w, rest) /\ GroupSettles(w, rest)
  <2>1. StreamSettles(view, calls) /\ GroupSettles(view, calls)
    BY <1>4 DEF StreamsInv
  <2>2. \A j \in 1 .. i - 1 : calls[j].op # "stream"
    BY <1>4 DEF Overtakes
  <2>3. StreamSettles(w, rest)
    BY <1>1, <2>1, <2>2, StreamAnswered
  <2>4. GroupSettles(w, rest)
    BY <1>1, <2>1, GroupAnswered
  <2> QED
    BY <2>3, <2>4
<1> QED
  BY <1>2, <1>3, <1>4

LEMMA OnStreamLoadedStep ==
  ASSUME StreamsInv, OnStreamLoaded
  PROVE  StreamsInv'
<1>1. PICK i \in DOMAIN calls :
        /\ calls[i].op = "stream" /\ calls[i].key \in Streams
        /\ LET c == calls[i]
               first == IF c.had \/ Groups[c.key] = <<>> THEN view.selectedGroup
                        ELSE Head(Groups[c.key])
               v == [view EXCEPT !.loading = FALSE, !.streamData = c.key,
                                 !.selectedGroup = first]
           IN IF first = view.selectedGroup THEN StreamsAnswer(i, v, <<>>)
              ELSE StreamsAnswer(i, Awaiting(v), PendingCall(v))
  BY DEF OnStreamLoaded
<1> DEFINE k == calls[i].key
           first == IF calls[i].had \/ Groups[k] = <<>> THEN view.selectedGroup
                    ELSE Head(Groups[k])
           u == [view EXCEPT !.loading = FALSE, !.streamData = k]
           v == [view EXCEPT !.loading = FALSE, !.streamData = k,
                             !.selectedGroup = first]
           rest == RemoveAt(calls, i)
<1>2. /\ view \in StreamsStates /\ calls \in Seq(StreamsRequests)
      /\ StreamsHolds(view, calls)
  BY DEF StreamsInv
<1>3. first = view.selectedGroup \/ first \in GroupNames
  <2>1. ASSUME Groups[k] # <<>>
        PROVE  Head(Groups[k]) \in GroupNames
    <3>1. Groups[k] \in Seq(GroupNames)
      BY <1>1, StreamsAssumption
    <3> QED
      BY <2>1, <3>1
  <2> QED
    BY <2>1
<1>4. IF first = view.selectedGroup THEN StreamsAnswer(i, v, <<>>)
      ELSE StreamsAnswer(i, Awaiting(v), PendingCall(v))
  BY <1>1
<1> HIDE DEF first
<1>5. /\ u \in StreamsStates /\ u.streamKey = view.streamKey
      /\ u.streamData = k /\ u.selectedGroup = view.selectedGroup
      /\ u.pendingEntries = view.pendingEntries
  BY <1>1, <1>2 DEF StreamsStates
<1>6. ~u.loading /\ (u.loadingPending <=> view.loadingPending)
  BY <1>2 DEF StreamsStates
<1>7. /\ rest \in Seq(StreamsRequests)
      /\ StreamsHolds(u, rest)
      /\ calm /\ ~Overtakes(i, {"stream"}) /\ u.streamKey # Null =>
           StreamSettles(u, rest) /\ GroupSettles(u, rest)
  <2> HIDE DEF u, rest
  <2>1. rest = RemoveAt(calls, i)
    BY DEF rest
  <2> QED
    BY <1>1, <1>5, <1>6, <2>1, StreamShown
<1>8. CASE first = view.selectedGroup
  <2>1. v = u
    BY <1>2, <1>8 DEF StreamsStates
  <2>2. view' = u /\ calls' = rest \o <<>> /\ (calm' => calm /\ ~Overtakes(i, {"stream"}))
    BY <1>4, <1>8, <2>1 DEF StreamsAnswer, Land
  <2> HIDE DEF u, v, rest
  <2>3. calls' = rest
    BY <1>7, <2>2
  <2> QED
    BY <1>5, <1>7, <2>2, <2>3, StreamsLand
<1>9. CASE first # view.selectedGroup
  <2> DEFINE w == Awaiting(v)
             all == rest \o PendingCall(w)
  <2>1. /\ v \in StreamsStates /\ v.selectedGroup = first
        /\ v.streamKey = view.streamKey /\ v.streamData = k
        /\ first \in GroupNames
    BY <1>1, <1>2, <1>3, <1>9 DEF StreamsStates
  <2>2. ~v.loading /\ (v.loadingPending <=> view.loadingPending)
    BY <1>2 DEF StreamsStates
  <2>3. PendingCall(w) = PendingCall(v)
    BY <2>1, AwaitingTyped
  <2>4. view' = w /\ calls' = all /\ (calm' => calm /\ ~Overtakes(i, {"stream"}))
    BY <1>4, <1>9, <2>3 DEF StreamsAnswer, Land
  <2> HIDE DEF u, v, rest
  <2>5. StreamSettles(u, rest) => StreamSettles(v, rest)
    BY <1>5, <2>1 DEF StreamSettles, OfStream
  <2>6. v.loadingPending => InFlight(rest, {"pending"})
    BY <1>6, <1>7, <2>2 DEF StreamsHolds
  <2>7. /\ w \in StreamsStates /\ all \in Seq(StreamsRequests)
        /\ w.streamKey = view.streamKey
        /\ StreamsHolds(w, all)
        /\ StreamSettles(u, rest) => StreamSettles(w, all)
        /\ w.streamKey # Null => GroupSettles(w, all)
    <3>1. v.streamKey = u.streamKey
      BY <1>5, <2>1
    <3> QED
      BY <1>5, <1>7, <2>1, <2>2, <2>5, <2>6, <3>1, GroupChosen
  <2> HIDE DEF w, all
  <2>8. calm' /\ w.streamKey # Null => StreamSettles(w, all) /\ GroupSettles(w, all)
    BY <1>5, <1>7, <2>4, <2>7
  <2> QED
    BY <2>4, <2>7, <2>8, StreamsLand
<1> QED
  BY <1>8, <1>9

LEMMA OnStreamFailedStep ==
  ASSUME StreamsInv, OnStreamFailed
  PROVE  StreamsInv'
<1>1. PICK i \in DOMAIN calls :
        /\ calls[i].op = "stream"
        /\ StreamsAnswer(i, [view EXCEPT !.loading = FALSE, !.streamData = Null], <<>>)
  BY DEF OnStreamFailed
<1> DEFINE w == [view EXCEPT !.loading = FALSE, !.streamData = Null]
           rest == RemoveAt(calls, i)
<1>2. view \in StreamsStates
  BY DEF StreamsInv
<1>3. view' = w /\ calls' = rest \o <<>> /\ (calm' => calm /\ ~Overtakes(i, {"stream"}))
  BY <1>1 DEF StreamsAnswer, Land
<1>4. /\ w \in StreamsStates /\ w.streamKey = view.streamKey
      /\ w.streamData = Null /\ w.selectedGroup = view.selectedGroup
      /\ w.pendingEntries = view.pendingEntries
  BY <1>2 DEF StreamsStates
<1>5. ~w.loading /\ (w.loadingPending <=> view.loadingPending)
  BY <1>2 DEF StreamsStates
<1> HIDE DEF w, rest
<1>6. /\ rest \in Seq(StreamsRequests)
      /\ StreamsHolds(w, rest)
      /\ calm /\ ~Overtakes(i, {"stream"}) /\ w.streamKey # Null =>
           StreamSettles(w, rest) /\ GroupSettles(w, rest)
  <2>1. rest = RemoveAt(calls, i)
    BY DEF rest
  <2> QED
    BY <1>1, <1>4, <1>5, <2>1, StreamShown
<1>7. calls' = rest
  BY <1>3, <1>6
<1> QED
  BY <1>3, <1>4, <1>6, <1>7, StreamsLand

LEMMA OnPendingStep ==
  ASSUME StreamsInv, OnPending
  PROVE  StreamsInv'
<1>1. PICK i \in DOMAIN calls, ok \in BOOLEAN :
        /\ calls[i].op = "pending" /\ (ok => HasGroup(calls[i]))
        /\ StreamsAnswer(i, [view EXCEPT !.loadingPending = FALSE,
             !.pendingEntries = IF ok THEN <<calls[i].key, calls[i].group>> ELSE Null], <<>>)
  BY DEF OnPending
<1> DEFINE shown == IF ok THEN <<calls[i].key, calls[i].group>> ELSE Null
           w == [view EXCEPT !.loadingPending = FALSE, !.pendingEntries = shown]
           rest == RemoveAt(calls, i)
<1>2. /\ view \in StreamsStates /\ calls \in Seq(StreamsRequests)
      /\ StreamsHolds(view, calls)
  BY DEF StreamsInv
<1>3. view' = w /\ calls' = rest \o <<>> /\ (calm' => calm /\ ~Overtakes(i, {"pending"}))
  BY <1>1 DEF StreamsAnswer, Land
<1>4. /\ shown \in (Streams \X GroupNames) \cup {Null}
      /\ shown \in {Null, <<calls[i].key, calls[i].group>>}
  BY <1>1 DEF HasGroup, GroupNames
<1> HIDE DEF shown
<1>5. /\ w \in StreamsStates /\ w.streamKey = view.streamKey
      /\ w.streamData = view.streamData /\ w.selectedGroup = view.selectedGroup
      /\ w.pendingEntries = shown
  BY <1>2, <1>4 DEF StreamsStates
<1>6. ~w.loadingPending /\ (w.loading <=> view.loading)
  BY <1>2 DEF StreamsStates
<1> HIDE DEF w
<1>7. /\ rest \in Seq(StreamsRequests)
      /\ InFlight(rest, {"stream"}) <=> InFlight(calls, {"stream"})
  BY <1>1, <1>2, StreamsRest
<1>8. view.selectedGroup # Null
  BY <1>1, <1>2 DEF StreamsHolds, InFlight
<1>9. StreamsHolds(w, rest)
  BY <1>2, <1>5, <1>6, <1>7, <1>8, Zenon DEF StreamsHolds
<1>10. ASSUME calm', w.streamKey # Null
       PROVE  StreamSettles(w, rest) /\ GroupSettles(w, rest)
  <2>1. StreamSettles(view, calls) /\ GroupSettles(view, calls)
    BY <1>3, <1>5, <1>10 DEF StreamsInv
  <2>2. \A j \in 1 .. i - 1 : calls[j].op # "pending"
    BY <1>1, <1>3, <1>10 DEF Overtakes
  <2>3. StreamSettles(w, rest)
    BY <1>1, <1>2, <1>5, <2>1, StreamAnswered
  <2>4. GroupSettles(w, rest)
    BY <1>1, <1>2, <1>4, <1>5, <2>1, <2>2, GroupAnswered
  <2> QED
    BY <2>3, <2>4
<1> HIDE DEF rest
<1>11. calls' = rest
  BY <1>3, <1>7
<1> QED
  BY <1>3, <1>5, <1>7, <1>9, <1>10, <1>11, StreamsLand

LEMMA StreamsKept ==
  ASSUME StreamsInv, StreamNext
  PROVE  StreamsInv'
BY SetStreamKeyStep, RefreshStreamStep, SelectGroupStep, OnStreamLoadedStep,
   OnStreamFailedStep, OnPendingStep DEF StreamNext

LEMMA StreamsMounted ==
  ASSUME NEW v \in StreamsView, view = v, calls = StreamCall(v)
  PROVE  StreamsInv
<1>1. PICK k \in Streams :
        v = [tab |-> "streams", streamKey |-> k, streamData |-> Null, loading |-> TRUE,
             selectedGroup |-> Null, pendingEntries |-> Null, loadingPending |-> FALSE]
  BY DEF StreamsView
<1>2. k \in StreamKeys /\ k # Null
  BY StreamsAssumption
<1>3. /\ v \in StreamsStates /\ v.streamKey = k /\ v.streamData = Null
      /\ v.selectedGroup = Null /\ v.pendingEntries = Null
  BY <1>1, <1>2 DEF StreamsStates
<1>4. ~v.loadingPending
  BY <1>1
<1>5. PICK c \in StreamsRequests :
        calls = <<c>> /\ c \in OfStream(v) /\ c.op = "stream"
  BY <1>2, <1>3, StreamCallTyped
<1>6. calls \in Seq(StreamsRequests) /\ ToSet(calls) = {c}
  BY <1>5 DEF ToSet
<1>7. InFlight(calls, {"stream"}) /\ ~InFlight(calls, {"pending"})
  BY <1>5, <1>6, InFlightSet
<1>8. EndsIn(calls, "stream", OfStream(v))
  BY <1>5 DEF EndsIn
<1> QED
  BY <1>3, <1>4, <1>6, <1>7, <1>8
     DEF StreamsInv, StreamsHolds, StreamSettles, GroupSettles

-----------------------------------------------------------------------------
(* The terminal *)

OldLines == Words \X {"bare", "args"}

TerminalStates ==
  [tab : {"repl"}, input : Lines \cup {Null},
   completions : {<<>>} \cup {Matches[w] : w \in Words}, selectedCompletion : Nat,
   showSuggestions : BOOLEAN, history : Seq(OldLines), historyIndex : Int,
   executing : BOOLEAN]

CompletionsRequest == [op : {"completions"}, reply : {Null}, word : Words]

ExecRequest == [op : {"exec"}, reply : {Null}, line : OldLines]

TerminalRequests == CompletionsRequest \cup ExecRequest

\* The requests for the word in the line.
OfWord(l) ==
  {c \in CompletionsRequest : Suggestible(l) /\ c.word = l[1]}

TerminalHolds(v, q) ==
  /\ v.executing => InFlight(q, {"exec"})
  /\ v.historyIndex \in -1 .. Len(v.history) - 1
  /\ v.showSuggestions => v.selectedCompletion < Len(v.completions)
  /\ \A i, j \in DOMAIN v.history : v.history[i] = v.history[j] => i = j

\* As long as answers come in turn, the last request is for the word in the
\* line, and so are the suggestions once none is awaited.
TerminalSettles(v, q) ==
  /\ EndsIn(q, "completions", OfWord(v.input))
  /\ v.showSuggestions /\ ~InFlight(q, {"completions"}) =>
       Suggestible(v.input) /\ v.completions = Matches[v.input[1]]

TerminalInv ==
  /\ view \in TerminalStates
  /\ calls \in Seq(TerminalRequests)
  /\ TerminalHolds(view, calls)
  /\ calm => TerminalSettles(view, calls)

LEMMA TerminalInvShows ==
  ASSUME TerminalInv
  PROVE  /\ view.tab = "repl" /\ TerminalTypeOK /\ CursorsInRange /\ SuggestionsFit
         /\ view.executing => InFlight(calls, {"exec"})
<1>1. view.tab = "repl" /\ view \in TerminalStates /\ TerminalHolds(view, calls)
  BY DEF TerminalInv, TerminalStates
<1>2. TerminalTypeOK
  <2>1. /\ view.input \in Lines \cup {Null}
        /\ view.completions \in {<<>>} \cup {Matches[w] : w \in Words}
        /\ {view.showSuggestions, view.executing} \subseteq BOOLEAN
        /\ view.historyIndex \in Int /\ view.selectedCompletion \in Nat
        /\ view.history \in Seq(OldLines)
    BY <1>1 DEF TerminalStates
  <2>2. \A i \in DOMAIN view.history : view.history[i] \in OldLines
    BY <2>1
  <2> QED
    BY <2>1, <2>2 DEF TerminalTypeOK, OldLines
<1>3. CursorsInRange
  BY <1>1 DEF CursorsInRange, TerminalHolds
<1>4. SuggestionsFit
  <2>1. ASSUME calm, calls = <<>>, view.showSuggestions
        PROVE  Suggestible(view.input) /\ view.completions = Matches[view.input[1]]
    <3>1. ~InFlight(calls, {"completions"})
      BY <2>1 DEF InFlight
    <3> QED
      BY <2>1, <3>1 DEF TerminalInv, TerminalSettles
  <2> QED
    BY <2>1 DEF SuggestionsFit
<1> QED
  BY <1>1, <1>2, <1>3, <1>4 DEF TerminalHolds

LEMMA TerminalLand ==
  ASSUME NEW v \in TerminalStates, NEW q \in Seq(TerminalRequests), view' = v, calls' = q,
         TerminalHolds(v, q), calm' => TerminalSettles(v, q)
  PROVE  TerminalInv'
BY DEF TerminalInv, TerminalHolds, TerminalSettles, EndsIn, InFlight, OfWord, Suggestible

\* The history holds every line once, the last one at the front.
LEMMA RememberIs ==
  ASSUME NEW h \in Seq(OldLines), NEW l \in OldLines,
         \A i, j \in DOMAIN h : h[i] = h[j] => i = j
  PROVE  /\ Remember(h, l) \in Seq(OldLines)
         /\ -1 \in -1 .. Len(Remember(h, l)) - 1
         /\ \A i, j \in DOMAIN Remember(h, l) :
              Remember(h, l)[i] = Remember(h, l)[j] => i = j
<1> DEFINE P == {i \in DOMAIN h : h[i] # l}
           tail == Picked(h, P)
           all == <<l>> \o tail
<1>1. /\ tail \in Seq(OldLines)
      /\ \A n \in DOMAIN tail : \E i \in P :
           tail[n] = h[i] /\ Cardinality(UpTo(P, i)) = n
  <2>1. P \in SUBSET DOMAIN h
    OBVIOUS
  <2> HIDE DEF P
  <2> QED
    BY <2>1, PickedIs
<1>2. Remember(h, l) = all
  BY DEF Remember
<1>3. \A i \in P : i \in DOMAIN h /\ h[i] # l
  OBVIOUS
<1> HIDE DEF P, tail
<1>4. /\ all \in Seq(OldLines) /\ Len(tail) \in Nat /\ Len(all) = Len(tail) + 1
      /\ DOMAIN tail = 1 .. Len(tail) /\ DOMAIN all = 1 .. Len(tail) + 1
      /\ all[1] = l
      /\ \A n \in DOMAIN tail : all[n + 1] = tail[n]
  BY <1>1
<1> HIDE DEF all
<1>5. \A n \in DOMAIN all : n = 1 \/ \E k \in DOMAIN tail : n = k + 1 /\ all[n] = tail[k]
  <2> SUFFICES ASSUME NEW n \in DOMAIN all, n # 1
               PROVE  \E k \in DOMAIN tail : n = k + 1 /\ all[n] = tail[k]
    OBVIOUS
  <2>1. n - 1 \in DOMAIN tail /\ n = (n - 1) + 1
    BY <1>4
  <2>2. all[n] = tail[n - 1]
    BY <1>4, <2>1
  <2> QED
    BY <2>1, <2>2
<1>6. \A n \in DOMAIN tail : tail[n] # l
  BY <1>1, <1>3
<1>7. ASSUME NEW n \in DOMAIN tail, NEW k \in DOMAIN tail, tail[n] = tail[k]
      PROVE  n = k
  <2>1. PICK i \in P : tail[n] = h[i] /\ Cardinality(UpTo(P, i)) = n
    BY <1>1
  <2>2. PICK j \in P : tail[k] = h[j] /\ Cardinality(UpTo(P, j)) = k
    BY <1>1
  <2>3. i = j
    BY <1>3, <1>7, <2>1, <2>2
  <2> QED
    BY <2>1, <2>2, <2>3
<1>8. ASSUME NEW n \in DOMAIN all, NEW k \in DOMAIN all, all[n] = all[k]
      PROVE  n = k
  <2>1. CASE n = 1 /\ k = 1
    BY <2>1
  <2>2. CASE n # 1 /\ k # 1
    <3>1. PICK i \in DOMAIN tail : n = i + 1 /\ all[n] = tail[i]
      BY <1>5, <2>2
    <3>2. PICK j \in DOMAIN tail : k = j + 1 /\ all[k] = tail[j]
      BY <1>5, <2>2
    <3> QED
      BY <1>7, <1>8, <3>1, <3>2
  <2>3. CASE n = 1 /\ k # 1
    BY <1>4, <1>5, <1>6, <1>8, <2>3
  <2>4. CASE n # 1 /\ k = 1
    BY <1>4, <1>5, <1>6, <1>8, <2>4
  <2> QED
    BY <2>1, <2>2, <2>3, <2>4
<1> QED
  BY <1>2, <1>4, <1>8

\* What setting the line leaves alone, and when the suggestions go.
LEMMA SetInputTyped ==
  ASSUME NEW v \in TerminalStates, NEW l \in Lines \cup {Null}, NEW w, w = SetInput(v, l)
  PROVE  /\ w \in TerminalStates /\ w.input = l
         /\ w.history = v.history /\ w.historyIndex = v.historyIndex
         /\ w.executing = v.executing /\ w.selectedCompletion = v.selectedCompletion
         /\ l = v.input \/ Suggestible(l) =>
              w.completions = v.completions /\ (w.showSuggestions <=> v.showSuggestions)
         /\ ~(l = v.input \/ Suggestible(l)) => ~w.showSuggestions
         /\ w.showSuggestions => v.showSuggestions /\ w.completions = v.completions
<1>1. CASE l = v.input \/ Suggestible(l)
  <2>1. w = [v EXCEPT !.input = l]
    BY <1>1 DEF SetInput
  <2>2. /\ w \in TerminalStates /\ w.input = l
        /\ w.history = v.history /\ w.historyIndex = v.historyIndex
        /\ w.executing = v.executing /\ w.selectedCompletion = v.selectedCompletion
        /\ w.completions = v.completions
    BY <2>1 DEF TerminalStates
  <2>3. w.showSuggestions <=> v.showSuggestions
    BY <2>1 DEF TerminalStates
  <2> QED
    BY <1>1, <2>2, <2>3
<1>2. CASE ~(l = v.input \/ Suggestible(l))
  <2>1. w = [v EXCEPT !.input = l, !.completions = <<>>, !.showSuggestions = FALSE]
    BY <1>2 DEF SetInput
  <2>2. /\ w \in TerminalStates /\ w.input = l
        /\ w.history = v.history /\ w.historyIndex = v.historyIndex
        /\ w.executing = v.executing /\ w.selectedCompletion = v.selectedCompletion
    BY <2>1 DEF TerminalStates
  <2>3. ~w.showSuggestions
    BY <2>1 DEF TerminalStates
  <2> QED
    BY <1>2, <2>2, <2>3
<1> QED
  BY <1>1, <1>2

LEMMA InputCallsTyped ==
  ASSUME NEW v \in TerminalStates, NEW l \in Lines \cup {Null}
  PROVE  \/ (l = v.input \/ ~Suggestible(l)) /\ InputCalls(v, l) = <<>>
         \/ /\ l # v.input /\ Suggestible(l)
            /\ \E c \in TerminalRequests :
                 InputCalls(v, l) = <<c>> /\ c \in OfWord(l) /\ c.op = "completions"
<1>1. CASE l = v.input \/ ~Suggestible(l)
  BY <1>1 DEF InputCalls
<1>2. CASE l # v.input /\ Suggestible(l)
  <2> DEFINE c == [op |-> "completions", reply |-> Null, word |-> l[1]]
  <2>1. l[1] \in Words
    BY <1>2 DEF Suggestible, Lines
  <2>2. c \in CompletionsRequest /\ c.word = l[1] /\ c.op = "completions"
    BY <2>1 DEF CompletionsRequest
  <2>3. Request("completions", [word |-> l[1]]) = c
    BY DEF Request, Join
  <2>4. InputCalls(v, l) = <<c>>
    BY <1>2, <2>3 DEF InputCalls
  <2> HIDE DEF c
  <2> QED
    BY <1>2, <2>2, <2>4 DEF OfWord, TerminalRequests
<1> QED
  BY <1>1, <1>2

\* Setting the line: what is shown still fits, or the suggestions for the new
\* word are awaited.
LEMMA InputSettles ==
  ASSUME NEW v \in TerminalStates, NEW q \in Seq(TerminalRequests),
         NEW l \in Lines \cup {Null}, NEW w \in TerminalStates, w.input = l,
         w.showSuggestions => /\ v.showSuggestions /\ w.completions = v.completions
                              /\ l = v.input \/ Suggestible(l),
         TerminalSettles(v, q),
         l = v.input \/ Suggestible(l) \/ ~InFlight(q, {"completions"}),
         NEW all, all = q \o InputCalls(v, l)
  PROVE  TerminalSettles(w, all)
<1>1. CASE l = v.input
  <2>1. all = q
    BY <1>1, InputCallsTyped
  <2> QED
    BY <1>1, <2>1 DEF TerminalSettles
<1>2. CASE l # v.input /\ Suggestible(l)
  <2>1. PICK c \in TerminalRequests :
          InputCalls(v, l) = <<c>> /\ c \in OfWord(l) /\ c.op = "completions"
    BY <1>2, InputCallsTyped
  <2>2. all = q \o <<c>>
    BY <2>1
  <2>3. EndsIn(all, "completions", OfWord(l))
    BY <2>1, <2>2, EndsSent
  <2>4. InFlight(all, {"completions"})
    <3>1. ToSet(all) = ToSet(q) \cup {c}
      BY <2>2, OneMore
    <3> QED
      BY <2>1, <3>1, InFlightSet
  <2> QED
    BY <2>3, <2>4 DEF TerminalSettles
<1>3. CASE l # v.input /\ ~Suggestible(l)
  <2>1. all = q
    BY <1>3, InputCallsTyped
  <2>2. ~InFlight(q, {"completions"}) /\ ~w.showSuggestions
    BY <1>3
  <2>3. EndsIn(q, "completions", OfWord(l))
    BY <2>2 DEF EndsIn, InFlight
  <2> QED
    BY <2>1, <2>2, <2>3 DEF TerminalSettles
<1> QED
  BY <1>1, <1>2, <1>3

\* Everything that changes the line and sends what the line asks for.
LEMMA LineStep ==
  ASSUME TerminalInv, NEW l \in Lines \cup {Null}, NEW w \in TerminalStates,
         w.input = l,
         w.showSuggestions => /\ view.showSuggestions /\ w.completions = view.completions
                              /\ l = view.input \/ Suggestible(l),
         w.selectedCompletion = view.selectedCompletion,
         w.history = view.history, w.executing = view.executing,
         w.historyIndex \in -1 .. Len(w.history) - 1,
         TerminalUser(w, InputCalls(view, l))
  PROVE  TerminalInv'
<1> DEFINE all == calls \o InputCalls(view, l)
<1>1. /\ view \in TerminalStates /\ calls \in Seq(TerminalRequests)
      /\ TerminalHolds(view, calls)
      /\ calm => TerminalSettles(view, calls)
  BY DEF TerminalInv
<1>2. /\ view' = w /\ calls' = all
      /\ calm' => calm /\ (\/ l = view.input
                          \/ Suggestible(l)
                          \/ ~InFlight(calls, {"completions"}))
  BY DEF TerminalUser, TerminalStep, Land
<1>3. all \in Seq(TerminalRequests) /\ (InFlight(calls, {"exec"}) => InFlight(all, {"exec"}))
  <2>1. CASE InputCalls(view, l) = <<>>
    BY <1>1, <2>1
  <2>2. ASSUME NEW c \in TerminalRequests, InputCalls(view, l) = <<c>>
        PROVE  <1>3
    <3>1. all = calls \o <<c>>
      BY <2>2
    <3>2. all \in Seq(TerminalRequests) /\ ToSet(all) = ToSet(calls) \cup {c}
      BY <1>1, <3>1, OneMore
    <3> QED
      BY <3>2, InFlightSet
  <2> QED
    BY <1>1, <2>1, <2>2, InputCallsTyped
<1>4. calm' => TerminalSettles(w, all)
  <2> SUFFICES ASSUME calm'
               PROVE  TerminalSettles(w, all)
    OBVIOUS
  <2>1. /\ TerminalSettles(view, calls)
        /\ l = view.input \/ Suggestible(l) \/ ~InFlight(calls, {"completions"})
    BY <1>1, <1>2
  <2> QED
    BY <1>1, <2>1, InputSettles
<1> HIDE DEF all
<1>5. TerminalHolds(w, all)
  <2>1. w.executing => InFlight(all, {"exec"})
    BY <1>1, <1>3 DEF TerminalHolds
  <2>2. w.showSuggestions => w.selectedCompletion < Len(w.completions)
    BY <1>1 DEF TerminalHolds
  <2>3. \A i, j \in DOMAIN w.history : w.history[i] = w.history[j] => i = j
    BY <1>1 DEF TerminalHolds
  <2> QED
    BY <2>1, <2>2, <2>3, Zenon DEF TerminalHolds
<1> QED
  BY <1>2, <1>3, <1>4, <1>5, TerminalLand

\* A key that leaves the line as it is.
LEMMA KeyStep ==
  ASSUME TerminalInv, NEW w \in TerminalStates, w.input = view.input,
         w.completions = view.completions,
         w.showSuggestions => /\ view.showSuggestions
                              /\ w.selectedCompletion < Len(w.completions),
         w.history = view.history, w.executing = view.executing,
         w.historyIndex = view.historyIndex, TerminalUser(w, <<>>)
  PROVE  TerminalInv'
<1>1. /\ view \in TerminalStates /\ calls \in Seq(TerminalRequests)
      /\ TerminalHolds(view, calls)
      /\ calm => TerminalSettles(view, calls)
  BY DEF TerminalInv
<1>2. view' = w /\ calls' = calls /\ (calm' => calm)
  <2>1. view' = w /\ calls' = calls \o <<>> /\ (calm' => calm)
    BY DEF TerminalUser, TerminalStep, Land
  <2> QED
    BY <1>1, <2>1
<1>3. TerminalHolds(w, calls)
  BY <1>1, Zenon DEF TerminalHolds
<1>4. calm' => TerminalSettles(w, calls)
  BY <1>1, <1>2 DEF TerminalSettles
<1> QED
  BY <1>1, <1>2, <1>3, <1>4, TerminalLand

LEMMA TypeLineStep ==
  ASSUME TerminalInv, TypeLine
  PROVE  TerminalInv'
<1>1. PICK l \in Lines \cup {Null} : TerminalUser(SetInput(view, l), InputCalls(view, l))
  BY DEF TypeLine
<1> DEFINE w == SetInput(view, l)
<1>2. view \in TerminalStates /\ TerminalHolds(view, calls)
  BY DEF TerminalInv
<1>3. TerminalUser(w, InputCalls(view, l))
  BY <1>1
<1>4. w = SetInput(view, l)
  OBVIOUS
<1> HIDE DEF w
<1>5. /\ w \in TerminalStates /\ w.input = l
      /\ w.history = view.history /\ w.historyIndex = view.historyIndex
      /\ w.executing = view.executing /\ w.selectedCompletion = view.selectedCompletion
      /\ w.showSuggestions => /\ view.showSuggestions /\ w.completions = view.completions
                              /\ l = view.input \/ Suggestible(l)
  BY <1>2, <1>4, SetInputTyped
<1>6. w.historyIndex \in -1 .. Len(w.history) - 1
  BY <1>2, <1>5 DEF TerminalHolds
<1> QED
  BY <1>3, <1>5, <1>6, LineStep

\* A suggestion becomes the line.
LEMMA TakeStep ==
  ASSUME TerminalInv, NEW word \in Words, Take(word)
  PROVE  TerminalInv'
<1> DEFINE l == <<word, "padded">>
           u == SetInput(view, l)
           w == [u EXCEPT !.showSuggestions = FALSE]
<1>1. view \in TerminalStates /\ TerminalHolds(view, calls)
  BY DEF TerminalInv
<1>2. l \in Lines
  BY DEF Lines
<1>3. TerminalUser(w, InputCalls(view, l))
  BY DEF Take
<1>4. u = SetInput(view, l)
  OBVIOUS
<1> HIDE DEF l, u
<1>5. /\ u \in TerminalStates /\ u.input = l
      /\ u.history = view.history /\ u.historyIndex = view.historyIndex
      /\ u.executing = view.executing /\ u.selectedCompletion = view.selectedCompletion
  BY <1>1, <1>2, <1>4, SetInputTyped
<1>6. /\ w \in TerminalStates /\ w.input = l
      /\ w.history = view.history /\ w.historyIndex = view.historyIndex
      /\ w.executing = view.executing /\ w.selectedCompletion = view.selectedCompletion
  BY <1>5 DEF TerminalStates
<1>7. ~w.showSuggestions
  BY <1>5 DEF TerminalStates
<1> HIDE DEF w
<1>8. w.historyIndex \in -1 .. Len(w.history) - 1
  BY <1>1, <1>6 DEF TerminalHolds
<1> QED
  BY <1>2, <1>3, <1>6, <1>7, <1>8, LineStep

LEMMA GoToStep ==
  ASSUME TerminalInv, NEW n \in -1 .. Len(view.history) - 1, GoTo(n)
  PROVE  TerminalInv'
<1> DEFINE l == IF n = -1 THEN Null
                ELSE IF n < Len(view.history) THEN view.history[n + 1] ELSE Null
           u == SetInput(view, l)
           w == [u EXCEPT !.historyIndex = n]
<1>1. view \in TerminalStates /\ TerminalHolds(view, calls)
  BY DEF TerminalInv
<1>2. l \in Lines \cup {Null}
  <2>1. view.history \in Seq(OldLines)
    BY <1>1 DEF TerminalStates
  <2>2. OldLines \subseteq Lines
    BY DEF OldLines, Lines
  <2>3. CASE n # -1 /\ n < Len(view.history)
    <3>1. n + 1 \in 1 .. Len(view.history)
      BY <2>1, <2>3
    <3>2. view.history[n + 1] \in OldLines
      BY <2>1, <3>1
    <3> QED
      BY <2>2, <2>3, <3>2
  <2> QED
    BY <2>3
<1>3. TerminalUser(w, InputCalls(view, l))
  BY DEF GoTo
<1>4. u = SetInput(view, l) /\ n \in Int
  OBVIOUS
<1> HIDE DEF l, u
<1>5. /\ u \in TerminalStates /\ u.input = l
      /\ u.history = view.history /\ u.executing = view.executing
      /\ u.selectedCompletion = view.selectedCompletion
      /\ u.showSuggestions => /\ view.showSuggestions /\ u.completions = view.completions
                              /\ l = view.input \/ Suggestible(l)
  BY <1>1, <1>2, <1>4, SetInputTyped
<1>6. /\ w \in TerminalStates /\ w.input = l
      /\ w.history = view.history /\ w.historyIndex = n
      /\ w.selectedCompletion = view.selectedCompletion
      /\ w.completions = u.completions
  BY <1>4, <1>5 DEF TerminalStates
<1>7. (w.showSuggestions <=> u.showSuggestions) /\ w.executing = u.executing
  BY <1>5 DEF TerminalStates
<1> HIDE DEF w
<1>8. w.historyIndex \in -1 .. Len(w.history) - 1
  BY <1>6
<1> QED
  BY <1>2, <1>3, <1>5, <1>6, <1>7, <1>8, LineStep

\* The words that are suggested.
LEMMA Suggested ==
  ASSUME NEW v \in TerminalStates
  PROVE  v.completions \in Seq(Words)
<1>1. v.completions \in {<<>>} \cup {Matches[x] : x \in Words}
  BY DEF TerminalStates
<1>2. \A x \in Words : Matches[x] \in Seq(Words)
  BY TerminalAssumption
<1>3. <<>> \in Seq(Words)
  OBVIOUS
<1> QED
  BY <1>1, <1>2, <1>3

\* The remainder of a division is below the divisor.
LEMMA Wraps ==
  ASSUME NEW a \in Nat, NEW b \in Nat \ {0}
  PROVE  a % b \in Nat /\ a % b < b
OBVIOUS

LEMMA MoveSuggestionStep ==
  ASSUME TerminalInv, MoveSuggestion
  PROVE  TerminalInv'
<1>1. PICK step \in {1, Len(view.completions) - 1} :
        TerminalUser([view EXCEPT !.selectedCompletion =
                        (@ + step) % Len(view.completions)], <<>>)
  BY DEF MoveSuggestion
<1> DEFINE n == (view.selectedCompletion + step) % Len(view.completions)
           w == [view EXCEPT !.selectedCompletion = n]
<1>2. view \in TerminalStates
  BY DEF TerminalInv
<1>3. view.showSuggestions /\ view.completions # <<>>
  BY DEF MoveSuggestion, Suggesting
<1>4. Len(view.completions) \in Nat \ {0} /\ view.selectedCompletion \in Nat
  <2>1. view.completions \in Seq(Words) /\ view.selectedCompletion \in Nat
    BY <1>2, Suggested DEF TerminalStates
  <2> QED
    BY <1>3, <2>1
<1>5. n \in Nat /\ n < Len(view.completions)
  <2>1. view.selectedCompletion + step \in Nat
    BY <1>4
  <2> QED
    BY <1>4, <2>1, Wraps
<1>6. TerminalUser(w, <<>>)
  BY <1>1
<1> HIDE DEF n
<1>7. /\ w \in TerminalStates /\ w.input = view.input
      /\ w.completions = view.completions /\ w.selectedCompletion = n
      /\ w.history = view.history /\ w.historyIndex = view.historyIndex
  BY <1>2, <1>5 DEF TerminalStates
<1>8. w.executing = view.executing /\ (w.showSuggestions => view.showSuggestions)
  BY <1>2 DEF TerminalStates
<1> HIDE DEF w
<1> QED
  BY <1>5, <1>6, <1>7, <1>8, KeyStep

LEMMA EscapeStep ==
  ASSUME TerminalInv, Escape
  PROVE  TerminalInv'
<1> DEFINE w == [view EXCEPT !.showSuggestions = FALSE]
<1>1. view \in TerminalStates
  BY DEF TerminalInv
<1>2. TerminalUser(w, <<>>)
  BY DEF Escape
<1>3. /\ w \in TerminalStates /\ w.input = view.input
      /\ w.completions = view.completions
      /\ w.history = view.history /\ w.historyIndex = view.historyIndex
  BY <1>1 DEF TerminalStates
<1>4. w.executing = view.executing /\ ~w.showSuggestions
  BY <1>1 DEF TerminalStates
<1> HIDE DEF w
<1> QED
  BY <1>2, <1>3, <1>4, KeyStep

LEMMA TakeSelectedStep ==
  ASSUME TerminalInv, TakeSelected
  PROVE  TerminalInv'
<1> DEFINE n == view.selectedCompletion + 1
<1>1. view \in TerminalStates /\ TerminalHolds(view, calls)
  BY DEF TerminalInv
<1>2. view.showSuggestions
  BY DEF TakeSelected, Suggesting
<1>3. view.selectedCompletion \in Nat /\ view.selectedCompletion < Len(view.completions)
  BY <1>1, <1>2 DEF TerminalStates, TerminalHolds
<1>4. view.completions \in Seq(Words)
  BY <1>1, Suggested
<1>5. n \in 1 .. Len(view.completions)
  BY <1>3, <1>4
<1>6. Take(view.completions[n])
  BY DEF TakeSelected
<1> HIDE DEF n
<1>7. view.completions[n] \in Words
  BY <1>4, <1>5
<1> QED
  BY <1>6, <1>7, TakeStep

LEMMA ClickSuggestionStep ==
  ASSUME TerminalInv, ClickSuggestion
  PROVE  TerminalInv'
<1>1. PICK i \in DOMAIN view.completions : Take(view.completions[i])
  BY DEF ClickSuggestion
<1>2. view \in TerminalStates
  BY DEF TerminalInv
<1>3. view.completions[i] \in Words
  BY <1>2, Suggested
<1> QED
  BY <1>1, <1>3, TakeStep

\* The line is sent as it will stand in the history.
LEMMA ExecuteStep ==
  ASSUME TerminalInv, NEW l \in Lines, Execute(l)
  PROVE  TerminalInv'
<1> DEFINE c == [op |-> "exec", reply |-> Null, line |-> Trim(l)]
           w == [view EXCEPT !.executing = TRUE, !.showSuggestions = FALSE]
           all == calls \o <<c>>
<1>1. /\ view \in TerminalStates /\ calls \in Seq(TerminalRequests)
      /\ TerminalHolds(view, calls)
      /\ calm => TerminalSettles(view, calls)
  BY DEF TerminalInv
<1>2. c \in TerminalRequests /\ c.op = "exec"
  <2>1. Trim(l) \in OldLines
    <3>1. PICK x \in Words, y \in {"bare", "padded", "args"} : l = <<x, y>>
      BY DEF Lines
    <3>2. l # Null /\ l[1] = x /\ l[2] = y
      BY <3>1, TerminalAssumption
    <3> QED
      BY <3>1, <3>2 DEF Trim, OldLines
  <2> QED
    BY <2>1 DEF TerminalRequests, ExecRequest
<1>3. Request("exec", [line |-> Trim(l)]) = c
  BY DEF Request, Join
<1>4. view' = w /\ calls' = all /\ (calm' => calm)
  BY <1>3 DEF Execute, TerminalUser, TerminalStep, Land
<1>5. /\ w \in TerminalStates /\ w.input = view.input
      /\ w.completions = view.completions
      /\ w.history = view.history /\ w.historyIndex = view.historyIndex
  BY <1>1 DEF TerminalStates
<1>6. ~w.showSuggestions
  BY <1>1 DEF TerminalStates
<1> HIDE DEF w, c
<1>7. all \in Seq(TerminalRequests) /\ InFlight(all, {"exec"})
  <2>1. all \in Seq(TerminalRequests) /\ ToSet(all) = ToSet(calls) \cup {c}
    BY <1>1, <1>2, OneMore
  <2> QED
    BY <1>2, <2>1, InFlightSet
<1>8. TerminalSettles(view, calls) => TerminalSettles(w, all)
  <2>1. EndsIn(calls, "completions", OfWord(view.input)) =>
          EndsIn(all, "completions", OfWord(view.input))
    BY <1>1, <1>2, EndsSent
  <2> QED
    BY <1>5, <1>6, <2>1 DEF TerminalSettles
<1> HIDE DEF all
<1>9. TerminalHolds(w, all)
  BY <1>1, <1>5, <1>6, <1>7, Zenon DEF TerminalHolds
<1> QED
  BY <1>1, <1>4, <1>5, <1>7, <1>8, <1>9, TerminalLand

\* What is left in flight when an answer has come in.
LEMMA TerminalRest ==
  ASSUME NEW q \in Seq(TerminalRequests), NEW i \in DOMAIN q, NEW rest,
         rest = RemoveAt(q, i), NEW op
  PROVE  /\ rest \in Seq(TerminalRequests)
         /\ InFlight(rest, {op}) => InFlight(q, {op})
         /\ q[i].op # op /\ InFlight(q, {op}) => InFlight(rest, {op})
<1>1. /\ rest \in Seq(TerminalRequests) /\ ToSet(rest) \subseteq ToSet(q)
      /\ \A c \in ToSet(q) : c = q[i] \/ c \in ToSet(rest)
  BY RestSet
<1> QED
  BY <1>1, InFlightSet

\* A command that has run changes nothing about the suggestions.
LEMMA ExecAnswered ==
  ASSUME NEW v \in TerminalStates, NEW q \in Seq(TerminalRequests), NEW i \in DOMAIN q,
         q[i].op = "exec", TerminalSettles(v, q), NEW rest, rest = RemoveAt(q, i)
  PROVE  TerminalSettles(v, rest)
<1>1. EndsIn(q, "completions", OfWord(v.input))
  BY DEF TerminalSettles
<1>2. EndsIn(rest, "completions", OfWord(v.input))
  BY <1>1, EndsRemoved
<1>3. InFlight(q, {"completions"}) => InFlight(rest, {"completions"})
  BY TerminalRest
<1> QED
  BY <1>2, <1>3 DEF TerminalSettles

LEMMA OnExecStep ==
  ASSUME TerminalInv, OnExec
  PROVE  TerminalInv'
<1>1. PICK i \in DOMAIN calls :
        /\ calls[i].op = "exec"
        /\ LET v == SetInput(view, Null)
           IN TerminalStep([v EXCEPT !.executing = FALSE, !.historyIndex = -1,
                              !.history = Remember(@, calls[i].line)],
                           RemoveAt(calls, i), <<>>)
  BY DEF OnExec
<1> DEFINE u == SetInput(view, Null)
           h == Remember(u.history, calls[i].line)
           top == -1
           w == [u EXCEPT !.executing = FALSE, !.historyIndex = top, !.history = h]
           rest == RemoveAt(calls, i)
<1>2. /\ view \in TerminalStates /\ calls \in Seq(TerminalRequests)
      /\ TerminalHolds(view, calls)
      /\ calm => TerminalSettles(view, calls)
  BY DEF TerminalInv
<1>3. /\ u = SetInput(view, Null) /\ h = Remember(u.history, calls[i].line)
      /\ top = -1 /\ top \in Int
  OBVIOUS
<1>4. TerminalStep(w, rest, <<>>)
  BY <1>1
<1>5. calls[i].line \in OldLines
  BY <1>1, <1>2 DEF TerminalRequests, CompletionsRequest, ExecRequest
<1> HIDE DEF u, h, top
<1>6. /\ u \in TerminalStates /\ u.input = Null /\ u.history = view.history
      /\ u.showSuggestions => /\ view.showSuggestions /\ u.completions = view.completions
                              /\ Null = view.input \/ Suggestible(Null)
      /\ u.selectedCompletion = view.selectedCompletion
  <2>1. Null \in Lines \cup {Null}
    OBVIOUS
  <2> QED
    BY <1>2, <1>3, <2>1, SetInputTyped
<1>7. /\ h \in Seq(OldLines) /\ -1 \in -1 .. Len(h) - 1
      /\ \A j, k \in DOMAIN h : h[j] = h[k] => j = k
  <2>1. /\ view.history \in Seq(OldLines)
        /\ \A j, k \in DOMAIN view.history : view.history[j] = view.history[k] => j = k
    BY <1>2 DEF TerminalStates, TerminalHolds
  <2> QED
    BY <1>3, <1>5, <1>6, <2>1, RememberIs
<1>8. /\ w \in TerminalStates /\ w.input = Null /\ w.history = h
      /\ w.historyIndex = top /\ w.completions = u.completions
      /\ w.selectedCompletion = u.selectedCompletion
  BY <1>3, <1>6, <1>7 DEF TerminalStates
<1>9. ~w.executing /\ (w.showSuggestions <=> u.showSuggestions)
  BY <1>6 DEF TerminalStates
<1> HIDE DEF w
<1>10. rest \in Seq(TerminalRequests)
  BY <1>2, TerminalRest
<1>11. /\ view' = w /\ calls' = rest
       /\ calm' => calm /\ (\/ Null = view.input \/ Suggestible(Null)
                            \/ ~InFlight(rest, {"completions"}))
  <2>1. /\ view' = w /\ calls' = rest \o <<>>
        /\ calm' => calm /\ (\/ w.input = view.input \/ Suggestible(w.input)
                             \/ ~InFlight(rest, {"completions"}))
    BY <1>4 DEF TerminalStep, Land
  <2> HIDE DEF rest
  <2> QED
    BY <1>8, <1>10, <2>1
<1>12. ASSUME calm'
       PROVE  TerminalSettles(w, rest)
  <2>1. TerminalSettles(view, calls)
    BY <1>2, <1>11, <1>12
  <2>2. TerminalSettles(view, rest)
    BY <1>1, <1>2, <2>1, ExecAnswered
  <2> HIDE DEF rest
  <2>3. InputCalls(view, Null) = <<>>
    BY DEF InputCalls, Suggestible
  <2>4. rest = rest \o InputCalls(view, Null)
    BY <1>10, <2>3
  <2>5. w.showSuggestions => /\ view.showSuggestions /\ w.completions = view.completions
                             /\ Null = view.input \/ Suggestible(Null)
    BY <1>6, <1>8, <1>9
  <2>6. Null = view.input \/ Suggestible(Null) \/ ~InFlight(rest, {"completions"})
    BY <1>11, <1>12
  <2> QED
    BY <1>2, <1>8, <1>10, <2>2, <2>4, <2>5, <2>6, InputSettles
<1> HIDE DEF rest
<1>13. TerminalHolds(w, rest)
  <2>1. w.showSuggestions => w.selectedCompletion < Len(w.completions)
    BY <1>2, <1>6, <1>8, <1>9 DEF TerminalHolds
  <2> QED
    BY <1>3, <1>7, <1>8, <1>9, <2>1, Zenon DEF TerminalHolds
<1> QED
  BY <1>8, <1>10, <1>11, <1>12, <1>13, TerminalLand

LEMMA OnExecFailedStep ==
  ASSUME TerminalInv, OnExecFailed
  PROVE  TerminalInv'
<1>1. PICK i \in DOMAIN calls :
        /\ calls[i].op = "exec"
        /\ TerminalStep([view EXCEPT !.executing = FALSE], RemoveAt(calls, i), <<>>)
  BY DEF OnExecFailed
<1> DEFINE w == [view EXCEPT !.executing = FALSE]
           rest == RemoveAt(calls, i)
<1>2. /\ view \in TerminalStates /\ calls \in Seq(TerminalRequests)
      /\ TerminalHolds(view, calls)
      /\ calm => TerminalSettles(view, calls)
  BY DEF TerminalInv
<1>3. /\ w \in TerminalStates /\ w.input = view.input
      /\ w.completions = view.completions
      /\ w.selectedCompletion = view.selectedCompletion
      /\ w.history = view.history /\ w.historyIndex = view.historyIndex
  BY <1>2 DEF TerminalStates
<1>4. ~w.executing /\ (w.showSuggestions <=> view.showSuggestions)
  BY <1>2 DEF TerminalStates
<1>5. rest \in Seq(TerminalRequests)
  BY <1>2, TerminalRest
<1>6. view' = w /\ calls' = rest /\ (calm' => calm)
  <2>1. view' = w /\ calls' = rest \o <<>> /\ (calm' => calm)
    BY <1>1 DEF TerminalStep, Land
  <2> HIDE DEF rest, w
  <2> QED
    BY <1>5, <2>1
<1> HIDE DEF w
<1>7. TerminalSettles(view, calls) => TerminalSettles(w, rest)
  <2>1. TerminalSettles(view, calls) => TerminalSettles(view, rest)
    BY <1>1, <1>2, ExecAnswered
  <2> QED
    BY <1>3, <1>4, <2>1 DEF TerminalSettles
<1> HIDE DEF rest
<1>8. TerminalHolds(w, rest)
  BY <1>2, <1>3, <1>4, Zenon DEF TerminalHolds
<1> QED
  BY <1>2, <1>3, <1>5, <1>6, <1>7, <1>8, TerminalLand

\* The last answer in turn is for the word in the line.
LEMMA OnCompletionsStep ==
  ASSUME TerminalInv, OnCompletions
  PROVE  TerminalInv'
<1>1. PICK i \in DOMAIN calls, ok \in BOOLEAN :
        /\ calls[i].op = "completions"
        /\ LET m == Matches[calls[i].word]
               v == [view EXCEPT !.completions = m, !.selectedCompletion = 0,
                                 !.showSuggestions = m # <<>>]
           IN /\ Land(IF ok THEN v ELSE view, RemoveAt(calls, i), <<>>)
              /\ calm' = (calm /\ ok /\ ~Overtakes(i, {"completions"}))
  BY DEF OnCompletions
<1> DEFINE m == Matches[calls[i].word]
           some == m # <<>>
           v == [view EXCEPT !.completions = m, !.selectedCompletion = 0,
                             !.showSuggestions = some]
           rest == RemoveAt(calls, i)
<1>2. /\ view \in TerminalStates /\ calls \in Seq(TerminalRequests)
      /\ TerminalHolds(view, calls)
      /\ calm => TerminalSettles(view, calls)
  BY DEF TerminalInv
<1>3. calls[i].word \in Words
  BY <1>1, <1>2 DEF TerminalRequests, CompletionsRequest, ExecRequest
<1>4. /\ m \in Seq(Words) /\ m \in {Matches[x] : x \in Words}
      /\ some \in BOOLEAN /\ (some => 0 < Len(m))
  BY <1>3, TerminalAssumption
<1>5. /\ rest \in Seq(TerminalRequests)
      /\ InFlight(calls, {"exec"}) => InFlight(rest, {"exec"})
  BY <1>1, <1>2, TerminalRest
<1>6. /\ view' = IF ok THEN v ELSE view
      /\ calls' = rest
      /\ calm' => calm /\ ok /\ ~Overtakes(i, {"completions"})
  <2>1. /\ view' = IF ok THEN v ELSE view
        /\ calls' = rest \o <<>>
        /\ calm' => calm /\ ok /\ ~Overtakes(i, {"completions"})
    BY <1>1 DEF Land
  <2> HIDE DEF v, rest
  <2> QED
    BY <1>5, <2>1
<1>7. CASE ~ok
  <2> HIDE DEF v, m, some, rest
  <2>1. TerminalHolds(view, rest)
    BY <1>2, <1>5, Zenon DEF TerminalHolds
  <2> QED
    BY <1>2, <1>5, <1>6, <1>7, <2>1, TerminalLand
<1>8. CASE ok
  <2> HIDE DEF m, some
  <2>1. /\ v \in TerminalStates /\ v.input = view.input
        /\ v.completions = m /\ v.selectedCompletion = 0
        /\ v.history = view.history /\ v.historyIndex = view.historyIndex
    BY <1>2, <1>4 DEF TerminalStates
  <2>2. v.executing = view.executing /\ (v.showSuggestions <=> some)
    BY <1>2, <1>4 DEF TerminalStates
  <2> HIDE DEF v
  <2>3. TerminalHolds(v, rest)
    <3> HIDE DEF rest
    <3>1. v.showSuggestions => v.selectedCompletion < Len(v.completions)
      BY <1>4, <2>1, <2>2
    <3> QED
      BY <1>2, <1>5, <2>1, <2>2, <3>1, Zenon DEF TerminalHolds
  <2>4. ASSUME calm'
        PROVE  TerminalSettles(v, rest)
    <3>1. /\ EndsIn(calls, "completions", OfWord(view.input))
          /\ \A j \in 1 .. i - 1 : calls[j].op # "completions"
      BY <1>1, <1>2, <1>6, <2>4 DEF TerminalSettles, Overtakes
    <3>2. /\ EndsIn(rest, "completions", OfWord(view.input))
          /\ calls[i].op = "completions" /\ ~InFlight(rest, {"completions"}) =>
               calls[i] \in OfWord(view.input)
      BY <1>2, <3>1, EndsRemoved
    <3>3. ASSUME ~InFlight(rest, {"completions"})
          PROVE  Suggestible(v.input) /\ v.completions = Matches[v.input[1]]
      BY <1>1, <2>1, <3>2, <3>3 DEF OfWord, m
    <3> QED
      BY <2>1, <3>2, <3>3 DEF TerminalSettles
  <2> HIDE DEF rest
  <2> QED
    BY <1>5, <1>6, <1>8, <2>1, <2>3, <2>4, TerminalLand
<1> QED
  BY <1>7, <1>8

LEMMA TerminalKept ==
  ASSUME TerminalInv, TerminalNext
  PROVE  TerminalInv'
<1>1. view \in TerminalStates /\ TerminalHolds(view, calls)
  BY DEF TerminalInv
<1>2. /\ view.historyIndex \in -1 .. Len(view.history) - 1
      /\ view.history \in Seq(OldLines)
  BY <1>1 DEF TerminalStates, TerminalHolds
<1>3. CASE HistoryUp
  <2>1. Older(view.historyIndex) \in -1 .. Len(view.history) - 1
    BY <1>2 DEF Older
  <2> QED
    BY <1>3, <2>1, GoToStep DEF HistoryUp
<1>4. CASE HistoryDown
  <2>1. view.historyIndex - 1 \in -1 .. Len(view.history) - 1
    BY <1>2, <1>4 DEF HistoryDown
  <2> QED
    BY <1>4, <2>1, GoToStep DEF HistoryDown
<1>5. CASE RunLine
  <2>1. view.input \in Lines
    BY <1>1, <1>5 DEF RunLine, TerminalStates
  <2> QED
    BY <1>5, <2>1, ExecuteStep DEF RunLine
<1>6. CASE RunChip
  BY <1>6, ExecuteStep, TerminalAssumption DEF RunChip
<1> QED
  BY <1>3, <1>4, <1>5, <1>6, TypeLineStep, MoveSuggestionStep, TakeSelectedStep,
     ClickSuggestionStep, EscapeStep, OnExecStep, OnExecFailedStep, OnCompletionsStep
     DEF TerminalNext

LEMMA TerminalMounted ==
  ASSUME view = TerminalView, calls = <<>>
  PROVE  TerminalInv
<1>1. /\ view \in TerminalStates /\ view.historyIndex = -1 /\ view.history = <<>>
  BY DEF TerminalView, TerminalStates
<1>2. ~view.executing /\ ~view.showSuggestions
  BY DEF TerminalView
<1>3. -1 \in -1 .. Len(view.history) - 1
  BY <1>1
<1> QED
  BY <1>1, <1>2, <1>3, NothingInFlight DEF TerminalInv, TerminalHolds, TerminalSettles

-----------------------------------------------------------------------------
PanelsInv ==
  /\ acts \in 0 .. MaxActs
  /\ calm \in BOOLEAN
  /\ sessions \in Sessions
  /\ \/ ReportInv
     \/ ClientsInv
     \/ StreamsInv
     \/ TerminalInv

\* Which invariant holds is told by the tab.
LEMMA PanelsTab ==
  ASSUME PanelsInv
  PROVE  /\ view.tab \in ReportTabs <=> ReportInv
         /\ view.tab = "clients" <=> ClientsInv
         /\ view.tab = "streams" <=> StreamsInv
         /\ view.tab = "repl" <=> TerminalInv
<1>1. /\ ReportInv => view.tab \in ReportTabs
      /\ ClientsInv => view.tab = "clients"
      /\ StreamsInv => view.tab = "streams"
      /\ TerminalInv => view.tab = "repl"
  BY ReportTab DEF ReportInv, ClientsInv, ClientsStates, StreamsInv, StreamsStates,
                   TerminalInv, TerminalStates
<1> QED
  BY <1>1 DEF PanelsInv, ReportTabs

\* A panel has just been mounted.
MountedAnew == view \in Views /\ calls = MountCalls(view) /\ sessions = StartSessions

FreshStart ==
  \/ ReportInv /\ view.asked \in {0, 1} /\ view.report = 0
  \/ view.tab \notin ReportTabs /\ (ClientsInv \/ StreamsInv \/ TerminalInv)

LEMMA Mounted == MountedAnew => FreshStart
<1> SUFFICES ASSUME NEW v \in Views, view = v, calls = MountCalls(v),
                    sessions = StartSessions
             PROVE  FreshStart
  BY DEF MountedAnew
<1> USE DEF FreshStart
<1>1. CASE v \in {ProfilerView} \cup TrafficViews \cup ClusterViews
  <2>1. v.tab \in ReportTabs
    BY <1>1 DEF ProfilerView, TrafficViews, ClusterViews, ReportTabs
  <2>2. calls = ReportMount(v)
    BY <2>1 DEF MountCalls, ReportTabs
  <2> QED
    BY <1>1, <2>2, ReportMounted
<1>2. CASE v = ClientsView
  <2>1. v.tab = "clients"
    BY <1>2 DEF ClientsView
  <2> QED
    BY <1>2, <2>1, ClientsMounted DEF MountCalls, ReportTabs
<1>3. CASE v \in StreamsView
  <2>1. v.tab = "streams"
    BY <1>3 DEF StreamsView
  <2> QED
    BY <1>3, <2>1, StreamsMounted DEF MountCalls, ReportTabs
<1>4. CASE v = TerminalView
  <2>1. v.tab = "repl"
    BY <1>4 DEF TerminalView
  <2> QED
    BY <1>4, <2>1, TerminalMounted DEF MountCalls, ReportTabs
<1> QED
  BY <1>1, <1>2, <1>3, <1>4 DEF Views

LEMMA ReportKept ==
  ASSUME ReportInv, ReportNext
  PROVE  /\ ReportInv' /\ view'.tab = view.tab
         /\ \/ view'.asked = view.asked /\ view'.report = view.report
            \/ view'.asked = view.asked + 1 /\ view'.report = view.report
            \/ /\ view'.asked = view.asked
               /\ view'.report \in view.report + 1 .. view.asked
BY AskReportStep, OnReportStep, ReportOtherStep DEF ReportNext

\* The bounds and the history variable, whatever the panel does.
LEMMA BoundsKept ==
  ASSUME acts \in 0 .. MaxActs, calm \in BOOLEAN,
         ReportNext \/ ClientNext \/ StreamNext \/ TerminalNext
  PROVE  acts' \in 0 .. MaxActs /\ calm' \in BOOLEAN
<1>1. MaxActs \in Nat
  BY ApiAssumption
<1>2. Act => acts' \in 0 .. MaxActs
  BY <1>1 DEF Act
<1>3. /\ UserActs => acts' \in 0 .. MaxActs
      /\ \A ok : Outcome(ok) => acts' \in 0 .. MaxActs
      /\ UNCHANGED acts => acts' \in 0 .. MaxActs
  BY <1>2 DEF UserActs, Outcome
<1>4. UNCHANGED calm => calm' \in BOOLEAN
  OBVIOUS
<1>5. CASE ReportNext
  BY <1>3, <1>4, <1>5, Zenon
     DEF ReportNext, AskReport, OnReport, SelectNamespace, CopyCli, OnCopied,
         SetSampling, SetKeyInput, LookupSlot, OnLookup, ReportUser, ReportAnswer
<1>6. CASE ClientNext
  BY <1>2, <1>3, <1>4, <1>6, Zenon
     DEF ClientNext, RefreshClients, Poll, AskKill, CancelKill, ConfirmKill,
         SessionChanges, LoseClient, ClientsProgress, ServeClient, OnClients, OnKill,
         OnMessageTimer, ClientsUser, ClientsAnswer
<1>7. CASE StreamNext
  BY <1>3, <1>4, <1>7, Zenon
     DEF StreamNext, SetStreamKey, RefreshStream, SelectGroup, OnStreamLoaded,
         OnStreamFailed, OnPending, StreamsUser, StreamsAnswer
<1>8. CASE TerminalNext
  BY <1>2, <1>3, <1>4, <1>8, Zenon
     DEF TerminalNext, TypeLine, MoveSuggestion, TakeSelected, ClickSuggestion, Escape,
         HistoryUp, HistoryDown, RunLine, RunChip, OnExec, OnExecFailed, OnCompletions,
         Take, GoTo, Execute, TerminalUser, TerminalStep
<1> QED
  BY <1>5, <1>6, <1>7, <1>8

\* A panel's actions are taken while it is the one that is mounted.
LEMMA OwnActions ==
  /\ ReportNext => view.tab \in ReportTabs
  /\ ClientNext => view.tab = "clients"
  /\ StreamNext => view.tab = "streams"
  /\ TerminalNext => view.tab = "repl"
<1>1. ReportNext => view.tab \in ReportTabs
  BY DEF ReportTabs, ReportNext, AskReport, OnReport, SelectNamespace, CopyCli, OnCopied,
         SetSampling, SetKeyInput, LookupSlot, OnLookup
<1>2. ClientNext => view.tab = "clients"
  BY DEF ClientNext, RefreshClients, Poll, AskKill, CancelKill, ConfirmKill,
         SessionChanges, LoseClient, ClientsProgress
<1>3. StreamNext => view.tab = "streams"
  BY DEF StreamNext, SetStreamKey, RefreshStream, SelectGroup, OnStreamLoaded,
         OnStreamFailed, OnPending
<1>4. TerminalNext => view.tab = "repl"
  BY DEF TerminalNext, TypeLine, MoveSuggestion, TakeSelected, ClickSuggestion, Escape,
         HistoryUp, HistoryDown, RunLine, RunChip, OnExec, OnExecFailed, OnCompletions,
         Typing
<1> QED
  BY <1>1, <1>2, <1>3, <1>4

LEMMA PanelsStart ==
  ASSUME PanelsInit
  PROVE  PanelsInv
<1>2. ReportInv \/ ClientsInv \/ StreamsInv \/ TerminalInv
  BY Mounted DEF PanelsInit, MountedAnew, FreshStart
<1> QED
  BY <1>2, ApiAssumption, ClientsAssumption DEF PanelsInit, PanelsInv, Sessions

\* Mounting is a fresh start, also as a step.
LEMMA SwitchStep ==
  ASSUME PanelsInv, SwitchTab
  PROVE  /\ PanelsInv'
         /\ view'.tab \in ReportTabs => view'.asked \in {0, 1} /\ view'.report = 0
<1>1. acts' = 0 /\ calm' = TRUE /\ sessions' = StartSessions
  BY DEF SwitchTab
<1>2. MountedAnew'
  BY DEF SwitchTab, MountedAnew
<1>3. FreshStart'
  BY <1>2, Mounted, PTL
<1> QED
  BY <1>1, <1>3, ApiAssumption, ClientsAssumption DEF PanelsInv, Sessions, FreshStart

\* What a step does to the numbers of a report panel.
FreshStep ==
  \/ view'.tab = view.tab /\ view'.asked = view.asked /\ view'.report = view.report
  \/ view'.tab = view.tab /\ view'.asked = view.asked + 1 /\ view'.report = view.report
  \/ /\ view'.tab = view.tab /\ view'.asked = view.asked
     /\ view'.report \in view.report + 1 .. view.asked
  \/ view'.tab \in ReportTabs => view'.asked \in {0, 1} /\ view'.report = 0

LEMMA PanelsStep ==
  ASSUME PanelsInv, [PanelsNext]_panelVars
  PROVE  PanelsInv' /\ FreshStep
<1>1. /\ view.tab \in ReportTabs <=> ReportInv
      /\ view.tab = "clients" <=> ClientsInv
      /\ view.tab = "streams" <=> StreamsInv
      /\ view.tab = "repl" <=> TerminalInv
  BY PanelsTab
<1>2. /\ acts \in 0 .. MaxActs /\ calm \in BOOLEAN /\ sessions \in Sessions
  BY DEF PanelsInv
<1>3. CASE SwitchTab
  BY <1>3, SwitchStep DEF FreshStep
<1>4. CASE ReportNext /\ UNCHANGED sessions
  <2>1. ReportInv
    BY <1>1, <1>4, OwnActions
  <2>2. acts' \in 0 .. MaxActs /\ calm' \in BOOLEAN
    BY <1>2, <1>4, BoundsKept
  <2> QED
    BY <1>2, <1>4, <2>1, <2>2, ReportKept DEF PanelsInv, FreshStep
<1>5. CASE ClientNext
  <2>1. ClientsInv
    BY <1>1, <1>5, OwnActions
  <2>2. acts' \in 0 .. MaxActs /\ calm' \in BOOLEAN
    BY <1>2, <1>5, BoundsKept
  <2>3. ClientsInv'
    BY <1>5, <2>1, ClientsKept
  <2>4. view'.tab \notin ReportTabs /\ sessions' \in Sessions
    BY <2>3 DEF ClientsInv, ClientsStates, ReportTabs
  <2> QED
    BY <2>2, <2>3, <2>4 DEF PanelsInv, FreshStep
<1>6. CASE StreamNext /\ UNCHANGED sessions
  <2>1. StreamsInv
    BY <1>1, <1>6, OwnActions
  <2>2. acts' \in 0 .. MaxActs /\ calm' \in BOOLEAN
    BY <1>2, <1>6, BoundsKept
  <2>3. StreamsInv'
    BY <1>6, <2>1, StreamsKept
  <2>4. view'.tab \notin ReportTabs
    BY <2>3 DEF StreamsInv, StreamsStates, ReportTabs
  <2> QED
    BY <1>2, <1>6, <2>2, <2>3, <2>4 DEF PanelsInv, FreshStep
<1>7. CASE TerminalNext /\ UNCHANGED sessions
  <2>1. TerminalInv
    BY <1>1, <1>7, OwnActions
  <2>2. acts' \in 0 .. MaxActs /\ calm' \in BOOLEAN
    BY <1>2, <1>7, BoundsKept
  <2>3. TerminalInv'
    BY <1>7, <2>1, TerminalKept
  <2>4. view'.tab \notin ReportTabs
    BY <2>3 DEF TerminalInv, TerminalStates, ReportTabs
  <2> QED
    BY <1>2, <1>7, <2>2, <2>3, <2>4 DEF PanelsInv, FreshStep
<1>8. CASE UNCHANGED panelVars
  <2>1. /\ view' = view /\ calls' = calls /\ acts' = acts /\ calm' = calm
        /\ sessions' = sessions
    BY <1>8 DEF panelVars, apiVars
  <2>2. FreshStep
    BY <2>1 DEF FreshStep
  <2>3. ReportInv => ReportInv'
    BY <2>1 DEF ReportInv, Single, ReportHolds, StandsFor
  <2>4. ClientsInv => ClientsInv'
    BY <2>1 DEF ClientsInv, Single, ClientsHolds
  <2>5. StreamsInv => StreamsInv'
    BY <2>1 DEF StreamsInv, StreamsHolds, StreamSettles, GroupSettles, OfStream,
                OfGroup, EndsIn, InFlight
  <2>6. TerminalInv => TerminalInv'
    BY <2>1 DEF TerminalInv, TerminalHolds, TerminalSettles, OfWord, Suggestible,
                EndsIn, InFlight
  <2> QED
    BY <1>2, <2>1, <2>2, <2>3, <2>4, <2>5, <2>6 DEF PanelsInv
<1> QED
  BY <1>3, <1>4, <1>5, <1>6, <1>7, <1>8 DEF PanelsNext

\* In every state the panel of the current tab ties its busy signs, messages
\* and tables to the requests in flight, whatever was mounted before.
THEOREM PanelsInvCorrect == PanelsSpec => []PanelsInv
<1>1. PanelsInit => PanelsInv
  BY PanelsStart
<1>2. PanelsInv /\ [PanelsNext]_panelVars => PanelsInv'
  BY PanelsStep
<1> QED
  BY <1>1, <1>2, PTL DEF PanelsSpec

\* Every panel's state has the shape its component declares.
THEOREM PanelsTypeCorrect == PanelsSpec => []PanelsTypeOK
<1>1. PanelsInv => PanelsTypeOK
  BY PanelsTab, ReportInvShows, ClientsInvShows, StreamsInvShows, TerminalInvShows
     DEF PanelsInv, PanelsTypeOK, Sessions
<1> QED
  BY <1>1, PanelsInvCorrect, PTL

\* No panel spins, ticks or reports success without a request or a timer that
\* will end it, with any number of requests in flight.
THEOREM IndicatorsTrueCorrect == PanelsSpec => []IndicatorsTrue
<1>1. PanelsInv => IndicatorsTrue
  BY PanelsTab, ReportInvShows, ClientsInvShows, StreamsInvShows, TerminalInvShows
     DEF PanelsInv, IndicatorsTrue
<1> QED
  BY <1>1, PanelsInvCorrect, PTL

\* A connection the panel says it terminated is off at the server, and the
\* one kill in flight is that of the row that is marked.
THEOREM KillMessageTrueCorrect == PanelsSpec => []KillMessageTrue
<1>1. PanelsInv => KillMessageTrue
  <2>1. ClientsInv => KillMessageTrue
    BY ClientsInvShows
  <2> QED
    BY <2>1, PanelsTab DEF KillMessageTrue
<1> QED
  BY <1>1, PanelsInvCorrect, PTL

\* A stream inspector at rest shows what its field and its mark name.
THEOREM CalmInspectorCorrect == PanelsSpec => []CalmInspector
<1>1. PanelsInv => CalmInspector
  <2>1. StreamsInv => CalmInspector
    BY StreamsInvShows
  <2> QED
    BY <2>1, PanelsTab DEF CalmInspector
<1> QED
  BY <1>1, PanelsInvCorrect, PTL

\* The cursors of the terminal point into lists of any length.
THEOREM CursorsInRangeCorrect == PanelsSpec => []CursorsInRange
<1>1. PanelsInv => CursorsInRange
  <2>1. TerminalInv => CursorsInRange
    BY TerminalInvShows
  <2> QED
    BY <2>1, PanelsTab DEF CursorsInRange
<1> QED
  BY <1>1, PanelsInvCorrect, PTL

\* A terminal at rest suggests completions of the word in its line.
THEOREM SuggestionsFitCorrect == PanelsSpec => []SuggestionsFit
<1>1. PanelsInv => SuggestionsFit
  <2>1. TerminalInv => SuggestionsFit
    BY TerminalInvShows
  <2> QED
    BY <2>1, PanelsTab DEF SuggestionsFit
<1> QED
  BY <1>1, PanelsInvCorrect, PTL

\* The panels of one report implement FreshView: whatever fails, is slow or is
\* left, a report is only replaced by the answer to a later request.
THEOREM PanelsAreFresh == PanelsSpec => AnswersAreFresh
<1> USE DEF ReportTabs
<1>1. PanelsInit => Fresh!Opened
  <2> SUFFICES ASSUME PanelsInit
               PROVE  Fresh!Opened
    OBVIOUS
  <2>1. FreshStart
    BY Mounted DEF PanelsInit, MountedAnew
  <2> QED
    BY <2>1 DEF FreshStart, Fresh!Opened
<1>2. ASSUME PanelsInv, [PanelsNext]_panelVars
      PROVE  [Fresh!FreshNext]_Fresh!freshVars
  <2>1. FreshStep
    BY <1>2, PanelsStep
  <2> QED
    BY <2>1 DEF FreshStep, Fresh!FreshNext, Fresh!Reopen, Fresh!Ask, Fresh!Show,
                Fresh!freshVars
<1> QED
  BY <1>1, <1>2, PanelsInvCorrect, PTL DEF PanelsSpec, AnswersAreFresh, Fresh!FreshSpec
=============================================================================
