----------------------------- MODULE ClientPanel -----------------------------
(***************************************************************************)
(* ClientManager: the connections of the server, asked for every five      *)
(* seconds whether or not the last answer is in, and the kill of one of    *)
(* them.  The server gives every connection an id of its own and none      *)
(* twice.  CLIENT KILL passes over the connection it is asked on and says  *)
(* how many it has ended, which KillClient does not look at; the demo      *)
(* client ends none of the connections it lists.  The search field only    *)
(* narrows what is offered.                                                *)
(***************************************************************************)
EXTENDS ApiClient

CONSTANTS
  ClientIds,
  StartSessions,
  Own,          \* the connection that the commands of the server come on
  Demo          \* the server runs on the demo client

ASSUME ClientsAssumption ==
  /\ Null \notin ClientIds
  /\ Own \in ClientIds
  /\ Demo \in BOOLEAN
  /\ StartSessions \in [ClientIds -> {"new", "on", "off"}]

VARIABLE
  sessions      \* the server's connections: still to come, on, or off

Connected == {c \in ClientIds : sessions[c] = "on"}

\* The connections that no kill ends.
Spared == IF Demo THEN ClientIds ELSE {Own}

ClientsView ==
  [tab |-> "clients", clients |-> {}, loading |-> TRUE, error |-> FALSE,
   killingId |-> Null, confirmKill |-> Null, successMsg |-> Null]

ClientsCall == <<Request("clients", [tab |-> "clients"])>>

ClientsTypeOK ==
  /\ view.clients \subseteq ClientIds
  /\ {view.loading, view.error} \subseteq BOOLEAN
  /\ {view.killingId, view.confirmKill, view.successMsg} \subseteq ClientIds \cup {Null}

-----------------------------------------------------------------------------
ClientsUser(v, sent) ==
  UserActs /\ Land(v, calls, sent) /\ UNCHANGED <<calm, sessions>>

LoadClients(v) == [v EXCEPT !.loading = TRUE, !.error = FALSE]

RefreshClients ==
  /\ view.tab = "clients"
  /\ ~view.loading
  /\ ClientsUser(LoadClients(view), ClientsCall)

\* A slip: no more polling after a failure.
PollUntilError ==
  /\ view.tab = "clients"
  /\ ~view.error
  /\ Len(calls) < MaxCalls
  /\ Land(LoadClients(view), calls, ClientsCall)
  /\ UNCHANGED <<acts, calm, sessions>>

\* The interval; the bound stands for answers that come within five seconds
\* of one another.
Poll ==
  /\ view.tab = "clients"
  /\ Len(calls) < MaxCalls
  /\ Land(LoadClients(view), calls, ClientsCall)
  /\ UNCHANGED <<acts, calm, sessions>>

AskKill ==
  /\ view.tab = "clients"
  /\ \E c \in view.clients : ClientsUser([view EXCEPT !.confirmKill = c], <<>>)

CancelKill ==
  /\ view.tab = "clients"
  /\ view.confirmKill # Null
  /\ ClientsUser([view EXCEPT !.confirmKill = Null], <<>>)

\* handleKill; "Terminate Now" is disabled while a kill is in flight.
ConfirmKill ==
  /\ view.tab = "clients"
  /\ view.confirmKill # Null
  /\ view.killingId = Null
  /\ ClientsUser([view EXCEPT !.killingId = view.confirmKill],
                 <<Request("kill", [id |-> view.confirmKill])>>)

\* A connection opens, or closes by itself; the list of the demo client stays
\* as it is.
SessionChanges ==
  /\ view.tab = "clients"
  /\ ~Demo
  /\ Act
  /\ \E c \in ClientIds :
       /\ sessions[c] # "off"
       /\ sessions' = [sessions EXCEPT ![c] = IF @ = "new" THEN "on" ELSE "off"]
  /\ UNCHANGED <<view, calls, calm>>

\* A kill that ends nothing, for the connection is gone or spared, is answered
\* like one that does.
ServeClient(i) ==
  /\ Unserved(i)
  /\ \/ /\ calls[i].op = "clients"
        /\ calls' = [calls EXCEPT ![i].reply = Connected]
        /\ UNCHANGED <<acts, sessions>>
     \/ /\ calls[i].op = "kill"
        /\ calls' = [calls EXCEPT ![i].reply = "ok"]
        /\ sessions' = [c \in ClientIds |->
                          IF c = calls[i].id /\ c \in Connected \ Spared
                          THEN "off" ELSE sessions[c]]
        /\ UNCHANGED acts
  /\ UNCHANGED <<view, calm>>

\* The connection to the server breaks, before it acts or after; in read-only
\* mode the guard refuses a kill.
LoseClient ==
  /\ view.tab = "clients"
  /\ Act
  /\ \E i \in DOMAIN calls :
       /\ calls[i].op \in {"clients", "kill"}
       /\ calls[i].reply # Failed
       /\ calls' = [calls EXCEPT ![i].reply = Failed]
  /\ UNCHANGED <<view, calm, sessions>>

ClientsAnswer(i, v, sent) ==
  Land(v, RemoveAt(calls, i), sent) /\ UNCHANGED <<acts, calm, sessions>>

OnClients(i) ==
  /\ calls[i].op = "clients" /\ ~Unserved(i)
  /\ LET done == [view EXCEPT !.loading = FALSE]
     IN ClientsAnswer(i, IF calls[i].reply = Failed
                         THEN [done EXCEPT !.error = TRUE]
                         ELSE [done EXCEPT !.clients = calls[i].reply], <<>>)

\* A slip: the message is set whatever the server said.
KilledAnyhow(c) ==
  [LoadClients(view) EXCEPT !.successMsg = c.id, !.confirmKill = Null,
                            !.killingId = Null]

\* The view after a kill that was answered: a success closes whatever kill is
\* being confirmed by now and loads the list.
AfterKill(c) ==
  IF c.reply = Failed THEN [view EXCEPT !.error = TRUE, !.killingId = Null]
  ELSE [LoadClients(view) EXCEPT !.successMsg = c.id, !.confirmKill = Null,
                                 !.killingId = Null]

OnKill(i) ==
  /\ calls[i].op = "kill" /\ ~Unserved(i)
  /\ ClientsAnswer(i, AfterKill(calls[i]),
                   IF calls[i].reply = Failed THEN <<>>
                   ELSE ClientsCall \o Timer("message", calls[i].id))

OnMessageTimer(i) ==
  /\ calls[i].op = "message"
  /\ ClientsAnswer(i, [view EXCEPT !.successMsg = Null], <<>>)

ClientsProgress(i) ==
  /\ view.tab = "clients" /\ i \in DOMAIN calls
  /\ ServeClient(i) \/ OnClients(i) \/ OnKill(i) \/ OnMessageTimer(i)

ClientNext ==
  \/ RefreshClients \/ Poll \/ AskKill \/ CancelKill \/ ConfirmKill
  \/ SessionChanges \/ LoseClient
  \/ \E i \in DOMAIN calls : ClientsProgress(i)

-----------------------------------------------------------------------------
\* The message that a client was terminated is true, except of the server's own
\* connection and in demo mode, and the panel waits for one kill at a time, the
\* one it names.
KillMessageTrue ==
  view.tab = "clients" =>
    /\ view.successMsg \notin {Null} \cup Spared => view.successMsg \notin Connected
    /\ \A i \in DOMAIN calls : calls[i].op = "kill" => calls[i].id = view.killingId
    /\ view.killingId # Null => InFlight(calls, {"kill"})

\* A connection that is gone leaves the list of a panel that stays open, even
\* when answers fail or overtake each other.
GoneClientsLeave ==
  \A c \in ClientIds :
    view.tab = "clients" /\ sessions[c] = "off"
      ~> view.tab # "clients" \/ c \notin view.clients
=============================================================================
