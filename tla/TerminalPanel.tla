---------------------------- MODULE TerminalPanel ----------------------------
(***************************************************************************)
(* WebTerminal: the input line with its history and its suggestions, which *)
(* an effect asks for at every change of the line and which may come late. *)
(* A line is a word with how it goes on: "bare", "padded" (a space at the  *)
(* end) or with "args"; no line is Null.  The transcript is left out.      *)
(***************************************************************************)
EXTENDS ApiClient, Integers

CONSTANTS
  Words,        \* what a line may start with
  Matches,      \* the commands the server suggests for a word
  Chips         \* the lines of the quick command buttons

Lines == Words \X {"bare", "padded", "args"}

ASSUME TerminalAssumption ==
  /\ Matches \in [Words -> Seq(Words)]
  /\ Chips \subseteq Lines
  /\ Null \notin Lines

TerminalView ==
  [tab |-> "repl", input |-> Null, completions |-> <<>>, selectedCompletion |-> 0,
   showSuggestions |-> FALSE, history |-> <<>>, historyIndex |-> -1,
   executing |-> FALSE]

TerminalTypeOK ==
  /\ view.input \in Lines \cup {Null}
  /\ view.completions \in {<<>>} \cup {Matches[w] : w \in Words}
  /\ {view.showSuggestions, view.executing} \subseteq BOOLEAN
  /\ \A i \in DOMAIN view.history : view.history[i] \in Words \X {"bare", "args"}
  /\ view.historyIndex \in Int /\ view.selectedCompletion \in Nat

-----------------------------------------------------------------------------
\* A slip: the line runs as it stands.
TrimNothing(l) == l

Trim(l) == IF l # Null /\ l[2] = "padded" THEN <<l[1], "bare">> ELSE l

\* A word alone is looked up; anything else puts the suggestions away.
Suggestible(l) == l # Null /\ l[2] # "args"

\* A slip: a line that asks for no suggestions leaves those that are there.
SetInputOnly(v, l) == [v EXCEPT !.input = l]

\* setInput(l) and the effect on the input.
SetInput(v, l) ==
  IF l = v.input \/ Suggestible(l) THEN [v EXCEPT !.input = l]
  ELSE [v EXCEPT !.input = l, !.completions = <<>>, !.showSuggestions = FALSE]

InputCalls(v, l) ==
  IF l # v.input /\ Suggestible(l)
  THEN <<Request("completions", [word |-> l[1]])>> ELSE <<>>

\* calm ends when the line becomes one that asks for no suggestions while
\* those for an earlier one are awaited.
TerminalStep(v, rest, sent) ==
  /\ Land(v, rest, sent)
  /\ calm' = (calm /\ (\/ v.input = view.input
                      \/ Suggestible(v.input)
                      \/ ~InFlight(rest, {"completions"})))

TerminalUser(v, sent) == UserActs /\ TerminalStep(v, calls, sent)

\* Setting the line closes the suggestions, until those for it come in.
Take(word) ==
  LET l == <<word, "padded">>
  IN TerminalUser([SetInput(view, l) EXCEPT !.showSuggestions = FALSE],
                  InputCalls(view, l))

Suggesting == view.showSuggestions /\ view.completions # <<>>

\* The input is disabled while a command runs.
Typing == view.tab = "repl" /\ ~view.executing

TypeLine ==
  /\ Typing
  /\ \E l \in (Lines \cup {Null}) \ {view.input} :
       TerminalUser(SetInput(view, l), InputCalls(view, l))

MoveSuggestion ==
  /\ Typing /\ Suggesting
  /\ \E step \in {1, Len(view.completions) - 1} :
       TerminalUser([view EXCEPT !.selectedCompletion =
                       (@ + step) % Len(view.completions)], <<>>)

\* Tab, or Enter while the line has no space.
TakeSelected ==
  /\ Typing /\ Suggesting
  /\ Take(view.completions[view.selectedCompletion + 1])

ClickSuggestion ==
  /\ view.tab = "repl" /\ Suggesting
  /\ \E i \in DOMAIN view.completions : Take(view.completions[i])

Escape ==
  /\ Typing /\ Suggesting
  /\ TerminalUser([view EXCEPT !.showSuggestions = FALSE], <<>>)

\* A slip: the step up does not stop at the oldest line.
OlderUnbounded(n) == n + 1

\* How far ArrowUp may go.
Older(n) == IF n < Len(view.history) - 1 THEN n + 1 ELSE n

GoTo(n) ==
  LET l == IF n = -1 THEN Null
           ELSE IF n < Len(view.history) THEN view.history[n + 1] ELSE Null
  IN TerminalUser([SetInput(view, l) EXCEPT !.historyIndex = n], InputCalls(view, l))

HistoryUp ==
  /\ Typing /\ ~view.showSuggestions
  /\ view.history # <<>>
  /\ Older(view.historyIndex) # view.historyIndex
  /\ GoTo(Older(view.historyIndex))

HistoryDown ==
  /\ Typing /\ ~view.showSuggestions
  /\ view.historyIndex >= 0
  /\ GoTo(view.historyIndex - 1)

\* handleExecute.
Execute(l) ==
  TerminalUser([view EXCEPT !.executing = TRUE, !.showSuggestions = FALSE],
               <<Request("exec", [line |-> Trim(l)])>>)

\* The button, or Enter where it takes no suggestion.
RunLine ==
  /\ Typing /\ view.input # Null
  /\ Execute(view.input)

\* The quick commands are never disabled.
RunChip ==
  /\ view.tab = "repl"
  /\ \E l \in Chips : Execute(l)

\* Newest first, a repeated line moved to the front.
Remember(history, l) ==
  <<l>> \o Picked(history, {i \in DOMAIN history : history[i] # l})

OnExec ==
  \E i \in DOMAIN calls :
    /\ view.tab = "repl" /\ calls[i].op = "exec"
    /\ UNCHANGED acts
    /\ LET v == SetInput(view, Null)
       IN TerminalStep([v EXCEPT !.executing = FALSE, !.historyIndex = -1,
                          !.history = Remember(@, calls[i].line)],
                       RemoveAt(calls, i), <<>>)

OnExecFailed ==
  \E i \in DOMAIN calls :
    /\ view.tab = "repl" /\ calls[i].op = "exec"
    /\ Act
    /\ TerminalStep([view EXCEPT !.executing = FALSE], RemoveAt(calls, i), <<>>)

OnCompletions ==
  \E i \in DOMAIN calls, ok \in BOOLEAN :
    /\ view.tab = "repl" /\ calls[i].op = "completions"
    /\ Outcome(ok)
    /\ LET m == Matches[calls[i].word]
           v == [view EXCEPT !.completions = m, !.selectedCompletion = 0,
                             !.showSuggestions = m # <<>>]
       IN /\ Land(IF ok THEN v ELSE view, RemoveAt(calls, i), <<>>)
          /\ calm' = (calm /\ ok /\ ~Overtakes(i, {"completions"}))

TerminalNext ==
  \/ TypeLine \/ MoveSuggestion \/ TakeSelected \/ ClickSuggestion \/ Escape
  \/ HistoryUp \/ HistoryDown \/ RunLine \/ RunChip
  \/ OnExec \/ OnExecFailed \/ OnCompletions

-----------------------------------------------------------------------------
\* The two cursors of the terminal, moved by keys and reset by answers, stay
\* within the lists they point into, which answers replace at any time; the
\* history holds every line once.
CursorsInRange ==
  view.tab = "repl" =>
    /\ view.historyIndex \in -1 .. Len(view.history) - 1
    /\ view.showSuggestions => view.selectedCompletion < Len(view.completions)
    /\ \A i, j \in DOMAIN view.history :
         view.history[i] = view.history[j] => i = j

\* Suggestions on the screen are for the word in the line, unless an answer
\* failed, came out of turn or came after the line had changed.
SuggestionsFit ==
  view.tab = "repl" /\ calm /\ calls = <<>> /\ view.showSuggestions =>
    Suggestible(view.input) /\ view.completions = Matches[view.input[1]]
=============================================================================
