------------------------------ MODULE ApiClient ------------------------------
(***************************************************************************)
(* The browser side of the HTTP API, as every component of src/ui uses it. *)
(* A request is a promise: the handler that sent it runs on when the       *)
(* answer comes, with the values its closure captured, and nothing makes   *)
(* the answers come in the order of the requests.                          *)
(*                                                                         *)
(* What is taken from React: the handlers run one at a time; the effects   *)
(* of a render run before the next event; setting a state to the value it  *)
(* has changes nothing; an answer for a component that is no longer        *)
(* mounted sets none of its state.                                         *)
(***************************************************************************)
EXTENDS Naturals, Sequences, FiniteSets, SequencesExt

CONSTANTS
  Null,         \* the value null of the code
  Failed,       \* the promise is rejected
  MaxCalls,     \* bound: the user acts only while fewer requests are in flight
  MaxActs       \* bound: what the user and failures may do in a behaviour

ASSUME ApiAssumption ==
  /\ Null # Failed
  /\ MaxCalls \in Nat \ {0}
  /\ MaxActs \in Nat

VARIABLES
  view,         \* the React state of what is mounted, fields named as there
  calls,        \* requests in flight, the oldest first
  acts,         \* what the user and failures have done so far
  calm          \* history: no answer has come out of turn so far

apiVars == <<view, calls, acts, calm>>

\* A record with the fields of two.
Join(r, s) == [f \in DOMAIN r \cup DOMAIN s |-> IF f \in DOMAIN r THEN r[f] ELSE s[f]]

\* The elements of q at positions P, in their order: what filter leaves.
Picked(q, P) ==
  [n \in 1 .. Cardinality(P) |->
     q[CHOOSE i \in P : Cardinality({j \in P : j <= i}) = n]]

\* A request: what the handler captured, and the reply once there is one.
Request(op, captured) == Join([op |-> op, reply |-> Null], captured)

InFlight(cs, ops) == \E i \in DOMAIN cs : cs[i].op \in ops

Unserved(i) == calls[i].reply = Null

\* Something outside the program's control happens.
Act == acts < MaxActs /\ acts' = acts + 1

UserActs == Act /\ Len(calls) < MaxCalls

\* A request that is answered fails only as often as the bound allows.
Outcome(ok) == IF ok THEN UNCHANGED acts ELSE Act

\* setTimeout: a callback that needs no answer.
Timer(op, arg) == <<Request(op, [arg |-> arg])>>

\* What the user or an answer leaves behind: a view and the requests it sent.
Land(v, rest, sent) == view' = v /\ calls' = rest \o sent

\* An answer that overtakes an older request of the same kind: the older one
\* will be answered last and stay on the screen.
Overtakes(i, ops) ==
  /\ calls[i].op \in ops
  /\ \E j \in 1 .. i - 1 : calls[j].op \in ops
=============================================================================
