----------------------------- MODULE Exclusion -----------------------------
(***************************************************************************)
(* What the monitor promises its callers: per object, requests are served  *)
(* one at a time and in the order of their arrival, and a request that has *)
(* not been served yet may give up.  Module Monitor is the implementation. *)
(***************************************************************************)
EXTENDS Naturals, Sequences

CONSTANTS
  Requests,  \* identifiers of requests (rid)
  Objects    \* object and bucket names that are locked

VARIABLES
  line,      \* line[o]: the requests that asked for o and have not left, in order
  inside     \* the requests that are being served

vars == <<line, inside>>

InLine(r, o) == \E i \in 1..Len(line[o]) : line[o][i] = r

\* The line without its i-th entry.
Without(q, i) == [j \in 1..(Len(q) - 1) |-> IF j < i THEN q[j] ELSE q[j + 1]]

Init ==
  /\ line = [o \in Objects |-> <<>>]
  /\ inside = {}

Arrive(r, o) ==
  /\ \A p \in Objects : ~ InLine(r, p)
  /\ line' = [line EXCEPT ![o] = Append(@, r)]
  /\ UNCHANGED inside

\* Only the first in the line is served.
Admit(r, o) ==
  /\ line[o] # <<>> /\ line[o][1] = r
  /\ inside' = inside \cup {r}
  /\ UNCHANGED line

\* A request gives up waiting; one that is being served never does.
GiveUp(r, o) ==
  /\ r \notin inside
  /\ \E i \in 1..Len(line[o]) :
       /\ line[o][i] = r
       /\ line' = [line EXCEPT ![o] = Without(@, i)]
  /\ UNCHANGED inside

Leave(r, o) ==
  /\ r \in inside
  /\ line[o] # <<>> /\ line[o][1] = r
  /\ line' = [line EXCEPT ![o] = Without(@, 1)]
  /\ inside' = inside \ {r}

Next ==
  \E r \in Requests, o \in Objects :
    Arrive(r, o) \/ Admit(r, o) \/ GiveUp(r, o) \/ Leave(r, o)

Spec == Init /\ [][Next]_vars
=============================================================================
