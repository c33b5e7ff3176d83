-------------------------------- MODULE Streams --------------------------------
(***************************************************************************)
(* The audio proxy and its counts of listeners (api/stream.go).  A stage's *)
(* counter is made by the first request that finds none, and the requests  *)
(* hold on to the counter they got.  <<r, s>> is the counter that request  *)
(* r made for stage s.                                                     *)
(***************************************************************************)
EXTENDS Naturals, FiniteSets

CONSTANTS
    Requests,    \* the goroutines that run HandleStream
    Stages,      \* the stages of the configuration
    NoCounter

VARIABLES
    at,          \* at[r]: where r is
    stage,       \* stage[r]: the stage it asks for
    listeners,   \* StreamHandlers.listeners: the counter of each stage
    counter,     \* counter[r]: the counter r holds
    value        \* value[c]: what counter c shows

vars == <<at, stage, listeners, counter, value>>

Init ==
    /\ at = [r \in Requests |-> "none"]
    /\ stage \in [Requests -> Stages]
    /\ listeners = [s \in Stages |-> NoCounter]
    /\ counter = [r \in Requests |-> NoCounter]
    /\ value = [c \in Requests \X Stages |-> 0]

Dial(r, s) ==
    /\ at[r] = "none"
    /\ at' = [at EXCEPT ![r] = "dialling"]
    /\ stage' = [stage EXCEPT ![r] = s]
    /\ UNCHANGED <<listeners, counter, value>>

\* MPD does not answer: 502, and the request was never a listener.
Refused(r) ==
    /\ at[r] = "dialling"
    /\ at' = [at EXCEPT ![r] = "none"]
    /\ UNCHANGED <<stage, listeners, counter, value>>

Hold(r, c) ==
    /\ at' = [at EXCEPT ![r] = "streaming"]
    /\ counter' = [counter EXCEPT ![r] = c]
    /\ value' = [value EXCEPT ![c] = @ + 1]

\* Variant: a Load that finds nothing, and a Store later.
LoadThenStore(r) ==
    LET c == listeners[stage[r]] IN
    /\ \/ at[r] = "dialling" /\ c # NoCounter /\ Hold(r, c) /\ UNCHANGED listeners
       \/ /\ at[r] = "dialling" /\ c = NoCounter
          /\ at' = [at EXCEPT ![r] = "storing"]
          /\ UNCHANGED <<listeners, counter, value>>
       \/ /\ at[r] = "storing"
          /\ Hold(r, <<r, stage[r]>>)
          /\ listeners' = [listeners EXCEPT ![stage[r]] = <<r, stage[r]>>]
    /\ UNCHANGED stage

\* MPD answers: getCounter, one atomic LoadOrStore, and Add(1).
Track(r) ==
    LET found == listeners[stage[r]]
        c == IF found = NoCounter THEN <<r, stage[r]>> ELSE found
    IN  /\ at[r] = "dialling"
        /\ Hold(r, c)
        /\ listeners' = [listeners EXCEPT ![stage[r]] = c]
        /\ UNCHANGED stage

\* The browser leaves or MPD closes the stream: the deferred Add(-1).
Release(r) ==
    /\ at[r] = "streaming"
    /\ at' = [at EXCEPT ![r] = "none"]
    /\ value' = [value EXCEPT ![counter[r]] = @ - 1]
    /\ counter' = [counter EXCEPT ![r] = NoCounter]
    /\ UNCHANGED <<stage, listeners>>

Next ==
    \E r \in Requests :
        (\E s \in Stages : Dial(r, s)) \/ Refused(r) \/ Track(r) \/ Release(r)

Spec == Init /\ [][Next]_vars

ListenerCounts ==
    [s \in Stages |-> IF listeners[s] = NoCounter THEN 0 ELSE value[listeners[s]]]

-----------------------------------------------------------------------------

\* Each stage's count is the number of its requests that have a stream, however
\* the first ones raced for the counter and whichever failed (stream.go:71-83,
\* 121-124).
ListenersCounted ==
    \A s \in Stages :
        ListenerCounts[s] = Cardinality({r \in Requests : at[r] = "streaming" /\ stage[r] = s})
=============================================================================
