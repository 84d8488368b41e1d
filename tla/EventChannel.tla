----------------------------- MODULE EventChannel -----------------------------
(***************************************************************************)
(* What an event uploader promises to the code that hands events to it: a  *)
(* first-in-first-out channel to a server.  The server receives the        *)
(* events in the order in which the channel accepted them; the channel may *)
(* repeat events the server already has, and gives events up from its      *)
(* front, when they can never be sent, or when it is closed.               *)
(***************************************************************************)
EXTENDS Integers, Sequences

CONSTANT Unsendable   \* events that cannot be put on the wire

VARIABLES
  backlog,    \* events accepted and not yet done with
  seen,       \* how many at the front of the backlog the server already has
  log,        \* events in the order in which the server first received them
  open        \* FALSE once the channel is closed

channelVars == <<backlog, seen, log, open>>

ChannelInit == backlog = <<>> /\ seen = 0 /\ log = <<>> /\ open = TRUE

Without(n) == SubSeq(backlog, n + 1, Len(backlog))

\* Events join the end of the backlog.
Accept ==
  /\ open
  /\ Len(backlog') >= Len(backlog)
  /\ SubSeq(backlog', 1, Len(backlog)) = backlog
  /\ UNCHANGED <<seen, log, open>>

\* The server receives the first n events; it skips those it already has.
Reach(n) ==
  IF n > seen THEN log' = log \o SubSeq(backlog, seen + 1, n) ELSE log' = log

\* A new backlog that is the rest of the old one, some of whose events that
\* cannot be sent have been taken out.
Shrinks(rest) ==
  \E f \in [1..Len(backlog') -> 1..Len(rest)] :
     /\ \A j, k \in 1..Len(backlog') : j < k => f[j] < f[k]
     /\ \A j \in 1..Len(backlog') : backlog'[j] = rest[f[j]]
     /\ \A i \in 1..Len(rest) :
          (\A j \in 1..Len(backlog') : f[j] # i) => rest[i] \in Unsendable

\* An attempt that may reach the server without the channel knowing it.
Attempt ==
  \E n \in 0..Len(backlog) :
     /\ Reach(n)
     /\ seen' = IF n > seen THEN n ELSE seen
     /\ UNCHANGED <<backlog, open>>

\* The channel is done with the first n events, received or given up.
Finish ==
  \E n \in 0..Len(backlog) :
     /\ Reach(n) \/ log' = log
     /\ Shrinks(Without(n))
     /\ seen' = IF seen > n THEN seen - n ELSE 0
     /\ UNCHANGED open

\* Closing gives up all events but those on their way.
Close ==
  /\ open
  /\ open' = FALSE
  /\ \E n \in 0..Len(backlog) :
       /\ backlog' = SubSeq(backlog, 1, n)
       /\ seen' = IF seen > n THEN n ELSE seen
  /\ UNCHANGED log

ChannelNext == Accept \/ Attempt \/ Finish \/ Close

ChannelSpec == ChannelInit /\ [][ChannelNext]_channelVars
===============================================================================
