---------------------------- MODULE NotifyPromise ----------------------------
(***************************************************************************)
(* What a subscription to a model's events promises, with neither          *)
(* listeners nor buffers nor a registry: a stream of the channel's events  *)
(* in commit order, none twice, none left out but where the stream says    *)
(* so, from the LISTEN on until the stream ends.                           *)
(***************************************************************************)
EXTENDS Naturals

CONSTANTS Subs, Chans, MaxEvents, None

VARIABLES
  emitted,  \* [Chans -> number of events committed]
  stream    \* [Subs -> the subscription, or NoStream]

\* base: the events before the LISTEN; seen: what the subscriber received, or
\* was told it missed.
Stream(c, base, seen) == [chan |-> c, base |-> base, seen |-> seen]
NoStream == Stream(None, 0, {})

PInit ==
  /\ emitted = [c \in Chans |-> 0]
  /\ stream = [s \in Subs |-> NoStream]

\* A write commits.
PEmit(c) ==
  /\ emitted[c] < MaxEvents
  /\ emitted' = [emitted EXCEPT ![c] = @ + 1]
  /\ UNCHANGED stream

POpen(s, c) ==
  /\ stream[s] = NoStream
  /\ stream' = [stream EXCEPT ![s] = Stream(c, emitted[c], {})]
  /\ UNCHANGED emitted

\* Event id comes after everything the subscriber knows of, and nothing since
\* the LISTEN is left out before it.
PReceive(s, id) ==
  LET x == stream[s] IN
  /\ x.chan \in Chans /\ id \in 1..emitted[x.chan]
  /\ \A e \in x.seen : e < id
  /\ (x.base + 1)..(id - 1) \subseteq x.seen
  /\ stream' = [stream EXCEPT ![s].seen = @ \cup {id}]
  /\ UNCHANGED emitted

\* The subscriber is told that it missed events up to id.  It did miss event
\* id, and a later one is still to come.
PMissed(s, id) ==
  LET x == stream[s] IN
  /\ x.chan \in Chans /\ id \in 1..(emitted[x.chan] - 1)
  /\ \A e \in x.seen : e < id
  /\ stream' = [stream EXCEPT ![s].seen = @ \cup 1..id]
  /\ UNCHANGED emitted

\* The receiver is dropped, by the subscriber or because it was told that the
\* listener terminated.
PEnd(s) ==
  /\ stream[s] # NoStream
  /\ stream' = [stream EXCEPT ![s] = NoStream]
  /\ UNCHANGED emitted

PNext ==
  \/ \E c \in Chans : PEmit(c)
  \/ \E s \in Subs, c \in Chans : POpen(s, c)
  \/ \E s \in Subs, id \in 1..MaxEvents : PReceive(s, id) \/ PMissed(s, id)
  \/ \E s \in Subs : PEnd(s)

PSpec == PInit /\ [][PNext]_<<emitted, stream>>

=============================================================================
