-------------------------------- MODULE Notify --------------------------------
(***************************************************************************)
(* In-process subscriptions to model events (djogi/src/notify.rs): one     *)
(* dedicated LISTEN connection per pool, found through a registry of weak  *)
(* references and kept alive by its receivers alone.                       *)
(*                                                                         *)
(* Subscribers race with each other over the registry slot and with the    *)
(* death of the watcher task that pumps notifications from the connection  *)
(* into one broadcast channel per table.  Every critical section of the    *)
(* registry mutex, every critical section of the senders mutex, every      *)
(* access to the failed flag and every await is a step of its own.         *)
(***************************************************************************)
EXTENDS Integers, Sequences, FiniteSets

CONSTANTS
  Subs,       \* tasks that subscribe
  Listeners,  \* PgListener allocations
  Chans,      \* NOTIFY channels, djogi_<table>
  Cap,        \* capacity of a broadcast channel (256)
  MaxEvents,  \* bound on events per channel
  MaxDeaths,  \* bound on connections lost
  None        \* no listener; no channel

ASSUME NoneAssumption == None \notin Listeners \cup Chans
ASSUME LimitsAssumption ==
  Cap \in Nat \ {0} /\ MaxEvents \in Nat /\ MaxDeaths \in Nat

VARIABLES
  slot,     \* the registry's Weak<PgListener> for the pool
  lst,      \* [Listeners -> Listener], listener and watcher
  sub,      \* [Subs -> Sub], subscribe calls and receivers
  emitted,  \* [Chans -> number of events committed]
  deaths    \* connections lost so far

vars == <<slot, lst, sub, emitted, deaths>>

Ids == 1..MaxEvents

\* up: connected; closed: the connection is gone; cleared, failed: the two steps
\* of WatcherExitGuard::drop.  has: channels with a Sender in the map; listening:
\* channels LISTENed on; inbox: notifications the watcher has not pumped yet.
Listener == [phase : {"free", "up", "closed", "cleared", "failed"},
             has : SUBSET Chans, listening : SUBSET Chans,
             inbox : Seq(Chans \X Ids)]

FreeListener == [phase |-> "free", has |-> {}, listening |-> {}, inbox |-> <<>>]

\* lsn, cand: the Arcs the call or the receiver holds.  open: the receiver's
\* Sender is still in the map.  buf: events sent to it and not yet received;
\* base, seen: history, the events before it was returned and those it received
\* or was told it missed.
Sub == [pc : {"idle", "lookup", "check", "reap", "spawn", "install", "fast",
              "insert", "late", "cleanup", "listen", "live"},
        lsn : Listeners \cup {None}, cand : Listeners \cup {None},
        chan : Chans \cup {None}, open : BOOLEAN, buf : Seq(Ids), lagged : BOOLEAN,
        base : 0..MaxEvents, seen : SUBSET Ids]

Idle == [pc |-> "idle", lsn |-> None, cand |-> None, chan |-> None, open |-> FALSE,
         buf |-> <<>>, lagged |-> FALSE, base |-> 0, seen |-> {}]

TypeOK ==
  /\ slot \in Listeners \cup {None}
  /\ lst \in [Listeners -> Listener]
  /\ sub \in [Subs -> Sub]
  /\ \A s \in Subs : Len(sub[s].buf) <= Cap
  /\ emitted \in [Chans -> 0..MaxEvents]
  /\ deaths \in 0..MaxDeaths

Init ==
  /\ slot = None
  /\ lst = [l \in Listeners |-> FreeListener]
  /\ sub = [s \in Subs |-> Idle]
  /\ emitted = [c \in Chans |-> 0]
  /\ deaths = 0

-----------------------------------------------------------------------------
(* The registry.                                                            *)

\* Weak::upgrade would succeed.
Strong(l) == l # None /\ \E s \in Subs : l \in {sub[s].lsn, sub[s].cand}

Failed(l) == lst[l].phase = "failed"

\* The call returns Err, or its future is dropped: the Arcs go with it.
Leave(s) == sub' = [sub EXCEPT ![s] = Idle]

Goto(s, pc) == sub' = [sub EXCEPT ![s].pc = pc]

Subscribe(s, c) ==
  /\ sub[s].pc = "idle"
  /\ sub' = [sub EXCEPT ![s].pc = "lookup", ![s].chan = c]
  /\ UNCHANGED <<slot, lst, emitted, deaths>>

\* upgrade_existing: one critical section, reaps a dangling slot.
Lookup(s) ==
  /\ sub[s].pc = "lookup"
  /\ \/ /\ Strong(slot)
        /\ sub' = [sub EXCEPT ![s].pc = "check", ![s].lsn = slot]
        /\ UNCHANGED slot
     \/ /\ ~Strong(slot)
        /\ Goto(s, "spawn")
        /\ slot' = None
  /\ UNCHANGED <<lst, emitted, deaths>>

\* is_failed() on the listener found.
Check(s) ==
  /\ sub[s].pc = "check"
  /\ Goto(s, IF Failed(sub[s].lsn) THEN "reap" ELSE "fast")
  /\ UNCHANGED <<slot, lst, emitted, deaths>>

\* Mutants: the key is removed whoever holds it by now; a failed slot stays.
RemoveAny(l) == slot # None
RemoveNever(l) == FALSE

\* remove_if_current: the slot is l's, or dangling.
Removes(l) == slot # None /\ (Strong(slot) => slot = l)

Reap(s) ==
  /\ sub[s].pc = "reap"
  /\ LET removed == Removes(sub[s].lsn) IN
     /\ slot' = IF removed THEN None ELSE slot
     /\ sub' = [sub EXCEPT ![s].pc = IF removed THEN "spawn" ELSE "lookup",
                           ![s].lsn = None]
  /\ UNCHANGED <<lst, emitted, deaths>>

\* spawn_listener: a new connection and its watcher, or an error.  An allocation
\* can be reused once no Arc and no Weak points to it.
Spawn(s) ==
  /\ sub[s].pc = "spawn"
  /\ \/ \E l \in Listeners :
          /\ lst[l].phase \in {"free", "failed"} /\ ~Strong(l) /\ slot # l
          /\ lst' = [lst EXCEPT ![l] = [FreeListener EXCEPT !.phase = "up"]]
          /\ sub' = [sub EXCEPT ![s].pc = "install", ![s].cand = l]
     \/ Leave(s) /\ UNCHANGED lst
  /\ UNCHANGED <<slot, emitted, deaths>>

\* Mutant: the candidate is installed without looking at the slot again.
KeepsMine == FALSE
KeepsExisting == Strong(slot)

\* install_or_lose: a concurrent caller's listener wins if it is still there.
Install(s) ==
  /\ sub[s].pc = "install"
  /\ LET winner == IF KeepsExisting THEN slot ELSE sub[s].cand IN
     /\ slot' = winner
     /\ sub' = [sub EXCEPT ![s].pc = "fast", ![s].lsn = winner, ![s].cand = None]
  /\ UNCHANGED <<lst, emitted, deaths>>

-----------------------------------------------------------------------------
(* subscribe, once it has a listener.                                       *)

Fast(s) ==
  /\ sub[s].pc = "fast"
  /\ IF Failed(sub[s].lsn) THEN Leave(s) ELSE Goto(s, "insert")
  /\ UNCHANGED <<slot, lst, emitted, deaths>>

\* senders.entry(channel).or_insert(..) and tx.subscribe(), under the lock.
Insert(s) ==
  /\ sub[s].pc = "insert"
  /\ lst' = [lst EXCEPT ![sub[s].lsn].has = @ \cup {sub[s].chan}]
  /\ sub' = [sub EXCEPT ![s].pc = "late", ![s].open = TRUE]
  /\ UNCHANGED <<slot, emitted, deaths>>

Late(s) ==
  /\ sub[s].pc = "late"
  /\ Goto(s, IF Failed(sub[s].lsn) THEN "cleanup" ELSE "listen")
  /\ UNCHANGED <<slot, lst, emitted, deaths>>

\* Receivers of listener l on the channels of C see their channel closed.
Closed(l, C) ==
  [u \in Subs |-> IF sub[u].lsn = l /\ sub[u].chan \in C
                  THEN [sub[u] EXCEPT !.open = FALSE] ELSE sub[u]]

\* The watcher died meanwhile: the Sender just inserted is removed.
Cleanup(s) ==
  LET l == sub[s].lsn IN
  /\ sub[s].pc = "cleanup"
  /\ lst' = [lst EXCEPT ![l].has = @ \ {sub[s].chan}]
  /\ sub' = [Closed(l, {sub[s].chan}) EXCEPT ![s] = Idle]
  /\ UNCHANGED <<slot, emitted, deaths>>

\* LISTEN succeeds only on a live connection; it may fail on any.
Listen(s) ==
  LET l == sub[s].lsn IN
  /\ sub[s].pc = "listen"
  /\ \/ /\ lst[l].phase = "up"
        /\ lst' = [lst EXCEPT ![l].listening = @ \cup {sub[s].chan}]
        /\ sub' = [sub EXCEPT ![s].pc = "live", ![s].base = emitted[sub[s].chan]]
     \/ Leave(s) /\ UNCHANGED lst
  /\ UNCHANGED <<slot, emitted, deaths>>

\* recv: what was buffered first (or the news that something was skipped), then
\* ListenerTerminated, on which the subscriber drops its receiver.
Recv(s) ==
  /\ sub[s].pc = "live"
  /\ \/ /\ sub[s].lagged
        /\ sub' = [sub EXCEPT ![s].lagged = FALSE,
                              ![s].seen = @ \cup 1..(Head(sub[s].buf) - 1)]
     \/ /\ ~sub[s].lagged /\ sub[s].buf # <<>>
        /\ sub' = [sub EXCEPT ![s].buf = Tail(@), ![s].seen = @ \cup {Head(sub[s].buf)}]
     \/ /\ ~sub[s].lagged /\ sub[s].buf = <<>> /\ ~sub[s].open
        /\ Leave(s)
  /\ UNCHANGED <<slot, lst, emitted, deaths>>

\* The subscriber drops its receiver, or the future of a subscribe call that
\* waits for the connection or for LISTEN.
Drop(s) ==
  /\ sub[s].pc \in {"spawn", "listen", "live"}
  /\ Leave(s)
  /\ UNCHANGED <<slot, lst, emitted, deaths>>

-----------------------------------------------------------------------------
(* The watcher task.                                                        *)

\* A committed write notifies every connection that LISTENs (emit_event).
Emit(c) ==
  /\ emitted[c] < MaxEvents
  /\ emitted' = [emitted EXCEPT ![c] = @ + 1]
  /\ lst' = [l \in Listeners |->
       IF lst[l].phase = "up" /\ c \in lst[l].listening
       THEN [lst[l] EXCEPT !.inbox = Append(@, <<c, emitted[c] + 1>>)] ELSE lst[l]]
  /\ UNCHANGED <<slot, sub, deaths>>

\* Mutant: a full buffer swallows the new event.
SentIfRoom(x, id) == IF Len(x.buf) < Cap THEN [x EXCEPT !.buf = Append(@, id)] ELSE x

\* Mutant: the buffer grows without bound.
SentAlways(x, id) == [x EXCEPT !.buf = Append(@, id)]

\* Mutant: what a full buffer loses is not reported.
SentQuietly(x, id) ==
  IF Len(x.buf) < Cap THEN [x EXCEPT !.buf = Append(@, id)]
  ELSE [x EXCEPT !.buf = Append(Tail(@), id)]

\* broadcast::Sender::send: a full buffer loses its oldest event, and the
\* receiver will be told.
Sent(x, id) ==
  IF Len(x.buf) < Cap THEN [x EXCEPT !.buf = Append(@, id)]
  ELSE [x EXCEPT !.buf = Append(Tail(@), id), !.lagged = TRUE]

\* tx.send(raw) to the channel's receivers, if the map has a Sender for it.
Pump(l) ==
  /\ lst[l].phase = "up" /\ lst[l].inbox # <<>>
  /\ LET c  == Head(lst[l].inbox)[1]
         id == Head(lst[l].inbox)[2] IN
     /\ lst' = [lst EXCEPT ![l].inbox = Tail(@)]
     /\ sub' = [u \in Subs |->
          IF sub[u].lsn = l /\ sub[u].chan = c /\ sub[u].open
          THEN Sent(sub[u], id) ELSE sub[u]]
  /\ UNCHANGED <<slot, emitted, deaths>>

\* The connection ends under its receivers: terminated, reset, or the task
\* panics.  The stream is dropped before the exit guard.
Die(l) ==
  /\ lst[l].phase = "up" /\ Strong(l) /\ deaths < MaxDeaths
  /\ lst' = [lst EXCEPT ![l].phase = "closed", ![l].inbox = <<>>]
  /\ deaths' = deaths + 1
  /\ UNCHANGED <<slot, sub, emitted>>

\* The last Arc is gone, and the client with it: the stream ends.
Retire(l) ==
  /\ lst[l].phase = "up" /\ ~Strong(l)
  /\ lst' = [lst EXCEPT ![l].phase = "closed", ![l].inbox = <<>>]
  /\ UNCHANGED <<slot, sub, emitted, deaths>>

\* Mutant: the exit guard leaves the Senders in the map.
GuardLeaves(l) ==
  /\ lst' = [lst EXCEPT ![l].phase = "cleared"]
  /\ UNCHANGED sub

\* close_all_senders
GuardClears(l) ==
  /\ lst' = [lst EXCEPT ![l].phase = "cleared", ![l].has = {}]
  /\ sub' = Closed(l, Chans)

CloseAll(l) ==
  /\ lst[l].phase = "closed"
  /\ GuardClears(l)
  /\ UNCHANGED <<slot, emitted, deaths>>

\* failed.store(true)
PublishFailed(l) ==
  /\ lst[l].phase = "cleared"
  /\ lst' = [lst EXCEPT ![l].phase = "failed"]
  /\ UNCHANGED <<slot, sub, emitted, deaths>>

-----------------------------------------------------------------------------

\* What a subscribe call does between its awaits and at them.
Proceed(s) ==
  \/ Lookup(s) \/ Check(s) \/ Reap(s) \/ Spawn(s) \/ Install(s)
  \/ Fast(s) \/ Insert(s) \/ Late(s) \/ Cleanup(s) \/ Listen(s)

Watch(l) == Pump(l) \/ Retire(l) \/ CloseAll(l) \/ PublishFailed(l)

Next ==
  \/ \E s \in Subs : Proceed(s) \/ Recv(s) \/ Drop(s)
  \/ \E s \in Subs, c \in Chans : Subscribe(s, c)
  \/ \E l \in Listeners : Watch(l) \/ Die(l)
  \/ \E c \in Chans : Emit(c)

Spec == Init /\ [][Next]_vars

\* The executor runs every task that can go on.
FairSpec ==
  /\ Spec
  /\ \A s \in Subs : WF_vars(Proceed(s)) /\ WF_vars(Recv(s))
  /\ \A l \in Listeners : WF_vars(Watch(l))

-----------------------------------------------------------------------------
(* Properties.                                                              *)

\* The registry never loses a listener that is alive and in use: a caller that
\* saw an older one fail must not erase its replacement (remove_if_current,
\* install_or_lose).
RegistryKeepsHealthy ==
  [][Strong(slot) /\ ~Failed(slot) => slot' = slot]_vars

\* All calls and receivers of a pool that hold a connected listener hold the
\* same one, however first calls and respawns race.
OneListener ==
  \A s, u \in Subs :
    LET l == sub[s].lsn
        m == sub[u].lsn IN
    l # None /\ m # None /\ lst[l].phase = "up" /\ lst[m].phase = "up" => l = m

\* No receiver that subscribe returned waits on a Sender that no watcher will
\* drive any more (GH#131): once the exit guard has run, its channel is closed,
\* even for a subscribe call that slipped in between clear and publish.
NoDeafReceiver ==
  \A s \in Subs : sub[s].pc = "live" /\ sub[s].open =>
    lst[sub[s].lsn].phase \in {"up", "closed"}

Elements(q) == {q[i] : i \in 1..Len(q)}
Waiting(l, c) == {q[2] : q \in {p \in Elements(lst[l].inbox) : p[1] = c}}

\* Every event committed after subscribe returned is on its way to the receiver,
\* received, or reported by ChannelLagged, as long as the connection stands; and
\* what is buffered is in commit order.
NothingLostSilently ==
  \A s \in Subs : sub[s].pc = "live" /\ lst[sub[s].lsn].phase = "up" =>
    /\ \A id \in (sub[s].base + 1)..emitted[sub[s].chan] :
         \/ id \in sub[s].seen \cup Elements(sub[s].buf)
         \/ id \in Waiting(sub[s].lsn, sub[s].chan)
         \/ sub[s].lagged /\ id < Head(sub[s].buf)
    /\ \A i, j \in 1..Len(sub[s].buf) : i < j => sub[s].buf[i] < sub[s].buf[j]

\* What a subscription promises (NotifyPromise): the events of its channel in
\* commit order, once each, without a gap that a ChannelLagged does not announce
\* (recv), although receivers share a listener's Senders, a full buffer loses its
\* oldest events and the connection may end under them.
Promise == INSTANCE NotifyPromise WITH
  stream <- [s \in Subs |->
    IF sub[s].pc = "live"
    THEN [chan |-> sub[s].chan, base |-> sub[s].base, seen |-> sub[s].seen]
    ELSE [chan |-> None, base |-> 0, seen |-> {}]]
PromiseSpec == Promise!PSpec

\* A receiver whose connection is gone is told so (ListenerTerminated).
TerminationNoticed ==
  \A s \in Subs :
    (sub[s].pc = "live" /\ lst[sub[s].lsn].phase # "up") ~> sub[s].pc # "live"

\* A subscribe call returns, whatever other calls do to the registry.
SubscribeReturns ==
  \A s \in Subs : sub[s].pc = "lookup" ~> sub[s].pc \in {"live", "idle"}

=============================================================================
