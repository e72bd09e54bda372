---------------------------- MODULE NotifyProofs ----------------------------
(***************************************************************************)
(* What Notify promises for any subscribers, listeners, channels and       *)
(* buffer size.                                                            *)
(***************************************************************************)
EXTENDS Notify, TLAPS

\* What the program counter of a call says about the Arcs and the receiver it
\* holds.
Holding(s) ==
  /\ sub[s].lsn = None <=> sub[s].pc \in {"idle", "lookup", "spawn", "install"}
  /\ sub[s].pc = "install" <=> sub[s].cand # None
  /\ sub[s].pc # "idle" => sub[s].chan # None
  /\ sub[s].open \/ sub[s].buf # <<>> =>
       sub[s].pc \in {"late", "cleanup", "listen", "live"}
  /\ sub[s].lagged => sub[s].buf # <<>>

\* A call and the listener it holds: a connected one is the registry's, has the
\* call's Sender in its map and LISTENs on the channel.
Tied(s) ==
  LET l == sub[s].lsn IN
  /\ sub[s].pc \in {"reap", "cleanup"} => Failed(l)
  /\ sub[s].pc = "live" /\ sub[s].open => lst[l].phase \in {"up", "closed"}
  /\ l # None /\ lst[l].phase = "up" =>
       /\ slot = l
       /\ sub[s].pc \in {"late", "listen", "live"} => sub[s].open
       /\ sub[s].pc = "live" => sub[s].chan \in lst[l].listening

\* Buffer q of a receiver on channel c: in commit order, with no event after e,
\* and ahead of everything in inbox p.
Orderly(q, c, p, e) ==
  /\ \A i, j \in 1..Len(q) : i < j => q[i] < q[j]
  /\ \A i \in 1..Len(q) : q[i] <= e
  /\ \A i \in 1..Len(q), j \in 1..Len(p) : p[j][1] = c => q[i] < p[j][2]

\* Inbox p is in commit order, channel by channel, with no event after m[c].
Sorted(p, m) ==
  /\ \A i \in 1..Len(p) : p[i][2] <= m[p[i][1]]
  /\ \A i, j \in 1..Len(p) : i < j /\ p[i][1] = p[j][1] => p[i][2] < p[j][2]

\* Where event id of receiver x is, whose watcher has still to pump p.
Within(x, id, p) ==
  \/ id \in x.seen
  \/ \E i \in 1..Len(x.buf) : x.buf[i] = id
  \/ \E j \in 1..Len(p) : p[j][1] = x.chan /\ p[j][2] = id
  \/ x.lagged /\ id < x.buf[1]

\* A call's buffer is in order and ahead of what its watcher has still to pump.
Ahead(s) ==
  sub[s].lsn # None =>
    Orderly(sub[s].buf, sub[s].chan, lst[sub[s].lsn].inbox, emitted[sub[s].chan])

\* A live receiver of a connected listener has, or will get, every event since
\* its LISTEN, or has been told that it missed some.
Accounted(s) ==
  sub[s].pc = "live" /\ lst[sub[s].lsn].phase = "up" =>
    \A id \in (sub[s].base + 1)..emitted[sub[s].chan] :
      Within(sub[s], id, lst[sub[s].lsn].inbox)

\* A watcher's inbox is in commit order.
Inbox(l) == Sorted(lst[l].inbox, emitted)

Calls == \A s \in Subs : Holding(s) /\ Tied(s)
Events == /\ \A s \in Subs : Ahead(s) /\ Accounted(s)
          /\ \A l \in Listeners : Inbox(l)

\* The inductive invariant.  Calls is what makes the three mutex sections safe
\* together: a call that has left the registry still holds a listener whose
\* phase it cannot see, and only its Sender's presence in the map, or the
\* listener's failure, keeps it from waiting for ever.  Events orders each
\* buffer before its inbox, so that what a full buffer overwrites is always
\* older than what is left: that is what makes one Lagged enough.
NotifyInv == TypeOK /\ Calls /\ Events

-----------------------------------------------------------------------------
\* A call that holds nothing.
LEMMA IdleFacts ==
  /\ Idle \in Sub /\ Idle.pc = "idle" /\ Idle.lsn = None /\ Idle.cand = None
  /\ Idle.buf = <<>> /\ ~Idle.open /\ ~Idle.lagged /\ Len(Idle.buf) = 0
  BY LimitsAssumption DEF Idle, Sub

\* The empty registry.
LEMMA InitInv == ASSUME Init PROVE NotifyInv
  <1>1. TypeOK
    <2>1. FreeListener \in Listener BY DEF FreeListener, Listener
    <2> QED BY <2>1, IdleFacts, LimitsAssumption DEF Init, TypeOK
  <1>2. \A s \in Subs : sub[s] = Idle BY DEF Init
  <1>3. Calls BY <1>2, IdleFacts DEF Calls, Holding, Tied
  <1>4. ASSUME NEW s \in Subs PROVE Ahead(s) /\ Accounted(s)
    BY <1>2, IdleFacts DEF Ahead, Accounted
  <1>5. ASSUME NEW l \in Listeners PROVE Inbox(l)
    <2>1. lst[l].inbox = <<>> BY DEF Init, FreeListener
    <2> QED BY <2>1 DEF Inbox, Sorted
  <1> QED BY <1>1, <1>3, <1>4, <1>5 DEF NotifyInv, Events

\* A step of one call that changes nothing but the call and the slot.
LEMMA OwnStep ==
  ASSUME NotifyInv, NEW s \in Subs, NEW x \in Sub, Len(x.buf) <= Cap,
         sub' = [sub EXCEPT ![s] = x], slot' \in Listeners \cup {None},
         UNCHANGED <<lst, emitted, deaths>>,
         \A u \in Subs \ {s} :
           sub[u].lsn # None /\ lst[sub[u].lsn].phase = "up" => slot' = sub[u].lsn,
         Holding(s)', Tied(s)', Ahead(s)', Accounted(s)'
  PROVE  NotifyInv'
  <1> USE DEF NotifyInv
  <1>1. \A u \in Subs \ {s} : sub'[u] = sub[u] BY DEF TypeOK
  <1>2. TypeOK' BY DEF TypeOK
  <1>3. ASSUME NEW u \in Subs \ {s} PROVE (Holding(u) /\ Tied(u) /\ Ahead(u) /\ Accounted(u))'
    <2>1. Holding(u)' BY <1>1 DEF Calls, Holding
    <2>2. Tied(u)'
      <3>1. Tied(u) BY DEF Calls
      <3> QED BY <1>1, <3>1 DEF Tied, Failed
    <2>3. Ahead(u)'
      <3>1. Ahead(u) BY DEF Events
      <3> QED BY <1>1, <3>1 DEF Ahead
    <2>4. Accounted(u)'
      <3>1. Accounted(u) BY DEF Events
      <3> QED BY <1>1, <3>1 DEF Accounted
    <2> QED BY <2>1, <2>2, <2>3, <2>4
  <1>4. \A l \in Listeners : Inbox(l)' BY DEF Events, Inbox
  <1> QED BY <1>2, <1>3, <1>4 DEF Calls, Events

\* An empty inbox is in order.
LEMMA SortedEmpty == \A m : Sorted(<<>>, m)
  BY DEF Sorted

\* An empty buffer is in order.
LEMMA OrderlyEmpty == \A c, p, e : Orderly(<<>>, c, p, e)
  BY DEF Orderly

\* The listener another call holds keeps the slot.
LEMMA SlotHeld ==
  ASSUME NotifyInv, NEW u \in Subs, sub[u].lsn # None, lst[sub[u].lsn].phase = "up"
  PROVE  /\ slot = sub[u].lsn /\ Strong(slot) /\ ~Failed(slot)
         /\ slot \in Listeners
  BY DEF NotifyInv, TypeOK, Sub, Calls, Tied, Strong, Failed

\* A call that returns an error, or is dropped, leaves nothing behind.
LEMMA LeaveInv ==
  ASSUME NotifyInv, NEW s \in Subs, Leave(s), UNCHANGED <<slot, lst, emitted, deaths>>
  PROVE  NotifyInv'
  <1>1. sub'[s] = Idle BY DEF Leave, NotifyInv, TypeOK
  <1>2. Holding(s)' /\ Tied(s)' BY <1>1, IdleFacts DEF Holding, Tied
  <1>3. Ahead(s)' /\ Accounted(s)' BY <1>1, IdleFacts DEF Ahead, Accounted
  <1>4. \A u \in Subs :
          sub[u].lsn # None /\ lst[sub[u].lsn].phase = "up" => slot' = sub[u].lsn
    BY SlotHeld
  <1>5. slot' \in Listeners \cup {None} BY DEF NotifyInv, TypeOK
  <1>6. Len(Idle.buf) <= Cap /\ Idle \in Sub BY IdleFacts, LimitsAssumption
  <1> QED BY <1>2, <1>3, <1>4, <1>5, <1>6, OwnStep DEF Leave

\* A call that has not its receiver yet takes a step of its own and becomes x.
LEMMA Advance ==
  ASSUME NotifyInv, NEW s \in Subs, NEW x \in Sub,
         x.pc \in {"lookup", "check", "reap", "spawn", "fast", "insert"},
         x.cand = None, x.chan # None, x.buf = <<>>, ~x.open, ~x.lagged,
         sub' = [sub EXCEPT ![s] = x],
         slot' \in Listeners \cup {None},
         UNCHANGED <<lst, emitted, deaths>>,
         x.lsn = None <=> x.pc \in {"lookup", "spawn"},
         x.pc = "reap" => Failed(x.lsn),
         \A u \in Subs \ {s} :
           sub[u].lsn # None /\ lst[sub[u].lsn].phase = "up" => slot' = sub[u].lsn,
         x.lsn # None /\ lst[x.lsn].phase = "up" => slot' = x.lsn
  PROVE  NotifyInv'
  <1>1. sub'[s] = x BY DEF NotifyInv, TypeOK
  <1>2. Holding(s)' BY <1>1 DEF Holding
  <1>3. Tied(s)' BY <1>1 DEF Tied, Failed
  <1>4. Ahead(s)' /\ Accounted(s)' BY <1>1, OrderlyEmpty DEF Ahead, Accounted
  <1>5. Len(x.buf) <= Cap BY LimitsAssumption
  <1> QED BY <1>2, <1>3, <1>4, <1>5, OwnStep

\* subscribe and get_or_start_listener, up to the Sender: the registry keeps the
\* listener that is in use, whoever races.
LEMMA FindInv ==
  ASSUME NotifyInv, NEW s \in Subs,
         \/ \E c \in Chans : Subscribe(s, c)
         \/ Lookup(s) \/ Check(s) \/ Reap(s) \/ Install(s) \/ Fast(s)
  PROVE  NotifyInv'
  <1> USE NoneAssumption
  <1>1. PICK y \in Sub : y = sub[s] BY DEF NotifyInv, TypeOK
  <1>2. Holding(s) /\ Tied(s) BY DEF NotifyInv, Calls
  <1>3. \A u \in Subs :
          sub[u].lsn # None /\ lst[sub[u].lsn].phase = "up" =>
            slot = sub[u].lsn /\ Strong(slot) /\ ~Failed(slot)
    BY SlotHeld
  <1>4. slot \in Listeners \cup {None} /\ DOMAIN sub = Subs BY DEF NotifyInv, TypeOK
  <1>5. y.buf = <<>> /\ ~y.open /\ ~y.lagged /\ (y.pc # "idle" => y.chan # None)
    BY <1>1, <1>2 DEF Holding, Subscribe, Lookup, Check, Reap, Install, Fast
  <1>6. ASSUME NEW c \in Chans, Subscribe(s, c) PROVE NotifyInv'
    <2> DEFINE x == [y EXCEPT !.pc = "lookup", !.chan = c]
    <2>1. sub' = [sub EXCEPT ![s] = x] /\ UNCHANGED <<slot, lst, emitted, deaths>>
      BY <1>1, <1>4, <1>6 DEF Subscribe
    <2>2. /\ x \in Sub /\ x.pc = "lookup" /\ x.lsn = None /\ x.cand = None
          /\ x.chan # None /\ x.buf = <<>> /\ ~x.open /\ ~x.lagged
      BY <1>1, <1>2, <1>5, <1>6 DEF Subscribe, Holding, Sub
    <2> HIDE DEF x
    <2> QED BY <1>3, <1>4, <2>1, <2>2, Advance
  <1>7. CASE Lookup(s)
    <2>1. CASE /\ Strong(slot) /\ UNCHANGED slot
               /\ sub' = [sub EXCEPT ![s].pc = "check", ![s].lsn = slot]
      <3> DEFINE x == [y EXCEPT !.pc = "check", !.lsn = slot]
      <3>1. sub' = [sub EXCEPT ![s] = x] /\ UNCHANGED <<slot, lst, emitted, deaths>>
        BY <1>1, <1>4, <1>7, <2>1 DEF Lookup
      <3>2. /\ x \in Sub /\ x.pc = "check" /\ x.lsn = slot /\ x.lsn # None
            /\ x.cand = None
            /\ x.chan # None /\ x.buf = <<>> /\ ~x.open /\ ~x.lagged
        BY <1>1, <1>2, <1>4, <1>5, <1>7, <2>1 DEF Lookup, Strong, Holding, Sub
      <3> HIDE DEF x
      <3> QED BY <1>3, <1>4, <3>1, <3>2, Advance
    <2>2. CASE ~Strong(slot) /\ Goto(s, "spawn") /\ slot' = None
      <3> DEFINE x == [y EXCEPT !.pc = "spawn"]
      <3>1. sub' = [sub EXCEPT ![s] = x] /\ UNCHANGED <<lst, emitted, deaths>>
        BY <1>1, <1>4, <1>7, <2>2 DEF Lookup, Goto
      <3>2. /\ x \in Sub /\ x.pc = "spawn" /\ x.lsn = None /\ x.cand = None
            /\ x.chan # None /\ x.buf = <<>> /\ ~x.open /\ ~x.lagged
        BY <1>1, <1>2, <1>5, <1>7 DEF Lookup, Holding, Sub
      <3> HIDE DEF x
      <3> QED BY <1>3, <2>2, <3>1, <3>2, Advance
    <2> QED BY <1>7, <2>1, <2>2 DEF Lookup
  <1>8. CASE Check(s)
    <2> DEFINE x == [y EXCEPT !.pc = IF Failed(y.lsn) THEN "reap" ELSE "fast"]
    <2>1. sub' = [sub EXCEPT ![s] = x] /\ UNCHANGED <<slot, lst, emitted, deaths>>
      BY <1>1, <1>4, <1>8 DEF Check, Goto
    <2>2. /\ x \in Sub /\ x.pc \in {"reap", "fast"} /\ x.lsn = y.lsn /\ x.lsn # None
          /\ x.cand = None /\ (x.pc = "reap" => Failed(x.lsn))
          /\ x.chan # None /\ x.buf = <<>> /\ ~x.open /\ ~x.lagged
      BY <1>1, <1>2, <1>5, <1>8 DEF Check, Holding, Sub
    <2> HIDE DEF x
    <2> QED BY <1>1, <1>3, <1>4, <2>1, <2>2, Advance
  <1>9. CASE Reap(s)
    <2> DEFINE x == [y EXCEPT !.pc = IF Removes(y.lsn) THEN "spawn" ELSE "lookup",
                              !.lsn = None]
    <2>1. /\ sub' = [sub EXCEPT ![s] = x] /\ UNCHANGED <<lst, emitted, deaths>>
          /\ slot' = IF Removes(y.lsn) THEN None ELSE slot
      BY <1>1, <1>4, <1>9 DEF Reap
    <2>2. /\ x \in Sub /\ x.pc \in {"spawn", "lookup"} /\ x.lsn = None
          /\ x.cand = None
          /\ x.chan # None /\ x.buf = <<>> /\ ~x.open /\ ~x.lagged
      BY <1>1, <1>2, <1>5, <1>9 DEF Reap, Holding, Sub
    <2>3. Failed(y.lsn) BY <1>1, <1>2, <1>9 DEF Reap, Tied
    <2>4. \A u \in Subs :
            sub[u].lsn # None /\ lst[sub[u].lsn].phase = "up" => slot' = sub[u].lsn
      BY <1>3, <2>1, <2>3 DEF Removes
    <2> HIDE DEF x
    <2> QED BY <1>4, <2>1, <2>2, <2>4, Advance
  <1>10. CASE Install(s)
    <2>1. PICK l \in Listeners : l = IF KeepsExisting THEN slot ELSE y.cand
      BY <1>1, <1>2, <1>4, <1>10 DEF Install, KeepsExisting, Strong, Holding, Sub
    <2> DEFINE x == [y EXCEPT !.pc = "fast", !.lsn = l, !.cand = None]
    <2>2. /\ sub' = [sub EXCEPT ![s] = x] /\ UNCHANGED <<lst, emitted, deaths>>
          /\ slot' = l
      BY <1>1, <1>4, <1>10, <2>1 DEF Install
    <2>3. /\ x \in Sub /\ x.pc = "fast" /\ x.lsn = l /\ x.lsn # None
          /\ x.cand = None
          /\ x.chan # None /\ x.buf = <<>> /\ ~x.open /\ ~x.lagged
      BY <1>1, <1>2, <1>5, <1>10, <2>1 DEF Install, Holding, Sub
    <2>4. \A u \in Subs :
            sub[u].lsn # None /\ lst[sub[u].lsn].phase = "up" => slot' = sub[u].lsn
      BY <1>3, <2>1, <2>2 DEF KeepsExisting
    <2> HIDE DEF x
    <2> QED BY <2>2, <2>3, <2>4, Advance
  <1>11. CASE Fast(s)
    <2>1. CASE Failed(sub[s].lsn) BY <1>11, <2>1, LeaveInv DEF Fast
    <2>2. CASE ~Failed(sub[s].lsn)
      <3> DEFINE x == [y EXCEPT !.pc = "insert"]
      <3>1. sub' = [sub EXCEPT ![s] = x] /\ UNCHANGED <<slot, lst, emitted, deaths>>
        BY <1>1, <1>4, <1>11, <2>2 DEF Fast, Goto
      <3>2. /\ x \in Sub /\ x.pc = "insert" /\ x.lsn = y.lsn /\ x.lsn # None
            /\ x.cand = None
            /\ x.chan # None /\ x.buf = <<>> /\ ~x.open /\ ~x.lagged
        BY <1>1, <1>2, <1>5, <1>11 DEF Fast, Holding, Sub
      <3> HIDE DEF x
      <3> QED BY <1>1, <1>3, <1>4, <3>1, <3>2, Advance
    <2> QED BY <2>1, <2>2
  <1> QED BY <1>6, <1>7, <1>8, <1>9, <1>10, <1>11

-----------------------------------------------------------------------------
(* The receiver.                                                            *)

\* Head and Tail, index by index.
LEMMA TailFacts ==
  ASSUME NEW S, NEW q \in Seq(S), q # <<>>
  PROVE  /\ Len(q) \in Nat \ {0} /\ Head(q) = q[1] /\ q[1] \in S
         /\ Tail(q) \in Seq(S) /\ Len(Tail(q)) = Len(q) - 1
         /\ \A i \in 1..(Len(q) - 1) : Tail(q)[i] = q[i + 1]
  OBVIOUS

\* Append, index by index.
LEMMA AppendFacts ==
  ASSUME NEW S, NEW q \in Seq(S), NEW x \in S
  PROVE  /\ Append(q, x) \in Seq(S) /\ Len(Append(q, x)) = Len(q) + 1
         /\ Append(q, x)[Len(q) + 1] = x
         /\ \A i \in 1..Len(q) : Append(q, x)[i] = q[i]
  OBVIOUS

\* A call none of whose listener's queue, connection or slot a step changes.
LEMMA Undisturbed ==
  ASSUME NotifyInv, NEW u \in Subs, sub'[u] = sub[u], emitted' = emitted,
         sub[u].lsn # None =>
           /\ lst'[sub[u].lsn].phase = lst[sub[u].lsn].phase
           /\ lst'[sub[u].lsn].inbox = lst[sub[u].lsn].inbox
           /\ lst[sub[u].lsn].listening \subseteq lst'[sub[u].lsn].listening,
         sub[u].lsn # None /\ lst[sub[u].lsn].phase = "up" => slot' = slot
  PROVE  (Holding(u) /\ Tied(u) /\ Ahead(u) /\ Accounted(u))'
  <1>1. Holding(u) /\ Tied(u) /\ Ahead(u) /\ Accounted(u)
    BY DEF NotifyInv, Calls, Events
  <1>2. Holding(u)' BY <1>1 DEF Holding
  <1>3. Tied(u)' BY <1>1 DEF Tied, Failed, Holding
  <1>4. Ahead(u)' BY <1>1 DEF Ahead
  <1>5. Accounted(u)' BY <1>1 DEF Accounted, Holding
  <1> QED BY <1>2, <1>3, <1>4, <1>5

\* A new connection.
LEMMA FreshFacts ==
  LET n == [FreeListener EXCEPT !.phase = "up"]
  IN  n \in Listener /\ n.inbox = <<>>
  <1>1. FreeListener \in Listener BY DEF FreeListener, Listener
  <1>2. FreeListener.inbox = <<>> BY DEF FreeListener
  <1> QED BY <1>1, <1>2 DEF Listener

\* spawn_listener: the new allocation is nobody's yet.
LEMMA SpawnInv ==
  ASSUME NotifyInv, NEW s \in Subs, Spawn(s) PROVE NotifyInv'
  <1> USE NoneAssumption DEF NotifyInv
  <1>1. CASE Leave(s) /\ UNCHANGED lst BY <1>1, LeaveInv DEF Spawn
  <1>2. ASSUME NEW l \in Listeners, ~Strong(l),
               lst' = [lst EXCEPT ![l] = [FreeListener EXCEPT !.phase = "up"]],
               sub' = [sub EXCEPT ![s].pc = "install", ![s].cand = l]
        PROVE  NotifyInv'
    <2>1. PICK y \in Sub : y = sub[s] BY DEF TypeOK
    <2> DEFINE x == [y EXCEPT !.pc = "install", !.cand = l]
               n == [FreeListener EXCEPT !.phase = "up"]
    <2>2. sub' = [sub EXCEPT ![s] = x] BY <1>2, <2>1 DEF TypeOK
    <2>3. Holding(s) /\ y.pc = "spawn" BY <2>1 DEF Calls, Spawn
    <2>4. /\ x \in Sub /\ x.pc = "install" /\ x.lsn = None /\ x.cand = l
          /\ x.chan # None /\ x.buf = <<>> /\ ~x.open /\ ~x.lagged
      BY <2>1, <2>3 DEF Holding, Sub
    <2>5. n \in Listener /\ n.inbox = <<>> BY FreshFacts
    <2> HIDE DEF x, n
    <2>6. /\ sub'[s] = x /\ \A u \in Subs \ {s} : sub'[u] = sub[u]
          /\ lst'[l] = n /\ \A k \in Listeners \ {l} : lst'[k] = lst[k]
      BY <1>2, <2>2 DEF TypeOK, n
    <2>7. UNCHANGED <<slot, emitted, deaths>> BY DEF Spawn
    <2>8. TypeOK'
      <3>1. Len(x.buf) <= Cap BY <2>4, LimitsAssumption
      <3>2. sub' \in [Subs -> Sub] BY <2>2, <2>4 DEF TypeOK
      <3>3. lst' \in [Listeners -> Listener] BY <1>2, <2>5 DEF TypeOK, n
      <3> QED BY <2>6, <2>7, <3>1, <3>2, <3>3 DEF TypeOK
    <2>9. (Holding(s) /\ Tied(s) /\ Ahead(s) /\ Accounted(s))'
      <3>1. Holding(s)' BY <2>4, <2>6 DEF Holding
      <3>2. Tied(s)' BY <2>4, <2>6 DEF Tied
      <3>3. Ahead(s)' /\ Accounted(s)' BY <2>4, <2>6, OrderlyEmpty DEF Ahead, Accounted
      <3> QED BY <3>1, <3>2, <3>3
    <2>10. ASSUME NEW u \in Subs \ {s}
           PROVE  (Holding(u) /\ Tied(u) /\ Ahead(u) /\ Accounted(u))'
      <3>1. sub[u].lsn # None => sub[u].lsn \in Listeners \ {l}
        BY <1>2 DEF Strong, TypeOK, Sub
      <3> QED BY <2>6, <2>7, <3>1, Undisturbed
    <2>11. ASSUME NEW k \in Listeners PROVE Inbox(k)'
      <3>1. CASE k = l BY <2>5, <2>6, <3>1, SortedEmpty DEF Inbox
      <3>2. CASE k # l BY <2>6, <2>7, <3>2 DEF Events, Inbox
      <3> QED BY <3>1, <3>2
    <2> QED BY <2>8, <2>9, <2>10, <2>11 DEF Calls, Events
  <1> QED BY <1>1, <1>2 DEF Spawn

\* A call that has its listener changes that listener's Senders or channels, and
\* its own receiver to x.
LEMMA OwnListener ==
  ASSUME NotifyInv, NEW s \in Subs, NEW x \in Sub, Len(x.buf) <= Cap,
         NEW n \in Listener, NEW l \in Listeners,
         sub' = [sub EXCEPT ![s] = x], lst' = [lst EXCEPT ![l] = n],
         n.phase = lst[l].phase, n.inbox = lst[l].inbox,
         lst[l].listening \subseteq n.listening,
         UNCHANGED <<slot, emitted, deaths>>,
         Holding(s)', Tied(s)', Ahead(s)', Accounted(s)'
  PROVE  NotifyInv'
  <1> USE DEF NotifyInv
  <1>1. /\ \A u \in Subs \ {s} : sub'[u] = sub[u]
        /\ \A k \in Listeners :
             /\ lst'[k].phase = lst[k].phase /\ lst'[k].inbox = lst[k].inbox
             /\ lst[k].listening \subseteq lst'[k].listening
    BY DEF TypeOK
  <1>2. TypeOK' BY DEF TypeOK
  <1>3. ASSUME NEW u \in Subs \ {s}
        PROVE  (Holding(u) /\ Tied(u) /\ Ahead(u) /\ Accounted(u))'
    <2>1. sub[u].lsn # None => sub[u].lsn \in Listeners BY DEF TypeOK, Sub
    <2> QED BY <1>1, <2>1, Undisturbed
  <1>4. \A k \in Listeners : Inbox(k)' BY <1>1 DEF Events, Inbox
  <1> QED BY <1>2, <1>3, <1>4 DEF Calls, Events

\* The Sender enters the map and the call has its receiver.
LEMMA InsertInv ==
  ASSUME NotifyInv, NEW s \in Subs, Insert(s) PROVE NotifyInv'
  <1> USE NoneAssumption
  <1>1. PICK y \in Sub : y = sub[s] BY DEF NotifyInv, TypeOK
  <1>2. Holding(s) /\ Tied(s) BY DEF NotifyInv, Calls
  <1>3. y.lsn \in Listeners /\ y.pc = "insert" BY <1>1, <1>2 DEF Insert, Holding, Sub
  <1>4. PICK m \in Listener : m = lst[y.lsn] BY <1>3 DEF NotifyInv, TypeOK
  <1> DEFINE x == [y EXCEPT !.pc = "late", !.open = TRUE]
             n == [m EXCEPT !.has = @ \cup {y.chan}]
  <1>5. sub' = [sub EXCEPT ![s] = x] /\ lst' = [lst EXCEPT ![y.lsn] = n]
        /\ UNCHANGED <<slot, emitted, deaths>>
    BY <1>1, <1>4 DEF Insert, NotifyInv, TypeOK
  <1>6. /\ n \in Listener /\ n.phase = m.phase /\ n.inbox = m.inbox
        /\ n.listening = m.listening
    BY <1>1, <1>2, <1>3 DEF Listener, Holding, Sub
  <1>7. /\ x \in Sub /\ x.pc = "late" /\ x.lsn = y.lsn /\ x.cand = None
        /\ x.chan # None /\ x.buf = <<>> /\ x.open /\ ~x.lagged
    BY <1>1, <1>2, <1>3 DEF Holding, Sub
  <1> HIDE DEF x, n
  <1>8. sub'[s] = x /\ lst'[y.lsn] = n BY <1>3, <1>5 DEF NotifyInv, TypeOK
  <1>9. Holding(s)' BY <1>3, <1>7, <1>8 DEF Holding
  <1>10. Tied(s)' BY <1>1, <1>2, <1>3, <1>4, <1>5, <1>6, <1>7, <1>8 DEF Tied
  <1>11. Ahead(s)' /\ Accounted(s)' BY <1>7, <1>8, OrderlyEmpty DEF Ahead, Accounted
  <1>12. Len(x.buf) <= Cap BY <1>7, LimitsAssumption
  <1> QED BY <1>3, <1>4, <1>5, <1>6, <1>7, <1>9, <1>10, <1>11, <1>12, OwnListener

\* LISTEN succeeds only on a connection that stands: from here on the receiver
\* misses nothing.
LEMMA ListenInv ==
  ASSUME NotifyInv, NEW s \in Subs, Listen(s) PROVE NotifyInv'
  <1> USE NoneAssumption
  <1>1. PICK y \in Sub : y = sub[s] BY DEF NotifyInv, TypeOK
  <1>2. Holding(s) /\ Tied(s) /\ Ahead(s) BY DEF NotifyInv, Calls, Events
  <1>3. y.lsn \in Listeners /\ y.pc = "listen" /\ y.chan \in Chans
    BY <1>1, <1>2 DEF Listen, Holding, Sub
  <1>4. PICK m \in Listener : m = lst[y.lsn] BY <1>3 DEF NotifyInv, TypeOK
  <1>5. CASE Leave(s) /\ UNCHANGED lst BY <1>5, LeaveInv DEF Listen
  <1>6. CASE /\ m.phase = "up"
             /\ lst' = [lst EXCEPT ![y.lsn].listening = @ \cup {y.chan}]
             /\ sub' = [sub EXCEPT ![s].pc = "live", ![s].base = emitted[y.chan]]
    <2> DEFINE x == [y EXCEPT !.pc = "live", !.base = emitted[y.chan]]
               n == [m EXCEPT !.listening = @ \cup {y.chan}]
    <2>1. sub' = [sub EXCEPT ![s] = x] /\ lst' = [lst EXCEPT ![y.lsn] = n]
          /\ UNCHANGED <<slot, emitted, deaths>>
      BY <1>1, <1>4, <1>6 DEF Listen, NotifyInv, TypeOK
    <2>2. /\ n \in Listener /\ n.phase = m.phase /\ n.inbox = m.inbox
          /\ n.listening = m.listening \cup {y.chan}
      BY <1>3 DEF Listener
    <2>3. emitted[y.chan] \in 0..MaxEvents BY <1>3 DEF NotifyInv, TypeOK
    <2>4. /\ x \in Sub /\ x.pc = "live" /\ x.lsn = y.lsn /\ x.cand = y.cand
          /\ x.chan = y.chan /\ x.buf = y.buf /\ x.open = y.open /\ x.lagged = y.lagged
          /\ x.base = emitted[y.chan]
      BY <1>3, <2>3 DEF Sub
    <2> HIDE DEF x, n
    <2>5. sub'[s] = x /\ lst'[y.lsn] = n BY <1>3, <2>1 DEF NotifyInv, TypeOK
    <2>6. Holding(s)' BY <1>1, <1>2, <1>3, <2>4, <2>5 DEF Holding
    <2>7. Tied(s)' BY <1>1, <1>2, <1>3, <1>4, <1>6, <2>1, <2>2, <2>4, <2>5 DEF Tied
    <2>8. Ahead(s)' BY <1>1, <1>2, <1>3, <1>4, <2>1, <2>2, <2>4, <2>5 DEF Ahead
    <2>9. Accounted(s)' BY <2>1, <2>3, <2>4, <2>5 DEF Accounted
    <2>10. Len(x.buf) <= Cap BY <1>1, <2>4 DEF NotifyInv, TypeOK
    <2> QED BY <1>3, <1>4, <2>1, <2>2, <2>4, <2>6, <2>7, <2>8, <2>9, <2>10, OwnListener
  <1> QED BY <1>1, <1>4, <1>5, <1>6 DEF Listen

\* The second look at the failed flag.
LEMMA LateInv ==
  ASSUME NotifyInv, NEW s \in Subs, Late(s) PROVE NotifyInv'
  <1> USE NoneAssumption
  <1>1. PICK y \in Sub : y = sub[s] BY DEF NotifyInv, TypeOK
  <1>2. Holding(s) /\ Tied(s) /\ Ahead(s) BY DEF NotifyInv, Calls, Events
  <1> DEFINE x == [y EXCEPT !.pc = IF Failed(y.lsn) THEN "cleanup" ELSE "listen"]
  <1>3. sub' = [sub EXCEPT ![s] = x] /\ UNCHANGED <<slot, lst, emitted, deaths>>
    BY <1>1 DEF Late, Goto, NotifyInv, TypeOK
  <1>4. /\ x \in Sub /\ x.pc \in {"cleanup", "listen"} /\ x.lsn = y.lsn
        /\ x.cand = y.cand /\ x.chan = y.chan /\ x.buf = y.buf /\ x.open = y.open
        /\ x.lagged = y.lagged
        /\ x.pc = "cleanup" => Failed(y.lsn)
    BY <1>1 DEF Sub
  <1> HIDE DEF x
  <1>5. y.pc = "late" BY <1>1 DEF Late
  <1>6. sub'[s] = x BY <1>3 DEF NotifyInv, TypeOK
  <1>7. Holding(s)' BY <1>1, <1>2, <1>4, <1>5, <1>6 DEF Holding
  <1>8. Tied(s)' BY <1>1, <1>2, <1>3, <1>4, <1>5, <1>6 DEF Tied, Failed
  <1>9. Ahead(s)' BY <1>1, <1>2, <1>3, <1>4, <1>5, <1>6 DEF Ahead
  <1>10. Accounted(s)' BY <1>4, <1>6 DEF Accounted
  <1>11. /\ Len(x.buf) <= Cap /\ slot' \in Listeners \cup {None}
         /\ \A u \in Subs \ {s} :
              sub[u].lsn # None /\ lst[sub[u].lsn].phase = "up" => slot' = sub[u].lsn
    BY <1>1, <1>3, <1>4, SlotHeld DEF NotifyInv, TypeOK
  <1> QED BY <1>3, <1>4, <1>7, <1>8, <1>9, <1>10, <1>11, OwnStep

\* Receivers close: those of a listener that is no longer connected.
LEMMA ClosedFacts ==
  ASSUME TypeOK, NEW l, NEW C, NEW u \in Subs
  PROVE  LET x == Closed(l, C)[u]
             y == sub[u]
         IN  /\ x \in Sub /\ x.pc = y.pc /\ x.lsn = y.lsn /\ x.cand = y.cand
             /\ x.chan = y.chan /\ x.buf = y.buf /\ x.lagged = y.lagged
             /\ x.base = y.base /\ x.seen = y.seen
             /\ x.open => y.open
             /\ y.lsn = l /\ y.chan \in C => ~x.open
             /\ y.lsn # l => x = y
  <1>1. sub[u] \in Sub BY DEF TypeOK
  <1> QED BY <1>1, ZenonT(30) DEF Closed, Sub

\* A call whose receiver may have been closed, by a listener that is gone.
LEMMA ClosedStep ==
  ASSUME NotifyInv, NEW l \in Listeners, NEW C, NEW u \in Subs,
         lst[l].phase # "up", lst'[l].phase # "up",
         lst[l].phase = "failed" => lst'[l].phase = "failed",
         lst'[l].inbox = lst[l].inbox,
         \A k \in Listeners \ {l} : lst'[k] = lst[k],
         sub[u].lsn = l => sub[u].chan \in C \/ lst'[l].phase = lst[l].phase,
         sub'[u] = Closed(l, C)[u], UNCHANGED <<slot, emitted>>
  PROVE  (Holding(u) /\ Tied(u) /\ Ahead(u) /\ Accounted(u))'
  <1>1. /\ Holding(u) /\ Tied(u) /\ Ahead(u) /\ Accounted(u)
        /\ sub[u].lsn = None \/ sub[u].lsn \in Listeners
    BY DEF NotifyInv, TypeOK, Sub, Calls, Events
  <1>2. CASE sub[u].lsn # l
    <2>1. sub'[u] = sub[u] BY <1>2, ClosedFacts DEF NotifyInv
    <2> QED BY <1>1, <1>2, <2>1, Undisturbed
  <1>3. CASE sub[u].lsn = l
    <2>1. PICK x \in Sub : x = sub'[u] BY ClosedFacts DEF NotifyInv
    <2>2. PICK y \in Sub : y = sub[u] BY DEF NotifyInv, TypeOK
    <2>3. /\ x.pc = y.pc /\ x.lsn = y.lsn /\ x.cand = y.cand
          /\ x.chan = y.chan /\ x.buf = y.buf /\ x.lagged = y.lagged
          /\ x.base = y.base /\ x.seen = y.seen
          /\ x.open => y.open
          /\ y.lsn = l /\ y.chan \in C => ~x.open
      BY <2>1, <2>2, ClosedFacts DEF NotifyInv
    <2>4. Holding(u)' BY <1>1, <2>1, <2>2, <2>3 DEF Holding
    <2>5. Tied(u)' BY <1>1, <1>3, <2>1, <2>2, <2>3 DEF Tied, Failed
    <2>6. Ahead(u)' BY <1>1, <1>3, <2>1, <2>2, <2>3 DEF Ahead
    <2>7. Accounted(u)' BY <1>3, <2>1, <2>2, <2>3 DEF Accounted
    <2> QED BY <2>4, <2>5, <2>6, <2>7
  <1> QED BY <1>2, <1>3

\* The Sender inserted on a dead listener is taken out again.
LEMMA CleanupInv ==
  ASSUME NotifyInv, NEW s \in Subs, Cleanup(s) PROVE NotifyInv'
  <1> USE NoneAssumption DEF NotifyInv
  <1> DEFINE l == sub[s].lsn
             C == {sub[s].chan}
  <1>1. l \in Listeners /\ Failed(l)
    BY DEF Cleanup, TypeOK, Sub, Calls, Holding, Tied
  <1>2. /\ lst' = [lst EXCEPT ![l].has = @ \ C]
        /\ sub' = [Closed(l, C) EXCEPT ![s] = Idle]
        /\ UNCHANGED <<slot, emitted, deaths>>
    BY DEF Cleanup
  <1> HIDE DEF C
  <1>3. /\ sub'[s] = Idle /\ DOMAIN Closed(l, C) = Subs
        /\ \A u \in Subs \ {s} : sub'[u] = Closed(l, C)[u]
    BY <1>2 DEF Closed
  <1>4. /\ lst' \in [Listeners -> Listener]
        /\ lst'[l].phase = lst[l].phase /\ lst'[l].inbox = lst[l].inbox
        /\ \A k \in Listeners \ {l} : lst'[k] = lst[k]
    <2>1. PICK m \in Listener : m = lst[l] BY <1>1 DEF TypeOK
    <2> DEFINE n == [m EXCEPT !.has = @ \ C]
    <2>2. lst' = [lst EXCEPT ![l] = n] BY <1>2, <2>1 DEF TypeOK
    <2>3. n \in Listener /\ n.phase = m.phase /\ n.inbox = m.inbox BY DEF Listener
    <2> HIDE DEF n
    <2> QED BY <1>1, <2>1, <2>2, <2>3 DEF TypeOK
  <1>5. lst[l].phase = "failed" BY <1>1 DEF Failed
  <1>6. ASSUME NEW u \in Subs PROVE (Holding(u) /\ Tied(u) /\ Ahead(u) /\ Accounted(u))'
    <2>1. CASE u = s
      <3>1. Holding(s)' /\ Tied(s)' BY <1>3, IdleFacts DEF Holding, Tied
      <3>2. Ahead(s)' /\ Accounted(s)' BY <1>3, IdleFacts DEF Ahead, Accounted
      <3> QED BY <2>1, <3>1, <3>2
    <2>2. CASE u # s
      <3> HIDE DEF l
      <3> QED BY <1>1, <1>2, <1>3, <1>4, <1>5, <2>2, ClosedStep
    <2> QED BY <2>1, <2>2
  <1>7. TypeOK'
    <2>1. \A u \in Subs \ {s} : sub'[u] \in Sub /\ Len(sub'[u].buf) <= Cap
      BY <1>3, ClosedFacts DEF TypeOK
    <2>2. sub'[s] \in Sub /\ Len(sub'[s].buf) <= Cap BY <1>3, IdleFacts, LimitsAssumption
    <2>3. sub' \in [Subs -> Sub] BY <1>2, <1>3, <2>1, <2>2
    <2> QED BY <1>2, <1>4, <2>1, <2>2, <2>3 DEF TypeOK
  <1>8. \A k \in Listeners : Inbox(k)' BY <1>2, <1>4 DEF Events, Inbox
  <1> QED BY <1>6, <1>7, <1>8 DEF Calls, Events

\* A receiver takes the oldest event out.
LEMMA OrderlyTail ==
  ASSUME NEW q \in Seq(Ids), q # <<>>, NEW c, NEW p, NEW e, Orderly(q, c, p, e)
  PROVE  Orderly(Tail(q), c, p, e)
  <1>1. PICK t \in Seq(Ids) : t = Tail(q) BY TailFacts
  <1>2. \A i \in 1..Len(t) : i + 1 \in 1..Len(q) /\ t[i] = q[i + 1] BY <1>1, TailFacts
  <1>3. \A i, j \in 1..Len(t) : i < j => t[i] < t[j]
    <2> SUFFICES ASSUME NEW i \in 1..Len(t), NEW j \in 1..Len(t), i < j PROVE t[i] < t[j]
      OBVIOUS
    <2>1. i + 1 \in 1..Len(q) /\ j + 1 \in 1..Len(q) /\ i + 1 < j + 1 BY <1>2
    <2>2. q[i + 1] < q[j + 1] BY <2>1 DEF Orderly
    <2> QED BY <1>2, <2>2
  <1>4. \A i \in 1..Len(t) : t[i] <= e BY <1>2 DEF Orderly
  <1>5. \A i \in 1..Len(t), j \in 1..Len(p) : p[j][1] = c => t[i] < p[j][2]
    BY <1>2 DEF Orderly
  <1> QED BY <1>1, <1>3, <1>4, <1>5 DEF Orderly

\* An entry of a queue is its head or in its tail.
LEMMA Shorter ==
  ASSUME NEW S, NEW q \in Seq(S), q # <<>>
  PROVE  \A k \in 1..Len(q) :
           q[k] = q[1] \/ \E i \in 1..Len(Tail(q)) : Tail(q)[i] = q[k]
  <1>1. PICK t \in Seq(S) : t = Tail(q) BY TailFacts
  <1>2. /\ Len(q) \in Nat \ {0} /\ Len(t) = Len(q) - 1
        /\ \A i \in 1..(Len(q) - 1) : t[i] = q[i + 1]
    BY <1>1, TailFacts
  <1> SUFFICES ASSUME NEW i \in 1..Len(q), i # 1 PROVE \E j \in 1..Len(t) : t[j] = q[i]
    BY <1>1
  <1>3. i - 1 \in 1..Len(t) /\ t[i - 1] = q[i] BY <1>2
  <1> QED BY <1>3

\* recv: what is taken out of the buffer, or reported as skipped, is seen.
LEMMA RecvInv ==
  ASSUME NotifyInv, NEW s \in Subs, Recv(s) PROVE NotifyInv'
  <1> USE NoneAssumption
  <1>1. PICK y \in Sub : y = sub[s] BY DEF NotifyInv, TypeOK
  <1>2. Holding(s) /\ Tied(s) /\ Ahead(s) /\ Accounted(s) BY DEF NotifyInv, Calls, Events
  <1>3. y.pc = "live" /\ UNCHANGED <<slot, lst, emitted, deaths>> BY <1>1 DEF Recv
  <1>4. y.lsn # None BY <1>1, <1>2, <1>3 DEF Holding
  <1> DEFINE p == lst[y.lsn].inbox
  <1>5. ASSUME NEW x \in Sub, sub' = [sub EXCEPT ![s] = x],
               x.pc = "live", x.lsn = y.lsn, x.cand = y.cand, x.chan = y.chan,
               x.open = y.open, x.base = y.base, Len(x.buf) <= Cap,
               x.lagged => x.buf # <<>>,
               Orderly(x.buf, x.chan, p, emitted[x.chan]),
               \A id \in (y.base + 1)..emitted[y.chan] : Within(y, id, p) => Within(x, id, p)
        PROVE  NotifyInv'
    <2>1. sub'[s] = x BY <1>5 DEF NotifyInv, TypeOK
    <2>2. Holding(s)' BY <1>1, <1>2, <1>3, <1>5, <2>1 DEF Holding
    <2>3. Tied(s)' BY <1>1, <1>2, <1>3, <1>5, <2>1 DEF Tied
    <2>4. Ahead(s)' BY <1>3, <1>5, <2>1 DEF Ahead
    <2>5. Accounted(s)' BY <1>1, <1>2, <1>3, <1>5, <2>1 DEF Accounted
    <2>6. /\ slot' \in Listeners \cup {None}
          /\ \A u \in Subs \ {s} :
               sub[u].lsn # None /\ lst[sub[u].lsn].phase = "up" => slot' = sub[u].lsn
      BY <1>3, SlotHeld DEF NotifyInv, TypeOK
    <2> QED BY <1>3, <1>5, <2>2, <2>3, <2>4, <2>5, <2>6, OwnStep
  <1>10. Orderly(y.buf, y.chan, p, emitted[y.chan]) BY <1>1, <1>2, <1>4 DEF Ahead
  <1> HIDE DEF p
  <1>6. y.buf \in Seq(Ids) /\ Len(y.buf) <= Cap /\ y.base \in Nat /\ y.seen \subseteq Ids
    BY <1>1 DEF NotifyInv, TypeOK, Sub
  <1>7. CASE /\ y.lagged
             /\ sub' = [sub EXCEPT ![s].lagged = FALSE,
                                   ![s].seen = @ \cup 1..(Head(sub[s].buf) - 1)]
    <2> DEFINE x == [y EXCEPT !.lagged = FALSE, !.seen = @ \cup 1..(Head(y.buf) - 1)]
    <2>1. sub' = [sub EXCEPT ![s] = x] BY <1>1, <1>7 DEF NotifyInv, TypeOK
    <2>2. y.buf # <<>> BY <1>1, <1>2, <1>7 DEF Holding
    <2>3. Head(y.buf) = y.buf[1] /\ y.buf[1] \in Ids BY <1>6, <2>2, TailFacts
    <2>4. y.seen \cup 1..(Head(y.buf) - 1) \subseteq Ids
      BY <1>6, <2>3, LimitsAssumption DEF Ids
    <2>5. /\ x \in Sub /\ x.pc = y.pc /\ x.lsn = y.lsn /\ x.cand = y.cand
          /\ x.chan = y.chan /\ x.open = y.open /\ x.base = y.base /\ x.buf = y.buf
          /\ ~x.lagged /\ x.seen = y.seen \cup 1..(Head(y.buf) - 1)
      BY <2>4 DEF Sub
    <2> HIDE DEF x
    <2>6. ASSUME NEW id \in (y.base + 1)..emitted[y.chan], Within(y, id, p)
          PROVE  Within(x, id, p)
      <3>1. y.lagged /\ id < y.buf[1] => id \in x.seen
        BY <1>6, <2>3, <2>5 DEF Ids
      <3> QED BY <2>5, <2>6, <3>1 DEF Within
    <2> QED BY <1>3, <1>5, <1>6, <1>10, <2>1, <2>5, <2>6
  <1>8. CASE /\ ~y.lagged /\ y.buf # <<>>
             /\ sub' = [sub EXCEPT ![s].buf = Tail(@),
                                   ![s].seen = @ \cup {Head(sub[s].buf)}]
    <2> DEFINE x == [y EXCEPT !.buf = Tail(@), !.seen = @ \cup {Head(y.buf)}]
    <2>1. sub' = [sub EXCEPT ![s] = x] BY <1>1, <1>8 DEF NotifyInv, TypeOK
    <2>2. PICK q \in Seq(Ids), t \in Seq(Ids) : q = y.buf /\ t = Tail(y.buf)
      BY <1>6, <1>8, TailFacts
    <2>3. /\ Len(q) \in Nat \ {0} /\ Head(q) = q[1] /\ q[1] \in Ids
          /\ Len(t) = Len(q) - 1
          /\ \A i \in 1..(Len(q) - 1) : t[i] = q[i + 1]
      BY <1>8, <2>2, TailFacts
    <2>4. /\ x \in Sub /\ x.pc = y.pc /\ x.lsn = y.lsn /\ x.cand = y.cand
          /\ x.chan = y.chan /\ x.open = y.open /\ x.base = y.base /\ x.buf = t
          /\ x.lagged = y.lagged /\ x.seen = y.seen \cup {q[1]}
      <3>1. PICK z : z = y.seen \cup {q[1]} OBVIOUS
      <3>2. z \in SUBSET Ids BY <1>6, <2>3, <3>1 DEF Sub
      <3>3. x = [y EXCEPT !.buf = t, !.seen = z] BY <2>2, <2>3, <3>1
      <3> HIDE DEF x
      <3>4. x \in Sub BY <1>6, <2>2, <3>2, <3>3 DEF Sub
      <3> QED BY <1>6, <3>1, <3>3, <3>4 DEF Sub
    <2> HIDE DEF x
    <2>5. Orderly(t, y.chan, p, emitted[y.chan]) BY <1>8, <1>10, <2>2, OrderlyTail
    <2>6. ASSUME NEW id, Within(y, id, p) PROVE Within(x, id, p)
      <3>1. (\E i \in 1..Len(q) : q[i] = id) => id = q[1] \/ \E i \in 1..Len(t) : t[i] = id
        <4>1. q # <<>> /\ t = Tail(q) BY <1>8, <2>2
        <4>2. \A k \in 1..Len(q) : q[k] = q[1] \/ \E i \in 1..Len(t) : t[i] = q[k]
          BY <4>1, Shorter, Zenon
        <4> QED BY <4>2
      <3> QED BY <1>8, <2>2, <2>4, <2>6, <3>1 DEF Within
    <2>7. Len(t) <= Cap BY <1>6, <2>2, <2>3, LimitsAssumption
    <2>8. ~x.lagged BY <1>8, <2>4
    <2> QED BY <1>3, <1>5, <2>1, <2>4, <2>5, <2>6, <2>7, <2>8
  <1>9. CASE Leave(s) BY <1>3, <1>9, LeaveInv
  <1> QED BY <1>1, <1>7, <1>8, <1>9 DEF Recv

-----------------------------------------------------------------------------
(* The watcher.                                                             *)

\* The connection ends, or its failure is published: nobody's receiver is left
\* open on a listener whose senders are cleared.
LEMMA DownInv ==
  ASSUME NotifyInv, NEW l \in Listeners, Die(l) \/ Retire(l) \/ PublishFailed(l)
  PROVE  NotifyInv'
  <1> USE DEF NotifyInv
  <1>1. PICK m \in Listener : m = lst[l] BY DEF TypeOK
  <1>2. PICK n \in Listener :
          /\ lst' = [lst EXCEPT ![l] = n]
          /\ \/ m.phase = "up" /\ n.phase = "closed" /\ n.inbox = <<>>
             \/ m.phase = "cleared" /\ n.phase = "failed" /\ n.inbox = m.inbox
    <2>1. CASE Die(l) \/ Retire(l)
      <3> DEFINE n == [m EXCEPT !.phase = "closed", !.inbox = <<>>]
      <3>1. lst' = [lst EXCEPT ![l] = n] /\ m.phase = "up"
        BY <1>1, <2>1 DEF Die, Retire, TypeOK
      <3>2. <<>> \in Seq(Chans \X Ids) OBVIOUS
      <3>3. n \in Listener /\ n.phase = "closed" /\ n.inbox = <<>> BY <3>2 DEF Listener
      <3> QED BY <3>1, <3>3
    <2>2. CASE PublishFailed(l)
      <3> DEFINE n == [m EXCEPT !.phase = "failed"]
      <3>1. lst' = [lst EXCEPT ![l] = n] /\ m.phase = "cleared"
        BY <1>1, <2>2 DEF PublishFailed, TypeOK
      <3>2. n \in Listener /\ n.phase = "failed" /\ n.inbox = m.inbox BY DEF Listener
      <3> QED BY <3>1, <3>2
    <2> QED BY <2>1, <2>2
  <1>3. /\ UNCHANGED <<slot, sub, emitted>> /\ deaths' \in 0..MaxDeaths
        /\ lst'[l] = n /\ \A k \in Listeners \ {l} : lst'[k] = lst[k]
    BY <1>2, LimitsAssumption DEF Die, Retire, PublishFailed, TypeOK
  <1>4. TypeOK' BY <1>2, <1>3 DEF TypeOK
  <1>5. ASSUME NEW u \in Subs PROVE (Holding(u) /\ Tied(u) /\ Ahead(u) /\ Accounted(u))'
    <2>1. /\ Holding(u) /\ Tied(u) /\ Ahead(u) /\ Accounted(u)
          /\ sub[u].lsn = None \/ sub[u].lsn \in Listeners
      BY DEF TypeOK, Sub, Calls, Events
    <2>2. CASE sub[u].lsn # l BY <1>3, <2>1, <2>2, Undisturbed
    <2>3. CASE sub[u].lsn = l
      <3>1. Holding(u)' BY <1>3, <2>1 DEF Holding
      <3>2. Tied(u)' BY <1>1, <1>2, <1>3, <2>1, <2>3 DEF Tied, Failed
      <3>3. Ahead(u)'
        <4>1. CASE n.inbox = m.inbox BY <1>1, <1>3, <2>1, <2>3, <4>1 DEF Ahead
        <4>2. CASE n.inbox = <<>>
          <5>1. Orderly(sub[u].buf, sub[u].chan, <<>>, emitted[sub[u].chan])
            BY <2>1, <2>3, NoneAssumption DEF Ahead, Orderly
          <5> QED BY <1>3, <2>3, <4>2, <5>1 DEF Ahead
        <4> QED BY <1>2, <4>1, <4>2
      <3>4. Accounted(u)' BY <1>2, <1>3, <2>3 DEF Accounted
      <3> QED BY <3>1, <3>2, <3>3, <3>4
    <2> QED BY <2>2, <2>3
  <1>6. ASSUME NEW k \in Listeners PROVE Inbox(k)'
    <2>1. Inbox(k) BY DEF Events
    <2>2. CASE k = l
      <3> QED BY <1>1, <1>2, <1>3, <2>1, <2>2, SortedEmpty DEF Inbox
    <2>3. CASE k # l BY <1>3, <2>1, <2>3 DEF Inbox
    <2> QED BY <2>2, <2>3
  <1> QED BY <1>4, <1>5, <1>6 DEF Calls, Events

\* The exit guard closes every receiver of the listener.
LEMMA CloseInv ==
  ASSUME NotifyInv, NEW l \in Listeners, CloseAll(l) PROVE NotifyInv'
  <1> USE DEF NotifyInv
  <1>1. PICK m \in Listener : m = lst[l] BY DEF TypeOK
  <1> DEFINE n == [m EXCEPT !.phase = "cleared", !.has = {}]
  <1>2. /\ lst' = [lst EXCEPT ![l] = n] /\ m.phase = "closed"
        /\ sub' = Closed(l, Chans) /\ UNCHANGED <<slot, emitted, deaths>>
    BY <1>1 DEF CloseAll, GuardClears, TypeOK
  <1>3. n \in Listener /\ n.phase = "cleared" /\ n.inbox = m.inbox BY DEF Listener
  <1> HIDE DEF n
  <1>4. lst'[l] = n /\ \A k \in Listeners \ {l} : lst'[k] = lst[k] BY <1>2 DEF TypeOK
  <1>5. TypeOK'
    <2>1. \A u \in Subs : sub'[u] \in Sub /\ Len(sub'[u].buf) <= Cap
      BY <1>2, ClosedFacts DEF TypeOK
    <2>2. sub' \in [Subs -> Sub] BY <1>2, <2>1 DEF Closed
    <2> QED BY <1>2, <1>3, <2>1, <2>2 DEF TypeOK
  <1>6. ASSUME NEW u \in Subs PROVE (Holding(u) /\ Tied(u) /\ Ahead(u) /\ Accounted(u))'
    <2>1. sub[u].lsn = l => sub[u].chan \in Chans
      BY NoneAssumption DEF TypeOK, Sub, Calls, Holding
    <2> QED BY <1>1, <1>2, <1>3, <1>4, <2>1, ClosedStep
  <1>7. ASSUME NEW k \in Listeners PROVE Inbox(k)'
    <2>1. Inbox(k) BY DEF Events
    <2>2. lst'[k].inbox = lst[k].inbox BY <1>1, <1>3, <1>4
    <2> QED BY <1>2, <2>1, <2>2 DEF Inbox
  <1> QED BY <1>5, <1>6, <1>7 DEF Calls, Events

\* A new event goes to the end of an inbox in order.
LEMMA SortedEmit ==
  ASSUME NEW p \in Seq(Chans \X Ids), NEW m, NEW n, NEW c \in Chans, NEW e \in Ids,
         \A d \in Chans : m[d] \in Nat /\ n[d] \in Nat /\ m[d] <= n[d],
         e = m[c] + 1, n[c] = e, Sorted(p, m)
  PROVE  Sorted(p, n) /\ Sorted(Append(p, <<c, e>>), n)
  <1>1. \A i \in 1..Len(p) : p[i][1] \in Chans /\ p[i][2] \in Nat
    <2>1. \A i \in 1..Len(p) : p[i] \in Chans \X Ids OBVIOUS
    <2> QED BY <2>1 DEF Ids
  <1>2. \A i \in 1..Len(p) : p[i][2] <= n[p[i][1]]
    <2> SUFFICES ASSUME NEW i \in 1..Len(p) PROVE p[i][2] <= n[p[i][1]]
      OBVIOUS
    <2>1. PICK d \in Chans, f \in Nat : d = p[i][1] /\ f = p[i][2] BY <1>1
    <2>2. f <= m[d] BY <2>1 DEF Sorted
    <2> QED BY <2>1, <2>2
  <1>3. Sorted(p, n) BY <1>2 DEF Sorted
  <1>4. PICK r \in Seq(Chans \X Ids) : r = Append(p, <<c, e>>) BY AppendFacts
  <1>5. /\ Len(p) \in Nat /\ Len(r) = Len(p) + 1 /\ r[Len(p) + 1] = <<c, e>>
        /\ \A i \in 1..Len(p) : r[i] = p[i]
    BY <1>4, AppendFacts
  <1>6. \A i \in 1..Len(r) : i \in 1..Len(p) \/ i = Len(p) + 1 BY <1>5
  <1>7. <<c, e>>[1] = c /\ <<c, e>>[2] = e OBVIOUS
  <1>8. ASSUME NEW i \in 1..Len(r) PROVE r[i][2] <= n[r[i][1]]
    <2>1. CASE i \in 1..Len(p)
      <3>1. r[i] = p[i] BY <1>5, <2>1
      <3> QED BY <1>2, <2>1, <3>1
    <2>2. CASE i = Len(p) + 1
      <3>1. r[i][1] = c /\ r[i][2] = e BY <1>5, <1>7, <2>2
      <3> QED BY <3>1 DEF Ids
    <2> QED BY <1>6, <2>1, <2>2
  <1>9. ASSUME NEW i \in 1..Len(r), NEW j \in 1..Len(r), i < j, r[i][1] = r[j][1]
        PROVE  r[i][2] < r[j][2]
    <2>1. i \in 1..Len(p) BY <1>5, <1>9
    <2>2. CASE j \in 1..Len(p) BY <1>5, <1>9, <2>1, <2>2 DEF Sorted
    <2>3. CASE j = Len(p) + 1
      <3>1. PICK f \in Nat : f = p[i][2] BY <1>1, <2>1
      <3>2. p[i][1] = c /\ r[i] = p[i] /\ r[j] = <<c, e>> BY <1>5, <1>7, <1>9, <2>1, <2>3
      <3>3. f <= m[c] BY <2>1, <3>1, <3>2 DEF Sorted
      <3>4. f < e BY <3>3 DEF Ids
      <3> QED BY <1>7, <3>1, <3>2, <3>4
    <2> QED BY <1>6, <2>2, <2>3
  <1>10. Sorted(r, n) BY <1>8, <1>9 DEF Sorted
  <1> QED BY <1>3, <1>4, <1>10

\* A buffer is ahead of a new event.
LEMMA OrderlyEmit ==
  ASSUME NEW q \in Seq(Ids), NEW c, NEW p \in Seq(Chans \X Ids), NEW f \in Nat,
         NEW g \in Nat, NEW d \in Chans, NEW e \in Ids,
         f <= g, c = d => f < e, Orderly(q, c, p, f)
  PROVE  Orderly(q, c, p, g) /\ Orderly(q, c, Append(p, <<d, e>>), g)
  <1>1. \A i \in 1..Len(q) : q[i] \in Int
    <2>1. \A i \in 1..Len(q) : q[i] \in Ids OBVIOUS
    <2> QED BY <2>1 DEF Ids
  <1>2. \A i \in 1..Len(q) : q[i] <= g BY <1>1 DEF Orderly
  <1>3. Orderly(q, c, p, g) BY <1>2 DEF Orderly
  <1>4. PICK r \in Seq(Chans \X Ids) : r = Append(p, <<d, e>>) BY AppendFacts
  <1>5. /\ Len(p) \in Nat /\ Len(r) = Len(p) + 1 /\ r[Len(p) + 1] = <<d, e>>
        /\ \A i \in 1..Len(p) : r[i] = p[i]
    BY <1>4, AppendFacts
  <1>6. <<d, e>>[1] = d /\ <<d, e>>[2] = e OBVIOUS
  <1>7. ASSUME NEW i \in 1..Len(q), NEW j \in 1..Len(r), r[j][1] = c
        PROVE  q[i] < r[j][2]
    <2>1. CASE j \in 1..Len(p) BY <1>5, <1>7, <2>1 DEF Orderly
    <2>2. CASE j = Len(p) + 1
      <3>1. c = d /\ r[j][2] = e BY <1>5, <1>6, <1>7, <2>2
      <3>2. PICK k \in Int : k = q[i] BY <1>1
      <3>3. k <= f BY <3>2 DEF Orderly
      <3>4. k < e BY <3>1, <3>3 DEF Ids
      <3> QED BY <3>1, <3>2, <3>4
    <2> QED BY <1>5, <2>1, <2>2
  <1>8. Orderly(q, c, r, g) BY <1>2, <1>7 DEF Orderly
  <1> QED BY <1>3, <1>4, <1>8

\* A committed event enters the inbox of every connection that LISTENs.
LEMMA EmitInv ==
  ASSUME NotifyInv, NEW c \in Chans, Emit(c) PROVE NotifyInv'
  <1> USE DEF NotifyInv
  <1>1. PICK e \in Ids : e = emitted[c] + 1 BY LimitsAssumption DEF Emit, TypeOK, Ids
  <1>2. /\ UNCHANGED <<slot, sub, deaths>> /\ emitted' \in [Chans -> 0..MaxEvents]
        /\ emitted'[c] = e /\ \A d \in Chans \ {c} : emitted'[d] = emitted[d]
    BY <1>1 DEF Emit, TypeOK, Ids
  <1>3. ASSUME NEW k \in Listeners
        PROVE  /\ lst'[k] \in Listener /\ lst'[k].phase = lst[k].phase
               /\ lst'[k].listening = lst[k].listening
               /\ \/ /\ ~(lst[k].phase = "up" /\ c \in lst[k].listening)
                     /\ lst'[k].inbox = lst[k].inbox
                  \/ /\ lst[k].phase = "up" /\ c \in lst[k].listening
                     /\ lst'[k].inbox = Append(lst[k].inbox, <<c, e>>)
    <2>1. PICK m \in Listener : m = lst[k] BY DEF TypeOK
    <2>2. CASE ~(m.phase = "up" /\ c \in m.listening)
      BY <2>1, <2>2 DEF Emit, TypeOK
    <2>3. CASE m.phase = "up" /\ c \in m.listening
      <3> DEFINE n == [m EXCEPT !.inbox = Append(@, <<c, e>>)]
      <3>1. lst'[k] = n BY <1>1, <2>1, <2>3 DEF Emit, TypeOK
      <3>2. Append(m.inbox, <<c, e>>) \in Seq(Chans \X Ids) BY DEF Listener
      <3>3. /\ n \in Listener /\ n.phase = m.phase /\ n.listening = m.listening
            /\ n.inbox = Append(m.inbox, <<c, e>>)
        BY <3>2 DEF Listener
      <3> QED BY <2>1, <2>3, <3>1, <3>3
    <2> QED BY <2>1, <2>2, <2>3
  <1>4. \A d \in Chans : emitted[d] \in Nat /\ emitted'[d] \in Nat /\ emitted[d] <= emitted'[d]
    BY <1>1, <1>2 DEF TypeOK, Ids
  <1>5. TypeOK'
    <2>1. lst' \in [Listeners -> Listener] BY <1>3 DEF Emit
    <2> QED BY <1>2, <2>1 DEF TypeOK
  <1>6. \A k \in Listeners : lst[k].inbox \in Seq(Chans \X Ids)
    BY DEF TypeOK, Listener
  <1>7. ASSUME NEW k \in Listeners PROVE Inbox(k)'
    <2>1. PICK p \in Seq(Chans \X Ids) : p = lst[k].inbox BY <1>6
    <2>2. Sorted(p, emitted) BY <2>1 DEF Events, Inbox
    <2>3. Sorted(p, emitted') /\ Sorted(Append(p, <<c, e>>), emitted')
      BY <1>1, <1>2, <1>4, <2>2, SortedEmit
    <2>4. lst'[k].inbox = p \/ lst'[k].inbox = Append(p, <<c, e>>) BY <1>3, <2>1
    <2> QED BY <2>3, <2>4 DEF Inbox
  <1>8. ASSUME NEW u \in Subs PROVE (Holding(u) /\ Tied(u) /\ Ahead(u) /\ Accounted(u))'
    <2>1. /\ Holding(u) /\ Tied(u) /\ Ahead(u) /\ Accounted(u)
          /\ sub[u].lsn = None \/ sub[u].lsn \in Listeners
      BY DEF TypeOK, Sub, Calls, Events
    <2>2. sub'[u] = sub[u] BY <1>2
    <2>3. Holding(u)' BY <2>1, <2>2 DEF Holding
    <2>4. CASE sub[u].lsn = None
      BY <2>1, <2>2, <2>3, <2>4 DEF Tied, Holding, Ahead, Accounted
    <2>5. ASSUME NEW l \in Listeners, l = sub[u].lsn
          PROVE  (Tied(u) /\ Ahead(u) /\ Accounted(u))'
      <3>1. PICK x \in Sub : x = sub[u] BY DEF TypeOK
      <3>2. /\ lst'[l].phase = lst[l].phase /\ lst'[l].listening = lst[l].listening
            /\ \/ /\ ~(lst[l].phase = "up" /\ c \in lst[l].listening)
                  /\ lst'[l].inbox = lst[l].inbox
               \/ lst'[l].inbox = Append(lst[l].inbox, <<c, e>>)
        BY <1>3
      <3>3. Tied(u)' BY <1>2, <2>1, <2>2, <2>5, <3>2 DEF Tied, Failed
      <3>4. PICK p \in Seq(Chans \X Ids), r \in Seq(Chans \X Ids) :
              /\ p = lst[l].inbox /\ r = lst'[l].inbox
              /\ r = p \/ r = Append(p, <<c, e>>)
        BY <1>3, <1>6 DEF Listener
      <3>5. x.chan \in Chans /\ x.buf \in Seq(Ids) /\ x.base \in Nat
        BY <2>1, <2>5, <3>1, NoneAssumption DEF Holding, Sub
      <3>6. Ahead(u)'
        <4>1. Orderly(x.buf, x.chan, p, emitted[x.chan])
          BY <2>1, <2>5, <3>1, <3>4, NoneAssumption DEF Ahead
        <4>2. PICK f \in Nat, g \in Nat : f = emitted[x.chan] /\ g = emitted'[x.chan]
          BY <1>4, <3>5
        <4>3. f <= g /\ (x.chan = c => f < e /\ e <= g)
          BY <1>1, <1>2, <1>4, <3>5, <4>2 DEF Ids
        <4>4. Orderly(x.buf, x.chan, p, g) /\ Orderly(x.buf, x.chan, Append(p, <<c, e>>), g)
          BY <3>5, <4>1, <4>2, <4>3, OrderlyEmit
        <4> QED BY <2>2, <2>5, <3>1, <3>4, <4>2, <4>4 DEF Ahead
      <3>7. Accounted(u)'
        <4> SUFFICES ASSUME x.pc = "live", lst[l].phase = "up",
                            NEW id \in (x.base + 1)..emitted'[x.chan]
                     PROVE  Within(x, id, r)
          BY <2>2, <2>5, <3>1, <3>2, <3>4 DEF Accounted
        <4>1. \A i \in 1..Len(p) : i \in 1..Len(r) /\ r[i] = p[i]
          BY <3>4, AppendFacts
        <4>2. CASE id \in (x.base + 1)..emitted[x.chan]
          <5>1. Within(x, id, p) BY <2>1, <2>5, <3>1, <3>4, <4>2 DEF Accounted
          <5> QED BY <4>1, <5>1 DEF Within
        <4>3. CASE id \notin (x.base + 1)..emitted[x.chan]
          <5>1. emitted'[x.chan] # emitted[x.chan] BY <4>3
          <5>2. x.chan = c BY <1>2, <3>5, <5>1
          <5>3. PICK b \in Nat, f \in Nat : b = x.base /\ f = emitted[c] BY <1>4, <3>5
          <5>4. id \in (b + 1)..(f + 1) /\ id \notin (b + 1)..f
            BY <1>1, <1>2, <4>3, <5>2, <5>3
          <5>5. id = e BY <1>1, <5>3, <5>4
          <5>6. c \in lst[l].listening BY <2>1, <2>5, <3>1, <5>2, NoneAssumption DEF Tied
          <5>7. r = Append(p, <<c, e>>) BY <1>3, <3>4, <5>6
          <5>8. Len(p) + 1 \in 1..Len(r) /\ r[Len(p) + 1] = <<c, e>> BY <5>7, AppendFacts
          <5>9. \E j \in 1..Len(r) : r[j][1] = x.chan /\ r[j][2] = id BY <5>2, <5>5, <5>8
          <5> QED BY <5>9 DEF Within
        <4> QED BY <4>2, <4>3
      <3> QED BY <3>3, <3>6, <3>7
    <2> QED BY <2>1, <2>3, <2>4, <2>5
  <1> QED BY <1>5, <1>7, <1>8 DEF Calls, Events

\* What broadcast::Sender::send makes of receiver x is z.
Takes(x, id, z) ==
  /\ z \in Sub /\ z.pc = x.pc /\ z.lsn = x.lsn /\ z.cand = x.cand
  /\ z.chan = x.chan /\ z.open = x.open /\ z.base = x.base /\ z.seen = x.seen
  /\ Len(z.buf) <= Cap
  /\ \/ z.buf = Append(x.buf, id) /\ z.lagged = x.lagged
     \/ x.buf # <<>> /\ z.buf = Append(Tail(x.buf), id) /\ z.lagged

\* broadcast::Sender::send to one receiver.
LEMMA SentFacts ==
  ASSUME NEW x \in Sub, NEW id \in Ids, Len(x.buf) <= Cap
  PROVE  Takes(x, id, Sent(x, id))
  <1>1. x.buf \in Seq(Ids) /\ Len(x.buf) \in Nat BY DEF Sub
  <1>2. CASE Len(x.buf) < Cap
    <2>1. Append(x.buf, id) \in Seq(Ids) /\ Len(Append(x.buf, id)) = Len(x.buf) + 1
      BY <1>1, AppendFacts
    <2>2. PICK b \in Seq(Ids) : b = Append(x.buf, id) BY <2>1
    <2> DEFINE z == [x EXCEPT !.buf = b]
    <2>3. Sent(x, id) = z BY <1>2, <2>2 DEF Sent
    <2>4. Len(b) <= Cap BY <1>1, <1>2, <2>1, <2>2, LimitsAssumption
    <2>5. /\ z \in Sub /\ z.pc = x.pc /\ z.lsn = x.lsn /\ z.cand = x.cand
          /\ z.chan = x.chan /\ z.open = x.open /\ z.base = x.base /\ z.seen = x.seen
          /\ z.buf = b /\ z.lagged = x.lagged
      BY DEF Sub
    <2> HIDE DEF z
    <2> QED BY <2>2, <2>3, <2>4, <2>5 DEF Takes
  <1>3. CASE ~(Len(x.buf) < Cap)
    <2>1. x.buf # <<>> /\ Len(x.buf) = Cap BY <1>1, <1>3, LimitsAssumption
    <2>2. Tail(x.buf) \in Seq(Ids) /\ Len(Tail(x.buf)) = Len(x.buf) - 1
      BY <1>1, <2>1, TailFacts
    <2>3. /\ Append(Tail(x.buf), id) \in Seq(Ids)
          /\ Len(Append(Tail(x.buf), id)) = Len(x.buf)
      BY <1>1, <2>2, AppendFacts
    <2>4. PICK b \in Seq(Ids) : b = Append(Tail(x.buf), id) BY <2>3
    <2> DEFINE z == [x EXCEPT !.buf = b, !.lagged = TRUE]
    <2>5. Sent(x, id) = z BY <1>3, <2>4 DEF Sent
    <2>6. /\ z \in Sub /\ z.pc = x.pc /\ z.lsn = x.lsn /\ z.cand = x.cand
          /\ z.chan = x.chan /\ z.open = x.open /\ z.base = x.base /\ z.seen = x.seen
          /\ z.buf = b /\ z.lagged
      BY DEF Sub
    <2>7. Len(b) <= Cap BY <2>1, <2>3, <2>4, LimitsAssumption
    <2> HIDE DEF z
    <2> QED BY <2>1, <2>4, <2>5, <2>6, <2>7 DEF Takes
  <1> QED BY <1>2, <1>3

\* What a buffer holds after a send: what it held, without the oldest event when
\* it was full, and the new one.
Slid(q, id, r) ==
  /\ r # <<>>
  /\ \A i, j \in 1..Len(r) : i < j => r[i] < r[j]
  /\ \A i \in 1..Len(r) : r[i] = id \/ \E j \in 1..Len(q) : r[i] = q[j]
  /\ \E i \in 1..Len(r) : r[i] = id
  /\ r = Append(q, id) =>
       /\ \A j \in 1..Len(q) : \E i \in 1..Len(r) : r[i] = q[j]
       /\ q # <<>> => r[1] = q[1]
  /\ q # <<>> /\ r = Append(Tail(q), id) =>
       /\ \A e \in Int : e <= q[1] => e < r[1]
       /\ \A j \in 1..Len(q) : j = 1 \/ \E i \in 1..Len(r) : r[i] = q[j]

\* A send keeps a buffer in commit order.
LEMMA SentQueue ==
  ASSUME NEW q \in Seq(Ids), NEW id \in Ids, NEW r \in Seq(Ids),
         \/ r = Append(q, id)
         \/ q # <<>> /\ r = Append(Tail(q), id),
         \A i, j \in 1..Len(q) : i < j => q[i] < q[j],
         \A i \in 1..Len(q) : q[i] < id
  PROVE  Slid(q, id, r)
  <1>1. CASE r = Append(q, id)
    <2>1. /\ Len(r) = Len(q) + 1 /\ r[Len(q) + 1] = id /\ Len(q) \in Nat
          /\ \A i \in 1..Len(q) : r[i] = q[i]
      BY <1>1, AppendFacts
    <2>2. r # Append(Tail(q), id) \/ q = <<>>
      <3>1. CASE q # <<>>
        <4>1. Len(Append(Tail(q), id)) = Len(q) BY <3>1
        <4> QED BY <2>1, <4>1
      <3> QED BY <3>1
    <2>3. r # <<>> BY <2>1
    <2>4. \A i, j \in 1..Len(r) : i < j => r[i] < r[j] BY <2>1
    <2>5. \A i \in 1..Len(r) : r[i] = id \/ \E j \in 1..Len(q) : r[i] = q[j] BY <2>1
    <2>6. \A j \in 1..Len(q) : j \in 1..Len(r) /\ r[j] = q[j] BY <2>1
    <2>7. q # <<>> => r[1] = q[1] BY <2>1
    <2>8. Len(q) + 1 \in 1..Len(r) BY <2>1
    <2> QED BY <2>1, <2>2, <2>3, <2>4, <2>5, <2>6, <2>7, <2>8 DEF Slid
  <1>2. CASE q # <<>> /\ r = Append(Tail(q), id)
    <2> DEFINE t == Tail(q)
    <2>1. /\ Len(q) \in Nat \ {0} /\ t \in Seq(Ids) /\ Len(t) = Len(q) - 1
          /\ \A i \in 1..(Len(q) - 1) : t[i] = q[i + 1]
      BY <1>2, TailFacts
    <2> HIDE DEF t
    <2>2. /\ Len(r) = Len(t) + 1 /\ r[Len(t) + 1] = id
          /\ \A i \in 1..Len(t) : r[i] = t[i]
      <3>1. r = Append(t, id) BY <1>2 DEF t
      <3> QED BY <2>1, <3>1, AppendFacts
    <2>3. /\ Len(r) = Len(q) /\ r[Len(q)] = id
          /\ \A i \in 1..(Len(q) - 1) : r[i] = q[i + 1]
      BY <2>1, <2>2
    <2>4. r # Append(q, id)
      <3>1. Len(Append(q, id)) = Len(q) + 1 BY AppendFacts
      <3> QED BY <2>1, <2>3, <3>1
    <2>5. r # <<>> BY <2>1, <2>3
    <2>6. \A i \in 1..Len(q) : q[i] \in Int
      <3>1. \A i \in 1..Len(q) : q[i] \in Ids OBVIOUS
      <3> QED BY <3>1 DEF Ids
    <2>7. \A i, j \in 1..Len(r) : i < j => r[i] < r[j]
      <3> SUFFICES ASSUME NEW i \in 1..Len(r), NEW j \in 1..Len(r), i < j
                   PROVE  r[i] < r[j]
        OBVIOUS
      <3>1. i \in 1..(Len(q) - 1) /\ i + 1 \in 1..Len(q) /\ r[i] = q[i + 1]
        BY <2>1, <2>3
      <3>2. CASE j = Len(q) BY <2>3, <3>1, <3>2
      <3>3. CASE j # Len(q)
        <4>1. j + 1 \in 1..Len(q) /\ r[j] = q[j + 1] /\ i + 1 < j + 1
          BY <2>1, <2>3, <3>1, <3>3
        <4> QED BY <3>1, <4>1
      <3> QED BY <3>2, <3>3
    <2>8. \A i \in 1..Len(r) : r[i] = id \/ \E j \in 1..Len(q) : r[i] = q[j]
      <3> SUFFICES ASSUME NEW i \in 1..Len(r), r[i] # id PROVE \E j \in 1..Len(q) : r[i] = q[j]
        OBVIOUS
      <3>1. i + 1 \in 1..Len(q) /\ r[i] = q[i + 1] BY <2>1, <2>3
      <3> QED BY <3>1
    <2>9. Len(q) \in 1..Len(r) BY <2>1, <2>3
    <2>10. \A e \in Int : e <= q[1] => e < r[1]
      <3>1. q[1] \in Int /\ r[1] \in Int
        <4>1. 1 \in 1..Len(q) /\ r[1] \in Ids BY <2>1, <2>3
        <4> QED BY <2>6, <4>1 DEF Ids
      <3>2. q[1] < r[1] BY <2>1, <2>3, <2>6
      <3> QED BY <3>1, <3>2
    <2>11. \A j \in 1..Len(q) : j = 1 \/ (j - 1 \in 1..Len(r) /\ r[j - 1] = q[j])
      BY <2>1, <2>3
    <2> QED BY <2>3, <2>4, <2>5, <2>7, <2>8, <2>9, <2>10, <2>11 DEF Slid
  <1> QED BY <1>1, <1>2

\* The watcher takes the head of its inbox: what is left is in order.
LEMMA SortedTail ==
  ASSUME NEW p \in Seq(Chans \X Ids), p # <<>>, NEW m, Sorted(p, m)
  PROVE  Sorted(Tail(p), m)
  <1>1. PICK t \in Seq(Chans \X Ids) : t = Tail(p) BY TailFacts
  <1>2. \A i \in 1..Len(t) : i + 1 \in 1..Len(p) /\ t[i] = p[i + 1] BY <1>1, TailFacts
  <1>3. \A i \in 1..Len(t) : t[i][2] <= m[t[i][1]] BY <1>2 DEF Sorted
  <1>4. ASSUME NEW i \in 1..Len(t), NEW j \in 1..Len(t), i < j, t[i][1] = t[j][1]
        PROVE  t[i][2] < t[j][2]
    <2>1. i + 1 \in 1..Len(p) /\ j + 1 \in 1..Len(p) /\ i + 1 < j + 1 BY <1>2, <1>4
    <2> QED BY <1>2, <1>4, <2>1 DEF Sorted
  <1> QED BY <1>1, <1>3, <1>4 DEF Sorted

\* The receivers it does not concern stay ahead of what is left.
LEMMA OrderlyPop ==
  ASSUME NEW q, NEW c, NEW e, NEW p \in Seq(Chans \X Ids), p # <<>>, Orderly(q, c, p, e)
  PROVE  Orderly(q, c, Tail(p), e)
  <1>1. PICK t \in Seq(Chans \X Ids) : t = Tail(p) BY TailFacts
  <1>2. \A i \in 1..Len(t) : i + 1 \in 1..Len(p) /\ t[i] = p[i + 1] BY <1>1, TailFacts
  <1>3. \A i \in 1..Len(q), j \in 1..Len(t) : t[j][1] = c => q[i] < t[j][2]
    BY <1>2 DEF Orderly
  <1> QED BY <1>1, <1>3 DEF Orderly

\* A receiver that is sent the head of the inbox stays ahead of what is left.
LEMMA OrderlySent ==
  ASSUME NEW q \in Seq(Ids), NEW c \in Chans, NEW p \in Seq(Chans \X Ids), p # <<>>,
         NEW id \in Ids, p[1] = <<c, id>>, NEW m, Sorted(p, m), Orderly(q, c, p, m[c]),
         NEW r \in Seq(Ids), r = Append(q, id) \/ (q # <<>> /\ r = Append(Tail(q), id))
  PROVE  Slid(q, id, r) /\ Orderly(r, c, Tail(p), m[c])
  <1>1. PICK t \in Seq(Chans \X Ids) : t = Tail(p) BY TailFacts
  <1>2. /\ \A i \in 1..Len(t) : i + 1 \in 1..Len(p) /\ 1 < i + 1 /\ t[i] = p[i + 1]
        /\ 1 \in 1..Len(p)
    BY <1>1, TailFacts
  <1>3. p[1][1] = c /\ p[1][2] = id OBVIOUS
  <1>4. /\ \A i, j \in 1..Len(q) : i < j => q[i] < q[j]
        /\ \A i \in 1..Len(q) : q[i] < id
    BY <1>2, <1>3 DEF Orderly
  <1>5. Slid(q, id, r) BY <1>4, SentQueue
  <1>6. \A i, j \in 1..Len(r) : i < j => r[i] < r[j] BY <1>5 DEF Slid
  <1>7. \A i \in 1..Len(r) : r[i] = id \/ \E j \in 1..Len(q) : r[i] = q[j]
    BY <1>5 DEF Slid
  <1>8. \A i \in 1..Len(r) : r[i] <= m[c]
    <2>1. id <= m[c] BY <1>2, <1>3 DEF Sorted
    <2> QED BY <1>7, <2>1 DEF Orderly
  <1>9. \A j \in 1..Len(t) : t[j][1] = c => id < t[j][2]
    BY <1>2, <1>3 DEF Sorted
  <1>10. ASSUME NEW i \in 1..Len(r), NEW j \in 1..Len(t), t[j][1] = c
         PROVE  r[i] < t[j][2]
    <2>1. CASE r[i] = id BY <1>9, <1>10, <2>1
    <2>2. ASSUME NEW k \in 1..Len(q), r[i] = q[k] PROVE r[i] < t[j][2]
      BY <1>2, <1>10, <2>2 DEF Orderly
    <2> QED BY <1>7, <2>1, <2>2
  <1> QED BY <1>1, <1>5, <1>6, <1>8, <1>10 DEF Orderly

\* What the receiver had, or was to get, it still has or will get, or is told of.
LEMMA WithinSent ==
  ASSUME NEW x \in Sub, NEW z \in Sub, NEW id \in Ids, Takes(x, id, z),
         Slid(x.buf, id, z.buf), x.lagged => x.buf # <<>>,
         NEW p \in Seq(Chans \X Ids), p # <<>>, p[1] = <<x.chan, id>>,
         NEW e \in Int, Within(x, e, p)
  PROVE  Within(z, e, Tail(p))
  <1>1. PICK q \in Seq(Ids), r \in Seq(Ids) : q = x.buf /\ r = z.buf BY DEF Sub
  <1>2. PICK t \in Seq(Chans \X Ids) : t = Tail(p) BY TailFacts
  <1>3. /\ z.seen = x.seen /\ z.chan = x.chan
        /\ \/ r = Append(q, id) /\ z.lagged = x.lagged
           \/ q # <<>> /\ r = Append(Tail(q), id) /\ z.lagged
    BY <1>1 DEF Takes
  <1>4. (\E i \in 1..Len(r) : r[i] = id) BY <1>1 DEF Slid
  <1> SUFFICES \/ e \in x.seen
               \/ \E i \in 1..Len(r) : r[i] = e
               \/ \E j \in 1..Len(t) : t[j][1] = x.chan /\ t[j][2] = e
               \/ z.lagged /\ e < r[1]
    BY <1>1, <1>2, <1>3 DEF Within
  <1>5. \/ e \in x.seen
        \/ \E i \in 1..Len(q) : q[i] = e
        \/ \E j \in 1..Len(p) : p[j][1] = x.chan /\ p[j][2] = e
        \/ x.lagged /\ e < q[1]
    BY <1>1 DEF Within
  <1>6. CASE \E j \in 1..Len(p) : p[j][1] = x.chan /\ p[j][2] = e
    <2>1. PICK j \in 1..Len(p) : p[j][1] = x.chan /\ p[j][2] = e BY <1>6
    <2>2. p[j] = p[1] \/ \E i \in 1..Len(t) : t[i] = p[j] BY <1>2, Shorter, Zenon
    <2>3. p[1][2] = id OBVIOUS
    <2> QED BY <1>4, <2>1, <2>2, <2>3
  <1>7. CASE r = Append(q, id) /\ z.lagged = x.lagged
    <2>1. /\ \A j \in 1..Len(q) : \E i \in 1..Len(r) : r[i] = q[j]
          /\ q # <<>> => r[1] = q[1]
      <3>1. Slid(q, id, r) BY <1>1
      <3> QED BY <1>7, <3>1, ZenonT(30) DEF Slid
    <2>2. x.lagged => q # <<>> BY <1>1
    <2>3. CASE x.lagged /\ e < q[1] BY <1>7, <2>1, <2>2, <2>3
    <2> QED BY <1>5, <1>6, <2>1, <2>3
  <1>8. CASE q # <<>> /\ r = Append(Tail(q), id) /\ z.lagged
    <2>1. /\ \A d \in Int : d <= q[1] => d < r[1]
          /\ \A j \in 1..Len(q) : j = 1 \/ \E i \in 1..Len(r) : r[i] = q[j]
      <3>1. Slid(q, id, r) BY <1>1
      <3>2. q # <<>> /\ r = Append(Tail(q), id) BY <1>8
      <3>3. \A d \in Int : d <= q[1] => d < r[1] BY <3>1, <3>2, ZenonT(30) DEF Slid
      <3>4. \A j \in 1..Len(q) : j = 1 \/ \E i \in 1..Len(r) : r[i] = q[j]
        BY <3>1, <3>2, ZenonT(30) DEF Slid
      <3> QED BY <3>3, <3>4
    <2>2. CASE \E i \in 1..Len(q) : q[i] = e
      <3>1. PICK i \in 1..Len(q) : q[i] = e BY <2>2
      <3>2. CASE i = 1
        <4>1. e <= q[1] BY <3>1, <3>2
        <4> QED BY <1>8, <2>1, <4>1
      <3> QED BY <2>1, <3>1, <3>2
    <2>3. CASE e < q[1]
      <3>1. q[1] \in Int
        <4>1. 1 \in 1..Len(q) BY <1>8
        <4>2. q[1] \in Ids BY <4>1
        <4> QED BY <4>2 DEF Ids
      <3>2. e <= q[1] BY <2>3, <3>1
      <3> QED BY <1>8, <2>1, <3>2
    <2>4. x.lagged /\ e < q[1] => e < q[1] OBVIOUS
    <2> QED BY <1>5, <1>6, <2>2, <2>3, <2>4
  <1> QED BY <1>3, <1>7, <1>8

\* The watcher hands the oldest notification on: into the buffer, or over its
\* oldest event, which the receiver will be told about.
LEMMA PumpInv ==
  ASSUME NotifyInv, NEW l \in Listeners, Pump(l) PROVE NotifyInv'
  <1> USE DEF NotifyInv
  <1>1. PICK m \in Listener : m = lst[l] BY DEF TypeOK
  <1>2. PICK p \in Seq(Chans \X Ids) : p = m.inbox BY DEF Listener
  <1>3. p # <<>> /\ m.phase = "up" BY <1>1, <1>2 DEF Pump
  <1>4. /\ Len(p) \in Nat \ {0} /\ Head(p) = p[1] /\ p[1] \in Chans \X Ids
        /\ Tail(p) \in Seq(Chans \X Ids) /\ Len(Tail(p)) = Len(p) - 1
        /\ \A i \in 1..(Len(p) - 1) : Tail(p)[i] = p[i + 1]
    BY <1>3, TailFacts
  <1>5. PICK c \in Chans, id \in Ids : p[1] = <<c, id>> BY <1>4
  <1>6. PICK t \in Seq(Chans \X Ids) : t = Tail(p) BY <1>4
  <1> DEFINE n == [m EXCEPT !.inbox = t]
  <1>7. /\ lst' = [lst EXCEPT ![l] = n] /\ UNCHANGED <<slot, emitted, deaths>>
        /\ sub' = [u \in Subs |-> IF sub[u].lsn = l /\ sub[u].chan = c /\ sub[u].open
                                  THEN Sent(sub[u], id) ELSE sub[u]]
    BY <1>1, <1>2, <1>4, <1>5, <1>6 DEF Pump, TypeOK
  <1>8. /\ n \in Listener /\ n.phase = m.phase /\ n.inbox = t
        /\ n.listening = m.listening
    BY DEF Listener
  <1> HIDE DEF n
  <1>9. lst'[l] = n /\ \A k \in Listeners \ {l} : lst'[k] = lst[k] BY <1>7 DEF TypeOK
  <1>10. \A u \in Subs : sub[u] \in Sub /\ Len(sub[u].buf) <= Cap BY DEF TypeOK
  <1>11. TypeOK'
    <2>1. \A u \in Subs : sub'[u] \in Sub /\ Len(sub'[u].buf) <= Cap
      <3> SUFFICES ASSUME NEW u \in Subs PROVE sub'[u] \in Sub /\ Len(sub'[u].buf) <= Cap
        OBVIOUS
      <3>1. PICK x \in Sub : x = sub[u] /\ Len(x.buf) <= Cap BY <1>10
      <3>2. Takes(x, id, Sent(x, id)) BY <3>1, SentFacts
      <3>3. sub'[u] = Sent(x, id) \/ sub'[u] = x BY <1>7, <3>1
      <3> QED BY <3>1, <3>2, <3>3 DEF Takes
    <2>2. sub' \in [Subs -> Sub] BY <1>7, <2>1
    <2> QED BY <1>7, <1>8, <2>1, <2>2 DEF TypeOK
  <1>12. ASSUME NEW k \in Listeners PROVE Inbox(k)'
    <2>1. Inbox(k) BY DEF Events
    <2>2. CASE k = l
      <3>1. Sorted(p, emitted) BY <1>1, <1>2, <2>1, <2>2 DEF Inbox
      <3>2. Sorted(t, emitted) BY <1>3, <1>6, <3>1, SortedTail
      <3> QED BY <1>7, <1>8, <1>9, <2>2, <3>2 DEF Inbox
    <2>3. CASE k # l BY <1>7, <1>9, <2>1, <2>3 DEF Inbox
    <2> QED BY <2>2, <2>3
  <1>13. ASSUME NEW u \in Subs PROVE (Holding(u) /\ Tied(u) /\ Ahead(u) /\ Accounted(u))'
    <2>1. /\ Holding(u) /\ Tied(u) /\ Ahead(u) /\ Accounted(u)
          /\ sub[u].lsn = None \/ sub[u].lsn \in Listeners
      BY DEF TypeOK, Sub, Calls, Events
    <2>2. PICK x \in Sub, z \in Sub : x = sub[u] /\ z = sub'[u] BY <1>10, <1>11 DEF TypeOK
    <2>3. CASE x.lsn # l
      <3>1. sub'[u] = sub[u] BY <1>7, <2>2, <2>3
      <3>2. sub[u].lsn # None => lst'[sub[u].lsn] = lst[sub[u].lsn]
        BY <1>9, <2>1, <2>2, <2>3
      <3> QED BY <1>7, <3>1, <3>2, Undisturbed
    <2>4. CASE x.lsn = l
      <3>1. Orderly(x.buf, x.chan, p, emitted[x.chan])
        BY <1>1, <1>2, <2>1, <2>2, <2>4, NoneAssumption DEF Ahead
      <3>2. x.pc = "live" => \A e \in (x.base + 1)..emitted[x.chan] : Within(x, e, p)
        BY <1>1, <1>2, <1>3, <2>1, <2>2, <2>4 DEF Accounted
      <3>3. x.lagged => x.buf # <<>> BY <2>1, <2>2 DEF Holding
      <3>4. lst'[l].inbox = t /\ lst'[l].phase = lst[l].phase
            /\ lst'[l].listening = lst[l].listening
        BY <1>1, <1>8, <1>9
      <3>5. CASE ~(x.chan = c /\ x.open)
        <4>1. sub'[u] = sub[u] BY <1>7, <2>2, <3>5
        <4>2. Holding(u)' BY <2>1, <4>1 DEF Holding
        <4>3. Tied(u)' BY <1>7, <2>1, <2>2, <2>4, <3>4, <4>1 DEF Tied, Failed
        <4>4. Orderly(x.buf, x.chan, t, emitted[x.chan])
          BY <1>3, <1>6, <3>1, OrderlyPop
        <4>5. Ahead(u)' BY <1>7, <2>2, <2>4, <3>4, <4>1, <4>4 DEF Ahead
        <4>6. Accounted(u)'
          <5> SUFFICES ASSUME x.pc = "live",
                              NEW e \in (x.base + 1)..emitted[x.chan]
                       PROVE  Within(x, e, t)
            BY <1>7, <2>2, <2>4, <3>4, <4>1 DEF Accounted
          <5>1. x.chan # c
            BY <1>1, <1>3, <2>1, <2>2, <2>4, <3>5, NoneAssumption DEF Tied
          <5>2. Within(x, e, p) BY <3>2
          <5>3. ASSUME NEW j \in 1..Len(p), p[j][1] = x.chan
                PROVE  \E i \in 1..Len(t) : t[i] = p[j]
            <6>1. p[j] = p[1] \/ \E i \in 1..Len(t) : t[i] = p[j]
              BY <1>3, <1>6, Shorter, Zenon
            <6>2. p[1][1] = c BY <1>5
            <6> QED BY <5>1, <5>3, <6>1, <6>2
          <5> QED BY <5>2, <5>3 DEF Within
        <4> QED BY <4>2, <4>3, <4>5, <4>6
      <3>6. CASE x.chan = c /\ x.open
        <4>1. z = Sent(x, id) BY <1>7, <2>2, <2>4, <3>6
        <4>2. Takes(x, id, z) BY <1>10, <2>2, <4>1, SentFacts
        <4>3. /\ z.pc = x.pc /\ z.lsn = x.lsn /\ z.cand = x.cand
              /\ z.chan = x.chan /\ z.open = x.open /\ z.base = x.base
              /\ \/ z.buf = Append(x.buf, id) /\ z.lagged = x.lagged
                 \/ x.buf # <<>> /\ z.buf = Append(Tail(x.buf), id) /\ z.lagged
          BY <4>2 DEF Takes
        <4>4. Slid(x.buf, id, z.buf) /\ Orderly(z.buf, c, t, emitted[c])
          <5>1. PICK q \in Seq(Ids), r \in Seq(Ids) : q = x.buf /\ r = z.buf BY DEF Sub
          <5>2. Sorted(p, emitted) BY <1>1, <1>2 DEF Events, Inbox
          <5>3. Orderly(q, c, p, emitted[c]) BY <3>1, <3>6, <5>1
          <5>4. r = Append(q, id) \/ (q # <<>> /\ r = Append(Tail(q), id)) BY <4>3, <5>1
          <5>5. Slid(q, id, r) /\ Orderly(r, c, Tail(p), emitted[c])
            BY <1>3, <1>5, <5>2, <5>3, <5>4, OrderlySent
          <5> QED BY <1>6, <5>1, <5>5
        <4>5. z.buf # <<>> BY <4>4 DEF Slid
        <4>6. Holding(u)' BY <2>1, <2>2, <3>6, <4>3, <4>5 DEF Holding
        <4>7. Tied(u)'
          <5>1. /\ sub[u].lsn = l /\ sub'[u].lsn = l /\ sub'[u].pc = sub[u].pc
                /\ sub'[u].open = sub[u].open /\ sub'[u].chan = sub[u].chan
            BY <2>2, <2>4, <4>3
          <5>2. slot' = slot BY <1>7
          <5> QED BY <2>1, <3>4, <5>1, <5>2 DEF Tied, Failed
        <4>8. Ahead(u)' BY <1>7, <2>2, <2>4, <3>4, <3>6, <4>3, <4>4 DEF Ahead
        <4>9. Accounted(u)'
          <5> SUFFICES ASSUME x.pc = "live",
                              NEW e \in (x.base + 1)..emitted[x.chan]
                       PROVE  Within(z, e, t)
            BY <1>7, <2>2, <2>4, <3>4, <4>3 DEF Accounted
          <5>1. Within(x, e, p) /\ e \in Int BY <3>2
          <5> QED BY <1>3, <1>5, <1>6, <3>3, <3>6, <4>2, <4>4, <5>1, WithinSent
        <4> QED BY <4>6, <4>7, <4>8, <4>9
      <3> QED BY <3>5, <3>6
    <2> QED BY <2>3, <2>4
  <1> QED BY <1>11, <1>12, <1>13 DEF Calls, Events

-----------------------------------------------------------------------------
\* Every step keeps the invariant.
LEMMA NextInv == ASSUME NotifyInv, [Next]_vars PROVE NotifyInv'
  <1>1. CASE UNCHANGED vars
    BY <1>1 DEF vars, NotifyInv, TypeOK, Calls, Events, Holding, Tied, Failed,
                Ahead, Accounted, Inbox
  <1>2. ASSUME NEW s \in Subs, Proceed(s) PROVE NotifyInv'
    BY <1>2, FindInv, SpawnInv, InsertInv, LateInv, CleanupInv, ListenInv DEF Proceed
  <1>3. ASSUME NEW s \in Subs, NEW c \in Chans, Subscribe(s, c) PROVE NotifyInv'
    BY <1>3, FindInv
  <1>4. ASSUME NEW s \in Subs, Drop(s) PROVE NotifyInv' BY <1>4, LeaveInv DEF Drop
  <1>5. ASSUME NEW s \in Subs, Recv(s) PROVE NotifyInv' BY <1>5, RecvInv
  <1>6. ASSUME NEW l \in Listeners, Watch(l) \/ Die(l) PROVE NotifyInv'
    BY <1>6, PumpInv, CloseInv, DownInv DEF Watch
  <1>7. ASSUME NEW c \in Chans, Emit(c) PROVE NotifyInv' BY <1>7, EmitInv
  <1> QED BY <1>1, <1>2, <1>3, <1>4, <1>5, <1>6, <1>7 DEF Next

\* The invariant holds throughout, for any subscribers, listeners and channels.
THEOREM Inductive == Spec => []NotifyInv
  BY InitInv, NextInv, PTL DEF Spec

\* Every listener, call and receiver keeps its type, and no buffer outgrows the
\* broadcast channel's capacity.
THEOREM TypeCorrect == Spec => []TypeOK
  <1>1. NotifyInv => TypeOK BY DEF NotifyInv
  <1> QED BY <1>1, Inductive, PTL

\* A pool never has two connected listeners in use: whoever holds one holds the
\* registry's (install_or_lose, remove_if_current).
THEOREM OneListens == Spec => []OneListener
  <1>1. NotifyInv => OneListener BY SlotHeld DEF OneListener
  <1> QED BY <1>1, Inductive, PTL

\* No receiver waits on a Sender that no watcher will drive any more (GH#131),
\* although the exit guard clears and publishes in two steps.
THEOREM NobodyDeaf == Spec => []NoDeafReceiver
  <1>1. NotifyInv => NoDeafReceiver BY DEF NotifyInv, Calls, Tied, NoDeafReceiver
  <1> QED BY <1>1, Inductive, PTL

\* Of all the steps, none takes a listener that is in use and not failed out of
\* the registry.
LEMMA RegistryStep ==
  ASSUME NotifyInv, [Next]_vars, Strong(slot), ~Failed(slot) PROVE slot' = slot
  <1>1. ASSUME NEW s \in Subs, Reap(s) PROVE slot' = slot
    <2>1. Failed(sub[s].lsn) BY <1>1 DEF NotifyInv, Calls, Tied, Reap
    <2> QED BY <1>1, <2>1 DEF Reap, Removes
  <1>2. ASSUME NEW s \in Subs, Install(s) PROVE slot' = slot
    BY <1>2 DEF Install, KeepsExisting
  <1>3. ASSUME NEW s \in Subs, Lookup(s) PROVE slot' = slot BY <1>3 DEF Lookup
  <1>4. ASSUME NEW s \in Subs,
               \/ Check(s) \/ Spawn(s) \/ Fast(s) \/ Insert(s) \/ Late(s)
               \/ Cleanup(s) \/ Listen(s) \/ Recv(s) \/ Drop(s)
               \/ \E c \in Chans : Subscribe(s, c)
        PROVE  slot' = slot
    BY <1>4 DEF Check, Spawn, Fast, Insert, Late, Cleanup, Listen, Recv, Drop, Subscribe
  <1>5. ASSUME NEW l \in Listeners, Watch(l) \/ Die(l) PROVE slot' = slot
    BY <1>5 DEF Watch, Pump, Retire, CloseAll, PublishFailed, Die
  <1>6. ASSUME NEW c \in Chans, Emit(c) PROVE slot' = slot BY <1>6 DEF Emit
  <1> QED BY <1>1, <1>2, <1>3, <1>4, <1>5, <1>6 DEF Next, Proceed, vars

\* A caller that saw an older listener fail never erases its replacement.
THEOREM RegistryKeeps == Spec => RegistryKeepsHealthy
  <1>1. NotifyInv /\ [Next]_vars =>
          [Strong(slot) /\ ~Failed(slot) => slot' = slot]_vars
    BY RegistryStep
  <1> QED BY <1>1, Inductive, PTL DEF Spec, RegistryKeepsHealthy

\* What the invariant says of the entries of inbox and buffer, said of the sets
\* of events in them.
LEMMA Accounts == ASSUME NotifyInv PROVE NothingLostSilently
  <1> SUFFICES ASSUME NEW s \in Subs, sub[s].pc = "live", lst[sub[s].lsn].phase = "up"
               PROVE  /\ \A id \in (sub[s].base + 1)..emitted[sub[s].chan] :
                           \/ id \in sub[s].seen \cup Elements(sub[s].buf)
                           \/ id \in Waiting(sub[s].lsn, sub[s].chan)
                           \/ sub[s].lagged /\ id < Head(sub[s].buf)
                      /\ \A i, j \in 1..Len(sub[s].buf) : i < j => sub[s].buf[i] < sub[s].buf[j]
    BY DEF NothingLostSilently
  <1>1. Holding(s) /\ Ahead(s) /\ Accounted(s) BY DEF NotifyInv, Calls, Events
  <1>2. \A i, j \in 1..Len(sub[s].buf) : i < j => sub[s].buf[i] < sub[s].buf[j]
    BY <1>1 DEF Holding, Ahead, Orderly
  <1>3. ASSUME NEW id \in (sub[s].base + 1)..emitted[sub[s].chan]
        PROVE  \/ id \in sub[s].seen \cup Elements(sub[s].buf)
               \/ id \in Waiting(sub[s].lsn, sub[s].chan)
               \/ sub[s].lagged /\ id < Head(sub[s].buf)
    <2> DEFINE q == sub[s].buf
               p == lst[sub[s].lsn].inbox
    <2>1. Within(sub[s], id, p) BY <1>1 DEF Accounted
    <2>2. ASSUME NEW i \in 1..Len(q), q[i] = id PROVE id \in Elements(q)
      BY <2>2 DEF Elements
    <2>3. ASSUME NEW j \in 1..Len(p), p[j][1] = sub[s].chan, p[j][2] = id
          PROVE  id \in Waiting(sub[s].lsn, sub[s].chan)
      <3>1. p[j] \in {e \in Elements(p) : e[1] = sub[s].chan} BY <2>3 DEF Elements
      <3> QED BY <2>3, <3>1 DEF Waiting
    <2>4. CASE sub[s].lagged /\ id < q[1]
      <3>1. q # <<>> /\ q \in Seq(Ids)
        BY <1>1, <2>4 DEF Holding, NotifyInv, TypeOK, Sub
      <3>2. Head(q) = q[1] BY <3>1, TailFacts
      <3> QED BY <2>4, <3>2
    <2> QED BY <2>1, <2>2, <2>3, <2>4 DEF Within
  <1> QED BY <1>2, <1>3

\* Every event committed after subscribe returned is on its way, in the buffer,
\* received or reported as skipped, in commit order, whatever the capacity.
THEOREM NothingLost == Spec => []NothingLostSilently
  BY Accounts, Inductive, PTL
=============================================================================
