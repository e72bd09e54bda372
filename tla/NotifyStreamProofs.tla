-------------------------- MODULE NotifyStreamProofs --------------------------
(***************************************************************************)
(* Notify implements NotifyPromise: what a subscriber receives is the      *)
(* channel's events in commit order, once each, with every gap announced.  *)
(***************************************************************************)
EXTENDS NotifyProofs

\* The events of S come before buffer q, before what inbox p holds of channel c,
\* and not after event m.
Behind(S, q, c, p, m) ==
  \A e \in S : /\ e <= m
               /\ \A i \in 1..Len(q) : e < q[i]
               /\ \A j \in 1..Len(p) : p[j][1] = c => e < p[j][2]

\* A receiver with news of a gap has not seen the event before its buffer.
Skipped(x) == x.lagged => \A e \in x.seen : e < x.buf[1] - 1

\* Before a buffered event nothing since the LISTEN is missing unannounced.
Gapless(x) ==
  \A i \in 1..Len(x.buf) : \A e \in (x.base + 1)..(x.buf[i] - 1) : Within(x, e, <<>>)

\* What a receiver has seen, and what it has still to be given.  Gapless says of
\* the buffer alone what Accounted says of buffer and inbox together: the buffer
\* survives its connection.
Heard(s) ==
  LET x == sub[s] IN
  /\ x.pc # "live" => x.seen = {}
  /\ x.pc = "live" =>
       /\ Behind(x.seen, x.buf, x.chan, lst[x.lsn].inbox, emitted[x.chan])
       /\ Skipped(x) /\ Gapless(x)

\* The inductive invariant on top of NotifyInv.
StreamInv == \A s \in Subs : Heard(s)

-----------------------------------------------------------------------------
\* Who is not a receiver yet, or any more, has seen nothing.
LEMMA Quiet ==
  ASSUME NEW u \in Subs, sub'[u].pc # "live", sub'[u].seen = {}
  PROVE  Heard(u)'
  BY DEF Heard

\* A receiver holds a listener and a channel.
LEMMA LiveFacts ==
  ASSUME NotifyInv, NEW u \in Subs, sub[u].pc = "live"
  PROVE  /\ sub[u] \in Sub /\ sub[u].lsn \in Listeners /\ sub[u].chan \in Chans
         /\ lst[sub[u].lsn].inbox \in Seq(Chans \X Ids)
         /\ emitted[sub[u].chan] \in Nat
         /\ sub[u].base \in Nat /\ sub[u].seen \subseteq Ids
         /\ sub[u].buf \in Seq(Ids)
         /\ \A i \in 1..Len(sub[u].buf) : sub[u].buf[i] \in Ids
         /\ Orderly(sub[u].buf, sub[u].chan, lst[sub[u].lsn].inbox, emitted[sub[u].chan])
         /\ sub[u].lagged => sub[u].buf # <<>>
  <1> USE NoneAssumption DEF NotifyInv
  <1>1. sub[u] \in Sub BY DEF TypeOK
  <1>2. Holding(u) /\ Ahead(u) BY DEF Calls, Events
  <1>3. sub[u].lsn \in Listeners /\ sub[u].chan \in Chans BY <1>1, <1>2 DEF Holding, Sub
  <1>4. lst[sub[u].lsn].inbox \in Seq(Chans \X Ids) BY <1>3 DEF TypeOK, Listener
  <1>5. emitted[sub[u].chan] \in Nat BY <1>3 DEF TypeOK
  <1>6. sub[u].base \in Nat /\ sub[u].seen \subseteq Ids /\ sub[u].buf \in Seq(Ids)
    BY <1>1 DEF Sub
  <1>7. Orderly(sub[u].buf, sub[u].chan, lst[sub[u].lsn].inbox, emitted[sub[u].chan])
    BY <1>2, <1>3 DEF Ahead
  <1>8. sub[u].lagged => sub[u].buf # <<>> BY <1>2 DEF Holding
  <1> QED BY <1>1, <1>3, <1>4, <1>5, <1>6, <1>7, <1>8

\* A receiver that a step leaves alone, while its inbox loses entries or gets
\* new events.
LEMMA Kept ==
  ASSUME NotifyInv, NEW u \in Subs, Heard(u), sub'[u] \in Sub,
         sub'[u].pc = sub[u].pc, sub'[u].lsn = sub[u].lsn, sub'[u].chan = sub[u].chan,
         sub'[u].buf = sub[u].buf, sub'[u].lagged = sub[u].lagged,
         sub'[u].base = sub[u].base, sub'[u].seen = sub[u].seen,
         \A c \in Chans : emitted'[c] \in Nat /\ emitted[c] <= emitted'[c],
         \A l \in Listeners :
           \A j \in 1..Len(lst'[l].inbox) :
             \/ \E i \in 1..Len(lst[l].inbox) : lst[l].inbox[i] = lst'[l].inbox[j]
             \/ lst'[l].inbox[j][2] = emitted[lst'[l].inbox[j][1]] + 1
  PROVE  Heard(u)'
  <1>1. CASE sub[u].pc # "live" BY <1>1 DEF Heard
  <1>2. CASE sub[u].pc = "live"
    <2>1. PICK x \in Sub, z \in Sub : x = sub[u] /\ z = sub'[u] BY <1>2, LiveFacts
    <2>2. /\ x.lsn \in Listeners /\ x.chan \in Chans /\ x.seen \subseteq Ids
          /\ emitted[x.chan] \in Nat
      BY <1>2, <2>1, LiveFacts
    <2> DEFINE p == lst[x.lsn].inbox
               r == lst'[x.lsn].inbox
               m == emitted[x.chan]
               n == emitted'[x.chan]
    <2>3. /\ z.pc = "live" /\ z.lsn = x.lsn /\ z.chan = x.chan /\ z.buf = x.buf
          /\ z.lagged = x.lagged /\ z.base = x.base /\ z.seen = x.seen
      BY <1>2, <2>1
    <2>4. Behind(x.seen, x.buf, x.chan, p, m) /\ Skipped(x) /\ Gapless(x)
      BY <1>2, <2>1 DEF Heard
    <2>5. m \in Nat /\ n \in Nat /\ m <= n BY <2>2
    <2>6. \A j \in 1..Len(r) : \/ \E i \in 1..Len(p) : p[i] = r[j]
                               \/ r[j][2] = emitted[r[j][1]] + 1
      BY <2>2
    <2> HIDE DEF p, r, n
    <2>7. Behind(z.seen, z.buf, z.chan, r, n)
      <3> SUFFICES ASSUME NEW e \in x.seen
                   PROVE  /\ e <= n
                          /\ \A i \in 1..Len(x.buf) : e < x.buf[i]
                          /\ \A j \in 1..Len(r) : r[j][1] = x.chan => e < r[j][2]
        BY <2>3 DEF Behind
      <3>1. /\ e <= m /\ \A i \in 1..Len(x.buf) : e < x.buf[i]
            /\ \A j \in 1..Len(p) : p[j][1] = x.chan => e < p[j][2]
        BY <2>4 DEF Behind
      <3>2. e \in Nat BY <2>2 DEF Ids
      <3>3. ASSUME NEW j \in 1..Len(r), r[j][1] = x.chan PROVE e < r[j][2]
        <4>1. CASE \E i \in 1..Len(p) : p[i] = r[j] BY <3>1, <3>3, <4>1
        <4>2. CASE r[j][2] = emitted[r[j][1]] + 1
          <5>1. r[j][2] = m + 1 BY <3>3, <4>2
          <5> QED BY <2>5, <3>1, <3>2, <5>1
        <4> QED BY <2>6, <4>1, <4>2
      <3> QED BY <2>5, <3>1, <3>2, <3>3
    <2>8. Skipped(z) BY <2>3, <2>4 DEF Skipped
    <2>9. Gapless(z) BY <2>3, <2>4 DEF Gapless, Within
    <2> QED BY <2>1, <2>3, <2>7, <2>8, <2>9 DEF Heard, r, n
  <1> QED BY <1>1, <1>2

\* A receiver that is, but for its closing, what it was.
Alike(z, x) ==
  /\ z.pc = x.pc /\ z.lsn = x.lsn /\ z.chan = x.chan /\ z.buf = x.buf
  /\ z.lagged = x.lagged /\ z.base = x.base /\ z.seen = x.seen

\* A step of one call, or none, that gives no inbox anything and takes nothing
\* from another receiver.
LEMMA OthersKept ==
  ASSUME NotifyInv, StreamInv, TypeOK', emitted' = emitted,
         \A l \in Listeners : lst'[l].inbox \in {lst[l].inbox, <<>>},
         \A u \in Subs : Alike(sub'[u], sub[u]) \/ Heard(u)'
  PROVE  StreamInv'
  <1> SUFFICES ASSUME NEW u \in Subs, Alike(sub'[u], sub[u]) PROVE Heard(u)'
    BY DEF StreamInv
  <1>1. Heard(u) /\ sub'[u] \in Sub BY DEF StreamInv, TypeOK
  <1>2. \A c \in Chans : emitted'[c] \in Nat /\ emitted[c] <= emitted'[c]
    BY DEF NotifyInv, TypeOK
  <1>3. ASSUME NEW l \in Listeners, NEW j \in 1..Len(lst'[l].inbox)
        PROVE  \E i \in 1..Len(lst[l].inbox) : lst[l].inbox[i] = lst'[l].inbox[j]
    OBVIOUS
  <1> QED BY <1>1, <1>2, <1>3, Kept DEF Alike

\* A call's own steps leave every other call and receiver what they were, but for
\* closing some.
LEMMA CallOthers ==
  ASSUME TypeOK, NEW s \in Subs, NEW u \in Subs \ {s},
         \/ Proceed(s) \/ Drop(s) \/ \E c \in Chans : Subscribe(s, c)
  PROVE  Alike(sub'[u], sub[u])
  <1>1. CASE Cleanup(s)
    <2>1. sub'[u] = Closed(sub[s].lsn, {sub[s].chan})[u]
      BY <1>1 DEF Cleanup, Closed
    <2> QED BY <2>1, ClosedFacts DEF Alike
  <1>2. CASE ~Cleanup(s)
    <2>1. ASSUME \/ Lookup(s) \/ Check(s) \/ Reap(s)
                 \/ Install(s) \/ Insert(s) \/ Late(s)
          PROVE  sub'[u] = sub[u]
      BY <2>1 DEF Lookup, Check, Reap, Install, Insert, Late, Goto, TypeOK
    <2>2. ASSUME Spawn(s) \/ Fast(s) \/ Listen(s) \/ Drop(s) PROVE sub'[u] = sub[u]
      BY <2>2 DEF Spawn, Fast, Listen, Drop, Leave, Goto, TypeOK
    <2>3. ASSUME NEW c \in Chans, Subscribe(s, c) PROVE sub'[u] = sub[u]
      BY <2>3 DEF Subscribe, TypeOK
    <2>4. sub'[u] = sub[u] BY <1>2, <2>1, <2>2, <2>3 DEF Proceed
    <2> QED BY <2>4 DEF Alike
  <1> QED BY <1>1, <1>2

\* A call on its way to its receiver, or giving up.
LEMMA CallKept ==
  ASSUME NotifyInv, NotifyInv', StreamInv, NEW s \in Subs,
         \/ Proceed(s) \/ Drop(s) \/ \E c \in Chans : Subscribe(s, c)
  PROVE  StreamInv'
  <1> USE DEF NotifyInv
  <1>1. PICK y \in Sub : y = sub[s] BY DEF TypeOK
  <1>2. Holding(s) BY DEF Calls
  <1>3. y.pc # "live" => y.seen = {} BY <1>1 DEF StreamInv, Heard
  <1>4. emitted' = emitted
    BY DEF Proceed, Drop, Subscribe, Lookup, Check, Reap, Spawn, Install, Fast,
           Insert, Late, Cleanup, Listen
  <1>5. \A l \in Listeners : lst'[l].inbox \in {lst[l].inbox, <<>>}
    <2>1. CASE UNCHANGED lst BY <2>1
    <2>2. CASE Spawn(s) /\ ~UNCHANGED lst
      <3>1. PICK l \in Listeners :
              lst' = [lst EXCEPT ![l] = [FreeListener EXCEPT !.phase = "up"]]
        BY <2>2 DEF Spawn
      <3> QED BY <3>1, FreshFacts DEF TypeOK
    <2>3. ASSUME NEW l \in Listeners, Insert(s) \/ Cleanup(s) \/ Listen(s)
          PROVE  lst'[l].inbox = lst[l].inbox
      <3>1. PICK m \in Listener : m = lst[l] BY DEF TypeOK
      <3>2. CASE Insert(s) BY <3>1, <3>2 DEF Insert, TypeOK, Listener
      <3>3. CASE Cleanup(s) BY <3>1, <3>3 DEF Cleanup, TypeOK, Listener
      <3>4. CASE Listen(s)
        <4>1. CASE UNCHANGED lst BY <4>1
        <4>2. CASE lst' = [lst EXCEPT ![sub[s].lsn].listening = @ \cup {sub[s].chan}]
          BY <3>1, <4>2 DEF TypeOK, Listener
        <4> QED BY <3>4, <4>1, <4>2 DEF Listen
      <3> QED BY <2>3, <3>2, <3>3, <3>4
    <2> QED
      BY <2>1, <2>2, <2>3 DEF Proceed, Drop, Subscribe, Lookup, Check, Reap, Install, Fast,
           Late
  <1>6. \A u \in Subs \ {s} : Alike(sub'[u], sub[u]) BY CallOthers
  <1>7. Heard(s)'
    <2>1. CASE Listen(s) /\ ~Leave(s)
      <3>1. /\ sub' = [sub EXCEPT ![s].pc = "live", ![s].base = emitted[y.chan]]
            /\ y.pc = "listen"
        BY <1>1, <2>1 DEF Listen
      <3>2. PICK z \in Sub : z = sub'[s] BY DEF TypeOK
      <3>3. /\ z.pc = "live" /\ z.base = emitted[z.chan] /\ z.seen = {}
        BY <1>1, <1>3, <3>1, <3>2 DEF TypeOK, Sub
      <3>4. /\ emitted[z.chan] \in Nat
            /\ \A i \in 1..Len(z.buf) : z.buf[i] \in Ids /\ z.buf[i] <= emitted[z.chan]
        <4>1. z.buf = y.buf /\ z.chan = y.chan /\ y.lsn # None /\ y.chan \in Chans
          BY <1>1, <1>2, <3>1, <3>2, NoneAssumption DEF Holding, TypeOK, Sub
        <4>2. Orderly(y.buf, y.chan, lst[y.lsn].inbox, emitted[y.chan])
          BY <1>1, <4>1 DEF Events, Ahead
        <4>3. PICK q \in Seq(Ids) : q = y.buf BY DEF Sub
        <4>4. \A i \in 1..Len(q) : q[i] \in Ids OBVIOUS
        <4> QED BY <4>1, <4>2, <4>3, <4>4 DEF Orderly, TypeOK
      <3>5. Behind(z.seen, z.buf, z.chan, lst'[z.lsn].inbox, emitted'[z.chan])
        BY <3>3 DEF Behind
      <3>6. Skipped(z) BY <3>3 DEF Skipped
      <3>7. \A i \in 1..Len(z.buf) : (z.base + 1)..(z.buf[i] - 1) = {}
        BY <1>4, <3>3, <3>4 DEF Ids
      <3>8. Gapless(z) BY <3>7 DEF Gapless
      <3> QED BY <3>2, <3>3, <3>5, <3>6, <3>8 DEF Heard
    <2>2. CASE Leave(s)
      <3>1. sub'[s] = Idle BY <2>2 DEF Leave, TypeOK
      <3>2. Idle.seen = {} BY DEF Idle
      <3> QED BY <3>1, <3>2, IdleFacts, Quiet
    <2>3. CASE Cleanup(s)
      <3>1. sub'[s] = Idle BY <2>3 DEF Cleanup, Closed
      <3>2. Idle.seen = {} BY DEF Idle
      <3> QED BY <3>1, <3>2, IdleFacts, Quiet
    <2>4. CASE /\ ~Leave(s) /\ ~Listen(s) /\ ~Cleanup(s)
      <3>1. /\ sub'[s].seen = y.seen /\ sub'[s].pc # "live" /\ y.pc # "live"
        <4>1. CASE Lookup(s) \/ Check(s) \/ Reap(s) \/ Install(s)
          BY <1>1, <4>1 DEF Lookup, Check, Reap, Install, Goto, TypeOK, Sub
        <4>2. CASE Spawn(s) \/ Fast(s) \/ Insert(s) \/ Late(s)
          BY <1>1, <2>4, <4>2 DEF Spawn, Fast, Insert, Late, Goto, TypeOK, Sub
        <4>3. CASE Drop(s) BY <2>4, <4>3 DEF Drop
        <4>4. ASSUME NEW c \in Chans, Subscribe(s, c)
              PROVE  /\ sub'[s].seen = y.seen /\ sub'[s].pc # "live" /\ y.pc # "live"
          BY <1>1, <4>4 DEF Subscribe, TypeOK, Sub
        <4> QED BY <2>4, <4>1, <4>2, <4>3, <4>4 DEF Proceed
      <3> QED BY <1>3, <3>1, Quiet
    <2> QED BY <2>1, <2>2, <2>3, <2>4
  <1> QED BY <1>4, <1>5, <1>6, <1>7, OthersKept

\* The connection ends and its exit guard runs: receivers keep their buffers.
LEMMA DownKept ==
  ASSUME NotifyInv, NotifyInv', StreamInv, NEW l \in Listeners,
         Die(l) \/ Retire(l) \/ CloseAll(l) \/ PublishFailed(l)
  PROVE  StreamInv'
  <1> USE DEF NotifyInv
  <1>1. emitted' = emitted BY DEF Die, Retire, CloseAll, PublishFailed
  <1>2. ASSUME NEW k \in Listeners PROVE lst'[k].inbox \in {lst[k].inbox, <<>>}
    <2>1. CASE k # l
      <3>1. lst'[k] = lst[k]
        BY <2>1 DEF Die, Retire, CloseAll, GuardClears, PublishFailed, TypeOK
      <3> QED BY <3>1
    <2>2. CASE k = l
      <3>1. PICK m \in Listener : m = lst[l] BY DEF TypeOK
      <3>2. CASE Die(l) \/ Retire(l)
        <4>1. lst'[l] = [m EXCEPT !.phase = "closed", !.inbox = <<>>]
          BY <3>1, <3>2 DEF Die, Retire, TypeOK
        <4> QED BY <2>2, <3>1, <4>1 DEF Listener
      <3>3. CASE CloseAll(l)
        <4>1. lst'[l] = [m EXCEPT !.phase = "cleared", !.has = {}]
          BY <3>1, <3>3 DEF CloseAll, GuardClears, TypeOK
        <4> QED BY <2>2, <3>1, <4>1 DEF Listener
      <3>4. CASE PublishFailed(l)
        <4>1. lst'[l] = [m EXCEPT !.phase = "failed"]
          BY <3>1, <3>4 DEF PublishFailed, TypeOK
        <4> QED BY <2>2, <3>1, <4>1 DEF Listener
      <3> QED BY <3>2, <3>3, <3>4
    <2> QED BY <2>1, <2>2
  <1>3. ASSUME NEW u \in Subs PROVE Alike(sub'[u], sub[u])
    <2>1. CASE CloseAll(l)
      <3>1. sub'[u] = Closed(l, Chans)[u] BY <2>1 DEF CloseAll, GuardClears
      <3> QED BY <3>1, ClosedFacts DEF Alike
    <2>2. CASE UNCHANGED sub BY <2>2 DEF Alike
    <2> QED BY <2>1, <2>2 DEF Die, Retire, PublishFailed
  <1> QED BY <1>1, <1>2, <1>3, OthersKept

\* A new event is later than anything a receiver has seen.
LEMMA EmitKept ==
  ASSUME NotifyInv, NotifyInv', StreamInv, NEW c \in Chans, Emit(c)
  PROVE  StreamInv'
  <1> USE DEF NotifyInv
  <1>1. \A d \in Chans : emitted'[d] \in Nat /\ emitted[d] <= emitted'[d]
    BY DEF Emit, TypeOK
  <1>2. ASSUME NEW l \in Listeners, NEW j \in 1..Len(lst'[l].inbox)
        PROVE  \/ \E i \in 1..Len(lst[l].inbox) : lst[l].inbox[i] = lst'[l].inbox[j]
               \/ lst'[l].inbox[j][2] = emitted[lst'[l].inbox[j][1]] + 1
    <2>1. PICK m \in Listener : m = lst[l] BY DEF TypeOK
    <2>2. PICK e \in Ids : e = emitted[c] + 1 BY LimitsAssumption DEF Emit, TypeOK, Ids
    <2>3. PICK p \in Seq(Chans \X Ids), r \in Seq(Chans \X Ids) :
            /\ p = m.inbox /\ r = Append(p, <<c, e>>)
      <3>1. m.inbox \in Seq(Chans \X Ids) /\ <<c, e>> \in Chans \X Ids BY DEF Listener
      <3>2. Append(m.inbox, <<c, e>>) \in Seq(Chans \X Ids) BY <3>1, AppendFacts
      <3> QED BY <3>1, <3>2
    <2>4. lst'[l].inbox = p \/ lst'[l].inbox = r
      <3>1. CASE m.phase = "up" /\ c \in m.listening
        <4>1. lst'[l] = [m EXCEPT !.inbox = Append(@, <<c, e>>)]
          BY <2>1, <2>2, <3>1 DEF Emit
        <4>2. lst'[l].inbox = Append(m.inbox, <<c, e>>) BY <4>1 DEF Listener
        <4> QED BY <2>3, <4>2
      <3>2. CASE ~(m.phase = "up" /\ c \in m.listening)
        BY <2>1, <2>3, <3>2 DEF Emit
      <3> QED BY <3>1, <3>2
    <2>5. CASE lst'[l].inbox = p BY <2>1, <2>3, <2>5
    <2>6. CASE lst'[l].inbox = r
      <3>1. /\ Len(p) \in Nat /\ Len(r) = Len(p) + 1 /\ r[Len(p) + 1] = <<c, e>>
            /\ \A i \in 1..Len(p) : r[i] = p[i]
        BY <2>3, AppendFacts
      <3>2. j \in 1..Len(p) \/ j = Len(p) + 1 BY <2>6, <3>1
      <3>3. CASE j \in 1..Len(p) BY <2>1, <2>3, <2>6, <3>1, <3>3
      <3>4. CASE j = Len(p) + 1
        <4>1. r[j] = <<c, e>> BY <3>1, <3>4
        <4>2. r[j][1] = c /\ r[j][2] = e BY <4>1
        <4> QED BY <2>2, <2>6, <4>2
      <3> QED BY <3>2, <3>3, <3>4
    <2> QED BY <2>4, <2>5, <2>6
  <1>3. ASSUME NEW u \in Subs PROVE Heard(u)'
    <2>1. Heard(u) /\ sub'[u] = sub[u] /\ sub'[u] \in Sub
      BY DEF StreamInv, Emit, TypeOK
    <2> QED BY <1>1, <1>2, <2>1, Kept
  <1> QED BY <1>3 DEF StreamInv

\* recv: what is received comes next, what is reported was missed.
LEMMA RecvKept ==
  ASSUME NotifyInv, NotifyInv', StreamInv, NEW s \in Subs, Recv(s)
  PROVE  StreamInv'
  <1> USE DEF NotifyInv
  <1>1. PICK y \in Sub : y = sub[s] BY DEF TypeOK
  <1>2. y.pc = "live" /\ UNCHANGED <<slot, lst, emitted, deaths>> BY <1>1 DEF Recv
  <1>3. ASSUME NEW u \in Subs \ {s} PROVE Alike(sub'[u], sub[u])
    <2>1. sub'[u] = sub[u] BY DEF Recv, Leave, TypeOK
    <2> QED BY <2>1 DEF Alike
  <1> DEFINE p == lst[y.lsn].inbox
             m == emitted[y.chan]
             q == y.buf
  <1>4. /\ y.chan \in Chans /\ m \in Nat /\ y.base \in Nat /\ y.seen \subseteq Ids
        /\ q \in Seq(Ids) /\ Len(q) \in Nat
        /\ \A i \in 1..Len(q) : q[i] \in Nat
        /\ Orderly(q, y.chan, p, m)
        /\ p \in Seq(Chans \X Ids)
        /\ \A j \in 1..Len(p) : p[j][2] \in Nat
        /\ y.lagged => q # <<>>
    <2>1. \A j \in 1..Len(p) : p[j] \in Chans \X Ids BY <1>1, <1>2, LiveFacts
    <2> QED BY <1>1, <1>2, <2>1, LiveFacts DEF Ids
  <1>5. Behind(y.seen, q, y.chan, p, m) /\ Skipped(y) /\ Gapless(y)
    BY <1>1, <1>2 DEF StreamInv, Heard
  <1> HIDE DEF p, m
  <1>6. Heard(s)'
    <2>1. CASE /\ y.lagged
               /\ sub' = [sub EXCEPT ![s].lagged = FALSE,
                                     ![s].seen = @ \cup 1..(Head(sub[s].buf) - 1)]
      <3>1. q # <<>> /\ Head(q) = q[1] /\ 1 \in 1..Len(q) BY <1>4, <2>1, TailFacts
      <3> DEFINE z == [y EXCEPT !.lagged = FALSE, !.seen = @ \cup 1..(q[1] - 1)]
      <3>2. sub'[s] = z BY <1>1, <2>1, <3>1 DEF TypeOK
      <3>3. /\ z.pc = "live" /\ z.lsn = y.lsn /\ z.chan = y.chan /\ z.buf = q
            /\ ~z.lagged /\ z.base = y.base /\ z.seen = y.seen \cup 1..(q[1] - 1)
        BY <1>2 DEF Sub
      <3> HIDE DEF z
      <3>4. ASSUME NEW i \in 1..Len(q) PROVE q[1] <= q[i]
        <4>1. i = 1 \/ 1 < i OBVIOUS
        <4> QED BY <1>4, <3>1, <4>1 DEF Orderly
      <3>5. Behind(z.seen, q, y.chan, p, m)
        <4> SUFFICES ASSUME NEW e \in 1..(q[1] - 1)
                     PROVE  /\ e <= m
                            /\ \A i \in 1..Len(q) : e < q[i]
                            /\ \A j \in 1..Len(p) : p[j][1] = y.chan => e < p[j][2]
          BY <1>5, <3>3 DEF Behind
        <4>1. e \in Nat /\ e < q[1] BY <1>4, <3>1
        <4>2. q[1] <= m /\ \A j \in 1..Len(p) : p[j][1] = y.chan => q[1] < p[j][2]
          BY <1>4, <3>1 DEF Orderly
        <4>3. e <= m BY <1>4, <3>1, <4>1, <4>2
        <4>4. ASSUME NEW i \in 1..Len(q) PROVE e < q[i] BY <1>4, <3>1, <3>4, <4>1
        <4>5. ASSUME NEW j \in 1..Len(p), p[j][1] = y.chan PROVE e < p[j][2]
          BY <1>4, <3>1, <4>1, <4>2, <4>5
        <4> QED BY <4>3, <4>4, <4>5
      <3>6. Skipped(z) BY <3>3 DEF Skipped
      <3>7. Gapless(z)
        <4> SUFFICES ASSUME NEW i \in 1..Len(q), NEW e \in (y.base + 1)..(q[i] - 1)
                     PROVE  Within(z, e, <<>>)
          BY <3>3 DEF Gapless
        <4>1. Within(y, e, <<>>) BY <1>5 DEF Gapless
        <4>2. e < q[1] => e \in z.seen BY <1>4, <3>1, <3>3
        <4> QED BY <3>3, <4>1, <4>2 DEF Within
      <3> QED BY <1>2, <3>2, <3>3, <3>5, <3>6, <3>7 DEF Heard, p, m
    <2>2. CASE /\ ~y.lagged /\ y.buf # <<>>
               /\ sub' = [sub EXCEPT ![s].buf = Tail(@),
                                     ![s].seen = @ \cup {Head(sub[s].buf)}]
      <3>1. PICK t \in Seq(Ids) : t = Tail(q) BY <1>4, <2>2, TailFacts
      <3>2. /\ Head(q) = q[1] /\ 1 \in 1..Len(q) /\ Len(t) = Len(q) - 1
            /\ \A i \in 1..Len(t) : i + 1 \in 1..Len(q) /\ 1 < i + 1 /\ t[i] = q[i + 1]
        BY <1>4, <2>2, <3>1, TailFacts
      <3> DEFINE z == [y EXCEPT !.buf = t, !.seen = @ \cup {q[1]}]
      <3>3. sub'[s] = z BY <1>1, <2>2, <3>1, <3>2 DEF TypeOK
      <3>4. /\ z.pc = "live" /\ z.lsn = y.lsn /\ z.chan = y.chan /\ z.buf = t
            /\ z.lagged = y.lagged /\ z.base = y.base /\ z.seen = y.seen \cup {q[1]}
        BY <1>2 DEF Sub
      <3> HIDE DEF z
      <3>5. Behind(z.seen, t, y.chan, p, m)
        <4>1. ASSUME NEW i \in 1..Len(t), NEW e \in y.seen PROVE e < t[i]
          BY <1>5, <3>2 DEF Behind
        <4>2. ASSUME NEW i \in 1..Len(t) PROVE q[1] < t[i]
          BY <1>4, <3>2 DEF Orderly
        <4>3. q[1] <= m /\ \A j \in 1..Len(p) : p[j][1] = y.chan => q[1] < p[j][2]
          BY <1>4, <3>2 DEF Orderly
        <4> QED BY <1>5, <3>4, <4>1, <4>2, <4>3 DEF Behind
      <3>6. Skipped(z) BY <2>2, <3>4 DEF Skipped
      <3>7. Gapless(z)
        <4> SUFFICES ASSUME NEW i \in 1..Len(t), NEW e \in (y.base + 1)..(t[i] - 1)
                     PROVE  Within(z, e, <<>>)
          BY <3>4 DEF Gapless
        <4>1. Within(y, e, <<>>)
          <5>1. i + 1 \in 1..Len(q) /\ t[i] = q[i + 1] BY <3>2
          <5> QED BY <1>5, <5>1 DEF Gapless
        <4>2. (\E k \in 1..Len(q) : q[k] = e) => e = q[1] \/ \E k \in 1..Len(t) : t[k] = e
          <5>1. \A k \in 1..Len(q) : q[k] = q[1] \/ \E j \in 1..Len(t) : t[j] = q[k]
            BY <1>4, <2>2, <3>1, Shorter
          <5> QED BY <5>1
        <4> QED BY <2>2, <3>4, <4>1, <4>2 DEF Within
      <3> QED BY <1>2, <3>3, <3>4, <3>5, <3>6, <3>7 DEF Heard, p, m
    <2>3. CASE Leave(s)
      <3>1. sub'[s] = Idle BY <2>3 DEF Leave, TypeOK
      <3>2. Idle.seen = {} BY DEF Idle
      <3> QED BY <3>1, <3>2, IdleFacts, Quiet
    <2> QED BY <1>1, <2>1, <2>2, <2>3 DEF Recv
  <1> QED BY <1>2, <1>3, <1>6, OthersKept

\* Before the event a watcher has in hand, nothing is in its inbox any more.
LEMMA BeforeHead ==
  ASSUME NEW x \in Sub, NEW p \in Seq(Chans \X Ids), p # <<>>, NEW id \in Ids,
         p[1] = <<x.chan, id>>, NEW m, Sorted(p, m),
         NEW e \in Int, e < id, Within(x, e, p)
  PROVE  Within(x, e, <<>>)
  <1>1. /\ 1 \in 1..Len(p) /\ p[1][1] = x.chan /\ p[1][2] = id
        /\ \A j \in 1..Len(p) : p[j] \in Chans \X Ids
    BY TailFacts
  <1>2. ASSUME NEW j \in 1..Len(p), p[j][1] = x.chan, p[j][2] = e PROVE FALSE
    <2>1. CASE j = 1 BY <1>1, <1>2, <2>1 DEF Ids
    <2>2. CASE j # 1
      <3>1. 1 < j BY <2>2
      <3>2. p[1][2] < p[j][2] BY <1>1, <1>2, <3>1 DEF Sorted
      <3> QED BY <1>1, <1>2, <3>2 DEF Ids
    <2> QED BY <2>1, <2>2
  <1> QED BY <1>2 DEF Within

\* A receiver that is sent the head of the inbox: what a full buffer overwrites
\* is older than what is left, and newer than anything received.
LEMMA SentHeard ==
  ASSUME NEW x \in Sub, NEW z \in Sub, NEW id \in Ids, Takes(x, id, z),
         Slid(x.buf, id, z.buf), x.lagged => x.buf # <<>>,
         NEW p \in Seq(Chans \X Ids), p # <<>>, p[1] = <<x.chan, id>>, x.chan \in Chans,
         NEW m, Sorted(p, m), NEW n, Behind(x.seen, x.buf, x.chan, p, n),
         Skipped(x), Gapless(x),
         \A e \in (x.base + 1)..(id - 1) : Within(x, e, p)
  PROVE  Behind(z.seen, z.buf, z.chan, Tail(p), n) /\ Skipped(z) /\ Gapless(z)
  <1>1. PICK q \in Seq(Ids), r \in Seq(Ids) : q = x.buf /\ r = z.buf BY DEF Sub
  <1>2. PICK t \in Seq(Chans \X Ids) : t = Tail(p) BY TailFacts
  <1>3. /\ z.seen = x.seen /\ z.chan = x.chan /\ z.base = x.base
        /\ \/ r = Append(q, id) /\ z.lagged = x.lagged
           \/ q # <<>> /\ r = Append(Tail(q), id) /\ z.lagged
    BY <1>1 DEF Takes
  <1>4. /\ x.seen \subseteq Nat /\ x.base \in Nat
        /\ \A i \in 1..Len(q) : q[i] \in Nat
        /\ \A i \in 1..Len(r) : r[i] \in Nat
        /\ q # <<>> => 1 \in 1..Len(q)
        /\ 1 \in 1..Len(p) /\ p[1][1] = x.chan /\ p[1][2] = id /\ id \in Nat
        /\ 1 \in 1..Len(r)
    <2>1. /\ \A i \in 1..Len(q) : q[i] \in Ids
          /\ \A i \in 1..Len(r) : r[i] \in Ids
          /\ Len(r) \in Nat /\ Len(q) \in Nat /\ Len(p) \in Nat
      OBVIOUS
    <2>2. x.seen \subseteq Ids /\ x.base \in Nat BY DEF Sub
    <2>3. r # <<>> BY <1>1 DEF Slid
    <2> QED BY <2>1, <2>2, <2>3 DEF Ids
  <1>5. \A i \in 1..Len(r) : r[i] = id \/ \E j \in 1..Len(q) : r[i] = q[j]
    BY <1>1 DEF Slid
  <1>6. \A i \in 1..Len(t) : i + 1 \in 1..Len(p) /\ t[i] = p[i + 1]
    BY <1>2, TailFacts
  <1>7. ASSUME NEW e \in x.seen
        PROVE  /\ e <= n /\ e < id
               /\ \A i \in 1..Len(q) : e < q[i]
               /\ \A j \in 1..Len(p) : p[j][1] = x.chan => e < p[j][2]
    <2>1. /\ e <= n /\ \A i \in 1..Len(q) : e < q[i]
          /\ \A j \in 1..Len(p) : p[j][1] = x.chan => e < p[j][2]
      BY <1>1 DEF Behind
    <2> QED BY <1>4, <2>1
  <1>8. Behind(z.seen, r, z.chan, t, n)
    <2> SUFFICES ASSUME NEW e \in x.seen
                 PROVE  /\ e <= n /\ \A i \in 1..Len(r) : e < r[i]
                        /\ \A j \in 1..Len(t) : t[j][1] = x.chan => e < t[j][2]
      BY <1>3 DEF Behind
    <2>1. \A i \in 1..Len(r) : e < r[i] BY <1>5, <1>7
    <2>2. \A j \in 1..Len(t) : t[j][1] = x.chan => e < t[j][2] BY <1>6, <1>7
    <2> QED BY <1>7, <2>1, <2>2
  <1>9. ASSUME z.lagged, NEW e \in x.seen PROVE e < r[1] - 1
    <2>1. Slid(q, id, r) BY <1>1
    <2>2. CASE r = Append(q, id) /\ z.lagged = x.lagged
      <3>1. q # <<>> BY <1>1, <1>9, <2>2
      <3>2. r[1] = q[1] BY <2>1, <2>2, <3>1, ZenonT(30) DEF Slid
      <3>3. e < q[1] - 1 BY <1>1, <1>9, <2>2 DEF Skipped
      <3> QED BY <3>2, <3>3
    <2>3. CASE q # <<>> /\ r = Append(Tail(q), id)
      <3>1. \A d \in Int : d <= q[1] => d < r[1] BY <2>1, <2>3, ZenonT(30) DEF Slid
      <3>2. e \in Nat /\ q[1] \in Nat /\ r[1] \in Nat /\ e < q[1] BY <1>4, <1>7, <2>3
      <3>3. e + 1 \in Int /\ e + 1 <= q[1] BY <3>2
      <3>4. e + 1 < r[1] BY <3>1, <3>3
      <3> QED BY <3>2, <3>4
    <2> QED BY <1>3, <2>2, <2>3
  <1>10. ASSUME NEW e \in Int, Within(x, e, <<>>) PROVE Within(z, e, <<>>)
    <2> DEFINE o == <<<<x.chan, id>>>>
    <2>1. /\ o \in Seq(Chans \X Ids) /\ o # <<>> /\ o[1] = <<x.chan, id>> /\ Tail(o) = <<>>
      OBVIOUS
    <2>2. Within(x, e, o) BY <1>10 DEF Within
    <2> HIDE DEF o
    <2>3. Within(z, e, Tail(o)) BY <2>1, <2>2, WithinSent
    <2> QED BY <2>1, <2>3
  <1>11. Gapless(z)
    <2> SUFFICES ASSUME NEW i \in 1..Len(r), NEW e \in (x.base + 1)..(r[i] - 1)
                 PROVE  Within(z, e, <<>>)
      BY <1>1, <1>3 DEF Gapless
    <2>1. CASE r[i] = id
      <3>1. Within(x, e, p) /\ e \in Int /\ e < id BY <1>4, <2>1
      <3>2. Within(x, e, <<>>) BY <3>1, BeforeHead
      <3> QED BY <1>10, <3>1, <3>2
    <2>2. ASSUME NEW j \in 1..Len(q), r[i] = q[j] PROVE Within(z, e, <<>>)
      <3>1. Within(x, e, <<>>) BY <1>1, <2>2 DEF Gapless
      <3> QED BY <1>10, <3>1
    <2> QED BY <1>5, <2>1, <2>2
  <1> QED BY <1>1, <1>2, <1>3, <1>8, <1>9, <1>11 DEF Skipped

\* The watcher hands on the oldest notification of its inbox.
LEMMA PumpKept ==
  ASSUME NotifyInv, NotifyInv', StreamInv, NEW l \in Listeners, Pump(l)
  PROVE  StreamInv'
  <1> USE DEF NotifyInv
  <1>1. PICK m \in Listener : m = lst[l] BY DEF TypeOK
  <1>2. PICK p \in Seq(Chans \X Ids) : p = m.inbox BY DEF Listener
  <1>3. p # <<>> /\ m.phase = "up" BY <1>1, <1>2 DEF Pump
  <1>4. /\ Head(p) = p[1] /\ p[1] \in Chans \X Ids /\ 1 \in 1..Len(p)
        /\ Tail(p) \in Seq(Chans \X Ids)
    BY <1>3, TailFacts
  <1>5. PICK c \in Chans, id \in Ids : p[1] = <<c, id>> BY <1>4
  <1>6. PICK t \in Seq(Chans \X Ids) : t = Tail(p) BY <1>4
  <1> DEFINE n == [m EXCEPT !.inbox = t]
  <1>7. /\ lst' = [lst EXCEPT ![l] = n] /\ UNCHANGED <<slot, emitted, deaths>>
        /\ sub' = [u \in Subs |-> IF sub[u].lsn = l /\ sub[u].chan = c /\ sub[u].open
                                  THEN Sent(sub[u], id) ELSE sub[u]]
    BY <1>1, <1>2, <1>4, <1>5, <1>6 DEF Pump, TypeOK
  <1>8. n.inbox = t BY DEF Listener
  <1> HIDE DEF n
  <1>9. lst'[l] = n /\ \A k \in Listeners \ {l} : lst'[k] = lst[k] BY <1>7 DEF TypeOK
  <1>10. \A d \in Chans : emitted'[d] \in Nat /\ emitted[d] <= emitted'[d]
    BY <1>7 DEF TypeOK
  <1>11. ASSUME NEW k \in Listeners, NEW j \in 1..Len(lst'[k].inbox)
         PROVE  \E i \in 1..Len(lst[k].inbox) : lst[k].inbox[i] = lst'[k].inbox[j]
    <2>1. CASE k = l
      <3>1. lst'[k].inbox = t /\ lst[k].inbox = p BY <1>1, <1>2, <1>8, <1>9, <2>1
      <3>2. j + 1 \in 1..Len(p) /\ p[j + 1] = t[j] BY <1>3, <1>6, <1>11, <3>1, TailFacts
      <3> QED BY <3>1, <3>2
    <2>2. CASE k # l BY <1>9, <1>11, <2>2
    <2> QED BY <2>1, <2>2
  <1>12. ASSUME NEW u \in Subs PROVE Heard(u)'
    <2>1. PICK x \in Sub, z \in Sub : x = sub[u] /\ z = sub'[u] /\ Len(x.buf) <= Cap
      BY DEF TypeOK
    <2>2. Heard(u) BY DEF StreamInv
    <2>3. CASE ~(x.lsn = l /\ x.chan = c /\ x.open)
      <3>1. sub'[u] = sub[u] BY <1>7, <2>1, <2>3
      <3> QED BY <1>10, <1>11, <2>1, <2>2, <3>1, Kept
    <2>4. CASE x.lsn = l /\ x.chan = c /\ x.open
      <3>1. z = Sent(x, id) BY <1>7, <2>1, <2>4
      <3>2. Takes(x, id, z) BY <2>1, <3>1, SentFacts
      <3>3. z.pc = x.pc /\ z.lsn = x.lsn /\ z.chan = x.chan /\ z.seen = x.seen
        BY <3>2 DEF Takes
      <3>4. CASE x.pc # "live" BY <2>1, <2>2, <3>3, <3>4 DEF Heard
      <3>5. CASE x.pc = "live"
        <4>1. /\ Holding(u) /\ Tied(u) /\ Ahead(u) /\ Accounted(u)
              /\ Sorted(p, emitted)
          BY <1>1, <1>2 DEF Calls, Events, Inbox
        <4>2. x.lagged => x.buf # <<>> BY <2>1, <4>1 DEF Holding
        <4>3. Slid(x.buf, id, z.buf)
          <5>1. PICK q \in Seq(Ids), r \in Seq(Ids) : q = x.buf /\ r = z.buf BY DEF Sub
          <5>2. Orderly(q, c, p, emitted[c])
            BY <1>1, <1>2, <2>1, <2>4, <4>1, <5>1, NoneAssumption DEF Ahead
          <5>3. r = Append(q, id) \/ (q # <<>> /\ r = Append(Tail(q), id))
            BY <3>2, <5>1 DEF Takes
          <5>4. Slid(q, id, r) BY <1>3, <1>5, <4>1, <5>2, <5>3, OrderlySent
          <5> QED BY <5>1, <5>4
        <4>4. Behind(x.seen, x.buf, x.chan, p, emitted[c]) /\ Skipped(x) /\ Gapless(x)
          BY <1>1, <1>2, <2>1, <2>2, <2>4, <3>5 DEF Heard
        <4>5. \A e \in (x.base + 1)..(id - 1) : Within(x, e, p)
          <5>1. \A e \in (x.base + 1)..emitted[c] : Within(x, e, p)
            BY <1>1, <1>2, <1>3, <2>1, <2>4, <3>5, <4>1 DEF Accounted
          <5>2. /\ p[1][1] = c /\ p[1][2] = id BY <1>5
          <5>3. id <= emitted[c] BY <1>4, <4>1, <5>2 DEF Sorted
          <5>4. x.base \in Nat /\ id \in Nat /\ emitted[c] \in Nat
            BY <1>10 DEF Sub, Ids, TypeOK
          <5> QED BY <5>1, <5>3, <5>4
        <4>6. Behind(z.seen, z.buf, z.chan, t, emitted[c]) /\ Skipped(z) /\ Gapless(z)
          <5>1. p[1] = <<x.chan, id>> /\ x.chan \in Chans BY <1>5, <2>4
          <5> QED BY <1>3, <1>6, <3>2, <4>1, <4>2, <4>3, <4>4, <4>5, <5>1, SentHeard
        <4>7. z.lsn = l /\ z.chan = c /\ lst'[l].inbox = t /\ emitted'[c] = emitted[c]
          BY <1>7, <1>8, <1>9, <2>4, <3>3
        <4> QED BY <2>1, <3>3, <3>5, <4>6, <4>7 DEF Heard
      <3> QED BY <3>4, <3>5
    <2> QED BY <2>3, <2>4
  <1> QED BY <1>12 DEF StreamInv

-----------------------------------------------------------------------------
\* Every step keeps what receivers have heard in order.
LEMMA StreamStep ==
  ASSUME NotifyInv, NotifyInv', StreamInv, [Next]_vars PROVE StreamInv'
  <1>1. CASE UNCHANGED vars
    BY <1>1 DEF vars, StreamInv, Heard
  <1>2. ASSUME NEW s \in Subs,
               \/ Proceed(s) \/ Drop(s) \/ \E c \in Chans : Subscribe(s, c)
        PROVE  StreamInv'
    BY <1>2, CallKept
  <1>3. ASSUME NEW s \in Subs, Recv(s) PROVE StreamInv' BY <1>3, RecvKept
  <1>4. ASSUME NEW l \in Listeners, Watch(l) \/ Die(l) PROVE StreamInv'
    BY <1>4, PumpKept, DownKept DEF Watch
  <1>5. ASSUME NEW c \in Chans, Emit(c) PROVE StreamInv' BY <1>5, EmitKept
  <1> QED BY <1>1, <1>2, <1>3, <1>4, <1>5 DEF Next

\* What a receiver has seen is older than what it has still to be given, and what
\* its buffer has lost it will be told of, for any capacity, and also when its
\* connection has ended.
THEOREM StreamSound == Spec => [](NotifyInv /\ StreamInv)
  <1>1. Init => NotifyInv /\ StreamInv
    <2>1. Init => StreamInv
      <3> SUFFICES ASSUME Init, NEW s \in Subs PROVE Heard(s) BY DEF StreamInv
      <3>1. sub[s].pc = "idle" /\ sub[s].seen = {} BY DEF Init, Idle
      <3> QED BY <3>1 DEF Heard
    <2> QED BY <2>1, InitInv
  <1>2. NotifyInv /\ StreamInv /\ [Next]_vars => (NotifyInv /\ StreamInv)'
    BY NextInv, StreamStep
  <1> QED BY <1>1, <1>2, PTL DEF Spec

-----------------------------------------------------------------------------
(* The promise.                                                             *)

\* The stream NotifyPromise gives a receiver.
Flow(x) == IF x.pc = "live" THEN [chan |-> x.chan, base |-> x.base, seen |-> x.seen]
           ELSE [chan |-> None, base |-> 0, seen |-> {}]
stream == [s \in Subs |->
  IF sub[s].pc = "live" THEN [chan |-> sub[s].chan, base |-> sub[s].base, seen |-> sub[s].seen]
  ELSE [chan |-> None, base |-> 0, seen |-> {}]]

\* Receivers that keep channel, base and history keep their streams.
LEMMA SameStream ==
  ASSUME \A u \in Subs : Flow(sub'[u]) = Flow(sub[u]) PROVE stream' = stream
  BY DEF stream, Flow

\* A step that touches at most one receiver's stream.
LEMMA StreamOf ==
  ASSUME NEW s \in Subs, \A u \in Subs \ {s} : Alike(sub'[u], sub[u])
  PROVE  /\ stream[s] = Flow(sub[s])
         /\ stream' = [stream EXCEPT ![s] = Flow(sub'[s])]
         /\ Flow(sub'[s]) = Flow(sub[s]) => stream' = stream
  <1>1. \A u \in Subs \ {s} : Flow(sub'[u]) = Flow(sub[u]) BY DEF Alike, Flow
  <1>2. stream' = [u \in Subs |-> Flow(sub'[u])] BY DEF stream, Flow
  <1>3. stream = [u \in Subs |-> Flow(sub[u])] BY DEF stream, Flow
  <1> QED BY <1>1, <1>2, <1>3

\* subscribe opens a stream when LISTEN succeeds; dropping a receiver ends one.
LEMMA CallPromise ==
  ASSUME NotifyInv, StreamInv, NEW s \in Subs,
         \/ Proceed(s) \/ Drop(s) \/ \E c \in Chans : Subscribe(s, c)
  PROVE  Promise!PNext \/ UNCHANGED <<emitted, stream>>
  <1> USE DEF NotifyInv
  <1>1. PICK y \in Sub : y = sub[s] BY DEF TypeOK
  <1>2. emitted' = emitted
    BY DEF Proceed, Drop, Subscribe, Lookup, Check, Reap, Spawn, Install, Fast,
           Insert, Late, Cleanup, Listen
  <1>3. /\ stream[s] = Flow(y) /\ stream' = [stream EXCEPT ![s] = Flow(sub'[s])]
        /\ Flow(sub'[s]) = Flow(y) => stream' = stream
    BY <1>1, CallOthers, StreamOf
  <1>4. CASE y.pc # "live" /\ sub'[s].pc # "live"
    BY <1>2, <1>3, <1>4 DEF Flow
  <1>5. CASE Listen(s) /\ ~Leave(s)
    <2>1. sub' = [sub EXCEPT ![s].pc = "live", ![s].base = emitted[y.chan]] /\ y.pc = "listen"
      BY <1>1, <1>5 DEF Listen
    <2>2. sub'[s] = [y EXCEPT !.pc = "live", !.base = emitted[y.chan]]
      BY <1>1, <2>1 DEF TypeOK
    <2>3. y.chan \in Chans BY <1>1, <2>1, NoneAssumption DEF Calls, Holding, Sub
    <2>4. y.seen = {} BY <1>1, <2>1 DEF StreamInv, Heard
    <2>5. Flow(sub'[s]) = [chan |-> y.chan, base |-> emitted[y.chan], seen |-> {}]
      BY <2>2, <2>4 DEF Flow, Sub
    <2>6. Flow(y) = [chan |-> None, base |-> 0, seen |-> {}] BY <2>1 DEF Flow
    <2>7. Promise!POpen(s, y.chan)
      BY <1>2, <1>3, <2>5, <2>6 DEF Promise!POpen, Promise!Stream, Promise!NoStream, stream
    <2> QED BY <2>3, <2>7 DEF Promise!PNext
  <1>6. CASE Drop(s) /\ y.pc = "live"
    <2>1. sub'[s].pc # "live" BY <1>6, IdleFacts DEF Drop, Leave, TypeOK
    <2>2. y.chan # None BY <1>1, <1>6 DEF Calls, Holding
    <2>3. /\ Flow(sub'[s]) = [chan |-> None, base |-> 0, seen |-> {}]
          /\ Flow(y) = [chan |-> y.chan, base |-> y.base, seen |-> y.seen]
      BY <1>6, <2>1 DEF Flow
    <2>4. Promise!PEnd(s)
      BY <1>2, <1>3, <2>2, <2>3 DEF Promise!PEnd, Promise!Stream, Promise!NoStream, stream
    <2> QED BY <2>4 DEF Promise!PNext
  <1>7. CASE ~(Listen(s) /\ ~Leave(s)) /\ ~(Drop(s) /\ y.pc = "live")
    <2>1. CASE Lookup(s) \/ Check(s) \/ Reap(s) \/ Install(s)
      BY <1>1, <1>4, <2>1 DEF Lookup, Check, Reap, Install, Goto, TypeOK, Sub
    <2>2. CASE Spawn(s) \/ Fast(s) \/ Insert(s) \/ Late(s)
      <3>1. CASE Leave(s)
        BY <1>1, <1>4, <2>2, <3>1, IdleFacts DEF Spawn, Fast, Insert, Late, Leave, TypeOK
      <3>2. CASE ~Leave(s)
        BY <1>1, <1>4, <2>2, <3>2 DEF Spawn, Fast, Insert, Late, Goto, TypeOK, Sub
      <3> QED BY <3>1, <3>2
    <2>3. CASE Cleanup(s)
      <3>1. sub'[s] = Idle /\ y.pc = "cleanup" BY <1>1, <2>3 DEF Cleanup, Closed
      <3> QED BY <1>4, <3>1, IdleFacts
    <2>4. CASE Drop(s) \/ Listen(s)
      <3>1. sub'[s] = Idle /\ y.pc # "live"
        BY <1>1, <1>7, <2>4 DEF Drop, Listen, Leave, TypeOK
      <3> QED BY <1>4, <3>1, IdleFacts
    <2>5. ASSUME NEW c \in Chans, Subscribe(s, c)
          PROVE  y.pc # "live" /\ sub'[s].pc # "live"
      BY <1>1, <2>5 DEF Subscribe, TypeOK, Sub
    <2> QED BY <1>4, <2>1, <2>2, <2>3, <2>4, <2>5 DEF Proceed
  <1> QED BY <1>5, <1>6, <1>7

\* recv: the next event, the news of a gap, or the end.
LEMMA RecvPromise ==
  ASSUME NotifyInv, StreamInv, NEW s \in Subs, Recv(s)
  PROVE  Promise!PNext \/ UNCHANGED <<emitted, stream>>
  <1> USE DEF NotifyInv
  <1>1. PICK y \in Sub : y = sub[s] BY DEF TypeOK
  <1>2. y.pc = "live" /\ emitted' = emitted BY <1>1 DEF Recv
  <1>3. \A u \in Subs \ {s} : Alike(sub'[u], sub[u])
    <2>1. \A u \in Subs \ {s} : sub'[u] = sub[u] BY DEF Recv, Leave, TypeOK
    <2> QED BY <2>1 DEF Alike
  <1>4. /\ stream[s] = Flow(y) /\ stream' = [stream EXCEPT ![s] = Flow(sub'[s])]
        /\ Flow(sub'[s]) = Flow(y) => stream' = stream
    BY <1>1, <1>3, StreamOf
  <1>5. Flow(y) = [chan |-> y.chan, base |-> y.base, seen |-> y.seen]
    BY <1>2 DEF Flow
  <1> DEFINE p == lst[y.lsn].inbox
             m == emitted[y.chan]
             q == y.buf
  <1>6. /\ y.chan \in Chans /\ y.chan # None /\ m \in Nat /\ m <= MaxEvents /\ y.base \in Nat
        /\ y.seen \subseteq Ids /\ q \in Seq(Ids)
        /\ \A i \in 1..Len(q) : q[i] \in Ids
        /\ Orderly(q, y.chan, p, m)
        /\ y.lagged => q # <<>>
    <2>1. y.chan \in Chans /\ m \in 0..MaxEvents BY <1>1, <1>2, LiveFacts DEF TypeOK
    <2> QED BY <1>1, <1>2, <2>1, LiveFacts, NoneAssumption, LimitsAssumption
  <1>7. Behind(y.seen, q, y.chan, p, m) /\ Skipped(y) /\ Gapless(y)
    BY <1>1, <1>2 DEF StreamInv, Heard
  <1> HIDE DEF p, m
  <1>8. CASE Leave(s)
    <2>1. sub'[s].pc # "live" BY <1>8, IdleFacts DEF Leave, TypeOK
    <2>2. Flow(sub'[s]) = [chan |-> None, base |-> 0, seen |-> {}] BY <2>1 DEF Flow
    <2>3. Promise!PEnd(s)
      BY <1>2, <1>4, <1>5, <1>6, <2>2 DEF Promise!PEnd, Promise!Stream, Promise!NoStream, stream
    <2> QED BY <2>3 DEF Promise!PNext
  <1>9. ASSUME NEW S, sub'[s].pc = "live", sub'[s].chan = y.chan, sub'[s].base = y.base,
               sub'[s].seen = y.seen \cup S
        PROVE  stream' = [stream EXCEPT ![s].seen = @ \cup S]
    <2>1. Flow(sub'[s]) = [chan |-> y.chan, base |-> y.base, seen |-> y.seen \cup S]
      BY <1>9 DEF Flow
    <2>2. [stream[s] EXCEPT !.seen = @ \cup S] = Flow(sub'[s]) BY <1>4, <1>5, <2>1
    <2> QED BY <1>4, <2>2
  <1>10. CASE q # <<>> /\ ~Leave(s)
    <2>1. Head(q) = q[1] /\ 1 \in 1..Len(q) BY <1>6, <1>10, TailFacts
    <2>2. PICK f \in Ids : f = q[1] BY <1>6, <2>1
    <2>3. f \in Nat \ {0} /\ f <= m /\ f <= MaxEvents BY <1>6, <2>1, <2>2 DEF Orderly, Ids, m
    <2>4. CASE y.lagged
      <3>1. sub' = [sub EXCEPT ![s].lagged = FALSE, ![s].seen = @ \cup 1..(Head(q) - 1)]
        BY <1>1, <1>10, <2>4 DEF Recv
      <3>2. sub'[s] = [y EXCEPT !.lagged = FALSE, !.seen = @ \cup 1..(f - 1)]
        BY <1>1, <2>1, <2>2, <3>1 DEF TypeOK
      <3>3. stream' = [stream EXCEPT ![s].seen = @ \cup 1..(f - 1)]
        BY <1>2, <1>9, <3>2 DEF Sub
      <3>4. CASE f = 1
        <4>1. Flow(sub'[s]) = Flow(y)
          <5>1. y.seen \cup 1..(f - 1) = y.seen
            <6>1. 1..(f - 1) = {} BY <3>4
            <6> QED BY <6>1
          <5>2. sub'[s] = [y EXCEPT !.lagged = FALSE, !.seen = y.seen] BY <3>2, <5>1
          <5> QED BY <5>2 DEF Flow, Sub
        <4> QED BY <1>2, <1>4, <4>1
      <3>5. CASE f # 1
        <4>1. f - 1 \in 1..(m - 1) /\ f - 1 \in 1..MaxEvents
          BY <1>6, <2>3, <3>5, LimitsAssumption
        <4>2. \A e \in y.seen : e < f - 1 BY <1>7, <2>2, <2>4 DEF Skipped
        <4>3. Promise!PMissed(s, f - 1)
          BY <1>2, <1>4, <1>5, <1>6, <3>3, <4>1, <4>2 DEF Promise!PMissed, stream, m
        <4> QED BY <4>1, <4>3 DEF Promise!PNext
      <3> QED BY <3>4, <3>5
    <2>5. CASE ~y.lagged
      <3>1. sub' = [sub EXCEPT ![s].buf = Tail(@), ![s].seen = @ \cup {Head(q)}]
        BY <1>1, <1>10, <2>5 DEF Recv
      <3>2. sub'[s] = [y EXCEPT !.buf = Tail(@), !.seen = @ \cup {f}]
        BY <1>1, <2>1, <2>2, <3>1 DEF TypeOK
      <3>3. stream' = [stream EXCEPT ![s].seen = @ \cup {f}]
        BY <1>2, <1>9, <3>2 DEF Sub
      <3>4. \A e \in y.seen : e < f BY <1>7, <2>1, <2>2 DEF Behind
      <3>5. ASSUME NEW e \in (y.base + 1)..(f - 1) PROVE e \in y.seen
        <4>1. Within(y, e, <<>>) BY <1>7, <2>1, <2>2 DEF Gapless
        <4>2. ASSUME NEW i \in 1..Len(q), q[i] = e PROVE FALSE
          <5>1. i = 1 \/ q[1] < q[i]
            <6>1. i = 1 \/ 1 < i OBVIOUS
            <6> QED BY <1>6, <2>1, <6>1 DEF Orderly
          <5>2. e \in Int /\ e < f BY <1>6, <2>3
          <5> QED BY <2>2, <2>3, <4>2, <5>1, <5>2
        <4> QED BY <2>5, <4>1, <4>2 DEF Within
      <3>6. f \in 1..m /\ f \in 1..MaxEvents BY <1>6, <2>3
      <3>7. Promise!PReceive(s, f)
        <4>1. (y.base + 1)..(f - 1) \subseteq y.seen BY <3>5
        <4> QED BY <1>2, <1>4, <1>5, <1>6, <3>3, <3>4, <3>6, <4>1 DEF Promise!PReceive, stream, m
      <3> QED BY <3>6, <3>7 DEF Promise!PNext
    <2> QED BY <2>4, <2>5
  <1> QED BY <1>1, <1>6, <1>8, <1>10 DEF Recv

\* The watcher and the exit guard give nobody anything he did not ask for with recv.
LEMMA WatchPromise ==
  ASSUME NotifyInv, NEW l \in Listeners, Watch(l) \/ Die(l)
  PROVE  UNCHANGED <<emitted, stream>>
  <1> USE DEF NotifyInv
  <1>1. emitted' = emitted
    BY DEF Watch, Pump, Retire, CloseAll, PublishFailed, Die
  <1>2. ASSUME NEW u \in Subs PROVE Flow(sub'[u]) = Flow(sub[u])
    <2>1. CASE Pump(l)
      <3>1. PICK x \in Sub : x = sub[u] /\ Len(x.buf) <= Cap BY DEF TypeOK
      <3>2. PICK id \in Ids : sub'[u] = x \/ sub'[u] = Sent(x, id)
        <4>1. PICK p \in Seq(Chans \X Ids) : p = lst[l].inbox BY DEF TypeOK, Listener
        <4>2. p # <<>> BY <2>1, <4>1 DEF Pump
        <4>3. Head(p) \in Chans \X Ids BY <4>2, TailFacts
        <4>4. PICK id \in Ids : id = Head(p)[2] BY <4>3
        <4>5. sub'[u] = x \/ sub'[u] = Sent(x, id) BY <2>1, <3>1, <4>1, <4>4 DEF Pump
        <4> QED BY <4>5
      <3>3. Takes(x, id, Sent(x, id)) BY <3>1, SentFacts
      <3> QED BY <3>1, <3>2, <3>3 DEF Takes, Flow
    <2>2. CASE CloseAll(l)
      <3>1. sub'[u] = Closed(l, Chans)[u] BY <2>2 DEF CloseAll, GuardClears
      <3> QED BY <3>1, ClosedFacts DEF Flow
    <2>3. CASE UNCHANGED sub BY <2>3
    <2> QED BY <2>1, <2>2, <2>3 DEF Watch, Retire, PublishFailed, Die
  <1> QED BY <1>1, <1>2, SameStream

\* Every step is a step of the promise, or none.
LEMMA PromiseStep ==
  ASSUME NotifyInv, StreamInv, [Next]_vars
  PROVE  Promise!PNext \/ UNCHANGED <<emitted, stream>>
  <1>1. CASE UNCHANGED vars BY <1>1 DEF vars, stream
  <1>2. ASSUME NEW s \in Subs,
               \/ Proceed(s) \/ Drop(s) \/ \E c \in Chans : Subscribe(s, c)
        PROVE  Promise!PNext \/ UNCHANGED <<emitted, stream>>
    BY <1>2, CallPromise
  <1>3. ASSUME NEW s \in Subs, Recv(s)
        PROVE  Promise!PNext \/ UNCHANGED <<emitted, stream>>
    BY <1>3, RecvPromise
  <1>4. ASSUME NEW l \in Listeners, Watch(l) \/ Die(l) PROVE UNCHANGED <<emitted, stream>>
    BY <1>4, WatchPromise
  <1>5. ASSUME NEW c \in Chans, Emit(c) PROVE Promise!PNext
    <2>1. stream' = stream BY <1>5 DEF Emit, stream
    <2>2. Promise!PEmit(c) BY <1>5, <2>1 DEF Emit, Promise!PEmit
    <2> QED BY <2>2 DEF Promise!PNext
  <1> QED BY <1>1, <1>2, <1>3, <1>4, <1>5 DEF Next

\* A subscription keeps its promise: the channel's events in commit order, each
\* at most once, and none left out but by a ChannelLagged, for any number of
\* subscribers, listeners and events and any capacity.
THEOREM Refines == Spec => PromiseSpec
  <1>1. Init => Promise!PInit
    <2>1. Init => \A s \in Subs : sub[s].pc = "idle" BY DEF Init, Idle
    <2> QED BY <2>1 DEF Init, Promise!PInit, Promise!NoStream, Promise!Stream
  <1>2. NotifyInv /\ StreamInv /\ [Next]_vars => [Promise!PNext]_<<emitted, stream>>
    BY PromiseStep
  <1> QED BY <1>1, <1>2, StreamSound, PTL DEF Spec, PromiseSpec, Promise!PSpec, stream
===============================================================================
