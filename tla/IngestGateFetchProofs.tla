------------------------- MODULE IngestGateFetchProofs -------------------------
(***************************************************************************)
(* The fetch from end to end, for every set of callers and requests, every *)
(* bucket and every length of answer: what a store commits is the whole of *)
(* its answer (StoredIsComplete), and the gate, the wire and the readers   *)
(* together implement FetchContract.                                       *)
(***************************************************************************)
EXTENDS IngestGateProofs

GateStates == {"sent", "sleeping", "vendor", "attached"}

\* The status that lets a reader commit ends the call.  A message of our own ingest says what its
\* call heard: a done, a refusal or a failure is its last word.
Meant(k, m) ==
    /\ m.t = "status" /\ m.feed = "OK" => k.st = "over"
    /\ k.ours =>
          /\ m.t = "done" => k.st = "over" /\ k.heard = Served(k.sent)
          /\ m.t = "refused" /\ m.feed # "unknown" => k.st = "over" /\ k.heard = Failed(m.feed)
          /\ m.t = "status" /\ m.feed \in GateReasons \ {"INTERNAL"} => k.st = "over" /\ k.heard = Failed(m.feed)

\* The bars the reader will have after each message still on the wire: from what it has to all that
\* was sent, and by a done of our own ingest there are no more to come.
Totals(k, cl, w, s) ==
    /\ s \in [0 .. Len(w) -> 0 .. k.sent]
    /\ s[0] = cl.rows /\ s[Len(w)] = k.sent
    /\ \A i \in 1 .. Len(w) : /\ s[i] = s[i - 1] + w[i].n
                              /\ k.ours /\ w[i].t = "done" => s[i] = k.sent

\* The call a reader is at, as far as the gate and the handler have brought it.
AtCall(k) ==
    /\ k.st # "none"
    /\ k.st = "foreign" => ~k.ours
    /\ k.st \notin {"foreign", "over"} => k.ours
    /\ k.st \in GateStates => k.heard = Nothing
    /\ k.st = "streaming" => k.heard.why = "served"
    /\ ~k.ours => k.sent <= MaxForeign /\ k.heard = Nothing

\* What the reader has: rows of one acknowledged feed, and all of them once the done is read.
AtReader(k, cl) ==
    /\ cl.out = Nothing
    /\ cl.acc = None => cl.feeds = {}
    /\ cl.feeds \subseteq {cl.acc}
    /\ cl.done => cl.acc # None
    /\ cl.done /\ k.ours => k.st = "over" /\ k.heard = Served(k.sent) /\ cl.rows = k.sent

\* What was committed is whole.
Whole(k, cl) ==
    /\ k.st = "over"
    /\ cl.acc # None /\ cl.done
    /\ cl.feeds \subseteq {cl.acc}
    /\ k.ours => Served(cl.rows) = k.heard

\* A call, its reader and the wire between them agree.
Coherent(k, cl, w) ==
    /\ cl.st = "idle" => cl = Quiet
    /\ cl.st # "open" => w = <<>>
    /\ cl.st = "stored" => Whole(k, cl)
    /\ cl.st = "open" => /\ AtCall(k) /\ AtReader(k, cl)
                         /\ \A i \in 1 .. Len(w) : Meant(k, w[i])
                         /\ \E s \in [0 .. Len(w) -> 0 .. k.sent] : Totals(k, cl, w, s)

DInv == \A c \in Callers : Coherent(call[c], client[c], wire[c])


-----------------------------------------------------------------------------
(* The parts a step may move. *)

\* A status of the hop's own, as PeerLost and a restart send, promises nothing.
LEMMA CutMeans == \A k : Meant(k, Status("UNAVAILABLE"))
  BY ReasonAssumption DEF Meant, Status, GateReasons

LEMMA OkMeans == \A k : k.st = "over" => Meant(k, Status("OK"))
  BY ReasonAssumption DEF Meant, Status, GateReasons

\* The call moves on without hearing anything new.
LEMMA CallMoves ==
    ASSUME NEW k, NEW j, NEW cl, NEW w, Coherent(k, cl, w),
           j.ours = k.ours, j.sent = k.sent, j.heard = k.heard,
           k.st = "over" => j.st = "over",
           j.st \in GateStates => k.st \in GateStates,
           j.st = "foreign" => k.st = "foreign",
           k.st = "foreign" => j.st \in {"foreign", "over"},
           j.st = "streaming" => k.st = "streaming" \/ k.heard.why = "served",
           cl.st = "open" => j.st # "none"
    PROVE  Coherent(j, cl, w)
  <1>1. cl.st = "stored" => Whole(j, cl)
    BY DEF Coherent, Whole
  <1>2. ASSUME cl.st = "open"
        PROVE  /\ AtCall(j) /\ AtReader(j, cl)
               /\ \A i \in 1 .. Len(w) : Meant(j, w[i])
               /\ \E s \in [0 .. Len(w) -> 0 .. j.sent] : Totals(j, cl, w, s)
    <2>1. AtCall(k) /\ AtReader(k, cl)
      BY <1>2 DEF Coherent
    <2>2. AtCall(j)
      BY <1>2, <2>1 DEF AtCall
    <2>3. AtReader(j, cl)
      BY <2>1 DEF AtReader
    <2>4. \A i \in 1 .. Len(w) : Meant(j, w[i])
      BY <1>2 DEF Coherent, Meant
    <2>5. PICK s \in [0 .. Len(w) -> 0 .. k.sent] : Totals(k, cl, w, s)
      BY <1>2 DEF Coherent
    <2>6. Totals(j, cl, w, s)
      BY <2>5 DEF Totals
    <2> QED BY <2>2, <2>3, <2>4, <2>5, <2>6
  <1> QED BY <1>1, <1>2 DEF Coherent

\* The call hears its answer while it waits in the gate.
LEMMA CallHears ==
    ASSUME NEW k, NEW j, NEW cl, NEW w, Coherent(k, cl, w), cl.st = "open", k.st \in GateStates,
           j.ours = k.ours, j.sent = k.sent, j.st = "told"
    PROVE  Coherent(j, cl, w)
  <1> USE DEF GateStates
  <1>1. AtCall(k) /\ AtReader(k, cl)
    BY DEF Coherent
  <1>2. AtCall(j)
    BY <1>1 DEF AtCall
  <1>3. AtReader(j, cl)
    BY <1>1 DEF AtReader
  <1>4. \A i \in 1 .. Len(w) : Meant(j, w[i])
    BY <1>1 DEF Coherent, Meant
  <1>5. PICK s \in [0 .. Len(w) -> 0 .. k.sent] : Totals(k, cl, w, s)
    BY DEF Coherent
  <1>6. Totals(j, cl, w, s)
    BY <1>5 DEF Totals
  <1> QED BY <1>2, <1>3, <1>4, <1>5, <1>6 DEF Coherent

\* A reader that is idle or has failed has no say in the call.
LEMMA CallFree ==
    ASSUME NEW k, NEW j, NEW cl, NEW w, Coherent(k, cl, w), cl.st \notin {"open", "stored"}
    PROVE  Coherent(j, cl, w)
  BY DEF Coherent

\* A message is sent, and with it the bars it holds.
LEMMA CallSends ==
    ASSUME NEW k, NEW j, NEW cl, NEW w \in Seq(Message), NEW m \in Message,
           Coherent(k, cl, w), cl.st = "open",
           k.sent \in Nat, j.sent = k.sent + m.n, j.ours = k.ours, j.heard = k.heard,
           j.st \in {k.st, "over"}, Meant(j, m),
           k.ours => k.st # "over" \/ m.n = 0,
           ~k.ours => j.sent <= MaxForeign
    PROVE  Coherent(j, cl, Append(w, m))
  <1> DEFINE v == Append(w, m)
  <1>1. m.n \in Nat
    BY DEF Message
  <1>2. AtCall(k) /\ AtReader(k, cl) /\ \A i \in 1 .. Len(w) : Meant(k, w[i])
    BY DEF Coherent
  <1>3. PICK s \in [0 .. Len(w) -> 0 .. k.sent] : Totals(k, cl, w, s)
    BY DEF Coherent
  <1>4. AtCall(j)
    BY <1>2 DEF AtCall, GateStates
  <1>5. AtReader(j, cl)
    BY <1>2 DEF AtReader
  <1>6. /\ Len(w) \in Nat /\ Len(v) = Len(w) + 1 /\ v[Len(w) + 1] = m
        /\ \A i \in 1 .. Len(w) : v[i] = w[i]
    OBVIOUS
  <1> HIDE DEF v
  <1>7. \A i \in 1 .. Len(w) : Meant(j, w[i])
    BY <1>2 DEF Meant
  <1>8. \A i \in 1 .. Len(v) : Meant(j, v[i])
    BY <1>6, <1>7
  <1> DEFINE t == [i \in 0 .. Len(v) |-> IF i <= Len(w) THEN s[i] ELSE j.sent]
  <1>9. t \in [0 .. Len(v) -> 0 .. j.sent]
    BY <1>1, <1>3, <1>6
  <1>10. t[0] = cl.rows /\ t[Len(v)] = j.sent
    BY <1>3, <1>6 DEF Totals
  <1>11. ASSUME NEW i \in 1 .. Len(v)
         PROVE  t[i] = t[i - 1] + v[i].n /\ (j.ours /\ v[i].t = "done" => t[i] = j.sent)
    <2>1. CASE i = Len(v)
      <3>1. i - 1 = Len(w) /\ t[i] = j.sent /\ t[i - 1] = s[Len(w)] /\ v[i] = m
        BY <1>6, <2>1
      <3>2. s[Len(w)] = k.sent
        BY <1>3 DEF Totals
      <3> QED BY <3>1, <3>2
    <2>2. CASE i # Len(v)
      <3>1. i \in 1 .. Len(w) /\ i - 1 \in 0 .. Len(w) /\ i - 1 <= Len(w) /\ i <= Len(w)
        BY <1>6, <2>2
      <3>2. t[i] = s[i] /\ t[i - 1] = s[i - 1] /\ v[i] = w[i]
        BY <1>6, <3>1
      <3>3. s[i] = s[i - 1] + w[i].n /\ (k.ours /\ w[i].t = "done" => s[i] = k.sent)
        BY <1>3, <3>1 DEF Totals
      <3>4. k.ours /\ w[i].t = "done" => j.sent = k.sent
        <4>1. Meant(k, w[i])
          BY <1>2, <3>1
        <4> QED BY <4>1 DEF Meant
      <3> QED BY <3>2, <3>3, <3>4
    <2> QED BY <2>1, <2>2
  <1>12. Totals(j, cl, v, t)
    BY <1>9, <1>10, <1>11 DEF Totals
  <1> HIDE DEF t
  <1>13. \E x \in [0 .. Len(v) -> 0 .. j.sent] : Totals(j, cl, v, x)
    BY <1>9, <1>12
  <1>14. Coherent(j, cl, v)
    BY <1>4, <1>5, <1>8, <1>13 DEF Coherent
  <1> QED BY <1>14 DEF v

\* The reader takes a message its grammar admits.
LEMMA ReaderTakes ==
    ASSUME NEW k, NEW cl, NEW b, NEW w \in Seq(Message), Coherent(k, cl, w),
           cl.st = "open", w # <<>>, k.sent \in Nat, b.st = "open", b.out = cl.out,
           NEW m, m = Head(w), m.t \in {"ack", "page", "done"},
           ~cl.done, m.t = "ack" => cl.acc = None, m.t \in {"page", "done"} => cl.acc # None,
           m.t = "page" => m.feed = cl.acc,
           b.acc = IF m.t = "ack" THEN m.feed ELSE cl.acc,
           b.done = (m.t = "done"),
           b.rows = cl.rows + m.n,
           b.feeds = IF m.t = "page" THEN cl.feeds \cup {m.feed} ELSE cl.feeds
    PROVE  Coherent(k, b, Tail(w))
  <1> DEFINE v == Tail(w)
  <1>1. AtCall(k) /\ AtReader(k, cl) /\ \A i \in 1 .. Len(w) : Meant(k, w[i])
    BY DEF Coherent
  <1>2. PICK s \in [0 .. Len(w) -> 0 .. k.sent] : Totals(k, cl, w, s)
    BY DEF Coherent
  <1>3. /\ Len(w) \in Nat /\ Len(w) >= 1 /\ Len(v) = Len(w) - 1 /\ m = w[1]
        /\ \A i \in 1 .. Len(v) : v[i] = w[i + 1]
    OBVIOUS
  <1>4. m \in Message
    OBVIOUS
  <1> HIDE DEF v
  <1>5. s[0] = cl.rows /\ s[1] = s[0] + m.n /\ (k.ours /\ m.t = "done" => s[1] = k.sent)
    BY <1>2, <1>3 DEF Totals
  <1>6. AtReader(k, b)
    <2>1. m.t = "ack" => m.feed # None
      BY <1>4, NoneAssumption DEF Message, Feeds
    <2>2. b.done /\ k.ours => k.st = "over" /\ k.heard = Served(k.sent) /\ b.rows = k.sent
      <3> SUFFICES ASSUME b.done, k.ours
                   PROVE  k.st = "over" /\ k.heard = Served(k.sent) /\ b.rows = k.sent
        OBVIOUS
      <3>1. m.t = "done"
        OBVIOUS
      <3>2. Meant(k, m)
        BY <1>1, <1>3
      <3>3. k.st = "over" /\ k.heard = Served(k.sent)
        BY <3>1, <3>2 DEF Meant
      <3>4. b.rows = k.sent
        BY <1>5, <3>1
      <3> QED BY <3>3, <3>4
    <2>3. cl.out = Nothing /\ (cl.acc = None => cl.feeds = {}) /\ cl.feeds \subseteq {cl.acc}
      BY <1>1 DEF AtReader
    <2>4. b.out = Nothing /\ (b.acc = None => b.feeds = {}) /\ b.feeds \subseteq {b.acc} /\ (b.done => b.acc # None)
      BY <2>1, <2>3
    <2> QED BY <2>2, <2>4 DEF AtReader
  <1>7. \A i \in 1 .. Len(v) : Meant(k, v[i])
    BY <1>1, <1>3
  <1> DEFINE t == [i \in 0 .. Len(v) |-> s[i + 1]]
  <1>8. t \in [0 .. Len(v) -> 0 .. k.sent]
    BY <1>2, <1>3
  <1>9. t[0] = b.rows /\ t[Len(v)] = k.sent
    BY <1>2, <1>3, <1>5 DEF Totals
  <1>10. ASSUME NEW i \in 1 .. Len(v)
         PROVE  t[i] = t[i - 1] + v[i].n /\ (k.ours /\ v[i].t = "done" => t[i] = k.sent)
    <2>1. i + 1 \in 1 .. Len(w) /\ i - 1 \in 0 .. Len(v) /\ i \in 0 .. Len(v)
      BY <1>3
    <2>2. t[i] = s[i + 1] /\ t[i - 1] = s[i] /\ v[i] = w[i + 1]
      BY <1>3, <2>1
    <2>3. s[i + 1] = s[i] + w[i + 1].n /\ (k.ours /\ w[i + 1].t = "done" => s[i + 1] = k.sent)
      <3>1. (i + 1) - 1 = i
        OBVIOUS
      <3> QED BY <1>2, <2>1, <3>1 DEF Totals
    <2> QED BY <2>2, <2>3
  <1>11. Totals(k, b, v, t)
    BY <1>8, <1>9, <1>10 DEF Totals
  <1> HIDE DEF t
  <1>12. \E x \in [0 .. Len(v) -> 0 .. k.sent] : Totals(k, b, v, x)
    BY <1>8, <1>11
  <1>13. Coherent(k, b, v)
    BY <1>1, <1>6, <1>7, <1>12 DEF Coherent
  <1> QED BY <1>13 DEF v

-----------------------------------------------------------------------------
(* Every step keeps call, wire and reader in agreement. *)

\* A step of one caller.
LEMMA OneMoves ==
    ASSUME DInv, NEW c \in Callers,
           \A d \in Callers \ {c} : call'[d] = call[d] /\ client'[d] = client[d] /\ wire'[d] = wire[d],
           Coherent(call'[c], client'[c], wire'[c])
    PROVE  DInv'
  <1>1. ASSUME NEW d \in Callers
        PROVE  Coherent(call'[d], client'[d], wire'[d])
    BY <1>1 DEF DInv
  <1> QED BY <1>1 DEF DInv

LEMMA CallFields ==
    ASSUME TypeOK, NEW c \in Callers
    PROVE  /\ call[c] \in CallRecords /\ call[c].sent \in Nat
           /\ wire[c] \in Seq(Message) /\ client[c] \in ClientRecords
           /\ \A x : LET j == [call[c] EXCEPT !.st = x]
                    IN j.st = x /\ j.ours = call[c].ours /\ j.sent = call[c].sent /\ j.heard = call[c].heard
                       /\ j.key = call[c].key
  BY DEF TypeOK, CallRecords

\* What a call heard is bars, or a failure by its name.
LEMMA HeardForms ==
    ASSUME TypeOK, NEW c \in Callers
    PROVE  /\ call[c].heard.why = "served" =>
                 call[c].heard = Served(call[c].heard.bars) /\ call[c].heard.bars \in BarCounts
           /\ call[c].heard.why \in GateReasons => call[c].heard = Failed(call[c].heard.why)
  <1>1. call[c].heard \in VendorAnswer \cup {Failed(r) : r \in GateReasons \cup {"CANCELLED", "nothing"}}
    BY DEF TypeOK, CallRecords
  <1>2. "served" \notin GateReasons \cup {"CANCELLED", "nothing"}
    BY ReasonAssumption DEF GateReasons
  <1>3. CASE call[c].heard \in {Served(n) : n \in BarCounts}
    BY <1>2, <1>3 DEF Served
  <1>4. CASE call[c].heard \in {Failed(r) : r \in GateReasons \cup {"CANCELLED", "nothing"}}
    BY <1>2, <1>4 DEF Failed
  <1> QED BY <1>1, <1>3, <1>4 DEF VendorAnswer, GateReasons

\* A call moves on its own, and hears nothing by it.
LEMMA StateMoves ==
    ASSUME IInv, DInv, NEW c \in Callers, UNCHANGED <<wire, client>>,
           NEW j, call' = [call EXCEPT ![c] = j],
           j.ours = call[c].ours, j.sent = call[c].sent, j.heard = call[c].heard,
           call[c].st = "over" => j.st = "over",
           j.st \in GateStates => call[c].st \in GateStates,
           j.st = "foreign" => call[c].st = "foreign",
           call[c].st = "foreign" => j.st \in {"foreign", "over"},
           j.st = "streaming" => call[c].heard.why = "served",
           client[c].st = "open" => j.st # "none"
    PROVE  DInv'
  <1>1. Coherent(call[c], client[c], wire[c])
    BY DEF DInv
  <1>2. Coherent(j, client[c], wire[c])
    BY <1>1, CallMoves
  <1>3. call'[c] = j /\ \A d \in Callers \ {c} : call'[d] = call[d]
    BY DEF IInv, TypeOK
  <1> QED BY <1>2, <1>3, OneMoves

\* A call sends one message and moves to j.
LEMMA SayOne ==
    ASSUME IInv, DInv, NEW c \in Callers, NEW m \in Message, NEW j,
           client[c].st = "open", Coherent(call[c], client[c], wire[c]),
           j.sent = call[c].sent + m.n, j.ours = call[c].ours, j.heard = call[c].heard,
           j.st \in {call[c].st, "over"}, Meant(j, m),
           call[c].ours => call[c].st # "over" \/ m.n = 0,
           ~call[c].ours => j.sent <= MaxForeign,
           call' = [call EXCEPT ![c] = j], Say(c, <<m>>), UNCHANGED client
    PROVE  DInv'
  <1>1. wire[c] \in Seq(Message) /\ call[c].sent \in Nat
    BY CallFields DEF IInv
  <1>2. Coherent(j, client[c], Append(wire[c], m))
    BY <1>1, CallSends
  <1>3. /\ call'[c] = j /\ wire'[c] = wire[c] \o <<m>>
        /\ \A d \in Callers \ {c} : call'[d] = call[d] /\ wire'[d] = wire[d]
    BY DEF IInv, TypeOK, Say
  <1>4. wire[c] \o <<m>> = Append(wire[c], m)
    BY <1>1
  <1> QED BY <1>2, <1>3, <1>4, OneMoves

\* A call's last message is followed by its status.
LEMMA SayLast ==
    ASSUME IInv, DInv, NEW c \in Callers, NEW m \in Message, m.n = 0, NEW j,
           client[c].st = "open",
           j.sent = call[c].sent, j.ours = call[c].ours, j.heard = call[c].heard,
           j.st = "over", Meant(j, m),
           call' = [call EXCEPT ![c] = j], Say(c, <<m, Status("OK")>>), UNCHANGED client
    PROVE  DInv'
  <1>1. wire[c] \in Seq(Message) /\ call[c].sent \in Nat
    BY CallFields DEF IInv
  <1>2. Coherent(call[c], client[c], wire[c])
    BY DEF DInv
  <1>3. ~call[c].ours => j.sent <= MaxForeign
    BY <1>2 DEF Coherent, AtCall
  <1>4. Coherent(j, client[c], Append(wire[c], m))
    <2>1. j.sent = call[c].sent + m.n
      BY <1>1
    <2> QED BY <1>1, <1>2, <1>3, <2>1, CallSends
  <1>5. Status("OK") \in Message /\ Status("OK").n = 0 /\ Append(wire[c], m) \in Seq(Message)
    BY <1>1 DEF Status, Message, Codes
  <1>6. Coherent(j, client[c], Append(Append(wire[c], m), Status("OK")))
    <2>1. j.sent = j.sent + Status("OK").n /\ j.sent \in Nat
      BY <1>1, <1>5
    <2>2. Meant(j, Status("OK"))
      BY OkMeans
    <2> QED BY <1>3, <1>4, <1>5, <2>1, <2>2, CallSends
  <1>7. /\ call'[c] = j /\ wire'[c] = wire[c] \o <<m, Status("OK")>>
        /\ \A d \in Callers \ {c} : call'[d] = call[d] /\ wire'[d] = wire[d]
    BY DEF IInv, TypeOK, Say
  <1>8. wire[c] \o <<m, Status("OK")>> = Append(Append(wire[c], m), Status("OK"))
    BY <1>1, <1>5
  <1> QED BY <1>6, <1>7, <1>8, OneMoves

LEMMA SendsAgree ==
    ASSUME IInv, DInv, NEW c \in Callers,
           Accept(c) \/ Refuse(c) \/ LeaderLeft(c) \/ SendPage(c) \/ SendDone(c)
    PROVE  DInv'
  <1> DEFINE k == call[c]
             off == [call[c] EXCEPT !.st = "over"]
  <1>1. TypeOK /\ Coherent(k, client[c], wire[c]) /\ UNCHANGED client
    BY DEF IInv, DInv, Accept, Refuse, LeaderLeft, SendPage, SendDone
  <1>2. /\ k \in CallRecords /\ k.sent \in Nat /\ wire[c] \in Seq(Message)
        /\ off.st = "over" /\ off.ours = k.ours /\ off.sent = k.sent /\ off.heard = k.heard
    BY <1>1, CallFields
  <1>3. client[c].st = "open" => (~k.ours => k.sent <= MaxForeign)
    BY <1>1 DEF Coherent, AtCall
  <1>4. CASE Accept(c)
    <2> DEFINE on == [call[c] EXCEPT !.st = "streaming"]
    <2>1. on.st = "streaming" /\ on.ours = k.ours /\ on.sent = k.sent /\ on.heard = k.heard
      BY <1>1, CallFields
    <2>2. k.st = "told" /\ k.heard.why = "served" /\ client[c].st = "open" /\ Say(c, <<Ack("entitled")>>)
      BY <1>4 DEF Accept, CanSend
    <2>3. call' = [call EXCEPT ![c] = on]
      BY <1>4 DEF Accept
    <2> HIDE DEF on
    <2>4. Coherent(on, client[c], wire[c])
      BY <1>1, <2>1, <2>2, CallMoves DEF GateStates
    <2>5. Ack("entitled") \in Message /\ Ack("entitled").n = 0 /\ Meant(on, Ack("entitled"))
      BY DEF Ack, Message, Feeds, Meant
    <2>6. on.sent = on.sent + Ack("entitled").n
      BY <1>2, <2>1, <2>5
    <2>7. Coherent(on, client[c], Append(wire[c], Ack("entitled")))
      BY <1>2, <1>3, <2>1, <2>2, <2>4, <2>5, <2>6, CallSends
    <2>8. /\ call'[c] = on /\ wire'[c] = Append(wire[c], Ack("entitled"))
          /\ \A d \in Callers \ {c} : call'[d] = call[d] /\ wire'[d] = wire[d]
      BY <1>1, <2>2, <2>3, <2>5 DEF TypeOK, Say
    <2> QED BY <1>1, <2>7, <2>8, OneMoves
  <1>5. CASE Refuse(c)
    <2>1. k.heard.why \in GateReasons /\ client[c].st = "open" /\ call' = [call EXCEPT ![c] = off] /\ k.st = "told"
      BY <1>5 DEF Refuse, CanSend
    <2>2. k.heard = Failed(k.heard.why)
      BY <1>1, <2>1, HeardForms
    <2> HIDE DEF off
    <2>3. CASE k.heard.why = "FEED_NOT_AVAILABLE" /\ Say(c, <<Refused("FEED_NOT_AVAILABLE"), Status("OK")>>)
      <3>1. Refused("FEED_NOT_AVAILABLE") \in Message /\ Refused("FEED_NOT_AVAILABLE").n = 0
        BY DEF Refused, Message
      <3>2. Meant(off, Refused("FEED_NOT_AVAILABLE"))
        BY <1>2, <2>2, <2>3 DEF Meant, Refused
      <3> QED BY <1>1, <1>2, <2>1, <2>3, <3>1, <3>2, SayLast
    <2>4. CASE k.heard.why # "FEED_NOT_AVAILABLE" /\ Say(c, <<Status(k.heard.why)>>)
      <3>1. Status(k.heard.why) \in Message /\ Status(k.heard.why).n = 0
        BY <2>1 DEF Status, Message, Codes
      <3>2. Meant(off, Status(k.heard.why))
        BY <1>2, <2>2 DEF Meant, Status
      <3>3. off.sent = k.sent + Status(k.heard.why).n
        BY <1>2, <3>1
      <3> QED BY <1>1, <1>2, <1>3, <2>1, <2>4, <3>1, <3>2, <3>3, SayOne
    <2> QED BY <1>5, <2>3, <2>4 DEF Refuse
  <1>6. CASE LeaderLeft(c)
    <2>1. call' = [call EXCEPT ![c] = off] /\ k.st = "told"
      BY <1>6 DEF LeaderLeft
    <2> HIDE DEF off
    <2>2. CASE UNCHANGED wire
      BY <1>1, <1>2, <2>1, <2>2, StateMoves DEF GateStates
    <2>3. CASE CanSend(c) /\ Say(c, <<Status("CANCELLED")>>)
      <3>1. Status("CANCELLED") \in Message /\ Status("CANCELLED").n = 0
        BY DEF Status, Message, Codes
      <3>2. Meant(off, Status("CANCELLED"))
        BY ReasonAssumption DEF Meant, Status, GateReasons
      <3>3. off.sent = k.sent + Status("CANCELLED").n
        BY <1>2, <3>1
      <3> QED BY <1>1, <1>2, <1>3, <2>1, <2>3, <3>1, <3>2, <3>3, SayOne DEF CanSend
    <2> QED BY <1>6, <2>2, <2>3 DEF LeaderLeft
  <1>7. CASE SendPage(c)
    <2> DEFINE sending == [call[c] EXCEPT !.sent = @ + NextPage(c)]
               m == Page("entitled", NextPage(c))
    <2>1. /\ k.st = "streaming" /\ client[c].st = "open" /\ Say(c, <<m>>) /\ NextPage(c) \in Nat
          /\ call' = [call EXCEPT ![c] = sending]
      BY <1>1, <1>7, PageType DEF SendPage, CanSend
    <2>2. sending.st = k.st /\ sending.ours = k.ours /\ sending.sent = k.sent + NextPage(c) /\ sending.heard = k.heard
      BY <1>2 DEF CallRecords
    <2>3. m \in Message /\ m.n = NextPage(c) /\ m.t = "page"
      BY <2>1 DEF Page, Message, Feeds
    <2>4. k.ours
      BY <1>1, <2>1 DEF Coherent, AtCall
    <2>5. Meant(sending, m)
      BY <2>3 DEF Meant
    <2> HIDE DEF sending, m
    <2> QED BY <1>1, <2>1, <2>2, <2>3, <2>4, <2>5, SayOne
  <1>8. CASE SendDone(c)
    <2>1. /\ k.st = "streaming" /\ client[c].st = "open" /\ Say(c, <<Done, Status("OK")>>) /\ NextPage(c) = 0
          /\ call' = [call EXCEPT ![c] = off]
      BY <1>8 DEF SendDone, CanSend
    <2>2. k.heard.why = "served"
      BY <1>1, <2>1 DEF Coherent, AtCall
    <2>3. k.heard = Served(k.heard.bars) /\ k.heard.bars \in BarCounts
      BY <1>1, <2>2, HeardForms
    <2>4. k.heard.bars = k.sent
      BY <1>2, <2>1, <2>3, PageAssumption DEF NextPage
    <2> HIDE DEF off
    <2>5. Done \in Message /\ Done.n = 0
      BY DEF Done, Message
    <2>6. Meant(off, Done)
      BY <1>2, <2>3, <2>4 DEF Meant, Done
    <2> QED BY <1>1, <1>2, <2>1, <2>5, <2>6, SayLast
  <1> QED BY <1>4, <1>5, <1>6, <1>7, <1>8

LEMMA ForeignAgrees ==
    ASSUME IInv, DInv, NEW c \in Callers, ForeignSends(c)
    PROVE  DInv'
  <1> DEFINE Sent == {Ack("entitled")} \cup {Page(f, 1) : f \in IF call[c].sent < MaxForeign THEN Feeds ELSE {}}
                     \cup {Done, Unreadable, Refused("FEED_NOT_AVAILABLE"), Refused("unknown")}
                     \cup {Status(s) : s \in {"OK", "RATE_BUDGET"}}
  <1>1. TypeOK /\ Coherent(call[c], client[c], wire[c])
    BY DEF IInv, DInv
  <1>2. call[c].st = "foreign" /\ client[c].st = "open" /\ UNCHANGED client
    BY DEF ForeignSends, CanSend
  <1>3. ~call[c].ours /\ call[c].sent <= MaxForeign
    BY <1>1, <1>2 DEF Coherent, AtCall
  <1>4. PICK m \in Sent :
           /\ Say(c, <<m>>)
           /\ call' = [call EXCEPT ![c].st = IF m.t = "status" THEN "over" ELSE @, ![c].sent = @ + m.n]
    BY DEF ForeignSends
  <1>5. m \in Message /\ (m.n = 0 \/ (m.n = 1 /\ call[c].sent < MaxForeign))
    <2>1. CASE m = Ack("entitled")
      BY <2>1 DEF Ack, Message, Feeds
    <2>2. CASE call[c].sent < MaxForeign /\ m \in {Page(f, 1) : f \in Feeds}
      BY <2>2 DEF Page, Message
    <2>3. CASE m \in {Done, Unreadable, Refused("FEED_NOT_AVAILABLE"), Refused("unknown")}
      BY <2>3 DEF Done, Unreadable, Refused, Message
    <2>4. CASE m \in {Status(s) : s \in {"OK", "RATE_BUDGET"}}
      BY <2>4 DEF Status, Message, Codes, GateReasons
    <2> QED BY <1>4, <2>1, <2>2, <2>3, <2>4
  <1> DEFINE j == [call[c] EXCEPT !.st = IF m.t = "status" THEN "over" ELSE @, !.sent = @ + m.n]
  <1> HIDE DEF Sent
  <1>6. call' = [call EXCEPT ![c] = j]
    BY <1>4
  <1>7. call[c] \in CallRecords /\ call[c].sent \in Nat
    BY <1>1, CallFields
  <1>8. /\ j.st \in {call[c].st, "over"} /\ j.sent = call[c].sent + m.n
        /\ j.ours = call[c].ours /\ j.heard = call[c].heard /\ (m.t = "status" => j.st = "over")
    BY <1>7 DEF CallRecords
  <1> HIDE DEF j
  <1>9. Meant(j, m) /\ j.sent <= MaxForeign
    BY <1>3, <1>5, <1>7, <1>8, ForeignAssumption DEF Meant
  <1> QED BY <1>1, <1>2, <1>3, <1>4, <1>5, <1>6, <1>8, <1>9, SayOne

LEMMA CutAgrees ==
    ASSUME IInv, DInv, NEW c \in Callers, PeerLost(c)
    PROVE  DInv'
  <1> DEFINE m == Status("UNAVAILABLE")
  <1>1. TypeOK /\ Coherent(call[c], client[c], wire[c])
    BY DEF IInv, DInv
  <1>2. client[c].st = "open" /\ Say(c, <<m>>) /\ UNCHANGED <<call, client>>
    BY DEF PeerLost
  <1>3. m \in Message /\ m.n = 0 /\ Meant(call[c], m)
    BY CutMeans DEF Status, Message, Codes
  <1>4. call[c].sent = call[c].sent + m.n /\ call' = [call EXCEPT ![c] = call[c]]
    BY <1>1, <1>2, <1>3, CallFields DEF TypeOK
  <1>5. ~call[c].ours => call[c].sent <= MaxForeign
    BY <1>1, <1>2 DEF Coherent, AtCall
  <1> HIDE DEF m
  <1> QED BY <1>1, <1>2, <1>3, <1>4, <1>5, SayOne

LEMMA FailAgrees ==
    ASSUME IInv, DInv, NEW c \in Callers, NEW why, Fail(c, why)
    PROVE  DInv'
  <1>1. client'[c].st = "failed" /\ wire'[c] = <<>>
    BY DEF IInv, TypeOK, Fail, Quiet
  <1>2. \A d \in Callers \ {c} : call'[d] = call[d] /\ client'[d] = client[d] /\ wire'[d] = wire[d]
    BY DEF IInv, TypeOK, Fail
  <1>3. Coherent(call'[c], client'[c], wire'[c])
    BY <1>1 DEF Coherent
  <1> QED BY <1>2, <1>3, OneMoves

LEMMA ReceivesAgree ==
    ASSUME IInv, DInv, NEW c \in Callers, Receive(c) \/ StoreFails(c) \/ DeadlinePasses(c)
    PROVE  DInv'
  <1>1. TypeOK /\ Coherent(call[c], client[c], wire[c]) /\ client[c].st = "open"
    BY DEF IInv, DInv, Receive, StoreFails, DeadlinePasses
  <1>2. CASE StoreFails(c) \/ DeadlinePasses(c)
    BY <1>2, FailAgrees DEF StoreFails, DeadlinePasses
  <1>3. CASE Receive(c)
    <2> DEFINE m == Head(wire[c])
    <2>1. wire[c] # <<>> /\ wire[c] \in Seq(Message) /\ m \in Message /\ client[c] \in ClientRecords
          /\ call[c].sent \in Nat
      BY <1>1, <1>3, CallFields DEF Receive
    <2>2. CASE m.t = "status" /\ m.feed = "OK" /\ Ended(c) /\ Commit(c)
      <3> DEFINE b == [client[c] EXCEPT !.st = "stored"]
      <3>1. /\ b.st = "stored" /\ b.acc = client[c].acc /\ b.done = client[c].done /\ b.rows = client[c].rows
            /\ b.feeds = client[c].feeds
        BY <2>1 DEF ClientRecords
      <3>2. client'[c] = b /\ wire'[c] = <<>> /\ call'[c] = call[c]
            /\ \A d \in Callers \ {c} : call'[d] = call[d] /\ client'[d] = client[d] /\ wire'[d] = wire[d]
        BY <1>1, <2>2 DEF TypeOK, Commit
      <3> HIDE DEF b
      <3>3. AtCall(call[c]) /\ AtReader(call[c], client[c]) /\ client[c].done
        BY <1>1, <2>2 DEF Coherent, Ended
      <3>4. call[c].st = "over"
        <4>1. Meant(call[c], wire[c][1]) /\ wire[c][1] = m
          BY <1>1, <2>1 DEF Coherent
        <4> QED BY <2>2, <4>1 DEF Meant
      <3>5. Whole(call[c], b)
        BY <3>1, <3>3, <3>4 DEF Whole, AtReader
      <3>6. Coherent(call[c], b, <<>>)
        BY <3>1, <3>5 DEF Coherent
      <3> QED BY <3>2, <3>6, OneMoves
    <2>3. CASE m.t \in {"ack", "page", "done"} /\ Admits(c, m) /\ Take(c, m)
      <3> DEFINE b == [client[c] EXCEPT !.acc = IF m.t = "ack" THEN m.feed ELSE @,
                                        !.done = (m.t = "done"), !.rows = @ + m.n,
                                        !.feeds = IF m.t = "page" THEN @ \cup {m.feed} ELSE @]
      <3>1. /\ b.st = "open" /\ b.out = client[c].out
            /\ b.acc = (IF m.t = "ack" THEN m.feed ELSE client[c].acc)
            /\ b.done = (m.t = "done")
            /\ b.rows = client[c].rows + m.n
            /\ b.feeds = (IF m.t = "page" THEN client[c].feeds \cup {m.feed} ELSE client[c].feeds)
        BY <1>1, <2>1 DEF ClientRecords
      <3>2. client'[c] = b /\ wire'[c] = Tail(wire[c]) /\ call'[c] = call[c]
            /\ \A d \in Callers \ {c} : call'[d] = call[d] /\ client'[d] = client[d] /\ wire'[d] = wire[d]
        BY <1>1, <2>3 DEF TypeOK, Take
      <3> HIDE DEF b
      <3>3. /\ ~client[c].done /\ (m.t = "ack" => client[c].acc = None)
            /\ (m.t \in {"page", "done"} => client[c].acc # None)
            /\ (m.t = "page" => m.feed = client[c].acc)
        BY <2>3 DEF Admits
      <3>4. m.t \in {"ack", "page", "done"}
        BY <2>3
      <3> HIDE DEF m
      <3>5. Coherent(call[c], b, Tail(wire[c]))
        <4>1. m = Head(wire[c])
          BY DEF m
        <4> QED BY <1>1, <2>1, <3>1, <3>3, <3>4, <4>1, ReaderTakes
      <3> QED BY <3>2, <3>5, OneMoves
    <2> QED BY <1>3, <2>2, <2>3, FailAgrees DEF Receive
  <1> QED BY <1>2, <1>3

LEMMA ForgetAgrees ==
    ASSUME IInv, DInv, NEW c \in Callers, Forget(c)
    PROVE  DInv'
  <1>1. client[c].st # "open" /\ wire[c] = <<>>
    BY DEF Forget, DInv, Coherent
  <1>2. /\ client'[c] = Quiet /\ wire'[c] = <<>>
        /\ \A d \in Callers \ {c} : call'[d] = call[d] /\ client'[d] = client[d] /\ wire'[d] = wire[d]
    BY <1>1 DEF IInv, TypeOK, Forget
  <1>3. Coherent(call'[c], client'[c], wire'[c])
    BY <1>2 DEF Coherent, Quiet
  <1> QED BY <1>2, <1>3, OneMoves

LEMMA AskAgrees ==
    ASSUME IInv, DInv, NEW c \in Callers, Ask(c)
    PROVE  DInv'
  <1>1. client[c].st = "idle" /\ UNCHANGED wire
    BY DEF Ask
  <1>2. client[c] = Quiet /\ wire[c] = <<>>
    BY <1>1 DEF DInv, Coherent
  <1>3. PICK k \in Keys, p \in Priorities, ours \in BOOLEAN :
           call' = [call EXCEPT ![c] = [NoCall EXCEPT
                      !.st = IF ours THEN "sent" ELSE "foreign", !.key = k, !.prio = p, !.ours = ours,
                      !.left = Deadline]]
    BY DEF Ask
  <1> DEFINE j == [NoCall EXCEPT
                      !.st = IF ours THEN "sent" ELSE "foreign", !.key = k, !.prio = p, !.ours = ours,
                      !.left = Deadline]
             b == [Quiet EXCEPT !.st = "open"]
  <1>4. /\ j.st = (IF ours THEN "sent" ELSE "foreign") /\ j.ours = ours /\ j.sent = 0 /\ j.heard = Nothing
        /\ b.st = "open" /\ b.acc = None /\ ~b.done /\ b.rows = 0 /\ b.feeds = {} /\ b.out = Nothing
    BY DEF NoCall, Quiet
  <1>5. /\ call'[c] = j /\ client'[c] = b /\ wire'[c] = <<>>
        /\ \A d \in Callers \ {c} : call'[d] = call[d] /\ client'[d] = client[d] /\ wire'[d] = wire[d]
    BY <1>1, <1>2, <1>3 DEF IInv, TypeOK, Ask
  <1> HIDE DEF j, b
  <1>6. AtCall(j) /\ AtReader(j, b)
    BY <1>4, ForeignAssumption DEF AtCall, AtReader, GateStates
  <1> DEFINE s == [i \in 0 .. 0 |-> 0]
  <1>7. s \in [0 .. Len(<<>>) -> 0 .. j.sent] /\ Totals(j, b, <<>>, s)
    BY <1>4 DEF Totals
  <1> HIDE DEF s
  <1>8. Coherent(j, b, <<>>)
    BY <1>4, <1>6, <1>7 DEF Coherent
  <1> QED BY <1>5, <1>8, OneMoves

\* A call leaves the gate with an answer, if its store still listens.
LEMMA HearsAgrees ==
    ASSUME IInv, DInv, NEW d \in Callers, call[d].st \in GateStates, NEW a
    PROVE  Coherent(Hears(d, a), client[d], wire[d])
  <1>1. call[d] \in CallRecords /\ Coherent(call[d], client[d], wire[d])
    BY CallFields DEF IInv, DInv
  <1>2. CASE client[d].st = "open"
    <2> DEFINE j == [call[d] EXCEPT !.st = "told", !.heard = a, !.nap = 0, !.key = None,
                                    !.prio = "INTERACTIVE"]
    <2>1. j.st = "told" /\ j.ours = call[d].ours /\ j.sent = call[d].sent
      BY <1>1 DEF CallRecords
    <2>2. Hears(d, a) = j
      BY <1>2 DEF Hears
    <2> HIDE DEF j
    <2> QED BY <1>1, <1>2, <2>1, <2>2, CallHears
  <1>3. CASE client[d].st # "open"
    <2>1. client[d].st # "stored"
      BY <1>1 DEF Coherent, Whole, GateStates
    <2> QED BY <1>1, <1>3, <2>1, CallFree
  <1> QED BY <1>2, <1>3

LEMMA EntryAgrees ==
    ASSUME IInv, DInv, NEW c \in Callers, RefuseTyped(c) \/ Attach(c)
    PROVE  DInv'
  <1>1. call[c].st = "sent" /\ UNCHANGED <<wire, client>> /\ TypeOK
    BY DEF IInv, RefuseTyped, Attach
  <1>2. CASE RefuseTyped(c)
    <2>1. PICK f \in {"REFUSED", "FEED_NOT_AVAILABLE"} :
             call' = [call EXCEPT ![c] = Hears(c, Failed(f))]
      BY <1>2 DEF RefuseTyped
    <2>2. Coherent(Hears(c, Failed(f)), client[c], wire[c])
      BY <1>1, HearsAgrees DEF GateStates
    <2>3. call'[c] = Hears(c, Failed(f)) /\ \A d \in Callers \ {c} : call'[d] = call[d]
      BY <1>1, <2>1 DEF TypeOK
    <2> QED BY <1>1, <2>2, <2>3, OneMoves
  <1>3. CASE Attach(c)
    <2> DEFINE j == [call[c] EXCEPT !.st = "attached"]
    <2>1. j.st = "attached" /\ j.ours = call[c].ours /\ j.sent = call[c].sent /\ j.heard = call[c].heard
      BY <1>1, CallFields
    <2>2. call' = [call EXCEPT ![c] = j]
      BY <1>3 DEF Attach
    <2> HIDE DEF j
    <2> QED BY <1>1, <2>1, <2>2, StateMoves DEF GateStates
  <1> QED BY <1>2, <1>3

\* Several calls move while the wire and the readers stand.
LEMMA AllMove ==
    ASSUME UNCHANGED <<wire, client>>, \A d \in Callers : Coherent(call'[d], client[d], wire[d])
    PROVE  DInv'
  BY DEF DInv

LEMMA SettleAgrees ==
    ASSUME IInv, DInv, NEW c \in Callers, call[c].st \in GateStates, NEW a, Settle(c, a), UNCHANGED <<wire, client>>
    PROVE  DInv'
  <1> SUFFICES ASSUME NEW d \in Callers
               PROVE  Coherent(call'[d], client[d], wire[d])
    BY AllMove
  <1>1. CASE d \in {c} \cup Followers(FlightKey(c))
    <2>1. call[d].st \in GateStates /\ call'[d] = Hears(d, a)
      BY <1>1 DEF Settle, Followers, GateStates
    <2> QED BY <2>1, HearsAgrees
  <1>2. CASE d \notin {c} \cup Followers(FlightKey(c))
    <2>1. call'[d] = call[d]
      BY <1>2 DEF Settle
    <2> QED BY <2>1 DEF DInv
  <1> QED BY <1>1, <1>2

LEMMA GateAgrees ==
    ASSUME IInv, DInv, NEW c \in Callers, Lead(c) \/ Wake(c) \/ VendorAnswers(c)
    PROVE  DInv'
  <1>1. UNCHANGED <<wire, client>> /\ call[c].st \in GateStates /\ TypeOK
    BY DEF IInv, Lead, Wake, VendorAnswers, GateStates
  <1>2. CASE VendorAnswers(c)
    BY <1>1, <1>2, SettleAgrees DEF VendorAnswers
  <1>3. CASE Settle(c, Failed("RATE_BUDGET"))
    BY <1>1, <1>3, SettleAgrees
  <1>4. CASE TakeToken(c)
    <2> DEFINE j == [call[c] EXCEPT !.st = "vendor"]
    <2>1. j.st = "vendor" /\ j.ours = call[c].ours /\ j.sent = call[c].sent /\ j.heard = call[c].heard
      BY <1>1, CallFields
    <2>2. call' = [call EXCEPT ![c] = j]
      BY <1>4 DEF TakeToken
    <2> HIDE DEF j
    <2> QED BY <1>1, <2>1, <2>2, StateMoves DEF GateStates
  <1>5. CASE Sleep(c)
    <2> DEFINE j == [call[c] EXCEPT !.st = "sleeping", !.nap = WaitFor(call[c].prio)]
    <2>1. call[c] \in CallRecords
      BY <1>1, CallFields
    <2>2. j.st = "sleeping" /\ j.ours = call[c].ours /\ j.sent = call[c].sent /\ j.heard = call[c].heard
      BY <2>1 DEF CallRecords
    <2>3. call' = [call EXCEPT ![c] = j]
      BY <1>5 DEF Sleep
    <2> HIDE DEF j
    <2> QED BY <1>1, <2>2, <2>3, StateMoves DEF GateStates
  <1> QED BY <1>2, <1>3, <1>4, <1>5 DEF Lead, Wake, Acquire

\* What is left of a call that is cancelled or lost still agrees with what was sent.
LEMMA DroppedAgrees ==
    ASSUME IInv, DInv, NEW d \in Callers, Active(d)
    PROVE  /\ Coherent(Dropped(d), client[d], wire[d])
           /\ client[d].st = "open" => /\ Dropped(d).st = "over" /\ Dropped(d).ours = call[d].ours
                                       /\ Dropped(d).sent = call[d].sent /\ Dropped(d).heard = call[d].heard
                                       /\ Dropped(d).key = call[d].key
  <1>1. call[d] \in CallRecords /\ Coherent(call[d], client[d], wire[d])
    BY CallFields DEF IInv, DInv
  <1>2. CASE client[d].st = "open"
    <2> DEFINE j == [call[d] EXCEPT !.st = "over", !.nap = 0, !.prio = "INTERACTIVE"]
    <2>1. j.st = "over" /\ j.ours = call[d].ours /\ j.sent = call[d].sent /\ j.heard = call[d].heard
          /\ j.key = call[d].key
      BY <1>1 DEF CallRecords
    <2>2. Dropped(d) = j
      BY <1>2 DEF Dropped
    <2> HIDE DEF j
    <2> QED BY <1>1, <1>2, <2>1, <2>2, CallMoves DEF GateStates
  <1>3. CASE client[d].st # "open"
    <2>1. client[d].st # "stored"
      BY <1>1 DEF Coherent, Whole, Active
    <2> QED BY <1>1, <1>3, <2>1, CallFree
  <1> QED BY <1>2, <1>3

LEMMA CancelAgrees ==
    ASSUME IInv, DInv, NEW c \in Callers, CancelCall(c)
    PROVE  DInv'
  <1>1. Active(c) /\ DropCall(c) /\ UNCHANGED <<wire, client>> /\ TypeOK
    BY DEF IInv, CancelCall
  <1> SUFFICES ASSUME NEW d \in Callers
               PROVE  Coherent(call'[d], client[d], wire[d])
    BY <1>1, AllMove
  <1>2. Coherent(call[d], client[d], wire[d]) /\ call[d] \in CallRecords
    BY <1>1, CallFields DEF DInv
  <1>3. CASE d = c
    <2>1. call'[d] = Dropped(d)
      <3>1. CASE Leading(c)
        <4>1. c \notin Followers(FlightKey(c))
          BY <3>1 DEF Followers, Leading
        <4>2. call'[c] = Dropped(c)
          BY <1>1, <3>1, <4>1 DEF DropCall
        <4> QED BY <1>3, <4>2
      <3>2. CASE ~Leading(c)
        BY <1>1, <1>3, <3>2 DEF DropCall, TypeOK
      <3> QED BY <3>1, <3>2
    <2> QED BY <1>1, <1>3, <2>1, DroppedAgrees
  <1>4. CASE d # c /\ Leading(c) /\ d \in Followers(FlightKey(c))
    <2> DEFINE j == IF client[d].st = "open"
                    THEN [call[d] EXCEPT !.st = "told", !.heard = Failed("CANCELLED")] ELSE NoCall
    <2>1. call'[d] = j /\ call[d].st \in GateStates
      BY <1>1, <1>4 DEF DropCall, Followers, GateStates
    <2>2. client[d].st = "open" => j.st = "told" /\ j.ours = call[d].ours /\ j.sent = call[d].sent
      BY <1>2 DEF CallRecords
    <2>3. client[d].st # "stored"
      BY <1>2, <2>1 DEF Coherent, Whole, GateStates
    <2> HIDE DEF j
    <2> QED BY <1>2, <2>1, <2>2, <2>3, CallHears, CallFree
  <1>5. CASE d # c /\ ~(Leading(c) /\ d \in Followers(FlightKey(c)))
    <2>1. call'[d] = call[d]
      BY <1>1, <1>5 DEF DropCall, TypeOK
    <2> QED BY <1>2, <2>1
  <1> QED BY <1>3, <1>4, <1>5

LEMMA RestartAgrees ==
    ASSUME IInv, DInv, IngestRestart
    PROVE  DInv'
  <1> DEFINE lost == {c \in Callers : Active(c) /\ call[c].st \notin {"sent", "foreign"}}
             cut(c) == c \in lost /\ client[c].st = "open" /\ ~Closed(c)
             m == Status("UNAVAILABLE")
  <1>1. /\ call' = [c \in Callers |-> IF c \in lost THEN Dropped(c) ELSE call[c]]
        /\ wire' = [c \in Callers |-> IF cut(c) THEN Append(wire[c], m) ELSE wire[c]]
        /\ UNCHANGED client
    BY DEF IngestRestart
  <1>2. m \in Message /\ m.n = 0 /\ \A k : Meant(k, m)
    BY CutMeans DEF Status, Message, Codes
  <1> HIDE DEF m
  <1> SUFFICES ASSUME NEW d \in Callers
               PROVE  Coherent(call'[d], client'[d], wire'[d])
    BY DEF DInv
  <1>3. Coherent(call[d], client[d], wire[d]) /\ wire[d] \in Seq(Message) /\ call[d].sent \in Nat
    BY CallFields DEF DInv, IInv
  <1>4. CASE d \notin lost
    <2>1. call'[d] = call[d] /\ wire'[d] = wire[d]
      BY <1>1, <1>4
    <2> QED BY <1>1, <1>3, <2>1
  <1>5. CASE d \in lost
    <2>1. Coherent(Dropped(d), client[d], wire[d]) /\ call'[d] = Dropped(d)
      BY <1>1, <1>5, DroppedAgrees
    <2>2. CASE ~cut(d)
      <3>1. wire'[d] = wire[d]
        BY <1>1, <2>2
      <3> QED BY <1>1, <2>1, <3>1
    <2>3. CASE cut(d)
      <3>1. wire'[d] = Append(wire[d], m) /\ client[d].st = "open"
        BY <1>1, <2>3
      <3>2. Dropped(d).sent = call[d].sent /\ Dropped(d).sent = Dropped(d).sent + m.n
        BY <1>2, <1>3, <1>5, <3>1, DroppedAgrees
      <3>3. ~Dropped(d).ours => Dropped(d).sent <= MaxForeign
        BY <2>1, <3>1 DEF Coherent, AtCall
      <3>4. Coherent(Dropped(d), client[d], Append(wire[d], m))
        BY <1>2, <1>3, <2>1, <3>1, <3>2, <3>3, CallSends
      <3> QED BY <1>1, <2>1, <3>1, <3>4
    <2> QED BY <2>2, <2>3
  <1> QED BY <1>4, <1>5

\* A tick leaves of a call all but its timers as it was.
LEMMA TickKeeps ==
    ASSUME IInv, Tick, NEW d \in Callers
    PROVE  /\ call'[d].st = call[d].st /\ call'[d].ours = call[d].ours /\ call'[d].sent = call[d].sent
           /\ call'[d].heard = call[d].heard /\ call'[d].key = call[d].key
           /\ UNCHANGED <<wire, client>>
  <1>1. call[d] \in CallRecords
    BY CallFields DEF IInv
  <1> QED BY <1>1 DEF Tick, CallRecords

LEMMA TickAgrees ==
    ASSUME IInv, DInv, Tick
    PROVE  DInv'
  <1> SUFFICES ASSUME NEW d \in Callers
               PROVE  Coherent(call'[d], client[d], wire[d])
    BY AllMove DEF Tick
  <1>1. /\ call'[d].st = call[d].st /\ call'[d].ours = call[d].ours /\ call'[d].sent = call[d].sent
        /\ call'[d].heard = call[d].heard
    BY TickKeeps
  <1>2. Coherent(call[d], client[d], wire[d])
    BY DEF DInv
  <1>3. client[d].st = "open" => call[d].st # "none"
    BY <1>2 DEF Coherent, AtCall
  <1> QED BY <1>1, <1>2, <1>3, CallMoves DEF GateStates

\* Agreement holds at the start, and every step keeps it.
LEMMA AgreesInit == Init => DInv
  <1> SUFFICES ASSUME Init, NEW c \in Callers
               PROVE  Coherent(call[c], client[c], wire[c])
    BY DEF DInv
  <1>1. client[c] = Quiet /\ wire[c] = <<>>
    BY DEF Init
  <1> QED BY <1>1 DEF Coherent, Quiet

LEMMA AgreesStep ==
    ASSUME IInv, DInv, [Next]_vars
    PROVE  DInv'
  <1>1. CASE UNCHANGED vars
    BY <1>1 DEF vars, DInv
  <1>2. ASSUME NEW c \in Callers, Step(c)
        PROVE  DInv'
    BY <1>2, AskAgrees, EntryAgrees, GateAgrees, SendsAgree, ForeignAgrees, CancelAgrees, ReceivesAgree,
       ForgetAgrees, CutAgrees DEF Step
  <1> QED BY <1>1, <1>2, RestartAgrees, TickAgrees DEF Next

\* The reader's transaction (asset_dataset_store, ingest_stream): what a store commits is one
\* acknowledged feed's rows from a stream read to its done, and of our own ingest's answer every bar,
\* whatever page size, however far the wire runs ahead, and whatever a foreign peer sends.
THEOREM StoredIsCompleteAlways == Spec => []StoredIsComplete
  <1>1. IInv /\ DInv /\ [Next]_vars => DInv'
    BY AgreesStep
  <1>2. DInv => StoredIsComplete
    BY DEF DInv, Coherent, Whole, StoredIsComplete
  <1> QED BY <1>1, <1>2, AgreesInit, Invariant, PTL DEF Spec

-----------------------------------------------------------------------------
(* What FetchContract sees of each step. *)

\* An answer counts once its caller heard it.
Visible(k) == IF k.heard.why \in GateReasons \cup {"served"} THEN k.heard ELSE Nothing

\* What the contract sees of one caller.
View(k, cl) ==
    [st |-> cl.st,
     key |-> IF cl.st = "open" THEN k.key ELSE None,
     ours |-> cl.st = "open" => k.ours,
     heard |-> IF cl.st = "open" /\ k.heard.why \in GateReasons \cup {"served"} THEN k.heard ELSE Nothing,
     out |-> IF cl.st = "stored" THEN Served(cl.rows) ELSE cl.out]

Fetch == [c \in Callers |-> FetchState(c)]

\* A fetch is open, stored, failed or idle with nothing left of what it asked or heard.
Open(k, ours) == [st |-> "open", key |-> k, ours |-> ours, heard |-> Nothing, out |-> Nothing]
Over(st, out) == [st |-> st, key |-> None, ours |-> TRUE, heard |-> Nothing, out |-> out]

LEMMA FetchNow ==
    /\ Fetch = [c \in Callers |-> View(call[c], client[c])]
    /\ Fetch' = [c \in Callers |-> View(call'[c], client'[c])]
  BY DEF Fetch, FetchState, View

LEMMA ViewOpen ==
    ASSUME NEW k, NEW cl, cl.st = "open", k.ours \in BOOLEAN
    PROVE  View(k, cl) = [st |-> "open", key |-> k.key, ours |-> k.ours, heard |-> Visible(k), out |-> cl.out]
  <1>1. (cl.st = "open" => k.ours) = k.ours
    BY Zenon
  <1> QED BY <1>1 DEF View, Visible

LEMMA ViewShut ==
    ASSUME NEW k, NEW cl, cl.st # "open"
    PROVE  View(k, cl) = Over(cl.st, IF cl.st = "stored" THEN Served(cl.rows) ELSE cl.out)
  <1>1. (cl.st = "open" => k.ours) = TRUE
    BY Zenon
  <1> QED BY <1>1 DEF View, Over

\* The calls move and no store hears or asks anything by it.
LEMMA Unseen ==
    ASSUME IInv, IInv', UNCHANGED client,
           \A d \in Callers : client[d].st = "open" =>
               /\ call'[d].key = call[d].key /\ call'[d].ours = call[d].ours
               /\ Visible(call'[d]) = Visible(call[d])
    PROVE  UNCHANGED Fetch
  <1> SUFFICES ASSUME NEW d \in Callers
               PROVE  View(call'[d], client'[d]) = View(call[d], client[d])
    BY FetchNow
  <1>1. call[d].ours \in BOOLEAN /\ call'[d].ours \in BOOLEAN
    BY DEF IInv, TypeOK, CallRecords
  <1>2. CASE client[d].st = "open"
    BY <1>1, <1>2, ViewOpen
  <1>3. CASE client[d].st # "open"
    <2>1. View(call[d], client[d]) = View(call'[d], client[d])
      BY <1>3, ViewShut
    <2> QED BY <2>1
  <1> QED BY <1>2, <1>3

\* A step of one caller is seen at that caller alone.
LEMMA SeenAtOne ==
    ASSUME NEW c \in Callers, \A d \in Callers \ {c} : call'[d] = call[d] /\ client'[d] = client[d]
    PROVE  /\ Fetch' = [Fetch EXCEPT ![c] = View(call'[c], client'[c])]
           /\ Fetch[c] = View(call[c], client[c])
           /\ View(call'[c], client'[c]) = View(call[c], client[c]) => Fetch' = Fetch
  BY FetchNow

FetchFields == {"st", "key", "ours", "heard", "out"}

LEMMA SameFields ==
    ASSUME NEW e, NEW f, e = [x \in FetchFields |-> e[x]], f = [x \in FetchFields |-> f[x]],
           e.st = f.st, e.key = f.key, e.ours = f.ours, e.heard = f.heard, e.out = f.out
    PROVE  e = f
  <1>1. \A x \in FetchFields : e[x] = f[x]
    BY DEF FetchFields
  <1> QED BY <1>1

LEMMA ContractRecords ==
    /\ Contract!Idle = Over("idle", Nothing)
    /\ \A k, ours : [Contract!Idle EXCEPT !.st = "open", !.key = k, !.ours = ours] = Open(k, ours)
    /\ \A st, out : [Contract!Idle EXCEPT !.st = st, !.out = out] = Over(st, out)
    /\ \A n : Contract!Served(n) = Served(n)
    /\ \A r : Contract!Failed(r) = Failed(r)
    /\ Contract!Nothing = Nothing
  <1>1. /\ \A n : Contract!Served(n) = Served(n)
        /\ \A r : Contract!Failed(r) = Failed(r)
    BY DEF Contract!Served, Contract!Failed, Served, Failed
  <1>2. Contract!Nothing = Nothing
    BY <1>1 DEF Contract!Nothing, Nothing
  <1>3. Contract!Idle = Over("idle", Nothing)
    BY <1>2 DEF Contract!Idle, Over
  <1>4. ASSUME NEW k, NEW ours
        PROVE  [Contract!Idle EXCEPT !.st = "open", !.key = k, !.ours = ours] = Open(k, ours)
    <2> DEFINE e == [Contract!Idle EXCEPT !.st = "open", !.key = k, !.ours = ours]
               o == Open(k, ours)
    <2>1. e.st = o.st /\ e.key = o.key /\ e.ours = o.ours /\ e.heard = o.heard /\ e.out = o.out
      BY <1>2 DEF Contract!Idle, Open
    <2>2. e = [x \in FetchFields |-> e[x]]
      BY DEF Contract!Idle, FetchFields
    <2>3. o = [x \in FetchFields |-> o[x]]
      BY DEF Open, FetchFields
    <2> HIDE DEF e, o
    <2>4. e = o
      BY <2>1, <2>2, <2>3, SameFields
    <2> QED BY <2>4 DEF e, o
  <1>5. ASSUME NEW st, NEW out
        PROVE  [Contract!Idle EXCEPT !.st = st, !.out = out] = Over(st, out)
    <2> DEFINE e == [Contract!Idle EXCEPT !.st = st, !.out = out]
               o == Over(st, out)
    <2>1. e.st = o.st /\ e.key = o.key /\ e.ours = o.ours /\ e.heard = o.heard /\ e.out = o.out
      BY <1>2 DEF Contract!Idle, Over
    <2>2. e = [x \in FetchFields |-> e[x]]
      BY DEF Contract!Idle, FetchFields
    <2>3. o = [x \in FetchFields |-> o[x]]
      BY DEF Over, FetchFields
    <2> HIDE DEF e, o
    <2>4. e = o
      BY <2>1, <2>2, <2>3, SameFields
    <2> QED BY <2>4 DEF e, o
  <1> QED BY <1>1, <1>2, <1>3, <1>4, <1>5

\* The actions of the contract, in terms of what it sees.
LEMMA ContractAsk ==
    ASSUME NEW c \in Callers, Fetch[c].st = "idle", NEW k \in Keys, NEW ours \in BOOLEAN,
           Fetch' = [Fetch EXCEPT ![c] = Open(k, ours)]
    PROVE  Contract!Next
  <1>1. Contract!Ask(c)
    BY ContractRecords DEF Fetch, Contract!Ask
  <1> QED BY <1>1 DEF Contract!Next

LEMMA ContractStore ==
    ASSUME NEW c \in Callers, Fetch[c].st = "open", NEW n \in BarCounts \cup 0 .. MaxForeign,
           Fetch[c].ours => Fetch[c].heard = Served(n),
           Fetch' = [Fetch EXCEPT ![c] = Over("stored", Served(n))]
    PROVE  Contract!Next
  <1>1. Contract!Store(c)
    BY ContractRecords DEF Fetch, Contract!Store
  <1> QED BY <1>1 DEF Contract!Next

LEMMA ContractFail ==
    ASSUME NEW c \in Callers, Fetch[c].st = "open", NEW r \in GateReasons \cup OtherReasons,
           Fetch[c].ours /\ r \in GateReasons => Fetch[c].heard = Failed(r),
           Fetch' = [Fetch EXCEPT ![c] = Over("failed", Failed(r))]
    PROVE  Contract!Next
  <1>1. Contract!Fail(c)
    BY ContractRecords DEF Fetch, Contract!Fail
  <1> QED BY <1>1 DEF Contract!Next

LEMMA ContractForget ==
    ASSUME NEW c \in Callers, Fetch[c].st \in {"stored", "failed"},
           Fetch' = [Fetch EXCEPT ![c] = Over("idle", Nothing)]
    PROVE  Contract!Next
  <1>1. Contract!Forget(c)
    BY ContractRecords DEF Fetch, Contract!Forget
  <1> QED BY <1>1 DEF Contract!Next

LEMMA AskSeen ==
    ASSUME IInv, DInv, NEW c \in Callers, Ask(c)
    PROVE  Contract!Next
  <1>1. client[c].st = "idle" /\ client[c] = Quiet
    BY DEF Ask, DInv, Coherent
  <1>2. PICK k \in Keys, p \in Priorities, ours \in BOOLEAN :
           call' = [call EXCEPT ![c] = [NoCall EXCEPT
                      !.st = IF ours THEN "sent" ELSE "foreign", !.key = k, !.prio = p, !.ours = ours,
                      !.left = Deadline]]
    BY DEF Ask
  <1> DEFINE j == [NoCall EXCEPT
                      !.st = IF ours THEN "sent" ELSE "foreign", !.key = k, !.prio = p, !.ours = ours,
                      !.left = Deadline]
             b == [Quiet EXCEPT !.st = "open"]
  <1>3. j.key = k /\ j.ours = ours /\ j.heard = Nothing /\ b.st = "open" /\ b.out = Nothing
    BY DEF NoCall, Quiet
  <1>4. /\ call'[c] = j /\ client'[c] = b
        /\ \A d \in Callers \ {c} : call'[d] = call[d] /\ client'[d] = client[d]
    BY <1>1, <1>2 DEF IInv, TypeOK, Ask
  <1> HIDE DEF j, b
  <1>5. Visible(j) = Nothing
    BY <1>3 DEF Visible
  <1>6. View(j, b) = Open(k, ours)
    BY <1>3, <1>5, ViewOpen DEF Open
  <1>7. Fetch[c] = View(call[c], client[c]) /\ Fetch' = [Fetch EXCEPT ![c] = Open(k, ours)]
    BY <1>4, <1>6, SeenAtOne
  <1>8. Fetch[c].st = "idle"
    BY <1>1, <1>7 DEF View
  <1> QED BY <1>7, <1>8, ContractAsk

LEMMA ForgetSeen ==
    ASSUME IInv, NEW c \in Callers, Forget(c)
    PROVE  Contract!Next
  <1>1. client[c].st \in {"stored", "failed"} /\ client'[c] = Quiet
        /\ \A d \in Callers \ {c} : call'[d] = call[d] /\ client'[d] = client[d]
    BY DEF IInv, TypeOK, Forget
  <1>2. Quiet.st = "idle" /\ Quiet.out = Nothing
    BY DEF Quiet
  <1>3. View(call'[c], Quiet) = Over("idle", Nothing)
    BY <1>2, ViewShut
  <1>4. Fetch[c] = View(call[c], client[c]) /\ Fetch' = [Fetch EXCEPT ![c] = Over("idle", Nothing)]
    BY <1>1, <1>3, SeenAtOne
  <1>5. Fetch[c].st \in {"stored", "failed"}
    BY <1>1, <1>4 DEF View
  <1> QED BY <1>4, <1>5, ContractForget

LEMMA FailSeen ==
    ASSUME IInv, NEW c \in Callers, client[c].st = "open", NEW why \in GateReasons \cup OtherReasons, Fail(c, why),
           call[c].ours /\ why \in GateReasons => call[c].heard = Failed(why)
    PROVE  Contract!Next
  <1> DEFINE b == [Quiet EXCEPT !.st = "failed", !.out = Failed(why)]
  <1>1. b.st = "failed" /\ b.out = Failed(why)
    BY DEF Quiet
  <1>2. client'[c] = b /\ \A d \in Callers \ {c} : call'[d] = call[d] /\ client'[d] = client[d]
    BY DEF IInv, TypeOK, Fail
  <1> HIDE DEF b
  <1>3. View(call'[c], b) = Over("failed", Failed(why))
    BY <1>1, ViewShut
  <1>4. call[c].ours \in BOOLEAN
    BY DEF IInv, TypeOK, CallRecords
  <1>5. View(call[c], client[c]) = [st |-> "open", key |-> call[c].key, ours |-> call[c].ours,
                                    heard |-> Visible(call[c]), out |-> client[c].out]
    BY <1>4, ViewOpen
  <1>6. Fetch[c] = View(call[c], client[c]) /\ Fetch' = [Fetch EXCEPT ![c] = View(call'[c], b)]
    BY <1>2, SeenAtOne
  <1>7. Fetch[c].ours /\ why \in GateReasons => Fetch[c].heard = Failed(why)
    BY <1>5, <1>6 DEF Visible, Failed
  <1>8. Fetch[c].st = "open"
    BY <1>5, <1>6
  <1> QED BY <1>3, <1>6, <1>7, <1>8, ContractFail

\* The hop's own reasons are none of the gate's.
LEMMA ReasonsApart == OtherReasons \cap GateReasons = {}
  BY ReasonAssumption DEF OtherReasons, GateReasons

LEMMA ReceiveSeen ==
    ASSUME IInv, DInv, NEW c \in Callers, Receive(c) \/ StoreFails(c) \/ DeadlinePasses(c)
    PROVE  Contract!Next \/ UNCHANGED Fetch
  <1>1. TypeOK /\ Coherent(call[c], client[c], wire[c]) /\ client[c].st = "open"
    BY DEF IInv, DInv, Receive, StoreFails, DeadlinePasses
  <1>2. call[c] \in CallRecords /\ call[c].ours \in BOOLEAN /\ client[c] \in ClientRecords /\ call[c].sent \in Nat
    BY <1>1, CallFields DEF CallRecords
  <1>3. ASSUME NEW why \in OtherReasons, Fail(c, why)
        PROVE  Contract!Next
    BY <1>1, <1>3, ReasonsApart, FailSeen
  <1>4. CASE StoreFails(c) \/ DeadlinePasses(c)
    BY <1>3, <1>4 DEF StoreFails, DeadlinePasses, OtherReasons
  <1>5. CASE Receive(c)
    <2> DEFINE m == Head(wire[c])
    <2>1. wire[c] # <<>> /\ m \in Message /\ Meant(call[c], m)
      <3>1. wire[c] # <<>> /\ wire[c] \in Seq(Message)
        BY <1>1, <1>5, CallFields DEF Receive
      <3>2. Meant(call[c], wire[c][1]) /\ m = wire[c][1]
        BY <1>1, <3>1 DEF Coherent
      <3> QED BY <3>1, <3>2
    <2>2. CASE Ended(c) /\ Commit(c)
      <3> DEFINE b == [client[c] EXCEPT !.st = "stored"]
                 n == client[c].rows
      <3>1. b.st = "stored" /\ b.rows = n
        BY <1>2 DEF ClientRecords
      <3>2. client'[c] = b /\ \A d \in Callers \ {c} : call'[d] = call[d] /\ client'[d] = client[d]
        BY <1>1, <2>2 DEF TypeOK, Commit
      <3> HIDE DEF b
      <3>3. View(call'[c], b) = Over("stored", Served(n))
        BY <3>1, ViewShut
      <3>4. View(call[c], client[c]) = [st |-> "open", key |-> call[c].key, ours |-> call[c].ours,
                                        heard |-> Visible(call[c]), out |-> client[c].out]
        BY <1>1, <1>2, ViewOpen
      <3>5. Fetch[c] = View(call[c], client[c]) /\ Fetch' = [Fetch EXCEPT ![c] = View(call'[c], b)]
        BY <3>2, SeenAtOne
      <3>6. call[c].ours => call[c].heard = Served(n)
        BY <1>1, <2>2 DEF Coherent, AtReader, Ended
      <3>7. n \in BarCounts \cup 0 .. MaxForeign
        <4>1. CASE call[c].ours
          <5>1. call[c].heard.why = "served" /\ call[c].heard.bars = n
            BY <3>6, <4>1 DEF Served
          <5> QED BY <1>1, <5>1, HeardForms
        <4>2. CASE ~call[c].ours
          <5>1. PICK s \in [0 .. Len(wire[c]) -> 0 .. call[c].sent] : Totals(call[c], client[c], wire[c], s)
            BY <1>1 DEF Coherent
          <5>2. Len(wire[c]) \in Nat /\ s[0] = n
            BY <1>1, <5>1, CallFields DEF Totals
          <5>3. n \in 0 .. call[c].sent
            BY <5>1, <5>2
          <5>4. call[c].sent <= MaxForeign
            BY <1>1, <4>2 DEF Coherent, AtCall
          <5> QED BY <1>2, <5>3, <5>4, ForeignAssumption
        <4> QED BY <4>1, <4>2
      <3>8. Fetch[c].ours => Fetch[c].heard = Served(n)
        BY <3>4, <3>5, <3>6 DEF Visible, Served
      <3>9. Fetch[c].st = "open"
        BY <3>4, <3>5
      <3> HIDE DEF n
      <3> QED BY <3>3, <3>5, <3>7, <3>8, <3>9, ContractStore
    <2>3. CASE Fail(c, "PEER_PROTOCOL_ERROR")
      BY <1>3, <2>3 DEF OtherReasons
    <2>4. CASE m.t = "status" /\ m.feed # "OK" /\ Fail(c, StatusReason(m.feed))
      <3>1. m.feed \in Codes
        BY <2>1, <2>4 DEF Message
      <3>2. CASE m.feed \in {"INTERNAL", "UNAVAILABLE", "CANCELLED"}
        <4>1. StatusReason(m.feed) \in OtherReasons
          BY <3>2 DEF StatusReason, OtherReasons
        <4> QED BY <1>3, <2>4, <4>1
      <3>3. CASE m.feed \notin {"INTERNAL", "UNAVAILABLE", "CANCELLED"}
        <4>1. StatusReason(m.feed) = m.feed /\ m.feed \in GateReasons \ {"INTERNAL"}
          BY <2>4, <3>1, <3>3 DEF StatusReason, Codes
        <4>2. call[c].ours => call[c].heard = Failed(m.feed)
          BY <2>1, <2>4, <4>1 DEF Meant
        <4> QED BY <1>1, <2>4, <4>1, <4>2, FailSeen
      <3> QED BY <3>2, <3>3
    <2>5. CASE m.t = "refused" /\ Fail(c, IF m.feed = "unknown" THEN "PEER_PROTOCOL_ERROR" ELSE m.feed)
      <3>1. m.feed \in {"FEED_NOT_AVAILABLE", "unknown"}
        BY <2>1, <2>5 DEF Message
      <3>2. CASE m.feed = "unknown"
        BY <1>3, <2>5, <3>2 DEF OtherReasons
      <3>3. CASE m.feed # "unknown"
        <4>1. m.feed \in GateReasons /\ Fail(c, m.feed)
          BY <2>5, <3>1, <3>3 DEF GateReasons
        <4>2. call[c].ours => call[c].heard = Failed(m.feed)
          BY <2>1, <2>5, <3>3 DEF Meant
        <4> QED BY <1>1, <4>1, <4>2, FailSeen
      <3> QED BY <3>2, <3>3
    <2>6. CASE Take(c, m)
      <3>1. client'[c].st = "open" /\ client'[c].out = client[c].out /\ call'[c] = call[c]
            /\ \A d \in Callers \ {c} : call'[d] = call[d] /\ client'[d] = client[d]
        BY <1>1, <1>2, <2>6 DEF TypeOK, Take, ClientRecords
      <3>2. View(call'[c], client'[c]) = View(call[c], client[c])
        BY <1>1, <1>2, <3>1, ViewOpen
      <3> QED BY <3>1, <3>2, SeenAtOne
    <2> QED BY <1>5, <2>2, <2>3, <2>4, <2>5, <2>6 DEF Receive
  <1> QED BY <1>4, <1>5

\* One answer, for one key, reaches those of its callers whose stores still listen.
LEMMA AnswerSeen ==
    ASSUME IInv, DInv, UNCHANGED client, NEW L \in SUBSET Callers,
           NEW a \in VendorAnswer \cup {Failed(r) : r \in GateReasons}, NEW k,
           \A d \in L : call[d].st \in GateStates /\ call[d].key = k,
           call' = [d \in Callers |-> IF d \in L THEN Hears(d, a) ELSE call[d]]
    PROVE  Contract!Next \/ UNCHANGED Fetch
  <1> DEFINE S == {d \in L : client[d].st = "open"}
  <1>1. a \in {Contract!Served(n) : n \in BarCounts \cup 0 .. MaxForeign} \cup {Contract!Failed(r) : r \in GateReasons}
    BY ContractRecords DEF VendorAnswer, GateReasons
  <1>2. Visible([heard |-> a]) = a
    BY DEF Visible, VendorAnswer, Served, Failed, GateReasons
  <1>3. ASSUME NEW d \in Callers
        PROVE  call[d] \in CallRecords /\ call[d].ours \in BOOLEAN /\ Coherent(call[d], client[d], wire[d])
    BY CallFields DEF IInv, DInv, CallRecords
  <1>4. ASSUME NEW d \in S
        PROVE  /\ Fetch[d].st = "open" /\ Fetch[d].ours /\ Fetch[d].heard = Nothing /\ Fetch[d].key = k
               /\ Fetch'[d] = [Fetch[d] EXCEPT !.heard = a, !.key = None]
    <2>1. d \in Callers /\ client[d].st = "open" /\ call[d].st \in GateStates /\ call[d].key = k
      OBVIOUS
    <2>2. AtCall(call[d]) /\ AtReader(call[d], client[d])
      BY <1>3, <2>1 DEF Coherent
    <2>3. call[d].ours /\ call[d].heard = Nothing /\ client[d].out = Nothing
      BY <2>1, <2>2 DEF AtCall, AtReader, GateStates
    <2>4. Visible(call[d]) = Nothing
      BY <2>3 DEF Visible
    <2>5. Fetch[d] = View(call[d], client[d]) /\ Fetch'[d] = View(call'[d], client[d])
      BY <2>1, FetchNow
    <2>6. /\ View(call[d], client[d]) = Open(k, TRUE)
          /\ Fetch[d].st = "open" /\ Fetch[d].ours /\ Fetch[d].heard = Nothing /\ Fetch[d].key = k
      <3>1. View(call[d], client[d]) = [st |-> "open", key |-> call[d].key, ours |-> call[d].ours,
                                        heard |-> Visible(call[d]), out |-> client[d].out]
        BY <1>3, <2>1, ViewOpen
      <3>2. call[d].ours = TRUE
        BY <2>3
      <3>3. View(call[d], client[d]) = Open(k, TRUE)
        BY <2>1, <2>3, <2>4, <3>1, <3>2 DEF Open
      <3>4. Fetch[d].st = "open" /\ Fetch[d].ours = call[d].ours /\ Fetch[d].heard = Nothing /\ Fetch[d].key = k
        BY <2>1, <2>4, <2>5, <3>1
      <3> QED BY <2>3, <3>3, <3>4
    <2> DEFINE j == [call[d] EXCEPT !.st = "told", !.heard = a, !.nap = 0, !.key = None, !.prio = "INTERACTIVE"]
    <2>7. j.key = None /\ j.ours = call[d].ours /\ j.heard = a
      BY <1>3, <2>1 DEF CallRecords
    <2>8. call'[d] = j
      BY <2>1 DEF Hears
    <2> HIDE DEF j
    <2>9. Visible(j) = a
      BY <1>2, <2>7 DEF Visible
    <2>10. View(j, client[d]) = [st |-> "open", key |-> None, ours |-> call[d].ours, heard |-> a, out |-> Nothing]
      <3>1. j.ours \in BOOLEAN
        BY <1>3, <2>1, <2>7
      <3>2. View(j, client[d]) = [st |-> "open", key |-> j.key, ours |-> j.ours, heard |-> Visible(j),
                                  out |-> client[d].out]
        BY <2>1, <3>1, ViewOpen
      <3> QED BY <2>3, <2>7, <2>9, <3>2
    <2>11. View(j, client[d]) = [Open(k, TRUE) EXCEPT !.heard = a, !.key = None]
      <3> DEFINE e == [Open(k, TRUE) EXCEPT !.heard = a, !.key = None]
                 o == [st |-> "open", key |-> None, ours |-> call[d].ours, heard |-> a, out |-> Nothing]
      <3>1. call[d].ours = TRUE
        BY <2>3
      <3>2. e.st = o.st /\ e.key = o.key /\ e.ours = o.ours /\ e.heard = o.heard /\ e.out = o.out
        BY <3>1 DEF Open
      <3>3. e = [x \in FetchFields |-> e[x]]
        BY DEF Open, FetchFields
      <3>4. o = [x \in FetchFields |-> o[x]]
        BY DEF FetchFields
      <3>5. View(j, client[d]) = o
        BY <2>10
      <3> HIDE DEF e, o
      <3>6. e = o
        BY <3>2, <3>3, <3>4, SameFields
      <3> QED BY <3>5, <3>6 DEF e
    <2> QED BY <2>5, <2>6, <2>8, <2>11
  <1>5. ASSUME NEW d \in Callers \ S
        PROVE  Fetch'[d] = Fetch[d]
    <2>1. Fetch[d] = View(call[d], client[d]) /\ Fetch'[d] = View(call'[d], client[d])
      BY FetchNow
    <2>2. CASE d \in L
      <3>1. client[d].st # "open"
        BY <2>2
      <3>2. View(call[d], client[d]) = View(call'[d], client[d])
        BY <3>1, ViewShut
      <3> QED BY <2>1, <3>2
    <2>3. CASE d \notin L
      BY <2>1, <2>3
    <2> QED BY <2>2, <2>3
  <1>6. Fetch' = [d \in Callers |-> IF d \in S THEN [Fetch[d] EXCEPT !.heard = a, !.key = None] ELSE Fetch[d]]
    <2>1. Fetch' = [d \in Callers |-> Fetch'[d]]
      BY FetchNow
    <2> HIDE DEF S
    <2> QED BY <1>4, <1>5, <2>1
  <1>7. CASE S = {}
    <2>1. \A d \in Callers : Fetch'[d] = Fetch[d]
      BY <1>5, <1>7
    <2> QED BY <2>1, FetchNow
  <1>8. CASE S # {}
    <2>1. \A d \in S : Fetch[d].st = "open" /\ Fetch[d].ours /\ Fetch[d].heard = Contract!Nothing /\ Fetch[d].key = k
      <3> HIDE DEF S
      <3> QED BY <1>4, ContractRecords
    <2>2. S \in SUBSET Callers
      OBVIOUS
    <2> HIDE DEF S
    <2>3. Contract!Answered(S)
      BY <1>1, <1>6, <1>8, <2>1 DEF Fetch, Contract!Answered
    <2> QED BY <2>2, <2>3 DEF Contract!Next
  <1> QED BY <1>7, <1>8

\* A call that moves on its own shows nothing of it.
LEMMA MoveUnseen ==
    ASSUME IInv, IInv', UNCHANGED client, NEW c \in Callers, NEW j, call' = [call EXCEPT ![c] = j],
           client[c].st = "open" => j.key = call[c].key /\ j.ours = call[c].ours /\ j.heard = call[c].heard
    PROVE  UNCHANGED Fetch
  <1>1. ASSUME NEW d \in Callers, client[d].st = "open"
        PROVE  call'[d].key = call[d].key /\ call'[d].ours = call[d].ours /\ call'[d].heard = call[d].heard
    BY <1>1 DEF IInv, TypeOK
  <1> QED BY <1>1, Unseen DEF Visible

LEMMA StreamUnseen ==
    ASSUME IInv, IInv', NEW c \in Callers,
           \/ Attach(c) \/ Accept(c) \/ Refuse(c) \/ LeaderLeft(c) \/ SendPage(c) \/ SendDone(c)
           \/ ForeignSends(c) \/ PeerLost(c)
    PROVE  UNCHANGED Fetch
  <1>1. call[c] \in CallRecords /\ UNCHANGED client
    BY CallFields DEF IInv, Attach, Accept, Refuse, LeaderLeft, SendPage, SendDone, ForeignSends, PeerLost
  <1>2. CASE Attach(c) \/ Accept(c) \/ Refuse(c) \/ LeaderLeft(c) \/ SendDone(c)
    <2>1. PICK x : call' = [call EXCEPT ![c] = [call[c] EXCEPT !.st = x]]
      BY <1>2 DEF Attach, Accept, Refuse, LeaderLeft, SendDone
    <2> DEFINE j == [call[c] EXCEPT !.st = x]
    <2>2. j.key = call[c].key /\ j.ours = call[c].ours /\ j.heard = call[c].heard
      BY <1>1 DEF CallRecords
    <2> HIDE DEF j
    <2>3. call' = [call EXCEPT ![c] = j]
      BY <2>1 DEF j
    <2> QED BY <1>1, <2>2, <2>3, MoveUnseen
  <1>3. CASE SendPage(c) \/ ForeignSends(c)
    <2>1. PICK x, n : call' = [call EXCEPT ![c] = [call[c] EXCEPT !.st = x, !.sent = n]]
      <3>1. CASE SendPage(c)
        <4>1. call' = [call EXCEPT ![c] = [call[c] EXCEPT !.st = call[c].st, !.sent = call[c].sent + NextPage(c)]]
          <5>1. [call[c] EXCEPT !.st = call[c].st, !.sent = call[c].sent + NextPage(c)]
                  = [call[c] EXCEPT !.sent = @ + NextPage(c)]
            BY <1>1 DEF CallRecords
          <5> QED BY <3>1, <5>1 DEF SendPage
        <4> QED BY <4>1
      <3>2. CASE ForeignSends(c)
        <4>1. PICK m : call' = [call EXCEPT ![c].st = IF m.t = "status" THEN "over" ELSE @, ![c].sent = @ + m.n]
          BY <3>2 DEF ForeignSends
        <4>2. call' = [call EXCEPT ![c] = [call[c] EXCEPT !.st = IF m.t = "status" THEN "over" ELSE call[c].st,
                                                          !.sent = call[c].sent + m.n]]
          BY <4>1
        <4> QED BY <4>2
      <3> QED BY <1>3, <3>1, <3>2
    <2> DEFINE j == [call[c] EXCEPT !.st = x, !.sent = n]
    <2>2. j.key = call[c].key /\ j.ours = call[c].ours /\ j.heard = call[c].heard
      BY <1>1 DEF CallRecords
    <2> HIDE DEF j
    <2>3. call' = [call EXCEPT ![c] = j]
      BY <2>1 DEF j
    <2> QED BY <1>1, <2>2, <2>3, MoveUnseen
  <1>4. CASE PeerLost(c)
    <2>1. call' = call
      BY <1>4 DEF PeerLost
    <2> QED BY <1>1, <2>1, Unseen
  <1> QED BY <1>2, <1>3, <1>4

LEMMA GateSeen ==
    ASSUME IInv, IInv', DInv, NEW c \in Callers, RefuseTyped(c) \/ Lead(c) \/ Wake(c) \/ VendorAnswers(c)
    PROVE  Contract!Next \/ UNCHANGED Fetch
  <1>1. /\ UNCHANGED client /\ call[c].st \in {"sent", "sleeping", "vendor"} /\ call[c] \in CallRecords
        /\ call \in [Callers -> CallRecords]
    BY CallFields DEF IInv, TypeOK, RefuseTyped, Lead, Wake, VendorAnswers
  <1>2. ASSUME NEW a \in VendorAnswer \cup {Failed(r) : r \in GateReasons}, Settle(c, a)
        PROVE  Contract!Next \/ UNCHANGED Fetch
    <2> DEFINE L == {c} \cup Followers(call[c].key)
    <2>1. L \in SUBSET Callers /\ \A d \in L : call[d].st \in GateStates /\ call[d].key = call[c].key
      BY <1>1 DEF Followers, FlightKey, GateStates
    <2>2. call' = [d \in Callers |-> IF d \in L THEN Hears(d, a) ELSE call[d]]
      BY <1>2 DEF Settle, FlightKey
    <2> HIDE DEF L
    <2> QED BY <1>1, <2>1, <2>2, AnswerSeen
  <1>3. CASE RefuseTyped(c)
    <2>1. PICK r \in {"REFUSED", "FEED_NOT_AVAILABLE"} : call' = [call EXCEPT ![c] = Hears(c, Failed(r))]
      BY <1>3 DEF RefuseTyped
    <2> DEFINE L == {c}
               a == Failed(r)
    <2>2. a \in VendorAnswer \cup {Failed(x) : x \in GateReasons}
      BY DEF GateReasons
    <2>3. L \in SUBSET Callers /\ \A d \in L : call[d].st \in GateStates /\ call[d].key = call[c].key
      BY <1>1 DEF GateStates
    <2>4. call' = [d \in Callers |-> IF d \in L THEN Hears(d, a) ELSE call[d]]
      BY <1>1, <2>1
    <2> HIDE DEF L, a
    <2> QED BY <1>1, <2>2, <2>3, <2>4, AnswerSeen
  <1>4. CASE VendorAnswers(c)
    BY <1>2, <1>4 DEF VendorAnswers
  <1>5. CASE Settle(c, Failed("RATE_BUDGET"))
    BY <1>2, <1>5 DEF GateReasons
  <1>6. CASE TakeToken(c)
    <2> DEFINE j == [call[c] EXCEPT !.st = "vendor"]
    <2>1. j.key = call[c].key /\ j.ours = call[c].ours /\ j.heard = call[c].heard
      BY <1>1 DEF CallRecords
    <2>2. call' = [call EXCEPT ![c] = j]
      BY <1>6 DEF TakeToken
    <2> HIDE DEF j
    <2> QED BY <1>1, <2>1, <2>2, MoveUnseen
  <1>7. CASE Sleep(c)
    <2> DEFINE j == [call[c] EXCEPT !.st = "sleeping", !.nap = WaitFor(call[c].prio)]
    <2>1. j.key = call[c].key /\ j.ours = call[c].ours /\ j.heard = call[c].heard
      BY <1>1 DEF CallRecords
    <2>2. call' = [call EXCEPT ![c] = j]
      BY <1>7 DEF Sleep
    <2> HIDE DEF j
    <2> QED BY <1>1, <2>1, <2>2, MoveUnseen
  <1> QED BY <1>3, <1>4, <1>5, <1>6, <1>7 DEF Lead, Wake, Acquire

\* A cancellation is not an answer: who hears it still waits, as the contract sees it.
LEMMA CancelUnseen ==
    ASSUME IInv, IInv', DInv, NEW c \in Callers, CancelCall(c)
    PROVE  UNCHANGED Fetch
  <1>1. Active(c) /\ DropCall(c) /\ UNCHANGED client /\ TypeOK
    BY DEF IInv, CancelCall
  <1>2. ASSUME NEW d \in Callers, client[d].st = "open"
        PROVE  /\ call'[d].key = call[d].key /\ call'[d].ours = call[d].ours
               /\ Visible(call'[d]) = Visible(call[d])
    <2>1. Coherent(call[d], client[d], wire[d]) /\ call[d] \in CallRecords
      BY <1>1, CallFields DEF DInv
    <2>2. CASE d = c
      <3>1. call'[d] = Dropped(d)
        <4>1. CASE Leading(c)
          <5>1. c \notin Followers(FlightKey(c))
            BY <4>1 DEF Followers, Leading
          <5> QED BY <1>1, <2>2, <4>1, <5>1 DEF DropCall
        <4>2. CASE ~Leading(c)
          BY <1>1, <2>2, <4>2 DEF DropCall, TypeOK
        <4> QED BY <4>1, <4>2
      <3> QED BY <1>1, <1>2, <2>2, <3>1, DroppedAgrees DEF Visible
    <2>3. CASE d # c /\ Leading(c) /\ d \in Followers(FlightKey(c))
      <3> DEFINE j == [call[d] EXCEPT !.st = "told", !.heard = Failed("CANCELLED")]
      <3>1. call'[d] = j /\ call[d].st \in GateStates
        BY <1>1, <1>2, <2>3 DEF DropCall, Followers, GateStates
      <3>2. j.key = call[d].key /\ j.ours = call[d].ours /\ j.heard = Failed("CANCELLED")
        BY <2>1 DEF CallRecords
      <3>3. call[d].heard = Nothing
        BY <1>2, <2>1, <3>1 DEF Coherent, AtCall
      <3>4. "CANCELLED" \notin GateReasons \cup {"served"}
        BY ReasonAssumption DEF GateReasons
      <3> HIDE DEF j
      <3>5. Visible(j) = Nothing /\ Visible(call[d]) = Nothing
        BY <3>2, <3>3, <3>4 DEF Visible, Failed
      <3> QED BY <3>1, <3>2, <3>5
    <2>4. CASE d # c /\ ~(Leading(c) /\ d \in Followers(FlightKey(c)))
      <3>1. call'[d] = call[d]
        BY <1>1, <2>4 DEF DropCall, TypeOK
      <3> QED BY <3>1
    <2> QED BY <2>2, <2>3, <2>4
  <1> QED BY <1>1, <1>2, Unseen

LEMMA RestartUnseen ==
    ASSUME IInv, IInv', DInv, IngestRestart
    PROVE  UNCHANGED Fetch
  <1> DEFINE lost == {c \in Callers : Active(c) /\ call[c].st \notin {"sent", "foreign"}}
  <1>1. call' = [c \in Callers |-> IF c \in lost THEN Dropped(c) ELSE call[c]] /\ UNCHANGED client
    BY DEF IngestRestart
  <1>2. ASSUME NEW d \in Callers, client[d].st = "open"
        PROVE  /\ call'[d].key = call[d].key /\ call'[d].ours = call[d].ours
               /\ Visible(call'[d]) = Visible(call[d])
    <2>1. CASE d \in lost
      <3>1. call'[d] = Dropped(d) /\ Active(d)
        BY <1>1, <2>1
      <3> QED BY <1>2, <3>1, DroppedAgrees DEF Visible
    <2>2. CASE d \notin lost
      BY <1>1, <2>2
    <2> QED BY <2>1, <2>2
  <1> QED BY <1>1, <1>2, Unseen

LEMMA TickUnseen ==
    ASSUME IInv, IInv', Tick
    PROVE  UNCHANGED Fetch
  <1>1. UNCHANGED client
    BY DEF Tick
  <1> QED BY <1>1, TickKeeps, Unseen DEF Visible

\* Every step is one of the contract's, or shows nothing.
LEMMA FetchStep ==
    ASSUME IInv, DInv, [Next]_vars
    PROVE  Contract!Next \/ UNCHANGED Fetch
  <1>1. IInv'
    BY NextInv, StutterInv
  <1>2. CASE UNCHANGED vars
    <2>1. call' = call /\ client' = client
      BY <1>2 DEF vars
    <2> QED BY <1>1, <2>1, Unseen
  <1>3. ASSUME NEW c \in Callers, Step(c)
        PROVE  Contract!Next \/ UNCHANGED Fetch
    <2>1. CASE Ask(c) \/ Forget(c)
      BY <2>1, AskSeen, ForgetSeen
    <2>2. CASE RefuseTyped(c) \/ Lead(c) \/ Wake(c) \/ VendorAnswers(c)
      BY <1>1, <2>2, GateSeen
    <2>3. CASE Receive(c) \/ StoreFails(c) \/ DeadlinePasses(c)
      BY <2>3, ReceiveSeen
    <2>4. CASE CancelCall(c)
      BY <1>1, <2>4, CancelUnseen
    <2>5. CASE \/ Attach(c) \/ Accept(c) \/ Refuse(c) \/ LeaderLeft(c) \/ SendPage(c) \/ SendDone(c)
               \/ ForeignSends(c) \/ PeerLost(c)
      BY <1>1, <2>5, StreamUnseen
    <2> QED BY <1>3, <2>1, <2>2, <2>3, <2>4, <2>5 DEF Step
  <1> QED BY <1>1, <1>2, <1>3, RestartUnseen, TickUnseen DEF Next

LEMMA FetchInit == Init => Contract!Init
  <1> SUFFICES ASSUME Init PROVE Contract!Init
    OBVIOUS
  <1>1. ASSUME NEW c \in Callers
        PROVE  Fetch[c] = Contract!Idle
    <2>1. client[c] = Quiet /\ Quiet.st = "idle" /\ Quiet.out = Nothing
      BY DEF Init, Quiet
    <2>2. View(call[c], client[c]) = Over("idle", Nothing)
      BY <2>1, ViewShut
    <2> QED BY <2>2, FetchNow, ContractRecords
  <1>2. Fetch = [c \in Callers |-> Contract!Idle]
    BY <1>1 DEF Fetch
  <1> QED BY <1>2 DEF Contract!Init, Fetch

\* The gate, the servicer's stream and the store's reader implement FetchContract: a fetch is answered
\* at most once, by an answer for its own request given while it waited, and it ends with all of that
\* answer stored or with none of it, for the reason ingest gave or one of the hop's own.
THEOREM GateImplementsFetch == Spec => ImplementsFetch
  <1>1. IInv /\ DInv /\ [Next]_vars => DInv'
    BY AgreesStep
  <1>2. IInv /\ DInv /\ [Next]_vars => [Contract!Next]_([c \in Callers |-> FetchState(c)])
    BY FetchStep DEF Fetch
  <1> QED BY <1>1, <1>2, AgreesInit, Invariant, FetchInit, PTL DEF Spec, ImplementsFetch, Contract!Spec
=============================================================================
