--------------------------- MODULE IngestGateProofs ---------------------------
(***************************************************************************)
(* The gate for every set of callers and requests and every bucket: nobody *)
(* waits on a flight no task will end, backfill never makes an interactive *)
(* call wait, and no call that waited starts past its deadline.            *)
(***************************************************************************)
EXTENDS IngestGate, TLAPS

\* A call in the gate has a key, and a caller that is idle has no call.
Keyed ==
    \A c \in Callers : /\ InGate(c) => call[c].key \in Keys
                       /\ client[c].st = "idle" => call[c].st = "none"

\* A sleep ends by the deadline, and an interactive one lasts a tick of an empty bucket.
SleepersDue ==
    \A c \in Callers :
        call[c].st = "sleeping" =>
            /\ call[c].nap <= call[c].left
            /\ call[c].prio # "BACKFILL" /\ call[c].nap > 0 => call[c].nap = Token - tokens

\* Where the reserve is a token or more, the bucket's last token is never backfill's.
LastToken == tokens < Token /\ Reserve >= Token => spent

IInv == TypeOK /\ Keyed /\ NobodyStranded /\ SleepersDue /\ LastToken

-----------------------------------------------------------------------------
(* The values the actions build are of their types. *)

LEMMA NoCallType == NoCall \in CallRecords
  BY DeadlineAssumption, BucketAssumption DEF NoCall, CallRecords, Nothing, Failed, Priorities

LEMMA QuietType == Quiet \in ClientRecords
  BY DEF Quiet, ClientRecords, Nothing, Failed

LEMMA HearsType ==
    ASSUME TypeOK, NEW d \in Callers,
           NEW a \in VendorAnswer \cup {Failed(r) : r \in GateReasons \cup {"CANCELLED", "nothing"}}
    PROVE  Hears(d, a) \in CallRecords /\ Hears(d, a).st \in {"told", "none"}
  BY NoCallType, BucketAssumption DEF TypeOK, Hears, CallRecords, NoCall, Priorities

LEMMA DroppedType ==
    ASSUME TypeOK, NEW d \in Callers
    PROVE  Dropped(d) \in CallRecords /\ Dropped(d).st \in {"over", "none"}
  BY NoCallType, BucketAssumption DEF TypeOK, Dropped, CallRecords, NoCall, Priorities

THEOREM InitInv == Init => IInv
  <1> SUFFICES ASSUME Init PROVE IInv
    OBVIOUS
  <1>1. TypeOK
    <2>1. wire \in [Callers -> Seq(Message)]
      BY DEF Init
    <2>2. tokens \in 0 .. Burst
      BY BucketAssumption DEF Init
    <2> QED BY <2>1, <2>2, NoCallType, QuietType DEF Init, TypeOK
  <1>2. Keyed /\ NobodyStranded /\ SleepersDue /\ LastToken
    BY BucketAssumption, NoneAssumption
    DEF Init, Keyed, NobodyStranded, SleepersDue, LastToken, NoCall, InGate, Leading
  <1> QED BY <1>1, <1>2 DEF IInv

-----------------------------------------------------------------------------
(* The stream and the store. *)

\* A step that moves one call, which leads neither before nor after.
LEMMA OutsideStep ==
    ASSUME IInv, NEW c \in Callers, NEW r \in CallRecords,
           call' = [call EXCEPT ![c] = r],
           ~Leading(c), r.st \notin {"sleeping", "vendor"},
           r.st \in {"sent", "attached"} => r.key \in Keys,
           r.st = "attached" => flights[r.key] # None,
           UNCHANGED <<flights, tokens, spent>>,
           client'[c].st = "idle" => r.st = "none",
           \A d \in Callers \ {c} : client'[d] = client[d]
    PROVE  Keyed' /\ NobodyStranded' /\ SleepersDue' /\ LastToken'
  <1>1. call'[c] = r /\ \A d \in Callers \ {c} : call'[d] = call[d]
    BY DEF IInv, TypeOK
  <1>2. Keyed'
    BY <1>1 DEF IInv, Keyed, InGate
  <1>3. NobodyStranded'
    BY <1>1, NoneAssumption DEF IInv, TypeOK, NobodyStranded, Leading
  <1>4. SleepersDue' /\ LastToken'
    BY <1>1 DEF IInv, SleepersDue, LastToken
  <1> QED BY <1>2, <1>3, <1>4

\* A step that leaves the gate alone.
LEMMA IdleStep ==
    ASSUME IInv, UNCHANGED <<call, flights, tokens, spent>>,
           \A c \in Callers : client'[c].st = "idle" => client[c].st = "idle"
    PROVE  Keyed' /\ NobodyStranded' /\ SleepersDue' /\ LastToken'
  BY DEF IInv, Keyed, InGate, NobodyStranded, Leading, SleepersDue, LastToken

\* Messages the two ends put on the wire.
LEMMA SayType ==
    ASSUME TypeOK, NEW c \in Callers, NEW msgs \in Seq(Message), Say(c, msgs)
    PROVE  wire' \in [Callers -> Seq(Message)]
  BY DEF TypeOK, Say

LEMMA PageType ==
    ASSUME TypeOK, NEW c \in Callers, NextPage(c) > 0
    PROVE  NextPage(c) \in Nat
  <1>1. call[c].heard.bars \in Nat /\ call[c].sent \in Nat
    <2>1. call[c].heard \in VendorAnswer \cup {Failed(r) : r \in GateReasons \cup {"CANCELLED", "nothing"}}
      BY DEF TypeOK, CallRecords
    <2>2. call[c].sent \in Nat
      BY DEF TypeOK, CallRecords
    <2> QED BY <2>1, <2>2, PageAssumption DEF VendorAnswer, Served, Failed
  <1> QED BY <1>1, PageAssumption DEF NextPage

LEMMA SendSteps ==
    ASSUME IInv, NEW c \in Callers,
           Accept(c) \/ Refuse(c) \/ LeaderLeft(c) \/ SendPage(c) \/ SendDone(c)
    PROVE  IInv'
  <1> USE DEF IInv
  <1>1. UNCHANGED <<flights, tokens, spent, client>>
    BY DEF Accept, Refuse, LeaderLeft, SendPage, SendDone
  <1>2. ~Leading(c) /\ client[c].st # "idle"
    BY DEF Accept, Refuse, LeaderLeft, SendPage, SendDone, Leading, Keyed
  <1>3. call[c] \in CallRecords
    BY DEF TypeOK
  <1>4. wire' \in [Callers -> Seq(Message)]
    <2>1. CASE Accept(c)
      <3>1. <<Ack("entitled")>> \in Seq(Message)
        BY DEF Ack, Message, Feeds
      <3> QED BY <2>1, <3>1, SayType DEF Accept
    <2>2. CASE Refuse(c)
      <3>1. <<Refused("FEED_NOT_AVAILABLE"), Status("OK")>> \in Seq(Message)
        BY DEF Refused, Status, Message, Codes
      <3>2. <<Status(call[c].heard.why)>> \in Seq(Message)
        BY <2>2 DEF Refuse, Status, Message, Codes
      <3>3. CASE Say(c, <<Refused("FEED_NOT_AVAILABLE"), Status("OK")>>)
        BY <3>1, <3>3, SayType
      <3>4. CASE Say(c, <<Status(call[c].heard.why)>>)
        BY <3>2, <3>4, SayType
      <3> QED BY <2>2, <3>3, <3>4 DEF Refuse
    <2>3. CASE LeaderLeft(c)
      <3>1. <<Status("CANCELLED")>> \in Seq(Message)
        BY DEF Status, Message, Codes
      <3>2. CASE Say(c, <<Status("CANCELLED")>>)
        BY <3>1, <3>2, SayType
      <3>3. CASE UNCHANGED wire
        BY <3>3 DEF TypeOK
      <3> QED BY <2>3, <3>2, <3>3 DEF LeaderLeft
    <2>4. CASE SendPage(c)
      <3>1. NextPage(c) \in Nat
        BY <2>4, PageType DEF SendPage
      <3>2. <<Page("entitled", NextPage(c))>> \in Seq(Message)
        BY <3>1 DEF Page, Message, Feeds
      <3> QED BY <2>4, <3>2, SayType DEF SendPage
    <2>5. CASE SendDone(c)
      <3>1. <<Done, Status("OK")>> \in Seq(Message)
        BY DEF Done, Status, Message, Codes
      <3> QED BY <2>5, <3>1, SayType DEF SendDone
    <2> QED BY <2>1, <2>2, <2>3, <2>4, <2>5
  <1>5. PICK r \in CallRecords : /\ call' = [call EXCEPT ![c] = r]
                                 /\ r.st \in {"streaming", "over"}
    <2> DEFINE on == [call[c] EXCEPT !.st = "streaming"]
               off == [call[c] EXCEPT !.st = "over"]
               sending == [call[c] EXCEPT !.sent = @ + NextPage(c)]
    <2>1. CASE Accept(c)
      <3>1. on \in CallRecords /\ on.st = "streaming"
        BY <1>3 DEF CallRecords
      <3>2. call' = [call EXCEPT ![c] = on]
        BY <2>1 DEF Accept
      <3> QED BY <3>1, <3>2
    <2>2. CASE Refuse(c) \/ LeaderLeft(c) \/ SendDone(c)
      <3>1. off \in CallRecords /\ off.st = "over"
        BY <1>3 DEF CallRecords
      <3>2. call' = [call EXCEPT ![c] = off]
        BY <2>2 DEF Refuse, LeaderLeft, SendDone
      <3> QED BY <3>1, <3>2
    <2>3. CASE SendPage(c)
      <3>1. NextPage(c) \in Nat
        BY <2>3, PageType DEF SendPage
      <3>2. sending \in CallRecords /\ sending.st = "streaming"
        BY <3>1, <2>3, <1>3 DEF CallRecords, SendPage
      <3>3. call' = [call EXCEPT ![c] = sending]
        BY <2>3 DEF SendPage
      <3> QED BY <3>2, <3>3
    <2> QED BY <2>1, <2>2, <2>3
  <1>6. TypeOK'
    BY <1>1, <1>4, <1>5 DEF TypeOK
  <1>7. Keyed' /\ NobodyStranded' /\ SleepersDue' /\ LastToken'
    BY <1>1, <1>2, <1>5, OutsideStep
  <1> QED BY <1>6, <1>7

LEMMA ForeignStep ==
    ASSUME IInv, NEW c \in Callers, ForeignSends(c)
    PROVE  IInv'
  <1> USE DEF IInv
  <1> DEFINE Sent == {Ack("entitled")} \cup {Page(f, 1) : f \in Feeds}
                     \cup {Done, Unreadable, Refused("FEED_NOT_AVAILABLE"), Refused("unknown")}
                     \cup {Status(s) : s \in {"OK", "RATE_BUDGET"}}
  <1>1. UNCHANGED <<flights, tokens, spent, client>> /\ call[c].st = "foreign"
    BY DEF ForeignSends
  <1>2. PICK m \in Sent :
           /\ Say(c, <<m>>)
           /\ call' = [call EXCEPT ![c].st = IF m.t = "status" THEN "over" ELSE @, ![c].sent = @ + m.n]
    BY DEF ForeignSends
  <1>3. m \in Message
    <2>1. /\ Ack("entitled") \in Message
          /\ \A f \in Feeds : Page(f, 1) \in Message
      BY DEF Ack, Page, Message, Feeds
    <2>2. {Done, Unreadable} \subseteq Message
      BY DEF Done, Unreadable, Message
    <2>3. {Refused("FEED_NOT_AVAILABLE"), Refused("unknown")} \subseteq Message
      BY DEF Refused, Message
    <2>4. \A x \in {"OK", "RATE_BUDGET"} : Status(x) \in Message
      BY DEF Status, Message, Codes, GateReasons
    <2> QED BY <1>2, <2>1, <2>2, <2>3, <2>4
  <1>4. wire' \in [Callers -> Seq(Message)]
    <2>1. <<m>> \in Seq(Message)
      BY <1>3
    <2> HIDE DEF Sent, IInv
    <2> QED BY <1>2, <2>1, SayType DEF IInv
  <1> DEFINE r == [call[c] EXCEPT !.st = IF m.t = "status" THEN "over" ELSE @, !.sent = @ + m.n]
  <1>5. r \in CallRecords /\ r.st \in {"over", "foreign"}
    <2>1. call[c] \in CallRecords /\ call[c].sent \in Nat
      BY DEF TypeOK, CallRecords
    <2>2. m.n \in Nat
      <3> HIDE DEF Sent, IInv
      <3> QED BY <1>3 DEF Message
    <2>3. call[c].sent + m.n \in Nat
      BY <2>1, <2>2
    <2> HIDE DEF IInv, Sent
    <2> QED BY <1>1, <2>1, <2>3 DEF CallRecords
  <1>6. call' = [call EXCEPT ![c] = r]
    <2> HIDE DEF IInv, Sent
    <2> QED BY <1>2
  <1> HIDE DEF r, Sent
  <1>7. TypeOK'
    BY <1>1, <1>4, <1>5, <1>6 DEF TypeOK
  <1>8. client[c].st # "idle" /\ ~Leading(c)
    BY <1>1 DEF Keyed, Leading
  <1>9. Keyed' /\ NobodyStranded' /\ SleepersDue' /\ LastToken'
    BY <1>1, <1>5, <1>6, <1>8, OutsideStep
  <1> QED BY <1>7, <1>9

LEMMA CutStep ==
    ASSUME IInv, NEW c \in Callers, PeerLost(c)
    PROVE  IInv'
  <1> USE DEF IInv
  <1>1. UNCHANGED <<call, flights, tokens, spent, client>> /\ Say(c, <<Status("UNAVAILABLE")>>)
    BY DEF PeerLost
  <1>2. <<Status("UNAVAILABLE")>> \in Seq(Message)
    BY DEF Status, Message, Codes
  <1>3. TypeOK'
    BY <1>1, <1>2, SayType DEF TypeOK
  <1> QED BY <1>1, <1>3, IdleStep

LEMMA FailType ==
    ASSUME TypeOK, NEW c \in Callers, NEW why \in GateReasons \cup OtherReasons, Fail(c, why)
    PROVE  /\ client' \in [Callers -> ClientRecords]
           /\ wire' \in [Callers -> Seq(Message)]
           /\ client'[c].st = "failed"
           /\ \A d \in Callers \ {c} : client'[d] = client[d]
  <1> DEFINE failed == [Quiet EXCEPT !.st = "failed", !.out = Failed(why)]
  <1>1. failed \in ClientRecords /\ failed.st = "failed"
    BY QuietType DEF Quiet, ClientRecords, Failed
  <1>2. client' = [client EXCEPT ![c] = failed] /\ wire' = [wire EXCEPT ![c] = <<>>]
    BY DEF Fail
  <1>3. <<>> \in Seq(Message)
    OBVIOUS
  <1> QED BY <1>1, <1>2, <1>3 DEF TypeOK

LEMMA FailStep ==
    ASSUME IInv, NEW c \in Callers, NEW why \in GateReasons \cup OtherReasons, Fail(c, why),
           client[c].st = "open", UNCHANGED <<flights, tokens, spent>>
    PROVE  IInv'
  <1> USE DEF IInv
  <1>1. /\ client' \in [Callers -> ClientRecords]
        /\ wire' \in [Callers -> Seq(Message)]
        /\ client'[c].st = "failed"
        /\ \A d \in Callers \ {c} : client'[d] = client[d]
    BY FailType
  <1>2. CASE InGate(c)
    <2>1. call' = call
      BY <1>2 DEF Fail, TypeOK
    <2>2. TypeOK'
      BY <1>1, <2>1 DEF TypeOK
    <2> QED BY <1>1, <2>1, <2>2, IdleStep
  <1>3. CASE ~InGate(c)
    <2>1. call' = [call EXCEPT ![c] = NoCall]
      BY <1>3 DEF Fail
    <2>2. TypeOK'
      BY <1>1, <2>1, NoCallType DEF TypeOK
    <2>3. Keyed' /\ NobodyStranded' /\ SleepersDue' /\ LastToken'
      BY <1>1, <1>3, <2>1, NoCallType, OutsideStep DEF NoCall, InGate, Leading
    <2> QED BY <2>2, <2>3
  <1> QED BY <1>2, <1>3

LEMMA StoreSteps ==
    ASSUME IInv, NEW c \in Callers, Receive(c) \/ StoreFails(c) \/ DeadlinePasses(c)
    PROVE  IInv'
  <1> USE DEF IInv
  <1>1. client[c].st = "open" /\ UNCHANGED <<flights, tokens, spent>>
    BY DEF Receive, StoreFails, DeadlinePasses
  <1>2. CASE StoreFails(c) \/ DeadlinePasses(c)
    BY <1>1, <1>2, FailStep DEF StoreFails, DeadlinePasses, OtherReasons
  <1>3. CASE Receive(c)
    <2> DEFINE m == Head(wire[c])
    <2>1. m \in Message /\ Tail(wire[c]) \in Seq(Message)
      BY <1>3 DEF Receive, TypeOK
    <2>2. CASE Commit(c)
      <3> DEFINE stored == [client[c] EXCEPT !.st = "stored"]
      <3>1. stored \in ClientRecords /\ stored.st = "stored"
        BY DEF TypeOK, ClientRecords
      <3>2. client' = [client EXCEPT ![c] = stored] /\ wire' = [wire EXCEPT ![c] = <<>>]
        BY <2>2 DEF Commit
      <3>3. <<>> \in Seq(Message)
        OBVIOUS
      <3>4. TypeOK'
        BY <1>1, <2>2, <3>1, <3>2, <3>3 DEF TypeOK, Commit
      <3>5. \A d \in Callers : client'[d].st = "idle" => client[d].st = "idle"
        BY <3>1, <3>2 DEF TypeOK
      <3> QED BY <1>1, <2>2, <3>4, <3>5, IdleStep DEF Commit
    <2>3. CASE m.t \in {"ack", "page", "done"} /\ Take(c, m)
      <3> DEFINE taken == [client[c] EXCEPT !.acc = IF m.t = "ack" THEN m.feed ELSE @,
                                            !.done = (m.t = "done"), !.rows = @ + m.n,
                                            !.feeds = IF m.t = "page" THEN @ \cup {m.feed} ELSE @]
      <3>1. m.n \in Nat /\ (m.t \in {"ack", "page"} => m.feed \in Feeds)
        BY <2>1, <2>3 DEF Message
      <3>2. taken \in ClientRecords /\ taken.st = client[c].st
        <4>1. client[c] \in ClientRecords
          BY DEF TypeOK
        <4>2. (IF m.t = "ack" THEN m.feed ELSE client[c].acc) \in Feeds \cup {None}
          BY <3>1, <4>1 DEF ClientRecords
        <4>3. client[c].rows + m.n \in Nat
          BY <3>1, <4>1 DEF ClientRecords
        <4>4. (IF m.t = "page" THEN client[c].feeds \cup {m.feed} ELSE client[c].feeds) \in SUBSET Feeds
          BY <3>1, <4>1 DEF ClientRecords
        <4>5. (m.t = "done") \in BOOLEAN
          OBVIOUS
        <4> HIDE DEF m
        <4> QED BY <4>1, <4>2, <4>3, <4>4, <4>5 DEF ClientRecords
      <3>3. client' = [client EXCEPT ![c] = taken] /\ wire' = [wire EXCEPT ![c] = Tail(@)]
        BY <2>3 DEF Take
      <3>4. TypeOK'
        BY <1>1, <2>1, <2>3, <3>2, <3>3 DEF TypeOK, Take
      <3>5. \A d \in Callers : client'[d].st = "idle" => client[d].st = "idle"
        BY <3>2, <3>3 DEF TypeOK
      <3> QED BY <1>1, <2>3, <3>4, <3>5, IdleStep DEF Take
    <2>4. CASE Fail(c, "PEER_PROTOCOL_ERROR")
      BY <1>1, <2>4, FailStep DEF OtherReasons
    <2>5. CASE m.t = "status" /\ m.feed # "OK" /\ Fail(c, StatusReason(m.feed))
      <3>1. m.feed \in Codes
        BY <2>1, <2>5 DEF Message
      <3>2. StatusReason(m.feed) \in GateReasons \cup OtherReasons
        <4>1. CASE m.feed = "INTERNAL"
          BY <4>1 DEF StatusReason, OtherReasons
        <4>2. CASE m.feed = "UNAVAILABLE"
          BY <4>2 DEF StatusReason, OtherReasons
        <4>3. CASE m.feed = "CANCELLED"
          BY <4>3 DEF StatusReason, OtherReasons
        <4>4. CASE m.feed \notin {"INTERNAL", "UNAVAILABLE", "CANCELLED"}
          <5>1. StatusReason(m.feed) = m.feed
            BY <4>4 DEF StatusReason
          <5>2. m.feed \in GateReasons
            BY <2>5, <3>1, <4>4 DEF Codes
          <5> QED BY <5>1, <5>2
        <4> QED BY <4>1, <4>2, <4>3, <4>4
      <3> QED BY <1>1, <2>5, <3>2, FailStep
    <2>6. CASE m.t = "refused" /\ Fail(c, IF m.feed = "unknown" THEN "PEER_PROTOCOL_ERROR" ELSE m.feed)
      <3>1. m.feed \in {"FEED_NOT_AVAILABLE", "unknown"}
        BY <2>1, <2>6 DEF Message
      <3>2. (IF m.feed = "unknown" THEN "PEER_PROTOCOL_ERROR" ELSE m.feed) \in GateReasons \cup OtherReasons
        BY <3>1 DEF GateReasons, OtherReasons
      <3> QED BY <1>1, <2>6, <3>2, FailStep
    <2> QED BY <1>3, <2>2, <2>3, <2>4, <2>5, <2>6 DEF Receive
  <1> QED BY <1>2, <1>3

LEMMA ForgetStep ==
    ASSUME IInv, NEW c \in Callers, Forget(c)
    PROVE  IInv'
  <1> USE DEF IInv
  <1>1. /\ call' = [call EXCEPT ![c] = NoCall] /\ client' = [client EXCEPT ![c] = Quiet]
        /\ ~Active(c) /\ UNCHANGED <<flights, tokens, spent, wire>>
    BY DEF Forget
  <1>2. TypeOK'
    BY <1>1, NoCallType, QuietType DEF TypeOK
  <1>3. /\ NoCall.st = "none" /\ ~Leading(c)
        /\ \A d \in Callers \ {c} : client'[d] = client[d]
    BY <1>1 DEF TypeOK, NoCall, Active, Leading
  <1> QED BY <1>1, <1>2, <1>3, NoCallType, OutsideStep

-----------------------------------------------------------------------------
(* The gate. *)

LEMMA AskStep ==
    ASSUME IInv, NEW c \in Callers, Ask(c)
    PROVE  IInv'
  <1> USE DEF IInv
  <1>1. client[c].st = "idle" /\ UNCHANGED <<flights, tokens, spent, wire>>
    BY DEF Ask
  <1>2. PICK k \in Keys, p \in Priorities, ours \in BOOLEAN :
           call' = [call EXCEPT ![c] = [NoCall EXCEPT
                      !.st = IF ours THEN "sent" ELSE "foreign", !.key = k, !.prio = p, !.ours = ours,
                      !.left = Deadline]]
    BY DEF Ask
  <1> DEFINE r == [NoCall EXCEPT
                      !.st = IF ours THEN "sent" ELSE "foreign", !.key = k, !.prio = p, !.ours = ours,
                      !.left = Deadline]
             opened == [client[c] EXCEPT !.st = "open"]
  <1>3. r \in CallRecords /\ r.key = k /\ r.st \in {"sent", "foreign"}
    <2>1. (IF ours THEN "sent" ELSE "foreign") \in {"sent", "foreign"}
      OBVIOUS
    <2>2. Deadline \in -1 .. Deadline /\ 0 \in 0 .. Burst
      BY DeadlineAssumption, BucketAssumption
    <2> QED BY <2>1, <2>2, NoCallType DEF CallRecords, NoCall
  <1>4. opened \in ClientRecords /\ opened.st = "open"
    BY DEF TypeOK, ClientRecords
  <1>5. client' = [client EXCEPT ![c] = opened]
    BY DEF Ask
  <1>6. call' = [call EXCEPT ![c] = r]
    BY <1>2
  <1> HIDE DEF r, opened
  <1>7. TypeOK'
    BY <1>1, <1>3, <1>4, <1>5, <1>6 DEF TypeOK
  <1>8. ~Leading(c) /\ client'[c].st = "open" /\ \A d \in Callers \ {c} : client'[d] = client[d]
    BY <1>1, <1>4, <1>5 DEF TypeOK, Keyed, Leading
  <1> QED BY <1>1, <1>3, <1>6, <1>7, <1>8, OutsideStep

LEMMA EntrySteps ==
    ASSUME IInv, NEW c \in Callers, RefuseTyped(c) \/ Attach(c)
    PROVE  IInv'
  <1> USE DEF IInv
  <1>1. call[c].st = "sent" /\ UNCHANGED <<flights, tokens, spent, wire, client>>
    BY DEF RefuseTyped, Attach
  <1>2. ~Leading(c) /\ call[c] \in CallRecords /\ call[c].key \in Keys /\ client[c].st # "idle"
    BY <1>1 DEF TypeOK, Keyed, Leading, InGate
  <1>3. CASE RefuseTyped(c)
    <2>1. PICK f \in {"REFUSED", "FEED_NOT_AVAILABLE"} :
             call' = [call EXCEPT ![c] = Hears(c, Failed(f))]
      BY <1>3 DEF RefuseTyped
    <2>2. Hears(c, Failed(f)) \in CallRecords /\ Hears(c, Failed(f)).st \in {"told", "none"}
      BY HearsType DEF GateReasons
    <2>3. TypeOK'
      BY <1>1, <2>1, <2>2 DEF TypeOK
    <2> QED BY <1>1, <1>2, <2>1, <2>2, <2>3, OutsideStep
  <1>4. CASE Attach(c)
    <2> DEFINE r == [call[c] EXCEPT !.st = "attached"]
    <2>1. r \in CallRecords /\ r.st = "attached" /\ r.key = call[c].key
      BY <1>2 DEF CallRecords
    <2>2. call' = [call EXCEPT ![c] = r] /\ flights[call[c].key] # None
      BY <1>4 DEF Attach, FlightKey
    <2> HIDE DEF r
    <2>3. TypeOK'
      BY <1>1, <2>1, <2>2 DEF TypeOK
    <2> QED BY <1>1, <1>2, <2>1, <2>2, <2>3, OutsideStep
  <1> QED BY <1>3, <1>4

\* A flight ends, or a new one ends before it starts: the leader and those attached leave the gate,
\* and nobody else waits on its key.
LEMMA FlightEnds ==
    ASSUME IInv, NEW c \in Callers, call[c].key \in Keys,
           Leading(c) \/ (call[c].st = "sent" /\ flights[call[c].key] = None),
           call' \in [Callers -> CallRecords],
           \A d \in {c} \cup Followers(call[c].key) : call'[d].st \in {"told", "over", "none"},
           \A d \in Callers \ ({c} \cup Followers(call[c].key)) : call'[d] = call[d],
           flights' = [flights EXCEPT ![call[c].key] = None],
           UNCHANGED <<tokens, spent, wire, client>>
    PROVE  IInv'
  <1> USE DEF IInv
  <1> DEFINE k0 == call[c].key
             leaves == {c} \cup Followers(k0)
  <1>1. \A d \in leaves : d \in Callers /\ InGate(d)
    BY DEF Followers, InGate, Leading
  <1>2. TypeOK'
    BY DEF TypeOK
  <1>3. Keyed'
    BY <1>1 DEF Keyed, InGate
  <1>4. \A d \in Callers : call'[d].st \in {"sleeping", "vendor", "attached"}
                            => d \notin leaves /\ call'[d] = call[d]
    OBVIOUS
  <1>5. NobodyStranded'
    <2>1. \A d \in Callers : call'[d].st = "attached" => flights'[call'[d].key] # None
      <3> SUFFICES ASSUME NEW d \in Callers, call'[d].st = "attached"
                   PROVE  flights'[call'[d].key] # None
        OBVIOUS
      <3>1. call'[d] = call[d] /\ call[d].st = "attached" /\ call[d].key # k0
        BY <1>4 DEF Followers, FlightKey
      <3>2. call[d].key \in Keys /\ flights[call[d].key] # None
        BY <3>1 DEF Keyed, InGate, NobodyStranded
      <3> QED BY <3>1, <3>2 DEF TypeOK
    <2>2. \A k \in Keys : flights'[k] # None => Leading(flights[k])' /\ call'[flights'[k]].key = k
      <3> SUFFICES ASSUME NEW k \in Keys, flights'[k] # None
                   PROVE  Leading(flights[k])' /\ call'[flights'[k]].key = k
        OBVIOUS
      <3>1. k # k0 /\ flights'[k] = flights[k] /\ flights[k] \in Callers
        BY DEF TypeOK
      <3>2. Leading(flights[k]) /\ call[flights[k]].key = k
        BY <3>1 DEF NobodyStranded
      <3>3. flights[k] \notin leaves
        BY <3>1, <3>2 DEF Followers, Leading
      <3>4. call'[flights[k]] = call[flights[k]]
        BY <3>1, <3>3
      <3> QED BY <3>1, <3>2, <3>4 DEF Leading
    <2>3. \A d \in Callers : Leading(d)' => flights'[call'[d].key] = d
      <3> SUFFICES ASSUME NEW d \in Callers, Leading(d)'
                   PROVE  flights'[call'[d].key] = d
        OBVIOUS
      <3>1. call'[d] = call[d] /\ d # c /\ Leading(d)
        BY <1>4 DEF Leading
      <3>2. call[d].key \in Keys /\ flights[call[d].key] = d
        BY <3>1 DEF Keyed, InGate, Leading, NobodyStranded
      <3>3. call[d].key # k0
        BY <3>1, <3>2, NoneAssumption DEF NobodyStranded
      <3> QED BY <3>1, <3>2, <3>3 DEF TypeOK
    <2> QED BY <2>1, <2>2, <2>3 DEF NobodyStranded, Leading
  <1>6. SleepersDue' /\ LastToken'
    BY <1>4 DEF SleepersDue, LastToken
  <1> QED BY <1>2, <1>3, <1>5, <1>6

\* The vendor's answer or the gate's refusal settles the flight.
LEMMA SettleStep ==
    ASSUME IInv, NEW c \in Callers, call[c].key \in Keys,
           NEW a \in VendorAnswer \cup {Failed(r) : r \in GateReasons \cup {"CANCELLED", "nothing"}},
           Leading(c) \/ (call[c].st = "sent" /\ flights[call[c].key] = None),
           Settle(c, a), UNCHANGED <<tokens, spent, wire, client>>
    PROVE  IInv' /\ call'[c].st # "vendor" /\ \A d \in Callers \ {c} : call'[d].st = "vendor" => call'[d] = call[d]
  <1> USE DEF IInv
  <1> DEFINE leaves == {c} \cup Followers(call[c].key)
  <1>1. call' = [d \in Callers |-> IF d \in leaves THEN Hears(d, a) ELSE call[d]]
    BY DEF Settle, FlightKey
  <1>2. flights' = [flights EXCEPT ![call[c].key] = None]
    BY DEF Settle, FlightKey
  <1>3. \A d \in Callers : Hears(d, a) \in CallRecords /\ Hears(d, a).st \in {"told", "none"}
    BY HearsType
  <1>4. call' \in [Callers -> CallRecords]
    BY <1>1, <1>3 DEF TypeOK
  <1>5. \A d \in leaves : call'[d].st \in {"told", "over", "none"}
    BY <1>1, <1>3 DEF Followers
  <1>6. \A d \in Callers \ leaves : call'[d] = call[d]
    BY <1>1
  <1>7. IInv'
    BY <1>2, <1>4, <1>5, <1>6, FlightEnds
  <1> QED BY <1>5, <1>6, <1>7

\* A caller that leads, or that finds its key free, takes or keeps the flight.
LEMMA LeadStep ==
    ASSUME IInv, NEW c \in Callers, call[c].key \in Keys, NEW r \in CallRecords,
           Leading(c) \/ (call[c].st = "sent" /\ flights[call[c].key] = None),
           r.st \in {"sleeping", "vendor"}, r.key = call[c].key,
           call' = [call EXCEPT ![c] = r], flights' = [flights EXCEPT ![call[c].key] = c],
           UNCHANGED client
    PROVE  Keyed' /\ NobodyStranded'
  <1> USE DEF IInv
  <1>1. call'[c] = r /\ \A d \in Callers \ {c} : call'[d] = call[d]
    BY DEF TypeOK
  <1>2. Keyed'
    BY <1>1 DEF Keyed, InGate, Leading
  <1>3. \A d \in Callers : call'[d].st = "attached" => flights'[call'[d].key] # None
    BY <1>1, NoneAssumption DEF TypeOK, NobodyStranded, Keyed, InGate
  <1>4. \A k \in Keys : flights'[k] # None => \/ Leading(flights[k])' /\ flights'[k] \in Callers
                                              \/ flights'[k] = c
    <2> SUFFICES ASSUME NEW k \in Keys, flights'[k] # None, flights'[k] # c
                 PROVE  Leading(flights[k])' /\ flights'[k] \in Callers
      OBVIOUS
    <2>1. flights'[k] = flights[k] /\ flights[k] \in Callers /\ flights[k] # c
      BY DEF TypeOK
    <2> QED BY <1>1, <2>1 DEF NobodyStranded, Leading
  <1>5. \A k \in Keys : flights'[k] # None
            => call'[flights'[k]].st \in {"sleeping", "vendor"} /\ call'[flights'[k]].key = k
    <2> SUFFICES ASSUME NEW k \in Keys, flights'[k] # None
                 PROVE  call'[flights'[k]].st \in {"sleeping", "vendor"} /\ call'[flights'[k]].key = k
      OBVIOUS
    <2>1. CASE k = call[c].key
      BY <1>1, <2>1 DEF TypeOK
    <2>2. CASE k # call[c].key
      <3>1. flights'[k] = flights[k] /\ flights[k] \in Callers
        BY <2>2 DEF TypeOK
      <3>2. Leading(flights[k]) /\ call[flights[k]].key = k
        BY <3>1 DEF NobodyStranded
      <3> QED BY <1>1, <2>2, <3>1, <3>2 DEF Leading
    <2> QED BY <2>1, <2>2
  <1>6. \A d \in Callers : Leading(d)' => flights'[call'[d].key] = d
    <2> SUFFICES ASSUME NEW d \in Callers, Leading(d)'
                 PROVE  flights'[call'[d].key] = d
      OBVIOUS
    <2>1. CASE d = c
      BY <1>1, <2>1 DEF TypeOK
    <2>2. CASE d # c
      <3>1. Leading(d) /\ call'[d] = call[d]
        BY <1>1, <2>2 DEF Leading
      <3>2. call[d].key \in Keys /\ flights[call[d].key] = d
        BY <3>1 DEF Keyed, InGate, Leading, NobodyStranded
      <3>3. call[d].key # call[c].key
        BY <2>2, <3>2, NoneAssumption DEF NobodyStranded
      <3> QED BY <3>1, <3>2, <3>3 DEF TypeOK
    <2> QED BY <2>1, <2>2
  <1> QED BY <1>2, <1>3, <1>5, <1>6 DEF NobodyStranded, Leading

LEMMA AcquireStep ==
    ASSUME IInv, NEW c \in Callers, call[c].key \in Keys,
           Leading(c) \/ (call[c].st = "sent" /\ flights[call[c].key] = None),
           Acquire(c), UNCHANGED <<wire, client>>
    PROVE  IInv' /\ \A d \in Callers \ {c} : call'[d].st = "vendor" => call'[d] = call[d]
  <1> USE DEF IInv
  <1>1. call[c] \in CallRecords /\ tokens \in 0 .. Burst
    BY DEF TypeOK
  <1>2. /\ Floor(call[c].prio) \in 0 .. Reserve
        /\ call[c].prio = "BACKFILL" => Floor(call[c].prio) = Reserve
        /\ call[c].prio # "BACKFILL" => Floor(call[c].prio) = 0
    BY BucketAssumption DEF Floor
  <1>3. CASE TakeToken(c)
    <2> DEFINE r == [call[c] EXCEPT !.st = "vendor"]
    <2>1. r \in CallRecords /\ r.st = "vendor" /\ r.key = call[c].key
      BY <1>1 DEF CallRecords
    <2>2. call' = [call EXCEPT ![c] = r] /\ flights' = [flights EXCEPT ![call[c].key] = c]
      BY <1>3 DEF TakeToken, FlightKey
    <2>3. tokens' = tokens - Token /\ tokens >= Token + Floor(call[c].prio)
      BY <1>1, <1>2, <1>3, BucketAssumption DEF TakeToken, WaitFor
    <2>4. spent' = (tokens' < Token /\ call[c].prio # "BACKFILL")
      BY <1>3 DEF TakeToken
    <2> HIDE DEF r
    <2>5. tokens' \in 0 .. Burst /\ spent' \in BOOLEAN /\ LastToken'
      <3>1. tokens' \in 0 .. Burst /\ (call[c].prio = "BACKFILL" /\ Reserve >= Token => ~(tokens' < Token))
        BY <1>1, <1>2, <2>3, BucketAssumption
      <3>2. spent' \in BOOLEAN /\ LastToken'
        BY <2>4, <3>1, Zenon DEF LastToken
      <3> QED BY <3>1, <3>2
    <2>6. TypeOK'
      BY <2>1, <2>2, <2>5 DEF TypeOK
    <2>7. SleepersDue'
      <3>1. ~(Token - tokens > 0)
        BY <1>1, <1>2, <2>3, BucketAssumption
      <3>2. call'[c] = r /\ \A d \in Callers \ {c} : call'[d] = call[d]
        BY <2>2 DEF TypeOK
      <3>3. \A d \in Callers : call[d].st = "sleeping" /\ call[d].prio # "BACKFILL" => ~(call[d].nap > 0)
        BY <3>1 DEF SleepersDue
      <3> QED BY <2>1, <3>2, <3>3 DEF SleepersDue
    <2>8. Keyed' /\ NobodyStranded'
      BY <2>1, <2>2, LeadStep
    <2> QED BY <2>2, <2>5, <2>6, <2>7, <2>8 DEF TypeOK
  <1>4. CASE WaitFor(call[c].prio) <= call[c].left /\ Sleep(c)
    <2> DEFINE wait == WaitFor(call[c].prio)
               r == [call[c] EXCEPT !.st = "sleeping", !.nap = wait]
    <2>1. /\ wait \in 1 .. Burst /\ wait <= call[c].left
          /\ call[c].prio # "BACKFILL" => wait = Token - tokens
      BY <1>1, <1>2, <1>4, BucketAssumption DEF Sleep, WaitFor
    <2>2. /\ call' = [call EXCEPT ![c] = r] /\ flights' = [flights EXCEPT ![call[c].key] = c]
          /\ UNCHANGED <<tokens, spent>>
      BY <1>4 DEF Sleep, FlightKey
    <2> HIDE DEF wait
    <2>3. /\ r \in CallRecords /\ r.st = "sleeping" /\ r.key = call[c].key /\ r.nap = wait
          /\ r.left = call[c].left /\ r.prio = call[c].prio
      <3>1. wait \in 0 .. Burst
        BY <2>1, BucketAssumption
      <3>2. r \in CallRecords
        BY <1>1, <3>1 DEF CallRecords
      <3> QED BY <1>1, <3>2 DEF CallRecords
    <2> HIDE DEF r
    <2>4. TypeOK' /\ LastToken'
      BY <2>2, <2>3 DEF TypeOK, LastToken
    <2>5. SleepersDue'
      <3>1. call'[c] = r /\ \A d \in Callers \ {c} : call'[d] = call[d]
        BY <2>2 DEF TypeOK
      <3> QED BY <2>1, <2>2, <2>3, <3>1 DEF SleepersDue
    <2>6. Keyed' /\ NobodyStranded'
      BY <2>2, <2>3, LeadStep
    <2> QED BY <2>2, <2>4, <2>5, <2>6 DEF TypeOK
  <1>5. CASE Settle(c, Failed("RATE_BUDGET")) /\ UNCHANGED <<tokens, spent>>
    <2>1. Failed("RATE_BUDGET") \in {Failed(r) : r \in GateReasons \cup {"CANCELLED", "nothing"}}
      BY DEF GateReasons
    <2> QED BY <1>5, <2>1, SettleStep
  <1> QED BY <1>3, <1>4, <1>5 DEF Acquire

LEMMA GateSteps ==
    ASSUME IInv, NEW c \in Callers, Lead(c) \/ Wake(c) \/ VendorAnswers(c)
    PROVE  IInv' /\ \A d \in Callers : call'[d].st = "vendor" => call'[d] = call[d] \/ d = c
  <1> USE DEF IInv
  <1>1. call[c].key \in Keys
    BY DEF Keyed, InGate, Lead, Wake, VendorAnswers
  <1>2. CASE Lead(c) \/ Wake(c)
    <2>1. Acquire(c) /\ UNCHANGED <<wire, client>>
      BY <1>2 DEF Lead, Wake
    <2>2. Leading(c) \/ (call[c].st = "sent" /\ flights[call[c].key] = None)
      BY <1>2 DEF Lead, Wake, Leading, FlightKey
    <2> QED BY <1>1, <2>1, <2>2, AcquireStep
  <1>3. CASE VendorAnswers(c)
    <2>1. PICK a \in VendorAnswer : Settle(c, a)
      BY <1>3 DEF VendorAnswers
    <2>2. Leading(c) /\ UNCHANGED <<tokens, spent, wire, client>>
      BY <1>3 DEF VendorAnswers, Leading
    <2> QED BY <1>1, <2>1, <2>2, SettleStep
  <1> QED BY <1>2, <1>3

LEMMA CancelStep ==
    ASSUME IInv, NEW c \in Callers, CancelCall(c)
    PROVE  IInv' /\ \A d \in Callers : call'[d].st = "vendor" => call'[d] = call[d]
  <1> USE DEF IInv
  <1>1. DropCall(c) /\ UNCHANGED <<tokens, spent, wire, client>> /\ client[c].st # "idle"
    BY DEF CancelCall, Active, Keyed
  <1>2. Dropped(c) \in CallRecords /\ Dropped(c).st \in {"over", "none"}
    BY DroppedType
  <1>3. CASE Leading(c)
    <2>1. call[c].key \in Keys
      BY <1>3 DEF Keyed, InGate, Leading
    <2> DEFINE told(d) == IF client[d].st = "open"
                          THEN [call[d] EXCEPT !.st = "told", !.heard = Failed("CANCELLED")] ELSE NoCall
    <2>2. /\ call' = [d \in Callers |->
                         CASE d = c -> Dropped(c)
                           [] d \in Followers(call[c].key) -> told(d)
                           [] OTHER -> call[d]]
          /\ flights' = [flights EXCEPT ![call[c].key] = None]
      BY <1>1, <1>3 DEF DropCall, FlightKey
    <2>3. \A d \in Callers : told(d) \in CallRecords /\ told(d).st \in {"told", "none"}
      <3> SUFFICES ASSUME NEW d \in Callers
                   PROVE  told(d) \in CallRecords /\ told(d).st \in {"told", "none"}
        OBVIOUS
      <3>1. call[d] \in CallRecords
        BY DEF TypeOK
      <3>2. NoCall.st = "none"
        BY DEF NoCall
      <3> QED BY <3>1, <3>2, NoCallType DEF CallRecords
    <2> HIDE DEF told
    <2>4. c \notin Followers(call[c].key)
      BY <1>3 DEF Followers, Leading
    <2>5. \A d \in Callers :
             /\ d = c => call'[d] = Dropped(c)
             /\ d \in Followers(call[c].key) => call'[d] = told(d)
             /\ d \notin {c} \cup Followers(call[c].key) => call'[d] = call[d]
      BY <2>2, <2>4
    <2>6. call' \in [Callers -> CallRecords]
      <3>1. \A d \in Callers : call'[d] \in CallRecords
        BY <1>2, <2>3, <2>5 DEF TypeOK
      <3> QED BY <2>2, <3>1
    <2>7. \A d \in {c} \cup Followers(call[c].key) : call'[d].st \in {"told", "over", "none"}
      BY <1>2, <2>3, <2>5 DEF Followers
    <2>8. IInv'
      BY <1>1, <1>3, <2>1, <2>2, <2>5, <2>6, <2>7, FlightEnds
    <2> QED BY <2>5, <2>7, <2>8 DEF Followers
  <1>4. CASE ~Leading(c)
    <2>1. call' = [call EXCEPT ![c] = Dropped(c)] /\ UNCHANGED flights
      BY <1>1, <1>4 DEF DropCall
    <2>2. TypeOK'
      BY <1>1, <1>2, <2>1 DEF TypeOK
    <2>3. Keyed' /\ NobodyStranded' /\ SleepersDue' /\ LastToken'
      BY <1>1, <1>2, <1>4, <2>1, OutsideStep
    <2> QED BY <1>2, <2>1, <2>2, <2>3 DEF TypeOK
  <1> QED BY <1>3, <1>4

-----------------------------------------------------------------------------
(* Failures and time. *)

LEMMA RestartStep ==
    ASSUME IInv, IngestRestart
    PROVE  IInv' /\ \A d \in Callers : call'[d].st # "vendor"
  <1> USE DEF IInv
  <1> DEFINE lost == {c \in Callers : Active(c) /\ call[c].st \notin {"sent", "foreign"}}
             cut(c) == c \in lost /\ client[c].st = "open" /\ ~Closed(c)
  <1>1. /\ call' = [c \in Callers |-> IF c \in lost THEN Dropped(c) ELSE call[c]]
        /\ wire' = [c \in Callers |-> IF cut(c) THEN Append(wire[c], Status("UNAVAILABLE")) ELSE wire[c]]
        /\ flights' = [k \in Keys |-> None] /\ tokens' = Burst /\ spent' = FALSE
        /\ UNCHANGED client
    BY DEF IngestRestart
  <1>2. \A c \in Callers : Dropped(c) \in CallRecords /\ Dropped(c).st \in {"over", "none"}
    BY DroppedType
  <1>3. \A c \in Callers : Append(wire[c], Status("UNAVAILABLE")) \in Seq(Message)
    <2>1. Status("UNAVAILABLE") \in Message
      BY DEF Status, Message, Codes
    <2> QED BY <2>1 DEF TypeOK
  <1>4. TypeOK'
    <2>1. call' \in [Callers -> CallRecords]
      BY <1>1, <1>2 DEF TypeOK
    <2>2. wire' \in [Callers -> Seq(Message)]
      <3> HIDE DEF cut
      <3> QED BY <1>1, <1>3 DEF TypeOK
    <2>3. flights' \in [Keys -> Callers \cup {None}] /\ tokens' \in 0 .. Burst /\ spent' \in BOOLEAN
      <3> HIDE DEF lost, cut
      <3>1. Burst \in 0 .. Burst
        BY BucketAssumption
      <3> QED BY <1>1, <3>1
    <2>4. client' \in [Callers -> ClientRecords]
      BY <1>1 DEF TypeOK
    <2> QED BY <2>1, <2>2, <2>3, <2>4 DEF TypeOK
  <1>5. \A c \in Callers : /\ call'[c].st \notin {"sleeping", "vendor", "attached"}
                           /\ call'[c].st \in {"sent", "foreign"} => call'[c] = call[c]
                           /\ client[c].st = "idle" => call'[c] = call[c]
    BY <1>1, <1>2 DEF Active, Keyed
  <1>6. Keyed'
    BY <1>1, <1>5 DEF Keyed, InGate
  <1>7. NobodyStranded' /\ SleepersDue' /\ LastToken'
    BY <1>1, <1>5, BucketAssumption DEF NobodyStranded, Leading, SleepersDue, LastToken
  <1> QED BY <1>4, <1>5, <1>6, <1>7

LEMMA TickStep ==
    ASSUME IInv, Tick
    PROVE  IInv' /\ \A d \in Callers : call'[d].st = call[d].st
  <1> USE DEF IInv
  <1> DEFINE later(c) == [call[c] EXCEPT
                 !.nap = IF @ > 0 THEN @ - 1 ELSE 0,
                 !.left = IF @ >= 0 /\ (Active(c) \/ client[c].st = "open") THEN @ - 1 ELSE @]
  <1>1. /\ call' = [c \in Callers |-> later(c)]
        /\ tokens' = (IF tokens < Burst THEN tokens + 1 ELSE Burst) /\ spent' = (spent /\ tokens' < Token)
        /\ UNCHANGED <<flights, wire, client>>
    BY DEF Tick
  <1>2. \A c \in Callers : call[c] \in CallRecords
    BY DEF TypeOK
  <1>3. \A c \in Callers : later(c) \in CallRecords
    <2> SUFFICES ASSUME NEW c \in Callers
                 PROVE  later(c) \in CallRecords
      OBVIOUS
    <2>1. call[c].nap \in 0 .. Burst /\ call[c].left \in -1 .. Deadline
      BY <1>2 DEF CallRecords
    <2>2. (IF call[c].nap > 0 THEN call[c].nap - 1 ELSE 0) \in 0 .. Burst
      BY <2>1, BucketAssumption
    <2>3. (IF call[c].left >= 0 /\ (Active(c) \/ client[c].st = "open")
           THEN call[c].left - 1 ELSE call[c].left) \in -1 .. Deadline
      BY <2>1, DeadlineAssumption
    <2> QED BY <1>2, <2>2, <2>3 DEF CallRecords
  <1>4. \A c \in Callers :
           /\ later(c).st = call[c].st /\ later(c).key = call[c].key /\ later(c).prio = call[c].prio
           /\ later(c).nap = (IF call[c].nap > 0 THEN call[c].nap - 1 ELSE 0)
           /\ call[c].left >= 0 => later(c).left >= call[c].left - 1
    <2> SUFFICES ASSUME NEW c \in Callers
                 PROVE  /\ later(c).st = call[c].st /\ later(c).key = call[c].key /\ later(c).prio = call[c].prio
                        /\ later(c).nap = (IF call[c].nap > 0 THEN call[c].nap - 1 ELSE 0)
                        /\ call[c].left >= 0 => later(c).left >= call[c].left - 1
      OBVIOUS
    <2>1. call[c].left \in -1 .. Deadline
      BY <1>2 DEF CallRecords
    <2> QED BY <1>2, <2>1, DeadlineAssumption DEF CallRecords
  <1> HIDE DEF later
  <1>5. tokens' \in 1 .. Burst
    BY <1>1, BucketAssumption DEF TypeOK
  <1>6. TypeOK' /\ LastToken'
    <2>1. call' \in [Callers -> CallRecords]
      BY <1>1, <1>3
    <2>2. tokens' \in 0 .. Burst /\ (tokens' < Token => tokens < Token)
      BY <1>1, <1>5, BucketAssumption DEF TypeOK
    <2>4. spent' \in BOOLEAN /\ LastToken'
      BY <1>1, <2>2, Zenon DEF LastToken
    <2>3. flights' \in [Keys -> Callers \cup {None}] /\ wire' \in [Callers -> Seq(Message)]
          /\ client' \in [Callers -> ClientRecords]
      BY <1>1 DEF TypeOK
    <2> QED BY <2>1, <2>2, <2>3, <2>4 DEF TypeOK
  <1>7. \A c \in Callers : call'[c].st = call[c].st /\ call'[c].key = call[c].key
    BY <1>1, <1>4
  <1>8. Keyed'
    BY <1>1, <1>7 DEF Keyed, InGate
  <1>9. NobodyStranded'
    <2>1. \A k \in Keys : flights[k] # None => flights[k] \in Callers
      BY DEF TypeOK
    <2> QED BY <1>1, <1>7, <2>1 DEF NobodyStranded, Leading
  <1>10. SleepersDue'
    <2> SUFFICES ASSUME NEW c \in Callers, call'[c].st = "sleeping"
                 PROVE  /\ call'[c].nap <= call'[c].left
                        /\ call'[c].prio # "BACKFILL" /\ call'[c].nap > 0
                              => call'[c].nap = Token - tokens'
      BY DEF SleepersDue
    <2>1. call[c].st = "sleeping" /\ call'[c] = later(c)
      BY <1>1, <1>7
    <2>2. call[c].nap \in 0 .. Burst /\ call[c].left \in -1 .. Deadline
      BY <1>2 DEF CallRecords
    <2>3. call[c].nap > 0
      <3>1. call[c].nap # 0
        BY <2>1 DEF Tick, TimerDue
      <3> QED BY <2>2, <3>1, BucketAssumption
    <2>4. call[c].nap <= call[c].left /\ (call[c].prio # "BACKFILL" => call[c].nap = Token - tokens)
      BY <2>1, <2>3 DEF SleepersDue
    <2>5. /\ call'[c].nap = call[c].nap - 1 /\ call'[c].prio = call[c].prio
          /\ call[c].left >= 0 => call'[c].left >= call[c].left - 1
      BY <1>4, <2>1, <2>3
    <2>6. call'[c].left \in -1 .. Deadline
      BY <1>3, <2>1 DEF CallRecords
    <2>7. tokens < Token => tokens' = tokens + 1
      BY <1>1, BucketAssumption DEF TypeOK
    <2>8. tokens \in 0 .. Burst
      BY DEF TypeOK
    <2> QED BY <2>2, <2>3, <2>4, <2>5, <2>6, <2>7, <2>8, BucketAssumption, DeadlineAssumption
  <1> QED BY <1>6, <1>7, <1>8, <1>9, <1>10

-----------------------------------------------------------------------------
(* The invariant, and what it carries. *)

\* Every step keeps the invariant, and only a pass of acquire or a start sends a call to the vendor.
LEMMA NextInv ==
    ASSUME IInv, Next
    PROVE  /\ IInv'
           /\ \A d \in Callers : call[d].st = "sleeping" /\ call'[d].st = "vendor" => Wake(d)
  <1>1. CASE IngestRestart
    BY <1>1, RestartStep
  <1>2. CASE Tick
    BY <1>2, TickStep
  <1>3. ASSUME NEW c \in Callers, Step(c)
        PROVE  /\ IInv'
               /\ \A d \in Callers : call[d].st = "sleeping" /\ call'[d].st = "vendor" => Wake(d)
    <2>1. CASE Lead(c) \/ Wake(c) \/ VendorAnswers(c)
      BY <2>1, GateSteps DEF Lead, VendorAnswers
    <2>2. CASE CancelCall(c)
      BY <2>2, CancelStep
    <2>3. CASE Ask(c) \/ RefuseTyped(c) \/ Attach(c) \/ Accept(c) \/ Refuse(c) \/ LeaderLeft(c) \/ SendPage(c)
               \/ SendDone(c) \/ ForeignSends(c) \/ Receive(c) \/ StoreFails(c) \/ DeadlinePasses(c)
               \/ Forget(c) \/ PeerLost(c)
      <3>1. IInv'
        BY <2>3, AskStep, EntrySteps, SendSteps, ForeignStep, StoreSteps, ForgetStep, CutStep
      <3>2. \A d \in Callers \ {c} : call'[d] = call[d]
        BY <2>3 DEF IInv, TypeOK, Ask, RefuseTyped, Attach, Accept, Refuse, LeaderLeft, SendPage, SendDone,
                    ForeignSends, Receive, Commit, Take, Fail, StoreFails, DeadlinePasses, Forget, PeerLost
      <3>3. call[c].st = "sleeping" => call'[c].st # "vendor"
        <4> SUFFICES ASSUME call[c].st = "sleeping"
                     PROVE  call'[c].st # "vendor"
          OBVIOUS
        <4>1. client[c].st # "idle"
          BY DEF IInv, Keyed
        <4>2. Receive(c) \/ StoreFails(c) \/ DeadlinePasses(c) \/ Forget(c) \/ PeerLost(c)
          BY <2>3, <4>1 DEF Ask, RefuseTyped, Attach, Accept, Refuse, LeaderLeft, SendPage, SendDone, ForeignSends
        <4>3. NoCall.st = "none" /\ InGate(c)
          BY DEF NoCall, InGate
        <4>4. CASE Receive(c) \/ StoreFails(c) \/ DeadlinePasses(c)
          BY <4>3, <4>4 DEF IInv, TypeOK, Receive, Commit, Take, Fail, StoreFails, DeadlinePasses
        <4>5. CASE Forget(c) \/ PeerLost(c)
          BY <4>3, <4>5 DEF IInv, TypeOK, Forget, PeerLost
        <4> QED BY <4>2, <4>4, <4>5
      <3> QED BY <3>1, <3>2, <3>3
    <2> QED BY <1>3, <2>1, <2>2, <2>3 DEF Step
  <1> QED BY <1>1, <1>2, <1>3 DEF Next

LEMMA StutterInv == IInv /\ UNCHANGED vars => IInv'
  BY DEF vars, IInv, TypeOK, Keyed, InGate, NobodyStranded, FlightKey, Leading, SleepersDue, LastToken

\* The invariant holds of every behaviour.
THEOREM Invariant == Spec => []IInv
  <1>1. IInv /\ [Next]_vars => IInv'
    BY NextInv, StutterInv
  <1> QED BY <1>1, InitInv, PTL DEF Spec

\* Ingest's gate, the wire and the stores' readers stay within their types: the bucket never goes
\* below nothing or above its burst (RateBudget), whoever spends from it.
THEOREM TypeOKAlways == Spec => []TypeOK
  <1>1. IInv => TypeOK
    BY DEF IInv
  <1> QED BY <1>1, Invariant, PTL

\* SingleFlight: an attached request waits on a flight under way for its own key, with one leader,
\* however leaders fail, are cancelled, refused by the budget or lost in a restart.
THEOREM NobodyStrandedAlways == Spec => []NobodyStranded
  <1>1. IInv => NobodyStranded
    BY DEF IInv
  <1> QED BY <1>1, Invariant, PTL

\* RateBudget: for every burst and reserve the code admits, whole tokens or not, an interactive
\* leader sleeps for what is missing of one token; and with a reserve of a token or more it sleeps
\* only while the last token is one that interactive calls took.
THEOREM BackfillLeavesTheRestAlways == Spec => []BackfillLeavesTheRest
  <1>1. IInv => BackfillLeavesTheRest
    <2>1. ASSUME IInv, Token - tokens > 0 PROVE tokens < Token
      BY <2>1, BucketAssumption DEF IInv, TypeOK
    <2> QED BY <2>1 DEF IInv, SleepersDue, LastToken, BackfillLeavesTheRest
  <1> QED BY <1>1, Invariant, PTL

\* RateBudget.acquire: a call that slept for its token starts by its deadline.
THEOREM NoStartPastDeadlineAlways == Spec => NoStartPastDeadline
  <1>1. IInv /\ [Next]_vars
          => [\A c \in Callers : call[c].st = "sleeping" /\ call'[c].st = "vendor" => call[c].left >= 0]_vars
    <2> SUFFICES ASSUME IInv, Next, NEW c \in Callers, call[c].st = "sleeping", call'[c].st = "vendor"
                 PROVE  call[c].left >= 0
      OBVIOUS
    <2>1. Wake(c)
      BY NextInv
    <2>2. call[c].nap = 0 /\ call[c].nap <= call[c].left
      BY <2>1 DEF IInv, SleepersDue, Wake
    <2>3. call[c].left \in -1 .. Deadline
      BY DEF IInv, TypeOK, CallRecords
    <2> QED BY <2>2, <2>3, DeadlineAssumption
  <1> QED BY <1>1, Invariant, PTL DEF Spec, NoStartPastDeadline
=============================================================================
