------------------------------ MODULE ErrorAnswers ------------------------------
(***************************************************************************)
(* One failed request, from where it is raised to what its caller is told: *)
(* the vocabulary's table of reasons, the boundary of the ingest service,  *)
(* the status or the refused ack on the gRPC hop, the error rebuilt from   *)
(* it in the store, the run's record, and the problem+json answer, with    *)
(* the log lines both services write on the way. An error_id is a number,  *)
(* 0 for none; instants are parts of a second.                             *)
(***************************************************************************)
EXTENDS Naturals, SequencesExt

CONSTANTS
    Second,      \* instants per second
    LastMoment,  \* bound: the instant at which the model stops
    Delays,      \* how far ahead of a failure its reset may lie
    NoReset

ASSUME ErrorAssumption ==
    /\ Second \in Nat \ {0} /\ LastMoment \in Nat
    /\ Delays \subseteq Nat /\ NoReset \notin Nat

VARIABLES
    moment,
    request,  \* the kind of request: one that stores, which keeps a run, or any other
    place,    \* where the failure is: "ingest", "hop", "store" or "answered"
    failure,  \* the error raised there
    reply,    \* on the hop: the status or the refused ack
    minted,   \* how many error_ids have been minted
    lines,    \* the log lines written, each with its error_id and whether with the cause chain
    recorded, \* what the run's record says of the failure
    answer,   \* what the caller is told
    origin    \* history: where and as what the failure was raised, and whether its answer was lost

errorVars == <<moment, request, place, failure, reply, minted, lines, recorded, answer, origin>>

\* The reasons whose rows agree: a request that is wrong as it stands.
InvalidReasons ==
    {"INVALID_REQUEST", "UNSUPPORTED_ASSET_TYPE", "UNSUPPORTED_INSTRUMENT", "VENDOR_INVALID_REQUEST",
     "RANGE_IN_FUTURE", "VENDOR_REJECTED", "DUPLICATE_BAR_TIMESTAMP"}

\* The status each reason renders as on the gRPC hop, "none" where never, and over HTTP: what no
\* wait cures,
RefusedRows ==
    [r \in InvalidReasons \cup {"FEED_NOT_AVAILABLE", "NOT_FOUND", "OWNER_MISMATCH", "OWN_OVERLAP_CONFLICT",
                                "RANGE_COLLISION", "OVERRIDE_REQUIRED", "RANGE_SHRINK", "DATABASE_INTEGRITY"} |->
       CASE r \in InvalidReasons -> <<"INVALID_ARGUMENT", 422>>
         [] r = "FEED_NOT_AVAILABLE" -> <<"none", 422>>
         [] r = "NOT_FOUND" -> <<"NOT_FOUND", 404>>
         [] r = "OWNER_MISMATCH" -> <<"PERMISSION_DENIED", 403>>
         [] r \in {"OWN_OVERLAP_CONFLICT", "RANGE_COLLISION"} -> <<"ALREADY_EXISTS", 409>>
         [] r \in {"OVERRIDE_REQUIRED", "RANGE_SHRINK"} -> <<"FAILED_PRECONDITION", 409>>
         [] r = "DATABASE_INTEGRITY" -> <<"none", 409>>]

\* and what could be answered later.
NotReadyRows ==
    [r \in {"RATE_BUDGET", "VENDOR_RATE_LIMITED", "VENDOR_UNAVAILABLE", "VENDOR_AUTH", "DEADLINE", "PEER_UNAVAILABLE",
            "DATABASE_UNAVAILABLE", "DATABASE_CONFLICT", "PEER_INTERNAL", "PEER_PROTOCOL_ERROR"} |->
       CASE r \in {"RATE_BUDGET", "VENDOR_RATE_LIMITED"} -> <<"FAILED_PRECONDITION", 429>>
         [] r \in {"VENDOR_UNAVAILABLE", "VENDOR_AUTH"} -> <<"FAILED_PRECONDITION", 503>>
         [] r = "DEADLINE" -> <<"FAILED_PRECONDITION", 504>>
         [] r \in {"PEER_UNAVAILABLE", "DATABASE_UNAVAILABLE", "DATABASE_CONFLICT"} -> <<"none", 503>>
         [] r \in {"PEER_INTERNAL", "PEER_PROTOCOL_ERROR"} -> <<"none", 502>>]

REASONS == [r \in DOMAIN RefusedRows \cup DOMAIN NotReadyRows |->
              IF r \in DOMAIN RefusedRows THEN RefusedRows[r] ELSE NotReadyRows[r]]

GrpcCode(r)   == REASONS[r][1]
HttpStatus(r) == REASONS[r][2]
Outcome(r) == IF r \in DOMAIN RefusedRows THEN "REFUSED" ELSE "NOT_READY"
RequiresResetAt == {"RATE_BUDGET", "VENDOR_RATE_LIMITED"}

\* An error_id stands in the metadata; a reset is fixed when the error is built, only where the
\* row asks for one. chain: whether the exception was raised from another.
Typed(r, id, reset, chain) == [kind |-> "typed", reason |-> r, id |-> id, reset |-> reset, chain |-> chain]
Bug   == [kind |-> "bug", reason |-> "none", id |-> 0, reset |-> NoReset, chain |-> TRUE]
Plain == [kind |-> "http", reason |-> "none", id |-> 0, reset |-> NoReset, chain |-> FALSE]
NoFailure == [kind |-> "none", reason |-> "none", id |-> 0, reset |-> NoReset, chain |-> FALSE]

NoReply   == [code |-> "none", reason |-> "none", id |-> 0, reset |-> NoReset]
NoRun    == [reason |-> "none", id |-> 0, kept |-> FALSE]
NoAnswer == [status |-> 0, reason |-> "none", id |-> 0, reset |-> NoReset, wait |-> NoReset]

own_error_id(e) == e.id
IdOf(e)     == IF own_error_id(e) = 0 THEN minted + 1 ELSE own_error_id(e)
Mints(e)    == minted' = IF own_error_id(e) = 0 THEN minted + 1 ELSE minted
Line(by, id, chain) == [by |-> by, id |-> id, chain |-> chain]

\* Mutant: the chain is written wherever there is one, whoever has written it before.
LineWithChain(by, e) == Line(by, IdOf(e), e.chain)

\* Both edges write one line for a typed error, with the cause chain only under an id minted here.
LineOf(by, e) == Line(by, IdOf(e), own_error_id(e) = 0 /\ e.chain)

\* Whole seconds until the reset, rounded up, never negative, at each reading.
RetryAfter(reset) ==
    IF reset = NoReset THEN NoReset
    ELSE IF reset <= moment THEN 0 ELSE (reset - moment + Second - 1) \div Second

ErrorInit ==
    /\ moment = 0 /\ minted = 0 /\ lines = <<>>
    /\ request \in {"store", "other"}
    /\ place = "none" /\ failure = NoFailure /\ reply = NoReply
    /\ recorded = NoRun /\ answer = NoAnswer
    /\ origin = [at |-> "none", failure |-> NoFailure, heard |-> TRUE]

----
Raise(where, e) ==
    /\ place = "none"
    /\ place' = where /\ failure' = e /\ origin' = [at |-> where, failure |-> e, heard |-> TRUE]
    /\ UNCHANGED <<moment, request, reply, recorded, answer>>

\* The failures the ingest service raises: its own refusals, the rate budget's, and the vendor's,
\* which keep the client library's exception as their cause.
Refuses      == {"INVALID_REQUEST", "UNSUPPORTED_ASSET_TYPE", "UNSUPPORTED_INSTRUMENT", "FEED_NOT_AVAILABLE",
                 "RANGE_IN_FUTURE", "VENDOR_AUTH"}
VendorFails  == {"VENDOR_INVALID_REQUEST", "VENDOR_REJECTED", "VENDOR_UNAVAILABLE", "VENDOR_AUTH"}

RaiseInIngest ==
    /\ request = "store"
    /\ UNCHANGED <<minted, lines>>
    /\ \/ \E r \in Refuses : Raise("ingest", Typed(r, 0, NoReset, FALSE))
       \/ \E r \in VendorFails : Raise("ingest", Typed(r, 0, NoReset, TRUE))
       \/ \E d \in Delays : Raise("ingest", Typed("RATE_BUDGET", 0, moment + d, FALSE))
       \/ \E d \in Delays : Raise("ingest", Typed("VENDOR_RATE_LIMITED", 0, moment + d, TRUE))
       \/ Raise("ingest", Bug)

\* The failures the store raises itself, of which the database's carry an id: write_transaction
\* logs the chain under it and puts it on the error. One it cannot classify is logged and raised as
\* it is.
StoreRefuses == {"INVALID_REQUEST", "UNSUPPORTED_ASSET_TYPE", "NOT_FOUND", "OWNER_MISMATCH",
                 "OWN_OVERLAP_CONFLICT", "OVERRIDE_REQUIRED", "DUPLICATE_BAR_TIMESTAMP", "DATABASE_UNAVAILABLE"}

RaiseInStore ==
    \/ /\ UNCHANGED <<minted, lines>>
       /\ \/ \E r \in StoreRefuses : Raise("store", Typed(r, 0, NoReset, FALSE))
          \/ Raise("store", Bug)
          \/ request = "other" /\ Raise("store", Plain)
    \/ \E r \in {"DATABASE_CONFLICT", "DATABASE_UNAVAILABLE", "DATABASE_INTEGRITY"} :
          /\ Raise("store", Typed(r, minted + 1, NoReset, TRUE))
          /\ minted' = minted + 1
          /\ lines' = Append(lines, Line("store", minted + 1, TRUE))
    \/ /\ Raise("store", Bug)
       /\ lines' = Append(lines, Line("store", 0, TRUE))
       /\ UNCHANGED minted

----
(* The ingest service's boundary: every exception becomes a reply. *)

Replies(w) == place = "ingest" /\ place' = "hop" /\ reply' = w /\ failure' = NoFailure
              /\ UNCHANGED <<moment, request, recorded, answer, origin>>

\* An unservable feed is refused in the ack, by an id no line is written under; only a fetch that has
\* not been acknowledged raises it.
RefuseInBand ==
    /\ failure.reason = "FEED_NOT_AVAILABLE"
    /\ Replies([code |-> "ack", reason |-> failure.reason, id |-> IdOf(failure), reset |-> NoReset])
    /\ Mints(failure)
    /\ UNCHANGED lines

render(e, id) == [code |-> GrpcCode(e.reason), reason |-> e.reason, id |-> id, reset |-> e.reset]

Renders(e) == e.kind = "typed" /\ GrpcCode(e.reason) # "none"

abort_with_error ==
    /\ failure.reason # "FEED_NOT_AVAILABLE"
    /\ Renders(failure)
    /\ Replies(render(failure, IdOf(failure)))
    /\ Mints(failure)
    /\ lines' = Append(lines, LineOf("ingest", failure))

\* A bug's status has no ErrorInfo: its id is in the fixed message, and nothing else is.
abort_with_bug ==
    /\ failure.reason # "FEED_NOT_AVAILABLE"
    /\ ~Renders(failure)
    /\ Replies([NoReply EXCEPT !.code = "INTERNAL", !.id = minted + 1])
    /\ minted' = minted + 1
    /\ lines' = Append(lines, Line("ingest", minted + 1, TRUE))

\* The peer is down or restarts, or the call's deadline passes: before it failed, or while its
\* answer was on the way.
TransportFails ==
    /\ \/ place = "none" /\ request = "store"
       \/ place \in {"ingest", "hop"}
    /\ \E code \in {"UNAVAILABLE", "DEADLINE_EXCEEDED"} : reply' = [NoReply EXCEPT !.code = code]
    /\ reply.code \notin {"UNAVAILABLE", "DEADLINE_EXCEEDED"}
    /\ place' = "hop" /\ failure' = NoFailure
    /\ origin' = [origin EXCEPT !.heard = FALSE]
    /\ UNCHANGED <<moment, request, minted, lines, recorded, answer>>

\* A stream that breaks the grammar, or a message the release cannot read.
StreamBreaks ==
    /\ request = "store"
    /\ \E chain \in BOOLEAN : Raise("store", Typed("PEER_PROTOCOL_ERROR", 0, NoReset, chain))
    /\ UNCHANGED <<minted, lines>>

----
(* The store. *)

\* The three transport codes are read first, then the reason; the error keeps the peer's id and
\* the instant of the reset, not the delay.
from_rpc_error(w) ==
    IF w.code = "UNAVAILABLE" THEN Typed("PEER_UNAVAILABLE", 0, NoReset, TRUE)
    ELSE IF w.code = "DEADLINE_EXCEEDED" THEN Typed("DEADLINE", 0, NoReset, TRUE)
    ELSE IF w.code = "INTERNAL" THEN Typed("PEER_INTERNAL", w.id, NoReset, TRUE)
    ELSE Typed(w.reason, w.id, w.reset, TRUE)

refusal_error(w) == Typed(w.reason, w.id, NoReset, FALSE)

HearFailure ==
    /\ place = "hop"
    /\ place' = "store" /\ reply' = NoReply
    /\ failure' = IF reply.code = "ack" THEN refusal_error(reply) ELSE from_rpc_error(reply)
    /\ UNCHANGED <<moment, request, minted, lines, recorded, answer, origin>>

\* A recorded run states the failure on its way out: a typed one's reason and own id, else neither.
\* A recording may fail, and is then left out.
RecordFailure ==
    /\ place = "store" /\ request = "store" /\ ~recorded.kept
    /\ recorded' = [reason |-> failure.reason, id |-> own_error_id(failure), kept |-> TRUE]
    /\ UNCHANGED <<moment, request, place, failure, reply, minted, lines, answer, origin>>

Answers(a) == place = "store" /\ place' = "answered" /\ answer' = a /\ failure' = NoFailure
              /\ UNCHANGED <<moment, request, reply, recorded, origin>>

\* The body, its Retry-After and its log line, from one reading of the clock and one test of
\* whether the error has its own id.
AnswerTyped ==
    /\ failure.kind = "typed"
    /\ Answers([status |-> HttpStatus(failure.reason), reason |-> failure.reason, id |-> IdOf(failure),
                reset |-> failure.reset, wait |-> RetryAfter(failure.reset)])
    /\ Mints(failure)
    /\ lines' = Append(lines, LineOf("store", failure))

\* A bug's caller gets an id and nothing else.
AnswerBug ==
    /\ failure.kind = "bug"
    /\ Answers([NoAnswer EXCEPT !.status = 500, !.id = minted + 1])
    /\ minted' = minted + 1
    /\ lines' = Append(lines, Line("store", minted + 1, TRUE))

\* Routing's 404 and 405 and the missing secret's 401 keep their status; nothing of ours is said.
AnswerPlain ==
    /\ failure.kind = "http"
    /\ \E status \in {401, 404, 405} : Answers([NoAnswer EXCEPT !.status = status])
    /\ UNCHANGED <<minted, lines>>

MomentPasses ==
    /\ place # "answered" /\ moment < LastMoment
    /\ moment' = moment + 1
    /\ UNCHANGED <<request, place, failure, reply, minted, lines, recorded, answer, origin>>

ErrorNext ==
    \/ RaiseInIngest \/ RaiseInStore \/ StreamBreaks
    \/ RefuseInBand \/ abort_with_error \/ abort_with_bug \/ TransportFails
    \/ HearFailure \/ RecordFailure \/ AnswerTyped \/ AnswerBug \/ AnswerPlain
    \/ MomentPasses

----
Answered == place = "answered"

ErrorTypeOK ==
    /\ moment \in 0..LastMoment /\ request \in {"store", "other"}
    /\ place \in {"none", "ingest", "hop", "store", "answered"}
    /\ \A e \in {x \in {failure, origin.failure} : x.kind = "typed"} :
          e.reason \in DOMAIN REASONS /\ (e.reset # NoReset) = (e.reason \in RequiresResetAt)
    /\ minted <= 3 /\ Len(lines) <= 3
    /\ answer.id \in 0..minted /\ recorded.id \in 0..minted

\* A typed failure is answered by its own reason wherever it was raised, a bug of the other service
\* by PEER_INTERNAL, and a lost answer by what the transport said; a refusal is never said to be
\* worth repeating, nor the reverse (render, from_rpc_error, _describe).
AnswerSaysWhatFailed ==
    LET f == origin.failure
        said == IF ~origin.heard THEN {"PEER_UNAVAILABLE", "DEADLINE"}
                ELSE IF f.kind = "typed" THEN {f.reason}
                ELSE IF f.kind = "bug" /\ origin.at = "ingest" THEN {"PEER_INTERNAL"} ELSE {"none"}
    IN  /\ answer.reason \in said
        /\ answer.reason # "none" =>
              (Outcome(answer.reason) = "REFUSED") = (answer.status \in 400..428)

\* The id in the answer finds the failure in the log of the service where it arose, with its cause
\* chain if it had one, and no chain is written twice under one id (own_error_id, has_cause_chain).
\* The refusal in the ack is found in the store's log alone, and routing's own errors have no id.
AnswerIsTraceable ==
    LET f == origin.failure
        arose  == IF origin.heard /\ f.reason # "FEED_NOT_AVAILABLE" THEN origin.at ELSE "store"
        found  == {i \in DOMAIN lines : lines[i].id = answer.id}
        chains == {i \in found : lines[i].chain}
    IN  IF f.kind = "http" THEN answer.id = 0
        ELSE /\ answer.id # 0
             /\ \E i \in found : lines[i].by = arose
             /\ (f.chain \/ ~origin.heard) => \E i \in chains : lines[i].by = arose
             /\ \A i, j \in chains : i = j

\* A caller that waits as long as it is told comes back when the reset has passed, and less than a
\* second late, however long the failure took to reach it; no other failure names a wait
\* (retry_after, reset_at across the hop).
WaitIsEnough ==
    LET reset == IF origin.heard THEN origin.failure.reset ELSE NoReset
    IN  /\ answer.reset = reset
        /\ (answer.wait = NoReset) = (reset = NoReset)
        /\ reset # NoReset =>
              LET back == moment + answer.wait * Second
              IN  back >= reset /\ (back < reset + Second \/ answer.wait = 0)

\* The run, where one was kept, states the answer's reason, and an id only if the caller got it
\* (failure_for).
RunAgrees == recorded.kept => recorded.reason = answer.reason /\ recorded.id \in {0, answer.id}

FailuresAreTold ==
    Answered => AnswerSaysWhatFailed /\ AnswerIsTraceable /\ WaitIsEnough /\ RunAgrees
=============================================================================
