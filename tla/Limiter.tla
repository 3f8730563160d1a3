------------------------------ MODULE Limiter ------------------------------
(***************************************************************************)
(* The writer rate limiter (pkg/executive/db_limiter.go).  Each Mutate     *)
(* asks it first, inside its own ctldb transaction and before it takes the *)
(* ledger lock: read the usage of the writer in the current period, write  *)
(* it back increased, compare with the limit.  Limits are cached and       *)
(* refreshed in the background, old usage rows are deleted.                *)
(*                                                                         *)
(* MySQL, as the code uses it: the SELECT takes no lock, the INSERT or     *)
(* UPDATE holds the row until the transaction ends, and an UPDATE that     *)
(* changes nothing affects no row.                                         *)
(***************************************************************************)
EXTENDS Integers

CONSTANTS Handlers,      \* goroutines that serve Mutate requests
          Writers,       \* registered writers: others are refused
          Period,        \* WriterLimitPeriod, in seconds
          DefaultLimit,  \* rows each writer may mutate in a period
          Amounts,       \* limits that operators set: so many rows
          Spans,         \* per so many seconds
          NoRate,        \* no row in max_writer_rates
          NoUsage,       \* no row in writer_usage
          MaxBatch,      \* bound: requests in one Mutate
          MaxNow,        \* bound: periods
          Keep,          \* defaultDeleteUsageOlderThan, in periods
          MaxRequests    \* bound: Mutates, in all

ASSUME LimiterAssumption ==
    /\ Writers # {}
    /\ Period \in Nat \ {0}
    /\ DefaultLimit \in Nat
    /\ Amounts \subseteq Nat
    /\ Spans \subseteq Nat \ {0}
    /\ NoRate \notin Nat
    /\ NoUsage \notin Nat
    /\ MaxBatch \in Nat /\ MaxNow \in Nat /\ MaxRequests \in Nat
    /\ Keep \in Nat

VARIABLES now,        \* periodEpoch: the current period
          usage,      \* committed rows of writer_usage
          rates,      \* committed rows of max_writer_rates, per minute
          cached,     \* perWriterLimits, already converted to the period
          req,        \* what each handler is doing
          admitted,   \* history: rows mutated by each writer in each period
          started     \* Mutates begun so far (for MaxRequests)

vars == <<now, usage, rates, cached, req, admitted, started>>

Periods == 0..MaxNow

\* RateLimit.AdjustAmount: rows per from seconds as rows per to seconds,
\* rounded to the nearest integer, halves to the even one.  The code divides
\* in float64; here the quotient is exact.
AdjustAmount(amount, from, to) ==
    LET q == (amount * to) \div from
        r == (amount * to) % from
    IN  IF 2 * r < from THEN q ELSE IF 2 * r > from THEN q + 1 ELSE q + (q % 2)

RateLimits == [amount : Amounts, period : Spans]

PerMinute(limit) == AdjustAmount(limit.amount, limit.period, 60)

Rates == {PerMinute(limit) : limit \in RateLimits}

Adjusted == {AdjustAmount(a, 60, Period) : a \in Rates}

(* pc "read"      the usage row has been read                              *)
(*    "written"   and written; its row lock is held from here on           *)
(*    "admitted"  and found within limit; Mutate goes on                   *)
Idle == [pc |-> "idle", n |-> 0, bucket |-> 0, seen |-> NoUsage, limit |-> 0,
         writer |-> CHOOSE w \in Writers : TRUE]

Requests == [pc : {"idle", "read", "written", "admitted"}, n : 0..MaxBatch,
             bucket : Periods, seen : Nat \cup {NoUsage}, limit : Nat,
             writer : Writers]

\* No usage row ever exceeds the highest limit there is.
LimiterTypeOK ==
    /\ now \in Periods
    /\ \A w \in Writers, b \in Periods :
          \/ usage[w][b] = NoUsage
          \/ \E m \in Adjusted \cup {DefaultLimit} : usage[w][b] \in 0..m
    /\ rates \in [Writers -> Rates \cup {NoRate}]
    /\ cached \in [Writers -> Adjusted \cup {NoRate}]
    /\ req \in [Handlers -> Requests]
    /\ admitted \in [Writers -> [Periods -> Nat]]

Init ==
    /\ now = 0
    /\ usage = [w \in Writers |-> [b \in Periods |-> NoUsage]]
    /\ rates = [w \in Writers |-> NoRate]
    /\ cached = [w \in Writers |-> NoRate]
    /\ req = [h \in Handlers |-> Idle]
    /\ admitted = [w \in Writers |-> [b \in Periods |-> 0]]
    /\ started = 0

-----------------------------------------------------------------------------
(* checkWriterRates *)

\* The SELECT.  A Mutate without requests was refused before the limiter.
SelectUsage(h, w, n) ==
    /\ req[h].pc = "idle"
    /\ started < MaxRequests
    /\ req' = [req EXCEPT ![h] = [Idle EXCEPT !.pc = "read", !.n = n,
                                              !.bucket = now, !.writer = w,
                                              !.seen = usage[w][now]]]
    /\ started' = started + 1
    /\ UNCHANGED <<now, usage, rates, cached, admitted>>

\* The amount that is written, as computed from what was read.
Amount(h) == req[h].n + IF req[h].seen = NoUsage THEN 0 ELSE req[h].seen

\* Some transaction other than h's holds the row of writer w in bucket b.
RowLocked(h, w, b) ==
    \E g \in Handlers \ {h} :
        /\ req[g].pc \in {"written", "admitted"}
        /\ req[g].writer = w /\ req[g].bucket = b

\* INSERT where nothing was read, else UPDATE, once the row is not locked.
\* A row inserted, deleted or set to the same amount meanwhile is an error.
WriteUsage(h) ==
    LET row == usage[req[h].writer][req[h].bucket]
        ok  == IF req[h].seen = NoUsage THEN row = NoUsage
                                        ELSE row \notin {NoUsage, Amount(h)}
    IN  /\ req[h].pc = "read"
        /\ ~RowLocked(h, req[h].writer, req[h].bucket)
        /\ req' = [req EXCEPT ![h] = IF ok THEN [@ EXCEPT !.pc = "written"] ELSE Idle]
        /\ UNCHANGED <<now, usage, rates, cached, admitted, started>>

LimitForWriter(w) == IF cached[w] = NoRate THEN DefaultLimit ELSE cached[w]

\* Mutants: the amount before this request is compared; the charge of a
\* request over the limit is kept.
CompareBefore(h) ==
    LET limit == LimitForWriter(req[h].writer)
    IN  /\ req[h].pc = "written"
        /\ req' = [req EXCEPT ![h] = IF Amount(h) - req[h].n <= limit
                                     THEN [@ EXCEPT !.pc = "admitted", !.limit = limit]
                                     ELSE Idle]
        /\ UNCHANGED <<now, usage, rates, cached, admitted, started>>

CompareCharging(h) ==
    LET limit == LimitForWriter(req[h].writer)
    IN  /\ req[h].pc = "written"
        /\ req' = [req EXCEPT ![h] = IF Amount(h) <= limit
                                     THEN [@ EXCEPT !.pc = "admitted", !.limit = limit]
                                     ELSE Idle]
        /\ usage' = [usage EXCEPT ![req[h].writer][req[h].bucket] =
                        IF Amount(h) <= limit THEN @ ELSE Amount(h)]
        /\ UNCHANGED <<now, rates, cached, admitted, started>>

\* Over the limit, Mutate returns an error and its transaction is rolled back.
Compare(h) ==
    LET limit == LimitForWriter(req[h].writer)
    IN  /\ req[h].pc = "written"
        /\ req' = [req EXCEPT ![h] = IF Amount(h) <= limit
                                     THEN [@ EXCEPT !.pc = "admitted", !.limit = limit]
                                     ELSE Idle]
        /\ UNCHANGED <<now, usage, rates, cached, admitted, started>>

\* The end of Mutate: its rows and the usage row become visible together.
Commit(h) ==
    LET r == req[h]
    IN  /\ r.pc = "admitted"
        /\ usage' = [usage EXCEPT ![r.writer][r.bucket] = Amount(h)]
        /\ admitted' = [admitted EXCEPT ![r.writer][r.bucket] = @ + r.n]
        /\ req' = [req EXCEPT ![h] = Idle]
        /\ UNCHANGED <<now, rates, cached, started>>

\* Mutate fails after the limiter, or the limiter's statements do.
Rollback(h) ==
    /\ req[h].pc # "idle"
    /\ req' = [req EXCEPT ![h] = Idle]
    /\ UNCHANGED <<now, usage, rates, cached, admitted, started>>

-----------------------------------------------------------------------------
(* Limits and housekeeping *)

UpdateWriterRateLimit(w, limit) ==
    /\ rates' = [rates EXCEPT ![w] = PerMinute(limit)]
    /\ UNCHANGED <<now, usage, cached, req, admitted, started>>

DeleteWriterRateLimit(w) ==
    /\ rates[w] # NoRate
    /\ rates' = [rates EXCEPT ![w] = NoRate]
    /\ UNCHANGED <<now, usage, cached, req, admitted, started>>

RefreshWriterLimits ==
    /\ cached' = [w \in Writers |-> IF rates[w] = NoRate THEN NoRate
                                    ELSE AdjustAmount(rates[w], 60, Period)]
    /\ UNCHANGED <<now, usage, rates, req, admitted, started>>

\* One DELETE; it waits for the rows that are locked.
DeleteOldUsageData ==
    LET old == {b \in Periods : b < now - Keep}
    IN  /\ \A h \in Handlers : ~(req[h].pc \in {"written", "admitted"} /\ req[h].bucket \in old)
        /\ usage' = [w \in Writers |-> [b \in Periods |->
                        IF b \in old THEN NoUsage ELSE usage[w][b]]]
        /\ UNCHANGED <<now, rates, cached, req, admitted, started>>

Tick ==
    /\ now < MaxNow
    /\ now' = now + 1
    /\ UNCHANGED <<usage, rates, cached, req, admitted, started>>

Next ==
    \/ \E h \in Handlers :
        \/ \E w \in Writers, n \in 1..MaxBatch : SelectUsage(h, w, n)
        \/ WriteUsage(h) \/ Compare(h) \/ Commit(h) \/ Rollback(h)
    \/ \E w \in Writers :
        \/ \E limit \in RateLimits : UpdateWriterRateLimit(w, limit)
        \/ DeleteWriterRateLimit(w)
    \/ RefreshWriterLimits
    \/ DeleteOldUsageData
    \/ Tick

Spec == Init /\ [][Next]_vars

\* The discipline under which the limiter is exact, and which the code does
\* not enforce: a writer has one Mutate at a time, whatever other writers do.
OneAtATime ==
    \A h, g \in Handlers :
        h # g /\ req[h].pc # "idle" /\ req[g].pc # "idle" => req[h].writer # req[g].writer

SerialSpec == Init /\ [][Next /\ OneAtATime']_vars

-----------------------------------------------------------------------------
(* Properties *)

\* The writer has enough of a quota for what it is about to mutate: with it,
\* all it mutated in the period stays within the limit it was checked with.
WithinQuota ==
    \A h \in Handlers :
        LET r == req[h]
        IN  r.pc = "admitted"
            => admitted[r.writer][r.bucket] + r.n <= r.limit

\* Usage is what was mutated, no less and no more: refused and failed requests
\* are not charged, and the rows of periods still in use are not deleted.
UsageIsAdmitted ==
    \A w \in Writers, b \in Periods :
        IF usage[w][b] = NoUsage
        THEN admitted[w][b] = 0 \/ b < now - Keep
        ELSE usage[w][b] = admitted[w][b]
=============================================================================
