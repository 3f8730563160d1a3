---------------------------- MODULE LimiterProofs ----------------------------
(***************************************************************************)
(* Proofs about the writer rate limiter, for any number of handlers and    *)
(* writers and any limits: no usage row exceeds a limit, whatever the      *)
(* handlers do; and for writers with one Mutate at a time the limiter is   *)
(* exact, although its SELECT takes no lock.                               *)
(***************************************************************************)
EXTENDS Limiter, TLAPS

USE LimiterAssumption

-----------------------------------------------------------------------------
(* Limits *)

Limits == Adjusted \cup {DefaultLimit}

\* AdjustAmount gives the nearest whole number of rows.
LEMMA AdjustNearest ==
    ASSUME NEW a \in Nat, NEW from \in Nat \ {0}, NEW to \in Nat \ {0}
    PROVE  /\ AdjustAmount(a, from, to) \in Nat
           /\ 2 * (from * AdjustAmount(a, from, to) - a * to) \in -from..from
  <1> DEFINE x == a * to
             q == x \div from
             r == x % from
  <1>1. x \in Nat
    OBVIOUS
  <1> HIDE DEF x
  <1>2. q \in Nat /\ r \in 0..(from - 1) /\ x = from * q + r
    BY <1>1
  <1>3. q % 2 \in 0..1
    BY <1>2
  <1> HIDE DEF q, r
  <1>4. AdjustAmount(a, from, to) =
            IF 2 * r < from THEN q ELSE IF 2 * r > from THEN q + 1 ELSE q + (q % 2)
    BY DEF AdjustAmount, x, q, r
  <1>5. from * (q + 1) = from * q + from
    BY <1>2
  <1>6. AdjustAmount(a, from, to) = q \/ AdjustAmount(a, from, to) = q + 1
    BY <1>2, <1>3, <1>4
  <1>7. CASE AdjustAmount(a, from, to) = q
    BY <1>1, <1>2, <1>3, <1>4, <1>7 DEF x
  <1>8. CASE AdjustAmount(a, from, to) = q + 1
    BY <1>1, <1>2, <1>3, <1>4, <1>5, <1>8 DEF x
  <1> QED
    BY <1>6, <1>7, <1>8

LEMMA LimitsType ==
    /\ Rates \subseteq Nat
    /\ Adjusted \subseteq Nat
    /\ Limits \subseteq Nat
    /\ \A limit \in RateLimits : PerMinute(limit) \in Rates
    /\ \A a \in Rates : AdjustAmount(a, 60, Period) \in Adjusted
  <1>1. \A a \in Nat, from, to \in Nat \ {0} : AdjustAmount(a, from, to) \in Nat
    BY AdjustNearest, Zenon
  <1>2. \A limit \in RateLimits : PerMinute(limit) \in Nat
    <2>1. 60 \in Nat \ {0}
      OBVIOUS
    <2>2. \A limit \in RateLimits : limit.amount \in Nat /\ limit.period \in Nat \ {0}
      BY DEF RateLimits
    <2> QED
      BY <1>1, <2>1, <2>2, Zenon DEF PerMinute
  <1>3. Rates \subseteq Nat /\ \A limit \in RateLimits : PerMinute(limit) \in Rates
    BY <1>2 DEF Rates
  <1>4. Adjusted \subseteq Nat /\ \A a \in Rates : AdjustAmount(a, 60, Period) \in Adjusted
    BY <1>1, <1>3 DEF Adjusted
  <1> QED
    BY <1>3, <1>4 DEF Limits

-----------------------------------------------------------------------------
(* Every interleaving: type correctness, and usage within some limit *)

\* What was found within a limit is within a limit that was in force.
Checked ==
    \A h \in Handlers :
        req[h].pc = "admitted" => req[h].limit \in Limits /\ Amount(h) <= req[h].limit

LimIInv ==
    /\ LimiterTypeOK
    /\ usage \in [Writers -> [Periods -> Nat \cup {NoUsage}]]
    /\ Checked

LEMMA IdleType ==
    /\ Idle \in Requests
    /\ Idle.pc = "idle"
  BY DEF Idle, Requests, Periods

LEMMA RequestType ==
    ASSUME LimIInv, NEW h \in Handlers
    PROVE  /\ req[h] \in Requests /\ req[h].n \in Nat /\ req[h].bucket \in Periods
           /\ req[h].writer \in Writers /\ req[h].limit \in Nat
           /\ req[h].seen \in Nat \cup {NoUsage}
           /\ Amount(h) \in Nat
  BY DEF LimIInv, LimiterTypeOK, Requests, Amount

LEMMA LimInit == Init => LimIInv
  <1> SUFFICES ASSUME Init PROVE LimIInv
    OBVIOUS
  <1>1. \A h \in Handlers : req[h] = Idle
    BY DEF Init
  <1>2. \A w \in Writers, b \in Periods : usage[w][b] = NoUsage
    BY DEF Init
  <1>3. /\ rates \in [Writers -> Rates \cup {NoRate}]
        /\ cached \in [Writers -> Adjusted \cup {NoRate}]
        /\ req \in [Handlers -> Requests]
        /\ usage \in [Writers -> [Periods -> Nat \cup {NoUsage}]]
        /\ admitted \in [Writers -> [Periods -> Nat]]
    BY IdleType DEF Init
  <1>4. now \in Periods
    BY DEF Init, Periods
  <1>5. LimiterTypeOK
    BY <1>2, <1>3, <1>4 DEF LimiterTypeOK
  <1>6. Checked
    BY <1>1, IdleType DEF Checked
  <1> QED
    BY <1>3, <1>5, <1>6 DEF LimIInv

\* A request goes from one state to another and commits nothing.
LEMMA RequestStep ==
    ASSUME LimIInv, NEW h \in Handlers, NEW r \in Requests,
           req' = [req EXCEPT ![h] = r],
           r.pc = "admitted" => /\ r.limit \in Limits
                                /\ r.n + (IF r.seen = NoUsage THEN 0 ELSE r.seen) <= r.limit,
           UNCHANGED <<now, usage, rates, cached, admitted>>
    PROVE  LimIInv'
  <1>1. req'[h] = r /\ \A g \in Handlers : g # h => req'[g] = req[g]
    BY DEF LimIInv, LimiterTypeOK
  <1>2. req' \in [Handlers -> Requests]
    BY DEF LimIInv, LimiterTypeOK
  <1>3. LimiterTypeOK'
    BY <1>2 DEF LimIInv, LimiterTypeOK
  <1>4. Checked'
    BY <1>1 DEF LimIInv, Checked, Amount
  <1> QED
    BY <1>3, <1>4 DEF LimIInv

\* Limits and housekeeping: requests stay, usage rows stay or go.
LEMMA UsageStep ==
    ASSUME LimIInv, now' \in Periods, UNCHANGED <<req, admitted>>,
           rates' \in [Writers -> Rates \cup {NoRate}],
           cached' \in [Writers -> Adjusted \cup {NoRate}],
           usage' \in [Writers -> [Periods -> Nat \cup {NoUsage}]],
           \A w \in Writers, b \in Periods :
               usage'[w][b] = usage[w][b] \/ usage'[w][b] = NoUsage
    PROVE  LimIInv'
  <1>1. LimiterTypeOK'
    BY DEF LimIInv, LimiterTypeOK
  <1>2. Checked'
    BY DEF LimIInv, Checked, Amount
  <1> QED
    BY <1>1, <1>2 DEF LimIInv

LEMMA LimNext == LimIInv /\ [Next]_vars => LimIInv'
  <1> SUFFICES ASSUME LimIInv, [Next]_vars PROVE LimIInv'
    OBVIOUS
  <1>0. /\ now \in Periods
        /\ usage \in [Writers -> [Periods -> Nat \cup {NoUsage}]]
        /\ rates \in [Writers -> Rates \cup {NoRate}]
        /\ cached \in [Writers -> Adjusted \cup {NoRate}]
        /\ admitted \in [Writers -> [Periods -> Nat]]
        /\ req \in [Handlers -> Requests]
    BY DEF LimIInv, LimiterTypeOK
  <1>1. ASSUME NEW h \in Handlers, NEW w \in Writers, NEW n \in 1..MaxBatch,
               SelectUsage(h, w, n)
        PROVE  LimIInv'
    <2> DEFINE r == [Idle EXCEPT !.pc = "read", !.n = n, !.bucket = now, !.writer = w,
                                 !.seen = usage[w][now]]
    <2>1. n \in 0..MaxBatch /\ usage[w][now] \in Nat \cup {NoUsage}
      BY <1>0
    <2>2. r \in Requests /\ r.pc = "read"
      BY <1>0, <2>1, IdleType DEF Requests
    <2> QED
      BY <1>1, <2>2, RequestStep DEF SelectUsage
  <1>2. ASSUME NEW h \in Handlers, WriteUsage(h)
        PROVE  LimIInv'
    <2>1. [req[h] EXCEPT !.pc = "written"] \in Requests
          /\ [req[h] EXCEPT !.pc = "written"].pc = "written"
      BY RequestType DEF Requests
    <2>2. \E r \in {Idle, [req[h] EXCEPT !.pc = "written"]} : req' = [req EXCEPT ![h] = r]
      BY <1>2 DEF WriteUsage
    <2> QED
      BY <1>2, <2>1, <2>2, IdleType, RequestStep DEF WriteUsage
  <1>3. ASSUME NEW h \in Handlers, Compare(h)
        PROVE  LimIInv'
    <2> DEFINE limit == LimitForWriter(req[h].writer)
               r == [req[h] EXCEPT !.pc = "admitted", !.limit = limit]
    <2>1. limit \in Limits
      BY <1>0, RequestType DEF LimitForWriter, Limits
    <2>2. r \in Requests /\ r.limit = limit /\ r.n = req[h].n /\ r.seen = req[h].seen
      BY <2>1, LimitsType, RequestType DEF Requests
    <2>3. CASE Amount(h) <= limit
      <3>1. req' = [req EXCEPT ![h] = r]
        BY <1>3, <2>3 DEF Compare
      <3>2. r.n + (IF r.seen = NoUsage THEN 0 ELSE r.seen) <= r.limit
        BY <2>2, <2>3 DEF Amount
      <3> HIDE DEF r, limit
      <3> QED
        BY <1>3, <2>1, <2>2, <3>1, <3>2, RequestStep DEF Compare
    <2>4. CASE ~(Amount(h) <= limit)
      BY <1>3, <2>4, IdleType, RequestStep DEF Compare
    <2> QED
      BY <2>3, <2>4
  <1>4. ASSUME NEW h \in Handlers, Commit(h)
        PROVE  LimIInv'
    <2> DEFINE w == req[h].writer
               b == req[h].bucket
    <2>1. w \in Writers /\ b \in Periods /\ Amount(h) \in Nat /\ req[h].n \in Nat
      BY RequestType
    <2>2. req[h].limit \in Limits /\ Amount(h) <= req[h].limit
      BY <1>4 DEF Commit, LimIInv, Checked
    <2>3. \E m \in Adjusted \cup {DefaultLimit} : Amount(h) \in 0..m
      BY <2>1, <2>2, LimitsType DEF Limits
    <2>4. usage' \in [Writers -> [Periods -> Nat \cup {NoUsage}]]
          /\ \A v \in Writers, c \in Periods :
                usage'[v][c] = IF v = w /\ c = b THEN Amount(h) ELSE usage[v][c]
      BY <1>0, <1>4, <2>1 DEF Commit
    <2>5. admitted' \in [Writers -> [Periods -> Nat]]
      BY <1>0, <1>4, <2>1 DEF Commit
    <2>6. req' \in [Handlers -> Requests] /\ req'[h] = Idle
          /\ \A g \in Handlers : g # h => req'[g] = req[g]
      BY <1>0, <1>4, IdleType DEF Commit
    <2>7. LimiterTypeOK'
      <3>1. \A v \in Writers, c \in Periods :
                \/ usage'[v][c] = NoUsage
                \/ \E m \in Adjusted \cup {DefaultLimit} : usage'[v][c] \in 0..m
        <4>1. \A v \in Writers, c \in Periods :
                  \/ usage[v][c] = NoUsage
                  \/ \E m \in Adjusted \cup {DefaultLimit} : usage[v][c] \in 0..m
          BY <1>0 DEF LimIInv, LimiterTypeOK
        <4>2. TAKE v \in Writers, c \in Periods
        <4>3. CASE v = w /\ c = b
          BY <2>3, <2>4, <4>3
        <4>4. CASE ~(v = w /\ c = b)
          BY <2>4, <4>1, <4>4, Zenon
        <4> QED
          BY <4>3, <4>4
      <3> QED
        BY <1>0, <1>4, <2>5, <2>6, <3>1 DEF Commit, LimiterTypeOK
    <2>8. Checked'
      BY <2>6, IdleType DEF LimIInv, Checked, Amount
    <2> QED
      BY <2>4, <2>7, <2>8 DEF LimIInv
  <1>5. ASSUME NEW h \in Handlers, Rollback(h)
        PROVE  LimIInv'
    BY <1>5, IdleType, RequestStep DEF Rollback
  <1>6. ASSUME NEW w \in Writers, NEW limit \in RateLimits,
               UpdateWriterRateLimit(w, limit)
        PROVE  LimIInv'
    <2>1. PerMinute(limit) \in Rates
      BY LimitsType
    <2> QED
      BY <1>0, <1>6, <2>1, UsageStep DEF UpdateWriterRateLimit
  <1>7. ASSUME NEW w \in Writers, DeleteWriterRateLimit(w)
        PROVE  LimIInv'
    BY <1>0, <1>7, UsageStep DEF DeleteWriterRateLimit
  <1>8. CASE RefreshWriterLimits
    <2>1. cached' \in [Writers -> Adjusted \cup {NoRate}]
      BY <1>0, <1>8, LimitsType DEF RefreshWriterLimits
    <2> QED
      BY <1>0, <1>8, <2>1, UsageStep DEF RefreshWriterLimits
  <1>9. CASE DeleteOldUsageData
    BY <1>0, <1>9, UsageStep DEF DeleteOldUsageData
  <1>10. CASE Tick
    BY <1>0, <1>10, UsageStep DEF Tick, Periods
  <1>11. CASE UNCHANGED vars
    BY <1>0, <1>11, UsageStep DEF vars
  <1> QED
    BY <1>1, <1>2, <1>3, <1>4, <1>5, <1>6, <1>7, <1>8, <1>9, <1>10, <1>11 DEF Next

-----------------------------------------------------------------------------
(* One Mutate of a writer at a time: the limiter is exact *)

\* What a request read is still all that its writer has mutated in the period.
SeenIsAdmitted ==
    \A h \in Handlers :
        req[h].pc # "idle" =>
            admitted[req[h].writer][req[h].bucket]
              = IF req[h].seen = NoUsage THEN 0 ELSE req[h].seen

SerialIInv == LimIInv /\ OneAtATime /\ SeenIsAdmitted /\ UsageIsAdmitted

LEMMA SerialInit == Init => SerialIInv
  <1> SUFFICES ASSUME Init PROVE SerialIInv
    OBVIOUS
  <1>1. \A h \in Handlers : req[h] = Idle
    BY DEF Init
  <1>2. OneAtATime /\ SeenIsAdmitted
    BY <1>1, IdleType DEF OneAtATime, SeenIsAdmitted
  <1>3. UsageIsAdmitted
    BY DEF Init, UsageIsAdmitted
  <1> QED
    BY <1>2, <1>3, LimInit DEF SerialIInv

\* A step of h that commits nothing: what it read is its own, or it is idle.
LEMMA SerialRequestStep ==
    ASSUME SerialIInv, NEW h \in Handlers, NEW r \in Requests,
           req' = [req EXCEPT ![h] = r],
           UNCHANGED <<now, usage, admitted>>,
           r.pc # "idle" =>
               admitted[r.writer][r.bucket] = IF r.seen = NoUsage THEN 0 ELSE r.seen
    PROVE  SeenIsAdmitted' /\ UsageIsAdmitted'
  <1>1. req'[h] = r /\ \A g \in Handlers : g # h => req'[g] = req[g]
    BY DEF SerialIInv, LimIInv, LimiterTypeOK
  <1>2. SeenIsAdmitted'
    BY <1>1 DEF SerialIInv, SeenIsAdmitted
  <1>3. UsageIsAdmitted'
    BY DEF SerialIInv, UsageIsAdmitted
  <1> QED
    BY <1>2, <1>3

LEMMA SerialNext == SerialIInv /\ [Next /\ OneAtATime']_vars => SerialIInv'
  <1> SUFFICES ASSUME SerialIInv, [Next /\ OneAtATime']_vars PROVE SerialIInv'
    OBVIOUS
  <1>0. /\ LimIInv /\ OneAtATime /\ SeenIsAdmitted /\ UsageIsAdmitted
        /\ now \in Nat /\ Periods \subseteq Nat /\ now \in Periods
    BY DEF SerialIInv, LimIInv, LimiterTypeOK, Periods
  <1>1. LimIInv' /\ OneAtATime'
    <2>1. LimIInv'
      BY <1>0, LimNext
    <2>2. CASE UNCHANGED vars
      BY <1>0, <2>1, <2>2 DEF vars, OneAtATime
    <2> QED
      BY <2>1, <2>2
  <1>2. ASSUME NEW h \in Handlers, NEW w \in Writers, NEW n \in 1..MaxBatch,
               SelectUsage(h, w, n)
        PROVE  SeenIsAdmitted' /\ UsageIsAdmitted'
    <2> DEFINE r == [Idle EXCEPT !.pc = "read", !.n = n, !.bucket = now, !.writer = w,
                                 !.seen = usage[w][now]]
    <2>1. n \in 0..MaxBatch /\ usage[w][now] \in Nat \cup {NoUsage}
      BY <1>0 DEF LimIInv
    <2>2. r \in Requests /\ r.writer = w /\ r.bucket = now /\ r.seen = usage[w][now]
      BY <1>0, <2>1, IdleType DEF Requests
    <2>3. ~(now < now - Keep)
      BY <1>0
    <2>4. admitted[w][now] = IF usage[w][now] = NoUsage THEN 0 ELSE usage[w][now]
      BY <1>0, <2>3 DEF UsageIsAdmitted
    <2> HIDE DEF r
    <2> QED
      BY <1>2, <2>2, <2>4, SerialRequestStep DEF SelectUsage, r
  <1>3. ASSUME NEW h \in Handlers, WriteUsage(h) \/ Compare(h) \/ Rollback(h)
        PROVE  SeenIsAdmitted' /\ UsageIsAdmitted'
    <2>0. req[h] \in Requests /\ req[h].pc # "idle"
      BY <1>0, <1>3, RequestType DEF WriteUsage, Compare, Rollback
    <2>1. PICK r : /\ req' = [req EXCEPT ![h] = r]
                   /\ \/ r = Idle
                      \/ r = [req[h] EXCEPT !.pc = "written"]
                      \/ r = [req[h] EXCEPT !.pc = "admitted",
                                            !.limit = LimitForWriter(req[h].writer)]
      BY <1>3 DEF WriteUsage, Compare, Rollback
    <2>2. r \in Requests
      BY <1>0, <1>1, <2>1 DEF LimIInv, LimiterTypeOK
    <2>3. r = Idle \/ (r.writer = req[h].writer /\ r.bucket = req[h].bucket /\ r.seen = req[h].seen)
      BY <2>0, <2>1 DEF Requests
    <2>4. r.pc # "idle" =>
               admitted[r.writer][r.bucket] = IF r.seen = NoUsage THEN 0 ELSE r.seen
      BY <1>0, <2>0, <2>3, IdleType DEF SeenIsAdmitted
    <2> QED
      BY <1>3, <2>1, <2>2, <2>4, SerialRequestStep DEF WriteUsage, Compare, Rollback
  <1>4. ASSUME NEW h \in Handlers, Commit(h)
        PROVE  SeenIsAdmitted' /\ UsageIsAdmitted'
    <2> DEFINE w == req[h].writer
               b == req[h].bucket
    <2>1. /\ w \in Writers /\ b \in Periods /\ Amount(h) \in Nat /\ req[h].n \in Nat
          /\ req[h].seen \in Nat \cup {NoUsage}
      BY <1>0, RequestType
    <2>2. \A v \in Writers, c \in Periods :
              /\ usage'[v][c] = IF v = w /\ c = b THEN Amount(h) ELSE usage[v][c]
              /\ admitted'[v][c] = IF v = w /\ c = b THEN admitted[v][c] + req[h].n
                                                     ELSE admitted[v][c]
      BY <1>0, <1>4, <2>1 DEF Commit, LimIInv, LimiterTypeOK
    <2>3. admitted[w][b] + req[h].n = Amount(h)
      BY <1>0, <1>4, <2>1 DEF Commit, SeenIsAdmitted, Amount
    <2>4. UsageIsAdmitted'
      BY <1>0, <1>4, <2>1, <2>2, <2>3 DEF Commit, UsageIsAdmitted
    <2>5. req'[h] = Idle /\ \A g \in Handlers : g # h => req'[g] = req[g]
      BY <1>0, <1>4 DEF Commit, LimIInv, LimiterTypeOK
    <2>6. ASSUME NEW g \in Handlers, req'[g].pc # "idle"
          PROVE  admitted'[req'[g].writer][req'[g].bucket]
                   = IF req'[g].seen = NoUsage THEN 0 ELSE req'[g].seen
      <3>1. g # h /\ req'[g] = req[g]
        BY <2>5, <2>6, IdleType
      <3>2. req[g].writer \in Writers /\ req[g].bucket \in Periods
        BY <1>0, RequestType
      <3>3. req[g].writer # w
        BY <1>0, <1>4, <2>6, <3>1 DEF Commit, OneAtATime
      <3>4. admitted'[req[g].writer][req[g].bucket] = admitted[req[g].writer][req[g].bucket]
        BY <2>2, <3>2, <3>3
      <3>5. admitted[req[g].writer][req[g].bucket]
              = IF req[g].seen = NoUsage THEN 0 ELSE req[g].seen
        BY <1>0, <2>6, <3>1 DEF SeenIsAdmitted
      <3> QED
        BY <3>1, <3>4, <3>5
    <2> QED
      BY <2>4, <2>6 DEF SeenIsAdmitted
  <1>5. ASSUME UNCHANGED <<now, usage, req, admitted>>
        PROVE  SeenIsAdmitted' /\ UsageIsAdmitted'
    BY <1>0, <1>5 DEF SeenIsAdmitted, UsageIsAdmitted
  <1>6. ASSUME DeleteOldUsageData PROVE SeenIsAdmitted' /\ UsageIsAdmitted'
    <2>1. SeenIsAdmitted'
      BY <1>0, <1>6 DEF DeleteOldUsageData, SeenIsAdmitted
    <2>2. UsageIsAdmitted'
      BY <1>0, <1>6 DEF DeleteOldUsageData, UsageIsAdmitted
    <2> QED
      BY <2>1, <2>2
  <1>7. ASSUME Tick PROVE SeenIsAdmitted' /\ UsageIsAdmitted'
    <2>1. SeenIsAdmitted'
      BY <1>0, <1>7 DEF Tick, SeenIsAdmitted
    <2>2. UsageIsAdmitted'
      BY <1>0, <1>7 DEF Tick, UsageIsAdmitted
    <2> QED
      BY <2>1, <2>2
  <1>8. SeenIsAdmitted' /\ UsageIsAdmitted'
    <2>1. CASE RefreshWriterLimits \/ UNCHANGED vars
      BY <1>5, <2>1 DEF RefreshWriterLimits, vars
    <2>2. ASSUME NEW w \in Writers,
                 DeleteWriterRateLimit(w) \/ \E limit \in RateLimits : UpdateWriterRateLimit(w, limit)
          PROVE  SeenIsAdmitted' /\ UsageIsAdmitted'
      BY <1>5, <2>2 DEF DeleteWriterRateLimit, UpdateWriterRateLimit
    <2> QED
      BY <1>2, <1>3, <1>4, <1>6, <1>7, <2>1, <2>2 DEF Next
  <1> QED
    BY <1>1, <1>8 DEF SerialIInv

LEMMA SerialInvariance == SerialSpec => []SerialIInv
  BY SerialInit, SerialNext, PTL DEF SerialSpec

-----------------------------------------------------------------------------
(* Theorems *)

\* Whatever the handlers do at once, also two Mutates of one writer: no row
\* of writer_usage ever exceeds the highest limit that can be configured.
THEOREM UsageBounded == Spec => []LimiterTypeOK
  <1>1. LimIInv => LimiterTypeOK
    BY DEF LimIInv
  <1> QED
    BY <1>1, LimInit, LimNext, PTL DEF Spec

\* A writer with one Mutate at a time is admitted only within the limit it is
\* checked with: all it mutated in the period and what it is about to mutate.
THEOREM QuotaKept == SerialSpec => []WithinQuota
  <1>1. ASSUME SerialIInv PROVE WithinQuota
    <2> SUFFICES ASSUME NEW h \in Handlers, req[h].pc = "admitted"
                 PROVE  admitted[req[h].writer][req[h].bucket] + req[h].n <= req[h].limit
      BY DEF WithinQuota
    <2>1. /\ req[h].n \in Nat /\ req[h].seen \in Nat \cup {NoUsage}
          /\ Amount(h) <= req[h].limit
      BY <1>1, RequestType DEF SerialIInv, LimIInv, Checked
    <2>2. admitted[req[h].writer][req[h].bucket]
            = IF req[h].seen = NoUsage THEN 0 ELSE req[h].seen
      BY <1>1 DEF SerialIInv, SeenIsAdmitted
    <2> QED
      BY <2>1, <2>2 DEF Amount
  <1> QED
    BY <1>1, SerialInvariance, PTL

\* The usage of such a writer is what it mutated: a request that was refused
\* or failed is not charged, one that succeeded is, and a row that still
\* counts is not deleted.
THEOREM UsageExact == SerialSpec => []UsageIsAdmitted
  <1>1. SerialIInv => UsageIsAdmitted
    BY DEF SerialIInv
  <1> QED
    BY <1>1, SerialInvariance, PTL
=============================================================================
