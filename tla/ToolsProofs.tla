----------------------------- MODULE ToolsProofs -----------------------------
(*****************************************************************************)
(* Four memories with a limit: the completions a plugin session remembers,   *)
(* the jobs its registry keeps, the backups of scripts and the ring of log   *)
(* lines. Each forgets the oldest first, and what it still holds is true.    *)
(*****************************************************************************)
EXTENDS MCToolsSide, EditProofs

------------------------------------------------------------------------------
(*****************************************************************************)
(* The completions of a session, for any requests and deliveries.            *)
(*****************************************************************************)

\* The cache of a living session is the end of its log.
CacheIsTail(s) ==
  /\ Len(cache[s]) = IF Len(log[s]) < CacheLimit THEN Len(log[s]) ELSE CacheLimit
  /\ \A i \in 1 .. Len(cache[s]) : cache[s][i].req = log[s][Len(log[s]) - Len(cache[s]) + i]

ExecutorInv == TypeOK /\ NoRerunWithinWindow /\ \A s \in alive : CacheIsTail(s)

LEMMA InitExecutorInv == Init => ExecutorInv
<1> SUFFICES ASSUME Init PROVE ExecutorInv
  OBVIOUS
<1>1. TypeOK
  BY PluginAssumption, EmptySeq DEF Init, TypeOK
<1>2. \A s \in alive : cache[s] = <<>> /\ log[s] = <<>>
  BY DEF Init
<1>3. \A s \in alive : \A r \in Requests : ~ Running(s, r)
  BY DEF Init, Running
<1>4. \A s \in alive : CacheIsTail(s)
  <2> SUFFICES ASSUME NEW s \in alive PROVE CacheIsTail(s)
    OBVIOUS
  <2>1. Len(cache[s]) = 0 /\ Len(log[s]) = 0 /\ 0 < CacheLimit
    BY <1>2, PluginAssumption
  <2> QED BY <2>1 DEF CacheIsTail
<1> QED BY <1>1, <1>3, <1>4 DEF ExecutorInv, NoRerunWithinWindow

\* The types of one session's cache and log.
LEMMA SessionTypes ==
  ASSUME TypeOK, NEW s \in alive
  PROVE  /\ s \in Sessions
         /\ cache[s] \in Seq(Results) /\ log[s] \in Seq(Requests)
         /\ Len(cache[s]) \in Nat /\ Len(log[s]) \in Nat
         /\ DOMAIN cache[s] = 1 .. Len(cache[s]) /\ DOMAIN log[s] = 1 .. Len(log[s])
         /\ CacheLimit \in Nat \ {0}
BY PluginAssumption, LenProperties DEF TypeOK

\* A log with r at its end and a cache that is its tail.
Logged(s, r, C, L) ==
  /\ C \in Seq(Results) /\ L \in Seq(Requests)
  /\ Len(L) = Len(log[s]) + 1 /\ \A i \in 1 .. Len(log[s]) : L[i] = log[s][i]
  /\ L[Len(log[s]) + 1] = r
  /\ Len(C) = IF Len(L) < CacheLimit THEN Len(L) ELSE CacheLimit
  /\ \A i \in 1 .. Len(C) : C[i].req = L[Len(L) - Len(C) + i]

\* A result joins the cache as its request joins the log, and the oldest makes room.
LEMMA RememberedIsTail ==
  ASSUME TypeOK, NEW s \in alive, CacheIsTail(s), NEW r \in Requests, NEW f \in Fences
  PROVE  Logged(s, r, Remembered(s, r, f), Append(log[s], r))
<1> DEFINE C == Remembered(s, r, f)
           L == Append(log[s], r)
<1>a. /\ cache[s] \in Seq(Results) /\ log[s] \in Seq(Requests)
      /\ Len(cache[s]) \in Nat /\ Len(log[s]) \in Nat /\ CacheLimit \in Nat \ {0}
  BY SessionTypes
<1> DEFINE e == [req |-> r, attempt |-> f.attempt]
           old == IF Len(cache[s]) >= CacheLimit THEN Tail(cache[s]) ELSE cache[s]
           n == Len(cache[s])
           m == Len(log[s])
<1>1. e \in Results /\ e.req = r
  BY DEF Results
<1>2. C = Append(old, e)
  BY DEF Remembered
<1>3. /\ L \in Seq(Requests) /\ Len(L) = m + 1 /\ \A i \in 1 .. m : L[i] = log[s][i]
      /\ L[m + 1] = r
  BY <1>a, AppendProperties DEF L
<1>4. /\ n = IF m < CacheLimit THEN m ELSE CacheLimit
      /\ \A i \in 1 .. n : cache[s][i].req = log[s][m - n + i]
  BY DEF CacheIsTail
<1>5. /\ old \in Seq(Results) /\ Len(old) = IF m < CacheLimit THEN m ELSE CacheLimit - 1
      /\ \A i \in 1 .. Len(old) : old[i].req = log[s][m - Len(old) + i]
  <2>1. CASE m < CacheLimit
    <3>1. n = m /\ ~ (n >= CacheLimit)
      BY <1>a, <1>4, <2>1
    <3>2. old = cache[s]
      BY <3>1
    <3> QED BY <1>a, <1>4, <2>1, <3>1, <3>2
  <2>2. CASE ~ (m < CacheLimit)
    <3>1. n = CacheLimit /\ cache[s] # <<>>
      BY <1>a, <1>4, <2>2
    <3>2. old = Tail(cache[s])
      BY <1>a, <3>1
    <3>3. /\ old \in Seq(Results) /\ Len(old) = CacheLimit - 1
          /\ \A i \in 1 .. Len(old) : old[i] = cache[s][i + 1]
      BY <1>a, <3>1, <3>2, HeadTailProperties
    <3>4. \A i \in 1 .. Len(old) : old[i].req = log[s][m - Len(old) + i]
      <4> SUFFICES ASSUME NEW i \in 1 .. Len(old) PROVE old[i].req = log[s][m - Len(old) + i]
        OBVIOUS
      <4>1. i + 1 \in 1 .. n /\ m - n + (i + 1) = m - Len(old) + i
        <5> DEFINE k == Len(old)
        <5>1. n \in Nat /\ m \in Nat /\ CacheLimit \in Nat /\ n = CacheLimit /\ k = CacheLimit - 1
              /\ i \in 1 .. k
          BY <1>a, <3>1, <3>3
        <5> HIDE DEF old, n, m, k
        <5>2. i + 1 \in 1 .. n /\ m - n + (i + 1) = m - k + i
          BY <5>1
        <5> QED BY <5>2 DEF k
      <4> QED BY <1>4, <3>3, <4>1
    <3> QED BY <2>2, <3>3, <3>4
  <2> QED BY <2>1, <2>2
<1> HIDE DEF e, old, n, C, L
<1>6. /\ C \in Seq(Results) /\ Len(C) = Len(old) + 1
      /\ \A i \in 1 .. Len(old) : C[i] = old[i]
      /\ C[Len(old) + 1] = e
  BY <1>1, <1>2, <1>5, AppendProperties
<1>7. Len(C) = IF Len(L) < CacheLimit THEN Len(L) ELSE CacheLimit
  BY <1>a, <1>3, <1>5, <1>6
<1>8. \A i \in 1 .. Len(C) : C[i].req = L[Len(L) - Len(C) + i]
  <2> SUFFICES ASSUME NEW i \in 1 .. Len(C) PROVE C[i].req = L[Len(L) - Len(C) + i]
    OBVIOUS
  <2>1. Len(old) \in Nat /\ Len(old) <= m
    BY <1>a, <1>5
  <2>2. CASE i = Len(old) + 1
    <3>1. C[i] = e /\ Len(L) - Len(C) + i = m + 1
      <4> HIDE DEF m
      <4>1. m \in Nat
        BY <1>a DEF m
      <4> QED BY <1>3, <1>6, <2>1, <2>2, <4>1
    <3> QED BY <1>1, <1>3, <3>1
  <2>3. CASE i \in 1 .. Len(old)
    <3>1. /\ m - Len(old) + i \in 1 .. m
          /\ Len(L) - Len(C) + i = m - Len(old) + i
      BY <1>a, <1>3, <1>6, <2>1, <2>3
    <3> QED BY <1>3, <1>5, <1>6, <2>3, <3>1
  <2> QED BY <1>6, <2>1, <2>2, <2>3
<1>9. Logged(s, r, C, L)
  BY <1>3, <1>6, <1>7, <1>8 DEF Logged
<1> QED BY <1>9 DEF C, L

LEMMA StepExecutorInv == ExecutorInv /\ [Next]_pluginVars => ExecutorInv'
<1> SUFFICES ASSUME ExecutorInv, [Next]_pluginVars PROVE ExecutorInv'
  OBVIOUS
<1>a. TypeOK /\ NoRerunWithinWindow /\ \A s \in alive : CacheIsTail(s)
  BY DEF ExecutorInv
<1>b. /\ alive \subseteq Sessions
      /\ running \in [Sessions -> [Requests -> Fences \cup {NoFence}]]
      /\ cache \in [Sessions -> Seq(Results)]
      /\ ran \in [Sessions -> [Requests -> 0..MaxRuns]]
      /\ log \in [Sessions -> Seq(Requests)]
      /\ CacheLimit \in Nat \ {0} /\ MaxRuns \in Nat
  BY <1>a, PluginAssumption DEF TypeOK
<1> DEFINE Goal == ExecutorInv'
<1>1. ASSUME NEW s \in Sessions, NEW r \in Requests, NEW f \in Fences, Start(s, r, f) PROVE Goal
  <2>1. /\ s \in alive /\ ~ Cached(s, r) /\ ran[s][r] < MaxRuns
        /\ running' = [running EXCEPT ![s][r] = f] /\ ran' = [ran EXCEPT ![s][r] = @ + 1]
        /\ UNCHANGED <<alive, cache, log>>
    BY <1>1 DEF Start
  <2>2. running' \in [Sessions -> [Requests -> Fences \cup {NoFence}]]
    BY <1>b, <2>1
  <2>3. ran' \in [Sessions -> [Requests -> 0..MaxRuns]]
    <3>1. ran[s][r] + 1 \in 0..MaxRuns
      BY <1>b, <2>1
    <3> QED BY <1>b, <2>1, <3>1
  <2>4. TypeOK'
    BY <1>b, <2>1, <2>2, <2>3 DEF TypeOK
  <2>5. NoRerunWithinWindow'
    <3> SUFFICES ASSUME NEW t \in alive, NEW q \in Requests, running'[t][q] # NoFence,
                        NEW i \in DOMAIN log[t], log[t][i] = q
                 PROVE  i <= Len(log[t]) - CacheLimit
      BY <2>1 DEF NoRerunWithinWindow, Running
    <3>1. CASE t = s /\ q = r
      <4>1. /\ Len(cache[s]) \in Nat /\ Len(log[s]) \in Nat
            /\ DOMAIN cache[s] = 1 .. Len(cache[s]) /\ DOMAIN log[s] = 1 .. Len(log[s])
        BY <1>a, <2>1, SessionTypes
      <4>2. CacheIsTail(s)
        BY <1>a, <2>1
      <4>3. ASSUME i > Len(log[s]) - Len(cache[s]) PROVE FALSE
        <5> DEFINE m == Len(log[s])
                   n == Len(cache[s])
                   k == i - (m - n)
        <5>1. k \in 1 .. n /\ m - n + k = i
          <6>1. m \in Nat /\ n \in Nat /\ i \in 1 .. m /\ i > m - n
            BY <3>1, <4>1, <4>3
          <6> HIDE DEF m, n
          <6> QED BY <6>1
        <5> HIDE DEF k
        <5>2. cache[s][k].req = r
          BY <3>1, <4>2, <5>1 DEF CacheIsTail
        <5> QED BY <2>1, <4>1, <5>1, <5>2 DEF Cached
      <4>4. Len(cache[s]) = IF Len(log[s]) < CacheLimit THEN Len(log[s]) ELSE CacheLimit
        BY <4>2 DEF CacheIsTail
      <4>5. i <= Len(log[s]) - CacheLimit
        <5> DEFINE m == Len(log[s])
                   n == Len(cache[s])
        <5>1. /\ m \in Nat /\ n \in Nat /\ i \in 1 .. m /\ ~ (i > m - n)
              /\ n = IF m < CacheLimit THEN m ELSE CacheLimit
              /\ CacheLimit \in Nat
          BY <1>b, <3>1, <4>1, <4>3, <4>4
        <5> HIDE DEF m, n
        <5>2. i <= m - CacheLimit
          BY <5>1
        <5> QED BY <5>2 DEF m
      <4> QED BY <3>1, <4>5
    <3>2. CASE ~(t = s /\ q = r)
      <4>1. running'[t][q] = running[t][q]
        BY <1>b, <2>1, <3>2
      <4> QED BY <1>a, <4>1 DEF NoRerunWithinWindow, Running
    <3> QED BY <3>1, <3>2
  <2>6. \A t \in alive : CacheIsTail(t)'
    BY <1>a, <2>1 DEF CacheIsTail
  <2> QED BY <2>1, <2>4, <2>5, <2>6 DEF ExecutorInv
<1>2. ASSUME NEW s \in Sessions, NEW r \in Requests, Complete(s, r) PROVE Goal
  <2> DEFINE f == running[s][r]
             C == Remembered(s, r, f)
             L == Append(log[s], r)
  <2>1. /\ s \in alive /\ f \in Fences
        /\ running' = [running EXCEPT ![s][r] = NoFence]
        /\ cache' = [cache EXCEPT ![s] = C] /\ log' = [log EXCEPT ![s] = L]
        /\ UNCHANGED <<alive, ran>>
    BY <1>2, <1>b DEF Complete, Running
  <2>2. CacheIsTail(s)
    BY <1>a, <2>1
  <2> HIDE DEF f
  <2>3. /\ C \in Seq(Results) /\ L \in Seq(Requests)
        /\ Len(L) = Len(log[s]) + 1 /\ \A i \in 1 .. Len(log[s]) : L[i] = log[s][i]
        /\ L[Len(log[s]) + 1] = r
        /\ Len(C) = IF Len(L) < CacheLimit THEN Len(L) ELSE CacheLimit
        /\ \A i \in 1 .. Len(C) : C[i].req = L[Len(L) - Len(C) + i]
    <3>1. Logged(s, r, Remembered(s, r, f), Append(log[s], r))
      BY <1>a, <2>1, <2>2, RememberedIsTail
    <3> QED BY <3>1 DEF Logged
  <2> HIDE DEF C, L
  <2>4. /\ cache'[s] = C /\ log'[s] = L
        /\ \A t \in Sessions \ {s} : cache'[t] = cache[t] /\ log'[t] = log[t]
    BY <1>b, <2>1
  <2>5. TypeOK'
    <3>1. running' \in [Sessions -> [Requests -> Fences \cup {NoFence}]]
      BY <1>b, <2>1
    <3>2. cache' \in [Sessions -> Seq(Results)] /\ log' \in [Sessions -> Seq(Requests)]
      BY <1>b, <2>1, <2>3
    <3> QED BY <1>b, <2>1, <3>1, <3>2 DEF TypeOK
  <2>6. NoRerunWithinWindow'
    <3> SUFFICES ASSUME NEW t \in alive, NEW q \in Requests, running'[t][q] # NoFence,
                        NEW i \in DOMAIN log'[t], log'[t][i] = q
                 PROVE  i <= Len(log'[t]) - CacheLimit
      BY <2>1 DEF NoRerunWithinWindow, Running
    <3>1. ~ (t = s /\ q = r) /\ running[t][q] # NoFence
      BY <1>b, <2>1
    <3>2. /\ Len(log[t]) \in Nat /\ DOMAIN log[t] = 1 .. Len(log[t])
      BY <1>a, SessionTypes
    <3>3. \A k \in DOMAIN log[t] : log[t][k] = q => k <= Len(log[t]) - CacheLimit
      BY <1>a, <3>1 DEF NoRerunWithinWindow, Running
    <3>4. CASE t = s
      <4>1. i \in 1 .. Len(log[s]) + 1 /\ log'[s] = L
        <5>1. DOMAIN L = 1 .. Len(L)
          BY <2>3, LenProperties
        <5> QED BY <2>3, <2>4, <3>4, <5>1
      <4>2. i # Len(log[s]) + 1
        BY <2>3, <3>1, <3>4, <4>1
      <4>3. i \in DOMAIN log[s] /\ log[s][i] = q
        <5> DEFINE m == Len(log[s])
        <5>1. m \in Nat /\ i \in 1 .. m + 1 /\ i # m + 1
          BY <3>2, <3>4, <4>1, <4>2
        <5> HIDE DEF m
        <5>2. i \in 1 .. m
          BY <5>1
        <5>3. log'[t][i] = L[i] /\ DOMAIN log[s] = 1 .. m
          BY <2>4, <3>2, <3>4 DEF m
        <5> QED BY <2>3, <5>2, <5>3 DEF m
      <4>4. i <= Len(log[s]) - CacheLimit
        BY <3>3, <3>4, <4>3
      <4> QED BY <1>b, <2>3, <3>2, <3>4, <4>1, <4>4
    <3>5. CASE t # s
      BY <1>b, <2>4, <3>3, <3>5
    <3> QED BY <3>4, <3>5
  <2>7. \A t \in alive : CacheIsTail(t)'
    <3> SUFFICES ASSUME NEW t \in alive PROVE CacheIsTail(t)'
      OBVIOUS
    <3>1. CASE t = s
      BY <2>3, <2>4, <3>1 DEF CacheIsTail
    <3>2. CASE t # s
      BY <1>a, <1>b, <2>4, <3>2 DEF CacheIsTail
    <3> QED BY <3>1, <3>2
  <2> QED BY <2>1, <2>5, <2>6, <2>7 DEF ExecutorInv
<1>3. ASSUME NEW s \in Sessions, Crash(s) PROVE Goal
  <2>1. /\ alive' = alive \ {s}
        /\ running' = [running EXCEPT ![s] = [r \in Requests |-> NoFence]]
        /\ cache' = [cache EXCEPT ![s] = <<>>] /\ UNCHANGED <<ran, log>>
    BY <1>3 DEF Crash
  <2>2. <<>> \in Seq(Results)
    BY EmptySeq
  <2>3. TypeOK'
    BY <1>b, <2>1, <2>2 DEF TypeOK
  <2>4. \A t \in alive' : t \in alive /\ running'[t] = running[t] /\ cache'[t] = cache[t]
    BY <1>b, <2>1
  <2>5. NoRerunWithinWindow'
    BY <1>a, <2>1, <2>4 DEF NoRerunWithinWindow, Running
  <2>6. \A t \in alive' : CacheIsTail(t)'
    <3> SUFFICES ASSUME NEW t \in alive' PROVE CacheIsTail(t)'
      OBVIOUS
    <3>1. CacheIsTail(t) /\ cache'[t] = cache[t] /\ log' = log
      BY <1>a, <2>1, <2>4
    <3> QED BY <3>1 DEF CacheIsTail
  <2> QED BY <2>3, <2>5, <2>6 DEF ExecutorInv
<1>4. ASSUME UNCHANGED pluginVars PROVE Goal
  BY <1>a, <1>4 DEF pluginVars, ExecutorInv, TypeOK, NoRerunWithinWindow, Running, CacheIsTail
<1> HIDE DEF Goal
<1>5. Goal
  BY <1>1, <1>2, <1>3, <1>4 DEF Next
<1> QED BY <1>5 DEF Goal

LEMMA ExecutorInvariance == Spec => []ExecutorInv
BY InitExecutorInv, StepExecutorInv, PTL DEF Spec

\* The window of the cache is the end of the log.
LEMMA TailIsRecentLog == ASSUME TypeOK, \A s \in alive : CacheIsTail(s) PROVE CacheIsRecentLog
<1> SUFFICES ASSUME NEW s \in alive
             PROVE  [i \in DOMAIN cache[s] |-> cache[s][i].req]
                    = SubSeq(log[s], IF Len(log[s]) > CacheLimit THEN Len(log[s]) - CacheLimit + 1 ELSE 1,
                             Len(log[s]))
  BY DEF CacheIsRecentLog
<1>a. /\ cache[s] \in Seq(Results) /\ log[s] \in Seq(Requests)
      /\ Len(cache[s]) \in Nat /\ Len(log[s]) \in Nat /\ CacheLimit \in Nat \ {0}
      /\ DOMAIN cache[s] = 1 .. Len(cache[s])
  BY SessionTypes
<1> DEFINE n == Len(cache[s])
           m == Len(log[s])
           from == IF m > CacheLimit THEN m - CacheLimit + 1 ELSE 1
           reqs == [i \in 1 .. n |-> cache[s][i].req]
           end == SubSeq(log[s], from, m)
<1>1. /\ n = IF m < CacheLimit THEN m ELSE CacheLimit
      /\ \A i \in 1 .. n : cache[s][i].req = log[s][m - n + i]
  BY DEF CacheIsTail
<1>2. from \in Int /\ from >= 1 /\ from = m - n + 1
  BY <1>a, <1>1
<1>3. \A i \in from .. m : log[s][i] \in Requests
  BY <1>a, <1>2, ElementOfSeq
<1> HIDE DEF n, m, from
<1>4. /\ end \in Seq(Requests) /\ Len(end) = IF from <= m THEN m - from + 1 ELSE 0
      /\ \A i \in 1 .. m - from + 1 : end[i] = log[s][from + i - 1]
  <2>1. m \in Int
    BY <1>a DEF m
  <2> QED BY <1>2, <1>3, <2>1, SubSeqProperties
<1>5. n \in Nat /\ m \in Nat
  BY <1>a DEF n, m
<1>6. Len(end) = n
  BY <1>2, <1>4, <1>5
<1>7. \A i \in 1 .. n : cache[s][i].req \in Requests
  <2>1. \A i \in 1 .. n : cache[s][i] \in Results
    BY <1>a, ElementOfSeq DEF n
  <2> QED BY <2>1 DEF Results
<1>8. reqs \in Seq(Requests) /\ Len(reqs) = n
  BY <1>5, <1>7
<1>9. \A i \in 1 .. n : reqs[i] = end[i]
  <2> SUFFICES ASSUME NEW i \in 1 .. n PROVE reqs[i] = end[i]
    OBVIOUS
  <2>1. i \in 1 .. m - from + 1 /\ from + i - 1 = m - n + i
    BY <1>2, <1>5
  <2> QED BY <1>1, <1>4, <2>1
<1> HIDE DEF reqs, end
<1>10. reqs = end
  BY <1>4, <1>6, <1>8, <1>9, SeqEqual
<1> QED BY <1>a, <1>10 DEF reqs, end, n, m, from

\* What a session runs, remembers and has run keeps its type.
THEOREM ExecutorTypes == Spec => []TypeOK
<1>1. ExecutorInv => TypeOK
  BY DEF ExecutorInv
<1> QED BY <1>1, ExecutorInvariance, PTL

\* The cache is the last completions, and no request runs again while it is one of
\* them, for every order and number of deliveries and every CacheLimit.
THEOREM RepeatsFindTheirAnswer == Spec => []RepeatsAreAnswered
<1>1. ExecutorInv => RepeatsAreAnswered
  BY TailIsRecentLog DEF ExecutorInv, RepeatsAreAnswered
<1> QED BY <1>1, ExecutorInvariance, PTL

------------------------------------------------------------------------------
(*****************************************************************************)
(* The job registry, for any jobs and every MAX_JOBS.                        *)
(*****************************************************************************)

\* The history names each job once, when it ended; a stored result is in it.
HistoryIsTrue ==
  /\ \A i, k \in DOMAIN finished : finished[i] = finished[k] => i = k
  /\ \A i \in DOMAIN finished : finished[i] \notin threads
  /\ \A j \in Jobs : jobs[j] \in Ended => \E i \in DOMAIN finished : finished[i] = j
  /\ \A j \in results : \E i \in DOMAIN finished : finished[i] = j

JobsInv == JobsTypeOK /\ JobsAreKept /\ HistoryIsTrue

KnownIn(table) == {j \in Jobs : table[j] # "unknown"}
Over(table) == Cardinality(KnownIn(table)) - MaxJobs
-----------------------------------------------------------------------------
LEMMA HistoryTypes ==
  ASSUME JobsTypeOK
  PROVE  /\ finished \in Seq(Jobs) /\ Len(finished) \in Nat /\ DOMAIN finished = 1 .. Len(finished)
         /\ \A i \in DOMAIN finished : finished[i] \in Jobs
BY LenProperties, ElementOfSeq DEF JobsTypeOK

LEMMA KnownFinite ==
  ASSUME NEW table
  PROVE  /\ IsFiniteSet(KnownIn(table)) /\ Cardinality(KnownIn(table)) \in Nat
         /\ Over(table) \in Int
<1>1. KnownIn(table) \in SUBSET Jobs /\ IsFiniteSet(Jobs) /\ MaxJobs \in Nat
  BY JobsAssumption DEF KnownIn
<1>2. IsFiniteSet(KnownIn(table))
  BY <1>1, FS_Subset
<1>3. Cardinality(KnownIn(table)) \in Nat
  BY <1>2, FS_CardinalityType
<1> QED BY <1>1, <1>2, <1>3 DEF Over

\* The rank of a finished job grows along the history.
LEMMA RankGrows ==
  ASSUME NEW table, NEW k \in Nat, NEW i \in 1 .. k
  PROVE  /\ IsFiniteSet(FinishedOf(table, k)) /\ Cardinality(FinishedOf(table, k)) \in Nat
         /\ FinishedOf(table, i) \subseteq FinishedOf(table, k)
         /\ Cardinality(FinishedOf(table, i)) \in Nat
         /\ Cardinality(FinishedOf(table, i)) <= Cardinality(FinishedOf(table, k))
<1>1. IsFiniteSet(1 .. k)
  BY FS_Interval
<1>2. FinishedOf(table, k) \in SUBSET (1 .. k)
  BY DEF FinishedOf
<1>3. IsFiniteSet(FinishedOf(table, k))
  BY <1>1, <1>2, FS_Subset
<1>4. FinishedOf(table, i) \in SUBSET FinishedOf(table, k)
  BY DEF FinishedOf
<1>5. IsFiniteSet(FinishedOf(table, i))
      /\ Cardinality(FinishedOf(table, i)) <= Cardinality(FinishedOf(table, k))
  BY <1>3, <1>4, FS_Subset
<1> QED BY <1>3, <1>4, <1>5, FS_CardinalityType

\* What is pruned ended, and is the oldest of what ended.
LEMMA PrunedFacts ==
  ASSUME JobsTypeOK, NEW table
  PROVE  /\ \A x \in Pruned(table) : table[x] \in Ended
         /\ \A i, k \in DOMAIN finished :
              i < k /\ finished[k] \in Pruned(table) /\ HistoryIsTrue /\ table[finished[i]] \in Ended
              => finished[i] \in Pruned(table)
<1>a. Len(finished) \in Nat /\ DOMAIN finished = 1 .. Len(finished)
  BY HistoryTypes
<1>1. Pruned(table) = {finished[i] : i \in {i \in FinishedOf(table, Len(finished)) :
                                             Cardinality(FinishedOf(table, i)) <= Over(table)}}
  BY DEF Pruned, Over, KnownIn
<1>2. \A x \in Pruned(table) : table[x] \in Ended
  BY <1>1 DEF FinishedOf
<1>3. ASSUME NEW i \in DOMAIN finished, NEW k \in DOMAIN finished, i < k,
             finished[k] \in Pruned(table), HistoryIsTrue, table[finished[i]] \in Ended
      PROVE  finished[i] \in Pruned(table)
  <2>1. PICK n \in FinishedOf(table, Len(finished)) :
          finished[n] = finished[k] /\ Cardinality(FinishedOf(table, n)) <= Over(table)
    BY <1>1, <1>3
  <2>2. n = k
    BY <1>a, <1>3, <2>1 DEF HistoryIsTrue, FinishedOf
  <2>3. k \in Nat /\ i \in 1 .. k
    BY <1>a, <1>3
  <2>4. Cardinality(FinishedOf(table, i)) <= Over(table)
    BY <2>1, <2>2, <2>3, RankGrows, KnownFinite
  <2>5. i \in FinishedOf(table, Len(finished))
    BY <1>a, <1>3 DEF FinishedOf
  <2> QED BY <1>1, <2>4, <2>5
<1> QED BY <1>2, <1>3

LEMMA InitJobsInv == JobsInit => JobsInv
<1> SUFFICES ASSUME JobsInit PROVE JobsInv
  OBVIOUS
<1>1. finished = <<>> /\ DOMAIN finished = {} /\ <<>> \in Seq(Jobs)
  BY EmptySeq DEF JobsInit
<1> QED BY <1>1 DEF JobsInit, JobsInv, JobsTypeOK, JobsAreKept, HistoryIsTrue, ThreadsAreKnown,
                  CancelledHasNoResult, OldestForgottenFirst, JobStatuses, RunningIn, Ended

LEMMA StepJobsInv == JobsInv /\ [JobsNext]_jobVars => JobsInv'
<1> SUFFICES ASSUME JobsInv, [JobsNext]_jobVars PROVE JobsInv'
  OBVIOUS
<1>a. /\ JobsTypeOK /\ HistoryIsTrue /\ ThreadsAreKnown /\ CancelledHasNoResult
      /\ OldestForgottenFirst
  BY DEF JobsInv, JobsAreKept
<1>b. /\ jobs \in [Jobs -> JobStatuses] /\ marked \subseteq Jobs /\ results \subseteq Jobs
      /\ threads \subseteq Jobs /\ finished \in Seq(Jobs)
      /\ Len(finished) \in Nat /\ DOMAIN finished = 1 .. Len(finished)
      /\ \A i \in DOMAIN finished : finished[i] \in Jobs
  BY <1>a, HistoryTypes DEF JobsTypeOK
<1>c. \A j \in Jobs : (j \in threads <=> jobs[j] = "running")
  BY <1>a, <1>b DEF ThreadsAreKnown, RunningIn
<1> DEFINE Goal == JobsInv'
<1>1. ASSUME NEW j \in Jobs, StartJob(j) PROVE Goal
  <2> DEFINE table == [jobs EXCEPT ![j] = "running"]
             gone == Pruned(table)
  <2>1. /\ jobs[j] = "unknown" /\ j \notin threads /\ \A i \in DOMAIN finished : finished[i] # j
        /\ jobs' = [i \in Jobs |-> IF i \in gone THEN "unknown" ELSE table[i]]
        /\ threads' = threads \cup {j}
        /\ UNCHANGED <<marked, results, finished>>
    BY <1>1 DEF StartJob
  <2>2. \A i \in Jobs : table[i] = IF i = j THEN "running" ELSE jobs[i]
    BY <1>b
  <2> HIDE DEF table
  <2>3. \A x \in gone : table[x] \in Ended
    BY <1>a, PrunedFacts
  <2>4. \A i, k \in DOMAIN finished :
          i < k /\ finished[k] \in gone /\ table[finished[i]] \in Ended => finished[i] \in gone
    BY <1>a, PrunedFacts
  <2> HIDE DEF gone
  <2>5. \A i \in Jobs : jobs'[i] = IF i \in gone THEN "unknown" ELSE IF i = j THEN "running" ELSE jobs[i]
    BY <2>1, <2>2
  <2>6. JobsTypeOK'
    <3>1. jobs' \in [Jobs -> JobStatuses]
      BY <1>b, <2>1, <2>2 DEF JobStatuses
    <3> QED BY <1>b, <2>1, <3>1 DEF JobsTypeOK
  <2>7. \A i \in Jobs : jobs'[i] = "running" <=> i = j \/ jobs[i] = "running"
    BY <2>2, <2>3, <2>5 DEF Ended
  <2>8. ThreadsAreKnown'
    BY <1>b, <1>c, <2>1, <2>7 DEF ThreadsAreKnown, RunningIn
  <2>9. CancelledHasNoResult'
    BY <1>a, <2>1 DEF CancelledHasNoResult
  <2>10. OldestForgottenFirst'
    <3> SUFFICES ASSUME NEW i \in DOMAIN finished, NEW k \in DOMAIN finished, i < k,
                        jobs'[finished[k]] = "unknown"
                 PROVE  jobs'[finished[i]] = "unknown"
      BY <2>1 DEF OldestForgottenFirst
    <3>1. /\ finished[i] \in Jobs /\ finished[k] \in Jobs /\ finished[i] # j /\ finished[k] # j
          /\ jobs[finished[i]] # "running"
      BY <1>a, <1>b, <1>c, <2>1 DEF HistoryIsTrue
    <3>2. CASE jobs[finished[k]] = "unknown"
      BY <1>a, <2>5, <3>1, <3>2 DEF OldestForgottenFirst
    <3>3. CASE jobs[finished[k]] # "unknown"
      <4>1. finished[k] \in gone
        BY <2>5, <3>1, <3>3
      <4>2. CASE jobs[finished[i]] = "unknown"
        BY <2>5, <3>1, <4>2
      <4>3. CASE jobs[finished[i]] # "unknown"
        <5>1. table[finished[i]] \in Ended
          BY <1>b, <2>2, <3>1, <4>3 DEF JobStatuses, Ended
        <5>2. finished[i] \in gone
          BY <2>4, <4>1, <5>1
        <5> QED BY <2>5, <3>1, <5>2
      <4> QED BY <4>2, <4>3
    <3> QED BY <3>2, <3>3
  <2>11. HistoryIsTrue'
    BY <1>a, <1>b, <2>1, <2>5 DEF HistoryIsTrue, Ended
  <2> QED BY <2>6, <2>8, <2>9, <2>10, <2>11 DEF JobsInv, JobsAreKept
<1>2. ASSUME NEW j \in Jobs, CancelJob(j) PROVE Goal
  <2>1. jobs[j] = "running" /\ marked' = marked \cup {j} /\ UNCHANGED <<jobs, results, threads, finished>>
    BY <1>2 DEF CancelJob
  <2>2. j \notin results
    BY <1>a, <1>c, <2>1 DEF HistoryIsTrue
  <2> QED BY <1>a, <1>b, <2>1, <2>2
      DEF JobsInv, JobsAreKept, JobsTypeOK, HistoryIsTrue, ThreadsAreKnown, RunningIn,
          CancelledHasNoResult, OldestForgottenFirst
<1>3. ASSUME NEW j \in Jobs, FinishJob(j) PROVE Goal
  <2>1. PICK status \in {"cancelled", "done", "error"} :
          /\ j \in threads /\ threads' = threads \ {j} /\ jobs[j] = "running"
          /\ marked' = marked
          /\ jobs' = [jobs EXCEPT ![j] = status]
          /\ results' = IF status = "cancelled" THEN results ELSE results \cup {j}
          /\ finished' = Append(finished, j)
          /\ j \in marked => status = "cancelled"
    BY <1>3, <1>c DEF FinishJob, Discarded
  <2>2. /\ finished' \in Seq(Jobs) /\ Len(finished') = Len(finished) + 1
        /\ DOMAIN finished' = 1 .. Len(finished) + 1
        /\ \A i \in 1 .. Len(finished) : finished'[i] = finished[i]
        /\ finished'[Len(finished) + 1] = j
    BY <1>b, <2>1, AppendProperties, LenProperties
  <2>3. \A i \in DOMAIN finished : i \in DOMAIN finished' /\ finished'[i] = finished[i] /\ finished[i] # j
    BY <1>a, <1>b, <2>1, <2>2 DEF HistoryIsTrue
  <2>4. \A i \in DOMAIN finished' : i \in DOMAIN finished \/ i = Len(finished) + 1
    BY <1>b, <2>2
  <2>5. Len(finished) + 1 \in DOMAIN finished' /\ Len(finished) + 1 \notin DOMAIN finished
    BY <1>b, <2>2
  <2>6. \A i \in Jobs : jobs'[i] = IF i = j THEN status ELSE jobs[i]
    BY <1>b, <2>1
  <2>7. JobsTypeOK'
    BY <1>b, <2>1, <2>2 DEF JobsTypeOK, JobStatuses
  <2>8. ThreadsAreKnown'
    BY <1>b, <1>c, <2>1, <2>6 DEF ThreadsAreKnown, RunningIn
  <2>9. CancelledHasNoResult'
    BY <1>a, <2>1 DEF CancelledHasNoResult
  <2>10. OldestForgottenFirst'
    <3> SUFFICES ASSUME NEW i \in DOMAIN finished', NEW k \in DOMAIN finished', i < k,
                        jobs'[finished'[k]] = "unknown"
                 PROVE  jobs'[finished'[i]] = "unknown"
      BY DEF OldestForgottenFirst
    <3>1. k # Len(finished) + 1
      BY <2>1, <2>2, <2>6
    <3>2. k \in DOMAIN finished /\ i \in DOMAIN finished
      BY <1>b, <2>2, <3>1
    <3> QED BY <1>a, <1>b, <2>3, <2>6, <3>2 DEF OldestForgottenFirst
  <2>11. HistoryIsTrue'
    <3>1. \A i, k \in DOMAIN finished' : finished'[i] = finished'[k] => i = k
      BY <1>a, <2>2, <2>3, <2>4 DEF HistoryIsTrue
    <3>2. \A i \in DOMAIN finished' : finished'[i] \notin threads'
      BY <1>a, <2>1, <2>2, <2>3, <2>4 DEF HistoryIsTrue
    <3>3. \A i \in Jobs : jobs'[i] \in Ended => \E k \in DOMAIN finished' : finished'[k] = i
      BY <1>a, <2>2, <2>3, <2>5, <2>6 DEF HistoryIsTrue
    <3>4. \A i \in results' : \E k \in DOMAIN finished' : finished'[k] = i
      BY <1>a, <2>1, <2>2, <2>3, <2>5 DEF HistoryIsTrue
    <3> QED BY <3>1, <3>2, <3>3, <3>4 DEF HistoryIsTrue
  <2> QED BY <2>7, <2>8, <2>9, <2>10, <2>11 DEF JobsInv, JobsAreKept
<1>4. ASSUME UNCHANGED jobVars PROVE Goal
  BY <1>4, <1>a DEF jobVars, JobsInv, JobsAreKept, JobsTypeOK, HistoryIsTrue, ThreadsAreKnown,
      RunningIn, CancelledHasNoResult, OldestForgottenFirst
<1> HIDE DEF Goal
<1>5. Goal
  BY <1>1, <1>2, <1>3, <1>4 DEF JobsNext
<1> QED BY <1>5 DEF Goal

LEMMA JobsInvariance == JobsSpec => []JobsInv
BY InitJobsInv, StepJobsInv, PTL DEF JobsSpec

\* The table and the history of the registry keep their types.
THEOREM JobTypes == JobsSpec => []JobsTypeOK
<1>1. JobsInv => JobsTypeOK
  BY DEF JobsInv
<1> QED BY <1>1, JobsInvariance, PTL

\* A thread always finds its job, a cancelled job shows no result, and the oldest
\* outcome is forgotten first, for every set of jobs and every MAX_JOBS.
THEOREM OutcomesAreKept == JobsSpec => []JobsAreKept
<1>1. JobsInv => JobsAreKept
  BY DEF JobsInv
<1> QED BY <1>1, JobsInvariance, PTL

\* While a finished job stays in a table that was too large, enough others went.
LEMMA EnoughPruned ==
  ASSUME JobsTypeOK, HistoryIsTrue, NEW table,
         NEW n \in FinishedOf(table, Len(finished)), finished[n] \notin Pruned(table)
  PROVE  /\ IsFiniteSet(Pruned(table) \cap KnownIn(table))
         /\ Cardinality(Pruned(table) \cap KnownIn(table)) \in Nat
         /\ Over(table) <= Cardinality(Pruned(table) \cap KnownIn(table))
<1>a. /\ Len(finished) \in Nat /\ DOMAIN finished = 1 .. Len(finished)
      /\ \A i \in DOMAIN finished : finished[i] \in Jobs
  BY HistoryTypes
<1> DEFINE all == FinishedOf(table, Len(finished))
           over == Over(table)
           rank(i) == Cardinality(FinishedOf(table, i))
           first == {i \in all : rank(i) <= over}
           later == {i \in all : ~ (rank(i) <= over)}
           pruned == Pruned(table) \cap KnownIn(table)
<1>1. Pruned(table) = {finished[i] : i \in first}
  BY DEF Pruned, Over, KnownIn
<1>2. all \subseteq 1 .. Len(finished)
  BY DEF FinishedOf
<1>3. PICK m \in later : \A i \in later : m <= i
  <2>1. later # {} /\ later \subseteq Nat
    BY <1>a, <1>1, <1>2
  <2> HIDE DEF later
  <2> QED BY <2>1, LeastNatural
<1>4. FinishedOf(table, m) \ {m} \subseteq first
  <2> SUFFICES ASSUME NEW i \in FinishedOf(table, m), i # m PROVE i \in first
    OBVIOUS
  <2>1. m \in 1 .. Len(finished) /\ i \in 1 .. m
    BY <1>2 DEF FinishedOf
  <2>2. i \in all /\ i < m
    BY <1>a, <2>1 DEF FinishedOf
  <2>3. i \notin later
    BY <1>a, <1>3, <2>1, <2>2
  <2> QED BY <2>2, <2>3
<1>5. /\ IsFiniteSet(first) /\ Cardinality(first) \in Nat
      /\ IsFiniteSet(FinishedOf(table, m)) /\ rank(m) \in Nat
  <2>1. IsFiniteSet(1 .. Len(finished))
    BY <1>a, FS_Interval
  <2>2. IsFiniteSet(first) /\ IsFiniteSet(all)
    <3>1. first \in SUBSET (1 .. Len(finished)) /\ all \in SUBSET (1 .. Len(finished))
      BY <1>2
    <3> HIDE DEF first, all
    <3> QED BY <2>1, <3>1, FS_Subset
  <2>3. FinishedOf(table, m) \in SUBSET (1 .. Len(finished))
    BY <1>a, <1>2 DEF FinishedOf
  <2>4. IsFiniteSet(FinishedOf(table, m))
    BY <2>1, <2>3, FS_Subset
  <2> HIDE DEF first, all
  <2> QED BY <2>2, <2>4, FS_CardinalityType
<1>6. rank(m) - 1 <= Cardinality(first)
  <2> DEFINE rest == FinishedOf(table, m) \ {m}
  <2>1. rank(m) - 1 <= Cardinality(rest)
    <3>1. Cardinality(rest) = IF m \in FinishedOf(table, m) THEN rank(m) - 1 ELSE rank(m)
      BY <1>5, FS_RemoveElement
    <3> QED BY <1>5, <3>1
  <2>2. Cardinality(rest) <= Cardinality(first) /\ Cardinality(rest) \in Nat
    <3>1. rest \in SUBSET first
      BY <1>4
    <3>2. IsFiniteSet(first)
      BY <1>5
    <3> HIDE DEF rest, first
    <3> QED BY <3>1, <3>2, FS_Subset, FS_CardinalityType
  <2> HIDE DEF rest, first
  <2> QED BY <1>5, <2>1, <2>2
<1>7. over \in Int /\ ~ (rank(m) <= over)
  BY KnownFinite
<1>8. over <= Cardinality(first)
  <2> HIDE DEF over, first, rank
  <2> QED BY <1>5, <1>6, <1>7
<1>9. IsFiniteSet(pruned) /\ Cardinality(pruned) \in Nat
  <2>1. IsFiniteSet(KnownIn(table)) /\ pruned \in SUBSET KnownIn(table)
    BY KnownFinite
  <2> HIDE DEF pruned
  <2> QED BY <2>1, FS_Subset, FS_CardinalityType
<1>10. Cardinality(first) <= Cardinality(pruned)
  <2> DEFINE f == [i \in first |-> finished[i]]
  <2>1. \A i \in first : finished[i] \in pruned
    <3>1. \A i \in first : finished[i] \in Jobs /\ table[finished[i]] \in Ended
      BY <1>a, <1>2 DEF FinishedOf
    <3> HIDE DEF first
    <3> QED BY <1>1, <3>1 DEF KnownIn, Ended
  <2>2. \A i, k \in first : finished[i] = finished[k] => i = k
    BY <1>a, <1>2 DEF HistoryIsTrue
  <2> HIDE DEF first, pruned
  <2>3. f \in Injection(first, pruned)
    BY <2>1, <2>2 DEF Injection, IsInjective
  <2> HIDE DEF f
  <2> QED BY <1>9, <2>3, FS_Injection
<1> HIDE DEF first, pruned, over
<1>11. over <= Cardinality(pruned)
  <2>1. Cardinality(first) \in Nat
    BY <1>5
  <2> QED BY <1>7, <1>8, <1>9, <1>10, <2>1
<1> QED BY <1>9, <1>11 DEF pruned, over

\* A job is made: the table is within its limit again, or what it holds runs.
THEOREM TableStaysBounded == JobsSpec => TableIsBounded
<1> DEFINE Step == threads \subseteq threads' =>
                     \/ Cardinality({j \in Jobs : jobs'[j] # "unknown"}) <= MaxJobs
                     \/ \A j \in Jobs : jobs'[j] \in {"unknown", "running"}
                     \/ threads = threads'
<1>1. JobsInv /\ [JobsNext]_jobVars => Step
  <2> SUFFICES ASSUME JobsInv, [JobsNext]_jobVars, threads \subseteq threads', threads # threads',
                      NEW x \in Jobs, jobs'[x] \notin {"unknown", "running"}
               PROVE  Cardinality({j \in Jobs : jobs'[j] # "unknown"}) <= MaxJobs
    OBVIOUS
  <2>1. PICK j \in Jobs : StartJob(j)
    BY DEF JobsNext, CancelJob, FinishJob, jobVars
  <2> DEFINE table == [jobs EXCEPT ![j] = "running"]
             known == KnownIn(table)
             pruned == Pruned(table) \cap known
             left == {i \in Jobs : jobs'[i] # "unknown"}
  <2>2. /\ jobs[j] = "unknown"
        /\ jobs' = [i \in Jobs |-> IF i \in Pruned(table) THEN "unknown" ELSE table[i]]
    BY <2>1 DEF StartJob
  <2>3. JobsTypeOK /\ HistoryIsTrue /\ jobs \in [Jobs -> JobStatuses] /\ MaxJobs \in Nat
    BY JobsAssumption DEF JobsInv, JobsTypeOK
  <2>4. \A i \in Jobs : table[i] = IF i = j THEN "running" ELSE jobs[i]
    BY <2>3
  <2>5. x \notin Pruned(table) /\ x # j /\ jobs[x] \in Ended
    BY <2>2, <2>3, <2>4 DEF JobStatuses, Ended
  <2>6. PICK n \in DOMAIN finished : finished[n] = x
    BY <2>3, <2>5 DEF HistoryIsTrue
  <2>7. n \in FinishedOf(table, Len(finished)) /\ finished[n] \notin Pruned(table)
    BY <2>3, <2>4, <2>5, <2>6, HistoryTypes DEF FinishedOf
  <2> HIDE DEF table
  <2>8. IsFiniteSet(pruned) /\ Cardinality(pruned) \in Nat /\ Over(table) <= Cardinality(pruned)
    BY <2>3, <2>7, EnoughPruned
  <2>9. IsFiniteSet(known) /\ Cardinality(known) \in Nat /\ Over(table) = Cardinality(known) - MaxJobs
    BY KnownFinite DEF Over
  <2>10. left = known \ pruned
    BY <2>2 DEF KnownIn
  <2>11. known \cap pruned = pruned
    OBVIOUS
  <2> HIDE DEF known, pruned, left
  <2>12. Cardinality(left) = Cardinality(known) - Cardinality(pruned)
    BY <2>8, <2>9, <2>10, <2>11, FS_Difference
  <2>13. Cardinality(left) <= MaxJobs
    BY <2>3, <2>8, <2>9, <2>12
  <2> QED BY <2>13 DEF left
<1> QED BY <1>1, JobsInvariance, PTL DEF JobsSpec, TableIsBounded

------------------------------------------------------------------------------
(*****************************************************************************)
(* The backups of scripts, for any calls, paths and limit.                   *)
(*****************************************************************************)

\* What a script may hold, what a backup may be.
ScriptTexts == Sources \cup {Beginning}
BackupEntries == [path : ScriptPaths, text : ScriptTexts]

CallPhases == {"none", "reading", "backing up", "writing", "done"}
SetRecords == [phase : CallPhases, script : Scripted \cup {<<>>}, text : ScriptTexts \cup {NoSource},
               read : ScriptTexts \cup {NoSource}, warned : BOOLEAN]

\* A call at work has a script and a text, one about to back up has read; only a
\* set reads.
CallsAreTyped ==
  /\ call \in [SetCalls -> SetRecords]
  /\ \A c \in SetCalls :
       /\ call[c].phase \in {"reading", "backing up", "writing"}
            => call[c].script \in Scripted /\ call[c].text \in ScriptTexts
       /\ call[c].phase = "backing up" => call[c].read \in ScriptTexts
       /\ call[c].phase \in {"reading", "backing up"} => c \in Setters

\* The backups are within their limit, one for each path.
KeptIsTyped ==
  /\ kept \in Seq(BackupEntries) /\ Len(kept) <= backupLimit
  /\ \A i, j \in DOMAIN kept : kept[i].path = kept[j].path => i = j

\* What the script of a set holds before the backup, and what the set read, are among
\* the texts of its call.
ReadsOfCall(c) ==
  /\ call[c].phase \in {"reading", "backing up"} => source[call[c].script] \in callTexts[c]
  /\ call[c].phase = "backing up" => \E text \in callTexts[c] : call[c].read = Answered(text)
ReadsAreOfTheCall == \A c \in Setters : ReadsOfCall(c)

BackupInv ==
  /\ source \in [Scripted -> ScriptTexts]
  /\ callTexts \in [Setters -> SUBSET ScriptTexts]
  /\ backupTexts \in [ScriptPaths -> SUBSET ScriptTexts]
  /\ overwritten \in [Scripted -> ScriptTexts \cup {NoSource}]
  /\ CallsAreTyped /\ KeptIsTyped /\ ReadsAreOfTheCall /\ BackupIsOfItsCall
-----------------------------------------------------------------------------
\* What backupScript makes of the backups: the entry is there, the others are old
\* ones, and none is there twice.
LEMMA BackupIsKept ==
  ASSUME KeptIsTyped, NEW path \in ScriptPaths, NEW text \in ScriptTexts,
         NEW k, k = backupScript(path, text)
  PROVE  /\ k \in Seq(BackupEntries) /\ Len(k) <= backupLimit
         /\ \A i, j \in DOMAIN k : k[i].path = k[j].path => i = j
         /\ \E i \in DOMAIN k : k[i].path = path /\ k[i].text = text
         /\ \A i \in DOMAIN k : k[i].path # path => \E j \in DOMAIN kept : k[i] = kept[j]
<1> DEFINE entry == [path |-> path, text |-> text]
           all == IF KeptFor(path) = {} THEN Append(kept, entry)
                  ELSE [i \in DOMAIN kept |-> IF i \in KeptFor(path) THEN entry ELSE kept[i]]
<1>1. entry \in BackupEntries /\ entry.path = path /\ entry.text = text
  BY DEF BackupEntries
<1>2. k = IF Len(all) > backupLimit THEN Tail(all) ELSE all
  BY DEF backupScript, Trimmed
<1>3. /\ kept \in Seq(BackupEntries) /\ Len(kept) \in Nat /\ DOMAIN kept = 1 .. Len(kept)
      /\ backupLimit \in Nat \ {0} /\ Len(kept) <= backupLimit
      /\ \A i \in DOMAIN kept : kept[i] \in BackupEntries
  BY BackupAssumption, ElementOfSeq, LenProperties DEF KeptIsTyped
<1> HIDE DEF entry
<1>4. CASE KeptFor(path) # {}
  <2>1. all = [i \in 1 .. Len(kept) |-> IF i \in KeptFor(path) THEN entry ELSE kept[i]]
    BY <1>3, <1>4
  <2> HIDE DEF all
  <2>2. all \in Seq(BackupEntries) /\ Len(all) = Len(kept) /\ DOMAIN all = DOMAIN kept
    BY <1>1, <1>3, <2>1
  <2>3. k = all
    <3>1. ~ (Len(all) > backupLimit)
      BY <1>3, <2>2
    <3> QED BY <1>2, <3>1
  <2>4. \A i \in DOMAIN k : /\ i \in KeptFor(path) => k[i] = entry
                            /\ i \notin KeptFor(path) => k[i] = kept[i]
    BY <1>3, <2>1, <2>2, <2>3
  <2>5. \A i \in DOMAIN k : k[i].path = kept[i].path
    BY <1>1, <2>2, <2>3, <2>4 DEF KeptFor
  <2>6. \A i, j \in DOMAIN k : k[i].path = k[j].path => i = j
    BY <2>2, <2>3, <2>5 DEF KeptIsTyped
  <2>7. \E i \in DOMAIN k : k[i].path = path /\ k[i].text = text
    BY <1>1, <1>4, <2>2, <2>3, <2>4 DEF KeptFor
  <2>8. \A i \in DOMAIN k : k[i].path # path => \E j \in DOMAIN kept : k[i] = kept[j]
    BY <1>1, <2>2, <2>3, <2>4 DEF KeptFor
  <2> QED BY <1>3, <2>2, <2>3, <2>6, <2>7, <2>8
<1>5. CASE KeptFor(path) = {}
  <2>1. all = Append(kept, entry)
    BY <1>5
  <2> HIDE DEF all
  <2>2. /\ all \in Seq(BackupEntries) /\ Len(all) = Len(kept) + 1
        /\ \A i \in 1 .. Len(kept) : all[i] = kept[i]
        /\ all[Len(kept) + 1] = entry
    BY <1>1, <1>3, <2>1, AppendProperties
  <2>3. \A i \in 1 .. Len(kept) : kept[i].path # path
    BY <1>3, <1>5 DEF KeptFor
  <2>4. DOMAIN all = 1 .. Len(kept) + 1
    BY <2>2
  <2>5. \A i, j \in DOMAIN all : all[i].path = all[j].path => i = j
    <3> SUFFICES ASSUME NEW i \in 1 .. Len(kept) + 1, NEW j \in 1 .. Len(kept) + 1,
                        all[i].path = all[j].path
                 PROVE  i = j
      BY <2>4
    <3>1. CASE i \in 1 .. Len(kept) /\ j \in 1 .. Len(kept)
      BY <1>3, <2>2, <3>1 DEF KeptIsTyped
    <3>2. CASE i = Len(kept) + 1 /\ j \in 1 .. Len(kept)
      BY <1>1, <2>2, <2>3, <3>2
    <3>3. CASE i \in 1 .. Len(kept) /\ j = Len(kept) + 1
      BY <1>1, <2>2, <2>3, <3>3
    <3> QED BY <1>3, <3>1, <3>2, <3>3
  <2>6. CASE Len(all) > backupLimit
    <3>1. k = Tail(all) /\ all # <<>>
      BY <1>2, <1>3, <2>2, <2>6
    <3>2. /\ k \in Seq(BackupEntries) /\ Len(k) = Len(kept) /\ DOMAIN k = 1 .. Len(kept)
          /\ \A i \in 1 .. Len(kept) : k[i] = all[i + 1]
      BY <1>3, <2>2, <3>1, HeadTailProperties
    <3>3. Len(kept) >= 1
      BY <1>3, <2>2, <2>6
    <3>4. \E i \in DOMAIN k : k[i].path = path /\ k[i].text = text
      <4>1. Len(kept) \in DOMAIN k /\ k[Len(kept)] = entry
        BY <1>3, <2>2, <3>2, <3>3
      <4> QED BY <1>1, <4>1
    <3>5. \A i, j \in DOMAIN k : k[i].path = k[j].path => i = j
      <4> SUFFICES ASSUME NEW i \in 1 .. Len(kept), NEW j \in 1 .. Len(kept), k[i].path = k[j].path
                   PROVE  i = j
        BY <3>2
      <4>1. i + 1 \in DOMAIN all /\ j + 1 \in DOMAIN all /\ all[i + 1].path = all[j + 1].path
        BY <1>3, <2>4, <3>2
      <4>2. i + 1 = j + 1
        BY <2>5, <4>1
      <4> QED BY <1>3, <4>2
    <3>6. \A i \in DOMAIN k : k[i].path # path => \E j \in DOMAIN kept : k[i] = kept[j]
      <4> SUFFICES ASSUME NEW i \in 1 .. Len(kept), k[i].path # path
                   PROVE  \E j \in DOMAIN kept : k[i] = kept[j]
        BY <3>2
      <4>1. i + 1 \in 1 .. Len(kept) /\ k[i] = all[i + 1]
        BY <1>1, <1>3, <2>2, <3>2
      <4> QED BY <1>3, <2>2, <4>1
    <3> QED BY <1>3, <3>2, <3>4, <3>5, <3>6
  <2>7. CASE ~ (Len(all) > backupLimit)
    <3>1. k = all
      BY <1>2, <2>7
    <3>2. Len(all) <= backupLimit
      BY <1>3, <2>2, <2>7
    <3>3. \E i \in DOMAIN all : all[i].path = path /\ all[i].text = text
      <4>1. Len(kept) + 1 \in DOMAIN all
        BY <1>3, <2>4
      <4> QED BY <1>1, <2>2, <4>1
    <3>4. \A i \in DOMAIN all : all[i].path # path => \E j \in DOMAIN kept : all[i] = kept[j]
      BY <1>1, <1>3, <2>2, <2>4
    <3> QED BY <2>2, <2>5, <3>1, <3>2, <3>3, <3>4
  <2> QED BY <2>6, <2>7
<1> QED BY <1>4, <1>5

LEMMA InitBackupInv == BackupInit => BackupInv
<1> SUFFICES ASSUME BackupInit PROVE BackupInv
  OBVIOUS
<1>1. /\ source \in [Scripted -> ScriptTexts] /\ callTexts \in [Setters -> SUBSET ScriptTexts]
      /\ backupTexts \in [ScriptPaths -> SUBSET ScriptTexts]
      /\ overwritten \in [Scripted -> ScriptTexts \cup {NoSource}]
  BY DEF BackupInit, ScriptTexts
<1>2. /\ call \in [SetCalls -> SetRecords] /\ \A c \in SetCalls : call[c].phase = "none"
  <2>1. NoCall \in SetRecords /\ NoCall.phase = "none"
    BY DEF NoCall, SetRecords, CallPhases
  <2> QED BY <2>1 DEF BackupInit
<1>3. KeptIsTyped /\ BackupIsOfItsCall
  BY BackupAssumption, EmptySeq DEF BackupInit, KeptIsTyped, BackupIsOfItsCall
<1>4. CallsAreTyped
  BY <1>2 DEF CallsAreTyped
<1>5. ReadsAreOfTheCall
  BY <1>2 DEF ReadsAreOfTheCall, ReadsOfCall, SetCalls
<1> QED BY <1>1, <1>3, <1>4, <1>5 DEF BackupInv

\* One call changes, the others keep their records.
LEMMA CallChanges ==
  ASSUME CallsAreTyped, NEW d \in SetCalls, NEW rec \in SetRecords, call' = [call EXCEPT ![d] = rec],
         rec.phase \in {"reading", "backing up", "writing"}
           => rec.script \in Scripted /\ rec.text \in ScriptTexts,
         rec.phase = "backing up" => rec.read \in ScriptTexts,
         rec.phase \in {"reading", "backing up"} => d \in Setters
  PROVE  CallsAreTyped' /\ call'[d] = rec /\ \A c \in SetCalls \ {d} : call'[c] = call[c]
BY DEF CallsAreTyped

LEMMA DoneRecord ==
  /\ [NoCall EXCEPT !.phase = "done"] \in SetRecords
  /\ [NoCall EXCEPT !.phase = "done"].phase = "done"
BY DEF NoCall, SetRecords, CallPhases

\* The reads of the calls that a step leaves alone stand if it leaves the texts alone.
LEMMA ReadsStand ==
  ASSUME BackupInv, source' = source, NEW d \in SetCalls,
         \A c \in SetCalls \ {d} : call'[c] = call[c],
         \A c \in Setters \ {d} : callTexts'[c] = callTexts[c],
         d \in Setters => ReadsOfCall(d)'
  PROVE  ReadsAreOfTheCall'
<1> SUFFICES ASSUME NEW c \in Setters PROVE ReadsOfCall(c)'
  BY DEF ReadsAreOfTheCall
<1>1. CASE c = d
  BY <1>1
<1>2. CASE c # d
  <2>1. call'[c] = call[c] /\ callTexts'[c] = callTexts[c] /\ ReadsOfCall(c)
    BY <1>2 DEF BackupInv, ReadsAreOfTheCall, SetCalls
  <2> QED BY <2>1 DEF ReadsOfCall
<1> QED BY <1>1, <1>2

\* A text of a script goes to all the sets that are yet to back up.
LEMMA ReadsGrow ==
  ASSUME BackupInv, NEW s \in Scripted, NEW text \in ScriptTexts, Becomes(s, text),
         \A c \in Setters : call'[c] = call[c] \/ call'[c].phase = "done"
  PROVE  /\ source' \in [Scripted -> ScriptTexts] /\ callTexts' \in [Setters -> SUBSET ScriptTexts]
         /\ ReadsAreOfTheCall'
<1>1. source' \in [Scripted -> ScriptTexts] /\ callTexts' \in [Setters -> SUBSET ScriptTexts]
  BY DEF BackupInv, Becomes
<1>2. ASSUME NEW c \in Setters PROVE ReadsOfCall(c)'
  <2>1. CASE call'[c].phase = "done"
    BY <2>1 DEF ReadsOfCall
  <2>2. CASE call'[c] = call[c]
    <3>1. ReadsOfCall(c) /\ callTexts[c] \subseteq callTexts'[c]
      BY DEF BackupInv, ReadsAreOfTheCall, Becomes
    <3>2. ASSUME call[c].phase \in {"reading", "backing up"}
          PROVE  source'[call[c].script] \in callTexts'[c]
      <4>1. call[c].script \in Scripted
        BY <3>2 DEF BackupInv, CallsAreTyped, SetCalls
      <4> QED BY <3>1, <3>2, <4>1 DEF Becomes, BackupInv, ReadsOfCall
    <3> QED BY <2>2, <3>1, <3>2 DEF ReadsOfCall
  <2> QED BY <2>1, <2>2
<1> QED BY <1>1, <1>2 DEF ReadsAreOfTheCall

LEMMA StepBackupInv == BackupInv /\ [BackupNext]_backupVars => BackupInv'
<1> SUFFICES ASSUME BackupInv, [BackupNext]_backupVars PROVE BackupInv'
  OBVIOUS
<1>a. /\ source \in [Scripted -> ScriptTexts] /\ callTexts \in [Setters -> SUBSET ScriptTexts]
      /\ backupTexts \in [ScriptPaths -> SUBSET ScriptTexts]
      /\ overwritten \in [Scripted -> ScriptTexts \cup {NoSource}]
      /\ CallsAreTyped /\ KeptIsTyped /\ ReadsAreOfTheCall /\ BackupIsOfItsCall
  BY DEF BackupInv
<1>b. /\ call \in [SetCalls -> SetRecords] /\ kept \in Seq(BackupEntries)
      /\ \A i \in DOMAIN kept : kept[i] \in BackupEntries
  BY <1>a, ElementOfSeq, LenProperties DEF CallsAreTyped, KeptIsTyped
<1> DEFINE Goal == BackupInv'
<1>1. ASSUME NEW c \in SetCalls, NEW s \in Scripted, NEW t \in Sources, Ask(c, s, t) PROVE Goal
  <2> DEFINE rec == [NoCall EXCEPT !.phase = "reading", !.script = s, !.text = t]
  <2>1. rec \in SetRecords /\ rec.phase = "reading" /\ rec.script = s /\ rec.text = t
    BY DEF SetRecords, ScriptTexts, CallPhases, NoCall
  <2>2. call' = [call EXCEPT ![c] = rec] /\ c \in Setters
        /\ callTexts' = [callTexts EXCEPT ![c] = {source[s]}]
        /\ UNCHANGED <<source, kept, backupTexts, overwritten>>
    BY <1>1 DEF Ask
  <2> HIDE DEF rec
  <2>3. CallsAreTyped' /\ call'[c] = rec /\ \A x \in SetCalls \ {c} : call'[x] = call[x]
    BY <1>a, <2>1, <2>2, CallChanges DEF ScriptTexts
  <2>4. /\ callTexts' \in [Setters -> SUBSET ScriptTexts] /\ callTexts'[c] = {source[s]}
        /\ \A x \in Setters \ {c} : callTexts'[x] = callTexts[x]
    BY <1>a, <2>2
  <2>5. ReadsOfCall(c)'
    BY <2>1, <2>2, <2>3, <2>4 DEF ReadsOfCall
  <2>6. ReadsAreOfTheCall'
    BY <2>2, <2>3, <2>4, <2>5, ReadsStand
  <2> QED BY <1>a, <2>2, <2>3, <2>4, <2>6 DEF BackupInv, KeptIsTyped, BackupIsOfItsCall
<1>2. ASSUME NEW c \in SetCalls, ReadSource(c) PROVE Goal
  <2> DEFINE text == Answered(source[call[c].script])
             rec == [call[c] EXCEPT !.phase = "backing up", !.read = text]
  <2>1. call[c] \in SetRecords /\ call[c].phase = "reading" /\ call[c].script \in Scripted
        /\ call[c].text \in ScriptTexts /\ c \in Setters
    BY <1>a, <1>2 DEF CallsAreTyped, ReadSource
  <2>2. text \in ScriptTexts
    BY <1>a, <2>1 DEF Answered, ScriptTexts
  <2>3. /\ call' = [call EXCEPT ![c] = rec]
        /\ UNCHANGED <<source, kept, callTexts, backupTexts, overwritten>>
    BY <1>2, <1>b DEF ReadSource
  <2> HIDE DEF text
  <2>4. rec \in SetRecords /\ rec.phase = "backing up" /\ rec.read = text
        /\ rec.script = call[c].script /\ rec.text = call[c].text
    BY <2>1, <2>2 DEF SetRecords, CallPhases
  <2> HIDE DEF rec
  <2>5. CallsAreTyped' /\ call'[c] = rec /\ \A x \in SetCalls \ {c} : call'[x] = call[x]
    BY <1>a, <2>1, <2>2, <2>3, <2>4, CallChanges
  <2>6. ReadsOfCall(c)'
    <3>1. source[call[c].script] \in callTexts[c]
      BY <1>a, <2>1 DEF ReadsAreOfTheCall, ReadsOfCall
    <3> QED BY <2>3, <2>4, <2>5, <3>1 DEF ReadsOfCall, text
  <2>7. ReadsAreOfTheCall'
    BY <2>3, <2>5, <2>6, ReadsStand
  <2> QED BY <1>a, <2>3, <2>5, <2>7 DEF BackupInv, KeptIsTyped, BackupIsOfItsCall
<1>3. ASSUME NEW c \in SetCalls, ReadFails(c) PROVE Goal
  <2>1. call[c] \in SetRecords /\ call[c].phase = "reading" /\ call[c].script \in Scripted
        /\ call[c].text \in ScriptTexts /\ c \in Setters
    BY <1>a, <1>3 DEF CallsAreTyped, ReadFails
  <2>2. PICK warned \in BOOLEAN : call' = [call EXCEPT ![c].phase = "writing", ![c].warned = warned]
    BY <1>3 DEF ReadFails
  <2> DEFINE rec == [call[c] EXCEPT !.phase = "writing", !.warned = warned]
  <2>3. /\ call' = [call EXCEPT ![c] = rec] /\ callTexts' = [callTexts EXCEPT ![c] = {}]
        /\ UNCHANGED <<source, kept, backupTexts, overwritten>>
    BY <1>3, <1>b, <2>2 DEF ReadFails
  <2>4. rec \in SetRecords /\ rec.phase = "writing"
        /\ rec.script = call[c].script /\ rec.text = call[c].text
    BY <2>1 DEF SetRecords, CallPhases
  <2> HIDE DEF rec
  <2>5. CallsAreTyped' /\ call'[c] = rec /\ \A x \in SetCalls \ {c} : call'[x] = call[x]
    BY <1>a, <2>1, <2>3, <2>4, CallChanges
  <2>6. /\ callTexts' \in [Setters -> SUBSET ScriptTexts]
        /\ \A x \in Setters \ {c} : callTexts'[x] = callTexts[x]
    BY <1>a, <2>3
  <2>7. ReadsOfCall(c)'
    BY <2>4, <2>5 DEF ReadsOfCall
  <2>8. ReadsAreOfTheCall'
    BY <2>3, <2>5, <2>6, <2>7, ReadsStand
  <2> QED BY <1>a, <2>3, <2>5, <2>6, <2>8 DEF BackupInv, KeptIsTyped, BackupIsOfItsCall
<1>4. ASSUME NEW c \in SetCalls, BackUp(c) PROVE Goal
  <2> DEFINE rec == [call[c] EXCEPT !.phase = "writing"]
             s == call[c].script
  <2>1. call[c] \in SetRecords /\ call[c].phase = "backing up" /\ s \in Scripted
        /\ call[c].text \in ScriptTexts /\ call[c].read \in ScriptTexts /\ c \in Setters
    BY <1>a, <1>4 DEF CallsAreTyped, BackUp
  <2>2. s[2] \in ScriptPaths
    BY <2>1 DEF Scripted
  <2>3. /\ call' = [call EXCEPT ![c] = rec] /\ UNCHANGED <<source, overwritten>>
        /\ kept' = backupScript(s[2], call[c].read)
        /\ backupTexts' = [backupTexts EXCEPT ![s[2]] = callTexts[c]]
        /\ callTexts' = [callTexts EXCEPT ![c] = {}]
    BY <1>4, <1>b DEF BackUp
  <2>4. rec \in SetRecords /\ rec.phase = "writing"
        /\ rec.script = s /\ rec.text = call[c].text
    BY <2>1 DEF SetRecords, CallPhases
  <2> HIDE DEF rec, s
  <2>5. CallsAreTyped' /\ call'[c] = rec /\ \A x \in SetCalls \ {c} : call'[x] = call[x]
    BY <1>a, <2>1, <2>3, <2>4, CallChanges
  <2>6. /\ kept' \in Seq(BackupEntries) /\ Len(kept') <= backupLimit
        /\ \A i, j \in DOMAIN kept' : kept'[i].path = kept'[j].path => i = j
        /\ \E i \in DOMAIN kept' : kept'[i].path = s[2] /\ kept'[i].text = call[c].read
        /\ \A i \in DOMAIN kept' : kept'[i].path # s[2] => \E j \in DOMAIN kept : kept'[i] = kept[j]
    <3> DEFINE k == kept' path == s[2] text == call[c].read
    <3>1. k = backupScript(path, text) /\ path \in ScriptPaths /\ text \in ScriptTexts
      BY <2>1, <2>2, <2>3
    <3> HIDE DEF k, path, text
    <3>2. /\ k \in Seq(BackupEntries) /\ Len(k) <= backupLimit
          /\ \A i, j \in DOMAIN k : k[i].path = k[j].path => i = j
          /\ \E i \in DOMAIN k : k[i].path = path /\ k[i].text = text
          /\ \A i \in DOMAIN k : k[i].path # path => \E j \in DOMAIN kept : k[i] = kept[j]
      BY <1>a, <3>1, BackupIsKept
    <3> QED BY <3>2 DEF k, path, text
  <2>7. /\ callTexts' \in [Setters -> SUBSET ScriptTexts]
        /\ \A x \in Setters \ {c} : callTexts'[x] = callTexts[x]
        /\ backupTexts' \in [ScriptPaths -> SUBSET ScriptTexts] /\ backupTexts'[s[2]] = callTexts[c]
        /\ \A path \in ScriptPaths \ {s[2]} : backupTexts'[path] = backupTexts[path]
    BY <1>a, <2>1, <2>2, <2>3
  <2>8. ReadsAreOfTheCall'
    <3>1. ReadsOfCall(c)'
      BY <2>4, <2>5 DEF ReadsOfCall
    <3> QED BY <2>3, <2>5, <2>7, <3>1, ReadsStand
  <2>9. ASSUME NEW i \in DOMAIN kept'
        PROVE  \E text \in backupTexts'[kept'[i].path] : kept'[i].text = Answered(text)
    <3>1. CASE kept'[i].path = s[2]
      <4>1. kept'[i].text = call[c].read
        BY <2>6, <3>1
      <4>2. PICK text \in callTexts[c] : call[c].read = Answered(text)
        BY <1>a, <2>1 DEF ReadsAreOfTheCall, ReadsOfCall
      <4> QED BY <2>7, <3>1, <4>1, <4>2
    <3>2. CASE kept'[i].path # s[2]
      <4>1. PICK j \in DOMAIN kept : kept'[i] = kept[j]
        BY <2>6, <3>2
      <4>2. kept[j].path \in ScriptPaths \ {s[2]}
        BY <1>b, <3>2, <4>1 DEF BackupEntries
      <4>3. PICK text \in backupTexts[kept[j].path] : kept[j].text = Answered(text)
        BY <1>a DEF BackupIsOfItsCall
      <4> QED BY <2>7, <4>1, <4>2, <4>3
    <3> QED BY <3>1, <3>2
  <2>10. BackupIsOfItsCall'
    BY <2>9 DEF BackupIsOfItsCall, Answered
  <2> QED BY <1>a, <2>3, <2>5, <2>6, <2>7, <2>8, <2>10 DEF BackupInv, KeptIsTyped
<1>5. ASSUME NEW c \in SetCalls, NEW s \in Scripted, AskRestore(c, s) PROVE Goal
  <2>1. PICK i \in KeptFor(s[2]) :
          call' = [call EXCEPT ![c] = [NoCall EXCEPT !.phase = "writing", !.script = s,
                                                     !.text = kept[i].text]]
    BY <1>5 DEF AskRestore
  <2> DEFINE rec == [NoCall EXCEPT !.phase = "writing", !.script = s, !.text = kept[i].text]
  <2>2. kept[i].text \in ScriptTexts
    BY <1>b, <2>1 DEF KeptFor, BackupEntries
  <2>3. rec \in SetRecords /\ rec.phase = "writing" /\ rec.script = s /\ rec.text = kept[i].text
    BY <2>2 DEF SetRecords, CallPhases, NoCall
  <2>4. call' = [call EXCEPT ![c] = rec] /\ UNCHANGED <<source, kept, callTexts, backupTexts, overwritten>>
    BY <1>5, <2>1 DEF AskRestore
  <2> HIDE DEF rec
  <2>5. CallsAreTyped' /\ call'[c] = rec /\ \A x \in SetCalls \ {c} : call'[x] = call[x]
    BY <1>a, <2>2, <2>3, <2>4, CallChanges
  <2>6. ReadsOfCall(c)'
    BY <2>3, <2>5 DEF ReadsOfCall
  <2>7. ReadsAreOfTheCall'
    BY <2>4, <2>5, <2>6, ReadsStand
  <2> QED BY <1>a, <2>4, <2>5, <2>7 DEF BackupInv, KeptIsTyped, BackupIsOfItsCall
<1>6. ASSUME NEW c \in SetCalls, WriteSource(c) PROVE Goal
  <2> DEFINE s == call[c].script
             rec == [NoCall EXCEPT !.phase = "done"]
  <2>1. call[c].phase = "writing" /\ s \in Scripted /\ call[c].text \in ScriptTexts
    BY <1>a, <1>6 DEF CallsAreTyped, WriteSource
  <2>2. /\ call' = [call EXCEPT ![c] = rec] /\ UNCHANGED <<kept, backupTexts>>
        /\ Becomes(s, call[c].text)
        /\ overwritten' = IF c \in Setters THEN [overwritten EXCEPT ![s] = source[s]] ELSE overwritten
    BY <1>6 DEF WriteSource
  <2>3. rec \in SetRecords /\ rec.phase = "done"
    BY DoneRecord
  <2> HIDE DEF s, rec
  <2>4. CallsAreTyped' /\ call'[c] = rec /\ \A x \in SetCalls \ {c} : call'[x] = call[x]
    BY <1>a, <2>2, <2>3, CallChanges
  <2>5. \A x \in Setters : call'[x] = call[x] \/ call'[x].phase = "done"
    BY <2>3, <2>4 DEF SetCalls
  <2>6. /\ source' \in [Scripted -> ScriptTexts] /\ callTexts' \in [Setters -> SUBSET ScriptTexts]
        /\ ReadsAreOfTheCall'
    BY <2>1, <2>2, <2>5, ReadsGrow
  <2>7. overwritten' \in [Scripted -> ScriptTexts \cup {NoSource}]
    BY <1>a, <2>1, <2>2
  <2> QED BY <1>a, <2>2, <2>4, <2>6, <2>7 DEF BackupInv, KeptIsTyped, BackupIsOfItsCall
<1>7. ASSUME NEW c \in SetCalls, WriteFails(c) PROVE Goal
  <2> DEFINE rec == [NoCall EXCEPT !.phase = "done"]
  <2>1. /\ call' = [call EXCEPT ![c] = rec]
        /\ UNCHANGED <<source, kept, callTexts, backupTexts, overwritten>>
    BY <1>7 DEF WriteFails
  <2>2. rec \in SetRecords /\ rec.phase = "done"
    BY DoneRecord
  <2> HIDE DEF rec
  <2>3. CallsAreTyped' /\ call'[c] = rec /\ \A x \in SetCalls \ {c} : call'[x] = call[x]
    BY <1>a, <2>1, <2>2, CallChanges
  <2>4. ReadsOfCall(c)'
    BY <2>2, <2>3 DEF ReadsOfCall
  <2>5. ReadsAreOfTheCall'
    BY <2>1, <2>3, <2>4, ReadsStand
  <2> QED BY <1>a, <2>1, <2>3, <2>5 DEF BackupInv, KeptIsTyped, BackupIsOfItsCall
<1>8. ASSUME NEW s \in Scripted, NEW t \in Sources, EditSource(s, t) PROVE Goal
  <2>1. Becomes(s, t) /\ UNCHANGED <<kept, call, backupTexts, overwritten>> /\ t \in ScriptTexts
    BY <1>8 DEF EditSource, ScriptTexts
  <2>2. /\ source' \in [Scripted -> ScriptTexts] /\ callTexts' \in [Setters -> SUBSET ScriptTexts]
        /\ ReadsAreOfTheCall'
    BY <2>1, ReadsGrow
  <2> QED BY <1>a, <2>1, <2>2 DEF BackupInv, CallsAreTyped, KeptIsTyped, BackupIsOfItsCall
<1>9. ASSUME UNCHANGED backupVars PROVE Goal
  BY <1>a, <1>9 DEF BackupInv, backupVars, CallsAreTyped, KeptIsTyped, ReadsAreOfTheCall, ReadsOfCall,
     BackupIsOfItsCall
<1> HIDE DEF Goal
<1>10. Goal
  BY <1>1, <1>2, <1>3, <1>4, <1>5, <1>6, <1>7, <1>8, <1>9 DEF BackupNext
<1> QED BY <1>10 DEF Goal

LEMMA BackupInvariance == BackupSpec => []BackupInv
BY InitBackupInv, StepBackupInv, PTL DEF BackupSpec

\* The texts, the calls and the backups keep their types, the backups their limit.
THEOREM BackupTypes == BackupSpec => []BackupTypeOK
<1>1. BackupInv => BackupTypeOK
  BY DEF BackupInv, BackupTypeOK, CallsAreTyped, KeptIsTyped, SetRecords, CallPhases, ScriptTexts
<1> QED BY <1>1, BackupInvariance, PTL

\* A backup is what its script held while the set that made it was at work, whoever
\* edits and sets the script beside it, and whatever fails.
THEOREM BackupsAreOfTheirCalls == BackupSpec => []BackupIsOfItsCall
<1>1. BackupInv => BackupIsOfItsCall
  BY DEF BackupInv
<1> QED BY <1>1, BackupInvariance, PTL

------------------------------------------------------------------------------
(*****************************************************************************)
(* The ring of log lines, for any sizes of messages and any limits.          *)
(*****************************************************************************)

\* What the numbers of the ring, the cursor and the reader's history have in common.
NumbersAreInOrder ==
  /\ nextSeq <= pushed + 1
  /\ \A i \in 1 .. Len(entries) : entries[i].seq = nextSeq - Len(entries) + i - 1
  /\ since < nextSeq
  /\ \A j \in 1 .. Len(read) : read[j] <= since

LogInv == LogTypeOK /\ ReadersMissNothing /\ NumbersAreInOrder

\* An entry of any number and size.
AnyEntry == [seq : Nat, bytes : Nat]

\* What a sequence of entries, and each of them, is.
LEMMA EntryTypes ==
  ASSUME NEW s \in Seq(AnyEntry)
  PROVE  /\ Len(s) \in Nat
         /\ \A i \in 1 .. Len(s) : s[i] \in AnyEntry /\ s[i].bytes \in Nat /\ s[i].seq \in Nat
<1>1. s \in Seq(AnyEntry)
  OBVIOUS
<1>2. Len(s) \in Nat
  OBVIOUS
<1>3. \A i \in 1 .. Len(s) : s[i] \in AnyEntry
  BY <1>1, ElementOfSeq
<1> QED BY <1>2, <1>3 DEF AnyEntry

\* What f is when it holds the sums of the first numbers of b, up to the n-th.
SumsTo(b, n, f) == f = [i \in 0 .. n |-> IF i = 0 THEN 0 ELSE f[i - 1] + b[i]]

\* The recursion that adds up defines a function.
LEMMA SumsExist ==
  ASSUME NEW n \in Nat, NEW b, \A i \in 1 .. n : b[i] \in Nat
  PROVE  \E f \in [0 .. n -> Nat] : SumsTo(b, n, f)
<1> DEFINE add == [i \in 1 .. n |-> [x \in Nat |-> x + b[i]]]
<1>1. \A i \in 1 .. n : add[i] \in [Nat -> Nat]
  OBVIOUS
<1>2. PICK f \in [0 .. n -> Nat] : Recursion(f, n, 0, add)
  <2> HIDE DEF add
  <2> QED BY <1>1, RecursionExists
<1>3. \A i \in 0 .. n : i # 0 => i \in 1 .. n /\ f[i - 1] \in Nat
  OBVIOUS
<1>4. \A i \in 0 .. n : i # 0 => add[i][f[i - 1]] = f[i - 1] + b[i]
  BY <1>3
<1>5. f = [i \in 0 .. n |-> IF i = 0 THEN 0 ELSE f[i - 1] + b[i]]
  <2> HIDE DEF add
  <2> QED BY <1>2, <1>4 DEF Recursion
<1> QED BY <1>5 DEF SumsTo

\* The sizes of the beginnings of a ring: none is nothing, each entry adds its own.
LEMMA SizesFacts ==
  ASSUME NEW s \in Seq(AnyEntry)
  PROVE  /\ \A i \in 0 .. Len(s) : SizesOf(s)[i] \in Nat
         /\ SizesOf(s)[0] = 0
         /\ \A i \in 1 .. Len(s) : SizesOf(s)[i] = SizesOf(s)[i - 1] + s[i].bytes
<1> DEFINE n == Len(s)
<1> DEFINE size == SizesOf(s)
<1> DEFINE b == [i \in 1 .. n |-> s[i].bytes]
<1>0. n \in Nat /\ \A i \in 1 .. n : s[i].bytes \in Nat
  BY EntryTypes
<1>1. size = CHOOSE f : f = [i \in 0 .. n |-> IF i = 0 THEN 0 ELSE f[i - 1] + s[i].bytes]
  BY DEF SizesOf
<1>2. PICK f : f = [i \in 0 .. n |-> IF i = 0 THEN 0 ELSE f[i - 1] + s[i].bytes]
  <2>1. \A i \in 1 .. n : b[i] \in Nat
    BY <1>0
  <2>2. PICK f \in [0 .. n -> Nat] : SumsTo(b, n, f)
    <3> HIDE DEF n, b
    <3> QED BY <1>0, <2>1, SumsExist
  <2>3. f = [i \in 0 .. n |-> IF i = 0 THEN 0 ELSE f[i - 1] + b[i]]
    BY <2>2 DEF SumsTo
  <2>4. \A i \in 0 .. n : i # 0 => b[i] = s[i].bytes
    BY <1>0
  <2>5. f = [i \in 0 .. n |-> IF i = 0 THEN 0 ELSE f[i - 1] + s[i].bytes]
    <3> HIDE DEF n, b
    <3> QED BY <2>3, <2>4
  <2> QED BY <2>5
<1>3. size = [i \in 0 .. n |-> IF i = 0 THEN 0 ELSE size[i - 1] + s[i].bytes]
  <2> HIDE DEF size, n
  <2> QED BY <1>1, <1>2
<1>4. size[0] = 0 /\ \A i \in 1 .. n : size[i] = size[i - 1] + s[i].bytes
  <2> HIDE DEF size, n
  <2>1. \A i \in 0 .. n : size[i] = IF i = 0 THEN 0 ELSE size[i - 1] + s[i].bytes
    BY <1>3
  <2> QED BY <2>1, <1>0
<1>5. \A i \in 0 .. n : size[i] \in Nat
  <2> DEFINE T == {m \in 0 .. n : size[m] \in Nat}
  <2> HIDE DEF size, n
  <2>1. 0 \in T
    BY <1>0, <1>4
  <2>2. ASSUME NEW m \in 1 .. n, m - 1 \in T PROVE m \in T
    <3>1. m \in 0 .. n /\ s[m].bytes \in Nat /\ size[m - 1] \in Nat
      BY <1>0, <2>2
    <3> QED BY <3>1, <1>4
  <2>3. \A m \in 0 .. n : m \in T
    <3> HIDE DEF T
    <3> QED BY <1>0, <2>1, <2>2, UpTo
  <2> QED BY <2>3
<1>6. \A i \in 0 .. Len(s) : SizesOf(s)[i] \in Nat
  BY <1>5
<1>7. SizesOf(s)[0] = 0 /\ \A i \in 1 .. Len(s) : SizesOf(s)[i] = SizesOf(s)[i - 1] + s[i].bytes
  BY <1>4
<1> HIDE DEF size, n
<1> QED BY <1>6, <1>7

\* No beginning is longer than the whole.
LEMMA SizesGrow ==
  ASSUME NEW s \in Seq(AnyEntry), NEW k \in 0 .. Len(s)
  PROVE  SizesOf(s)[k] <= SizesOf(s)[Len(s)]
<1> DEFINE n == Len(s)
<1> DEFINE S == SizesOf(s)
<1> DEFINE T == {j \in 0 .. n - k : S[k] <= S[k + j]}
<1>0. n \in Nat /\ k \in Nat /\ k <= n /\ n - k \in Nat /\ \A i \in 1 .. n : s[i].bytes \in Nat
  BY EntryTypes
<1>1. /\ \A i \in 0 .. n : S[i] \in Nat
      /\ \A i \in 1 .. n : S[i] = S[i - 1] + s[i].bytes
  BY SizesFacts
<1> HIDE DEF n, S
<1>2. 0 \in T
  <2>1. S[k] \in Nat /\ k + 0 = k
    BY <1>0, <1>1
  <2> QED BY <1>0, <2>1
<1>3. ASSUME NEW j \in 1 .. n - k, j - 1 \in T PROVE j \in T
  <2> DEFINE l == k + j
  <2>1. l \in 1 .. n /\ k + (j - 1) = l - 1 /\ l - 1 \in 0 .. n /\ l \in 0 .. n /\ k \in 0 .. n /\ j \in 0 .. n - k
    BY <1>0
  <2>2. S[k] <= S[l - 1]
    BY <1>3, <2>1
  <2> HIDE DEF l
  <2>3. S[l] = S[l - 1] + s[l].bytes /\ s[l].bytes \in Nat /\ S[l - 1] \in Nat /\ S[k] \in Nat
    BY <1>0, <1>1, <2>1
  <2>4. S[k] <= S[l]
    BY <2>2, <2>3
  <2> QED BY <2>1, <2>4 DEF l
<1>4. \A j \in 0 .. n - k : j \in T
  <2> HIDE DEF T
  <2> QED BY <1>0, <1>2, <1>3, UpTo
<1>5. n - k \in 0 .. n - k /\ k + (n - k) = n
  BY <1>0
<1>6. S[k] <= S[n]
  BY <1>4, <1>5
<1> QED BY <1>6 DEF n, S

\* t is the ring s without its k oldest entries and with x.
Shifted(s, k, x, t) ==
  /\ s \in Seq(AnyEntry) /\ x \in AnyEntry /\ k \in 0 .. Len(s)
  /\ t = Append(SubSeq(s, k + 1, Len(s)), x)

\* What its entries and their bytes are then.
ShiftedFacts(s, k, x, t) ==
  /\ Len(t) = Len(s) - k + 1
  /\ \A i \in 1 .. Len(s) - k : t[i] = s[k + i]
  /\ t[Len(s) - k + 1] = x
  /\ BytesOf(t) = BytesOf(s) - SizesOf(s)[k] + x.bytes

\* A ring that loses its k oldest entries and gains one: the sizes of its beginnings.
LEMMA SuffixSizes ==
  ASSUME NEW s, NEW k, NEW x, NEW t, Shifted(s, k, x, t)
  PROVE  ShiftedFacts(s, k, x, t)
<1>a. s \in Seq(AnyEntry) /\ x \in AnyEntry /\ k \in 0 .. Len(s)
      /\ t = Append(SubSeq(s, k + 1, Len(s)), x)
  BY DEF Shifted
<1> DEFINE E == AnyEntry
<1> DEFINE u == SubSeq(s, k + 1, Len(s))
<1> DEFINE n == Len(s)
<1> DEFINE S == SizesOf(s)
<1> DEFINE U == SizesOf(t)
<1>0. n \in Nat /\ k \in Nat /\ k <= n /\ n - k \in Nat
  BY <1>a, EntryTypes
<1>1. u \in Seq(E) /\ Len(u) = n - k /\ \A i \in 1 .. n - k : u[i] = s[k + i]
  <2>1. \A i \in k + 1 .. n : s[i] \in E
    <3>1. \A i \in k + 1 .. n : i \in 1 .. n
      BY <1>0
    <3> QED BY <1>a, <3>1, EntryTypes
  <2> QED BY <1>0, <1>a, <2>1, SubSeqProperties
<1>2. t \in Seq(E) /\ Len(t) = n - k + 1 /\ t[n - k + 1] = x
      /\ \A i \in 1 .. n - k : t[i] = s[k + i]
  <2>0. t = Append(u, x) /\ x \in E
    BY <1>a
  <2> HIDE DEF u, E, n
  <2>1. Append(u, x) \in Seq(E) /\ Len(Append(u, x)) = Len(u) + 1 /\ Append(u, x)[Len(u) + 1] = x
        /\ \A i \in 1 .. Len(u) : Append(u, x)[i] = u[i]
    BY <1>1, <2>0, AppendProperties
  <2> QED BY <1>1, <2>0, <2>1
<1>3. /\ \A i \in 0 .. n : S[i] \in Nat
      /\ S[0] = 0
      /\ \A i \in 1 .. n : S[i] = S[i - 1] + s[i].bytes
  BY <1>a, SizesFacts
<1>4. /\ \A i \in 0 .. n - k + 1 : U[i] \in Nat
      /\ U[0] = 0
      /\ \A i \in 1 .. n - k + 1 : U[i] = U[i - 1] + t[i].bytes
  <2> HIDE DEF U, n
  <2>1. t \in Seq(AnyEntry)
    BY <1>2
  <2>2. /\ \A i \in 0 .. Len(t) : SizesOf(t)[i] \in Nat
        /\ SizesOf(t)[0] = 0
        /\ \A i \in 1 .. Len(t) : SizesOf(t)[i] = SizesOf(t)[i - 1] + t[i].bytes
    BY <2>1, SizesFacts
  <2> QED BY <2>2, <1>2 DEF U
<1>5. \A i \in 1 .. n : s[i].bytes \in Nat
  BY <1>a, EntryTypes
<1>6. BytesOf(t) = U[n - k + 1] /\ BytesOf(s) = S[n]
  BY <1>2 DEF BytesOf
<1> HIDE DEF n, S, U
<1>7. \A j \in 0 .. n - k : U[j] = S[k + j] - S[k]
  <2> DEFINE T == {j \in 0 .. n - k : U[j] = S[k + j] - S[k]}
  <2>1. 0 \in T
    <3>1. k + 0 = k /\ S[k] \in Nat /\ S[k] - S[k] = 0
      BY <1>0, <1>3
    <3> QED BY <3>1, <1>0, <1>4
  <2>2. ASSUME NEW j \in 1 .. n - k, j - 1 \in T PROVE j \in T
    <3>0. PICK l : l = k + j
      OBVIOUS
    <3>1. j \in 1 .. n - k + 1 /\ l \in 1 .. n /\ l \in 0 .. n /\ k \in 0 .. n
          /\ k + (j - 1) = l - 1 /\ l - 1 \in 0 .. n /\ j \in 0 .. n - k
      BY <1>0, <3>0
    <3>2. U[j - 1] = S[l - 1] - S[k]
      BY <2>2, <3>1
    <3>3. U[j] = U[j - 1] + t[j].bytes /\ S[l] = S[l - 1] + s[l].bytes
      BY <1>3, <1>4, <3>1
    <3>4. t[j] = s[l]
      BY <1>2, <3>0
    <3>5. s[l].bytes \in Nat /\ S[k] \in Nat /\ S[l - 1] \in Nat
      BY <1>3, <1>5, <3>1
    <3>6. U[j] = S[l] - S[k]
      BY <3>2, <3>3, <3>4, <3>5
    <3> QED BY <3>0, <3>1, <3>6
  <2>3. \A j \in 0 .. n - k : j \in T
    <3> HIDE DEF T
    <3> QED BY <1>0, <2>1, <2>2, UpTo
  <2> QED BY <2>3
<1>8. U[n - k + 1] = U[n - k] + x.bytes
  <2> DEFINE l == n - k + 1
  <2>1. l \in 1 .. n - k + 1 /\ l - 1 = n - k
    BY <1>0
  <2> HIDE DEF l
  <2>2. U[l] = U[l - 1] + t[l].bytes
    BY <1>4, <2>1
  <2> QED BY <1>2, <2>1, <2>2 DEF l
<1>9. U[n - k] = S[n] - S[k]
  <2>1. n - k \in 0 .. n - k /\ k + (n - k) = n
    BY <1>0
  <2> QED BY <1>7, <2>1
<1>10. BytesOf(t) = BytesOf(s) - S[k] + x.bytes
  BY <1>6, <1>8, <1>9
<1> QED BY <1>2, <1>10 DEF n, S, ShiftedFacts

LEMMA InitLogInv == LogInit => LogInv
<1> SUFFICES ASSUME LogInit PROVE LogInv
  OBVIOUS
<1>1. LogTypeOK
  BY LogAssumption, EmptySeq DEF LogInit, LogTypeOK
<1>2. Len(entries) = 0 /\ Len(read) = 0 /\ nextSeq = 1 /\ since = 0 /\ pushed = 0 /\ totalBytes = 0 /\ totalDropped = 0
  BY EmptySeq DEF LogInit
<1>3. DOMAIN read = {} /\ DOMAIN entries = {}
  BY DEF LogInit
<1>4. NumbersAreInOrder
  BY <1>2 DEF NumbersAreInOrder
<1>5. BytesOf(entries) = 0
  <2>1. entries \in Seq(AnyEntry)
    BY EmptySeq DEF LogInit
  <2> QED BY <1>2, <2>1, SizesFacts DEF BytesOf
<1>6. ReadersMissNothing
  <2>1. CountIsExact
    BY <1>2, <1>5, LogAssumption DEF CountIsExact
  <2>2. ReadOnceInOrder
    BY <1>3 DEF ReadOnceInOrder
  <2> QED BY <1>2, <2>1, <2>2 DEF NothingVanishes, ReadersMissNothing
<1> QED BY <1>1, <1>4, <1>6 DEF LogInv

\* The ring, its numbers and its limits, as numbers.
LEMMA LogFacts ==
  ASSUME LogInv
  PROVE  /\ entries \in Seq(AnyEntry) /\ Len(entries) \in Nat
         /\ DOMAIN entries = 1 .. Len(entries) /\ DOMAIN read = 1 .. Len(read)
         /\ read \in Seq(1 .. MaxPushed) /\ Len(read) \in Nat
         /\ \A i \in 1 .. Len(entries) : entries[i] \in Entries /\ entries[i].seq \in 1 .. MaxPushed
         /\ \A i \in 1 .. Len(read) : read[i] \in 1 .. MaxPushed
         /\ Len(entries) < nextSeq
         /\ MaxBytes \in Nat /\ EntryCap \in Nat \ {0} /\ MaxPushed \in Nat
         /\ totalBytes \in Nat /\ totalDropped \in Nat /\ nextSeq \in Nat /\ since \in Nat /\ pushed \in Nat
<1>1. LogTypeOK /\ NumbersAreInOrder
  BY DEF LogInv
<1>2. entries \in Seq(Entries) /\ read \in Seq(1 .. MaxPushed)
  BY <1>1 DEF LogTypeOK
<1>3. MaxBytes \in Nat /\ EntryCap \in Nat \ {0} /\ MaxPushed \in Nat
      /\ totalBytes \in Nat /\ totalDropped \in Nat /\ nextSeq \in Nat /\ since \in Nat /\ pushed \in Nat
  BY <1>1, LogAssumption DEF LogTypeOK
<1>4. Len(entries) \in Nat /\ DOMAIN entries = 1 .. Len(entries) /\ \A i \in 1 .. Len(entries) : entries[i] \in Entries
  BY <1>2, ElementOfSeq, LenProperties
<1>5. Len(read) \in Nat /\ DOMAIN read = 1 .. Len(read) /\ \A i \in 1 .. Len(read) : read[i] \in 1 .. MaxPushed
  <2> DEFINE N == 1 .. MaxPushed
  <2> HIDE DEF N
  <2>1. read \in Seq(N)
    BY <1>2 DEF N
  <2>2. Len(read) \in Nat /\ DOMAIN read = 1 .. Len(read) /\ \A i \in 1 .. Len(read) : read[i] \in N
    BY <2>1, ElementOfSeq, LenProperties
  <2> QED BY <2>2 DEF N
<1>6. \A e \in Entries : e \in AnyEntry /\ e.seq \in 1 .. MaxPushed
  <2>1. Sizes \subseteq Nat /\ 1 .. MaxPushed \subseteq Nat
    BY LogAssumption
  <2> QED BY <2>1 DEF Entries, AnyEntry
<1>7. entries \in Seq(AnyEntry)
  <2> DEFINE E == AnyEntry
  <2>1. \A i \in 1 .. Len(entries) : entries[i] \in E
    BY <1>4, <1>6
  <2>2. entries = [i \in 1 .. Len(entries) |-> entries[i]]
    BY <1>2, SeqDef, <1>4
  <2> HIDE DEF E
  <2>3. entries \in Seq(E)
    BY <1>4, <2>1, <2>2, SeqDef
  <2> QED BY <2>3 DEF E
<1>8. Len(entries) < nextSeq
  <2>1. CASE Len(entries) = 0
    BY <2>1, <1>1 DEF LogTypeOK
  <2>2. CASE Len(entries) # 0
    <3>1. 1 \in 1 .. Len(entries)
      BY <2>2, <1>4
    <3>2. entries[1].seq = nextSeq - Len(entries) + 1 - 1
      BY <1>1, <3>1 DEF NumbersAreInOrder
    <3>3. entries[1].seq \in 1 .. MaxPushed
      BY <1>4, <1>6, <3>1
    <3> QED BY <1>3, <1>4, <3>2, <3>3
  <2> QED BY <2>1, <2>2
<1>9. \A i \in 1 .. Len(entries) : entries[i].seq \in 1 .. MaxPushed
  BY <1>4, <1>6
<1> QED BY <1>2, <1>3, <1>4, <1>5, <1>7, <1>8, <1>9

\* Enough of the oldest entries go for the new one to fit.
LEMMA DroppedFits ==
  ASSUME LogInv, NEW bytes \in Sizes, bytes <= MaxBytes
  PROVE  Dropped(bytes) \in 0 .. Len(entries) /\ Fits(Dropped(bytes), bytes)
<1> DEFINE K == {k \in 0 .. Len(entries) : k = Len(entries) \/ Fits(k, bytes)}
<1>0. Len(entries) \in Nat /\ bytes \in Nat /\ EntryCap \in Nat \ {0}
  BY LogFacts, LogAssumption
<1>1. K \subseteq Nat /\ Len(entries) \in K
  BY <1>0
<1>2. Dropped(bytes) \in K
  <2>1. \E k \in K : \A l \in K : k <= l
    <3> HIDE DEF K
    <3>1. K # {}
      BY <1>1
    <3> QED BY <1>1, <3>1, LeastNatural
  <2>2. Dropped(bytes) = CHOOSE k \in K : \A l \in K : k <= l
    BY DEF Dropped, Min
  <2> HIDE DEF K
  <2> QED BY <2>1, <2>2
<1>3. Fits(Len(entries), bytes)
  <2>1. totalBytes = SizesOf(entries)[Len(entries)]
    BY DEF LogInv, ReadersMissNothing, CountIsExact, BytesOf
  <2>2. BytesAfter(Len(entries)) = 0
    BY <2>1, LogFacts DEF BytesAfter
  <2> QED BY <1>0, <2>2 DEF Fits
<1> QED BY <1>2, <1>3

\* A message is logged: the oldest make room, and the count follows them.
LEMMA PushKeepsLogInv ==
  ASSUME LogInv, NEW bytes \in Sizes, PushEntry(bytes)
  PROVE  LogInv'
<1> DEFINE k == Dropped(bytes)
<1> DEFINE n == Len(entries)
<1> DEFINE x == [seq |-> nextSeq, bytes |-> bytes]
<1>1. /\ pushed < MaxPushed /\ bytes <= MaxBytes
      /\ entries' = Append(SubSeq(entries, k + 1, n), x)
      /\ totalBytes' = BytesAfter(k) + bytes
      /\ totalDropped' = totalDropped + k
      /\ nextSeq' = nextSeq + 1
      /\ pushed' = pushed + 1
      /\ since' = since /\ read' = read
  BY DEF PushEntry
<1>2. k \in 0 .. n /\ Fits(k, bytes)
  BY <1>1, DroppedFits
<1>3. bytes \in Nat /\ nextSeq <= pushed + 1 /\ since < nextSeq /\ pushed = n + totalDropped /\ totalBytes = BytesOf(entries)
      /\ x \in Entries /\ x \in AnyEntry
  <2>1. nextSeq <= pushed + 1 /\ since < nextSeq
    BY DEF LogInv, NumbersAreInOrder
  <2>2. pushed = n + totalDropped /\ totalBytes = BytesOf(entries)
    BY DEF LogInv, ReadersMissNothing, NothingVanishes, CountIsExact
  <2>3. nextSeq \in 1 .. MaxPushed
    BY <1>1, <2>1, LogFacts DEF LogInv, LogTypeOK
  <2>4. bytes \in Nat
    BY LogAssumption
  <2> QED BY <2>1, <2>2, <2>3, <2>4, LogFacts DEF Entries, AnyEntry
<1>4. /\ n \in Nat /\ totalBytes \in Nat /\ totalDropped \in Nat /\ nextSeq \in Nat /\ since \in Nat /\ pushed \in Nat
      /\ MaxPushed \in Nat /\ MaxBytes \in Nat /\ EntryCap \in Nat
      /\ entries \in Seq(AnyEntry)
      /\ n < nextSeq
  BY LogFacts
<1> HIDE DEF k, n, x
<1>5. /\ Len(entries') = n - k + 1
      /\ \A i \in 1 .. n - k : entries'[i] = entries[k + i]
      /\ entries'[n - k + 1] = x
      /\ BytesOf(entries') = BytesOf(entries) - SizesOf(entries)[k] + x.bytes
  <2>1. Shifted(entries, k, x, entries')
    BY <1>1, <1>2, <1>3, <1>4 DEF n, Shifted
  <2>2. ShiftedFacts(entries, k, x, entries')
    BY <2>1, SuffixSizes
  <2> QED BY <2>2 DEF n, ShiftedFacts
<1>6. entries' \in Seq(Entries)
  <2>1. entries \in Seq(Entries)
    BY DEF LogInv, LogTypeOK
  <2>2. \A i \in k + 1 .. n : entries[i] \in Entries
    <3>1. \A i \in k + 1 .. n : i \in 1 .. n
      BY <1>2, <1>4
    <3> QED BY <3>1, LogFacts DEF n
  <2>3. SubSeq(entries, k + 1, n) \in Seq(Entries)
    BY <1>2, <1>4, <2>2, SubSeqProperties
  <2> QED BY <1>1, <1>3, <2>3, AppendProperties
<1>7. k \in Nat /\ k <= n /\ SizesOf(entries)[k] \in Nat /\ SizesOf(entries)[k] <= totalBytes
      /\ totalBytes - SizesOf(entries)[k] + bytes <= MaxBytes /\ n - k < EntryCap
  <2>1. k \in Nat /\ k <= n
    BY <1>2, <1>4
  <2>2. totalBytes - SizesOf(entries)[k] + bytes <= MaxBytes /\ n - k < EntryCap
    BY <1>2 DEF Fits, BytesAfter, n
  <2>3. SizesOf(entries)[k] \in Nat
    BY <1>2, <1>4, SizesFacts DEF n
  <2>4. SizesOf(entries)[k] <= SizesOf(entries)[n]
    BY <1>2, <1>4, SizesGrow DEF n
  <2> QED BY <1>3, <2>1, <2>2, <2>3, <2>4 DEF BytesOf, n
<1>8. totalBytes' = totalBytes - SizesOf(entries)[k] + bytes /\ x.bytes = bytes /\ x.seq = nextSeq
  BY <1>1 DEF BytesAfter, x
<1>9. LogTypeOK'
  <2>1. totalBytes' \in 0 .. MaxBytes
    BY <1>3, <1>4, <1>7, <1>8
  <2>2. totalDropped' \in 0 .. MaxPushed
    BY <1>1, <1>3, <1>4, <1>7
  <2>3. nextSeq' \in 1 .. MaxPushed + 1
    BY <1>1, <1>3, <1>4
  <2>4. pushed' \in 0 .. MaxPushed
    BY <1>1, <1>4
  <2>5. since' \in 0 .. MaxPushed /\ read' \in Seq(1 .. MaxPushed)
    BY <1>1 DEF LogInv, LogTypeOK
  <2> QED BY <1>6, <2>1, <2>2, <2>3, <2>4, <2>5 DEF LogTypeOK
<1>10. \A i \in 1 .. n - k + 1 : entries'[i].seq = (nextSeq + 1) - (n - k + 1) + i - 1
  <2> SUFFICES ASSUME NEW i \in 1 .. n - k + 1 PROVE entries'[i].seq = (nextSeq + 1) - (n - k + 1) + i - 1
    OBVIOUS
  <2>1. CASE i = n - k + 1
    BY <2>1, <1>4, <1>5, <1>7, <1>8
  <2>2. CASE i # n - k + 1
    <3>1. i \in 1 .. n - k /\ k + i \in 1 .. n
      BY <2>2, <1>4, <1>7
    <3>2. entries[k + i].seq = nextSeq - n + (k + i) - 1
      BY <3>1 DEF LogInv, NumbersAreInOrder, n
    <3>3. entries'[i].seq = nextSeq - n + (k + i) - 1
      BY <1>5, <3>1, <3>2
    <3>4. nextSeq - n + (k + i) - 1 = (nextSeq + 1) - (n - k + 1) + i - 1
      BY <1>4, <1>7
    <3> QED BY <3>3, <3>4
  <2> QED BY <2>1, <2>2
<1>11. NumbersAreInOrder'
  <2>1. \A i \in 1 .. Len(entries') : entries'[i].seq = nextSeq' - Len(entries') + i - 1
    BY <1>1, <1>5, <1>10
  <2>2. \A j \in 1 .. Len(read') : read'[j] <= since'
    BY <1>1 DEF LogInv, NumbersAreInOrder
  <2>3. nextSeq' <= pushed' + 1 /\ since' < nextSeq'
    BY <1>1, <1>3, <1>4
  <2> QED BY <2>1, <2>2, <2>3 DEF NumbersAreInOrder
<1>12. CountIsExact'
  <2>1. totalBytes' = BytesOf(entries') /\ totalBytes' <= MaxBytes
    BY <1>3, <1>5, <1>7, <1>8
  <2>2. Len(entries') <= EntryCap
    BY <1>4, <1>5, <1>7
  <2> QED BY <2>1, <2>2 DEF CountIsExact, BytesOf, SizesOf
<1>13. ReadOnceInOrder'
  <2>1. \A i, j \in DOMAIN read' : i < j => read'[i] < read'[j]
    BY <1>1 DEF LogInv, ReadersMissNothing, ReadOnceInOrder
  <2>2. DOMAIN entries' = 1 .. n - k + 1
    BY <1>5, <1>6, LenProperties
  <2>3. ASSUME NEW i \in 1 .. n - k + 1, entries'[i].seq <= since
        PROVE  \E j \in DOMAIN read : read[j] = entries'[i].seq
    <3>1. CASE i = n - k + 1
      <4>1. nextSeq <= since
        BY <2>3, <3>1, <1>5, <1>8
      <4> QED BY <4>1, <1>3, <1>4
    <3>2. CASE i # n - k + 1
      <4>1. i \in 1 .. n - k /\ k + i \in 1 .. n
        BY <3>2, <1>4, <1>7
      <4>2. entries'[i] = entries[k + i] /\ k + i \in DOMAIN entries
        BY <1>5, <4>1, LogFacts DEF n
      <4> QED BY <2>3, <4>2 DEF LogInv, ReadersMissNothing, ReadOnceInOrder
    <3> QED BY <3>1, <3>2
  <2>4. \A i \in DOMAIN entries' : entries'[i].seq <= since' => \E j \in DOMAIN read' : read'[j] = entries'[i].seq
    BY <1>1, <2>2, <2>3
  <2> QED BY <2>1, <2>4 DEF ReadOnceInOrder
<1>14. NothingVanishes'
  BY <1>1, <1>3, <1>4, <1>5, <1>7 DEF NothingVanishes
<1> QED BY <1>9, <1>11, <1>12, <1>13, <1>14 DEF LogInv, ReadersMissNothing

\* What the reader has not seen is the end of the ring.
LEMMA AfterIsSuffix ==
  ASSUME LogInv
  PROVE  \E k \in 0 .. Len(entries) :
           /\ After(since) = SubSeq(entries, k + 1, Len(entries))
           /\ \A i \in 1 .. Len(entries) : entries[i].seq > since <=> i > k
<1> DEFINE n == Len(entries)
<1>0. /\ n \in Nat /\ nextSeq \in Nat /\ since \in Nat /\ since < nextSeq /\ n < nextSeq
      /\ entries \in Seq(AnyEntry)
      /\ \A i \in 1 .. n : entries[i].seq = nextSeq - n + i - 1
  BY LogFacts DEF LogInv, NumbersAreInOrder
<1>1. PICK k \in 0 .. n : \A i \in 1 .. n : (nextSeq - n + i - 1) > since <=> i > k
  <2> HIDE DEF n
  <2>1. CASE since + 1 - (nextSeq - n) > 0
    <3> DEFINE k == since + 1 - (nextSeq - n)
    <3>1. k \in 0 .. n
      BY <1>0, <2>1
    <3>2. \A i \in 1 .. n : (nextSeq - n + i - 1) > since <=> i > k
      BY <1>0
    <3> QED BY <3>1, <3>2
  <2>2. CASE ~ (since + 1 - (nextSeq - n) > 0)
    <3>1. 0 \in 0 .. n /\ \A i \in 1 .. n : (nextSeq - n + i - 1) > since <=> i > 0
      BY <1>0, <2>2
    <3> QED BY <3>1
  <2> QED BY <2>1, <2>2
<1>2. \A i \in 1 .. n : entries[i].seq > since <=> i > k
  <2> HIDE DEF n
  <2> QED BY <1>0, <1>1
<1> DEFINE Step(f) == [i \in 0 .. n |->
             IF i = 0 THEN <<>>
             ELSE IF entries[i].seq > since THEN Append(f[i - 1], entries[i])
             ELSE f[i - 1]]
<1>3. Passing(since) = CHOOSE f : f = Step(f)
  BY DEF Passing
<1> DEFINE p == [i \in 0 .. n |-> SubSeq(entries, k + 1, i)]
<1>4. \A i \in 0 .. n : i <= k => p[i] = <<>>
  <2> SUFFICES ASSUME NEW i \in 0 .. n, i <= k PROVE SubSeq(entries, k + 1, i) = <<>>
    OBVIOUS
  <2>1. k + 1 \in Int /\ i \in Int /\ i < k + 1
    BY <1>0
  <2> QED BY <2>1, SubSeqEmpty
<1>5. \A i \in 1 .. n : i > k => p[i] = Append(p[i - 1], entries[i])
  <2> SUFFICES ASSUME NEW i \in 1 .. n, i > k
               PROVE  SubSeq(entries, k + 1, i) = Append(SubSeq(entries, k + 1, i - 1), entries[i])
    <3>1. \A i \in 1 .. n : i \in 0 .. n /\ i - 1 \in 0 .. n
      BY <1>0
    <3> QED BY <3>1
  <2>1. k + 1 \in Nat \ {0} /\ i \in k + 1 .. Len(entries)
    BY <1>0
  <2> QED BY <1>0, <2>1, PieceGrows
<1>6. p = Step(p)
  <2>1. \A i \in 0 .. n : p[i] = IF i = 0 THEN <<>>
             ELSE IF entries[i].seq > since THEN Append(p[i - 1], entries[i])
             ELSE p[i - 1]
    <3> SUFFICES ASSUME NEW i \in 0 .. n
                 PROVE  p[i] = IF i = 0 THEN <<>>
                          ELSE IF entries[i].seq > since THEN Append(p[i - 1], entries[i])
                          ELSE p[i - 1]
      OBVIOUS
    <3> HIDE DEF p, n
    <3>1. CASE i = 0
      BY <3>1, <1>0, <1>4
    <3>2. CASE i # 0 /\ i > k
      <4>1. i \in 1 .. n
        BY <3>2, <1>0
      <4> QED BY <3>2, <4>1, <1>2, <1>5
    <3>3. CASE i # 0 /\ ~ (i > k)
      <4>1. i \in 1 .. n /\ i <= k /\ i - 1 \in 0 .. n /\ i - 1 <= k
        BY <3>3, <1>0
      <4>2. p[i] = <<>> /\ p[i - 1] = <<>>
        BY <4>1, <1>4
      <4> QED BY <3>3, <4>1, <4>2, <1>2
    <3> QED BY <3>1, <3>2, <3>3
  <2>2. p = [i \in 0 .. n |-> p[i]]
    OBVIOUS
  <2> HIDE DEF p, n
  <2> QED BY <2>1, <2>2
<1> DEFINE f == Passing(since)
<1>7. f = Step(f)
  <2> HIDE DEF p, f, Step
  <2>1. f = CHOOSE g : g = Step(g)
    BY <1>3 DEF f
  <2> QED BY <1>6, <2>1
<1>8. /\ f[0] = <<>>
      /\ \A i \in 1 .. n : i > k => f[i] = Append(f[i - 1], entries[i])
      /\ \A i \in 1 .. n : ~ (i > k) => f[i] = f[i - 1]
  <2>1. \A i \in 0 .. n : f[i] = IF i = 0 THEN <<>>
             ELSE IF entries[i].seq > since THEN Append(f[i - 1], entries[i])
             ELSE f[i - 1]
    <3> HIDE DEF f, n
    <3> QED BY <1>7
  <2>2. 0 \in 0 .. n /\ \A i \in 1 .. n : i \in 0 .. n /\ i # 0
    BY <1>0
  <2> HIDE DEF f, n
  <2> QED BY <2>1, <2>2, <1>2
<1>9. \A i \in 0 .. n : f[i] = p[i]
  <2> DEFINE T == {i \in 0 .. n : f[i] = p[i]}
  <2> HIDE DEF f, p, n
  <2>1. 0 \in T
    BY <1>0, <1>1, <1>4, <1>8
  <2>2. ASSUME NEW i \in 1 .. n, i - 1 \in T PROVE i \in T
    <3>1. i \in 0 .. n /\ i - 1 \in 0 .. n /\ f[i - 1] = p[i - 1]
      BY <1>0, <2>2
    <3>2. CASE i > k
      BY <3>1, <3>2, <1>5, <1>8
    <3>3. CASE ~ (i > k)
      <4>1. i <= k /\ i - 1 <= k
        BY <3>3, <3>1, <1>0
      <4>2. p[i] = <<>> /\ p[i - 1] = <<>>
        BY <3>1, <4>1, <1>4
      <4> QED BY <3>1, <3>3, <4>2, <1>8
    <3> QED BY <3>2, <3>3
  <2>3. \A i \in 0 .. n : i \in T
    <3> HIDE DEF T
    <3> QED BY <1>0, <2>1, <2>2, UpTo
  <2> QED BY <2>3
<1>10. After(since) = SubSeq(entries, k + 1, n)
  <2>1. n \in 0 .. n
    BY <1>0
  <2>2. f[n] = SubSeq(entries, k + 1, n)
    BY <2>1, <1>9
  <2> QED BY <2>2 DEF After
<1> QED BY <1>2, <1>10

\* The reader asks: it is given the end of the ring, and the cursor moves there.
LEMMA QueryKeepsLogInv ==
  ASSUME LogInv, Query
  PROVE  LogInv'
<1> DEFINE n == Len(entries)
<1> DEFINE m == Len(read)
<1> DEFINE A == After(since)
<1> DEFINE new == [i \in DOMAIN A |-> A[i].seq]
<1> DEFINE N == 1 .. MaxPushed
<1>1. /\ read' = read \o new
      /\ since' = NextSince
      /\ entries' = entries /\ totalBytes' = totalBytes /\ totalDropped' = totalDropped
      /\ nextSeq' = nextSeq /\ pushed' = pushed
  BY DEF Query
<1>2. PICK k \in 0 .. n : /\ A = SubSeq(entries, k + 1, n)
                          /\ \A i \in 1 .. n : entries[i].seq > since <=> i > k
  BY AfterIsSuffix
<1>3. /\ n \in Nat /\ m \in Nat /\ nextSeq \in Nat /\ since \in Nat /\ MaxPushed \in Nat
      /\ DOMAIN entries = 1 .. n /\ DOMAIN read = 1 .. m
      /\ \A i \in 1 .. n : entries[i] \in Entries /\ entries[i].seq \in N
      /\ read \in Seq(N) /\ n < nextSeq
  BY LogFacts
<1>4. /\ since < nextSeq /\ nextSeq <= pushed + 1
      /\ \A i \in 1 .. n : entries[i].seq = nextSeq - n + i - 1
      /\ \A j \in 1 .. m : read[j] <= since
  BY DEF LogInv, NumbersAreInOrder
<1>5. /\ \A i, j \in 1 .. m : i < j => read[i] < read[j]
      /\ \A i \in 1 .. n : entries[i].seq <= since => \E j \in 1 .. m : read[j] = entries[i].seq
  BY <1>3 DEF LogInv, ReadersMissNothing, ReadOnceInOrder
<1> HIDE DEF n, m, A, N
<1>6. /\ Len(A) = n - k /\ DOMAIN A = 1 .. n - k
      /\ \A i \in 1 .. n - k : A[i] = entries[k + i]
  <2>1. \A i \in k + 1 .. n : entries[i] \in Entries
    <3>1. \A i \in k + 1 .. n : i \in 1 .. n
      BY <1>3
    <3> QED BY <1>3, <3>1
  <2>2. k + 1 \in Int /\ n \in Int
    BY <1>3
  <2>3. /\ A \in Seq(Entries) /\ Len(A) = IF k + 1 <= n THEN n - (k + 1) + 1 ELSE 0
        /\ \A i \in 1 .. n - (k + 1) + 1 : A[i] = entries[k + 1 + i - 1]
    BY <1>2, <2>1, <2>2, SubSeqProperties
  <2>4. Len(A) = n - k /\ n - (k + 1) + 1 = n - k
    BY <1>3, <2>3
  <2>5. DOMAIN A = 1 .. Len(A)
    BY <2>3, LenProperties
  <2>6. \A i \in 1 .. n - k : k + 1 + i - 1 = k + i
    BY <1>3
  <2> QED BY <2>3, <2>4, <2>5, <2>6
<1>7. /\ new \in Seq(N) /\ Len(new) = n - k
      /\ \A i \in 1 .. n - k : k + i \in 1 .. n /\ new[i] = entries[k + i].seq /\ new[i] = nextSeq - n + (k + i) - 1
  <2>1. n - k \in Nat /\ \A i \in 1 .. n - k : k + i \in 1 .. n
    BY <1>3
  <2>2. new = [i \in 1 .. n - k |-> entries[k + i].seq]
    BY <1>6
  <2>3. \A i \in 1 .. n - k : new[i] = entries[k + i].seq /\ new[i] \in N
    BY <1>3, <2>1, <2>2
  <2>4. new = [i \in 1 .. n - k |-> new[i]]
    BY <2>2
  <2> HIDE DEF new
  <2>5. new \in Seq(N) /\ Len(new) = n - k
    <3>1. new \in [1 .. n - k -> N]
      BY <2>3, <2>4
    <3> QED BY <2>1, <3>1, SeqDef, LenProperties
  <2> QED BY <1>4, <2>1, <2>3, <2>5
<1> HIDE DEF new
<1>8. /\ read' \in Seq(N) /\ Len(read') = m + (n - k) /\ DOMAIN read' = 1 .. m + (n - k)
      /\ \A i \in 1 .. m : read'[i] = read[i]
      /\ \A i \in 1 .. n - k : read'[m + i] = new[i]
  <2> DEFINE c == read \o new
  <2>0. Len(read) = m /\ read \in Seq(N) /\ new \in Seq(N)
    BY <1>3, <1>7 DEF m
  <2>1. /\ c \in Seq(N) /\ Len(c) = Len(read) + Len(new)
        /\ \A i \in 1 .. Len(read) + Len(new) : c[i] = IF i <= Len(read) THEN read[i] ELSE new[i - Len(read)]
    BY <2>0, ConcatProperties
  <2> HIDE DEF c
  <2>2. /\ Len(c) = m + (n - k)
        /\ \A i \in 1 .. m + (n - k) : c[i] = IF i <= m THEN read[i] ELSE new[i - m]
    BY <1>7, <2>0, <2>1
  <2>3. DOMAIN c = 1 .. m + (n - k)
    BY <2>1, <2>2, LenProperties
  <2>4. \A i \in 1 .. m : i \in 1 .. m + (n - k) /\ i <= m
    BY <1>3
  <2>5. \A i \in 1 .. n - k : m + i \in 1 .. m + (n - k) /\ ~ (m + i <= m) /\ m + i - m = i
    BY <1>3
  <2>6. \A i \in 1 .. m : c[i] = read[i]
    BY <2>2, <2>4
  <2>7. \A i \in 1 .. n - k : c[m + i] = new[i]
    <3> SUFFICES ASSUME NEW i \in 1 .. n - k PROVE c[m + i] = new[i]
      OBVIOUS
    <3>1. PICK l : l = m + i
      OBVIOUS
    <3>2. l \in 1 .. m + (n - k) /\ ~ (l <= m) /\ l - m = i
      BY <1>3, <3>1
    <3>3. c[l] = new[l - m]
      BY <2>2, <3>2
    <3> QED BY <3>1, <3>2, <3>3
  <2>8. read' = c
    BY <1>1 DEF c
  <2> QED BY <2>1, <2>2, <2>3, <2>6, <2>7, <2>8
<1>9. since' \in 0 .. MaxPushed /\ since <= since' /\ since' < nextSeq
      /\ (n > 0 => since' = nextSeq - 1)
  <2>1. CASE n = 0
    <3>1. entries = <<>>
      BY <2>1, EmptySeq DEF n, LogInv, LogTypeOK
    <3>2. since' = since
      BY <1>1, <3>1 DEF NextSince
    <3> QED BY <2>1, <3>2, <1>4 DEF LogInv, LogTypeOK
  <2>2. CASE n # 0
    <3>1. entries # <<>>
      BY <2>2 DEF n
    <3>2. since' = entries[n].seq /\ n \in 1 .. n
      BY <1>1, <1>3, <2>2, <3>1 DEF NextSince, Last, n
    <3>3. since' = nextSeq - n + n - 1 /\ since' \in N
      BY <1>3, <1>4, <3>2
    <3> QED BY <1>3, <1>4, <3>3 DEF N
  <2> QED BY <2>1, <2>2
<1>10. LogTypeOK'
  BY <1>1, <1>8, <1>9 DEF LogInv, LogTypeOK, N
<1>11. \A j \in 1 .. m + (n - k) : j \in 1 .. m \/ \E i \in 1 .. n - k : j = m + i
  <2> SUFFICES ASSUME NEW j \in 1 .. m + (n - k), ~ (j \in 1 .. m)
               PROVE  \E i \in 1 .. n - k : j = m + i
    OBVIOUS
  <2>1. j - m \in 1 .. n - k /\ j = m + (j - m)
    BY <1>3
  <2> QED BY <2>1
<1>12. \A j \in 1 .. n - k : new[j] > since /\ new[j] <= since'
  <2> SUFFICES ASSUME NEW j \in 1 .. n - k PROVE new[j] > since /\ new[j] <= since'
    OBVIOUS
  <2>1. k + j \in 1 .. n /\ k + j > k /\ n > 0
    BY <1>3, <1>7
  <2>2. entries[k + j].seq > since
    BY <1>2, <2>1
  <2>3. new[j] = entries[k + j].seq /\ new[j] = nextSeq - n + (k + j) - 1
    BY <1>7
  <2>4. nextSeq - n + (k + j) - 1 <= nextSeq - 1
    BY <1>3, <2>1
  <2> QED BY <1>9, <2>1, <2>2, <2>3, <2>4
<1>13. \A j \in 1 .. m : read[j] \in Nat /\ read[j] <= since'
  <2>1. \A j \in 1 .. m : read[j] \in N
    BY <1>3, ElementOfSeq DEF m
  <2>2. \A j \in 1 .. m : read[j] \in Nat
    BY <2>1, <1>3 DEF N
  <2> QED BY <1>3, <1>4, <1>9, <2>2
<1>14. NumbersAreInOrder'
  <2>1. \A j \in 1 .. m + (n - k) : read'[j] <= since'
    <3> SUFFICES ASSUME NEW j \in 1 .. m + (n - k) PROVE read'[j] <= since'
      OBVIOUS
    <3>1. CASE j \in 1 .. m
      BY <3>1, <1>8, <1>13
    <3>2. CASE \E i \in 1 .. n - k : j = m + i
      BY <3>2, <1>8, <1>12
    <3> QED BY <3>1, <3>2, <1>11
  <2> QED BY <1>1, <1>4, <1>8, <1>9, <2>1 DEF NumbersAreInOrder, n
<1>15. ReadOnceInOrder'
  <2>1. ASSUME NEW a \in 1 .. m + (n - k), NEW b \in 1 .. m + (n - k), a < b
        PROVE  read'[a] < read'[b]
    <3>1. CASE a \in 1 .. m /\ b \in 1 .. m
      BY <2>1, <3>1, <1>5, <1>8
    <3>2. CASE a \in 1 .. m /\ \E i \in 1 .. n - k : b = m + i
      <4>1. PICK i \in 1 .. n - k : b = m + i
        BY <3>2
      <4>2. read'[a] = read[a] /\ read'[b] = new[i]
        BY <3>2, <4>1, <1>8
      <4>3. read[a] <= since /\ read[a] \in Nat
        BY <3>2, <1>4, <1>13
      <4>4. new[i] = nextSeq - n + (k + i) - 1 /\ since < new[i]
        <5>1. new[i] > since
          BY <1>12
        <5>2. new[i] = nextSeq - n + (k + i) - 1
          BY <1>7
        <5> QED BY <1>3, <5>1, <5>2
      <4>5. new[i] \in Int
        BY <1>3, <4>4
      <4> QED BY <4>2, <4>3, <4>4, <4>5, <1>3
    <3>3. CASE (\E i \in 1 .. n - k : a = m + i) /\ b \in 1 .. m
      BY <2>1, <3>3, <1>3
    <3>4. CASE (\E i \in 1 .. n - k : a = m + i) /\ (\E i \in 1 .. n - k : b = m + i)
      <4>1. PICK i \in 1 .. n - k, j \in 1 .. n - k : a = m + i /\ b = m + j
        BY <3>4
      <4>2. read'[a] = nextSeq - n + (k + i) - 1 /\ read'[b] = nextSeq - n + (k + j) - 1
        BY <4>1, <1>7, <1>8
      <4>3. i < j
        BY <2>1, <4>1, <1>3
      <4> QED BY <4>2, <4>3, <1>3
    <3> QED BY <3>1, <3>2, <3>3, <3>4, <1>11
  <2>2. ASSUME NEW i \in 1 .. n
        PROVE  \E j \in 1 .. m + (n - k) : read'[j] = entries[i].seq
    <3>1. CASE i > k
      <4>1. i - k \in 1 .. n - k /\ k + (i - k) = i /\ m + (i - k) \in 1 .. m + (n - k)
        BY <3>1, <1>3
      <4>2. read'[m + (i - k)] = new[i - k] /\ new[i - k] = entries[k + (i - k)].seq
        BY <4>1, <1>7, <1>8
      <4> QED BY <4>1, <4>2
    <3>2. CASE ~ (i > k)
      <4>1. entries[i].seq <= since
        <5>1. ~ (entries[i].seq > since) /\ entries[i].seq \in Nat
          BY <3>2, <1>2, <1>3 DEF N
        <5> QED BY <5>1, <1>3
      <4>2. PICK j \in 1 .. m : read[j] = entries[i].seq
        BY <4>1, <1>5
      <4>3. j \in 1 .. m + (n - k) /\ read'[j] = read[j]
        BY <1>3, <1>8
      <4> QED BY <4>2, <4>3
    <3> QED BY <3>1, <3>2
  <2>3. DOMAIN entries' = 1 .. n
    BY <1>1, <1>3
  <2> QED BY <1>1, <1>8, <2>1, <2>2, <2>3 DEF ReadOnceInOrder
<1>16. CountIsExact' /\ NothingVanishes'
  BY <1>1 DEF LogInv, ReadersMissNothing, CountIsExact, NothingVanishes, BytesOf, SizesOf
<1> QED BY <1>10, <1>14, <1>15, <1>16 DEF LogInv, ReadersMissNothing

LEMMA StepLogInv == LogInv /\ [LogNext]_logVars => LogInv'
<1> SUFFICES ASSUME LogInv, [LogNext]_logVars PROVE LogInv'
  OBVIOUS
<1>1. CASE Query
  BY <1>1, QueryKeepsLogInv
<1>2. CASE \E bytes \in Sizes : PushEntry(bytes)
  BY <1>2, PushKeepsLogInv
<1>3. ASSUME NEW bytes \in Sizes, PushTooLarge(bytes) PROVE LogInv'
  <2>1. /\ pushed < MaxPushed /\ totalDropped' = totalDropped + 1 /\ pushed' = pushed + 1
        /\ entries' = entries /\ totalBytes' = totalBytes /\ nextSeq' = nextSeq
        /\ since' = since /\ read' = read
    BY <1>3 DEF PushTooLarge
  <2>2. /\ Len(entries) \in Nat /\ totalDropped \in Nat /\ pushed \in Nat /\ MaxPushed \in Nat
        /\ nextSeq \in Nat /\ pushed = Len(entries) + totalDropped /\ nextSeq <= pushed + 1
    BY LogFacts DEF LogInv, ReadersMissNothing, NothingVanishes, NumbersAreInOrder
  <2>3. totalDropped' \in 0 .. MaxPushed /\ pushed' \in 0 .. MaxPushed
    BY <2>1, <2>2
  <2>4. LogTypeOK'
    BY <2>1, <2>3 DEF LogInv, LogTypeOK
  <2>5. NumbersAreInOrder'
    <3>1. nextSeq' <= pushed' + 1
      BY <2>1, <2>2
    <3> QED BY <2>1, <3>1 DEF LogInv, NumbersAreInOrder
  <2>6. NothingVanishes'
    BY <2>1, <2>2 DEF NothingVanishes
  <2>7. ReadOnceInOrder' /\ CountIsExact'
    BY <2>1 DEF LogInv, ReadersMissNothing, ReadOnceInOrder, CountIsExact, BytesOf, SizesOf
  <2> QED BY <2>4, <2>5, <2>6, <2>7 DEF LogInv, ReadersMissNothing
<1>4. CASE UNCHANGED logVars
  BY <1>4 DEF logVars, LogInv, LogTypeOK, ReadersMissNothing, ReadOnceInOrder, CountIsExact,
              NothingVanishes, NumbersAreInOrder, BytesOf, SizesOf
<1> QED BY <1>1, <1>2, <1>3, <1>4 DEF LogNext

LEMMA LogInvariance == LogSpec => []LogInv
BY InitLogInv, StepLogInv, PTL DEF LogSpec

\* RuntimeLogBuffer.ts: ring, counters and cursor have their types.
THEOREM LogTypes == LogSpec => []LogTypeOK
<1>1. LogInv => LogTypeOK
  BY DEF LogInv
<1> QED BY <1>1, LogInvariance, PTL

\* RuntimeLogBuffer.ts, pushEntry and query: whatever the sizes and the limits, a
\* reader that follows nextSince is given every entry the ring kept until it came, in
\* order and once; the running count is the size of the ring, which stays within both
\* limits; and every message is in the ring or counted in totalDropped.
THEOREM NoLineIsMissed == LogSpec => []ReadersMissNothing
<1>1. LogInv => ReadersMissNothing
  BY DEF LogInv
<1> QED BY <1>1, LogInvariance, PTL

------------------------------------------------------------------------------
(*****************************************************************************)
(* The six components of the tools side beside one another.                  *)
(*****************************************************************************)

\* MCToolsSide.tla: a behavior of the six modules side by side is one of each of
\* them, so what is proved of a module holds of the instances TLC checks.
THEOREM ToolsSideParts ==
  ToolsSpec => Spec /\ JobsSpec /\ LogSpec /\ PlanSpec /\ SyncSpec /\ BackupSpec
<1>1. ToolsInit => Init /\ JobsInit /\ LogInit /\ PlanInit /\ SyncInit /\ BackupInit
  BY DEF ToolsInit
<1>2. [ToolsNext]_toolsVars => [Next]_pluginVars
  BY DEF ToolsNext, toolsVars
<1>3. [ToolsNext]_toolsVars => [JobsNext]_jobVars
  BY DEF ToolsNext, toolsVars
<1>4. [ToolsNext]_toolsVars => [LogNext]_logVars
  BY DEF ToolsNext, toolsVars
<1>5. [ToolsNext]_toolsVars => [PlanNext]_planVars
  BY DEF ToolsNext, toolsVars
<1>6. [ToolsNext]_toolsVars => [SyncNext]_syncVars
  BY DEF ToolsNext, toolsVars
<1>7. [ToolsNext]_toolsVars => [BackupNext]_backupVars
  BY DEF ToolsNext, toolsVars
<1> QED BY <1>1, <1>2, <1>3, <1>4, <1>5, <1>6, <1>7, PTL
      DEF ToolsSpec, Spec, JobsSpec, LogSpec, PlanSpec, SyncSpec, BackupSpec

\* The types of the six modules of the tools side, for any requests, jobs, lines,
\* plans, files and scripts.
THEOREM ToolsSideTypes == ToolsSpec => []ToolsSideTypeOK
<1>1. ToolsInit => component \in Components
  BY DEF ToolsInit
<1>2. component \in Components /\ [ToolsNext]_toolsVars => (component \in Components)'
  BY DEF ToolsNext, toolsVars
<1>3. ToolsSpec => [](component \in Components)
  BY <1>1, <1>2, PTL DEF ToolsSpec
<1>4. /\ component \in Components
      /\ TypeOK /\ JobsTypeOK /\ LogTypeOK /\ PlanTypeOK /\ SyncTypeOK /\ BackupTypeOK
      => ToolsSideTypeOK
  BY DEF ToolsSideTypeOK
<1> QED BY <1>3, <1>4, ToolsSideParts, ExecutorTypes, JobTypes, LogTypes, PlanTypesAreKept,
           SyncTypesAreKept, BackupTypes, PTL
==============================================================================
