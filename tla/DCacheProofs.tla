---------------------------- MODULE DCacheProofs ----------------------------
(***************************************************************************)
(* Proofs about DCache, for every number of sets, ways, tags and words:    *)
(* the types, that no written value is lost, that every read returns the   *)
(* last write, and that a flush writes everything back.  The last three    *)
(* are about the time before the processor first asks for something the    *)
(* controller is not made for (misuse).                                    *)
(***************************************************************************)
EXTENDS DCache, FiniteSetTheorems, TLAPS

----------------------------------------------------------------------------
(* The inductive invariant.                                                *)

\* A way holds its line, unless it is the victim between the cycle that marks
\* it valid and the one that fills it.
Settled(l, w) ==
  VALID[l][w] /\ ~(S = "RdfromMemFinish" /\ l = line /\ w = victim_sel)
Holds(l, w, t) == Settled(l, w) /\ tags[l][w] = t

\* What the processor's request or a flush is in the middle of.
Phase ==
  /\ S = "Idle" => ~busy_flushing
  /\ S \in {"WbtoMemAll", "WbtoMemAllFinish"} => busy_flushing
  /\ S \in {"WbtoMem", "WbtoMemFinish", "RdfromMem", "RdfromMemFinish", "RdAmo", "RdAmoFinish"}
       => ~busy_flushing
  /\ S \in {"RdfromMem", "RdfromMemFinish"} => req.op # "amo"
  /\ S = "RdAmo" => req.op = "amo"
TypeInv == TypeOK /\ Phase

\* At any time, not just between requests: one way per line at most, every
\* word in it current, memory current where it is not dirty or not cached.
Unique == \A l \in Lines : \A v, w \in Ways :
  Settled(l, v) /\ Settled(l, w) /\ tags[l][v] = tags[l][w] => v = w
Current == \A l \in Lines, w \in Ways : Settled(l, w) => data[l][w] = Words
CleanInMemory == \A l \in Lines, w \in Ways :
  Settled(l, w) /\ ~DIRTY[l][w] => mem[tags[l][w]][l] = Words
UncachedInMemory == \A t \in Tags, l \in Lines :
  (\A w \in Ways : ~Holds(l, w, t)) => mem[t][l] = Words

\* A miss: no way has the line asked for, and the victim's line is in memory
\* by the time it is given up.
Missing ==
  /\ S \in {"WbtoMem", "WbtoMemFinish", "RdfromMem", "RdfromMemFinish"} /\ req.op # "amo" =>
       \A w \in Ways : ~Holds(line, w, req.tag)
  /\ S = "WbtoMem" /\ req.op # "amo" => VALID[line][victim_sel]
  /\ S \in {"WbtoMemFinish", "RdfromMem"} /\ req.op # "amo" /\ VALID[line][victim_sel] =>
       mem[tags[line][victim_sel]][line] = Words
  /\ S = "RdfromMemFinish" => /\ m_data = Words /\ VALID[line][victim_sel]
                              /\ rw => DIRTY[line][victim_sel]
\* An atomic operation: the way it makes invalid is its own line's, which is in
\* memory before it begins, or way 0, clean.
Cached == \E w \in Ways : Holds(line, w, req.tag)
AtomicSafe ==
  /\ S \in {"Analysis", "RdAmo"} /\ req.op = "amo" => Cached \/ ~DIRTY[line][0]
  /\ S \in {"WbtoMem", "WbtoMemFinish"} /\ req.op = "amo" => Cached
  /\ (S = "WbtoMemFinish" /\ req.op = "amo") \/ S = "RdAmo" => mem[req.tag][line] = Words
  /\ S = "RdAmoFinish" => m_data = Words
\* Nothing is missed, and a flush stores nothing.
Asked == missed = {} /\ (busy_flushing => req.op = "read")

\* The last value returned was the one last written.
Fresh == p_data

LinesInv == Unique /\ Current /\ CleanInMemory /\ UncachedInMemory
DataInv == LinesInv /\ Missing /\ AtomicSafe /\ Fresh

\* A flush has cleaned what its counters have passed; when they are back where
\* they began, that is everything.
Passed(l, w) == w < N_WAYS_cnt \/ (w = N_WAYS_cnt /\ l < N_LINES_cnt)
Flushed ==
  /\ S = "Analysis" => N_LINES_cnt = 0 /\ N_WAYS_cnt = 0
  /\ S = "WbtoMemAll" => \A l \in Lines, w \in Ways : Passed(l, w) => ~DIRTY[l][w]
  /\ S = "WbtoMemAllFinish" => \A l \in Lines, w \in Ways :
       Passed(l, w) \/ (N_LINES_cnt = 0 /\ N_WAYS_cnt = 0) => ~DIRTY[l][w]

----------------------------------------------------------------------------
(* The operators.                                                          *)

\* A counter of size values wraps to 0.
LEMMA Wraps ==
  ASSUME NEW size \in Nat \ {0}, NEW n \in 0 .. size - 1
  PROVE  /\ NextOf(n, size) = IF n = size - 1 THEN 0 ELSE n + 1
         /\ NextOf(n, size) \in 0 .. size - 1
<1>1. CASE n = size - 1
  <2>1. NextOf(n, size) = size % size
    BY <1>1 DEF NextOf
  <2>2. size % size = 0
    OBVIOUS
  <2> QED
    BY <1>1, <2>1, <2>2
<1>2. CASE n # size - 1
  <2>1. n + 1 \in 0 .. size - 1
    BY <1>2
  <2>2. (n + 1) % size = n + 1
    BY <2>1
  <2> QED
    BY <1>2, <2>1, <2>2 DEF NextOf
<1> QED
  BY <1>1, <1>2

\* The index of a hit is that of a way, and of the way that hits if there is
\* just one.
LEMMA HitIndexType == hit_index \in Ways
<1>1. CASE Cardinality(hits) = 1
  <2>1. hits # {}
    BY <1>1, FS_EmptySet
  <2>2. (CHOOSE w \in hits : TRUE) \in hits
    BY <2>1
  <2> QED
    BY <1>1, <2>2 DEF hit_index, hits
<1>2. CASE Cardinality(hits) # 1
  BY <1>2, CacheAssumption DEF hit_index, Ways
<1> QED
  BY <1>1, <1>2

LEMMA HitIndexHits == ASSUME NEW w \in Ways, hits = {w} PROVE hit_index = w
<1>1. Cardinality(hits) = 1
  BY FS_Singleton
<1> QED
  BY <1>1 DEF hit_index

----------------------------------------------------------------------------
(* Types and phases.                                                       *)

LEMMA UnaskedType == Unasked \in Request /\ Unasked.op = "read"
<1>1. (CHOOSE r \in Requests : TRUE) \in Request
  BY CacheAssumption
<1> QED
  BY <1>1 DEF Unasked, Request

LEMMA OutdatedType ==
  ASSUME TypeOK, NEW r \in Request
  PROVE  Outdated(r) \in [Lines -> [Ways -> SUBSET Words]]
<1>1. r.line \in Lines
  BY DEF Request
<1> QED
  BY <1>1 DEF TypeOK, Outdated

LEMMA AsksType ==
  ASSUME TypeOK, NEW kinds \in SUBSET {"amo", "access", "fence"}, Asks(kinds)
  PROVE  misuse' \subseteq {"amo", "access", "fence"} /\ after' \in 0..MaxAfter
<1>1. misuse' = misuse \cup kinds /\ after' = IF misuse = {} THEN 0 ELSE after + 1
  BY DEF Asks
<1>2. misuse # {} => after < MaxAfter
  BY DEF Asks
<1>3. after \in Nat /\ MaxAfter \in Nat /\ misuse \subseteq {"amo", "access", "fence"}
  BY CacheAssumption DEF TypeOK
<1> QED
  BY <1>1, <1>2, <1>3

LEMMA TypeInit == Init => TypeInv
<1> SUFFICES ASSUME Init PROVE TypeInv
  OBVIOUS
<1>1. 0 \in Lines /\ 0 \in Ways /\ 0 \in 0..MaxAfter
  BY CacheAssumption DEF Lines, Ways
<1>2. TypeOK
  BY <1>1, UnaskedType DEF Init, TypeOK, States
<1>3. Phase
  BY DEF Init, Phase
<1> QED
  BY <1>2, <1>3 DEF TypeInv

LEMMA TypeNext == ASSUME TypeInv, [Next]_vars PROVE TypeInv'
<1> USE DEF TypeInv
<1>1. ASSUME NEW r \in Requests, Access(r) PROVE TypeInv'
  <2>1. r \in Request
    BY CacheAssumption
  <2>2. misuse' \subseteq {"amo", "access", "fence"} /\ after' \in 0..MaxAfter
    BY <1>1, AsksType DEF Access
  <2> QED
    BY <1>1, <2>1, <2>2 DEF Access, TypeOK, Phase, States, bits, brams, counters
<1>2. ASSUME NEW r \in Request, FlushWith(r),
             NEW kinds \in SUBSET {"amo", "access", "fence"}, Asks(kinds)
      PROVE  TypeInv'
  BY <1>2, AsksType DEF FlushWith, TypeOK, Phase, States, bits, brams, counters
<1>3. CASE Hit
  <2>1. line \in Lines /\ req.tag \in Tags /\ req.word \in Words
    BY DEF TypeOK, Request, line
  <2>2. TypeOK'
    <3>1. CASE rw
      <4>1. \A w \in Ways : (w \in hits \/ DIRTY[line][w]) \in BOOLEAN
        BY <2>1 DEF TypeOK
      <4>2. DIRTY' = [DIRTY EXCEPT ![line] = [w \in Ways |-> w \in hits \/ DIRTY[line][w]]]
        BY <1>3, <3>1 DEF Hit
      <4>3. DIRTY' \in [Lines -> [Ways -> BOOLEAN]]
        BY <2>1, <4>1, <4>2 DEF TypeOK
      <4>4. \A w \in Ways : DIRTY'[line][w] <=> w \in hits \/ DIRTY[line][w]
        BY <2>1, <4>2 DEF TypeOK
      <4>5. \A l \in Lines \ {line} : DIRTY'[l] = DIRTY[l]
        BY <2>1, <4>2 DEF TypeOK
      <4>6. \A w \in hits : VALID[line][w]
        BY DEF hits
      <4>7. VALID' = VALID
        BY <1>3 DEF Hit
      <4>8. \A l \in Lines, w \in Ways : DIRTY'[l][w] => VALID'[l][w]
        BY <4>4, <4>5, <4>6, <4>7 DEF TypeOK
      <4>9. data[line][hit_index] \cup {req.word} \subseteq Words
        BY <2>1, HitIndexType DEF TypeOK
      <4>10. data' \in [Lines -> [Ways -> SUBSET Words]]
        <5> DEFINE new == [w \in Ways |-> IF w \in hits THEN data[line][hit_index] \cup {req.word}
                                          ELSE data[line][w]]
        <5>1. data' = [data EXCEPT ![line] = new]
          BY <1>3, <3>1 DEF Hit
        <5>2. new \in [Ways -> SUBSET Words]
          BY <2>1, <4>9 DEF TypeOK
        <5> HIDE DEF new
        <5> QED
          BY <5>1, <5>2 DEF TypeOK
      <4>11. mem' \in [Tags -> [Lines -> SUBSET Words]]
        <5>1. mem' = [mem EXCEPT ![req.tag][line] = mem[req.tag][line] \ {req.word}]
          BY <1>3, <3>1 DEF Hit
        <5> QED
          BY <5>1, <2>1 DEF TypeOK
      <4> QED
        BY <1>3, <3>1, <4>3, <4>8, <4>10, <4>11, UnaskedType DEF Hit, TypeOK, States, counters
    <3>2. CASE ~rw
      <4>1. p_data' \in BOOLEAN
        BY <1>3, <3>2 DEF Hit
      <4> QED
        BY <1>3, <3>2, <4>1, UnaskedType DEF Hit, TypeOK, States, counters
    <3> QED
      BY <3>1, <3>2
  <2>3. Phase'
    BY <1>3 DEF Hit, analysed, Phase
  <2> QED
    BY <2>2, <2>3
<1>4. CASE Miss
  BY <1>4 DEF Miss, analysed, TypeOK, Phase, States, bits, brams, counters
<1>5. CASE Atomic
  BY <1>5 DEF Atomic, analysed, TypeOK, Phase, States, bits, brams, counters
<1>6. CASE StartFlush
  <2> DEFINE stored == IF line = N_LINES_cnt THEN data[line][hit_index] \ {req.word} ELSE {}
             writes == IF rw THEN hits ELSE {}
  <2>1. line \in Lines /\ req.tag \in Tags /\ N_LINES_cnt \in Lines
    BY DEF TypeOK, Request, line
  <2>2. stored \subseteq Words /\ \A w \in writes : VALID[line][w]
    BY <2>1, HitIndexType DEF TypeOK, hits
  <2>3. /\ S' = "WbtoMemAll" /\ busy_flushing
        /\ tags' = [tags EXCEPT ![N_LINES_cnt] =
                      [w \in Ways |-> IF w \in writes THEN req.tag ELSE tags[N_LINES_cnt][w]]]
        /\ data' = [data EXCEPT ![N_LINES_cnt] =
                      [w \in Ways |-> IF w \in writes THEN stored ELSE data[N_LINES_cnt][w]]]
        /\ DIRTY' = [DIRTY EXCEPT ![line] = [w \in Ways |-> w \in writes \/ DIRTY[line][w]]]
        /\ req' = IF cache_hit THEN Unasked ELSE req
        /\ UNCHANGED <<missed, misuse, after, busy_flushing, VALID, FIFO_cnt, N_LINES_cnt, N_WAYS_cnt,
                       m_data, mem, p_data>>
    BY <1>6 DEF StartFlush, counters
  <2> HIDE DEF stored, writes
  <2>4. tags' \in [Lines -> [Ways -> Tags]]
    BY <2>1, <2>3 DEF TypeOK
  <2>5. data' \in [Lines -> [Ways -> SUBSET Words]]
    BY <2>1, <2>2, <2>3 DEF TypeOK
  <2>6. /\ DIRTY' \in [Lines -> [Ways -> BOOLEAN]]
        /\ \A l \in Lines, w \in Ways : DIRTY'[l][w] => VALID[l][w]
    <3> DEFINE new == [w \in Ways |-> w \in writes \/ DIRTY[line][w]]
    <3>1. new \in [Ways -> BOOLEAN] /\ DIRTY' = [DIRTY EXCEPT ![line] = new]
      BY <2>3
    <3>2. \A w \in Ways : new[w] => VALID[line][w]
      BY <2>1, <2>2 DEF TypeOK
    <3> HIDE DEF new
    <3> QED
      BY <2>1, <3>1, <3>2 DEF TypeOK
  <2>7. TypeOK'
    BY <2>3, <2>4, <2>5, <2>6, UnaskedType DEF TypeOK, States
  <2>8. Phase'
    BY <2>3 DEF Phase
  <2> QED
    BY <2>7, <2>8
<1>7. CASE WbtoMem
  <2>1. line \in Lines /\ victim_sel \in Ways
    BY DEF TypeOK, Request, line, victim_sel
  <2>2. mem' \in [Tags -> [Lines -> SUBSET Words]]
    BY <1>7, <2>1, HitIndexType DEF WbtoMem, TypeOK
  <2>3. TypeOK'
    BY <1>7, <2>2 DEF WbtoMem, TypeOK, States, bits, brams, counters
  <2>4. Phase'
    BY <1>7 DEF WbtoMem, Phase
  <2> QED
    BY <2>3, <2>4
<1>8. CASE WbtoMemFinish
  BY <1>8 DEF WbtoMemFinish, TypeOK, Phase, States, bits, brams, counters
<1>9. CASE RdfromMem
  <2>1. line \in Lines /\ victim_sel \in Ways /\ req.tag \in Tags
    BY DEF TypeOK, Request, line, victim_sel
  <2>2. /\ VALID' \in [Lines -> [Ways -> BOOLEAN]] /\ DIRTY' \in [Lines -> [Ways -> BOOLEAN]]
        /\ \A l \in Lines, w \in Ways : DIRTY'[l][w] => VALID'[l][w]
    BY <1>9, <2>1 DEF RdfromMem, TypeOK, rw
  <2>3. TypeOK'
    BY <1>9, <2>1, <2>2 DEF RdfromMem, TypeOK, States, brams, counters
  <2>4. Phase'
    BY <1>9 DEF RdfromMem, Phase
  <2> QED
    BY <2>3, <2>4
<1>10. CASE RdfromMemFinish
  <2>1. line \in Lines /\ victim_sel \in Ways /\ req.tag \in Tags /\ req.word \in Words
    BY DEF TypeOK, Request, line, victim_sel
  <2>2. FIFO_cnt' \in [Lines -> Ways]
    <3>1. NextOf(victim_sel, N_WAYS) \in Ways
      BY <2>1, Wraps, CacheAssumption DEF Ways
    <3> QED
      BY <1>10, <2>1, <3>1 DEF RdfromMemFinish, TypeOK, victim_sel
  <2>3. data' \in [Lines -> [Ways -> SUBSET Words]]
    BY <1>10, <2>1 DEF RdfromMemFinish, TypeOK
  <2>4. tags' \in [Lines -> [Ways -> Tags]] /\ mem' \in [Tags -> [Lines -> SUBSET Words]]
    BY <1>10, <2>1 DEF RdfromMemFinish, TypeOK
  <2>5. p_data' \in BOOLEAN
    <3>1. CASE rw
      <4>1. p_data' = p_data
        BY <1>10, <3>1 DEF RdfromMemFinish
      <4> QED
        BY <4>1 DEF TypeOK
    <3>2. CASE ~rw
      <4>1. p_data' = (req.word \in m_data)
        BY <1>10, <3>2 DEF RdfromMemFinish
      <4> QED
        BY <4>1
    <3> QED
      BY <3>1, <3>2
  <2>6. /\ S' = "Idle" /\ req' = Unasked /\ m_data' = {}
        /\ UNCHANGED <<missed, misuse, after, busy_flushing, VALID, DIRTY, N_LINES_cnt, N_WAYS_cnt>>
    BY <1>10 DEF RdfromMemFinish, bits, counters
  <2>7. TypeOK'
    BY <2>2, <2>3, <2>4, <2>5, <2>6, UnaskedType DEF TypeOK, States
  <2>8. Phase'
    BY <1>10 DEF RdfromMemFinish, Phase
  <2> QED
    BY <2>7, <2>8
<1>11. CASE RdAmo
  <2>1. line \in Lines /\ req.tag \in Tags /\ req.word \in Words
    BY DEF TypeOK, Request, line
  <2>2. /\ VALID' \in [Lines -> [Ways -> BOOLEAN]] /\ DIRTY' \in [Lines -> [Ways -> BOOLEAN]]
        /\ \A l \in Lines, w \in Ways : DIRTY'[l][w] => VALID'[l][w]
    BY <1>11, <2>1, HitIndexType DEF RdAmo, TypeOK
  <2>3. /\ data' \in [Lines -> [Ways -> SUBSET Words]] /\ mem' \in [Tags -> [Lines -> SUBSET Words]]
        /\ m_data' \subseteq Words
    BY <1>11, <2>1, OutdatedType DEF RdAmo, TypeOK
  <2>4. TypeOK'
    BY <1>11, <2>2, <2>3 DEF RdAmo, TypeOK, States, counters
  <2>5. Phase'
    BY <1>11 DEF RdAmo, Phase
  <2> QED
    BY <2>4, <2>5
<1>12. CASE RdAmoFinish
  BY <1>12, UnaskedType DEF RdAmoFinish, TypeOK, Phase, States, bits, brams, counters
<1>13. CASE WbtoMemAll
  <2>1. N_LINES_cnt' \in Lines /\ N_WAYS_cnt' \in Ways
    BY <1>13, Wraps, CacheAssumption DEF WbtoMemAll, TypeOK, Lines, Ways
  <2>2. /\ DIRTY' \in [Lines -> [Ways -> BOOLEAN]]
        /\ \A l \in Lines, w \in Ways : DIRTY'[l][w] => VALID'[l][w]
    BY <1>13 DEF WbtoMemAll, TypeOK
  <2>3. mem' \in [Tags -> [Lines -> SUBSET Words]]
    BY <1>13 DEF WbtoMemAll, TypeOK
  <2>4. TypeOK'
    BY <1>13, <2>1, <2>2, <2>3 DEF WbtoMemAll, TypeOK, Phase, States, brams
  <2>5. Phase'
    BY <1>13 DEF WbtoMemAll, Phase
  <2> QED
    BY <2>4, <2>5
<1>14. CASE WbtoMemAllFinish
  <2> DEFINE finished == WbAllFinish_r
  <2>1. /\ S = "WbtoMemAllFinish" /\ S' = IF finished THEN "Idle" ELSE "WbtoMemAll"
        /\ busy_flushing' = ~finished /\ req' = IF finished THEN Unasked ELSE req
        /\ UNCHANGED <<misuse, after, VALID, DIRTY, tags, FIFO_cnt, N_LINES_cnt, N_WAYS_cnt, m_data>>
    BY <1>14 DEF WbtoMemAllFinish, FinishAll, bits, counters
  <2>2. /\ missed' \in {{}} \cup {{r} : r \in Requests} /\ p_data' \in BOOLEAN
        /\ data' \in [Lines -> [Ways -> SUBSET Words]] /\ mem' \in [Tags -> [Lines -> SUBSET Words]]
    <3>1. CASE finished /\ missed # {}
      <4>1. AnswersMissed /\ missed' = {}
        BY <1>14, <3>1 DEF WbtoMemAllFinish, FinishAll
      <4>2. PICK r \in Requests : missed = {r}
        BY <3>1 DEF TypeOK
      <4>3. r \in Request /\ r.tag \in Tags /\ r.line \in Lines
        BY CacheAssumption DEF Request
      <4>4. /\ p_data' = (r.op = "write" /\ p_data)
            /\ data' = IF r.op = "read" THEN data ELSE Outdated(r)
            /\ mem' = IF r.op = "read" THEN mem
                      ELSE [mem EXCEPT ![r.tag][r.line] = mem[r.tag][r.line] \ {r.word}]
        BY <4>1, <4>2 DEF AnswersMissed
      <4>5. p_data' \in BOOLEAN
        BY <4>4
      <4>6. data' \in [Lines -> [Ways -> SUBSET Words]]
        BY <4>3, <4>4, OutdatedType DEF TypeOK
      <4>7. mem' \in [Tags -> [Lines -> SUBSET Words]]
        BY <4>3, <4>4 DEF TypeOK
      <4> QED
        BY <4>1, <4>5, <4>6, <4>7
    <3>2. CASE ~(finished /\ missed # {})
      <4>1. UNCHANGED <<missed, data, mem, p_data>>
        BY <1>14, <3>2 DEF WbtoMemAllFinish, FinishAll
      <4> QED
        BY <4>1 DEF TypeOK
    <3> QED
      BY <3>1, <3>2
  <2>3. busy_flushing
    BY <2>1 DEF Phase
  <2>4. finished \in BOOLEAN /\ (finished => N_LINES_cnt = 0 /\ N_WAYS_cnt = 0)
    BY DEF WbAllFinish_r
  <2> HIDE DEF finished
  <2>5. req' \in Request /\ S' \in States /\ busy_flushing' \in BOOLEAN
    BY <2>1, <2>4, UnaskedType DEF TypeOK, States
  <2>6. ~busy_flushing' => N_LINES_cnt' = 0 /\ N_WAYS_cnt' = 0
    BY <2>1, <2>4
  <2>7. TypeOK'
    BY <2>1, <2>2, <2>5, <2>6 DEF TypeOK
  <2>8. Phase'
    BY <2>1, <2>4 DEF Phase
  <2> QED
    BY <2>7, <2>8
<1>15. ASSUME NEW r \in Requests, Missed(r) \/ LateMissed(r) PROVE TypeInv'
  <2>1. S \in {"WbtoMemAll", "WbtoMemAllFinish"} /\ missed' \in {{}} \cup {{q} : q \in Requests}
    BY <1>15 DEF Missed, LateMissed
  <2>2. UNCHANGED <<req, VALID, DIRTY, tags, data, FIFO_cnt, N_LINES_cnt, N_WAYS_cnt, m_data, mem,
                   p_data>>
    BY <1>15 DEF Missed, LateMissed, bits, brams, counters
  <2>0. misuse' \subseteq {"amo", "access", "fence"} /\ after' \in 0..MaxAfter
    BY <1>15, AsksType DEF Missed, LateMissed
  <2>3. CASE Missed(r)
    BY <2>0, <2>1, <2>2, <2>3 DEF Missed, TypeOK, Phase, States
  <2>4. CASE LateMissed(r)
    BY <2>0, <2>1, <2>2, <2>4 DEF LateMissed, WbAllFinish_r, TypeOK, Phase, States
  <2> QED
    BY <1>15, <2>3, <2>4
<1>16. CASE UNCHANGED vars
  BY <1>16 DEF vars, TypeOK, Phase, bits, brams, counters
<1>17. /\ Flush => FlushWith(Unasked) /\ Asks({})
       /\ \A r \in Requests : FlushAt(r) => FlushWith(r) /\ r \in Request /\ Asks({"fence"})
  BY CacheAssumption DEF Flush, FlushAt
<1> QED
  BY <1>1, <1>2, <1>3, <1>4, <1>5, <1>6, <1>7, <1>8, <1>9, <1>10, <1>11, <1>12, <1>13, <1>14,
     <1>15, <1>16, <1>17, UnaskedType DEF Next, Work

\* The variables keep their types, for every size of the cache and every
\* sequence of requests and flushes; only valid lines are dirty, and a flush
\* leaves the counters where the next one begins (dcache.v:154-175, 600-633).
THEOREM TypeCorrect == Spec => []TypeOK
<1>1. Spec => []TypeInv
  BY TypeInit, TypeNext, PTL DEF Spec
<1> QED
  BY <1>1, PTL DEF TypeInv

----------------------------------------------------------------------------
(* Facts about one state.                                                  *)

LEMMA Addressed == ASSUME TypeOK
                   PROVE  /\ line \in Lines /\ victim_sel \in Ways
                          /\ req.tag \in Tags /\ req.word \in Words
BY DEF TypeOK, Request, line, victim_sel

LEMMA NotFilling ==
  ASSUME S # "RdfromMemFinish"
  PROVE  \A l \in Lines, w \in Ways : Settled(l, w) <=> VALID[l][w]
BY DEF Settled

\* The way that hits is the only one, and the one hit_index names.
LEMMA OneHit ==
  ASSUME TypeOK, Unique, S # "RdfromMemFinish", NEW w \in hits
  PROVE  hits = {w} /\ hit_index = w /\ w \in Ways
<1>1. w \in Ways /\ VALID[line][w] /\ tags[line][w] = req.tag
  BY DEF hits
<1>2. ASSUME NEW v \in hits PROVE v = w
  <2>1. v \in Ways /\ VALID[line][v] /\ tags[line][v] = req.tag
    BY <1>2 DEF hits
  <2> QED
    BY <1>1, <2>1, NotFilling, Addressed DEF Unique
<1>3. hits = {w}
  BY <1>2
<1> QED
  BY <1>1, <1>3, HitIndexHits

----------------------------------------------------------------------------
(* Facts about steps.                                                      *)

\* A step that leaves the arrays and memory alone keeps what is said of them.
LEMMA Quiet ==
  ASSUME LinesInv, S # "RdfromMemFinish", S' # "RdfromMemFinish",
         UNCHANGED <<VALID, DIRTY, tags, data, mem>>
  PROVE  LinesInv'
<1>1. \A l \in Lines, w \in Ways : Settled(l, w)' <=> Settled(l, w)
  BY DEF Settled
<1>2. \A l \in Lines, w \in Ways, t \in Tags : Holds(l, w, t)' <=> Holds(l, w, t)
  BY <1>1 DEF Holds
<1>3. Unique' /\ Current' /\ CleanInMemory'
  BY <1>1 DEF LinesInv, Unique, Current, CleanInMemory
<1>4. UncachedInMemory'
  BY <1>2 DEF LinesInv, UncachedInMemory
<1> QED
  BY <1>3, <1>4 DEF LinesInv

\* A valid line that is written back is in memory, and no other is disturbed.
LEMMA WrittenBack ==
  ASSUME TypeOK, LinesInv, S # "RdfromMemFinish", NEW l \in Lines, NEW w \in Ways, VALID[l][w],
         mem' = [mem EXCEPT ![tags[l][w]][l] = data[l][w]]
  PROVE  \A t \in Tags, k \in Lines :
           mem'[t][k] = IF t = tags[l][w] /\ k = l THEN Words ELSE mem[t][k]
<1>1. data[l][w] = Words
  BY NotFilling DEF LinesInv, Current
<1>2. tags[l][w] \in Tags
  BY DEF TypeOK
<1> QED
  BY <1>1, <1>2 DEF TypeOK

\* Nothing is lost if memory changes only by getting lines back, and dirty
\* bits are only cleared of lines that are in memory.
LEMMA MoreInMemory ==
  ASSUME TypeOK, LinesInv, S # "RdfromMemFinish", S' # "RdfromMemFinish",
         UNCHANGED <<VALID, tags, data>>,
         \A t \in Tags, k \in Lines : mem[t][k] = Words => mem'[t][k] = Words,
         \A k \in Lines, v \in Ways :
           VALID[k][v] /\ ~DIRTY'[k][v] /\ DIRTY[k][v] => mem'[tags[k][v]][k] = Words
  PROVE  LinesInv'
<1>1. \A l \in Lines, w \in Ways : Settled(l, w)' <=> Settled(l, w)
  BY DEF Settled
<1>2. \A l \in Lines, w \in Ways, t \in Tags : Holds(l, w, t)' <=> Holds(l, w, t)
  BY <1>1 DEF Holds
<1>3. Unique' /\ Current'
  BY <1>1 DEF LinesInv, Unique, Current
<1>4. CleanInMemory'
  <2> SUFFICES ASSUME NEW l \in Lines, NEW w \in Ways, Settled(l, w)', ~DIRTY'[l][w]
               PROVE  mem'[tags'[l][w]][l] = Words
    BY DEF CleanInMemory
  <2>1. Settled(l, w) /\ VALID[l][w] /\ tags[l][w] \in Tags
    BY <1>1, NotFilling DEF TypeOK
  <2> QED
    BY <2>1 DEF LinesInv, CleanInMemory
<1>5. UncachedInMemory'
  BY <1>2 DEF LinesInv, UncachedInMemory
<1> QED
  BY <1>3, <1>4, <1>5 DEF LinesInv

----------------------------------------------------------------------------
(* The steps, one lemma for each that changes the arrays or memory.        *)

LEMMA HitKeeps == ASSUME TypeInv, DataInv, Hit PROVE DataInv'
<1>1. S = "Analysis" /\ S' = "Idle" /\ UNCHANGED <<VALID, tags>>
  BY DEF Hit, analysed, bits
<1> DEFINE h == hit_index
<1>2. h \in Ways /\ hits = {h} /\ VALID[line][h] /\ tags[line][h] = req.tag
  <2>1. PICK w \in hits : TRUE
    BY DEF Hit, cache_hit
  <2>2. hits = {w} /\ h = w /\ w \in Ways
    BY <1>1, <2>1, OneHit DEF TypeInv, DataInv, LinesInv
  <2> QED
    BY <2>2 DEF hits
<1> HIDE DEF h
<1>3. line \in Lines /\ req.tag \in Tags /\ req.word \in Words
  BY Addressed DEF TypeInv
<1>4. Missing' /\ AtomicSafe'
  BY <1>1 DEF Missing, AtomicSafe
<1>5. data[line][h] = Words
  BY <1>1, <1>2, <1>3, NotFilling DEF DataInv, LinesInv, Current
<1>6. CASE rw
  <2>1. /\ data' = [data EXCEPT ![line] = [w \in Ways |->
                      IF w \in hits THEN data[line][hit_index] \cup {req.word} ELSE data[line][w]]]
        /\ DIRTY' = [DIRTY EXCEPT ![line] = [w \in Ways |-> w \in hits \/ DIRTY[line][w]]]
        /\ mem' = [mem EXCEPT ![req.tag][line] = mem[req.tag][line] \ {req.word}]
        /\ p_data' = p_data
    BY <1>6 DEF Hit
  <2>2. \A l \in Lines, w \in Ways : data'[l][w] = data[l][w]
    BY <1>2, <1>3, <1>5, <2>1 DEF TypeInv, TypeOK, h
  <2>3. \A l \in Lines, w \in Ways : (l = line /\ w = h) => DIRTY'[l][w]
    BY <1>2, <1>3, <2>1 DEF TypeInv, TypeOK
  <2>4. \A l \in Lines, w \in Ways : ~(l = line /\ w = h) => (DIRTY'[l][w] <=> DIRTY[l][w])
    BY <1>2, <1>3, <2>1 DEF TypeInv, TypeOK
  <2>5. \A t \in Tags, l \in Lines : ~(t = req.tag /\ l = line) => mem'[t][l] = mem[t][l]
    BY <1>3, <2>1 DEF TypeInv, TypeOK
  <2>6. \A l \in Lines, w \in Ways : Settled(l, w)' <=> Settled(l, w)
    BY <1>1 DEF Settled
  <2>7. Unique' /\ Current'
    BY <1>1, <2>2, <2>6 DEF DataInv, LinesInv, Unique, Current
  <2>8. CleanInMemory'
    <3> SUFFICES ASSUME NEW l \in Lines, NEW w \in Ways, Settled(l, w)', ~DIRTY'[l][w]
                 PROVE  mem'[tags[l][w]][l] = Words
      BY <1>1 DEF CleanInMemory
    <3>1. ~(l = line /\ w = h) /\ ~DIRTY[l][w] /\ Settled(l, w)
      BY <2>3, <2>4, <2>6
    <3>2. Settled(line, h)
      BY <1>1, <1>2, <1>3, NotFilling
    <3>3. ~(tags[l][w] = req.tag /\ l = line)
      BY <1>2, <1>3, <3>1, <3>2 DEF DataInv, LinesInv, Unique
    <3>4. mem[tags[l][w]][l] = Words /\ tags[l][w] \in Tags
      BY <3>1 DEF DataInv, LinesInv, CleanInMemory, TypeInv, TypeOK
    <3> QED
      BY <2>5, <3>3, <3>4
  <2>9. UncachedInMemory'
    <3> SUFFICES ASSUME NEW t \in Tags, NEW l \in Lines, \A w \in Ways : ~Holds(l, w, t)'
                 PROVE  mem'[t][l] = Words
      BY DEF UncachedInMemory
    <3>1. \A w \in Ways : ~Holds(l, w, t)
      BY <1>1, <2>6 DEF Holds
    <3>2. Holds(line, h, req.tag)
      BY <1>1, <1>2, <1>3, NotFilling DEF Holds
    <3>3. ~(t = req.tag /\ l = line)
      BY <1>2, <3>1, <3>2
    <3> QED
      BY <2>5, <3>1, <3>3 DEF DataInv, LinesInv, UncachedInMemory
  <2> QED
    BY <1>4, <2>1, <2>7, <2>8, <2>9 DEF DataInv, LinesInv, Fresh
<1>7. CASE ~rw
  <2>1. UNCHANGED <<VALID, DIRTY, tags, data, mem>> /\ p_data' = (req.word \in data[line][h])
    BY <1>1, <1>7 DEF Hit, h
  <2>2. LinesInv'
    BY <1>1, <2>1, Quiet DEF DataInv
  <2>3. Fresh'
    BY <1>3, <1>5, <2>1 DEF Fresh
  <2> QED
    BY <1>4, <2>2, <2>3 DEF DataInv
<1> QED
  BY <1>6, <1>7

LEMMA WbtoMemKeeps == ASSUME TypeInv, DataInv, WbtoMem PROVE DataInv'
<1>1. /\ S = "WbtoMem" /\ S' = "WbtoMemFinish" /\ ~busy_flushing
      /\ UNCHANGED <<req, VALID, DIRTY, tags, data, FIFO_cnt, p_data>>
  BY DEF WbtoMem, bits, brams, TypeInv, Phase
<1>2. line \in Lines /\ victim_sel \in Ways /\ req.tag \in Tags /\ line' = line /\ victim_sel' = victim_sel
  BY <1>1, Addressed DEF TypeInv, line, victim_sel
<1> DEFINE w0 == IF req.op = "amo" THEN hit_index ELSE victim_sel
<1>5. w0 \in Ways /\ VALID[line][w0] /\ (req.op = "amo" => tags[line][w0] = req.tag)
  <2>1. CASE req.op = "amo"
    <3>1. PICK w \in Ways : Holds(line, w, req.tag)
      BY <1>1, <2>1 DEF DataInv, AtomicSafe, Cached
    <3>2. w \in hits
      BY <1>1, <1>2, <3>1, NotFilling DEF Holds, hits
    <3>3. hit_index = w
      BY <1>1, <3>2, OneHit DEF TypeInv, DataInv, LinesInv
    <3> QED
      BY <2>1, <3>2, <3>3 DEF hits
  <2>2. CASE req.op # "amo"
    BY <1>1, <1>2, <2>2 DEF DataInv, Missing
  <2> QED
    BY <2>1, <2>2
<1>6. mem' = [mem EXCEPT ![tags[line][w0]][line] = data[line][w0]]
  BY DEF WbtoMem
<1> HIDE DEF w0
<1>7. \A t \in Tags, k \in Lines :
        mem'[t][k] = IF t = tags[line][w0] /\ k = line THEN Words ELSE mem[t][k]
  BY <1>1, <1>2, <1>5, <1>6, WrittenBack DEF TypeInv, DataInv
<1>8. tags[line][w0] \in Tags
  BY <1>2, <1>5 DEF TypeInv, TypeOK
<1>9. LinesInv'
  BY <1>1, <1>7, MoreInMemory DEF TypeInv, DataInv
<1>10. Missing'
  <2>1. req.op # "amo" => mem'[tags[line][victim_sel]][line] = Words
    BY <1>2, <1>7, <1>8 DEF w0
  <2>2. req.op # "amo" => \A w \in Ways : ~Holds(line, w, req.tag)
    BY <1>1 DEF DataInv, Missing
  <2>3. req.op # "amo" => \A w \in Ways : ~Holds(line, w, req.tag)'
    BY <1>1, <1>2, <2>2 DEF Holds, Settled
  <2> QED
    BY <1>1, <1>2, <2>1, <2>3 DEF Missing
<1>11. AtomicSafe'
  <2>1. req.op = "amo" => mem'[req.tag][line] = Words
    BY <1>2, <1>5, <1>7
  <2>2. req.op = "amo" => \E w \in Ways : Holds(line, w, req.tag)
    BY <1>1 DEF DataInv, AtomicSafe, Cached
  <2>3. req.op = "amo" => \E w \in Ways : Holds(line, w, req.tag)'
    BY <1>1, <1>2, <2>2 DEF Holds, Settled
  <2> QED
    BY <1>1, <1>2, <2>1, <2>3 DEF AtomicSafe, Cached
<1> QED
  BY <1>1, <1>9, <1>10, <1>11 DEF DataInv, Fresh

LEMMA RdfromMemKeeps == ASSUME TypeInv, DataInv, RdfromMem PROVE DataInv'
<1> DEFINE v == victim_sel
<1>1. /\ S = "RdfromMem" /\ S' = "RdfromMemFinish" /\ req.op # "amo" /\ line' = line /\ victim_sel' = v
      /\ UNCHANGED <<req, tags, data, mem, p_data>> /\ m_data' = mem[req.tag][line]
  BY DEF RdfromMem, brams, TypeInv, Phase, line, victim_sel
<1>2. line \in Lines /\ v \in Ways /\ req.tag \in Tags
  BY Addressed DEF TypeInv
<1>3. /\ VALID' = [VALID EXCEPT ![line][v] = TRUE]
      /\ DIRTY' = [DIRTY EXCEPT ![line][v] = rw \/ DIRTY[line][v]]
  BY DEF RdfromMem
<1>4. /\ VALID'[line][v]
      /\ rw => DIRTY'[line][v]
      /\ \A l \in Lines, w \in Ways : ~(l = line /\ w = v) =>
           (VALID'[l][w] <=> VALID[l][w]) /\ (DIRTY'[l][w] <=> DIRTY[l][w])
  BY <1>2, <1>3 DEF TypeInv, TypeOK
<1>5. \A l \in Lines, w \in Ways : Settled(l, w)' <=> Settled(l, w) /\ ~(l = line /\ w = v)
  BY <1>1, <1>4 DEF Settled
<1> HIDE DEF v
<1>6. Unique' /\ Current' /\ CleanInMemory'
  BY <1>1, <1>4, <1>5 DEF DataInv, LinesInv, Unique, Current, CleanInMemory
<1>7. UncachedInMemory'
  <2> SUFFICES ASSUME NEW t \in Tags, NEW l \in Lines, \A w \in Ways : ~Holds(l, w, t)'
               PROVE  mem[t][l] = Words
    BY <1>1 DEF UncachedInMemory
  <2>1. \A w \in Ways : Holds(l, w, t) => l = line /\ w = v
    BY <1>1, <1>5 DEF Holds
  <2>2. CASE Holds(line, v, t) /\ l = line
    <3>1. VALID[line][v] /\ tags[line][v] = t
      BY <2>2 DEF Holds, Settled
    <3> QED
      BY <1>1, <2>2, <3>1 DEF DataInv, Missing, v
  <2>3. CASE ~(Holds(line, v, t) /\ l = line)
    BY <2>1, <2>3 DEF DataInv, LinesInv, UncachedInMemory
  <2> QED
    BY <2>2, <2>3
<1>8. \A w \in Ways : ~Holds(line, w, req.tag)
  BY <1>1 DEF DataInv, Missing
<1>9. Missing'
  <2>1. m_data' = Words
    BY <1>1, <1>2, <1>8 DEF DataInv, LinesInv, UncachedInMemory
  <2>2. \A w \in Ways : ~Holds(line, w, req.tag)'
    BY <1>1, <1>2, <1>5, <1>8 DEF Holds
  <2>3. rw' = rw
    BY <1>1 DEF rw
  <2> QED
    BY <1>1, <1>4, <2>1, <2>2, <2>3 DEF Missing, v
<1>10. AtomicSafe'
  BY <1>1 DEF AtomicSafe
<1> QED
  BY <1>1, <1>6, <1>7, <1>9, <1>10 DEF DataInv, LinesInv, Fresh

LEMMA RdfromMemFinishKeeps == ASSUME TypeInv, DataInv, RdfromMemFinish PROVE DataInv'
<1> DEFINE v == victim_sel
<1>1. /\ S = "RdfromMemFinish" /\ S' = "Idle" /\ UNCHANGED <<VALID, DIRTY>>
      /\ tags' = [tags EXCEPT ![line][v] = req.tag]
  BY DEF RdfromMemFinish, bits
<1>2. line \in Lines /\ v \in Ways /\ req.tag \in Tags /\ req.word \in Words
  BY Addressed DEF TypeInv
<1>3. m_data = Words /\ VALID[line][v] /\ (rw => DIRTY[line][v]) /\ req.op # "amo"
  BY <1>1 DEF DataInv, Missing, TypeInv, Phase
<1>4. \A w \in Ways : ~Holds(line, w, req.tag)
  BY <1>1, <1>3 DEF DataInv, Missing
<1>5. data' = [data EXCEPT ![line][v] = Words]
  <2>1. (IF rw THEN m_data \cup {req.word} ELSE m_data) = Words
    BY <1>2, <1>3
  <2> QED
    BY <2>1 DEF RdfromMemFinish
<1>6. \A t \in Tags, l \in Lines : (rw => ~(t = req.tag /\ l = line)) => mem'[t][l] = mem[t][l]
  <2>1. CASE rw
    <3>1. mem' = [mem EXCEPT ![req.tag][line] = mem[req.tag][line] \ {req.word}]
      BY <2>1 DEF RdfromMemFinish
    <3> QED
      BY <1>2, <2>1, <3>1 DEF TypeInv, TypeOK
  <2>2. CASE ~rw
    BY <2>2 DEF RdfromMemFinish
  <2> QED
    BY <2>1, <2>2
<1>7. /\ tags'[line][v] = req.tag /\ data'[line][v] = Words
      /\ \A l \in Lines, w \in Ways : ~(l = line /\ w = v) =>
           tags'[l][w] = tags[l][w] /\ data'[l][w] = data[l][w]
  BY <1>1, <1>2, <1>5 DEF TypeInv, TypeOK
<1>8. \A l \in Lines, w \in Ways : Settled(l, w)' <=> Settled(l, w) \/ (l = line /\ w = v)
  BY <1>1, <1>3 DEF Settled
<1>9. ~Settled(line, v)
  BY <1>1 DEF Settled
<1> HIDE DEF v
<1>10. Unique'
  <2> SUFFICES ASSUME NEW l \in Lines, NEW a \in Ways, NEW b \in Ways,
                      Settled(l, a)', Settled(l, b)', tags'[l][a] = tags'[l][b]
               PROVE  a = b
    BY DEF Unique
  <2>1. CASE l = line /\ a = v /\ b # v
    BY <1>2, <1>4, <1>7, <1>8, <2>1 DEF Holds
  <2>2. CASE l = line /\ b = v /\ a # v
    BY <1>2, <1>4, <1>7, <1>8, <2>2 DEF Holds
  <2>3. CASE ~(l = line /\ (a = v \/ b = v))
    BY <1>7, <1>8, <2>3 DEF DataInv, LinesInv, Unique
  <2> QED
    BY <2>1, <2>2, <2>3
<1>11. Current'
  BY <1>7, <1>8 DEF DataInv, LinesInv, Current
<1>12. mem[req.tag][line] = Words
  BY <1>2, <1>4 DEF DataInv, LinesInv, UncachedInMemory
<1>13. CleanInMemory'
  <2> SUFFICES ASSUME NEW l \in Lines, NEW w \in Ways, Settled(l, w)', ~DIRTY[l][w]
               PROVE  mem'[tags'[l][w]][l] = Words
    BY <1>1 DEF CleanInMemory
  <2>1. CASE l = line /\ w = v
    BY <1>2, <1>3, <1>6, <1>7, <1>12, <2>1
  <2>2. CASE ~(l = line /\ w = v)
    <3>1. Settled(l, w) /\ tags'[l][w] = tags[l][w] /\ tags[l][w] \in Tags
      BY <1>7, <1>8, <2>2 DEF TypeInv, TypeOK
    <3>2. ~(tags[l][w] = req.tag /\ l = line)
      BY <1>4, <3>1 DEF Holds
    <3>3. mem[tags[l][w]][l] = Words
      BY <3>1 DEF DataInv, LinesInv, CleanInMemory
    <3> QED
      BY <1>6, <3>1, <3>2, <3>3
  <2> QED
    BY <2>1, <2>2
<1>14. UncachedInMemory'
  <2> SUFFICES ASSUME NEW t \in Tags, NEW l \in Lines,
                      \A w \in Ways : ~(Settled(l, w)' /\ tags'[l][w] = t)
               PROVE  mem'[t][l] = Words
    BY DEF UncachedInMemory, Holds
  <2>1. ~(t = req.tag /\ l = line)
    BY <1>2, <1>7, <1>8
  <2>2. \A w \in Ways : ~Holds(l, w, t)
    BY <1>7, <1>8, <1>9 DEF Holds
  <2> QED
    BY <1>6, <2>1, <2>2 DEF DataInv, LinesInv, UncachedInMemory
<1>15. Fresh'
  BY <1>2, <1>3 DEF RdfromMemFinish, DataInv, Fresh
<1>16. Missing' /\ AtomicSafe'
  BY <1>1 DEF Missing, AtomicSafe
<1> QED
  BY <1>10, <1>11, <1>13, <1>14, <1>15, <1>16 DEF DataInv, LinesInv

LEMMA RdAmoKeeps == ASSUME TypeInv, DataInv, RdAmo PROVE DataInv'
<1>1. /\ S = "RdAmo" /\ S' = "RdAmoFinish" /\ req.op = "amo" /\ ~busy_flushing
      /\ UNCHANGED <<tags, p_data>>
  BY DEF RdAmo, TypeInv, Phase
<1>2. line \in Lines /\ req.tag \in Tags /\ req.word \in Words
  BY Addressed DEF TypeInv
<1>3. mem[req.tag][line] = Words
  BY <1>1 DEF DataInv, AtomicSafe
<1>4. mem' = mem /\ m_data' = Words
  <2>1. mem[req.tag][line] \cup {req.word} = mem[req.tag][line]
    BY <1>2, <1>3
  <2>2. mem' = [mem EXCEPT ![req.tag][line] = mem[req.tag][line]] /\ m_data' = mem[req.tag][line]
    BY <2>1 DEF RdAmo
  <2> QED
    BY <1>2, <1>3, <2>2 DEF TypeInv, TypeOK
<1> DEFINE h == hit_index
<1>5. /\ h \in Ways
      /\ \/ VALID[line][h] /\ tags[line][h] = req.tag
         \/ ~DIRTY[line][h] /\ \A w \in Ways : ~(VALID[line][w] /\ tags[line][w] = req.tag)
  <2>1. CASE Cached
    <3>1. PICK w \in Ways : Holds(line, w, req.tag)
      BY <2>1 DEF Cached
    <3>2. w \in hits
      BY <1>1, <1>2, <3>1, NotFilling DEF Holds, hits
    <3>3. h = w
      BY <1>1, <3>2, OneHit DEF TypeInv, DataInv, LinesInv
    <3> QED
      BY <3>2, <3>3 DEF hits
  <2>2. CASE ~Cached
    <3>1. hits = {}
      BY <1>1, <1>2, <2>2, NotFilling DEF Cached, Holds, hits
    <3>2. h = 0
      BY <3>1, FS_EmptySet DEF hit_index
    <3>3. ~DIRTY[line][0]
      BY <1>1, <2>2 DEF DataInv, AtomicSafe
    <3> QED
      BY <3>1, <3>2, <3>3, HitIndexType DEF hits
  <2> QED
    BY <2>1, <2>2
<1>6. /\ VALID' = [VALID EXCEPT ![line][h] = FALSE] /\ DIRTY' = [DIRTY EXCEPT ![line][h] = FALSE]
      /\ data' = [data EXCEPT ![line] = [w \in Ways |->
                    IF tags[line][w] = req.tag THEN data[line][w] \ {req.word} ELSE data[line][w]]]
  BY DEF RdAmo, Outdated, line
<1> HIDE DEF h
<1>7. /\ ~VALID'[line][h]
      /\ \A l \in Lines, w \in Ways : ~(l = line /\ w = h) =>
           (VALID'[l][w] <=> VALID[l][w]) /\ (DIRTY'[l][w] <=> DIRTY[l][w])
  BY <1>2, <1>5, <1>6 DEF TypeInv, TypeOK
<1>8. \A l \in Lines, w \in Ways : Settled(l, w)' <=> Settled(l, w) /\ ~(l = line /\ w = h)
  BY <1>1, <1>7 DEF Settled
<1>9. \A l \in Lines, w \in Ways : Settled(l, w)' => data'[l][w] = data[l][w]
  <2> SUFFICES ASSUME NEW l \in Lines, NEW w \in Ways, Settled(l, w)'
               PROVE  data'[l][w] = data[l][w]
    OBVIOUS
  <2>1. CASE l = line
    <3>1. tags[line][w] # req.tag
      BY <1>1, <1>2, <1>5, <1>8, <2>1, NotFilling DEF DataInv, LinesInv, Unique
    <3> QED
      BY <1>2, <1>6, <2>1, <3>1 DEF TypeInv, TypeOK
  <2>2. CASE l # line
    BY <1>2, <1>6, <2>2 DEF TypeInv, TypeOK
  <2> QED
    BY <2>1, <2>2
<1>10. Unique' /\ Current' /\ CleanInMemory'
  BY <1>1, <1>4, <1>7, <1>8, <1>9 DEF DataInv, LinesInv, Unique, Current, CleanInMemory
<1>11. UncachedInMemory'
  <2> SUFFICES ASSUME NEW t \in Tags, NEW l \in Lines, \A w \in Ways : ~Holds(l, w, t)'
               PROVE  mem[t][l] = Words
    BY <1>4 DEF UncachedInMemory
  <2>1. \A w \in Ways : Holds(l, w, t) => l = line /\ w = h
    BY <1>1, <1>8 DEF Holds
  <2>2. CASE t = req.tag /\ l = line
    BY <1>3, <2>2
  <2>3. CASE ~(t = req.tag /\ l = line)
    <3>1. CASE \A w \in Ways : ~Holds(l, w, t)
      BY <3>1 DEF DataInv, LinesInv, UncachedInMemory
    <3>2. CASE \E w \in Ways : Holds(l, w, t)
      <4>1. Holds(line, h, t) /\ l = line
        BY <2>1, <3>2
      <4>2. ~DIRTY[line][h]
        BY <1>1, <1>2, <1>5, <2>3, <4>1 DEF Holds
      <4> QED
        BY <1>2, <1>5, <4>1, <4>2 DEF Holds, DataInv, LinesInv, CleanInMemory
    <3> QED
      BY <3>1, <3>2
  <2> QED
    BY <2>2, <2>3
<1>12. Missing' /\ AtomicSafe'
  BY <1>1, <1>4 DEF Missing, AtomicSafe
<1> QED
  BY <1>1, <1>10, <1>11, <1>12 DEF DataInv, LinesInv, Fresh

LEMMA WbtoMemAllKeeps == ASSUME TypeInv, DataInv, WbtoMemAll PROVE DataInv'
<1> DEFINE l0 == N_LINES_cnt
           w0 == N_WAYS_cnt
<1>1. /\ S = "WbtoMemAll" /\ S' = "WbtoMemAllFinish" /\ UNCHANGED <<VALID, tags, data, p_data>>
      /\ DIRTY' = [DIRTY EXCEPT ![l0][w0] = FALSE]
  BY DEF WbtoMemAll, brams
<1>2. l0 \in Lines /\ w0 \in Ways
  BY DEF TypeInv, TypeOK
<1>3. \A l \in Lines, w \in Ways : ~(l = l0 /\ w = w0) => (DIRTY'[l][w] <=> DIRTY[l][w])
  BY <1>1, <1>2 DEF TypeInv, TypeOK
<1>4. LinesInv'
  <2>1. CASE DIRTY[l0][w0]
    <3>1. VALID[l0][w0] /\ tags[l0][w0] \in Tags
      BY <1>2, <2>1 DEF TypeInv, TypeOK
    <3>2. mem' = [mem EXCEPT ![tags[l0][w0]][l0] = data[l0][w0]]
      BY <2>1 DEF WbtoMemAll, NeedtoWb
    <3> HIDE DEF l0, w0
    <3>3. \A t \in Tags, k \in Lines :
            mem'[t][k] = IF t = tags[l0][w0] /\ k = l0 THEN Words ELSE mem[t][k]
      BY <1>1, <1>2, <3>1, <3>2, WrittenBack DEF TypeInv, DataInv
    <3>4. mem'[tags[l0][w0]][l0] = Words
      BY <1>2, <3>1, <3>3
    <3>5. \A k \in Lines, v \in Ways :
            VALID[k][v] /\ ~DIRTY'[k][v] /\ DIRTY[k][v] => mem'[tags[k][v]][k] = Words
      BY <1>3, <3>4
    <3> QED
      BY <1>1, <3>3, <3>5, MoreInMemory DEF TypeInv, DataInv
  <2>2. CASE ~DIRTY[l0][w0]
    <3>1. mem' = mem
      BY <2>2 DEF WbtoMemAll, NeedtoWb
    <3> HIDE DEF l0, w0
    <3>2. \A k \in Lines, v \in Ways : ~(~DIRTY'[k][v] /\ DIRTY[k][v])
      BY <1>3, <2>2
    <3> QED
      BY <1>1, <3>1, <3>2, MoreInMemory DEF TypeInv, DataInv
  <2> QED
    BY <2>1, <2>2
<1> QED
  BY <1>1, <1>4 DEF DataInv, Missing, AtomicSafe, Fresh

----------------------------------------------------------------------------
(* The invariant.                                                          *)

LEMMA DataInit == Init => DataInv
<1> SUFFICES ASSUME Init PROVE DataInv
  OBVIOUS
<1>1. S = "Idle" /\ p_data = TRUE /\ \A l \in Lines, w \in Ways : ~VALID[l][w]
  BY DEF Init
<1>2. \A t \in Tags, l \in Lines : mem[t][l] = Words
  BY DEF Init
<1>3. LinesInv
  BY <1>1, <1>2, NotFilling DEF LinesInv, Unique, Current, CleanInMemory, UncachedInMemory
<1> QED
  BY <1>1, <1>3 DEF DataInv, Missing, AtomicSafe, Fresh

\* A flush without an address stores nothing when it starts.
LEMMA PlainFlush ==
  ASSUME TypeOK, StartFlush, req.op = "read"
  PROVE  UNCHANGED <<tags, data, DIRTY>>
<1>1. ~rw
  BY DEF rw
<1>2. tags' = tags
  <2>1. tags' = [tags EXCEPT ![N_LINES_cnt] = [w \in Ways |-> tags[N_LINES_cnt][w]]]
    BY <1>1 DEF StartFlush
  <2> QED
    BY <2>1 DEF TypeOK
<1>3. data' = data
  <2>1. data' = [data EXCEPT ![N_LINES_cnt] = [w \in Ways |-> data[N_LINES_cnt][w]]]
    BY <1>1 DEF StartFlush
  <2> QED
    BY <2>1 DEF TypeOK
<1>4. DIRTY' = DIRTY
  <2>1. DIRTY' = [DIRTY EXCEPT ![line] = [w \in Ways |-> w \in {} \/ DIRTY[line][w]]]
    BY <1>1 DEF StartFlush
  <2>2. line \in Lines
    BY Addressed
  <2>3. DIRTY[line] \in [Ways -> BOOLEAN]
    BY <2>2 DEF TypeOK
  <2>4. [w \in Ways |-> w \in {} \/ DIRTY[line][w]] = DIRTY[line]
    BY <2>3
  <2> QED
    BY <2>1, <2>2, <2>4 DEF TypeOK
<1> QED
  BY <1>2, <1>3, <1>4

\* Under these conditions nothing is missed, and a flush stores nothing.
\* A misuse is not forgotten, so that there is none in a step that leaves none
\* behind.
LEMMA NoMisuse ==
  ASSUME [Next]_vars, misuse' = {}
  PROVE  /\ misuse = {}
         /\ \A r \in Requests : Access(r) => ~MissesDirty(r)
         /\ \A r \in Requests : ~FlushAt(r) /\ ~Missed(r) /\ ~LateMissed(r)
<1>1. \A r \in Requests : Access(r) => misuse = {} /\ ~MissesDirty(r)
  BY DEF Access, Asks
<1>2. \A r \in Requests : ~FlushAt(r) /\ ~Missed(r) /\ ~LateMissed(r)
  BY DEF FlushAt, Missed, LateMissed, Asks
<1>3. Flush => misuse = {}
  BY DEF Flush, Asks
<1>4. Work \/ UNCHANGED vars => misuse' = misuse
  BY DEF Work, vars, Hit, Miss, Atomic, StartFlush, WbtoMem, WbtoMemFinish, RdfromMem,
     RdfromMemFinish, RdAmo, RdAmoFinish, WbtoMemAll, WbtoMemAllFinish, FinishAll
<1> QED
  BY <1>1, <1>2, <1>3, <1>4 DEF Next

LEMMA AskedInit == Init => Asked
BY DEF Init, Asked

LEMMA AskedNext == ASSUME misuse' = {}, TypeInv, Asked, [Next]_vars PROVE Asked'
<1>1. ASSUME NEW r \in Requests, Access(r) PROVE Asked'
  BY <1>1 DEF Access, Asked, TypeInv, Phase
<1>2. CASE Flush
  BY <1>2, UnaskedType DEF Flush, FlushWith, Asked
<1>3. CASE Hit \/ RdfromMemFinish \/ RdAmoFinish
  BY <1>3, UnaskedType DEF Hit, RdfromMemFinish, RdAmoFinish, Asked
<1>4. CASE Miss \/ Atomic \/ WbtoMem \/ WbtoMemFinish \/ RdfromMem \/ RdAmo \/ WbtoMemAll
  <2>1. UNCHANGED <<req, missed, busy_flushing>>
    BY <1>4 DEF Miss, Atomic, WbtoMem, WbtoMemFinish, RdfromMem, RdAmo, WbtoMemAll
  <2> QED
    BY <2>1 DEF Asked
<1>5. CASE StartFlush
  BY <1>5, UnaskedType DEF StartFlush, Asked
<1>6. CASE WbtoMemAllFinish
  <2>1. CASE WbAllFinish_r
    BY <1>6, <2>1 DEF WbtoMemAllFinish, FinishAll, Asked
  <2>2. CASE ~WbAllFinish_r
    <3>1. UNCHANGED <<req, missed>>
      BY <1>6, <2>2 DEF WbtoMemAllFinish, FinishAll
    <3>2. busy_flushing
      BY <1>6 DEF WbtoMemAllFinish, FinishAll, TypeInv, Phase
    <3> QED
      BY <3>1, <3>2 DEF Asked
  <2> QED
    BY <2>1, <2>2
<1>7. CASE UNCHANGED vars
  BY <1>7 DEF vars, Asked
<1>8. \A r \in Requests : ~FlushAt(r) /\ ~Missed(r) /\ ~LateMissed(r)
  BY NoMisuse
<1> QED
  BY <1>1, <1>2, <1>3, <1>4, <1>5, <1>6, <1>7, <1>8 DEF Next, Work

LEMMA DataNext ==
  ASSUME misuse' = {}, TypeInv, Asked, DataInv, [Next]_vars PROVE DataInv'
<1> DEFINE Still == /\ UNCHANGED <<VALID, DIRTY, tags, data, mem>>
                    /\ S # "RdfromMemFinish" /\ S' # "RdfromMemFinish"
<1> USE DEF bits, brams, Fresh
<1>0. line \in Lines /\ victim_sel \in Ways
  BY Addressed DEF TypeInv
<1>1. ASSUME NEW r \in Requests, Access(r) PROVE DataInv'
  <2>1. Still
    BY <1>1 DEF Access
  <2>2. Missing'
    BY <1>1 DEF Access, Missing
  <2>3. AtomicSafe'
    <3>1. /\ S' = "Analysis" /\ req' = r /\ line' = r.line
          /\ r.op = "amo" => (\E w \in Ways : CopyOf(r, w)) \/ ~DIRTY[r.line][0]
      BY <1>1, NoMisuse DEF Access, line, MissesDirty
    <3> QED
      BY <2>1, <3>1 DEF AtomicSafe, Cached, CopyOf, Holds, Settled
  <2> QED
    BY <1>1, <2>1, <2>2, <2>3, Quiet DEF DataInv, Access
<1>2. CASE Flush
  <2>1. Still
    BY <1>2 DEF Flush, FlushWith
  <2>2. Missing' /\ AtomicSafe'
    BY <1>2, UnaskedType DEF Flush, FlushWith, Missing, AtomicSafe
  <2> QED
    BY <1>2, <2>1, <2>2, Quiet DEF DataInv, Flush, FlushWith
<1>3. CASE Miss
  <2>1. Still /\ line' = line /\ victim_sel' = victim_sel /\ UNCHANGED <<req, p_data>>
    BY <1>3 DEF Miss, analysed, line, victim_sel
  <2>2. \A w \in Ways : ~Holds(line, w, req.tag)'
    BY <1>3, <2>1 DEF Miss, cache_hit, hits, Holds, Settled
  <2>3. DIRTY[line][victim_sel] => VALID[line][victim_sel]
    BY <1>0 DEF TypeInv, TypeOK
  <2>4. ~DIRTY[line][victim_sel] /\ VALID[line][victim_sel] =>
          mem[tags[line][victim_sel]][line] = Words
    BY <1>0, <2>1, NotFilling DEF DataInv, LinesInv, CleanInMemory
  <2>5. Missing'
    BY <1>3, <2>1, <2>2, <2>3, <2>4 DEF Miss, Missing
  <2>6. AtomicSafe'
    BY <1>3 DEF Miss, AtomicSafe
  <2> QED
    BY <2>1, <2>5, <2>6, Quiet DEF DataInv
<1>4. CASE Atomic
  <2>1. /\ Still /\ line' = line /\ UNCHANGED <<req, p_data>> /\ S = "Analysis"
        /\ ~busy_flushing /\ req.op = "amo"
    BY <1>4 DEF Atomic, analysed, line
  <2>2. Cached \/ ~DIRTY[line][0]
    BY <2>1 DEF DataInv, AtomicSafe
  <2>3. Cached' <=> Cached
    BY <2>1 DEF Cached, Holds, Settled
  <2>4. ASSUME Cached PROVE AtomicSafe'
    <3>1. PICK w \in Ways : Holds(line, w, req.tag)
      BY <2>4 DEF Cached
    <3>2. w \in hits
      BY <2>1, <3>1, <1>0, NotFilling DEF Holds, hits
    <3>3. hit_index = w
      BY <2>1, <3>2, OneHit DEF TypeInv, DataInv, LinesInv
    <3>4. S' = "RdAmo" => mem[req.tag][line] = Words
      <4> SUFFICES ASSUME S' = "RdAmo" PROVE mem[req.tag][line] = Words
        OBVIOUS
      <4>1. ~DIRTY[line][w]
        BY <1>4, <3>2, <3>3 DEF Atomic, cache_hit
      <4> QED
        BY <1>0, <3>1, <4>1 DEF Holds, DataInv, LinesInv, CleanInMemory
    <3>5. S' \in {"WbtoMem", "RdAmo"}
      BY <1>4 DEF Atomic
    <3>6. Cached' /\ mem'[req'.tag][line'] = mem[req.tag][line]
      BY <2>1, <2>3, <2>4
    <3> QED
      BY <3>4, <3>5, <3>6 DEF AtomicSafe
  <2>5. ASSUME ~Cached PROVE AtomicSafe'
    <3>1. ~cache_hit
      BY <2>1, <2>5, <1>0, NotFilling DEF Cached, Holds, cache_hit, hits
    <3>2. S' = "RdAmo"
      BY <1>4, <3>1 DEF Atomic
    <3>3. mem[req.tag][line] = Words
      BY <1>0, <2>5, Addressed DEF Cached, TypeInv, DataInv, LinesInv, UncachedInMemory
    <3>4. ~DIRTY'[line'][0] /\ mem'[req'.tag][line'] = Words
      BY <2>1, <2>2, <2>5, <3>3
    <3> QED
      BY <3>2, <3>4 DEF AtomicSafe
  <2>6. Missing'
    BY <1>4, <2>1 DEF Atomic, Missing
  <2> QED
    BY <2>1, <2>4, <2>5, <2>6, Quiet DEF DataInv
<1>5. CASE StartFlush
  <2>1. S = "Analysis" /\ S' = "WbtoMemAll" /\ busy_flushing /\ UNCHANGED <<VALID, mem, p_data>>
    BY <1>5 DEF StartFlush
  <2>2. UNCHANGED <<tags, data, DIRTY>>
    BY <1>5, <2>1, PlainFlush DEF TypeInv, Asked
  <2>3. Missing' /\ AtomicSafe'
    BY <2>1 DEF Missing, AtomicSafe
  <2> QED
    BY <2>1, <2>2, <2>3, Quiet DEF DataInv
<1>6. CASE WbtoMemFinish
  <2>1. /\ Still /\ line' = line /\ victim_sel' = victim_sel /\ S = "WbtoMemFinish"
        /\ UNCHANGED <<req, busy_flushing, p_data>> /\ ~busy_flushing
        /\ S' = IF req.op = "amo" THEN "RdAmo" ELSE "RdfromMem"
    BY <1>6 DEF WbtoMemFinish, line, victim_sel, TypeInv, Phase
  <2>2. \A w \in Ways : Holds(line, w, req.tag)' <=> Holds(line, w, req.tag)
    BY <2>1 DEF Holds, Settled
  <2>3. Missing'
    BY <2>1, <2>2 DEF DataInv, Missing
  <2>4. AtomicSafe'
    BY <2>1, <2>2 DEF DataInv, AtomicSafe, Cached
  <2> QED
    BY <2>1, <2>3, <2>4, Quiet DEF DataInv
<1>7. CASE RdAmoFinish
  <2>1. Still
    BY <1>7 DEF RdAmoFinish
  <2>2. Missing' /\ AtomicSafe'
    BY <1>7 DEF RdAmoFinish, Missing, AtomicSafe
  <2>3. req.word \in m_data
    BY <1>7, Addressed DEF RdAmoFinish, TypeInv, DataInv, AtomicSafe
  <2> QED
    BY <1>7, <2>1, <2>2, <2>3, Quiet DEF DataInv, RdAmoFinish
<1>8. CASE WbtoMemAllFinish
  <2>1. Still /\ p_data' = p_data /\ S' \in {"Idle", "WbtoMemAll"}
    BY <1>8 DEF WbtoMemAllFinish, FinishAll, Asked
  <2>2. Missing' /\ AtomicSafe'
    BY <2>1 DEF Missing, AtomicSafe
  <2> QED
    BY <2>1, <2>2, Quiet DEF DataInv
<1>9. CASE UNCHANGED vars
  BY <1>9 DEF vars, DataInv, LinesInv, Unique, Current, CleanInMemory, UncachedInMemory,
     Missing, AtomicSafe, Cached, Holds, Settled, line, victim_sel, rw
<1> QED
  BY <1>1, <1>2, <1>3, <1>4, <1>5, <1>6, <1>7, <1>8, <1>9, HitKeeps, WbtoMemKeeps,
     RdfromMemKeeps, RdfromMemFinishKeeps, RdAmoKeeps, WbtoMemAllKeeps, NoMisuse
  DEF Next, Work

----------------------------------------------------------------------------
(* Reads and lost values.                                                  *)

LEMMA LinesKept == ASSUME TypeInv, LinesInv PROVE NothingLost
<1> SUFFICES ASSUME S = "Idle" PROVE NothingLost
  BY DEF NothingLost
<1>1. \A l \in Lines, w \in Ways : Settled(l, w) <=> VALID[l][w]
  BY NotFilling
<1>2. \A l \in Lines : \A v, w \in Ways :
        VALID[l][v] /\ VALID[l][w] /\ tags[l][v] = tags[l][w] => v = w
  BY <1>1 DEF LinesInv, Unique
<1>3. \A l \in Lines, w \in Ways : VALID[l][w] =>
        data[l][w] = Words /\ (~DIRTY[l][w] => mem[tags[l][w]][l] = Words)
  BY <1>1 DEF LinesInv, Current, CleanInMemory
<1>4. \A t \in Tags, l \in Lines :
        (\A w \in Ways : ~(VALID[l][w] /\ tags[l][w] = t)) => mem[t][l] = Words
  BY <1>1 DEF LinesInv, UncachedInMemory, Holds
<1> QED
  BY <1>2, <1>3, <1>4 DEF NothingLost

\* Until the first misuse.
Sound == misuse = {} => Asked /\ DataInv

LEMMA DataInvariant == Spec => [](TypeInv /\ Sound)
<1>1. Init => TypeInv /\ Sound
  BY TypeInit, AskedInit, DataInit DEF Sound
<1>2. TypeInv /\ Sound /\ [Next]_vars => TypeInv' /\ Sound'
  <2> SUFFICES ASSUME TypeInv, Sound, [Next]_vars, misuse' = {}
               PROVE  TypeInv' /\ Asked' /\ DataInv'
    BY TypeNext DEF Sound
  <2>1. Asked /\ DataInv
    BY NoMisuse DEF Sound
  <2> QED
    BY <2>1, TypeNext, AskedNext, DataNext
<1> QED
  BY <1>1, <1>2, PTL DEF Spec

\* Until the processor first asks for something the controller is not made for,
\* every written value is in the one way that hits, or in memory (dcache.v:308,
\* 600-633).
THEOREM NothingIsLost == Spec => []NothingLost
<1>1. TypeInv /\ Sound => NothingLost
  BY LinesKept DEF DataInv, Sound, NothingLost
<1> QED
  BY <1>1, DataInvariant, PTL

\* Until then every read, and every atomic operation, returns the value last
\* written (dcache.v:499-509).
THEOREM ReadsAreCurrent == Spec => []ReadsLastWrite
<1>1. TypeInv /\ Sound => ReadsLastWrite
  BY DEF DataInv, Sound, Fresh, ReadsLastWrite
<1> QED
  BY <1>1, DataInvariant, PTL

----------------------------------------------------------------------------
(* The flush.                                                              *)

LEMMA FlushInit == Init => Flushed
BY DEF Init, Flushed

\* The step of a flush passes one more way, or all of them.
LEMMA PassesOne ==
  ASSUME TypeInv, WbtoMemAll, NEW l \in Lines, NEW w \in Ways,
         Passed(l, w)' \/ (N_LINES_cnt' = 0 /\ N_WAYS_cnt' = 0)
  PROVE  Passed(l, w) \/ (l = N_LINES_cnt /\ w = N_WAYS_cnt)
<1>1. /\ N_LINES_cnt \in 0 .. N_LINES - 1 /\ N_WAYS_cnt \in 0 .. N_WAYS - 1
      /\ l \in 0 .. N_LINES - 1 /\ w \in 0 .. N_WAYS - 1
      /\ N_LINES \in Nat \ {0} /\ N_WAYS \in Nat \ {0}
  BY CacheAssumption DEF TypeInv, TypeOK, Lines, Ways
<1>2. /\ N_LINES_cnt' = IF N_LINES_cnt = N_LINES - 1 THEN 0 ELSE N_LINES_cnt + 1
      /\ N_WAYS_cnt' = IF N_LINES_cnt = N_LINES - 1
                       THEN IF N_WAYS_cnt = N_WAYS - 1 THEN 0 ELSE N_WAYS_cnt + 1
                       ELSE N_WAYS_cnt
  BY <1>1, Wraps DEF WbtoMemAll
<1>3. CASE N_LINES_cnt = N_LINES - 1
  BY <1>1, <1>2, <1>3 DEF Passed
<1>4. CASE N_LINES_cnt # N_LINES - 1
  BY <1>1, <1>2, <1>4 DEF Passed
<1> QED
  BY <1>3, <1>4

LEMMA FlushNext == ASSUME TypeInv, Flushed, [Next]_vars PROVE Flushed'
<1> USE DEF bits, counters
<1>1. ASSUME NEW r \in Requests, Access(r) PROVE Flushed'
  BY <1>1 DEF Access, Flushed, TypeInv, TypeOK, Phase
<1>2. ASSUME NEW r, FlushWith(r) PROVE Flushed'
  BY <1>2 DEF FlushWith, Flushed, TypeInv, TypeOK, Phase
<1>3. CASE StartFlush
  <2>1. N_LINES_cnt' = 0 /\ N_WAYS_cnt' = 0 /\ S' = "WbtoMemAll"
    BY <1>3 DEF StartFlush, Flushed
  <2>2. \A l \in Lines, w \in Ways : ~Passed(l, w)'
    BY <2>1 DEF Passed, Lines, Ways
  <2> QED
    BY <2>1, <2>2 DEF Flushed
<1>4. CASE WbtoMemAll
  <2>1. S = "WbtoMemAll" /\ S' = "WbtoMemAllFinish"
    BY <1>4 DEF WbtoMemAll
  <2> SUFFICES ASSUME NEW l \in Lines, NEW w \in Ways,
                      Passed(l, w)' \/ (N_LINES_cnt' = 0 /\ N_WAYS_cnt' = 0)
               PROVE  ~DIRTY'[l][w]
    BY <2>1 DEF Flushed
  <2>2. DIRTY' = [DIRTY EXCEPT ![N_LINES_cnt][N_WAYS_cnt] = FALSE]
    BY <1>4 DEF WbtoMemAll
  <2>3. CASE Passed(l, w)
    <3>1. ~DIRTY[l][w]
      BY <2>1, <2>3 DEF Flushed
    <3> QED
      BY <2>2, <3>1 DEF TypeInv, TypeOK
  <2>4. CASE l = N_LINES_cnt /\ w = N_WAYS_cnt
    BY <2>2, <2>4 DEF TypeInv, TypeOK
  <2> QED
    BY <1>4, <2>3, <2>4, PassesOne
<1>5. CASE WbtoMemAllFinish
  <2>1. /\ S = "WbtoMemAllFinish" /\ S' \in {"Idle", "WbtoMemAll"}
        /\ UNCHANGED <<DIRTY, N_LINES_cnt, N_WAYS_cnt>>
    BY <1>5 DEF WbtoMemAllFinish, FinishAll
  <2>2. \A l \in Lines, w \in Ways : Passed(l, w)' <=> Passed(l, w)
    BY <2>1 DEF Passed
  <2> QED
    BY <2>1, <2>2 DEF Flushed
<1>6. CASE Hit \/ Miss \/ Atomic \/ WbtoMem \/ WbtoMemFinish \/ RdfromMem \/ RdfromMemFinish
           \/ RdAmo \/ RdAmoFinish
  <2>1. S' \notin {"Analysis", "WbtoMemAll", "WbtoMemAllFinish"}
    BY <1>6 DEF Hit, Miss, Atomic, WbtoMem, WbtoMemFinish, RdfromMem, RdfromMemFinish, RdAmo,
       RdAmoFinish
  <2> QED
    BY <2>1 DEF Flushed
<1>7. ASSUME NEW r \in Requests, Missed(r) \/ LateMissed(r) PROVE Flushed'
  <2>1. S' \in {S, "Idle"} /\ UNCHANGED <<DIRTY, N_LINES_cnt, N_WAYS_cnt>>
    BY <1>7 DEF Missed, LateMissed
  <2> QED
    BY <2>1 DEF Flushed, Passed
<1>8. CASE UNCHANGED vars
  BY <1>8 DEF vars, Flushed, Passed
<1> QED
  BY <1>1, <1>2, <1>3, <1>4, <1>5, <1>6, <1>7, <1>8 DEF Next, Work, Flush, FlushAt

\* Until then, too, a flush ends with nothing dirty and every value in memory
\* (dcache.v:154-175, 273-282).
THEOREM FlushesAll == Spec => FlushWritesAll
<1> DEFINE Ends == busy_flushing /\ ~busy_flushing' /\ misuse' = {} =>
              /\ \A l \in Lines, w \in Ways : ~DIRTY'[l][w]
              /\ \A t \in Tags, l \in Lines : mem'[t][l] = Words
<1>1. ASSUME TypeInv, Sound, Flushed, [Next]_vars PROVE Ends
  <2> SUFFICES ASSUME busy_flushing, ~busy_flushing', misuse' = {} PROVE Ends
    OBVIOUS
  <2>0. Asked /\ DataInv
    BY <1>1, NoMisuse DEF Sound
  <2>1. WbtoMemAllFinish
    <3>1. UNCHANGED vars => busy_flushing' = busy_flushing
      BY DEF vars
    <3>2. \A r \in Requests : Access(r) => busy_flushing' = busy_flushing
      BY DEF Access
    <3>3. Flush => busy_flushing' = TRUE
      BY DEF Flush, FlushWith
    <3>4. Hit \/ Miss \/ Atomic \/ StartFlush \/ WbtoMem \/ WbtoMemFinish \/ RdfromMem
            \/ RdfromMemFinish \/ RdAmo \/ RdAmoFinish \/ WbtoMemAll =>
              busy_flushing' = busy_flushing
      BY DEF Hit, Miss, Atomic, StartFlush, WbtoMem, WbtoMemFinish, RdfromMem,
         RdfromMemFinish, RdAmo, RdAmoFinish, WbtoMemAll
    <3>5. \A r \in Requests : ~FlushAt(r) /\ ~Missed(r) /\ ~LateMissed(r)
      BY <1>1, NoMisuse
    <3> QED
      BY <1>1, <3>1, <3>2, <3>3, <3>4, <3>5 DEF Next, Work
  <2>2. S = "WbtoMemAllFinish" /\ UNCHANGED <<VALID, DIRTY, tags, mem>>
    BY <2>0, <2>1 DEF WbtoMemAllFinish, FinishAll, Asked, bits
  <2>3. N_LINES_cnt = 0 /\ N_WAYS_cnt = 0
    BY <2>1 DEF WbtoMemAllFinish, FinishAll, WbAllFinish_r
  <2>4. \A l \in Lines, w \in Ways : ~DIRTY[l][w]
    BY <1>1, <2>2, <2>3 DEF Flushed
  <2>5. ASSUME NEW t \in Tags, NEW l \in Lines PROVE mem[t][l] = Words
    <3>1. CASE \E w \in Ways : Holds(l, w, t)
      BY <2>0, <1>1, <2>4, <3>1 DEF DataInv, LinesInv, CleanInMemory, Holds
    <3>2. CASE \A w \in Ways : ~Holds(l, w, t)
      BY <2>0, <1>1, <3>2 DEF DataInv, LinesInv, UncachedInMemory
    <3> QED
      BY <3>1, <3>2
  <2> QED
    BY <2>2, <2>4, <2>5
<1>2. TypeInv /\ Sound /\ Flushed /\ [Next]_vars => [Ends]_vars
  BY <1>1
<1>3. Init => Flushed
  BY FlushInit
<1>4. TypeInv /\ Flushed /\ [Next]_vars => Flushed'
  BY FlushNext
<1> QED
  BY <1>2, <1>3, <1>4, DataInvariant, PTL DEF Spec, FlushWritesAll
=============================================================================
