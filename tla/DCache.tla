------------------------------- MODULE DCache -------------------------------
(***************************************************************************)
(* The data cache of the Aquila core, HW5/core_rtl/dcache.v: set           *)
(* associative, FIFO replacement, write-back, write-allocate, flushed as a *)
(* whole, with atomic operations that go around it to memory.              *)
(*                                                                         *)
(* A step is one that leaves a state of the controller; the cycles in      *)
(* which it waits for memory are not steps.  A word of a line, wherever it *)
(* is kept, is abstracted to whether it is the value last written to its   *)
(* address, so a line is the set of its current words.                     *)
(***************************************************************************)
EXTENDS Integers, FiniteSets

CONSTANTS
  N_LINES, N_WAYS,  \* sets of the cache, and lines in a set
  Tags, Words,      \* tags, and word offsets in a line
  Requests,         \* what the processor asks for, besides flushes
  MaxAfter          \* bound: how often it asks after its first misuse

Lines == 0..N_LINES - 1
Ways == 0..N_WAYS - 1
Request == [op : {"read", "write", "amo"}, tag : Tags, line : Lines, word : Words]

ASSUME CacheAssumption ==
  /\ {N_LINES, N_WAYS} \subseteq Nat \ {0} /\ Requests \subseteq Request
  /\ Requests # {} /\ MaxAfter \in Nat

\* In the registers when nothing is asked: rw is 0, and the rest is not looked at.
Unasked == [(CHOOSE r \in Requests : TRUE) EXCEPT !.op = "read"]

VARIABLES
  S,                        \* the controller's state
  req,                      \* the registered request, until it is answered
  missed,                   \* the request whose strobe came during a flush, if any
  misuse,                   \* what has been asked for that the controller is not made for
  after,                    \* how often anything has been asked for since
  busy_flushing,
  VALID, DIRTY,             \* [Lines -> [Ways -> BOOLEAN]]
  tags, data,               \* TAG_BRAM; DATA_BRAM: the current words of each way
  FIFO_cnt,                 \* the next victim of each set
  N_LINES_cnt, N_WAYS_cnt,  \* where a flush is
  m_data,                   \* the line read from memory
  mem,                      \* memory: the current words of each line
  p_data                    \* whether the word last returned was current

bits == <<VALID, DIRTY>>
brams == <<tags, data>>
counters == <<N_LINES_cnt, N_WAYS_cnt>>
vars == <<S, req, missed, misuse, after, busy_flushing, bits, brams, FIFO_cnt, counters, m_data, mem, p_data>>

----------------------------------------------------------------------------
(* Combinational signals.                                                  *)

line == req.line
rw == req.op = "write"
hits == {w \in Ways : VALID[line][w] /\ tags[line][w] = req.tag}
cache_hit == hits # {}
\* Way 0 when there is no hit, or more than one.
hit_index == IF Cardinality(hits) = 1 THEN CHOOSE w \in hits : TRUE ELSE 0
victim_sel == FIFO_cnt[line]

NextOf(n, size) == (n + 1) % size
AtLast == N_LINES_cnt = N_LINES - 1 /\ N_WAYS_cnt = N_WAYS - 1

----------------------------------------------------------------------------
(* Idle: the processor's request, or its flush, is taken.  Its strobe lasts *)
(* one cycle, and it asks for nothing more before it has an answer.        *)

\* Three things it asks for end badly (misuse): "amo", an atomic operation that
\* misses while way 0 is dirty; "access", one while the cache is flushed; and
\* "fence", a fence.i whose address lies in cached memory.
Asks(kinds) ==
  /\ misuse = {} \/ after < MaxAfter
  /\ misuse' = misuse \cup kinds /\ after' = IF misuse = {} THEN 0 ELSE after + 1
CopyOf(r, w) == VALID[r.line][w] /\ tags[r.line][w] = r.tag
MissesDirty(r) == r.op = "amo" /\ DIRTY[r.line][0] /\ \A w \in Ways : ~CopyOf(r, w)
Access(r) ==
  /\ S = "Idle" /\ missed = {} /\ r \in Requests
  /\ req' = r /\ S' = "Analysis"
  /\ Asks(IF MissesDirty(r) THEN {"amo"} ELSE {})
  /\ UNCHANGED <<missed, busy_flushing, bits, brams, FIFO_cnt, counters, m_data, mem, p_data>>
\* fence.i is a store to the processor as well, with an address of its own:
\* zero, as compilers leave it, is not in cached memory and strobes nothing.
FlushWith(r) ==
  /\ S = "Idle" /\ missed = {} /\ busy_flushing' = TRUE /\ req' = r /\ S' = "Analysis"
  /\ UNCHANGED <<missed, bits, brams, FIFO_cnt, counters, m_data, mem, p_data>>
Flush == FlushWith(Unasked) /\ Asks({})
FlushAt(r) == r \in Requests /\ r.op = "write" /\ FlushWith(r) /\ Asks({"fence"})

----------------------------------------------------------------------------
(* Analysis.                                                               *)

analysed == S = "Analysis" /\ ~busy_flushing
Hit ==
  /\ analysed /\ req.op # "amo" /\ cache_hit /\ S' = "Idle"
  /\ IF rw
     THEN /\ data' = [data EXCEPT ![line] = [w \in Ways |->
                        IF w \in hits THEN data[line][hit_index] \cup {req.word} ELSE @[w]]]
          /\ DIRTY' = [DIRTY EXCEPT ![line] = [w \in Ways |-> w \in hits \/ @[w]]]
          /\ mem' = [mem EXCEPT ![req.tag][line] = @ \ {req.word}]
          /\ UNCHANGED p_data
     ELSE p_data' = (req.word \in data[line][hit_index]) /\ UNCHANGED <<data, DIRTY, mem>>
  /\ req' = Unasked
  /\ UNCHANGED <<missed, misuse, after, busy_flushing, VALID, tags, FIFO_cnt, counters, m_data>>
DropsDirty ==  \* mutant: a dirty victim is not written back
  /\ analysed /\ req.op # "amo" /\ ~cache_hit
  /\ S' = "RdfromMem"
  /\ UNCHANGED <<req, missed, misuse, after, busy_flushing, bits, brams, FIFO_cnt, counters, m_data, mem, p_data>>
Miss ==
  /\ analysed /\ req.op # "amo" /\ ~cache_hit
  /\ S' = IF DIRTY[line][victim_sel] THEN "WbtoMem" ELSE "RdfromMem"
  /\ UNCHANGED <<req, missed, misuse, after, busy_flushing, bits, brams, FIFO_cnt, counters, m_data, mem, p_data>>
Atomic ==
  /\ analysed /\ req.op = "amo"
  /\ S' = IF cache_hit /\ DIRTY[line][hit_index] THEN "WbtoMem" ELSE "RdAmo"
  /\ UNCHANGED <<req, missed, misuse, after, busy_flushing, bits, brams, FIFO_cnt, counters, m_data, mem, p_data>>
\* A fence.i that hits is stored like a write, but into the set the flush is
\* at: that way gets the line's tag, and a line that is another set's, or has
\* the word fence.i brings.  It is answered there, and at the end if it misses.
StartFlush ==
  LET stored == IF line = N_LINES_cnt THEN data[line][hit_index] \ {req.word} ELSE {}
      writes == IF rw THEN hits ELSE {} IN
  /\ S = "Analysis" /\ busy_flushing /\ S' = "WbtoMemAll"
  /\ tags' = [tags EXCEPT ![N_LINES_cnt] = [w \in Ways |-> IF w \in writes THEN req.tag ELSE @[w]]]
  /\ data' = [data EXCEPT ![N_LINES_cnt] = [w \in Ways |-> IF w \in writes THEN stored ELSE @[w]]]
  /\ DIRTY' = [DIRTY EXCEPT ![line] = [w \in Ways |-> w \in writes \/ @[w]]]
  /\ req' = IF cache_hit THEN Unasked ELSE req
  /\ UNCHANGED <<missed, misuse, after, busy_flushing, VALID, FIFO_cnt, counters, m_data, mem, p_data>>

----------------------------------------------------------------------------
(* Accesses to memory, each ended by m_ready.                              *)

WbtoMem ==
  LET w == IF req.op = "amo" THEN hit_index ELSE victim_sel IN
  /\ S = "WbtoMem" /\ S' = "WbtoMemFinish"
  /\ mem' = [mem EXCEPT ![tags[line][w]][line] = data[line][w]]
  /\ UNCHANGED <<req, missed, misuse, after, busy_flushing, bits, brams, FIFO_cnt, counters, m_data, p_data>>
WbtoMemFinish ==
  /\ S = "WbtoMemFinish" /\ S' = IF req.op = "amo" THEN "RdAmo" ELSE "RdfromMem"
  /\ UNCHANGED <<req, missed, misuse, after, busy_flushing, bits, brams, FIFO_cnt, counters, m_data, mem, p_data>>

CleanFill ==  \* mutant: a line filled for a write is not marked dirty
  /\ S = "RdfromMem" /\ S' = "RdfromMemFinish" /\ m_data' = mem[req.tag][line]
  /\ VALID' = [VALID EXCEPT ![line][victim_sel] = TRUE]
  /\ UNCHANGED <<req, missed, misuse, after, busy_flushing, DIRTY, brams, FIFO_cnt, counters, mem, p_data>>
RdfromMem ==
  /\ S = "RdfromMem" /\ S' = "RdfromMemFinish" /\ m_data' = mem[req.tag][line]
  /\ VALID' = [VALID EXCEPT ![line][victim_sel] = TRUE]
  /\ DIRTY' = [DIRTY EXCEPT ![line][victim_sel] = rw \/ @]
  /\ UNCHANGED <<req, missed, misuse, after, busy_flushing, brams, FIFO_cnt, counters, mem, p_data>>
\* The line goes to the victim's way, with the word merged in if it is written.
RdfromMemFinish ==
  /\ S = "RdfromMemFinish" /\ S' = "Idle"
  /\ tags' = [tags EXCEPT ![line][victim_sel] = req.tag]
  /\ data' = [data EXCEPT ![line][victim_sel] = IF rw THEN m_data \cup {req.word} ELSE m_data]
  /\ mem' = IF rw THEN [mem EXCEPT ![req.tag][line] = @ \ {req.word}] ELSE mem
  /\ p_data' = IF rw THEN p_data ELSE req.word \in m_data
  /\ FIFO_cnt' = [FIFO_cnt EXCEPT ![line] = NextOf(@, N_WAYS)]
  /\ m_data' = {}
  /\ req' = Unasked
  /\ UNCHANGED <<missed, misuse, after, busy_flushing, bits, counters>>

\* What is in the cache once the word of r has a newer value elsewhere.
Outdated(r) == [data EXCEPT ![r.line] = [w \in Ways |->
                  IF tags[r.line][w] = r.tag THEN @[w] \ {r.word} ELSE @[w]]]
\* The atomic unit reads the word, and may write it, in memory; every copy in
\* the cache is an old one from then on.
RdAmo ==
  /\ S = "RdAmo" /\ S' = "RdAmoFinish"
  /\ m_data' = mem[req.tag][line]
  /\ mem' = [mem EXCEPT ![req.tag][line] = @ \cup {req.word}]
  /\ data' = Outdated(req)
  /\ VALID' = [VALID EXCEPT ![line][hit_index] = FALSE]
  /\ DIRTY' = [DIRTY EXCEPT ![line][hit_index] = FALSE]
  /\ UNCHANGED <<req, missed, misuse, after, busy_flushing, tags, FIFO_cnt, counters, p_data>>
RdAmoFinish ==
  /\ S = "RdAmoFinish" /\ S' = "Idle" /\ p_data' = (req.word \in m_data) /\ m_data' = {}
  /\ req' = Unasked
  /\ UNCHANGED <<missed, misuse, after, busy_flushing, bits, brams, FIFO_cnt, counters, mem>>

----------------------------------------------------------------------------
(* The flush: every way of every line, one at a time.                      *)

NeedtoWb == DIRTY[N_LINES_cnt][N_WAYS_cnt]
WbtoMemAll ==
  /\ S = "WbtoMemAll"
  /\ S' = "WbtoMemAllFinish"
  /\ mem' = IF NeedtoWb
            THEN [mem EXCEPT ![tags[N_LINES_cnt][N_WAYS_cnt]][N_LINES_cnt] =
                    data[N_LINES_cnt][N_WAYS_cnt]]
            ELSE mem
  /\ DIRTY' = [DIRTY EXCEPT ![N_LINES_cnt][N_WAYS_cnt] = FALSE]
  /\ N_LINES_cnt' = NextOf(N_LINES_cnt, N_LINES)
  /\ N_WAYS_cnt' = IF N_LINES_cnt = N_LINES - 1 THEN NextOf(N_WAYS_cnt, N_WAYS) ELSE N_WAYS_cnt
  /\ UNCHANGED <<req, missed, misuse, after, busy_flushing, VALID, brams, FIFO_cnt, m_data, p_data>>

\* A strobe during the flush is not looked at, but p_ready_o at the end of the
\* flush answers it: with no data, and nothing written.
AnswersMissed == \A r \in missed :
  /\ p_data' = (r.op = "write" /\ p_data)
  /\ data' = IF r.op = "read" THEN data ELSE Outdated(r)
  /\ mem' = IF r.op = "read" THEN mem ELSE [mem EXCEPT ![r.tag][r.line] = @ \ {r.word}]
FinishAll(finished) ==
  /\ S = "WbtoMemAllFinish"
  /\ S' = IF finished THEN "Idle" ELSE "WbtoMemAll"
  /\ busy_flushing' = ~finished
  /\ IF finished /\ missed # {} THEN AnswersMissed /\ missed' = {}
     ELSE UNCHANGED <<missed, data, mem, p_data>>
  /\ req' = IF finished THEN Unasked ELSE req
  /\ UNCHANGED <<misuse, after, bits, tags, FIFO_cnt, counters, m_data>>
\* WbAllFinish_r: the counters were at the last way of the last line, and
\* have come round.
WbAllFinish_r == N_LINES_cnt = 0 /\ N_WAYS_cnt = 0
StopsAtLast == FinishAll(AtLast)  \* mutant: the unregistered WbAllFinish, one line early
NeverStops == FinishAll(FALSE)    \* mutant: WbAllFinish_r compares with the number of lines
WbtoMemAllFinish == FinishAll(WbAllFinish_r)

\* The instructions before the flush are done, and those behind it fetched
\* again, so a strobe comes after the flush's Analysis; and after the answer to
\* a fence.i with an address.
Missed(r) ==
  /\ r \in Requests /\ missed = {} /\ ~rw
  /\ S = "WbtoMemAll" \/ (S = "WbtoMemAllFinish" /\ ~WbAllFinish_r)
  /\ missed' = {r} /\ Asks({"access"})
  /\ UNCHANGED <<S, req, busy_flushing, bits, brams, FIFO_cnt, counters, m_data, mem, p_data>>
\* In the very cycle of the flush's p_ready_o, which it does not wait for yet.
LateMissed(r) ==
  /\ r \in Requests /\ missed = {} /\ ~rw
  /\ S = "WbtoMemAllFinish" /\ WbAllFinish_r
  /\ S' = "Idle" /\ busy_flushing' = FALSE
  /\ missed' = {r} /\ Asks({"access"})
  /\ UNCHANGED <<req, bits, brams, FIFO_cnt, counters, m_data, mem, p_data>>

----------------------------------------------------------------------------
Init == /\ S = "Idle" /\ busy_flushing = FALSE /\ p_data = TRUE /\ m_data = {}
        /\ req = Unasked /\ missed = {} /\ misuse = {} /\ after = 0
        /\ VALID = [l \in Lines |-> [w \in Ways |-> FALSE]] /\ DIRTY = VALID
        /\ \E t \in Tags : tags = [l \in Lines |-> [w \in Ways |-> t]]
        /\ data = [l \in Lines |-> [w \in Ways |-> {}]]
        /\ FIFO_cnt = [l \in Lines |-> 0] /\ N_LINES_cnt = 0 /\ N_WAYS_cnt = 0
        /\ mem = [t \in Tags |-> [l \in Lines |-> Words]]

Work == \/ Hit \/ Miss \/ Atomic \/ StartFlush \/ WbtoMem \/ WbtoMemFinish
        \/ RdfromMem \/ RdfromMemFinish \/ RdAmo \/ RdAmoFinish
        \/ WbtoMemAll \/ WbtoMemAllFinish
Next == \/ \E r \in Requests : Access(r) \/ FlushAt(r) \/ Missed(r) \/ LateMissed(r)
        \/ Flush \/ Work
Spec == Init /\ [][Next]_vars /\ WF_vars(Work)

----------------------------------------------------------------------------
(* Properties.                                                             *)

States == {"Idle", "Analysis", "WbtoMem", "WbtoMemFinish", "RdfromMem", "RdfromMemFinish",
           "RdAmo", "RdAmoFinish", "WbtoMemAll", "WbtoMemAllFinish"}

\* The types; only lines that are valid are dirty, and a flush starts where
\* the counters are reset to.
TypeOK ==
  /\ S \in States /\ req \in Request /\ busy_flushing \in BOOLEAN
  /\ missed \in {{}} \cup {{r} : r \in Requests}
  /\ misuse \subseteq {"amo", "access", "fence"} /\ after \in 0..MaxAfter
  /\ VALID \in [Lines -> [Ways -> BOOLEAN]] /\ DIRTY \in [Lines -> [Ways -> BOOLEAN]]
  /\ tags \in [Lines -> [Ways -> Tags]] /\ data \in [Lines -> [Ways -> SUBSET Words]]
  /\ FIFO_cnt \in [Lines -> Ways] /\ N_LINES_cnt \in Lines /\ N_WAYS_cnt \in Ways
  /\ m_data \subseteq Words /\ mem \in [Tags -> [Lines -> SUBSET Words]] /\ p_data \in BOOLEAN
  /\ \A l \in Lines, w \in Ways : DIRTY[l][w] => VALID[l][w]
  /\ ~busy_flushing => N_LINES_cnt = 0 /\ N_WAYS_cnt = 0

\* As long as the processor asks for nothing the controller is not made for,
\* what it reads, from the cache, from memory or by an atomic operation, is what
\* it wrote last (dcache.v:499-509).
ReadsLastWrite == misuse = {} => p_data

\* And between its requests every written value is kept somewhere it will be
\* found: in the one way that hits (hit_index relies on there being no other,
\* dcache.v:308), or in memory if none does; and what differs from memory is
\* marked dirty (dcache.v:600-633).
NothingLost == S = "Idle" /\ misuse = {} =>
  /\ \A l \in Lines : \A v, w \in Ways :
       VALID[l][v] /\ VALID[l][w] /\ tags[l][v] = tags[l][w] => v = w
  /\ \A l \in Lines, w \in Ways : VALID[l][w] =>
       /\ data[l][w] = Words
       /\ ~DIRTY[l][w] => mem[tags[l][w]][l] = Words
  /\ \A t \in Tags, l \in Lines :
       (\A w \in Ways : ~(VALID[l][w] /\ tags[l][w] = t)) => mem[t][l] = Words

\* And when a flush ends nothing is dirty and memory has every value
\* (dcache.v:154-175, 273-282).
FlushWritesAll == [][busy_flushing /\ ~busy_flushing' /\ misuse' = {} =>
  /\ \A l \in Lines, w \in Ways : ~DIRTY'[l][w]
  /\ \A t \in Tags, l \in Lines : mem'[t][l] = Words]_vars

\* Every request that is taken and every flush is answered, if memory answers,
\* whatever has been asked for before (dcache.v:242-293).
Answered == (S # "Idle") ~> (S = "Idle")

\* "Added AMO support." (dcache.v:18): an atomic operation that misses does no
\* harm to what is read later.
AtomicsHarmless == misuse \subseteq {"amo"} => p_data
=============================================================================
