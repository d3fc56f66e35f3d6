---------------------------- MODULE MemPathProofs ----------------------------
(***************************************************************************)
(* Proofs about MemPath, for every number of lines, words and cores,       *)
(* whatever the caches ask for and however the edges of the two clocks     *)
(* follow each other: each data access is done once and answered with what *)
(* was there, a fetch gets a value its line had meanwhile, and SC needs    *)
(* an LR.                                                                  *)
(***************************************************************************)
EXTENDS MemPath, TLAPS

\* The wires between the modules.
Strobe(c) == IF c = "DMEM" THEN M_strobe ELSE fetch # None
Wanted(c) == IF c = "DMEM" THEN M_request ELSE [line |-> fetch, rw |-> FALSE, data |-> 0]
InFlight(c) == Strobe(c) /\ strobed[c]
\* The arbiter works for the port.
Busy(c) == c_state # "M_IDLE" /\ sel_r = c

TypeInv ==
  /\ core \in Request \cup {None} /\ fetch \in Lines \cup {None}
  /\ state \in {"Bypass", "AmoRd", "Wait", "AmoWr", "AmoFinish"} /\ m_data \in Values
  /\ reservation \in [Cores -> (Lines \X Words) \cup {None}]
  /\ c_state \in {"M_IDLE", "M_SEND", "M_WAIT", "M_DONE"} /\ sel_r \in Channels
  /\ mem \in [Lines -> Values] /\ before \in [Lines -> Values]
  /\ current \subseteq Values /\ (fetch # None => mem[fetch] \in current)
  /\ DOMAIN down = Down /\ DOMAIN latched = Down /\ DOMAIN up = Up /\ DOMAIN collected = Up
  /\ strobed \in [Channels -> BOOLEAN] /\ answered \in [Channels -> BOOLEAN]
  /\ noted \in [Channels -> BOOLEAN] /\ DMEM_rw_r \in BOOLEAN

\* Where an atomic operation is, and what it has read and written by then.
UnitInv ==
  /\ core = None => state = "Bypass"
  /\ state # "Bypass" => is_amo
  /\ state \in {"Bypass", "AmoRd"} => m_data = 0
  /\ state \in {"AmoRd", "Wait", "AmoWr"} => ~(is_sc /\ sc_fail)
  /\ state \in {"Wait", "AmoWr"} => ~is_lr /\ m_data = before[core.line]
  /\ state = "AmoFinish" =>
       IF is_sc /\ sc_fail THEN mem = before
       ELSE /\ m_data = before[core.line]
            /\ mem = IF is_lr THEN before ELSE [before EXCEPT ![core.line] = result]

\* An item is in its FIFO or in the register behind it, or in neither.
InTransit(fifos, registers, f, x) ==
  \/ fifos[f] = <<x>> /\ registers[f] = None
  \/ fifos[f] = <<>> /\ registers[f] = x
Absent(fifos, registers, f) == fifos[f] = <<>> /\ registers[f] = None
NothingDown(c) == \A s \in Signals(c) : Absent(down, latched, <<c, s>>)
NothingUp(c) == \A a \in Answers : Absent(up, collected, <<c, a>>)

\* What a read may answer, and what memory is before and after an access.
Right(c, v) == v \in Values /\ IF c = "IMEM" THEN v \in current ELSE v = before[core.line]
Pending(c) == c = "DMEM" /\ core # None /\ state # "AmoFinish" => mem = before
Effect(c) ==
  c = "DMEM" => mem = IF M_request.rw THEN [before EXCEPT ![core.line] = M_request.data] ELSE before
Direction(c) == c = "DMEM" => DMEM_rw_r = M_request.rw

\* The stages of an access: none, on the way down, at the arbiter, done, on
\* the way up.
Idle(c) == /\ ~InFlight(c) /\ NothingDown(c) /\ held[c] = None /\ ~Busy(c)
           /\ (answered[c] => noted[c]) /\ NothingUp(c) /\ Pending(c)
Descends(c) ==
  /\ InFlight(c) /\ \A s \in Signals(c) : InTransit(down, latched, <<c, s>>, Wanted(c))
  /\ held[c] = None /\ ~Busy(c) /\ (answered[c] => noted[c]) /\ NothingUp(c) /\ Pending(c)
  /\ c = "DMEM" /\ latched[<<c, "rw">>] # None => Direction(c)
Served(c) ==
  /\ InFlight(c) /\ NothingDown(c) /\ held[c] = Wanted(c)
  /\ (Busy(c) => command = Wanted(c) /\ ~noted[c])
  /\ ~answered[c] /\ NothingUp(c) /\ Pending(c) /\ Direction(c)
Returns(c) ==
  /\ InFlight(c) /\ NothingDown(c) /\ held[c] = None /\ ~Busy(c)
  /\ answered[c] /\ ~noted[c] /\ NothingUp(c) /\ Effect(c) /\ Direction(c)
  /\ ~Wanted(c).rw => Right(c, rd_data[c])
Ascends(c) ==
  /\ InFlight(c) /\ NothingDown(c) /\ held[c] = None /\ ~Busy(c)
  /\ answered[c] /\ noted[c] /\ Effect(c) /\ Direction(c)
  /\ InTransit(up, collected, <<c, "done">>, TRUE)
  /\ IF Wanted(c).rw THEN Absent(up, collected, <<c, "rd_data">>)
     ELSE \E v \in Values : Right(c, v) /\ InTransit(up, collected, <<c, "rd_data">>, v)
Stages(c) == Idle(c) \/ Descends(c) \/ Served(c) \/ Returns(c) \/ Ascends(c)

\* The data of a read, between the DRAM and the answer.
ReadInv ==
  /\ c_state = "M_WAIT" => Right(sel_r, reading) /\ ~command.rw
  /\ c_state = "M_DONE" => Right(sel_r, rdata) /\ ~command.rw
  /\ c_state # "M_WAIT" => reading = None

\* A reservation is where its core's last LR was.
LinkInv == \A c \in Cores : reservation[c] # None => linked[c] \in {reservation[c], "stray"}

IInv == TypeInv /\ UnitInv /\ Stages("IMEM") /\ Stages("DMEM") /\ ReadInv

----------------------------------------------------------------------------
(* FIFOs and the registers behind them.                                    *)

LEMMA NoneIs ==
  /\ None # TRUE /\ None \notin Lines /\ None \notin Values /\ None \notin Request
  /\ \A l \in Lines, d \in Values, b \in BOOLEAN : [line |-> l, rw |-> b, data |-> d] # None
  /\ None \notin Lines \X Words
  /\ 0 \in Values
<1>1. None \notin Lines /\ None \notin Values /\ None \notin Request /\ None \notin Lines \X Words
  BY PathAssumption, AtomicUnitAssumption
<1>2. None \notin {TRUE}
  BY PathAssumption
<1>3. None # TRUE
  BY <1>2, Zenon
<1>4. None \notin [line : Lines, rw : BOOLEAN, data : Values]
  BY PathAssumption
<1>5. \A l \in Lines, d \in Values, b \in BOOLEAN : [line |-> l, rw |-> b, data |-> d] # None
  BY <1>4
<1>6. 0 \in Values
  BY AtomicUnitAssumption DEF Values
<1> QED
  BY <1>1, <1>3, <1>5, <1>6

LEMMA AbsentStays ==
  ASSUME NEW fifos, NEW registers, NEW ready, NEW seen \in SUBSET NonEmpty(fifos),
         DOMAIN registers = DOMAIN fifos, NEW f \in DOMAIN fifos, Absent(fifos, registers, f)
  PROVE  Absent(Popped(fifos, seen), Collects(registers, fifos, seen, ready), f)
<1>1. f \notin seen
  BY DEF NonEmpty, Absent
<1> QED
  BY <1>1 DEF Absent, Popped, Collects

LEMMA TransitStays ==
  ASSUME NEW fifos, NEW registers, NEW ready, NEW seen \in SUBSET NonEmpty(fifos),
         DOMAIN registers = DOMAIN fifos, NEW f \in DOMAIN fifos,
         NEW x, x # None, InTransit(fifos, registers, f, x),
         ready[f[1]] => registers[f] = None
  PROVE  /\ InTransit(Popped(fifos, seen), Collects(registers, fifos, seen, ready), f, x)
         /\ Collects(registers, fifos, seen, ready)[f] # None => f \in seen \/ registers[f] = x
<1> DEFINE R == Collects(registers, fifos, seen, ready)
           F == Popped(fifos, seen)
<1>1. /\ F[f] = IF f \in seen THEN Tail(fifos[f]) ELSE fifos[f]
      /\ R[f] = IF registers[f] # None /\ ready[f[1]] THEN None
                ELSE IF f \in seen THEN Head(fifos[f]) ELSE registers[f]
  BY DEF Popped, Collects
<1>2. f \in seen => fifos[f] # <<>>
  BY DEF NonEmpty
<1>3. Head(<<x>>) = x /\ Tail(<<x>>) = <<>>
  OBVIOUS
<1> HIDE DEF R, F
<1>4. CASE f \in seen
  <2>1. fifos[f] = <<x>> /\ registers[f] = None
    BY <1>2, <1>4 DEF InTransit
  <2> QED
    BY <1>1, <1>3, <1>4, <2>1 DEF InTransit, R, F
<1>5. CASE f \notin seen
  <2>1. F[f] = fifos[f] /\ R[f] = registers[f]
    BY <1>1, <1>5
  <2> QED
    BY <1>5, <2>1 DEF InTransit, R, F
<1> QED
  BY <1>4, <1>5

LEMMA TransitEnds ==
  ASSUME NEW fifos, NEW registers, NEW ready, NEW seen \in SUBSET NonEmpty(fifos),
         DOMAIN registers = DOMAIN fifos, NEW f \in DOMAIN fifos,
         NEW x, InTransit(fifos, registers, f, x), registers[f] # None, ready[f[1]]
  PROVE  Absent(Popped(fifos, seen), Collects(registers, fifos, seen, ready), f)
<1>1. fifos[f] = <<>>
  BY DEF InTransit
<1>2. f \notin seen
  BY <1>1 DEF NonEmpty
<1> QED
  BY <1>1, <1>2 DEF Absent, Popped, Collects

\* The FIFOs of each port.
LEMMA Wires ==
  /\ Channels = {"IMEM", "DMEM"} /\ Answers = {"done", "rd_data"}
  /\ \A c \in Channels : {"strobe", "addr"} \subseteq Signals(c)
  /\ Signals("DMEM") = {"strobe", "addr", "rw", "wt_data"} /\ Signals("IMEM") = {"strobe", "addr"}
  /\ \A c \in Channels : \A s \in Signals(c) : <<c, s>> \in Down
  /\ \A c \in Channels : \A a \in Answers : <<c, a>> \in Up
  /\ \A f \in Down : f[1] \in Channels /\ f[2] \in Signals(f[1]) /\ f = <<f[1], f[2]>>
  /\ \A f \in Up : f[1] \in Channels /\ f[2] \in Answers /\ f = <<f[1], f[2]>>
BY DEF Channels, Answers, Signals, Down, Up

LEMMA WantedType ==
  ASSUME TypeInv, NEW c \in Channels, Strobe(c)
  PROVE  /\ Wanted(c) # None
         /\ c = "IMEM" => Wanted(c) = [line |-> fetch, rw |-> FALSE, data |-> 0] /\ fetch \in Lines
         /\ c = "DMEM" => Wanted(c) = M_request /\ core \in Request /\ core # None
                          /\ Wanted(c).line = core.line /\ core.line \in Lines
                          /\ Wanted(c).data \in Values /\ M_request.data \in Values
<1>1. CASE c = "IMEM"
  BY <1>1, NoneIs DEF Strobe, Wanted, TypeInv
<1>2. CASE c = "DMEM"
  <2>1. core \in Request /\ core # None
    BY <1>2 DEF Strobe, M_strobe, is_amo, TypeInv
  <2>2. core.line \in Lines /\ core.data \in Values
    BY <2>1 DEF Request
  <2>3. result \in Values
    BY <2>2, AtomicUnitAssumption DEF result, Values, TypeInv
  <2>4. M_request.line = core.line /\ M_request.data \in Values
    BY <2>2, <2>3 DEF M_request
  <2>5. (IF is_amo THEN state = "AmoWr" ELSE core.op = "write") \in BOOLEAN
    OBVIOUS
  <2>6. M_request # None
    BY <2>2, <2>3, <2>5, NoneIs DEF M_request
  <2> QED
    BY <1>2, <2>1, <2>2, <2>4, <2>6 DEF Wanted
<1> QED
  BY <1>1, <1>2, Wires

----------------------------------------------------------------------------
(* An edge of the core's clock: the unit and the caches.                   *)

LEMMA CoreFrame ==
  ASSUME TypeInv, NEW seen \in SUBSET NonEmpty(up), CoreEdge(seen)
  PROVE  /\ UNCHANGED <<latched, asked, DMEM_rw_r, answered, rd_data, noted>>
         /\ UNCHANGED <<held, c_state, sel_r, command, rdata, mem, reading>>
         /\ up' = Popped(up, seen) /\ collected' = Collects(collected, up, seen, core_ready)
         /\ DOMAIN down' = Down /\ DOMAIN up' = Up /\ DOMAIN collected' = Up
         /\ strobed' \in [Channels -> BOOLEAN] /\ \A c \in Channels : strobed'[c] <=> Strobe(c)
         /\ \A f \in Down : down'[f] = IF Strobe(f[1]) /\ ~strobed[f[1]]
                                       THEN Append(down[f], Wanted(f[1])) ELSE down[f]
<1>1. /\ UNCHANGED <<memc_side, arbiter>>
      /\ up' = Popped(up, seen) /\ collected' = Collects(collected, up, seen, core_ready)
  BY DEF CoreEdge, CdcCoreTick
<1>2. DOMAIN up' = Up /\ DOMAIN collected' = Up
  BY <1>1 DEF TypeInv, Popped, Collects
<1> DEFINE low == [c \in Channels |-> IF c = "DMEM" THEN M_strobe ELSE fetch # None]
           req == [c \in Channels |-> IF c = "DMEM" THEN M_request
                                      ELSE [line |-> fetch, rw |-> FALSE, data |-> 0]]
<1>3. strobed' = low
  BY DEF CoreEdge, CdcCoreTick
<1>4. /\ low \in [Channels -> BOOLEAN]
      /\ \A c \in Channels : low[c] <=> Strobe(c)
  <2>1. (fetch # None) \in BOOLEAN /\ M_strobe \in BOOLEAN
    <3>1. CASE is_amo
      BY <3>1 DEF M_strobe
    <3>2. CASE ~is_amo
      BY <3>2 DEF M_strobe
    <3> QED
      BY <3>1, <3>2
  <2>2. \A c \in Channels : low[c] = Strobe(c)
    BY Zenon DEF Strobe, low
  <2>3. \A c \in Channels : low[c] \in BOOLEAN
    BY <2>1 DEF low
  <2> QED
    BY <2>2, <2>3 DEF low
<1>5. \A c \in Channels : req[c] = Wanted(c)
  BY DEF Wanted
<1>6. \A f \in Down : f[1] \in Channels
  BY Wires
<1>7. down' = [f \in Down |-> IF Taken(low)[f[1]] THEN Append(down[f], req[f[1]]) ELSE down[f]]
  BY DEF CoreEdge, CdcCoreTick
<1> HIDE DEF low, req
<1>8. \A c \in Channels : Taken(low)[c] <=> Strobe(c) /\ ~strobed[c]
  BY <1>4 DEF Taken
<1>9. \A f \in Down : down'[f] = IF Strobe(f[1]) /\ ~strobed[f[1]]
                                 THEN Append(down[f], Wanted(f[1])) ELSE down[f]
  BY <1>5, <1>6, <1>7, <1>8
<1>10. DOMAIN down' = Down
  BY <1>7
<1>11. strobed' \in [Channels -> BOOLEAN] /\ \A c \in Channels : strobed'[c] <=> Strobe(c)
  BY <1>3, <1>4
<1> QED
  BY <1>1, <1>2, <1>9, <1>10, <1>11 DEF memc_side, arbiter

\* An answer is handed over when it is there, with its data.
LEMMA ReadyMeans ==
  ASSUME TypeInv, NEW c \in Channels, Stages(c), core_ready[c]
  PROVE  /\ Ascends(c) /\ collected[<<c, "done">>] # None
         /\ IF Wanted(c).rw THEN Absent(up, collected, <<c, "rd_data">>)
            ELSE collected[<<c, "rd_data">>] # None /\ Right(c, data_o(c))
<1>1. /\ collected[<<c, "done">>] # None
      /\ collected[<<c, "rd_data">>] # None \/ (c = "DMEM" /\ DMEM_rw_r)
  BY DEF core_ready
<1>2. ~NothingUp(c)
  BY <1>1, Wires DEF NothingUp, Absent
<1>3. Ascends(c)
  BY <1>2 DEF Stages, Idle, Descends, Served, Returns
<1>4. CASE Wanted(c).rw
  BY <1>1, <1>3, <1>4 DEF Ascends
<1>5. CASE ~Wanted(c).rw
  <2>1. PICK v \in Values : Right(c, v) /\ InTransit(up, collected, <<c, "rd_data">>, v)
    BY <1>3, <1>5 DEF Ascends
  <2>2. ~(c = "DMEM" /\ DMEM_rw_r)
    BY <1>3, <1>5 DEF Ascends, Direction, Wanted
  <2>3. collected[<<c, "rd_data">>] # None
    BY <1>1, <2>2
  <2>4. collected[<<c, "rd_data">>] = v
    BY <2>1, <2>3 DEF InTransit
  <2>5. data_o(c) = v
    BY <2>3, <2>4 DEF data_o
  <2> QED
    BY <1>1, <1>3, <1>5, <2>1, <2>3, <2>5
<1> QED
  BY <1>4, <1>5

LEMMA AnswerType ==
  ASSUME TypeInv, NEW c \in Channels, Stages(c)
  PROVE  data_o(c) \in Values /\ (~core_ready[c] => data_o(c) = 0)
<1>1. CASE ~core_ready[c]
  BY <1>1, NoneIs DEF data_o
<1>2. CASE core_ready[c] /\ collected[<<c, "rd_data">>] = None
  BY <1>2, NoneIs DEF data_o
<1>3. CASE core_ready[c] /\ collected[<<c, "rd_data">>] # None
  <2>1. ~Wanted(c).rw
    BY <1>3, ReadyMeans DEF Absent
  <2> QED
    BY <1>3, <2>1, ReadyMeans DEF Right
<1> QED
  BY <1>1, <1>2, <1>3

\* The instruction cache: a fetch stays until it is answered.
LEMMA FetchStep ==
  ASSUME TypeInv, NEW seen \in SUBSET NonEmpty(up), CoreEdge(seen)
  PROVE  /\ fetch' \in Lines \cup {None} /\ current' \subseteq Values
         /\ fetch' # None => mem'[fetch'] \in current'
         /\ fetch # None /\ ~core_ready["IMEM"] => fetch' = fetch /\ current' = current
         /\ fetch # None /\ core_ready["IMEM"] => fetch' = None
<1>1. mem' = mem
  BY CoreFrame
<1>2. CASE fetch # None /\ core_ready["IMEM"]
  <2>1. fetch' = None /\ current' = {}
    BY <1>2 DEF CoreEdge, Requests, done_I
  <2> QED
    BY <1>2, <2>1
<1>3. CASE fetch # None /\ ~core_ready["IMEM"]
  <2>1. fetch' = fetch /\ current' = current
    BY <1>3 DEF CoreEdge, Requests, done_I
  <2> QED
    BY <1>1, <1>3, <2>1 DEF TypeInv
<1>4. CASE fetch = None
  <2>1. \/ fetch' = fetch /\ current' = current
        \/ \E l \in Fetches : fetch' = l /\ current' = {mem[l]}
    BY <1>4 DEF CoreEdge, Requests
  <2>2. \A l \in Fetches : l \in Lines /\ mem[l] \in Values
    BY PathAssumption DEF TypeInv
  <2> QED
    BY <1>1, <1>4, <2>1, <2>2 DEF TypeInv
<1> QED
  BY <1>2, <1>3, <1>4

\* The unit and the data cache: while a strobe is up nothing changes before
\* the answer, and the strobe is low for a cycle after it.
UnitTypes ==
  /\ core \in Request \cup {None} /\ m_data \in Values
  /\ state \in {"Bypass", "AmoRd", "Wait", "AmoWr", "AmoFinish"}
  /\ reservation \in [Cores -> (Lines \X Words) \cup {None}] /\ before \in [Lines -> Values]
UnitEdge(M_done, M_data) ==
  /\ AtomicTick(M_done, M_data)
  /\ IF core # None
     THEN core' = IF core_done(M_done) THEN None ELSE core
     ELSE core' \in Asks \cup {None}
  /\ before' = IF core = None \/ core_done(M_done) THEN mem ELSE before
  /\ mem' = mem

LEMMA UnitEdgeStep ==
  ASSUME TypeInv, UnitInv, NEW r, NEW d \in Values, UnitEdge(r, d),
         ~r => d = 0, r => Strobe("DMEM"),
         ~Strobe("DMEM") => Pending("DMEM"),
         r => Effect("DMEM") /\ (~M_request.rw => d = before[core.line])
  PROVE  /\ UnitTypes' /\ UnitInv'
         /\ Strobe("DMEM") /\ ~r => UNCHANGED <<core, state, m_data, before, reservation>>
         /\ Strobe("DMEM") /\ r => ~Strobe("DMEM")'
         /\ ~Strobe("DMEM") \/ r => Pending("DMEM")'
<1>1. /\ state' = state_next(r) /\ mem' = mem
      /\ m_data' = CASE state = "AmoRd" -> d [] state = "AmoFinish" -> 0 [] OTHER -> m_data
      /\ reservation' = IF core_done(r) THEN [c \in Cores |-> Reserved(c)] ELSE reservation
      /\ before' = IF core = None \/ core_done(r) THEN mem ELSE before
  BY DEF UnitEdge, AtomicTick
<1>2. 0 \in Values /\ Asks \subseteq Request
  BY NoneIs, PathAssumption
<1>3. Strobe("DMEM") = M_strobe /\ Strobe("DMEM")' = M_strobe'
  BY DEF Strobe
<1>4. before' \in [Lines -> Values] /\ m_data' \in Values /\ core' \in Request \cup {None}
  <2>1. before' \in [Lines -> Values]
    BY <1>1 DEF TypeInv
  <2>2. m_data' \in Values
    BY <1>1, <1>2 DEF TypeInv
  <2>3. core' \in Request \cup {None}
    BY <1>2 DEF TypeInv, UnitEdge
  <2> QED
    BY <2>1, <2>2, <2>3
<1>5. reservation' \in [Cores -> (Lines \X Words) \cup {None}]
  <2>1. CASE core_done(r)
    <3>1. core \in Request
      BY <2>1 DEF core_done, is_amo, TypeInv
    <3>2. <<core.line, core.word>> \in Lines \X Words
      BY <3>1 DEF Request
    <3>3. \A c \in Cores : Reserved(c) \in (Lines \X Words) \cup {None}
      BY <3>2 DEF Reserved
    <3> QED
      BY <1>1, <2>1, <3>3
  <2>2. CASE ~core_done(r)
    BY <1>1, <2>2 DEF TypeInv
  <2> QED
    BY <2>1, <2>2
<1>6. UnitTypes' <=> state' \in {"Bypass", "AmoRd", "Wait", "AmoWr", "AmoFinish"}
  BY <1>4, <1>5 DEF UnitTypes
<1>7. CASE core = None
  <2>1. state = "Bypass" /\ ~is_amo /\ m_data = 0
    BY <1>7 DEF UnitInv, is_amo
  <2>2. state' = "Bypass" /\ m_data' = 0 /\ before' = mem
    BY <1>1, <1>7, <2>1 DEF state_next
  <2>3. ~Strobe("DMEM")
    BY <1>3, <1>7, <2>1 DEF M_strobe
  <2>4. UnitInv'
    BY <2>2 DEF UnitInv
  <2> QED
    BY <1>1, <1>6, <2>2, <2>3, <2>4 DEF Pending
<1>8. CASE core # None /\ ~is_amo
  <2>1. state = "Bypass" /\ m_data = 0
    BY <1>8 DEF UnitInv
  <2>2. state' = "Bypass" /\ m_data' = 0
    BY <1>1, <1>8, <2>1 DEF state_next
  <2>3. core_done(r) <=> r
    BY <1>8 DEF core_done
  <2>4. UnitInv'
    BY <2>2 DEF UnitInv
  <2>5. CASE r
    <3>1. core' = None /\ before' = mem
      BY <1>1, <1>8, <2>3, <2>5 DEF UnitEdge
    <3>2. ~Strobe("DMEM")'
      BY <1>3, <3>1 DEF M_strobe, is_amo
    <3> QED
      BY <1>1, <1>6, <2>2, <2>4, <2>5, <3>1, <3>2 DEF Pending
  <2>6. CASE ~r
    <3>1. core' = core /\ before' = before /\ reservation' = reservation
      BY <1>1, <1>8, <2>3, <2>6 DEF UnitEdge
    <3>2. Strobe("DMEM")
      BY <1>3, <1>8 DEF M_strobe
    <3> QED
      BY <1>6, <2>1, <2>2, <2>4, <2>6, <3>1, <3>2
  <2> QED
    BY <2>5, <2>6
<1>9. CASE is_amo /\ state # "AmoFinish"
  <2>1. core # None /\ ~core_done(r)
    BY <1>9 DEF is_amo, core_done
  <2>2. core' = core /\ before' = before /\ reservation' = reservation
    BY <1>1, <2>1 DEF UnitEdge
  <2>3. is_amo' = is_amo /\ is_lr' = is_lr /\ is_sc' = is_sc /\ sc_fail' = sc_fail
    BY <2>2 DEF is_amo, is_lr, is_sc, sc_fail
  <2>4. m_data' = m_data => result' = result
    BY <2>2, <2>3 DEF result
  <2>5. is_amo'
    BY <1>9, <2>3
  <2>6. Pending("DMEM") => mem = before
    BY <1>9, <2>1 DEF Pending
  <2>7. mem = before => Pending("DMEM")'
    BY <1>1, <2>2 DEF Pending
  <2>8. CASE state = "Bypass"
    <3>1. state' = IF is_sc /\ sc_fail THEN "AmoFinish" ELSE "AmoRd"
      BY <1>1, <1>9, <2>8 DEF state_next
    <3>2. m_data' = m_data /\ m_data = 0
      BY <1>1, <2>8 DEF UnitInv
    <3>3. ~Strobe("DMEM")
      BY <1>3, <1>9, <2>8 DEF M_strobe
    <3>4. mem = before
      BY <2>6, <3>3
    <3>5. UnitInv'
      BY <1>1, <2>1, <2>2, <2>3, <2>5, <3>1, <3>2, <3>4 DEF UnitInv
    <3> QED
      BY <1>6, <2>7, <3>1, <3>3, <3>4, <3>5
  <2>9. CASE state = "AmoRd"
    <3>1. m_data' = d /\ m_data = 0 /\ ~(is_sc /\ sc_fail) /\ Strobe("DMEM") /\ ~M_request.rw
      BY <1>1, <1>3, <1>9, <2>9 DEF UnitInv, M_strobe, M_request
    <3>2. CASE r
      <4>1. state' = IF is_lr THEN "AmoFinish" ELSE "Wait"
        BY <1>1, <1>9, <2>9, <3>2 DEF state_next, AfterRead
      <4>2. d = before[core.line] /\ mem = before
        BY <3>1, <3>2 DEF Effect
      <4>3. UnitInv'
        BY <1>1, <2>1, <2>2, <2>3, <2>5, <3>1, <4>1, <4>2 DEF UnitInv
      <4>4. ~Strobe("DMEM")'
        BY <1>3, <2>5, <4>1 DEF M_strobe
      <4> QED
        BY <1>6, <2>7, <3>2, <4>1, <4>2, <4>3, <4>4
    <3>3. CASE ~r
      <4>1. state' = state
        BY <1>1, <1>9, <2>9, <3>3 DEF state_next
      <4>2. m_data' = m_data
        BY <3>1, <3>3
      <4>3. UnitInv'
        BY <2>1, <2>2, <2>3, <2>5, <2>9, <3>1, <4>1, <4>2 DEF UnitInv
      <4> QED
        BY <1>6, <2>2, <2>9, <3>1, <3>3, <4>1, <4>2, <4>3
    <3> QED
      BY <3>2, <3>3
  <2>10. CASE state = "Wait"
    <3>1. state' = "AmoWr" /\ m_data' = m_data
      BY <1>1, <1>9, <2>10 DEF state_next
    <3>2. ~Strobe("DMEM")
      BY <1>3, <1>9, <2>10 DEF M_strobe
    <3>3. UnitInv'
      BY <2>1, <2>2, <2>3, <2>5, <2>10, <3>1 DEF UnitInv
    <3> QED
      BY <1>6, <2>6, <2>7, <3>1, <3>2, <3>3
  <2>11. CASE state = "AmoWr"
    <3>1. m_data' = m_data /\ Strobe("DMEM") /\ M_request.rw /\ M_request.data = result
      BY <1>1, <1>3, <1>9, <2>11 DEF M_strobe, M_request
    <3>2. CASE r
      <4>1. state' = "AmoFinish"
        BY <1>1, <1>9, <2>11, <3>2 DEF state_next
      <4>2. mem = [before EXCEPT ![core.line] = result]
        BY <3>1, <3>2 DEF Effect
      <4>3. ~(is_sc /\ sc_fail) /\ ~is_lr /\ m_data = before[core.line]
        BY <2>11 DEF UnitInv
      <4>4. UnitInv'
        BY <1>1, <2>1, <2>2, <2>3, <2>4, <2>5, <3>1, <4>1, <4>2, <4>3 DEF UnitInv
      <4>5. ~Strobe("DMEM")' /\ Pending("DMEM")'
        BY <1>3, <2>5, <4>1 DEF M_strobe, Pending
      <4> QED
        BY <1>6, <3>1, <3>2, <4>1, <4>4, <4>5
    <3>3. CASE ~r
      <4>1. state' = state
        BY <1>1, <1>9, <2>11, <3>3 DEF state_next
      <4>2. UnitInv'
        BY <2>1, <2>2, <2>3, <2>5, <2>11, <3>1, <4>1 DEF UnitInv
      <4> QED
        BY <1>6, <2>2, <2>11, <3>1, <3>3, <4>1, <4>2
    <3> QED
      BY <3>2, <3>3
  <2> QED
    BY <1>9, <2>8, <2>9, <2>10, <2>11 DEF TypeInv
<1>10. CASE is_amo /\ state = "AmoFinish"
  <2>1. core # None /\ core_done(r)
    BY <1>10 DEF is_amo, core_done
  <2>2. core' = None /\ before' = mem
    BY <1>1, <2>1 DEF UnitEdge
  <2>3. state' = "Bypass" /\ m_data' = 0
    BY <1>1, <1>10 DEF state_next
  <2>4. UnitInv'
    BY <2>3 DEF UnitInv
  <2>5. ~Strobe("DMEM")
    BY <1>3, <1>10 DEF M_strobe
  <2> QED
    BY <1>1, <1>6, <2>2, <2>3, <2>4, <2>5 DEF Pending
<1> QED
  BY <1>7, <1>8, <1>9, <1>10 DEF is_amo

LEMMA UnitStep ==
  ASSUME TypeInv, UnitInv, Stages("DMEM"), NEW seen \in SUBSET NonEmpty(up), CoreEdge(seen)
  PROVE  /\ UnitTypes' /\ UnitInv'
         /\ Strobe("DMEM") /\ ~core_ready["DMEM"] =>
              UNCHANGED <<core, state, m_data, before, reservation>>
         /\ Strobe("DMEM") /\ core_ready["DMEM"] => ~Strobe("DMEM")'
         /\ ~Strobe("DMEM") \/ core_ready["DMEM"] => Pending("DMEM")'
<1>1. UnitEdge(core_ready["DMEM"], data_o("DMEM"))
  <2>1. mem' = mem
    BY CoreFrame
  <2> QED
    BY <2>1 DEF CoreEdge, Requests, UnitEdge, done_D
<1>2. data_o("DMEM") \in Values /\ (~core_ready["DMEM"] => data_o("DMEM") = 0)
  BY AnswerType, Wires
<1>3. ~Strobe("DMEM") => Pending("DMEM")
  BY DEF Stages, Idle, Descends, Served, Returns, Ascends, InFlight
<1>4. core_ready["DMEM"] =>
        Ascends("DMEM") /\ (~Wanted("DMEM").rw => Right("DMEM", data_o("DMEM")))
  BY ReadyMeans, Wires
<1>5. core_ready["DMEM"] =>
        /\ Strobe("DMEM") /\ Effect("DMEM")
        /\ ~M_request.rw => data_o("DMEM") = before[core.line]
  BY <1>4 DEF Ascends, InFlight, Wanted, Right
<1> HIDE DEF UnitEdge
<1> QED
  BY <1>1, <1>2, <1>3, <1>5, UnitEdgeStep

\* While an access is not answered, all that its stages speak of stays.
LEMMA CoreKeeps ==
  ASSUME TypeInv, UnitInv, Stages("IMEM"), Stages("DMEM"), NEW c \in Channels,
         NEW seen \in SUBSET NonEmpty(up), CoreEdge(seen)
  PROVE  /\ Strobe(c) /\ ~core_ready[c] =>
              /\ Strobe(c)' /\ Wanted(c)' = Wanted(c) /\ \A v : Right(c, v) => Right(c, v)'
              /\ (Effect(c) => Effect(c)') /\ (Pending(c) => Pending(c)')
              /\ (Direction(c) => Direction(c)')
         /\ Strobe(c) /\ core_ready[c] => ~Strobe(c)'
         /\ ~Strobe(c) \/ core_ready[c] => Pending(c)'
<1>1. mem' = mem /\ DMEM_rw_r' = DMEM_rw_r
  BY CoreFrame
<1>2. CASE c = "IMEM"
  <2>1. fetch # None /\ ~core_ready["IMEM"] => fetch' = fetch /\ current' = current
    BY FetchStep
  <2>2. fetch # None /\ core_ready["IMEM"] => fetch' = None
    BY FetchStep
  <2>3. (Strobe(c) <=> fetch # None) /\ (Strobe(c)' <=> fetch' # None)
    BY <1>2 DEF Strobe
  <2>4. Effect(c)' /\ Pending(c)' /\ Direction(c)'
    BY <1>2 DEF Effect, Pending, Direction
  <2>5. ASSUME Strobe(c), ~core_ready[c]
        PROVE  Wanted(c)' = Wanted(c) /\ \A v : Right(c, v) => Right(c, v)'
    <3>1. fetch' = fetch /\ current' = current
      BY <1>2, <2>1, <2>3, <2>5
    <3>2. Wanted(c)' = Wanted(c)
      BY <1>2, <3>1 DEF Wanted
    <3>3. \A v : Right(c, v) => Right(c, v)'
      BY <1>2, <3>1 DEF Right
    <3> QED
      BY <3>2, <3>3
  <2>6. Strobe(c) /\ ~core_ready[c] => Strobe(c)'
    BY <1>2, <2>1, <2>3
  <2>7. Strobe(c) /\ core_ready[c] => ~Strobe(c)'
    BY <1>2, <2>2, <2>3
  <2> QED
    BY <2>4, <2>5, <2>6, <2>7
<1>3. CASE c = "DMEM"
  <2>1. ASSUME Strobe(c), ~core_ready[c]
        PROVE  /\ Strobe(c)' /\ Wanted(c)' = Wanted(c) /\ \A v : Right(c, v) => Right(c, v)'
               /\ (Effect(c) => Effect(c)') /\ (Pending(c) => Pending(c)')
               /\ (Direction(c) => Direction(c)')
    <3>1. UNCHANGED <<core, state, m_data, before, reservation>>
      BY <1>3, <2>1, UnitStep
    <3>2. is_amo' = is_amo /\ is_sc' = is_sc
      BY <3>1 DEF is_amo, is_sc
    <3>3. result' = result
      BY <3>1, <3>2 DEF result
    <3>4. M_request' = M_request
      BY <3>1, <3>2, <3>3 DEF M_request
    <3>5. M_strobe' = M_strobe
      BY <3>1, <3>2 DEF M_strobe
    <3>6. Strobe(c)' /\ Wanted(c)' = Wanted(c)
      BY <1>3, <2>1, <3>4, <3>5 DEF Strobe, Wanted
    <3>7. \A v : Right(c, v) => Right(c, v)'
      BY <1>3, <3>1 DEF Right
    <3>8. (Effect(c) => Effect(c)') /\ (Direction(c) => Direction(c)')
      BY <1>1, <3>1, <3>4 DEF Effect, Direction
    <3>9. Pending(c) => Pending(c)'
      BY <1>1, <3>1 DEF Pending
    <3> QED
      BY <3>6, <3>7, <3>8, <3>9
  <2>2. Strobe(c) /\ core_ready[c] => ~Strobe(c)'
    BY <1>3, UnitStep
  <2>3. ~Strobe(c) \/ core_ready[c] => Pending(c)'
    BY <1>3, UnitStep
  <2> QED
    BY <2>1, <2>2, <2>3
<1> QED
  BY <1>2, <1>3, Wires

\* What an edge of the core's clock does with the answers of a port.
LEMMA CoreUp ==
  ASSUME TypeInv, Stages("IMEM"), Stages("DMEM"), NEW c \in Channels,
         NEW seen \in SUBSET NonEmpty(up), CoreEdge(seen)
  PROVE  /\ \A a \in Answers : Absent(up, collected, <<c, a>>) => Absent(up, collected, <<c, a>>)'
         /\ NothingUp(c) => NothingUp(c)'
         /\ \A a \in Answers : \A x : InTransit(up, collected, <<c, a>>, x) /\ x # None =>
              /\ ~core_ready[c] => InTransit(up', collected', <<c, a>>, x)
              /\ core_ready[c] /\ collected[<<c, a>>] # None => Absent(up, collected, <<c, a>>)'
<1> DEFINE U == Popped(up, seen)
           L == Collects(collected, up, seen, core_ready)
<1>1. up' = U /\ collected' = L
  BY CoreFrame
<1>2. DOMAIN collected = DOMAIN up /\ \A a \in Answers : <<c, a>> \in DOMAIN up /\ <<c, a>>[1] = c
  BY Wires DEF TypeInv
<1>3. \A a \in Answers : Absent(up, collected, <<c, a>>) => Absent(U, L, <<c, a>>)
  BY <1>2, AbsentStays
<1>4. ASSUME NEW a \in Answers, NEW x, InTransit(up, collected, <<c, a>>, x), x # None
      PROVE  /\ ~core_ready[c] => InTransit(U, L, <<c, a>>, x)
             /\ core_ready[c] /\ collected[<<c, a>>] # None => Absent(U, L, <<c, a>>)
  <2>1. CASE ~core_ready[c]
    <3>1. ~core_ready[<<c, a>>[1]]
      BY <1>2, <2>1
    <3> QED
      BY <1>2, <1>4, <2>1, <3>1, TransitStays
  <2>2. CASE core_ready[c] /\ collected[<<c, a>>] # None
    <3>1. core_ready[<<c, a>>[1]]
      BY <1>2, <2>2
    <3> QED
      BY <1>2, <1>4, <2>2, <3>1, TransitEnds
  <2> QED
    BY <2>1, <2>2
<1> HIDE DEF U, L
<1>5. \A a \in Answers : Absent(up, collected, <<c, a>>) => Absent(up, collected, <<c, a>>)'
  BY <1>1, <1>3 DEF Absent
<1>6. NothingUp(c) => NothingUp(c)'
  BY <1>5 DEF NothingUp
<1>7. \A a \in Answers : \A x : InTransit(up, collected, <<c, a>>, x) /\ x # None =>
        /\ ~core_ready[c] => InTransit(up', collected', <<c, a>>, x)
        /\ core_ready[c] /\ collected[<<c, a>>] # None => Absent(up, collected, <<c, a>>)'
  BY <1>1, <1>4 DEF Absent
<1> QED
  BY <1>5, <1>6, <1>7

\* An edge of the core's clock takes a request down or an answer out.
LEMMA CoreStage ==
  ASSUME TypeInv, UnitInv, Stages("IMEM"), Stages("DMEM"), NEW c \in Channels,
         NEW seen \in SUBSET NonEmpty(up), CoreEdge(seen)
  PROVE  Stages(c)'
<1>1. /\ UNCHANGED <<latched, DMEM_rw_r, answered, rd_data, noted, held, c_state, sel_r, command>>
      /\ strobed'[c] <=> Strobe(c)
  BY CoreFrame
<1>2. \A s \in Signals(c) : down'[<<c, s>>] = IF Strobe(c) /\ ~strobed[c]
                                              THEN Append(down[<<c, s>>], Wanted(c))
                                              ELSE down[<<c, s>>]
  <2>1. \A s \in Signals(c) : <<c, s>> \in Down /\ <<c, s>>[1] = c
    BY Wires
  <2> QED
    BY <2>1, CoreFrame
<1>3. Busy(c)' <=> Busy(c)
  BY <1>1 DEF Busy
<1>4. Stages(c)
  BY Wires
<1>5. ~Strobe(c) \/ strobed[c] => (NothingDown(c) => NothingDown(c)')
  BY <1>1, <1>2 DEF NothingDown, Absent
<1>6. NothingUp(c) => NothingUp(c)'
  BY CoreUp
<1>7. CASE ~Strobe(c)
  <2>1. Idle(c)
    BY <1>4, <1>7 DEF Stages, Descends, Served, Returns, Ascends, InFlight
  <2>2. ~InFlight(c)'
    BY <1>1, <1>7 DEF InFlight
  <2>3. Pending(c)'
    BY <1>7, CoreKeeps
  <2> QED
    BY <1>1, <1>3, <1>5, <1>6, <1>7, <2>1, <2>2, <2>3 DEF Stages, Idle
<1>8. CASE Strobe(c) /\ ~strobed[c]
  <2>1. Idle(c)
    BY <1>4, <1>8 DEF Stages, Descends, Served, Returns, Ascends, InFlight
  <2>2. ~core_ready[c]
    BY <1>4, <1>8, ReadyMeans DEF Ascends, InFlight
  <2>3. Strobe(c)' /\ Wanted(c)' = Wanted(c) /\ Pending(c)'
    BY <1>8, <2>1, <2>2, CoreKeeps DEF Idle
  <2>4. InFlight(c)'
    BY <1>1, <1>8, <2>3 DEF InFlight
  <2>5. \A s \in Signals(c) : Absent(down, latched, <<c, s>>)
    BY <2>1 DEF Idle, NothingDown
  <2>6. \A s \in Signals(c) : down'[<<c, s>>] = <<Wanted(c)>> /\ latched'[<<c, s>>] = None
    BY <1>1, <1>2, <1>8, <2>5 DEF Absent
  <2>7. \A s \in Signals(c) : InTransit(down, latched, <<c, s>>, Wanted(c))'
    BY <2>3, <2>6 DEF InTransit
  <2>8. c = "DMEM" => latched'[<<c, "rw">>] = None
    BY <2>6, Wires
  <2>9. Descends(c)'
    BY <1>1, <1>3, <1>6, <2>1, <2>3, <2>4, <2>7, <2>8 DEF Idle, Descends
  <2> QED
    BY <2>9 DEF Stages
<1>9. CASE Strobe(c) /\ strobed[c] /\ ~core_ready[c]
  <2>1. /\ Strobe(c)' /\ Wanted(c)' = Wanted(c) /\ \A v : Right(c, v) => Right(c, v)'
        /\ (Effect(c) => Effect(c)') /\ (Pending(c) => Pending(c)')
        /\ (Direction(c) => Direction(c)')
    BY <1>9, CoreKeeps
  <2>2. InFlight(c)' /\ InFlight(c)
    BY <1>1, <1>9, <2>1 DEF InFlight
  <2>3. CASE Descends(c)
    <3>1. \A s \in Signals(c) : InTransit(down, latched, <<c, s>>, Wanted(c))
      BY <2>3 DEF Descends
    <3>2. \A s \in Signals(c) : down'[<<c, s>>] = down[<<c, s>>] /\ latched' = latched
      BY <1>1, <1>2, <1>9
    <3>3. \A s \in Signals(c) : InTransit(down, latched, <<c, s>>, Wanted(c))'
      BY <2>1, <3>1, <3>2 DEF InTransit
    <3>4. Descends(c)'
      BY <1>1, <1>3, <1>6, <2>1, <2>2, <2>3, <3>3 DEF Descends
    <3> QED
      BY <3>4 DEF Stages
  <2>4. CASE Served(c)
    <3>1. Served(c)'
      BY <1>1, <1>3, <1>5, <1>6, <1>9, <2>1, <2>2, <2>4 DEF Served
    <3> QED
      BY <3>1 DEF Stages
  <2>5. CASE Returns(c)
    <3>1. Returns(c)'
      BY <1>1, <1>3, <1>5, <1>6, <1>9, <2>1, <2>2, <2>5 DEF Returns
    <3> QED
      BY <3>1 DEF Stages
  <2>6. CASE Ascends(c)
    <3>1. InTransit(up', collected', <<c, "done">>, TRUE)
      <4>1. InTransit(up, collected, <<c, "done">>, TRUE) /\ TRUE # None
        BY <2>6, NoneIs DEF Ascends
      <4> QED
        BY <1>9, <4>1, CoreUp, Wires
    <3>2. CASE Wanted(c).rw
      <4>1. Absent(up, collected, <<c, "rd_data">>)'
        BY <2>6, <3>2, CoreUp, Wires DEF Ascends
      <4>2. Ascends(c)'
        BY <1>1, <1>3, <1>5, <1>9, <2>1, <2>2, <2>6, <3>1, <3>2, <4>1 DEF Ascends
      <4> QED
        BY <4>2 DEF Stages
    <3>3. CASE ~Wanted(c).rw
      <4>1. PICK v \in Values : Right(c, v) /\ InTransit(up, collected, <<c, "rd_data">>, v)
        BY <2>6, <3>3 DEF Ascends
      <4>2. v # None
        BY NoneIs
      <4>3. InTransit(up', collected', <<c, "rd_data">>, v)
        BY <1>9, <4>1, <4>2, CoreUp, Wires
      <4>4. Right(c, v)'
        BY <2>1, <4>1
      <4>5. \E w \in Values : Right(c, w)' /\ InTransit(up', collected', <<c, "rd_data">>, w)
        BY <4>3, <4>4
      <4>6. Ascends(c)'
        BY <1>1, <1>3, <1>5, <1>9, <2>1, <2>2, <2>6, <3>1, <3>3, <4>5 DEF Ascends
      <4> QED
        BY <4>6 DEF Stages
    <3> QED
      BY <3>2, <3>3
  <2> QED
    BY <1>4, <2>2, <2>3, <2>4, <2>5, <2>6 DEF Stages, Idle
<1>10. CASE Strobe(c) /\ strobed[c] /\ core_ready[c]
  <2>1. /\ Ascends(c) /\ collected[<<c, "done">>] # None
        /\ IF Wanted(c).rw THEN Absent(up, collected, <<c, "rd_data">>)
           ELSE collected[<<c, "rd_data">>] # None /\ Right(c, data_o(c))
    BY <1>4, <1>10, ReadyMeans
  <2>2. ~InFlight(c)' /\ Pending(c)'
    BY <1>10, CoreKeeps DEF InFlight
  <2>3. Absent(up, collected, <<c, "done">>)'
    <3>1. InTransit(up, collected, <<c, "done">>, TRUE) /\ TRUE # None
      BY <2>1, NoneIs DEF Ascends
    <3> QED
      BY <1>10, <2>1, <3>1, CoreUp, Wires
  <2>4. Absent(up, collected, <<c, "rd_data">>)'
    <3>1. CASE Wanted(c).rw
      BY <2>1, <3>1, CoreUp, Wires
    <3>2. CASE ~Wanted(c).rw
      <4>1. PICK v \in Values : Right(c, v) /\ InTransit(up, collected, <<c, "rd_data">>, v)
        BY <2>1, <3>2 DEF Ascends
      <4>2. v # None
        BY NoneIs
      <4> QED
        BY <1>10, <2>1, <3>2, <4>1, <4>2, CoreUp, Wires
    <3> QED
      BY <3>1, <3>2
  <2>5. NothingUp(c)'
    BY <2>3, <2>4, Wires DEF NothingUp
  <2> QED
    BY <1>1, <1>3, <1>5, <1>10, <2>1, <2>2, <2>5 DEF Stages, Idle, Ascends
<1> QED
  BY <1>7, <1>8, <1>9, <1>10

\* The data of a read is still there for the access that waits for it.
LEMMA BusyServed ==
  ASSUME TypeInv, Stages("IMEM"), Stages("DMEM"), c_state # "M_IDLE"
  PROVE  sel_r \in Channels /\ Served(sel_r) /\ Busy(sel_r) /\ ~core_ready[sel_r]
<1>1. sel_r \in Channels /\ Busy(sel_r)
  BY DEF TypeInv, Busy
<1>2. Stages(sel_r)
  BY <1>1, Wires
<1>3. Served(sel_r)
  BY <1>1, <1>2 DEF Stages, Idle, Descends, Returns, Ascends
<1>4. ~core_ready[sel_r]
  BY <1>1, <1>2, ReadyMeans DEF Ascends
<1> QED
  BY <1>1, <1>3, <1>4

LEMMA CoreReads ==
  ASSUME TypeInv, UnitInv, Stages("IMEM"), Stages("DMEM"), ReadInv,
         NEW seen \in SUBSET NonEmpty(up), CoreEdge(seen)
  PROVE  ReadInv'
<1>1. UNCHANGED <<c_state, sel_r, command, rdata, reading>>
  BY CoreFrame
<1>2. CASE c_state = "M_IDLE"
  BY <1>1, <1>2 DEF ReadInv
<1>3. CASE c_state # "M_IDLE"
  <2>1. sel_r \in Channels /\ Served(sel_r) /\ ~core_ready[sel_r]
    BY <1>3, BusyServed
  <2>2. Strobe(sel_r)
    BY <2>1 DEF Served, InFlight
  <2>3. \A c \in Channels : Strobe(c) /\ ~core_ready[c] => \A v : Right(c, v) => Right(c, v)'
    BY CoreKeeps
  <2> DEFINE p == sel_r
  <2>4. p' = p
    BY <1>1
  <2>5. \A v : Right(p, v) => (v \in Values /\ IF p = "IMEM" THEN v \in current' ELSE v = before'[core'.line])
    BY <2>1, <2>2, <2>3 DEF Right
  <2> QED
    BY <1>1, <2>5 DEF ReadInv, Right
<1> QED
  BY <1>2, <1>3

----------------------------------------------------------------------------
(* An edge of the memory's clock: the arbiter.                             *)

LEMMA NStates ==
  ASSUME TypeInv, NEW ready \in BOOLEAN, NEW valid \in BOOLEAN
  PROVE  /\ c_state = "M_IDLE" =>
              /\ ~finishes(ready, valid)
              /\ n_state(ready, valid) = IF have_strobe THEN "M_SEND" ELSE "M_IDLE"
         /\ c_state = "M_SEND" =>
              /\ finishes(ready, valid) <=> ready /\ command.rw
              /\ n_state(ready, valid) = IF ready THEN IF command.rw THEN "M_IDLE" ELSE "M_WAIT"
                                         ELSE "M_SEND"
         /\ c_state = "M_WAIT" =>
              /\ ~finishes(ready, valid)
              /\ n_state(ready, valid) = IF valid THEN "M_DONE" ELSE "M_WAIT"
         /\ c_state = "M_DONE" => finishes(ready, valid) /\ n_state(ready, valid) = "M_IDLE"
<1>1. CASE c_state = "M_IDLE"
  BY <1>1 DEF n_state, finishes, sends
<1>2. CASE c_state = "M_SEND"
  <2>1. n_state(ready, valid) = IF ready THEN IF command.rw THEN "M_IDLE" ELSE "M_WAIT"
                                ELSE "M_SEND"
    BY <1>2 DEF n_state, sends
  <2> QED
    BY <1>2, <2>1 DEF finishes
<1>3. CASE c_state = "M_WAIT"
  BY <1>3 DEF n_state, finishes, sends
<1>4. CASE c_state = "M_DONE"
  BY <1>4 DEF n_state, finishes, sends
<1> QED
  BY <1>1, <1>2, <1>3, <1>4 DEF TypeInv

\* What the memory side sees of an edge of its clock.
Edge(seen, ready, valid) ==
  /\ seen \in SUBSET NonEmpty(down) /\ ready \in {FALSE, c_state = "M_SEND"}
  /\ valid \in {FALSE, reading # None} /\ MemcEdge(seen, ready, valid)
Done(c, ready, valid) == finishes(ready, valid) /\ sel_r = c

LEMMA MemcFrame ==
  ASSUME TypeInv, NEW seen, NEW ready, NEW valid, Edge(seen, ready, valid)
  PROVE  /\ ready \in BOOLEAN /\ valid \in BOOLEAN /\ (valid => reading # None)
         /\ UNCHANGED <<core, state, m_data, reservation, fetch, before, linked>>
         /\ UNCHANGED <<strobed, collected>>
         /\ down' = Popped(down, seen) /\ latched' = Collects(latched, down, seen, memc_ready)
         /\ c_state' = n_state(ready, valid)
         /\ \A c \in Channels :
              /\ answered'[c] <=> Done(c, ready, valid) \/ (answered[c] /\ ~memc_ready[c])
              /\ noted'[c] <=> answered[c]
              /\ rd_data'[c] = IF Done(c, ready, valid) THEN rdata
                               ELSE IF memc_ready[c] \/ Notes(c) THEN 0 ELSE rd_data[c]
              /\ held'[c] = IF memc_ready[c] THEN request_o(c)
                            ELSE IF Done(c, ready, valid) THEN None ELSE held[c]
         /\ \A f \in Up : up'[f] = IF Carries(f) THEN Append(up[f], Item(f)) ELSE up[f]
         /\ DOMAIN down' = Down /\ DOMAIN latched' = Down /\ DOMAIN up' = Up
         /\ answered' \in [Channels -> BOOLEAN] /\ noted' \in [Channels -> BOOLEAN]
<1> DEFINE d == done_o(ready, valid)
           req == [c \in Channels |-> request_o(c)]
<1>1. CdcMemcTick(seen, d, rdata) /\ ArbiterTick(memc_ready, req, ready, valid)
  BY DEF Edge, MemcEdge
<1>2. \A c \in Channels : d[c] <=> Done(c, ready, valid)
  BY DEF done_o, Done
<1>3. \A c \in Channels : req[c] = request_o(c)
  OBVIOUS
<1>4. ready \in BOOLEAN /\ valid \in BOOLEAN /\ (valid => reading # None)
  BY DEF Edge
<1>5. UNCHANGED <<core, state, m_data, reservation, fetch, before, linked>>
  BY DEF Edge, MemcEdge, unit
<1> HIDE DEF d, req
<1>6. /\ UNCHANGED <<strobed, collected>> /\ down' = Popped(down, seen)
      /\ latched' = Collects(latched, down, seen, memc_ready)
      /\ answered' = AnsweredNext(d) /\ noted' = answered
      /\ rd_data' = [c \in Channels |-> IF d[c] THEN rdata
                                        ELSE IF memc_ready[c] \/ Notes(c) THEN 0 ELSE rd_data[c]]
      /\ up' = [f \in Up |-> IF Carries(f) THEN Append(up[f], Item(f)) ELSE up[f]]
  BY <1>1 DEF CdcMemcTick, core_side
<1>7. c_state' = n_state(ready, valid) /\ held' = Held(memc_ready, req, done_o(ready, valid))
  BY <1>1 DEF ArbiterTick
<1>8. DOMAIN down' = Down /\ DOMAIN latched' = Down /\ DOMAIN up' = Up
  BY <1>6 DEF TypeInv, Popped, Collects
<1>9. \A c \in Channels : answered'[c] <=> Done(c, ready, valid) \/ (answered[c] /\ ~memc_ready[c])
  <2>1. \A c \in Channels : answered'[c] <=> d[c] \/ (answered[c] /\ ~memc_ready[c])
    BY <1>6, Zenon DEF AnsweredNext
  <2> QED
    BY <1>2, <2>1
<1>10. \A c \in Channels : noted'[c] <=> answered[c]
  BY <1>6
<1>11. \A c \in Channels :
         rd_data'[c] = IF Done(c, ready, valid) THEN rdata
                       ELSE IF memc_ready[c] \/ Notes(c) THEN 0 ELSE rd_data[c]
  BY <1>2, <1>6
<1>12. \A c \in Channels : held'[c] = IF memc_ready[c] THEN request_o(c)
                                      ELSE IF Done(c, ready, valid) THEN None ELSE held[c]
  BY <1>2, <1>3, <1>7 DEF Held, d
<1>13. answered' \in [Channels -> BOOLEAN] /\ noted' \in [Channels -> BOOLEAN]
  <2>1. \A c \in Channels : (d[c] \/ (answered[c] /\ ~memc_ready[c])) \in BOOLEAN
    OBVIOUS
  <2>2. answered' = [c \in Channels |-> d[c] \/ (answered[c] /\ ~memc_ready[c])]
    BY <1>6 DEF AnsweredNext
  <2>3. answered' \in [Channels -> BOOLEAN]
    BY <2>1, <2>2, Zenon
  <2> QED
    BY <1>6, <2>3 DEF TypeInv
<1>14. \A f \in Up : up'[f] = IF Carries(f) THEN Append(up[f], Item(f)) ELSE up[f]
  BY <1>6
<1> QED
  BY <1>4, <1>5, <1>6, <1>7, <1>8, <1>9, <1>10, <1>11, <1>12, <1>13, <1>14

\* The arbiter's own registers.
LEMMA ArbiterFrame ==
  ASSUME TypeInv, NEW seen, NEW ready, NEW valid, Edge(seen, ready, valid)
  PROVE  /\ c_state = "M_IDLE" => sel_r' = sel /\ command' = held[sel]
         /\ c_state # "M_IDLE" => sel_r' = sel_r
         /\ c_state # "M_IDLE" /\ ~finishes(ready, valid) => command' = command
         /\ mem' = IF sends(ready) /\ command.rw
                   THEN [mem EXCEPT ![command.line] = command.data] ELSE mem
         /\ reading' = IF sends(ready) /\ ~command.rw THEN mem[command.line]
                       ELSE IF valid THEN None ELSE reading
         /\ rdata' = IF valid THEN reading ELSE IF c_state = "M_DONE" THEN 0 ELSE rdata
         /\ current' = IF fetch = None THEN {} ELSE current \cup {mem'[fetch]}
<1>1. ArbiterTick(memc_ready, [c \in Channels |-> request_o(c)], ready, valid)
  BY DEF Edge, MemcEdge
<1>2. current' = IF fetch = None THEN {} ELSE current \cup {mem'[fetch]}
  BY DEF Edge, MemcEdge
<1>3. c_state = "M_IDLE" => sel_r' = sel /\ command' = held[sel]
  BY <1>1 DEF ArbiterTick
<1>4. c_state # "M_IDLE" => sel_r' = sel_r
  BY <1>1 DEF ArbiterTick
<1>5. c_state # "M_IDLE" /\ ~finishes(ready, valid) => command' = command
  BY <1>1 DEF ArbiterTick
<1> QED
  BY <1>1, <1>2, <1>3, <1>4, <1>5 DEF ArbiterTick

\* A request goes to the arbiter as its cache made it.
LEMMA RequestArrives ==
  ASSUME TypeInv, NEW c \in Channels, Stages(c), memc_ready[c]
  PROVE  /\ Descends(c) /\ request_o(c) = Wanted(c)
         /\ \A s \in Signals(c) : latched[<<c, s>>] # None
<1>1. \A s \in Signals(c) : latched[<<c, s>>] # None
  BY DEF memc_ready
<1>2. ~NothingDown(c)
  BY <1>1, Wires DEF NothingDown, Absent
<1>3. Descends(c)
  BY <1>2 DEF Stages, Idle, Served, Returns, Ascends
<1>4. \A s \in Signals(c) : latched[<<c, s>>] = Wanted(c)
  BY <1>1, <1>3 DEF Descends, InTransit
<1>5. Strobe(c)
  BY <1>3 DEF Descends, InFlight
<1>6. CASE c = "IMEM"
  <2>1. /\ latched[<<c, "addr">>] = [line |-> fetch, rw |-> FALSE, data |-> 0]
        /\ Wanted(c) = [line |-> fetch, rw |-> FALSE, data |-> 0]
    BY <1>4, <1>5, <1>6, WantedType, Wires
  <2>2. (c = "DMEM" /\ latched[<<c, "rw">>].rw) = FALSE
    BY <1>6
  <2>3. request_o(c) = [line |-> latched[<<c, "addr">>].line, rw |-> FALSE, data |-> 0]
    BY <1>6, <2>2 DEF request_o
  <2>4. latched[<<c, "addr">>].line = fetch
    BY <2>1
  <2>5. request_o(c) = Wanted(c)
    BY <2>1, <2>3, <2>4
  <2> QED
    BY <1>1, <1>3, <2>5
<1>7. CASE c = "DMEM"
  <2>1. Wanted(c) = M_request
    BY <1>7 DEF Wanted
  <2>2. /\ latched[<<c, "addr">>] = M_request /\ latched[<<c, "rw">>] = M_request
        /\ latched[<<c, "wt_data">>] = M_request
    BY <1>4, <1>7, <2>1, Wires
  <2>3. M_request.rw \in BOOLEAN
    BY DEF M_request
  <2>4. request_o(c) = [line |-> M_request.line, rw |-> M_request.rw, data |-> M_request.data]
    BY <1>7, <2>2, <2>3 DEF request_o
  <2>5. request_o(c) = M_request
    BY <2>4 DEF M_request
  <2> QED
    BY <1>1, <1>3, <2>1, <2>5
<1> QED
  BY <1>6, <1>7, Wires

\* The DRAM is written only for the data port, when that access is done.
LEMMA MemoryStep ==
  ASSUME TypeInv, UnitInv, Stages("IMEM"), Stages("DMEM"), ReadInv,
         NEW seen, NEW ready, NEW valid, Edge(seen, ready, valid)
  PROVE  /\ ~Done("DMEM", ready, valid) => mem' = mem
         /\ mem' \in [Lines -> Values]
         /\ \A c \in Channels : Done(c, ready, valid) =>
              /\ Served(c) /\ Busy(c) /\ c_state' = "M_IDLE"
              /\ Effect(c)'
              /\ ~Wanted(c).rw => mem' = mem /\ Right(c, rdata)
<1>1. /\ ready \in BOOLEAN /\ valid \in BOOLEAN
      /\ UNCHANGED <<core, state, m_data, reservation, before>>
      /\ c_state' = n_state(ready, valid)
  BY MemcFrame
<1>2. mem' = IF sends(ready) /\ command.rw
             THEN [mem EXCEPT ![command.line] = command.data] ELSE mem
  BY ArbiterFrame
<1>3. ASSUME sends(ready), command.rw
      PROVE  /\ sel_r = "DMEM" /\ Done("DMEM", ready, valid)
             /\ command.line \in Lines /\ command.data \in Values
  <2>1. c_state = "M_SEND" /\ ready
    BY <1>3 DEF sends
  <2>2. Served(sel_r) /\ Busy(sel_r) /\ sel_r \in Channels
    BY <2>1, BusyServed
  <2>3. command = Wanted(sel_r) /\ Strobe(sel_r)
    BY <2>2 DEF Served, InFlight
  <2>4. sel_r = "DMEM"
    BY <1>3, <2>2, <2>3, Wires DEF Wanted
  <2>5. command.line \in Lines /\ command.data \in Values
    BY <2>2, <2>3, <2>4, WantedType
  <2>6. finishes(ready, valid)
    BY <1>1, <1>3, <2>1, NStates
  <2> QED
    BY <2>4, <2>5, <2>6 DEF Done
<1>4. ~Done("DMEM", ready, valid) => mem' = mem
  BY <1>2, <1>3
<1>5. mem' \in [Lines -> Values]
  BY <1>2, <1>3 DEF TypeInv
<1>6. ASSUME NEW c \in Channels, Done(c, ready, valid)
      PROVE  /\ Served(c) /\ Busy(c) /\ c_state' = "M_IDLE" /\ Effect(c)'
             /\ ~Wanted(c).rw => mem' = mem /\ Right(c, rdata)
  <2>1. c_state # "M_IDLE" /\ sel_r = c /\ c_state' = "M_IDLE"
    BY <1>1, <1>6 DEF Done, finishes
  <2>2. Served(c) /\ Busy(c)
    BY <2>1, BusyServed
  <2>3. command = Wanted(c) /\ Strobe(c) /\ Pending(c)
    BY <2>2 DEF Served, InFlight
  <2>4. \/ c_state = "M_SEND" /\ ready /\ command.rw
        \/ c_state = "M_DONE" /\ ~command.rw /\ Right(c, rdata)
    BY <1>1, <1>6, <2>1, NStates DEF Done, ReadInv, TypeInv
  <2>5. Effect(c)'
    <3>1. SUFFICES ASSUME c = "DMEM"
                   PROVE  mem' = IF M_request.rw
                                 THEN [before EXCEPT ![core.line] = M_request.data] ELSE before
      <4>1. M_request' = M_request
        BY <1>1 DEF M_request, result, is_amo, is_sc
      <4> QED
        BY <1>1, <4>1 DEF Effect
    <3>2. command = M_request /\ M_request.line = core.line
      BY <2>3, <3>1, WantedType DEF Wanted
    <3>3. core # None /\ state # "AmoFinish"
      BY <2>3, <3>1 DEF Strobe, M_strobe, is_amo, UnitInv
    <3>4. mem = before
      BY <2>3, <3>1, <3>3 DEF Pending
    <3>5. CASE command.rw
      BY <1>2, <2>4, <3>2, <3>4, <3>5 DEF sends
    <3>6. CASE ~command.rw
      BY <1>2, <3>2, <3>4, <3>6
    <3> QED
      BY <3>5, <3>6
  <2>6. ~Wanted(c).rw => mem' = mem /\ Right(c, rdata)
    BY <1>2, <2>3, <2>4
  <2> QED
    BY <2>1, <2>2, <2>5, <2>6
<1> QED
  BY <1>4, <1>5, <1>6

\* What an edge of the memory's clock leaves as it was, for a port.
LEMMA MemcKeeps ==
  ASSUME TypeInv, UnitInv, Stages("IMEM"), Stages("DMEM"), ReadInv, NEW c \in Channels,
         NEW seen, NEW ready, NEW valid, Edge(seen, ready, valid)
  PROVE  /\ (InFlight(c)' <=> InFlight(c)) /\ Wanted(c)' = Wanted(c)
         /\ Strobe(c) => \A v : Right(c, v) => Right(c, v)'
         /\ ~Done(c, ready, valid) => (Effect(c) => Effect(c)') /\ (Pending(c) => Pending(c)')
         /\ Direction(c) => Direction(c)'
         /\ c = "DMEM" /\ <<c, "rw">> \in seen => Direction(c)'
         /\ Done(c, ready, valid) => Served(c) /\ Busy(c)
         /\ Busy(c)' => Served(c) /\ (Busy(c) => ~Done(c, ready, valid)) /\ command' = Wanted(c)
<1>1. /\ ready \in BOOLEAN /\ valid \in BOOLEAN
      /\ UNCHANGED <<core, state, m_data, reservation, fetch, before, strobed>>
      /\ c_state' = n_state(ready, valid)
  BY MemcFrame
<1>2. is_amo' = is_amo /\ is_sc' = is_sc
  BY <1>1 DEF is_amo, is_sc
<1>3. result' = result
  BY <1>1, <1>2 DEF result
<1>4. M_request' = M_request /\ M_strobe' = M_strobe
  BY <1>1, <1>2, <1>3 DEF M_request, M_strobe
<1>5. Strobe(c)' = Strobe(c) /\ Wanted(c)' = Wanted(c)
  BY <1>1, <1>4 DEF Strobe, Wanted
<1>6. InFlight(c)' <=> InFlight(c)
  BY <1>1, <1>5 DEF InFlight
<1>7. Strobe(c) => \A v : Right(c, v) => Right(c, v)'
  <2>1. CASE c = "IMEM"
    <3>1. fetch # None => current \subseteq current'
      BY ArbiterFrame
    <3> QED
      BY <2>1, <3>1 DEF Strobe, Right
  <2>2. CASE c = "DMEM"
    BY <1>1, <2>2 DEF Right
  <2> QED
    BY <2>1, <2>2, Wires
<1>8. ~Done(c, ready, valid) => (Effect(c) => Effect(c)') /\ (Pending(c) => Pending(c)')
  <2>1. CASE c = "IMEM"
    BY <2>1 DEF Effect, Pending
  <2>2. CASE c = "DMEM"
    <3>1. ~Done(c, ready, valid) => mem' = mem
      BY <2>2, MemoryStep
    <3>2. mem' = mem => (Effect(c) => Effect(c)')
      BY <1>1, <1>4 DEF Effect
    <3>3. mem' = mem => (Pending(c) => Pending(c)')
      BY <1>1 DEF Pending
    <3> QED
      BY <3>1, <3>2, <3>3
  <2> QED
    BY <2>1, <2>2, Wires
<1>9. /\ Direction(c) => Direction(c)'
      /\ c = "DMEM" /\ <<c, "rw">> \in seen => Direction(c)'
  <2>1. DMEM_rw_r' = IF <<"DMEM", "rw">> \in seen THEN Head(down[<<"DMEM", "rw">>]).rw
                     ELSE DMEM_rw_r
    BY DEF Edge, MemcEdge, CdcMemcTick
  <2>2. <<"DMEM", "rw">> \in seen => down[<<"DMEM", "rw">>] # <<>>
    BY DEF Edge, NonEmpty
  <2>3. down[<<"DMEM", "rw">>] # <<>> => Head(down[<<"DMEM", "rw">>]).rw = M_request.rw
    <3>1. SUFFICES ASSUME down[<<"DMEM", "rw">>] # <<>>
                   PROVE  Head(down[<<"DMEM", "rw">>]).rw = M_request.rw
      OBVIOUS
    <3>2. ~NothingDown("DMEM")
      BY <3>1, Wires DEF NothingDown, Absent
    <3>3. Descends("DMEM")
      BY <3>2 DEF Stages, Idle, Served, Returns, Ascends
    <3>4. down[<<"DMEM", "rw">>] = <<Wanted("DMEM")>>
      BY <3>1, <3>3, Wires DEF Descends, InTransit
    <3> QED
      BY <3>4 DEF Wanted
  <2> QED
    BY <1>4, <2>1, <2>2, <2>3 DEF Direction
<1>10. Done(c, ready, valid) => Served(c) /\ Busy(c)
  BY MemoryStep
<1>11. ASSUME Busy(c)'
       PROVE  Served(c) /\ (Busy(c) => ~Done(c, ready, valid)) /\ command' = Wanted(c)
  <2>1. c_state' # "M_IDLE" /\ sel_r' = c
    BY <1>11 DEF Busy
  <2>2. CASE c_state = "M_IDLE"
    <3>1. have_strobe
      BY <1>1, <2>1, <2>2, NStates
    <3>2. held["IMEM"] # None \/ held["DMEM"] # None
      BY <3>1, Wires DEF have_strobe
    <3>3. sel = c /\ command' = held[sel]
      BY <2>1, <2>2, ArbiterFrame
    <3>4. held[c] # None
      BY <3>2, <3>3 DEF sel
    <3>5. Served(c)
      <4>1. Stages(c)
        BY Wires
      <4> QED
        BY <3>4, <4>1 DEF Stages, Idle, Descends, Returns, Ascends
    <3>6. ~Busy(c)
      BY <2>2 DEF Busy
    <3> QED
      BY <3>3, <3>5, <3>6 DEF Served
  <2>3. CASE c_state # "M_IDLE"
    <3>1. sel_r = c
      BY <2>1, <2>3, ArbiterFrame
    <3>2. Served(c) /\ Busy(c)
      BY <2>3, <3>1, BusyServed
    <3>3. ~finishes(ready, valid)
      BY <1>1, <2>1 DEF finishes
    <3>4. command' = command
      BY <2>3, <3>3, ArbiterFrame
    <3> QED
      BY <3>2, <3>3, <3>4 DEF Served, Done
  <2> QED
    BY <2>2, <2>3
<1> QED
  BY <1>5, <1>6, <1>7, <1>8, <1>9, <1>10, <1>11

\* What it does with the signals of a request on their way.
LEMMA MemcDown ==
  ASSUME TypeInv, NEW c \in Channels,
         NEW seen, NEW ready, NEW valid, Edge(seen, ready, valid)
  PROVE  /\ NothingDown(c) => NothingDown(c)'
         /\ \A s \in Signals(c) : \A x : InTransit(down, latched, <<c, s>>, x) /\ x # None =>
              /\ ~memc_ready[c] =>
                   /\ InTransit(down', latched', <<c, s>>, x)
                   /\ latched'[<<c, s>>] # None => <<c, s>> \in seen \/ latched[<<c, s>>] = x
              /\ memc_ready[c] /\ latched[<<c, s>>] # None => Absent(down, latched, <<c, s>>)'
<1> DEFINE D == Popped(down, seen)
           L == Collects(latched, down, seen, memc_ready)
<1>1. down' = D /\ latched' = L /\ seen \in SUBSET NonEmpty(down)
  BY MemcFrame DEF Edge
<1>2. DOMAIN latched = DOMAIN down /\ \A s \in Signals(c) : <<c, s>> \in DOMAIN down /\ <<c, s>>[1] = c
  BY Wires DEF TypeInv
<1>3. \A s \in Signals(c) : Absent(down, latched, <<c, s>>) => Absent(D, L, <<c, s>>)
  BY <1>1, <1>2, AbsentStays
<1>4. ASSUME NEW s \in Signals(c), NEW x, InTransit(down, latched, <<c, s>>, x), x # None
      PROVE  /\ ~memc_ready[c] => /\ InTransit(D, L, <<c, s>>, x)
                                  /\ L[<<c, s>>] # None => <<c, s>> \in seen \/ latched[<<c, s>>] = x
             /\ memc_ready[c] /\ latched[<<c, s>>] # None => Absent(D, L, <<c, s>>)
  <2>1. CASE ~memc_ready[c]
    <3>1. ~memc_ready[<<c, s>>[1]]
      BY <1>2, <2>1
    <3> QED
      BY <1>1, <1>2, <1>4, <2>1, <3>1, TransitStays
  <2>2. CASE memc_ready[c] /\ latched[<<c, s>>] # None
    <3>1. memc_ready[<<c, s>>[1]]
      BY <1>2, <2>2
    <3> QED
      BY <1>1, <1>2, <1>4, <2>2, <3>1, TransitEnds
  <2> QED
    BY <2>1, <2>2
<1> HIDE DEF D, L
<1>5. \A s \in Signals(c) : Absent(down, latched, <<c, s>>) => Absent(down, latched, <<c, s>>)'
  BY <1>1, <1>3 DEF Absent
<1>6. NothingDown(c) => NothingDown(c)'
  BY <1>5 DEF NothingDown
<1>7. \A s \in Signals(c) : \A x : InTransit(down, latched, <<c, s>>, x) /\ x # None =>
        /\ ~memc_ready[c] =>
             /\ InTransit(down', latched', <<c, s>>, x)
             /\ latched'[<<c, s>>] # None => <<c, s>> \in seen \/ latched[<<c, s>>] = x
        /\ memc_ready[c] /\ latched[<<c, s>>] # None => Absent(down, latched, <<c, s>>)'
  BY <1>1, <1>4 DEF Absent
<1> QED
  BY <1>6, <1>7

\* An edge of the memory's clock takes an access to its next stage, or leaves
\* it in this one.
LEMMA MemcStage ==
  ASSUME TypeInv, UnitInv, Stages("IMEM"), Stages("DMEM"), ReadInv, NEW c \in Channels,
         NEW seen, NEW ready, NEW valid, Edge(seen, ready, valid)
  PROVE  Stages(c)'
<1>1. /\ collected' = collected
      /\ answered'[c] <=> Done(c, ready, valid) \/ (answered[c] /\ ~memc_ready[c])
      /\ noted'[c] <=> answered[c]
      /\ held'[c] = IF memc_ready[c] THEN request_o(c)
                    ELSE IF Done(c, ready, valid) THEN None ELSE held[c]
  BY MemcFrame
<1>2. /\ (InFlight(c)' <=> InFlight(c)) /\ Wanted(c)' = Wanted(c)
      /\ Strobe(c) => \A v : Right(c, v) => Right(c, v)'
      /\ ~Done(c, ready, valid) => (Effect(c) => Effect(c)') /\ (Pending(c) => Pending(c)')
      /\ Direction(c) => Direction(c)'
      /\ c = "DMEM" /\ <<c, "rw">> \in seen => Direction(c)'
      /\ Done(c, ready, valid) => Served(c) /\ Busy(c)
      /\ Busy(c)' => Served(c) /\ (Busy(c) => ~Done(c, ready, valid)) /\ command' = Wanted(c)
  BY MemcKeeps
<1>3. Stages(c)
  BY Wires
<1>4. memc_ready[c] =>
        Descends(c) /\ request_o(c) = Wanted(c) /\ \A s \in Signals(c) : latched[<<c, s>>] # None
  BY <1>3, RequestArrives
<1>5. /\ NothingDown(c) => NothingDown(c)'
      /\ NothingDown(c) => ~memc_ready[c]
  BY <1>4, MemcDown, Wires DEF NothingDown, Absent
<1>6. \A a \in Answers : up'[<<c, a>>] = IF Carries(<<c, a>>) THEN Append(up[<<c, a>>], Item(<<c, a>>))
                                         ELSE up[<<c, a>>]
  BY MemcFrame, Wires
<1>7. \A a \in Answers : Carries(<<c, a>>) => Notes(c)
  BY DEF Carries
<1>8. ~Notes(c) => \A a \in Answers : up'[<<c, a>>] = up[<<c, a>>] /\ collected' = collected
  BY <1>1, <1>6, <1>7
<1>9. ~Notes(c) => (NothingUp(c) => NothingUp(c)')
  BY <1>8 DEF NothingUp, Absent
<1>10. Served(c) => InFlight(c) /\ Strobe(c) /\ held[c] # None
  BY WantedType DEF Served, InFlight
<1>11. CASE Idle(c)
  <2>1. ~memc_ready[c] /\ ~Done(c, ready, valid) /\ ~Busy(c)'
    BY <1>2, <1>4, <1>10, <1>11 DEF Idle, Descends
  <2>2. NothingUp(c)'
    BY <1>9, <1>11 DEF Idle, Notes
  <2>3. Idle(c)'
    BY <1>1, <1>2, <1>5, <1>11, <2>1, <2>2 DEF Idle
  <2> QED
    BY <2>3 DEF Stages
<1>12. CASE Descends(c)
  <2>1. ~Done(c, ready, valid) /\ ~Busy(c)'
    BY <1>2, <1>10, <1>12 DEF Descends
  <2>2. NothingUp(c)'
    BY <1>9, <1>12 DEF Descends, Notes
  <2>3. \A s \in Signals(c) : InTransit(down, latched, <<c, s>>, Wanted(c)) /\ Wanted(c) # None
    BY <1>12, WantedType DEF Descends, InFlight
  <2>4. CASE memc_ready[c]
    <3>1. \A s \in Signals(c) : Absent(down, latched, <<c, s>>)'
      BY <1>4, <2>3, <2>4, MemcDown
    <3>2. NothingDown(c)'
      BY <3>1 DEF NothingDown
    <3>3. held'[c] = Wanted(c) /\ ~answered'[c]
      BY <1>1, <1>4, <2>1, <2>4
    <3>4. Direction(c)
      <4>1. CASE c = "DMEM"
        BY <1>4, <1>12, <2>4, <4>1, Wires DEF Descends
      <4>2. CASE c # "DMEM"
        BY <4>2 DEF Direction
      <4> QED
        BY <4>1, <4>2
    <3>5. Served(c)'
      BY <1>2, <1>12, <2>1, <2>2, <3>2, <3>3, <3>4 DEF Served, Descends
    <3> QED
      BY <3>5 DEF Stages
  <2>5. CASE ~memc_ready[c]
    <3>1. \A s \in Signals(c) :
            /\ InTransit(down', latched', <<c, s>>, Wanted(c))
            /\ latched'[<<c, s>>] # None => <<c, s>> \in seen \/ latched[<<c, s>>] = Wanted(c)
      BY <2>3, <2>5, MemcDown
    <3>2. c = "DMEM" /\ latched'[<<c, "rw">>] # None => Direction(c)'
      <4>1. SUFFICES ASSUME c = "DMEM", latched'[<<c, "rw">>] # None PROVE Direction(c)'
        OBVIOUS
      <4>2. CASE <<c, "rw">> \in seen
        BY <1>2, <4>1, <4>2
      <4>3. CASE latched[<<c, "rw">>] # None
        BY <1>2, <1>12, <4>1, <4>3 DEF Descends
      <4>4. "rw" \in Signals(c)
        BY <4>1, Wires
      <4> QED
        BY <2>3, <3>1, <4>1, <4>2, <4>3, <4>4
    <3>3. \A s \in Signals(c) : InTransit(down', latched', <<c, s>>, Wanted(c)')
      BY <1>2, <3>1
    <3>4. held'[c] = None
      BY <1>1, <1>12, <2>1, <2>5 DEF Descends
    <3>5. answered'[c] => noted'[c]
      BY <1>1, <2>1
    <3>6. Descends(c)'
      BY <1>2, <1>12, <2>1, <2>2, <3>2, <3>3, <3>4, <3>5 DEF Descends
    <3> QED
      BY <3>6 DEF Stages
  <2> QED
    BY <2>4, <2>5
<1>13. CASE Served(c)
  <2>1. ~memc_ready[c]
    BY <1>4, <1>10, <1>13 DEF Descends
  <2>2. NothingUp(c)'
    BY <1>9, <1>13 DEF Served, Notes
  <2>3. CASE Done(c, ready, valid)
    <3>1. /\ Busy(c) /\ c_state' = "M_IDLE" /\ Effect(c)'
          /\ ~Wanted(c).rw => mem' = mem /\ Right(c, rdata)
      BY <2>3, MemoryStep
    <3>2. ~Busy(c)'
      BY <3>1 DEF Busy
    <3>3. held'[c] = None /\ answered'[c] /\ ~noted'[c]
      BY <1>1, <1>13, <2>1, <2>3 DEF Served
    <3>4. rd_data'[c] = rdata
      BY <2>3, MemcFrame
    <3>5. ~Wanted(c).rw => Right(c, rd_data[c])'
      <4>1. \A v : Right(c, v) => Right(c, v)'
        BY <1>2, <1>10, <1>13
      <4> DEFINE x == rd_data'[c]
      <4>2. ~Wanted(c).rw => Right(c, x)
        BY <3>1, <3>4
      <4> HIDE DEF x
      <4>3. ~Wanted(c).rw => x \in Values /\ IF c = "IMEM" THEN x \in current' ELSE x = before'[core'.line]
        BY <4>1, <4>2 DEF Right
      <4> QED
        BY <4>3 DEF Right, x
    <3>6. Returns(c)'
      BY <1>2, <1>5, <1>13, <2>2, <3>1, <3>2, <3>3, <3>5 DEF Returns, Served
    <3> QED
      BY <3>6 DEF Stages
  <2>4. CASE ~Done(c, ready, valid)
    <3>1. held'[c] = Wanted(c) /\ ~answered'[c] /\ ~noted'[c]
      BY <1>1, <1>13, <2>1, <2>4 DEF Served
    <3>2. Served(c)'
      BY <1>2, <1>5, <1>13, <2>2, <2>4, <3>1 DEF Served
    <3> QED
      BY <3>2 DEF Stages
  <2> QED
    BY <2>3, <2>4
<1>14. CASE Returns(c)
  <2>1. ~memc_ready[c] /\ ~Done(c, ready, valid) /\ ~Busy(c)'
    BY <1>2, <1>5, <1>10, <1>14 DEF Returns
  <2>2. Notes(c)
    BY <1>14 DEF Returns, Notes
  <2>3. InTransit(up', collected', <<c, "done">>, TRUE)
    <3>1. Carries(<<c, "done">>) /\ Item(<<c, "done">>) = TRUE
      BY <2>2 DEF Carries, Item
    <3>2. up[<<c, "done">>] = <<>> /\ collected[<<c, "done">>] = None
      BY <1>14, Wires DEF Returns, NothingUp, Absent
    <3>3. up'[<<c, "done">>] = <<TRUE>>
      <4>1. up'[<<c, "done">>] = Append(<<>>, TRUE)
        BY <1>6, <3>1, <3>2, Wires
      <4>2. \A x : Append(<<>>, x) = <<x>>
        OBVIOUS
      <4> QED
        BY <4>1, <4>2, Zenon
    <3> QED
      BY <1>1, <3>2, <3>3 DEF InTransit
  <2>4. Absent(up, collected, <<c, "rd_data">>)
    BY <1>14, Wires DEF Returns, NothingUp
  <2>5. held'[c] = None /\ answered'[c] /\ noted'[c]
    BY <1>1, <1>14, <2>1 DEF Returns
  <2>6. CASE Wanted(c).rw
    <3>1. c = "DMEM" /\ DMEM_rw_r
      <4>1. c = "DMEM"
        BY <2>6, Wires DEF Wanted
      <4> QED
        BY <1>14, <2>6, <4>1 DEF Returns, Direction, Wanted
    <3>2. ~Carries(<<c, "rd_data">>)
      BY <3>1 DEF Carries
    <3>3. Absent(up, collected, <<c, "rd_data">>)'
      BY <1>1, <1>6, <2>4, <3>2, Wires DEF Absent
    <3>4. Ascends(c)'
      BY <1>2, <1>5, <1>14, <2>1, <2>3, <2>5, <2>6, <3>3 DEF Ascends, Returns
    <3> QED
      BY <3>4 DEF Stages
  <2>7. CASE ~Wanted(c).rw
    <3>1. c = "DMEM" => ~DMEM_rw_r
      BY <1>14, <2>7 DEF Returns, Direction, Wanted
    <3>2. Carries(<<c, "rd_data">>) /\ Item(<<c, "rd_data">>) = rd_data[c]
      BY <2>2, <3>1 DEF Carries, Item
    <3>3. up'[<<c, "rd_data">>] = <<rd_data[c]>> /\ collected'[<<c, "rd_data">>] = None
      BY <1>1, <1>6, <2>4, <3>2, Wires DEF Absent
    <3>4. PICK v \in Values : v = rd_data[c] /\ Right(c, v)
      BY <1>14, <2>7 DEF Returns, Right
    <3>5. InTransit(up', collected', <<c, "rd_data">>, v)
      BY <3>3, <3>4 DEF InTransit
    <3>6. Right(c, v)'
      BY <1>2, <1>14, <3>4 DEF Returns, InFlight
    <3>7. \E w \in Values : Right(c, w)' /\ InTransit(up', collected', <<c, "rd_data">>, w)
      BY <3>5, <3>6
    <3>8. Ascends(c)'
      BY <1>2, <1>5, <1>14, <2>1, <2>3, <2>5, <2>7, <3>7 DEF Ascends, Returns
    <3> QED
      BY <3>8 DEF Stages
  <2> QED
    BY <2>6, <2>7
<1>15. CASE Ascends(c)
  <2>1. ~memc_ready[c] /\ ~Done(c, ready, valid) /\ ~Busy(c)'
    BY <1>2, <1>5, <1>10, <1>15 DEF Ascends
  <2>2. ~Notes(c)
    BY <1>15 DEF Ascends, Notes
  <2>3. InTransit(up', collected', <<c, "done">>, TRUE)
    BY <1>8, <1>15, <2>2, Wires DEF Ascends, InTransit
  <2>4. held'[c] = None /\ answered'[c] /\ noted'[c]
    BY <1>1, <1>15, <2>1 DEF Ascends
  <2>5. CASE Wanted(c).rw
    <3>1. Absent(up, collected, <<c, "rd_data">>)'
      BY <1>8, <1>15, <2>2, <2>5, Wires DEF Ascends, Absent
    <3>2. Ascends(c)'
      BY <1>2, <1>5, <1>15, <2>1, <2>3, <2>4, <2>5, <3>1 DEF Ascends
    <3> QED
      BY <3>2 DEF Stages
  <2>6. CASE ~Wanted(c).rw
    <3>1. PICK v \in Values : Right(c, v) /\ InTransit(up, collected, <<c, "rd_data">>, v)
      BY <1>15, <2>6 DEF Ascends
    <3>2. InTransit(up', collected', <<c, "rd_data">>, v)
      BY <1>8, <2>2, <3>1, Wires DEF InTransit
    <3>3. Right(c, v)'
      BY <1>2, <1>15, <3>1 DEF Ascends, InFlight
    <3>4. \E w \in Values : Right(c, w)' /\ InTransit(up', collected', <<c, "rd_data">>, w)
      BY <3>2, <3>3
    <3>5. Ascends(c)'
      BY <1>2, <1>5, <1>15, <2>1, <2>3, <2>4, <2>6, <3>4 DEF Ascends
    <3> QED
      BY <3>5 DEF Stages
  <2> QED
    BY <2>5, <2>6
<1> QED
  BY <1>3, <1>11, <1>12, <1>13, <1>14, <1>15 DEF Stages

LEMMA MemcReads ==
  ASSUME TypeInv, UnitInv, Stages("IMEM"), Stages("DMEM"), ReadInv,
         NEW seen, NEW ready, NEW valid, Edge(seen, ready, valid)
  PROVE  ReadInv'
<1>1. /\ ready \in BOOLEAN /\ valid \in BOOLEAN /\ (valid => reading # None)
      /\ c_state' = n_state(ready, valid)
  BY MemcFrame
<1>2. /\ c_state # "M_IDLE" => sel_r' = sel_r
      /\ c_state # "M_IDLE" /\ ~finishes(ready, valid) => command' = command
      /\ reading' = IF sends(ready) /\ ~command.rw THEN mem[command.line]
                    ELSE IF valid THEN None ELSE reading
      /\ rdata' = IF valid THEN reading ELSE IF c_state = "M_DONE" THEN 0 ELSE rdata
  BY ArbiterFrame
<1> DEFINE p == sel_r
<1>3. c_state # "M_IDLE" => \A v : Right(p, v) => Right(p, v)'
  <2>1. SUFFICES ASSUME c_state # "M_IDLE" PROVE \A v : Right(p, v) => Right(p, v)'
    OBVIOUS
  <2>2. p' = p /\ p \in Channels /\ Served(p)
    BY <1>2, <2>1, BusyServed
  <2>3. Strobe(p)
    BY <2>2 DEF Served, InFlight
  <2>4. \A c \in Channels : Strobe(c) => \A v : Right(c, v) => Right(c, v)'
    BY MemcKeeps
  <2>5. \A c \in Channels : Strobe(c) =>
          \A v : Right(c, v) => v \in Values /\ IF c = "IMEM" THEN v \in current' ELSE v = before'[core'.line]
    BY <2>4 DEF Right
  <2>6. \A v : Right(p, v) => v \in Values /\ IF p = "IMEM" THEN v \in current' ELSE v = before'[core'.line]
    BY <2>2, <2>3, <2>5
  <2> QED
    BY <2>2, <2>6 DEF Right
<1>4. c_state # "M_IDLE" => p' = p
  BY <1>2
<1>5. \A v : Right(p, v)' <=> v \in Values /\ IF p' = "IMEM" THEN v \in current' ELSE v = before'[core'.line]
  BY DEF Right
<1> HIDE DEF p
<1>6. ReadInv' <=> /\ c_state' = "M_WAIT" => Right(p, reading)' /\ ~command'.rw
                   /\ c_state' = "M_DONE" => Right(p, rdata)' /\ ~command'.rw
                   /\ c_state' # "M_WAIT" => reading' = None
  BY DEF ReadInv, p
<1>7. CASE c_state = "M_IDLE"
  <2>1. c_state' \in {"M_IDLE", "M_SEND"} /\ reading = None /\ ~sends(ready)
    BY <1>1, <1>7, NStates DEF ReadInv, sends
  <2> QED
    BY <1>1, <1>2, <1>6, <2>1
<1>8. CASE c_state = "M_SEND"
  <2>1. reading = None /\ ~valid /\ (sends(ready) <=> ready)
    BY <1>1, <1>8 DEF ReadInv, sends
  <2>2. CASE ready /\ ~command.rw
    <3>1. c_state' = "M_WAIT" /\ command' = command /\ reading' = mem[command.line]
      BY <1>1, <1>2, <1>8, <2>1, <2>2, NStates
    <3>2. p \in Channels /\ Served(p) /\ Busy(p)
      BY <1>8, BusyServed DEF p
    <3>3. command = Wanted(p) /\ Strobe(p) /\ Pending(p)
      BY <3>2 DEF Served, InFlight
    <3>4. Right(p, mem[command.line])
      <4>1. CASE p = "IMEM"
        <5>1. command.line = fetch /\ fetch # None /\ fetch \in Lines
          BY <3>3, <4>1, WantedType, Wires DEF Strobe
        <5> QED
          BY <4>1, <5>1 DEF Right, TypeInv
      <4>2. CASE p = "DMEM"
        <5>1. command.line = core.line /\ core # None /\ core.line \in Lines
          BY <3>3, <4>2, WantedType, Wires
        <5>2. state # "AmoFinish"
          BY <3>3, <4>2, <5>1 DEF Strobe, M_strobe, is_amo, UnitInv
        <5>3. mem = before
          BY <3>3, <4>2, <5>1, <5>2 DEF Pending
        <5> QED
          BY <4>2, <5>1, <5>3 DEF Right, TypeInv
      <4> QED
        BY <3>2, <4>1, <4>2, Wires
    <3>5. Right(p, reading)'
      <4> DEFINE v == reading'
      <4>1. Right(p, v)
        BY <3>1, <3>4
      <4> HIDE DEF v
      <4>2. v \in Values /\ IF p' = "IMEM" THEN v \in current' ELSE v = before'[core'.line]
        BY <1>3, <1>5, <1>8, <4>1
      <4> QED
        BY <4>2 DEF Right, v
    <3> QED
      BY <1>6, <2>2, <3>1, <3>5
  <2>3. CASE ~(ready /\ ~command.rw)
    <3>1. c_state' \in {"M_IDLE", "M_SEND"} /\ reading' = None
      BY <1>1, <1>2, <1>8, <2>1, <2>3, NStates
    <3> QED
      BY <1>6, <3>1
  <2> QED
    BY <2>2, <2>3
<1>9. CASE c_state = "M_WAIT"
  <2>1. Right(p, reading) /\ ~command.rw /\ command' = command /\ ~sends(ready)
    BY <1>1, <1>2, <1>9, NStates DEF ReadInv, sends, p
  <2> DEFINE v == reading
  <2>2. v \in Values /\ IF p' = "IMEM" THEN v \in current' ELSE v = before'[core'.line]
    <3> HIDE DEF v
    <3>1. Right(p, v)
      BY <2>1 DEF v
    <3>2. \A x : Right(p, x) =>
            x \in Values /\ IF p' = "IMEM" THEN x \in current' ELSE x = before'[core'.line]
      BY <1>3, <1>5, <1>9
    <3> QED
      BY <3>1, <3>2
  <2>3. CASE valid
    <3>1. c_state' = "M_DONE" /\ reading' = None /\ rdata' = reading
      BY <1>1, <1>2, <1>9, <2>1, <2>3, NStates
    <3>2. Right(p, rdata)'
      BY <2>2, <3>1 DEF Right
    <3> QED
      BY <1>6, <2>1, <3>1, <3>2
  <2>4. CASE ~valid
    <3>1. c_state' = "M_WAIT" /\ reading' = reading
      BY <1>1, <1>2, <1>9, <2>1, <2>4, NStates
    <3>2. Right(p, reading)'
      BY <2>2, <3>1 DEF Right
    <3> QED
      BY <1>6, <2>1, <3>1, <3>2
  <2> QED
    BY <2>3, <2>4
<1>10. CASE c_state = "M_DONE"
  <2>1. c_state' = "M_IDLE" /\ reading = None /\ ~valid /\ ~sends(ready)
    BY <1>1, <1>10, NStates DEF ReadInv, sends
  <2> QED
    BY <1>2, <1>6, <2>1
<1> QED
  BY <1>7, <1>8, <1>9, <1>10 DEF TypeInv

LEMMA MemcTypes ==
  ASSUME TypeInv, UnitInv, Stages("IMEM"), Stages("DMEM"), ReadInv,
         NEW seen, NEW ready, NEW valid, Edge(seen, ready, valid)
  PROVE  TypeInv' /\ UnitInv'
<1>1. /\ ready \in BOOLEAN /\ valid \in BOOLEAN /\ c_state' = n_state(ready, valid)
      /\ UNCHANGED <<core, state, m_data, reservation, fetch, before, linked>>
      /\ UNCHANGED <<strobed, collected>>
      /\ DOMAIN down' = Down /\ DOMAIN latched' = Down /\ DOMAIN up' = Up
      /\ answered' \in [Channels -> BOOLEAN] /\ noted' \in [Channels -> BOOLEAN]
  BY MemcFrame
<1>2. c_state' \in {"M_IDLE", "M_SEND", "M_WAIT", "M_DONE"}
  BY <1>1, NStates DEF TypeInv
<1>3. sel_r' \in Channels
  <2>1. sel \in Channels
    BY Wires DEF sel
  <2> QED
    BY <2>1, ArbiterFrame DEF TypeInv
<1>4. mem' \in [Lines -> Values]
  BY MemoryStep
<1>5. current' \subseteq Values /\ (fetch' # None => mem'[fetch'] \in current')
  <2>1. current' = IF fetch = None THEN {} ELSE current \cup {mem'[fetch]}
    BY ArbiterFrame
  <2> QED
    BY <1>1, <1>4, <2>1 DEF TypeInv
<1>6. DMEM_rw_r' \in BOOLEAN
  <2>1. DMEM_rw_r' = IF <<"DMEM", "rw">> \in seen THEN Head(down[<<"DMEM", "rw">>]).rw
                     ELSE DMEM_rw_r
    BY DEF Edge, MemcEdge, CdcMemcTick
  <2>2. CASE <<"DMEM", "rw">> \in seen
    <3>1. down[<<"DMEM", "rw">>] # <<>>
      BY <2>2 DEF Edge, NonEmpty
    <3>2. ~NothingDown("DMEM")
      BY <3>1, Wires DEF NothingDown, Absent
    <3>3. Descends("DMEM")
      BY <3>2 DEF Stages, Idle, Served, Returns, Ascends
    <3>4. down[<<"DMEM", "rw">>] = <<Wanted("DMEM")>>
      BY <3>1, <3>3, Wires DEF Descends, InTransit
    <3>5. Wanted("DMEM").rw \in BOOLEAN
      BY DEF Wanted, M_request
    <3> QED
      BY <2>1, <2>2, <3>4, <3>5
  <2>3. CASE <<"DMEM", "rw">> \notin seen
    BY <2>1, <2>3 DEF TypeInv
  <2> QED
    BY <2>2, <2>3
<1>7. TypeInv'
  BY <1>1, <1>2, <1>3, <1>4, <1>5, <1>6 DEF TypeInv
<1>8. /\ is_amo' = is_amo /\ is_lr' = is_lr /\ is_sc' = is_sc /\ sc_fail' = sc_fail
      /\ result' = result
  BY <1>1 DEF is_amo, is_lr, is_sc, sc_fail, result
<1>9. state = "AmoFinish" => mem' = mem
  <2>1. state = "AmoFinish" => ~Strobe("DMEM")
    BY DEF UnitInv, Strobe, M_strobe
  <2>2. Done("DMEM", ready, valid) => Strobe("DMEM")
    BY MemcKeeps, Wires DEF Served, InFlight
  <2> QED
    BY <2>1, <2>2, MemoryStep
<1>10. UnitInv'
  BY <1>1, <1>8, <1>9 DEF UnitInv
<1> QED
  BY <1>7, <1>10

LEMMA CoreTypes ==
  ASSUME TypeInv, UnitInv, Stages("IMEM"), Stages("DMEM"), ReadInv,
         NEW seen \in SUBSET NonEmpty(up), CoreEdge(seen)
  PROVE  TypeInv' /\ UnitInv'
<1>1. UnitTypes' /\ UnitInv'
  BY UnitStep
<1>2. /\ fetch' \in Lines \cup {None} /\ current' \subseteq Values
      /\ fetch' # None => mem'[fetch'] \in current'
  BY FetchStep
<1>3. /\ UNCHANGED <<latched, DMEM_rw_r, answered, noted, c_state, sel_r, mem>>
      /\ DOMAIN down' = Down /\ DOMAIN up' = Up /\ DOMAIN collected' = Up
      /\ strobed' \in [Channels -> BOOLEAN]
  BY CoreFrame
<1> QED
  BY <1>1, <1>2, <1>3 DEF TypeInv, UnitTypes

----------------------------------------------------------------------------
(* The invariant, and the theorems.                                        *)

LEMMA StartsRight == Init => IInv /\ LinkInv
<1> SUFFICES ASSUME Init PROVE IInv /\ LinkInv
  OBVIOUS
<1>1. /\ state = "Bypass" /\ m_data = 0 /\ reservation = [c \in Cores |-> None]
      /\ core = None /\ fetch = None /\ before = mem /\ current = {}
  BY DEF Init, AtomicInit
<1>2. /\ held = [p \in Channels |-> None] /\ c_state = "M_IDLE" /\ sel_r = "IMEM"
      /\ mem = [l \in Lines |-> 0] /\ reading = None
  BY DEF Init, ArbiterInit
<1>3. /\ strobed = [c \in Channels |-> FALSE] /\ answered = [c \in Channels |-> FALSE]
      /\ noted = [c \in Channels |-> FALSE] /\ DMEM_rw_r = FALSE
      /\ down = [f \in Down |-> <<>>] /\ latched = [f \in Down |-> None]
      /\ up = [f \in Up |-> <<>>] /\ collected = [f \in Up |-> None]
  BY DEF Init, CdcInit
<1>4. TypeInv
  <2>1. /\ core \in Request \cup {None} /\ fetch \in Lines \cup {None} /\ m_data \in Values
        /\ state \in {"Bypass", "AmoRd", "Wait", "AmoWr", "AmoFinish"}
        /\ reservation \in [Cores -> (Lines \X Words) \cup {None}]
    BY <1>1, NoneIs
  <2>2. /\ c_state \in {"M_IDLE", "M_SEND", "M_WAIT", "M_DONE"} /\ sel_r \in Channels
        /\ mem \in [Lines -> Values] /\ before \in [Lines -> Values]
        /\ current \subseteq Values /\ (fetch # None => mem[fetch] \in current)
    BY <1>1, <1>2, NoneIs, Wires
  <2>3. /\ strobed \in [Channels -> BOOLEAN] /\ answered \in [Channels -> BOOLEAN]
        /\ noted \in [Channels -> BOOLEAN] /\ DMEM_rw_r \in BOOLEAN
    BY <1>3
  <2> QED
    BY <1>3, <2>1, <2>2, <2>3 DEF TypeInv
<1>5. UnitInv
  BY <1>1 DEF UnitInv
<1>6. ASSUME NEW c \in Channels PROVE Stages(c)
  <2>1. \A s \in Signals(c) : Absent(down, latched, <<c, s>>)
    BY <1>3, Wires DEF Absent
  <2>2. \A a \in Answers : Absent(up, collected, <<c, a>>)
    BY <1>3, Wires DEF Absent
  <2>3. ~InFlight(c) /\ held[c] = None /\ ~Busy(c) /\ ~answered[c] /\ Pending(c)
    BY <1>1, <1>2, <1>3 DEF InFlight, Busy, Pending
  <2> QED
    BY <2>1, <2>2, <2>3 DEF Stages, Idle, NothingDown, NothingUp
<1>7. ReadInv
  BY <1>2 DEF ReadInv
<1>8. LinkInv
  BY <1>1 DEF LinkInv
<1> QED
  BY <1>4, <1>5, <1>6, <1>7, <1>8, Wires DEF IInv

LEMMA StaysRight == IInv /\ [Next]_vars => IInv'
<1> SUFFICES ASSUME IInv, [Next]_vars PROVE IInv'
  OBVIOUS
<1>1. TypeInv /\ UnitInv /\ Stages("IMEM") /\ Stages("DMEM") /\ ReadInv
  BY DEF IInv
<1>2. ASSUME NEW seen \in SUBSET NonEmpty(up), CoreEdge(seen) PROVE IInv'
  <2>1. TypeInv' /\ UnitInv'
    BY <1>1, <1>2, CoreTypes
  <2>2. Stages("IMEM")' /\ Stages("DMEM")'
    BY <1>1, <1>2, CoreStage, Wires
  <2>3. ReadInv'
    BY <1>1, <1>2, CoreReads
  <2> QED
    BY <2>1, <2>2, <2>3 DEF IInv
<1>3. ASSUME NEW seen, NEW ready, NEW valid, Edge(seen, ready, valid) PROVE IInv'
  <2>1. TypeInv' /\ UnitInv'
    BY <1>1, <1>3, MemcTypes
  <2>2. Stages("IMEM")' /\ Stages("DMEM")'
    BY <1>1, <1>3, MemcStage, Wires
  <2>3. ReadInv'
    BY <1>1, <1>3, MemcReads
  <2> QED
    BY <2>1, <2>2, <2>3 DEF IInv
<1>4. CASE UNCHANGED vars
  <2>1. UNCHANGED <<core, state, m_data, reservation, fetch, before, current, linked>>
    BY <1>4 DEF vars, unit
  <2>2. /\ UNCHANGED <<strobed, collected, given, down, up>>
        /\ UNCHANGED <<latched, asked, DMEM_rw_r, answered, rd_data, noted>>
    BY <1>4 DEF vars, core_side, memc_side
  <2>3. UNCHANGED <<held, c_state, sel_r, command, rdata, mem, reading>>
    BY <1>4 DEF vars, arbiter
  <2>4. TypeInv'
    BY <1>1, <2>1, <2>2, <2>3 DEF TypeInv
  <2>5. is_amo' = is_amo /\ is_lr' = is_lr /\ is_sc' = is_sc /\ sc_fail' = sc_fail
    BY <2>1 DEF is_amo, is_lr, is_sc, sc_fail
  <2>6. result' = result
    BY <2>1, <2>5 DEF result
  <2>7. UnitInv'
    BY <1>1, <2>1, <2>3, <2>5, <2>6 DEF UnitInv
  <2>8. M_strobe' = M_strobe /\ M_request' = M_request
    BY <2>1, <2>5, <2>6 DEF M_strobe, M_request
  <2>9. ASSUME NEW c \in Channels, Stages(c) PROVE Stages(c)'
    <3>1. Strobe(c)' = Strobe(c) /\ Wanted(c)' = Wanted(c)
      BY <2>1, <2>8 DEF Strobe, Wanted
    <3>2. (InFlight(c)' <=> InFlight(c)) /\ (Busy(c)' <=> Busy(c))
      BY <2>2, <2>3, <3>1 DEF InFlight, Busy
    <3>3. /\ \A s \in Signals(c) : \A x : InTransit(down, latched, <<c, s>>, x) =>
               InTransit(down', latched', <<c, s>>, x)
          /\ \A a \in Answers : \A x : InTransit(up, collected, <<c, a>>, x) =>
               InTransit(up', collected', <<c, a>>, x)
          /\ \A a \in Answers : Absent(up, collected, <<c, a>>) => Absent(up', collected', <<c, a>>)
      BY <2>2
    <3>4. (NothingDown(c) => NothingDown(c)') /\ (NothingUp(c) => NothingUp(c)')
      BY <2>2 DEF NothingDown, NothingUp, Absent
    <3>5. \A v : Right(c, v) => Right(c, v)'
      BY <2>1 DEF Right
    <3>6. (Effect(c) => Effect(c)') /\ (Pending(c) => Pending(c)') /\ (Direction(c) => Direction(c)')
      BY <2>1, <2>2, <2>3, <2>8 DEF Effect, Pending, Direction
    <3>7. UNCHANGED <<held, answered, noted, rd_data, latched, command>>
      BY <2>2, <2>3
    <3>8. CASE Idle(c)
      BY <3>2, <3>4, <3>6, <3>7, <3>8 DEF Idle, Stages
    <3>9. CASE Descends(c)
      <4>1. \A s \in Signals(c) : InTransit(down, latched, <<c, s>>, Wanted(c))'
        BY <3>1, <3>3, <3>9 DEF Descends
      <4>2. Descends(c)'
        BY <3>2, <3>4, <3>6, <3>7, <3>9, <4>1 DEF Descends
      <4> QED
        BY <4>2 DEF Stages
    <3>10. CASE Served(c)
      BY <3>1, <3>2, <3>4, <3>6, <3>7, <3>10 DEF Served, Stages
    <3>11. CASE Returns(c)
      <4>1. ~Wanted(c).rw => Right(c, rd_data[c])'
        BY <2>1, <3>7, <3>11 DEF Returns, Right
      <4>2. Returns(c)'
        BY <3>1, <3>2, <3>4, <3>6, <3>7, <3>11, <4>1 DEF Returns
      <4> QED
        BY <4>2 DEF Stages
    <3>12. CASE Ascends(c)
      <4>1. InTransit(up', collected', <<c, "done">>, TRUE)
        BY <3>3, <3>12, Wires DEF Ascends
      <4>2. IF Wanted(c).rw THEN Absent(up', collected', <<c, "rd_data">>)
            ELSE \E v \in Values : Right(c, v)' /\ InTransit(up', collected', <<c, "rd_data">>, v)
        BY <3>3, <3>5, <3>12, Wires DEF Ascends
      <4>3. Ascends(c)'
        BY <3>1, <3>2, <3>4, <3>6, <3>7, <3>12, <4>1, <4>2 DEF Ascends
      <4> QED
        BY <4>3 DEF Stages
    <3> QED
      BY <2>9, <3>8, <3>9, <3>10, <3>11, <3>12 DEF Stages
  <2>10. ReadInv'
    BY <1>1, <2>1, <2>3 DEF ReadInv, Right
  <2> QED
    BY <1>1, <2>4, <2>7, <2>9, <2>10, Wires DEF IInv
<1>5. Next => IInv'
  BY <1>2, <1>3 DEF Next, AnyCoreEdge, AnyMemcEdge, Edge
<1> QED
  BY <1>4, <1>5

\* A reservation is where its core's last LR was.
LEMMA LinksStay == LinkInv /\ [Next]_vars => LinkInv'
<1> SUFFICES ASSUME LinkInv, [Next]_vars, NEW c \in Cores, reservation'[c] # None
             PROVE  linked'[c] \in {reservation'[c], "stray"}
  BY DEF LinkInv
<1>1. CASE reservation' = reservation /\ linked' = linked
  BY <1>1 DEF LinkInv
<1>2. ASSUME NEW seen, CoreEdge(seen) PROVE linked'[c] \in {reservation'[c], "stray"}
  <2>1. CASE done_D
    <3>1. reservation'[c] = Reserved(c) /\ linked'[c] = LinkedNext(c)
      BY <1>2, <2>1 DEF CoreEdge, Requests, AtomicTick, done_D
    <3>2. is_lr /\ core.id = c /\ reservation'[c] = <<core.line, core.word>>
      BY <3>1 DEF Reserved
    <3> QED
      BY <3>1, <3>2 DEF LinkedNext
  <2>2. CASE ~done_D
    <3>1. reservation' = reservation /\ linked' = linked
      BY <1>2, <2>2 DEF CoreEdge, Requests, AtomicTick, done_D
    <3> QED
      BY <1>1, <3>1
  <2> QED
    BY <2>1, <2>2
<1>3. ASSUME NEW seen, NEW ready, NEW valid, MemcEdge(seen, ready, valid)
      PROVE  linked'[c] \in {reservation'[c], "stray"}
  BY <1>1, <1>3 DEF MemcEdge, unit
<1>4. CASE UNCHANGED vars
  BY <1>1, <1>4 DEF vars, unit
<1> QED
  BY <1>2, <1>3, <1>4 DEF Next, AnyCoreEdge, AnyMemcEdge

LEMMA Invariant == Spec => []IInv /\ []LinkInv
<1>1. Init => IInv /\ LinkInv
  BY StartsRight
<1>2. IInv /\ [Next]_vars => IInv'
  BY StaysRight
<1>3. LinkInv /\ [Next]_vars => LinkInv'
  BY LinksStay
<1> QED
  BY <1>1, <1>2, <1>3, PTL DEF Spec

\* The types; no FIFO ever holds two items, nor an item while the register
\* behind it is full, and a cache that waits for nothing has nothing on the
\* path (cdc_sync.v:150-521, mem_arbiter.v:177-228).
THEOREM TypeCorrect == Spec => []TypeOK
<1>1. IInv => TypeOK
  <2> SUFFICES ASSUME IInv PROVE TypeOK
    OBVIOUS
  <2>1. TypeInv /\ UnitInv /\ Stages("IMEM") /\ Stages("DMEM")
    BY DEF IInv
  <2>2. \A x : Len(<<x>>) = 1 /\ Len(<<>>) = 0
    OBVIOUS
  <2>3. \A fifos, registers, f, x : InTransit(fifos, registers, f, x) \/ Absent(fifos, registers, f) =>
          Len(fifos[f]) <= 1 /\ (fifos[f] # <<>> => registers[f] = None)
    <3>1. TAKE fifos, registers, f, x
    <3>2. CASE fifos[f] = <<>>
      BY <2>2, <3>2
    <3>3. CASE fifos[f] = <<x>> /\ registers[f] = None
      <4>1. Len(fifos[f]) = 1
        BY <2>2, <3>3, Zenon
      <4> QED
        BY <3>3, <4>1
    <3> QED
      BY <3>2, <3>3 DEF InTransit, Absent
  <2>4. ASSUME NEW f \in Down
        PROVE  Len(down[f]) <= 1 /\ (down[f] # <<>> => latched[f] = None)
    <3>1. PICK c \in Channels : \E s \in Signals(c) : f = <<c, s>>
      BY Wires
    <3>2. PICK s \in Signals(c) : f = <<c, s>>
      BY <3>1
    <3>3. Stages(c)
      BY <2>1, Wires
    <3>4. NothingDown(c) \/ Descends(c)
      BY <3>3 DEF Stages, Idle, Served, Returns, Ascends
    <3>5. Absent(down, latched, f) \/ InTransit(down, latched, f, Wanted(c))
      BY <3>2, <3>4 DEF NothingDown, Descends
    <3> QED
      BY <2>3, <3>5
  <2>5. ASSUME NEW f \in Up
        PROVE  Len(up[f]) <= 1 /\ (up[f] # <<>> => collected[f] = None)
    <3>1. PICK c \in Channels : \E a \in Answers : f = <<c, a>>
      BY Wires
    <3>2. PICK a \in Answers : f = <<c, a>>
      BY <3>1
    <3>3. Stages(c)
      BY <2>1, Wires
    <3>4. NothingUp(c) \/ Ascends(c)
      BY <3>3 DEF Stages, Idle, Descends, Served, Returns
    <3>5. Absent(up, collected, f) \/ \E x : InTransit(up, collected, f, x)
      BY <3>2, <3>4, Wires DEF NothingUp, Ascends
    <3> QED
      BY <2>3, <3>5
  <2>6. \A c \in Channels : ~Strobe(c) => held[c] = None
    BY <2>1, Wires DEF Stages, Idle, Descends, Served, Returns, Ascends, InFlight
  <2>7. fetch = None => held["IMEM"] = None
    BY <2>6, Wires DEF Strobe
  <2>8. core = None => held["DMEM"] = None /\ state = "Bypass"
    BY <2>1, <2>6, Wires DEF Strobe, M_strobe, is_amo, UnitInv
  <2> QED
    BY <2>1, <2>4, <2>5, <2>7, <2>8 DEF TypeOK, TypeInv
<1> QED
  BY <1>1, Invariant, PTL

\* A data access is answered once it has been done in the DRAM, exactly once,
\* and with what was there when it was asked for: a plain read or write, and
\* both halves of LR, SC and AMO, whatever order their signals come through
\* the FIFOs in (atomic_unit.v:144-237, cdc_sync.v:150-521, mem_arbiter.v:177-380).
THEOREM DoneOnce == Spec => EachOnce
<1>1. ASSUME IInv
      PROVE  done_D =>
        LET old == before[core.line] IN
        IF ~is_amo
        THEN IF core.op = "read"
             THEN mem = before /\ answer = old
             ELSE mem = [before EXCEPT ![core.line] = core.data]
        ELSE CASE is_lr -> mem = before /\ answer = old
               [] is_sc -> mem = IF answer THEN before ELSE [before EXCEPT ![core.line] = core.data]
               [] OTHER -> answer = old
                           /\ mem = [before EXCEPT ![core.line] = (old + core.data) % Modulus]
  <2> SUFFICES ASSUME done_D
               PROVE  /\ ~is_amo /\ core.op = "read" => mem = before /\ answer = before[core.line]
                      /\ ~is_amo /\ core.op # "read" =>
                           mem = [before EXCEPT ![core.line] = core.data]
                      /\ is_amo /\ is_lr => mem = before /\ answer = before[core.line]
                      /\ is_amo /\ is_sc =>
                           mem = IF answer THEN before ELSE [before EXCEPT ![core.line] = core.data]
                      /\ is_amo /\ ~is_lr /\ ~is_sc =>
                           /\ answer = before[core.line]
                           /\ mem = [before EXCEPT ![core.line] =
                                       (before[core.line] + core.data) % Modulus]
    <3>1. ~(is_lr /\ is_sc)
      BY DEF is_lr, is_sc
    <3> QED
      BY <3>1
  <2>1. TypeInv /\ UnitInv /\ Stages("DMEM")
    BY <1>1 DEF IInv
  <2>2. CASE ~is_amo
    <3>1. core # None /\ core_ready["DMEM"] /\ answer = data_o("DMEM")
      BY <2>2 DEF done_D, core_done, answer, core_data
    <3>2. /\ Ascends("DMEM")
          /\ ~Wanted("DMEM").rw => Right("DMEM", data_o("DMEM"))
      BY <2>1, <3>1, ReadyMeans, Wires
    <3>3. mem = IF M_request.rw THEN [before EXCEPT ![core.line] = M_request.data] ELSE before
      BY <3>2 DEF Ascends, Effect
    <3>4. ~M_request.rw => data_o("DMEM") = before[core.line]
      BY <3>2 DEF Right, Wanted
    <3>5. core.op \in {"read", "write"}
      BY <2>1, <2>2, <3>1 DEF TypeInv, Request, is_amo
    <3>6. (M_request.rw <=> core.op = "write") /\ M_request.data = core.data
      BY <2>2 DEF M_request
    <3> QED
      BY <2>2, <3>1, <3>3, <3>4, <3>5, <3>6
  <2>3. CASE is_amo
    <3>1. state = "AmoFinish"
      BY <2>3 DEF done_D, core_done
    <3>2. answer = IF is_sc THEN sc_fail ELSE m_data
      BY <2>3 DEF answer, core_data
    <3>3. IF is_sc /\ sc_fail THEN mem = before
          ELSE /\ m_data = before[core.line]
               /\ mem = IF is_lr THEN before ELSE [before EXCEPT ![core.line] = result]
      BY <2>1, <3>1 DEF UnitInv
    <3>4. is_lr => ~is_sc
      BY DEF is_lr, is_sc
    <3>5. CASE is_sc
      BY <2>3, <3>2, <3>3, <3>4, <3>5 DEF result
    <3>6. CASE ~is_sc
      BY <2>3, <3>2, <3>3, <3>6 DEF result
    <3> QED
      BY <3>5, <3>6
  <2> QED
    BY <2>2, <2>3
<1> QED
  BY <1>1, Invariant, PTL DEF EachOnce

\* A fetch is answered with a value its line had between the fetch and the
\* answer, however the writes of the data port come between
\* (mem_arbiter.v:213-228, 268-380).
THEOREM FetchesAreCurrent == Spec => FetchCurrent
<1>1. ASSUME IInv PROVE done_I => data_o("IMEM") \in current
  <2> SUFFICES ASSUME done_I PROVE data_o("IMEM") \in current
    OBVIOUS
  <2>1. TypeInv /\ Stages("IMEM") /\ core_ready["IMEM"]
    BY <1>1 DEF IInv, done_I
  <2>2. ~Wanted("IMEM").rw
    BY DEF Wanted
  <2>3. Right("IMEM", data_o("IMEM"))
    BY <2>1, <2>2, ReadyMeans, Wires
  <2> QED
    BY <2>3 DEF Right
<1> QED
  BY <1>1, Invariant, PTL DEF FetchCurrent

\* SC succeeds only where its core's last LR was, if no write came to the
\* address since, or if a plain access whose type is LR's came instead
\* (atomic_unit.v:183-217, decode.v:239).
THEOREM ScNeedsLink == Spec => ScNeedsLr
<1>1. ASSUME IInv, LinkInv
      PROVE  done_D /\ is_amo /\ is_sc /\ ~answer =>
               linked[core.id] \in {<<core.line, core.word>>, "stray"}
  <2> SUFFICES ASSUME done_D, is_amo, is_sc, ~answer
               PROVE  linked[core.id] \in {<<core.line, core.word>>, "stray"}
    OBVIOUS
  <2>1. reservation[core.id] = <<core.line, core.word>>
    BY DEF answer, core_data, sc_fail
  <2>2. core \in Request
    BY <1>1 DEF IInv, TypeInv, is_amo
  <2>3. core.id \in Cores /\ <<core.line, core.word>> \in Lines \X Words
    BY <2>2 DEF Request
  <2>4. reservation[core.id] # None
    BY <2>1, <2>3, NoneIs
  <2> QED
    BY <1>1, <2>1, <2>3, <2>4 DEF LinkInv
<1> QED
  BY <1>1, Invariant, PTL DEF ScNeedsLr
=============================================================================
