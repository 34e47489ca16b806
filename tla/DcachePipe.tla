----------------------------- MODULE DcachePipe -----------------------------
(***************************************************************************)
(* The pipeline of the data cache, bp_be_dcache.v, with its write buffer   *)
(* and the engine of bp_lce_cmd.v that shares its memories: one set of the *)
(* cache, cycle by cycle.                                                  *)
(*                                                                         *)
(* The tag and data memories and the stages TL and TV are clocked by the   *)
(* falling edge, everything else by the rising edge.  A cycle is therefore *)
(* two steps, Negedge and Posedge, and a grant, which is combinational, is *)
(* evaluated at both: with the access that leaves TV at the falling edge,  *)
(* with the one that has entered it at the rising edge.                    *)
(*                                                                         *)
(* The other caches and the coherence engine are the environment.          *)
(***************************************************************************)
EXTENDS Naturals, Sequences, FiniteSetsExt

CONSTANTS
  Way, Way0,     \* the ways; the one the encoder of no hit yields
  Block, Data, None,
  CoreOps,       \* what the core does, of "ld", "st", "lr", "sc", "uc_st"
  LockMax,       \* lock_max_limit_p
  TimeoutMax,    \* timeout_max_limit_p
  TimeoutWrap    \* where the timeout counter of the LCE wraps around

ASSUME DcacheAssumption ==
  /\ Way0 \in Way /\ None \notin Way \cup Block \cup Data \cup BOOLEAN
  /\ CoreOps \subseteq {"ld", "st", "lr", "sc", "uc_st"}
  /\ LockMax \in Nat \ {0} /\ TimeoutMax \in 1 .. TimeoutWrap - 1
  /\ TimeoutWrap \in Nat

VARIABLES
  phase,   \* the edge that comes next, "neg" or "pos"
  in,      \* dcache_pkt_i, None when v_i is low
  flush,   \* flush_i
  tl, tv,  \* the stages tag lookup and tag verify
  tag, line, dirty,  \* tag_mem, data_mem, the dirty bits of stat_mem
  wbuf,    \* the write buffer, oldest entry first
  resv,    \* the reservation; "broken" is history: another core stored there
  missR, missQ,      \* cache_miss_r, and its last value
  lock,    \* lock_cnt_r
  lce,     \* state_r of bp_lce_cmd
  cmd,     \* the head of lce_cmd_i
  dataRd, dataBuf,   \* the block being read, and data_buf_r when valid
  statRd, statBuf,   \* the dirty bit being read, and stat_buf_r when valid
  timeout, \* timeout_cnt_r
  req,     \* the request of this cache the coherence engine has not finished
  other,   \* what the other caches hold: I, S (copies) or O (one owns it)
  mem,     \* memory
  latest   \* history: the value stored last, by anyone

core == <<in, flush>>
pipe == <<tl, tv>>
mems == <<tag, line>>
regs == <<wbuf, resv, missR, missQ, lock, dirty>>
engine == <<lce, cmd, statRd, statBuf, timeout>>
reads == <<dataRd, dataBuf>>
outside == <<req, other, mem, latest>>
vars == <<phase, core, pipe, mems, regs, engine, reads, outside>>

WbufEls == 2
Owned == {"E", "M"}
Stores == {"st", "sc", "uc_st"}
Loads == {"ld", "lr"}

----------------------------------------------------------------------------
(* What an access in TV does.                                              *)

LoadIn == in # None /\ in.op \in Loads
Cached == tv.op # "uc_st"

(* LR has load_op set too: without any copy it is a load miss.             *)
LoadMiss == tv.v /\ tv.op \in Loads /\ tv.ldWay = None
StoreMiss == tv.v /\ tv.op \in {"st", "lr"} /\ tv.stWay = None
Miss == LoadMiss \/ StoreMiss

ScSuccess ==
  tv.v /\ tv.op = "sc" /\ tv.stWay # None /\ resv # None /\ resv.blk = tv.blk

WbufSuccess ==
  tv.v /\ ((tv.op = "st" /\ tv.stWay # None) \/ ScSuccess)
WbufIn == WbufSuccess /\ ~flush

(* cache_req_ready_i: the request port is free, no timeout.                *)
ReqReady == req = None /\ timeout # TimeoutMax
Ready == ReqReady /\ ~missR

Early == tv.v /\ (IF Cached THEN ~Miss ELSE ReqReady)
SendsMiss == Miss /\ ReqReady /\ ~flush

----------------------------------------------------------------------------
(* The packets of the engine and who gets the memories.                    *)

In(s, types) == lce = s /\ cmd # None /\ cmd.type \in types

TagPkt == In("ready", {"inv", "data", "st_wakeup", "st_wb", "st_tr", "st_tr_wb"})
DataWrite == In("ready", {"data"})
DataRead == In("ready", {"st_tr", "st_tr_wb"}) \/ lce = "wb_dirty_rd"
StatRead == In("ready", {"st_wb"}) \/ lce = "wb_stat_rd"
StatClear == In("ready", {"st_tr"}) \/ lce = "wb_dirty_rd"

TagYumi == TagPkt /\ lock = 0 /\ in = None

(* Mutated form of DataYumi: stores that wait are not looked at.           *)
DataYumiEager == (DataWrite \/ DataRead) /\ lock = 0 /\ ~LoadIn

DataYumi ==
  /\ DataWrite \/ DataRead
  /\ lock = 0 /\ ~LoadIn
  /\ wbuf = <<>> /\ ~WbufSuccess

StatYumi == (StatRead \/ StatClear) /\ lock = 0 /\ ~(tv.v /\ Cached)

(* Mutated form of WbufYumi: the buffer waits for a cycle of no access.    *)
WbufYumiIdle == wbuf # <<>> /\ in = None /\ ~DataYumi

WbufYumi == wbuf # <<>> /\ ~LoadIn /\ ~DataYumi

----------------------------------------------------------------------------
(* The falling edge: tag and data memories, TL and TV.                     *)

HitWay(b, states) ==
  LET hits == {w \in Way : tag[w].blk = b /\ tag[w].st \in states}
  IN  IF hits = {} THEN None ELSE CHOOSE w \in hits : TRUE

Lookup(a) ==
  LET ld == HitWay(a.blk, {"S"} \cup Owned) IN
  [op |-> a.op, blk |-> a.blk, val |-> a.val,
   ldWay |-> ld, stWay |-> HitWay(a.blk, Owned),
   rd |-> IF a.op \in Loads /\ ld # None THEN line[ld] ELSE None]

(* Mutated form of Bypassed: the oldest entry of the buffer wins.          *)
BypassedOldest(b, v) ==
  LET hits == {i \in DOMAIN wbuf : wbuf[i].blk = b} IN
  IF hits # {} THEN wbuf[Min(hits)].val
  ELSE IF WbufIn /\ tv.blk = b THEN tv.val
  ELSE v

(* The newest store to the word wins: the one in TV, which may be in the   *)
(* buffer too, then the buffer from its end.                               *)
Bypassed(b, v) ==
  LET hits == {i \in DOMAIN wbuf : wbuf[i].blk = b} IN
  IF WbufIn /\ tv.blk = b THEN tv.val
  ELSE IF hits # {} THEN wbuf[Max(hits)].val
  ELSE v

(* The decoded operation stays when the stage is empty: that of an SC      *)
(* keeps clearing the reservation.                                         *)
Empty(op) == [v |-> FALSE, op |-> IF op = "sc" THEN op ELSE "none",
              blk |-> None, val |-> None, ldWay |-> None, stWay |-> None,
              rd |-> None]
Verified ==
  [v |-> TRUE, op |-> tl.op, blk |-> tl.blk, val |-> tl.val,
   ldWay |-> tl.ldWay, stWay |-> tl.stWay,
   rd |-> IF tl.rd = None THEN None ELSE Bypassed(tl.blk, tl.rd)]

(* The tag of a frame that is invalid is never read.                       *)
NewTag ==
  CASE cmd.type = "data" -> [blk |-> cmd.blk, st |-> cmd.st]
    [] cmd.st = "I"      -> [blk |-> None, st |-> "I"]
    [] OTHER             -> [tag[cmd.way] EXCEPT !.st = cmd.st]

Negedge ==
  /\ phase = "neg" /\ phase' = "pos"
  /\ tl' = IF in # None /\ ~flush THEN Lookup(in) ELSE None
  /\ tv' = IF tl = None THEN Empty(tv.op)
           ELSE IF flush THEN Empty(tl.op) ELSE Verified
  /\ tag' = IF TagYumi THEN [tag EXCEPT ![cmd.way] = NewTag] ELSE tag
  /\ line' = IF WbufYumi
             THEN [line EXCEPT ![Head(wbuf).way] = Head(wbuf).val]
             ELSE IF DataYumi /\ DataWrite
                  THEN [line EXCEPT ![cmd.way] = cmd.val] ELSE line
  /\ dataRd' = IF DataYumi /\ DataRead THEN line[cmd.way] ELSE None
  /\ dataBuf' = IF dataRd # None THEN dataRd
                ELSE IF DataYumi /\ DataRead THEN None ELSE dataBuf
  /\ UNCHANGED <<core, regs, engine, outside>>

----------------------------------------------------------------------------
(* The rising edge: write buffer, stat memory, reservation, miss and lock. *)

WriteBuffer ==
  wbuf' = (IF WbufYumi THEN Tail(wbuf) ELSE wbuf)
          \o (IF WbufIn
              THEN <<[blk |-> tv.blk, way |-> tv.stWay, val |-> tv.val]>>
              ELSE <<>>)

(* The inputs of the stat memory are those of the access whenever one is   *)
(* in TV, also an uncached one, beside which the engine is granted.  An SC *)
(* that fails without a hit marks the first way.                           *)
StoreDirties ==
  [dirty EXCEPT ![IF tv.stWay = None THEN Way0 ELSE tv.stWay] = TRUE]
StatMem ==
  dirty' = IF StatYumi
           THEN IF ~StatClear THEN dirty
                ELSE IF tv.v THEN StoreDirties
                ELSE [dirty EXCEPT ![cmd.way] = FALSE]
           ELSE IF tv.v /\ Cached /\ ~flush /\ ~Miss /\ tv.op \in Stores
                THEN StoreDirties ELSE dirty

(* A command that makes a block invalid names its tag, except inv.         *)
TakesReserved ==
  /\ resv # None /\ TagYumi
  /\ cmd.type \notin {"data", "inv"} /\ cmd.st = "I" /\ cmd.blk = resv.blk

Reservation ==
  resv' = IF tv.op = "lr" /\ Early THEN [blk |-> tv.blk, broken |-> FALSE]
          ELSE IF tv.op = "sc" \/ TakesReserved THEN None ELSE resv

Completes == lce = "coh_ack"

MissTracker ==
  /\ missR' = (~Completes /\ (missR \/ SendsMiss))
  /\ missQ' = missR

(* An LR that hits is acknowledged early, so it never starts the lock.     *)
Lock ==
  lock' = IF Early \/ lock = LockMax THEN 0
          ELSE IF lock > 0 \/ (missQ /\ ~missR) THEN lock + 1 ELSE lock

----------------------------------------------------------------------------
(* The engine.  It stays in a state until all ports it needs are granted   *)
(* in the same cycle; a port granted alone takes effect all the same.      *)

Goto(s) == lce' = s /\ UNCHANGED <<cmd, other, mem>>
Done == lce' = "ready" /\ cmd' = None
Waits == UNCHANGED <<lce, cmd, other, mem>>

ReadyStep ==
  CASE cmd = None -> Waits
    [] In("ready", {"inv"}) ->
         IF TagYumi THEN Done /\ UNCHANGED <<other, mem>> ELSE Waits
    [] In("ready", {"data"}) -> IF TagYumi /\ DataYumi THEN Goto("coh_ack") ELSE Waits
    [] In("ready", {"st_wakeup"}) -> IF TagYumi THEN Goto("coh_ack") ELSE Waits
    [] In("ready", {"st_wb"}) -> IF TagYumi /\ StatYumi THEN Goto("wb") ELSE Waits
    [] OTHER -> IF TagYumi /\ DataYumi THEN Goto("tr") ELSE Waits

(* The block goes to the cache that asked for it, to own or to share.      *)
TrStep ==
  IF dataBuf = None THEN Waits
  ELSE /\ other' = [other EXCEPT ![cmd.blk] = IF cmd.type = "st_tr" THEN "O" ELSE "S"]
       /\ IF cmd.type = "st_tr" THEN Done ELSE lce' = "wb_stat_rd" /\ UNCHANGED cmd
       /\ UNCHANGED mem

WbStep ==
  CASE statBuf = None -> Waits
    [] statBuf = TRUE -> Goto("wb_dirty_rd")
    [] statBuf = FALSE -> Done /\ UNCHANGED <<other, mem>>

DirtySendStep ==
  IF dataBuf = None THEN Waits
  ELSE Done /\ mem' = [mem EXCEPT ![cmd.blk] = dataBuf] /\ UNCHANGED other

EngineFsm ==
  CASE lce = "ready" -> ReadyStep
    [] lce = "coh_ack" -> Done /\ UNCHANGED <<other, mem>>
    [] lce = "tr" -> TrStep
    [] lce = "wb_stat_rd" -> IF StatYumi THEN Goto("wb") ELSE Waits
    [] lce = "wb" -> WbStep
    [] lce = "wb_dirty_rd" ->
         IF DataYumi /\ StatYumi THEN Goto("wb_dirty_send") ELSE Waits
    [] lce = "wb_dirty_send" -> DirtySendStep

(* A buffer keeps its content after the command; nothing looks at it       *)
(* before the next read makes it invalid, so it is forgotten here.         *)
StatBuffer ==
  /\ statRd' = IF StatYumi /\ StatRead THEN dirty[cmd.way] ELSE None
  /\ statBuf' = IF statRd # None THEN statRd
                ELSE IF lce = "ready" \/ (StatYumi /\ StatRead) THEN None
                ELSE statBuf
DataBuffer ==
  UNCHANGED dataRd
    /\ dataBuf' = IF lce \in {"tr", "wb_dirty_send"} THEN None ELSE dataBuf

(* The counter wraps around: the access is held off for one cycle of       *)
(* TimeoutWrap.                                                            *)
TimeoutCounter ==
  timeout' = IF \/ TagPkt /\ ~TagYumi
                \/ (DataWrite \/ DataRead) /\ ~DataYumi
                \/ (StatRead \/ StatClear) /\ ~StatYumi
             THEN (timeout + 1) % TimeoutWrap ELSE 0

----------------------------------------------------------------------------
(* The core: what it issues next, and what it takes back.                  *)

(* An access that is not done early is rolled back with those behind it;   *)
(* for other reasons the core may flush at any time.                       *)
Flushes == flush' \in BOOLEAN /\ (tv.v /\ ~Early => flush')

Packet(op, b, d) == [op |-> op, blk |-> b, val |-> d]
Accesses ==
  {Packet(op, b, None) : op \in CoreOps \cap Loads, b \in Block}
    \cup {Packet(op, b, d) : op \in CoreOps \cap {"st", "sc"}, b \in Block,
                            d \in Data}
    \cup {Packet(op, None, None) : op \in CoreOps \cap {"uc_st"}}

Issues == in' \in {None} \cup (IF Ready /\ ~flush THEN Accesses ELSE {})

(* The way comes with the metadata, a cycle later, from the tags of the    *)
(* access behind: it may be any.                                           *)
Requests ==
  IF SendsMiss
  THEN \E w \in Way :
         req' = [op |-> IF LoadMiss THEN "rd" ELSE "wr", blk |-> tv.blk, way |-> w]
  ELSE UNCHANGED req

Posedge ==
  /\ phase = "pos" /\ phase' = "neg"
  /\ Flushes /\ Issues /\ Requests
  /\ WriteBuffer /\ StatMem /\ Reservation /\ MissTracker /\ Lock
  /\ EngineFsm /\ StatBuffer /\ DataBuffer /\ TimeoutCounter
  /\ latest' = IF WbufIn THEN [latest EXCEPT ![tv.blk] = tv.val] ELSE latest
  /\ UNCHANGED <<pipe, mems>>

----------------------------------------------------------------------------
(* The environment: a coherence engine that serves one command at a time,  *)
(* and the other caches, of which it knows what each of them holds.        *)

Free == phase = "neg" /\ cmd = None
Send(type, b, w, st, v) ==
  cmd' = [type |-> type, blk |-> b, way |-> w, st |-> st, val |-> v]

Mine(b, states) == HitWay(b, states) # None
Outside(b, st) == other' = [other EXCEPT ![b] = st]
Local == <<phase, core, pipe, mems, regs, lce, statRd, statBuf, timeout, reads>>

(* A request: the upgrade of a copy, the eviction of the victim, the fill. *)
ServeMiss ==
  /\ Free /\ req # None /\ other[req.blk] # "O"
  /\ IF req.op = "wr" /\ Mine(req.blk, {"S"})
     THEN /\ Send("st_wakeup", req.blk, HitWay(req.blk, {"S"}), "M", None)
          /\ Outside(req.blk, "I") /\ req' = None
     ELSE IF tag[req.way].st \in Owned
     THEN /\ Send("st_wb", tag[req.way].blk, req.way, "I", None)
          /\ UNCHANGED <<other, req>>
     ELSE /\ Send("data", req.blk, req.way,
                  IF req.op = "wr" THEN "M"
                  ELSE IF other[req.blk] = "S" THEN "S" ELSE "E", mem[req.blk])
          /\ Outside(req.blk, IF req.op = "wr" THEN "I" ELSE other[req.blk])
          /\ req' = None
  /\ UNCHANGED <<Local, mem, latest>>

OtherReads(b) ==
  /\ Free
  /\ IF Mine(b, Owned)
     THEN Send("st_tr_wb", b, HitWay(b, Owned), "S", None) /\ UNCHANGED other
     ELSE other[b] = "I" /\ Outside(b, "S") /\ UNCHANGED cmd
  /\ UNCHANGED <<Local, req, mem, latest>>

OtherWrites(b) ==
  /\ Free /\ other[b] # "O"
  /\ CASE Mine(b, Owned) ->
            Send("st_tr", b, HitWay(b, Owned), "I", None) /\ UNCHANGED other
       [] Mine(b, {"S"}) ->
            Send("inv", b, HitWay(b, {"S"}), "I", None) /\ UNCHANGED other
       [] OTHER -> Outside(b, "O") /\ UNCHANGED cmd
  /\ UNCHANGED <<Local, req, mem, latest>>

OtherStores(b) ==
  /\ phase = "neg" /\ other[b] = "O"
  /\ \E d \in Data : latest' = [latest EXCEPT ![b] = d]
  /\ resv' = IF resv # None /\ resv.blk = b THEN [resv EXCEPT !.broken = TRUE]
             ELSE resv
  /\ UNCHANGED <<phase, core, pipe, mems, wbuf, missR, missQ, lock, dirty,
                 engine, reads, req, other, mem>>

(* An owner writes back, and keeps a copy or not; a copy is dropped.       *)
OtherGivesUp(b) ==
  /\ phase = "neg"
  /\ \/ /\ other[b] = "O" /\ mem' = [mem EXCEPT ![b] = latest[b]]
        /\ \E st \in {"S", "I"} : Outside(b, st)
     \/ other[b] = "S" /\ Outside(b, "I") /\ UNCHANGED mem
  /\ UNCHANGED <<Local, cmd, req, latest>>

Environment ==
  \/ ServeMiss
  \/ \E b \in Block : \/ OtherReads(b) \/ OtherWrites(b) \/ OtherStores(b)
                      \/ OtherGivesUp(b)

----------------------------------------------------------------------------
(* After the reset and the loop that clears the tags.                      *)

Init ==
  /\ phase = "neg" /\ in = None /\ flush = FALSE
  /\ tl = None /\ tv = Empty("none")
  /\ tag = [w \in Way |-> [blk |-> None, st |-> "I"]]
  /\ \E d \in Data : line = [w \in Way |-> d]
  /\ dirty = [w \in Way |-> FALSE]
  /\ wbuf = <<>> /\ resv = None /\ missR = FALSE /\ missQ = FALSE /\ lock = 0
  /\ lce = "ready" /\ cmd = None /\ timeout = 0
  /\ dataRd = None /\ dataBuf = None /\ statRd = None /\ statBuf = None
  /\ req = None /\ other = [b \in Block |-> "I"]
  /\ latest \in [Block -> Data] /\ mem = latest

Next == Negedge \/ Posedge \/ Environment
Spec == Init /\ [][Next]_vars

----------------------------------------------------------------------------
(* A load that completes yields the value stored last to its block, by     *)
(* this core or by another, wherever it is: in the data memory, waiting in *)
(* the write buffer, or in the stage ahead.                                *)
LoadsCurrent ==
  phase = "pos" /\ Early /\ tv.op \in Loads => tv.rd = latest[tv.blk]

(* What the cache gives away is the value stored last: the block it sends  *)
(* to another cache or to memory has been read after every store to it,    *)
(* and a block it calls clean is in memory as it is.                       *)
OthersCurrent ==
  phase = "pos" =>
    /\ lce \in {"tr", "wb_dirty_send"} /\ dataBuf # None =>
         dataBuf = latest[cmd.blk]
    /\ lce = "wb" /\ statBuf = FALSE => mem[cmd.blk] = latest[cmd.blk]

(* The write buffer has two entries and nothing holds a store back when it *)
(* is full: loads alone keep it from draining, and a load that comes in is *)
(* a store that does not ("Write buffer overflow", bp_be_dcache_wbuf.v:122).*)
WbufBounded == Len(wbuf) <= WbufEls

(* "An invalidate received from the LCE.  This command covers all cases of *)
(* losing exclusive access to the block in this hart, including eviction   *)
(* and a cache miss" (bp_be_dcache.v:64-66): a store-conditional succeeds  *)
(* only if no other core has stored to the block since it was reserved.    *)
ScAtomic == phase = "pos" /\ ScSuccess /\ ~flush => ~resv.broken
=============================================================================
