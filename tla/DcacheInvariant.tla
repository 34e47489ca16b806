-------------------------- MODULE DcacheInvariant ---------------------------
(***************************************************************************)
(* What makes a load of the data cache yield the value stored last: an     *)
(* inductive invariant of DcachePipe, which DcacheCoherence proves.  It    *)
(* says of every block where its newest value is, in the data memory, the  *)
(* write buffer, the stages, or under way to another cache or to memory,   *)
(* and why no step of the core, the engine or the other caches can pass    *)
(* it.                                                                     *)
(***************************************************************************)
EXTENDS DcachePipe

----------------------------------------------------------------------------
(* The write buffer.                                                       *)

(* What enters the write buffer: a store or a store-conditional.           *)
Buffered == {"st", "sc"}

Entry == [blk : Block \cup {None}, way : Way \cup {None}, val : Data \cup {None}]
Typed(a) == a.blk \in Block \cup {None} /\ a.val \in Data \cup {None}

(* An entry is typed if the access it comes from is, from the core on.     *)
EntriesOK ==
  /\ wbuf \in Seq(Entry)
  /\ in # None => Typed(in)
  /\ tl # None => Typed(tl) /\ tl.stWay \in Way \cup {None}
  /\ Typed(tv) /\ tv.stWay \in Way \cup {None}

(* A store leaves room for itself on its way: when it came in, no load did,*)
(* so the buffer lost an entry if it had one.                              *)
TlFromIn == phase = "pos" /\ tl # None => in # None /\ tl.op = in.op
RoomInTl == phase = "neg" /\ tl # None /\ tl.op \in Buffered => Len(wbuf) <= 1
RoomInTv == phase = "pos" /\ tv.v /\ tv.op \in Buffered => Len(wbuf) <= 1

WbufInv == EntriesOK /\ TlFromIn /\ RoomInTl /\ RoomInTv /\ WbufBounded

----------------------------------------------------------------------------
(* The types of the state.                                                 *)

States == {"I", "S"} \cup Owned
Fills == {"data", "st_wakeup"}
Drains == {"st_wb", "st_tr", "st_tr_wb"}

Frame == [blk : Block \cup {None}, st : States]
Queued == [blk : Block, way : Way, val : Data]
Command == [type : {"inv"} \cup Fills \cup Drains, blk : Block, way : Way,
            st : States, val : Data \cup {None}]
Request == [op : {"rd", "wr"}, blk : Block, way : Way]

Access(a) ==
  /\ a.op \in {"uc_st"} \cup Loads \cup Buffered
  /\ a.op # "uc_st" => a.blk \in Block
  /\ a.op \in Buffered => a.val \in Data

(* Which state a command leaves.                                           *)
Leaves(c) ==
  /\ c.type = "data" => c.st # "I" /\ c.val \in Data
  /\ c.type = "st_wakeup" => c.st = "M"
  /\ c.type = "st_tr_wb" => c.st = "S"
  /\ c.type \in {"inv", "st_wb", "st_tr"} => c.st = "I"

Types ==
  /\ tag \in [Way -> Frame] /\ \A w \in Way : tag[w].st # "I" => tag[w].blk \in Block
  /\ line \in [Way -> Data] /\ dirty \in [Way -> BOOLEAN]
  /\ mem \in [Block -> Data] /\ latest \in [Block -> Data]
  /\ other \in [Block -> {"I", "S", "O"}]
  /\ wbuf \in Seq(Queued) /\ Len(wbuf) <= 2
  /\ cmd # None => cmd \in Command /\ Leaves(cmd)
  /\ req # None => req \in Request
  /\ in # None => Access(in)
  /\ tl # None => /\ Access(tl) /\ tl.rd \in Data \cup {None}
  /\ tv.v \in BOOLEAN /\ (tv.v => Access(tv))
  /\ statRd \in BOOLEAN \cup {None} /\ statBuf \in BOOLEAN \cup {None}

----------------------------------------------------------------------------
(* The words the invariant is made of.                                     *)

Copy(w, b) == tag[w].blk = b /\ tag[w].st # "I"
Owns(w, b) == tag[w].blk = b /\ tag[w].st \in Owned

Filling == cmd # None /\ cmd.type \in Fills
Drain == cmd # None /\ cmd.type \in Drains
Draining(b) == Drain /\ cmd.blk = b
Fetching == cmd # None /\ cmd.type = "data"

(* The frame w has the data of block b, with what waits in the buffer: it  *)
(* is a copy, and not one that is being replaced, or its data are still to *)
(* be read.  It may differ from memory: owned now, or until the command.   *)
Holds(w, b) ==
  \/ Copy(w, b) /\ ~(Fetching /\ cmd.way = w)
  \/ Draining(b) /\ cmd.way = w
Owes(w, b) == Owns(w, b) \/ (Draining(b) /\ cmd.way = w)

(* The block in the data memory with the stores that wait.                 *)
Newest(b, v) ==
  IF Len(wbuf) = 2 /\ wbuf[2].blk = b THEN wbuf[2].val
  ELSE IF Len(wbuf) >= 1 /\ wbuf[1].blk = b THEN wbuf[1].val
  ELSE v

Waiting(b) == \E i \in 1 .. Len(wbuf) : wbuf[i].blk = b

(* The dirty bit of a block that leaves is cleared before it has left.     *)
Leaving(b) ==
  cmd # None /\ cmd.blk = b
    /\ (cmd.type = "st_tr" \/ lce \in {"wb_dirty_rd", "wb_dirty_send"})

----------------------------------------------------------------------------
(* The pipeline.                                                           *)

(* A miss that is outstanding leaves no access in the pipeline.            *)
Busy == req # None \/ Filling
Stalled ==
  Busy =>
    /\ missR
    /\ phase = "neg" => /\ in = None \/ flush
                        /\ flush \/ (tl = None /\ ~tv.v)
    /\ phase = "pos" => tl = None /\ ~tv.v

Flushed == phase = "pos" /\ flush => tl = None /\ ~tv.v
ScSpent == phase = "neg" /\ tv.op = "sc" => resv = None
StoreQueued ==
  phase = "neg" /\ WbufSuccess =>
    /\ wbuf # <<>>
    /\ wbuf[Len(wbuf)] = [blk |-> tv.blk, way |-> tv.stWay, val |-> tv.val]

(* What a stage found is what the tags say, in TV but for the command that *)
(* has just been applied.                                                  *)
TlFound ==
  tl # None => /\ tl.ldWay = HitWay(tl.blk, {"S"} \cup Owned)
               /\ tl.stWay = HitWay(tl.blk, Owned)
TvFound ==
  phase = "pos" /\ tv.v =>
    \A w \in Way : /\ Copy(w, tv.blk) => tv.ldWay # None
                   /\ Owns(w, tv.blk) => tv.stWay # None
Pipeline ==
  phase \in {"neg", "pos"} /\ Stalled /\ Flushed /\ ScSpent /\ StoreQueued
    /\ TlFound /\ TvFound

----------------------------------------------------------------------------
(* The engine.                                                             *)

Stages ==
  /\ cmd = None => lce = "ready"
  /\ lce \in {"ready", "coh_ack", "tr", "wb_stat_rd", "wb", "wb_dirty_rd",
              "wb_dirty_send"}
  /\ lce = "coh_ack" => Filling
  /\ lce = "tr" => Drain /\ cmd.type \in {"st_tr", "st_tr_wb"}
  /\ lce = "wb_stat_rd" => Drain /\ cmd.type = "st_tr_wb"
  /\ lce \in {"wb", "wb_dirty_rd", "wb_dirty_send"} =>
       Drain /\ cmd.type \in {"st_wb", "st_tr_wb"}
  /\ Filling => req = None

(* A stat that was read is the stat until the command goes on.             *)
Stats ==
  /\ statRd # None => lce = "wb" \/
       (lce = "ready" /\ cmd # None /\ cmd.type = "st_wb" /\ statRd = dirty[cmd.way])
  /\ lce \in {"tr", "wb_stat_rd"} => statBuf = None

(* The tag is changed when the command has been granted it.                *)
Tagged ==
  cmd # None /\ (lce # "ready" \/ (phase = "pos" /\ TagYumi)) =>
    /\ tag[cmd.way].st = cmd.st
    /\ Fetching => tag[cmd.way].blk = cmd.blk

Engine == Stages /\ Stats /\ Tagged

----------------------------------------------------------------------------
(* Who has a block.                                                        *)

OneCopy == \A v, w \in Way : \A b \in Block : Copy(v, b) /\ Copy(w, b) => v = w

(* A fill replaces no data that are owed, and a block that is nowhere.     *)
FillsFree ==
  Fetching =>
    /\ \A w \in Way : Copy(w, cmd.blk) => w = cmd.way
    /\ tag[cmd.way].st \in Owned => tag[cmd.way] = [blk |-> cmd.blk, st |-> cmd.st]
WakesCopy == cmd # None /\ cmd.type = "st_wakeup" => Copy(cmd.way, cmd.blk)
DrainsCopy ==
  Drain =>
    /\ \A w \in Way : Copy(w, cmd.blk) => w = cmd.way
    /\ tag[cmd.way].st # "I" \/ cmd.type = "st_tr_wb" => Copy(cmd.way, cmd.blk)
InvsCopy == cmd # None /\ cmd.type = "inv" => tag[cmd.way].st \notin Owned

NotOutside ==
  \A b \in Block :
    (\E w \in Way : Copy(w, b)) \/ (cmd # None /\ cmd.type # "inv" /\ cmd.blk = b)
      => other[b] # "O"
Missing ==
  req # None => \A w \in Way : /\ ~Owns(w, req.blk)
                               /\ req.op = "rd" => ~Copy(w, req.blk)
Copies ==
  OneCopy /\ FillsFree /\ WakesCopy /\ DrainsCopy /\ InvsCopy /\ NotOutside
    /\ Missing

----------------------------------------------------------------------------
(* The stores that wait: each belongs to a block that is owed, whose dirty *)
(* bit is set, and a command reads the block when none is left.            *)

QueuedOwed ==
  \A i \in 1 .. Len(wbuf) :
    /\ Owes(wbuf[i].way, wbuf[i].blk)
    /\ dirty[wbuf[i].way] \/ Leaving(wbuf[i].blk)
StoreOwed == phase = "pos" /\ WbufSuccess => Owes(tv.stWay, tv.blk)
NoneQueued ==
  cmd # None /\ Waiting(cmd.blk) =>
    /\ ~Fetching
    /\ lce \notin {"tr", "wb_stat_rd", "wb_dirty_send"}
    /\ lce = "wb" => statRd # FALSE /\ statBuf # FALSE /\ cmd.type = "st_wb"
NoneComes ==
  phase = "pos" /\ WbufSuccess /\ lce # "ready" => tv.blk # cmd.blk

Queue == QueuedOwed /\ StoreOwed /\ NoneQueued /\ NoneComes

----------------------------------------------------------------------------
(* Where the value stored last is.                                         *)

HeldCurrent ==
  \A w \in Way, b \in Block : Holds(w, b) => Newest(b, line[w]) = latest[b]
FillCurrent ==
  Fetching => /\ cmd.val = latest[cmd.blk]
              /\ lce = "coh_ack" \/ (phase = "pos" /\ DataYumi) =>
                   line[cmd.way] = cmd.val
MemCurrent ==
  \A b \in Block :
    other[b] # "O" /\ ~Leaving(b) /\ (\A w \in Way : Owes(w, b) => ~dirty[w])
      => mem[b] = latest[b]
CleanCurrent ==
  lce = "wb" /\ (statRd = FALSE \/ statBuf = FALSE) =>
    mem[cmd.blk] = latest[cmd.blk]
ReadCurrent ==
  /\ phase = "pos" /\ DataYumi /\ DataRead => dataRd = line[cmd.way]
  /\ lce \in {"tr", "wb_dirty_send"} =>
       IF phase = "neg" THEN dataRd = latest[cmd.blk] ELSE dataBuf = latest[cmd.blk]
Drained == phase = "pos" /\ WbufYumi => line[wbuf[1].way] = wbuf[1].val
LoadRead ==
  tl # None => tl.rd = IF tl.op \in Loads /\ tl.ldWay # None THEN line[tl.ldWay]
                       ELSE None
LoadCurrent ==
  phase = "pos" /\ tv.v /\ tv.op \in Loads /\ tv.ldWay # None =>
    tv.rd = latest[tv.blk]

Values ==
  HeldCurrent /\ FillCurrent /\ MemCurrent /\ CleanCurrent /\ ReadCurrent
    /\ Drained /\ LoadRead /\ LoadCurrent

CohInv == WbufInv /\ Types /\ Pipeline /\ Engine /\ Copies /\ Queue /\ Values
=============================================================================
