------------------------- MODULE DcacheCoherence --------------------------
(***************************************************************************)
(* A load of the data cache yields the value stored last, and so does what *)
(* the cache gives away, whatever the core issues, however many ways, blocks*)
(* and values there are, and whatever the engine and the other caches do.  *)
(* The invariant is DcacheInvariant's.  Its falling edge comes first, in   *)
(* which the memories are written and read and the stages move, with the   *)
(* lemmas on lookups, on the bypass and on what a frame holds.             *)
(***************************************************************************)
EXTENDS DcacheInvariant, TLAPS

----------------------------------------------------------------------------
(* The write buffer never overflows, whatever the core issues, however     *)
(* many ways, blocks and values there are, and whatever the engine and the *)
(* other caches do.                                                        *)

(* A lookup yields a way or none.                                          *)
LEMMA HitWayType ==
  ASSUME NEW b, NEW states
  PROVE  HitWay(b, states) \in Way \cup {None}
  BY DEF HitWay

(* The engine is granted the data memory only with an empty buffer, so a   *)
(* load that comes in is all that keeps an entry in it.                    *)
LEMMA DrainsUnlessLoad ==
  ASSUME wbuf # <<>>, ~LoadIn
  PROVE  WbufYumi
  BY DEF WbufYumi, DataYumi

(* What enters the buffer is in TV and a store.                            *)
LEMMA EntersFromTv ==
  ASSUME WbufIn
  PROVE  tv.v /\ tv.op \in Buffered
  BY DEF WbufIn, WbufSuccess, ScSuccess, Buffered

(* Initially everything is empty.                                          *)
LEMMA WbufInit == Init => WbufInv
  BY DEF Init, WbufInv, EntriesOK, TlFromIn, RoomInTl, RoomInTv, WbufBounded,
         WbufEls, Empty, Typed

(* The falling edge moves a store from the core to TL and from TL to TV,   *)
(* and leaves the buffer alone.                                            *)
LEMMA NegedgeStep ==
  ASSUME WbufInv, Negedge
  PROVE  WbufInv'
<1>1. UNCHANGED <<in, wbuf>> /\ phase = "neg" /\ phase' = "pos"
  BY DEF Negedge, core, regs
<1>2. tl' # None =>
        /\ in # None /\ tl'.op = in.op
        /\ tl'.blk = in.blk /\ tl'.val = in.val /\ tl'.stWay \in Way \cup {None}
  <2>1. tl' # None => in # None /\ tl' = Lookup(in)
    BY DEF Negedge
  <2>2. HitWay(in.blk, Owned) \in Way \cup {None}
    BY HitWayType
  <2>3. QED
    BY <2>1, <2>2 DEF Lookup
<1>3. Typed(tv') /\ tv'.stWay \in Way \cup {None}
  BY DEF Negedge, WbufInv, EntriesOK, Empty, Verified, Typed
<1>4. tv'.v => tl # None /\ tv'.op = tl.op
  BY DEF Negedge, Empty, Verified
<1>5. QED
  BY <1>1, <1>2, <1>3, <1>4
  DEF WbufInv, EntriesOK, Typed, TlFromIn, RoomInTl, RoomInTv, WbufBounded

(* The rising edge: the buffer loses its head and gains what is in TV.     *)
LEMMA PosedgeStep ==
  ASSUME WbufInv, Posedge
  PROVE  WbufInv'
<1> DEFINE kept == IF WbufYumi THEN Tail(wbuf) ELSE wbuf
           new == [blk |-> tv.blk, way |-> tv.stWay, val |-> tv.val]
<1>1. UNCHANGED <<tl, tv>> /\ phase = "pos" /\ phase' = "neg"
  BY DEF Posedge, pipe
<1>2. wbuf \in Seq(Entry) /\ new \in Entry
  BY DEF WbufInv, EntriesOK, Entry, Typed
<1>3. wbuf' = kept \o (IF WbufIn THEN <<new>> ELSE <<>>)
  BY DEF Posedge, WriteBuffer
<1>4. kept \in Seq(Entry) /\ Len(kept) = IF WbufYumi THEN Len(wbuf) - 1 ELSE Len(wbuf)
  BY <1>2 DEF WbufYumi
<1>5. wbuf' \in Seq(Entry) /\ Len(wbuf') = Len(kept) + IF WbufIn THEN 1 ELSE 0
  BY <1>2, <1>3, <1>4
<1>6. in' # None => Typed(in')
  BY DEF Posedge, Issues, Accesses, Packet, Typed
<1>7. WbufIn => Len(wbuf) <= 1
  BY <1>1, EntersFromTv DEF WbufInv, RoomInTv
<1>8. Len(wbuf) \in Nat /\ Len(wbuf) <= 2
  BY <1>2 DEF WbufInv, WbufBounded, WbufEls
<1> HIDE DEF kept, new
<1>9. Len(wbuf') <= 2
  <2>1. CASE WbufIn
    BY <2>1, <1>4, <1>5, <1>7, <1>8
  <2>2. CASE ~WbufIn
    BY <2>2, <1>4, <1>5, <1>8
  <2>3. QED
    BY <2>1, <2>2
<1>10. ASSUME tl # None, tl.op \in Buffered
       PROVE  Len(wbuf') <= 1
  <2>1. ~LoadIn
    BY <1>1, <1>10 DEF WbufInv, TlFromIn, LoadIn, Loads, Buffered
  <2>2. CASE wbuf = <<>>
    BY <2>2, <1>4, <1>5, <1>8
  <2>3. CASE wbuf # <<>>
    BY <2>1, <2>3, DrainsUnlessLoad, <1>4, <1>5, <1>7, <1>8
  <2>4. QED
    BY <2>2, <2>3
<1>11. QED
  BY <1>1, <1>5, <1>6, <1>9, <1>10
  DEF WbufInv, EntriesOK, Typed, TlFromIn, RoomInTl, RoomInTv, WbufBounded,
    WbufEls

(* The environment touches neither the core, nor the pipeline, nor the     *)
(* buffer.                                                                 *)
LEMMA EnvironmentStep ==
  ASSUME WbufInv, Environment \/ UNCHANGED vars
  PROVE  WbufInv'
<1>1. UNCHANGED <<phase, in, tl, tv, wbuf>>
  BY DEF Environment, ServeMiss, OtherReads, OtherWrites, OtherStores,
         OtherGivesUp, Local, core, pipe, regs, vars
<1>2. QED
  BY <1>1 DEF WbufInv, EntriesOK, Typed, TlFromIn, RoomInTl, RoomInTv, WbufBounded

(* "Write buffer overflow" is never reported: although no store waits for  *)
(* room, there are never more than two entries.                            *)
THEOREM NoOverflow == Spec => []WbufBounded
<1>1. WbufInv /\ [Next]_vars => WbufInv'
  BY NegedgeStep, PosedgeStep, EnvironmentStep DEF Next
<1>2. WbufInv => WbufBounded
  BY DEF WbufInv
<1>3. QED
  BY WbufInit, <1>1, <1>2, PTL DEF Spec

----------------------------------------------------------------------------
(* A lookup finds a way that has the block, or no way has it.              *)
LEMMA HitFound ==
  ASSUME NEW b, NEW states
  PROVE  /\ HitWay(b, states) # None =>
              /\ HitWay(b, states) \in Way
              /\ tag[HitWay(b, states)].blk = b /\ tag[HitWay(b, states)].st \in states
         /\ HitWay(b, states) = None =>
              \A w \in Way : ~(tag[w].blk = b /\ tag[w].st \in states)
<1> DEFINE hits == {w \in Way : tag[w].blk = b /\ tag[w].st \in states}
<1>1. HitWay(b, states) = IF hits = {} THEN None ELSE CHOOSE w \in hits : TRUE
  BY DEF HitWay
<1>2. hits # {} => (CHOOSE w \in hits : TRUE) \in hits
  OBVIOUS
<1>3. None \notin Way
  BY DcacheAssumption
<1>4. QED
  BY <1>1, <1>2, <1>3

(* What forwards to a load is the newest store that waits: that of TV is   *)
(* the last entry of the buffer by then.                                   *)
LEMMA BypassedIsNewest ==
  ASSUME Types, StoreQueued, phase = "neg", ~flush, NEW b, NEW v
  PROVE  Bypassed(b, v) = Newest(b, v)
<1> DEFINE hits == {i \in DOMAIN wbuf : wbuf[i].blk = b}
<1>1. /\ wbuf \in Seq(Queued) /\ Len(wbuf) \in Nat /\ Len(wbuf) <= 2
      /\ DOMAIN wbuf = 1 .. Len(wbuf)
  <2>1. wbuf \in Seq(Queued) /\ Len(wbuf) <= 2
    BY DEF Types
  <2>2. QED
    BY <2>1
<1>2. Bypassed(b, v) = IF WbufSuccess /\ tv.blk = b THEN tv.val
                       ELSE IF hits # {} THEN wbuf[Max(hits)].val ELSE v
  BY DEF Bypassed, WbufIn
<1>3. CASE Len(wbuf) >= 1 /\ wbuf[Len(wbuf)].blk = b
  <2>1. Len(wbuf) \in hits /\ \A i \in hits : Len(wbuf) >= i
    BY <1>1, <1>3
  <2>2. Max(hits) = Len(wbuf)
    <3>1. Max(hits) = CHOOSE x \in hits : \A y \in hits : x >= y
      BY DEF Max
    <3>2. \A x \in hits : (\A y \in hits : x >= y) => x = Len(wbuf)
      BY <1>1, <2>1
    <3> HIDE DEF hits
    <3>3. QED
      BY <3>1, <3>2, <2>1
  <2>3. Newest(b, v) = wbuf[Len(wbuf)].val
    BY <1>1, <1>3 DEF Newest
  <2>4. WbufSuccess /\ tv.blk = b => tv.val = wbuf[Len(wbuf)].val
    BY DEF StoreQueued
  <2> HIDE DEF hits
  <2>5. QED
    BY <1>2, <2>1, <2>2, <2>3, <2>4
<1>4. CASE ~(Len(wbuf) >= 1 /\ wbuf[Len(wbuf)].blk = b)
  <2>1. ~(WbufSuccess /\ tv.blk = b)
    BY <1>1, <1>4 DEF StoreQueued
  <2>2. CASE Len(wbuf) = 2 /\ wbuf[1].blk = b
    <3>1. hits = {1}
      BY <1>1, <1>4, <2>2
    <3>2. Max({1}) = 1
      BY DEF Max
    <3>3. Newest(b, v) = wbuf[1].val
      BY <2>2, <1>4 DEF Newest
    <3>4. QED
      BY <1>2, <2>1, <3>1, <3>2, <3>3
  <2>3. CASE ~(Len(wbuf) = 2 /\ wbuf[1].blk = b)
    <3>1. hits = {}
      BY <1>1, <1>4, <2>3
    <3>2. Newest(b, v) = v
      BY <1>1, <1>4, <2>3 DEF Newest
    <3>3. QED
      BY <1>2, <2>1, <3>1, <3>2
  <2>4. QED
    BY <2>2, <2>3
<1>5. QED
  BY <1>3, <1>4

----------------------------------------------------------------------------
(* The falling edge.                                                       *)

(* What it moves.  The grants of tags and of the buffer are the same after *)
(* it; one of data that is seen after it was there before it.              *)
LEMMA NegMoves ==
  ASSUME CohInv, Negedge
  PROVE  /\ phase = "neg" /\ phase' = "pos"
         /\ in' = in /\ flush' = flush
         /\ wbuf' = wbuf /\ resv' = resv /\ missR' = missR /\ missQ' = missQ
         /\ lock' = lock /\ dirty' = dirty
         /\ lce' = lce /\ cmd' = cmd /\ statRd' = statRd /\ statBuf' = statBuf
         /\ timeout' = timeout
         /\ req' = req /\ other' = other /\ mem' = mem /\ latest' = latest
  BY DEF Negedge, core, regs, engine, outside

(* The grants: those of the tags and of the buffer are the same after the  *)
(* edge, and one of the data memory that is seen after it was there before.*)
LEMMA NegGrants ==
  ASSUME CohInv, Negedge
  PROVE  /\ LoadIn' = LoadIn /\ TagYumi' = TagYumi /\ WbufYumi' = WbufYumi
         /\ DataWrite' = DataWrite /\ DataRead' = DataRead
         /\ DataYumi' => DataYumi
<1>1. LoadIn' = LoadIn
  BY NegMoves DEF LoadIn
<1>2. TagYumi' = TagYumi /\ DataWrite' = DataWrite /\ DataRead' = DataRead
  BY NegMoves DEF TagYumi, TagPkt, In, DataWrite, DataRead
<1>3. DataYumi' => DataYumi
  <2>1. WbufSuccess => wbuf # <<>>
    BY NegMoves DEF CohInv, Pipeline, StoreQueued
  <2>2. QED
    BY <1>1, <1>2, <2>1, NegMoves DEF DataYumi
<1>4. DataYumi => wbuf = <<>>
  BY DEF DataYumi
<1>5. WbufYumi' = WbufYumi
  BY <1>1, <1>3, <1>4, NegMoves DEF WbufYumi, DataYumi
<1>6. QED
  BY <1>1, <1>2, <1>3, <1>5

(* What enters the stages.                                                 *)
LEMMA NegStages ==
  ASSUME CohInv, Negedge
  PROVE  /\ tl' # None =>
              /\ in # None /\ ~flush /\ tl' = Lookup(in)
              /\ ~TagYumi
         /\ tv'.v => /\ tl # None /\ ~flush /\ tv' = Verified
         /\ ~tv'.v => tv' = Empty(tv'.op)
         /\ tv'.v \in BOOLEAN
<1>1. tl' = IF in # None /\ ~flush THEN Lookup(in) ELSE None
  BY DEF Negedge
<1>2. tv' = IF tl = None THEN Empty(tv.op)
            ELSE IF flush THEN Empty(tl.op) ELSE Verified
  BY DEF Negedge
<1>3. Verified.v = TRUE
  BY DEF Verified
<1>4. \A op : Empty(op).v = FALSE /\ Empty(op) = Empty(Empty(op).op)
  BY DEF Empty
<1>5. (\E op : tv' = Empty(op)) \/ (tl # None /\ ~flush /\ tv' = Verified)
  BY <1>2
<1>6. tl' # None => in # None /\ ~flush /\ tl' = Lookup(in) /\ ~TagYumi
  BY <1>1 DEF TagYumi
<1>7. CASE \E op : tv' = Empty(op)
  <2>1. PICK op : tv' = Empty(op)
    BY <1>7
  <2>2. tv'.v = FALSE /\ tv' = Empty(tv'.op)
    BY <1>4, <2>1
  <2>3. QED
    BY <1>6, <2>2
<1>8. CASE tl # None /\ ~flush /\ tv' = Verified
  BY <1>3, <1>6, <1>8
<1>9. QED
  BY <1>5, <1>7, <1>8

(* The tags that change: of the way the command names.                     *)
LEMMA NegTags ==
  ASSUME CohInv, Negedge
  PROVE  /\ ~TagYumi => tag' = tag
         /\ TagYumi =>
              /\ cmd \in Command /\ Leaves(cmd) /\ cmd # None /\ lce = "ready"
              /\ \A w \in Way : w # cmd.way => tag'[w] = tag[w]
              /\ tag'[cmd.way].st = cmd.st
              /\ cmd.type \in Fills \cup {"st_tr_wb"} => tag'[cmd.way].blk = cmd.blk
              /\ cmd.type \notin Fills \cup {"st_tr_wb"} => tag'[cmd.way].st = "I"
         /\ tag' \in [Way -> Frame]
<1>1. tag \in [Way -> Frame]
  BY DEF CohInv, Types
<1>2. CASE ~TagYumi
  BY <1>1, <1>2 DEF Negedge
<1>3. CASE TagYumi
  <2>1. /\ cmd \in Command /\ Leaves(cmd) /\ cmd # None /\ lce = "ready"
        /\ cmd.type \in {"inv"} \cup Fills \cup Drains
    BY <1>3 DEF TagYumi, TagPkt, In, CohInv, Types, Command
  <2>2. tag' = [tag EXCEPT ![cmd.way] = NewTag]
    BY <1>3 DEF Negedge
  <2>3. cmd.way \in Way /\ cmd.blk \in Block /\ cmd.st \in States
    BY <2>1 DEF Command
  <2>4. NewTag \in Frame /\ NewTag.st = cmd.st
    <3>1. CASE cmd.type = "data"
      BY <2>3, <3>1 DEF NewTag, Frame
    <3>2. CASE cmd.type # "data" /\ cmd.st = "I"
      BY <2>3, <3>2 DEF NewTag, Frame, States
    <3>3. CASE cmd.type # "data" /\ cmd.st # "I"
      <4>1. NewTag = [tag[cmd.way] EXCEPT !.st = cmd.st]
        BY <3>3 DEF NewTag
      <4>2. tag[cmd.way] \in Frame
        BY <1>1, <2>3
      <4>3. QED
        BY <2>3, <4>1, <4>2 DEF Frame
    <3>4. QED
      BY <3>1, <3>2, <3>3
  <2>5. cmd.type \in Fills \cup {"st_tr_wb"} => NewTag.blk = cmd.blk
    <3>1. CASE cmd.type = "data"
      BY <2>1, <3>1 DEF NewTag, Leaves
    <3>2. CASE cmd.type \in {"st_wakeup", "st_tr_wb"}
      <4>1. tag[cmd.way].blk = cmd.blk
        BY <2>1, <3>2
        DEF CohInv, Copies, WakesCopy, DrainsCopy, Drain, Drains, Copy
      <4>2. NewTag = [tag[cmd.way] EXCEPT !.st = cmd.st]
        BY <2>1, <3>2 DEF NewTag, Leaves
      <4>3. tag[cmd.way] \in Frame
        BY <1>1, <2>3
      <4>4. QED
        BY <4>1, <4>2, <4>3 DEF Frame
    <3>3. cmd.type \in Fills \cup {"st_tr_wb"} =>
            cmd.type = "data" \/ cmd.type \in {"st_wakeup", "st_tr_wb"}
      BY DEF Fills
    <3>4. QED
      BY <3>1, <3>2, <3>3
  <2>6. cmd.type \notin Fills \cup {"st_tr_wb"} => cmd.st = "I"
    BY <2>1 DEF Leaves, Fills, Drains
  <2>7. QED
    BY <1>1, <1>3, <2>1, <2>2, <2>3, <2>4, <2>5, <2>6
<1>4. QED
  BY <1>2, <1>3

(* The data memory takes the oldest store, or the block of a fill.         *)
LEMMA NegLine ==
  ASSUME CohInv, Negedge
  PROVE  /\ WbufYumi => /\ wbuf # <<>> /\ wbuf[1] \in Queued
                        /\ line' = [line EXCEPT ![wbuf[1].way] = wbuf[1].val]
         /\ DataYumi /\ DataWrite =>
              /\ ~WbufYumi /\ Fetching
              /\ line' = [line EXCEPT ![cmd.way] = cmd.val]
         /\ ~WbufYumi /\ ~(DataYumi /\ DataWrite) => line' = line
         /\ LoadIn => line' = line
         /\ line' \in [Way -> Data]
<1>1. /\ line \in [Way -> Data] /\ wbuf \in Seq(Queued)
      /\ cmd # None => cmd \in Command /\ Leaves(cmd)
  BY DEF CohInv, Types
<1>2. WbufYumi => wbuf # <<>> /\ wbuf[1] \in Queued /\ Head(wbuf) = wbuf[1]
  BY <1>1 DEF WbufYumi
<1>3. DataYumi => ~WbufYumi /\ ~LoadIn
  BY DEF DataYumi, WbufYumi
<1>4. WbufYumi => ~LoadIn
  BY DEF WbufYumi
<1>5. DataWrite => Fetching
  BY DEF DataWrite, In, Fetching
<1>6. line' = IF WbufYumi
              THEN [line EXCEPT ![Head(wbuf).way] = Head(wbuf).val]
              ELSE IF DataYumi /\ DataWrite
                   THEN [line EXCEPT ![cmd.way] = cmd.val] ELSE line
  BY DEF Negedge
<1>7. CASE WbufYumi
  <2>1. wbuf[1].way \in Way /\ wbuf[1].val \in Data
    BY <1>2, <1>7 DEF Queued
  <2>2. line' = [line EXCEPT ![wbuf[1].way] = wbuf[1].val]
    BY <1>2, <1>6, <1>7
  <2>3. line' \in [Way -> Data]
    BY <1>1, <2>1, <2>2
  <2>4. QED
    BY <1>2, <1>3, <1>4, <1>7, <2>2, <2>3
<1>8. CASE ~WbufYumi /\ DataYumi /\ DataWrite
  <2>1. cmd.way \in Way /\ cmd.val \in Data
    BY <1>1, <1>5, <1>8 DEF Fetching, Command, Leaves
  <2>2. line' = [line EXCEPT ![cmd.way] = cmd.val]
    BY <1>6, <1>8
  <2>3. line' \in [Way -> Data]
    BY <1>1, <2>1, <2>2
  <2>4. QED
    BY <1>3, <1>5, <1>8, <2>2, <2>3
<1>9. CASE ~WbufYumi /\ ~(DataYumi /\ DataWrite)
  BY <1>1, <1>6, <1>9
<1>10. QED
  BY <1>7, <1>8, <1>9

(* No access that goes on is beside a miss that is outstanding.            *)
LEMMA NegNotBusy ==
  ASSUME CohInv, Negedge, tl # None, ~flush
  PROVE  ~Busy
  BY NegMoves DEF CohInv, Pipeline, Stalled

(* The memories and the stages keep their types.                           *)
LEMMA NegTypes ==
  ASSUME CohInv, Negedge
  PROVE  Types'
<1>1. tag' \in [Way -> Frame]
  BY NegTags
<1>2. \A w \in Way : tag'[w].st # "I" => tag'[w].blk \in Block
  <2>1. \A w \in Way : tag[w].st # "I" => tag[w].blk \in Block
    BY DEF CohInv, Types
  <2>2. TagYumi => cmd.blk \in Block
    BY NegTags DEF Command
  <2>3. QED
    BY <2>1, <2>2, NegTags
<1>3. line' \in [Way -> Data]
  BY NegLine
<1>4. tl' # None => Access(tl') /\ tl'.rd \in Data \cup {None}
  <2>1. SUFFICES ASSUME tl' # None
                 PROVE  Access(tl') /\ tl'.rd \in Data \cup {None}
    OBVIOUS
  <2>2. in # None /\ tl' = Lookup(in) /\ Access(in) /\ line \in [Way -> Data]
    BY <2>1, NegStages DEF CohInv, Types
  <2>3. tl'.op = in.op /\ tl'.blk = in.blk /\ tl'.val = in.val
    BY <2>2 DEF Lookup
  <2>4. tl'.rd \in Data \cup {None}
    BY <2>2, HitFound DEF Lookup
  <2>5. QED
    BY <2>2, <2>3, <2>4 DEF Access
<1>5. tv'.v \in BOOLEAN /\ (tv'.v => Access(tv'))
  <2>1. ASSUME tv'.v PROVE Access(tv')
    <3>1. tl # None /\ tv' = Verified /\ Access(tl)
      BY <2>1, NegStages DEF CohInv, Types
    <3>2. tv'.op = tl.op /\ tv'.blk = tl.blk /\ tv'.val = tl.val
      BY <3>1 DEF Verified
    <3>3. QED
      BY <3>1, <3>2 DEF Access
  <2>2. QED
    BY <2>1, NegStages
<1>6. QED
  BY <1>1, <1>2, <1>3, <1>4, <1>5, NegMoves DEF CohInv, Types

(* The stages: what they found is still what the tags say.                 *)
LEMMA NegPipeline ==
  ASSUME CohInv, Negedge
  PROVE  Pipeline'
<1>1. Stalled'
  <2>1. Busy' = Busy
    BY NegMoves DEF Busy, Filling
  <2>2. Busy => missR /\ (in = None \/ flush) /\ (flush \/ tl = None)
    BY NegMoves DEF CohInv, Pipeline, Stalled
  <2>3. QED
    BY <2>1, <2>2, NegMoves, NegStages DEF Stalled
<1>2. Flushed'
  BY NegMoves, NegStages DEF Flushed
<1>3. ScSpent' /\ StoreQueued'
  BY NegMoves DEF ScSpent, StoreQueued
<1>4. TlFound'
  <2>1. SUFFICES ASSUME tl' # None
                 PROVE  /\ tl'.ldWay = HitWay(tl.blk, {"S"} \cup Owned)'
                        /\ tl'.stWay = HitWay(tl.blk, Owned)'
    BY DEF TlFound, Owned
  <2>2. tl' = Lookup(in) /\ tag' = tag
    BY <2>1, NegStages, NegTags
  <2>3. tl'.blk = in.blk /\ tl'.stWay = HitWay(in.blk, Owned)
          /\ tl'.ldWay = HitWay(in.blk, {"S"} \cup Owned)
    BY <2>2 DEF Lookup
  <2>4. QED
    BY <2>2, <2>3 DEF HitWay, Owned
<1>5. TvFound'
  <2>1. SUFFICES ASSUME tv'.v, NEW w \in Way
                 PROVE  /\ Copy(w, tv.blk)' => tv'.ldWay # None
                        /\ Owns(w, tv.blk)' => tv'.stWay # None
    BY DEF TvFound
  <2>2. /\ tl # None /\ ~flush /\ tv' = Verified
        /\ tl.ldWay = HitWay(tl.blk, {"S"} \cup Owned)
        /\ tl.stWay = HitWay(tl.blk, Owned)
    BY <2>1, NegStages DEF CohInv, Pipeline, TlFound
  <2>3. tv'.blk = tl.blk /\ tv'.ldWay = tl.ldWay /\ tv'.stWay = tl.stWay
    BY <2>2 DEF Verified
  <2>4. TagYumi => cmd.type \notin Fills
    BY <2>2, NegNotBusy, NegTags DEF Busy, Filling
  <2>5. tag[w].st \in States
    BY DEF CohInv, Types, Frame
  <2>6. Copy(w, tv.blk)' => Copy(w, tl.blk)
    <3>1. CASE TagYumi /\ w = cmd.way
      <4>1. Copy(w, tv.blk)' => cmd.type = "st_tr_wb" /\ tl.blk = cmd.blk
        BY <2>3, <2>4, <3>1, NegTags DEF Copy
      <4>2. cmd.type = "st_tr_wb" => Copy(cmd.way, cmd.blk)
        BY <3>1, NegTags DEF CohInv, Copies, DrainsCopy, Drain, Drains
      <4>3. QED
        BY <4>1, <4>2, <3>1
    <3>2. CASE ~(TagYumi /\ w = cmd.way)
      BY <2>3, <3>2, NegTags DEF Copy
    <3>3. QED
      BY <3>1, <3>2
  <2>7. Owns(w, tv.blk)' => Owns(w, tl.blk)
    <3>1. CASE TagYumi /\ w = cmd.way
      BY <2>4, <3>1, NegTags DEF Owns, Owned, Leaves, Command, Fills, Drains
    <3>2. CASE ~(TagYumi /\ w = cmd.way)
      BY <2>3, <3>2, NegTags DEF Owns, Owned
    <3>3. QED
      BY <3>1, <3>2
  <2>8. /\ Copy(w, tl.blk) => tl.ldWay # None
        /\ Owns(w, tl.blk) => tl.stWay # None
    BY <2>2, <2>5, HitFound DEF Copy, Owns, States
  <2>9. QED
    BY <2>3, <2>6, <2>7, <2>8
<1>6. QED
  BY <1>1, <1>2, <1>3, <1>4, <1>5, NegMoves DEF Pipeline

(* The engine: a command that gets its tag leaves it as it says.           *)
LEMMA NegEngine ==
  ASSUME CohInv, Negedge
  PROVE  Engine'
<1>1. Stages'
  BY NegMoves DEF CohInv, Engine, Stages, Filling, Drain
<1>2. Stats'
  BY NegMoves DEF CohInv, Engine, Stats
<1>3. Tagged'
  <2>1. CASE TagYumi
    <3>1. Fetching => cmd.type \in Fills \cup {"st_tr_wb"}
      BY DEF Fetching, Fills
    <3>2. QED
      BY <2>1, <3>1, NegMoves, NegTags DEF Tagged, Fetching
  <2>2. CASE ~TagYumi
    <3>1. tag' = tag /\ ~TagYumi'
      BY <2>2, NegTags, NegGrants
    <3>2. QED
      BY <3>1, NegMoves DEF CohInv, Engine, Tagged, Fetching
  <2>3. QED
    BY <2>1, <2>2
<1>4. QED
  BY <1>1, <1>2, <1>3 DEF Engine

(* A block becomes a copy, or owned, only by a fill that names it, and     *)
(* what is owed stays owed.                                                *)
LEMMA NegCopy ==
  ASSUME CohInv, Negedge, NEW w \in Way, NEW b \in Block
  PROVE  /\ Copy(w, b)' => Copy(w, b) \/ (Fetching /\ w = cmd.way /\ b = cmd.blk)
         /\ Owns(w, b)' => Owns(w, b) \/ (Filling /\ w = cmd.way /\ b = cmd.blk)
         /\ Owes(w, b) => Owes(w, b)'
<1>1. Draining(b)' = Draining(b)
  BY NegMoves DEF Draining, Drain
<1>2. CASE TagYumi /\ w = cmd.way
  <2>1. /\ cmd \in Command /\ Leaves(cmd) /\ cmd # None
        /\ tag'[w].st = cmd.st
        /\ cmd.type \in Fills \cup {"st_tr_wb"} => tag'[w].blk = cmd.blk
        /\ cmd.type \in {"inv"} \cup Fills \cup Drains
    BY <1>2, NegTags DEF Command
  <2>2. CASE cmd.type = "data"
    <3>1. Fetching /\ Filling
      BY <2>1, <2>2 DEF Fetching, Filling, Fills
    <3>2. tag'[w].blk = cmd.blk
      BY <2>1, <2>2 DEF Fills
    <3>3. Owns(w, b) => Owns(w, b)'
      <4>1. tag[w].st \in Owned => tag[w].blk = cmd.blk /\ tag[w].st = cmd.st
        BY <1>2, <3>1 DEF CohInv, Copies, FillsFree
      <4>2. QED
        BY <2>1, <3>2, <4>1 DEF Owns, Owned
    <3>4. ~Draining(b)
      BY <2>2 DEF Draining, Drain, Drains
    <3>5. QED
      BY <1>1, <1>2, <3>1, <3>2, <3>3, <3>4 DEF Copy, Owns, Owes
  <2>3. CASE cmd.type = "st_wakeup"
    <3>1. tag'[w].blk = cmd.blk /\ cmd.st = "M"
      BY <2>1, <2>3 DEF Fills, Leaves
    <3>2. Copy(w, cmd.blk) /\ Filling /\ ~Draining(b)
      BY <1>2, <2>1, <2>3
      DEF CohInv, Copies, WakesCopy, Filling, Fills, Draining, Drain, Drains
    <3>3. QED
      BY <1>1, <1>2, <2>1, <3>1, <3>2 DEF Copy, Owns, Owes, Owned
  <2>4. CASE cmd.type \in Drains
    <3>1. cmd.st \notin Owned
      BY <2>1, <2>4 DEF Leaves, Drains, Owned
    <3>2. Drain
      BY <2>1, <2>4 DEF Drain
    <3>3. Owns(w, b) => Draining(b)
      <4>1. tag[w].st # "I" => tag[w].blk = cmd.blk
        BY <1>2, <3>2 DEF CohInv, Copies, DrainsCopy, Copy
      <4>2. QED
        BY <3>2, <4>1 DEF Owns, Owned, Draining
    <3>4. Copy(w, b)' => Copy(w, b)
      <4>1. cmd.st # "I" => cmd.type = "st_tr_wb"
        BY <2>1, <2>4 DEF Leaves, Drains
      <4>2. cmd.type = "st_tr_wb" => Copy(w, cmd.blk)
        BY <1>2, <3>2 DEF CohInv, Copies, DrainsCopy
      <4>3. QED
        BY <2>1, <4>1, <4>2 DEF Copy
    <3>5. ~Owns(w, b)'
      BY <2>1, <3>1 DEF Owns, Owned
    <3>6. QED
      BY <1>1, <1>2, <3>3, <3>4, <3>5, NegMoves DEF Owes
  <2>5. CASE cmd.type = "inv"
    <3>1. tag'[w].st = "I" /\ tag[w].st \notin Owned
      BY <1>2, <2>1, <2>5 DEF Leaves, CohInv, Copies, InvsCopy
    <3>2. QED
      BY <1>1, <1>2, <3>1, NegMoves DEF Copy, Owns, Owes, Owned
  <2>6. QED
    BY <2>1, <2>2, <2>3, <2>4, <2>5 DEF Fills
<1>3. CASE ~(TagYumi /\ w = cmd.way)
  <2>1. tag'[w] = tag[w]
    BY <1>3, NegTags
  <2>2. QED
    BY <1>1, <2>1, NegMoves DEF Copy, Owns, Owes, Owned
<1>4. QED
  BY <1>2, <1>3

(* Who has a block: only a fill makes a copy, and of a block that is nowhere.*)
LEMMA NegCopies ==
  ASSUME CohInv, Negedge
  PROVE  Copies'
<1>1. /\ cmd # None => cmd \in Command /\ Leaves(cmd)
      /\ Fetching' = Fetching /\ Drain' = Drain /\ Filling' = Filling
      /\ Fetching => Filling
  BY NegMoves DEF CohInv, Types, Fetching, Drain, Filling, Fills
<1>2. Fetching => \A w \in Way : Copy(w, cmd.blk) => w = cmd.way
  BY DEF CohInv, Copies, FillsFree
<1>3. OneCopy'
  <2>1. SUFFICES ASSUME NEW v \in Way, NEW w \in Way, NEW b \in Block,
                        Copy(v, b)', Copy(w, b)'
                 PROVE  v = w
    BY DEF OneCopy
  <2>2. Copy(v, b) /\ Copy(w, b) => v = w
    BY DEF CohInv, Copies, OneCopy
  <2>3. QED
    BY <1>2, <2>1, <2>2, NegCopy
<1>4. FillsFree'
  <2>1. SUFFICES ASSUME Fetching
                 PROVE  /\ \A w \in Way : Copy(w, cmd.blk)' => w = cmd.way
                        /\ tag'[cmd.way].st \in Owned =>
                             tag'[cmd.way] = [blk |-> cmd.blk, st |-> cmd.st]
    BY <1>1, NegMoves DEF FillsFree, Owned
  <2>2. cmd.blk \in Block /\ cmd.way \in Way /\ cmd.type = "data"
    BY <1>1, <2>1 DEF Command, Fetching
  <2>3. \A w \in Way : Copy(w, cmd.blk)' => w = cmd.way
    <3>1. SUFFICES ASSUME NEW w \in Way, Copy(w, cmd.blk)'
                   PROVE  w = cmd.way
      OBVIOUS
    <3>2. Copy(w, cmd.blk) \/ w = cmd.way
      <4>1. cmd' = cmd
        BY NegMoves
      <4>2. ASSUME NEW b \in Block, b = cmd.blk PROVE Copy(w, b) \/ w = cmd.way
        <5>1. Copy(w, b)'
          BY <3>1, <4>1, <4>2 DEF Copy
        <5>2. QED
          BY <5>1, NegCopy
      <4>3. QED
        BY <2>2, <4>2
    <3>3. QED
      BY <1>2, <2>1, <3>2
  <2>4. tag'[cmd.way].st \in Owned =>
          tag'[cmd.way] = [blk |-> cmd.blk, st |-> cmd.st]
    <3>1. CASE TagYumi
      <4>1. tag'[cmd.way].st = cmd.st /\ tag'[cmd.way].blk = cmd.blk
        BY <2>2, <3>1, NegTags DEF Fills
      <4>2. tag'[cmd.way] \in Frame
        BY <2>2, NegTags
      <4>3. QED
        BY <4>1, <4>2 DEF Frame
    <3>2. CASE ~TagYumi
      BY <2>1, <3>2, NegTags DEF CohInv, Copies, FillsFree
    <3>3. QED
      BY <3>1, <3>2
  <2>5. QED
    BY <2>3, <2>4
<1>5. WakesCopy'
  <2>1. SUFFICES ASSUME cmd # None, cmd.type = "st_wakeup"
                 PROVE  tag'[cmd.way].blk = cmd.blk /\ tag'[cmd.way].st # "I"
    BY NegMoves DEF WakesCopy, Copy
  <2>2. CASE TagYumi
    BY <2>1, <2>2, NegTags DEF Fills, Leaves
  <2>3. CASE ~TagYumi
    BY <2>1, <2>3, NegTags DEF CohInv, Copies, WakesCopy, Copy
  <2>4. QED
    BY <2>2, <2>3
<1>6. DrainsCopy'
  <2>1. SUFFICES ASSUME Drain
                 PROVE  /\ \A w \in Way : Copy(w, cmd.blk)' => w = cmd.way
                        /\ tag'[cmd.way].st # "I" \/ cmd.type = "st_tr_wb" =>
                             Copy(cmd.way, cmd.blk)'
    BY <1>1, NegMoves DEF DrainsCopy
  <2>2. /\ cmd # None /\ cmd \in Command /\ Leaves(cmd) /\ cmd' = cmd
        /\ cmd.blk \in Block /\ cmd.way \in Way /\ cmd.type \in Drains
        /\ ~Fetching
    BY <1>1, <2>1, NegMoves DEF Drain, Command, Drains, Fetching
  <2>3. /\ \A w \in Way : Copy(w, cmd.blk) => w = cmd.way
        /\ tag[cmd.way].st # "I" \/ cmd.type = "st_tr_wb" => Copy(cmd.way, cmd.blk)
    BY <2>1 DEF CohInv, Copies, DrainsCopy
  <2>4. ASSUME NEW w \in Way, Copy(w, cmd.blk)'
        PROVE  w = cmd.way
    <3>1. CASE TagYumi
      BY <2>2, <2>3, <2>4, <3>1, NegTags DEF Copy
    <3>2. CASE ~TagYumi
      BY <2>2, <2>3, <2>4, <3>2, NegTags DEF Copy
    <3>3. QED
      BY <3>1, <3>2
  <2>5. tag'[cmd.way].st # "I" \/ cmd.type = "st_tr_wb" => Copy(cmd.way, cmd.blk)'
    <3>1. CASE TagYumi
      BY <2>2, <3>1, NegTags DEF Copy, Leaves, Drains
    <3>2. CASE ~TagYumi
      BY <2>2, <2>3, <3>2, NegTags DEF Copy
    <3>3. QED
      BY <3>1, <3>2
  <2>6. QED
    BY <2>4, <2>5
<1>7. InvsCopy'
  <2>1. SUFFICES ASSUME cmd # None, cmd.type = "inv"
                 PROVE  tag'[cmd.way].st \notin Owned
    BY NegMoves DEF InvsCopy, Owned
  <2>2. CASE TagYumi
    BY <2>1, <2>2, NegTags DEF Leaves, Owned
  <2>3. CASE ~TagYumi
    BY <2>1, <2>3, NegTags DEF CohInv, Copies, InvsCopy
  <2>4. QED
    BY <2>2, <2>3
<1>8. NotOutside'
  <2>1. SUFFICES ASSUME NEW b \in Block,
                        \/ \E w \in Way : Copy(w, b)'
                        \/ cmd # None /\ cmd.type # "inv" /\ cmd.blk = b
                 PROVE  other[b] # "O"
    BY NegMoves DEF NotOutside
  <2>2. \/ \E w \in Way : Copy(w, b)
        \/ cmd # None /\ cmd.type # "inv" /\ cmd.blk = b
    BY <2>1, NegCopy DEF Fetching
  <2>3. QED
    BY <2>2 DEF CohInv, Copies, NotOutside
<1>9. Missing'
  <2>1. SUFFICES ASSUME req # None, NEW w \in Way
                 PROVE  /\ ~Owns(w, req.blk)'
                        /\ req.op = "rd" => ~Copy(w, req.blk)'
    BY NegMoves DEF Missing
  <2>2. ~Filling /\ req.blk \in Block /\ req' = req
    BY <2>1, NegMoves DEF CohInv, Engine, Stages, Types, Request
  <2>3. ~Owns(w, req.blk) /\ (req.op = "rd" => ~Copy(w, req.blk))
    BY <2>1 DEF CohInv, Copies, Missing
  <2>4. ASSUME NEW b \in Block, b = req.blk
        PROVE  (Owns(w, b)' => Owns(w, b)) /\ (Copy(w, b)' => Copy(w, b))
    BY <1>1, <2>2, NegCopy
  <2>5. ASSUME NEW b \in Block, b = req.blk
        PROVE  /\ ~Owns(w, req.blk)'
               /\ req.op = "rd" => ~Copy(w, req.blk)'
    <3>1. /\ Owns(w, req.blk)' => Owns(w, b)'
          /\ Copy(w, req.blk)' => Copy(w, b)'
      BY <2>2, <2>5 DEF Owns, Copy
    <3>2. QED
      BY <2>3, <2>4, <2>5, <3>1
  <2>6. QED
    BY <2>2, <2>5
<1>10. QED
  BY <1>3, <1>4, <1>5, <1>6, <1>7, <1>8, <1>9 DEF Copies

(* A store that comes into TV owns its block, and not one whose command    *)
(* has got its tag.                                                        *)
LEMMA NegStore ==
  ASSUME CohInv, Negedge, WbufSuccess'
  PROVE  /\ tv'.stWay \in Way /\ tv'.blk \in Block
         /\ Owns(tv'.stWay, tv'.blk)
         /\ lce # "ready" => tv'.blk # cmd.blk
<1>1. tv'.v /\ tv'.stWay # None /\ tv'.op \in Buffered
  BY DEF WbufSuccess, ScSuccess, Buffered
<1>2. /\ tl # None /\ ~flush /\ tv' = Verified /\ ~Busy
      /\ tl.stWay = HitWay(tl.blk, Owned)
  BY <1>1, NegStages, NegNotBusy DEF CohInv, Pipeline, TlFound
<1>3. tv'.stWay = tl.stWay /\ tv'.blk = tl.blk /\ tv'.op = tl.op
  BY <1>2 DEF Verified
<1>4. tl.blk \in Block
  BY <1>1, <1>2, <1>3 DEF CohInv, Types, Access, Buffered
<1>5. tv'.stWay \in Way /\ Owns(tv'.stWay, tv'.blk)
  BY <1>1, <1>2, <1>3, HitFound DEF Owns
<1>6. lce # "ready" => tv'.blk # cmd.blk
  <2>1. SUFFICES ASSUME lce # "ready", tv'.blk = cmd.blk
                 PROVE  FALSE
    OBVIOUS
  <2>2. Drain /\ Leaves(cmd) /\ cmd # None
    BY <1>2, <2>1 DEF CohInv, Engine, Stages, Busy, Types, Drain
  <2>3. Copy(tv'.stWay, cmd.blk)
    BY <1>5, <2>1 DEF Owns, Copy, Owned
  <2>4. tv'.stWay = cmd.way
    BY <1>5, <2>2, <2>3 DEF CohInv, Copies, DrainsCopy
  <2>5. tag[cmd.way].st = cmd.st
    BY <2>1, <2>2 DEF CohInv, Engine, Tagged
  <2>6. cmd.st \notin Owned
    BY <2>2 DEF Leaves, Drain, Drains, Owned
  <2>7. QED
    BY <1>5, <2>4, <2>5, <2>6 DEF Owns
<1>7. QED
  BY <1>3, <1>4, <1>5, <1>6

(* The stores that wait: they stay owed, and what comes into TV is owed.   *)
LEMMA NegQueue ==
  ASSUME CohInv, Negedge
  PROVE  Queue'
<1>1. wbuf \in Seq(Queued)
  BY DEF CohInv, Types
<1>2. QueuedOwed'
  <2>1. SUFFICES ASSUME NEW i \in 1 .. Len(wbuf)
                 PROVE  /\ Owes(wbuf[i].way, wbuf[i].blk)'
                        /\ dirty[wbuf[i].way] \/ Leaving(wbuf[i].blk)'
    BY NegMoves DEF QueuedOwed
  <2>2. /\ Owes(wbuf[i].way, wbuf[i].blk)
        /\ dirty[wbuf[i].way] \/ Leaving(wbuf[i].blk)
    BY DEF CohInv, Queue, QueuedOwed
  <2>3. wbuf[i].way \in Way /\ wbuf[i].blk \in Block /\ wbuf' = wbuf
    <3>1. wbuf[i] \in Queued
      BY <1>1
    <3>2. QED
      BY <3>1, NegMoves DEF Queued
  <2>4. ASSUME NEW w \in Way, NEW b \in Block, w = wbuf[i].way, b = wbuf[i].blk
        PROVE  Owes(wbuf[i].way, wbuf[i].blk)'
    <3>1. Owes(w, b)'
      BY <2>2, <2>4, NegCopy
    <3>2. QED
      BY <2>3, <2>4, <3>1 DEF Owes, Owns, Draining, Drain
  <2>5. Leaving(wbuf[i].blk)' = Leaving(wbuf[i].blk)
    BY NegMoves DEF Leaving
  <2>6. QED
    BY <2>2, <2>3, <2>4, <2>5
<1>3. StoreOwed'
  <2>1. SUFFICES ASSUME WbufSuccess'
                 PROVE  Owes(tv.stWay, tv.blk)'
    BY DEF StoreOwed
  <2>2. ASSUME NEW w \in Way, NEW b \in Block, w = tv'.stWay, b = tv'.blk,
               Owns(w, b)
        PROVE  Owes(tv.stWay, tv.blk)'
    <3>1. Owes(w, b)'
      BY <2>2, NegCopy DEF Owes
    <3>2. QED
      BY <2>2, <3>1 DEF Owes, Owns, Draining
  <2>3. QED
    BY <2>1, <2>2, NegStore
<1>4. NoneQueued'
  BY NegMoves DEF CohInv, Queue, NoneQueued, Waiting, Fetching
<1>5. NoneComes'
  BY NegMoves, NegStore DEF NoneComes
<1>6. QED
  BY <1>2, <1>3, <1>4, <1>5 DEF Queue

(* A way has the data of one block.                                        *)
LEMMA HeldOnce ==
  ASSUME CohInv, NEW w \in Way, NEW a, NEW b, Holds(w, a), Owes(w, b)
  PROVE  a = b /\ ~(Fetching /\ cmd.way = w /\ b # cmd.blk)
<1>1. (Draining(a) /\ cmd.way = w) \/ Copy(w, a)
  BY DEF Holds
<1>2. (Draining(b) /\ cmd.way = w) \/ Owns(w, b)
  BY DEF Owes
<1>3. Drain => (tag[cmd.way].st # "I" => tag[cmd.way].blk = cmd.blk)
  BY DEF CohInv, Copies, DrainsCopy, Copy
<1>4. Fetching => (tag[cmd.way].st \in Owned => tag[cmd.way].blk = cmd.blk)
  BY DEF CohInv, Copies, FillsFree
<1>5. ~(Fetching /\ Drain)
  BY DEF Fetching, Drain, Drains
<1>6. QED
  BY <1>1, <1>2, <1>3, <1>4, <1>5 DEF Copy, Owns, Owned, Draining

(* An entry of the buffer: its way and block, and what it makes current.   *)
LEMMA FirstEntry ==
  ASSUME CohInv, wbuf # <<>>
  PROVE  /\ wbuf[1] \in Queued /\ Len(wbuf) >= 1
         /\ Owes(wbuf[1].way, wbuf[1].blk)
         /\ \A u, v : Newest(wbuf[1].blk, u) = Newest(wbuf[1].blk, v)
         /\ Waiting(wbuf[1].blk)
<1>1. wbuf \in Seq(Queued)
  BY DEF CohInv, Types
<1>2. Len(wbuf) >= 1 /\ Len(wbuf) \in Nat /\ wbuf[1] \in Queued
  BY <1>1
<1>3. 1 \in 1 .. Len(wbuf)
  BY <1>2
<1>4. Owes(wbuf[1].way, wbuf[1].blk)
  BY <1>3 DEF CohInv, Queue, QueuedOwed
<1>5. \A u, v : Newest(wbuf[1].blk, u) = Newest(wbuf[1].blk, v)
  BY <1>2 DEF Newest
<1>6. Waiting(wbuf[1].blk)
  BY <1>3 DEF Waiting
<1>7. QED
  BY <1>2, <1>4, <1>5, <1>6

(* A frame that has a block keeps its newest value: the buffer writes the  *)
(* block its entry is of, and a fill writes a frame that holds nothing.    *)
LEMMA NegHeld ==
  ASSUME CohInv, Negedge
  PROVE  HeldCurrent'
<1>1. SUFFICES ASSUME NEW w \in Way, NEW b \in Block, Holds(w, b)'
               PROVE  Newest(b, line'[w]) = latest[b]
  BY NegMoves DEF HeldCurrent, Newest
<1>2. Holds(w, b)
  BY <1>1, NegCopy, NegMoves DEF Holds, Fetching, Draining, Drain
<1>3. Newest(b, line[w]) = latest[b]
  BY <1>2 DEF CohInv, Values, HeldCurrent
<1>4. line \in [Way -> Data]
  BY DEF CohInv, Types
<1>5. CASE WbufYumi
  <2>1. wbuf # <<>> /\ line' = [line EXCEPT ![wbuf[1].way] = wbuf[1].val]
    BY <1>5, NegLine
  <2>2. CASE w = wbuf[1].way
    <3>1. b = wbuf[1].blk
      BY <1>2, <2>1, <2>2, HeldOnce, FirstEntry
    <3>2. QED
      BY <1>3, <2>1, <3>1, FirstEntry
  <2>3. CASE w # wbuf[1].way
    BY <1>3, <1>4, <2>1, <2>3
  <2>4. QED
    BY <2>2, <2>3
<1>6. CASE DataYumi /\ DataWrite
  <2>1. Fetching /\ line' = [line EXCEPT ![cmd.way] = cmd.val]
    BY <1>6, NegLine
  <2>2. w # cmd.way
    BY <1>2, <2>1 DEF Holds, Fetching, Draining, Drain, Drains
  <2>3. QED
    BY <1>3, <1>4, <2>1, <2>2
<1>7. CASE ~WbufYumi /\ ~(DataYumi /\ DataWrite)
  BY <1>3, <1>7, NegLine
<1>8. QED
  BY <1>5, <1>6, <1>7

(* The values: what is read from the data memory is what is there.         *)
LEMMA NegValues ==
  ASSUME CohInv, Negedge
  PROVE  Values'
<1>0. /\ line \in [Way -> Data] /\ latest \in [Block -> Data]
      /\ cmd # None => cmd \in Command
  BY DEF CohInv, Types
<1>1. FillCurrent'
  <2>1. SUFFICES ASSUME Fetching
                 PROVE  /\ cmd.val = latest[cmd.blk]
                        /\ lce = "coh_ack" \/ DataYumi' => line'[cmd.way] = cmd.val
    BY NegMoves DEF FillCurrent, Fetching
  <2>2. cmd \in Command /\ cmd.way \in Way /\ cmd.type = "data"
    BY <1>0, <2>1 DEF Fetching, Command
  <2>3. cmd.val = latest[cmd.blk] /\ (lce = "coh_ack" => line[cmd.way] = cmd.val)
    BY <2>1 DEF CohInv, Values, FillCurrent
  <2>4. CASE DataYumi /\ DataWrite
    BY <1>0, <2>2, <2>3, <2>4, NegLine
  <2>5. CASE ~(DataYumi /\ DataWrite) /\ WbufYumi
    <3>1. wbuf # <<>> /\ line' = [line EXCEPT ![wbuf[1].way] = wbuf[1].val]
      BY <2>5, NegLine
    <3>2. ~Waiting(cmd.blk)
      BY <2>1 DEF CohInv, Queue, NoneQueued, Fetching
    <3>3. wbuf[1].way # cmd.way
      <4>1. ~Drain /\ (tag[cmd.way].st \in Owned => tag[cmd.way].blk = cmd.blk)
        BY <2>1 DEF CohInv, Copies, FillsFree, Drain, Drains, Fetching
      <4>2. QED
        BY <3>1, <3>2, <4>1, FirstEntry DEF Owes, Owns, Draining
    <3>4. ~DataYumi
      BY <2>5 DEF WbufYumi
    <3>5. QED
      BY <1>0, <2>2, <2>3, <3>1, <3>3, <3>4, NegGrants
  <2>6. CASE ~(DataYumi /\ DataWrite) /\ ~WbufYumi
    <3>1. line' = line
      BY <2>6, NegLine
    <3>2. DataYumi => DataWrite \/ DataRead
      BY DEF DataYumi
    <3>3. ~DataRead
      <4>1. lce # "wb_dirty_rd"
        BY <2>2 DEF CohInv, Engine, Stages
      <4>2. QED
        BY <2>2, <4>1 DEF DataRead, In
    <3>4. QED
      BY <2>3, <2>6, <3>1, <3>2, <3>3, NegGrants
  <2>7. QED
    BY <2>4, <2>5, <2>6
<1>2. MemCurrent'
  <2>1. SUFFICES ASSUME NEW b \in Block, other[b] # "O", ~Leaving(b)',
                        \A w \in Way : Owes(w, b)' => ~dirty[w]
                 PROVE  mem[b] = latest[b]
    BY NegMoves DEF MemCurrent
  <2>2. ~Leaving(b) /\ \A w \in Way : Owes(w, b) => ~dirty[w]
    BY <2>1, NegCopy, NegMoves DEF Leaving
  <2>3. QED
    BY <2>1, <2>2 DEF CohInv, Values, MemCurrent
<1>3. CleanCurrent'
  BY NegMoves DEF CohInv, Values, CleanCurrent
<1>4. ReadCurrent'
  <2>1. ASSUME DataYumi', DataRead'
        PROVE  dataRd' = line'[cmd.way]
    <3>1. DataYumi /\ DataRead
      BY <2>1, NegGrants
    <3>2. ~DataWrite
      BY <3>1 DEF DataRead, DataWrite, In
    <3>3. ~WbufYumi
      BY <3>1 DEF WbufYumi
    <3>4. line' = line
      BY <3>2, <3>3, NegLine
    <3>5. dataRd' = line[cmd.way]
      BY <3>1 DEF Negedge
    <3>6. QED
      BY <3>4, <3>5
  <2>2. ASSUME lce \in {"tr", "wb_dirty_send"}
        PROVE  dataBuf' = latest[cmd.blk]
    <3>1. dataRd = latest[cmd.blk]
      BY <2>2, NegMoves DEF CohInv, Values, ReadCurrent
    <3>2. cmd.blk \in Block
      BY <1>0, <2>2 DEF CohInv, Engine, Stages, Command, Drain
    <3>3. dataRd # None
      BY <1>0, <3>1, <3>2, DcacheAssumption
    <3>4. dataBuf' = dataRd
      BY <3>3 DEF Negedge
    <3>5. QED
      BY <3>1, <3>4
  <2>3. QED
    BY <2>1, <2>2, NegMoves DEF ReadCurrent
<1>5. Drained'
  <2>1. SUFFICES ASSUME WbufYumi'
                 PROVE  line'[wbuf[1].way] = wbuf[1].val
    BY NegMoves DEF Drained
  <2>2. WbufYumi
    BY <2>1, NegGrants
  <2>3. wbuf[1].way \in Way
    BY <2>2, NegLine DEF Queued
  <2>4. QED
    BY <1>0, <2>2, <2>3, NegLine
<1>6. LoadRead'
  <2>1. SUFFICES ASSUME tl' # None
                 PROVE  tl'.rd = IF tl'.op \in Loads /\ tl'.ldWay # None
                                 THEN line'[tl'.ldWay] ELSE None
    BY DEF LoadRead, Loads
  <2>2. in # None /\ tl' = Lookup(in)
    BY <2>1, NegStages
  <2>3. /\ tl'.op = in.op /\ tl'.ldWay = HitWay(in.blk, {"S"} \cup Owned)
        /\ tl'.rd = IF in.op \in Loads /\ tl'.ldWay # None THEN line[tl'.ldWay]
                    ELSE None
    BY <2>2 DEF Lookup
  <2>4. in.op \in Loads => line' = line
    BY <2>2, NegLine DEF LoadIn
  <2>5. QED
    BY <2>3, <2>4
<1>7. LoadCurrent'
  <2>1. SUFFICES ASSUME tv'.v, tv'.op \in Loads, tv'.ldWay # None
                 PROVE  tv'.rd = latest[tv'.blk]
    BY NegMoves DEF LoadCurrent, Loads
  <2>2. tl # None /\ ~flush /\ tv' = Verified /\ ~Busy
    BY <2>1, NegStages, NegNotBusy
  <2>3. /\ tv'.op = tl.op /\ tv'.ldWay = tl.ldWay /\ tv'.blk = tl.blk
        /\ tv'.rd = IF tl.rd = None THEN None ELSE Bypassed(tl.blk, tl.rd)
    BY <2>2 DEF Verified
  <2>4. tl.ldWay = HitWay(tl.blk, {"S"} \cup Owned) /\ tl.rd = line[tl.ldWay]
    BY <2>1, <2>2, <2>3
    DEF CohInv, Pipeline, TlFound, Values, LoadRead
  <2>5. tl.ldWay \in Way /\ Copy(tl.ldWay, tl.blk)
    BY <2>1, <2>3, <2>4, HitFound DEF Copy, Owned
  <2>6. tl.rd # None
    BY <1>0, <2>4, <2>5, DcacheAssumption
  <2>7. tv'.rd = Newest(tl.blk, line[tl.ldWay])
    <3>1. Types /\ StoreQueued /\ phase = "neg"
      BY NegMoves DEF CohInv, Pipeline
    <3>2. Bypassed(tl.blk, tl.rd) = Newest(tl.blk, tl.rd)
      BY <2>2, <3>1, BypassedIsNewest
    <3>3. QED
      BY <2>3, <2>4, <2>6, <3>2
  <2>8. tl.blk \in Block
    BY <2>1, <2>2, <2>3 DEF CohInv, Types, Access, Loads
  <2>9. Holds(tl.ldWay, tl.blk)
    BY <2>2, <2>5 DEF Holds, Busy, Filling, Fetching, Fills
  <2>10. QED
    BY <2>3, <2>5, <2>7, <2>8, <2>9 DEF CohInv, Values, HeldCurrent
<1>8. QED
  BY <1>1, <1>2, <1>3, <1>4, <1>5, <1>6, <1>7, NegHeld DEF Values

(* The falling edge keeps the invariant.                                   *)
LEMMA NegedgeCoherent ==
  ASSUME CohInv, Negedge
  PROVE  CohInv'
<1>1. WbufInv'
  BY NegedgeStep DEF CohInv
<1>2. QED
  BY <1>1, NegTypes, NegPipeline, NegEngine, NegCopies, NegQueue, NegValues
  DEF CohInv

----------------------------------------------------------------------------
(* The rising edge.                                                        *)

(* The engine waits, goes on with its command, or ends it.                 *)
Stays == UNCHANGED <<lce, cmd, other, mem>>
Goes ==
  /\ cmd # None /\ cmd' = cmd /\ mem' = mem
  /\ \/ /\ lce = "ready" /\ TagYumi /\ other' = other
        /\ \/ Fetching /\ DataYumi /\ lce' = "coh_ack"
           \/ cmd.type = "st_wakeup" /\ lce' = "coh_ack"
           \/ cmd.type = "st_wb" /\ StatYumi /\ lce' = "wb"
           \/ cmd.type \in {"st_tr", "st_tr_wb"} /\ DataYumi /\ lce' = "tr"
     \/ /\ lce = "tr" /\ cmd.type = "st_tr_wb" /\ lce' = "wb_stat_rd"
        /\ other' = [other EXCEPT ![cmd.blk] = "S"]
     \/ lce = "wb_stat_rd" /\ StatYumi /\ lce' = "wb" /\ other' = other
     \/ lce = "wb" /\ lce' = "wb_dirty_rd" /\ other' = other
     \/ /\ lce = "wb_dirty_rd" /\ DataYumi /\ lce' = "wb_dirty_send"
        /\ other' = other
Ends ==
  /\ cmd # None /\ cmd' = None /\ lce' = "ready"
  /\ \/ /\ UNCHANGED <<other, mem>>
        /\ \/ lce = "ready" /\ cmd.type = "inv"
           \/ lce = "coh_ack"
           \/ lce = "wb" /\ statBuf = FALSE
     \/ /\ lce = "tr" /\ cmd.type = "st_tr" /\ mem' = mem
        /\ other' = [other EXCEPT ![cmd.blk] = "O"]
     \/ /\ lce = "wb_dirty_send" /\ other' = other
        /\ mem' = [mem EXCEPT ![cmd.blk] = dataBuf]

(* The engine does one of the three; it never waits in a state whose answer*)
(* is there.                                                               *)
LEMMA PosEngineMoves ==
  ASSUME CohInv, Posedge
  PROVE  \/ /\ Stays /\ lce \notin {"coh_ack", "tr", "wb_dirty_send"}
            /\ ~(lce = "wb_stat_rd" /\ StatYumi)
         \/ Goes
         \/ Ends
<1>1. EngineFsm /\ phase = "pos"
  BY DEF Posedge
<1>2. /\ cmd # None => cmd \in Command
      /\ cmd = None => lce = "ready"
      /\ statBuf \in BOOLEAN \cup {None}
      /\ latest \in [Block -> Data]
  BY DEF CohInv, Types, Engine, Stages
<1>3. CASE lce = "ready"
  <2>1. ReadyStep
    BY <1>1, <1>3 DEF EngineFsm
  <2>2. CASE cmd = None
    BY <1>3, <2>1, <2>2 DEF ReadyStep, In, Waits, Stays
  <2>3. CASE cmd # None /\ cmd.type = "inv"
    BY <1>3, <2>1, <2>3
    DEF ReadyStep, In, Done, Waits, Stays, Ends
  <2>4. CASE cmd # None /\ cmd.type = "data"
    BY <1>3, <2>1, <2>4
    DEF ReadyStep, In, Goto, Waits, Stays, Goes, Fetching
  <2>5. CASE cmd # None /\ cmd.type = "st_wakeup"
    BY <1>3, <2>1, <2>5
    DEF ReadyStep, In, Goto, Waits, Stays, Goes, Fetching
  <2>6. CASE cmd # None /\ cmd.type = "st_wb"
    BY <1>3, <2>1, <2>6
    DEF ReadyStep, In, Goto, Waits, Stays, Goes
  <2>7. CASE cmd # None /\ cmd.type \in {"st_tr", "st_tr_wb"}
    BY <1>3, <2>1, <2>7
    DEF ReadyStep, In, Goto, Waits, Stays, Goes
  <2>8. QED
    BY <1>2, <2>2, <2>3, <2>4, <2>5, <2>6, <2>7 DEF Command, Fills, Drains
<1>4. CASE lce = "coh_ack"
  BY <1>1, <1>2, <1>4 DEF EngineFsm, Done, Ends
<1>5. ASSUME lce \in {"tr", "wb_dirty_send"}
      PROVE  dataBuf # None
  <2>1. cmd # None /\ dataBuf = latest[cmd.blk]
    BY <1>1, <1>2, <1>5 DEF CohInv, Values, ReadCurrent
  <2>2. cmd.blk \in Block
    BY <1>2, <2>1 DEF Command
  <2>3. QED
    BY <1>2, <2>1, <2>2, DcacheAssumption
<1>6. CASE lce = "tr"
  <2>1. cmd # None /\ cmd.type \in {"st_tr", "st_tr_wb"}
    BY <1>2, <1>6 DEF CohInv, Engine, Stages
  <2>2. TrStep
    BY <1>1, <1>6 DEF EngineFsm
  <2>3. QED
    BY <1>5, <1>6, <2>1, <2>2 DEF TrStep, Done, Goes, Ends
<1>7. CASE lce = "wb_stat_rd"
  <2>1. IF StatYumi THEN Goto("wb") ELSE Waits
    BY <1>1, <1>7 DEF EngineFsm
  <2>2. QED
    BY <1>2, <1>7, <2>1 DEF Goto, Waits, Stays, Goes
<1>8. CASE lce = "wb"
  <2>1. WbStep
    BY <1>1, <1>8 DEF EngineFsm
  <2>2. None # TRUE /\ None # FALSE
    BY DcacheAssumption
  <2>3. CASE statBuf = None
    BY <1>8, <2>1, <2>2, <2>3 DEF WbStep, Waits, Stays
  <2>4. CASE statBuf = TRUE
    BY <1>2, <1>8, <2>1, <2>2, <2>4 DEF WbStep, Goto, Goes
  <2>5. CASE statBuf = FALSE
    BY <1>2, <1>8, <2>1, <2>2, <2>5 DEF WbStep, Done, Ends
  <2>6. QED
    BY <1>2, <2>3, <2>4, <2>5
<1>9. CASE lce = "wb_dirty_rd"
  <2>1. IF DataYumi /\ StatYumi THEN Goto("wb_dirty_send") ELSE Waits
    BY <1>1, <1>9 DEF EngineFsm
  <2>2. QED
    BY <1>2, <1>9, <2>1 DEF Goto, Waits, Stays, Goes
<1>10. CASE lce = "wb_dirty_send"
  <2>1. DirtySendStep
    BY <1>1, <1>10 DEF EngineFsm
  <2>2. QED
    BY <1>2, <1>5, <1>10, <2>1 DEF DirtySendStep, Done, Ends
<1>11. QED
  BY <1>3, <1>4, <1>6, <1>7, <1>8, <1>9, <1>10 DEF CohInv, Engine, Stages

(* A miss that is outstanding: nothing enters the buffer, nothing misses.  *)
LEMMA PosBusy ==
  ASSUME CohInv, Posedge, Busy
  PROVE  /\ missR /\ tl = None /\ ~tv.v /\ in' = None
         /\ ~WbufSuccess /\ ~SendsMiss
<1>1. missR /\ tl = None /\ ~tv.v
  BY DEF CohInv, Pipeline, Stalled, Posedge
<1>2. in' = None
  BY <1>1 DEF Posedge, Issues, Ready
<1>3. ~WbufSuccess /\ ~SendsMiss
  BY <1>1 DEF WbufSuccess, ScSuccess, SendsMiss, Miss, LoadMiss, StoreMiss
<1>4. QED
  BY <1>1, <1>2, <1>3

(* What enters the buffer, and what it means to the engine: the memories   *)
(* are not granted beside it.                                              *)
LEMMA PosStore ==
  ASSUME CohInv, Posedge
  PROVE  /\ WbufIn = WbufSuccess
         /\ WbufIn =>
              /\ ~Busy /\ ~DataYumi /\ ~StatYumi
              /\ tv.v /\ tv.op \in Buffered /\ tv.blk \in Block /\ tv.stWay \in Way
              /\ tv.val \in Data
              /\ Owes(tv.stWay, tv.blk)
              /\ lce # "ready" => tv.blk # cmd.blk
         /\ latest' = IF WbufIn THEN [latest EXCEPT ![tv.blk] = tv.val] ELSE latest
<1>1. phase = "pos"
  BY DEF Posedge
<1>2. WbufIn = WbufSuccess
  <2>1. flush => ~tv.v
    BY <1>1 DEF CohInv, Pipeline, Flushed
  <2>2. flush => ~WbufSuccess
    BY <2>1 DEF WbufSuccess, ScSuccess
  <2>3. QED
    BY <2>2 DEF WbufIn, WbufSuccess
<1>3. ASSUME WbufSuccess
      PROVE  /\ ~Busy /\ ~DataYumi /\ ~StatYumi
             /\ tv.v /\ tv.op \in Buffered /\ tv.blk \in Block /\ tv.stWay \in Way
             /\ tv.val \in Data
             /\ Owes(tv.stWay, tv.blk)
             /\ lce # "ready" => tv.blk # cmd.blk
  <2>1. tv.v /\ tv.op \in Buffered /\ tv.stWay # None
    BY <1>3 DEF WbufSuccess, ScSuccess, Buffered
  <2>2. tv.blk \in Block /\ tv.val \in Data /\ tv.stWay \in Way
    BY <2>1 DEF CohInv, Types, Access, Buffered, WbufInv, EntriesOK
  <2>3. ~DataYumi /\ ~StatYumi
    BY <1>3, <2>1 DEF DataYumi, StatYumi, Cached, Buffered
  <2>4. Owes(tv.stWay, tv.blk) /\ (lce # "ready" => tv.blk # cmd.blk)
    BY <1>1, <1>3 DEF CohInv, Queue, StoreOwed, NoneComes
  <2>5. QED
    BY <1>3, <2>1, <2>2, <2>3, <2>4, PosBusy
<1>4. QED
  BY <1>2, <1>3 DEF Posedge

(* The dirty bits: a store sets its own, and only that of a block that is  *)
(* leaving is cleared.                                                     *)
LEMMA PosDirty ==
  ASSUME CohInv, Posedge
  PROVE  /\ dirty' \in [Way -> BOOLEAN]
         /\ WbufIn => dirty'[tv.stWay]
         /\ StatYumi /\ StatRead => dirty' = dirty
         /\ \A w \in Way : dirty[w] /\ ~dirty'[w] =>
              w = cmd.way /\ Drain /\ Leaving(cmd.blk)
<1>1. /\ dirty \in [Way -> BOOLEAN]
      /\ cmd # None => cmd \in Command
      /\ tv.stWay \in Way \cup {None} /\ Way0 \in Way
  BY DcacheAssumption DEF CohInv, Types, WbufInv, EntriesOK
<1>2. /\ StoreDirties \in [Way -> BOOLEAN]
      /\ tv.stWay # None => StoreDirties[tv.stWay]
      /\ \A w \in Way : dirty[w] => StoreDirties[w]
  <2>1. (IF tv.stWay = None THEN Way0 ELSE tv.stWay) \in Way
    BY <1>1
  <2>2. QED
    BY <1>1, <2>1 DEF StoreDirties
<1>3. dirty' = IF StatYumi
               THEN IF ~StatClear THEN dirty
                    ELSE IF tv.v THEN StoreDirties
                    ELSE [dirty EXCEPT ![cmd.way] = FALSE]
               ELSE IF tv.v /\ Cached /\ ~flush /\ ~Miss /\ tv.op \in Stores
                    THEN StoreDirties ELSE dirty
  BY DEF Posedge, StatMem
<1>4. StatClear => Drain /\ Leaving(cmd.blk) /\ cmd.way \in Way
  <2>1. StatClear => cmd # None /\ Drain /\ (cmd.type = "st_tr" \/ lce = "wb_dirty_rd")
    BY DEF StatClear, In, CohInv, Engine, Stages, Drain, Drains
  <2>2. QED
    BY <1>1, <2>1 DEF Leaving, Command
<1>5. StatRead => ~StatClear
  BY DEF StatRead, StatClear, In
<1>6. WbufIn => /\ ~StatYumi /\ tv.v /\ Cached /\ ~flush /\ ~Miss
                /\ tv.op \in Stores /\ tv.stWay # None
  <2>1. WbufIn => ~StatYumi
    BY PosStore
  <2>2. QED
    BY <2>1
    DEF WbufIn, WbufSuccess, ScSuccess, Cached, Miss, LoadMiss, StoreMiss, Stores,
        Loads
<1>7. dirty' \in [Way -> BOOLEAN]
  BY <1>1, <1>2, <1>3
<1>8. WbufIn => dirty'[tv.stWay]
  BY <1>2, <1>3, <1>6
<1>9. StatYumi /\ StatRead => dirty' = dirty
  BY <1>3, <1>5
<1>10. \A w \in Way : dirty[w] /\ ~dirty'[w] =>
         w = cmd.way /\ Drain /\ Leaving(cmd.blk)
  BY <1>1, <1>2, <1>3, <1>4
<1>11. QED
  BY <1>7, <1>8, <1>9, <1>10

(* The entries of the buffer: those there were, in their order, and what   *)
(* TV adds behind them.                                                    *)
LEMMA PosBuffer ==
  ASSUME CohInv, Posedge
  PROVE  /\ wbuf' \in Seq(Queued) /\ Len(wbuf') \in Nat /\ Len(wbuf') <= 2
         /\ wbuf \in Seq(Queued) /\ Len(wbuf) \in Nat /\ Len(wbuf) <= 2
         /\ WbufYumi => Len(wbuf) >= 1
         /\ WbufIn => Len(wbuf) <= 1
         /\ WbufYumi /\ WbufIn => Len(wbuf') = Len(wbuf)
         /\ WbufYumi /\ ~WbufIn => Len(wbuf') + 1 = Len(wbuf)
         /\ ~WbufYumi /\ WbufIn => Len(wbuf') = Len(wbuf) + 1
         /\ ~WbufYumi /\ ~WbufIn => Len(wbuf') = Len(wbuf)
         /\ WbufIn => wbuf'[Len(wbuf')] =
                        [blk |-> tv.blk, way |-> tv.stWay, val |-> tv.val]
         /\ \A i \in 1 .. Len(wbuf') : ~(WbufIn /\ i = Len(wbuf')) =>
              wbuf'[i] = IF WbufYumi THEN wbuf[i + 1] ELSE wbuf[i]
<1> DEFINE kept == IF WbufYumi THEN Tail(wbuf) ELSE wbuf
           new == [blk |-> tv.blk, way |-> tv.stWay, val |-> tv.val]
<1>1. wbuf \in Seq(Queued) /\ Len(wbuf) <= 2 /\ wbuf' = kept \o (IF WbufIn THEN <<new>> ELSE <<>>)
  BY DEF CohInv, Types, Posedge, WriteBuffer
<1>2. WbufIn => new \in Queued
  BY PosStore DEF Queued
<1>3. Len(wbuf) \in Nat /\ (WbufYumi => wbuf # <<>> /\ Len(wbuf) >= 1)
  BY <1>1 DEF WbufYumi
<1>4. /\ kept \in Seq(Queued)
      /\ Len(kept) = IF WbufYumi THEN Len(wbuf) - 1 ELSE Len(wbuf)
      /\ \A i \in 1 .. Len(kept) :
           kept[i] = IF WbufYumi THEN wbuf[i + 1] ELSE wbuf[i]
  BY <1>1, <1>3
<1>5. WbufInv' /\ (WbufIn => Len(wbuf) <= 1)
  <2>1. WbufInv'
    BY PosedgeStep DEF CohInv
  <2>2. WbufIn => Len(wbuf) <= 1
    BY PosStore DEF CohInv, WbufInv, RoomInTv, Posedge
  <2>3. QED
    BY <2>1, <2>2
<1> HIDE DEF kept, new
<1>6. CASE WbufIn
  <2>1. wbuf' = kept \o <<new>>
    BY <1>1, <1>6
  <2>2. /\ wbuf' \in Seq(Queued) /\ Len(wbuf') = Len(kept) + 1
        /\ wbuf'[Len(kept) + 1] = new
        /\ \A i \in 1 .. Len(kept) : wbuf'[i] = kept[i]
    BY <1>2, <1>4, <1>6, <2>1
  <2>3. \A i \in 1 .. Len(wbuf') : i # Len(wbuf') =>
          wbuf'[i] = IF WbufYumi THEN wbuf[i + 1] ELSE wbuf[i]
    <3>1. Len(kept) \in Nat
      BY <1>4
    <3>2. \A i \in 1 .. Len(wbuf') : i # Len(wbuf') => i \in 1 .. Len(kept)
      BY <2>2, <3>1
    <3>3. QED
      BY <1>4, <2>2, <3>2
  <2>4. wbuf'[Len(wbuf')] = new
    BY <2>2
  <2>5. Len(wbuf') <= 2
    BY <1>5 DEF WbufInv, WbufBounded, WbufEls
  <2>6. /\ WbufYumi => Len(wbuf') = Len(wbuf)
        /\ ~WbufYumi => Len(wbuf') = Len(wbuf) + 1
    BY <1>3, <1>4, <2>2
  <2>7. Len(wbuf') \in Nat
    BY <2>2
  <2>8. QED
    BY <1>1, <1>3, <1>5, <1>6, <2>2, <2>3, <2>4, <2>5, <2>6, <2>7 DEF new
<1>7. CASE ~WbufIn
  <2>1. wbuf' = kept
    BY <1>1, <1>4, <1>7
  <2>2. Len(wbuf') <= 2
    BY <1>5 DEF WbufInv, WbufBounded, WbufEls
  <2>3. wbuf' \in Seq(Queued) /\ Len(wbuf') \in Nat
    BY <1>4, <2>1
  <2>4. /\ WbufYumi => Len(wbuf') + 1 = Len(wbuf)
        /\ ~WbufYumi => Len(wbuf') = Len(wbuf)
    BY <1>3, <1>4, <2>1
  <2>5. \A i \in 1 .. Len(wbuf') : wbuf'[i] = IF WbufYumi THEN wbuf[i + 1] ELSE wbuf[i]
    BY <1>4, <2>1
  <2>6. QED
    BY <1>1, <1>3, <1>7, <2>2, <2>3, <2>4, <2>5
<1>8. QED
  BY <1>6, <1>7

(* An entry of the buffer is an old one or what TV adds.                   *)
LEMMA PosEntries ==
  ASSUME CohInv, Posedge, NEW i \in 1 .. Len(wbuf')
  PROVE  \/ \E j \in 1 .. Len(wbuf) : wbuf'[i] = wbuf[j]
         \/ WbufIn /\ wbuf'[i] = [blk |-> tv.blk, way |-> tv.stWay, val |-> tv.val]
<1>1. CASE WbufIn /\ i = Len(wbuf')
  BY <1>1, PosBuffer
<1>2. CASE ~(WbufIn /\ i = Len(wbuf'))
  <2>1. wbuf'[i] = IF WbufYumi THEN wbuf[i + 1] ELSE wbuf[i]
    BY <1>2, PosBuffer
  <2>2. (IF WbufYumi THEN i + 1 ELSE i) \in 1 .. Len(wbuf)
    <3>1. /\ Len(wbuf) \in Nat /\ Len(wbuf') \in Nat
          /\ WbufYumi /\ WbufIn => Len(wbuf') = Len(wbuf)
          /\ WbufYumi /\ ~WbufIn => Len(wbuf') + 1 = Len(wbuf)
          /\ ~WbufYumi /\ WbufIn => Len(wbuf') = Len(wbuf) + 1
          /\ ~WbufYumi /\ ~WbufIn => Len(wbuf') = Len(wbuf)
      BY PosBuffer
    <3>2. QED
      BY <1>2, <3>1
  <2>3. QED
    BY <2>1, <2>2
<1>3. QED
  BY <1>1, <1>2

(* The newest value of a block is that of the store that enters, else what *)
(* it was: the entry that leaves is in the data memory.                    *)
LEMMA PosNewest ==
  ASSUME CohInv, Posedge, NEW b, NEW v,
         WbufYumi /\ wbuf[1].blk = b => v = wbuf[1].val
  PROVE  Newest(b, v)' = IF WbufIn /\ tv.blk = b THEN tv.val ELSE Newest(b, v)
<1> DEFINE new == [blk |-> tv.blk, way |-> tv.stWay, val |-> tv.val]
<1>1. new.blk = tv.blk /\ new.val = tv.val
  OBVIOUS
<1>2. Newest(b, v)' = IF Len(wbuf') = 2 /\ wbuf'[2].blk = b THEN wbuf'[2].val
                      ELSE IF Len(wbuf') >= 1 /\ wbuf'[1].blk = b THEN wbuf'[1].val
                      ELSE v
  BY DEF Newest
<1>3. WbufIn => wbuf'[Len(wbuf')] = new
  BY PosBuffer
<1> HIDE DEF new
<1>4. /\ Len(wbuf) \in Nat /\ Len(wbuf) <= 2 /\ Len(wbuf') \in Nat
      /\ WbufYumi => Len(wbuf) >= 1
      /\ WbufIn => Len(wbuf) <= 1
      /\ WbufYumi /\ WbufIn => Len(wbuf') = Len(wbuf)
      /\ WbufYumi /\ ~WbufIn => Len(wbuf') + 1 = Len(wbuf)
      /\ ~WbufYumi /\ WbufIn => Len(wbuf') = Len(wbuf) + 1
      /\ ~WbufYumi /\ ~WbufIn => Len(wbuf') = Len(wbuf)
  BY PosBuffer
<1>5. \A i \in 1 .. Len(wbuf') : ~(WbufIn /\ i = Len(wbuf')) =>
        wbuf'[i] = IF WbufYumi THEN wbuf[i + 1] ELSE wbuf[i]
  BY PosBuffer
<1>6. CASE WbufIn /\ WbufYumi
  <2>1. Len(wbuf) = 1 /\ Len(wbuf') = 1
    <3>1. \A n \in Nat : n <= 1 /\ n >= 1 => n = 1
      OBVIOUS
    <3>2. QED
      BY <1>4, <1>6, <3>1
  <2>2. wbuf'[1] = new
    BY <1>3, <1>6, <2>1
  <2>3. QED
    BY <1>1, <1>2, <1>6, <2>1, <2>2 DEF Newest
<1>7. CASE WbufIn /\ ~WbufYumi /\ Len(wbuf) = 0
  <2>1. Len(wbuf') = 1
    BY <1>4, <1>7
  <2>2. wbuf'[1] = new
    BY <1>3, <1>7, <2>1
  <2>3. QED
    BY <1>1, <1>2, <1>7, <2>1, <2>2 DEF Newest
<1>8. CASE WbufIn /\ ~WbufYumi /\ Len(wbuf) = 1
  <2>1. Len(wbuf') = 2
    BY <1>4, <1>8
  <2>2. wbuf'[1] = wbuf[1] /\ wbuf'[2] = new
    BY <1>3, <1>5, <1>8, <2>1
  <2>3. QED
    BY <1>1, <1>2, <1>8, <2>1, <2>2 DEF Newest
<1>9. CASE ~WbufIn /\ WbufYumi /\ Len(wbuf) = 1
  <2>1. Len(wbuf') = 0
    BY <1>4, <1>9
  <2>2. QED
    BY <1>2, <1>9, <2>1 DEF Newest
<1>10. CASE ~WbufIn /\ WbufYumi /\ Len(wbuf) = 2
  <2>1. Len(wbuf') = 1
    BY <1>4, <1>10
  <2>2. wbuf'[1] = wbuf[2]
    BY <1>5, <1>10, <2>1
  <2>3. QED
    BY <1>2, <1>10, <2>1, <2>2 DEF Newest
<1>11. CASE ~WbufIn /\ ~WbufYumi
  <2>1. Len(wbuf') = Len(wbuf)
    BY <1>4, <1>11
  <2>2. \A i \in 1 .. Len(wbuf) : wbuf'[i] = wbuf[i]
    BY <1>5, <1>11, <2>1
  <2>3. /\ Len(wbuf) >= 1 => wbuf'[1] = wbuf[1]
        /\ Len(wbuf) = 2 => wbuf'[2] = wbuf[2]
    BY <1>4, <2>2
  <2>4. QED
    BY <1>2, <1>11, <2>1, <2>3 DEF Newest
<1>12. Len(wbuf) = 0 \/ Len(wbuf) = 1 \/ Len(wbuf) = 2
  <2>1. \A n \in Nat : n <= 2 => n = 0 \/ n = 1 \/ n = 2
    OBVIOUS
  <2>2. QED
    BY <1>4, <2>1
<1>13. QED
  BY <1>4, <1>6, <1>7, <1>8, <1>9, <1>10, <1>11, <1>12

(* Who owes a block is who holds it.                                       *)
LEMMA HeldAlone ==
  ASSUME CohInv, NEW v \in Way, NEW w \in Way, NEW b \in Block,
         Owes(v, b), Holds(w, b)
  PROVE  v = w
<1>1. Draining(b) => \A u \in Way : Copy(u, b) => u = cmd.way
  BY DEF CohInv, Copies, DrainsCopy, Draining
<1>2. Copy(v, b) /\ Copy(w, b) => v = w
  BY DEF CohInv, Copies, OneCopy
<1>3. Owns(v, b) => Copy(v, b)
  BY DEF Owns, Copy, Owned
<1>4. QED
  BY <1>1, <1>2, <1>3 DEF Owes, Holds

(* The registers keep their types.                                         *)
LEMMA PosTypes ==
  ASSUME CohInv, Posedge
  PROVE  Types'
<1>1. tag' = tag /\ line' = line /\ tl' = tl /\ tv' = tv /\ phase = "pos"
  BY DEF Posedge, pipe, mems
<1>2. cmd # None => cmd \in Command /\ Leaves(cmd)
  BY DEF CohInv, Types
<1>3. /\ mem \in [Block -> Data] /\ latest \in [Block -> Data]
      /\ other \in [Block -> {"I", "S", "O"}]
  BY DEF CohInv, Types
<1>4. mem' \in [Block -> Data]
  <2>1. mem' = mem \/ (lce = "wb_dirty_send" /\ mem' = [mem EXCEPT ![cmd.blk] = dataBuf])
    BY PosEngineMoves DEF Stays, Goes, Ends
  <2>2. lce = "wb_dirty_send" => cmd.blk \in Block /\ dataBuf = latest[cmd.blk]
    BY <1>1, <1>2 DEF CohInv, Engine, Stages, Drain, Command, Values, ReadCurrent
  <2>3. QED
    BY <1>3, <2>1, <2>2
<1>5. other' \in [Block -> {"I", "S", "O"}]
  BY <1>3, PosEngineMoves DEF Stays, Goes, Ends
<1>6. latest' \in [Block -> Data]
  BY <1>3, PosStore
<1>7. cmd' # None => cmd' \in Command /\ Leaves(cmd')
  BY <1>2, PosEngineMoves DEF Stays, Goes, Ends
<1>8. req' # None => req' \in Request
  <2>1. CASE SendsMiss
    <3>1. tv.v /\ tv.op \in Loads \cup {"st"}
      BY <2>1 DEF SendsMiss, Miss, LoadMiss, StoreMiss, Loads
    <3>2. tv.blk \in Block
      BY <3>1 DEF CohInv, Types, Access, Loads
    <3>3. PICK w \in Way : req' = [op |-> IF LoadMiss THEN "rd" ELSE "wr",
                                   blk |-> tv.blk, way |-> w]
      BY <2>1 DEF Posedge, Requests
    <3>4. QED
      BY <3>2, <3>3 DEF Request
  <2>2. CASE ~SendsMiss
    BY <2>2 DEF Posedge, Requests, CohInv, Types
  <2>3. QED
    BY <2>1, <2>2
<1>9. in' # None => Access(in')
  <2>1. in' \in {None} \cup Accesses
    BY DEF Posedge, Issues
  <2>2. QED
    BY <2>1 DEF Accesses, Packet, Access, Loads, Buffered
<1>10. statRd' \in BOOLEAN \cup {None} /\ statBuf' \in BOOLEAN \cup {None}
  <2>1. dirty \in [Way -> BOOLEAN]
    BY DEF CohInv, Types
  <2>2. StatYumi /\ StatRead => cmd.way \in Way
    <3>1. StatRead => cmd # None
      BY DEF StatRead, In, CohInv, Engine, Stages, Drain
    <3>2. QED
      BY <1>2, <3>1 DEF Command
  <2>3. statRd' = IF StatYumi /\ StatRead THEN dirty[cmd.way] ELSE None
    BY DEF Posedge, StatBuffer
  <2>4. statBuf' \in {statRd, None, statBuf}
    BY DEF Posedge, StatBuffer
  <2>5. QED
    BY <2>1, <2>2, <2>3, <2>4 DEF CohInv, Types
<1>11. QED
  BY <1>1, <1>4, <1>5, <1>6, <1>7, <1>8, <1>9, <1>10, PosBuffer, PosDirty
  DEF CohInv, Types

(* A command that is there was there before, and fills go on being fills.  *)
LEMMA PosCommand ==
  ASSUME CohInv, Posedge
  PROVE  /\ cmd' # None => cmd # None /\ cmd' = cmd
         /\ Filling' => Filling /\ req = None
         /\ Fetching' => Fetching
         /\ Drain' => Drain
         /\ tag' = tag /\ line' = line /\ tl' = tl /\ tv' = tv /\ dataRd' = dataRd
         /\ phase = "pos" /\ phase' = "neg"
<1>1. cmd' # None => cmd # None /\ cmd' = cmd
  BY PosEngineMoves DEF Stays, Goes, Ends
<1>2. Filling' => Filling /\ req = None
  BY <1>1 DEF Filling, CohInv, Engine, Stages
<1>3. QED
  BY <1>1, <1>2 DEF Fetching, Drain, Posedge, pipe, mems, DataBuffer

(* The pipeline: an access that misses is flushed, with those behind it.   *)
LEMMA PosPipeline ==
  ASSUME CohInv, Posedge
  PROVE  Pipeline'
<1>1. /\ missR' = (~Completes /\ (missR \/ SendsMiss))
      /\ tv.v /\ ~Early => flush'
      /\ resv' = IF tv.op = "lr" /\ Early THEN [blk |-> tv.blk, broken |-> FALSE]
                 ELSE IF tv.op = "sc" \/ TakesReserved THEN None ELSE resv
  BY DEF Posedge, MissTracker, Flushes, Reservation
<1>2. Stalled'
  <2>1. SUFFICES ASSUME Busy'
                 PROVE  missR' /\ (in' = None \/ flush') /\ (flush' \/ (tl = None /\ ~tv.v))
    BY PosCommand DEF Stalled
  <2>2. lce = "coh_ack" => Filling /\ req = None /\ Busy
    BY DEF CohInv, Engine, Stages, Busy
  <2>3. CASE SendsMiss
    <3>1. ~Completes
      BY <2>2, <2>3, PosBusy DEF Completes
    <3>2. tv.v /\ ~Early
      BY <2>3
      DEF SendsMiss, Miss, LoadMiss, StoreMiss, Early, Cached, Loads
    <3>3. QED
      BY <1>1, <2>3, <3>1, <3>2
  <2>4. CASE ~SendsMiss
    <3>1. req' = req
      BY <2>4 DEF Posedge, Requests
    <3>2. Busy
      BY <2>1, <3>1, PosCommand DEF Busy
    <3>3. ~Completes
      <4>1. lce = "coh_ack" => cmd' = None
        BY PosEngineMoves DEF Goes, Ends
      <4>2. lce = "coh_ack" => req' = None /\ ~Filling'
        BY <2>2, <3>1, <4>1 DEF Filling
      <4>3. QED
        BY <2>1, <4>2 DEF Completes, Busy
    <3>4. QED
      BY <1>1, <3>2, <3>3, PosBusy
  <2>5. QED
    BY <2>3, <2>4
<1>3. Flushed' /\ TvFound'
  BY PosCommand DEF Flushed, TvFound
<1>4. ScSpent'
  BY <1>1, PosCommand DEF ScSpent
<1>5. StoreQueued'
  <2>1. SUFFICES ASSUME WbufSuccess'
                 PROVE  /\ wbuf' # <<>>
                        /\ wbuf'[Len(wbuf')] =
                             [blk |-> tv.blk, way |-> tv.stWay, val |-> tv.val]
    BY PosCommand DEF StoreQueued
  <2>2. ~ScSuccess'
    BY <1>1, PosCommand DEF ScSuccess
  <2>3. WbufSuccess
    BY <2>1, <2>2, PosCommand DEF WbufSuccess
  <2>4. WbufIn /\ Len(wbuf') \in Nat /\ wbuf' \in Seq(Queued)
    BY <2>3, PosStore, PosBuffer
  <2>5. Len(wbuf') >= 1
    <3>1. /\ Len(wbuf) \in Nat
          /\ WbufYumi => Len(wbuf) >= 1
          /\ WbufYumi => Len(wbuf') = Len(wbuf)
          /\ ~WbufYumi => Len(wbuf') = Len(wbuf) + 1
      BY <2>4, PosBuffer
    <3>2. QED
      BY <3>1
  <2>6. wbuf' # <<>>
    BY <2>4, <2>5
  <2>7. QED
    BY <2>4, <2>6, PosBuffer
<1>6. TlFound'
  BY PosCommand DEF CohInv, Pipeline, TlFound, HitWay, Owned
<1>7. QED
  BY <1>2, <1>3, <1>4, <1>5, <1>6, PosCommand DEF Pipeline

(* The engine: a command goes on only when its tag is changed, and a stat it*)
(* reads stays what it is while it waits.                                  *)
LEMMA PosEngine ==
  ASSUME CohInv, Posedge
  PROVE  Engine'
<1>1. Stages'
  <2>1. Filling' => req' = None
    <3>1. Filling' => ~SendsMiss /\ req = None
      BY PosCommand, PosBusy DEF Busy
    <3>2. QED
      BY <3>1 DEF Posedge, Requests
  <2>2. CASE Stays
    BY <2>1, <2>2 DEF Stays, CohInv, Engine, Stages, Filling, Drain
  <2>3. CASE Goes
    BY <2>1, <2>3
    DEF Goes, CohInv, Engine, Stages, Filling, Fills, Drain, Drains, Fetching
  <2>4. CASE Ends
    BY <2>1, <2>4 DEF Ends, Stages
  <2>5. QED
    BY <2>2, <2>3, <2>4, PosEngineMoves
<1>2. Stats'
  <2>1. /\ statRd' = IF StatYumi /\ StatRead THEN dirty[cmd.way] ELSE None
        /\ statBuf' = IF statRd # None THEN statRd
                      ELSE IF lce = "ready" \/ (StatYumi /\ StatRead) THEN None
                      ELSE statBuf
    BY DEF Posedge, StatBuffer
  <2>2. /\ statRd # None => lce = "wb" \/
             (lce = "ready" /\ cmd # None /\ cmd.type = "st_wb" /\ statRd = dirty[cmd.way])
        /\ lce \in {"tr", "wb_stat_rd"} => statBuf = None
    BY DEF CohInv, Engine, Stats
  <2>3. ASSUME statRd' # None
        PROVE  lce' = "wb" \/ (lce' = "ready" /\ cmd' # None /\ cmd'.type = "st_wb"
                               /\ statRd' = dirty'[cmd'.way])
    <3>1. StatYumi /\ StatRead /\ statRd' = dirty[cmd.way] /\ dirty' = dirty
      BY <2>1, <2>3, PosDirty
    <3>2. CASE lce = "wb_stat_rd"
      BY <3>1, <3>2, PosEngineMoves DEF Goes, Ends
    <3>3. CASE lce = "ready" /\ cmd # None /\ cmd.type = "st_wb"
      BY <3>1, <3>3, PosEngineMoves DEF Stays, Goes, Ends, Fetching
    <3>4. QED
      BY <3>1, <3>2, <3>3 DEF StatRead, In
  <2>4. ASSUME lce' \in {"tr", "wb_stat_rd"}
        PROVE  statBuf' = None
    <3>1. CASE lce = "ready"
      <4>1. cmd.type # "st_wb"
        BY <2>4, <3>1, PosEngineMoves DEF Stays, Goes, Ends
      <4>2. QED
        BY <2>1, <2>2, <3>1, <4>1
    <3>2. CASE lce \in {"tr", "wb_stat_rd"}
      BY <2>1, <2>2, <3>2
    <3>3. lce \in {"ready", "tr", "wb_stat_rd"}
      BY <2>4, PosEngineMoves DEF Stays, Goes, Ends
    <3>4. QED
      BY <3>1, <3>2, <3>3
  <2>5. QED
    BY <2>3, <2>4 DEF Stats
<1>3. Tagged'
  <2>1. SUFFICES ASSUME cmd' # None, lce' # "ready"
                 PROVE  /\ tag[cmd.way].st = cmd.st
                        /\ Fetching => tag[cmd.way].blk = cmd.blk
    BY PosCommand DEF Tagged, Fetching
  <2>2. cmd # None /\ (lce # "ready" \/ TagYumi)
    BY <2>1, PosEngineMoves DEF Stays, Goes, Ends
  <2>3. QED
    BY <2>2, PosCommand DEF CohInv, Engine, Tagged
<1>4. QED
  BY <1>1, <1>2, <1>3 DEF Engine

(* Who has a block: a cache that asks for it gets it when no copy is left. *)
LEMMA PosCopies ==
  ASSUME CohInv, Posedge
  PROVE  Copies'
<1>1. OneCopy'
  BY PosCommand DEF CohInv, Copies, OneCopy, Copy
<1>2. FillsFree'
  BY PosCommand DEF CohInv, Copies, FillsFree, Copy, Fetching, Owned
<1>3. WakesCopy'
  BY PosCommand DEF CohInv, Copies, WakesCopy, Copy
<1>4. DrainsCopy'
  BY PosCommand DEF CohInv, Copies, DrainsCopy, Copy, Drain
<1>5. InvsCopy'
  BY PosCommand DEF CohInv, Copies, InvsCopy, Owned
<1>6. NotOutside'
  <2>1. SUFFICES ASSUME NEW b \in Block,
                        \/ \E w \in Way : Copy(w, b)'
                        \/ cmd' # None /\ cmd'.type # "inv" /\ cmd'.blk = b
                 PROVE  other'[b] # "O"
    BY DEF NotOutside
  <2>2. \/ \E w \in Way : Copy(w, b)
        \/ cmd # None /\ cmd.type # "inv" /\ cmd.blk = b
    BY <2>1, PosCommand DEF Copy
  <2>3. other[b] # "O"
    BY <2>2 DEF CohInv, Copies, NotOutside
  <2>4. CASE lce = "tr" /\ cmd.type = "st_tr" /\ cmd' = None
             /\ other' = [other EXCEPT ![cmd.blk] = "O"]
    <3>1. Drain /\ Leaves(cmd)
      BY <2>4 DEF CohInv, Engine, Stages, Types, Drain
    <3>2. tag[cmd.way].st = "I"
      BY <2>4, <3>1 DEF CohInv, Engine, Tagged, Leaves, Drain
    <3>3. b # cmd.blk
      <4>1. PICK w \in Way : Copy(w, b)
        BY <2>1, <2>4, PosCommand DEF Copy
      <4>2. Copy(w, cmd.blk) => w = cmd.way
        BY <3>1 DEF CohInv, Copies, DrainsCopy
      <4>3. QED
        BY <3>2, <4>1, <4>2 DEF Copy
    <3>4. QED
      BY <2>3, <2>4, <3>3 DEF CohInv, Types
  <2>5. CASE other' = other \/ other' = [other EXCEPT ![cmd.blk] = "S"]
    BY <2>3, <2>5 DEF CohInv, Types
  <2>6. QED
    BY <2>4, <2>5, PosEngineMoves DEF Stays, Goes, Ends
<1>7. Missing'
  <2>1. SUFFICES ASSUME req' # None, NEW w \in Way
                 PROVE  /\ ~Owns(w, req'.blk)
                        /\ req'.op = "rd" => ~Copy(w, req'.blk)
    BY PosCommand DEF Missing, Owns, Copy, Owned
  <2>2. CASE SendsMiss
    <3>1. PICK way \in Way : req' = [op |-> IF LoadMiss THEN "rd" ELSE "wr",
                                     blk |-> tv.blk, way |-> way]
      BY <2>2 DEF Posedge, Requests
    <3>2. req'.blk = tv.blk /\ req'.op = IF LoadMiss THEN "rd" ELSE "wr"
      BY <3>1
    <3>3. LoadMiss \/ StoreMiss
      BY <2>2 DEF SendsMiss, Miss
    <3>4. tv.v /\ (LoadMiss => tv.ldWay = None) /\ (StoreMiss => tv.stWay = None)
      BY <3>3 DEF LoadMiss, StoreMiss
    <3>5. /\ Copy(w, tv.blk) => tv.ldWay # None
          /\ Owns(w, tv.blk) => tv.stWay # None
      BY <3>4, PosCommand DEF CohInv, Pipeline, TvFound
    <3>6. Owns(w, tv.blk) => Copy(w, tv.blk)
      BY DEF Owns, Copy, Owned
    <3>7. QED
      BY <3>2, <3>3, <3>4, <3>5, <3>6
  <2>3. CASE ~SendsMiss
    BY <2>1, <2>3 DEF Posedge, Requests, CohInv, Copies, Missing
  <2>4. QED
    BY <2>2, <2>3
<1>8. QED
  BY <1>1, <1>2, <1>3, <1>4, <1>5, <1>6, <1>7 DEF Copies

(* A block of which stores wait is not one whose command ends, and goes on *)
(* leaving if it was.                                                      *)
LEMMA PosWaiting ==
  ASSUME CohInv, Posedge, NEW b, Waiting(b)
  PROVE  /\ Draining(b) => cmd' = cmd
         /\ Leaving(b) => Leaving(b)'
         /\ ~DataYumi
<1>1. ~DataYumi
  <2>1. wbuf # <<>>
    BY PosBuffer DEF Waiting
  <2>2. QED
    BY <2>1 DEF DataYumi
<1>2. Draining(b) => cmd' = cmd
  <2>1. SUFFICES ASSUME Draining(b), Ends
                 PROVE  FALSE
    BY PosEngineMoves DEF Stays, Goes
  <2>2. cmd # None /\ cmd.blk = b /\ cmd.type \in Drains /\ Waiting(cmd.blk)
    BY <2>1 DEF Draining, Drain
  <2>3. /\ lce \notin {"tr", "wb_dirty_send"}
        /\ lce = "wb" => statBuf # FALSE
    BY <2>2 DEF CohInv, Queue, NoneQueued
  <2>4. lce # "coh_ack"
    BY <2>2 DEF CohInv, Engine, Stages, Filling, Fills, Drains
  <2>5. QED
    BY <2>1, <2>2, <2>3, <2>4 DEF Ends, Drains
<1>3. Leaving(b) => Leaving(b)'
  <2>1. SUFFICES ASSUME Leaving(b)
                 PROVE  Leaving(b)'
    OBVIOUS
  <2>2. Draining(b)
    BY <2>1
    DEF Leaving, Draining, Drain, Drains, CohInv, Engine, Stages
  <2>3. cmd' = cmd /\ cmd # None /\ cmd.blk = b
    BY <1>2, <2>2 DEF Draining, Drain
  <2>4. lce \in {"wb_dirty_rd", "wb_dirty_send"} =>
          lce' \in {"wb_dirty_rd", "wb_dirty_send"}
    BY <2>3, PosEngineMoves DEF Stays, Goes, Ends
  <2>5. QED
    BY <2>1, <2>3, <2>4 DEF Leaving
<1>4. QED
  BY <1>1, <1>2, <1>3

(* The block that enters the buffer is owed and dirty, and its command, if *)
(* there is one, has not begun.                                            *)
LEMMA PosEnters ==
  ASSUME CohInv, Posedge, WbufIn
  PROVE  /\ Owes(tv.stWay, tv.blk)' /\ dirty'[tv.stWay]
         /\ cmd' # None /\ cmd'.blk = tv.blk => lce' = "ready" /\ ~Fetching'
<1>1. /\ Owes(tv.stWay, tv.blk) /\ dirty'[tv.stWay]
      /\ lce # "ready" => tv.blk # cmd.blk
      /\ ~Busy /\ ~DataYumi /\ ~StatYumi
  BY PosStore, PosDirty
<1>2. Draining(tv.blk) => cmd' = cmd
  <2>1. Draining(tv.blk) => lce = "ready" /\ cmd # None /\ cmd.type # "inv"
    BY <1>1 DEF Draining, Drain, Drains
  <2>2. QED
    BY <2>1, PosEngineMoves DEF Stays, Goes, Ends
<1>3. Owes(tv.stWay, tv.blk)'
  BY <1>1, <1>2, PosCommand DEF Owes, Owns, Owned, Draining, Drain
<1>4. ~Fetching'
  BY <1>1, PosCommand DEF Busy, Filling, Fetching, Fills
<1>5. cmd' # None /\ cmd'.blk = tv.blk => lce' = "ready"
  <2>1. SUFFICES ASSUME cmd' # None, cmd'.blk = tv.blk
                 PROVE  lce' = "ready"
    OBVIOUS
  <2>2. cmd' = cmd /\ cmd # None /\ lce = "ready" /\ cmd.type \notin Fills
    BY <1>1, <2>1, PosCommand DEF Busy, Filling
  <2>3. QED
    BY <1>1, <2>2, PosEngineMoves DEF Stays, Goes, Ends, Fetching, Fills
<1>6. QED
  BY <1>1, <1>3, <1>4, <1>5

(* The stores that wait: the command of a block goes on past its read only *)
(* when none of the block is left.                                         *)
LEMMA PosQueue ==
  ASSUME CohInv, Posedge
  PROVE  Queue'
<1>1. QueuedOwed'
  <2>1. SUFFICES ASSUME NEW i \in 1 .. Len(wbuf')
                 PROVE  /\ Owes(wbuf[i].way, wbuf[i].blk)'
                        /\ dirty'[wbuf'[i].way] \/ Leaving(wbuf[i].blk)'
    BY DEF QueuedOwed
  <2>2. CASE \E j \in 1 .. Len(wbuf) : wbuf'[i] = wbuf[j]
    <3>1. PICK j \in 1 .. Len(wbuf) : wbuf'[i] = wbuf[j]
      BY <2>2
    <3>2. wbuf[j] \in Queued
      BY PosBuffer
    <3>3. SUFFICES ASSUME NEW w \in Way, NEW b \in Block,
                          wbuf[j].way = w, wbuf[j].blk = b
                   PROVE  /\ Owes(wbuf[i].way, wbuf[i].blk)'
                          /\ dirty'[wbuf'[i].way] \/ Leaving(wbuf[i].blk)'
      BY <3>2 DEF Queued
    <3>4. Owes(w, b) /\ (dirty[w] \/ Leaving(b)) /\ Waiting(b)
      BY <3>3 DEF CohInv, Queue, QueuedOwed, Waiting
    <3>5. Owes(w, b)'
      BY <3>4, PosWaiting, PosCommand DEF Owes, Owns, Owned, Draining, Drain
    <3>6. Owes(wbuf[i].way, wbuf[i].blk)'
      BY <3>1, <3>3, <3>5 DEF Owes, Owns, Draining
    <3>7. dirty'[w] \/ Leaving(b)'
      <4>1. SUFFICES ASSUME ~dirty'[w], dirty[w]
                     PROVE  Leaving(b)'
        BY <3>4, PosWaiting
      <4>2. w = cmd.way /\ Drain /\ Leaving(cmd.blk)
        BY <4>1, PosDirty
      <4>3. b = cmd.blk
        BY <3>4, <4>2
        DEF Owes, Owns, Owned, Draining, CohInv, Copies, DrainsCopy, Copy
      <4>4. QED
        BY <3>4, <4>2, <4>3, PosWaiting
    <3>8. QED
      BY <3>1, <3>3, <3>6, <3>7 DEF Leaving
  <2>3. CASE WbufIn /\ wbuf'[i] = [blk |-> tv.blk, way |-> tv.stWay, val |-> tv.val]
    <3>1. wbuf'[i].way = tv.stWay /\ wbuf'[i].blk = tv.blk
      BY <2>3
    <3>2. Owes(tv.stWay, tv.blk)' /\ dirty'[tv.stWay]
      BY <2>3, PosEnters
    <3>3. QED
      BY <3>1, <3>2, PosCommand DEF Owes, Owns, Draining
  <2>4. QED
    BY <2>2, <2>3, PosEntries
<1>2. StoreOwed' /\ NoneComes'
  BY PosCommand DEF StoreOwed, NoneComes
<1>3. NoneQueued'
  <2>1. SUFFICES ASSUME cmd' # None, NEW i \in 1 .. Len(wbuf'),
                        wbuf'[i].blk = cmd'.blk
                 PROVE  /\ ~Fetching'
                        /\ lce' \notin {"tr", "wb_stat_rd", "wb_dirty_send"}
                        /\ lce' = "wb" => statRd' # FALSE /\ statBuf' # FALSE
                                            /\ cmd'.type = "st_wb"
    BY DEF NoneQueued, Waiting
  <2>2. cmd' = cmd /\ cmd # None
    BY <2>1, PosCommand
  <2>3. CASE WbufIn /\ wbuf'[i] = [blk |-> tv.blk, way |-> tv.stWay, val |-> tv.val]
    <3>1. wbuf'[i].blk = tv.blk
      BY <2>3
    <3>2. QED
      BY <2>1, <2>3, <3>1, PosEnters
  <2>4. CASE \E j \in 1 .. Len(wbuf) : wbuf'[i] = wbuf[j]
    <3>1. PICK j \in 1 .. Len(wbuf) : wbuf'[i] = wbuf[j]
      BY <2>4
    <3>2. Waiting(cmd.blk)
      BY <2>1, <2>2, <3>1 DEF Waiting
    <3>3. /\ ~Fetching
          /\ lce \notin {"tr", "wb_stat_rd", "wb_dirty_send"}
          /\ lce = "wb" => statRd # FALSE /\ statBuf # FALSE /\ cmd.type = "st_wb"
      BY <2>2, <3>2 DEF CohInv, Queue, NoneQueued
    <3>4. ~DataYumi
      BY <3>2, PosWaiting
    <3>5. lce' \notin {"tr", "wb_stat_rd", "wb_dirty_send"}
      BY <2>2, <3>3, <3>4, PosEngineMoves DEF Stays, Goes, Ends
    <3>6. /\ statRd' = IF StatYumi /\ StatRead THEN dirty[cmd.way] ELSE None
          /\ statBuf' = IF statRd # None THEN statRd
                        ELSE IF lce = "ready" \/ (StatYumi /\ StatRead) THEN None
                        ELSE statBuf
          /\ None # FALSE
      BY DcacheAssumption DEF Posedge, StatBuffer
    <3>7. ASSUME lce' = "wb"
          PROVE  statRd' # FALSE /\ statBuf' # FALSE /\ cmd'.type = "st_wb"
      <4>1. CASE lce = "wb"
        <5>1. ~StatRead
          BY <4>1 DEF StatRead, In
        <5>2. QED
          BY <2>2, <3>3, <3>6, <4>1, <5>1
      <4>2. CASE lce # "wb"
        <5>1. lce = "ready" /\ cmd.type = "st_wb"
          BY <2>2, <3>3, <3>7, <4>2, PosEngineMoves DEF Stays, Goes, Ends
        <5>2. Drain /\ ~Leaving(cmd.blk)
          BY <2>2, <5>1 DEF Drain, Drains, Leaving
        <5>3. Owes(wbuf[j].way, wbuf[j].blk) /\ (dirty[wbuf[j].way] \/ Leaving(cmd.blk))
          BY <2>1, <2>2, <3>1 DEF CohInv, Queue, QueuedOwed
        <5>4. wbuf[j].way = cmd.way
          <6>1. wbuf[j].way \in Way /\ wbuf[j].blk = cmd.blk
            <7>1. wbuf[j] \in Queued
              BY PosBuffer
            <7>2. QED
              BY <2>1, <2>2, <3>1, <7>1 DEF Queued
          <6>2. Copy(wbuf[j].way, cmd.blk) => wbuf[j].way = cmd.way
            BY <5>2, <6>1 DEF CohInv, Copies, DrainsCopy
          <6>3. QED
            BY <5>3, <6>1, <6>2 DEF Owes, Owns, Copy, Owned
        <5>5. dirty[cmd.way] = TRUE
          <6>1. dirty[cmd.way] \in BOOLEAN
            BY <2>2 DEF CohInv, Types, Command
          <6>2. QED
            BY <5>2, <5>3, <5>4, <6>1
        <5>6. statRd # None => statRd = dirty[cmd.way]
          BY <5>1 DEF CohInv, Engine, Stats
        <5>7. QED
          BY <2>2, <3>6, <5>1, <5>5, <5>6
      <4>3. QED
        BY <4>1, <4>2
    <3>8. QED
      BY <3>3, <3>5, <3>7, PosCommand
  <2>5. QED
    BY <2>3, <2>4, PosEntries
<1>4. QED
  BY <1>1, <1>2, <1>3 DEF Queue

(* A block on its way out whose bit is clean is in memory as it is.        *)
LEMMA CleanIsCurrent ==
  ASSUME CohInv, Drain, ~Leaving(cmd.blk), dirty[cmd.way] = FALSE
  PROVE  mem[cmd.blk] = latest[cmd.blk]
<1>1. cmd # None /\ cmd.blk \in Block /\ cmd.type # "inv"
  BY DEF CohInv, Types, Drain, Drains, Command
<1>2. other[cmd.blk] # "O"
  BY <1>1 DEF CohInv, Copies, NotOutside
<1>3. \A w \in Way : Owes(w, cmd.blk) => w = cmd.way
  BY DEF Owes, Owns, Owned, Draining, CohInv, Copies, DrainsCopy, Copy
<1>4. QED
  BY <1>1, <1>2, <1>3 DEF CohInv, Values, MemCurrent

(* What an engine that is granted the data memory reads.                   *)
LEMMA ReadIsCurrent ==
  ASSUME CohInv, Posedge, Drain, DataYumi, DataRead
  PROVE  dataRd = latest[cmd.blk] /\ ~WbufIn
<1>1. cmd.blk \in Block /\ cmd.way \in Way /\ phase = "pos"
  BY DEF CohInv, Types, Drain, Command, Posedge
<1>2. dataRd = line[cmd.way]
  BY <1>1 DEF CohInv, Values, ReadCurrent
<1>3. Holds(cmd.way, cmd.blk)
  BY DEF Holds, Draining
<1>4. wbuf = <<>>
  BY DEF DataYumi
<1>5. Newest(cmd.blk, line[cmd.way]) = line[cmd.way]
  BY <1>4 DEF Newest
<1>6. QED
  BY <1>1, <1>2, <1>3, <1>5, PosStore DEF CohInv, Values, HeldCurrent

(* A frame that has a block keeps its newest value, or gets a new one with *)
(* the store; a fill that ends has the value stored last.                  *)
LEMMA PosHeld ==
  ASSUME CohInv, Posedge
  PROVE  HeldCurrent'
<1>1. SUFFICES ASSUME NEW w \in Way, NEW b \in Block, NEW v \in Data,
                      v = line[w], Holds(w, b)'
               PROVE  Newest(b, v)' = latest'[b]
  <2>1. line \in [Way -> Data] /\ line' = line
    BY PosCommand DEF CohInv, Types
  <2>2. QED
    BY <2>1 DEF HeldCurrent, Newest
<1>2. /\ latest \in [Block -> Data]
      /\ latest' = IF WbufIn THEN [latest EXCEPT ![tv.blk] = tv.val] ELSE latest
      /\ WbufIn => tv.blk \in Block
  BY PosStore DEF CohInv, Types
<1>3. latest'[b] = IF WbufIn /\ tv.blk = b THEN tv.val ELSE latest[b]
  BY <1>2
<1>4. CASE Holds(w, b)
  <2>1. Newest(b, v) = latest[b]
    BY <1>1, <1>4 DEF CohInv, Values, HeldCurrent
  <2>2. WbufYumi /\ wbuf[1].blk = b => v = wbuf[1].val
    <3>1. SUFFICES ASSUME WbufYumi, wbuf[1].blk = b
                   PROVE  v = wbuf[1].val
      OBVIOUS
    <3>2. line[wbuf[1].way] = wbuf[1].val
      BY <3>1, PosCommand DEF CohInv, Values, Drained
    <3>3. wbuf # <<>>
      BY <3>1 DEF WbufYumi
    <3>4. Owes(wbuf[1].way, b) /\ wbuf[1].way \in Way
      BY <3>1, <3>3, FirstEntry DEF Queued
    <3>5. wbuf[1].way = w
      BY <1>4, <3>4, HeldAlone
    <3>6. QED
      BY <1>1, <3>2, <3>5
  <2>3. Newest(b, v)' = IF WbufIn /\ tv.blk = b THEN tv.val ELSE Newest(b, v)
    BY <2>2, PosNewest
  <2>4. QED
    BY <1>3, <2>1, <2>3
<1>5. CASE ~Holds(w, b)
  <2>1. Copy(w, b) /\ Fetching /\ cmd.way = w /\ ~Fetching'
    BY <1>1, <1>5, PosCommand DEF Holds, Copy, Draining, Drain, Fetching
  <2>2. lce = "coh_ack" /\ cmd # None /\ Busy /\ cmd.type = "data"
    <3>1. Ends /\ cmd.type = "data" /\ cmd # None
      BY <2>1, PosEngineMoves DEF Stays, Goes, Fetching
    <3>2. lce = "coh_ack"
      BY <3>1 DEF Ends, CohInv, Engine, Stages, Drain, Drains
    <3>3. QED
      BY <2>1, <3>1, <3>2 DEF Busy, Filling, Fills
  <2>3. cmd.blk = b
    <3>1. tag[cmd.way].blk = cmd.blk
      BY <2>1, <2>2 DEF CohInv, Engine, Tagged
    <3>2. QED
      BY <2>1, <3>1 DEF Copy
  <2>4. v = latest[b]
    BY <1>1, <2>1, <2>2, <2>3 DEF CohInv, Values, FillCurrent
  <2>5. ~WbufIn
    BY <2>2, PosStore
  <2>6. ~Waiting(b)
    BY <2>1, <2>2, <2>3 DEF CohInv, Queue, NoneQueued
  <2>7. Newest(b, v) = v
    <3>1. /\ Len(wbuf) >= 1 => 1 \in 1 .. Len(wbuf)
          /\ Len(wbuf) = 2 => 2 \in 1 .. Len(wbuf)
      <4>1. Len(wbuf) \in Nat
        BY PosBuffer
      <4>2. QED
        BY <4>1
    <3>2. QED
      BY <2>6, <3>1 DEF Newest, Waiting
  <2>8. ~(WbufYumi /\ wbuf[1].blk = b)
    BY <2>6, FirstEntry DEF WbufYumi
  <2>9. QED
    BY <1>3, <2>4, <2>5, <2>7, <2>8, PosNewest
<1>6. QED
  BY <1>4, <1>5

(* A block that is not dirty is in memory: a store sets the bit, and a block*)
(* whose bit is cleared is leaving until memory has it.                    *)
LEMMA PosMemory ==
  ASSUME CohInv, Posedge
  PROVE  MemCurrent'
<1>1. SUFFICES ASSUME NEW b \in Block, other'[b] # "O", ~Leaving(b)',
                      \A w \in Way : Owes(w, b)' => ~dirty'[w]
               PROVE  mem'[b] = latest'[b]
  BY DEF MemCurrent
<1>2. /\ mem \in [Block -> Data] /\ latest \in [Block -> Data]
      /\ other \in [Block -> {"I", "S", "O"}]
      /\ cmd # None => cmd \in Command
  BY DEF CohInv, Types
<1>3. ~(WbufIn /\ tv.blk = b)
  <2>1. SUFFICES ASSUME WbufIn, tv.blk = b
                 PROVE  FALSE
    OBVIOUS
  <2>2. Owes(tv.stWay, tv.blk)' /\ dirty'[tv.stWay] /\ tv.stWay \in Way
    BY <2>1, PosEnters, PosStore
  <2>3. ASSUME NEW w \in Way, w = tv.stWay
        PROVE  FALSE
    <3>1. Owes(w, b)'
      BY <2>1, <2>2, <2>3, PosCommand DEF Owes, Owns, Draining
    <3>2. QED
      BY <1>1, <2>2, <2>3, <3>1
  <2>4. QED
    BY <2>2, <2>3
<1>4. latest'[b] = latest[b]
  BY <1>2, <1>3, PosStore
<1>5. CASE Ends /\ Draining(b)
  <2>1. cmd.blk = b /\ Drain
    BY <1>5 DEF Draining
  <2>2. CASE lce = "wb_dirty_send"
    <3>1. dataBuf = latest[b]
      BY <2>1, <2>2, PosCommand DEF CohInv, Values, ReadCurrent
    <3>2. mem' = [mem EXCEPT ![cmd.blk] = dataBuf]
      BY <1>5, <2>2 DEF Ends
    <3>3. QED
      BY <1>2, <1>4, <2>1, <3>1, <3>2
  <2>3. CASE lce = "wb"
    <3>1. statBuf = FALSE /\ mem' = mem
      BY <1>5, <2>3 DEF Ends
    <3>2. QED
      BY <1>4, <2>1, <2>3, <3>1 DEF CohInv, Values, CleanCurrent
  <2>4. CASE lce = "tr"
    BY <1>1, <1>2, <1>5, <2>1, <2>4 DEF Ends
  <2>5. lce \in {"wb_dirty_send", "wb", "tr"}
    BY <1>5, <2>1 DEF Ends, CohInv, Engine, Stages, Filling, Fills, Drain, Drains
  <2>6. QED
    BY <2>2, <2>3, <2>4, <2>5
<1>6. CASE ~(Ends /\ Draining(b))
  <2>1. Draining(b) => cmd' = cmd
    BY <1>6, PosEngineMoves DEF Stays, Goes
  <2>2. mem'[b] = mem[b]
    <3>1. Ends => cmd.blk # b \/ cmd.type \notin Drains
      BY <1>6 DEF Ends, Draining, Drain
    <3>2. lce = "wb_dirty_send" => cmd.type \in Drains
      BY DEF CohInv, Engine, Stages, Drain
    <3>3. QED
      BY <1>2, <3>1, <3>2, PosEngineMoves DEF Stays, Goes, Ends, Command
  <2>3. other[b] # "O"
    <3>1. Draining(b) => other[b] # "O"
      BY DEF Draining, Drain, Drains, CohInv, Copies, NotOutside
    <3>2. other'[b] = other[b] \/ Draining(b)
      BY <1>2, PosEngineMoves
      DEF Stays, Goes, Ends, Draining, Drain, Drains, CohInv, Engine, Stages
    <3>3. QED
      BY <1>1, <3>1, <3>2
  <2>4. ~Leaving(b)
    <3>1. SUFFICES ASSUME Leaving(b)
                   PROVE  Leaving(b)'
      BY <1>1
    <3>2. Draining(b) /\ cmd' = cmd /\ cmd # None /\ cmd.blk = b
      BY <2>1, <3>1
      DEF Leaving, Draining, Drain, Drains, CohInv, Engine, Stages
    <3>3. lce \in {"wb_dirty_rd", "wb_dirty_send"} =>
            lce' \in {"wb_dirty_rd", "wb_dirty_send"}
      BY <1>6, <3>2, PosEngineMoves DEF Stays, Goes
    <3>4. QED
      BY <3>1, <3>2, <3>3 DEF Leaving
  <2>5. ASSUME NEW w \in Way, Owes(w, b)
        PROVE  ~dirty[w]
    <3>1. Owes(w, b)'
      BY <2>1, <2>5, PosCommand DEF Owes, Owns, Owned, Draining, Drain
    <3>2. ~dirty'[w]
      BY <1>1, <3>1
    <3>3. w = cmd.way /\ Drain => b = cmd.blk
      BY <2>5 DEF Owes, Owns, Owned, Draining, CohInv, Copies, DrainsCopy, Copy
    <3>4. QED
      BY <2>4, <3>2, <3>3, PosDirty
  <2>6. mem[b] = latest[b]
    BY <2>3, <2>4, <2>5 DEF CohInv, Values, MemCurrent
  <2>7. QED
    BY <1>4, <2>2, <2>6
<1>7. QED
  BY <1>5, <1>6

(* The values: what the engine has read, or calls clean, is current.       *)
LEMMA PosValues ==
  ASSUME CohInv, Posedge
  PROVE  Values'
<1>1. FillCurrent'
  <2>1. SUFFICES ASSUME Fetching'
                 PROVE  /\ cmd.val = latest'[cmd.blk]
                        /\ lce' = "coh_ack" => line[cmd.way] = cmd.val
    BY PosCommand DEF FillCurrent, Fetching
  <2>2. Fetching /\ Busy
    BY <2>1, PosCommand DEF Fetching, Busy, Filling, Fills
  <2>3. latest' = latest
    BY <2>2, PosStore
  <2>4. /\ cmd.val = latest[cmd.blk]
        /\ lce = "coh_ack" \/ DataYumi => line[cmd.way] = cmd.val
    BY <2>2, PosCommand DEF CohInv, Values, FillCurrent
  <2>5. lce' = "coh_ack" => lce = "coh_ack" \/ DataYumi
    BY <2>2, PosEngineMoves DEF Stays, Goes, Ends, Fetching
  <2>6. QED
    BY <2>3, <2>4, <2>5
<1>2. CleanCurrent'
  <2>1. SUFFICES ASSUME lce' = "wb", statRd' = FALSE \/ statBuf' = FALSE
                 PROVE  mem'[cmd'.blk] = latest'[cmd'.blk]
    BY DEF CleanCurrent
  <2>2. /\ statRd' = IF StatYumi /\ StatRead THEN dirty[cmd.way] ELSE None
        /\ statBuf' = IF statRd # None THEN statRd
                      ELSE IF lce = "ready" \/ (StatYumi /\ StatRead) THEN None
                      ELSE statBuf
        /\ None # FALSE
    BY DcacheAssumption DEF Posedge, StatBuffer
  <2>3. \/ lce = "wb" /\ cmd' = cmd /\ mem' = mem
        \/ lce = "wb_stat_rd" /\ StatYumi /\ cmd' = cmd /\ mem' = mem
        \/ lce = "ready" /\ StatYumi /\ cmd # None /\ cmd.type = "st_wb"
             /\ cmd' = cmd /\ mem' = mem
    BY <2>1, PosEngineMoves DEF Stays, Goes, Ends
  <2>4. Drain /\ cmd.blk \in Block
    BY <2>3 DEF CohInv, Engine, Stages, Types, Drain, Drains, Command
  <2>5. latest'[cmd.blk] = latest[cmd.blk]
    <3>1. WbufIn => tv.blk # cmd.blk
      BY <2>3, PosStore
    <3>2. QED
      BY <2>4, <3>1, PosStore DEF CohInv, Types
  <2>6. mem[cmd.blk] = latest[cmd.blk]
    <3>1. CASE lce = "wb"
      <4>1. ~StatRead
        BY <3>1 DEF StatRead, In
      <4>2. QED
        BY <2>1, <2>2, <3>1, <4>1 DEF CohInv, Values, CleanCurrent
    <3>2. CASE lce # "wb"
      <4>1. ~Leaving(cmd.blk)
        BY <2>3, <3>2 DEF Leaving, CohInv, Engine, Stages
      <4>2. statRd # None => statRd = dirty[cmd.way]
        BY <3>2 DEF CohInv, Engine, Stats
      <4>3. lce = "wb_stat_rd" => statBuf = None
        BY DEF CohInv, Engine, Stats
      <4>4. dirty[cmd.way] = FALSE
        BY <2>1, <2>2, <2>3, <3>2, <4>2, <4>3
      <4>5. QED
        BY <2>4, <4>1, <4>4, CleanIsCurrent
    <3>3. QED
      BY <3>1, <3>2
  <2>7. QED
    BY <2>3, <2>5, <2>6
<1>3. ReadCurrent'
  <2>1. SUFFICES ASSUME lce' \in {"tr", "wb_dirty_send"}
                 PROVE  dataRd = latest'[cmd'.blk]
    BY PosCommand DEF ReadCurrent
  <2>2. cmd' = cmd /\ Drain /\ DataYumi /\ DataRead
    BY <2>1, PosEngineMoves
    DEF Stays, Goes, Ends, Drain, Drains, CohInv, Engine, Stages, DataRead, In
  <2>3. QED
    BY <2>2, ReadIsCurrent, PosStore
<1>4. Drained' /\ LoadCurrent'
  BY PosCommand DEF Drained, LoadCurrent
<1>5. LoadRead'
  BY PosCommand DEF CohInv, Values, LoadRead, Loads
<1>6. QED
  BY <1>1, <1>2, <1>3, <1>4, <1>5, PosHeld, PosMemory DEF Values

(* The rising edge keeps the invariant.                                    *)
LEMMA PosedgeCoherent ==
  ASSUME CohInv, Posedge
  PROVE  CohInv'
<1>1. WbufInv'
  BY PosedgeStep DEF CohInv
<1>2. QED
  BY <1>1, PosTypes, PosPipeline, PosEngine, PosCopies, PosQueue, PosValues
  DEF CohInv

----------------------------------------------------------------------------
(* The environment.                                                        *)

(* It sends a command, to a cache that has none.                           *)
Commands ==
  /\ phase = "neg" /\ cmd = None /\ UNCHANGED <<Local, mem, latest>>
  /\ cmd' \in Command /\ Leaves(cmd') /\ other[cmd'.blk] # "O"
  /\ other' = other \/ \E st \in {"I", "S"} : other' = [other EXCEPT ![cmd'.blk] = st]
  /\ req' = req \/ (req # None /\ req' = None)
  /\ cmd'.type \in Fills => req # None /\ req' = None
  /\ cmd'.type = "data" => /\ \A w \in Way : ~Copy(w, cmd'.blk)
                           /\ tag[cmd'.way].st \notin Owned
                           /\ cmd'.val = latest[cmd'.blk]
  /\ cmd'.type = "st_wakeup" => Copy(cmd'.way, cmd'.blk)
  /\ cmd'.type \in Drains => Owns(cmd'.way, cmd'.blk)
  /\ cmd'.type = "inv" => tag[cmd'.way].st \notin Owned

(* The other caches take or give up a block.                               *)
Shares(b) ==
  /\ phase = "neg" /\ UNCHANGED <<Local, cmd, req, latest>>
  /\ \E st \in {"I", "S", "O"} :
       /\ other' = [other EXCEPT ![b] = st]
       /\ st = "O" => cmd = None /\ \A w \in Way : ~Copy(w, b)
       /\ other[b] = "O" /\ st # "O" => mem'[b] = latest[b]
  /\ mem' = mem \/ mem' = [mem EXCEPT ![b] = latest[b]]

(* A request is answered by a command of that form.                        *)
LEMMA ServeMissCommands ==
  ASSUME CohInv, ServeMiss
  PROVE  Commands
<1>1. /\ phase = "neg" /\ cmd = None /\ UNCHANGED <<Local, mem, latest>>
      /\ req # None /\ other[req.blk] # "O"
  BY DEF ServeMiss, Free
<1>2. /\ req.op \in {"rd", "wr"} /\ req.blk \in Block /\ req.way \in Way
      /\ mem \in [Block -> Data] /\ other \in [Block -> {"I", "S", "O"}]
      /\ tag \in [Way -> Frame] /\ \A w \in Way : tag[w].st # "I" => tag[w].blk \in Block
  BY <1>1 DEF CohInv, Types, Request
<1>3. CASE req.op = "wr" /\ Mine(req.blk, {"S"})
  <2>1. HitWay(req.blk, {"S"}) \in Way /\ Copy(HitWay(req.blk, {"S"}), req.blk)
    BY <1>3, HitFound DEF Mine, Copy
  <2>2. /\ cmd' = [type |-> "st_wakeup", blk |-> req.blk,
                   way |-> HitWay(req.blk, {"S"}), st |-> "M", val |-> None]
        /\ other' = [other EXCEPT ![req.blk] = "I"] /\ req' = None
    BY <1>3 DEF ServeMiss, Send, Outside
  <2>3. /\ cmd'.type = "st_wakeup" /\ cmd'.blk = req.blk
        /\ cmd'.way = HitWay(req.blk, {"S"}) /\ cmd'.st = "M" /\ cmd'.val = None
    BY <2>2
  <2>4. cmd' \in Command
    BY <1>2, <2>1, <2>2 DEF Command, Fills, States, Owned
  <2>5. Leaves(cmd')
    BY <2>3 DEF Leaves
  <2>6. QED
    BY <1>1, <2>1, <2>2, <2>3, <2>4, <2>5 DEF Commands, Drains
<1>4. CASE ~(req.op = "wr" /\ Mine(req.blk, {"S"})) /\ tag[req.way].st \in Owned
  <2>1. /\ cmd' = [type |-> "st_wb", blk |-> tag[req.way].blk, way |-> req.way,
                   st |-> "I", val |-> None]
        /\ other' = other /\ req' = req
    BY <1>4 DEF ServeMiss, Send
  <2>2. /\ cmd'.type = "st_wb" /\ cmd'.blk = tag[req.way].blk
        /\ cmd'.way = req.way /\ cmd'.st = "I"
    BY <2>1
  <2>3. Owns(req.way, tag[req.way].blk) /\ Copy(req.way, tag[req.way].blk)
          /\ tag[req.way].blk \in Block
    BY <1>2, <1>4 DEF Owns, Copy, Owned
  <2>4. cmd' \in Command
    BY <1>2, <2>1, <2>3 DEF Command, Drains, States
  <2>5. Leaves(cmd')
    BY <2>2 DEF Leaves
  <2>6. other[cmd'.blk] # "O"
    BY <1>2, <2>2, <2>3 DEF CohInv, Copies, NotOutside
  <2>7. QED
    BY <1>1, <2>1, <2>2, <2>3, <2>4, <2>5, <2>6 DEF Commands, Fills, Drains
<1>5. CASE ~(req.op = "wr" /\ Mine(req.blk, {"S"})) /\ tag[req.way].st \notin Owned
  <2> DEFINE st == IF req.op = "wr" THEN "M"
                   ELSE IF other[req.blk] = "S" THEN "S" ELSE "E"
             ost == IF req.op = "wr" THEN "I" ELSE other[req.blk]
  <2>1. /\ cmd' = [type |-> "data", blk |-> req.blk, way |-> req.way, st |-> st,
                   val |-> mem[req.blk]]
        /\ other' = [other EXCEPT ![req.blk] = ost] /\ req' = None
    BY <1>5 DEF ServeMiss, Send, Outside
  <2>2. st \in {"S", "E", "M"} /\ ost \in {"I", "S"}
    BY <1>1, <1>2
  <2> HIDE DEF st, ost
  <2>3. /\ cmd'.type = "data" /\ cmd'.blk = req.blk
        /\ cmd'.way = req.way /\ cmd'.st = st /\ cmd'.val = mem[req.blk]
    BY <2>1
  <2>4. cmd' \in Command
    BY <1>2, <2>1, <2>2 DEF Command, Fills, States, Owned
  <2>5. Leaves(cmd')
    BY <1>2, <2>2, <2>3 DEF Leaves
  <2>6. \A w \in Way : ~Copy(w, req.blk)
    <3>1. \A w \in Way : ~Owns(w, req.blk) /\ (req.op = "rd" => ~Copy(w, req.blk))
      BY <1>1 DEF CohInv, Copies, Missing
    <3>2. req.op = "wr" => \A w \in Way : ~(tag[w].blk = req.blk /\ tag[w].st \in {"S"})
      BY <1>5, HitFound DEF Mine
    <3>3. \A w \in Way : tag[w].st \in {"I", "S"} \cup Owned
      BY <1>2 DEF Frame, States
    <3>4. QED
      BY <1>2, <3>1, <3>2, <3>3 DEF Copy, Owns
  <2>7. mem[req.blk] = latest[req.blk]
    <3>1. ~Leaving(req.blk)
      BY <1>1 DEF Leaving
    <3>2. \A w \in Way : ~Owes(w, req.blk)
      BY <1>1, <2>6 DEF Owes, Owns, Copy, Owned, Draining, Drain
    <3>3. QED
      BY <1>1, <1>2, <3>1, <3>2 DEF CohInv, Values, MemCurrent
  <2>8. QED
    BY <1>1, <1>5, <2>1, <2>2, <2>3, <2>4, <2>5, <2>6, <2>7 DEF Commands, Drains
<1>6. QED
  BY <1>3, <1>4, <1>5

(* A command to a block that is owned, or shared, in the way that has it.  *)
LEMMA OtherMoves ==
  ASSUME CohInv, NEW b \in Block, OtherReads(b) \/ OtherWrites(b) \/ OtherGivesUp(b)
  PROVE  Commands \/ Shares(b)
<1>1. /\ other \in [Block -> {"I", "S", "O"}] /\ tag \in [Way -> Frame]
      /\ phase = "neg"
  BY DEF CohInv, Types, OtherReads, OtherWrites, OtherGivesUp, Free
<1>2. ASSUME NEW states, Mine(b, states)
      PROVE  /\ HitWay(b, states) \in Way
             /\ tag[HitWay(b, states)].blk = b /\ tag[HitWay(b, states)].st \in states
  BY <1>2, HitFound DEF Mine
<1>3. ASSUME NEW type \in {"st_tr_wb", "st_tr"}, NEW st \in {"S", "I"},
             type = "st_tr_wb" <=> st = "S",
             Mine(b, Owned), Free, Send(type, b, HitWay(b, Owned), st, None),
             UNCHANGED <<Local, other, req, mem, latest>>
      PROVE  Commands
  <2>1. /\ cmd' = [type |-> type, blk |-> b, way |-> HitWay(b, Owned), st |-> st,
                   val |-> None]
        /\ phase = "neg" /\ cmd = None
    BY <1>3 DEF Send, Free
  <2>2. /\ cmd'.type = type /\ cmd'.blk = b /\ cmd'.way = HitWay(b, Owned)
        /\ cmd'.st = st
    BY <2>1
  <2>3. Owns(HitWay(b, Owned), b) /\ Copy(HitWay(b, Owned), b) /\ HitWay(b, Owned) \in Way
    BY <1>2, <1>3 DEF Owns, Copy, Owned
  <2>4. cmd' \in Command
    BY <2>1, <2>3 DEF Command, Drains, States
  <2>5. Leaves(cmd')
    BY <1>3, <2>2 DEF Leaves
  <2>6. other[b] # "O"
    BY <2>3 DEF CohInv, Copies, NotOutside
  <2>7. QED
    BY <1>3, <2>1, <2>2, <2>3, <2>4, <2>5, <2>6 DEF Commands, Fills, Drains
<1>4. CASE OtherReads(b)
  <2>1. CASE Mine(b, Owned)
    BY <1>3, <1>4, <2>1 DEF OtherReads
  <2>2. CASE ~Mine(b, Owned)
    BY <1>1, <1>4, <2>2 DEF OtherReads, Outside, Shares
  <2>3. QED
    BY <2>1, <2>2
<1>5. CASE OtherWrites(b)
  <2>1. CASE Mine(b, Owned)
    <3>1. ~Mine(b, {"S"})
      <4>1. /\ HitWay(b, Owned) \in Way /\ tag[HitWay(b, Owned)].blk = b
            /\ tag[HitWay(b, Owned)].st \in Owned
        BY <1>2, <2>1
      <4>2. Mine(b, {"S"}) =>
              /\ HitWay(b, {"S"}) \in Way /\ tag[HitWay(b, {"S"})].blk = b
              /\ tag[HitWay(b, {"S"})].st \in {"S"}
        BY <1>2
      <4>3. Mine(b, {"S"}) => HitWay(b, {"S"}) = HitWay(b, Owned)
        BY <4>1, <4>2 DEF CohInv, Copies, OneCopy, Copy, Owned
      <4>4. QED
        BY <4>1, <4>2, <4>3 DEF Owned
    <3>2. /\ Free /\ UNCHANGED <<Local, req, mem, latest>>
          /\ Send("st_tr", b, HitWay(b, Owned), "I", None) /\ UNCHANGED other
      BY <1>5, <2>1, <3>1 DEF OtherWrites
    <3>3. QED
      BY <1>3, <2>1, <3>2
  <2>2. CASE ~Mine(b, Owned) /\ Mine(b, {"S"})
    <3>1. /\ Free /\ UNCHANGED <<Local, req, mem, latest>> /\ other[b] # "O"
          /\ Send("inv", b, HitWay(b, {"S"}), "I", None) /\ UNCHANGED other
      BY <1>5, <2>2 DEF OtherWrites
    <3>2. /\ cmd' = [type |-> "inv", blk |-> b, way |-> HitWay(b, {"S"}), st |-> "I",
                     val |-> None]
          /\ phase = "neg" /\ cmd = None
      BY <3>1 DEF Send, Free
    <3>3. /\ cmd'.type = "inv" /\ cmd'.blk = b /\ cmd'.way = HitWay(b, {"S"})
          /\ cmd'.st = "I"
      BY <3>2
    <3>4. HitWay(b, {"S"}) \in Way /\ tag[HitWay(b, {"S"})].st \notin Owned
      BY <1>2, <2>2 DEF Owned
    <3>5. cmd' \in Command /\ Leaves(cmd')
      BY <3>2, <3>3, <3>4 DEF Command, States, Leaves
    <3>6. QED
      BY <3>1, <3>2, <3>3, <3>4, <3>5 DEF Commands, Fills, Drains
  <2>3. CASE ~Mine(b, Owned) /\ ~Mine(b, {"S"})
    <3>1. /\ Free /\ UNCHANGED <<Local, req, mem, latest>> /\ other[b] # "O"
          /\ Outside(b, "O") /\ UNCHANGED cmd
      BY <1>5, <2>3 DEF OtherWrites
    <3>2. \A w \in Way : ~Copy(w, b)
      <4>1. \A w \in Way : tag[w].st \in {"I", "S"} \cup Owned
        BY <1>1 DEF Frame, States
      <4>2. QED
        BY <2>3, <4>1, HitFound DEF Mine, Copy
    <3>3. QED
      BY <1>1, <3>1, <3>2 DEF Outside, Shares, Free
  <2>4. QED
    BY <2>1, <2>2, <2>3
<1>6. CASE OtherGivesUp(b)
  <2>1. /\ UNCHANGED <<Local, cmd, req, latest>> /\ mem \in [Block -> Data]
        /\ \/ /\ other[b] = "O" /\ mem' = [mem EXCEPT ![b] = latest[b]]
              /\ \E st \in {"S", "I"} : Outside(b, st)
           \/ other[b] = "S" /\ Outside(b, "I") /\ UNCHANGED mem
    BY <1>6 DEF OtherGivesUp, CohInv, Types
  <2>2. QED
    BY <1>1, <2>1 DEF Outside, Shares
<1>7. QED
  BY <1>4, <1>5, <1>6

(* What the environment leaves alone.                                      *)
LEMMA LocalMoves ==
  ASSUME UNCHANGED Local
  PROVE  /\ phase' = phase /\ in' = in /\ flush' = flush /\ tl' = tl /\ tv' = tv
         /\ tag' = tag /\ line' = line /\ wbuf' = wbuf /\ resv' = resv
         /\ missR' = missR /\ dirty' = dirty /\ lce' = lce /\ statRd' = statRd
         /\ statBuf' = statBuf /\ dataRd' = dataRd /\ dataBuf' = dataBuf
  BY DEF Local, core, pipe, mems, regs, reads

(* A command that is sent keeps the invariant.                             *)
LEMMA CommandsCoherent ==
  ASSUME CohInv, Commands, WbufInv'
  PROVE  CohInv'
<1>1. /\ phase' = phase /\ in' = in /\ flush' = flush /\ tl' = tl /\ tv' = tv
      /\ tag' = tag /\ line' = line /\ wbuf' = wbuf /\ resv' = resv
      /\ missR' = missR /\ dirty' = dirty /\ lce' = lce /\ statRd' = statRd
      /\ statBuf' = statBuf /\ dataRd' = dataRd /\ dataBuf' = dataBuf
  BY LocalMoves DEF Commands
<1>2. /\ phase = "neg" /\ cmd = None /\ lce = "ready" /\ statRd = None
      /\ mem' = mem /\ latest' = latest
      /\ cmd'.blk \in Block /\ cmd'.way \in Way
  BY DEF Commands, CohInv, Engine, Stages, Stats, Command
<1>3. /\ wbuf \in Seq(Queued) /\ other \in [Block -> {"I", "S", "O"}]
      /\ tag \in [Way -> Frame] /\ line \in [Way -> Data]
  BY DEF CohInv, Types
<1>4. other' \in [Block -> {"I", "S", "O"}] /\ other[cmd'.blk] # "O"
        /\ \A b \in Block : other'[b] = "O" <=> other[b] = "O"
  BY <1>2, <1>3 DEF Commands
<1>5. Types'
  BY <1>1, <1>2, <1>4 DEF Commands, CohInv, Types, Request
<1>6. ~Filling /\ ~Drain /\ ~Fetching /\ \A b : ~Leaving(b) /\ ~Draining(b)
  BY <1>2 DEF Filling, Drain, Fetching, Leaving, Draining
<1>7. Pipeline'
  <2>1. Stalled'
    <3>1. Busy' => Busy
      BY DEF Commands, Busy, Filling
    <3>2. QED
      BY <1>1, <1>2, <3>1 DEF CohInv, Pipeline, Stalled
  <2>2. Flushed' /\ ScSpent' /\ TvFound'
    BY <1>1, <1>2 DEF CohInv, Pipeline, Flushed, ScSpent, TvFound
  <2>3. StoreQueued'
    BY <1>1, <1>2 DEF CohInv, Pipeline, StoreQueued, WbufSuccess, ScSuccess
  <2>4. TlFound'
    BY <1>1 DEF CohInv, Pipeline, TlFound, HitWay, Owned
  <2>5. QED
    BY <1>1, <2>1, <2>2, <2>3, <2>4 DEF CohInv, Pipeline
<1>8. Engine'
  <2>1. Stages'
    BY <1>1, <1>2 DEF Commands, Stages, Filling
  <2>2. QED
    BY <1>1, <1>2, <2>1 DEF Engine, Stats, Tagged
<1>9. Copies'
  <2>1. OneCopy'
    BY <1>1 DEF CohInv, Copies, OneCopy, Copy
  <2>2. FillsFree'
    BY <1>1 DEF Commands, FillsFree, Fetching, Copy, Owned
  <2>3. WakesCopy'
    BY <1>1 DEF Commands, WakesCopy, Copy
  <2>4. DrainsCopy'
    <3>1. SUFFICES ASSUME Drain'
                   PROVE  /\ \A w \in Way : Copy(w, cmd'.blk) => w = cmd'.way
                          /\ Copy(cmd'.way, cmd'.blk)
      BY <1>1 DEF DrainsCopy, Copy
    <3>2. Owns(cmd'.way, cmd'.blk)
      BY <3>1 DEF Commands, Drain
    <3>3. Copy(cmd'.way, cmd'.blk)
      BY <3>2 DEF Owns, Copy, Owned
    <3>4. QED
      BY <1>2, <3>3 DEF CohInv, Copies, OneCopy
  <2>5. InvsCopy'
    BY <1>1 DEF Commands, InvsCopy, Owned
  <2>6. NotOutside'
    BY <1>1, <1>2, <1>4 DEF CohInv, Copies, NotOutside, Copy
  <2>7. Missing'
    BY <1>1 DEF Commands, CohInv, Copies, Missing, Owns, Copy, Owned
  <2>8. QED
    BY <2>1, <2>2, <2>3, <2>4, <2>5, <2>6, <2>7 DEF Copies
<1>10. Queue'
  <2>1. \A i \in 1 .. Len(wbuf) : Owns(wbuf[i].way, wbuf[i].blk) /\ dirty[wbuf[i].way]
    BY <1>6 DEF CohInv, Queue, QueuedOwed, Owes
  <2>2. QueuedOwed'
    BY <1>1, <2>1 DEF QueuedOwed, Owes, Owns, Owned
  <2>3. NoneQueued'
    <3>1. ASSUME Fetching', NEW i \in 1 .. Len(wbuf), wbuf[i].blk = cmd'.blk
          PROVE  FALSE
      <4>1. wbuf[i].way \in Way
        <5>1. wbuf[i] \in Queued
          BY <1>3
        <5>2. QED
          BY <5>1 DEF Queued
      <4>2. Copy(wbuf[i].way, cmd'.blk)
        BY <2>1, <3>1 DEF Owns, Copy, Owned
      <4>3. QED
        BY <3>1, <4>1, <4>2 DEF Commands, Fetching
    <3>2. QED
      BY <1>1, <1>2, <3>1 DEF NoneQueued, Waiting
  <2>4. QED
    BY <1>1, <1>2, <2>2, <2>3 DEF Queue, StoreOwed, NoneComes
<1>11. Values'
  <2>1. HeldCurrent'
    <3>1. SUFFICES ASSUME NEW w \in Way, NEW b \in Block, Holds(w, b)'
                   PROVE  Newest(b, line[w]) = latest[b]
      BY <1>1, <1>2 DEF HeldCurrent, Newest
    <3>2. Copy(w, b)
      BY <1>1, <3>1
      DEF Holds, Copy, Draining, Drain, Commands, Owns, Owned
    <3>3. Holds(w, b)
      BY <1>6, <3>2 DEF Holds
    <3>4. QED
      BY <3>3 DEF CohInv, Values, HeldCurrent
  <2>2. FillCurrent'
    BY <1>1, <1>2 DEF Commands, FillCurrent, Fetching
  <2>3. MemCurrent'
    <3>1. SUFFICES ASSUME NEW b \in Block, other[b] # "O",
                          \A w \in Way : Owes(w, b)' => ~dirty[w]
                   PROVE  mem[b] = latest[b]
      BY <1>1, <1>2, <1>4 DEF MemCurrent
    <3>2. \A w \in Way : Owes(w, b) => Owes(w, b)'
      BY <1>1, <1>6 DEF Owes, Owns, Owned
    <3>3. QED
      BY <1>6, <3>1, <3>2 DEF CohInv, Values, MemCurrent
  <2>4. CleanCurrent' /\ ReadCurrent' /\ Drained' /\ LoadCurrent'
    BY <1>1, <1>2 DEF CleanCurrent, ReadCurrent, Drained, LoadCurrent
  <2>5. LoadRead'
    BY <1>1 DEF CohInv, Values, LoadRead, Loads
  <2>6. QED
    BY <2>1, <2>2, <2>3, <2>4, <2>5 DEF Values
<1>12. QED
  BY <1>5, <1>7, <1>8, <1>9, <1>10, <1>11 DEF CohInv

(* A block that others take or give up keeps the invariant.                *)
LEMMA SharesCoherent ==
  ASSUME CohInv, NEW b \in Block, Shares(b), WbufInv'
  PROVE  CohInv'
<1>1. /\ phase' = phase /\ in' = in /\ flush' = flush /\ tl' = tl /\ tv' = tv
      /\ tag' = tag /\ line' = line /\ wbuf' = wbuf /\ resv' = resv
      /\ missR' = missR /\ dirty' = dirty /\ lce' = lce /\ statRd' = statRd
      /\ statBuf' = statBuf /\ dataRd' = dataRd /\ dataBuf' = dataBuf
      /\ cmd' = cmd /\ req' = req /\ latest' = latest /\ phase = "neg"
  BY LocalMoves DEF Shares
<1>2. /\ other \in [Block -> {"I", "S", "O"}] /\ mem \in [Block -> Data]
      /\ latest \in [Block -> Data]
  BY DEF CohInv, Types
<1>3. PICK st \in {"I", "S", "O"} :
        /\ other' = [other EXCEPT ![b] = st]
        /\ st = "O" => cmd = None /\ \A w \in Way : ~Copy(w, b)
        /\ other[b] = "O" /\ st # "O" => mem'[b] = latest[b]
  BY DEF Shares
<1>4. /\ other' \in [Block -> {"I", "S", "O"}] /\ mem' \in [Block -> Data]
      /\ \A c \in Block : mem'[c] = mem[c] \/ mem'[c] = latest[c]
  BY <1>2, <1>3 DEF Shares
<1>5. Types'
  BY <1>1, <1>4 DEF CohInv, Types
<1>6. Pipeline'
  BY <1>1
  DEF CohInv, Pipeline, Stalled, Busy, Filling, Flushed, ScSpent, StoreQueued,
      WbufSuccess, ScSuccess, TlFound, TvFound, HitWay, Owned, Copy, Owns
<1>7. Engine'
  BY <1>1 DEF CohInv, Engine, Stages, Stats, Tagged, Filling, Drain, Fetching
<1>8. Copies'
  <2>1. NotOutside'
    <3>1. SUFFICES ASSUME NEW c \in Block,
                          \/ \E w \in Way : Copy(w, c)
                          \/ cmd # None /\ cmd.type # "inv" /\ cmd.blk = c
                   PROVE  other'[c] # "O"
      BY <1>1 DEF NotOutside, Copy
    <3>2. other[c] # "O"
      BY <3>1 DEF CohInv, Copies, NotOutside
    <3>3. QED
      BY <1>2, <1>3, <3>1, <3>2
  <2>2. QED
    BY <1>1, <2>1
    DEF CohInv, Copies, OneCopy, FillsFree, WakesCopy, DrainsCopy, InvsCopy,
        Missing, Copy, Owns, Owned, Fetching, Drain
<1>9. Queue'
  BY <1>1
  DEF CohInv, Queue, QueuedOwed, StoreOwed, NoneQueued, NoneComes, Owes, Owns,
      Owned, Draining, Drain, Leaving, Waiting, Fetching
<1>10. Values'
  <2>1. HeldCurrent' /\ FillCurrent'
    BY <1>1
    DEF CohInv, Values, HeldCurrent, FillCurrent, Holds, Copy, Draining, Drain,
        Fetching, Newest
  <2>2. MemCurrent'
    <3>1. SUFFICES ASSUME NEW c \in Block, other'[c] # "O", ~Leaving(c),
                          \A w \in Way : Owes(w, c) => ~dirty[w]
                   PROVE  mem'[c] = latest[c]
      BY <1>1 DEF MemCurrent, Leaving, Owes, Owns, Owned, Draining, Drain
    <3>2. other[c] # "O" => mem[c] = latest[c]
      BY <3>1 DEF CohInv, Values, MemCurrent
    <3>3. other[c] = "O" => mem'[c] = latest[c]
      BY <1>2, <1>3, <3>1
    <3>4. QED
      BY <1>4, <3>2, <3>3
  <2>3. CleanCurrent'
    <3>1. SUFFICES ASSUME lce = "wb", statRd = FALSE \/ statBuf = FALSE
                   PROVE  mem'[cmd.blk] = latest[cmd.blk]
      BY <1>1 DEF CleanCurrent
    <3>2. mem[cmd.blk] = latest[cmd.blk] /\ cmd.blk \in Block
      BY <3>1
      DEF CohInv, Values, CleanCurrent, Engine, Stages, Drain, Types, Command
    <3>3. QED
      BY <1>4, <3>2
  <2>4. ReadCurrent' /\ Drained' /\ LoadCurrent' /\ LoadRead'
    BY <1>1
    DEF CohInv, Values, ReadCurrent, Drained, LoadCurrent, LoadRead, Loads
  <2>5. QED
    BY <2>1, <2>2, <2>3, <2>4 DEF Values
<1>11. QED
  BY <1>5, <1>6, <1>7, <1>8, <1>9, <1>10 DEF CohInv

(* Another core stores to a block its cache owns, which is not here.       *)
LEMMA OtherStoresCoherent ==
  ASSUME CohInv, NEW b \in Block, OtherStores(b), WbufInv'
  PROVE  CohInv'
<1>1. /\ phase' = phase /\ in' = in /\ flush' = flush /\ tl' = tl /\ tv' = tv
      /\ tag' = tag /\ line' = line /\ wbuf' = wbuf
      /\ missR' = missR /\ dirty' = dirty /\ lce' = lce /\ statRd' = statRd
      /\ statBuf' = statBuf /\ dataRd' = dataRd /\ dataBuf' = dataBuf
      /\ cmd' = cmd /\ req' = req /\ other' = other /\ mem' = mem
      /\ phase = "neg" /\ other[b] = "O"
  BY DEF OtherStores, core, pipe, mems, engine, reads
<1>2. latest \in [Block -> Data]
  BY DEF CohInv, Types
<1>3. /\ latest' \in [Block -> Data]
      /\ \A c \in Block : other[c] # "O" => latest'[c] = latest[c]
  BY <1>1, <1>2 DEF OtherStores
<1>4. Types'
  BY <1>1, <1>3 DEF CohInv, Types
<1>5. Pipeline'
  <2>1. resv = None => resv' = None
    BY DEF OtherStores
  <2>2. ScSpent'
    BY <1>1, <2>1 DEF CohInv, Pipeline, ScSpent
  <2>3. StoreQueued'
    <3>1. WbufSuccess' => WbufSuccess
      BY <1>1, <2>2 DEF ScSpent, WbufSuccess, ScSuccess
    <3>2. QED
      BY <1>1, <3>1 DEF CohInv, Pipeline, StoreQueued
  <2>4. QED
    BY <1>1, <2>2, <2>3
    DEF CohInv, Pipeline, Stalled, Busy, Filling, Flushed, TlFound, TvFound,
        HitWay, Owned, Copy, Owns
<1>6. Engine'
  BY <1>1 DEF CohInv, Engine, Stages, Stats, Tagged, Filling, Drain, Fetching
<1>7. Copies'
  BY <1>1
  DEF CohInv, Copies, OneCopy, FillsFree, WakesCopy, DrainsCopy, InvsCopy,
      NotOutside, Missing, Copy, Owns, Owned, Fetching, Drain
<1>8. Queue'
  BY <1>1
  DEF CohInv, Queue, QueuedOwed, StoreOwed, NoneQueued, NoneComes, Owes, Owns,
      Owned, Draining, Drain, Leaving, Waiting, Fetching
<1>9. cmd # None /\ cmd.type # "inv" =>
        cmd.blk \in Block /\ latest'[cmd.blk] = latest[cmd.blk]
  <2>1. cmd # None => cmd.blk \in Block
    BY DEF CohInv, Types, Command
  <2>2. cmd # None /\ cmd.type # "inv" => other[cmd.blk] # "O"
    BY <2>1 DEF CohInv, Copies, NotOutside
  <2>3. QED
    BY <1>3, <2>1, <2>2
<1>10. Values'
  <2>1. HeldCurrent'
    <3>1. SUFFICES ASSUME NEW w \in Way, NEW c \in Block, Holds(w, c)
                   PROVE  Newest(c, line[w]) = latest'[c]
      BY <1>1
      DEF HeldCurrent, Holds, Copy, Draining, Drain, Fetching, Newest
    <3>2. other[c] # "O"
      BY <3>1
      DEF Holds, Draining, Drain, Drains, CohInv, Copies, NotOutside
    <3>3. QED
      BY <1>3, <3>1, <3>2 DEF CohInv, Values, HeldCurrent
  <2>2. FillCurrent'
    BY <1>1, <1>9 DEF CohInv, Values, FillCurrent, Fetching
  <2>3. MemCurrent'
    <3>1. SUFFICES ASSUME NEW c \in Block, other[c] # "O", ~Leaving(c),
                          \A w \in Way : Owes(w, c) => ~dirty[w]
                   PROVE  mem[c] = latest'[c]
      BY <1>1 DEF MemCurrent, Leaving, Owes, Owns, Owned, Draining, Drain
    <3>2. QED
      BY <1>3, <3>1 DEF CohInv, Values, MemCurrent
  <2>4. CleanCurrent' /\ ReadCurrent'
    <3>1. lce \in {"tr", "wb_dirty_send", "wb"} => cmd # None /\ cmd.type # "inv"
      BY DEF CohInv, Engine, Stages, Drain
    <3>2. QED
      BY <1>1, <1>9, <3>1 DEF CohInv, Values, CleanCurrent, ReadCurrent
  <2>5. Drained' /\ LoadCurrent' /\ LoadRead'
    BY <1>1 DEF CohInv, Values, Drained, LoadCurrent, LoadRead, Loads
  <2>6. QED
    BY <2>1, <2>2, <2>3, <2>4, <2>5 DEF Values
<1>11. QED
  BY <1>4, <1>5, <1>6, <1>7, <1>8, <1>10 DEF CohInv

(* So does every step of the environment.                                  *)
LEMMA EnvironmentCoherent ==
  ASSUME CohInv, Environment
  PROVE  CohInv'
<1>1. WbufInv'
  BY EnvironmentStep DEF CohInv
<1>2. CASE ServeMiss
  BY <1>1, <1>2, ServeMissCommands, CommandsCoherent
<1>3. ASSUME NEW b \in Block,
             OtherReads(b) \/ OtherWrites(b) \/ OtherGivesUp(b)
      PROVE  CohInv'
  BY <1>1, <1>3, OtherMoves, CommandsCoherent, SharesCoherent
<1>4. ASSUME NEW b \in Block, OtherStores(b)
      PROVE  CohInv'
  BY <1>1, <1>4, OtherStoresCoherent
<1>5. QED
  BY <1>2, <1>3, <1>4 DEF Environment

(* Nothing is cached and memory is current.                                *)
LEMMA CohInit == Init => CohInv
<1> SUFFICES ASSUME Init
             PROVE  CohInv
  OBVIOUS
<1>1. /\ phase = "neg" /\ in = None /\ flush = FALSE /\ tl = None
      /\ tv = Empty("none") /\ tv.v = FALSE /\ tv.op = "none"
      /\ tag = [w \in Way |-> [blk |-> None, st |-> "I"]]
      /\ dirty = [w \in Way |-> FALSE] /\ wbuf = <<>> /\ missR = FALSE
      /\ lce = "ready" /\ cmd = None /\ statRd = None /\ statBuf = None
      /\ req = None /\ other = [b \in Block |-> "I"]
      /\ latest \in [Block -> Data] /\ mem = latest
  BY DEF Init, Empty
<1>2. line \in [Way -> Data]
  BY DEF Init
<1>3. \A w \in Way : tag[w] \in Frame /\ tag[w].st = "I"
  BY <1>1 DEF Frame, States
<1>4. Types
  <2>1. tag \in [Way -> Frame] /\ dirty \in [Way -> BOOLEAN]
    BY <1>1, <1>3
  <2>2. wbuf \in Seq(Queued) /\ Len(wbuf) <= 2
    BY <1>1
  <2>3. mem \in [Block -> Data] /\ other \in [Block -> {"I", "S", "O"}]
    BY <1>1
  <2>4. QED
    BY <1>1, <1>2, <1>3, <2>1, <2>2, <2>3 DEF Types
<1>5. Pipeline
  BY <1>1
  DEF Pipeline, Stalled, Busy, Filling, Flushed, ScSpent, StoreQueued,
      WbufSuccess, ScSuccess, TlFound, TvFound
<1>6. Engine
  BY <1>1 DEF Engine, Stages, Stats, Tagged, Filling
<1>7. \A w \in Way : \A b : ~Copy(w, b) /\ ~Owns(w, b)
  BY <1>3 DEF Copy, Owns, Owned
<1>8. Copies
  BY <1>1, <1>7
  DEF Copies, OneCopy, FillsFree, WakesCopy, DrainsCopy, InvsCopy, NotOutside,
      Missing, Fetching, Drain
<1>9. Queue
  BY <1>1
  DEF Queue, QueuedOwed, StoreOwed, NoneQueued, NoneComes
<1>10. Values
  BY <1>1, <1>7
  DEF Values, HeldCurrent, Holds, Draining, Drain, FillCurrent, Fetching,
      MemCurrent, CleanCurrent, ReadCurrent, Drained, LoadRead, LoadCurrent
<1>11. QED
  BY WbufInit, <1>4, <1>5, <1>6, <1>8, <1>9, <1>10 DEF CohInv

(* The invariant is inductive.                                             *)
LEMMA CohNext == CohInv /\ [Next]_vars => CohInv'
<1>1. ASSUME CohInv, UNCHANGED vars
      PROVE  CohInv'
  <2>1. /\ phase' = phase /\ in' = in /\ flush' = flush /\ tl' = tl /\ tv' = tv
        /\ tag' = tag /\ line' = line /\ dirty' = dirty /\ wbuf' = wbuf
        /\ resv' = resv /\ missR' = missR /\ missQ' = missQ /\ lock' = lock
        /\ lce' = lce /\ cmd' = cmd /\ dataRd' = dataRd /\ dataBuf' = dataBuf
        /\ statRd' = statRd /\ statBuf' = statBuf /\ timeout' = timeout
        /\ req' = req /\ other' = other /\ mem' = mem /\ latest' = latest
    BY <1>1 DEF vars, core, pipe, mems, regs, engine, reads, outside
  <2>2. WbufInv'
    BY <1>1, EnvironmentStep DEF CohInv
  <2>3. Types' /\ Engine'
    BY <1>1, <2>1
    DEF CohInv, Types, Engine, Stages, Stats, Tagged, Filling, Drain, Fetching,
        TagYumi, TagPkt, In
  <2>4. Pipeline'
    BY <1>1, <2>1
    DEF CohInv, Pipeline, Stalled, Busy, Filling, Flushed, ScSpent, StoreQueued,
        WbufSuccess, ScSuccess, TlFound, TvFound, HitWay, Owned, Copy, Owns
  <2>5. Copies'
    BY <1>1, <2>1
    DEF CohInv, Copies, OneCopy, FillsFree, WakesCopy, DrainsCopy, InvsCopy,
        NotOutside, Missing, Copy, Owns, Owned, Fetching, Drain
  <2>6. Queue'
    BY <1>1, <2>1
    DEF CohInv, Queue, QueuedOwed, StoreOwed, NoneQueued, NoneComes, Owes, Owns,
        Owned, Draining, Drain, Leaving, Waiting, Fetching, WbufSuccess, ScSuccess
  <2>7. Values'
    <3>1. /\ DataYumi' = DataYumi /\ DataRead' = DataRead /\ WbufYumi' = WbufYumi
      BY <2>1
      DEF DataYumi, DataRead, DataWrite, In, WbufYumi, LoadIn, WbufSuccess,
          ScSuccess
    <3>2. QED
      BY <1>1, <2>1, <3>1
      DEF CohInv, Values, HeldCurrent, FillCurrent, MemCurrent, CleanCurrent,
          ReadCurrent, Drained, LoadRead, LoadCurrent, Holds, Owes, Owns, Owned,
          Copy, Draining, Drain, Leaving, Fetching, Newest, Loads
  <2>8. QED
    BY <2>2, <2>3, <2>4, <2>5, <2>6, <2>7 DEF CohInv
<1>2. QED
  BY <1>1, NegedgeCoherent, PosedgeCoherent, EnvironmentCoherent DEF Next

(* A load that completes yields the value stored last, from wherever it    *)
(* is, whatever stores wait and whatever command is under way.             *)
THEOREM LoadsCorrect == Spec => []LoadsCurrent
<1>1. CohInv => LoadsCurrent
  <2>1. tv.op \in Loads /\ Early => tv.v /\ tv.ldWay # None
    BY DEF Early, Cached, Miss, LoadMiss, Loads
  <2>2. QED
    BY <2>1 DEF CohInv, Values, LoadCurrent, LoadsCurrent
<1>2. QED
  BY CohInit, CohNext, <1>1, PTL DEF Spec

(* What the cache gives away is the value stored last, and a block it      *)
(* calls clean is in memory as it is.                                      *)
THEOREM GivesCorrect == Spec => []OthersCurrent
<1>1. CohInv => OthersCurrent
  BY DEF CohInv, Values, ReadCurrent, CleanCurrent, OthersCurrent
<1>2. QED
  BY CohInit, CohNext, <1>1, PTL DEF Spec
=============================================================================
