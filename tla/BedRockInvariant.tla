------------------------- MODULE BedRockInvariant -------------------------
(***************************************************************************)
(* The inductive invariants of BedRockSystem, which BedRockSerialProofs,   *)
(* BedRockCoherenceProofs, BedRockRightsProofs and BedRockValueProofs      *)
(* prove. What keeps the transactions of a way group apart: a request      *)
(* passes from its channel to the engine, and from there the right to send *)
(* the block passes from hand to hand, until the acknowledgement is back.  *)
(* What keeps the directory and the tags of the caches together while it   *)
(* does. Who may write a block while it moves, and where its last value    *)
(* is.                                                                     *)
(***************************************************************************)
EXTENDS BedRockProofs

----------------------------------------------------------------------------
(* Requests.                                                               *)

(* Request r is what cache l waits for.                                    *)
Asks(l, r) ==
  /\ miss[l].phase = "sent" /\ miss[l].addr = r.addr
  /\ r.op = "uc_rd" <=> miss[l].op = "uc_rd"
  /\ r.op \in CacheOp => /\ miss[l].lru = r.lru
                         /\ r.op = "rd" <=> miss[l].op = "rd"
                         /\ r.nonExcl = TRUE => r.op = "rd"

(* A request in a channel is the miss its cache waits for, an uncached     *)
(* store excepted, and there is one of them; its channel leads home.       *)
Blocking(l, c, i) == i \in DOMAIN reqNet[<<l, c>>] /\ reqNet[<<l, c>>][i].op # "uc_wr"
ReqHome ==
  \A l \in LCE, c \in CCE : \A i \in DOMAIN reqNet[<<l, c>>] :
    Home(reqNet[<<l, c>>][i].addr) = c
ReqAsks ==
  \A l \in LCE, c \in CCE, i \in Nat :
    Blocking(l, c, i) => Asks(l, reqNet[<<l, c>>][i])
ReqOne ==
  \A l \in LCE, c \in CCE, i, j \in Nat :
    Blocking(l, c, i) /\ Blocking(l, c, j) => i = j
ReqInv == ReqHome /\ ReqAsks /\ ReqOne

(* Cache l has a request in a channel.                                     *)
Unsent(l) == \E c \in CCE, i \in Nat : Blocking(l, c, i)

----------------------------------------------------------------------------
(* A miss under way is in one place: its request in a channel; the engine  *)
(* that has taken it and not yet given the right to send the block away;   *)
(* the speculative read that was resolved in its favour; a command; a      *)
(* cache that holds one.  Place <<x, i>> of kind a has the miss of cache l *)
(* for address b; u tells an uncached load from a cached miss.             *)
Kind(uncached) == IF uncached THEN "uncached" ELSE "cached"

ReqTok(c, i, l, b, u) ==
  /\ Blocking(l, c, i)
  /\ b = reqNet[<<l, c>>][i].addr /\ u = Kind(reqNet[<<l, c>>][i].op = "uc_rd")

Working == Cached \ {"read_pending", "deq_lce_req"}
Unsourced == Working \ {"transfer_wb_resp", "resolve_speculation"}
AtFsm(c) ==
  \/ cceState[c] \in Unsourced
  \/ cceState[c] = "resolve_speculation" /\ ~mshr[c].uf /\ ~mshr[c].xf
FsmTok(c, l, b, u) ==
  AtFsm(c) /\ l = mshr[c].lce /\ b = mshr[c].addr /\ u = "cached"

Released(s) == ~specBits[s].spec /\ ~specBits[s].squash
MemTok(c, i, l, b, u) ==
  /\ i \in DOMAIN memResp[c] /\ memResp[c][i].type \in {"rd", "uc_rd"}
  /\ memResp[c][i].type = "rd" => Released(SetOf[memResp[c][i].addr])
  /\ l = memResp[c][i].lce /\ b = memResp[c][i].addr
  /\ u = Kind(memResp[c][i].type = "uc_rd")

Sources == {"data", "st_wakeup", "st_tr", "st_tr_wb", "uc_data"}
Target(m) == IF m.type \in {"st_tr", "st_tr_wb"} THEN m.target ELSE m.dst
Carries(m, l, b, u) ==
  /\ m.type \in Sources
  /\ l = Target(m) /\ b = m.addr /\ u = Kind(m.type = "uc_data")
CmdTok(m, l, b, u) == m \in cmdNet /\ Carries(m, l, b, u)

Passed == {"wb_stat_rd", "wb", "wb_dirty_rd", "wb_dirty_send"}
LceTok(k, l, b, u) ==
  lceCmd[k] # None /\ lceState[k] \notin Passed /\ Carries(lceCmd[k], l, b, u)

Tok(a, x, i, l, b, u) ==
  \/ a = "req" /\ x \in CCE /\ i \in Nat /\ ReqTok(x, i, l, b, u)
  \/ a = "fsm" /\ x \in CCE /\ i = 0 /\ FsmTok(x, l, b, u)
  \/ a = "mem" /\ x \in CCE /\ i \in Nat /\ MemTok(x, i, l, b, u)
  \/ a = "cmd" /\ i = 0 /\ CmdTok(x, l, b, u)
  \/ a = "lce" /\ x \in LCE /\ i = 0 /\ LceTok(x, l, b, u)

(* Cache l waits for address b.                                            *)
Waits(l, b, u) ==
  miss[l].phase = "sent" /\ miss[l].addr = b /\ u = Kind(miss[l].op = "uc_rd")

TokWaits ==
  \A l \in LCE, i \in Nat : \A a, x, b, u :
    Tok(a, x, i, l, b, u) => Waits(l, b, u)
TokOne ==
  \A l \in LCE, i, j \in Nat : \A a, x, b, u, aa, xx, bb, uu :
    Tok(a, x, i, l, b, u) /\ Tok(aa, xx, j, l, bb, uu) =>
      a = aa /\ x = xx /\ i = j
TokInv == TokWaits /\ TokOne

(* A cache holds its own commands.                                         *)
HeldDst == \A l \in LCE : lceCmd[l] # None => lceCmd[l].dst = l

----------------------------------------------------------------------------
(* The engine and its speculative read.                                    *)

(* A request that is being taken is loaded.                                *)
Loaded(c, r) ==
  /\ r.op \in CacheOp /\ mshr[c].addr = r.addr /\ mshr[c].lru = r.lru
  /\ mshr[c].write = (r.op = "wr") /\ mshr[c].nonExcl = r.nonExcl
MshrHome == \A c \in CCE : cceState[c] \in Cached => Home(mshr[c].addr) = c
MshrTaking ==
  \A c \in CCE : cceState[c] \in {"read_pending", "deq_lce_req"} =>
    Loaded(c, Head(reqNet[<<mshr[c].lce, c>>]))
MshrFlagsOK ==
  \A c \in CCE :
    /\ cceState[c] \in {"inv_cmd", "inv_ack", "upgrade_stw_cmd", "transfer",
                         "transfer_wb_resp", "resolve_speculation"} => ~mshr[c].rf
    /\ cceState[c] \in {"replacement", "replacement_wb_resp"} => mshr[c].rf
    /\ cceState[c] = "transfer_wb_resp" => mshr[c].xf
MshrInv == MshrHome /\ MshrTaking /\ MshrFlagsOK

(* A way group whose request is being taken is free.                       *)
FreeInv ==
  \A c \in CCE : cceState[c] = "deq_lce_req" => pending[ReqSet(c)] = 0

(* Memory responses come home.                                             *)
HomeInv ==
  \A c \in CCE : \A i \in DOMAIN memResp[c] :
    memResp[c][i].type \in {"rd", "wr"} => Home(memResp[c][i].addr) = c

(* The engine works for set s.                                             *)
Serving(s) == cceState[HomeOf[s]] \in Working /\ ReqSet(HomeOf[s]) = s

(* The reads of a way group: there is one, it is for the request the       *)
(* engine works for, and is held back until that is resolved.              *)
ReadOf(s, i) ==
  /\ i \in DOMAIN memResp[HomeOf[s]] /\ memResp[HomeOf[s]][i].type = "rd"
  /\ SetOf[memResp[HomeOf[s]][i].addr] = s
ReadOne == \A s \in Set, i, j \in Nat : ReadOf(s, i) /\ ReadOf(s, j) => i = j
ReadHeld ==
  \A s \in Set :
    specBits[s].spec <=> Serving(s) /\ cceState[HomeOf[s]] # "read_mem_spec"
ReadClean == \A s \in Set : specBits[s].spec => specBits[s] = [NoSpec EXCEPT !.spec = TRUE]
ReadFor ==
  \A s \in Set, i \in Nat : Serving(s) /\ ReadOf(s, i) =>
    LET r == memResp[HomeOf[s]][i]  m == mshr[HomeOf[s]] IN
      /\ cceState[HomeOf[s]] # "read_mem_spec"
      /\ r.addr = m.addr /\ r.lce = m.lce /\ r.way = m.lru
SpecInv == ReadOne /\ ReadHeld /\ ReadClean /\ ReadFor

----------------------------------------------------------------------------
(* The pending bits.                                                       *)

PendInv ==
  \A s \in Set :
    /\ IsFiniteSet(AcksFor(s))
    /\ pending[s] = Cardinality(Open(s)) + Cardinality(AcksFor(s))
                     + Cardinality(MemOpsFor(s))

(* How many memory operations of its way group a transaction can have.     *)
OpsBound(s) ==
  IF ~Serving(s) \/ cceState[HomeOf[s]] = "resolve_speculation" THEN 3
  ELSE IF cceState[HomeOf[s]] = "read_mem_spec" THEN 0
  ELSE IF cceState[HomeOf[s]] \in {"read_dir", "write_next_state", "replacement",
                                    "replacement_wb_resp"}
  THEN 1 ELSE 2
OpsInv == \A s \in Set : Cardinality(MemOpsFor(s)) <= OpsBound(s)
OneInv == \A s \in Set : Cardinality(Open(s)) + Cardinality(AcksFor(s)) <= 1

----------------------------------------------------------------------------
(* Write-backs: an engine waits for one at a time, and gets no other.      *)

WbAddr(c) == IF cceState[c] = "replacement_wb_resp" THEN mshr[c].lruBlk
             ELSE mshr[c].addr
WbType(c) == IF cceState[c] = "replacement_wb_resp" THEN "st_wb" ELSE "st_tr_wb"
WbCmd(c, m) == m \in cmdNet /\ m.type \in {"st_wb", "st_tr_wb"} /\ m.src = c
WbLce(c, k) == Holds(k, {"st_wb", "st_tr_wb"}) /\ lceCmd[k].src = c
WbResp(c, m) == m \in respNet /\ m.type \in {"wb", "null_wb"} /\ m.dst = c
WbTok(c, a, x) ==
  \/ a = "cmd" /\ WbCmd(c, x)
  \/ a = "lce" /\ x \in LCE /\ WbLce(c, x)
  \/ a = "resp" /\ WbResp(c, x)
WbOne ==
  \A c \in CCE : \A a, x, aa, xx :
    WbTok(c, a, x) /\ WbTok(c, aa, xx) => a = aa /\ x = xx
WbWaits ==
  \A c \in CCE : \A a, x : WbTok(c, a, x) =>
    cceState[c] \in {"replacement_wb_resp", "transfer_wb_resp"}
WbAsked ==
  \A c \in CCE :
    /\ \A m : WbCmd(c, m) => m.addr = WbAddr(c) /\ m.type = WbType(c)
    /\ \A k \in LCE : WbLce(c, k) =>
         lceCmd[k].addr = WbAddr(c) /\ lceCmd[k].type = WbType(c)
    /\ \A m : WbResp(c, m) => m.addr = WbAddr(c)
WbInv == WbOne /\ WbWaits /\ WbAsked

(* An entry of a cleared directory is of its set, and so is the victim; an *)
(* entry that the engine found a copy in is still of the block.            *)
Cleared(c) == cceState[c] \notin {"reset", "clear_dir"}
DirSet ==
  \A l \in LCE, s \in Set, w \in Way :
    Cleared(HomeOf[s]) /\ dir[l][<<s, w>>].st # "I" => SetOf[dir[l][<<s, w>>].blk] = s
VictimSet ==
  \A c \in CCE : cceState[c] \in Decided /\ mshr[c].rf =>
    SetOf[mshr[c].lruBlk] = ReqSet(c)
FoundBlk ==
  \A c \in CCE : cceState[c] \in Decided =>
    LET m == mshr[c] IN
      /\ m.uf => dir[m.lce][FrameOf(m.addr, m.way)].blk = m.addr
      /\ m.xf => dir[m.owner][FrameOf(m.addr, m.ownerWay)].blk = m.addr
DirSetInv == DirSet /\ VictimSet /\ FoundBlk

SerialInv ==
  /\ HeldDst /\ ReqInv /\ TokInv /\ MshrInv /\ FreeInv /\ HomeInv /\ SpecInv
  /\ PendInv /\ OpsInv /\ OneInv /\ WbInv /\ DirSetInv

----------------------------------------------------------------------------
(* Invalidations.                                                          *)

(* Invalidations: those not acknowledged are counted, the flag and the     *)
(* vector agree, and no engine ends in its error state.                    *)
Invalidating(c) == cceState[c] \in {"inv_cmd", "inv_ack"}
InvBalance ==
  \A c \in CCE :
    /\ IsFiniteSet(InvsOf(c))
    /\ Cardinality(InvsOf(c)) + Cardinality(HeldInvs(c)) = IF Invalidating(c) THEN cnt[c] ELSE 0
Deciding == {"write_next_state", "replacement", "replacement_wb_resp"}
SharersKnown ==
  \A c \in CCE : cceState[c] \in Deciding /\ mshr[c].csf => Invalidated(c) # {}
SomeoneLeft == \A c \in CCE : cceState[c] = "inv_cmd" => toInv[c] # {}
NoError == \A c \in CCE : cceState[c] # "error"
CountInv == InvBalance /\ SharersKnown /\ SomeoneLeft /\ NoError

----------------------------------------------------------------------------
(* The directory and the tags.                                             *)

(* A set whose engine is not in service yet has nothing pending, and no    *)
(* valid entry or tag.                                                     *)
PendStart == \A s \in Set : ~InService(HomeOf[s]) => pending[s] = 0
StartDir ==
  \A s \in Set : Cleared(HomeOf[s]) /\ ~InService(HomeOf[s]) =>
    \A l \in LCE, w \in Way : dir[l][<<s, w>>].st = "I"
StartTag ==
  \A s \in Set, l \in LCE : ~InService(HomeOf[s]) /\ Past(l) =>
    \A w \in Way : tag[l][<<s, w>>].st = "I"
StartInv == PendStart /\ StartDir /\ StartTag

(* The directory has block b in way w of cache k.                          *)
Copy(k, s, w, b) == dir[k][<<s, w>>].blk = b /\ dir[k][<<s, w>>].st # "I"

(* The way an engine grants, and whether it has written it.                *)
GrantWay(c) == IF mshr[c].uf THEN mshr[c].way ELSE mshr[c].lru
Granting(c) ==
  \/ cceState[c] \in {"replacement", "replacement_wb_resp", "inv_cmd", "inv_ack",
                      "upgrade_stw_cmd", "transfer"}
  \/ cceState[c] = "resolve_speculation" /\ ~mshr[c].uf /\ ~mshr[c].xf

(* The entry is granted while the copies of other caches are still there.  *)
Fresh(s, l, w) ==
  /\ Serving(s) /\ l = mshr[HomeOf[s]].lce /\ w = GrantWay(HomeOf[s])
  /\ cceState[HomeOf[s]] \in {"replacement", "replacement_wb_resp", "inv_cmd", "transfer"}

DirOne ==
  \A s \in Set, l \in LCE, w, v \in Way : \A b :
    Cleared(HomeOf[s]) /\ Copy(l, s, w, b) /\ Copy(l, s, v, b) => w = v
DirOwner ==
  \A s \in Set, l, k \in LCE, w, v \in Way : \A b :
    /\ Cleared(HomeOf[s]) /\ ~Fresh(s, l, w) /\ ~Fresh(s, k, v)
    /\ Copy(l, s, w, b) /\ Copy(k, s, v, b) /\ dir[l][<<s, w>>].st \in Owned
    => l = k

(* What the engine knows of the other caches.                              *)
OtherCopy(c, k, w) == k # mshr[c].lce /\ Copy(k, ReqSet(c), w, mshr[c].addr)
KnownSharers ==
  \A c \in CCE : cceState[c] \in Deciding =>
    \A k \in LCE, w \in Way :
      k # mshr[c].lce => (OtherCopy(c, k, w) <=> sharers[c][k] = w)
KnownOwner ==
  \A c \in CCE : cceState[c] \in Deciding \cup {"transfer"} /\ mshr[c].xf =>
    /\ mshr[c].owner # mshr[c].lce
    /\ dir[mshr[c].owner][<<ReqSet(c), mshr[c].ownerWay>>].st \in Owned
    /\ \A k \in LCE, w \in Way : OtherCopy(c, k, w) => k = mshr[c].owner
KnownNoOwner ==
  \A c \in CCE : cceState[c] \in Deciding /\ ~mshr[c].xf =>
    \A k \in LCE, w \in Way : OtherCopy(c, k, w) =>
      mshr[c].csf /\ dir[k][<<ReqSet(c), w>>].st = "S"
KnownLeft ==
  \A c \in CCE : cceState[c] = "inv_cmd" =>
    /\ mshr[c].lce \notin toInv[c]
    /\ \A k \in LCE, w \in Way : OtherCopy(c, k, w) => k \in toInv[c] /\ sharers[c][k] = w
KnownFlags ==
  \A c \in CCE : cceState[c] \in Decided =>
    /\ mshr[c].next = IF mshr[c].write THEN "M"
                      ELSE IF mshr[c].nonExcl \/ mshr[c].csf \/ mshr[c].xf THEN "S" ELSE "E"
    /\ mshr[c].uf => mshr[c].write
    /\ mshr[c].xf => ~mshr[c].csf /\ ~mshr[c].uf
    /\ mshr[c].rf => ~mshr[c].uf
    /\ cceState[c] \in {"inv_cmd", "inv_ack"} => mshr[c].csf /\ mshr[c].write
KnownMine ==
  \A c \in CCE : cceState[c] = "write_next_state" =>
    /\ mshr[c].uf => /\ Copy(mshr[c].lce, ReqSet(c), mshr[c].way, mshr[c].addr)
                     /\ dir[mshr[c].lce][<<ReqSet(c), mshr[c].way>>].st = "S"
    /\ ~mshr[c].uf => \A w \in Way : ~Copy(mshr[c].lce, ReqSet(c), w, mshr[c].addr)
Asked ==
  \A c \in CCE : AtFsm(c) =>
    /\ mshr[c].lru = miss[mshr[c].lce].lru
    /\ mshr[c].write <=> miss[mshr[c].lce].op # "rd"
KnownInv ==
  /\ KnownSharers /\ KnownOwner /\ KnownNoOwner /\ KnownLeft /\ KnownFlags /\ KnownMine
  /\ Asked
DirInv == DirOne /\ DirOwner /\ KnownInv

(* Who is granted a block has it in the directory.                         *)
Entered(l, b, w, st) == dir[l][FrameOf(b, w)].blk = b /\ dir[l][FrameOf(b, w)].st = st
Granted(l, b, w, st) == Entered(l, b, w, st) /\ st # "I"
GrantFsm ==
  \A c \in CCE : Granting(c) =>
    /\ Granted(mshr[c].lce, mshr[c].addr, GrantWay(c), mshr[c].next)
    /\ mshr[c].uf => tag[mshr[c].lce][<<ReqSet(c), mshr[c].way>>].blk = mshr[c].addr
MemState(s) == IF specBits[s].fwdMod THEN specBits[s].st ELSE "E"
GrantMem ==
  \A c \in CCE, i \in Nat : \A l, b :
    MemTok(c, i, l, b, "cached") =>
      /\ Granted(l, b, memResp[c][i].way, MemState(SetOf[b]))
      /\ memResp[c][i].way = miss[l].lru
Grants(m) ==
  /\ m.type \in {"data", "st_wakeup"} => Granted(m.dst, m.addr, m.way, m.st)
  /\ m.type = "data" => m.way = miss[m.dst].lru
  /\ m.type = "st_wakeup" => tag[m.dst][FrameOf(m.addr, m.way)].blk = m.addr
  /\ m.type \in {"st_tr", "st_tr_wb"} =>
       Granted(m.target, m.addr, m.targetWay, m.targetSt) /\ m.targetWay = miss[m.target].lru
GrantCmd == \A m \in cmdNet : Grants(m)
GrantHeld ==
  \A l \in LCE : lceCmd[l] # None /\ lceState[l] \notin Passed => Grants(lceCmd[l])
GrantInv == GrantFsm /\ GrantMem /\ GrantCmd /\ GrantHeld

(* A command that takes a copy away finds the directory already changed.   *)
Takes(m) ==
  /\ m.type \in {"st_tr", "st_tr_wb"} =>
       m.dst # m.target /\ Entered(m.dst, m.addr, m.way, m.st) /\ m.st \in {"I", "S"}
  /\ m.type = "inv" =>
       /\ ReqSet(m.src) = SetOf[m.addr] /\ HomeOf[SetOf[m.addr]] = m.src
       /\ dir[m.dst][FrameOf(m.addr, m.way)].st = "I"
  /\ m.type = "st_wb" =>
       m.dst = mshr[m.src].lce /\ m.way = mshr[m.src].lru /\ m.st = "I"
TakeCmd == \A m \in cmdNet : Takes(m)
TakeHeld ==
  \A l \in LCE : lceCmd[l] # None /\ lceState[l] \in {"reset", "clear", "ready"} =>
    Takes(lceCmd[l])
TakeInv == TakeCmd /\ TakeHeld

(* How the tag of a cache can differ from its entry in the directory.      *)
Same(l, s, w) ==
  /\ tag[l][<<s, w>>].st = dir[l][<<s, w>>].st
  /\ tag[l][<<s, w>>].st # "I" => tag[l][<<s, w>>].blk = dir[l][<<s, w>>].blk
Early(s) ==
  /\ Serving(s)
  /\ cceState[HomeOf[s]] \in {"read_mem_spec", "read_dir", "write_next_state"}
Tagged(l, s, w, b) == tag[l][<<s, w>>].blk = b /\ tag[l][<<s, w>>].st # "I"
ToFill(l, s, w) ==
  /\ l \in Open(s) /\ ~Early(s) /\ w = miss[l].lru
  /\ Copy(l, s, w, miss[l].addr) /\ ~Tagged(l, s, w, miss[l].addr)
ToUpgrade(l, s, w) ==
  /\ l \in Open(s) /\ ~Early(s)
  /\ dir[l][<<s, w>>].blk = miss[l].addr /\ dir[l][<<s, w>>].st = "M"
  /\ tag[l][<<s, w>>].blk = miss[l].addr /\ tag[l][<<s, w>>].st = "S"
Arrives(m, l) == m \in cmdNet \/ (m = lceCmd[l] /\ m # None /\ lceState[l] = "ready")
Coming(l, types, f) ==
  \E m : Arrives(m, l) /\ m.dst = l /\ m.type \in types /\ FrameOf(m.addr, m.way) = f
ToInvalidate(l, s, w) == Coming(l, {"inv"}, <<s, w>>) /\ dir[l][<<s, w>>].st = "I"
ToGive(l, s, w) ==
  /\ Coming(l, {"st_tr", "st_tr_wb"}, <<s, w>>)
  /\ tag[l][<<s, w>>].blk = dir[l][<<s, w>>].blk /\ tag[l][<<s, w>>].st \in Owned
TagInv ==
  \A s \in Set, l \in LCE, w \in Way : InService(HomeOf[s]) =>
    \/ Same(l, s, w) \/ ToFill(l, s, w) \/ ToUpgrade(l, s, w)
    \/ ToInvalidate(l, s, w) \/ ToGive(l, s, w)

(* A miss asks for a right its cache lacks.                                *)
MissBlock ==
  \A l \in LCE :
    miss[l].phase \in {"send", "sent"} /\ miss[l].op # "uc_rd" => miss[l].addr \in Block
Lacks ==
  \A l \in LCE :
    /\ miss[l].phase \in {"send", "sent"} /\ miss[l].op # "uc_rd"
    /\ ~Holds(l, {"data", "st_wakeup"})
    => \A w \in Way : ~Hit(l, miss[l].addr, w, Needs(miss[l].op))

(* The command a cache acknowledges has been executed.                     *)
Acked ==
  \A l \in LCE : lceState[l] = "coh_ack" =>
    /\ tag[l][CmdFrame(l)].st = dir[l][CmdFrame(l)].st
    /\ tag[l][CmdFrame(l)].blk = dir[l][CmdFrame(l)].blk

(* The tags themselves.                                                    *)
TagSet ==
  \A s \in Set, l \in LCE, w \in Way :
    Past(l) /\ tag[l][<<s, w>>].st # "I" => SetOf[tag[l][<<s, w>>].blk] = s
TagOwner ==
  \A s \in Set, l, k \in LCE, w, v \in Way : \A b :
    /\ Past(l) /\ Past(k) /\ Tagged(l, s, w, b) /\ Tagged(k, s, v, b)
    /\ tag[l][<<s, w>>].st \in Owned
    => l = k
CohInv ==
  /\ StartInv /\ DirInv /\ GrantInv /\ TakeInv /\ TagInv /\ MissBlock /\ Lacks /\ Acked
  /\ TagSet /\ TagOwner

----------------------------------------------------------------------------
(* Who may write a block.                                                  *)

(* A cache has a block in one way.                                         *)
TagOne ==
  \A s \in Set, l \in LCE, w, v \in Way : \A b :
    Past(l) /\ Tagged(l, s, w, b) /\ Tagged(l, s, v, b) => w = v

(* An invalidation finds a copy that nobody may write, an upgrade one that *)
(* may be read.                                                            *)
Ready(m) ==
  \/ m \in cmdNet
  \/ \E l \in LCE : m = lceCmd[l] /\ m # None /\ lceState[l] \in {"reset", "clear", "ready"}
InvShared ==
  \A m : Ready(m) /\ m.type = "inv" => tag[m.dst][FrameOf(m.addr, m.way)].st \notin Owned
WakeFsm ==
  \A c \in CCE : Granting(c) /\ mshr[c].uf =>
    tag[mshr[c].lce][<<ReqSet(c), mshr[c].way>>].st = "S"
WakeCmd ==
  \A m : Ready(m) /\ m.type = "st_wakeup" => tag[m.dst][FrameOf(m.addr, m.way)].st = "S"

(* A fill finds its frame free, once the victim has been given up.         *)
KnownVictim ==
  \A c \in CCE : cceState[c] = "write_next_state" /\ ~mshr[c].uf =>
    LET e == dir[mshr[c].lce][<<ReqSet(c), mshr[c].lru>>] IN
      /\ mshr[c].rf <=> e.st \in Owned
      /\ mshr[c].rf => e.blk = mshr[c].lruBlk
Evicting(c) == cceState[c] \in {"replacement", "replacement_wb_resp"}
FreeFrame ==
  \A s \in Set, l \in LCE, w \in Way : \A b :
    /\ l \in Open(s) /\ ~Early(s) /\ ~(Serving(s) /\ Evicting(HomeOf[s]))
    /\ w = miss[l].lru /\ b = miss[l].addr /\ Copy(l, s, w, b)
    => tag[l][<<s, w>>].st \notin Owned \/ tag[l][<<s, w>>].blk = b
VictimAlone ==
  \A c \in CCE : Evicting(c) =>
    \A k \in LCE, v \in Way : ~Copy(k, ReqSet(c), v, mshr[c].lruBlk)
VictimTag ==
  \A c \in CCE : Evicting(c) =>
    tag[mshr[c].lce][<<ReqSet(c), mshr[c].lru>>].blk = mshr[c].lruBlk
VictimFreed ==
  \A c \in CCE : \A m : WbResp(c, m) /\ cceState[c] = "replacement_wb_resp" =>
    tag[mshr[c].lce][<<ReqSet(c), mshr[c].lru>>].st \notin Owned

(* A store is granted the right to write, and keeps it until its replay.   *)
GrantsWrite ==
  \A s \in Set, l \in LCE, w \in Way :
    /\ l \in Open(s) /\ ~Early(s) /\ miss[l].op # "rd" /\ Copy(l, s, w, miss[l].addr)
    => dir[l][<<s, w>>].st = "M"
ReplayOwns ==
  \A l \in LCE : miss[l].phase = "replay" /\ miss[l].op # "rd" =>
    \E w \in Way : Hit(l, miss[l].addr, w, Owned)
Present(m) == m \in cmdNet \/ \E l \in LCE : m = lceCmd[l] /\ m # None
MovesWrite ==
  \A m : Present(m) /\ m.type = "st_tr" => miss[m.target].op # "rd"

(* Copies that stay beside a new one may only be read.                     *)
SharedLeft ==
  \A c \in CCE : cceState[c] = "inv_cmd" =>
    \A k \in LCE, w \in Way : OtherCopy(c, k, w) => dir[k][<<ReqSet(c), w>>].st = "S"
LeftCopies ==
  \A c \in CCE : cceState[c] = "inv_cmd" =>
    \A k \in toInv[c], w \in Way : sharers[c][k] = w => OtherCopy(c, k, w)
SharedSent ==
  \A c \in CCE : cceState[c] = "transfer_wb_resp" =>
    \A k \in LCE, w \in Way :
      Copy(k, ReqSet(c), w, mshr[c].addr) => dir[k][<<ReqSet(c), w>>].st = "S"

(* A cache told to give a block away has it, and no longer writes it once  *)
(* it has begun.                                                           *)
VictimCmd ==
  \A m : Present(m) /\ m.type = "st_wb" => m.dst = mshr[m.src].lce /\ m.way = mshr[m.src].lru
Giving == {"st_wb", "st_tr", "st_tr_wb"}
GiveTag ==
  \A m : Present(m) /\ m.type \in Giving =>
    tag[m.dst][FrameOf(m.addr, m.way)].blk = m.addr
Begun == {"tr"} \cup Passed
GiveBegun ==
  \A l \in LCE : lceState[l] \in Begun => tag[l][CmdFrame(l)].st \notin Owned

RightsInv ==
  /\ TagOne /\ InvShared /\ WakeFsm /\ WakeCmd /\ KnownVictim /\ FreeFrame
  /\ VictimAlone /\ VictimTag /\ VictimFreed /\ GrantsWrite /\ ReplayOwns /\ MovesWrite
  /\ SharedLeft /\ LeftCopies /\ SharedSent /\ VictimCmd /\ GiveTag /\ GiveBegun

----------------------------------------------------------------------------
(* Values: what is read, given away, buffered or sent is the last stored.  *)

(* A cache that asked to write a block writes it before it loses the block *)
(* again: only stores ask to write, and the lock outlasts their replay.    *)
StoresFollow == "lr" \notin CoreOps /\ ~LockMayExpire

CopyLatest ==
  \A s \in Set, l \in LCE, w \in Way : \A b :
    Past(l) /\ Tagged(l, s, w, b) /\ ~Filling(l, <<s, w>>) => line[l][<<s, w>>] = latest[b]
VictimLine ==
  \A c \in CCE : Evicting(c) =>
    line[mshr[c].lce][<<ReqSet(c), mshr[c].lru>>] = latest[mshr[c].lruBlk]
GiveLine ==
  \A m : Present(m) /\ m.type \in Giving =>
    line[m.dst][FrameOf(m.addr, m.way)] = latest[m.addr]
BufLatest ==
  \A l \in LCE : lceState[l] \in {"tr", "wb_dirty_send"} => dataBuf[l] = latest[lceCmd[l].addr]
WbLatest == \A m \in respNet : m.type = "wb" => m.data = latest[m.addr]
DataLatest == \A m : Ready(m) /\ m.type = "data" => m.data = latest[m.addr]
MemLatest ==
  \A c \in CCE, i \in Nat : \A l, b :
    MemTok(c, i, l, b, "cached") => memResp[c][i].data = latest[b]
SpecLatest ==
  \A s \in Set, i \in Nat : Serving(s) /\ ReadOf(s, i) =>
    LET c == HomeOf[s] IN
      /\ cceState[c] = "read_dir" =>
           \/ (\E k \in LCE, w \in Way : OtherCopy(c, k, w) /\ dir[k][<<s, w>>].st \in Owned)
           \/ memResp[c][i].data = latest[mshr[c].addr]
      /\ cceState[c] # "read_dir" =>
           mshr[c].xf \/ mshr[c].uf \/ memResp[c][i].data = latest[mshr[c].addr]

(* Memory lacks a value only while a cache owes it.                        *)
DirtyCopy(b) ==
  \E l \in LCE, w \in Way : Hit(l, b, w, Owned) /\ dirty[l][FrameOf(b, w)]
WbOwed(b) ==
  \E l \in LCE :
    /\ Holds(l, {"st_wb", "st_tr_wb"}) /\ lceCmd[l].addr = b
    /\ (lceState[l] \in {"wb_dirty_rd", "wb_dirty_send"} \/ dirty[l][CmdFrame(l)])
WbFlying(b) == \E m \in respNet : m.type = "wb" /\ m.addr = b
Moving(b) ==
  \E l \in LCE :
    /\ miss[l].op = "wr" /\ miss[l].addr = b
    /\ \/ miss[l].phase = "replay"
       \/ \E a \in {"cmd", "lce"} : \E x : Tok(a, x, 0, l, b, "cached")
MemOwed ==
  \A b \in Block : mem[b] # latest[b] =>
    DirtyCopy(b) \/ WbOwed(b) \/ WbFlying(b) \/ Moving(b)
(* The speculative read outlives the engine's work for its request, and a  *)
(* miss has its operation.                                                 *)
ReadWaits ==
  \A s \in Set : Serving(s) /\ cceState[HomeOf[s]] # "read_mem_spec" =>
    \E i \in Nat : ReadOf(s, i)
MissKnown ==
  \A l \in LCE : miss[l].phase # "idle" =>
    \/ miss[l].op = "uc_rd"
    \/ miss[l].op \in CoreOps \cup {"rd"} /\ miss[l].addr \in Block

ValueInv ==
  /\ CopyLatest /\ VictimLine /\ GiveLine /\ BufLatest /\ WbLatest /\ DataLatest
  /\ MemLatest /\ SpecLatest /\ MemOwed /\ ReadWaits /\ MissKnown
=============================================================================
