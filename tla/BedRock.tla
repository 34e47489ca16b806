------------------------------ MODULE BedRock ------------------------------
(***************************************************************************)
(* The vocabulary and the state of the BedRock coherence system: local     *)
(* cache engines (LCE, bp_me/src/v/lce), fixed-function coherence engines  *)
(* (CCE, bp_me/src/v/cce/bp_cce_fsm.v), the three networks between them    *)
(* and the memory behind every CCE.                                        *)
(*                                                                         *)
(* A clock cycle of a module is an atomic step; modules interleave.  A     *)
(* network holds a message for an arbitrary time and, as docs/bedrock_     *)
(* guide.md promises for the protocol, delivers in any order, except that  *)
(* the requests of one LCE to one CCE stay in order.                       *)
(***************************************************************************)
EXTENDS Integers, Sequences, FiniteSets

CONSTANTS
  LCE,          \* cache engines
  ReadOnlyLCE,  \* instruction caches: no stores, reads are non-exclusive
  CCE,          \* coherence engines
  Block,        \* cacheable blocks
  IoBlock,      \* uncached words
  Set,          \* sets of a cache; a set is also a way group of the directory
  Way,          \* ways of a cache
  SetOf,        \* the set a block or word maps to
  HomeOf,       \* the CCE a set is striped to
  Data,         \* values of a block
  InitData,     \* value of every block at reset
  MemCredits,   \* mem_noc_max_credits_p
  LceCredits,   \* coh_noc_max_credits_p
  CoreOps,      \* the cached operations the cores execute
  LockMayExpire,\* the cache lock may time out before a miss is replayed
  None          \* no value

ASSUME ConstantsAssumption ==
  /\ ReadOnlyLCE \subseteq LCE
  /\ SetOf \in [Block \cup IoBlock -> Set]
  /\ HomeOf \in [Set -> CCE]
  /\ InitData \in Data
  /\ CoreOps \subseteq {"rd", "wr", "lr"} /\ LockMayExpire \in BOOLEAN
  /\ MemCredits \in Nat \ {0} /\ LceCredits \in Nat \ {0}
  /\ None \notin LCE \cup CCE \cup Block \cup IoBlock \cup Way \cup Data
  /\ Block \cap IoBlock = {}

ASSUME FiniteAssumption == IsFiniteSet(LCE) /\ LCE # {}

----------------------------------------------------------------------------
Addr  == Block \cup IoBlock
Frame == Set \X Way              \* one way of one set of a cache

Home(a)       == HomeOf[SetOf[a]]
FrameOf(a, w) == <<SetOf[a], w>>

(* bp_coh_states_e; F and O are left out: neither engine ever stores them. *)
CohState  == {"I", "S", "E", "M"}
Owned     == {"E", "M"}
Valid     == {"S", "E", "M"}
Line      == [blk : Block, st : CohState]

CacheOp   == {"rd", "wr"}
UcOp      == {"uc_rd", "uc_wr"}
Request   ==
  [op : CacheOp, src : LCE, addr : Block, lru : Way, nonExcl : BOOLEAN]
    \cup [op : UcOp, src : LCE, addr : IoBlock, data : Data]

Command   ==
  [type : {"sync"}, src : CCE, dst : LCE]
    \cup [type : {"inv"}, src : CCE, dst : LCE, addr : Block, way : Way]
    \cup [type : {"st_wb", "st_wakeup"}, src : CCE, dst : LCE, addr : Block,
          way : Way, st : CohState]
    \cup [type : {"st_tr", "st_tr_wb"}, src : CCE, dst : LCE, addr : Block,
          way : Way, st : CohState,
          target : LCE, targetWay : Way, targetSt : CohState]
    \cup [type : {"data"}, src : CCE, dst : LCE, addr : Block, way : Way,
          st : CohState, data : Data]
    \cup [type : {"uc_data"}, src : CCE, dst : LCE, addr : IoBlock, data : Data]
    \cup [type : {"uc_st_done"}, src : CCE, dst : LCE, addr : IoBlock]

(* A cache that holds no command is told from one that does.               *)
ASSUME NoneAssumption == None \notin Command

Response  ==
  [type : {"sync_ack"}, src : LCE, dst : CCE]
    \cup [type : {"inv_ack", "coh_ack", "null_wb"}, src : LCE, dst : CCE,
          addr : Block]
    \cup [type : {"wb"}, src : LCE, dst : CCE, addr : Block, data : Data]

MemResponse ==
  [type : {"rd"}, addr : Block, lce : LCE, way : Way, data : Data]
    \cup [type : {"wr"}, addr : Block]
    \cup [type : {"uc_rd"}, addr : IoBlock, lce : LCE, data : Data]
    \cup [type : {"uc_wr"}, addr : IoBlock, lce : LCE]

(* bp_cce_spec_s, kept per way group by bp_cce_spec_bits. *)
SpecBits  == [spec : BOOLEAN, squash : BOOLEAN, fwdMod : BOOLEAN, st : CohState]
NoSpec    == [spec |-> FALSE, squash |-> FALSE, fwdMod |-> FALSE, st |-> "I"]

CceStates ==
  {"reset", "clear_dir", "uncached_only", "send_sync", "sync_ack", "ready",
   "uc_req", "read_pending", "deq_lce_req", "read_mem_spec", "read_dir",
   "write_next_state", "inv_cmd", "inv_ack", "replacement",
   "replacement_wb_resp", "upgrade_stw_cmd", "transfer", "transfer_wb_resp",
   "resolve_speculation", "error"}

(* bp_cce_mshr_s.  xf stands for the disjunction of the cached-exclusive,  *)
(* -modified, -owned and -forward flags, the only form the FSM reads.      *)
Mshr ==
  [lce : LCE \cup {None}, addr : Addr \cup {None}, lru : Way \cup {None},
   write : BOOLEAN, nonExcl : BOOLEAN,
   way : Way \cup {None}, lruBlk : Block \cup {None},
   rf : BOOLEAN, uf : BOOLEAN, csf : BOOLEAN, xf : BOOLEAN,
   owner : LCE \cup {None}, ownerWay : Way \cup {None}, next : CohState]

NoMshr ==
  [lce |-> None, addr |-> None, lru |-> None,
   write |-> FALSE, nonExcl |-> FALSE, way |-> None, lruBlk |-> None,
   rf |-> FALSE, uf |-> FALSE, csf |-> FALSE, xf |-> FALSE,
   owner |-> None, ownerWay |-> None, next |-> "I"]

LceCmdStates ==
  {"reset", "clear", "ready", "tr", "wb_stat_rd", "wb", "wb_dirty_rd",
   "wb_dirty_send", "coh_ack"}

(* What the cache waits for: the request bp_lce_req holds ("send"), the    *)
(* blocking miss it has sent ("sent"), and the second try of the access    *)
(* that missed, for which the completed cache stays locked ("replay").     *)
Miss ==
  [phase : {"idle", "send", "sent", "replay"},
   op : CoreOps \cup {"rd", "uc_rd", None},
   addr : Addr \cup {None}, lru : Way \cup {None}]
NoMiss == [phase |-> "idle", op |-> None, addr |-> None, lru |-> None]

----------------------------------------------------------------------------
VARIABLES
  \* per CCE
  cceState,     \* state_r
  cceNormal,    \* cce_normal_mode, set through the configuration bus
  mshr,         \* mshr_r
  sharers,      \* sharers_hits_r and sharers_ways_r: the way hit, or None
  toInv,        \* pe_sharers_r: sharers still to be invalidated
  cnt,          \* cnt: invalidations not acknowledged
  synced,       \* cnt_1 and ack_cnt: LCEs that were sent a sync
  memCredit,    \* mem_credit_count_lo: memory commands outstanding
  memResp,      \* responses the memory has ready, in order
  \* per set, at its home CCE
  dir,          \* directory entry of every frame of every LCE
  pending,      \* pending_bits_r: a 3-bit counter per way group
  specBits,     \* spec_bits_r
  \* per LCE
  lceState,     \* state_r of bp_lce_cmd
  lceCmd,       \* the command held at the head of lce_cmd_i
  dataBuf,      \* data_buf_r
  miss,         \* bp_lce_req's held request and the cache's blocking miss
  credit,       \* credit_count_lo
  tag,          \* tag_mem of the cache: block and state of every frame
  line,         \* data_mem of the cache
  dirty,        \* dirty bits of stat_mem of the cache
  \* networks and memory
  reqNet,       \* requests, in order from one LCE to one CCE
  cmdNet,       \* commands in flight
  respNet,      \* responses in flight
  mem,          \* memory behind the CCEs
  latest        \* history: the last value stored to every block

cceVars   == <<cceState, cceNormal, mshr, sharers, toInv, cnt, synced>>
dirVars   == <<dir, pending, specBits>>
memVars   == <<memCredit, memResp, mem>>
cacheVars == <<tag, line, dirty>>
lceVars   == <<lceState, lceCmd, dataBuf>>
coreVars  == <<miss, credit>>
netVars   == <<reqNet, cmdNet, respNet>>
vars      == <<cceVars, dirVars, memVars, cacheVars, lceVars, coreVars,
               netVars, latest>>

CceTypeOK ==
  /\ cceState \in [CCE -> CceStates]
  /\ cceNormal \in [CCE -> BOOLEAN]
  /\ mshr \in [CCE -> Mshr]
  /\ sharers \in [CCE -> [LCE -> Way \cup {None}]]
  /\ toInv \in [CCE -> SUBSET LCE]
  /\ cnt \in [CCE -> Int]
  /\ synced \in [CCE -> SUBSET LCE]

DirTypeOK ==
  /\ dir \in [LCE -> [Frame -> Line]]
  /\ pending \in [Set -> 0 .. 7]
  /\ specBits \in [Set -> SpecBits]

MemTypeOK ==
  /\ memCredit \in [CCE -> Int]
  /\ memResp \in [CCE -> Seq(MemResponse)]
  /\ mem \in [Addr -> Data]

CacheTypeOK ==
  /\ tag \in [LCE -> [Frame -> Line]]
  /\ line \in [LCE -> [Frame -> Data]]
  /\ dirty \in [LCE -> [Frame -> BOOLEAN]]

LceTypeOK ==
  /\ lceState \in [LCE -> LceCmdStates]
  /\ lceCmd \in [LCE -> Command \cup {None}]
  /\ dataBuf \in [LCE -> Data]

CoreTypeOK ==
  /\ miss \in [LCE -> Miss]
  /\ credit \in [LCE -> Int]

NetTypeOK ==
  /\ reqNet \in [LCE \X CCE -> Seq(Request)]
  /\ cmdNet \in SUBSET Command
  /\ respNet \in SUBSET Response

TypeOK ==
  /\ CceTypeOK /\ DirTypeOK /\ MemTypeOK /\ CacheTypeOK /\ LceTypeOK
  /\ CoreTypeOK /\ NetTypeOK
  /\ latest \in [Block -> Data]
=============================================================================
