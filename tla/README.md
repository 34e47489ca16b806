# BlackParrot: a TLA+ verification development

BlackParrot is a RISC-V multicore in SystemVerilog, with Python tools around it.
This directory holds TLA+ specifications of the parts of it where correctness
depends on the order of events or on arithmetic at a boundary: BedRock, the
directory-based coherence system that joins the cores' caches; the pipeline of
the data cache; the issue queue between front end and back end; and the programs
that boot the machine, lay out and walk its page tables, and turn its traces into
tables, pictures and tests.  TLC checks the specifications on small instances;
TLAPS proves theorems for all.

## Inventory

| Component | State | Operations | Neighbours |
|---|---|---|---|
| CCE, fixed function (`bp_cce_fsm.v`) | FSM state, MSHR, sharers vectors, invalidation count, memory credits | accept a request, read memory speculatively, read and write the directory, evict, invalidate, upgrade, transfer, resolve | requests and responses from LCEs, commands to them, memory |
| Directory (`bp_cce_dir*`, `bp_cce_gad.v`) | tag and state of every frame of every cache | full read, write entry, write state, clear, flags of a request | CCE |
| Pending and speculation bits | a 3-bit counter and a record per way group | increment, decrement, set, read | CCE, also from responses that arrive beside its FSM |
| LCE (`bp_lce.v`, `bp_lce_cmd.v`, `bp_lce_req.v`) | FSM of commands, buffered block, held request, credits, timer | execute a command on the memories of the cache, send a request, pass a block on, answer | networks, cache |
| Data cache pipeline (`bp_be_dcache.v`, `bp_be_dcache_wbuf*.v`) | tags, data, dirty bits, stages TL and TV, write buffer, reservation, miss and lock | load, store, LR, SC, miss, replay, give its ports to the LCE | core, LCE or UCE |
| UCE (`bp_uce.v`) | FSM, dirty block buffer, fill counter, credits | fill, write back, flush, uncached access | cache, memory |
| Microcoded CCE (`bp_cce.v` ...) | registers, microprogram | the same protocol as a program | as the CCE |
| I/O CCE, loopback | none | answer uncached requests | networks |
| Issue queue (`bp_be_issue_queue.v`) | three pointers, two memories, one packet | enqueue, issue, commit, roll back, clear | front end, scheduler |
| Scheduler, detector, director | next PC, hazards of instructions in flight | issue, stall, redirect the front end | issue queue, calculator, CSRs |
| Front end (`bp_fe_*`), rolly FIFO | PC pipeline, predictors, instruction cache | fetch, redirect, fence | back-end queues |
| Page-table walker (`bp_be_ptw.v`), TLBs | walk state, level, page; entries | walk, retry, fault, fill, flush | data cache, core, page tables |
| Page-table generator (`ptgen.py`) | tables per level | find tables, place them, write entries | the walker reads what it writes |
| Boot: `nbf.py`, loader, configuration bus | words of the image, lines to send, registers of each tile | read a dump, sort, print, send within credits, serve | memory, every tile |
| Profiling tools (`pc_histogram.py`, `blood_graph.py`) | counts per tile and PC; pixels | parse a trace, count, group, draw | the core profiler's trace |
| Trace tools (`spike2tr.py` of front end, core and engine; `trace_gen.py`, `bsg_trace_rom.py`) | position in a log; a model of memory | turn a log into a trace; generate a random test | trace replayers, mock cache |
| Small converters, CLINT, links, L2 bridges, accelerators, tops | a line, registers, serialisers | - | all |

What is hard:

* *Concurrency.*  In BedRock every module is clocked by itself, sees only
  messages, and messages of three networks overtake each other; a transaction has
  up to eight messages and touches three caches; a block may come from memory,
  from its owner or not at all, and memory is read before it is known which; the
  cache goes on serving its core meanwhile.
* *Cycles.*  In the data cache two stages, a write buffer and the engine share
  three memories that are clocked by the other edge; in the issue queue five
  operations may meet in one cycle.
* *Boundaries.*  The tools cut files, address ranges and traces into words,
  tables, blocks, rows and columns, where each bound may be off by one, and keep
  state from line to line.  The walker repeats reads that missed with what its
  registers still hold.

`PROJECT.json` lists the hazards by line, with the property that covers each.
Those that no property covers are the release of a core while its program is
still on its way to memory, starvation of the cache engine, the UCE, and finite
network buffers.

What makes the components correct:

* CCE, LCE and caches together: memory as one atomic location per block.
* Directory: exactly what the caches hold, whenever a way group is at rest.
* Pending bits: one transaction of a way group at a time, and the group opens
  again.
* Responses, acknowledgements and fills: each is awaited, and awaited once.
* Requests: every miss completes; credits are returned exactly once.
* Data cache: loads, transfers and write-backs all see the last store, wherever
  it is on its way; the write buffer has room for every store.
* Issue queue: a queue that can be rolled back to the last commit.
* Walker and generator: a page is translated as its leaf entry says, and the
  entries say what the sections say.
* Boot: memory holds the program byte for byte, and no core runs in a machine
  not yet configured.
* Tools: the output accounts for every input, once.

## Plan

Done, in this order:

1. BedRock with the fixed-function CCE, its abstract specification and progress;
   the issue queue, its abstract specification.
2. The software around the processor, with the page-table walker.
3. The pipeline of the data cache, as the refinement of what BedRock takes for
   one step of a cache.
4. Proofs, from the cheapest argument to the longest: issue queue, walker, write
   buffer, types and start-up of BedRock, the issue queue's refinement, the values
   the data cache yields and gives away.
5. BedRock's transactions: the serialisation of way groups, the pending bits, the
   single source of a fill, invalidations and responses.
6. On this ground, coherence: directory and tags agree, and a block has one
   writer.
7. On that ground, values: memory is current, what is written back is the last
   value, and the system implements `CoherentMemory`; and the request credits.
8. The tools and the boot image: histograms, pictures, traces, the page tables of
   the generator as the walker finds them, the image in memory.

Worth doing beyond, in this order: the UCE as a second
implementation of `CoherentMemory` with one core; the handshake of the director
with the front end and the rolly FIFO; networks with finite buffers.

## Modules

    BedRock         constants, messages, variables, type invariant
      CceDirectory  the directory and the flags derived from it
        CceFsm      one action per state of bp_cce_fsm.v
      LceFsm        one action per command and state of bp_lce_cmd.v, requests
                    of bp_lce_req.v, accesses of the cache
        BedRockSystem   CceFsm and LceFsm composed; properties; fairness
          MCBedRock     instances for TLC
          BedRockProofs       types; start-up
            BedRockInvariant    the inductive invariants, in named parts
              BedRockSerialProofs     one transaction of a way group at a time
                BedRockCoherenceProofs  one writer, exact directory
                  BedRockRightsProofs     who may write a block as it moves; credits
                    BedRockValueProofs      memory is current; CoherentMemory
    CoherentMemory  abstract: one atomic location per block

    DcachePipe      bp_be_dcache.v cycle by cycle;  MCDcachePipe
      DcacheInvariant     where the newest value of each block is
        DcacheCoherence     the write buffer never overflows; loads and commands
                            see the newest value

    IssueQueue      bp_be_issue_queue.v;  MCIssueQueue
      IssueQueueProofs
    ReplayQueue     abstract: a queue that rolls back

    BootImage       nbf.py, the loader, the configuration bus
    PageTables      ptgen.py
      PtWalker      bp_be_ptw.v, on these tables or any others
    PcHistogram     pc_histogram.py
    BloodGraph      blood_graph.py
    SpikeTrace      the three spike2tr.py
    TraceGen        bsg_trace_rom.py, trace_gen.py, the replay
      MCSoftware    all of them, one program in each behaviour
      SoftwareProofs      walker and tables, tests, histograms, traces, pictures, boot

### BedRock

*Steps.* A cycle of one module is a step; modules interleave.  A state of the
FSM that only waits for a port is the guard of its action.  Loops over counters
at reset (clearing of sets, of directory rows) are one step each.  A CCE's FSM,
its forwarding of memory responses and its retirement of acknowledgements work
in the same cycle in the code, and the FSM stalls when they collide on the
command port or the pending bits; here they are three actions in any order.

*Networks.* `docs/bedrock_guide.md:20-22` states that the protocol is meant for
unordered networks.  Commands and responses are sets; a message waits for any
time and any message may be taken.  Only requests of one LCE to one CCE stay in
order.  An LCE takes a command out when it becomes the head of its port.

*State.* `mshr` keeps the fields of `bp_cce_mshr_s` the FSM reads; the four
flags for owners elsewhere are one, `xf`.  `dir`, `tag` map a frame (set, way)
to a block and a state.  `pending` and `specBits` are per set because a set is a
way group.  `memResp` is the memory: it serves a CCE's commands in order, so
a command takes effect when sent and its response is queued.  `miss` is what
the cache waits for: a request held by `bp_lce_req` (`send`), sent (`sent`), or
completed and to be tried again (`replay`), during which the cache is locked.
The lock begins two cycles after completion in the code; a command that slips
into that gap belongs to another set, since this set's group is still pending,
so it may as well come before completion.  `latest` is history, the last value
stored.

*Accesses.* Cores choose their accesses freely, and a hit load changes nothing,
so it is no action: what it would read is `View`.  A load-reserved that has no
copy at all asks for one as a load does and for the rest as a store does
(`MissOp`).  The victim of a miss is any way: the code prefers an invalid one,
but names it a cycle later, from the tags of the access behind
(`bp_be_dcache.v:727`).

*Data.* A block is one value.  Tags of different blocks differ whatever their
set.  The tag left in an invalid frame is never read.

*External.* `ConfigNormal` is software's write to the configuration register.

### The data cache's pipeline

`LceFsm` lets the cache execute an access or a command in one step.
`DcachePipe` is how it does so: one set of the cache, cycle by cycle.  Tag and
data memories and the stages TL and TV are clocked by the falling edge
(`Negedge`), write buffer, stat memory, reservation, miss tracker, lock, timer
and the engine's FSM by the rising edge (`Posedge`).  Grants of the ports are
combinational and evaluated at both edges, with what is in TV then.  In a cycle
a store may be in TV, in the buffer, and on its way to memory; a load takes the
newest of these (`Bypassed`).

*Engine.* The states are those of `bp_lce_cmd.v`, with its read buffers and the
registers that tell whether they are valid; `timeout` is the counter of
`bp_lce.v`, which wraps (`TimeoutWrap`) and holds the core off for one cycle
each time it passes `TimeoutMax`.

*Environment.* Coherence engine and other caches are one actor that serves one
command at a time: other caches have nothing, copies, or own the block (`other`).
That the engine sends a fill only when nobody else owns the block, and nothing
to a block it did not grant, is what the runs on BedRock show; here it is the
assumption.  The core issues anything at any time the cache is ready and may
flush at any time; what is not done early is flushed.

*Left out.* Uncached loads, atomics of the L2, `fence.i`, write-through, TLB
misses, the stage behind TV with the late write-back, request credits (they hold
the core off as the timer does).  The invalidation of `inv` names tag zero, which
is taken not to be the reserved tag.

### Issue queue

A cycle is a step.  Its inputs are free, except that an instruction is
issued only when there is one (the scheduler's `fe_queue_yumi_li`), never in the
cycle of a rollback or a clear, and committed only after it was issued.
Entries are abstract; the pre-decoded packet of an entry is the entry.

### Boot

`ReadAt`, `ReadByte`, `ReadEnd` are `nbf.py`'s loop over the words of a dump
(`objcopy -O verilog`), where `bootHex` is the word being assembled; `Dump`
prints the lines: reset, freeze, microcode and modes, a checkpoint, the words of
the image in the order of their addresses, release.  `SendLine` and `SendFinish`
are the loader's, which counts credits and waits for nothing else; `ServeDram`
(`bp_me_cce_to_cache.v`, which turns a write of four or eight bytes into one to the
L2) and `ServeTile` are the destinations, each in its own order and at its own pace.
Words are padded with zeros to the width of the write.  Assumed of a dump
(`FilesAssumption`): it begins with an address, addresses of sections are
multiples of four, and no byte is stated twice.  Assumed of a checkpoint
(`CheckpointAssumption`): it writes to tiles, and none of the registers that
`nbf.py` itself sets, nor ends the file, since it holds register files and CSRs
(`docs/software_guide.md:29`).  Memory is zero at the start.

### Page tables

`FindTables`, `PlaceTables` and `FillLevel` are the three passes of `ptgen.py`
over the levels.  `PtWalker` has an action per state of `bp_be_ptw.v`, two for
the answer of the data cache (data, or nothing when it missed), two for what is
done with it.  Nine bits of page number per level are `PtFanout` entries per
table.  The level counter has two bits and wraps.  An entry is judged in
`RecvPte`; the rights that go into the TLB are taken a cycle later (`WriteBack`),
from a register that is loaded in every cycle (`wkData`).  They are those of the
same entry because the word stays in the TV stage of the data cache (`wkWord`)
until a next load, and the walker keeps all others from the cache while it is busy.  The walker runs on the tables
of the generator and on tables of any content (`PtOthers`).

### Profiling and trace tools

`PcHistogram` and `BloodGraph` have an action per pass of the scripts and, where
a pass keeps state from row to row, an action per row.  Rows are those of
`bp_nonsynth_core_profiler`'s trace.  Names of operations that are treated alike
are one name.  An input on which a script stops with an exception leads to
`failed`.  The blocks of a histogram are found in one walk over the counted PCs:
`Window` is the block that walk has open at a PC, a recursive function, and a
block is a window that the next PC does not prolong.  The total histogram is added
up tile by tile (`AddTile`).

The colours of a picture are names.  Those the detailed mode draws at random, from
a fixed seed, are all different, neither black nor white; the table of the abstract
mode is `AbstractColour`, with one or two operations for each of its colours.  What
it paints black cannot be told from the background, and what it paints white not
from an instruction; `PictureFaithful` says what can be read in spite of that, and
compares the key with the picture.  `Image.new` fails on a negative height
(`InitImage`), `save` on none (`SaveImage`).  The option `--no-blood-graph`, which
makes the key alone, is left out.

`SpikeTrace` reads a log of Spike line by line, in the version for the front end
(fetches and redirections), for a core (register and memory writes) or for a
coherence engine.  A line is its kind, its place and its value.

`TraceGen` generates a random test as `bsg_trace_rom.py` does with the operators
of `trace_gen.py`, then replays it against `bp_me_nonsynth_mock_lce.v`: the
replayer hands it a packet (`ReplaySend`) when it has answered the one before;
`LceLoad` and `LceStore` decode operation, size, sign and address with operators
of their own, which share with the generator only the form of a packet, and answer
with 64 bits.  A byte has `TgByte` values.  Values are truncated and cut into
bytes as the script does.  Hits and misses compute the same data and are not told apart: the cache's
part in the protocol is the subject of BedRock, and the test bench has one cache.
Uncached requests (`-u`) are left out.  The replayer itself comes from a library
outside the repository and is modelled from how the test uses it.

## Runs

| Run | Instance | What it asks |
|---|---|---|
| `values` | 2 writing caches, 2 blocks in 1 frame, 2 values | Is it a memory?  `ImplementsCoherentMemory`, memory current when nobody owns a block, no stale write-back |
| `three_caches` | 3 caches (one read-only), 1 block, 2 values | Several sharers: one source for every fill, acknowledgements counted, responses only where awaited; refinement again |
| `protocol` | as `values` without values, with LR and expiring locks | types, single writer, directory, pending bits, serialisation, no empty invalidation |
| `two_engines` | 2 CCEs, a set each | Commands of two CCEs interleave at one cache |
| `two_ways` | 2 writing caches, 2 blocks, 2 ways | Hits, victims, upgrades and fills in different ways |
| `uncached` | cached and uncached, 2 credits | Startup, credits, progress of both |
| `progress` | as `protocol` without LR | Every miss completes |
| `lost_store` | 1 block, with LR | violated, see below |
| `dcache_pipe` | 1 way, 2 blocks, 2 values; loads, stores, uncached stores | loads and other caches see the last store; room in the write buffer |
| `stale_reservation` | 1 way, 1 block; LR and SC | violated, see below |
| `issue_queue` | 4 entries of 3 kinds | Pointers, packet, refinement |
| `software` | all programs, each on every input of a small class | see below |

The `software` run asks of
* the boot: the image is loaded (`ImageLoaded`), no core released before its
  tile is configured (`ConfiguredBeforeRelease`), every core released in the end
  (`CoresReleased`);
* page tables: every walk ends with the page and the rights the tables say
  (`WalksTranslate`), and finds what the sections say in the tables of `ptgen.py` (`SectionsMapped`);
* histograms: every executed row is in one block that states its count, no two
  blocks could be one, the last column is the rows of the block
  (`HistogramsExact`); the script ends well if every tile executed something
  (`HistogramsMade`);
* pictures: read back, a picture shows every tile in every cycle asked for, as far
  as the mode has colours for it, and nothing else, and the key names the colours
  (`PictureFaithful`); there is one unless the window ends before it starts or an
  operation is in no list (`PictureFits`);
* traces: the front end is sent where the next fetch is (`FetchesFollow`), the
  core is checked on every write from boot to the first ecall but for those of
  CSR instructions (`WritesChecked`);
* the random test: the mock cache passes (`TestPasses`).

*Bounds of BedRock.*  Two caches, two blocks and one frame make every miss an
eviction and every block contested: replacement, invalidation, upgrade and
transfer all occur.  A third cache is needed for a second sharer, a second way
for hits beside victims, a second CCE for commands that interleave.  One request
per cache is the code's own bound (the cache blocks).  `MemCredits = 3` is the
smallest number that does not deadlock: an unresolved speculative read, the
victim's write-back and the owner's write-back each hold one at the same time
(with 1 or 2 TLC reports the deadlock; the default is 8,
`bp_common_aviary_pkg.vh:79`).  Nothing else is capped: the state spaces are
finite.  Symmetry is used in runs without liveness only, over caches of the same
kind and over blocks or ways that the instance does not distinguish.

*Bounds of the pipeline.*  With one way two blocks compete, so that every miss
evicts the block that stores in flight belong to.  Two values tell the last store
from the one before it, and more than two stores never wait.  `TimeoutMax = 2`
and `TimeoutWrap = 4` let the timer fire, wrap and fire again within a command;
`LockMax = 2` lets a lock expire and be released early.  LR and SC are in
`stale_reservation` only, with one block, since the reservation multiplies the
states.

*Bounds of the software.*  Two sections of up to twelve bytes at even and odd
words, touching or apart, in both orders; two cores, two credits; tables of two
entries, two sections anywhere in their eight pages, tables with an entry of
every kind at every level; one cache miss anywhere in a walk; traces of four
rows over 2 x 2 tiles and of two instructions on two tiles, four tiles over
three cycles in a picture two wide, so that a floor fills exactly or not; logs
of three instructions with what they write; windows from
and to any of three cycles, before and after each other, and left open; tests of
two accesses to eight bytes, with bytes of one bit (`TgByte = 2`), so that the first
value stored has its sign bit set and the second is longer than a byte.  Each makes the boundary of its kind occur on both sides: a word cut by a
section, a section at the end of a table, a block at the end of a list, a full
last floor.

*Why those operations.*  `values` and `three_caches` leave out LR and the
expiry of locks, because with either the code loses a store (`lost_store`);
`protocol` includes both, and permissions, directory and pending bits are exact
nevertheless.

*Fairness of BedRock* (`FairSpec`).  Each FSM is clocked, so an action that stays
possible happens: weak fairness of the FSM of a CCE, of its responses and of
acknowledgements, of an LCE's commands, of a held request, of the replay.
Requests of different caches are arbitrated round robin, hence strong fairness of
taking a request of each.  No fairness makes a core start an access.
`LockExpire` is out of these runs: a miss is replayed.  Ports of the cache are
taken to be granted in the end.  `bp_lce.v:218-250` provides for it by holding
the core off after `timeout_max_limit_p` refused cycles, but only for the one
cycle in which its counter passes the limit: a command that needs the data and
the stat memory in one cycle (`e_wb_dirty_rd`) can be kept waiting by a core that
accesses the cache in every other cycle, the access being in TL or TV whenever
the timer fires.  The assumption is therefore one on the core as well: that it
leaves a few idle cycles in a row from time to time.

*Fairness of the boot* (`BootFairness`).  The tool and the loader go on while
they can, and the networks deliver: weak fairness of their next step.

## What the runs show

All passing properties hold.  Two violated ones are divergences:

1. **A store can be lost** (`lost_store`).  A dirty block handed to another
   cache (`st_tr`) is marked clean by the giver, "since transfer target will
   take ownership of dirty block" (`bp_lce_cmd.v:520`), but the data command does
   not set the target's dirty bit; a store of the target's core does.  A
   load-reserved that hits a shared copy asks for the block as a store does and
   stores nothing.  If a store of another cache is served before it, the block
   comes from that cache, dirty, and the only current copy is clean: the next
   reader gets it shared with a `null_wb`, and memory keeps the old value.  An
   expired lock (the core took an interrupt instead of replaying its store) does
   the same.
2. **A reservation can outlive its block** (`stale_reservation`).
   `bp_be_dcache.v:64-66` says an invalidation "covers all cases of losing
   exclusive access".  The code clears the reservation only if the command makes
   the block invalid, names its tag, and no load-reserved completes in that
   cycle.  In the shortest trace a load-reserved hits in TL, `st_tr` takes the tag
   memory in the next cycle while it is in TV, and the register is set and cleared
   at once, which sets it; the other core stores, the block is fetched again, and
   the store-conditional succeeds.  A downgrade to S followed by `inv`, whose tag
   is zero, and the silent replacement of an S block do the same.  Besides, a
   load-reserved that hits never starts the lock that is to hold off remote
   invalidations until the store-conditional (`bp_be_dcache.v:70-73`): it clears
   it (`early_v_o`).

Met while modelling, without a run, since the properties are stated for the inputs
the tools support:

* `ptgen.py:96`: the count that matches entries with tables starts again with
  every table, so only the first table of a level points to the right ones;
  beyond one table of the middle level, or for sections not in ascending order,
  the script raises IndexError (`:108`) or maps pages twice.
* `nbf.py`, loader: the line that ends the file may go out as a write like any
  other (harmless), and the release of a core may overtake the last words of its
  program, which go to memory over another link.
* `pc_histogram.py:111`: only "not stalled" rows are to be counted, but the
  stalls as BlackParrot's profiler names them are counted, all but those in
  `_miss`, `bubble` or with `stall_`.  A tile that executed nothing ends the
  script with IndexError.
* `blood_graph.py`: `_interrupt` is in no list and ends the script; the abstract
  mode ends on BlackParrot's stalls and `generate_key` with KeyError there.  A
  colour of its own is declared for floating point (`:216`, light pink) and never
  used: both kinds of instruction are white (`:270`, `:274`), in picture and key,
  and the property says so.  The window is to be "the entire course of simulation"
  if nothing else is asked for (`:341`), but its last cycle is left out (`:430`), and
  the property says that.  A window that ends before it starts is not refused: the
  script ends in an exception of the image library.  The profiler writes
  `x = y = 0` for every core.
* `bp_fe/software/py/spike2tr.py`: a line of an exception counts in the list of
  PCs (`:48`) and not in the index (`:70`), so redirections after an exception are
  off by one; the last two lines of the log are dropped.
* `bp_me/software/py/spike2tr.py:48` asks for a load of 15 bytes, which
  `trace_gen.py` refuses: it never produces a trace.

An open question: on a miss of the data cache the commit packet sets
`queue_v` and `instret` together with the rollback (`bp_be_csr.v:676-677`, `689`),
so the queue goes on behind the missed instruction.  A load gets its word with
the fill; where a missed store is tried again was not found.  The models let the
core do anything after a miss, so nothing above depends on it.

## Proofs

Each theorem is proved for all values of the constants that satisfy the named
assumptions of the modules.

**Issue queue**, for every `Els >= 2` and every set of entries, from
`ElsAssumption`:

* `PointersAlwaysOrdered`: `Spec => []PointersOrdered`,
* `HeadAlwaysDecoded`: `Spec => []HeadDecoded`,
* `QueueRefined`: `Spec => ImplementsReplayQueue`.

The inductive invariant is `IInv == TypeOK /\ PointersOrdered /\ MemoriesAgree
/\ HeadDecoded`.  `PointersOrdered` with `TypeOK` is inductive by itself
(`PointersStep`).  `HeadDecoded` is not: that the packet registered equals the
entry to be issued needs the two memories to agree, and that a write of this cycle
does not land on the entry at the head, which follows from the order of the
pointers.  The refinement has two halves: how far the pointers are apart after a
cycle is how long the abstract queue and its issued part are (`Distances`), and
the entry written is behind all that are live, which stay where they are
(`Contents`).

**Software**, in `SoftwareProofs`, for inputs of every size:

| Theorem | Statement | Assumptions |
|---|---|---|
| `WalksCorrect` | `WalkSpec => []WalksTranslate` | `PtAssumption`, `OthersAssumption`, `RequestsAssumption` |
| `SectionsFound` | `PagingSpec => []SectionsMapped` | `PtAssumption`, `SectionsAssumption`, `RequestsAssumption` |
| `ImagesLoaded` | `BootSpec => []ImageLoaded` | `BootAssumption`, `FilesAssumption`, `CheckpointAssumption` |
| `CoresConfigured` | `BootSpec => []ConfiguredBeforeRelease` | the same |
| `HistogramsAreExact` | `PhSpec => []HistogramsExact` | `PhAssumption` |
| `HistogramsComplete` | `PhSpec => []HistogramsMade` | `PhAssumption` |
| `PicturesFaithful` | `BgSpec => []PictureFaithful` | `BgAssumption` |
| `PicturesFit` | `BgSpec => []PictureFits` | `BgAssumption` |
| `AllWritesChecked` | `SpSpec => []WritesChecked` | `SpAssumption` |
| `FetchesMatch` | `SpSpec => []FetchesFollow` | `SpAssumption` |
| `TestsPass` | `TgSpec => []TestPasses` | `TgAssumption` |

Most of the assumptions say that inputs are finite sequences of what they are
made of.  Those that say more are met by every input the programs are used on: the
ones on dumps and checkpoints are explained above; `TgAssumption` says that a byte
has an even number of values and a dword more than there are tests; `BgAssumption`
that the rows of a trace are in the order of cycles, and that a tile
has one row per cycle, as each core's profiler writes one line per cycle into a
trace of its own.

* *Walker* (`WalkInv`): where on the way from the root to the leaf it is, in terms
  of the level and page registers and of the entry it holds (`OnTheWay`), that the
  word in the cache is still the entry held, and that there is no answer without a
  request.  It is needed because a read is repeated
  after a miss from those registers, which change in other states.
* *Page tables* (`PagingInv`): the script lists the tables of each level in
  ascending order and fills them by position.  The invariant names tables by the
  page number they stand for, and their position by how many come before; so the
  entry of a page is found where the walker computes it, and one that no page needs
  is left invalid.  The walker's invariant is kept on these tables as on any.
* *Histograms* (`PhInv`, `CountInv`): the counts of a tile are the rows counted so
  far.  Every window goes up in steps of one instruction with one count
  (`WindowRight`); so blocks are apart, none could be longer, and the rows of a
  block are those of its instructions, by induction on its length.  Counts of
  different tiles are of disjoint sets of rows, hence the total is right as well.
* *Traces* (`SpInv`, `FetchInv`): the registers of the script say what the lines
  read so far say, and its messages are their writes, in order; for the front end,
  the index into the list of PCs is the number of instructions read, and after a
  redirection the fetch awaited is the next in the list.  The former holds as long
  as no line is an exception.
* *Pictures* (`BgInv`): every place written is inside the picture (`Inside`) and
  is that of a row drawn, in the colour of its operation (`Painted`); that it belongs
  to one tile and one cycle is arithmetic of quotient and remainder.
* *Random test* (`TgInv`): the lines still to be replayed lead from the memory of
  the cache, as it will be when the request it has is served, to that of the
  generator, and after each request state what the cache will answer then.  What the
  cache decodes is what the generator coded (`LoadDecoded`, `StoreDecoded`).
* *Boot*.  `ReadInv`: the words listed so far and the one being assembled hold the
  bytes read so far.  `SendInv`: each byte of memory is right and only harmless
  writes of it wait, or a waiting write puts it right and only harmless ones
  follow.  It has this form since a short word is written with zeros behind it: the
  lines ascend, so that the word that belongs there comes later, and the link keeps
  their order.  Each register has its value, or the write of it is ahead of the
  core's release, on the same link or among the lines.

The library's theorems for induction take an operator as parameter, which these
provers cannot instantiate.  The proofs use sets of numbers instead (`Induction`,
`Least`), and what the recursive function `Window` is at each PC is shown by one
more such induction (`WindowIs`).

**Write buffer of the data cache**, for any number of ways, blocks and values and
any behaviour of engine and other caches, from `DcacheAssumption`:

* `NoOverflow`: `Spec => []WbufBounded`.

No store checks for room.  The invariant is that a stage that holds a store
leaves room for it: in the cycle a store came in no load did, so the buffer could
drain, unless the engine took the data memory, which it only does when the buffer
is empty and no store is about to enter it.

**Values of the data cache**, likewise, from `DcacheAssumption`:

* `LoadsCorrect`: `Spec => []LoadsCurrent`,
* `GivesCorrect`: `Spec => []OthersCurrent`.

The two need one invariant, `CohInv` of `DcacheInvariant`, because what a load
reads and what a command reads are both right only if each knows where the other
is.  Its parts, on top of the types and of the write buffer's invariant:

* `Pipeline`: what TL found is what the tags say now; a miss that holds the core
  off leaves no access in the stages; a lookup never finds two ways.
* `Engine`: for each state of the engine, which command it holds, that the tag
  has been changed once the command was granted it, and that a dirty bit that was
  read is the one that stands.
* `Copies`: a block has at most one frame, and none when another cache owns it; a
  fill replaces no data still owed, a wake-up finds its copy.
* `Queue`: a store that waits belongs to a frame whose data are owed and whose
  dirty bit is set; none waits for the block of a command that has read the data
  memory, and none is about to enter the buffer then.
* `Values`: the newest value of a block a frame holds is in the data memory, or
  behind it in the write buffer (`HeldCurrent`); a block no frame owes as dirty
  and nobody else owns is current in memory (`MemCurrent`); what has been read for
  a load or a command is the newest value.

A step is a falling edge (`NegedgeCoherent`: memories and stages change, the
engine waits), a rising edge (`PosedgeCoherent`: the engine stays, goes on or
ends its command), or one of the environment's (a command, a copy taken or a
store made elsewhere).  That the environment sends what BedRock would send is part
of `Next`, hence an assumption of both theorems.

**BedRock**, for every number of caches, engines, blocks, sets, ways and credits,
from `ConstantsAssumption`, `FiniteAssumption` and `NoneAssumption` (that a cache
that holds no command is told from one that does):

* `TypesInvariant`: `Spec => []IInv`,
* `TypeCorrect`: `Spec => []TypeOK`,
* `StartupCorrect`: `Spec => []StartupOrder`,
* `GroupSerialized`: `Spec => []WayGroupSerialized`,
* `PendingCounts`: `Spec => []PendingExact`,
* `SourceUnique`: `Spec => []OneSource`,
* `AcksAreCounted`: `Spec => []AcksCounted`,
* `SomeoneInvalidated`: `Spec => []InvalidatesSomeone`,
* `ResponsesAreExpected`: `Spec => []ResponsesExpected`,
* `SingleWriterHolds`: `Spec => []SingleWriter`,
* `DirectoryIsExact`: `Spec => []DirectoryExact`,
* `RightsHeld`: `Spec => [](Sound /\ RightsInv)`,
* `CreditsAreExact`: `Spec => []CreditsExact`,

and, for the configurations of which `StoresFollow` is true,

* `LatestHeld`: `Spec => [](Sound /\ RightsInv /\ ValueInv)`,
* `WritesBackLatest`: `Spec => WritebackIsLatest`,
* `MemoryIsCurrent`: `Spec => []MemoryCurrent`,
* `CoherentMemoryImplemented`: `Spec => ImplementsCoherentMemory`.

`StoresFollow` says that cores ask to write a block only with stores (no
load-reserved), and that the lock of a completed miss outlasts its replay. It is
what separates these theorems from the finding of the run `lost_store`: a block
that a load-reserved has upgraded may be taken away before anything is stored in
it, and then its dirty bit, which stood for an earlier store, is lost. The same
happens to a store whose lock expires before its replay: the configuration of
`values` with `LockMayExpire = TRUE` violates `MemoryCurrent` too. So neither half
can be dropped. None of the theorems before needs it.

`TypeOK` is not inductive.  The CCE puts fields of its MSHR into messages, and
whether they are loaded depends on the state of the FSM; so `IInv` adds what has
been loaded in which state (`MshrWF`: requester, victim, way of an upgrade, owner;
`InvWF`: a way for every sharer still to invalidate), that a request being taken
is still at the head of its channel (`ReqWF`, with `SrcWF`: a channel carries its
own cache's requests), that the multi-cycle states of an LCE hold the command
that led there (`CmdWF`), and that an unsent miss has an address of its kind
(`MissWF`).  One lemma per action; `Unchanged` disposes of the groups of variables
an action leaves alone.

`SyncInv` of `BedRockProofs` follows the one sync message of each engine
through its three forms (in the network, at the head of the cache's queue,
acknowledged).  It is needed because the order is established by a conversation
and used by a count: an engine goes into service when it has counted all caches
(`synced[c] = LCE`), and a counted cache is known to be past its start-up only
because its conversation was closed by an acknowledgement it could only send when
ready.  All steps outside the synchronisation are `Ordinary` and preserve
`SyncInv` for one reason.

`SerialInv` of `BedRockInvariant` is what keeps transactions apart.  None of its
parts is inductive alone, since they hold each other up in a circle: a request is
only taken when the pending bits are zero, the bits are only right if every
response that counts them down stands for something they count, and a response
comes once only because the request was taken once.

* `TokInv`: the miss a cache waits for is in one place at a time.  It passes as a
  token from its channel to the engine, and from there into a speculative read, a
  wake-up, a transfer or a data command, and is gone when the cache acknowledges.
  `Tok` names the places; a step shifts places (`TokShift`) or moves one token to
  one new place (`TokMove`).  `ReqInv` is about the first place: a channel holds one
  blocking request, the one its cache waits for.
* `SpecInv`: a way group has one speculative read, of the request its engine works
  for, and the speculation bit is set exactly until that is resolved.  This decides
  whether the token is in the read or still at the engine.
* `PendInv`: the pending bits are open requests, acknowledgements and memory
  operations.  `OneInv`, `OpsInv` bound the three, by one, one and three, hence the
  counter does not wrap; `FreeInv` says that none is there when a request is
  dequeued.
* `WbInv`: an engine that waits for a write-back has asked for it, once; one that
  does not wait gets none.  `DirSetInv`, `MshrInv`, `HomeInv`: blocks, victims and
  responses are of the set that is being worked for, so that one engine's counters
  and queues are all that matter.

`CountInv` follows invalidations as `SyncInv` follows the sync message, but many at
a time: `InvBalance` says that those in the network, held by caches and
acknowledged together are `cnt`, which is what lets `cnt = 1` end the wait and
keeps every other state free of late acknowledgements.  That the wait is ever
entered with something to wait for is `SharersKnown`: the flag `csf` and the vector
of sharers come from one read of the directory, and are kept through a replacement.

`CohInv` is what makes the caches coherent.  The directory is ahead of the tags: an
engine writes an entry when it decides, and the command that makes it true may still
wait in a network.  So neither `SingleWriter` nor `DirectoryExact` is inductive; the
invariant says of every frame why its tag may differ from its entry, and that the
command that will end the difference carries what the entry says.

* `StartInv`: until its engine is in service a set has nothing pending, and its
  cleared entries and tags are invalid.
* `DirInv`: in the directory alone, a cache has a block once (`DirOne`) and an owner
  is alone (`DirOwner`), but for the entry just granted while the others are still
  to be invalidated or to give (`Fresh`).  `KnownInv` is what the engine knows then:
  vector, owner and flags in its MSHR are the directory's, up to the invalidations
  sent since, which holds because no other request of the set is under way.
* `GrantInv`: whatever brings a block (a speculative read, a fill, a wake-up, a
  transfer) brings it to the way, and in the state, that the directory has for it.
* `TakeInv`: whatever takes a block away finds the directory already changed.
* `TagInv`: an entry and its tag are the same, or the cache still waits for the fill
  or the upgrade, or an invalidation or a transfer is on its way.
* `Lacks`, with `MissBlock`: a miss asks for a right its cache lacks until the
  command that grants it is there, hence an upgrade finds a shared copy and a fill
  finds none.  This is the one place where the directory depends on the tags.
* `Acked`: a cache acknowledges what it has executed, hence at the acknowledgement
  the set is at rest and `TagInv` leaves only equality, which is `DirectoryExact`.
* `TagSet`, `TagOwner`: among the tags an owner is alone.  When a block arrives,
  every other difference of the set is settled (`TagsSettled`), since the way group
  is serialised, so that `DirOwner` carries over to the tags.  `SingleWriter` follows.

The steps of an engine preserve the parts by what it writes (`DirStep`, `CopyMove`),
the steps of a cache by what a command leaves in its frame (`TagOutcome`).

`RightsInv` (`RightsHeld`) goes on from there: who may
write a block while it moves, which is what the values of blocks rest on.

* `InvShared`, `VictimFreed`, `GiveTag`, `GiveBegun`: an invalidation finds no copy that
  may be written; a cache that answers an eviction has given the victim up; one that is
  told to give a block has it, and may not write it any more once it has begun.
* `FreeFrame`, with `KnownVictim`, `VictimAlone`, `VictimTag`: when the grant is on its
  way the frame it goes to holds nothing a cache may still write.
* `GrantsWrite`, `ReplayOwns`, `MovesWrite`: a miss that is not a read is granted M, and
  its cache has the right when the access is replayed.
* `SharedLeft`, `LeftCopies`, `SharedSent`: copies that stay beside a new one may only be
  read, and the vector the engine invalidates from names copies.
* `TagOne`: a cache has a block in one way.  It had the block in the way the grant names, or in none.

`ValueInv` (`LatestHeld`) is about values at last. It says of every place that holds
one that it is the last stored, and of memory why it may differ.

* `CopyLatest`: a copy in the tags, unless it is just being filled, is the last value.
* `VictimLine`, `GiveLine`, `BufLatest`, `WbLatest`: so are the line an evicting engine
  waits for, the line a transfer is to take, what a cache has read into its buffer,
  and what it has sent back. The right to write was gone by then (`RightsInv`), so
  no store makes them old.
* `DataLatest`, `MemLatest`: so is what fills a frame, on its way from memory through
  the engine.
* `SpecLatest`, with `ReadWaits`: a speculative read may be old, but then the engine
  squashes it: when it has read the directory, it knows an owner to ask.
* `MemOwed`: memory lacks the last value of a block only while a dirty copy, a
  write-back that is asked for, begun or on its way, or a store still to come owes it.
  The store still to come is the transfer of a dirty block to a cache that asked to
  write: the dirty bit does not travel, and `StoresFollow` is that the store sets it.
* `MissKnown`: what a miss asks for is among the operations of the core.

`MemoryCurrent` follows as every debt of a block keeps its way group busy or its
copy owned; `WritebackIsLatest` as only a write-back in `WbLatest` is ever written.

The refinement of `CoherentMemory` maps `copy` to what a cache can read now, and
`writer` to the copies in an owned state. `View` chooses a way; `TagOne` and
`CopyLatest` make it the last value or none at all, so the proof speaks of `Sees` and
`Writes` only. A step changes these for one frame of one cache (`SeenMoves`), hence
for one block: the head of a data command hides the frame (`Revoke`), the data and
the wake-up show it (`Grant`), an invalidation, a transfer or a write-back takes it
away or makes it read-only (`Revoke`), a store is `Write`; the rest stutter. That a
`Grant` or `Write` finds no other holder is `SingleWriter` with `SharedLeft`.

`CreditInv` counts the uncached stores as sets of places, a pair of engine and
position in its queue or a message, so that the sum is finite and each step is one
of three: a place is added, a place is removed, or the head of a queue is taken and
all its places move up by one, which is a bijection (`PlacesTaken`). The rest is
that a miss gives its credit back once, which is `TokInv`: the command that ends it
arrives only while it is in flight (`MissEnds`).

**Only model-checked**: liveness, that is `MissCompletes`, `PendingDrains` and
`CoresReleased`, each under its fairness; a prover for fairness and `ENABLED` is
not at hand.  Every safety invariant and every action property of the passing runs
is a theorem.  The two properties that are violated are refuted by TLC.

## Not modelled

The UCE, which serves a single core without coherence; the microcoded CCE (its
behaviour is that of a microprogram); the I/O CCE; the front end, its rolly FIFO
and the director's handshake with it; the TLBs; the datapath (functional units,
decoders, CSRs, register files); serialisation and finite buffers of the links,
L2 bridges, accelerators and the wiring of tops and tiles; converters that keep
nothing from one line to the next.  Of BedRock: the F and O states, which
neither engine stores; write-through and L2 atomics; the uncached mode of an LCE.
Of the boot: register files and CSRs a checkpoint writes, and reads.  See
`components` in `PROJECT.json` for each part and its reason.
