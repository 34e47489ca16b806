------------------------------ MODULE TraceGen ------------------------------
(***************************************************************************)
(* The random test of a coherence engine.  bsg_trace_rom.py chooses loads  *)
(* and stores, keeps a memory of its own to know what each has to return,  *)
(* and has trace_gen.py write the lines a replayer follows.  A line is a   *)
(* command for the replayer (send, receive, wait, done) and a packet for   *)
(* the mock cache of the test bench: operation, address, data.  The cache  *)
(* decodes a packet, loads or stores, and answers.                         *)
(***************************************************************************)
EXTENDS Integers, SequencesExt

CONSTANTS
  TgBytes,  \* bytes of the memory under test
  TgByte,   \* values of a byte: 256
  TgTests   \* num_instr

(* The sign of a byte is its upper half.  store_val stays below the values *)
(* of a dword: format() would write a longer packet.                       *)
ASSUME TgAssumption ==
  /\ TgBytes \in Nat \ {0} /\ TgTests \in Nat
  /\ TgByte \in Nat \ {0} /\ TgByte % 2 = 0 /\ TgTests < TgByte ^ 8

VARIABLES
  tgPc,      \* off, choose, replay, done, failed
  tgCount,   \* i
  tgMem,     \* byte_memory
  tgVal,     \* store_val
  tgLines,   \* the lines printed; replaying takes them off
  tgWait,    \* cycles the replayer still waits
  tgCache,   \* what the mock cache and the memory behind it hold
  tgCmd,     \* cmd of the mock cache: the request it is at work on
  tgResp     \* the answer it holds out to the replayer

tgVars == <<tgPc, tgCount, tgMem, tgVal, tgLines, tgWait, tgCache, tgCmd, tgResp>>

Sizes == {1, 2, 4, 8}
Addrs(size) == {a \in 0 .. TgBytes - 1 : a % size = 0 /\ a + size <= TgBytes}
SizeCode(size) == CASE size = 1 -> 0 [] size = 2 -> 1 [] size = 4 -> 2 [] size = 8 -> 3

(* A memory holds bytes, and so does a value, the lowest first: store_val, *)
(* truncated to the size.                                                  *)
Bytes(val, size) == [i \in 1 .. size |-> (val \div TgByte ^ (i - 1)) % TgByte]
(* The 64 bits of a packet: zeros, or another byte, above what is given.   *)
Dword(bytes, above) == [i \in 1 .. 8 |-> IF i \in DOMAIN bytes THEN bytes[i] ELSE above]

ReadMemory(mem, addr, size) == [i \in 1 .. size |-> mem[addr + i - 1]]
WriteMemory(mem, addr, bytes, size) ==
  [a \in DOMAIN mem |-> IF a \in addr .. addr + size - 1
                        THEN bytes[a - addr + 1] ELSE mem[a]]

----------------------------------------------------------------------------
(* trace_gen.py.  Replayer commands: 1 send, 2 receive, 3 done, 5 wait for *)
(* the counter, 6 load the counter.                                        *)
Packet(cmd, op, addr, data) == [cmd |-> cmd, op |-> op, addr |-> addr, data |-> data]

(* Mutated form of SendLoad: an unsigned load is coded as a signed one.    *)
SendLoadSigned(signed, size, addr) ==
  <<Packet(1, SizeCode(size), addr, Dword(<<>>, 0))>>

(* There is one load of eight bytes, signed or not.                        *)
SendLoad(signed, size, addr) ==
  <<Packet(1, IF size = 8 THEN 3 ELSE SizeCode(size) + (IF signed THEN 0 ELSE 4),
           addr, Dword(<<>>, 0))>>

SendStore(size, addr, bytes) == <<Packet(1, SizeCode(size) + 8, addr, Dword(bytes, 0))>>
RecvData(addr, bytes)        == <<Packet(2, 0, addr, Dword(bytes, 0))>>
WaitLines(cycles) == <<Packet(6, 0, 0, cycles), Packet(5, 0, 0, <<>>)>>
TestDone          == WaitLines(8) \o <<Packet(3, 0, 0, <<>>)>>

----------------------------------------------------------------------------
(* bsg_trace_rom.py: a load expects what was stored last, a store zero.    *)
ChooseLoad(size, addr) ==
  /\ tgPc = "choose" /\ tgCount < TgTests
  /\ tgCount' = tgCount + 1
  /\ tgLines' = tgLines \o SendLoad(FALSE, size, addr)
                        \o RecvData(addr, ReadMemory(tgMem, addr, size))
  /\ UNCHANGED <<tgPc, tgMem, tgVal, tgWait, tgCache, tgCmd, tgResp>>

ChooseStore(size, addr) ==
  /\ tgPc = "choose" /\ tgCount < TgTests
  /\ tgCount' = tgCount + 1
  /\ tgLines' = tgLines \o SendStore(size, addr, Bytes(tgVal, size))
                        \o RecvData(addr, <<>>)
  /\ tgMem' = WriteMemory(tgMem, addr, Bytes(tgVal, size), size)
  /\ tgVal' = tgVal + 1
  /\ UNCHANGED <<tgPc, tgWait, tgCache, tgCmd, tgResp>>

EndTest ==
  /\ tgPc = "choose" /\ tgCount = TgTests
  /\ tgLines' = tgLines \o TestDone
  /\ tgPc' = "replay"
  /\ UNCHANGED <<tgCount, tgMem, tgVal, tgWait, tgCache, tgCmd, tgResp>>

----------------------------------------------------------------------------
(* The mock cache, a request at a time: bit 3 of the operation is a store, *)
(* bit 2 a load without sign, bits 1 and 0 are the size.  A hit and a miss *)
(* end alike, for a miss is served before the cache goes on.               *)
OpSize(op)     == 2 ^ (op % 4)
Unsigned(op)   == (op \div 4) % 2 = 1
Aligned(p)     == p.addr - (p.addr % OpSize(p.op))
NoCmd          == Packet(0, 0, 0, Dword(<<>>, 0))
Reply(p, data) == Packet(2, 0, p.addr, data)

(* The load of request p from mem: up to a dword, extended by its sign.    *)
LoadData(mem, p) ==
  LET loaded == [i \in 1 .. OpSize(p.op) |-> mem[Aligned(p) + i - 1]] IN
  Dword(loaded, IF ~Unsigned(p.op) /\ loaded[OpSize(p.op)] >= TgByte \div 2
                THEN TgByte - 1 ELSE 0)

(* The store of request p to mem: the bytes of its mask are written.       *)
StoreData(mem, p) ==
  [a \in DOMAIN mem |-> IF a \in Aligned(p) .. Aligned(p) + OpSize(p.op) - 1
                        THEN p.data[a - Aligned(p) + 1] ELSE mem[a]]

Replaying(cmd) == tgPc = "replay" /\ tgLines # <<>> /\ Head(tgLines).cmd = cmd

(* READY: the cache takes a packet when it has answered the one before.    *)
ReplaySend ==
  /\ Replaying(1) /\ tgCmd = NoCmd /\ tgResp = <<>>
  /\ tgCmd' = Head(tgLines)
  /\ tgLines' = Tail(tgLines)
  /\ UNCHANGED <<tgPc, tgCount, tgMem, tgVal, tgWait, tgCache, tgResp>>

LceLoad ==
  /\ tgCmd # NoCmd /\ tgCmd.op < 8
  /\ tgResp' = Append(tgResp, Reply(tgCmd, LoadData(tgCache, tgCmd)))
  /\ tgCmd' = NoCmd
  /\ UNCHANGED <<tgPc, tgCount, tgMem, tgVal, tgLines, tgWait, tgCache>>

LceStore ==
  /\ tgCmd # NoCmd /\ tgCmd.op >= 8
  /\ tgCache' = StoreData(tgCache, tgCmd)
  /\ tgResp' = Append(tgResp, Reply(tgCmd, Dword(<<>>, 0)))
  /\ tgCmd' = NoCmd
  /\ UNCHANGED <<tgPc, tgCount, tgMem, tgVal, tgLines, tgWait>>

(* The replayer compares, and stops the simulation at a mismatch.          *)
ReplayRecv ==
  /\ Replaying(2) /\ tgResp # <<>>
  /\ IF Head(tgResp) = Head(tgLines) THEN UNCHANGED tgPc ELSE tgPc' = "failed"
  /\ tgResp' = Tail(tgResp) /\ tgLines' = Tail(tgLines)
  /\ UNCHANGED <<tgCount, tgMem, tgVal, tgWait, tgCache, tgCmd>>

ReplayWait ==
  /\ \/ Replaying(6) /\ tgWait' = Head(tgLines).data /\ tgLines' = Tail(tgLines)
     \/ Replaying(5) /\ tgWait # 0 /\ tgWait' = tgWait - 1 /\ UNCHANGED tgLines
     \/ Replaying(5) /\ tgWait = 0 /\ UNCHANGED tgWait /\ tgLines' = Tail(tgLines)
  /\ UNCHANGED <<tgPc, tgCount, tgMem, tgVal, tgCache, tgCmd, tgResp>>

ReplayDone ==
  /\ Replaying(3)
  /\ tgPc' = "done" /\ tgLines' = Tail(tgLines)
  /\ UNCHANGED <<tgCount, tgMem, tgVal, tgWait, tgCache, tgCmd, tgResp>>

----------------------------------------------------------------------------
TgState(pc) ==
  /\ tgPc = pc /\ tgCount = 0 /\ tgVal = 1 /\ tgWait = 0 /\ tgCmd = NoCmd /\ tgResp = <<>>
  /\ tgMem = [a \in 0 .. TgBytes - 1 |-> 0] /\ tgCache = tgMem
  /\ tgLines = IF pc = "off" THEN <<>> ELSE WaitLines(1)

TgOff  == TgState("off")
TgInit == TgState("choose")

TgNext ==
  \/ \E size \in Sizes : \E addr \in Addrs(size) :
       ChooseLoad(size, addr) \/ ChooseStore(size, addr)
  \/ EndTest \/ ReplaySend \/ LceLoad \/ LceStore \/ ReplayRecv \/ ReplayWait \/ ReplayDone

----------------------------------------------------------------------------
(* A random test passes on the mock cache and a memory that works: a       *)
(* request is coded as the cache decodes it, size, sign and data, an       *)
(* expectation is the 64 bits the cache answers to its own request, and    *)
(* the generator and the cache end with the same bytes.                    *)
TestPasses ==
  /\ tgPc # "failed"
  /\ tgPc = "done" =>
       tgLines = <<>> /\ tgCmd = NoCmd /\ tgResp = <<>> /\ tgCache = tgMem
=============================================================================
