------------------------------ MODULE BootImage ------------------------------
(***************************************************************************)
(* How a program gets into the machine.  nbf.py reads the hex dump of an   *)
(* ELF file (objcopy -O verilog) and prints it in the network boot format  *)
(* between the writes that freeze, configure and release the cores; a      *)
(* loader (bp_nonsynth_nbf_loader.v) sends the lines as uncached writes,   *)
(* without waiting for them, and the configuration bus of a tile (bp_cfg.v)*)
(* and the memory carry them out.                                          *)
(*                                                                         *)
(* A byte is 0 or another value, an address is relative to the DRAM base.  *)
(***************************************************************************)
EXTENDS Integers, FiniteSets, Sequences, SequencesExt

CONSTANTS
  BootCores,    \* the cores, 1 .. ncpus
  BootFiles,    \* dumps: sequences of [at |-> address] and [byte |-> b]
  BootUcode,    \* the words of the microcode, or <<>> without --ucode
  BootCheckpoint,  \* lines of the file given with --checkpoint
  BootCredits,  \* io_noc_max_credits_p
  BootMemory    \* the DRAM addresses the loader can reach

ASSUME BootAssumption ==
  /\ 1 \in BootCores /\ BootCores \subseteq Nat \ {0} /\ IsFiniteSet(BootCores)
  /\ BootCredits \in Nat \ {0}
  /\ BootUcode \in Seq(ToSet(BootUcode)) /\ BootMemory \subseteq Nat

(* The address of the byte in a place of a dump: those of a section follow *)
(* the address line it begins with.                                        *)
SectionOf(file, i) ==
  CHOOSE j \in 1 .. i : /\ "at" \in DOMAIN file[j]
                        /\ \A k \in j + 1 .. i : "byte" \in DOMAIN file[k]
AddrOf(file, i) == file[SectionOf(file, i)].at + i - SectionOf(file, i) - 1
BytesIn(file)   == {i \in DOMAIN file : "byte" \in DOMAIN file[i]}

(* A dump begins with an address; its sections are aligned to words of     *)
(* four bytes and do not overlap.                                          *)
ASSUME FilesAssumption ==
  \A file \in BootFiles :
    /\ file \in Seq([at : Nat] \cup [byte : Nat])
    /\ file # <<>> => "at" \in DOMAIN file[1]
    /\ \A i \in DOMAIN file \ BytesIn(file) : file[i].at % 4 = 0
    /\ \A i, j \in BytesIn(file) : AddrOf(file, i) = AddrOf(file, j) => i = j

VARIABLES
  bootPc,        \* off, read, dump, send, done
  bootFile, bootConfig, bootSkip,  \* arguments: --mem, --config, --skip_zeros
  bootPos,       \* how much of the file is read
  bootCurr,      \* curr_addr
  bootStep,      \* addr_step
  bootHex,       \* assembled_hex: the bytes of the word, lowest first
  bootVals,      \* addr_val: word address -> bytes
  bootNbf,       \* the lines still to be sent
  bootLinks,     \* commands on their way, per destination
  bootDram,      \* memory
  bootTile       \* the configuration registers of each tile

bootIn   == <<bootFile, bootConfig, bootSkip>>
bootRead == <<bootPos, bootCurr, bootStep, bootHex, bootVals>>
bootVars == <<bootPc, bootIn, bootRead, bootNbf, bootLinks, bootDram, bootTile>>

----------------------------------------------------------------------------
(* nbf.py                                                                  *)

(* get_opcode: a line writes eight bytes (3), or four (2) to an odd word.  *)
GetOpcode(addr) == IF addr % 8 = 0 THEN 3 ELSE 2
BytesOf(opcode) == IF opcode = 3 THEN 8 ELSE 4

Token == bootFile[bootPos + 1]
More  == bootPos < Len(bootFile)

(* addr_val with the word under assembly, complete or not.                 *)
WithWord(bytes) == [a \in DOMAIN bootVals \cup {bootCurr} |->
                      IF a = bootCurr THEN bytes ELSE bootVals[a]]

Flushed == IF bootHex = <<>> THEN bootVals ELSE WithWord(bootHex)

ReadAt ==
  /\ bootPc = "read" /\ More /\ "at" \in DOMAIN Token
  /\ bootVals' = Flushed
  /\ bootHex' = <<>>
  /\ bootCurr' = Token.at
  /\ bootStep' = BytesOf(GetOpcode(Token.at))
  /\ bootPos' = bootPos + 1
  /\ UNCHANGED <<bootPc, bootIn, bootNbf, bootLinks, bootDram, bootTile>>

ReadByte ==
  LET hex == Append(bootHex, Token.byte)  next == bootCurr + bootStep IN
  /\ bootPc = "read" /\ More /\ "byte" \in DOMAIN Token
  /\ IF Len(hex) = bootStep
     THEN /\ bootVals' = WithWord(hex)
          /\ bootCurr' = next
          /\ bootStep' = BytesOf(GetOpcode(next))
          /\ bootHex' = <<>>
     ELSE bootHex' = hex /\ UNCHANGED <<bootVals, bootCurr, bootStep>>
  /\ bootPos' = bootPos + 1
  /\ UNCHANGED <<bootPc, bootIn, bootNbf, bootLinks, bootDram, bootTile>>

ReadEnd ==
  /\ bootPc = "read" /\ ~More
  /\ bootVals' = Flushed /\ bootHex' = <<>>
  /\ bootPc' = "dump"
  /\ UNCHANGED <<bootIn, bootPos, bootCurr, bootStep, bootNbf, bootLinks, bootDram,
                 bootTile>>

(* The links to the tiles are called 1, 2, ..., the link to memory 0.       *)
Dram == 0

(* print_nbf and print_nbf_allcores.                                       *)
Line(dst, addr, op, data) == [dst |-> dst, addr |-> addr, op |-> op, data |-> data]
Ascending(S) ==
  [n \in 1 .. Cardinality(S) |-> CHOOSE a \in S : Cardinality({b \in S : b <= a}) = n]

(* Mutated form of AllCores: the last core is forgotten.                   *)
AllCoresButLast(reg, val) ==
  [i \in DOMAIN Front(Ascending(BootCores)) |-> Line(Ascending(BootCores)[i], reg, 3, val)]

AllCores(reg, val) ==
  [i \in DOMAIN Ascending(BootCores) |-> Line(Ascending(BootCores)[i], reg, 3, val)]

Kept == {a \in DOMAIN bootVals : ~(bootSkip /\ ToSet(bootVals[a]) = {0})}
DramLine(a) == Line(Dram, a, GetOpcode(a), bootVals[a])

(* Mutated form of DramLines: the last address first.                      *)
DramLinesUnsorted ==
  [i \in DOMAIN Ascending(Kept) |-> DramLine(Reverse(Ascending(Kept))[i])]

(* init_dram: the words in the order of their addresses.                   *)
DramLines == [i \in DOMAIN Ascending(Kept) |-> DramLine(Ascending(Kept)[i])]

(* All words for the first core, then for the next.                        *)
UcodeLines ==
  [i \in 1 .. Cardinality(BootCores) * Len(BootUcode) |->
     LET core == Ascending(BootCores)[((i - 1) \div Len(BootUcode)) + 1]
         word == ((i - 1) % Len(BootUcode)) + 1
     IN Line(core, <<"ucode", word>>, 3, BootUcode[word])]

ConfigLines ==
  IF bootConfig
  THEN UcodeLines \o AllCores(<<"icache_mode", 0>>, 1) \o AllCores(<<"dcache_mode", 0>>, 1)
         \o AllCores(<<"cce_mode", 0>>, 1)
  ELSE <<>>

(* Mutated form of NbfLines: the cores run while the modes are written.    *)
NbfLinesUnfreezeFirst ==
  AllCores(<<"reset", 0>>, 1) \o AllCores(<<"freeze", 0>>, 1) \o AllCores(<<"reset", 0>>, 0)
    \o AllCores(<<"freeze", 0>>, 0) \o ConfigLines \o BootCheckpoint \o DramLines
    \o <<Line(1, <<"none", 0>>, 255, 0)>>

(* dump, with its end-of-file line.                                        *)
NbfLines ==
  AllCores(<<"reset", 0>>, 1) \o AllCores(<<"freeze", 0>>, 1) \o AllCores(<<"reset", 0>>, 0)
    \o ConfigLines \o BootCheckpoint \o DramLines \o AllCores(<<"freeze", 0>>, 0)
    \o <<Line(1, <<"none", 0>>, 255, 0)>>

Dump ==
  /\ bootPc = "dump"
  /\ bootNbf' = NbfLines
  /\ bootPc' = "send"
  /\ UNCHANGED <<bootIn, bootRead, bootLinks, bootDram, bootTile>>

----------------------------------------------------------------------------
(* The loader: one line after the other, as long as there is credit.       *)
Dest == BootCores \cup {Dram}
InFlight == FoldFunctionOnSet(LAMBDA q, n : n + Len(q), 0, bootLinks, Dest)
Queued(line) == [bootLinks EXCEPT ![line.dst] = Append(@, line)]

SendLine ==
  /\ bootPc = "send" /\ InFlight < BootCredits /\ Head(bootNbf).op # 255
  /\ bootLinks' = Queued(Head(bootNbf))
  /\ bootNbf' = Tail(bootNbf)
  /\ UNCHANGED <<bootPc, bootIn, bootRead, bootDram, bootTile>>

(* The line that ends the file is offered for a cycle, like any other: it  *)
(* is sent if the network takes it at once.                                *)
SendFinish ==
  /\ bootPc = "send" /\ Head(bootNbf).op = 255
  /\ \/ UNCHANGED bootLinks
     \/ /\ InFlight < BootCredits
        /\ bootLinks' = Queued(Head(bootNbf))
  /\ bootNbf' = Tail(bootNbf)
  /\ bootPc' = "done"
  /\ UNCHANGED <<bootIn, bootRead, bootDram, bootTile>>

----------------------------------------------------------------------------
(* The destinations.  Data shorter than the write is zero-extended.        *)
ServeDram ==
  LET w == Head(bootLinks[Dram])  last == w.addr + BytesOf(w.op) - 1 IN
  /\ bootLinks[Dram] # <<>>
  /\ bootDram' = [a \in BootMemory |->
       IF a \notin w.addr .. last THEN bootDram[a]
       ELSE IF a - w.addr < Len(w.data) THEN w.data[a - w.addr + 1] ELSE 0]
  /\ bootLinks' = [bootLinks EXCEPT ![Dram] = Tail(@)]
  /\ UNCHANGED <<bootPc, bootIn, bootRead, bootNbf, bootTile>>

(* The registers a tile has: the address of another one, such as reset,    *)
(* selects none, and the write is only answered.                           *)
ServeTile(t) ==
  LET w == Head(bootLinks[t]) IN
  /\ bootLinks[t] # <<>>
  /\ bootTile' = IF w.addr \in DOMAIN bootTile[t]
                 THEN [bootTile EXCEPT ![t][w.addr] = w.data] ELSE bootTile
  /\ bootLinks' = [bootLinks EXCEPT ![t] = Tail(@)]
  /\ UNCHANGED <<bootPc, bootIn, bootRead, bootNbf, bootDram>>

----------------------------------------------------------------------------
Freeze == <<"freeze", 0>>
Registers ==
  {Freeze, <<"icache_mode", 0>>, <<"dcache_mode", 0>>, <<"cce_mode", 0>>}
    \cup {<<"ucode", w>> : w \in DOMAIN BootUcode}

(* A checkpoint is the state of the cores (docs/software_guide.md:29): it  *)
(* sets none of these registers, and nothing in memory.                    *)
ASSUME CheckpointAssumption ==
  /\ BootCheckpoint \in Seq(ToSet(BootCheckpoint))
  /\ \A line \in ToSet(BootCheckpoint) :
       line.dst \in BootCores /\ line.addr \notin Registers /\ line.op # 255

(* Out of reset a core is frozen and its caches are not used.              *)
BootState(pc) ==
  /\ bootPc = pc
  /\ bootPos = 0 /\ bootCurr = 0 /\ bootStep = 0 /\ bootHex = <<>>
  /\ bootVals = <<>> /\ bootNbf = <<>>
  /\ bootLinks = [d \in Dest |-> <<>>]
  /\ bootDram = [a \in BootMemory |-> 0]
  /\ bootTile = [t \in BootCores |-> [r \in Registers |-> IF r = Freeze THEN 1 ELSE 0]]

BootOff == BootState("off") /\ bootFile = <<>> /\ bootConfig = FALSE /\ bootSkip = FALSE

BootInit ==
  BootState("read") /\ bootFile \in BootFiles /\ bootConfig \in BOOLEAN /\ bootSkip \in BOOLEAN

BootNext ==
  \/ ReadAt \/ ReadByte \/ ReadEnd \/ Dump
  \/ SendLine \/ SendFinish
  \/ ServeDram
  \/ \E t \in BootCores : ServeTile(t)

(* The tool and the loader go on while they can; a network delivers.       *)
BootFairness == WF_bootVars(BootNext)

----------------------------------------------------------------------------
(* What the file says of each address.                                     *)
FileByte(i) == [addr |-> AddrOf(bootFile, i), byte |-> bootFile[i].byte]
FileBytes   == {FileByte(i) : i \in BytesIn(bootFile)}

(* When the last line is served memory holds the image, byte for byte, and *)
(* zeros elsewhere: words cut in two by an address line, sections in any   *)
(* order, tails shorter than a word and skipped zeros included.            *)
ImageLoaded ==
  bootPc = "done" /\ (\A d \in Dest : bootLinks[d] = <<>>) =>
    \A a \in BootMemory :
      bootDram[a] = IF \E f \in FileBytes : f.addr = a
                    THEN (CHOOSE f \in FileBytes : f.addr = a).byte ELSE 0

(* With --config a core is not released before its caches and its engine   *)
(* are in their normal modes and the microcode is in place, although the   *)
(* loader waits for none of its writes.                                    *)
ConfiguredBeforeRelease ==
  bootConfig => \A t \in BootCores : bootTile[t][Freeze] = 0 =>
    \A r \in Registers \ {Freeze} :
      bootTile[t][r] = IF r[1] = "ucode" THEN BootUcode[r[2]] ELSE 1

(* Every core is released in the end, and stays released.                  *)
CoresReleased ==
  bootPc # "off" ~> [](\A t \in BootCores : bootTile[t][Freeze] = 0)
=============================================================================
