----------------------------- MODULE SpikeTrace -----------------------------
(***************************************************************************)
(* The log of the simulator Spike as a trace to be replayed: against the   *)
(* front end, what it has to fetch and where the back end redirects it     *)
(* (bp_fe/software/py/spike2tr.py), against a core, what it has to write   *)
(* (bp_top/...), against a coherence engine (bp_me/...).                   *)
(***************************************************************************)
EXTENDS Integers, SequencesExt

CONSTANTS
  SpLogs,   \* sequences of lines, see below
  SpBootPc  \* boot_pc, where the program proper begins

ASSUME SpAssumption == \A log \in SpLogs : log \in Seq(ToSet(log))

(* A line of a log has a kind:                                             *)
(*   core   an instruction at [pc], of class [op]: jump, csr, ecall, other *)
(*   trap   core, too, with the word exception in place of the pc          *)
(*   rd, st a register [at], a place in memory [at] was written with [val] *)
VARIABLES
  spPc,      \* off, run, done, failed
  spTool,    \* fe, top, me: which of the scripts
  spLog, spAt,
  spIdx,     \* pc_idx
  spStart,   \* start; the reverse of skip_unbooted
  spSkip,    \* skip
  spMsg      \* msg, recv: what the trace will be

spVars == <<spPc, spTool, spLog, spAt, spIdx, spStart, spSkip, spMsg>>

Runs(tool) == spPc = "run" /\ spTool = tool
LogLine == spLog[spAt + 1]
IsEcall == LogLine.kind = "core" /\ LogLine.op = "ecall"
IsInstr == LogLine.kind = "core"
Booted  == spStart \/ LogLine.pc = SpBootPc

(* A number that is none: the word exception.                              *)
NoPc == -1

----------------------------------------------------------------------------
(* The front end.                                                          *)

(* pc_list: every line of a core, with a zero at the end.                  *)
PcList ==
  LET cores == {i \in DOMAIN spLog : spLog[i].kind \in {"core", "trap"}}
      nth(n) == CHOOSE i \in cores : Cardinality({j \in cores : j <= i}) = n
      pc(line) == IF line.kind = "core" THEN line.pc ELSE NoPc
  IN [n \in 1 .. Cardinality(cores) + 1 |->
        IF n <= Cardinality(cores) THEN pc(spLog[nth(n)]) ELSE 0]

(* Mutated form of NextPc: the pc of the instruction itself.               *)
NextPcOwn == PcList[spIdx + 1]

(* pc_list[pc_idx], after pc_idx was increased.                            *)
NextPc == PcList[spIdx + 2]

RecvPc(line)    == [msg |-> "recv", pc |-> line.pc, taken |-> FALSE]
SendTarget(pc, from) == [msg |-> "send", pc |-> pc, taken |-> pc # from + 4]

FeLine ==
  /\ Runs("fe") /\ spAt + 2 < Len(spLog) /\ ~IsEcall
  /\ spAt' = spAt + 1
  /\ spIdx' = IF IsInstr THEN spIdx + 1 ELSE spIdx
  /\ spStart' = (spStart \/ (IsInstr /\ Booted))
  /\ CASE ~(IsInstr /\ Booted) -> UNCHANGED <<spMsg, spPc>>
       [] IsInstr /\ Booted /\ LogLine.op # "jump" ->
            spMsg' = Append(spMsg, RecvPc(LogLine)) /\ UNCHANGED spPc
       [] IsInstr /\ Booted /\ LogLine.op = "jump" ->
            IF NextPc = NoPc
            THEN spPc' = "failed" /\ UNCHANGED spMsg
            ELSE /\ spMsg' = spMsg \o <<RecvPc(LogLine), SendTarget(NextPc, LogLine.pc)>>
                 /\ UNCHANGED spPc
  /\ UNCHANGED <<spTool, spLog, spSkip>>

(* The last two lines are left out.                                        *)
FeEnd ==
  /\ Runs("fe") /\ (spAt + 2 < Len(spLog) => IsEcall)
  /\ spPc' = "done"
  /\ UNCHANGED <<spTool, spLog, spAt, spIdx, spStart, spSkip, spMsg>>

----------------------------------------------------------------------------
(* The core.                                                               *)

(* Mutated form of Skips: the mark of an instruction is not taken back.    *)
SkipsSticky(line) == spSkip \/ line.op = "csr"

(* Reads and writes of CSRs, which the simulator may answer otherwise.     *)
Skips(line) == line.op = "csr"

TopLine ==
  /\ Runs("top") /\ spAt < Len(spLog) /\ ~IsEcall
  /\ spAt' = spAt + 1
  /\ spStart' = (spStart \/ (IsInstr /\ LogLine.pc = SpBootPc))
  /\ spSkip' = IF IsInstr THEN Skips(LogLine) ELSE spSkip
  /\ spMsg' = IF LogLine.kind \in {"rd", "st"} /\ spStart /\ ~spSkip
              THEN Append(spMsg, LogLine) ELSE spMsg
  /\ UNCHANGED <<spPc, spTool, spLog, spIdx>>

TopEnd ==
  /\ Runs("top") /\ (spAt < Len(spLog) => IsEcall)
  /\ spPc' = "done"
  /\ UNCHANGED <<spTool, spLog, spAt, spIdx, spStart, spSkip, spMsg>>

----------------------------------------------------------------------------
(* The coherence engine.  The first instruction after boot is to be fetched*)
(* by a load of 15 bytes, of which trace_gen.py knows nothing: the script  *)
(* ends with an error before it has written a line.                        *)
MeLine ==
  /\ Runs("me") /\ spAt + 2 < Len(spLog) /\ ~IsEcall
  /\ spAt' = spAt + 1
  /\ spPc' = IF IsInstr /\ Booted THEN "failed" ELSE spPc
  /\ UNCHANGED <<spTool, spLog, spIdx, spStart, spSkip, spMsg>>

MeEnd ==
  /\ Runs("me") /\ (spAt + 2 < Len(spLog) => IsEcall)
  /\ spPc' = "done"
  /\ UNCHANGED <<spTool, spLog, spAt, spIdx, spStart, spSkip, spMsg>>

----------------------------------------------------------------------------
SpState(pc, tool) ==
  /\ spPc = pc /\ spTool = tool
  /\ spAt = 0 /\ spIdx = 0 /\ spStart = FALSE /\ spSkip = FALSE
  /\ spMsg = IF tool = "fe" THEN <<[msg |-> "send", pc |-> SpBootPc, taken |-> FALSE]>>
             ELSE <<>>

SpOff == SpState("off", "top") /\ spLog = <<>>

SpInit == (\E tool \in {"fe", "top", "me"} : SpState("run", tool)) /\ spLog \in SpLogs

SpNext == FeLine \/ FeEnd \/ TopLine \/ TopEnd \/ MeLine \/ MeEnd

----------------------------------------------------------------------------
NoTraps == \A i \in DOMAIN spLog : spLog[i].kind # "trap"

(* A replay of the front end makes sense: it is sent where to go before    *)
(* the first instruction and after every jump, and the next one it is to   *)
(* fetch is there; a redirection is marked as taken exactly when it is not *)
(* to the next instruction.  For logs without exceptions: an exception is  *)
(* counted on one side only.                                               *)
FetchesFollow ==
  spTool = "fe" /\ NoTraps =>
    \A i \in 2 .. Len(spMsg) :
      /\ spMsg[i].msg = "recv" /\ spMsg[i - 1].msg = "send" => spMsg[i].pc = spMsg[i - 1].pc
      /\ spMsg[i].msg = "send" =>
           spMsg[i - 1].msg = "recv" /\ (spMsg[i].taken <=> spMsg[i].pc # spMsg[i - 1].pc + 4)

(* The instruction a line of the log belongs to.                           *)
OfInstr(i) == Max({j \in 1 .. i : spLog[j].kind = "core"})

(* The core is checked on every write of every instruction from boot up to *)
(* the first ecall, in order, but for those of CSR instructions.           *)
WritesChecked ==
  LET boot == {i \in DOMAIN spLog : spLog[i].kind = "core" /\ spLog[i].pc = SpBootPc}
      stop == {i \in DOMAIN spLog : spLog[i].kind = "core" /\ spLog[i].op = "ecall"}
      checked == {i \in DOMAIN spLog :
                    /\ spLog[i].kind \in {"rd", "st"}
                    /\ \E b \in boot : b < i /\ \A s \in stop : s > i
                    /\ spLog[OfInstr(i)].op # "csr"}
  IN spTool = "top" /\ spPc = "done" =>
       /\ Len(spMsg) = Cardinality(checked)
       /\ \A i \in checked : spMsg[Cardinality({j \in checked : j <= i})] = spLog[i]
=============================================================================
