----------------------------- MODULE BloodGraph -----------------------------
(***************************************************************************)
(* blood_graph.py: the trace of the core profiler as a picture.  A column  *)
(* is a cycle, a row is a tile; after as many cycles as the picture is     *)
(* wide the next floor of rows begins.  The colour tells what a tile did.  *)
(***************************************************************************)
EXTENDS Integers, SequencesExt, FiniteSetsExt

CONSTANTS
  BgTraces,  \* sequences of rows [cycle, x, y, op], in the order of cycles
  BgStats,   \* lists of the cycles (global_ctr) of a statistics file
  BgCycles,  \* cycles that may be asked for as a start or an end
  BgWidth    \* img_width

(* The profiler writes a row per tile and cycle, cycle after cycle.        *)
ASSUME BgAssumption ==
  /\ BgWidth \in Nat \ {0} /\ BgCycles \subseteq Nat
  /\ \A stats \in BgStats : stats \in Seq(Nat)
  /\ \A trace \in BgTraces :
       /\ trace # <<>> /\ trace \in Seq(ToSet(trace))
       /\ \A row \in ToSet(trace) : row.cycle \in Nat /\ row.x \in Nat /\ row.y \in Nat
       /\ \A i, j \in DOMAIN trace : i <= j => trace[i].cycle <= trace[j].cycle
       /\ \A r1, r2 \in ToSet(trace) :
            r1.cycle = r2.cycle /\ r1.x = r2.x /\ r1.y = r2.y => r1.op = r2.op

VARIABLES
  bgPc,        \* off, parse, window, init, mark, key, done, failed
  bgTrace, bgStats, bgAbstract,
  bgCustom,    \* --cycle start@end, either may be left out
  bgDim,       \* xmin, ymin, xdim, ydim
  bgWindow,    \* start_cycle and end_cycle
  bgHeight,    \* img_height
  bgPixel,     \* the pixels painted: (column, row) -> colour; the others are black
  bgRow,       \* rows drawn
  bgKey        \* the picture of the key: labels and the colour beside each

bgIn   == <<bgTrace, bgStats, bgAbstract, bgCustom>>
bgVars == <<bgPc, bgIn, bgDim, bgWindow, bgHeight, bgPixel, bgRow, bgKey>>

Unset == -1

----------------------------------------------------------------------------
(* The names of operations.  Of the instructions, the two the profiler     *)
(* writes and one of floating point stand for all.                         *)
STALLS ==
  {"freeze", "fe_queue_stall", "fe_wait_stall", "itlb_miss", "icache_miss",
   "icache_fence", "branch_override", "fe_cmd", "cmd_fence", "mispredict",
   "control_haz", "data_haz", "load_dep", "mul_dep", "struct_haz", "dtlb_miss",
   "dcache_miss", "long_haz", "eret", "exception", "interrupt", "none_mispredict",
   "ovr_mispredict", "btb_mispredict", "ret_mispredict", "ret_override"}
INSTRS    == {"instr", "unknown"}
FP_INSTRS == {"fadd"}

(* The table of the abstract mode, with one or two names for each colour.  *)
(* Only one of the stalls above is among its keys.                         *)
AbstractColour ==
  [stall_depend_remote_load_dram |-> "red", stall_depend_remote_load_group |-> "green",
   stall_lr_aq |-> "dark gray", icache_miss |-> "blue", stall_md |-> "white",
   stall_depend |-> "black", bubble |-> "black"]

Coloured == IF bgAbstract THEN DOMAIN AbstractColour ELSE STALLS

Known(op) == op \in Coloured \cup INSTRS \cup FP_INSTRS

(* In the detailed mode the colours of the stalls are drawn at random from *)
(* a fixed seed: all differ, and none is black or white.  Both kinds of    *)
(* instruction are given the colour of the first.                          *)
Colour(op) ==
  CASE op \notin Coloured -> "white"
    [] op \in Coloured /\ bgAbstract -> AbstractColour[op]
    [] op \in Coloured /\ ~bgAbstract -> op

----------------------------------------------------------------------------
GetTileGroupDim ==
  LET xs == {row.x : row \in ToSet(bgTrace)}  ys == {row.y : row \in ToSet(bgTrace)} IN
  /\ bgPc = "parse"
  /\ bgDim' = [xmin |-> Min(xs), ymin |-> Min(ys),
               xdim |-> Max(xs) - Min(xs) + 1, ydim |-> Max(ys) - Min(ys) + 1]
  /\ bgPc' = "window"
  /\ UNCHANGED <<bgIn, bgWindow, bgHeight, bgPixel, bgRow, bgKey>>

(* __get_timing_window: what is asked for, else the statistics, else the   *)
(* whole trace.                                                            *)
GetTimingWindow ==
  /\ bgPc = "window"
  /\ bgWindow' =
       [start |-> IF bgCustom.start # Unset THEN bgCustom.start
                  ELSE IF bgStats # <<>> THEN Head(bgStats) ELSE Head(bgTrace).cycle,
        end   |-> IF bgCustom.end # Unset THEN bgCustom.end
                  ELSE IF bgStats # <<>> THEN Last(bgStats) ELSE Last(bgTrace).cycle]
  /\ bgPc' = "init"
  /\ UNCHANGED <<bgIn, bgDim, bgHeight, bgPixel, bgRow, bgKey>>

(* Mutated form of Floors: a full last floor is not counted.               *)
FloorsShort == (bgWindow.end - bgWindow.start) \div BgWidth

Floors == (bgWindow.end - bgWindow.start + BgWidth) \div BgWidth

(* A picture cannot have a negative height, nor be saved with none: both   *)
(* happen when the window ends before it starts.                           *)
InitImage ==
  /\ bgPc = "init"
  /\ bgHeight' = Floors * (2 + bgDim.xdim * bgDim.ydim)
  /\ bgPixel' = <<>>
  /\ bgPc' = IF bgHeight' < 0 THEN "failed" ELSE "mark"
  /\ UNCHANGED <<bgIn, bgDim, bgWindow, bgRow, bgKey>>

(* Mutated form of Place: a floor has a row per column of tiles.           *)
PlaceNarrow(row) ==
  LET cycle == row.cycle - bgWindow.start IN
  <<cycle % BgWidth,
    (cycle \div BgWidth) * bgDim.xdim
      + (row.x - bgDim.xmin) + (row.y - bgDim.ymin) * bgDim.xdim>>

Place(row) ==
  LET cycle == row.cycle - bgWindow.start IN
  <<cycle % BgWidth,
    (cycle \div BgWidth) * bgDim.xdim * bgDim.ydim
      + (row.x - bgDim.xmin) + (row.y - bgDim.ymin) * bgDim.xdim>>

InWindow(row) == bgWindow.start <= row.cycle /\ row.cycle < bgWindow.end

(* __mark_trace: a name in no list, or a pixel outside, ends the script.   *)
MarkTrace ==
  LET row == bgTrace[bgRow + 1]  at == Place(row) IN
  /\ bgPc = "mark" /\ bgRow < Len(bgTrace)
  /\ bgRow' = bgRow + 1
  /\ CASE ~InWindow(row) -> UNCHANGED <<bgPixel, bgPc>>
       [] InWindow(row) /\ Known(row.op) /\ at[2] < bgHeight ->
            /\ bgPixel' = [p \in DOMAIN bgPixel \cup {at} |->
                             IF p = at THEN Colour(row.op) ELSE bgPixel[p]]
            /\ UNCHANGED bgPc
       [] OTHER -> bgPc' = "failed" /\ UNCHANGED bgPixel
  /\ UNCHANGED <<bgIn, bgDim, bgWindow, bgHeight, bgKey>>

SaveImage ==
  /\ bgPc = "mark" /\ bgRow = Len(bgTrace)
  /\ bgPc' = IF bgHeight = 0 THEN "failed" ELSE "key"
  /\ UNCHANGED <<bgIn, bgDim, bgWindow, bgHeight, bgPixel, bgRow, bgKey>>

(* generate_key looks up every stall in the colours of the mode, then      *)
(* labels the two of the instructions; or it is not asked for.             *)
GenerateKey ==
  /\ bgPc = "key"
  /\ IF STALLS \subseteq Coloured
     THEN /\ bgKey' = {[label |-> op, colour |-> Colour(op)] : op \in STALLS}
                        \cup {[label |-> l, colour |-> "white"] :
                                l \in {"unified_instr", "unified_fp_instr"}}
          /\ bgPc' = "done"
     ELSE bgPc' = "failed" /\ UNCHANGED bgKey
  /\ UNCHANGED <<bgIn, bgDim, bgWindow, bgHeight, bgPixel, bgRow>>
NoKey ==
  /\ bgPc = "key" /\ bgPc' = "done"
  /\ UNCHANGED <<bgIn, bgDim, bgWindow, bgHeight, bgPixel, bgRow, bgKey>>

----------------------------------------------------------------------------
BgState(pc) ==
  /\ bgPc = pc /\ bgHeight = 0 /\ bgPixel = <<>> /\ bgRow = 0 /\ bgKey = {}
  /\ bgDim = [xmin |-> 0, ymin |-> 0, xdim |-> 0, ydim |-> 0]
  /\ bgWindow = [start |-> 0, end |-> 0]

BgOff ==
  /\ BgState("off") /\ bgTrace = <<>> /\ bgStats = <<>> /\ bgAbstract = FALSE
  /\ bgCustom = [start |-> Unset, end |-> Unset]

BgInit ==
  /\ BgState("parse")
  /\ bgTrace \in BgTraces /\ bgStats \in BgStats /\ bgAbstract \in BOOLEAN
  /\ bgCustom \in [start : BgCycles \cup {Unset}, end : BgCycles \cup {Unset}]

BgNext ==
  \/ GetTileGroupDim \/ GetTimingWindow \/ InitImage \/ MarkTrace \/ SaveImage
  \/ GenerateKey \/ NoKey

----------------------------------------------------------------------------
(* The rows the picture is to show, by what was asked for: from a cycle or *)
(* on, to before a cycle; if nothing says until when, all but those of the *)
(* last cycle.                                                             *)
InPicture(row) ==
  /\ IF bgCustom.start # Unset THEN bgCustom.start <= row.cycle
     ELSE bgStats # <<>> => Head(bgStats) <= row.cycle
  /\ IF bgCustom.end # Unset THEN row.cycle < bgCustom.end
     ELSE IF bgStats # <<>> THEN row.cycle < Last(bgStats)
     ELSE \E later \in ToSet(bgTrace) : row.cycle < later.cycle

(* What cannot be seen, or not be told apart, in the colours of a mode.    *)
Hidden == IF bgAbstract THEN {"stall_depend", "bubble"} ELSE {}
Bright == INSTRS \cup FP_INSTRS \cup (IF bgAbstract THEN {"stall_md"} ELSE {})
Alike(op1, op2) == op1 = op2 \/ {op1, op2} \subseteq Bright

(* Where and when a pixel says something was done.                         *)
Size == bgDim.xdim * bgDim.ydim
Shown(p) ==
  [cycle |-> bgWindow.start + (p[2] \div Size) * BgWidth + p[1],
   x |-> bgDim.xmin + ((p[2] % Size) % bgDim.xdim),
   y |-> bgDim.ymin + ((p[2] % Size) \div bgDim.xdim)]
At(row) == [cycle |-> row.cycle, x |-> row.x, y |-> row.y]

Visible == {p \in DOMAIN bgPixel : bgPixel[p] # "black"}
Told    == {row \in ToSet(bgTrace) : InPicture(row) /\ row.op \notin Hidden}
What    == [p \in Visible |-> (CHOOSE row \in Told : At(row) = Shown(p)).op]
Labels(colour) == {k.label : k \in {k \in bgKey : k.colour = colour}}

(* Read back, the picture shows each tile in each cycle it was asked for,  *)
(* if the mode has a colour for what the tile did, and nothing else: none  *)
(* is drawn over another.  Different doings have different colours, apart  *)
(* from instructions, of floating point or not.  The key, if made, labels  *)
(* the colour of a stall with its name alone, that of instructions twice.  *)
PictureFaithful ==
  bgPc \in {"key", "done"} =>
    /\ {Shown(p) : p \in Visible} = {At(row) : row \in Told}
    /\ LET what == What IN
       /\ \A p, q \in Visible : bgPixel[p] = bgPixel[q] <=> Alike(what[p], what[q])
       /\ bgKey # {} => \A p \in Visible :
            Labels(bgPixel[p]) = IF what[p] \in Bright
                                 THEN {"unified_instr", "unified_fp_instr"} ELSE {what[p]}

(* There is no picture if the window ends before it starts or an operation *)
(* to be shown is in no list, and for nothing else: every cycle of every   *)
(* other window has its pixels.  The key cannot be had in abstract mode.   *)
PictureFits ==
  LET impossible ==
        \/ bgWindow.end < bgWindow.start
        \/ \E row \in ToSet(bgTrace) : InPicture(row) /\ ~Known(row.op)
  IN /\ bgPc = "failed" => impossible \/ (bgRow = Len(bgTrace) /\ bgAbstract)
     /\ bgPc \in {"key", "done"} => ~impossible
=============================================================================
