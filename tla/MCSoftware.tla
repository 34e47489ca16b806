----------------------------- MODULE MCSoftware -----------------------------
(***************************************************************************)
(* The software around the processor, one program at a time: each initial  *)
(* state starts one of them on one of its inputs.                          *)
(***************************************************************************)
EXTENDS BootImage, PtWalker, PcHistogram, BloodGraph, SpikeTrace, TraceGen

vars == <<bootVars, ptVars, wkVars, phVars, bgVars, spVars, tgVars>>

Init ==
  \/ BootInit /\ PtOff /\ WkInit /\ PhOff /\ BgOff /\ SpOff /\ TgOff
  \/ BootOff /\ PtInit /\ WkInit /\ PhOff /\ BgOff /\ SpOff /\ TgOff
  \/ BootOff /\ PtOff /\ WkInit /\ PhInit /\ BgOff /\ SpOff /\ TgOff
  \/ BootOff /\ PtOff /\ WkInit /\ PhOff /\ BgInit /\ SpOff /\ TgOff
  \/ BootOff /\ PtOff /\ WkInit /\ PhOff /\ BgOff /\ SpInit /\ TgOff
  \/ BootOff /\ PtOff /\ WkInit /\ PhOff /\ BgOff /\ SpOff /\ TgInit

Next ==
  \/ BootNext   /\ UNCHANGED <<ptVars, wkVars, phVars, bgVars, spVars, tgVars>>
  \/ PagingNext /\ UNCHANGED <<bootVars, phVars, bgVars, spVars, tgVars>>
  \/ PhNext     /\ UNCHANGED <<bootVars, ptVars, wkVars, bgVars, spVars, tgVars>>
  \/ BgNext     /\ UNCHANGED <<bootVars, ptVars, wkVars, phVars, spVars, tgVars>>
  \/ SpNext     /\ UNCHANGED <<bootVars, ptVars, wkVars, phVars, bgVars, tgVars>>
  \/ TgNext     /\ UNCHANGED <<bootVars, ptVars, wkVars, phVars, bgVars, spVars>>

Spec == Init /\ [][Next]_vars /\ BootFairness

----------------------------------------------------------------------------
(* Dumps of two sections that do not overlap, in both orders: at an even   *)
(* or an odd word, empty words, tails, up to a word and a half long.       *)
Section(at, bytes) ==
  <<[at |-> at]>> \o [i \in DOMAIN bytes |-> [byte |-> bytes[i]]]
McContents ==
  {<<1>>, <<1, 0, 1, 1, 0, 1>>, [i \in 1 .. 4 |-> 0], [i \in 1 .. 12 |-> i \div 9]}
Ends(at, bytes) == at + Len(bytes)
McFiles ==
  {Section(p[1], p[3]) \o Section(p[2], p[4]) : p \in
    {q \in {0, 4, 8, 12} \X {0, 4, 8, 12} \X McContents \X McContents :
       Ends(q[1], q[3]) <= q[2] \/ Ends(q[2], q[4]) <= q[1]}}
McUcode == <<2, 3>>
McCheckpoint == <<Line(1, <<"npc", 0>>, 3, 1)>>
McMemory == 0 .. 31

(* Two sections anywhere among eight pages.                                *)
McSections ==
  {<<[start |-> a, size |-> n]>> : a \in 0 .. 5, n \in 1 .. 3}
    \cup {<<[start |-> a, size |-> n], [start |-> b, size |-> 1]>> :
            a \in 0 .. 6, n \in 1 .. 2, b \in 0 .. 7}

(* Tables with one entry of every kind, at every level.                    *)
McLeaf ==
  {Pte(TRUE, xwr, uad[1], uad[2], uad[3], ppn) :
     xwr \in {{"x"}, {"r"}, {"r", "w"}, {"w"}, {"x", "r", "w"}},
     uad \in {<<FALSE, FALSE, TRUE>>, <<FALSE, TRUE, FALSE>>, <<FALSE, TRUE, TRUE>>,
              <<TRUE, TRUE, TRUE>>},
     ppn \in {16, 18, 19}}
McPtr(ppn) == Pte(TRUE, {}, FALSE, FALSE, FALSE, ppn)
McTables(root, mid, leaf) ==
  [page \in PtRoot .. PtRoot + 2 |-> [k \in 0 .. PtFanout - 1 |->
     IF k # 0 THEN NoPte ELSE <<root, mid, leaf>>[page - PtRoot + 1]]]
McOthers ==
  LET down == McPtr(PtRoot + 1)  last == McPtr(PtRoot + 2) IN
  {McTables(down, last, pte) : pte \in McLeaf \cup {NoPte, down}}
    \cup {McTables(down, pte, NoPte) : pte \in McLeaf}
    \cup {McTables(pte, NoPte, NoPte) : pte \in McLeaf}
McRequests ==
  [vpn : 0 .. 7, kind : {"instr", "load", "store"}, mode : {"S", "U"},
   sum : {TRUE}, mxr : {TRUE}]
    \cup [vpn : 0 .. 3, kind : {"instr", "load", "store"}, mode : {"S", "U"},
          sum : {FALSE}, mxr : {FALSE}]

(* Four instructions of one tile, three or four rows of four tiles, or two *)
(* instructions of two tiles.                                              *)
McRow(cycle, x, y, pc, op) == [cycle |-> cycle, x |-> x, y |-> y, pc |-> pc, op |-> op]
McPhTraces ==
  [1 .. 4 -> {McRow(0, 0, 0, pc, "instr") : pc \in {0, 4, 8, 16}}]
    \cup [1 .. 3 -> {McRow(0, x, y, 4, op) : x \in 0 .. 1, y \in 0 .. 1,
                       op \in {"instr", "icache_miss"}}]
    \cup [1 .. 4 -> {McRow(0, x, y, 8, "instr") : x \in 0 .. 1, y \in 0 .. 1}]
    \cup [1 .. 4 -> {McRow(0, x, 0, pc, "instr") : x \in 0 .. 1, pc \in {4, 8}}]

(* Four tiles over three cycles, or one tile with every kind of operation, *)
(* of either mode.                                                         *)
McFrame(cycle, ops) ==
  [i \in 1 .. 4 |-> McRow(cycle, 1 + ((i - 1) % 2), (i - 1) \div 2, 0, ops[i])]
McFrames(cycle) ==
  {McFrame(cycle, <<a, b, b, a>>) : a, b \in {"instr", "icache_miss"}}
McBgTraces ==
  {f[1] \o f[2] \o f[3] : f \in McFrames(3) \X McFrames(4) \X McFrames(5)}
    \cup {<<McRow(2, 0, 0, 0, o[1]), McRow(3, 0, 0, 0, o[2]), McRow(4, 0, 0, 0, o[3])>> :
            o \in ({"instr", "mispredict", "fadd"} \X {"icache_miss", "_interrupt"}
                     \X {"unknown", "freeze"})
                    \cup ({"fadd", "stall_lr_aq"} \X {"stall_depend", "bubble"}
                            \X {"stall_md", "icache_miss"})}
McBgStats == {<<>>, <<3, 4, 5>>}

(* Three instructions with what they write, and one more.                  *)
McCore(pc, op)  == [kind |-> "core", pc |-> pc, op |-> op]
McWrite(to, val) == [kind |-> to, at |-> 1, val |-> val]
McInstrs ==
  {<<McCore(pc, "jump")>> : pc \in {4, 8, 12}} \cup {<<McCore(8, "ecall")>>}
    \cup {<<McCore(pc, op), McWrite("rd", op)>> :
            pc \in {4, 8, 12}, op \in {"csr", "other", "jump"}}
    \cup {<<McCore(pc, "other"), McWrite("st", "other")>> : pc \in {4, 8}}
McTrap == <<[kind |-> "trap"]>>
McLogs ==
  {p[1] \o p[2] \o p[3] \o <<McCore(12, "other"), McWrite("rd", "last")>> :
     p \in McInstrs \X (McInstrs \cup {McTrap}) \X (McInstrs \cup {McTrap})}
=============================================================================
