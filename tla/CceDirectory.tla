--------------------------- MODULE CceDirectory ---------------------------
(***************************************************************************)
(* The coherence directory (bp_cce_dir, its segments and tag checker) and  *)
(* the logic that derives the flags of a request from it (bp_cce_gad), as  *)
(* operators on a directory d : [LCE -> [Frame -> Line]].                  *)
(***************************************************************************)
EXTENDS BedRock

(* Mutated form of HitWays: invalid entries hit as well.                   *)
HitWaysAnyState(d, l, b) == {w \in Way : d[l][FrameOf(b, w)].blk = b}

(* The tag checker compares the tag of every valid way of the set. *)
HitWays(d, l, b) ==
  {w \in Way : d[l][FrameOf(b, w)].blk = b /\ d[l][FrameOf(b, w)].st # "I"}

HitWay(d, l, b) ==
  IF HitWays(d, l, b) = {} THEN None ELSE CHOOSE w \in HitWays(d, l, b) : TRUE

StateIn(d, l, b) ==
  IF HitWays(d, l, b) = {} THEN "I" ELSE d[l][FrameOf(b, HitWay(d, l, b))].st

(* Mutated forms: the state is not written, or not the tag.                *)
WriteNoState(d, l, b, w, st) == d
WriteEntryNoTag(d, l, b, w, st) == [d EXCEPT ![l][FrameOf(b, w)].st = st]

(* e_wds_op writes the state of an entry, e_wde_op its tag as well.        *)
WriteState(d, l, b, w, st) == [d EXCEPT ![l][FrameOf(b, w)].st = st]
WriteEntry(d, l, b, w, st) ==
  [d EXCEPT ![l][FrameOf(b, w)] = [blk |-> b, st |-> st]]

----------------------------------------------------------------------------
CachedIn(d, b, sts) == {l \in LCE : StateIn(d, l, b) \in sts}

(* Mutated forms of the flags: every store upgrades; a victim in E is      *)
(* taken for clean; the requester counts as another sharer.                *)
UpgradeAnyStore(d, l, b, write) == write
ReplaceModifiedOnly(d, l, b, write, lru) ==
  ~(write /\ StateIn(d, l, b) = "S") /\ d[l][FrameOf(b, lru)].st = "M"
CachedSharedAnywhere(d, l, b) == CachedIn(d, b, {"S"}) # {}

(* upgrade_flag_o: a store miss of an LCE that may only read the block.    *)
Upgrade(d, l, b, write) == write /\ StateIn(d, l, b) = "S"

(* replacement_flag_o: the victim may be dirty and is really evicted.      *)
Replace(d, l, b, write, lru) ==
  ~Upgrade(d, l, b, write) /\ d[l][FrameOf(b, lru)].st \in Owned

CachedShared(d, l, b) == CachedIn(d, b, {"S"}) \ {l} # {}
CachedOwned(d, l, b)  == CachedIn(d, b, Owned) \ {l} # {}

(* owner_lce_o: any holder in an ownership state, the requester included.  *)
Owner(d, b) ==
  IF CachedIn(d, b, Owned) = {} THEN None
  ELSE CHOOSE l \in CachedIn(d, b, Owned) : TRUE

(* Mutated form of NextState: owners are forgotten.                        *)
NextStateNoOwner(d, l, b, write, nonExcl) ==
  IF write THEN "M"
  ELSE IF nonExcl \/ CachedShared(d, l, b) THEN "S" ELSE "E"

(* The state the requester is granted (end of e_wait_dir_gad).             *)
NextState(d, l, b, write, nonExcl) ==
  IF write THEN "M"
  ELSE IF nonExcl \/ CachedShared(d, l, b) \/ CachedOwned(d, l, b) THEN "S"
  ELSE "E"
=============================================================================
