--------------------------- MODULE QualityLadder ----------------------------
(***************************************************************************)
(* The quality ladder both encoder backends walk (screen_capture.rs): one  *)
(* step of step_tier per RTCP packet batch that carries receiver reports.  *)
(***************************************************************************)
EXTENDS Integers, Sequences

CONSTANTS
  Height,        (* max_h of TIERS: <<1080, 720, 540, 540>>                *)
  DegradeAfter,  (* DEGRADE_AFTER: 2 reports above DEGRADE_LOSS            *)
  UpgradeAfter   (* UPGRADE_AFTER: 10 reports below UPGRADE_LOSS           *)

ASSUME LadderAssumption ==
  /\ Height \in Seq(Nat \ {0}) /\ Height # <<>>
  /\ DegradeAfter \in Nat \ {0}
  /\ UpgradeAfter \in Nat \ {0}

TierCount == Len(Height)
Tier      == 0 .. TierCount - 1

\* Where a capture is: TIERS[0] and no report counted.
Ladder == [tier : Tier, bad : Nat, good : Nat]
Top    == [tier |-> 0, bad |-> 0, good |-> 0]

\* The last of the four only halves the frame rate.
Size(t) == Height[t + 1]

\* fraction_lost is an eighth-bit fixed point; the limits are 5 and 1 per cent.
Lossy(f) == 100 * f > 5 * 256
Clean(f) == 100 * f < 1 * 256

CountedOn(l, f) ==                            \* mutant: clean reports need not be in a row
  [l EXCEPT !.bad  = IF Lossy(f) THEN @ + 1 ELSE 0,
            !.good = IF Clean(f) THEN @ + 1 ELSE @]

Counted(l, f) ==
  [l EXCEPT !.bad  = IF Lossy(f) THEN @ + 1 ELSE 0,
            !.good = IF Clean(f) THEN @ + 1 ELSE 0]

MayDegrade(l) == l.bad >= DegradeAfter /\ l.tier + 1 < TierCount
MayUpgrade(l) == l.good >= UpgradeAfter /\ l.tier > 0

StepTier(l, f) ==
  LET n == Counted(l, f) IN
  CASE MayDegrade(n)                     -> [n EXCEPT !.tier = @ + 1, !.bad = 0]
    [] ~MayDegrade(n) /\ MayUpgrade(n)   -> [n EXCEPT !.tier = @ - 1, !.good = 0]
    [] ~MayDegrade(n) /\ ~MayUpgrade(n)  -> n
=============================================================================
