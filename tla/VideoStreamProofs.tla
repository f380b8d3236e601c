-------------------------- MODULE VideoStreamProofs -------------------------
(***************************************************************************)
(* Proofs about VideoStream, beside everything the host, the network and  *)
(* the viewer do: the quality ladder, for any table of tiers, any limits   *)
(* of the hysteresis and any reports; the types; and the key frame that    *)
(* starts every picture size, for any lengths of queues and periods.       *)
(***************************************************************************)
EXTENDS VideoStream, SequenceTheorems, TLAPS

-----------------------------------------------------------------------------
(* One step of step_tier.                                                  *)

\* A counted report keeps the tier, and the two counters exclude each other.
LEMMA CountedReport ==
  ASSUME NEW l \in Ladder, NEW f \in Nat
  PROVE  /\ Counted(l, f) \in Ladder
         /\ Counted(l, f).tier = l.tier
         /\ Counted(l, f).good = IF Clean(f) THEN l.good + 1 ELSE 0
<1> DEFINE b == IF Lossy(f) THEN l.bad + 1 ELSE 0
           g == IF Clean(f) THEN l.good + 1 ELSE 0
<1>1. b \in Nat /\ g \in Nat
  BY DEF Ladder
<1>2. Counted(l, f) = [l EXCEPT !.bad = b, !.good = g]
  BY DEF Counted
<1> HIDE DEF b, g
<1>3. Counted(l, f) \in Ladder /\ Counted(l, f).tier = l.tier /\ Counted(l, f).good = g
  BY <1>1, <1>2 DEF Ladder
<1> QED BY <1>3 DEF g

\* The ladder stays on its tiers, moves one at a time, and a step up takes
\* UpgradeAfter clean reports and starts their count again.
LEMMA OneStep ==
  ASSUME NEW l \in Ladder, NEW f \in Nat
  PROVE  LET n == StepTier(l, f) IN
         /\ n \in Ladder
         /\ n.tier \in {l.tier - 1, l.tier, l.tier + 1}
         /\ n.good = 0 \/ n.good = Counted(l, f).good
         /\ n.tier < l.tier => n.good = 0 /\ Counted(l, f).good >= UpgradeAfter
<1> DEFINE c == Counted(l, f)
           n == StepTier(l, f)
<1>1. c \in Ladder /\ c.tier = l.tier
  BY CountedReport
<1>2. TierCount \in Nat /\ UpgradeAfter \in Nat
  BY LadderAssumption DEF TierCount
<1>3. n = CASE MayDegrade(c)                     -> [c EXCEPT !.tier = @ + 1, !.bad = 0]
            [] ~MayDegrade(c) /\ MayUpgrade(c)   -> [c EXCEPT !.tier = @ - 1, !.good = 0]
            [] ~MayDegrade(c) /\ ~MayUpgrade(c)  -> c
  BY DEF StepTier
<1> HIDE DEF c, n
<1>4. /\ n \in Ladder
      /\ n.tier \in {l.tier - 1, l.tier, l.tier + 1}
      /\ n.good = 0 \/ n.good = c.good
      /\ n.tier < l.tier => n.good = 0 /\ c.good >= UpgradeAfter
  <2>1. CASE MayDegrade(c)
    <3>1. n = [c EXCEPT !.tier = c.tier + 1, !.bad = 0]
      BY <1>3, <2>1
    <3>2. c.tier + 1 < TierCount
      BY <2>1 DEF MayDegrade
    <3>3. n.tier = c.tier + 1 /\ n.good = c.good
      BY <1>1, <3>1 DEF Ladder
    <3>4. n \in Ladder
      <4>1. c.tier + 1 \in Tier
        BY <1>1, <1>2, <3>2 DEF Ladder, Tier
      <4> QED BY <1>1, <3>1, <4>1 DEF Ladder
    <3> QED BY <1>1, <1>2, <3>3, <3>4 DEF Ladder, Tier
  <2>2. CASE ~MayDegrade(c) /\ MayUpgrade(c)
    <3>1. n = [c EXCEPT !.tier = c.tier - 1, !.good = 0]
      BY <1>3, <2>2
    <3>2. c.good >= UpgradeAfter /\ c.tier > 0
      BY <2>2 DEF MayUpgrade
    <3>3. n.tier = c.tier - 1 /\ n.good = 0
      BY <1>1, <3>1 DEF Ladder
    <3>4. n \in Ladder
      <4>1. c.tier - 1 \in Tier
        BY <1>1, <1>2, <3>2 DEF Ladder, Tier
      <4> QED BY <1>1, <3>1, <4>1 DEF Ladder
    <3> QED BY <1>1, <1>2, <3>2, <3>3, <3>4 DEF Ladder, Tier
  <2>3. CASE ~MayDegrade(c) /\ ~MayUpgrade(c)
    <3>1. n = c
      BY <1>3, <2>3
    <3> QED BY <1>1, <1>2, <3>1 DEF Ladder, Tier
  <2> QED BY <2>1, <2>2, <2>3
<1> QED BY <1>4 DEF c, n
-----------------------------------------------------------------------------
(* The ladder in the stream.                                               *)

\* The counter of clean reports never runs ahead of the reports.
LadderInv ==
  /\ ladder \in Ladder
  /\ clean \in Nat
  /\ ladder.good <= clean

\* What only Report changes.
LEMMA OnlyReport ==
  Next => Report \/ UNCHANGED <<ladder, clean>>
BY DEF Next, Change, Grab, Second, Encode, OpenGate, PwFrame, GstEncode, Write, Lose, TakePli,
       PassGap, Decode, NvStarts, NvFails, FallBack

\* A report keeps the invariant and climbs only on clean ones.
LEMMA ReportStep ==
  LadderInv /\ Report =>
    /\ LadderInv'
    /\ ladder'.tier < ladder.tier => clean' >= UpgradeAfter /\ ladder'.good = 0
<1> SUFFICES ASSUME LadderInv, Report
             PROVE  /\ LadderInv'
                    /\ ladder'.tier < ladder.tier => clean' >= UpgradeAfter /\ ladder'.good = 0
  OBVIOUS
<1>1. PICK f \in Fraction : ladder' = StepTier(ladder, f) /\ clean' = IF Clean(f) THEN clean + 1 ELSE 0
  BY DEF Report
<1>2. f \in Nat
  BY StreamAssumption
<1>3. ladder \in Ladder /\ clean \in Nat /\ ladder.good \in Nat /\ ladder.good <= clean
  BY DEF LadderInv, Ladder
<1> DEFINE c == Counted(ladder, f)
           n == StepTier(ladder, f)
<1>4. c.good \in Nat /\ c.good <= clean'
  <2>1. c.good = IF Clean(f) THEN ladder.good + 1 ELSE 0
    BY <1>2, <1>3, CountedReport
  <2>2. clean' = IF Clean(f) THEN clean + 1 ELSE 0
    BY <1>1
  <2> HIDE DEF c
  <2> QED BY <1>3, <2>1, <2>2
<1>5. clean' \in Nat
  BY <1>1, <1>3
<1>6. /\ n \in Ladder
      /\ n.good = 0 \/ n.good = c.good
      /\ n.tier < ladder.tier => n.good = 0 /\ c.good >= UpgradeAfter
  BY <1>2, <1>3, OneStep
<1>7. ladder' = n
  BY <1>1
<1>8. UpgradeAfter \in Nat
  BY LadderAssumption
<1> HIDE DEF c, n
<1>9. ladder'.good <= clean'
  BY <1>4, <1>5, <1>6, <1>7
<1>10. ladder'.tier < ladder.tier => clean' >= UpgradeAfter /\ ladder'.good = 0
  BY <1>4, <1>5, <1>6, <1>7, <1>8
<1> QED BY <1>5, <1>6, <1>7, <1>9, <1>10 DEF LadderInv

\* The ladder never leaves its tiers.
THEOREM LadderCorrect == Spec => []LadderInv
<1>1. Init => LadderInv
  BY LadderAssumption DEF Init, LadderInv, Ladder, Top, Tier, TierCount
<1>2. LadderInv /\ [Next]_vars => LadderInv'
  BY OnlyReport, ReportStep DEF LadderInv, vars
<1> QED BY <1>1, <1>2, PTL DEF Spec

\* Quality goes up only after UpgradeAfter clean reports in a row on the tier
\* it leaves (step_tier, adapt_quality, adapt_quality_gst).
THEOREM NoFlapping == Spec => UpgradeOnlyWhenClean
<1>1. LadderInv /\ [Next]_vars =>
        [ladder'.tier < ladder.tier => clean' >= UpgradeAfter /\ ladder'.good = 0]_vars
  <2> SUFFICES ASSUME LadderInv, Next
               PROVE  ladder'.tier < ladder.tier => clean' >= UpgradeAfter /\ ladder'.good = 0
    OBVIOUS
  <2>1. CASE Report
    BY <2>1, ReportStep
  <2>2. CASE UNCHANGED <<ladder, clean>>
    BY <2>2 DEF LadderInv, Ladder, Tier
  <2> QED BY <2>1, <2>2, OnlyReport
<1> QED BY <1>1, LadderCorrect, PTL DEF Spec, UpgradeOnlyWhenClean
-----------------------------------------------------------------------------
(* Types and bounds of the whole stream.                                   *)

Item == Frame \cup {Gap}

\* A size of a tier is a height, which no marker is.
LEMMA SizeTyped == \A t \in Tier : Size(t) \in Sizes /\ Size(t) \in Nat \ {0}
<1> SUFFICES ASSUME NEW t \in Tier PROVE Size(t) \in Sizes /\ Size(t) \in Nat \ {0}
  OBVIOUS
<1>1. Height \in Seq(Nat \ {0}) /\ Len(Height) \in Nat
  BY LadderAssumption, LenProperties
<1>2. t + 1 \in 1 .. Len(Height)
  BY <1>1 DEF Tier, TierCount
<1>3. Height[t + 1] \in Nat \ {0}
  BY <1>1, <1>2, ElementOfSeq
<1> QED BY <1>3 DEF Size, Sizes

\* The encoder a frame is encoded with: the one there was, or one at the start
\* of its period.
Picked(e) ==
  /\ e \in Encoder
  /\ e.n # 0 => encoder \in Encoder /\ encoder.n = e.n /\ encoder.size = e.size

\* ensure_encoder and a renegotiation keep the encoder with its size, or start a period.
LEMMA EncoderPicked ==
  ASSUME encoder \in Encoder \cup {NoEncoder}, NEW t \in Tier
  PROVE  Picked(EnsureEncoder(t)) /\ Picked(Renegotiated(t))
<1> DEFINE fresh == [tier |-> t, size |-> Size(t), n |-> 0]
<1>1. 0 \in 0 .. Gop - 1 /\ Size(t) \in Sizes
  BY SizeTyped, StreamAssumption
<1>2. fresh \in Encoder /\ fresh.n = 0
  BY <1>1 DEF Encoder
<1>3. Picked(fresh)
  BY <1>2 DEF Picked
<1> HIDE DEF fresh
<1>4. Picked(EnsureEncoder(t))
  <2>1. CASE encoder.tier = t
    <3>1. encoder # NoEncoder
      BY <2>1, LadderAssumption DEF NoEncoder, Tier, TierCount
    <3> QED BY <2>1, <3>1 DEF EnsureEncoder, Picked
  <2>2. CASE encoder.tier # t
    BY <1>3, <2>2 DEF EnsureEncoder, fresh
  <2> QED BY <2>1, <2>2
<1>5. Picked(Renegotiated(t))
  <2>1. CASE encoder.size = Size(t) /\ ~force
    <3>1. encoder # NoEncoder
      BY <2>1, SizeTyped DEF NoEncoder
    <3>2. encoder \in Encoder
      BY <3>1
    <3> DEFINE e == [encoder EXCEPT !.tier = t]
    <3>3. e \in Encoder /\ e.n = encoder.n /\ e.size = encoder.size
      BY <3>2 DEF Encoder
    <3> HIDE DEF e
    <3>4. Picked(e)
      BY <3>2, <3>3 DEF Picked
    <3> QED BY <2>1, <3>4 DEF Renegotiated, e
  <2>2. CASE ~(encoder.size = Size(t) /\ ~force)
    BY <1>3, <2>2 DEF Renegotiated, fresh
  <2> QED BY <2>1, <2>2
<1> QED BY <1>4, <1>5

\* An encoder goes on to the next frame of its period, in the same size.
LEMMA AdvancedTyped ==
  ASSUME NEW e \in Encoder
  PROVE  Advanced(e) \in Encoder /\ Advanced(e).size = e.size
<1>1. (e.n + 1) % Gop \in 0 .. Gop - 1
  BY StreamAssumption DEF Encoder
<1> DEFINE m == (e.n + 1) % Gop
<1>2. Advanced(e) = [e EXCEPT !.n = m]
  BY DEF Advanced
<1> HIDE DEF m
<1> QED BY <1>1, <1>2 DEF Encoder, m

\* A frame has its encoder's size, and is a key frame at the start of a period.
LEMMA EncodedTyped ==
  ASSUME NEW e \in Encoder, NEW s \in Scene
  PROVE  /\ Encoded(e, s) \in Frame /\ Encoded(e, s).size = e.size
         /\ Encoded(e, s).key = (e.n = 0)
BY DEF Encoded, Encoder, Frame

\* The pipeline starts empty.
LEMMA InitTyped == Init => TypeOK
<1> SUFFICES ASSUME Init PROVE TypeOK
  OBVIOUS
<1>1. <<>> \in Seq(Scene) /\ <<>> \in Seq(Frame) /\ <<>> \in Seq(Item) /\ Len(<<>>) = 0
  BY EmptySeq
<1>2. Top \in Ladder
  BY LadderAssumption DEF Top, Ladder, Tier, TierCount
<1>3. host \in Host /\ screen \in Scene /\ {slot, lastHash} \subseteq 0 .. MaxScene
  BY StreamAssumption DEF Init, Scene
<1>4. {refresh, gate, force, pli, intact} \subseteq BOOLEAN
  BY DEF Init
<1>5. decoder \in {"soft", "nv", "failing"} /\ shown \in Scene \cup {0, Garbled} /\ size \in Sizes \cup {0}
  BY StreamAssumption DEF Init
<1>6. losses \in 0 .. MaxLosses /\ reports \in 0 .. MaxReports /\ errors \in 0 .. MaxErrors
  BY StreamAssumption DEF Init
<1>7. raw = <<>> /\ out = <<>> /\ net = <<>> /\ encoder = NoEncoder /\ ladder = Top /\ clean = 0
  BY DEF Init
<1>8. 0 <= RawCap /\ 0 <= OutCap /\ 0 <= NetCap /\ 0 \in Nat
  BY StreamAssumption
<1> QED BY <1>1, <1>2, <1>3, <1>4, <1>5, <1>6, <1>7, <1>8 DEF TypeOK, Item

\* The queues with their lengths.
LEMMA QueuesTyped ==
  ASSUME TypeOK
  PROVE  /\ raw \in Seq(Scene) /\ Len(raw) \in Nat
         /\ out \in Seq(Frame) /\ Len(out) \in Nat
         /\ net \in Seq(Item) /\ Len(net) \in Nat
         /\ {RawCap, OutCap, NetCap, Late} \subseteq Nat
BY LenProperties, StreamAssumption DEF TypeOK, Item

\* What Append makes of a queue.
LEMMA AppendTyped ==
  ASSUME NEW S, NEW s \in Seq(S), NEW e \in S
  PROVE  Append(s, e) \in Seq(S) /\ Len(Append(s, e)) = Len(s) + 1
BY AppendProperties

\* What taking the first element leaves of a queue.
LEMMA TailTyped ==
  ASSUME NEW S, NEW s \in Seq(S), s # <<>>
  PROVE  Head(s) \in S /\ Tail(s) \in Seq(S) /\ Len(Tail(s)) = Len(s) - 1
BY HeadTailProperties

\* The counters stay within their bounds when they are counted up.
LEMMA LimitsTyped ==
  /\ MaxScene \in Nat /\ MaxScene > 0
  /\ MaxLosses \in Nat /\ MaxReports \in Nat /\ MaxErrors \in Nat
  /\ \A m \in Nat : \A k \in 0 .. m : k < m => k + 1 \in 0 .. m
  /\ \A k \in 1 .. MaxScene : k \in 0 .. MaxScene
  /\ \A k \in 1 .. MaxScene : k < MaxScene => k + 1 \in 1 .. MaxScene
BY StreamAssumption

\* The types survive either encoder.
LEMMA EncodeTyped == TypeOK /\ (Encode \/ GstEncode) => TypeOK'
<1> SUFFICES ASSUME TypeOK, Encode \/ GstEncode PROVE TypeOK'
  OBVIOUS
<1>1. ladder.tier \in Tier
  BY DEF TypeOK, Ladder
<1>2. Picked(EnsureEncoder(ladder.tier)) /\ Picked(Renegotiated(ladder.tier))
  BY <1>1, EncoderPicked DEF TypeOK
<1>3. ASSUME NEW e, Picked(e), NEW s \in Scene, Len(out) < OutCap
      PROVE  /\ Append(out, Encoded(e, s)) \in Seq(Frame) /\ Len(Append(out, Encoded(e, s))) <= OutCap
             /\ Advanced(e) \in Encoder
  <2>1. e \in Encoder
    BY <1>3 DEF Picked
  <2>2. Encoded(e, s) \in Frame
    BY <2>1, EncodedTyped
  <2> HIDE DEF Picked
  <2>3. Append(out, Encoded(e, s)) \in Seq(Frame) /\ Len(Append(out, Encoded(e, s))) = Len(out) + 1
    BY <2>2, QueuesTyped, AppendTyped
  <2> QED BY <1>3, <2>1, <2>3, QueuesTyped, AdvancedTyped
<1>4. CASE Encode
  <2> DEFINE e == EnsureEncoder(ladder.tier)
  <2>1. Newest \in Scene
    BY <1>4 DEF Encode, Newest, TypeOK, Scene
  <2>2. /\ out' \in Seq(Frame) /\ Len(out') <= OutCap
        /\ encoder' \in Encoder \cup {NoEncoder}
    <3>1. e \in Encoder
      BY <1>2 DEF Picked
    <3>2. \/ out' = Append(out, Encoded(e, Newest)) /\ encoder' = Advanced(e)
          \/ UNCHANGED out /\ encoder' \in {encoder, e}
      BY <1>4 DEF Encode
    <3> HIDE DEF e
    <3>3. Len(out) < OutCap
      BY <1>4 DEF Encode
    <3>4. CASE out' = Append(out, Encoded(e, Newest)) /\ encoder' = Advanced(e)
      BY <1>2, <1>3, <2>1, <3>3, <3>4 DEF e
    <3> QED BY <3>1, <3>2, <3>4 DEF TypeOK
  <2>3. slot' = 0 /\ lastHash' = Newest /\ refresh' \in {refresh, FALSE}
        /\ (errors' = errors \/ (errors < MaxErrors /\ errors' = errors + 1))
        /\ UNCHANGED <<host, screen, raw, gate, force, ladder, clean, net, pli, picture, losses, reports>>
    BY <1>4 DEF Encode
  <2>4. {slot', lastHash'} \subseteq 0 .. MaxScene /\ errors' \in 0 .. MaxErrors
    <3>1. errors' \in 0 .. MaxErrors
      BY <2>3, LimitsTyped DEF TypeOK
    <3>2. 0 \in 0 .. MaxScene /\ Newest \in 0 .. MaxScene
      BY <2>1, LimitsTyped DEF Scene
    <3> QED BY <2>3, <3>1, <3>2
  <2>5. {refresh', gate', force', pli', intact'} \subseteq BOOLEAN
    BY <2>3 DEF TypeOK, picture
  <2> QED BY <2>2, <2>3, <2>4, <2>5 DEF TypeOK, picture
<1>5. CASE GstEncode
  <2> DEFINE e == Renegotiated(ladder.tier)
  <2>1. raw # <<>> /\ Len(out) < OutCap /\ raw' = Tail(raw) /\ out' = Append(out, Encoded(e, Head(raw)))
        /\ encoder' = Advanced(e) /\ force' = FALSE
        /\ UNCHANGED <<host, screen, slot, lastHash, refresh, gate, ladder, clean, net, pli, picture, bounds>>
    BY <1>5 DEF GstEncode
  <2>2. Head(raw) \in Scene /\ raw' \in Seq(Scene) /\ Len(raw') = Len(raw) - 1
    BY <2>1, QueuesTyped, TailTyped
  <2>3. Len(raw') <= RawCap
    BY <2>2, QueuesTyped DEF TypeOK
  <2> HIDE DEF e
  <2>4. out' \in Seq(Frame) /\ Len(out') <= OutCap /\ encoder' \in Encoder
    BY <1>2, <1>3, <2>1, <2>2 DEF e
  <2>5. {refresh', gate', force', pli', intact'} \subseteq BOOLEAN
    BY <2>1 DEF TypeOK, picture
  <2> QED BY <2>1, <2>2, <2>3, <2>4, <2>5 DEF TypeOK, picture, bounds
<1> QED BY <1>4, <1>5

\* The types survive a frame of PipeWire.
LEMMA RawTyped == TypeOK /\ PwFrame => TypeOK'
<1> SUFFICES ASSUME TypeOK, PwFrame PROVE TypeOK'
  OBVIOUS
<1>1. raw' = Leaky(raw, screen) /\ screen \in Scene
      /\ UNCHANGED <<host, screen, slot, lastHash, refresh, gate, force, encoder, out,
                     ladder, clean, net, pli, picture, bounds>>
  BY DEF PwFrame, TypeOK
<1>2. RawCap \in Nat \ {0}
  BY StreamAssumption
<1>3. raw' \in Seq(Scene) /\ Len(raw') <= RawCap
  <2>1. CASE Len(raw) < RawCap
    <3>1. raw' = Append(raw, screen)
      BY <1>1, <2>1 DEF Leaky
    <3>2. raw' \in Seq(Scene) /\ Len(raw') = Len(raw) + 1
      BY <1>1, <3>1, QueuesTyped, AppendTyped
    <3> QED BY <1>2, <2>1, <3>2, QueuesTyped
  <2>2. CASE ~(Len(raw) < RawCap)
    <3>1. raw' = Append(Tail(raw), screen) /\ Len(raw) = RawCap
      BY <1>1, <1>2, <2>2, QueuesTyped DEF Leaky, TypeOK
    <3>2. raw # <<>>
      BY <1>2, <3>1, EmptySeq
    <3>3. Tail(raw) \in Seq(Scene) /\ Len(Tail(raw)) = Len(raw) - 1
      BY <3>2, QueuesTyped, TailTyped
    <3>4. raw' \in Seq(Scene) /\ Len(raw') = Len(Tail(raw)) + 1
      BY <1>1, <3>1, <3>3, AppendTyped
    <3> QED BY <1>2, <3>1, <3>3, <3>4
  <2> QED BY <2>1, <2>2
<1> QED BY <1>1, <1>3 DEF TypeOK, picture, bounds

\* The types survive the network and the viewer's decoders.
LEMMA NetTyped == TypeOK /\ (Write \/ Lose \/ PassGap \/ Decode \/ FallBack) => TypeOK'
<1> SUFFICES ASSUME TypeOK, Write \/ Lose \/ PassGap \/ Decode \/ FallBack PROVE TypeOK'
  OBVIOUS
<1>1. ASSUME net # <<>>, net' = Tail(net)
      PROVE  net' \in Seq(Item) /\ Len(net') <= NetCap
  <2>1. net' \in Seq(Item) /\ Len(net') = Len(net) - 1
    BY <1>1, QueuesTyped, TailTyped
  <2> QED BY <2>1, QueuesTyped DEF TypeOK
<1>2. CASE Write
  <2>1. out # <<>> /\ Len(net) < NetCap /\ net' = Append(net, Head(out)) /\ out' = Tail(out)
        /\ UNCHANGED <<host, screen, source, force, encoder, ladder, clean, pli, picture, bounds>>
    BY <1>2 DEF Write
  <2>2. Head(out) \in Item /\ out' \in Seq(Frame) /\ Len(out') = Len(out) - 1
    BY <2>1, QueuesTyped, TailTyped DEF Item
  <2>3. net' \in Seq(Item) /\ Len(net') = Len(net) + 1
    BY <2>1, <2>2, QueuesTyped, AppendTyped
  <2>4. Len(out') <= OutCap /\ Len(net') <= NetCap
    BY <2>1, <2>2, <2>3, QueuesTyped DEF TypeOK
  <2> QED BY <2>1, <2>2, <2>3, <2>4 DEF TypeOK, Item, source, picture, bounds
<1>3. CASE Lose
  <2>1. net' \in Seq(Item) /\ Len(net') <= NetCap
    <3>1. CASE UNCHANGED net
      BY <3>1, QueuesTyped DEF TypeOK
    <3>2. CASE ~UNCHANGED net
      <4>1. PICK i \in DOMAIN net : net' = [net EXCEPT ![i] = Gap]
        BY <1>3, <3>2 DEF Lose
      <4>2. i \in 1 .. Len(net) /\ Gap \in Item
        BY QueuesTyped, LenProperties DEF Item
      <4>3. net' \in Seq(Item) /\ Len(net') = Len(net)
        BY <4>1, <4>2, QueuesTyped, ExceptSeq
      <4> QED BY <4>3 DEF TypeOK
    <3> QED BY <3>1, <3>2
  <2>2. losses' \in 0 .. MaxLosses /\ pli' \in {pli, FALSE}
        /\ UNCHANGED <<host, screen, source, force, encoder, out, ladder, clean, picture, reports, errors>>
    <3>1. losses' \in 0 .. MaxLosses
      BY <1>3, LimitsTyped DEF Lose, TypeOK
    <3> QED BY <1>3, <3>1 DEF Lose
  <2>3. {refresh', gate', force', pli', intact'} \subseteq BOOLEAN
    BY <2>2 DEF TypeOK, source, picture
  <2> QED BY <2>1, <2>2, <2>3 DEF TypeOK, Item, source, picture
<1>4. CASE PassGap
  <2>1. net # <<>> /\ net' = Tail(net) /\ intact' = FALSE
        /\ UNCHANGED <<host, screen, source, force, encoder, out, ladder, clean, pli, decoder, shown, size, bounds>>
    BY <1>4 DEF PassGap, Arrived
  <2>2. {refresh', gate', force', pli', intact'} \subseteq BOOLEAN
    BY <2>1 DEF TypeOK, source
  <2> QED BY <1>1, <2>1, <2>2 DEF TypeOK, Item, source, bounds
<1>5. CASE Decode
  <2>1. net # <<>> /\ net' = Tail(net) /\ Head(net) # Gap
        /\ UNCHANGED <<host, screen, source, force, encoder, out, ladder, clean, decoder, bounds>>
    BY <1>5 DEF Decode, Arrived
  <2>2. Head(net) \in Frame
    BY <2>1, QueuesTyped, TailTyped DEF Item
  <2>3. Head(net).scene \in Scene /\ Head(net).size \in Sizes
    BY <2>2 DEF Frame
  <2>4. intact' \in {intact, TRUE} /\ (pli' = pli \/ pli' = (pli \/ decoder = "soft"))
    BY <1>5 DEF Decode, DecodeBroken
  <2>5. {refresh', gate', force', pli', intact'} \subseteq BOOLEAN
    <3>1. pli' \in BOOLEAN /\ intact' \in BOOLEAN
      BY <2>4 DEF TypeOK
    <3> QED BY <2>1, <3>1 DEF TypeOK, source
  <2>6. shown' \in Scene \cup {0, Garbled} /\ size' \in Sizes \cup {0}
    BY <1>5, <2>3 DEF Decode, DecodeBroken, Publish, TypeOK
  <2> QED BY <1>1, <2>1, <2>5, <2>6 DEF TypeOK, Item, source, bounds
<1>6. CASE FallBack
  <2>1. net # <<>> /\ net' = Tail(net) /\ intact' = FALSE /\ decoder' = "soft"
        /\ UNCHANGED <<host, screen, source, force, encoder, out, ladder, clean, pli, shown, size, bounds>>
    BY <1>6 DEF FallBack, Arrived
  <2>2. {refresh', gate', force', pli', intact'} \subseteq BOOLEAN
    BY <2>1 DEF TypeOK, source
  <2> QED BY <1>1, <2>1, <2>2 DEF TypeOK, Item, source, bounds
<1> QED BY <1>2, <1>3, <1>4, <1>5, <1>6

\* The types survive the rest of the host's and the viewer's steps.
LEMMA OtherTyped ==
  TypeOK /\ (Change \/ Grab \/ Second \/ OpenGate \/ TakePli \/ NvStarts \/ NvFails) => TypeOK'
<1> SUFFICES ASSUME TypeOK, Change \/ Grab \/ Second \/ OpenGate \/ TakePli \/ NvStarts \/ NvFails
             PROVE  TypeOK'
  OBVIOUS
<1>1. /\ UNCHANGED <<host, lastHash, raw, encoder, out, ladder, clean, net, intact, shown, size, bounds>>
      /\ screen' = screen \/ (screen < MaxScene /\ screen' = screen + 1)
      /\ slot' \in {slot, screen}
      /\ refresh' \in {refresh, TRUE} /\ gate' \in {gate, TRUE} /\ pli' \in {pli, TRUE, FALSE}
      /\ force' = force \/ force' = (force \/ host = "gst")
      /\ decoder' \in {decoder, "failing"}
  BY DEF Change, Grab, Second, OpenGate, TakePli, NvStarts, NvFails, source, picture
<1>2. screen' \in Scene /\ {slot', lastHash'} \subseteq 0 .. MaxScene
  <2>1. screen \in 1 .. MaxScene /\ slot \in 0 .. MaxScene /\ lastHash \in 0 .. MaxScene
    BY DEF TypeOK, Scene
  <2>2. screen' \in Scene /\ slot' \in 0 .. MaxScene
    BY <1>1, <2>1, LimitsTyped DEF Scene
  <2> QED BY <1>1, <2>1, <2>2
<1>3. {refresh', gate', force', pli', intact'} \subseteq BOOLEAN
  <2>1. force' \in BOOLEAN
    BY <1>1 DEF TypeOK
  <2> QED BY <1>1, <2>1 DEF TypeOK
<1> QED BY <1>1, <1>2, <1>3 DEF TypeOK, bounds

\* No queue of the stream passes its limit, every frame is of a tier's size and
\* shows a scene there was, and the encoder stays within its period.
THEOREM TypeCorrect == Spec => []TypeOK
<1>1. TypeOK /\ Report => TypeOK'
  <2> SUFFICES ASSUME TypeOK, Report PROVE TypeOK'
    OBVIOUS
  <2>1. PICK f \in Fraction : ladder' = StepTier(ladder, f) /\ clean' = IF Clean(f) THEN clean + 1 ELSE 0
    BY DEF Report
  <2>2. f \in Nat
    BY StreamAssumption
  <2>3. ladder' \in Ladder
    BY <2>1, <2>2, OneStep DEF TypeOK
  <2>4. clean' \in Nat /\ reports' \in 0 .. MaxReports
    <3>1. reports' \in 0 .. MaxReports
      BY LimitsTyped DEF TypeOK, Report
    <3> QED BY <2>1, <3>1 DEF TypeOK
  <2>5. UNCHANGED <<host, screen, source, force, encoder, out, net, pli, picture, losses, errors>>
    BY DEF Report
  <2> QED BY <2>3, <2>4, <2>5 DEF TypeOK, source, picture
<1>2. TypeOK /\ UNCHANGED vars => TypeOK'
  BY DEF TypeOK, vars, source, picture, bounds
<1>3. TypeOK /\ [Next]_vars => TypeOK'
  BY <1>1, <1>2, EncodeTyped, RawTyped, NetTyped, OtherTyped DEF Next
<1> QED BY <1>3, InitTyped, PTL DEF Spec
-----------------------------------------------------------------------------
(* Key frames start every size.                                            *)

\* What has been encoded and not yet left the wire, oldest first.
Stream == net \o out

\* Within a period the encoder goes on from the last frame it gave out.
SamePeriod ==
  LET s == Stream IN
  s # <<>> /\ s[Len(s)] # Gap /\ encoder.n # 0 => s[Len(s)].size = encoder.size

KeyInv == KeyStartsEverySize /\ SamePeriod

\* A sequence in which only a key frame starts a size.
KeysFirst(s) ==
  \A i, j \in DOMAIN s :
    j = i + 1 /\ Gap \notin {s[i], s[j]} /\ s[i].size # s[j].size => s[j].key

StreamFacts ==
  /\ Stream \in Seq(Item) /\ Len(Stream) = Len(net) + Len(out) /\ Len(Stream) \in Nat
  /\ \A i \in 1 .. Len(net) : Stream[i] = net[i]
  /\ \A i \in 1 .. Len(out) : Stream[Len(net) + i] = out[i]

\* What the types say of the queues, for the proofs that follow.
LEMMA StreamTyped == TypeOK => StreamFacts
<1> SUFFICES ASSUME TypeOK PROVE StreamFacts
  OBVIOUS
<1>1. out \in Seq(Item) /\ net \in Seq(Item) /\ Len(net) \in Nat /\ Len(out) \in Nat
  <2>1. Frame \subseteq Item
    BY DEF Item
  <2> QED BY <2>1, QueuesTyped, SeqMonotonic
<1>2. /\ net \o out \in Seq(Item) /\ Len(net \o out) = Len(net) + Len(out)
      /\ \A i \in 1 .. Len(net) + Len(out) :
           (net \o out)[i] = IF i <= Len(net) THEN net[i] ELSE out[i - Len(net)]
  BY ONLY <1>1, ConcatProperties
<1> DEFINE n == Len(net)
           m == Len(out)
<1>3. \A i \in 1 .. n : i \in 1 .. n + m /\ i <= n
  BY <1>1
<1>4. \A i \in 1 .. m : n + i \in 1 .. n + m /\ ~(n + i <= n) /\ n + i - n = i
  BY <1>1
<1> HIDE DEF n, m
<1>5. \A i \in 1 .. n : (net \o out)[i] = net[i]
  BY <1>2, <1>3 DEF n, m
<1>6. \A i \in 1 .. m : (net \o out)[n + i] = out[i]
  BY <1>2, <1>4 DEF n, m
<1> QED BY <1>1, <1>2, <1>5, <1>6 DEF StreamFacts, Stream, n, m

\* The oldest item leaves the wire.
LEMMA StreamTail ==
  ASSUME TypeOK, TypeOK', net # <<>>, net' = Tail(net), UNCHANGED <<out, encoder>>, KeyInv
  PROVE  KeyInv'
<1> DEFINE n == Len(net)
           m == Len(out)
<1>1. /\ n \in Nat /\ m \in Nat /\ n >= 1 /\ Len(net') = n - 1
      /\ \A i \in 1 .. n - 1 : net'[i] = net[i + 1]
  <2>1. net \in Seq(Item) /\ n \in Nat /\ m \in Nat
    BY QueuesTyped
  <2>2. Len(Tail(net)) = n - 1 /\ \A i \in 1 .. Len(Tail(net)) : Tail(net)[i] = net[i + 1]
    BY <2>1, HeadTailProperties
  <2>3. n # 0
    BY <2>1, EmptySeq
  <2> QED BY <2>1, <2>2, <2>3
<1>2. /\ Stream \in Seq(Item) /\ Len(Stream) = n + m
      /\ \A i \in 1 .. n : Stream[i] = net[i]
      /\ \A i \in 1 .. m : Stream[n + i] = out[i]
  BY StreamTyped DEF StreamFacts
<1>3. /\ Stream' \in Seq(Item) /\ Len(Stream') = Len(net') + m
      /\ \A i \in 1 .. Len(net') : Stream'[i] = net'[i]
      /\ \A i \in 1 .. m : Stream'[Len(net') + i] = out[i]
  <2>1. StreamFacts'
    BY StreamTyped, PTL
  <2> QED BY <2>1 DEF StreamFacts
<1> HIDE DEF n, m
<1>4. Len(Stream') = n + m - 1 /\ \A i \in 1 .. n + m - 1 : Stream'[i] = Stream[i + 1]
  <2>1. ASSUME NEW i \in 1 .. n + m - 1 PROVE Stream'[i] = Stream[i + 1]
    <3>1. CASE i <= n - 1
      BY <1>1, <1>2, <1>3, <3>1
    <3>2. CASE ~(i <= n - 1)
      <4> DEFINE k == i - (n - 1)
      <4>1. k \in 1 .. m /\ i = n - 1 + k /\ i + 1 = n + k
        BY <1>1, <3>2
      <4> HIDE DEF k
      <4>2. Stream[n + k] = out[k] /\ Stream'[n - 1 + k] = out[k]
        BY <1>1, <1>2, <1>3, <4>1
      <4> QED BY <4>1, <4>2
    <3> QED BY <3>1, <3>2
  <2> QED BY <1>1, <1>3, <2>1
<1>5. DOMAIN Stream = 1 .. n + m /\ DOMAIN Stream' = 1 .. n + m - 1
  BY <1>2, <1>3, <1>4, LenProperties
<1>6. KeysFirst(Stream) => KeysFirst(Stream')
  <2> SUFFICES ASSUME KeysFirst(Stream), NEW i \in 1 .. n + m - 1, NEW j \in 1 .. n + m - 1, j = i + 1,
                      Gap \notin {Stream'[i], Stream'[j]}, Stream'[i].size # Stream'[j].size
               PROVE  Stream'[j].key
    BY <1>5 DEF KeysFirst
  <2>1. /\ i + 1 \in DOMAIN Stream /\ j + 1 \in DOMAIN Stream /\ j + 1 = (i + 1) + 1
        /\ Stream'[i] = Stream[i + 1] /\ Stream'[j] = Stream[j + 1]
    BY <1>1, <1>4, <1>5
  <2> QED BY <2>1 DEF KeysFirst
<1>7. SamePeriod'
  <2> SUFFICES ASSUME Stream' # <<>>, Stream'[Len(Stream')] # Gap, encoder.n # 0
               PROVE  Stream'[Len(Stream')].size = encoder.size
    BY DEF SamePeriod
  <2>1. Len(Stream') # 0
    BY <1>3, EmptySeq
  <2>2. Stream'[n + m - 1] = Stream[n + m] /\ Len(Stream) = n + m /\ Len(Stream') = n + m - 1
    <3>1. n + m - 1 \in 1 .. n + m - 1 /\ n + m - 1 + 1 = n + m
      BY <1>1, <1>4, <2>1
    <3> QED BY <1>2, <1>4, <3>1
  <2>3. Stream # <<>>
    BY <1>1, <1>2, EmptySeq
  <2> QED BY <2>2, <2>3 DEF KeyInv, SamePeriod
<1> QED BY <1>6, <1>7 DEF KeyInv, KeyStartsEverySize, KeysFirst, Stream

\* The stream keeps its length, and items are at most lost.
LEMMA StreamLossy ==
  ASSUME TypeOK, TypeOK', KeyInv, Len(Stream') = Len(Stream),
         \A i \in 1 .. Len(Stream) : Stream'[i] \in {Stream[i], Gap},
         encoder'.n # 0 => encoder.n # 0 /\ encoder'.size = encoder.size
  PROVE  KeyInv'
<1>1. Stream \in Seq(Item) /\ Stream' \in Seq(Item)
  <2>1. StreamFacts /\ StreamFacts'
    BY StreamTyped, PTL
  <2> QED BY <2>1 DEF StreamFacts
<1>2. DOMAIN Stream = 1 .. Len(Stream) /\ DOMAIN Stream' = 1 .. Len(Stream) /\ Len(Stream) \in Nat
  BY <1>1, LenProperties
<1>3. KeysFirst(Stream) => KeysFirst(Stream')
  BY <1>2 DEF KeysFirst
<1>4. SamePeriod'
  <2> SUFFICES ASSUME Stream' # <<>>, Stream'[Len(Stream')] # Gap, encoder'.n # 0
               PROVE  Stream'[Len(Stream')].size = encoder'.size
    BY DEF SamePeriod
  <2>1. Len(Stream) # 0
    BY <1>1, EmptySeq
  <2>2. Stream # <<>> /\ Len(Stream) \in 1 .. Len(Stream)
    BY <1>2, <2>1, EmptySeq
  <2>3. Stream'[Len(Stream')] = Stream[Len(Stream)]
    BY <2>2
  <2> QED BY <2>2, <2>3 DEF KeyInv, SamePeriod
<1> QED BY <1>3, <1>4 DEF KeyInv, KeyStartsEverySize, KeysFirst, Stream

\* A frame goes from the channel to the wire.
LEMMA StreamWrite ==
  ASSUME TypeOK, TypeOK', KeyInv, Write
  PROVE  KeyInv'
<1> DEFINE n == Len(net)
           m == Len(out)
<1>1. /\ out # <<>> /\ net' = Append(net, Head(out)) /\ out' = Tail(out) /\ UNCHANGED encoder
      /\ net \in Seq(Item) /\ n \in Nat /\ out \in Seq(Frame) /\ m \in Nat
  BY QueuesTyped DEF Write
<1>2. m >= 1 /\ Len(out') = m - 1 /\ \A i \in 1 .. m - 1 : out'[i] = out[i + 1]
  <2>1. m # 0
    BY <1>1, EmptySeq
  <2>2. Len(Tail(out)) = m - 1 /\ \A i \in 1 .. Len(Tail(out)) : Tail(out)[i] = out[i + 1]
    BY <1>1, HeadTailProperties
  <2> QED BY <1>1, <2>1, <2>2
<1>3. Len(net') = n + 1 /\ net'[n + 1] = out[1] /\ \A i \in 1 .. n : net'[i] = net[i]
  <2>1. Head(out) \in Item /\ Head(out) = out[1]
    BY <1>1, HeadTailProperties DEF Item
  <2> QED BY <1>1, <2>1, AppendProperties
<1>4. /\ Len(Stream) = n + m
      /\ \A i \in 1 .. n : Stream[i] = net[i]
      /\ \A i \in 1 .. m : Stream[n + i] = out[i]
  BY StreamTyped DEF StreamFacts
<1>5. /\ Len(Stream') = Len(net') + Len(out')
      /\ \A i \in 1 .. Len(net') : Stream'[i] = net'[i]
      /\ \A i \in 1 .. Len(out') : Stream'[Len(net') + i] = out'[i]
  <2>1. StreamFacts'
    BY StreamTyped, PTL
  <2> QED BY <2>1 DEF StreamFacts
<1> HIDE DEF n, m
<1>6. Len(Stream') = n + m
  BY <1>1, <1>2, <1>3, <1>5
<1>7. ASSUME NEW i \in 1 .. n + m
      PROVE  Stream'[i] = Stream[i]
  <2>1. CASE i <= n
    <3>1. i \in 1 .. n /\ i \in 1 .. n + 1
      BY <1>1, <2>1
    <3> QED BY <1>3, <1>4, <1>5, <3>1
  <2>2. CASE i = n + 1
    <3>1. i \in 1 .. n + 1 /\ 1 \in 1 .. m
      BY <1>1, <1>2, <2>2
    <3> QED BY <1>3, <1>4, <1>5, <2>2, <3>1
  <2>3. CASE i > n + 1
    <3> DEFINE k == i - (n + 1)
    <3>1. k \in 1 .. m - 1 /\ k + 1 \in 1 .. m /\ i = (n + 1) + k /\ i = n + (k + 1)
      BY <1>1, <1>2, <2>3
    <3> HIDE DEF k
    <3>2. Stream'[(n + 1) + k] = out'[k] /\ Stream[n + (k + 1)] = out[k + 1] /\ out'[k] = out[k + 1]
      BY <1>2, <1>3, <1>4, <1>5, <3>1
    <3> QED BY <3>1, <3>2
  <2> QED BY <1>1, <2>1, <2>2, <2>3
<1> QED BY <1>1, <1>4, <1>6, <1>7, StreamLossy

\* An item on the wire is lost.
LEMMA StreamLose ==
  ASSUME TypeOK, TypeOK', KeyInv, Lose
  PROVE  KeyInv'
<1> DEFINE n == Len(net)
           m == Len(out)
<1>1. /\ UNCHANGED <<out, encoder>> /\ net \in Seq(Item) /\ n \in Nat /\ m \in Nat
      /\ Len(net') = n /\ \A i \in 1 .. n : net'[i] \in {net[i], Gap}
  <2>1. UNCHANGED net \/ \E i \in DOMAIN net : net' = [net EXCEPT ![i] = Gap]
    BY DEF Lose
  <2>2. CASE UNCHANGED net
    BY <2>2, QueuesTyped DEF Lose
  <2>3. ASSUME NEW i \in DOMAIN net, net' = [net EXCEPT ![i] = Gap]
        PROVE  /\ UNCHANGED <<out, encoder>> /\ net \in Seq(Item) /\ n \in Nat /\ m \in Nat
               /\ Len(net') = n /\ \A k \in 1 .. n : net'[k] \in {net[k], Gap}
    <3>1. i \in 1 .. n /\ Gap \in Item /\ net \in Seq(Item)
      BY QueuesTyped, LenProperties DEF Item
    <3>2. Len(net') = n /\ \A k \in 1 .. n : net'[k] = IF k = i THEN Gap ELSE net[k]
      BY <2>3, <3>1, ExceptSeq
    <3> QED BY <3>2, QueuesTyped DEF Lose
  <2> QED BY <2>1, <2>2, <2>3
<1>2. /\ Len(Stream) = n + m
      /\ \A i \in 1 .. n : Stream[i] = net[i]
      /\ \A i \in 1 .. m : Stream[n + i] = out[i]
  BY StreamTyped DEF StreamFacts
<1>3. /\ Len(Stream') = Len(net') + Len(out')
      /\ \A i \in 1 .. Len(net') : Stream'[i] = net'[i]
      /\ \A i \in 1 .. Len(out') : Stream'[Len(net') + i] = out'[i]
  <2>1. StreamFacts'
    BY StreamTyped, PTL
  <2> QED BY <2>1 DEF StreamFacts
<1>4. Len(out') = m
  BY <1>1
<1> HIDE DEF n, m
<1>5. Len(Stream') = n + m
  BY <1>1, <1>3, <1>4
<1>6. ASSUME NEW i \in 1 .. n + m
      PROVE  Stream'[i] \in {Stream[i], Gap}
  <2>1. CASE i <= n
    <3>1. i \in 1 .. n
      BY <1>1, <2>1
    <3> QED BY <1>1, <1>2, <1>3, <3>1
  <2>2. CASE i > n
    <3> DEFINE k == i - n
    <3>1. k \in 1 .. m /\ i = n + k
      BY <1>1, <2>2
    <3> HIDE DEF k
    <3>2. Stream'[n + k] = out[k] /\ Stream[n + k] = out[k]
      BY <1>1, <1>2, <1>3, <1>4, <3>1
    <3> QED BY <3>1, <3>2
  <2> QED BY <1>1, <2>1, <2>2
<1> QED BY <1>1, <1>2, <1>5, <1>6, StreamLossy

\* A frame is encoded.
LEMMA StreamGrows ==
  ASSUME TypeOK, TypeOK', KeyInv, NEW e, Picked(e), NEW s \in Scene,
         out' = Append(out, Encoded(e, s)), encoder' = Advanced(e), UNCHANGED net
  PROVE  KeyInv'
<1> DEFINE l == Len(Stream)
           f == Encoded(e, s)
<1>1. e \in Encoder /\ (e.n # 0 => encoder.n # 0 /\ encoder.size = e.size)
  BY DEF Picked
<1>2. f \in Frame /\ f.size = e.size /\ f.key = (e.n = 0) /\ encoder'.size = e.size
  BY <1>1, EncodedTyped, AdvancedTyped
<1>3. Stream \in Seq(Item) /\ l \in Nat
  BY StreamTyped DEF StreamFacts
<1> HIDE DEF f
<1>4. Stream' = Append(Stream, f)
  <2>1. net \in Seq(Item) /\ out \in Seq(Item) /\ f \in Item
    <3>1. Frame \subseteq Item
      BY DEF Item
    <3> QED BY <1>2, <3>1, QueuesTyped, SeqMonotonic
  <2>2. Append(out, f) = out \o <<f>> /\ Append(net \o out, f) = (net \o out) \o <<f>>
    BY <2>1, AppendIsConcat, ConcatProperties
  <2>3. <<f>> \in Seq(Item)
    BY <2>1
  <2>4. (net \o out) \o <<f>> = net \o (out \o <<f>>)
    BY <2>1, <2>3, ConcatAssociative
  <2> QED BY <2>2, <2>4 DEF Stream, f
<1>5. /\ Stream' \in Seq(Item) /\ Len(Stream') = l + 1 /\ Stream'[l + 1] = f
      /\ \A i \in 1 .. l : Stream'[i] = Stream[i]
  <2>1. f \in Item
    BY <1>2 DEF Item
  <2> QED BY <1>3, <1>4, <2>1, AppendProperties
<1>6. DOMAIN Stream = 1 .. l /\ DOMAIN Stream' = 1 .. l + 1
  BY <1>3, <1>5, LenProperties
<1> HIDE DEF l
<1>7. KeysFirst(Stream')
  <2> SUFFICES ASSUME NEW i \in 1 .. l + 1, NEW j \in 1 .. l + 1, j = i + 1,
                      Gap \notin {Stream'[i], Stream'[j]}, Stream'[i].size # Stream'[j].size
               PROVE  Stream'[j].key
    BY <1>6 DEF KeysFirst
  <2>1. CASE j <= l
    <3>1. i \in 1 .. l /\ j \in 1 .. l
      BY <1>3, <2>1
    <3>2. KeysFirst(Stream)
      BY DEF KeyInv, KeyStartsEverySize, KeysFirst, Stream
    <3> QED BY <1>5, <1>6, <3>1, <3>2 DEF KeysFirst
  <2>2. CASE ~(j <= l)
    <3>1. j = l + 1 /\ i = l /\ l \in 1 .. l
      BY <1>3, <2>2
    <3>2. Stream # <<>> /\ Stream[l] # Gap /\ Stream[l].size # e.size
      <4>1. Stream'[l] = Stream[l] /\ Stream'[l + 1] = f
        BY <1>5, <3>1
      <4>2. Stream # <<>>
        BY <1>3, <3>1, EmptySeq DEF l
      <4> QED BY <1>2, <3>1, <4>1, <4>2
    <3>3. e.n = 0
      BY <1>1, <3>2 DEF KeyInv, SamePeriod, l
    <3> QED BY <1>2, <1>5, <3>1, <3>3
  <2> QED BY <2>1, <2>2
<1>8. SamePeriod'
  BY <1>2, <1>5 DEF SamePeriod
<1> QED BY <1>7, <1>8 DEF KeyInv, KeyStartsEverySize, KeysFirst, Stream

\* KeyInv is inductive.
LEMMA KeyInvKept == TypeOK /\ KeyInv /\ TypeOK' /\ [Next]_vars => KeyInv'
<1> SUFFICES ASSUME TypeOK, KeyInv, TypeOK', [Next]_vars PROVE KeyInv'
  OBVIOUS
<1>1. ladder.tier \in Tier
  BY DEF TypeOK, Ladder
<1>2. Picked(EnsureEncoder(ladder.tier)) /\ Picked(Renegotiated(ladder.tier))
  BY <1>1, EncoderPicked DEF TypeOK
<1>3. ASSUME UNCHANGED <<net, out>>, encoder'.n # 0 => encoder.n # 0 /\ encoder'.size = encoder.size
      PROVE  KeyInv'
  <2>1. Stream' = Stream
    BY <1>3 DEF Stream
  <2> QED BY <1>3, <2>1, StreamLossy
<1>4. CASE Encode
  <2> DEFINE e == EnsureEncoder(ladder.tier)
  <2>1. Newest \in Scene
    BY <1>4 DEF Encode, Newest, TypeOK, Scene
  <2>2. UNCHANGED net
    BY <1>4 DEF Encode
  <2>3. \/ out' = Append(out, Encoded(e, Newest)) /\ encoder' = Advanced(e)
        \/ UNCHANGED out /\ encoder' \in {encoder, e}
    BY <1>4 DEF Encode
  <2>4. e.n # 0 => encoder.n # 0 /\ e.size = encoder.size
    BY <1>2 DEF Picked
  <2> HIDE DEF e
  <2>5. CASE out' = Append(out, Encoded(e, Newest)) /\ encoder' = Advanced(e)
    BY <1>2, <2>1, <2>2, <2>5, StreamGrows DEF e
  <2>6. CASE UNCHANGED out /\ encoder' \in {encoder, e}
    BY <1>3, <2>2, <2>4, <2>6
  <2> QED BY <2>3, <2>5, <2>6
<1>5. CASE GstEncode
  <2> DEFINE e == Renegotiated(ladder.tier)
  <2>1. raw # <<>> /\ out' = Append(out, Encoded(e, Head(raw))) /\ encoder' = Advanced(e) /\ UNCHANGED net
    BY <1>5 DEF GstEncode
  <2>2. Head(raw) \in Scene
    BY <2>1, QueuesTyped, TailTyped
  <2> HIDE DEF e
  <2> QED BY <1>2, <2>1, <2>2, StreamGrows DEF e
<1>6. CASE PassGap \/ Decode \/ FallBack
  BY <1>6, StreamTail DEF PassGap, Decode, FallBack, Arrived
<1>7. CASE \/ Change \/ Grab \/ Second \/ OpenGate \/ PwFrame \/ Report \/ TakePli \/ NvStarts \/ NvFails
           \/ UNCHANGED vars
  <2>1. UNCHANGED <<net, out, encoder>>
    BY <1>7 DEF Change, Grab, Second, OpenGate, PwFrame, Report, TakePli, NvStarts, NvFails, vars
  <2> QED BY <1>3, <2>1
<1> QED BY <1>4, <1>5, <1>6, <1>7, StreamWrite, StreamLose DEF Next

\* No frame but a key frame starts a new size, on the channel and on the wire,
\* whichever path encodes, whatever the ladder does and however often encoding
\* fails (ensure_encoder).
THEOREM SizesStartWithKeys == Spec => []KeyStartsEverySize
<1>1. Init => KeyInv
  <2> SUFFICES ASSUME Init PROVE KeyInv
    OBVIOUS
  <2>1. Stream \in Seq(Item) /\ Len(Stream) = 0
    <3>1. TypeOK
      BY InitTyped
    <3>2. net = <<>> /\ out = <<>>
      BY DEF Init
    <3>3. Len(<<>>) = 0
      BY EmptySeq
    <3> QED BY <3>1, <3>2, <3>3, StreamTyped DEF StreamFacts
  <2>2. DOMAIN Stream = {} /\ Stream = <<>>
    BY <2>1, LenProperties, EmptySeq
  <2> QED BY <2>2 DEF KeyInv, KeyStartsEverySize, SamePeriod, Stream
<1> QED BY <1>1, KeyInvKept, TypeCorrect, PTL DEF Spec, KeyInv
=============================================================================
