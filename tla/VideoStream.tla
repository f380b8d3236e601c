---------------------------- MODULE VideoStream -----------------------------
(***************************************************************************)
(* A shared screen on its way from the host's capture to the viewer's      *)
(* texture: the software path (screen_capture.rs, openh264) and the        *)
(* PipeWire and GStreamer path (screen_capture_gst.rs) of the host, the    *)
(* RTP stream with its RTCP reports and picture loss indications, and the  *)
(* two decoders of the viewer, openh264 (webrtc.rs) and NVDEC              *)
(* (screen_decode_gst.rs), which gives way to the first when it fails.     *)
(*                                                                         *)
(* A frame is the number of the scene it shows, the size it was encoded at *)
(* and whether it is a key frame.  A frame that is not can be decoded only *)
(* by a decoder that has followed every frame since the last one.          *)
(***************************************************************************)
EXTENDS QualityLadder, SequencesExt

CONSTANTS
  Host,        (* the capture paths to run: a subset of {"soft", "gst"}     *)
  Viewer,      (* the decoders to run: a subset of {"soft", "nv"}           *)
  Fraction,    (* fraction_lost of the worst report of a batch              *)
  Gop,         (* frames from one key frame to the next: fps of the tier    *)
  OutCap,      (* output channel and the frame its sender waits with: 9     *)
  RawCap,      (* leaky queues before the encoder: 4 + 2 + 1                *)
  Late,        (* what must follow a gap for SampleBuilder to pass over it  *)
  NetCap,      (* bound: frames under way                                   *)
  MaxScene,    (* bound: changes of the screen                              *)
  MaxLosses,   (* bound: frames and indications lost                        *)
  MaxReports,  (* bound: batches of receiver reports                        *)
  MaxErrors    (* bound: frames that fail to encode or come out empty       *)

ASSUME StreamAssumption ==
  /\ Host \subseteq {"soft", "gst"} /\ Viewer \subseteq {"soft", "nv"}
  /\ Fraction \subseteq 0 .. 255
  /\ {Gop, OutCap, RawCap, Late, MaxScene} \subseteq Nat \ {0}
  /\ {MaxLosses, MaxReports, MaxErrors} \subseteq Nat
  /\ NetCap \in Nat /\ NetCap > Late

VARIABLES
  host, screen,   (* the path taken; the scene on the screen now            *)
  slot,           (* soft: FrameSlot, the newest raw frame not yet taken    *)
  lastHash,       (* soft: the frame the encode thread took last            *)
  refresh,        (* soft: a second has passed since last_encoded_at        *)
  raw,            (* gst: raw frames queued in the pipeline                 *)
  gate,           (* gst: appsrc_slot is set                                *)
  force,          (* gst: a forced key frame is due                         *)
  encoder,        (* NoEncoder, or its tier, size and place in the GOP      *)
  out,            (* the output channel                                     *)
  ladder, clean,  (* the ladder; history: clean reports in a row            *)
  net,            (* RTP frames under way, Gap for a lost one               *)
  pli,            (* a picture loss indication is under way to the host     *)
  decoder,        (* viewer: which decoder runs: soft, nv, failing          *)
  intact,         (* viewer: the decoder has every frame since a key frame  *)
  shown,          (* viewer: VIDEO_TEXTURE: a scene, Garbled, or 0          *)
  size,           (* viewer: the size of the texture                        *)
  losses, reports, errors

source  == <<slot, lastHash, refresh, raw, gate>>
picture == <<decoder, intact, shown, size>>
bounds  == <<losses, reports, errors>>
vars    == <<host, screen, source, force, encoder, out, ladder, clean, net, pli, picture, bounds>>

Scene     == 1 .. MaxScene
Sizes     == {Size(t) : t \in Tier}
Garbled   == -1
NoEncoder == [tier |-> -1, size |-> -1, n |-> 0]
Gap       == [key |-> FALSE, scene |-> 0, size |-> -1]
Frame     == [key : BOOLEAN, scene : Scene, size : Sizes]
Encoder   == [tier : Tier, size : Sizes, n : 0 .. Gop - 1]

Init ==
  /\ host \in Host /\ decoder \in Viewer
  /\ screen = 1
  /\ slot = 0 /\ lastHash = 0 /\ refresh = FALSE
  /\ raw = <<>> /\ gate = FALSE /\ force = FALSE
  /\ encoder = NoEncoder /\ out = <<>>
  /\ ladder = Top /\ clean = 0
  /\ net = <<>> /\ pli = FALSE
  /\ intact = FALSE /\ shown = 0 /\ size = 0
  /\ losses = 0 /\ reports = 0 /\ errors = 0

Change ==
  /\ screen < MaxScene
  /\ screen' = screen + 1
  /\ UNCHANGED <<host, source, force, encoder, out, ladder, clean, net, pli, picture, bounds>>
-----------------------------------------------------------------------------
(* The software path: a capture thread fills one slot, an encode thread    *)
(* empties it.                                                             *)

\* It keeps the frame it took last until there is another.
Newest == IF slot # 0 THEN slot ELSE lastHash

\* run_recorder_loop, run_poll_loop: a newer frame replaces an older one.
Grab ==
  /\ host = "soft"
  /\ Newest # screen
  /\ slot' = screen
  /\ UNCHANGED <<host, screen, lastHash, refresh, raw, gate, force, encoder, out,
                 ladder, clean, net, pli, picture, bounds>>

Second ==
  /\ host = "soft"
  /\ ~refresh
  /\ refresh' = TRUE
  /\ UNCHANGED <<host, screen, slot, lastHash, raw, gate, force, encoder, out,
                 ladder, clean, net, pli, picture, bounds>>

\* last_hash and refresh_due: a still screen is sent once a second.
Skip(s) == s = lastHash /\ ~refresh

\* mutant: the encoder is made once
FirstEncoder(t) ==
  IF encoder = NoEncoder THEN [tier |-> t, size |-> Size(t), n |-> 0] ELSE [encoder EXCEPT !.size = Size(t)]

\* A new encoder, and so a key frame, on another size, rate or bit rate.
EnsureEncoder(t) ==
  IF encoder.tier = t THEN encoder ELSE [tier |-> t, size |-> Size(t), n |-> 0]

Encoded(e, s) == [key |-> e.n = 0, scene |-> s, size |-> e.size]
NoPeriod(e)   == [e EXCEPT !.n = 1]            \* mutant: key frames only at the start
Advanced(e)   == [e EXCEPT !.n = (@ + 1) % Gop]

\* One turn of the encode thread on a frame it does not skip.
Encode ==
  /\ host = "soft"
  /\ Newest # 0
  /\ ~Skip(Newest)
  /\ Len(out) < OutCap
  /\ slot' = 0
  /\ lastHash' = Newest
  /\ LET e == EnsureEncoder(ladder.tier) IN
     \/ /\ out' = Append(out, Encoded(e, Newest))
        /\ encoder' = Advanced(e)
        /\ refresh' = FALSE
        /\ UNCHANGED errors
     \* the rate control gives out nothing: it counts as encoded
     \/ /\ errors < MaxErrors
        /\ errors' = errors + 1
        /\ encoder' = e
        /\ refresh' = FALSE
        /\ UNCHANGED out
     \* resize, encoder creation or encode_at fails: the scene counts as seen
     \/ /\ errors < MaxErrors
        /\ errors' = errors + 1
        /\ encoder' \in {encoder, e}
        /\ UNCHANGED <<out, refresh>>
  /\ UNCHANGED <<host, screen, raw, gate, force, ladder, clean, net, pli, picture, losses, reports>>
-----------------------------------------------------------------------------
(* The PipeWire and GStreamer path.                                        *)

\* start_capture_gst: the pipeline plays and its appsrc is published.
OpenGate ==
  /\ host = "gst"
  /\ ~gate
  /\ gate' = TRUE
  /\ UNCHANGED <<host, screen, slot, lastHash, refresh, raw, force, encoder, out,
                 ladder, clean, net, pli, picture, bounds>>

Leaky(q, s) == IF Len(q) < RawCap THEN Append(q, s) ELSE Append(Tail(q), s)

\* process: a frame that comes before the gate is open or before it is due is
\* shed, which changes nothing.
PwFrame ==
  /\ host = "gst"
  /\ gate
  /\ raw' = Leaky(raw, screen)
  /\ UNCHANGED <<host, screen, slot, lastHash, refresh, gate, force, encoder, out,
                 ladder, clean, net, pli, picture, bounds>>

\* The encoder renegotiates on another size; another bit rate is set on it.
Renegotiated(t) ==
  IF encoder.size = Size(t) /\ ~force
    THEN [encoder EXCEPT !.tier = t]
    ELSE [tier |-> t, size |-> Size(t), n |-> 0]

\* The streaming thread waits in blocking_send while the channel is full.
GstEncode ==
  /\ host = "gst"
  /\ raw # <<>>
  /\ Len(out) < OutCap
  /\ raw' = Tail(raw)
  /\ LET e == Renegotiated(ladder.tier) IN
       out' = Append(out, Encoded(e, Head(raw))) /\ encoder' = Advanced(e)
  /\ force' = FALSE
  /\ UNCHANGED <<host, screen, slot, lastHash, refresh, gate,
                 ladder, clean, net, pli, picture, bounds>>
-----------------------------------------------------------------------------
(* The output task, the network and the host's RTCP task.                  *)

Write ==
  /\ out # <<>>
  /\ Len(net) < NetCap
  /\ net' = Append(net, Head(out))
  /\ out' = Tail(out)
  /\ UNCHANGED <<host, screen, source, force, encoder, ladder, clean, pli, picture, bounds>>

Lose ==
  /\ losses < MaxLosses
  /\ losses' = losses + 1
  /\ \/ \E i \in DOMAIN net : net[i] # Gap /\ net' = [net EXCEPT ![i] = Gap] /\ UNCHANGED pli
     \/ pli /\ pli' = FALSE /\ UNCHANGED net
  /\ UNCHANGED <<host, screen, source, force, encoder, out, ladder, clean, picture, reports, errors>>

\* adapt_quality, adapt_quality_gst: a batch with receiver reports.
Report ==
  /\ reports < MaxReports
  /\ reports' = reports + 1
  /\ \E f \in Fraction :
       ladder' = StepTier(ladder, f) /\ clean' = IF Clean(f) THEN clean + 1 ELSE 0
  /\ UNCHANGED <<host, screen, source, force, encoder, out, net, pli, picture, losses, errors>>

\* Only the second path answers a picture loss indication.
TakePli ==
  /\ pli
  /\ pli' = FALSE
  /\ force' = (force \/ host = "gst")
  /\ UNCHANGED <<host, screen, source, encoder, out, ladder, clean, net, picture, bounds>>
-----------------------------------------------------------------------------
(* The viewer.                                                             *)

\* A frame leaves SampleBuilder when the next has begun to arrive, a gap is
\* passed over when enough has.
Arrived == net # <<>> /\ Len(net) > IF Head(net) = Gap THEN Late ELSE 1

PassGap ==
  /\ Arrived
  /\ Head(net) = Gap
  /\ net' = Tail(net)
  /\ intact' = FALSE
  /\ UNCHANGED <<host, screen, source, force, encoder, out, ladder, clean, pli, decoder, shown, size, bounds>>

Publish(s, f) == shown' = s /\ size' = f.size

\* A frame without its reference is an error, shows nothing or is concealed.
DecodeBroken(f) ==
  \/ UNCHANGED <<shown, size>> /\ pli' = (pli \/ decoder = "soft")
  \/ Publish(Garbled, f) /\ UNCHANGED pli

Decode ==
  /\ Arrived
  /\ Head(net) # Gap
  /\ decoder # "failing"
  /\ net' = Tail(net)
  /\ IF Head(net).key \/ intact
       THEN /\ Publish(Head(net).scene, Head(net))
            /\ intact' = TRUE
            /\ UNCHANGED pli
       ELSE DecodeBroken(Head(net)) /\ UNCHANGED intact
  /\ UNCHANGED <<host, screen, source, force, encoder, out, ladder, clean, decoder, bounds>>

\* run_decode_pipeline kicks the sender once it plays.
NvStarts ==
  /\ decoder = "nv"
  /\ shown = 0 /\ ~pli
  /\ pli' = TRUE
  /\ UNCHANGED <<host, screen, source, force, encoder, out, ladder, clean, net, picture, bounds>>

\* The bus watch sets the flag the read loop looks at before it reads.
NvFails ==
  /\ decoder = "nv"
  /\ decoder' = "failing"
  /\ UNCHANGED <<host, screen, source, force, encoder, out, ladder, clean, net, pli, intact, shown, size, bounds>>

\* The frame it was waiting for is lost on the failed pipeline.
FallBack ==
  /\ decoder = "failing"
  /\ Arrived
  /\ net' = Tail(net)
  /\ decoder' = "soft"
  /\ intact' = FALSE
  /\ UNCHANGED <<host, screen, source, force, encoder, out, ladder, clean, pli, shown, size, bounds>>
-----------------------------------------------------------------------------
Next ==
  \/ Change \/ Grab \/ Second \/ Encode
  \/ OpenGate \/ PwFrame \/ GstEncode
  \/ Write \/ Lose \/ Report \/ TakePli
  \/ PassGap \/ Decode \/ NvStarts \/ NvFails \/ FallBack

Spec == Init /\ [][Next]_vars

(* Threads, tasks and timers run.  Nothing makes the screen change, a      *)
(* report come or a compositor send frames.                                *)
Fairness ==
  /\ WF_vars(Grab) /\ WF_vars(Second) /\ WF_vars(Encode)
  /\ WF_vars(OpenGate) /\ WF_vars(GstEncode)
  /\ WF_vars(Write) /\ WF_vars(TakePli)
  /\ WF_vars(PassGap) /\ WF_vars(Decode) /\ WF_vars(FallBack)

FairSpec == Spec /\ Fairness
-----------------------------------------------------------------------------
(* Types and bounds: no queue passes its limit, the ladder stays on it.    *)
TypeOK ==
  /\ host \in Host /\ screen \in Scene
  /\ {slot, lastHash} \subseteq 0 .. MaxScene
  /\ {refresh, gate, force, pli, intact} \subseteq BOOLEAN
  /\ raw \in Seq(Scene) /\ Len(raw) <= RawCap
  /\ encoder \in Encoder \cup {NoEncoder}
  /\ out \in Seq(Frame) /\ Len(out) <= OutCap
  /\ net \in Seq(Frame \cup {Gap}) /\ Len(net) <= NetCap
  /\ ladder \in Ladder /\ clean \in Nat
  /\ decoder \in {"soft", "nv", "failing"}
  /\ shown \in Scene \cup {0, Garbled} /\ size \in Sizes \cup {0}
  /\ losses \in 0 .. MaxLosses /\ reports \in 0 .. MaxReports /\ errors \in 0 .. MaxErrors

(* No frame but a key frame starts a new size, on the channel and on the   *)
(* wire: a decoder never gets a difference to a picture of another size    *)
(* (ensure_encoder).                                                       *)
KeyStartsEverySize ==
  LET sent == net \o out IN
  \A i, j \in DOMAIN sent :
    j = i + 1 /\ Gap \notin {sent[i], sent[j]} /\ sent[i].size # sent[j].size => sent[j].key

(* The ladder is climbed only after UpgradeAfter clean reports in a row,   *)
(* all on the tier it leaves: quality does not flap (step_tier).           *)
UpgradeOnlyWhenClean ==
  [][ladder'.tier < ladder.tier => clean' >= UpgradeAfter /\ ladder'.good = 0]_vars

(* A screen that has come to rest is what the viewer shows in the end,     *)
(* whatever was lost, failed to encode, was garbled or changed tier, and   *)
(* whichever decoder gave way: on the software path by the refresh of a    *)
(* still scene, on the other if the compositor goes on sending.            *)
SceneArrives ==
  (host = "gst" => []<><<PwFrame>>_vars) => <>[](shown = screen)
=============================================================================
