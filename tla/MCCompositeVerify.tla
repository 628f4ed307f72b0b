-------------------------- MODULE MCCompositeVerify --------------------------
(***************************************************************************)
(* Challenges with none, one, three and five probes, among them timing     *)
(* probes whose suspicious range lies within and outside their plausible   *)
(* range, and one that reports a value; readings on both sides of every    *)
(* kind of limit, and on it.                                               *)
(***************************************************************************)
EXTENDS CompositeVerify

MCPayloads ==
    { <<>>, <<"webcrypto_timing">>,
      <<"webcrypto_timing", "canvas_timing", "audio_latency">>,
      <<"audio_latency", "dom_computation", "webcrypto_timing",
        "canvas_timing", "animation_frame">> }

MCMillis == {-1, 0, 29, 50, 100, 50001}
=============================================================================
