-------------------------- MODULE MCEngineCircuit --------------------------
(* Instances of EngineCircuit for TLC.  Durations are scaled down: hours   *)
(* to ticks, with the order of the configured durations kept.              *)
EXTENDS EngineCircuit, TLC

CONSTANTS a1, a2, a3

AttemptSymmetry == Permutations(Attempts)

\* As in SuspensionPolicy::default, a Cloudflare captcha is suspended for
\* longer than rows are kept, the others for less; captcha as for DuckDuckGo.
ScaledDurations ==
  [e \in ExplicitErrors |->
     CASE e = "captcha" -> 0
       [] e = "cf_captcha" -> 8
       [] OTHER -> 2]
============================================================================
