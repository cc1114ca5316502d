----------------------------- MODULE PopsStale ------------------------------
(***************************************************************************)
(* POPS.Stale of the telemetry frame POPS (src/POPS/POPS.h), which both    *)
(* halves of the POPS driver write: UserPkts_UDP (module PopsData) and     *)
(* POPS_client (module Pops).                                              *)
(***************************************************************************)
EXTENDS Naturals

CONSTANT ByteMax      \* 255, the most a uint8_t holds

VARIABLE Stale

ASSUME StaleAssumption == ByteMax \in Nat \ {0}

\* tm_sync() counts the frame, and stops at the most the byte holds.
Aged == IF Stale < ByteMax THEN Stale + 1 ELSE Stale
=============================================================================
