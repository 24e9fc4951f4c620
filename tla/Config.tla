------------------------------- MODULE Config -------------------------------
(***************************************************************************)
(* A loaded configuration, package config, as far as control depends on    *)
(* it, and the demand package controller's decide derives from it.         *)
(*                                                                         *)
(* A configuration is a record                                             *)
(*   ilo       the BMC it names (two configs with the same ilo are SameILO)*)
(*   fans      the fan indexes, with zones[f] the zones of fan f           *)
(*   sensors   the names of the sensor groups                              *)
(*   curves    a set of [sensor, zones, points]                            *)
(*   critical  a set of [sensor, temp]                                     *)
(*   min, max  min_floor_pct and max_floor_pct, in units of FanCurve       *)
(*   hyst      hysteresis_pct,  ramp  ramp_down_per_cycle_pct              *)
(*   fixed     on_sensor_error.fixed_pct                                   *)
(* Two records are equal when the checksums of the two files are.          *)
(***************************************************************************)
EXTENDS FanCurve, FiniteSets

(***************************************************************************)
(* Validate, for these fields.  hyst and ramp are not validated by the     *)
(* code: any number is accepted, zero and negative ones included.          *)
(***************************************************************************)
ValidConfig(c) ==
  /\ c.fans # {} /\ c.fans \subseteq Nat
  /\ \A f \in c.fans : c.zones[f] # {}
  /\ c.sensors # {}
  /\ c.curves # {} /\ IsFiniteSet(c.curves)
  /\ \A cv \in c.curves :
       /\ cv.sensor \in c.sensors
       /\ cv.zones # {} /\ cv.zones \subseteq UNION {c.zones[f] : f \in c.fans}
       /\ ValidPoints(cv.points)
  /\ c.max \in 1..Full /\ c.min \in 0..c.max
  /\ c.fixed \in 1..Full
  /\ c.hyst \in Int /\ c.ramp \in Int
  /\ \A cr \in c.critical : cr.sensor \in c.sensors /\ cr.temp \in Int

FanIndexesForZones(c, zs) == {f \in c.fans : c.zones[f] \cap zs # {}}
-----------------------------------------------------------------------------
(***************************************************************************)
(* decide.  values is a function from the groups that have a usable value  *)
(* this cycle (read, or held) to that value; a group without one puts      *)
(* fixed_pct in place of its curves.                                       *)
(***************************************************************************)

CurveDemand(c, cv, values) ==
  IF cv.sensor \in DOMAIN values THEN Eval(cv.points, values[cv.sensor]) ELSE c.fixed

\* The demands on one fan: the baseline, and every curve over its zones.
DemandsOn(c, values, f) ==
  {c.min} \cup {CurveDemand(c, cv, values) :
                  cv \in {v \in c.curves : f \in FanIndexesForZones(c, v.zones)}}

IsCritical(c, values) ==
  \E cr \in c.critical : cr.sensor \in DOMAIN values /\ values[cr.sensor] >= cr.temp

Highest(S) == CHOOSE x \in S : \A y \in S : y <= x

\* Only the fans of the tripping sensor's zones go to the maximum.
FaultyDemands(c, values) ==
  [f \in c.fans |->
     Clamp(IF \E cr \in c.critical :
                /\ cr.sensor \in DOMAIN values /\ values[cr.sensor] >= cr.temp
                /\ \E cv \in c.curves : /\ cv.sensor = cr.sensor
                                        /\ f \in FanIndexesForZones(c, cv.zones)
           THEN c.max ELSE Highest(DemandsOn(c, values, f)), c.min, c.max)]

Demands(c, values) ==
  [f \in c.fans |->
     Clamp(IF IsCritical(c, values) THEN c.max ELSE Highest(DemandsOn(c, values, f)),
           c.min, c.max)]
-----------------------------------------------------------------------------
(***************************************************************************)
(* The first half of apply, for one fan: prev is the floor last commanded  *)
(* (an integer, or anything else when had is FALSE).  Floors rise at once  *)
(* and fall slowly, unless the cycle is critical.                          *)
(***************************************************************************)
Falls(had, prev, target, crit) == had /\ ~crit /\ target < prev

HeldByHysteresis(c, had, prev, target, crit) ==
  Falls(had, prev, target, crit) /\ prev - target < c.hyst

\* The ramp limit is read as the lowest floor, not as a step down.
FaultyRamped(c, had, prev, target, crit) ==
  IF Falls(had, prev, target, crit) /\ c.ramp > 0 /\ prev - target > c.ramp
  THEN c.ramp ELSE target

Ramped(c, had, prev, target, crit) ==
  IF Falls(had, prev, target, crit) /\ c.ramp > 0 /\ prev - target > c.ramp
  THEN prev - c.ramp ELSE target

FloorToCommand(c, had, prev, target, crit) ==
  PctToRaw(Clamp(Ramped(c, had, prev, target, crit), c.min, c.max))

\* state.Mismatched: the read-back is more than two percent below the floor.
Mismatched(floor, observed) == observed < floor - Pct(2)
=============================================================================
