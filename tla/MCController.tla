---------------------------- MODULE MCController ----------------------------
(***************************************************************************)
(* Configurations for model checking Controller: small machines, with      *)
(* temperatures below, on, between and above the points of their curves.   *)
(***************************************************************************)
EXTENDS Controller, TLC

\* Demands 12 percent when cold, 30 at 60 degrees, 33 at 61, 60 when hot.
CpuPoints == << [temp |-> 40, pct |-> Pct(12)], [temp |-> 60, pct |-> Pct(30)],
                [temp |-> 70, pct |-> Pct(60)] >>
DrivePoints == << [temp |-> 40, pct |-> Pct(10)], [temp |-> 60, pct |-> Pct(50)] >>

Curve(s, z, p) == [sensor |-> s, zones |-> z, points |-> p]

\* Two fans in zones of their own, a sensor for each.
TwoZones ==
  [ilo |-> "east", fans |-> {0, 1}, zones |-> (0 :> {"front"}) @@ (1 :> {"rear"}),
   sensors |-> {"cpu", "drives"},
   curves |-> {Curve("cpu", {"front"}, CpuPoints), Curve("drives", {"rear"}, DrivePoints)},
   critical |-> {[sensor |-> "cpu", temp |-> 90]},
   min |-> Pct(11), max |-> Pct(70), hyst |-> Pct(5), ramp |-> Pct(20), fixed |-> Pct(40)]

\* One airflow zone: two fans, one sensor.
OneZone ==
  [TwoZones EXCEPT !.zones = (0 :> {"front"}) @@ (1 :> {"front"}), !.sensors = {"cpu"},
                   !.curves = {Curve("cpu", {"front"}, CpuPoints)}]

\* One fan.
OneFan == [OneZone EXCEPT !.fans = {0}]

\* Edits of the file: fan 1 is taken out, or another BMC is named and its fan
\* is another one, each with other limits.
FanRemoved == [OneFan EXCEPT !.min = Pct(20), !.max = Pct(50)]
OtherBmc == [OneZone EXCEPT !.fans = {1}, !.min = Pct(20), !.max = Pct(50), !.ilo = "west"]

OtherFan == [OtherBmc EXCEPT !.ilo = "east"]

JustTwoZones == {TwoZones}
JustOneFan == {OneFan}
FanComesAndGoes == {OneZone, FanRemoved}
FanReplaced == {OneFan, OtherFan}
BmcChanges == {OneFan, OtherBmc}
=============================================================================
