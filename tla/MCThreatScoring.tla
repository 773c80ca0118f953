-------------------------- MODULE MCThreatScoring --------------------------
(***************************************************************************)
(* ThreatScoring for TLC: three devices, one of them the same identity as  *)
(* another (no serial number), with the windows scaled down so that a run  *)
(* crosses all of them.                                                    *)
(***************************************************************************)
EXTENDS ThreatScoring

Device(id, key, classes, count, generic, risky) ==
    [id |-> id, key |-> key, classes |-> classes, count |-> count,
     generic |-> generic, risky |-> risky, anonymous |-> FALSE]

MCDevices == {Device("mouse", "m", {"hid"}, 1, FALSE, FALSE),
              Device("noserial", "n", {"storage"}, 1, TRUE, FALSE),
              Device("noserial", "n", {"hid", "storage", "vendor"}, 3, TRUE, TRUE)}

MCOverrides == [hid_storage_composite |-> 60, rapid_replug |-> 10]
MCThresholds == [allow |-> 19, quarantine |-> 39, analyze |-> 69]
=============================================================================
