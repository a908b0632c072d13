-------------------------- MODULE NetworkModeProps --------------------------
(***************************************************************************)
(* What mba-network-mode promises: correctness properties of NetworkMode.  *)
(***************************************************************************)
EXTENDS NetworkMode

Points == {"off", "pending", "toggle", "toggle_home", "toggle_mode", "env", "env_create",
           "env_write", "env_read", "wait", "profile", "add", "secure", "read_home",
           "truncate_home", "write_home", "list", "down_other", "hotspot_up", "hotspot_wait",
           "restore_home", "restore_cat", "restore_wait", "saved_home", "cat_home", "wait_home",
           "hotspot_down", "home_up", "home_wait", "truncate_mode", "write_mode"}
RunSet == [pc : Points, then : {"off", "profile", "saved_home", "shown"}, psk : Passphrases,
           name : Homes \cup {NONE}, goal : {"car", "home"}, fallback : BOOLEAN]

(* Every variable has its type; in particular the file home-connection and *)
(* every name an invocation is about to write there or to take down is a   *)
(* home profile, never the hotspot, whatever wlan0 changed to between two  *)
(* commands.                                                               *)
TypeOK ==
    /\ wifi \in [profile : Profiles, at : {"activating", "up"}, by : Invokers \cup {NONE},
                 psk : Settings \cup {"none"}] \cup {Down}
    /\ hotspots \in Seq(Settings)
    /\ mode \in {"absent", "torn", "car", "home"}
    /\ home \in Homes \cup {NONE}
    /\ env \in {"absent", "torn", "own", "short"}
    /\ run \in [Invokers -> RunSet]
    /\ outcome \in Outcomes
    /\ cuts \in 0..MaxFaults /\ drops \in 0..MaxFaults /\ starts \in 0..MaxStarts

(* Whom nmcli means by the name of the hotspot is clear.  Two invocations  *)
(* may each find no profile and each add one.                              *)
OneHotspot == Len(hotspots) <= 1

(* The hotspot is up because an invocation brought it up.                  *)
HotspotOn == wifi.profile = Hotspot /\ wifi.by # NONE

(* The script never brings the hotspot up without a WPA2 passphrase,       *)
(* although its profile is added first and secured later: whatever power   *)
(* cuts and failing nmcli commands left a bare profile behind, and however *)
(* invocations race between the list, the add, the modification and the    *)
(* activation.  It holds as long as one profile bears the name, for nmcli  *)
(* may secure one of two and activate the other; and it is no promise of   *)
(* what NetworkManager activates by itself (by is NONE): a bare profile    *)
(* does autoconnect.                                                       *)
HotspotIsSecured == (HotspotOn /\ OneHotspot) => wifi.psk \in Passphrases

(* The mode the restore unit finds at boot is the one saved last: a power  *)
(* cut does not destroy the file mode.                                     *)
SavedModeSurvives == At(Boot, "pending") => mode # "torn"

(* Where an invocation is on the longest way through the script: toggle,   *)
(* the switch home, the fallback to the switch to the hotspot, the end.    *)
(* ensure_hotspot_env (stages 4 to 7) is passed a second time before the   *)
(* hotspot profile (stages 15 to 18).                                      *)
StageOf ==
    [pending |-> 0, toggle |-> 1, toggle_home |-> 2, toggle_mode |-> 3, env |-> 4, env_create |-> 5,
     env_write |-> 6, env_read |-> 7, saved_home |-> 8, cat_home |-> 9, wait_home |-> 10,
     hotspot_down |-> 11, home_up |-> 12, home_wait |-> 13, wait |-> 14, profile |-> 19, add |-> 20,
     secure |-> 21, read_home |-> 22, truncate_home |-> 23, write_home |-> 24, list |-> 25,
     down_other |-> 26, hotspot_up |-> 27, hotspot_wait |-> 28, restore_home |-> 29,
     restore_cat |-> 30, restore_wait |-> 31, truncate_mode |-> 32, write_mode |-> 33, off |-> 34]
Stage(r) == StageOf[r.pc] + IF r.then = "profile" THEN 11 ELSE 0

(* The two fallbacks, from home to the hotspot and from the hotspot to     *)
(* home, never go round in circles: whatever others do to wlan0 and to the *)
(* files, each command of an invocation brings it nearer to its end, and   *)
(* only the end of the script or a power cut leaves it.                    *)
InvocationsAdvance ==
    [][\A p \in Invokers :
         (~ At(p, "off") /\ run'[p] # run[p] /\ cuts' = cuts) => Stage(run'[p]) > Stage(run[p])]_vars
=============================================================================
