----------------------------- MODULE NetworkMode -----------------------------
(***************************************************************************)
(* mba-network-mode: the shell script that switches wlan0 between a home   *)
(* Wi-Fi connection and the car hotspot.  It takes no lock, so invocations *)
(* of mba-device, of an administrator over ssh and of the restore unit at  *)
(* boot interleave command by command; NetworkManager activates, drops and *)
(* autoconnects meanwhile, and power may be cut between any two commands,  *)
(* files being truncated and written by separate ones.                     *)
(*                                                                         *)
(* Abstracted: ssids, addresses and the output of mode_status; ownership   *)
(* and modes of files; the home profiles NetworkManager knows are fixed;   *)
(* commands that only read succeed.                                        *)
(***************************************************************************)
EXTENDS Naturals, FiniteSets, Sequences

CONSTANTS
    Homes,        \* home Wi-Fi profiles
    Hotspot,      \* the name matchbox-car-hotspot
    NONE,         \* no profile
    Boot,         \* the unit mba-network-mode-restore, run once per boot
    Device,       \* mba-device, started after Boot has ended
    Stored,       \* what the data partition and NetworkManager may hold at first
    Admins,       \* administrators over ssh, whom nothing orders
    MaxFaults,    \* bound: power cuts and connections lost out of range, together
    MaxStarts     \* bound: invocations of the device and of administrators

Invokers == {Boot, Device} \cup Admins
Profiles == Homes \cup {Hotspot}

ASSUME ProfilesAssumption == Hotspot \notin Homes /\ NONE \notin Profiles
ASSUME InvokersAssumption == Boot # Device /\ {Boot, Device} \cap Admins = {} /\ NONE \notin Invokers
ASSUME StoredAssumption == Stored \subseteq
    [hotspots : {<<>>, <<"own">>}, mode : {"absent", "car", "home"}, home : Homes \cup {NONE},
     env : {"absent", "own", "short"}]
ASSUME BoundsAssumption == MaxFaults \in Nat /\ MaxStarts \in Nat

VARIABLES
    wifi,     \* wlan0: its profile, whether it is activating or up, who asked,
              \* and the passphrase the hotspot was brought up with
    hotspots, \* the profiles named Hotspot: "bare" as added, or the passphrase
    mode,     \* the file mode: "absent", "torn" (truncated), "car" or "home"
    home,     \* the file home-connection: NONE when absent or truncated
    env,      \* the file hotspot.env: its passphrase is "own" or "short"
    run,      \* each invoker: where its invocation is, and its variables
    outcome,  \* how the switch started last since power on ended, if it set a mode
    cuts, drops, starts
files == <<mode, home, env>>
bounds == <<cuts, drops, starts>>
vars == <<wifi, hotspots, files, run, outcome, bounds>>

Passphrases == {"own", "default"}
Settings == {"bare"} \cup Passphrases
Down == [profile |-> NONE, at |-> "down", by |-> NONE, psk |-> "none"]
Off == [pc |-> "off", then |-> "off", psk |-> "own", name |-> NONE, goal |-> "car",
        fallback |-> FALSE]
Outcomes == {"none", "ok", "fallback"}

Init ==
    /\ wifi = Down
    /\ \E s \in Stored : hotspots = s.hotspots /\ mode = s.mode /\ home = s.home /\ env = s.env
    /\ run = [p \in Invokers |-> IF p = Boot THEN [Off EXCEPT !.pc = "pending"] ELSE Off]
    /\ outcome = "none" /\ cuts = 0 /\ drops = 0 /\ starts = 0

-----------------------------------------------------------------------------
(* What the commands of the script read *)

(* active_home_connection; the mutant lacks its filter.                    *)
ActiveHome_Unfiltered == wifi.profile
ActiveHome == IF wifi.profile \in Homes THEN wifi.profile ELSE NONE

(* read_hotspot_field: the default stands for a file without a passphrase. *)
Passphrase == IF env = "own" THEN "own" ELSE "default"

(* saved_home_connection, without a file: the first Wi-Fi profile          *)
(* NetworkManager lists that is not the hotspot.                           *)
ListedHomes == IF Homes = {} THEN {NONE} ELSE Homes

(* Where an invocation goes next: the shell variables still to be read are *)
(* kept, the others forgotten.                                             *)
At(p, pc) == run[p].pc = pc
Step(p, pc) == [Off EXCEPT !.pc = pc, !.fallback = run[p].fallback]
Goto(p, pc) == run' = [run EXCEPT ![p] = Step(p, pc)]
GotoKeeping(p, pc) == run' = [run EXCEPT ![p].pc = pc]
GotoNaming(p, pc, name) == run' = [run EXCEPT ![p] = [Step(p, pc) EXCEPT !.name = name]]
GotoEnv(p, then) == run' = [run EXCEPT ![p] = [Step(p, "env") EXCEPT !.then = then]]
GotoMode(p, goal) == run' = [run EXCEPT ![p] = [Step(p, "truncate_mode") EXCEPT !.goal = goal]]
FallBack(p) == run' = [run EXCEPT ![p] = [Step(p, "wait") EXCEPT !.fallback = TRUE]]

(* The script ends, by exit or by set -e.                                  *)
Exit(p, how) == run' = [run EXCEPT ![p] = Off] /\ outcome' = how
Fail(p) == Exit(p, "none")

(* nmcli --wait 30 connection up: starts an activation that displaces any  *)
(* other; p then waits for it.                                             *)
Up(p, profile, psk) ==
    wifi' = [profile |-> profile, at |-> "activating", by |-> p, psk |-> psk]
CameUp(p) == wifi.by = p /\ wifi.at = "up"

-----------------------------------------------------------------------------
(* NetworkManager and the power supply *)

ActivationEnds ==
    /\ wifi.at = "activating"
    /\ wifi' \in {[wifi EXCEPT !.at = "up"], Down}
    /\ UNCHANGED <<hotspots, files, run, outcome, bounds>>

(* Home profiles autoconnect.  So does a hotspot profile as it was added,  *)
(* a client's still, until connection modify makes it an access point.     *)
AutoConnect ==
    /\ wifi = Down
    /\ \/ \E h \in Homes : wifi' = [profile |-> h, at |-> "up", by |-> NONE, psk |-> "none"]
       \/ \E i \in DOMAIN hotspots :
            /\ hotspots[i] = "bare"
            /\ wifi' = [profile |-> Hotspot, at |-> "up", by |-> NONE, psk |-> "bare"]
    /\ UNCHANGED <<hotspots, files, run, outcome, bounds>>

(* An access point is lost: a home's, or that a bare profile had found.    *)
LoseHome ==
    /\ wifi.profile \in Homes \/ wifi.psk = "bare"
    /\ wifi.at = "up" /\ cuts + drops < MaxFaults
    /\ wifi' = Down /\ drops' = drops + 1
    /\ UNCHANGED <<hotspots, files, run, outcome, cuts, starts>>

PowerCut ==
    /\ cuts + drops < MaxFaults
    /\ cuts' = cuts + 1 /\ wifi' = Down /\ outcome' = "none"
    /\ run' = [p \in Invokers |-> IF p = Boot THEN [Off EXCEPT !.pc = "pending"] ELSE Off]
    /\ UNCHANGED <<hotspots, files, drops, starts>>

-----------------------------------------------------------------------------
(* The commands: restore, car, home, toggle and display-status *)

(* saved_mode: "car" unless the file says "home".                          *)
Restore ==
    /\ At(Boot, "pending")
    /\ IF mode = "home" THEN GotoEnv(Boot, "saved_home") ELSE Goto(Boot, "wait")
    /\ UNCHANGED <<wifi, hotspots, files, outcome, bounds>>

MayStart(p) == At(p, "off") /\ (p \in Admins \/ (p = Device /\ At(Boot, "off")))

(* The device toggles and shows the status; administrators run any command. *)
Start(p) ==
    /\ MayStart(p) /\ starts < MaxStarts /\ starts' = starts + 1
    /\ \/ p \in Admins /\ Goto(p, "wait") /\ outcome' = "none"
       \/ p \in Admins /\ GotoEnv(p, "saved_home") /\ outcome' = "none"
       \/ Goto(p, "toggle") /\ outcome' = "none"
       \/ GotoEnv(p, "shown") /\ UNCHANGED outcome
    /\ UNCHANGED <<wifi, hotspots, files, cuts, drops>>

(* toggle reads mode_status: the active connection, the active home, then  *)
(* an ethernet link and the saved mode.                                    *)
Toggle(p) ==
    /\ At(p, "toggle")
    /\ IF wifi.profile = Hotspot THEN GotoEnv(p, "saved_home") ELSE Goto(p, "toggle_home")
    /\ UNCHANGED <<wifi, hotspots, files, outcome, bounds>>
ToggleHome(p) ==
    /\ At(p, "toggle_home")
    /\ Goto(p, IF ActiveHome = NONE THEN "toggle_mode" ELSE "wait")
    /\ UNCHANGED <<wifi, hotspots, files, outcome, bounds>>
ToggleMode(p) ==
    /\ At(p, "toggle_mode")
    /\ \E ethernet \in BOOLEAN :
         IF ~ ethernet /\ mode = "car" THEN GotoEnv(p, "saved_home") ELSE Goto(p, "wait")
    /\ UNCHANGED <<wifi, hotspots, files, outcome, bounds>>

-----------------------------------------------------------------------------
(* ensure_hotspot_env: shared by switch_home, switch_car, display-status *)

TestEnv(p) ==
    /\ At(p, "env")
    /\ GotoKeeping(p, IF env = "absent" THEN "env_create" ELSE "env_read")
    /\ UNCHANGED <<wifi, hotspots, files, outcome, bounds>>

CreateEnv(p) ==
    /\ At(p, "env_create")
    /\ env' = "torn" /\ GotoKeeping(p, "env_write")
    /\ UNCHANGED <<wifi, hotspots, mode, home, outcome, bounds>>

WriteEnv(p) ==
    /\ At(p, "env_write")
    /\ env' = "own" /\ GotoKeeping(p, "env_read")
    /\ UNCHANGED <<wifi, hotspots, mode, home, outcome, bounds>>

(* A passphrase of less than 8 characters ends the script.                 *)
ReadEnv(p) ==
    /\ At(p, "env_read")
    /\ \/ run[p].then = "shown" /\ run' = [run EXCEPT ![p] = Off] /\ UNCHANGED outcome
       \/ run[p].then # "shown" /\ env = "short" /\ Fail(p)
       \/ /\ run[p].then # "shown" /\ env # "short"
          /\ run' = [run EXCEPT ![p] = [Step(p, run[p].then) EXCEPT !.psk = Passphrase]]
          /\ UNCHANGED outcome
    /\ UNCHANGED <<wifi, hotspots, files, bounds>>

-----------------------------------------------------------------------------
(* switch_car *)

WaitCar(p) ==
    /\ At(p, "wait")
    /\ \/ GotoEnv(p, "profile") /\ UNCHANGED outcome
       \/ Fail(p)
    /\ UNCHANGED <<wifi, hotspots, files, bounds>>

(* ensure_hotspot_profile: lists the profiles, adds one if none has the    *)
(* name, and modifies the one, or one of those, that has it.  nmcli may    *)
(* fail, and set -e ends the script.                                       *)
ListProfiles_OnlyNew(p) ==   \* Mutant: a profile that exists is not modified.
    /\ At(p, "profile")
    /\ IF hotspots = <<>> THEN GotoKeeping(p, "add") ELSE Goto(p, "read_home")
    /\ UNCHANGED <<wifi, hotspots, files, outcome, bounds>>
ListProfiles(p) ==
    /\ At(p, "profile")
    /\ GotoKeeping(p, IF hotspots = <<>> THEN "add" ELSE "secure")
    /\ UNCHANGED <<wifi, hotspots, files, outcome, bounds>>
AddProfile(p) ==
    /\ At(p, "add")
    /\ \/ hotspots' = Append(hotspots, "bare") /\ GotoKeeping(p, "secure") /\ UNCHANGED outcome
       \/ Fail(p) /\ UNCHANGED hotspots
    /\ UNCHANGED <<wifi, files, bounds>>
SecureProfile(p) ==
    /\ At(p, "secure")
    /\ \/ /\ \E i \in DOMAIN hotspots : hotspots' = [hotspots EXCEPT ![i] = run[p].psk]
          /\ Goto(p, "read_home") /\ UNCHANGED outcome
       \/ Fail(p) /\ UNCHANGED hotspots
    /\ UNCHANGED <<wifi, files, bounds>>

(* The home connection in use is saved before it is taken down.            *)
ReadHome(p) ==
    /\ At(p, "read_home")
    /\ IF ActiveHome = NONE THEN Goto(p, "list") ELSE GotoNaming(p, "truncate_home", ActiveHome)
    /\ UNCHANGED <<wifi, hotspots, files, outcome, bounds>>
TruncateHome(p) ==
    /\ At(p, "truncate_home")
    /\ home' = NONE /\ GotoKeeping(p, "write_home")
    /\ UNCHANGED <<wifi, hotspots, mode, env, outcome, bounds>>
WriteHome(p) ==
    /\ At(p, "write_home")
    /\ home' = run[p].name /\ Goto(p, "list")
    /\ UNCHANGED <<wifi, hotspots, mode, env, outcome, bounds>>

(* down_other_wifi lists the active connections, then takes them down.     *)
ListWifi(p) ==
    /\ At(p, "list")
    /\ GotoNaming(p, "down_other", ActiveHome)
    /\ UNCHANGED <<wifi, hotspots, files, outcome, bounds>>
DownOther(p) ==
    /\ At(p, "down_other")
    /\ wifi' = IF wifi.profile = run[p].name THEN Down ELSE wifi
    /\ Goto(p, "hotspot_up")
    /\ UNCHANGED <<hotspots, files, outcome, bounds>>

HotspotUp(p) ==
    /\ At(p, "hotspot_up")
    /\ \E i \in DOMAIN hotspots : Up(p, Hotspot, hotspots[i])
    /\ Goto(p, "hotspot_wait")
    /\ UNCHANGED <<hotspots, files, outcome, bounds>>
HotspotWait(p) ==
    /\ At(p, "hotspot_wait")
    /\ IF CameUp(p) THEN GotoMode(p, "car") ELSE Goto(p, "restore_home")
    /\ UNCHANGED <<wifi, hotspots, files, outcome, bounds>>

(* The hotspot failed: try the home connection, and exit 1 anyway.         *)
RestoreTo(p, h) ==
    IF h = NONE THEN Fail(p) /\ UNCHANGED wifi
                ELSE Up(p, h, "none") /\ Goto(p, "restore_wait") /\ UNCHANGED outcome
RestoreHome(p) ==
    /\ At(p, "restore_home")
    /\ IF home = NONE THEN \E h \in ListedHomes : RestoreTo(p, h)
                      ELSE Goto(p, "restore_cat") /\ UNCHANGED <<wifi, outcome>>
    /\ UNCHANGED <<hotspots, files, bounds>>
RestoreCat(p) ==
    /\ At(p, "restore_cat")
    /\ RestoreTo(p, home)
    /\ UNCHANGED <<hotspots, files, bounds>>
RestoreWait_SwitchesHome(p) ==   \* Mutant: falls back to switch_home.
    /\ At(p, "restore_wait")
    /\ GotoEnv(p, "saved_home")
    /\ UNCHANGED <<wifi, hotspots, files, outcome, bounds>>
RestoreWait(p) ==
    /\ At(p, "restore_wait")
    /\ Fail(p)
    /\ UNCHANGED <<wifi, hotspots, files, bounds>>

-----------------------------------------------------------------------------
(* switch_home *)

(* The file home-connection is tested, then read.                          *)
SwitchTo(p, h) == IF h = NONE THEN FallBack(p) ELSE GotoNaming(p, "wait_home", h)
ReadSavedHome(p) ==
    /\ At(p, "saved_home")
    /\ IF home = NONE THEN \E h \in ListedHomes : SwitchTo(p, h) ELSE Goto(p, "cat_home")
    /\ UNCHANGED <<wifi, hotspots, files, outcome, bounds>>
CatHome(p) ==
    /\ At(p, "cat_home")
    /\ SwitchTo(p, home)
    /\ UNCHANGED <<wifi, hotspots, files, outcome, bounds>>

WaitHome(p) ==
    /\ At(p, "wait_home")
    /\ \/ GotoKeeping(p, "hotspot_down") /\ UNCHANGED outcome
       \/ Fail(p)
    /\ UNCHANGED <<wifi, hotspots, files, bounds>>

HotspotDown(p) ==
    /\ At(p, "hotspot_down")
    /\ wifi' = IF wifi.profile = Hotspot THEN Down ELSE wifi
    /\ GotoKeeping(p, "home_up")
    /\ UNCHANGED <<hotspots, files, outcome, bounds>>

HomeUp(p) ==
    /\ At(p, "home_up")
    /\ Up(p, run[p].name, "none") /\ Goto(p, "home_wait")
    /\ UNCHANGED <<hotspots, files, outcome, bounds>>

(* Falling back to the hotspot, the script exits 1 whatever switch_car did. *)
HomeWait_KeepsGoing(p) ==   \* Mutant: the mode is written although home did not come up.
    /\ At(p, "home_wait")
    /\ GotoMode(p, "home")
    /\ UNCHANGED <<wifi, hotspots, files, outcome, bounds>>
HomeWait(p) ==
    /\ At(p, "home_wait")
    /\ IF CameUp(p) THEN GotoMode(p, "home") ELSE FallBack(p)
    /\ UNCHANGED <<wifi, hotspots, files, outcome, bounds>>

-----------------------------------------------------------------------------
(* write_mode, and the end of both switches *)

TruncateMode(p) ==
    /\ At(p, "truncate_mode")
    /\ mode' = "torn" /\ GotoKeeping(p, "write_mode")
    /\ UNCHANGED <<wifi, hotspots, home, env, outcome, bounds>>
WriteMode(p) ==
    /\ At(p, "write_mode")
    /\ mode' = run[p].goal
    /\ Exit(p, IF run[p].fallback THEN "fallback" ELSE "ok")
    /\ UNCHANGED <<wifi, hotspots, home, env, bounds>>

-----------------------------------------------------------------------------
(* Specification *)

Invocation(p) ==
    \/ Toggle(p) \/ ToggleHome(p) \/ ToggleMode(p)
    \/ TestEnv(p) \/ CreateEnv(p) \/ WriteEnv(p) \/ ReadEnv(p)
    \/ WaitCar(p) \/ ListProfiles(p) \/ AddProfile(p) \/ SecureProfile(p)
    \/ ReadHome(p) \/ TruncateHome(p) \/ WriteHome(p) \/ ListWifi(p) \/ DownOther(p)
    \/ HotspotUp(p) \/ HotspotWait(p) \/ RestoreHome(p) \/ RestoreCat(p) \/ RestoreWait(p)
    \/ ReadSavedHome(p) \/ CatHome(p) \/ WaitHome(p) \/ HotspotDown(p) \/ HomeUp(p) \/ HomeWait(p)
    \/ TruncateMode(p) \/ WriteMode(p)

Next == \/ ActivationEnds \/ AutoConnect \/ LoseHome \/ PowerCut \/ Restore
        \/ \E p \in Invokers : Start(p) \/ Invocation(p)
Spec == Init /\ [][Next]_vars
=============================================================================
