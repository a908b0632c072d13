-------------------------- MODULE NetworkModeRaces --------------------------
(***************************************************************************)
(* NetworkMode with a history of races: what mba-network-mode promises of  *)
(* invocations that follow one another, whoever makes them, which nothing  *)
(* in the script enforces.                                                 *)
(***************************************************************************)
EXTENDS NetworkModeProps

VARIABLE raced   \* history: two invocations have overlapped since power on

RacesInit == Init /\ raced = FALSE
RacesNext ==
    /\ Next
    /\ raced' = /\ cuts' = cuts
                /\ \/ raced
                   \/ \E p, q \in Invokers : p # q /\ run'[p].pc # "off" /\ run'[q].pc # "off"
RacesSpec == RacesInit /\ [][RacesNext]_<<vars, raced>>

Quiet == \A p \in Invokers : At(p, "off")
ModeOf(profile) == IF profile = Hotspot THEN "car" ELSE "home"

(* A switch that reports success, or that fell back to the hotspot, leaves *)
(* wlan0 up and the saved mode equal to the mode in effect, so the next    *)
(* boot comes back to it: for the restore unit, the device and             *)
(* administrators one after the other, and also after races and power cuts *)
(* before the present boot.                                                *)
ModeIsRemembered ==
    (~ raced /\ Quiet /\ drops = 0 /\ outcome \in {"ok", "fallback"})
        => wifi.at = "up" /\ mode = ModeOf(wifi.profile)

(* The passphrase mba-device shows, read from hotspot.env, is that of the  *)
(* hotspot a switch put on the air, also when an earlier power cut left    *)
(* the file without one or the profile bare; for invocations one after the *)
(* other, as long as one profile bears the hotspot's name.                 *)
ShownPassphraseIsUsed ==
    (~ raced /\ Quiet /\ HotspotOn /\ OneHotspot) => wifi.psk = Passphrase
=============================================================================
