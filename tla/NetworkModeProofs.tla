------------------------- MODULE NetworkModeProofs -------------------------
(***************************************************************************)
(* Theorems about NetworkMode and NetworkModeRaces, for any set of home    *)
(* profiles, any number of administrators racing the device and the        *)
(* restore unit, any stored files, power cuts and lost links: the type     *)
(* invariant, by which the saved home connection is never the hotspot; the *)
(* script never brings up an open hotspot; each invocation comes nearer to *)
(* its end with each of its commands, whatever the others do; and of those *)
(* that follow one another, the saved mode and the passphrase shown are    *)
(* those in effect.                                                        *)
(***************************************************************************)
EXTENDS NetworkModeRaces, SequenceTheorems, TLAPS

EnvPoints == {"env", "env_create", "env_write", "env_read"}
NamedPoints == {"truncate_home", "write_home", "wait_home", "hotspot_down", "home_up"}
SecuredPoints == {"read_home", "truncate_home", "write_home", "list", "down_other",
                  "hotspot_up", "hotspot_wait"}

(* The invariant made inductive: a variable about to be read was set; an   *)
(* invocation past ensure_hotspot_profile finds a profile, secured if it   *)
(* is the only one; and so is the hotspot an invocation brought up.        *)
VariablesAreSet ==
    \A p \in Invokers : /\ run[p].pc \in EnvPoints => run[p].then # "off"
                        /\ run[p].pc \in NamedPoints => run[p].name \in Homes
Secured == hotspots # <<>> /\ (OneHotspot => hotspots[1] \in Passphrases)
SecuredFirst == \A p \in Invokers : run[p].pc \in SecuredPoints => Secured
WifiSecured == HotspotOn => hotspots # <<>> /\ (OneHotspot => wifi.psk \in Passphrases)
IInv == TypeOK /\ VariablesAreSet /\ SecuredFirst /\ WifiSecured

Names == Homes \cup {NONE}

(* Where an invocation may go next is well typed.                          *)
LEMMA StepType ==
    ASSUME run \in [Invokers -> RunSet], NEW p \in Invokers, NEW pc \in Points
    PROVE  /\ Step(p, pc) \in RunSet /\ Off \in RunSet
           /\ Step(p, pc).pc = pc
           /\ \A name \in Names : [Step(p, pc) EXCEPT !.name = name] \in RunSet
           /\ \A then \in {"profile", "saved_home", "shown"} :
                [Step(p, pc) EXCEPT !.then = then] \in RunSet
           /\ \A psk \in Passphrases : [Step(p, pc) EXCEPT !.psk = psk] \in RunSet
           /\ \A goal \in {"car", "home"} : [Step(p, pc) EXCEPT !.goal = goal] \in RunSet
           /\ [Step(p, pc) EXCEPT !.fallback = TRUE] \in RunSet
           /\ [run[p] EXCEPT !.pc = pc] \in RunSet
<1>1. NONE \in Names /\ "off" \in Points /\ "own" \in Passphrases
  BY DEF Names, Points, Passphrases
<1>2. RunSet = [pc : Points, then : {"off", "profile", "saved_home", "shown"},
                psk : Passphrases, name : Names, goal : {"car", "home"}, fallback : BOOLEAN]
  BY DEF RunSet, Names
<1>3. run[p] \in RunSet
  OBVIOUS
<1> HIDE DEF Names, Points, Passphrases
<1>4. Off \in RunSet
  BY <1>1, <1>2 DEF Off
<1>5. Step(p, pc) \in RunSet /\ Step(p, pc).pc = pc
  BY <1>1, <1>2, <1>3, <1>4 DEF Step, Off
<1> QED BY <1>2, <1>3, <1>4, <1>5

(* What every step does to the invocations: they keep their types and      *)
(* variables, and only p moves, to pc.                                     *)
RunOK == run \in [Invokers -> RunSet] /\ VariablesAreSet
Moves(p, pc) == /\ RunOK'
                /\ \A q \in Invokers : run'[q].pc = IF q = p THEN pc ELSE run[q].pc

(* One invocation is replaced by r.                                        *)
LEMMA Replaced ==
    ASSUME RunOK, NEW p \in Invokers, NEW r \in RunSet, run' = [run EXCEPT ![p] = r],
           r.pc \in EnvPoints => r.then # "off", r.pc \in NamedPoints => r.name \in Homes
    PROVE  Moves(p, r.pc)
  BY DEF RunOK, Moves, VariablesAreSet

(* The ways an invocation goes on: with no variable to be read later ...   *)
LEMMA GoesOn ==
    ASSUME RunOK, NEW p \in Invokers, NEW pc \in Points \ (EnvPoints \cup NamedPoints), Goto(p, pc)
    PROVE  Moves(p, pc)
<1>1. Step(p, pc) \in RunSet /\ Step(p, pc).pc = pc
  BY StepType DEF RunOK
<1> QED BY <1>1, Replaced DEF Goto

(* ... with the passphrase ...                                             *)
LEMMA GoesWithPassphrase ==
    ASSUME RunOK, NEW p \in Invokers, NEW pc \in Points \ (EnvPoints \cup NamedPoints),
           NEW psk \in Passphrases, run' = [run EXCEPT ![p] = [Step(p, pc) EXCEPT !.psk = psk]]
    PROVE  Moves(p, pc)
<1> DEFINE r == [Step(p, pc) EXCEPT !.psk = psk]
<1>1. r \in RunSet /\ r.pc = pc
  BY StepType DEF RunOK, Step, Off
<1>2. run' = [run EXCEPT ![p] = r]
  OBVIOUS
<1> HIDE DEF r
<1> QED BY <1>1, <1>2, Replaced

(* ... into ensure_hotspot_env, remembering where to return ...            *)
LEMMA GoesToEnv ==
    ASSUME RunOK, NEW p \in Invokers, NEW then \in {"profile", "saved_home", "shown"},
           GotoEnv(p, then)
    PROVE  Moves(p, "env")
<1>0. "env" \in Points
  BY DEF Points
<1> DEFINE r == [Step(p, "env") EXCEPT !.then = then]
<1>1. r \in RunSet /\ r.pc = "env" /\ r.then = then
  BY <1>0, StepType DEF RunOK, Step, Off
<1>2. run' = [run EXCEPT ![p] = r]
  BY DEF GotoEnv
<1>3. "env" \notin NamedPoints /\ then # "off"
  BY DEF NamedPoints
<1> HIDE DEF r
<1> QED BY <1>1, <1>2, <1>3, Replaced

(* ... with the name of a connection ...                                   *)
LEMMA GoesNaming ==
    ASSUME RunOK, NEW p \in Invokers, NEW pc \in Points \ EnvPoints, NEW name \in Names,
           pc \in NamedPoints => name \in Homes, GotoNaming(p, pc, name)
    PROVE  Moves(p, pc)
<1> DEFINE r == [Step(p, pc) EXCEPT !.name = name]
<1>1. r \in RunSet /\ r.pc = pc /\ r.name = name
  BY StepType DEF RunOK, Step, Off
<1>2. run' = [run EXCEPT ![p] = r]
  BY DEF GotoNaming
<1> HIDE DEF r
<1> QED BY <1>1, <1>2, Replaced

(* ... with the variables it has ...                                       *)
LEMMA GoesKeeping ==
    ASSUME RunOK, NEW p \in Invokers, NEW pc \in Points, GotoKeeping(p, pc),
           pc \in EnvPoints => run[p].pc \in EnvPoints,
           pc \in NamedPoints => run[p].pc \in NamedPoints
    PROVE  Moves(p, pc)
<1> DEFINE r == [run[p] EXCEPT !.pc = pc]
<1>1. r \in RunSet /\ r.pc = pc /\ r.then = run[p].then /\ r.name = run[p].name
  BY StepType DEF RunOK, RunSet
<1>2. run' = [run EXCEPT ![p] = r]
  BY DEF GotoKeeping
<1> HIDE DEF r
<1> QED BY <1>1, <1>2, Replaced DEF RunOK, VariablesAreSet

(* ... to write the mode ...                                               *)
LEMMA GoesToMode ==
    ASSUME RunOK, NEW p \in Invokers, NEW goal \in {"car", "home"}, GotoMode(p, goal)
    PROVE  Moves(p, "truncate_mode")
<1>0. "truncate_mode" \in Points
  BY DEF Points
<1> DEFINE r == [Step(p, "truncate_mode") EXCEPT !.goal = goal]
<1>1. r \in RunSet /\ r.pc = "truncate_mode"
  BY <1>0, StepType DEF RunOK, Step, Off
<1>2. run' = [run EXCEPT ![p] = r]
  BY DEF GotoMode
<1>3. "truncate_mode" \notin EnvPoints \cup NamedPoints
  BY DEF NamedPoints, EnvPoints
<1> HIDE DEF r
<1> QED BY <1>1, <1>2, <1>3, Replaced

(* ... to fall back to the hotspot ...                                     *)
LEMMA FallsBack ==
    ASSUME RunOK, NEW p \in Invokers, FallBack(p)
    PROVE  Moves(p, "wait")
<1>0. "wait" \in Points
  BY DEF Points
<1> DEFINE r == [Step(p, "wait") EXCEPT !.fallback = TRUE]
<1>1. r \in RunSet /\ r.pc = "wait"
  BY <1>0, StepType DEF RunOK, Step, Off
<1>2. run' = [run EXCEPT ![p] = r]
  BY DEF FallBack
<1>3. "wait" \notin EnvPoints \cup NamedPoints
  BY DEF NamedPoints, EnvPoints
<1> HIDE DEF r
<1> QED BY <1>1, <1>2, <1>3, Replaced

(* ... or to its end.                                                      *)
LEMMA Ends ==
    ASSUME RunOK, NEW p \in Invokers, run' = [run EXCEPT ![p] = Off]
    PROVE  Moves(p, "off")
<1>1. Off \in RunSet /\ Off.pc = "off"
  BY StepType DEF RunOK, Points, Off
<1>2. "off" \notin EnvPoints \cup NamedPoints
  BY DEF NamedPoints, EnvPoints
<1> QED BY <1>1, <1>2, Replaced

-----------------------------------------------------------------------------
(* An invocation's step keeps its types, moves nobody else, and passes     *)
(* ensure_hotspot_profile only with a secured profile.                     *)
Advances(p) ==
    /\ RunOK'
    /\ \A q \in Invokers \ {p} : run'[q].pc = run[q].pc
    /\ run'[p].pc \in SecuredPoints => run[p].pc \in SecuredPoints \/ Secured'

(* A move that enters no secured point from outside advances.              *)
LEMMA MoveAdvances ==
    ASSUME NEW p \in Invokers, NEW pc, Moves(p, pc),
           pc \in SecuredPoints => run[p].pc \in SecuredPoints \/ Secured'
    PROVE  Advances(p)
  BY DEF Moves, Advances

(* A profile added, or modified, is one more, or as many as before.        *)
LEMMA Added ==
    ASSUME hotspots \in Seq(Settings), hotspots' = Append(hotspots, "bare")
    PROVE  /\ hotspots' \in Seq(Settings) /\ hotspots' # <<>>
           /\ hotspots # <<>> => ~ OneHotspot'
<1>1. "bare" \in Settings
  BY DEF Settings
<1>2. hotspots' \in Seq(Settings) /\ Len(hotspots') = Len(hotspots) + 1 /\ Len(hotspots) \in Nat
  BY <1>1
<1>3. hotspots # <<>> => Len(hotspots) # 0
  OBVIOUS
<1> QED BY <1>2, <1>3 DEF OneHotspot
LEMMA Modified ==
    ASSUME hotspots \in Seq(Settings), NEW i \in DOMAIN hotspots, NEW psk \in Passphrases,
           hotspots' = [hotspots EXCEPT ![i] = psk]
    PROVE  /\ hotspots' \in Seq(Settings) /\ hotspots # <<>> /\ hotspots' # <<>>
           /\ OneHotspot' => OneHotspot /\ hotspots'[1] = psk
<1>1. psk \in Settings /\ i \in 1..Len(hotspots) /\ Len(hotspots) \in Nat
  BY DEF Settings
<1>2. /\ hotspots' \in Seq(Settings) /\ Len(hotspots') = Len(hotspots)
      /\ hotspots'[i] = psk
  BY <1>1, ExceptSeq
<1>3. hotspots # <<>> /\ hotspots' # <<>>
  BY <1>1, <1>2
<1>4. OneHotspot' => OneHotspot /\ i = 1
  BY <1>1, <1>2 DEF OneHotspot
<1> QED BY <1>2, <1>3, <1>4

(* What a command does to the profiles of the hotspot's name.              *)
LEMMA HotspotsStep ==
    ASSUME TypeOK, NEW p \in Invokers, Invocation(p)
    PROVE  /\ hotspots' \in Seq(Settings)
           /\ hotspots # <<>> => /\ hotspots' # <<>>
                                 /\ OneHotspot' => /\ OneHotspot
                                                   /\ hotspots'[1] \in {hotspots[1], run[p].psk}
<1>1. hotspots \in Seq(Settings) /\ run[p].psk \in Passphrases
  BY DEF TypeOK, RunSet
<1>2. \/ hotspots' = hotspots \/ hotspots' = Append(hotspots, "bare")
      \/ \E i \in DOMAIN hotspots : hotspots' = [hotspots EXCEPT ![i] = run[p].psk]
  BY DEF Invocation, Toggle, ToggleHome, ToggleMode, TestEnv, CreateEnv, WriteEnv, ReadEnv, WaitCar,
     ListProfiles, AddProfile, SecureProfile, ReadHome, TruncateHome, WriteHome, ListWifi,
     DownOther, HotspotUp, HotspotWait, RestoreHome, RestoreCat, RestoreWait, ReadSavedHome,
     CatHome, WaitHome, HotspotDown, HomeUp, HomeWait, TruncateMode, WriteMode
<1>3. CASE hotspots' = hotspots
  BY <1>1, <1>3 DEF OneHotspot
<1>4. CASE hotspots' = Append(hotspots, "bare")
  BY <1>1, <1>4, Added
<1>5. CASE \E i \in DOMAIN hotspots : hotspots' = [hotspots EXCEPT ![i] = run[p].psk]
  BY <1>1, <1>5, Modified
<1> QED BY <1>2, <1>3, <1>4, <1>5

(* Every step of an invocation advances it.                                *)
LEMMA InvocationAdvances ==
    ASSUME TypeOK, VariablesAreSet, NEW p \in Invokers, Invocation(p)
    PROVE  Advances(p)
<1>1. RunOK
  BY DEF TypeOK, RunOK
<1>2. /\ ActiveHome \in Names /\ (ActiveHome # NONE => ActiveHome \in Homes)
      /\ ListedHomes \subseteq Names /\ home \in Names
  BY DEF ActiveHome, ListedHomes, Names, TypeOK
<1>3. Passphrase \in Passphrases /\ run[p].psk \in Passphrases
  BY <1>1 DEF Passphrase, Passphrases, RunOK, RunSet
<1> DEFINE Free == Points \ (EnvPoints \cup NamedPoints \cup SecuredPoints)
<1>4. Free \subseteq Points \ (EnvPoints \cup NamedPoints) /\ Free \cap SecuredPoints = {}
  OBVIOUS
<1>5. {"off", "wait", "toggle_home", "toggle_mode", "profile", "add", "secure", "restore_home",
       "restore_cat", "restore_wait", "saved_home", "cat_home", "home_wait", "truncate_mode",
       "write_mode"} \subseteq Free
  BY DEF Points, EnvPoints, NamedPoints, SecuredPoints
<1>6. {"read_home", "list", "down_other", "hotspot_up", "hotspot_wait"}
         \subseteq (Points \ (EnvPoints \cup NamedPoints)) \cap SecuredPoints
  BY DEF Points, EnvPoints, NamedPoints, SecuredPoints
<1>7. {"truncate_home", "write_home"}
         \subseteq (Points \cap NamedPoints \cap SecuredPoints) \ EnvPoints
  BY DEF Points, EnvPoints, NamedPoints, SecuredPoints
<1>8. {"wait_home", "hotspot_down", "home_up"}
         \subseteq (Points \cap NamedPoints) \ (SecuredPoints \cup EnvPoints)
  BY DEF Points, EnvPoints, NamedPoints, SecuredPoints
<1>9. {"env", "env_create", "env_write", "env_read"} \subseteq (Points \cap EnvPoints) \ (SecuredPoints \cup NamedPoints)
  BY DEF Points, EnvPoints, NamedPoints, SecuredPoints
<1> HIDE DEF Free
<1>e. ASSUME run' = [run EXCEPT ![p] = Off] PROVE Advances(p)
  BY <1>1, <1>5, <1>e, <1>4, Ends, MoveAdvances
<1>g. ASSUME NEW pc \in Free, Goto(p, pc) PROVE Advances(p)
  BY <1>1, <1>4, <1>g, GoesOn, MoveAdvances
<1>v. ASSUME NEW then \in {"profile", "saved_home", "shown"}, GotoEnv(p, then) PROVE Advances(p)
  BY <1>1, <1>9, <1>v, GoesToEnv, MoveAdvances
<1>m. ASSUME NEW goal \in {"car", "home"}, GotoMode(p, goal) PROVE Advances(p)
  BY <1>1, <1>4, <1>5, <1>m, GoesToMode, MoveAdvances
<1>s. ASSUME NEW pc \in {"read_home", "list", "down_other", "hotspot_up", "hotspot_wait"}, Goto(p, pc),
             run[p].pc \in SecuredPoints \/ Secured'
      PROVE  Advances(p)
  BY <1>1, <1>6, <1>s, GoesOn, MoveAdvances
<1>10. CASE Toggle(p)
  BY <1>10, <1>5, <1>g, <1>v DEF Toggle
<1>11. CASE ToggleHome(p)
  BY <1>11, <1>5, <1>g DEF ToggleHome
<1>34. CASE ToggleMode(p)
  BY <1>34, <1>5, <1>g, <1>v DEF ToggleMode
<1>12. CASE WaitCar(p)
  BY <1>12, <1>e, <1>v DEF WaitCar, Fail, Exit
<1>13. CASE HotspotWait(p)
  BY <1>13, <1>5, <1>g, <1>m DEF HotspotWait
<1>14. CASE RestoreHome(p) \/ RestoreCat(p)
  BY <1>14, <1>5, <1>g, <1>e DEF RestoreHome, RestoreCat, RestoreTo, Fail, Exit
<1>15. CASE RestoreWait(p)
  BY <1>15, <1>e DEF RestoreWait, Fail, Exit
<1>16. CASE HomeWait(p)
  BY <1>16, <1>1, <1>4, <1>5, <1>m, FallsBack, MoveAdvances DEF HomeWait
<1>17. CASE SecureProfile(p)
  <2>1. CASE Fail(p)
    BY <2>1, <1>e DEF Fail, Exit
  <2>2. CASE /\ \E i \in DOMAIN hotspots : hotspots' = [hotspots EXCEPT ![i] = run[p].psk]
             /\ Goto(p, "read_home")
    <3>1. PICK i \in DOMAIN hotspots : hotspots' = [hotspots EXCEPT ![i] = run[p].psk]
      BY <2>2
    <3>2. hotspots \in Seq(Settings)
      BY DEF TypeOK
    <3>3. Secured'
      BY <1>3, <3>1, <3>2, Modified DEF Secured
    <3> QED BY <2>2, <3>3, <1>s
  <2> QED BY <1>17, <2>1, <2>2 DEF SecureProfile
<1>18. CASE WriteMode(p)
  BY <1>18, <1>e DEF WriteMode, Exit
<1>19. CASE DownOther(p)
  BY <1>19, <1>7, <1>s, <1>6 DEF DownOther, At
<1>20. CASE HotspotUp(p)
  BY <1>20, <1>s, <1>6 DEF HotspotUp, At
<1>21. CASE WriteHome(p)
  BY <1>21, <1>7, <1>s DEF WriteHome, At
<1>22. CASE HomeUp(p)
  BY <1>22, <1>5, <1>g DEF HomeUp
<1>23. CASE TruncateHome(p)
  <2>1. Moves(p, "write_home")
    BY <1>23, <1>1, <1>7, GoesKeeping DEF TruncateHome, At
  <2> QED BY <1>23, <2>1, <1>7, MoveAdvances DEF TruncateHome, At
<1>24. CASE HotspotDown(p)
  <2>1. Moves(p, "home_up")
    BY <1>24, <1>1, <1>8, GoesKeeping DEF HotspotDown, At
  <2> QED BY <1>24, <2>1, <1>8, MoveAdvances DEF HotspotDown, At
<1>25. CASE TruncateMode(p)
  <2>1. Moves(p, "write_mode")
    BY <1>25, <1>1, <1>4, <1>5, GoesKeeping DEF TruncateMode, At, NamedPoints, EnvPoints
  <2> QED BY <1>25, <2>1, <1>4, <1>5, MoveAdvances DEF TruncateMode, At, NamedPoints, EnvPoints
<1>26. CASE WriteEnv(p)
  <2>1. Moves(p, "env_read")
    BY <1>26, <1>1, <1>9, GoesKeeping DEF WriteEnv, At
  <2> QED BY <1>26, <2>1, <1>9, MoveAdvances DEF WriteEnv, At
<1>27. CASE CreateEnv(p)
  <2>1. Moves(p, "env_write")
    BY <1>27, <1>1, <1>9, GoesKeeping DEF CreateEnv, At
  <2> QED BY <2>1, <1>9, MoveAdvances
<1>35. CASE TestEnv(p)
  <2>1. PICK pc \in {"env_create", "env_read"} : GotoKeeping(p, pc)
    BY <1>35 DEF TestEnv
  <2>2. Moves(p, pc)
    BY <1>35, <2>1, <1>1, <1>9, GoesKeeping DEF TestEnv, At
  <2> QED BY <2>2, <1>9, MoveAdvances
<1>28. CASE WaitHome(p)
  <2>1. CASE GotoKeeping(p, "hotspot_down")
    <3>1. Moves(p, "hotspot_down")
      BY <1>28, <2>1, <1>1, <1>8, GoesKeeping DEF WaitHome, At
    <3> QED BY <3>1, <1>8, MoveAdvances
  <2> QED BY <1>28, <2>1, <1>e DEF WaitHome, Fail, Exit
<1>29. CASE AddProfile(p)
  <2>1. CASE GotoKeeping(p, "secure")
    <3>1. Moves(p, "secure")
      BY <2>1, <1>1, <1>4, <1>5, GoesKeeping
    <3> QED BY <3>1, <1>4, <1>5, MoveAdvances
  <2> QED BY <1>29, <2>1, <1>e DEF AddProfile, Fail, Exit
<1>36. CASE ListProfiles(p)
  <2>1. PICK pc \in {"add", "secure"} : GotoKeeping(p, pc)
    BY <1>36 DEF ListProfiles
  <2>2. Moves(p, pc)
    BY <2>1, <1>1, <1>4, <1>5, GoesKeeping
  <2> QED BY <2>2, <1>4, <1>5, MoveAdvances
<1>30. CASE ReadEnv(p)
  <2>1. CASE run' = [run EXCEPT ![p] = [Step(p, run[p].then) EXCEPT !.psk = Passphrase]]
             /\ run[p].then # "shown"
    <3>1. run[p].then \in {"profile", "saved_home"}
      BY <1>30, <1>1, <2>1 DEF ReadEnv, At, RunOK, RunSet, VariablesAreSet, EnvPoints
    <3>2. Moves(p, run[p].then)
      BY <1>1, <1>3, <1>4, <1>5, <2>1, <3>1, GoesWithPassphrase
    <3> QED BY <3>1, <3>2, <1>4, <1>5, MoveAdvances
  <2> QED BY <1>30, <2>1, <1>e DEF ReadEnv, Fail, Exit
<1>31. CASE ReadHome(p)
  <2>1. CASE ActiveHome # NONE
    <3>1. Moves(p, "truncate_home")
      BY <1>31, <2>1, <1>1, <1>2, <1>7, GoesNaming DEF ReadHome
    <3> QED BY <1>31, <3>1, MoveAdvances DEF ReadHome, At, SecuredPoints
  <2> QED BY <1>31, <2>1, <1>s DEF ReadHome, At, SecuredPoints
<1>32. CASE ListWifi(p)
  <2>1. Moves(p, "down_other")
    BY <1>32, <1>1, <1>2, <1>6, GoesNaming DEF ListWifi
  <2> QED BY <1>32, <2>1, MoveAdvances DEF ListWifi, At, SecuredPoints
<1>33. ASSUME NEW h \in Names, SwitchTo(p, h) PROVE Advances(p)
  <2>1. CASE h = NONE
    BY <1>1, <1>4, <1>5, <1>33, <2>1, FallsBack, MoveAdvances DEF SwitchTo
  <2>2. CASE h # NONE
    <3>1. Moves(p, "wait_home")
      BY <1>1, <1>8, <1>33, <2>2, GoesNaming DEF Names, SwitchTo
    <3> QED BY <3>1, <1>8, MoveAdvances
  <2> QED BY <2>1, <2>2
<1>37. CASE ReadSavedHome(p) \/ CatHome(p)
  BY <1>37, <1>2, <1>5, <1>g, <1>33 DEF ReadSavedHome, CatHome
<1> QED BY <1>10, <1>11, <1>12, <1>13, <1>14, <1>15, <1>16, <1>17, <1>18, <1>19, <1>20, <1>21,
           <1>22, <1>23, <1>24, <1>25, <1>26, <1>27, <1>28, <1>29, <1>30, <1>31, <1>32, <1>34,
           <1>35, <1>36, <1>37
        DEF Invocation

-----------------------------------------------------------------------------
(* The other variables *)

WifiSet == [profile : Profiles, at : {"activating", "up"}, by : Invokers \cup {NONE},
            psk : Settings \cup {"none"}] \cup {Down}
DataOK ==
    /\ wifi \in WifiSet
    /\ hotspots \in Seq(Settings)
    /\ mode \in {"absent", "torn", "car", "home"} /\ home \in Names
    /\ env \in {"absent", "torn", "own", "short"}
    /\ outcome \in Outcomes
    /\ cuts \in 0..MaxFaults /\ drops \in 0..MaxFaults /\ starts \in 0..MaxStarts

(* The type invariant, in the two parts proved separately.                 *)
LEMMA TypeParts == TypeOK <=> run \in [Invokers -> RunSet] /\ DataOK
  BY DEF TypeOK, DataOK, WifiSet, Names

(* What is asked of wlan0 is well typed.                                   *)
LEMMA UpType ==
    ASSUME NEW p \in Invokers, NEW profile \in Profiles, NEW psk \in Settings \cup {"none"},
           Up(p, profile, psk)
    PROVE  wifi' \in WifiSet
  BY DEF Up, WifiSet

(* What NetworkManager and the power supply do is well typed.              *)
LEMMA SupplyType ==
    ASSUME DataOK, ActivationEnds \/ AutoConnect \/ LoseHome \/ PowerCut
    PROVE  DataOK'
<1> USE BoundsAssumption DEF DataOK
<1>1. CASE ActivationEnds
  <2>1. wifi' \in WifiSet
    BY <1>1 DEF ActivationEnds, WifiSet, Down
  <2> QED BY <1>1, <2>1 DEF ActivationEnds, files, bounds
<1>2. CASE AutoConnect
  <2>1. wifi' \in WifiSet
    BY <1>2 DEF AutoConnect, WifiSet, Profiles, Settings
  <2> QED BY <1>2, <2>1 DEF AutoConnect, files, bounds
<1>3. CASE LoseHome
  <2>1. wifi' \in WifiSet
    BY <1>3 DEF LoseHome, WifiSet
  <2> QED BY <1>3, <2>1 DEF LoseHome, files
<1>4. CASE PowerCut
  <2>1. wifi' \in WifiSet
    BY <1>4 DEF PowerCut, WifiSet
  <2> QED BY <1>4, <2>1 DEF PowerCut, files, Outcomes
<1> QED BY <1>1, <1>2, <1>3, <1>4

(* So is what an invocation does.                                          *)
LEMMA InvocationType ==
    ASSUME TypeOK, VariablesAreSet, NEW p \in Invokers, Invocation(p)
    PROVE  DataOK'
<1>1. DataOK /\ run[p] \in RunSet
  BY TypeParts
<1>2. run[p].name \in Names /\ run[p].goal \in {"car", "home"} /\ run[p].psk \in Passphrases
  BY <1>1 DEF RunSet, Names
<1>3. ActiveHome \in Names /\ ListedHomes \subseteq Names /\ home \in Names
  BY DEF ActiveHome, ListedHomes, Names, TypeOK
<1>4. At(p, "home_up") => run[p].name \in Homes
  BY DEF VariablesAreSet, NamedPoints, At
<1>5. /\ \A how \in {"ok", "fallback"} : Exit(p, how) => outcome' \in Outcomes
      /\ Fail(p) => outcome' \in Outcomes
  BY DEF Fail, Exit, Outcomes
<1>6. Down \in WifiSet
  BY DEF WifiSet
<1> USE <1>1 DEF DataOK, files, bounds
<1>7. CASE Toggle(p) \/ ToggleHome(p) \/ ToggleMode(p) \/ TestEnv(p) \/ ListProfiles(p)
           \/ ReadHome(p) \/ ListWifi(p) \/ HotspotWait(p) \/ ReadSavedHome(p) \/ CatHome(p)
           \/ HomeWait(p)
  BY <1>7 DEF Toggle, ToggleHome, ToggleMode, TestEnv, ListProfiles, ReadHome, ListWifi,
              HotspotWait, ReadSavedHome, CatHome, HomeWait
<1>8. CASE CreateEnv(p) \/ WriteEnv(p)
  BY <1>8 DEF CreateEnv, WriteEnv
<1>9. CASE ReadEnv(p) \/ WaitCar(p) \/ WaitHome(p) \/ RestoreWait(p)
  BY <1>9, <1>5 DEF ReadEnv, WaitCar, WaitHome, RestoreWait
<1>10. CASE AddProfile(p) \/ SecureProfile(p)
  BY <1>10, <1>5, HotspotsStep DEF AddProfile, SecureProfile, Invocation
<1>11. CASE TruncateHome(p) \/ WriteHome(p)
  BY <1>11, <1>2 DEF TruncateHome, WriteHome, Names
<1>12. CASE DownOther(p) \/ HotspotDown(p)
  BY <1>12, <1>6 DEF DownOther, HotspotDown
<1>13. CASE HotspotUp(p)
  <2>1. PICK i \in DOMAIN hotspots : Up(p, Hotspot, hotspots[i])
    BY <1>13 DEF HotspotUp
  <2>2. hotspots[i] \in Settings
    BY <1>1
  <2>3. wifi' \in WifiSet
    BY <2>1, <2>2, UpType DEF Profiles
  <2> QED BY <1>13, <2>3 DEF HotspotUp
<1>16. CASE HomeUp(p)
  <2>1. wifi' \in WifiSet
    BY <1>16, <1>4, UpType DEF HomeUp, Profiles
  <2> QED BY <1>16, <2>1 DEF HomeUp
<1>14. CASE RestoreHome(p) \/ RestoreCat(p)
  <2>1. ASSUME NEW h \in Names, RestoreTo(p, h) PROVE wifi' \in WifiSet /\ outcome' \in Outcomes
    BY <2>1, <1>5, UpType DEF RestoreTo, Profiles, Names
  <2>2. wifi' \in WifiSet /\ outcome' \in Outcomes
    BY <1>14, <1>3, <2>1 DEF RestoreHome, RestoreCat
  <2> QED BY <1>14, <2>2 DEF RestoreHome, RestoreCat
<1>15. CASE TruncateMode(p) \/ WriteMode(p)
  BY <1>15, <1>2, <1>5 DEF TruncateMode, WriteMode
<1> QED BY <1>7, <1>8, <1>9, <1>10, <1>11, <1>12, <1>13, <1>14, <1>15, <1>16 DEF Invocation

(* Starting an invocation advances it and leaves the rest alone.           *)
LEMMA StartAdvances ==
    ASSUME TypeOK, VariablesAreSet, NEW p \in Invokers, Start(p) \/ (p = Boot /\ Restore)
    PROVE  Advances(p) /\ DataOK'
<1>1. RunOK /\ DataOK
  BY TypeParts DEF RunOK
<1>2. {"wait", "toggle"} \subseteq Points \ (EnvPoints \cup NamedPoints \cup SecuredPoints)
  BY DEF Points, EnvPoints, NamedPoints, SecuredPoints
<1>3. "env" \notin SecuredPoints
  BY DEF SecuredPoints
<1>4. \A pc \in {"wait", "toggle"} : Goto(p, pc) => Advances(p)
  BY <1>1, <1>2, GoesOn, MoveAdvances
<1>5. \A then \in {"saved_home", "shown"} : GotoEnv(p, then) => Advances(p)
  BY <1>1, <1>3, GoesToEnv, MoveAdvances
<1> QED BY <1>1, <1>4, <1>5, BoundsAssumption DEF Start, Restore, DataOK, Outcomes, files, bounds

-----------------------------------------------------------------------------
(* The hotspot is secured *)

(* A secured profile stays so, and wlan0 turns to the hotspot only when an *)
(* invocation past ensure_hotspot_profile asks for it.                     *)
LEMMA HotspotStep ==
    ASSUME TypeOK, SecuredFirst, WifiSecured, VariablesAreSet, NEW p \in Invokers, Invocation(p)
    PROVE  (Secured => Secured') /\ WifiSecured'
<1>1. run[p].psk \in Passphrases /\ hotspots \in Seq(Settings)
  BY DEF TypeOK, RunSet
<1>2. hotspots # <<>> => /\ hotspots' # <<>>
                         /\ OneHotspot' => /\ OneHotspot
                                           /\ hotspots'[1] \in {hotspots[1], run[p].psk}
  BY HotspotsStep
<1>3. Secured => Secured'
  BY <1>1, <1>2 DEF Secured
<1>4. CASE HotspotUp(p)
  <2>1. PICK i \in DOMAIN hotspots : Up(p, Hotspot, hotspots[i])
    BY <1>4 DEF HotspotUp
  <2>2. Secured /\ hotspots' = hotspots
    BY <1>4 DEF HotspotUp, At, SecuredFirst, SecuredPoints
  <2>3. OneHotspot => i = 1
    BY <1>1 DEF OneHotspot
  <2> QED BY <2>1, <2>2, <2>3 DEF WifiSecured, Secured, OneHotspot, Up
<1>5. CASE ~ HotspotUp(p)
  <2>1. Hotspot \notin Homes /\ NONE # Hotspot /\ Down.profile = NONE
    BY ProfilesAssumption DEF Profiles, Down
  <2>2. ASSUME NEW h \in Homes \cup {NONE}, RestoreTo(p, h) PROVE wifi' = wifi \/ wifi'.profile # Hotspot
    BY <2>1, <2>2 DEF RestoreTo, Up
  <2>6. wifi' = wifi \/ wifi'.profile # Hotspot
    <3>3. CASE RestoreHome(p) \/ RestoreCat(p)
      <4>1. home \in Homes \cup {NONE} /\ ListedHomes \subseteq Homes \cup {NONE}
        BY DEF ListedHomes, TypeOK
      <4>2. wifi' = wifi \/ \E h \in Homes \cup {NONE} : RestoreTo(p, h)
        BY <3>3, <4>1 DEF RestoreHome, RestoreCat
      <4> QED BY <2>2, <4>2
    <3>4. CASE HomeUp(p)
      <4>1. run[p].name \in Homes
        BY <3>4 DEF HomeUp, VariablesAreSet, NamedPoints, At
      <4>2. wifi'.profile = run[p].name
        BY <3>4 DEF HomeUp, Up
      <4> QED BY <2>1, <4>1, <4>2
    <3>5. CASE ~ (RestoreHome(p) \/ RestoreCat(p) \/ HomeUp(p))
      <4> HIDE DEF Down
      <4>1. wifi' \in {wifi, Down}
        BY <1>5, <3>5
         DEF Invocation, Toggle, ToggleHome, ToggleMode, TestEnv, CreateEnv, WriteEnv, ReadEnv,
           WaitCar, ListProfiles, AddProfile, SecureProfile, ReadHome, TruncateHome, WriteHome,
           ListWifi, DownOther, HotspotWait, RestoreWait, ReadSavedHome, CatHome, WaitHome,
           HotspotDown, HomeWait, TruncateMode, WriteMode
      <4> QED BY <2>1, <4>1
    <3> QED BY <3>3, <3>4, <3>5
  <2>7. HotspotOn' => HotspotOn /\ wifi' = wifi
    BY <2>6 DEF HotspotOn
  <2>8. ASSUME HotspotOn' PROVE hotspots' # <<>> /\ (OneHotspot' => wifi'.psk \in Passphrases)
    <3>1. HotspotOn /\ wifi' = wifi
      BY <2>7, <2>8
    <3>2. hotspots # <<>> /\ (OneHotspot => wifi.psk \in Passphrases)
      BY <3>1 DEF WifiSecured
    <3> QED BY <1>2, <3>1, <3>2
  <2>9. WifiSecured'
    BY <2>8 DEF WifiSecured
  <2> QED BY <1>3, <2>9
<1> QED BY <1>3, <1>4, <1>5

-----------------------------------------------------------------------------
(* The inductive invariant, and the theorems *)

(* The inductive invariant holds initially ...                             *)
LEMMA InitInvariant == Init => IInv
<1> SUFFICES ASSUME Init PROVE IInv
  OBVIOUS
<1> DEFINE Pending == [Off EXCEPT !.pc = "pending"]
<1>1. Pending \in RunSet /\ Off \in RunSet /\ Pending.pc = "pending" /\ Off.pc = "off"
  BY DEF Off, RunSet, Points, Passphrases
<1>2. run = [p \in Invokers |-> IF p = Boot THEN Pending ELSE Off]
  BY DEF Init
<1> HIDE DEF Pending
<1>3. run \in [Invokers -> RunSet]
  BY <1>1, <1>2
<1>4. \A p \in Invokers : run[p].pc \in {"pending", "off"}
  BY <1>1, <1>2
<1>5. DataOK
  <2>3. "own" \in Settings
    BY DEF Settings, Passphrases
  <2>1. <<>> \in Seq(Settings) /\ <<"own">> \in Seq(Settings)
    BY <2>3
  <2>2. /\ hotspots \in {<<>>, <<"own">>} /\ mode \in {"absent", "car", "home"}
        /\ home \in Names /\ env \in {"absent", "own", "short"}
    BY StoredAssumption DEF Init, Names
  <2>4. hotspots \in Seq(Settings)
    BY <2>1, <2>2
  <2>5. wifi \in WifiSet
    BY DEF Init, WifiSet, Down
  <2>6. cuts = 0 /\ drops = 0 /\ starts = 0 /\ outcome = "none"
    BY DEF Init
  <2> QED BY <2>2, <2>4, <2>5, <2>6, BoundsAssumption DEF DataOK, Outcomes
<1>6. VariablesAreSet /\ SecuredFirst
  BY <1>4 DEF VariablesAreSet, SecuredFirst, EnvPoints, NamedPoints, SecuredPoints
<1>7. WifiSecured
  BY ProfilesAssumption DEF Init, Down, WifiSecured, HotspotOn, Profiles
<1> QED BY <1>3, <1>5, <1>6, <1>7, TypeParts DEF IInv

(* ... and every step keeps it.                                            *)
LEMMA NextInvariant == IInv /\ [Next]_vars => IInv'
<1> SUFFICES ASSUME IInv, [Next]_vars PROVE IInv'
  OBVIOUS
<1> USE DEF IInv
<1>1. DataOK /\ RunOK
  BY TypeParts DEF RunOK
<1>2. ASSUME NEW p \in Invokers, Advances(p), DataOK', WifiSecured', Secured => Secured'
      PROVE  IInv'
  <2>1. TypeOK' /\ VariablesAreSet'
    BY <1>2, TypeParts DEF Advances, RunOK, TypeOK, DataOK, WifiSet, Names
  <2>2. SecuredFirst'
    BY <1>2 DEF SecuredFirst, Advances
  <2> QED BY <1>2, <2>1, <2>2
<1>3. ASSUME NEW p \in Invokers, Invocation(p) PROVE IInv'
  BY <1>2, <1>3, InvocationAdvances, InvocationType, HotspotStep
<1>4. ASSUME NEW p \in Invokers, Start(p) \/ (p = Boot /\ Restore) PROVE IInv'
  <2>1. UNCHANGED <<wifi, hotspots>>
    BY <1>4 DEF Start, Restore
  <2> QED BY <1>2, <1>4, <2>1, StartAdvances DEF WifiSecured, Secured, HotspotOn, OneHotspot
<1>5. CASE ActivationEnds \/ AutoConnect \/ LoseHome
  <2>1. DataOK'
    BY <1>1, <1>5, SupplyType
  <2>2. UNCHANGED <<run, hotspots>>
    BY <1>5 DEF ActivationEnds, AutoConnect, LoseHome
  <2>3. Down.by = NONE
    BY DEF Down
  <2>4. ASSUME ActivationEnds PROVE WifiSecured'
    <3>1. wifi \in [profile : Profiles, at : {"activating", "up"}, by : Invokers \cup {NONE},
                   psk : Settings \cup {"none"}]
      BY <2>4 DEF ActivationEnds, TypeOK, Down
    <3>2. wifi' = [wifi EXCEPT !.at = "up"] \/ wifi' = Down
      BY <2>4 DEF ActivationEnds
    <3>3. CASE wifi' = Down
      BY <2>3, <3>3 DEF WifiSecured, HotspotOn
    <3>4. CASE wifi' = [wifi EXCEPT !.at = "up"]
      <4>1. wifi'.profile = wifi.profile /\ wifi'.by = wifi.by /\ wifi'.psk = wifi.psk
        BY <3>1, <3>4
      <4> QED BY <2>2, <4>1 DEF WifiSecured, HotspotOn, OneHotspot
    <3> QED BY <3>2, <3>3, <3>4
  <2>5. ASSUME AutoConnect \/ LoseHome PROVE WifiSecured'
    <3>1. wifi'.by = NONE
      BY <2>3, <2>5 DEF AutoConnect, LoseHome
    <3> QED BY <3>1 DEF WifiSecured, HotspotOn
  <2> QED BY <1>5, <2>1, <2>2, <2>4, <2>5, TypeParts
          DEF VariablesAreSet, SecuredFirst, Secured, OneHotspot, TypeOK, DataOK, WifiSet, Names
<1>6. CASE PowerCut
  <2> DEFINE Pending == [Off EXCEPT !.pc = "pending"]
  <2>1. DataOK'
    BY <1>1, <1>6, SupplyType
  <2>2. Pending \in RunSet /\ Off \in RunSet /\ Pending.pc = "pending" /\ Off.pc = "off"
    BY DEF Off, RunSet, Points, Passphrases
  <2>3. run' = [p \in Invokers |-> IF p = Boot THEN Pending ELSE Off] /\ wifi' = Down
    BY <1>6 DEF PowerCut
  <2> HIDE DEF Pending
  <2>4. run' \in [Invokers -> RunSet] /\ \A p \in Invokers : run'[p].pc \in {"pending", "off"}
    BY <2>2, <2>3
  <2>5. VariablesAreSet' /\ SecuredFirst'
    BY <2>4 DEF VariablesAreSet, SecuredFirst, EnvPoints, NamedPoints, SecuredPoints
  <2>6. WifiSecured'
    BY <2>3 DEF Down, WifiSecured, HotspotOn
  <2> QED BY <2>1, <2>4, <2>5, <2>6 DEF TypeOK, DataOK, WifiSet, Names
<1>7. CASE UNCHANGED vars
  BY <1>7 DEF vars, files, bounds, TypeOK, VariablesAreSet, SecuredFirst, Secured, WifiSecured,
              HotspotOn, OneHotspot
<1>8. Boot \in Invokers
  BY DEF Invokers
<1> QED BY <1>3, <1>4, <1>5, <1>6, <1>7, <1>8 DEF Next

(* The inductive invariant holds of every behaviour.                       *)
THEOREM Invariant == Spec => []IInv
  BY InitInvariant, NextInvariant, PTL DEF Spec

(* Type correctness: in particular the file home-connection never names    *)
(* the hotspot (switch_car, active_home_connection).                       *)
THEOREM TypeCorrect == Spec => []TypeOK
<1>1. IInv => TypeOK
  BY DEF IInv
<1> QED BY <1>1, Invariant, PTL

(* The script brings the hotspot up only with a WPA2 passphrase, as long   *)
(* as one profile bears its name: whichever of list, add, modification and *)
(* activation of several invocations, power cuts and failures of nmcli     *)
(* follow one another (ensure_hotspot_profile, switch_car).                *)
THEOREM HotspotSecured == Spec => []HotspotIsSecured
<1>1. IInv => HotspotIsSecured
  BY DEF IInv, WifiSecured, HotspotIsSecured
<1> QED BY <1>1, Invariant, PTL

-----------------------------------------------------------------------------
(* Invocations, and what those that follow one another leave behind *)

(* An invocation goes on to pc: nobody else moves.                         *)
Went(p, pc) == run'[p].pc = pc /\ \A q \in Invokers \ {p} : run'[q] = run[q]

(* It also takes the passphrase along.                                     *)
GotoWith(p, pc, psk) ==
    run' = [run EXCEPT ![p] = [Step(p, pc) EXCEPT !.psk = psk]]

(* The variables an invocation takes along.                                *)
LEMMA Goes ==
    ASSUME run \in [Invokers -> RunSet], NEW p \in Invokers
    PROVE  /\ \A pc : Goto(p, pc) => Went(p, pc) /\ run'[p].then = "off"
           /\ \A pc, name : GotoNaming(p, pc, name) => Went(p, pc) /\ run'[p].then = "off"
           /\ \A then : GotoEnv(p, then) => Went(p, "env") /\ run'[p].then = then
           /\ \A goal : GotoMode(p, goal) => /\ Went(p, "truncate_mode")
                                             /\ run'[p].then = "off" /\ run'[p].goal = goal
           /\ FallBack(p) => Went(p, "wait") /\ run'[p].then = "off"
           /\ run' = [run EXCEPT ![p] = Off] => Went(p, "off") /\ run'[p].then = "off"
           /\ \A pc : GotoKeeping(p, pc) =>
                /\ Went(p, pc)
                /\ run'[p].then = run[p].then /\ run'[p].psk = run[p].psk
                /\ run'[p].goal = run[p].goal
           /\ \A pc, psk : GotoWith(p, pc, psk) =>
                Went(p, pc) /\ run'[p].then = "off" /\ run'[p].psk = psk
<1>1. \A r : run' = [run EXCEPT ![p] = r] =>
               run'[p] = r /\ \A q \in Invokers \ {p} : run'[q] = run[q]
  OBVIOUS
<1>2. \A pc, x :
        /\ Step(p, pc).pc = pc /\ Step(p, pc).then = "off"
        /\ LET r == [Step(p, pc) EXCEPT !.psk = x] IN r.pc = pc /\ r.then = "off" /\ r.psk = x
        /\ LET r == [Step(p, pc) EXCEPT !.name = x] IN r.pc = pc /\ r.then = "off"
        /\ LET r == [Step(p, pc) EXCEPT !.then = x] IN r.pc = pc /\ r.then = x
        /\ LET r == [Step(p, pc) EXCEPT !.goal = x] IN r.pc = pc /\ r.then = "off" /\ r.goal = x
        /\ LET r == [Step(p, pc) EXCEPT !.fallback = x] IN r.pc = pc /\ r.then = "off"
  BY DEF Step, Off
<1>3. Off.pc = "off" /\ Off.then = "off"
  BY DEF Off
<1>4. run[p] \in RunSet
  OBVIOUS
<1>5. \A pc : LET r == [run[p] EXCEPT !.pc = pc] IN
                /\ r.pc = pc /\ r.then = run[p].then /\ r.psk = run[p].psk /\ r.goal = run[p].goal
  BY <1>4 DEF RunSet
<1>6. \A pc : Goto(p, pc) => Went(p, pc) /\ run'[p].then = "off"
  BY <1>1, <1>2 DEF Goto, Went
<1>7. \A pc, name : GotoNaming(p, pc, name) => Went(p, pc) /\ run'[p].then = "off"
  BY <1>1, <1>2 DEF GotoNaming, Went
<1>8. \A then : GotoEnv(p, then) => Went(p, "env") /\ run'[p].then = then
  BY <1>1, <1>2 DEF GotoEnv, Went
<1>9. \A goal : GotoMode(p, goal) => /\ Went(p, "truncate_mode")
                                     /\ run'[p].then = "off" /\ run'[p].goal = goal
  BY <1>1, <1>2 DEF GotoMode, Went
<1>10. FallBack(p) => Went(p, "wait") /\ run'[p].then = "off"
  BY <1>1, <1>2 DEF FallBack, Went
<1>11. run' = [run EXCEPT ![p] = Off] => Went(p, "off") /\ run'[p].then = "off"
  BY <1>1, <1>3 DEF Went
<1>12. \A pc : GotoKeeping(p, pc) =>
                /\ Went(p, pc)
                /\ run'[p].then = run[p].then /\ run'[p].psk = run[p].psk
                /\ run'[p].goal = run[p].goal
  BY <1>1, <1>5 DEF GotoKeeping, Went
<1>13. \A pc, psk : GotoWith(p, pc, psk) =>
                Went(p, pc) /\ run'[p].then = "off" /\ run'[p].psk = psk
  BY <1>1, <1>2 DEF GotoWith, Went
<1> QED BY <1>6, <1>7, <1>8, <1>9, <1>10, <1>11, <1>12, <1>13

-----------------------------------------------------------------------------
(* Every invocation comes nearer to its end *)

(* Only in ensure_hotspot_env an invocation remembers where to return.     *)
ReturnsFromEnv == \A p \in Invokers : run[p].pc \notin EnvPoints => run[p].then = "off"


(* The stages of the script are numbers.                                   *)
LEMMA Stages ==
    /\ StageOf["pending"] = 0 /\ StageOf["toggle"] = 1 /\ StageOf["toggle_home"] = 2
    /\ StageOf["toggle_mode"] = 3 /\ StageOf["env"] = 4 /\ StageOf["env_create"] = 5
    /\ StageOf["env_write"] = 6 /\ StageOf["env_read"] = 7 /\ StageOf["saved_home"] = 8
    /\ StageOf["cat_home"] = 9 /\ StageOf["wait_home"] = 10 /\ StageOf["hotspot_down"] = 11
    /\ StageOf["home_up"] = 12 /\ StageOf["home_wait"] = 13 /\ StageOf["wait"] = 14
    /\ StageOf["profile"] = 19 /\ StageOf["add"] = 20 /\ StageOf["secure"] = 21
    /\ StageOf["read_home"] = 22 /\ StageOf["truncate_home"] = 23 /\ StageOf["write_home"] = 24
    /\ StageOf["list"] = 25 /\ StageOf["down_other"] = 26 /\ StageOf["hotspot_up"] = 27
    /\ StageOf["hotspot_wait"] = 28 /\ StageOf["restore_home"] = 29 /\ StageOf["restore_cat"] = 30
    /\ StageOf["restore_wait"] = 31 /\ StageOf["truncate_mode"] = 32 /\ StageOf["write_mode"] = 33
    /\ StageOf["off"] = 34
  BY DEF StageOf

(* What a command of p does to the invocations.                            *)
Nears(p) ==
    /\ Stage(run'[p]) > Stage(run[p]) /\ \A q \in Invokers \ {p} : run'[q] = run[q]
    /\ run'[p].pc \notin EnvPoints => run'[p].then = "off"

(* A command of p brings it nearer to its end.                             *)
LEMMA CommandNears ==
    ASSUME RunOK, ReturnsFromEnv, NEW p \in Invokers, Invocation(p)
    PROVE  Nears(p)
<1>1. run \in [Invokers -> RunSet]
  BY DEF RunOK
<1>2. run[p].pc \in EnvPoints => run[p].then \in {"profile", "saved_home", "shown"}
  BY <1>1 DEF RunOK, VariablesAreSet, RunSet
<1>3. run[p].pc \notin EnvPoints => run[p].then = "off"
  BY DEF ReturnsFromEnv
<1> USE <1>1, <1>3, Goes, Stages DEF At, Exit, Fail, Nears, Went, Stage, EnvPoints
<1>4. CASE Toggle(p)
  BY <1>4 DEF Toggle
<1>5. CASE ToggleHome(p)
  BY <1>5 DEF ToggleHome
<1>28. CASE ToggleMode(p)
  BY <1>28 DEF ToggleMode
<1>29. CASE TestEnv(p)
  BY <1>29 DEF TestEnv
<1>6. CASE CreateEnv(p)
  BY <1>6 DEF CreateEnv
<1>7. CASE WriteEnv(p)
  BY <1>7 DEF WriteEnv
<1>8. CASE ReadEnv(p)
  <2>1. run[p].pc = "env_read" /\ run[p].then \in {"profile", "saved_home", "shown"}
    BY <1>8, <1>2 DEF ReadEnv
  <2>2. CASE run' = [run EXCEPT ![p] = Off]
    <3>1. Went(p, "off") /\ run'[p].then = "off"
      BY <2>2
    <3> QED BY <2>1, <3>1
  <2>3. CASE /\ run[p].then # "shown"
             /\ run' = [run EXCEPT ![p] = [Step(p, run[p].then) EXCEPT !.psk = Passphrase]]
    <3>1. Went(p, run[p].then) /\ run'[p].then = "off"
      <4> DEFINE then == run[p].then
                 psk == Passphrase
      <4>1. GotoWith(p, then, psk)
        BY <2>3 DEF GotoWith
      <4> HIDE DEF then, psk
      <4>2. Went(p, then) /\ run'[p].then = "off"
        BY <4>1
      <4> QED BY <4>2 DEF then
    <3> QED BY <2>1, <2>3, <3>1
  <2> QED BY <1>8, <2>2, <2>3 DEF ReadEnv
<1>9. CASE WaitCar(p)
  BY <1>9 DEF WaitCar
<1>30. CASE ListProfiles(p)
  <2>1. run[p].pc = "profile" /\ (GotoKeeping(p, "add") \/ GotoKeeping(p, "secure"))
    BY <1>30 DEF ListProfiles
  <2>2. (Went(p, "add") \/ Went(p, "secure")) /\ run'[p].then = run[p].then
    BY <2>1
  <2> QED BY <2>1, <2>2
<1>10. CASE AddProfile(p)
  <2>1. run[p].pc = "add" /\ (GotoKeeping(p, "secure") \/ run' = [run EXCEPT ![p] = Off])
    BY <1>10 DEF AddProfile
  <2>2. \/ Went(p, "secure") /\ run'[p].then = run[p].then
        \/ Went(p, "off") /\ run'[p].then = "off"
    BY <2>1
  <2> QED BY <2>1, <2>2
<1>11. CASE SecureProfile(p)
  BY <1>11 DEF SecureProfile
<1>12. CASE ReadHome(p)
  BY <1>12 DEF ReadHome
<1>13. CASE TruncateHome(p)
  BY <1>13 DEF TruncateHome
<1>14. CASE WriteHome(p)
  BY <1>14 DEF WriteHome
<1>15. CASE ListWifi(p)
  BY <1>15 DEF ListWifi
<1>16. CASE DownOther(p)
  BY <1>16 DEF DownOther
<1>17. CASE HotspotUp(p)
  BY <1>17 DEF HotspotUp
<1>18. CASE HotspotWait(p)
  BY <1>18 DEF HotspotWait
<1>19. CASE RestoreHome(p)
  BY <1>19 DEF RestoreHome, RestoreTo
<1>31. CASE RestoreCat(p)
  BY <1>31 DEF RestoreCat, RestoreTo
<1>20. CASE RestoreWait(p)
  <2>1. run[p].pc = "restore_wait" /\ run' = [run EXCEPT ![p] = Off]
    BY <1>20 DEF RestoreWait
  <2>2. Went(p, "off") /\ run'[p].then = "off"
    BY <2>1
  <2> QED BY <2>1, <2>2
<1>21. CASE ReadSavedHome(p)
  BY <1>21 DEF ReadSavedHome, SwitchTo
<1>32. CASE CatHome(p)
  BY <1>32 DEF CatHome, SwitchTo
<1>22. CASE WaitHome(p)
  BY <1>22 DEF WaitHome
<1>23. CASE HotspotDown(p)
  BY <1>23 DEF HotspotDown
<1>24. CASE HomeUp(p)
  BY <1>24 DEF HomeUp
<1>25. CASE HomeWait(p)
  BY <1>25 DEF HomeWait
<1>26. CASE TruncateMode(p)
  BY <1>26 DEF TruncateMode
<1>27. CASE WriteMode(p)
  <2>1. run[p].pc = "write_mode" /\ run' = [run EXCEPT ![p] = Off]
    BY <1>27 DEF WriteMode
  <2>2. Went(p, "off") /\ run'[p].then = "off"
    BY <2>1
  <2> QED BY <2>1, <2>2
<1> QED BY <1>4, <1>5, <1>6, <1>7, <1>8, <1>9, <1>10, <1>11, <1>12, <1>13, <1>14, <1>15, <1>16,
           <1>17, <1>18, <1>19, <1>20, <1>21, <1>22, <1>23, <1>24, <1>25, <1>26, <1>27, <1>28,
           <1>29, <1>30, <1>31, <1>32
        DEF Invocation

(* So does the first one of the restore unit.                              *)
LEMMA RestoreNears == ASSUME RunOK, ReturnsFromEnv, Restore PROVE Nears(Boot)
<1>1. run \in [Invokers -> RunSet] /\ Boot \in Invokers
  BY DEF RunOK, Invokers
<1>2. At(Boot, "pending") /\ (Goto(Boot, "wait") \/ GotoEnv(Boot, "saved_home"))
  BY DEF Restore
<1>3. run[Boot].then = "off"
  BY <1>1, <1>2 DEF ReturnsFromEnv, EnvPoints, At
<1> QED BY <1>1, <1>2, <1>3, Goes, Stages DEF At, Nears, Went, Stage, EnvPoints

(* An invocation starts from off, and moves nobody else.                   *)
LEMMA StartMoves ==
    ASSUME RunOK, NEW p \in Invokers, Start(p)
    PROVE  /\ At(p, "off") /\ \A q \in Invokers \ {p} : run'[q] = run[q]
           /\ run'[p].pc \in {"wait", "env", "toggle"}
           /\ run'[p].pc = "env" <=> run'[p].then # "off"
           /\ run'[p].pc = "env" => run'[p].then \in {"saved_home", "shown"}
           /\ (outcome' = outcome /\ run'[p].then = "shown") \/ outcome' = "none"
<1>1. run \in [Invokers -> RunSet]
  BY DEF RunOK
<1> QED BY <1>1, Goes DEF Start, MayStart, Went

LEMMA EnvReturns ==
    ASSUME IInv, ReturnsFromEnv, [Next]_vars
    PROVE  ReturnsFromEnv'
<1>1. RunOK
  BY DEF IInv, TypeOK, RunOK
<1>2. ASSUME NEW p \in Invokers, Nears(p) PROVE ReturnsFromEnv'
  BY <1>2 DEF Nears, ReturnsFromEnv
<1>3. ASSUME NEW p \in Invokers, Start(p) PROVE ReturnsFromEnv'
  BY <1>1, <1>3, StartMoves DEF ReturnsFromEnv, EnvPoints
<1>4. CASE UNCHANGED run
  BY <1>4 DEF ReturnsFromEnv
<1>5. CASE PowerCut
  <2>1. \A p \in Invokers : run'[p] \in {Off, [Off EXCEPT !.pc = "pending"]}
    BY <1>5 DEF PowerCut
  <2>2. \A r \in {Off, [Off EXCEPT !.pc = "pending"]} : r.then = "off"
    BY DEF Off
  <2> QED BY <2>1, <2>2 DEF ReturnsFromEnv
<1>6. CASE UNCHANGED vars \/ ActivationEnds \/ AutoConnect \/ LoseHome
  BY <1>4, <1>6 DEF vars, ActivationEnds, AutoConnect, LoseHome
<1>7. Boot \in Invokers
  BY DEF Invokers
<1> QED BY <1>1, <1>2, <1>3, <1>5, <1>6, <1>7, CommandNears, RestoreNears DEF Next

LEMMA EnvReturnsFirst == Init => ReturnsFromEnv
<1> SUFFICES ASSUME Init PROVE ReturnsFromEnv
  OBVIOUS
<1>1. \A p \in Invokers : run[p] \in {Off, [Off EXCEPT !.pc = "pending"]}
  BY DEF Init
<1>2. \A r \in {Off, [Off EXCEPT !.pc = "pending"]} : r.then = "off"
  BY DEF Off
<1> QED BY <1>1, <1>2 DEF ReturnsFromEnv

(* Each command of an invocation brings it nearer to its end, and only the *)
(* end of the script or a power cut leaves it: the two fallbacks never go  *)
(* round in circles (switch_home, switch_car, ensure_hotspot_env).         *)
THEOREM InvocationsEnd == Spec => InvocationsAdvance
<1>1. IInv /\ ReturnsFromEnv /\ [Next]_vars =>
        [\A p \in Invokers :
           (~ At(p, "off") /\ run'[p] # run[p] /\ cuts' = cuts) => Stage(run'[p]) > Stage(run[p])]_vars
  <2> SUFFICES ASSUME IInv, ReturnsFromEnv, Next, NEW p \in Invokers,
                      ~ At(p, "off"), run'[p] # run[p], cuts' = cuts
               PROVE  Stage(run'[p]) > Stage(run[p])
    OBVIOUS
  <2>1. RunOK /\ Boot \in Invokers
    BY DEF IInv, TypeOK, RunOK, Invokers
  <2>2. ASSUME NEW q \in Invokers, Nears(q) PROVE Stage(run'[p]) > Stage(run[p])
    BY <2>2 DEF Nears
  <2>3. ASSUME NEW q \in Invokers, Start(q) PROVE FALSE
    BY <2>1, <2>3, StartMoves
  <2>4. ~ PowerCut
    <3>1. cuts \in Nat
      BY BoundsAssumption DEF IInv, TypeOK
    <3> QED BY <3>1 DEF PowerCut
  <2>5. ~ (ActivationEnds \/ AutoConnect \/ LoseHome)
    BY DEF ActivationEnds, AutoConnect, LoseHome
  <2> QED BY <2>1, <2>2, <2>3, <2>4, <2>5, CommandNears, RestoreNears DEF Next
<1> QED BY <1>1, Invariant, EnvReturnsFirst, EnvReturns, PTL DEF Spec, InvocationsAdvance

-----------------------------------------------------------------------------
(* Invocations one after the other *)

Ended == outcome \in {"ok", "fallback"}
PastEnv == {"env_read", "profile", "add", "secure"} \cup SecuredPoints

(* What the only invocation under way has established so far.              *)
AloneAgrees(p) ==
    /\ run[p].pc \in {"env_create", "env_write"} => ~ HotspotOn
    /\ run[p].pc \in PastEnv => env # "absent"
    /\ run[p].pc \in {"profile", "add", "secure"} => run[p].psk = Passphrase
    /\ run[p].pc \in SecuredPoints => (OneHotspot => hotspots[1] = Passphrase)
    /\ run[p].pc = "hotspot_wait" /\ wifi.by = p => wifi.profile = Hotspot
    /\ run[p].pc = "home_wait" /\ wifi.by = p => wifi.profile \in Homes
    /\ run[p].pc \in {"truncate_mode", "write_mode"} /\ drops = 0 =>
          wifi.at = "up" /\ run[p].goal = ModeOf(wifi.profile)
    /\ Ended => run[p].pc = "off" \/ (run[p].pc \in EnvPoints /\ run[p].then = "shown")

(* The file of the hotspot agrees with the hotspot on the air, and the     *)
(* saved mode with the switch that ended well.                             *)
FilesAgree ==
    /\ HotspotOn => env # "absent" /\ (OneHotspot => wifi.psk = Passphrase)
    /\ Ended /\ drops = 0 => wifi.at = "up" /\ mode = ModeOf(wifi.profile)

Overlaps == raced \/ \A p, q \in Invokers : p = q \/ At(p, "off") \/ At(q, "off")
Agrees == FilesAgree /\ \A p \in Invokers : AloneAgrees(p)
RacesInv == Overlaps /\ (~ raced => Agrees)

(* A command that leaves files and wlan0 alone, and ends no switch well.   *)
LEMMA FilesStay ==
    ASSUME FilesAgree, UNCHANGED <<wifi, mode, env>>, drops' = drops, Ended' => Ended,
           HotspotOn /\ OneHotspot' => OneHotspot
    PROVE  FilesAgree' /\ Passphrase' = Passphrase
  BY DEF FilesAgree, Passphrase, ModeOf, Ended, HotspotOn

(* A command of the only invocation under way.                             *)
LEMMA CommandAgrees ==
    ASSUME IInv, ReturnsFromEnv, NEW p \in Invokers, Invocation(p), FilesAgree, AloneAgrees(p)
    PROVE  FilesAgree' /\ AloneAgrees(p)'
<1>1. run \in [Invokers -> RunSet] /\ p # NONE
  BY InvokersAssumption DEF IInv, TypeOK
<1>2. run[p].pc \in EnvPoints => run[p].then \in {"profile", "saved_home", "shown"}
  BY <1>1 DEF IInv, VariablesAreSet, RunSet
<1>3. run[p].pc \notin EnvPoints \cup {"off"} => ~ Ended
  BY DEF AloneAgrees
<1>4. drops' = drops
  BY DEF Invocation, Toggle, ToggleHome, ToggleMode, TestEnv, CreateEnv, WriteEnv, ReadEnv, WaitCar,
     ListProfiles, AddProfile, SecureProfile, ReadHome, TruncateHome, WriteHome, ListWifi,
     DownOther, HotspotUp, HotspotWait, RestoreHome, RestoreCat, RestoreWait, ReadSavedHome,
     CatHome, WaitHome, HotspotDown, HomeUp, HomeWait, TruncateMode, WriteMode, bounds
<1>5. Fail(p) => Went(p, "off") /\ ~ Ended'
  BY <1>1, Goes DEF Fail, Exit, Ended
<1>8. /\ HotspotOn => hotspots # <<>>
      /\ hotspots # <<>> => hotspots' # <<>> /\ (OneHotspot' => OneHotspot)
      /\ run[p].pc \in SecuredPoints => hotspots # <<>>
  BY HotspotsStep DEF IInv, WifiSecured, SecuredFirst, Secured
<1>6. UNCHANGED outcome => Ended' = Ended
  BY DEF Ended
<1>7. Hotspot # NONE /\ Hotspot \notin Homes
  BY ProfilesAssumption DEF Profiles
<1>q. ASSUME NEW pc \in {"off", "toggle_home", "toggle_mode", "wait", "saved_home", "cat_home",
                         "wait_home", "hotspot_down", "home_up", "restore_home", "restore_cat",
                         "restore_wait"},
             Went(p, pc), ~ Ended'
      PROVE  AloneAgrees(p)'
  BY <1>q DEF Went, AloneAgrees, PastEnv, SecuredPoints, EnvPoints
<1>o. Went(p, "off") => AloneAgrees(p)'
  BY DEF Went, AloneAgrees, PastEnv, SecuredPoints, EnvPoints
<1>v. ASSUME Went(p, "env"), ~ Ended' \/ run'[p].then = "shown" PROVE AloneAgrees(p)'
  BY <1>v DEF Went, AloneAgrees, PastEnv, SecuredPoints, EnvPoints
<1>f. ASSUME UNCHANGED <<wifi, mode, env>>, Ended' => Ended
      PROVE  FilesAgree' /\ Passphrase' = Passphrase
  BY <1>f, <1>4, <1>8, FilesStay
<1>s. ASSUME NEW pc \in SecuredPoints \ {"hotspot_wait"}, Went(p, pc), ~ Ended',
             env' = env, env # "absent", OneHotspot' => hotspots'[1] = Passphrase
      PROVE  AloneAgrees(p)'
  BY <1>s DEF Went, AloneAgrees, PastEnv, SecuredPoints, EnvPoints, Passphrase
<1> USE DEF At, files, bounds
<1>10. CASE Toggle(p) \/ ToggleHome(p) \/ ToggleMode(p)
  <2>1. ~ Ended /\ UNCHANGED <<wifi, mode, env, outcome>>
    BY <1>10, <1>3 DEF Toggle, ToggleHome, ToggleMode, EnvPoints
  <2>2. Went(p, "env") \/ Went(p, "toggle_home") \/ Went(p, "toggle_mode") \/ Went(p, "wait")
    BY <1>10, <1>1, Goes DEF Toggle, ToggleHome, ToggleMode
  <2> QED BY <2>1, <2>2, <1>6, <1>f, <1>q, <1>v
<1>11. CASE CreateEnv(p)
  <2>1. UNCHANGED <<wifi, mode, hotspots, outcome>> /\ run'[p].then = run[p].then
        /\ (Ended' => run'[p].then = "shown") /\ ~ HotspotOn
    BY <1>11, <1>1, <1>6, Goes DEF CreateEnv, AloneAgrees
  <2>2. Went(p, "env_write")
    BY <1>11, <1>1, Goes DEF CreateEnv
  <2>3. AloneAgrees(p)'
    BY <2>1, <2>2 DEF AloneAgrees, Went, PastEnv, SecuredPoints, EnvPoints, HotspotOn
  <2> QED BY <2>1, <2>3, <1>4, <1>6 DEF FilesAgree, ModeOf, HotspotOn
<1>26. CASE TestEnv(p)
  <2>1. UNCHANGED <<wifi, mode, env, outcome>> /\ run'[p].then = run[p].then
        /\ (Ended' => run'[p].then = "shown")
    BY <1>26, <1>1, <1>6, Goes DEF TestEnv, AloneAgrees
  <2>2. (env = "absent" /\ Went(p, "env_create")) \/ (env # "absent" /\ Went(p, "env_read"))
    BY <1>26, <1>1, Goes DEF TestEnv
  <2>3. env = "absent" => ~ HotspotOn
    BY DEF FilesAgree
  <2>4. AloneAgrees(p)'
    BY <2>1, <2>2, <2>3 DEF AloneAgrees, Went, PastEnv, SecuredPoints, EnvPoints, HotspotOn
  <2> QED BY <2>1, <2>4, <1>6, <1>f
<1>12. CASE WriteEnv(p)
  <2>1. UNCHANGED <<wifi, mode, hotspots, outcome>> /\ run'[p].then = run[p].then
        /\ (Ended' => run'[p].then = "shown") /\ ~ HotspotOn
    BY <1>12, <1>1, <1>6, Goes DEF WriteEnv, AloneAgrees
  <2>2. Went(p, "env_read") /\ env' = "own"
    BY <1>12, <1>1, Goes DEF WriteEnv
  <2>3. AloneAgrees(p)'
    BY <2>1, <2>2 DEF AloneAgrees, Went, PastEnv, SecuredPoints, EnvPoints
  <2> QED BY <2>1, <2>3, <1>4, <1>6 DEF FilesAgree, ModeOf, HotspotOn
<1>13. CASE ReadEnv(p)
  <2>1. UNCHANGED <<wifi, mode, env>> /\ env # "absent"
    BY <1>13 DEF ReadEnv, AloneAgrees, PastEnv
  <2>2. CASE run' = [run EXCEPT ![p] = Off] /\ (UNCHANGED outcome \/ Fail(p))
    <3>1. Went(p, "off") /\ (outcome' = outcome \/ outcome' = "none")
      BY <2>2, <1>1, Goes DEF Fail, Exit
    <3>2. Ended' => Ended
      BY <3>1 DEF Ended
    <3> QED BY <2>1, <3>1, <3>2, <1>6, <1>f, <1>o
  <2>3. CASE /\ run[p].then # "shown" /\ UNCHANGED outcome
             /\ run' = [run EXCEPT ![p] = [Step(p, run[p].then) EXCEPT !.psk = Passphrase]]
    <3>1. ~ Ended' /\ run[p].then \in {"profile", "saved_home"}
      BY <1>13, <2>3, <1>2, <1>6 DEF ReadEnv, AloneAgrees, EnvPoints
    <3>2. Went(p, run[p].then) /\ run'[p].psk = Passphrase
      <4> DEFINE then == run[p].then
                 psk == Passphrase
      <4>1. GotoWith(p, then, psk)
        BY <2>3 DEF GotoWith
      <4> HIDE DEF then, psk
      <4>2. Went(p, then) /\ run'[p].psk = psk
        BY <1>1, <4>1, Goes
      <4> QED BY <4>2 DEF then, psk
    <3>3. FilesAgree' /\ Passphrase' = Passphrase
      BY <2>1, <3>1, <1>f
    <3>4. AloneAgrees(p)'
      BY <2>1, <3>1, <3>2, <3>3 DEF AloneAgrees, Went, PastEnv, SecuredPoints, EnvPoints
    <3> QED BY <3>3, <3>4
  <2> QED BY <1>13, <2>2, <2>3 DEF ReadEnv, Fail, Exit
<1>14. CASE WaitCar(p) \/ WaitHome(p) \/ RestoreWait(p) \/ ReadSavedHome(p) \/ CatHome(p)
  <2>1. ~ Ended' /\ UNCHANGED <<wifi, mode, env>>
    BY <1>14, <1>3, <1>5, <1>6 DEF WaitCar, WaitHome, RestoreWait, ReadSavedHome, CatHome, EnvPoints
  <2>2. \A h : SwitchTo(p, h) => Went(p, "wait") \/ Went(p, "wait_home")
    BY <1>1, Goes DEF SwitchTo
  <2>3. \/ Went(p, "env") \/ Went(p, "off") \/ Went(p, "hotspot_down") \/ Went(p, "cat_home")
        \/ Went(p, "wait") \/ Went(p, "wait_home")
    BY <1>14, <2>2, <1>1, <1>5, Goes DEF WaitCar, WaitHome, RestoreWait, ReadSavedHome, CatHome
  <2> QED BY <2>1, <2>3, <1>f, <1>q, <1>v
<1>15. CASE ListProfiles(p) \/ AddProfile(p)
  <2>1. ~ Ended' /\ UNCHANGED <<wifi, mode, env>> /\ env # "absent" /\ run[p].psk = Passphrase
    BY <1>15, <1>3, <1>5, <1>6 DEF ListProfiles, AddProfile, AloneAgrees, EnvPoints, PastEnv
  <2>2. FilesAgree' /\ Passphrase' = Passphrase
    BY <2>1, <1>f
  <2>3. Went(p, "off") \/ ((Went(p, "add") \/ Went(p, "secure")) /\ run'[p].psk = run[p].psk)
    BY <1>15, <1>1, <1>5, Goes DEF ListProfiles, AddProfile
  <2>4. CASE (Went(p, "add") \/ Went(p, "secure")) /\ run'[p].psk = run[p].psk
    BY <2>1, <2>2, <2>4 DEF AloneAgrees, Went, PastEnv, SecuredPoints, EnvPoints
  <2> QED BY <2>2, <2>3, <2>4, <1>o
<1>16. CASE SecureProfile(p)
  <2>1. ~ Ended' /\ UNCHANGED <<wifi, mode, env>> /\ env # "absent" /\ run[p].psk = Passphrase
    BY <1>16, <1>3, <1>5, <1>6 DEF SecureProfile, AloneAgrees, EnvPoints, PastEnv
  <2>2. ASSUME NEW i \in DOMAIN hotspots, hotspots' = [hotspots EXCEPT ![i] = run[p].psk]
        PROVE  OneHotspot' => hotspots'[1] = Passphrase
    <3>1. hotspots \in Seq(Settings) /\ run[p].psk \in Passphrases
      BY DEF IInv, TypeOK, RunSet
    <3> QED BY <2>1, <2>2, <3>1, Modified
  <2>3. Went(p, "off") \/ (Went(p, "read_home") /\ (OneHotspot' => hotspots'[1] = Passphrase))
    BY <1>16, <2>2, <1>1, <1>5, Goes DEF SecureProfile
  <2>4. "read_home" \in SecuredPoints \ {"hotspot_wait"}
    BY DEF SecuredPoints
  <2> QED BY <2>1, <2>3, <2>4, <1>f, <1>o, <1>s
<1>17. CASE ReadHome(p) \/ TruncateHome(p) \/ WriteHome(p) \/ ListWifi(p)
  <2>1. /\ ~ Ended' /\ UNCHANGED <<wifi, mode, env>>
        /\ env # "absent" /\ (OneHotspot' => hotspots'[1] = Passphrase)
    BY <1>17, <1>3, <1>6
       DEF ReadHome, TruncateHome, WriteHome, ListWifi, AloneAgrees, EnvPoints, PastEnv,
           SecuredPoints, OneHotspot
  <2>2. Went(p, "list") \/ Went(p, "truncate_home") \/ Went(p, "write_home") \/ Went(p, "down_other")
    BY <1>17, <1>1, Goes DEF ReadHome, TruncateHome, WriteHome, ListWifi
  <2>3. {"list", "truncate_home", "write_home", "down_other"} \subseteq SecuredPoints \ {"hotspot_wait"}
    BY DEF SecuredPoints
  <2> QED BY <2>1, <2>2, <2>3, <1>f, <1>s
<1>18. CASE DownOther(p)
  <2>1. /\ ~ Ended' /\ UNCHANGED <<mode, env, hotspots>> /\ (wifi' = wifi \/ wifi' = Down)
        /\ env # "absent" /\ (OneHotspot => hotspots[1] = Passphrase)
    BY <1>18, <1>3, <1>6 DEF DownOther, AloneAgrees, EnvPoints, PastEnv, SecuredPoints
  <2>2. Went(p, "hotspot_up") /\ "hotspot_up" \in SecuredPoints \ {"hotspot_wait"}
    BY <1>18, <1>1, Goes DEF DownOther, SecuredPoints
  <2>3. AloneAgrees(p)'
    BY <2>1, <2>2, <1>s DEF OneHotspot
  <2> QED BY <2>1, <2>3 DEF FilesAgree, Passphrase, HotspotOn, Down, OneHotspot
<1>19. CASE HotspotUp(p)
  <2>1. /\ ~ Ended' /\ UNCHANGED <<mode, env, hotspots>>
        /\ env # "absent" /\ (OneHotspot => hotspots[1] = Passphrase)
    BY <1>19, <1>3, <1>6 DEF HotspotUp, AloneAgrees, EnvPoints, PastEnv, SecuredPoints
  <2>2. PICK i \in DOMAIN hotspots : Up(p, Hotspot, hotspots[i])
    BY <1>19 DEF HotspotUp
  <2>3. OneHotspot => i = 1
    BY DEF IInv, TypeOK, OneHotspot
  <2>4. wifi'.profile = Hotspot /\ (OneHotspot => wifi'.psk = Passphrase)
    BY <2>1, <2>2, <2>3 DEF Up
  <2>5. Went(p, "hotspot_wait")
    BY <1>19, <1>1, Goes DEF HotspotUp
  <2>6. Passphrase' = Passphrase /\ OneHotspot' = OneHotspot /\ hotspots'[1] = hotspots[1]
    BY <2>1 DEF Passphrase, OneHotspot
  <2>7. AloneAgrees(p)'
    BY <2>1, <2>4, <2>5, <2>6 DEF AloneAgrees, Went, PastEnv, SecuredPoints, EnvPoints
  <2> QED BY <2>1, <2>4, <2>6, <2>7 DEF FilesAgree
<1>20. CASE HotspotWait(p) \/ HomeWait(p)
  <2>1. ~ Ended' /\ UNCHANGED <<wifi, mode, env>>
    BY <1>20, <1>3, <1>6 DEF HotspotWait, HomeWait, EnvPoints
  <2>2. CASE CameUp(p)
    <3>1. Went(p, "truncate_mode") /\ run'[p].goal = ModeOf(wifi.profile) /\ wifi.at = "up"
      BY <1>20, <2>2, <1>1, <1>7, Goes DEF HotspotWait, HomeWait, CameUp, AloneAgrees, ModeOf
    <3>2. AloneAgrees(p)'
      BY <2>1, <3>1 DEF AloneAgrees, Went, PastEnv, SecuredPoints, EnvPoints, ModeOf
    <3> QED BY <2>1, <3>2, <1>f
  <2>3. CASE ~ CameUp(p)
    <3>1. Went(p, "restore_home") \/ Went(p, "wait")
      BY <1>20, <2>3, <1>1, Goes DEF HotspotWait, HomeWait
    <3> QED BY <2>1, <3>1, <1>f, <1>q
  <2> QED BY <2>2, <2>3
<1>21. CASE RestoreHome(p) \/ RestoreCat(p)
  <2>1. ASSUME NEW h \in Names, RestoreTo(p, h)
        PROVE  /\ Went(p, "off") \/ Went(p, "restore_wait")
               /\ wifi' = wifi \/ wifi'.profile \in Homes
               /\ Ended' => Ended
    BY <2>1, <1>1, <1>5, <1>6, Goes DEF RestoreTo, Names, Up
  <2>2. home \in Names /\ ListedHomes \subseteq Names
    BY DEF ListedHomes, IInv, TypeOK, Names
  <2>3. ~ Ended /\ UNCHANGED <<mode, env, hotspots>>
    BY <1>21, <1>3 DEF RestoreHome, RestoreCat, EnvPoints
  <2>4. /\ Went(p, "off") \/ Went(p, "restore_wait") \/ Went(p, "restore_cat")
        /\ wifi' = wifi \/ wifi'.profile \in Homes
        /\ ~ Ended'
    BY <1>21, <1>1, <1>6, <2>1, <2>2, <2>3, Goes DEF RestoreHome, RestoreCat
  <2>5. AloneAgrees(p)'
    BY <2>4, <1>q
  <2> QED BY <2>3, <2>4, <2>5, <1>7 DEF FilesAgree, Passphrase, HotspotOn, OneHotspot
<1>22. CASE HotspotDown(p)
  <2>1. ~ Ended' /\ UNCHANGED <<mode, env, hotspots>> /\ Went(p, "home_up")
    BY <1>22, <1>1, <1>3, <1>6, Goes DEF HotspotDown, EnvPoints
  <2>2. wifi'.profile # Hotspot
    BY <1>22, <1>7 DEF HotspotDown, Down
  <2> QED BY <2>1, <2>2, <1>q DEF FilesAgree, HotspotOn
<1>23. CASE HomeUp(p)
  <2>1. ~ Ended' /\ UNCHANGED <<mode, env, hotspots>> /\ Went(p, "home_wait")
    BY <1>23, <1>1, <1>3, <1>6, Goes DEF HomeUp, EnvPoints
  <2>2. wifi'.profile \in Homes
    BY <1>23 DEF HomeUp, Up, IInv, VariablesAreSet, NamedPoints
  <2>3. AloneAgrees(p)'
    BY <2>1, <2>2 DEF AloneAgrees, Went, PastEnv, SecuredPoints, EnvPoints
  <2> QED BY <2>1, <2>2, <2>3, <1>7 DEF FilesAgree, HotspotOn
<1>24. CASE TruncateMode(p)
  <2>1. /\ ~ Ended' /\ UNCHANGED <<wifi, env, hotspots>>
        /\ Went(p, "write_mode") /\ run'[p].goal = run[p].goal
    BY <1>24, <1>1, <1>3, <1>6, Goes DEF TruncateMode, EnvPoints
  <2>2. drops = 0 => wifi.at = "up" /\ run[p].goal = ModeOf(wifi.profile)
    BY <1>24 DEF TruncateMode, AloneAgrees
  <2>3. AloneAgrees(p)'
    BY <2>1, <2>2, <1>4 DEF AloneAgrees, Went, PastEnv, SecuredPoints, EnvPoints, ModeOf
  <2> QED BY <2>1, <2>3 DEF FilesAgree, Passphrase, HotspotOn, OneHotspot
<1>25. CASE WriteMode(p)
  <2>1. UNCHANGED <<wifi, env, hotspots>> /\ Went(p, "off") /\ mode' = run[p].goal
    BY <1>25, <1>1, Goes DEF WriteMode, Exit
  <2>2. drops = 0 => wifi.at = "up" /\ run[p].goal = ModeOf(wifi.profile)
    BY <1>25 DEF WriteMode, AloneAgrees
  <2> QED BY <2>1, <2>2, <1>4, <1>o DEF FilesAgree, Passphrase, ModeOf, HotspotOn, OneHotspot
<1> QED BY <1>10, <1>11, <1>12, <1>13, <1>14, <1>15, <1>16, <1>17, <1>18, <1>19, <1>20, <1>21,
           <1>22, <1>23, <1>24, <1>25, <1>26 DEF Invocation

(* The first command of the restore unit.                                  *)
LEMMA RestoreAgrees ==
    ASSUME IInv, Restore, FilesAgree, AloneAgrees(Boot)
    PROVE  FilesAgree' /\ AloneAgrees(Boot)' /\ At(Boot, "pending")
<1>1. run \in [Invokers -> RunSet] /\ Boot \in Invokers
  BY DEF IInv, TypeOK, Invokers
<1>2. At(Boot, "pending") /\ UNCHANGED <<wifi, hotspots, mode, env, outcome, drops>>
  BY DEF Restore, files, bounds
<1>3. Went(Boot, "env") \/ Went(Boot, "wait")
  BY <1>1, Goes DEF Restore
<1>5. OneHotspot' = OneHotspot
  BY <1>2 DEF OneHotspot
<1>4. ~ Ended /\ ~ Ended'
  BY <1>2 DEF AloneAgrees, At, EnvPoints, Ended
<1> QED BY <1>2, <1>3, <1>4, <1>5, FilesStay DEF AloneAgrees, Went, PastEnv, SecuredPoints, EnvPoints

(* A new invocation is nothing to the files and to those under way.        *)
LEMMA StartAgrees ==
    ASSUME IInv, Agrees, NEW p \in Invokers, Start(p)
    PROVE  Agrees'
<1>1. RunOK
  BY DEF IInv, TypeOK, RunOK
<1>2. UNCHANGED <<wifi, hotspots, mode, env, drops>> /\ (Ended' => Ended /\ run'[p].then = "shown")
  BY <1>1, StartMoves DEF Start, Ended, files, bounds
<1>6. OneHotspot' = OneHotspot /\ HotspotOn' = HotspotOn
  BY <1>2 DEF OneHotspot, HotspotOn
<1>3. FilesAgree' /\ Passphrase' = Passphrase
  BY <1>2, <1>6, FilesStay DEF Agrees
<1>4. AloneAgrees(p)'
  BY <1>1, <1>2, StartMoves DEF AloneAgrees, PastEnv, SecuredPoints, EnvPoints
<1>5. ASSUME NEW q \in Invokers \ {p} PROVE AloneAgrees(q)'
  <2>1. run'[q] = run[q] /\ AloneAgrees(q)
    BY <1>1, StartMoves DEF Agrees
  <2> QED BY <1>2, <1>3, <1>6, <2>1 DEF AloneAgrees, ModeOf
<1> QED BY <1>3, <1>4, <1>5 DEF Agrees

(* NetworkManager moves wlan0 to a home connection or a bare profile, or   *)
(* takes it down; it takes down what is up only by losing it.              *)
LEMMA ManagerAgrees ==
    ASSUME IInv, Agrees, ActivationEnds \/ AutoConnect \/ LoseHome
    PROVE  Agrees'
<1>1. /\ UNCHANGED <<hotspots, mode, env, run, outcome>> /\ drops \in Nat /\ drops' \in Nat
      /\ drops' = 0 => drops = 0
  BY BoundsAssumption DEF IInv, TypeOK, ActivationEnds, AutoConnect, LoseHome, files, bounds
<1>2. Passphrase' = Passphrase /\ Ended' = Ended /\ OneHotspot' = OneHotspot
  BY <1>1 DEF Passphrase, Ended, OneHotspot
<1>3. NONE \notin Invokers /\ Down.by = NONE /\ Down.at = "down"
  BY InvokersAssumption DEF Down
<1>4. /\ HotspotOn' => HotspotOn /\ wifi'.psk = wifi.psk
      /\ \A p \in Invokers : wifi'.by = p => wifi.by = p /\ wifi'.profile = wifi.profile
      /\ (wifi.at = "up" /\ drops' = 0) => wifi' = wifi
  <2>1. CASE ActivationEnds
    <3>1. wifi \in [profile : Profiles, at : {"activating", "up"}, by : Invokers \cup {NONE},
                   psk : Settings \cup {"none"}]
      BY <2>1, <1>3 DEF ActivationEnds, IInv, TypeOK
    <3>2. \/ wifi' = Down
          \/ wifi'.profile = wifi.profile /\ wifi'.by = wifi.by /\ wifi'.psk = wifi.psk
      BY <2>1, <3>1 DEF ActivationEnds
    <3> QED BY <2>1, <3>2, <1>3 DEF ActivationEnds, HotspotOn
  <2>2. CASE AutoConnect
    <3>1. wifi = Down /\ wifi'.by = NONE
      BY <2>2 DEF AutoConnect
    <3> QED BY <3>1, <1>3 DEF HotspotOn
  <2>3. CASE LoseHome
    BY <2>3, <1>1, <1>3 DEF LoseHome, HotspotOn
  <2> QED BY <2>1, <2>2, <2>3
<1>5. FilesAgree'
  BY <1>1, <1>2, <1>4 DEF Agrees, FilesAgree, ModeOf
<1>6. ASSUME NEW p \in Invokers PROVE AloneAgrees(p)'
  <2>1. AloneAgrees(p)
    BY DEF Agrees
  <2> QED BY <1>1, <1>2, <1>4, <2>1 DEF AloneAgrees, ModeOf
<1> QED BY <1>5, <1>6 DEF Agrees

(* After power on only the restore unit runs, and it has done nothing.     *)
PoweredOn ==
    /\ wifi = Down /\ outcome = "none"
    /\ run = [p \in Invokers |-> IF p = Boot THEN [Off EXCEPT !.pc = "pending"] ELSE Off]
AtMostOne == \A p, q \in Invokers : p = q \/ At(p, "off") \/ At(q, "off")

(* After power on no invocation is under way but the restore unit's.       *)
LEMMA PowerOnAgrees == PoweredOn => AtMostOne /\ Agrees
<1> SUFFICES ASSUME PoweredOn PROVE AtMostOne /\ Agrees
  OBVIOUS
<1>1. [Off EXCEPT !.pc = "pending"].pc = "pending" /\ Off.pc = "off"
  BY DEF Off
<1>2. \A p \in Invokers : run[p].pc = IF p = Boot THEN "pending" ELSE "off"
  BY <1>1 DEF PoweredOn
<1>3. ~ Ended /\ ~ HotspotOn
  BY DEF PoweredOn, Ended, Down, HotspotOn
<1> QED BY <1>2, <1>3 DEF AtMostOne, At, Agrees, FilesAgree, AloneAgrees, PastEnv, SecuredPoints, EnvPoints

(* Two invocations are under way only after a race.                        *)
LEMMA OverlapsAreRaces ==
    ASSUME RacesNext, ~ PowerCut, ~ raced'
    PROVE  ~ raced /\ \A p, q \in Invokers : p = q \/ At(p, "off")' \/ At(q, "off")'
<1>1. cuts' = cuts
  BY DEF RacesNext, Next, ActivationEnds, AutoConnect, LoseHome, Restore, Start, Invocation, Toggle,
     ToggleHome, ToggleMode, TestEnv, CreateEnv, WriteEnv, ReadEnv, WaitCar, ListProfiles,
     AddProfile, SecureProfile, ReadHome, TruncateHome, WriteHome, ListWifi, DownOther, HotspotUp,
     HotspotWait, RestoreHome, RestoreCat, RestoreWait, ReadSavedHome, CatHome, WaitHome,
     HotspotDown, HomeUp, HomeWait, TruncateMode, WriteMode, bounds
<1> QED BY <1>1 DEF RacesNext, At

(* Every step keeps what the races rest on,                                *)
LEMMA RacesStep == IInv /\ ReturnsFromEnv /\ RacesInv /\ [RacesNext]_<<vars, raced>> => RacesInv'
<1> SUFFICES ASSUME IInv, ReturnsFromEnv, RacesInv, [RacesNext]_<<vars, raced>> PROVE RacesInv'
  OBVIOUS
<1>1. CASE UNCHANGED <<vars, raced>>
  BY <1>1 DEF vars, files, bounds, RacesInv, Overlaps, Agrees, FilesAgree, AloneAgrees, At, Ended,
              Passphrase, ModeOf, HotspotOn, OneHotspot
<1>2. CASE RacesNext /\ PowerCut
  <2>1. PoweredOn'
    BY <1>2 DEF PowerCut, PoweredOn
  <2>2. (PoweredOn => AtMostOne /\ Agrees)'
    BY PowerOnAgrees, PTL
  <2> QED BY <2>1, <2>2 DEF RacesInv, Overlaps, AtMostOne
<1>3. CASE RacesNext /\ ~ PowerCut
  <2> SUFFICES ASSUME ~ raced' PROVE RacesInv'
    BY DEF RacesInv, Overlaps
  <2>1. ~ raced /\ Overlaps'
    BY <1>3, OverlapsAreRaces DEF Overlaps
  <2>2. Agrees /\ \A p, q \in Invokers : p = q \/ At(p, "off") \/ At(q, "off")
    BY <2>1 DEF RacesInv, Overlaps
  <2>3. ASSUME NEW p \in Invokers, ~ At(p, "off"), Nears(p), FilesAgree', AloneAgrees(p)' PROVE Agrees'
    <3>1. ASSUME NEW q \in Invokers \ {p} PROVE AloneAgrees(q)'
      <4>1. run'[q].pc = "off"
        BY <2>2, <2>3 DEF Nears, At
      <4> QED BY <4>1 DEF AloneAgrees, PastEnv, SecuredPoints
    <3> QED BY <2>3, <3>1 DEF Agrees
  <2>4. RunOK /\ Boot \in Invokers
    BY DEF IInv, TypeOK, RunOK, Invokers
  <2>5. CASE \E p \in Invokers : Invocation(p)
    <3>1. PICK p \in Invokers : Invocation(p)
      BY <2>5
    <3>2. ~ At(p, "off")
      BY <3>1 DEF Invocation, Toggle, ToggleHome, ToggleMode, TestEnv, CreateEnv, WriteEnv, ReadEnv,
         WaitCar, ListProfiles, AddProfile, SecureProfile, ReadHome, TruncateHome, WriteHome,
         ListWifi, DownOther, HotspotUp, HotspotWait, RestoreHome, RestoreCat, RestoreWait,
         ReadSavedHome, CatHome, WaitHome, HotspotDown, HomeUp, HomeWait, TruncateMode, WriteMode,
         At
    <3>3. Nears(p)
      BY <2>4, <3>1, CommandNears
    <3>4. FilesAgree' /\ AloneAgrees(p)'
      BY <2>2, <3>1, CommandAgrees DEF Agrees
    <3> QED BY <2>1, <2>3, <3>2, <3>3, <3>4 DEF RacesInv
  <2>6. CASE \E p \in Invokers : Start(p)
    BY <2>1, <2>2, <2>6, StartAgrees DEF RacesInv
  <2>7. CASE ActivationEnds \/ AutoConnect \/ LoseHome
    BY <2>1, <2>2, <2>7, ManagerAgrees DEF RacesInv
  <2>8. CASE Restore
    <3>1. Nears(Boot)
      BY <2>4, <2>8, RestoreNears
    <3>2. FilesAgree' /\ AloneAgrees(Boot)' /\ At(Boot, "pending")
      BY <2>2, <2>4, <2>8, RestoreAgrees DEF Agrees
    <3> QED BY <2>1, <2>3, <2>4, <3>1, <3>2 DEF RacesInv, At
  <2> QED BY <1>3, <2>5, <2>6, <2>7, <2>8 DEF RacesNext, Next
<1> QED BY <1>1, <1>2, <1>3

(* which holds at first,                                                   *)
LEMMA RacesFirst == RacesInit => RacesInv
  BY PowerOnAgrees DEF RacesInit, Init, RacesInv, Overlaps, PoweredOn, AtMostOne

(* A history of races changes nothing.                                     *)
LEMMA RacesAreHistory == RacesSpec => Spec
<1>1. [RacesNext]_<<vars, raced>> => [Next]_vars
  BY DEF RacesNext
<1>2. RacesInit => Init
  BY DEF RacesInit
<1> QED BY <1>1, <1>2, PTL DEF RacesSpec, Spec

(* and so always.                                                          *)
LEMMA RacesInvariant == RacesSpec => []RacesInv
<1>1. Spec => []ReturnsFromEnv
  BY Invariant, EnvReturnsFirst, EnvReturns, PTL DEF Spec
<1> QED BY <1>1, Invariant, RacesAreHistory, RacesFirst, RacesStep, PTL DEF RacesSpec

(* The saved mode is the mode in effect after each switch that ends well,  *)
(* or falls back to the hotspot, unless invocations raced since power on   *)
(* (switch_home, switch_car, write_mode).                                  *)
THEOREM ModeRemembered == RacesSpec => []ModeIsRemembered
<1>1. RacesInv => ModeIsRemembered
  BY DEF RacesInv, Agrees, FilesAgree, Ended, ModeIsRemembered
<1> QED BY <1>1, RacesInvariant, PTL

(* The passphrase in hotspot.env is that of the hotspot a switch put on    *)
(* the air, as long as one profile bears its name, unless invocations      *)
(* raced since power on (ensure_hotspot_env, ensure_hotspot_profile).      *)
THEOREM PassphraseShown == RacesSpec => []ShownPassphraseIsUsed
<1>1. RacesInv => ShownPassphraseIsUsed
  BY DEF RacesInv, Agrees, FilesAgree, ShownPassphraseIsUsed
<1> QED BY <1>1, RacesInvariant, PTL
=============================================================================
