-------------------------------- MODULE Cli --------------------------------
(***************************************************************************)
(* mba-cli (crates/mba-cli/src/main.rs) in front of the HTTP API: a        *)
(* command line becomes one request, and its answer an exit code.  mba-cli *)
(* waits for an answer without a timeout; its user may interrupt it.  The  *)
(* other clients, pages and devices, send any request themselves.          *)
(*                                                                         *)
(* What a command prints is left out, and so is screenshot, which asks     *)
(* mba-device (the snapshot client of Device).                             *)
(***************************************************************************)
EXTENDS HttpApi

CONSTANTS
    Shells,        \* the clients that run mba-cli
    CommandLines,  \* what they may type
    Asks           \* what the others may send

ASSUME ShellsAssumption == Shells \subseteq Clients
ASSUME AsksAssumption ==
    /\ \A ask \in Asks : ask.kind \in PathKinds => ask.raw \in Seq(Parts)
    /\ \A cmd \in CommandLines :
         /\ cmd.verb \in {"list", "enqueue", "enqueue-dir"} => cmd.raw \in Seq(Parts)
         /\ cmd.verb = "queue-move" => cmd.positions \in Seq(Nat) /\ cmd.to \in Nat \cup {NONE}
ASSUME NoneAssumption == NONE \notin Int /\ NONE \notin [name : {"enqueue"}, tracks : Seq(Seq(Names))]

VARIABLES
    exit,  \* the exit code of the command each shell has run last, or NONE
    meant  \* history: the command line behind each request
cliVars == <<vars, exit, meant>>

CliInit == /\ Init /\ exit = [c \in Shells |-> NONE]
           /\ meant = [id \in 1..MaxAsks |-> NONE]

Edit(name, id, position, to) ==
    [kind |-> "edit", name |-> name, id |-> id, position |-> position, to |-> to]
Missing == [kind |-> "missing"]

(* queue_target_body                                                       *)
TargetBody(name, id, position) ==
    IF id = NONE /\ position = NONE THEN Missing ELSE Edit(name, id, position, NONE)

(* queue_move_body: the positions given, --to last among them, are <from>  *)
(* <to>, or <to> alone with --id.                                          *)
MoveBody(id, to, positions) ==
    LET given == positions \o (IF to = NONE THEN <<>> ELSE <<to>>) IN
    IF Len(given) # (IF id = NONE THEN 2 ELSE 1) THEN Missing
    ELSE Edit("move", id, IF id = NONE THEN given[1] ELSE NONE, Last(given))

PathBody(kind, raw) == IF raw = <<>> THEN Missing ELSE [kind |-> kind, raw |-> raw]

(* The request a command line makes, or Missing when mba-cli refuses it.   *)
Sent(cmd) ==
    CASE cmd.verb = "seek" ->
            IF SeekCall(cmd.seconds) = NONE THEN Missing ELSE [kind |-> "seek", seconds |-> cmd.seconds]
      [] cmd.verb = "volume" ->
            IF cmd.level \notin 0..100 THEN Missing ELSE [kind |-> "volume", level |-> cmd.level]
      [] cmd.verb = "list" -> [kind |-> "list", raw |-> cmd.raw]
      [] cmd.verb = "enqueue" -> PathBody("file", cmd.raw)
      [] cmd.verb = "enqueue-dir" -> PathBody("directory", cmd.raw)
      [] cmd.verb = "queue-remove" -> TargetBody("remove", cmd.id, cmd.position)
      [] cmd.verb = "queue-next" -> TargetBody("play-next", cmd.id, cmd.position)
      [] cmd.verb = "queue-move" -> MoveBody(cmd.id, cmd.to, cmd.positions)
      [] cmd.verb = "status" -> [kind |-> "status"]
      [] OTHER -> [kind |-> "plain", name |-> cmd.verb]

Run(c, cmd) ==
    /\ request[c].at = "answered" => exit[c] # NONE
    /\ Sent(cmd) # Missing /\ Receive(c, Sent(cmd))
    /\ exit' = [exit EXCEPT ![c] = NONE] /\ meant' = [meant EXCEPT ![asks'] = cmd]

(* Nothing is sent: the arguments are wrong, or the server is not there.   *)
Exit1(c) ==
    /\ IsFree(c) /\ request[c].at = "answered" => exit[c] # NONE
    /\ exit' = [exit EXCEPT ![c] = 1] /\ request' = [request EXCEPT ![c] = NoRequest]
    /\ UNCHANGED <<tree, changes, asks, orphans, effects, seen, meant>>

Exit(c) ==
    /\ request[c].at = "answered" /\ exit[c] = NONE
    /\ exit' = [exit EXCEPT ![c] = IF request[c].status \in 200..299 THEN 0 ELSE 1]
    /\ UNCHANGED <<vars, meant>>

Serving == \E c \in Clients : (Handler(c) \/ Actor(c)) /\ UNCHANGED <<exit, meant>>

CliNext ==
    \/ \E c \in Shells : (\E cmd \in CommandLines : Run(c, cmd)) \/ Exit1(c) \/ Exit(c)
    \/ /\ \/ \E c \in Clients \ Shells, ask \in Asks : Receive(c, ask)
          \/ \E c \in Clients : ClientLeaves(c)
          \/ Environment
       /\ UNCHANGED <<exit, meant>>
    \/ Serving
CliSpec == CliInit /\ [][CliNext]_cliVars

(* The runtime polls the handlers and the actor answers (EveryCallReturns  *)
(* of MpdActorProps); the network helper need not end.                     *)
CliFairSpec == CliSpec /\ WF_cliVars(Serving)
=============================================================================
