---------------------------- MODULE MCFrontEnds ----------------------------
(***************************************************************************)
(* Three instances of FrontEnds, one of which a behaviour follows:         *)
(*   alone     the terminal UI, one target, a user who only watches        *)
(*   shown     the terminal UI, two targets, a user who leaves; nothing is *)
(*             lost or late                                                *)
(*   command   the wake command, two targets or a connection that breaks   *)
(***************************************************************************)
EXTENDS FrontEnds

CONSTANTS h1, h2, o1

VARIABLE scenario

MCBackOff == <<2>>

ASSUME Constants == ActorAssumption /\ ServerAssumption /\ CommandAssumption

MCInit ==
    /\ FrontInit
    /\ scenario \in IF mode = "ui" THEN {"alone", "shown"} ELSE {"command"}
    /\ cli.hosts = {h1} \/ (mode = "command" /\ cli.hosts = {h1, h2})

Watches ==
    /\ InTui /\ (Stays \/ Ui \/ ServerInUi \/ ActorInUi \/ TickInUi)
    /\ wake' # NoWake => wake'.hosts = {h1}
LeavesToo ==
    /\ FrontNext /\ now' <= 3 /\ losses' = 0
    /\ now' # now => link.in = <<>> /\ link.out = <<>>
CommandRuns == FrontNext /\ (cli.hosts = Hosts => losses' = 0)
MCNext ==
    /\ UNCHANGED scenario
    /\ CASE scenario = "alone" -> Watches
         [] scenario = "shown" -> LeavesToo
         [] OTHER -> CommandRuns

MCSpec == MCInit /\ [][MCNext]_<<frontVars, scenario>> /\ FrontFairness
=============================================================================
