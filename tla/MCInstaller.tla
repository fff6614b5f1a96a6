---------------------------- MODULE MCInstaller ----------------------------
(* Instances of Installer and of Upkeep for TLC, each explored beside the   *)
(* other at rest: both are about one person's data directory.               *)
EXTENDS Installer, Upkeep

\* All is there and the person is away; passages.parquet would be there otherwise.
Away == /\ root = FALSE /\ jsonl = TRUE
        /\ stored = {"cbeta"} /\ made = Artefact /\ todo = AtRest /\ told = {} /\ whims = 0

MCInit == InstallerInit /\ (Away \/ UpkeepInit)
MCNext == \/ Away /\ InstallerNext /\ UNCHANGED upkeepVars
          \/ ~Away /\ UpkeepNext /\ UNCHANGED installerVars
\* The person, when not away, looks when at a loss, and puts off no advice for ever; a command that
\* nothing stops goes on.
PersonFairness == /\ WF_upkeepVars(~Away /\ LookAround) /\ SF_upkeepVars(~Away /\ FollowAdvice)
                  /\ WF_upkeepVars(DoStep)
MCSpec == /\ MCInit /\ [][MCNext]_<<installerVars, upkeepVars>>
          /\ InstallerFairness /\ PersonFairness

MCTypeOK == InstallerTypeOK /\ UpkeepTypeOK
=============================================================================
