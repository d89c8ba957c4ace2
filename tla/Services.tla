------------------------------- MODULE Services -------------------------------
(* The workers' queue and the services of one installation, as they run: all *)
(* at once. Each keeps tables, files or a mailbox of its own; where one starts *)
(* the other - a job runs the agent, a reply tells the owner - the model of    *)
(* the started one lets that happen at any time. So the conjunction of their   *)
(* specifications allows what the installation does: two may step together.    *)
EXTENDS JobQueue, AiRouter, SecondBrain, EmailOutbox, BrightReach, Notifications, LeadSources,
        EmailAlerts, GmailReader, JobAgent, RevenueLoop

ServicesSpec ==
  /\ Spec /\ RouterSpec /\ BrainSpec /\ OutboxSpec /\ ReachSpec /\ NoticesSpec /\ SourcesSpec
  /\ AlertsSpec /\ MailSpec /\ AgentSpec /\ RevenueSpec
-------------------------------------------------------------------------------
\* The tables, files and variables of all of them keep their types.
ServicesTypeOK ==
  /\ TypeOK /\ RouterTypeOK /\ BrainTypeOK /\ OutboxTypeOK /\ ReachTypeOK /\ NoticesTypeOK
  /\ SourcesTypeOK /\ AlertsTypeOK /\ MailTypeOK /\ AgentTypeOK /\ RevenueTypeOK
===============================================================================
