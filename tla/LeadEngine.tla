------------------------------- MODULE LeadEngine -------------------------------
(* The lead engine as a whole: everybody who writes the book and the tray,   *)
(* side by side. Each transaction of theirs is one step.                     *)
EXTENDS LeadIntake, LeadBatch, LeadHandoff

ASSUME LeadAssumption ==
  /\ IsFiniteSet(Listings)
  /\ SitesOf \in [Listings -> SUBSET Site] /\ ListedMail \in [Listings -> SUBSET Address]
  /\ Batches \subseteq Seq(Listings) /\ SearchResults \subseteq Seq(Listings)
  /\ IdOrder \in Seq(Listings) /\ OldRecords \subseteq OldRecord
  /\ MaxTokens \in Nat /\ BatchSize \in Nat
  /\ IsFiniteSet(Handoffs) /\ Window \in Nat /\ Ceiling \in Nat /\ Chunk \in Nat

leadVars == <<bookVars, intakeVars, batchVars, handoffVars>>

Searches == SearchNext /\ UNCHANGED <<batchVars, handoffVars>>
Rechecks == RecheckNext /\ UNCHANGED <<batchVars, handoffVars>>
Imports == ImportNext /\ UNCHANGED <<batchVars, handoffVars>>
RunsBatches == BatchNext /\ UNCHANGED <<intakeVars, handoffVars>>
HandsOff == HandoffNext /\ UNCHANGED <<intakeVars, batchVars>>
SenderWorks == SenderNext /\ UNCHANGED <<intakeVars, batchVars>>
Guards == GuardNext /\ UNCHANGED <<intakeVars, batchVars>>

LeadInit == BookInit /\ IntakeInit /\ BatchInit /\ HandoffInit
LeadNext == Searches \/ Rechecks \/ Imports \/ RunsBatches \/ HandsOff \/ SenderWorks \/ Guards
LeadSpec == LeadInit /\ [][LeadNext]_leadVars
===============================================================================
