-------------------------- MODULE MCRegistryHealth --------------------------
(***************************************************************************)
(* Instances of RegistryHealth and of HealthSchedule for TLC.  A behaviour *)
(* is one of the one or one of the other: subject says of which, and what  *)
(* belongs to the other stays as it is.                                    *)
(***************************************************************************)
EXTENDS RegistryHealth, HealthSchedule

VARIABLE subject

(* One answer for each verdict about an asset: nothing, its identifier,    *)
(* another agent's identifier.                                             *)
SomeAnswers == {NoAnswer} \cup [status : {"Online"}, id : AgentIds]

MCVars == <<vars, scheduleVars, subject>>

NothingScheduled ==
    /\ live = {} /\ invalid = {} /\ earlier = {} /\ checks = [e \in Entries |-> 1]
    /\ waited = {} /\ fresh = {} /\ pass = Idle

MCInit ==
    /\ Init
    /\ \/ subject = "check"    /\ NothingScheduled
       \/ subject = "schedule" /\ ScheduleInit

MCNext ==
    \/ subject = "check"    /\ Next         /\ UNCHANGED <<scheduleVars, subject>>
    \/ subject = "schedule" /\ ScheduleNext /\ UNCHANGED <<vars, subject>>

(* Fairness and ScheduleFairness, each for its own behaviours.             *)
MCFairness ==
    /\ WF_vars(subject = "check" /\ (SyncUpsert \/ SyncFails))
    /\ \A a \in Assets :
          SF_vars(/\ subject = "check"
                  /\ \E due \in SUBSET Assets : a \in due /\ HealthLoad(due))
    /\ \A v \in Verifiers : WF_vars(subject = "check" /\ VerifyStep(v))
    /\ WF_scheduleVars(subject = "schedule" /\ PassMoves)
    /\ \A e \in Entries : WF_scheduleVars(subject = "schedule" /\ WaitEnds(e))

MCSpec == MCInit /\ [][MCNext]_MCVars /\ MCFairness
=============================================================================
