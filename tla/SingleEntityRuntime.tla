------------------------ MODULE SingleEntityRuntime ------------------------
(***************************************************************************)
(* EntityRuntime serving one entity implements EntitySlot: however the     *)
(* directory's lookups, submissions, interpreters and tasks interleave,    *)
(* and whichever slot allocation a fact reaches, the entity goes through   *)
(* the steps of one linearized slot, unless the integration panics.        *)
(***************************************************************************)
EXTENDS EntityRuntime

ASSUME SingleEntity == \E n \in Entities : Entities = {n}

(* A call is known by its agent: callers, passivators and spawned tasks    *)
(* are different things.                                                   *)
ASSUME DistinctAgents ==
  /\ Dispatches \cap Passivations = {}
  /\ (Dispatches \cup Passivations) \cap TaskType = {}

Entity == CHOOSE n \in Entities : TRUE

CurrentSlot == IF map[Entity] = NoActivation THEN Inactive ELSE slots[map[Entity]]

QueuedEffects ==
  UNION {UNION {Range(batch) : batch \in Range(outputs[s])} : s \in ActivationIds}

Reporting ==
  {c.by : c \in {b \in calls : /\ b.at \in {"find", "submit"}
                              /\ b.by \notin Dispatches \cup Passivations}}

(* An effect is being carried out from its reduction to the submission of  *)
(* its report.  A failed attempt stays outstanding in EntitySlot, where it *)
(* may still succeed late; here it never does.                             *)
SlotTasks ==
  tasks \cup {fx \in QueuedEffects : fx.type \in Asynchronous}
    \cup Reporting \cup {StartActivation(id) : id \in failed}

Issued ==
  {d \in Dispatches :
     future[d] # "none" /\ answer[d] # "Exhausted"
       /\ ~ \E c \in calls : c.by = d /\ c.at = "submit" /\ c.event.trigger = "Dispatch"}

Accepted ==
  {d \in Dispatches :
     answer[d] = "Ok" /\ \A id \in ActivationIds : Deliver(id, d) \notin Reporting}

Returned ==
  {d \in Dispatches : answer[d] = "Refused"}
    \cup {fx.d : fx \in {gx \in QueuedEffects : gx.type = "Reject"}}

Cancelled ==
  Issued \ (Accepted \cup Returned \cup Range(CurrentSlot.waiters)
              \cup {t.d : t \in {u \in SlotTasks : u.type = "Deliver"}})

Granted == {id \in 1 .. lastId : StartActivation(id) \notin SlotTasks}

Retired ==
  {id \in Granted :
     /\ ~ (CurrentSlot.phase \in {"Active", "Draining"} /\ CurrentSlot.id = id)
     /\ \A mode \in Modes : Retire(id, mode) \notin SlotTasks}

EntitySlotOf ==
  INSTANCE EntitySlot
    WITH slot <- CurrentSlot, tasks <- SlotTasks,
         issued <- Issued, accepted <- Accepted, returned <- Returned,
         cancelled <- Cancelled, granted <- Granted, retired <- Retired

(* The directory implements the slot (dispatch, submit_or_inactive,        *)
(* interpret, remove_matching): every action of the runtime is a step of   *)
(* EntitySlot's specification or leaves the slot as it is.                 *)
ImplementsEntitySlot == EntitySlotOf!Spec
=============================================================================
