---------------------------- MODULE VisionSensor ----------------------------
(***************************************************************************)
(* The vision sensor.  A part that arrives is photographed into the one    *)
(* image slot and inspected in the same call.  An image is abstracted to   *)
(* the verdict the classifier gives on it, or to "None" for an empty path; *)
(* Unknown and Invalid are both reported as a reject.                      *)
(***************************************************************************)
EXTENDS Watchdog, RandomEvents

CONSTANT PartIdLimit     \* part ids are unsigned integers below it (2^16)

ASSUME VisionAssumption == PartIdLimit \in Nat /\ PartIdLimit > 1

Verdicts == {"Unknown", "Valid", "Invalid"}
Images == Verdicts \cup {"None"}
PartIds == 0 .. PartIdLimit - 1

VARIABLES has_pending_image,    \* has_pending_image_
          pending_image,        \* pending_image_path_, as one of Images
          pending_part_id,      \* pending_part_id_
          input_part_counter,   \* input_part_counter_
          last_result           \* last_result_, without the score

visionVars == <<has_pending_image, pending_image, pending_part_id,
                input_part_counter, last_result>>

VisionInit ==
  /\ has_pending_image = FALSE
  /\ pending_image = "None"
  /\ pending_part_id = 0
  /\ input_part_counter = 0
  /\ last_result = [part_id |-> 0, verdict |-> "Unknown"]

VisionPublish(message) ==
  Publish("vision", <<VisionStatus(message), VisionStatus("VisionHeartbeat")>>)

VisionTick ==
  /\ WatchdogTick("vision", <<VisionStatus("VisionHeartbeat")>>, <<>>)
  /\ UNCHANGED <<visionVars, drawn>>

(* publishInspection: a verdict that is not Valid rejects the part.        *)
VerdictMessage(image) ==
  IF image = "Valid" THEN "PartAccepted" ELSE "RejectDetected"

(* loadNextImage: there is an image in the slot, and its path is not empty.*)
Loads(full, image) == full /\ image # "None"

(* Mutant: a completed inspection leaves the image in the slot too.        *)
RunInspectionCycleKeeping(full, image, id) ==
  /\ \/ /\ \/ Hit("VisionFault") /\ VisionPublish("VisionFault")
           \/ Hit("VisionTimeout") /\ VisionPublish("VisionTimeout")
           \/ ~Loads(full, image) /\ Miss /\ VisionPublish("VisionTimeout")
        /\ UNCHANGED last_result
     \/ /\ Loads(full, image)
        /\ Miss
        /\ last_result' = [part_id |-> id, verdict |-> image]
        /\ VisionPublish(VerdictMessage(image))
  /\ has_pending_image' = full
  /\ pending_image' = image
  /\ pending_part_id' = id

(* runInspectionCycle on the slot contents (full, image, id).  A failed    *)
(* inspection leaves the image in the slot; a completed one empties it.    *)
RunInspectionCycle(full, image, id) ==
  /\ \/ /\ \/ Hit("VisionFault") /\ VisionPublish("VisionFault")
           \/ Hit("VisionTimeout") /\ VisionPublish("VisionTimeout")
           \/ ~Loads(full, image) /\ Miss /\ VisionPublish("VisionTimeout")
        /\ has_pending_image' = full
        /\ UNCHANGED last_result
     \/ /\ Loads(full, image)
        /\ Miss
        /\ has_pending_image' = FALSE
        /\ last_result' = [part_id |-> id, verdict |-> image]
        /\ VisionPublish(VerdictMessage(image))
  /\ pending_image' = image
  /\ pending_part_id' = id

(* The part counter wraps around at its width and then skips 0.            *)
NextPartId(id) == IF (id + 1) % PartIdLimit = 0 THEN 1 ELSE (id + 1) % PartIdLimit

(* Mutant: the part gets the id from before the increment.                 *)
PartArrivesUncounted(image) ==
  /\ input_part_counter' = NextPartId(input_part_counter)
  /\ RunInspectionCycle(TRUE, image, input_part_counter)

PartArrives(image) ==
  /\ input_part_counter' = NextPartId(input_part_counter)
  /\ RunInspectionCycle(TRUE, image, NextPartId(input_part_counter))

(* queueImageInput, called from outside: only fills the slot.              *)
QueueImageInput(image, id) ==
  /\ has_pending_image' = TRUE
  /\ pending_image' = image
  /\ pending_part_id' = id
  /\ UNCHANGED <<input_part_counter, last_result, watchdogVars, drawn, tx>>

VisionShutdown ==
  /\ Latch("vision")
  /\ UNCHANGED <<heartbeat_seen, heartbeat_misses, tx>>

VisionServes == {"vision.ProcessTick", "vision.PublishHeartbeat",
                 "vision.InjectFault", "vision.InjectTimeout"}

VisionObey(f) ==
  \/ f = ConveyorStatus("PartArrived") /\ \E image \in Verdicts : PartArrives(image)
  \/ /\ f.id = "vision.ProcessTick"
     /\ RunInspectionCycle(has_pending_image, pending_image, pending_part_id)
     /\ UNCHANGED input_part_counter
  \/ /\ \/ /\ f.id = "vision.PublishHeartbeat"
           /\ Publish("vision", <<VisionStatus("VisionHeartbeat")>>)
        \/ /\ f.id = "vision.InjectFault"
           /\ Publish("vision", <<VisionStatus("VisionFault")>>)
        \/ /\ f.id = "vision.InjectTimeout"
           /\ Publish("vision", <<VisionStatus("VisionTimeout")>>)
     /\ UNCHANGED <<visionVars, drawn>>

VisionReceive(f) ==
  \/ /\ f = ControllerHeartbeat
     /\ HearController("vision")
     /\ UNCHANGED <<visionVars, drawn>>
  \/ /\ f.id = "vision.Shutdown"
     /\ VisionShutdown
     /\ UNCHANGED <<visionVars, drawn>>
  \/ /\ f = ConveyorStatus("PartArrived") \/ f.id \in VisionServes
     /\ ~shutdown_latched["vision"]
     /\ VisionObey(f)
  \/ /\ f # ControllerHeartbeat /\ f.id # "vision.Shutdown"
     /\ \/ shutdown_latched["vision"]
        \/ f # ConveyorStatus("PartArrived") /\ f.id \notin VisionServes
     /\ Quiet
     /\ UNCHANGED <<visionVars, drawn>>

=============================================================================
