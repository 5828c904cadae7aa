-------------------------- MODULE CameraLifecycle --------------------------
(***************************************************************************)
(* Opening and releasing the camera (src/src/cam_still.cpp): initialize    *)
(* with createCamera, createEncoder and connectPorts, the clean-up of each *)
(* of them when an MMAL call fails, release, and the settings that         *)
(* commitParameters sends to the components.                               *)
(*                                                                         *)
(* An MMAL object is a pair of its kind and the number of the call of      *)
(* initialize that made it; a pointer to a component is that number, 0 is  *)
(* NULL.  A component that was given to mmal_component_destroy stays until *)
(* the pools with payload of its ports are gone (mmal_component.c).        *)
(*                                                                         *)
(* The settings differ in where they go: to the camera's control port, to  *)
(* the encoder's output port when there is one, into the format of that    *)
(* port, or, width and height, into the camera when it is created.  Of     *)
(* their values only this is kept: whether the component that was created  *)
(* last has been sent the latest one.                                      *)
(*                                                                         *)
(* One thread uses the object.  "lost" is a control point the code does    *)
(* not return from: a null or dangling pointer was used, or takePicture    *)
(* waits for a camera that was not set up.                                 *)
(***************************************************************************)
EXTENDS Integers, FiniteSets

CONSTANTS
  Faults,       \* initialisation steps that may fail
  MaxInits      \* bound: calls of initialize that do something

Steps == {"newCamera", "controlPort", "format", "cameraPool", "newEncoder",
          "setUpEncoder", "encoderPool", "connect", "enableConnection"}

ASSUME StepAssumption == Faults \subseteq Steps
ASSUME InitsAssumption == MaxInits \in Nat

Settings == {"control", "quality", "encoding", "size"}

VARIABLES
  pc,                   \* control point
  caller,               \* who called initialize
  inits,                \* calls of initialize that did something
  isInitialized,        \* _isInitialized
  camera,               \* camera
  encoder,              \* encoder
  encoder_connection,   \* encoder_connection
  encoder_pool,         \* encoder_pool
  outputPort,           \* the component of encoder_output_port
  live,                 \* objects that were created and not destroyed
  doomed,               \* components whose destruction is delayed
  wrong,                \* ghost: an object was destroyed that was not live
  stale,                \* settings whose latest value was not sent
  changedSettings,      \* changedSettings
  setSinceOpen,         \* ghost: settings that were set after the first open
  encoderMissing,       \* ghost: an encoder, or its output, was not there
  unconnected           \* ghost: connectPorts has failed

pointers == <<camera, encoder, encoder_connection, encoder_pool, outputPort>>
objectVars == <<live, doomed, wrong>>
settingVars == <<stale, changedSettings, setSinceOpen>>
ghosts == <<encoderMissing, unconnected>>
vars == <<pc, caller, inits, isInitialized, pointers, objectVars,
          settingVars, ghosts>>

NoPool == <<"none", 0>>

(* Constructor and setDefaults *)
Init ==
  /\ pc = "idle" /\ caller = "open" /\ inits = 0
  /\ isInitialized = FALSE
  /\ camera = 0 /\ encoder = 0 /\ encoder_connection = 0
  /\ encoder_pool = NoPool
  /\ outputPort = 0
  /\ live = {} /\ doomed = {} /\ wrong = FALSE
  /\ stale = Settings /\ changedSettings = TRUE
  /\ setSinceOpen = {}
  /\ encoderMissing = FALSE /\ unconnected = FALSE

Goto(from, to) == pc = from /\ pc' = to

(* open returns; takePicture goes on whatever initialize has returned. *)
Return == pc' = IF caller = "open" THEN "idle" ELSE "capture"

(* A pool with payload holds a reference to the port of its component.     *)
HasPool(object, objects) ==
  \/ object[1] = "camera" /\ <<"cameraPool", object[2]>> \in objects
  \/ object[1] = "encoder" /\ <<"encoderPool", object[2]>> \in objects

(* Mutant: a component is destroyed although a pool holds its port. *)
DestroyAtOnce(objects) ==
  /\ doomed' = {object \in doomed \cup objects :
                   HasPool(object, live \ objects)}
  /\ live' = live \ objects
  /\ wrong' = (wrong \/ ~ objects \subseteq live \ doomed)

(* mmal_connection_destroy, mmal_port_pool_destroy and                     *)
(* mmal_component_destroy: a component that a pool holds is only doomed,   *)
(* and goes with the last of its pools.                                    *)
Destroy(objects) ==
  LET kept == {object \in doomed \cup (objects \cap live) :
                 HasPool(object, live \ objects)}
  IN  /\ doomed' = kept
      /\ live' = live \ ((doomed \cup objects) \ kept)
      /\ wrong' = (wrong \/ ~ objects \subseteq live \ doomed)

(* What destroyCamera and destroyEncoder destroy.  encoder_pool is left as *)
(* it is.                                                                  *)
CameraObjects == IF camera = 0 THEN {} ELSE {<<"camera", camera>>}
EncoderObjects ==
  (IF encoder_pool = NoPool THEN {} ELSE {encoder_pool})
    \cup (IF encoder = 0 THEN {} ELSE {<<"encoder", encoder>>})

-----------------------------------------------------------------------------
(* The interface *)

(* A setter stores its argument. *)
SetParameter(kind) ==
  /\ pc = "idle"
  /\ stale' = stale \cup {kind}
  /\ changedSettings' = TRUE
  /\ setSinceOpen' = setSinceOpen \cup (IF inits = 0 THEN {} ELSE {kind})
  /\ UNCHANGED <<pc, caller, inits, isInitialized, pointers, objectVars,
                 ghosts>>

(* open(), or the call of initialize in takePicture.  The programs call    *)
(* open before they take pictures.                                         *)
Initialize(c) ==
  /\ ~ isInitialized /\ inits < MaxInits
  /\ c = "takePicture" => inits > 0
  /\ Goto("idle", "newCamera")
  /\ caller' = c
  /\ inits' = inits + 1
  /\ UNCHANGED <<isInitialized, pointers, objectVars, settingVars, ghosts>>

(* takePicture with an initialised camera *)
TakePicture ==
  /\ isInitialized
  /\ Goto("idle", "capture")
  /\ UNCHANGED <<caller, inits, isInitialized, pointers, objectVars,
                 settingVars, ghosts>>

(* Whether commitParameters can write to encoder_output_port, or skips it.  *)
PortUsable == outputPort = 0 \/ <<"encoder", outputPort>> \in live

(* commitParameters sends what belongs to the camera's control port, and   *)
(* writes to the encoder's output port unless that is NULL.  Either way    *)
(* nothing is left to be sent afterwards.                                  *)
Sent == {"control"} \cup IF outputPort = 0 THEN {}
                                          ELSE {"quality", "encoding"}

(* Mutant: the camera's settings stay to be committed until the encoder is *)
(* there.                                                                  *)
CommitAgain ==
  /\ changedSettings' = (changedSettings /\ outputPort = 0)
  /\ stale' = IF changedSettings THEN stale \ Sent ELSE stale
  /\ UNCHANGED setSinceOpen

CommitParameters ==
  /\ changedSettings' = FALSE
  /\ stale' = IF changedSettings THEN stale \ Sent ELSE stale
  /\ UNCHANGED setSinceOpen

(* Mutant: the settings are not sent again. *)
CaptureUncommitted ==
  /\ isInitialized
  /\ Goto("capture", "idle")
  /\ changedSettings' = FALSE
  /\ UNCHANGED <<caller, inits, isInitialized, pointers, objectVars, stale,
                 setSinceOpen, ghosts>>

(* The rest of takePicture (module StillCamera) begins with                *)
(* commitParameters.                                                       *)
Capture ==
  /\ isInitialized
  /\ Goto("capture", "idle")
  /\ CommitParameters
  /\ UNCHANGED <<caller, inits, isInitialized, pointers, objectVars, ghosts>>

(* takePicture does not look at the result of initialize. *)
CaptureUnready ==
  /\ ~ isInitialized
  /\ Goto("capture", "lost")
  /\ UNCHANGED <<caller, inits, isInitialized, pointers, objectVars,
                 settingVars, ghosts>>

(* Mutant: release can be called again. *)
ReleaseAgain ==
  /\ pc = "idle" /\ inits > 0
  /\ isInitialized' = FALSE
  /\ Destroy({<<"connection", encoder_connection>>}
               \cup EncoderObjects \cup CameraObjects)
  /\ camera' = 0 /\ encoder' = 0
  /\ UNCHANGED <<pc, caller, inits, encoder_connection, encoder_pool,
                 outputPort, settingVars, ghosts>>

(* release, also called by the destructor *)
Release ==
  /\ pc = "idle" /\ isInitialized
  /\ isInitialized' = FALSE
  /\ Destroy({<<"connection", encoder_connection>>}
               \cup EncoderObjects \cup CameraObjects)
  /\ camera' = 0 /\ encoder' = 0
  /\ UNCHANGED <<pc, caller, inits, encoder_connection, encoder_pool,
                 outputPort, settingVars, ghosts>>

-----------------------------------------------------------------------------
(* createCamera *)

(* A step of createCamera fails: destroyCamera, by createCamera and again  *)
(* by initialize, which then returns -1.                                   *)
CameraFails(step) ==
  /\ pc = step /\ step \in Faults
  /\ Destroy(CameraObjects)
  /\ camera' = 0
  /\ Return
  /\ UNCHANGED <<caller, inits, isInitialized, encoder, encoder_connection,
                 outputPort, settingVars, ghosts>>

NewCamera ==
  /\ Goto("newCamera", "controlPort")
  /\ camera' = inits
  /\ live' = live \cup {<<"camera", inits>>}
  /\ stale' = stale \cup {"control", "size"}
  /\ UNCHANGED <<caller, inits, isInitialized, encoder, encoder_connection,
                 encoder_pool, outputPort, doomed, wrong, changedSettings,
                 setSinceOpen, ghosts>>

(* mmal_component_create stores a null pointer when it fails, over the     *)
(* camera that a failed connectPorts has left.                             *)
NewCameraFails ==
  /\ pc = "newCamera" /\ "newCamera" \in Faults
  /\ camera' = 0
  /\ Return
  /\ UNCHANGED <<caller, inits, isInitialized, encoder, encoder_connection,
                 encoder_pool, outputPort, objectVars, settingVars, ghosts>>

(* mmal_port_enable(camera->control, ...) *)
EnableControlPort ==
  /\ Goto("controlPort", "commit")
  /\ UNCHANGED <<caller, inits, isInitialized, pointers, objectVars,
                 settingVars, ghosts>>

(* commitParameters in createCamera: the encoder's port, which is not      *)
(* there yet, may be the dangling one of an encoder that was destroyed.    *)
CommitToCamera ==
  /\ changedSettings => PortUsable
  /\ Goto("commit", "format")
  /\ CommitParameters
  /\ UNCHANGED <<caller, inits, isInitialized, pointers, objectVars, ghosts>>

CommitToDanglingPort ==
  /\ changedSettings /\ ~ PortUsable
  /\ Goto("commit", "lost")
  /\ UNCHANGED <<caller, inits, isInitialized, pointers, objectVars,
                 settingVars, ghosts>>

(* The format, with width and height, is committed and the component       *)
(* enabled.                                                                *)
EnableCamera ==
  /\ Goto("format", "cameraPool")
  /\ stale' = stale \ {"size"}
  /\ UNCHANGED <<caller, inits, isInitialized, pointers, objectVars,
                 changedSettings, setSinceOpen, ghosts>>

(* encoder_pool = mmal_port_pool_create(camera_still_port, ...) *)
CreateCameraPool ==
  /\ Goto("cameraPool", "newEncoder")
  /\ encoder_pool' = <<"cameraPool", inits>>
  /\ live' = live \cup {<<"cameraPool", inits>>}
  /\ UNCHANGED <<caller, inits, isInitialized, camera, encoder,
                 encoder_connection, outputPort, doomed, wrong, settingVars,
                 ghosts>>

CreateCamera ==
  \/ NewCamera
  \/ NewCameraFails
  \/ EnableControlPort
  \/ CommitToCamera
  \/ CommitToDanglingPort
  \/ EnableCamera
  \/ CreateCameraPool
  \/ \E step \in {"controlPort", "format"} :
       CameraFails(step) /\ UNCHANGED encoder_pool
  \/ CameraFails("cameraPool") /\ encoder_pool' = NoPool

-----------------------------------------------------------------------------
(* createEncoder *)

NewEncoder ==
  /\ Goto("newEncoder", "setUpEncoder")
  /\ encoder' = inits
  /\ live' = live \cup {<<"encoder", inits>>}
  /\ stale' = stale \cup {"quality", "encoding"}
  /\ UNCHANGED <<caller, inits, isInitialized, camera, encoder_connection,
                 encoder_pool, outputPort, doomed, wrong, changedSettings,
                 setSinceOpen, ghosts>>

(* The encoder cannot be created: destroyEncoder finds the camera's pool   *)
(* in encoder_pool and reads encoder->output[0] through a null pointer.    *)
NewEncoderFails ==
  /\ "newEncoder" \in Faults
  /\ Goto("newEncoder", "lost")
  /\ encoder' = 0
  /\ encoderMissing' = TRUE
  /\ UNCHANGED <<caller, inits, isInitialized, camera, encoder_connection,
                 encoder_pool, outputPort, objectVars, settingVars,
                 unconnected>>

(* The ports are noted, the format, with the encoding, is committed, the   *)
(* encoder enabled.                                                        *)
SetUpEncoder ==
  /\ Goto("setUpEncoder", "encoderPool")
  /\ outputPort' = encoder
  /\ stale' = stale \ {"encoding"}
  /\ UNCHANGED <<caller, inits, isInitialized, camera, encoder,
                 encoder_connection, encoder_pool, objectVars,
                 changedSettings, setSinceOpen, ghosts>>

(* An encoder without output ports: destroyEncoder reads output[0].        *)
EncoderWithoutOutput ==
  /\ "setUpEncoder" \in Faults
  /\ Goto("setUpEncoder", "lost")
  /\ encoderMissing' = TRUE
  /\ UNCHANGED <<caller, inits, isInitialized, pointers, objectVars,
                 settingVars, unconnected>>

(* Mutant: initialize leaves the camera alone. *)
CleanUpEncoderOnly(pool) ==
  /\ Destroy((IF pool = NoPool THEN {} ELSE {pool})
               \cup {<<"encoder", encoder>>})
  /\ encoder' = 0
  /\ encoder_pool' = pool
  /\ UNCHANGED camera

(* destroyEncoder by createEncoder, then destroyCamera by initialize *)
CleanUpEncoder(pool) ==
  /\ Destroy((IF pool = NoPool THEN {} ELSE {pool})
               \cup {<<"encoder", encoder>>} \cup CameraObjects)
  /\ encoder' = 0 /\ camera' = 0
  /\ encoder_pool' = pool

SetUpEncoderFails ==
  /\ pc = "setUpEncoder" /\ "setUpEncoder" \in Faults
  /\ \/ outputPort' = encoder
     \/ UNCHANGED outputPort       \* the encoder has no input ports
  /\ CleanUpEncoder(encoder_pool)
  /\ Return
  /\ UNCHANGED <<caller, inits, isInitialized, encoder_connection,
                 settingVars, ghosts>>

(* encoder_pool is assigned again: nothing points to the camera's pool.    *)
CreateEncoderPool ==
  /\ Goto("encoderPool", "connect")
  /\ encoder_pool' = <<"encoderPool", inits>>
  /\ live' = live \cup {<<"encoderPool", inits>>}
  /\ UNCHANGED <<caller, inits, isInitialized, camera, encoder,
                 encoder_connection, outputPort, doomed, wrong, settingVars,
                 ghosts>>

CreateEncoderPoolFails ==
  /\ pc = "encoderPool" /\ "encoderPool" \in Faults
  /\ CleanUpEncoder(NoPool)
  /\ Return
  /\ UNCHANGED <<caller, inits, isInitialized, encoder_connection,
                 outputPort, settingVars, ghosts>>

CreateEncoder ==
  \/ NewEncoder
  \/ NewEncoderFails
  \/ SetUpEncoder
  \/ EncoderWithoutOutput
  \/ SetUpEncoderFails
  \/ CreateEncoderPool
  \/ CreateEncoderPoolFails

-----------------------------------------------------------------------------
(* connectPorts and the end of initialize *)

CreateConnection ==
  /\ Goto("connect", "enableConnection")
  /\ encoder_connection' = inits
  /\ live' = live \cup {<<"connection", inits>>}
  /\ UNCHANGED <<caller, inits, isInitialized, camera, encoder, encoder_pool,
                 outputPort, doomed, wrong, settingVars, ghosts>>

(* initialize returns -1 and leaves camera and encoder as they are.  When  *)
(* it is mmal_port_connect that has failed, mmal_connection_create leaves  *)
(* a connection behind.                                                    *)
CreateConnectionFails ==
  /\ pc = "connect" /\ "connect" \in Faults
  /\ \/ UNCHANGED <<encoder_connection, live>>
     \/ /\ encoder_connection' = inits
        /\ live' = live \cup {<<"connection", inits>>}
  /\ unconnected' = TRUE
  /\ Return
  /\ UNCHANGED <<caller, inits, isInitialized, camera, encoder, encoder_pool,
                 outputPort, doomed, wrong, settingVars, encoderMissing>>

(* Mutant: initialize goes on to the end. *)
EnableConnectionIgnored ==
  /\ pc = "enableConnection" /\ "enableConnection" \in Faults
  /\ Destroy({<<"connection", encoder_connection>>})
  /\ unconnected' = TRUE
  /\ isInitialized' = TRUE
  /\ Return
  /\ UNCHANGED <<caller, inits, pointers, settingVars, encoderMissing>>

EnableConnectionFails ==
  /\ pc = "enableConnection" /\ "enableConnection" \in Faults
  /\ Destroy({<<"connection", encoder_connection>>})
  /\ unconnected' = TRUE
  /\ Return
  /\ UNCHANGED <<caller, inits, isInitialized, pointers, settingVars,
                 encoderMissing>>

(* mmal_connection_enable, _isInitialized = true *)
EnableConnection ==
  /\ pc = "enableConnection"
  /\ isInitialized' = TRUE
  /\ Return
  /\ UNCHANGED <<caller, inits, pointers, objectVars, settingVars, ghosts>>

Connect ==
  \/ CreateConnection
  \/ CreateConnectionFails
  \/ EnableConnection
  \/ EnableConnectionFails

-----------------------------------------------------------------------------

Next ==
  \/ \E kind \in Settings : SetParameter(kind)
  \/ \E c \in {"open", "takePicture"} : Initialize(c)
  \/ TakePicture
  \/ Capture
  \/ CaptureUnready
  \/ Release
  \/ CreateCamera
  \/ CreateEncoder
  \/ Connect

Spec == Init /\ [][Next]_vars

-----------------------------------------------------------------------------

Kinds == {"camera", "encoder", "cameraPool", "encoderPool", "connection"}

TypeOK ==
  /\ pc \in Steps \cup {"idle", "commit", "capture", "lost"}
  /\ caller \in {"open", "takePicture"}
  /\ inits \in Nat
  /\ isInitialized \in BOOLEAN /\ changedSettings \in BOOLEAN
  /\ camera \in Nat /\ encoder \in Nat
  /\ encoder_connection \in Nat /\ outputPort \in Nat
  /\ encoder_pool \in (Kinds \cup {"none"}) \X Nat
  /\ live \subseteq Kinds \X Nat
  /\ doomed \subseteq live /\ wrong \in BOOLEAN
  /\ stale \subseteq Settings
  /\ setSinceOpen \subseteq Settings
  /\ encoderMissing \in BOOLEAN /\ unconnected \in BOOLEAN

(* initialize reports success, and release relies on it, only when all of  *)
(* camera, encoder, pool and connection are there, all made by the same    *)
(* call, and the output port is the one of this encoder.                   *)
InitializedComplete ==
  isInitialized =>
    \E n \in 1 .. inits :
      /\ camera = n /\ encoder = n /\ encoder_connection = n
      /\ outputPort = n /\ encoder_pool = <<"encoderPool", n>>
      /\ {<<k, n>> : k \in Kinds} \subseteq live

(* No path through the clean-ups destroys an object twice, although        *)
(* encoder_pool and encoder_connection keep pointing to destroyed objects. *)
DestroyedOnce == ~ wrong

(* An initialize that fails before connectPorts, and release, leave no     *)
(* encoder, no connection and no pool of an encoder behind.  What they     *)
(* leave are pools of the camera, since encoder_pool was assigned again,   *)
(* and the cameras that were destroyed but are held by such a pool.        *)
CleanFailure ==
  pc = "idle" /\ ~ isInitialized /\ ~ unconnected
    => \A object \in live :
         \/ object[1] = "cameraPool"
         \/ object[1] = "camera" /\ object \in doomed /\ HasPool(object, live)

(* What a camera that was opened once lacks of the settings when nothing   *)
(* is left to be committed: the quality until a setter is called after the *)
(* opening, because commitParameters in createCamera finds no encoder and  *)
(* clears changedSettings all the same, and a width or height that was set *)
(* after the opening.                                                      *)
SettingsApplied ==
  inits = 1 /\ isInitialized /\ ~ changedSettings
    => stale = (IF setSinceOpen = {} THEN {"quality"} ELSE {})
                 \cup (setSinceOpen \cap {"size"})

(* Whatever fails in the first open, that open, every setter, takePicture  *)
(* with a camera that was opened, and release use no null and no dangling  *)
(* pointer, unless it is the encoder, or its output port, that is missing. *)
(* So does every further open() of a program that, like the server, calls  *)
(* no setter after its first open: the dangling encoder_output_port is     *)
(* only written to when a setter has raised changedSettings again.         *)
OpensAreSafe ==
  pc = "lost" =>
    \/ encoderMissing
    \/ inits > 1 /\ (caller = "takePicture" \/ setSinceOpen # {})

=============================================================================
