---------------------- MODULE CameraLifecycle_proofs ----------------------
(***************************************************************************)
(* Proofs about opening and releasing the camera, for every set of steps   *)
(* that may fail and any number of openings.  The inductive invariant says *)
(* for each control point which objects this call of initialize has made,  *)
(* that the pointers it will destroy them by point to them, and that       *)
(* nothing of an earlier call is left but pools of the camera and cameras  *)
(* that wait for such a pool.                                              *)
(***************************************************************************)
EXTENDS CameraLifecycle, TLAPS

(* The control points from which an object of this call is there. *)
AfterEncoderPool == {"connect", "enableConnection"}
AfterEncoder == {"setUpEncoder", "encoderPool"} \cup AfterEncoderPool
AfterCameraPool == {"newEncoder"} \cup AfterEncoder
AfterCamera == {"controlPort", "commit", "format", "cameraPool"}
                 \cup AfterCameraPool

Made(kind) ==
  \/ isInitialized
  \/ kind = "camera" /\ pc \in AfterCamera
  \/ kind = "cameraPool" /\ pc \in AfterCameraPool
  \/ kind = "encoder" /\ pc \in AfterEncoder
  \/ kind = "encoderPool" /\ pc \in AfterEncoderPool
  \/ kind = "connection" /\ pc = "enableConnection"

Working == pc \in Steps \cup {"commit"}

(* The pointers are those of this call. *)
Pointers ==
  /\ Made("camera") => camera = inits
  /\ Made("encoder") => encoder = inits
  /\ Made("connection") => encoder_connection = inits
  /\ isInitialized \/ pc \in AfterEncoderPool \cup {"encoderPool"}
       => outputPort = inits
  /\ isInitialized \/ pc \in AfterEncoderPool
       => encoder_pool = <<"encoderPool", inits>>
  /\ pc \in {"newEncoder", "setUpEncoder", "encoderPool"}
       => encoder_pool = <<"cameraPool", inits>>

(* What was made is live, and nothing else but pools of the camera and the *)
(* cameras they hold.                                                      *)
MadeIsLive == \A k \in Kinds : Made(k) => <<k, inits>> \in live

LiveIsMade ==
  ~ unconnected /\ pc # "lost" =>
    \A object \in live :
      \/ object[1] = "cameraPool"
      \/ Made(object[1]) /\ object[2] = inits
      \/ object[1] = "camera" /\ object \in doomed /\ HasPool(object, live)

(* A doomed component is held by its pool, and was not made by this call.  *)
DoomedIsHeld ==
  \A object \in doomed :
    /\ HasPool(object, live)
    /\ object[2] <= inits
    /\ Working \/ isInitialized => object[2] < inits

Objects == MadeIsLive /\ LiveIsMade /\ DoomedIsHeld /\ ~ wrong

Stage ==
  /\ Working => ~ isInitialized
  /\ Working \/ isInitialized => inits > 0
  /\ Pointers
  /\ Objects

IInv == TypeOK /\ Stage

(* Every variable keeps its type. *)
THEOREM LifecycleTypes == Spec => []TypeOK
<1>1. Init => TypeOK
  <2> SUFFICES ASSUME Init PROVE TypeOK
    OBVIOUS
  <2>1. encoder_pool \in (Kinds \cup {"none"}) \X Nat
    BY DEF Init, NoPool
  <2> QED BY <2>1 DEF Init, TypeOK
<1>2. TypeOK /\ [Next]_vars => TypeOK'
  <2> SUFFICES ASSUME TypeOK, [Next]_vars PROVE TypeOK'
    OBVIOUS
  <2> USE DEF TypeOK
  <2>1. ASSUME NEW kind \in Settings, SetParameter(kind)
        PROVE  TypeOK'
    BY <2>1 DEF SetParameter, pointers, objectVars, ghosts
  <2>2. ASSUME NEW c \in {"open", "takePicture"}, Initialize(c)
        PROVE  TypeOK'
    BY <2>2 DEF Initialize, Goto, pointers, objectVars, settingVars, ghosts,
                Steps
  <2>3. CASE TakePicture \/ CaptureUnready
    BY <2>3 DEF TakePicture, CaptureUnready, Goto, pointers, objectVars,
                settingVars, ghosts
  <2>4. CASE Capture
    BY <2>4 DEF Capture, CommitParameters, Goto, pointers, objectVars, ghosts
  <2>5. CASE Release
    BY <2>5 DEF Release, Destroy, pointers, objectVars, settingVars, ghosts
  <2>6. CASE CreateCamera
    <3>1. CASE NewCamera
      BY <3>1 DEF NewCamera, Goto, ghosts, Steps, Kinds, Settings
    <3>6. CASE NewCameraFails
      BY <3>6 DEF NewCameraFails, Return, settingVars, objectVars, ghosts
    <3>2. CASE EnableControlPort \/ CommitToDanglingPort \/ EnableCamera
      BY <3>2 DEF EnableControlPort, CommitToDanglingPort, EnableCamera, Goto,
                  pointers, objectVars, settingVars, ghosts, Steps
    <3>3. CASE CommitToCamera
      BY <3>3 DEF CommitToCamera, CommitParameters, Goto, pointers,
                  objectVars, ghosts, Steps
    <3>4. CASE CreateCameraPool
      BY <3>4 DEF CreateCameraPool, Goto, settingVars, ghosts, Steps, Kinds
    <3>5. ASSUME NEW step, CameraFails(step),
                 encoder_pool' = encoder_pool \/ encoder_pool' = NoPool
          PROVE  TypeOK'
      <4>1. encoder_pool' \in (Kinds \cup {"none"}) \X Nat
        BY <3>5 DEF NoPool
      <4> QED BY <3>5, <4>1 DEF CameraFails, Destroy, Return, settingVars,
                                ghosts
    <3> QED BY <2>6, <3>1, <3>2, <3>3, <3>4, <3>5, <3>6 DEF CreateCamera
  <2>7. CASE CreateEncoder
    <3>1. CASE NewEncoder
      BY <3>1 DEF NewEncoder, Goto, settingVars, ghosts, Steps, Kinds,
                  Settings
    <3>5. CASE NewEncoderFails
      BY <3>5 DEF NewEncoderFails, Goto, objectVars, settingVars
    <3>6. CASE EncoderWithoutOutput
      BY <3>6 DEF EncoderWithoutOutput, Goto, pointers, objectVars,
                  settingVars
    <3>2. CASE SetUpEncoder
      BY <3>2 DEF SetUpEncoder, Goto, objectVars, ghosts, Steps
    <3>3. CASE CreateEncoderPool
      BY <3>3 DEF CreateEncoderPool, Goto, settingVars, ghosts, Steps, Kinds
    <3>4. CASE SetUpEncoderFails \/ CreateEncoderPoolFails
      <4>1. encoder_pool' \in (Kinds \cup {"none"}) \X Nat
        BY <3>4 DEF SetUpEncoderFails, CreateEncoderPoolFails, CleanUpEncoder,
                    NoPool
      <4>2. doomed' \subseteq live' /\ live' \subseteq live
            /\ wrong' \in BOOLEAN
            /\ encoder' = 0 /\ camera' = 0 /\ outputPort' \in Nat
        BY <3>4 DEF SetUpEncoderFails, CreateEncoderPoolFails, CleanUpEncoder,
                    Destroy
      <4> QED BY <3>4, <4>1, <4>2
              DEF SetUpEncoderFails, CreateEncoderPoolFails, Return,
                  settingVars, ghosts
    <3> QED BY <2>7, <3>1, <3>2, <3>3, <3>4, <3>5, <3>6 DEF CreateEncoder
  <2>8. CASE Connect
    <3>1. CASE CreateConnection
      BY <3>1 DEF CreateConnection, Goto, settingVars, ghosts, Steps, Kinds
    <3>3. CASE CreateConnectionFails
      <4>1. live' \subseteq Kinds \X Nat /\ encoder_connection' \in Nat
        BY <3>3 DEF CreateConnectionFails, Kinds
      <4> QED BY <3>3, <4>1 DEF CreateConnectionFails, Return, settingVars
    <3>2. CASE EnableConnection \/ EnableConnectionFails
      BY <3>2 DEF EnableConnection, EnableConnectionFails, Destroy, Return,
                  pointers, objectVars, settingVars, ghosts
    <3> QED BY <2>8, <3>1, <3>2, <3>3 DEF Connect
  <2>9. CASE UNCHANGED vars
    BY <2>9 DEF vars, pointers, objectVars, settingVars, ghosts
  <2> QED BY <2>1, <2>2, <2>3, <2>4, <2>5, <2>6, <2>7, <2>8, <2>9 DEF Next
<1> QED BY <1>1, <1>2, PTL DEF Spec

(* A step that makes and destroys nothing. *)
LEMMA KeepObjects ==
  ASSUME TypeOK, Stage, objectVars' = objectVars, inits' = inits,
         \A k \in Kinds : Made(k)' => Made(k),
         ~ unconnected' /\ pc' # "lost" =>
           /\ ~ unconnected /\ pc # "lost"
           /\ \A k \in Kinds : Made(k) => Made(k)',
         Working' \/ isInitialized' => Working \/ isInitialized
  PROVE  Objects'
<1>1. live' = live /\ doomed' = doomed /\ wrong' = wrong
  BY DEF objectVars
<1>2. MadeIsLive'
  BY <1>1 DEF Stage, Objects, MadeIsLive
<1>3. LiveIsMade'
  <2> SUFFICES ASSUME ~ unconnected', pc' # "lost", NEW object \in live
               PROVE  \/ object[1] = "cameraPool"
                      \/ Made(object[1])' /\ object[2] = inits
                      \/ object[1] = "camera" /\ object \in doomed
                           /\ HasPool(object, live)
    BY <1>1 DEF LiveIsMade, HasPool
  <2>1. object[1] \in Kinds
    BY DEF TypeOK
  <2> QED BY <2>1 DEF Stage, Objects, LiveIsMade
<1>4. DoomedIsHeld'
  BY <1>1 DEF Stage, Objects, DoomedIsHeld, HasPool
<1> QED BY <1>1, <1>2, <1>3, <1>4 DEF Stage, Objects

(* A step that makes an object. *)
LEMMA AddObject ==
  ASSUME TypeOK, Stage, Working, Working', inits' = inits,
         doomed' = doomed, wrong' = wrong, unconnected' = unconnected,
         NEW kind \in Kinds, live' = live \cup {<<kind, inits>>},
         \A k \in Kinds : Made(k)' <=> (Made(k) \/ k = kind)
  PROVE  Objects'
<1>1. MadeIsLive'
  BY DEF Stage, Objects, MadeIsLive
<1>2. LiveIsMade'
  <2> SUFFICES ASSUME ~ unconnected', NEW object \in live'
               PROVE  \/ object[1] = "cameraPool"
                      \/ Made(object[1])' /\ object[2] = inits'
                      \/ object[1] = "camera" /\ object \in doomed'
                           /\ HasPool(object, live')
    BY DEF LiveIsMade, HasPool
  <2>1. CASE object = <<kind, inits>>
    BY <2>1
  <2>2. CASE object \in live
    <3>1. object[1] \in Kinds
      BY <2>2 DEF TypeOK
    <3>2. pc # "lost"
      BY DEF Working, Steps
    <3>3. HasPool(object, live) => HasPool(object, live')
      BY DEF HasPool
    <3> QED BY <2>2, <3>1, <3>2, <3>3 DEF Stage, Objects, LiveIsMade
  <2> QED BY <2>1, <2>2
<1>3. DoomedIsHeld'
  BY DEF Stage, Objects, DoomedIsHeld, HasPool
<1> QED BY <1>1, <1>2, <1>3 DEF Stage, Objects

(* What Destroy does to objects that are there and not doomed. *)
LEMMA DestroyObjects ==
  ASSUME TypeOK, Objects, NEW objects, objects \subseteq live \ doomed,
         Destroy(objects)
  PROVE  /\ wrong' = FALSE
         /\ live' \subseteq live
         /\ doomed' \subseteq doomed \cup objects
         /\ \A object \in doomed' : HasPool(object, live')
         /\ \A object \in live' :
              object \in doomed \cup objects => object \in doomed'
<1> DEFINE kept == {object \in doomed \cup (objects \cap live) :
                      HasPool(object, live \ objects)}
<1>1. doomed' = kept /\ live' = live \ ((doomed \cup objects) \ kept)
  BY DEF Destroy
<1>2. wrong' = FALSE
  BY DEF Destroy, Objects
<1>3. ASSUME NEW object \in kept
      PROVE  HasPool(object, live')
  <2>1. ASSUME NEW n, NEW k \in {"cameraPool", "encoderPool"},
               <<k, n>> \in live \ objects
        PROVE  <<k, n>> \in live'
    <3>1. <<k, n>> \notin doomed
      BY <2>1 DEF Objects, DoomedIsHeld, HasPool
    <3> QED BY <1>1, <2>1, <3>1
  <2>2. HasPool(object, live \ objects)
    BY <1>3
  <2> HIDE DEF kept
  <2> QED BY <2>1, <2>2 DEF HasPool
<1> QED BY <1>1, <1>2, <1>3

(* A failure or release: the objects of this call that are destroyed. *)
LEMMA DestroyMade ==
  ASSUME TypeOK, Stage, inits' = inits, ~ Working', ~ isInitialized',
         Working \/ isInitialized, pc # "lost",
         NEW kinds \in SUBSET Kinds, \A k \in kinds : Made(k),
         unconnected' \/ (unconnected' = unconnected
                            /\ \A k \in Kinds \ {"cameraPool"} :
                                 Made(k) => k \in kinds),
         "encoder" \in kinds =>
           "encoderPool" \in kinds \/ ~ Made("encoderPool"),
         Destroy({<<k, inits>> : k \in kinds})
  PROVE  Objects'
<1> DEFINE objects == {<<k, inits>> : k \in kinds}
<1>1. objects \subseteq live \ doomed
  <2> SUFFICES ASSUME NEW k \in kinds
               PROVE  <<k, inits>> \in live \ doomed
    OBVIOUS
  <2>1. inits \in Nat
    BY DEF TypeOK
  <2> QED BY <2>1 DEF Stage, Objects, MadeIsLive, DoomedIsHeld
<1>2. /\ wrong' = FALSE
      /\ live' \subseteq live
      /\ doomed' \subseteq doomed \cup objects
      /\ \A object \in doomed' : HasPool(object, live')
      /\ \A object \in live' :
           object \in doomed \cup objects => object \in doomed'
  BY <1>1, DestroyObjects DEF Stage
<1>3. \A k \in Kinds : ~ Made(k)'
  BY DEF Made, Working, AfterCamera, AfterCameraPool, AfterEncoder,
         AfterEncoderPool, Steps
<1>4. MadeIsLive'
  BY <1>3 DEF MadeIsLive
<1>5. DoomedIsHeld'
  <2>1. ASSUME NEW object \in doomed \cup objects
        PROVE  object[2] <= inits
    BY <2>1 DEF Stage, Objects, DoomedIsHeld, TypeOK
  <2> HIDE DEF objects
  <2> QED BY <1>2, <2>1 DEF DoomedIsHeld
<1>6. LiveIsMade'
  <2> SUFFICES ASSUME ~ unconnected', NEW object \in live',
                      object[1] # "cameraPool"
               PROVE  object[1] = "camera" /\ object \in doomed'
                        /\ HasPool(object, live')
    BY DEF LiveIsMade
  <2>1. object \in live /\ object[1] \in Kinds
        /\ object = <<object[1], object[2]>>
    BY <1>2 DEF TypeOK
  <2>2. object \in doomed \cup objects
    BY <2>1 DEF Stage, Objects, LiveIsMade, Working, Steps
  <2>3. object \in doomed' /\ HasPool(object, live')
    BY <1>2, <2>2
  <2>4. ASSUME object[1] = "encoder"
        PROVE  FALSE
    <3>1. object[2] = inits /\ Made("encoder")
      BY <2>1, <2>4 DEF Stage, Objects, LiveIsMade
    <3>2. <<"encoderPool", inits>> \in live'
      BY <2>3, <2>4, <3>1 DEF HasPool
    <3>3. Made("encoderPool")
      BY <1>2, <3>2 DEF Stage, Objects, LiveIsMade
    <3>4. <<"encoderPool", inits>> \in objects
      BY <3>1, <3>3 DEF Kinds
    <3>5. HasPool(<<"encoderPool", inits>>, live')
      BY <1>2, <3>2, <3>4
    <3> QED BY <3>5 DEF HasPool
  <2> QED BY <2>3, <2>4 DEF HasPool
<1> QED BY <1>2, <1>4, <1>5, <1>6 DEF Objects

(* Every step keeps pointers and live objects in agreement. *)
LEMMA StageStep == TypeOK /\ Stage /\ [Next]_vars => Stage'
<1> SUFFICES ASSUME TypeOK, Stage, [Next]_vars PROVE Stage'
  OBVIOUS
<1> DEFINE Control == /\ Working => ~ isInitialized
                      /\ Working \/ isInitialized => inits > 0
                      /\ Pointers
           Kept == /\ objectVars' = objectVars /\ inits' = inits
                   /\ \A k \in Kinds : Made(k)' => Made(k)
                   /\ ~ unconnected' /\ pc' # "lost" =>
                        /\ ~ unconnected /\ pc # "lost"
                        /\ \A k \in Kinds : Made(k) => Made(k)'
                   /\ Working' \/ isInitialized' => Working \/ isInitialized
<1>a. Control /\ inits \in Nat
  BY DEF Stage, TypeOK
<1>b. ASSUME Control', Objects' PROVE Stage'
  BY <1>b DEF Stage
<1>c. ASSUME Control', Kept PROVE Stage'
  BY <1>b, <1>c, KeepObjects
<1> USE DEF Pointers, Made, Working, AfterEncoderPool, AfterEncoder,
            AfterCameraPool, AfterCamera, Steps, Kinds
<1>1. ASSUME NEW kind \in Settings, SetParameter(kind)
      PROVE  Stage'
  <2>1. Control'
    BY <1>a, <1>1 DEF SetParameter, pointers, objectVars, ghosts
  <2>2. Kept
    BY <1>1 DEF SetParameter, pointers, objectVars, ghosts
  <2> QED BY <1>c, <2>1, <2>2
<1>2. ASSUME NEW c \in {"open", "takePicture"}, Initialize(c)
      PROVE  Stage'
  <2>1. Control'
    BY <1>a, <1>2 DEF Initialize, Goto, pointers, settingVars, ghosts
  <2>2. /\ live' = live /\ doomed' = doomed /\ wrong' = wrong
        /\ inits' = inits + 1 /\ \A k \in Kinds : ~ Made(k) /\ ~ Made(k)'
        /\ unconnected' = unconnected /\ pc # "lost"
    BY <1>2 DEF Initialize, Goto, objectVars, ghosts
  <2>3. MadeIsLive'
    BY <2>2 DEF MadeIsLive
  <2>4. LiveIsMade'
    <3> SUFFICES ASSUME ~ unconnected, NEW object \in live
                 PROVE  \/ object[1] = "cameraPool"
                        \/ object[1] = "camera" /\ object \in doomed
                             /\ HasPool(object, live)
      BY <2>2 DEF LiveIsMade, HasPool
    <3>1. object[1] \in Kinds
      BY DEF TypeOK
    <3> QED BY <2>2, <3>1 DEF Stage, Objects, LiveIsMade
  <2>5. DoomedIsHeld'
    <3> SUFFICES ASSUME NEW object \in doomed
                 PROVE  /\ HasPool(object, live)
                        /\ object[2] <= inits + 1 /\ object[2] < inits + 1
      <4>1. \A object \in doomed :
              HasPool(object, live)' <=> HasPool(object, live)
        BY <2>2 DEF HasPool
      <4> QED BY <2>2, <4>1 DEF DoomedIsHeld
    <3>1. HasPool(object, live) /\ object[2] <= inits /\ object[2] \in Nat
      BY DEF Stage, Objects, DoomedIsHeld, TypeOK
    <3> QED BY <1>a, <3>1
  <2> QED BY <1>b, <2>1, <2>2, <2>3, <2>4, <2>5 DEF Stage, Objects
<1>3. CASE TakePicture
  <2>1. Control'
    BY <1>a, <1>3 DEF TakePicture, Goto, pointers, objectVars, settingVars,
                      ghosts
  <2>2. Kept
    BY <1>3 DEF TakePicture, Goto, pointers, objectVars, settingVars, ghosts
  <2> QED BY <1>c, <2>1, <2>2
<1>4. CASE Capture
  <2>1. Control'
    BY <1>a, <1>4 DEF Capture, CommitParameters, Goto, pointers, objectVars,
                ghosts
  <2>2. Kept
    BY <1>4 DEF Capture, CommitParameters, Goto, pointers, objectVars,
                ghosts
  <2> QED BY <1>c, <2>1, <2>2
<1>5. CASE CaptureUnready
  <2>1. Control'
    BY <1>a, <1>5 DEF CaptureUnready, Goto, pointers, objectVars,
                settingVars, ghosts
  <2>2. Kept
    BY <1>5 DEF CaptureUnready, Goto, pointers, objectVars,
                settingVars, ghosts
  <2> QED BY <1>c, <2>1, <2>2
<1>6. CASE Release
  <2> DEFINE kinds == {"connection", "encoderPool", "encoder", "camera"}
  <2>1. Control'
    BY <1>a, <1>6 DEF Release, pointers, settingVars, ghosts
  <2>2. Destroy({<<k, inits>> : k \in kinds})
    <3>1. {<<k, inits>> : k \in kinds} = {<<"connection", inits>>,
              <<"encoderPool", inits>>, <<"encoder", inits>>,
              <<"camera", inits>>}
      OBVIOUS
    <3> QED BY <1>a, <1>6, <3>1 DEF Release, CameraObjects, EncoderObjects,
                                  NoPool
  <2>3. /\ inits' = inits /\ ~ Working' /\ ~ isInitialized' /\ pc # "lost"
        /\ Working \/ isInitialized
        /\ kinds \in SUBSET Kinds /\ \A k \in kinds : Made(k)
    BY <1>a, <1>6 DEF Release, pointers, settingVars, ghosts
  <2>4. unconnected' \/ (unconnected' = unconnected
                           /\ \A k \in Kinds \ {"cameraPool"} :
                                Made(k) => k \in kinds)
    BY <1>a, <1>6 DEF Release, pointers, settingVars, ghosts
  <2>5. "encoder" \in kinds =>
        "encoderPool" \in kinds \/ ~ Made("encoderPool")
    BY <1>a, <1>6 DEF Release, pointers, settingVars, ghosts
  <2>6. Objects'
    <3> HIDE DEF kinds
    <3> QED BY <2>2, <2>3, <2>4, <2>5, DestroyMade
  <2> QED BY <1>b, <2>1, <2>6
<1>7. CASE CreateCamera
  <2>1. CASE NewCamera
    <3>1. Control'
      BY <1>a, <2>1 DEF NewCamera, Goto, settingVars, ghosts
    <3>2. /\ Working /\ Working' /\ inits' = inits /\ doomed' = doomed
          /\ wrong' = wrong /\ unconnected' = unconnected
          /\ live' = live \cup {<<"camera", inits>>}
      BY <2>1 DEF NewCamera, Goto, settingVars, ghosts
    <3>3. \A k \in Kinds : Made(k)' <=> (Made(k) \/ k = "camera")
      BY <1>a, <2>1 DEF NewCamera, Goto, settingVars, ghosts
    <3>4. Objects'
      BY <3>2, <3>3, AddObject
    <3> QED BY <1>b, <3>1, <3>4
  <2>2. CASE NewCameraFails
    <3>1. Control'
      BY <1>a, <2>2 DEF NewCameraFails, Return, objectVars, settingVars,
                  ghosts
    <3>2. Kept
      BY <2>2 DEF NewCameraFails, Return, objectVars, settingVars,
                  ghosts
    <3> QED BY <1>c, <3>1, <3>2
  <2>3. CASE EnableControlPort
    <3>1. Control'
      BY <1>a, <2>3 DEF EnableControlPort, Goto, pointers, objectVars,
                  settingVars, ghosts
    <3>2. Kept
      BY <2>3 DEF EnableControlPort, Goto, pointers, objectVars,
                  settingVars, ghosts
    <3> QED BY <1>c, <3>1, <3>2
  <2>4. CASE CommitToCamera
    <3>1. Control'
      BY <1>a, <2>4 DEF CommitToCamera, CommitParameters, Goto, pointers,
                  objectVars, ghosts
    <3>2. Kept
      BY <2>4 DEF CommitToCamera, CommitParameters, Goto, pointers,
                  objectVars, ghosts
    <3> QED BY <1>c, <3>1, <3>2
  <2>5. CASE CommitToDanglingPort
    <3>1. Control'
      BY <1>a, <2>5 DEF CommitToDanglingPort, Goto, pointers, objectVars,
                  settingVars, ghosts
    <3>2. Kept
      BY <2>5 DEF CommitToDanglingPort, Goto, pointers, objectVars,
                  settingVars, ghosts
    <3> QED BY <1>c, <3>1, <3>2
  <2>6. CASE EnableCamera
    <3>1. Control'
      BY <1>a, <2>6 DEF EnableCamera, Goto, pointers, objectVars, ghosts
    <3>2. Kept
      BY <2>6 DEF EnableCamera, Goto, pointers, objectVars, ghosts
    <3> QED BY <1>c, <3>1, <3>2
  <2>7. CASE CreateCameraPool
    <3>1. Control'
      BY <1>a, <2>7 DEF CreateCameraPool, Goto, settingVars, ghosts
    <3>2. /\ Working /\ Working' /\ inits' = inits /\ doomed' = doomed
          /\ wrong' = wrong /\ unconnected' = unconnected
          /\ live' = live \cup {<<"cameraPool", inits>>}
      BY <2>7 DEF CreateCameraPool, Goto, settingVars, ghosts
    <3>3. \A k \in Kinds : Made(k)' <=> (Made(k) \/ k = "cameraPool")
      BY <1>a, <2>7 DEF CreateCameraPool, Goto, settingVars, ghosts
    <3>4. Objects'
      BY <3>2, <3>3, AddObject
    <3> QED BY <1>b, <3>1, <3>4
  <2>8. ASSUME NEW step \in {"controlPort", "format", "cameraPool"},
               CameraFails(step)
        PROVE  Stage'
    <3> DEFINE kinds == {"camera"}
    <3>1. Control'
      BY <1>a, <2>8 DEF CameraFails, Return, settingVars, ghosts
    <3>2. Destroy({<<k, inits>> : k \in kinds})
      <4>1. {<<k, inits>> : k \in kinds} = {<<"camera", inits>>}
        OBVIOUS
      <4> QED BY <1>a, <2>8, <4>1 DEF CameraFails, CameraObjects
    <3>3. /\ inits' = inits /\ ~ Working' /\ ~ isInitialized' /\ pc # "lost"
          /\ Working \/ isInitialized
          /\ kinds \in SUBSET Kinds /\ \A k \in kinds : Made(k)
      BY <1>a, <2>8 DEF CameraFails, Return, settingVars, ghosts
    <3>4. unconnected' \/ (unconnected' = unconnected
                             /\ \A k \in Kinds \ {"cameraPool"} :
                                  Made(k) => k \in kinds)
      BY <1>a, <2>8 DEF CameraFails, Return, settingVars, ghosts
    <3>5. "encoder" \in kinds =>
          "encoderPool" \in kinds \/ ~ Made("encoderPool")
      BY <1>a, <2>8 DEF CameraFails, Return, settingVars, ghosts
    <3>6. Objects'
      <4> HIDE DEF kinds
      <4> QED BY <3>2, <3>3, <3>4, <3>5, DestroyMade
    <3> QED BY <1>b, <3>1, <3>6
  <2> QED BY <1>7, <2>1, <2>2, <2>3, <2>4, <2>5, <2>6, <2>7, <2>8
          DEF CreateCamera
<1>8. CASE CreateEncoder
  <2>1. CASE NewEncoder
    <3>1. Control'
      BY <1>a, <2>1 DEF NewEncoder, Goto, settingVars, ghosts
    <3>2. /\ Working /\ Working' /\ inits' = inits /\ doomed' = doomed
          /\ wrong' = wrong /\ unconnected' = unconnected
          /\ live' = live \cup {<<"encoder", inits>>}
      BY <2>1 DEF NewEncoder, Goto, settingVars, ghosts
    <3>3. \A k \in Kinds : Made(k)' <=> (Made(k) \/ k = "encoder")
      BY <1>a, <2>1 DEF NewEncoder, Goto, settingVars, ghosts
    <3>4. Objects'
      BY <3>2, <3>3, AddObject
    <3> QED BY <1>b, <3>1, <3>4
  <2>2. CASE NewEncoderFails \/ EncoderWithoutOutput
    <3>1. Control'
      BY <1>a, <2>2 DEF NewEncoderFails, EncoderWithoutOutput, Goto,
                  pointers, objectVars, settingVars
    <3>2. Kept
      BY <2>2 DEF NewEncoderFails, EncoderWithoutOutput, Goto,
                  pointers, objectVars, settingVars
    <3> QED BY <1>c, <3>1, <3>2
  <2>3. CASE SetUpEncoder
    <3>1. Control'
      BY <1>a, <2>3 DEF SetUpEncoder, Goto, objectVars, settingVars, ghosts
    <3>2. Kept
      BY <2>3 DEF SetUpEncoder, Goto, objectVars, settingVars, ghosts
    <3> QED BY <1>c, <3>1, <3>2
  <2>4. CASE SetUpEncoderFails
    <3> DEFINE kinds == {"cameraPool", "encoder", "camera"}
    <3>1. Control'
      BY <1>a, <2>4 DEF SetUpEncoderFails, CleanUpEncoder, Return, settingVars,
                  ghosts
    <3>2. Destroy({<<k, inits>> : k \in kinds})
      <4>1. {<<k, inits>> : k \in kinds} = {<<"cameraPool", inits>>,
              <<"encoder", inits>>, <<"camera", inits>>}
        OBVIOUS
      <4> QED BY <1>a, <2>4, <4>1 DEF SetUpEncoderFails, CleanUpEncoder,
                                    CameraObjects, NoPool
    <3>3. /\ inits' = inits /\ ~ Working' /\ ~ isInitialized' /\ pc # "lost"
          /\ Working \/ isInitialized
          /\ kinds \in SUBSET Kinds /\ \A k \in kinds : Made(k)
      BY <1>a, <2>4 DEF SetUpEncoderFails, CleanUpEncoder, Return, settingVars,
                  ghosts
    <3>4. unconnected' \/ (unconnected' = unconnected
                             /\ \A k \in Kinds \ {"cameraPool"} :
                                  Made(k) => k \in kinds)
      BY <1>a, <2>4 DEF SetUpEncoderFails, CleanUpEncoder, Return, settingVars,
                  ghosts
    <3>5. "encoder" \in kinds =>
          "encoderPool" \in kinds \/ ~ Made("encoderPool")
      BY <1>a, <2>4 DEF SetUpEncoderFails, CleanUpEncoder, Return, settingVars,
                  ghosts
    <3>6. Objects'
      <4> HIDE DEF kinds
      <4> QED BY <3>2, <3>3, <3>4, <3>5, DestroyMade
    <3> QED BY <1>b, <3>1, <3>6
  <2>5. CASE CreateEncoderPool
    <3>1. Control'
      BY <1>a, <2>5 DEF CreateEncoderPool, Goto, settingVars, ghosts
    <3>2. /\ Working /\ Working' /\ inits' = inits /\ doomed' = doomed
          /\ wrong' = wrong /\ unconnected' = unconnected
          /\ live' = live \cup {<<"encoderPool", inits>>}
      BY <2>5 DEF CreateEncoderPool, Goto, settingVars, ghosts
    <3>3. \A k \in Kinds : Made(k)' <=> (Made(k) \/ k = "encoderPool")
      BY <1>a, <2>5 DEF CreateEncoderPool, Goto, settingVars, ghosts
    <3>4. Objects'
      BY <3>2, <3>3, AddObject
    <3> QED BY <1>b, <3>1, <3>4
  <2>6. CASE CreateEncoderPoolFails
    <3> DEFINE kinds == {"encoder", "camera"}
    <3>1. Control'
      BY <1>a, <2>6 DEF CreateEncoderPoolFails, CleanUpEncoder, Return,
                  settingVars, ghosts
    <3>2. Destroy({<<k, inits>> : k \in kinds})
      <4>1. {<<k, inits>> : k \in kinds} = {<<"encoder", inits>>,
              <<"camera", inits>>}
        OBVIOUS
      <4> QED BY <1>a, <2>6, <4>1 DEF CreateEncoderPoolFails, CleanUpEncoder,
                                    CameraObjects, NoPool
    <3>3. /\ inits' = inits /\ ~ Working' /\ ~ isInitialized' /\ pc # "lost"
          /\ Working \/ isInitialized
          /\ kinds \in SUBSET Kinds /\ \A k \in kinds : Made(k)
      BY <1>a, <2>6 DEF CreateEncoderPoolFails, CleanUpEncoder, Return,
                  settingVars, ghosts
    <3>4. unconnected' \/ (unconnected' = unconnected
                             /\ \A k \in Kinds \ {"cameraPool"} :
                                  Made(k) => k \in kinds)
      BY <1>a, <2>6 DEF CreateEncoderPoolFails, CleanUpEncoder, Return,
                  settingVars, ghosts
    <3>5. "encoder" \in kinds =>
          "encoderPool" \in kinds \/ ~ Made("encoderPool")
      BY <1>a, <2>6 DEF CreateEncoderPoolFails, CleanUpEncoder, Return,
                  settingVars, ghosts
    <3>6. Objects'
      <4> HIDE DEF kinds
      <4> QED BY <3>2, <3>3, <3>4, <3>5, DestroyMade
    <3> QED BY <1>b, <3>1, <3>6
  <2> QED BY <1>8, <2>1, <2>2, <2>3, <2>4, <2>5, <2>6
          DEF CreateEncoder
<1>9. CASE Connect
  <2>1. CASE CreateConnection
    <3>1. Control'
      BY <1>a, <2>1 DEF CreateConnection, Goto, settingVars, ghosts
    <3>2. /\ Working /\ Working' /\ inits' = inits /\ doomed' = doomed
          /\ wrong' = wrong /\ unconnected' = unconnected
          /\ live' = live \cup {<<"connection", inits>>}
      BY <2>1 DEF CreateConnection, Goto, settingVars, ghosts
    <3>3. \A k \in Kinds : Made(k)' <=> (Made(k) \/ k = "connection")
      BY <1>a, <2>1 DEF CreateConnection, Goto, settingVars, ghosts
    <3>4. Objects'
      BY <3>2, <3>3, AddObject
    <3> QED BY <1>b, <3>1, <3>4
  <2>2. CASE CreateConnectionFails
    <3>1. Control'
      BY <1>a, <2>2 DEF CreateConnectionFails, Return, settingVars
    <3>2. /\ doomed' = doomed /\ wrong' = wrong /\ inits' = inits
          /\ live \subseteq live' /\ unconnected' /\ ~ Working'
          /\ ~ isInitialized'
      BY <1>a, <2>2 DEF CreateConnectionFails, Return, settingVars
    <3>3. MadeIsLive' /\ LiveIsMade'
      BY <3>2 DEF MadeIsLive, LiveIsMade
    <3>4. DoomedIsHeld'
      BY <3>2 DEF Stage, Objects, DoomedIsHeld, HasPool
    <3> QED BY <1>b, <3>1, <3>2, <3>3, <3>4 DEF Stage, Objects
  <2>3. CASE EnableConnection
    <3>1. Control'
      BY <1>a, <2>3 DEF EnableConnection, Return, pointers, objectVars,
                  settingVars, ghosts
    <3>2. Kept
      BY <2>3 DEF EnableConnection, Return, pointers, objectVars,
                  settingVars, ghosts
    <3> QED BY <1>c, <3>1, <3>2
  <2>4. CASE EnableConnectionFails
    <3> DEFINE kinds == {"connection"}
    <3>1. Control'
      BY <1>a, <2>4 DEF EnableConnectionFails, Return, pointers, settingVars
    <3>2. Destroy({<<k, inits>> : k \in kinds})
      <4>1. {<<k, inits>> : k \in kinds} = {<<"connection", inits>>}
        OBVIOUS
      <4> QED BY <1>a, <2>4, <4>1 DEF EnableConnectionFails
    <3>3. /\ inits' = inits /\ ~ Working' /\ ~ isInitialized' /\ pc # "lost"
          /\ Working \/ isInitialized
          /\ kinds \in SUBSET Kinds /\ \A k \in kinds : Made(k)
      BY <1>a, <2>4 DEF EnableConnectionFails, Return, pointers, settingVars
    <3>4. unconnected' \/ (unconnected' = unconnected
                             /\ \A k \in Kinds \ {"cameraPool"} :
                                  Made(k) => k \in kinds)
      BY <1>a, <2>4 DEF EnableConnectionFails, Return, pointers, settingVars
    <3>5. "encoder" \in kinds =>
          "encoderPool" \in kinds \/ ~ Made("encoderPool")
      BY <1>a, <2>4 DEF EnableConnectionFails, Return, pointers, settingVars
    <3>6. Objects'
      <4> HIDE DEF kinds
      <4> QED BY <3>2, <3>3, <3>4, <3>5, DestroyMade
    <3> QED BY <1>b, <3>1, <3>6
  <2> QED BY <1>9, <2>1, <2>2, <2>3, <2>4
          DEF Connect
<1>10. CASE UNCHANGED vars
  <2>1. Control'
    BY <1>a, <1>10 DEF vars, pointers, objectVars, settingVars, ghosts
  <2>2. Kept
    BY <1>10 DEF vars, pointers, objectVars, settingVars, ghosts
  <2> QED BY <1>c, <2>1, <2>2
<1> HIDE DEF Pointers, Made, Working
<1> QED BY <1>1, <1>2, <1>3, <1>4, <1>5, <1>6, <1>7, <1>8, <1>9, <1>10
       DEF Next

LEMMA LifecycleInvariant == Spec => []IInv
<1>1. Init => Stage
  BY DEF Init, Stage, Pointers, Objects, MadeIsLive, LiveIsMade,
         DoomedIsHeld, Made, Working, AfterEncoderPool, AfterEncoder,
         AfterCameraPool, AfterCamera, Steps
<1>2. TypeOK /\ Stage /\ [Next]_vars => Stage'
  BY StageStep
<1> QED BY <1>1, <1>2, LifecycleTypes, PTL DEF Spec, IInv

(* initialize reports success only with all objects of one call in place. *)
THEOREM CompleteWhenInitialized == Spec => []InitializedComplete
<1>1. IInv => InitializedComplete
  BY DEF IInv, TypeOK, Stage, Pointers, Objects, MadeIsLive, Made, Kinds,
         InitializedComplete
<1> QED BY <1>1, LifecycleInvariant, PTL

(* No clean-up destroys an object twice. *)
THEOREM ObjectsDestroyedOnce == Spec => []DestroyedOnce
<1>1. IInv => DestroyedOnce
  BY DEF IInv, Stage, Objects, DestroyedOnce
<1> QED BY <1>1, LifecycleInvariant, PTL

(* A failure before connectPorts, and release, leave only pools of the     *)
(* camera, and the destroyed cameras that they hold, behind.               *)
THEOREM FailuresCleanUp == Spec => []CleanFailure
<1>1. IInv => CleanFailure
  BY DEF IInv, Stage, Objects, LiveIsMade, Made, AfterEncoderPool,
         AfterEncoder, AfterCameraPool, AfterCamera, CleanFailure
<1> QED BY <1>1, LifecycleInvariant, PTL

(* Where nothing is left to be committed, unless a setter was called after *)
(* the first initialize.                                                   *)
Committed ==
  isInitialized \/ pc \in {"format", "cameraPool"} \cup AfterCameraPool

(* What a camera that was opened once has of the settings. *)
FirstSettings ==
  inits = 1 /\ Committed =>
    /\ pc # "format" =>
         ("size" \in stale <=> "size" \in setSinceOpen)
    /\ ~ changedSettings => "control" \notin stale
    /\ pc = "setUpEncoder" => "quality" \in stale
    /\ (isInitialized \/ pc \in {"encoderPool"} \cup AfterEncoderPool)
         /\ ~ changedSettings =>
         /\ "encoding" \notin stale
         /\ "quality" \in stale <=> setSinceOpen = {}

(* What happens in the first initialisation: the port of the encoder is    *)
(* NULL while createCamera sends the settings, which it always does.  It   *)
(* stays so until something was committed, and only a setter raises        *)
(* changedSettings again.                                                  *)
FirstOpen ==
  /\ inits = 0 => pc = "idle" /\ ~ isInitialized /\ changedSettings
                  /\ outputPort = 0 /\ setSinceOpen = {}
  /\ inits = 1 /\ pc \in {"newCamera", "controlPort", "commit"}
       => changedSettings /\ outputPort = 0
  /\ setSinceOpen = {} =>
       /\ changedSettings => outputPort = 0
       /\ Committed => ~ changedSettings
  /\ inits = 1 /\ Working => setSinceOpen = {}
  /\ FirstSettings
  /\ Working /\ caller = "takePicture" => inits > 1
  /\ pc = "capture" => isInitialized \/ (inits > 1 /\ caller = "takePicture")
  /\ OpensAreSafe

(* Every step of the first initialisation keeps to this. *)
LEMMA FirstOpenStep == IInv /\ FirstOpen /\ [Next]_vars => FirstOpen'
<1> SUFFICES ASSUME TypeOK, Stage, FirstOpen, [Next]_vars PROVE FirstOpen'
  BY DEF IInv
<1>a. /\ isInitialized => outputPort > 0
      /\ Working => ~ isInitialized
  BY DEF TypeOK, Stage, Pointers, Working
<1> USE DEF TypeOK, FirstOpen, FirstSettings, Committed, Settings,
            OpensAreSafe, Working, AfterEncoderPool,
            AfterEncoder, AfterCameraPool, Steps
<1>1. ASSUME NEW kind \in Settings, SetParameter(kind)
      PROVE  FirstOpen'
  BY <1>1 DEF SetParameter, pointers, objectVars, ghosts
<1>2. ASSUME NEW c \in {"open", "takePicture"}, Initialize(c)
      PROVE  FirstOpen'
  BY <1>2 DEF Initialize, Goto, pointers, objectVars, settingVars, ghosts
<1>3. CASE TakePicture
  BY <1>3 DEF TakePicture, Goto, pointers, objectVars, settingVars, ghosts
<1>4. CASE Capture
  BY <1>a, <1>4 DEF Capture, CommitParameters, Sent, Goto, pointers,
                    objectVars, ghosts
<1>5. CASE CaptureUnready
  BY <1>5 DEF CaptureUnready, Goto, pointers, objectVars, settingVars, ghosts
<1>6. CASE Release
  BY <1>6 DEF Release, pointers, objectVars, settingVars, ghosts
<1>7. CASE CreateCamera
  <2>1. CASE NewCamera
    BY <2>1 DEF NewCamera, Goto, settingVars, ghosts
  <2>2. CASE NewCameraFails
    BY <2>2 DEF NewCameraFails, Return, settingVars, ghosts
  <2>3. CASE EnableControlPort
    BY <2>3 DEF EnableControlPort, Goto, pointers, objectVars, settingVars,
                ghosts
  <2>4. CASE CommitToCamera
    BY <2>4 DEF CommitToCamera, PortUsable,
              CommitParameters, Sent, Goto, pointers, objectVars, ghosts
  <2>5. CASE CommitToDanglingPort
    BY <2>5 DEF CommitToDanglingPort, PortUsable, Goto, pointers, objectVars,
              settingVars, ghosts
  <2>6. CASE EnableCamera
    BY <2>6 DEF EnableCamera, Goto, pointers, objectVars, settingVars, ghosts
  <2>7. CASE CreateCameraPool
    BY <2>7 DEF CreateCameraPool, Goto, settingVars, ghosts
  <2>8. ASSUME NEW step \in {"controlPort", "format", "cameraPool"},
               CameraFails(step)
        PROVE  FirstOpen'
    BY <1>a, <2>8 DEF CameraFails, Return, settingVars, ghosts
  <2> QED BY <1>7, <2>1, <2>2, <2>3, <2>4, <2>5, <2>6, <2>7, <2>8
          DEF CreateCamera
<1>8. CASE CreateEncoder
  <2>1. CASE NewEncoder
    BY <1>a, <2>1 DEF NewEncoder, Goto, settingVars, ghosts
  <2>2. CASE NewEncoderFails \/ EncoderWithoutOutput
    BY <1>a, <2>2 DEF NewEncoderFails, EncoderWithoutOutput, Goto, pointers,
                objectVars, settingVars
  <2>3. CASE SetUpEncoder
    BY <1>a, <2>3 DEF SetUpEncoder, Goto, objectVars, ghosts
  <2>4. CASE SetUpEncoderFails
    BY <2>4 DEF SetUpEncoderFails, CleanUpEncoder, NoPool, Return,
                settingVars, ghosts
  <2>5. CASE CreateEncoderPool
    BY <2>5 DEF CreateEncoderPool, Goto, settingVars, ghosts
  <2>6. CASE CreateEncoderPoolFails
    BY <2>6 DEF CreateEncoderPoolFails, CleanUpEncoder, NoPool, Return,
                settingVars, ghosts
  <2> QED BY <1>8, <2>1, <2>2, <2>3, <2>4, <2>5, <2>6
          DEF CreateEncoder
<1>9. CASE Connect
  <2>1. CASE CreateConnection
    BY <2>1 DEF CreateConnection, Goto, settingVars, ghosts
  <2>2. CASE CreateConnectionFails
    BY <2>2 DEF CreateConnectionFails, Return, settingVars
  <2>3. CASE EnableConnection
    BY <2>3 DEF EnableConnection, Return, pointers, objectVars, settingVars,
                ghosts
  <2>4. CASE EnableConnectionFails
    BY <2>4 DEF EnableConnectionFails, Return, pointers, objectVars,
                settingVars
  <2> QED BY <1>9, <2>1, <2>2, <2>3, <2>4
          DEF Connect
<1>10. CASE UNCHANGED vars
  BY <1>10 DEF vars, pointers, objectVars, settingVars, ghosts
<1> HIDE DEF TypeOK, FirstOpen, FirstSettings, Committed, OpensAreSafe,
             Working
<1> QED BY <1>1, <1>2, <1>3, <1>4, <1>5, <1>6, <1>7, <1>8, <1>9, <1>10
       DEF Next

LEMMA FirstOpenInvariant == Spec => []FirstOpen
<1>1. Init => FirstOpen
  BY DEF Init, FirstOpen, FirstSettings, Committed, OpensAreSafe, Working,
         Steps, AfterEncoderPool, AfterEncoder, AfterCameraPool
<1>2. IInv /\ FirstOpen /\ [Next]_vars => FirstOpen'
  BY FirstOpenStep
<1> QED BY <1>1, <1>2, LifecycleInvariant, PTL DEF Spec

(* A camera that was opened once lacks, when nothing is left to commit,    *)
(* only the quality that was set before it was opened and the width and    *)
(* height that were set after it.                                          *)
THEOREM SettingsAreApplied == Spec => []SettingsApplied
<1>1. IInv /\ FirstOpen => SettingsApplied
  <2> SUFFICES ASSUME TypeOK, Stage, FirstOpen, inits = 1, isInitialized,
                      ~ changedSettings
               PROVE  stale = (IF setSinceOpen = {} THEN {"quality"} ELSE {})
                                \cup (setSinceOpen \cap {"size"})
    BY DEF IInv, SettingsApplied
  <2>1. Committed /\ pc # "format"
    BY DEF Stage, Committed, Working, Steps
  <2>2. /\ "size" \in stale <=> "size" \in setSinceOpen
        /\ "control" \notin stale /\ "encoding" \notin stale
        /\ "quality" \in stale <=> setSinceOpen = {}
    BY <2>1 DEF FirstOpen, FirstSettings
  <2>3. stale \subseteq {"control", "quality", "encoding", "size"}
    BY DEF TypeOK, Settings
  <2> QED BY <2>2, <2>3
<1> QED BY <1>1, FirstOpenInvariant, LifecycleInvariant, PTL

(* Opening, taking pictures and releasing uses no null and no dangling     *)
(* pointer unless the encoder or its output is missing; further openings   *)
(* do not either, as long as no setter is called after the first.          *)
THEOREM OpeningIsSafe == Spec => []OpensAreSafe
<1>1. FirstOpen => OpensAreSafe
  BY DEF FirstOpen
<1> QED BY <1>1, FirstOpenInvariant, PTL

=============================================================================
