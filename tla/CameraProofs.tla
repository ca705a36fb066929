---------------------------- MODULE CameraProofs ----------------------------
(***************************************************************************)
(* Proofs about Camera, for any delays and any number of lives: however    *)
(* the camera comes and goes, its sessions are sessions of Mdwrk, and      *)
(* requests, replies and pictures stay together across them.               *)
(***************************************************************************)
EXTENDS Camera, MdwrkProofs

CameraTypes ==
    /\ plugged \in BOOLEAN
    /\ at \in {"wait", "loop", "recv", "command", "file", "crashed"}
    /\ request \in {"none", "TakePicture", "other"}
    /\ reply \in {"NULL", "empty", "this picture", "old picture"}
    /\ snap \in {"none", "this", "old"}
    /\ blind \in 0 .. 2

\* Where camera() is and where its session is.
SessionInv ==
    /\ at = "wait" => pc = "none"
    /\ at = "loop" => pc \in {"none", "handle"}
    /\ at = "recv" => pc \in {"poll", "sleep"}
    /\ at \in {"command", "file"} => pc = "handle"

\* Nothing is left of a request whose reply has been sent or destroyed, and a
\* picture that is about to be read for a request was taken for it.
PictureInv ==
    /\ at \in {"wait", "recv"} => request = "none" /\ reply = "NULL"
    /\ at = "file" /\ request = "TakePicture" => snap = "this"

\* A worker that has taken a request without a camera takes no second one before
\* it has looked for the camera.
BlindInv ==
    /\ blind <= 1
    /\ plugged => blind = 0
    /\ at = "recv" => blind = 0

CameraInv ==
    /\ CameraTypes
    /\ SessionInv
    /\ PictureInv
    /\ BlindInv
    /\ PictureIsFresh
    /\ RepliesMatchSession

-----------------------------------------------------------------------------
\* What the camera worker does to its session is what Mdwrk allows.
LEMMA SessionStep == [CameraNext]_allVars => [Next]_vars
<1> SUFFICES ASSUME CameraNext PROVE [Next]_vars
  BY DEF allVars, vars
<1>1. CASE OpenSession \/ OtherCommand \/ ReadPicture \/ Plug \/ Unplug
  BY <1>1 DEF OpenSession, OtherCommand, ReadPicture, Plug, Unplug
<1>2. CASE CallRecv
  BY <1>2 DEF CallRecv, Next
<1>3. CASE LeaveLoop \/ TakePicture
  BY <1>3 DEF LeaveLoop, TakePicture, Next
<1>4. CASE Wait \/ Interrupted \/ GetRequest
  BY <1>4 DEF Wait, Interrupted, GetRequest, Next
<1>5. CASE Outside
  BY <1>5 DEF Outside, Next
<1> QED
  BY <1>1, <1>2, <1>3, <1>4, <1>5 DEF CameraNext, Camera

\* A session of the camera is a session of Mdwrk: what MdwrkProofs shows of
\* silence and lives holds of the camera too.
THEOREM CameraKeepsSessions == CameraSpec => Spec
<1>1. CameraInit => Init
  BY DEF CameraInit
<1> QED
  BY <1>1, SessionStep, PTL DEF CameraSpec, Spec

-----------------------------------------------------------------------------
LEMMA InitCameraInv == CameraInit => CameraInv
BY DEF CameraInit, Init, CameraInv, CameraTypes, SessionInv, PictureInv, BlindInv,
   PictureIsFresh, RepliesMatchSession

LEMMA NextCameraInv == CameraInv /\ [CameraNext]_allVars => CameraInv'
<1> SUFFICES ASSUME CameraInv, [CameraNext]_allVars
             PROVE  CameraInv'
  OBVIOUS
<1> USE DEF CameraInv, CameraTypes, SessionInv, PictureInv, BlindInv,
            PictureIsFresh, RepliesMatchSession
<1>1. CASE OpenSession
  BY <1>1 DEF OpenSession, vars
<1>2. CASE CallRecv
  BY <1>2 DEF CallRecv, New, Recv, PollAgain
<1>3. CASE LeaveLoop
  BY <1>3 DEF LeaveLoop, Destroy, vars
<1>4. CASE Wait
  <2>1. pc' \in {"poll", "sleep"}
    BY <1>4 DEF Wait, ReceiveOther, ReceiveDisconnect, TimeOut, Reconnect, PollAgain
  <2> QED
    BY <1>4, <2>1 DEF Wait, cameraVars
<1>5. CASE GetRequest
  BY <1>5 DEF GetRequest, ReceiveRequest
<1>6. CASE TakePicture
  BY <1>6 DEF TakePicture, Destroy, vars
<1>7. CASE OtherCommand
  BY <1>7 DEF OtherCommand, vars
<1>8. CASE ReadPicture
  BY <1>8 DEF ReadPicture, vars
<1>9. CASE Interrupted
  BY <1>9 DEF Interrupted, Destroy
<1>10. CASE Plug
  <2>1. plugged' = TRUE /\ blind' = 0
    BY ONLY <1>10 DEF Plug
  <2>2. BlindInv' /\ plugged' \in BOOLEAN /\ blind' \in 0 .. 2
    BY ONLY <2>1 DEF BlindInv
  <2>3. UNCHANGED <<pc, at, request, reply, snap>>
    BY ONLY <1>10 DEF Plug, vars
  <2> QED
    BY <2>2, <2>3
<1>11. CASE Unplug
  BY <1>11 DEF Unplug, vars
<1>12. CASE Outside
  BY <1>12 DEF Outside, BrokerSends, Tick, cameraVars
<1>13. CASE UNCHANGED allVars
  BY <1>13 DEF allVars, vars, cameraVars
<1> QED
  BY <1>1, <1>2, <1>3, <1>4, <1>5, <1>6, <1>7, <1>8, <1>9, <1>10, <1>11, <1>12, <1>13
     DEF CameraNext, Camera

LEMMA CameraInvariance == CameraSpec => []CameraInv
BY InitCameraInv, NextCameraInv, PTL DEF CameraSpec

-----------------------------------------------------------------------------
\* The camera's variables and those of its session keep their types: no
\* unsigned counter of a session runs below zero.
THEOREM CameraTypesHold == CameraSpec => []CameraTypeOK
<1>1. CameraInv /\ TypeOK => CameraTypeOK
  BY DEF CameraInv, CameraTypes, CameraTypeOK
<1> QED
  BY <1>1, CameraInvariance, CameraKeepsSessions, SessionTypes, PTL

\* Whoever asks for a picture gets one that was taken for this request
\* (camera.c:48).
THEOREM PicturesAreFresh == CameraSpec => []PictureIsFresh
<1>1. CameraInv => PictureIsFresh
  BY DEF CameraInv
<1> QED
  BY <1>1, CameraInvariance, PTL

\* The assertions of mdwrk_recv hold however the last session has ended
\* (mdwrkapi.c:174 and 176).
THEOREM RepliesFitSessions == CameraSpec => []RepliesMatchSession
<1>1. CameraInv => RepliesMatchSession
  BY DEF CameraInv
<1> QED
  BY <1>1, CameraInvariance, PTL

\* A worker whose camera was pulled out takes at most one request before it
\* notices (camera.c:35).
THEOREM OneRequestIsBlind == CameraSpec => []AtMostOneRequestWithoutCamera
<1>1. CameraInv => AtMostOneRequestWithoutCamera
  BY DEF CameraInv, BlindInv, AtMostOneRequestWithoutCamera
<1> QED
  BY <1>1, CameraInvariance, PTL
=============================================================================
