-------------------------------- MODULE Camera --------------------------------
(***************************************************************************)
(* The camera worker of camera.c, a process of its own: it offers its      *)
(* service while a camera is plugged in, over a session of mdwrkapi.c      *)
(* (Mdwrk) that it opens and closes as the camera comes and goes.  A       *)
(* picture passes through the file snap.jpg, which outlives requests,      *)
(* sessions and the process.                                               *)
(*                                                                         *)
(* The camera may be pulled out and pushed back in at any time.            *)
(***************************************************************************)
EXTENDS Mdwrk

VARIABLES
    plugged,  \* /dev/video0 is there
    at,       \* where camera() is
    request,  \* the command it handles
    reply,    \* the content of reply, "NULL" without one
    snap,     \* snap.jpg: none, from the request at hand, or from another
    \* History variable.
    blind     \* requests received since the camera was pulled out, up to 2

cameraVars == <<plugged, at, request, reply, snap, blind>>
allVars    == <<vars, cameraVars>>

CameraTypeOK ==
    /\ TypeOK
    /\ plugged \in BOOLEAN
    /\ at \in {"wait", "loop", "recv", "command", "file", "crashed"}
    /\ request \in {"none", "TakePicture", "other"}
    /\ reply \in {"NULL", "empty", "this picture", "old picture"}
    /\ snap \in {"none", "this", "old"}
    /\ blind \in 0 .. 2

CameraInit ==
    /\ Init
    /\ plugged \in BOOLEAN
    /\ at = "wait"
    /\ request = "none"
    /\ reply = "NULL"
    /\ snap \in {"none", "old"}
    /\ blind = 0

-----------------------------------------------------------------------------
\* A slip: without a camera the worker returns.
OpenSessionOrReturn ==
    /\ at = "wait"
    /\ at' = IF plugged THEN "loop" ELSE "returned"
    /\ UNCHANGED <<vars, plugged, request, reply, snap, blind>>

\* A camera is there, and mdwrk_new opens a session.  Mdwrk's New follows with
\* the first mdwrk_recv.
OpenSession ==
    /\ at = "wait"
    /\ plugged
    /\ at' = "loop"
    /\ UNCHANGED <<vars, plugged, request, reply, snap, blind>>

\* A slip: nobody looks whether the camera is still there.
CallRecvRegardless ==
    /\ at = "loop"
    /\ at' = "recv"
    /\ request' = "none"
    /\ reply' = "NULL"
    /\ New \/ Recv
    /\ UNCHANGED <<plugged, snap, blind>>

\* mdwrk_recv sends the reply, if it is given one, and waits.
CallRecv ==
    /\ at = "loop"
    /\ plugged
    /\ at' = "recv"
    /\ request' = "none"
    /\ reply' = "NULL"
    /\ New \/ Recv
    /\ UNCHANGED <<plugged, snap, blind>>

\* A slip: the reply nobody has sent is kept.
LeaveLoopWithReply ==
    /\ at = "loop"
    /\ ~plugged
    /\ at' = "wait"
    /\ request' = "none"
    /\ IF pc = "none" THEN UNCHANGED vars ELSE Destroy
    /\ UNCHANGED <<plugged, reply, snap, blind>>

\* The camera has gone: the reply, if any, and the session are destroyed.
LeaveLoop ==
    /\ at = "loop"
    /\ ~plugged
    /\ at' = "wait"
    /\ request' = "none"
    /\ reply' = "NULL"
    /\ IF pc = "none" THEN UNCHANGED vars ELSE Destroy
    /\ UNCHANGED <<plugged, snap, blind>>

\* mdwrk_recv goes on without the camera's doing ...
Wait ==
    /\ at = "recv"
    /\ ReceiveOther \/ ReceiveDisconnect \/ TimeOut \/ Reconnect
    /\ UNCHANGED cameraVars

\* ... until a signal interrupts its poll: the session is closed, and the loop
\* around it opens another ...
Interrupted ==
    /\ at = "recv"
    /\ pc = "poll"
    /\ at' = "wait"
    /\ Destroy
    /\ UNCHANGED <<plugged, request, reply, snap, blind>>

\* ... or it returns a request: reply = zmsg_new().
GetRequest ==
    /\ at = "recv"
    /\ ReceiveRequest
    /\ at' = "command"
    /\ request' \in {"TakePicture", "other"}
    /\ reply' = "empty"
    /\ snap' = IF snap = "this" THEN "old" ELSE snap
    /\ blind' = IF ~plugged /\ blind < 2 THEN blind + 1 ELSE blind
    /\ UNCHANGED plugged

\* A slip: any picture will do, whether uvccapture has taken it or not.
TakePictureUnchecked ==
    /\ at = "command"
    /\ request = "TakePicture"
    /\ \/ plugged /\ snap' = "this"
       \/ UNCHANGED snap
    /\ at' = "file"
    /\ UNCHANGED <<vars, plugged, request, reply, blind>>

\* The old picture is removed and, if the camera is there, uvccapture takes
\* another.  It may fail all the same, and then the loop is left: the reply
\* that says so is destroyed with the session.
TakePicture ==
    /\ at = "command"
    /\ request = "TakePicture"
    /\ \/ /\ plugged
          /\ snap' = "this"
          /\ at' = "file"
          /\ UNCHANGED <<vars, request, reply>>
       \/ /\ snap' = "none"
          /\ at' = "wait"
          /\ request' = "none"
          /\ reply' = "NULL"
          /\ Destroy
    /\ UNCHANGED <<plugged, blind>>

OtherCommand ==
    /\ at = "command"
    /\ request = "other"
    /\ at' = "file"
    /\ UNCHANGED <<vars, plugged, request, reply, snap, blind>>

\* Whatever the command, snap.jpg becomes the reply; without the file, fread
\* gets a null.
ReadPicture ==
    /\ at = "file"
    /\ IF snap = "none"
       THEN at' = "crashed" /\ UNCHANGED reply
       ELSE /\ at' = "loop"
            /\ reply' = IF snap = "this" THEN "this picture" ELSE "old picture"
    /\ UNCHANGED <<vars, plugged, request, snap, blind>>

-----------------------------------------------------------------------------
Plug ==
    /\ ~plugged
    /\ plugged' = TRUE
    /\ blind' = 0
    /\ UNCHANGED <<vars, at, request, reply, snap>>

Unplug ==
    /\ plugged
    /\ plugged' = FALSE
    /\ UNCHANGED <<vars, at, request, reply, snap, blind>>

Alive == at # "crashed"

Outside == (BrokerSends \/ Tick) /\ UNCHANGED cameraVars

Camera ==
    \/ OpenSession
    \/ CallRecv
    \/ LeaveLoop
    \/ Wait
    \/ GetRequest
    \/ TakePicture
    \/ OtherCommand
    \/ ReadPicture

CameraNext ==
    /\ Alive
    /\ Camera \/ Interrupted \/ Plug \/ Unplug \/ Outside

CameraSpec == CameraInit /\ [][CameraNext]_allVars

\* The process runs and time passes.  Nobody promises it a camera or a request.
CameraFairSpec ==
    /\ CameraSpec
    /\ WF_allVars(Alive /\ Camera)
    /\ WF_allVars(Alive /\ Tick /\ UNCHANGED cameraVars)

-----------------------------------------------------------------------------
\* A client that asks for a picture gets one taken for its request, or nothing:
\* never the picture an earlier request or process has left behind
\* (camera.c:48).
PictureIsFresh ==
    at = "loop" /\ request = "TakePicture" => reply = "this picture"

\* However a session has ended, with a reply prepared or without, the next one
\* begins in step with mdwrk_recv, which asserts that a session that has taken a
\* request is given its reply, and that one that has not is given none
\* (mdwrkapi.c:174 and 176, camera.c:63-66).
RepliesMatchSession == at = "loop" => (reply # "NULL" <=> pc = "handle")

\* A camera that is pulled out is noticed with the next request, not before: a
\* worker without a camera takes at most one (camera.c:35).
AtMostOneRequestWithoutCamera == blind <= 1

\* The worker comes back with its camera, however often that was pulled out
\* before: once it stays plugged in, the worker is back in mdwrk_recv after
\* everything it does, or has crashed over a missing picture.
ServesAgain == <>[]plugged => []<>(at \in {"recv", "crashed"})
=============================================================================
