------------------------------- MODULE CameraTest -------------------------------
(***************************************************************************)
(* The camera example on GAP9 (test.c): open the camera, capture a frame,  *)
(* close the camera and run the kernels of module Isp on the frame.  The   *)
(* camera's pins are driven by bsp_hm0360_open and bsp_hm0360_close; the   *)
(* frame arrives while the program waits for an event.                     *)
(***************************************************************************)
EXTENDS Isp

VARIABLES
    app,   \* where main() is
    pins,  \* the camera's pins that are high: its supply, xsleep, xshdown
    frame, \* ImageIn: "empty", "arriving", "complete"
    held   \* the resources main() holds

camVars == <<app, pins, frame, held>>
allVars == <<ispVars, camVars>>

Goto(a, b) == app = a /\ app' = b

\* bsp_hm0360_open: supply, xsleep, xshdown, 10 ms apart.
BspOpen ==
    /\ \/ Goto("open", "open2") /\ pins' = {"csi_pwr"}
       \/ Goto("open2", "open3") /\ pins' = pins \cup {"xsleep"}
       \/ Goto("open3", "probe") /\ pins' = pins \cup {"xshdown"}
    /\ UNCHANGED <<ispVars, frame, held>>

\* The driver (external) finds the camera, or pi_open fails.
OpenCamera ==
    /\ Goto("probe", "alloc") \/ Goto("probe", "failed")
    /\ UNCHANGED <<ispVars, pins, frame, held>>

\* Image buffers, cluster and its L1 memory, or pmsis_exit.
Allocate ==
    /\ \/ Goto("alloc", "cluster") /\ held' = {"l2"}
       \/ Goto("cluster", "l1") /\ held' = held \cup {"cluster"}
       \/ Goto("l1", "capture") /\ held' = held \cup {"l1"}
       \/ /\ \E a \in {"alloc", "cluster", "l1"} : Goto(a, "failed")
          /\ held' = held
    /\ UNCHANGED <<ispVars, pins, frame>>

\* pi_camera_capture_async and PI_CAMERA_CMD_START, after 500 ms.
Capture ==
    /\ Goto("capture", "wait")
    /\ frame' = "arriving"
    /\ UNCHANGED <<ispVars, pins, held>>

\* The camera delivers the frame (external).
FrameArrives ==
    /\ frame = "arriving"
    /\ frame' = "complete"
    /\ UNCHANGED <<ispVars, app, pins, held>>

\* pi_evt_wait, then PI_CAMERA_CMD_STOP.
StopCapture ==
    /\ Goto("wait", "close")
    /\ frame = "complete"
    /\ UNCHANGED <<ispVars, pins, frame, held>>

\* Mutant: the supply is switched off first.
BspCloseSupplyFirst ==
    /\ \/ Goto("close", "close2") /\ pins' = pins \ {"csi_pwr"}
       \/ Goto("close2", "close3") /\ pins' = pins \ {"xsleep"}
       \/ Goto("close3", "closed") /\ pins' = {}
    /\ UNCHANGED <<ispVars, frame, held>>

\* bsp_hm0360_close, in the opposite order.
BspClose ==
    /\ \/ Goto("close", "close2") /\ pins' = pins \ {"xshdown"}
       \/ Goto("close2", "close3") /\ pins' = pins \ {"xsleep"}
       \/ Goto("close3", "closed") /\ pins' = {}
    /\ UNCHANGED <<ispVars, frame, held>>

\* The frame goes to the cluster, unless closing the camera failed.
SendTask ==
    \/ Goto("closed", "isp") /\ IspBegin /\ UNCHANGED <<pins, frame, held>>
    \/ Goto("closed", "failed") /\ UNCHANGED <<ispVars, pins, frame, held>>

\* pi_cluster_send_task returns when cluster_main has; memory and cluster
\* are given back.
Finish ==
    /\ Goto("isp", "done")
    /\ stage = "done"
    /\ held' = held \ {"l1", "cluster"}
    /\ UNCHANGED <<ispVars, pins, frame>>

Stopped == app \in {"done", "failed"} /\ UNCHANGED allVars

Init == IspInit /\ app = "open" /\ pins = {} /\ frame = "empty" /\ held = {}

Main == \/ BspOpen
        \/ OpenCamera
        \/ Allocate
        \/ Capture
        \/ StopCapture
        \/ BspClose
        \/ SendTask
        \/ Finish

Next == \/ Main
        \/ FrameArrives
        \/ IspNext /\ UNCHANGED camVars
        \/ Stopped

Spec == Init /\ [][Next]_allVars

-----------------------------------------------------------------------------
(* Properties.                                                             *)

\* The camera's control pins are high only while it is supplied, on every
\* path through opening, failing and closing (bsp_hm0360_open and _close).
CameraPowered == pins # {} => "csi_pwr" \in pins
=============================================================================
