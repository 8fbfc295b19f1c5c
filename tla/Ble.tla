---------------------------------- MODULE Ble ----------------------------------
(***************************************************************************)
(* Bluetooth advertising in the examples (bluetooth.c of the bme688 and    *)
(* the bootloader board): a work item, submitted when the stack is ready   *)
(* and after every disconnection, stops and starts advertising.            *)
(*                                                                         *)
(* External, Zephyr's host: an advertiser that may not connect any more    *)
(* for want of a connection object waits for one; a connection object is   *)
(* in use until the callbacks of its disconnection are through.            *)
(***************************************************************************)
EXTENDS Integers

CONSTANT MaxConn   \* CONFIG_BT_MAX_CONN

ASSUME MaxConnAssumption == MaxConn \in Nat \ {0}

VARIABLES
    bt,        \* the stack: "off", "enabling", "ready", "failed"
    work,      \* advertise_work: "idle", "queued", "running", "requeued"
    adv,       \* the advertiser: "off", "on", "waiting"
    conns,     \* connections
    closing,   \* objects of closed connections, still in use
    advFailed, \* history: the last bt_le_adv_start failed
    owed       \* history: no attempt to start has begun since the last
               \* disconnection

bleVars == <<bt, work, adv, conns, closing, advFailed, owed>>

Full == conns + closing >= MaxConn

\* Mutant: a submission while the handler runs is lost.
SubmitDrops == work' = IF work = "running" THEN "running" ELSE "queued"

\* k_work_submit: at most one submission is queued, also while the handler
\* runs.
Submit == work' = IF work \in {"running", "requeued"} THEN "requeued"
                  ELSE "queued"

\* start_bluetooth_adverts, called once by main(): bt_enable or an error.
StartBluetooth ==
    /\ bt = "off"
    /\ bt' \in {"enabling", "failed"}
    /\ UNCHANGED <<work, adv, conns, closing, advFailed, owed>>

\* bt_ready, called back.
BtReady ==
    /\ bt = "enabling"
    /\ \/ bt' = "ready" /\ Submit
       \/ bt' = "failed" /\ UNCHANGED work
    /\ UNCHANGED <<adv, conns, closing, advFailed, owed>>

\* advertise: bt_le_adv_stop, whose result is ignored, ...
AdvStop ==
    /\ work = "queued"
    /\ work' = "running"
    /\ adv' = "off"
    /\ owed' = FALSE
    /\ UNCHANGED <<bt, conns, closing, advFailed>>

\* Mutant: advertising is not started while somebody is connected.
AdvStartIfFree ==
    /\ work \in {"running", "requeued"}
    /\ work' = IF work = "requeued" THEN "queued" ELSE "idle"
    /\ adv' = IF conns = 0 THEN "on" ELSE "off"
    /\ advFailed' = FALSE
    /\ UNCHANGED <<bt, conns, closing, owed>>

\* ... and bt_le_adv_start, whose failure is logged.
AdvStart ==
    /\ work \in {"running", "requeued"}
    /\ work' = IF work = "requeued" THEN "queued" ELSE "idle"
    /\ \/ adv' = (IF Full THEN "waiting" ELSE "on") /\ advFailed' = FALSE
       \/ adv' = adv /\ advFailed' = TRUE
    /\ UNCHANGED <<bt, conns, closing, owed>>

\* connected, of a central that found the advertiser (external); an error
\* only logs.
Connected ==
    /\ adv = "on" /\ ~Full
    /\ conns' = conns + 1
    /\ adv' = "waiting"
    /\ UNCHANGED <<bt, work, closing, advFailed, owed>>

\* disconnected, for any reason.
Disconnected ==
    /\ conns > 0
    /\ conns' = conns - 1
    /\ closing' = closing + 1
    /\ owed' = TRUE
    /\ Submit
    /\ UNCHANGED <<bt, adv, advFailed>>

\* The host frees a connection object, and resumes an advertiser that waits.
Release ==
    /\ closing > 0
    /\ closing' = closing - 1
    /\ UNCHANGED <<bt, work, adv, conns, advFailed, owed>>

Resume ==
    /\ adv = "waiting" /\ ~Full
    /\ adv' = "on"
    /\ UNCHANGED <<bt, work, conns, closing, advFailed, owed>>

BleOff ==
    /\ bt = "off" /\ work = "idle" /\ adv = "off"
    /\ conns = 0 /\ closing = 0
    /\ advFailed = FALSE /\ owed = FALSE

\* The processor restarts.
BleRestart ==
    /\ bt' = "off" /\ work' = "idle" /\ adv' = "off"
    /\ conns' = 0 /\ closing' = 0
    /\ advFailed' = FALSE /\ owed' = FALSE

\* What the stack does on its own, and the system work queue.
Stack == BtReady \/ AdvStop \/ AdvStart \/ Release \/ Resume

-----------------------------------------------------------------------------
(* Properties.                                                             *)

\* A device whose stack is ready is found by centrals until it has all the
\* connections it can have, whatever disconnects while advertising is stopped
\* or restarted; only a failed start, which nothing retries before the next
\* disconnection, or a restart keeps it silent.
Reachable ==
    bt = "ready" ~> (adv = "on" \/ Full \/ advFailed \/ bt = "off")

\* Advertising is attempted again after every disconnection, also one that
\* the work item does not see because it is running ("k_work_submit" in
\* disconnected, bluetooth.c:96): a failed start is repaired by the next.
Retried == owed ~> ~owed
=============================================================================
