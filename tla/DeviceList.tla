------------------------------ MODULE DeviceList -----------------------------
(***************************************************************************)
(* The list of online devices in Rust-SSH-Connect's window (ConnectApp of  *)
(* src/src/desktop.rs).  A refresh runs on a thread of its own, with the   *)
(* pairing code of the moment it began; its result is read frames later,   *)
(* when the user may have pasted another code.  Frame follows frame: the   *)
(* result is polled, a refresh that is due begins, then the widgets are    *)
(* drawn and take the user's events.                                       *)
(***************************************************************************)
EXTENDS Naturals

CONSTANTS
    Codes,       \* pairing codes that decode
    Devices,
    None

Blank == "blank"   \* no code has been pasted
Broken == "broken" \* one that does not decode

\* A refresh: the code it asked with, and what its thread has sent.
Refreshes == [code : Codes, result : {"running", "ok", "error", "gone"},
              devices : SUBSET Devices]

ASSUME CodesAssumption ==
    /\ Codes \cap {Blank, Broken, None} = {}
    /\ None \notin Devices /\ None \notin Refreshes

VARIABLES
    frame,            \* "poll", "auto", "widgets" or "closed"
    pairing_code,     \* settings.pairing_code
    devices, selected_device,
    connection_state,
    refresh_rx,       \* None, or the refresh that runs
    first_update,
    due,              \* ten seconds have passed since last_refresh
    disk_full,        \* the settings cannot be saved
    allow_close,      \* Quit was chosen
    answered          \* for the properties: the code of the last result read

vars == <<frame, pairing_code, devices, selected_device, connection_state,
          refresh_rx, first_update, due, disk_full, allow_close, answered>>

Running(code) == [code |-> code, result |-> "running", devices |-> {}]

Init ==
    /\ frame = "poll"
    /\ pairing_code \in Codes \cup {Blank}
    /\ devices = {} /\ selected_device = None
    /\ connection_state = "Stopped"
    /\ refresh_rx = None
    /\ first_update = TRUE
    /\ due = FALSE
    /\ disk_full = FALSE
    /\ allow_close = FALSE
    /\ answered = None

-----------------------------------------------------------------------------
\* Faulty: the code is looked at before the refresh that runs.
RefreshDecodesFirst ==
    IF pairing_code \notin Codes \/ disk_full
    THEN connection_state' = "Error" /\ UNCHANGED refresh_rx
    ELSE IF refresh_rx # None
    THEN UNCHANGED <<connection_state, refresh_rx>>
    ELSE refresh_rx' = Running(pairing_code) /\ connection_state' = "Connecting"

\* refresh: one at a time; a code that does not decode, or cannot be saved,
\* is an error, and last_refresh stays as it is.
Refresh ==
    IF refresh_rx # None
    THEN UNCHANGED <<connection_state, refresh_rx>>
    ELSE IF pairing_code \notin Codes \/ disk_full
    THEN connection_state' = "Error" /\ UNCHANGED refresh_rx
    ELSE refresh_rx' = Running(pairing_code) /\ connection_state' = "Connecting"

\* Faulty: the selection stays as it is.
KeptBlindly == selected_device

\* The selection, if the list that was found has it.
Kept == IF selected_device \in refresh_rx.devices THEN selected_device ELSE None

\* Faulty: the receiver is not put back while the thread runs.
PollRefreshTakes ==
    /\ frame = "poll" /\ frame' = "auto"
    /\ refresh_rx' = None
    /\ IF refresh_rx = None \/ refresh_rx.result = "running"
       THEN UNCHANGED <<devices, selected_device, connection_state, due, answered>>
       ELSE /\ due' = FALSE
            /\ answered' = refresh_rx.code
            /\ connection_state' = IF refresh_rx.result = "ok" THEN "Connected" ELSE "Error"
            /\ UNCHANGED <<devices, selected_device>>
    /\ UNCHANGED <<pairing_code, first_update, disk_full, allow_close>>

\* poll_refresh: a list is shown, whatever code asked for it, and the
\* selection kept if it is in it; after an error, or when the thread has died,
\* the old list stays.
PollRefresh ==
    /\ frame = "poll" /\ frame' = "auto"
    /\ IF refresh_rx = None \/ refresh_rx.result = "running"
       THEN UNCHANGED <<devices, selected_device, connection_state, refresh_rx, due, answered>>
       ELSE /\ refresh_rx' = None
            /\ due' = FALSE
            /\ answered' = refresh_rx.code
            /\ IF refresh_rx.result = "ok"
               THEN /\ devices' = refresh_rx.devices
                    /\ selected_device' = Kept
                    /\ connection_state' = "Connected"
               ELSE /\ connection_state' = "Error"
                    /\ UNCHANGED <<devices, selected_device>>
    /\ UNCHANGED <<pairing_code, first_update, disk_full, allow_close>>

\* update: the first frame refreshes, and then every ten seconds, if there is
\* a code.
AutoRefresh ==
    /\ frame = "auto" /\ frame' = "widgets"
    /\ first_update' = FALSE
    /\ IF pairing_code # Blank /\ (first_update \/ (refresh_rx = None /\ due))
       THEN Refresh ELSE UNCHANGED <<connection_state, refresh_rx>>
    /\ UNCHANGED <<pairing_code, devices, selected_device, due, disk_full, allow_close, answered>>

\* A frame without an event.
Draw ==
    /\ frame = "widgets" /\ frame' = "poll"
    /\ UNCHANGED <<pairing_code, devices, selected_device, connection_state,
                   refresh_rx, first_update, due, disk_full, allow_close, answered>>

EditCode(code) ==
    /\ frame = "widgets"
    /\ pairing_code' = code
    /\ frame' = "poll"
    /\ UNCHANGED <<devices, selected_device, connection_state, refresh_rx,
                   first_update, due, disk_full, allow_close, answered>>

ClickRefresh ==
    /\ frame = "widgets" /\ frame' = "poll"
    /\ Refresh
    /\ UNCHANGED <<pairing_code, devices, selected_device, first_update, due,
                   disk_full, allow_close, answered>>

Select(device) ==
    /\ frame = "widgets" /\ frame' = "poll"
    /\ device \in devices
    /\ selected_device' = device
    /\ UNCHANGED <<pairing_code, devices, connection_state, refresh_rx,
                   first_update, due, disk_full, allow_close, answered>>

\* poll_tray: the tray's Quit; frames may follow until the window closes.
Quit ==
    /\ frame = "poll"
    /\ allow_close' = TRUE
    /\ connection_state' = "Stopped"
    /\ UNCHANGED <<frame, pairing_code, devices, selected_device, refresh_rx,
                   first_update, due, disk_full, answered>>

\* The window ends, and Drop cancels the refresh.  Without a tray the close
\* button does this at once, with one it only hides the window.
Close ==
    /\ frame = "poll"
    /\ frame' = "closed"
    /\ refresh_rx' = None
    /\ UNCHANGED <<pairing_code, devices, selected_device, connection_state,
                   first_update, due, disk_full, allow_close, answered>>

-----------------------------------------------------------------------------
\* The thread: list_devices returns a list or an error, within its deadlines,
\* or the thread dies with its sender.
ThreadEnds ==
    /\ refresh_rx # None /\ refresh_rx.result = "running"
    /\ \E result \in {"ok", "error", "gone"},
          found \in SUBSET Devices :
          /\ result # "ok" => found = {}
          /\ refresh_rx' = [refresh_rx EXCEPT !.result = result, !.devices = found]
    /\ UNCHANGED <<frame, pairing_code, devices, selected_device, connection_state,
                   first_update, due, disk_full, allow_close, answered>>

TenSeconds ==
    /\ ~due /\ frame # "closed" /\ due' = TRUE
    /\ UNCHANGED <<frame, pairing_code, devices, selected_device, connection_state,
                   refresh_rx, first_update, disk_full, allow_close, answered>>

DiskFills ==
    /\ frame # "closed" /\ disk_full' = ~disk_full
    /\ UNCHANGED <<frame, pairing_code, devices, selected_device, connection_state,
                   refresh_rx, first_update, due, allow_close, answered>>

Frame == PollRefresh \/ AutoRefresh \/ Draw

Next ==
    \/ Frame
    \/ \E code \in Codes \cup {Blank, Broken} : EditCode(code)
    \/ ClickRefresh
    \/ \E device \in Devices : Select(device)
    \/ Quit \/ Close
    \/ ThreadEnds
    \/ TenSeconds
    \/ DiskFills

\* The window is repainted every 250 ms, threads end, time passes.  Nothing is
\* assumed of the user.
Spec ==
    /\ Init /\ [][Next]_vars
    /\ WF_vars(Frame) /\ WF_vars(ThreadEnds) /\ WF_vars(TenSeconds)

-----------------------------------------------------------------------------
(* Properties.                                                             *)

TypeOK ==
    /\ frame \in {"poll", "auto", "widgets", "closed"}
    /\ pairing_code \in Codes \cup {Blank, Broken}
    /\ devices \subseteq Devices /\ selected_device \in devices \cup {None}
    /\ connection_state \in {"Stopped", "Connecting", "Connected", "Error"}
    /\ refresh_rx \in {None} \cup Refreshes
    /\ {first_update, due, disk_full, allow_close} \subseteq BOOLEAN
    /\ answered \in Codes \cup {None}

\* The display says that a search is under way exactly while one is, and no
\* error of a later click or edit hides it (643-646, 655-681).
SearchIsShown ==
    ~allow_close /\ frame # "closed" =>
        (connection_state = "Connecting" <=> refresh_rx # None)

\* When a code stays and can be saved, then in the end every list that is read
\* was asked for with it: a result that was under way for an earlier code is
\* shown, but not for ever (649-664, 836-841).
ListCatchesUp ==
    \A code \in Codes :
        <>[](pairing_code = code /\ ~disk_full /\ frame # "closed") => <>[](answered = code)
=============================================================================
