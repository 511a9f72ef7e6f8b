--------------------------- MODULE DeviceList_proofs --------------------------
(***************************************************************************)
(* Theorems about DeviceList, for every set of pairing codes and devices.  *)
(***************************************************************************)
EXTENDS DeviceList, TLAPS

\* The parts of the type invariant, of which the first is Boolean.
Flags == {first_update, due, disk_full, allow_close} \subseteq BOOLEAN
Values ==
    /\ frame \in {"poll", "auto", "widgets", "closed"}
    /\ pairing_code \in Codes \cup {Blank, Broken}
    /\ devices \subseteq Devices /\ selected_device \in devices \cup {None}
    /\ connection_state \in {"Stopped", "Connecting", "Connected", "Error"}
    /\ refresh_rx \in {None} \cup Refreshes
    /\ answered \in Codes \cup {None}

LEMMA TypeParts == TypeOK <=> Flags /\ Values
BY Zenon DEF TypeOK, Flags, Values

\* The invariant is inductive as it stands: whatever a thread sends, the refresh
\* it belongs to stays one until it is read.
IInv == TypeOK /\ SearchIsShown

LEMMA InvariantInit == Init => IInv
<1> SUFFICES ASSUME Init PROVE IInv
  OBVIOUS
<1>1. Flags
  BY Zenon DEF Init, Flags
<1>2. Values /\ SearchIsShown
  BY CodesAssumption DEF Init, Values, SearchIsShown
<1> QED
  BY <1>1, <1>2, TypeParts, Zenon DEF IInv

LEMMA FlagsStep == Flags /\ [Next]_vars => Flags'
<1> SUFFICES ASSUME Flags, [Next]_vars PROVE Flags'
  OBVIOUS
<1>0. /\ first_update \in BOOLEAN /\ due \in BOOLEAN
      /\ disk_full \in BOOLEAN /\ allow_close \in BOOLEAN
  BY Zenon DEF Flags
<1> SUFFICES /\ first_update' \in BOOLEAN /\ due' \in BOOLEAN
             /\ disk_full' \in BOOLEAN /\ allow_close' \in BOOLEAN
  BY Zenon DEF Flags
<1>1. CASE PollRefresh
  BY <1>0, <1>1, Zenon DEF PollRefresh
<1>2. CASE AutoRefresh
  BY <1>0, <1>2, Zenon DEF AutoRefresh
<1>3. CASE Draw
  BY <1>0, <1>3, Zenon DEF Draw
<1>4. CASE \E code \in Codes \cup {Blank, Broken} : EditCode(code)
  BY <1>0, <1>4, Zenon DEF EditCode
<1>5. CASE ClickRefresh
  BY <1>0, <1>5, Zenon DEF ClickRefresh
<1>6. CASE \E device \in Devices : Select(device)
  BY <1>0, <1>6, Zenon DEF Select
<1>7. CASE Quit
  BY <1>0, <1>7, Zenon DEF Quit
<1>8. CASE Close
  BY <1>0, <1>8, Zenon DEF Close
<1>9. CASE ThreadEnds
  BY <1>0, <1>9, Zenon DEF ThreadEnds
<1>10. CASE TenSeconds
  BY <1>0, <1>10, Zenon DEF TenSeconds
<1>11. CASE DiskFills
  BY <1>0, <1>11, Zenon DEF DiskFills
<1>12. CASE UNCHANGED vars
  BY <1>0, <1>12, Zenon DEF vars
<1> QED
  BY <1>1, <1>2, <1>3, <1>4, <1>5, <1>6, <1>7, <1>8, <1>9, <1>10, <1>11, <1>12 DEF Next, Frame

\* A refresh begins only where none runs, and the display follows.
LEMMA RefreshKeeps ==
    ASSUME Values, Refresh
    PROVE  /\ connection_state' \in {"Stopped", "Connecting", "Connected", "Error"}
           /\ refresh_rx' \in {None} \cup Refreshes
           /\ (connection_state = "Connecting" <=> refresh_rx # None)
                  => (connection_state' = "Connecting" <=> refresh_rx' # None)
<1>1. pairing_code \in Codes => Running(pairing_code) \in Refreshes
  BY DEF Running, Refreshes
<1> QED
  BY <1>1, CodesAssumption DEF Refresh, Values

\* Every step keeps the values, and the display in agreement with the refresh.
LEMMA ValuesStep == Values /\ [Next]_vars => Values'
<1> SUFFICES ASSUME Values, [Next]_vars PROVE Values'
  OBVIOUS
<1>0. /\ Refresh => /\ connection_state' \in {"Stopped", "Connecting", "Connected", "Error"}
                    /\ refresh_rx' \in {None} \cup Refreshes
      /\ refresh_rx # None => refresh_rx \in Refreshes
  BY RefreshKeeps DEF Values
<1>1 CASE PollRefresh
  BY <1>0, <1>1 DEF PollRefresh, Values, Kept, Refreshes
<1>2. CASE AutoRefresh
  BY <1>0, <1>2 DEF AutoRefresh, Values
<1>3. CASE Draw
  BY <1>0, <1>3 DEF Draw, Values
<1>4. CASE \E code \in Codes \cup {Blank, Broken} : EditCode(code)
  BY <1>0, <1>4 DEF EditCode, Values
<1>5. CASE ClickRefresh
  BY <1>0, <1>5 DEF ClickRefresh, Values
<1>6. CASE \E device \in Devices : Select(device)
  BY <1>0, <1>6 DEF Select, Values
<1>7. CASE Quit
  BY <1>0, <1>7 DEF Quit, Values
<1>8. CASE Close
  BY <1>0, <1>8 DEF Close, Values
<1>9 CASE ThreadEnds
  BY <1>0, <1>9 DEF ThreadEnds, Values, Refreshes
<1>10. CASE TenSeconds
  BY <1>0, <1>10 DEF TenSeconds, Values
<1>11. CASE DiskFills
  BY <1>0, <1>11 DEF DiskFills, Values
<1>12. CASE UNCHANGED vars
  BY <1>0, <1>12 DEF vars, Values
<1> QED
  BY <1>1, <1>2, <1>3, <1>4, <1>5, <1>6, <1>7, <1>8, <1>9, <1>10, <1>11, <1>12 DEF Next, Frame

LEMMA ShownStep == Values /\ SearchIsShown /\ [Next]_vars => SearchIsShown'
<1> SUFFICES ASSUME Values, SearchIsShown, [Next]_vars,
                    ~allow_close', frame' # "closed"
             PROVE  connection_state' = "Connecting" <=> refresh_rx' # None
  BY DEF SearchIsShown
<1>0. /\ Refresh => ((connection_state = "Connecting" <=> refresh_rx # None)
                       => (connection_state' = "Connecting" <=> refresh_rx' # None))
      /\ ~allow_close /\ frame # "closed"
             => (connection_state = "Connecting" <=> refresh_rx # None)
  BY RefreshKeeps DEF SearchIsShown
<1>1. CASE PollRefresh
  BY <1>0, <1>1 DEF PollRefresh, SearchIsShown
<1>2. CASE AutoRefresh
  BY <1>0, <1>2 DEF AutoRefresh, SearchIsShown
<1>3. CASE Draw
  BY <1>0, <1>3 DEF Draw, SearchIsShown
<1>4. CASE \E code \in Codes \cup {Blank, Broken} : EditCode(code)
  BY <1>0, <1>4 DEF EditCode, SearchIsShown
<1>5. CASE ClickRefresh
  BY <1>0, <1>5 DEF ClickRefresh, SearchIsShown
<1>6. CASE \E device \in Devices : Select(device)
  BY <1>0, <1>6 DEF Select, SearchIsShown
<1>7. CASE Quit
  BY <1>0, <1>7 DEF Quit, SearchIsShown
<1>8. CASE Close
  BY <1>0, <1>8 DEF Close, SearchIsShown
<1>9 CASE ThreadEnds
  <2>1. refresh_rx # None /\ refresh_rx' # None
    <3>1. refresh_rx \in Refreshes
      BY <1>9 DEF ThreadEnds, Values
    <3>2. refresh_rx' \in Refreshes
      BY <1>9, <3>1 DEF ThreadEnds, Refreshes
    <3> QED
      BY <1>9, <3>2, CodesAssumption DEF ThreadEnds
  <2> QED
    BY <1>0, <1>9, <2>1, Zenon DEF ThreadEnds
<1>10. CASE TenSeconds
  BY <1>0, <1>10 DEF TenSeconds, SearchIsShown
<1>11. CASE DiskFills
  BY <1>0, <1>11 DEF DiskFills, SearchIsShown
<1>12. CASE UNCHANGED vars
  BY <1>0, <1>12 DEF vars, SearchIsShown
<1> QED
  BY <1>1, <1>2, <1>3, <1>4, <1>5, <1>6, <1>7, <1>8, <1>9, <1>10, <1>11, <1>12 DEF Next, Frame

\* The inductive invariant holds in every reachable state.
THEOREM Invariant == Spec => []IInv
<1>1. IInv /\ [Next]_vars => Flags' /\ Values' /\ SearchIsShown'
  BY FlagsStep, ValuesStep, ShownStep, TypeParts, Zenon DEF IInv
<1>2. Flags' /\ Values' => TypeOK'
  BY Zenon DEF TypeOK, Flags, Values
<1> QED
  BY InvariantInit, <1>1, <1>2, PTL DEF Spec, IInv

\* Every variable keeps its type, so the selection is always one of the devices
\* shown, whatever list replaces them (poll_refresh 655-664).
THEOREM TypeCorrect == Spec => []TypeOK
<1>1. IInv => TypeOK
  BY DEF IInv
<1> QED
  BY Invariant, <1>1, PTL

\* However clicks, edits, errors and the refresh of every ten seconds fall, the
\* display says that a search runs exactly while one does (643-646, 655-681).
THEOREM DisplayTellsTheSearch == Spec => []SearchIsShown
<1>1. IInv => SearchIsShown
  BY DEF IInv
<1> QED
  BY Invariant, <1>1, PTL
=============================================================================
