------------------------ MODULE McpConnections_proofs ------------------------
(***************************************************************************)
(* Proofs about McpConnections, for all configurations, tools, calls and   *)
(* connections and any number of changes and faults: its types, that no    *)
(* connection is orphaned, that the connection follows the registry and a  *)
(* server that is given up has none, and that the tools on offer are the   *)
(* server's.                                                               *)
(***************************************************************************)
EXTENDS McpConnections, TLAPS

\* Calls that hold a connection, and those that come after connect.
Holding == {"reclosing", "tools", "rest", "closing", "relisting"}
Connected == {"tools", "rest"}

\* What a call carries.  connect is only called for a configuration that is
\* not parked.
Frames ==
    \A w \in Call :
        /\ call[w].stage \in {"reclosing", "opening", "tools", "rest"} => call[w].cfg \in Config
        /\ InStage(w, "opening") => call[w].cfg \notin Parked
        /\ call[w].stage \in Holding <=> call[w].conn \in Connection

\* Without overlap there is one call, and it has the connection in the map.
Solo ==
    ~ overlapped =>
        \A v, w \in Call : InStage(v, "idle") \/ InStage(w, "idle") \/ v = w
Holds ==
    ~ overlapped =>
        \A w \in Call :
            /\ call[w].stage \in Holding => call[w].conn = client
            /\ InStage(w, "opening") => client = Nobody

\* A connection that is up belongs to the map of clients or to a call.
Owns ==
    ~ overlapped =>
        \A n \in open : n = client \/ \E w \in Call : call[w].conn = n

Healthy == ~ overlapped /\ faults = 0

\* The connection in the map is up, and listens once the call has ended.
Up ==
    Healthy =>
        /\ client # Nobody => client \in open
        /\ client # Nobody /\ (\A w \in Call : call[w].stage \notin Connected)
              => client \in listens

Settled == \A w \in Call : call[w].stage \in {"idle", "relisting"}

\* The connection is the one the last snapshot asks for.
Serves(c) ==
    /\ c \in Config \ Parked
    /\ client # Nobody
    /\ signature = Signature[c]
    /\ status = "connected"
    /\ cfg = c
Rests == client = Nobody /\ cfg \in Parked \union {NoConfig}

\* Every call works on the last snapshot, and when none runs its work is done;
\* the monitor finds something to do during connect only.
Follows ==
    (Healthy /\ ~ restored) =>
        /\ Settled => IF seen \in Config \ Parked THEN Serves(seen) ELSE Rests
        /\ \A w \in Call :
            /\ InStage(w, "reclosing") => call[w].cfg = seen /\ cfg = NoConfig
            /\ InStage(w, "opening") => call[w].cfg = seen /\ cfg = seen
            /\ call[w].stage \in Connected => Serves(seen)
            /\ InStage(w, "closing") => seen \notin Config /\ cfg = NoConfig
        /\ timer # NoConfig => \E w \in Call : InStage(w, "opening")

\* The watcher remembers the configuration it handled last.
Remembers == seen \in Config => previous = seen

\* A server that is given up is not connected to, and its connection, if there
\* still is one, is being closed.
GivenUp ==
    (~ overlapped /\ seen \notin Config \ Parked) =>
        /\ cfg \in Parked \union {NoConfig}
        /\ timer = NoConfig
        /\ \A w \in Call :
            /\ call[w].stage \notin {"opening", "tools", "rest"}
            /\ InStage(w, "reclosing") => call[w].cfg \in Parked
        /\ client # Nobody => \E w \in Call : call[w].stage \in {"reclosing", "closing"}

\* What is on offer is what disconnectServer would take back, and is complete
\* once the list was answered, up to a refresh that is under way.
Offers ==
    (~ overlapped /\ ~ shrunk) =>
        /\ offered = tracked
        /\ offered \subseteq listed
        /\ client = Nobody => offered = {}
        /\ (/\ faults = 0 /\ ~ missed
            /\ client # Nobody
            /\ \A w \in Call : call[w].stage \in {"idle", "rest"}
            /\ ~ refresh)
              => offered = listed

Inv ==
    /\ TypeOK
    /\ Frames
    /\ Solo
    /\ Holds
    /\ Owns
    /\ Up
    /\ Remembers
    /\ GivenUp
    /\ Follows
    /\ Offers

-----------------------------------------------------------------------------
(* Types.                                                                   *)

\* The marks are not among what they stand beside.
LEMMA Marks ==
    /\ NoConfig \notin Config /\ "absent" \notin Config /\ Nobody \notin Connection
    /\ MaxChanges \in Nat /\ MaxFaults \in Nat
    /\ Parked \subseteq Config
    /\ \A c \in Config : Signature[c] \in Sig
  BY McpAssumption DEF Sig

\* A fault and a change are counted.
LEMMA CountTypes ==
  ASSUME TypeOK
  PROVE  /\ Fault => faults' \in 0..MaxFaults /\ faults' # 0
         /\ Change => changes' \in 0..MaxChanges
<1>1. faults \in 0..MaxFaults /\ changes \in 0..MaxChanges
  BY DEF TypeOK
<1> QED
  BY <1>1, Marks DEF Fault, Change

\* A call goes to a stage with what it carries, or ends.
LEMMA CallTypes ==
  ASSUME TypeOK, NEW w \in Call
  PROVE  /\ Leave(w) => call' \in [Call -> CallState]
         /\ \A stage, c, n :
              /\ Enter(w, stage, c, n)
              /\ stage \in Holding \union {"opening"}
              /\ c \in Config \union {NoConfig}
              /\ n \in Connection \union {Nobody}
              => call' \in [Call -> CallState]
         /\ call[w].stage \in Holding \union {"idle", "opening"}
         /\ call[w].cfg \in Config \union {NoConfig}
         /\ call[w].conn \in Connection \union {Nobody}
<1>1. call \in [Call -> CallState] /\ Idle \in CallState
  BY DEF TypeOK, Idle, CallState
<1>2. call[w] \in CallState
  BY <1>1
<1>3. \A stage, c, n : stage \in Holding \union {"opening"} /\ c \in Config \union {NoConfig}
                          /\ n \in Connection \union {Nobody}
          => [stage |-> stage, cfg |-> c, conn |-> n] \in CallState
  BY DEF CallState, Holding
<1> QED
  BY <1>1, <1>2, <1>3 DEF Enter, Leave, CallState, Holding

\* The variables of the manager and of the call after the first part of
\* connectServer.
LEMMA BeginConnectType ==
  ASSUME TypeOK, NEW w \in Call, NEW c \in Config,
         NEW t \in Config \union {NoConfig}, BeginConnect(w, c, t)
  PROVE  /\ cfg' \in Config \union {NoConfig}
         /\ client' = client
         /\ signature' \in Sig \union {NoConfig}
         /\ status' \in {"none", "connecting", "connected", "error", "disconnected"}
         /\ timer' \in Config \union {NoConfig}
         /\ call' \in [Call -> CallState]
         /\ overlapped' \in BOOLEAN
         /\ offered' \subseteq Tool
         /\ tracked' \subseteq Tool
<1>0. overlapped' \in BOOLEAN /\ UNCHANGED tools
  BY DEF BeginConnect, Starts, TypeOK
<1>1. CASE Skips(c)
  BY <1>0, <1>1 DEF BeginConnect, TypeOK, tools
<1>2. CASE ~ Skips(c) /\ client # Nobody
  <2>1. Enter(w, "reclosing", c, client)
    BY <1>2 DEF BeginConnect
  <2> QED
    BY <1>0, <1>2, <2>1, CallTypes DEF BeginConnect, TypeOK, tools, Holding
<1>3. CASE ~ Skips(c) /\ client = Nobody
  <2>1. Open(w, c, t) /\ UNCHANGED <<client, signature>>
    BY <1>3 DEF BeginConnect
  <2>2. Enter(w, "opening", c, Nobody) => call' \in [Call -> CallState]
    BY CallTypes
  <2> QED
    BY <1>0, <2>1, <2>2, CallTypes DEF Open, TypeOK, tools
<1> QED
  BY <1>1, <1>2, <1>3

\* The same for disconnectServer.
LEMMA BeginDisconnectType ==
  ASSUME TypeOK, NEW w \in Call, BeginDisconnect(w)
  PROVE  /\ cfg' \in Config \union {NoConfig}
         /\ client' = client
         /\ signature' \in Sig \union {NoConfig}
         /\ status' \in {"none", "connecting", "connected", "error", "disconnected"}
         /\ timer' \in Config \union {NoConfig}
         /\ call' \in [Call -> CallState]
         /\ overlapped' \in BOOLEAN
         /\ offered' \subseteq Tool
         /\ tracked' \subseteq Tool
<1>0. /\ cfg' = NoConfig /\ client' = client /\ signature' = NoConfig
      /\ status' = "disconnected" /\ timer' = NoConfig /\ overlapped' \in BOOLEAN
  BY DEF BeginDisconnect, Starts, TypeOK
<1>1. CASE client # Nobody
  <2>1. Enter(w, "closing", NoConfig, client) /\ UNCHANGED tools
    BY <1>1 DEF BeginDisconnect
  <2> QED
    BY <1>0, <2>1, CallTypes DEF TypeOK, tools, Holding
<1>2. CASE client = Nobody
  BY <1>0, <1>2 DEF BeginDisconnect, Unregister, TypeOK
<1> QED
  BY <1>1, <1>2

\* Every step keeps the types.
LEMMA TypeStep ==
  ASSUME TypeOK, Frames, [Next]_vars
  PROVE  TypeOK'
<1> USE DEF watcher, manager, tools, world
<1>1. ASSUME NEW r \in Entry, ChangeRegistry(r)
      PROVE  TypeOK'
  BY <1>1, CountTypes DEF ChangeRegistry, TypeOK
<1>2. ASSUME NEW l \in SUBSET Tool, ListChanges(l)
      PROVE  TypeOK'
  BY <1>2, CountTypes DEF ListChanges, TypeOK
<1>3. ASSUME NEW w \in Call, SnapshotActive(w)
      PROVE  TypeOK'
  <2>1. registry \in Config /\ timer \in Config \union {NoConfig}
    BY <1>3 DEF SnapshotActive, TypeOK
  <2>2. CASE registry # previous
    BY <1>3, <2>1, <2>2, BeginConnectType DEF SnapshotActive, TypeOK
  <2>3. CASE registry = previous
    BY <1>3, <2>1, <2>3 DEF SnapshotActive, TypeOK
  <2> QED
    BY <2>2, <2>3
<1>4. ASSUME NEW w \in Call, SnapshotInactive(w)
      PROVE  TypeOK'
  <2>2. CASE BeginDisconnect(w)
    BY <1>4, <2>2, BeginDisconnectType DEF SnapshotInactive, TypeOK
  <2>3. CASE UNCHANGED <<manager, tools, call, overlapped>>
    BY <1>4, <2>3 DEF SnapshotInactive, TypeOK
  <2> QED
    BY <1>4, <2>2, <2>3 DEF SnapshotInactive
<1>5. ASSUME NEW w \in Call, Reclosed(w)
      PROVE  TypeOK'
  <2>1. call[w].cfg \in Config
    BY <1>5 DEF Reclosed, InStage, Frames
  <2>2. call' \in [Call -> CallState]
    BY <1>5, <2>1, CallTypes DEF Reclosed, Open
  <2> QED
    BY <1>5, <2>1, <2>2 DEF Reclosed, Open, Unregister, TypeOK
<1>6. ASSUME NEW w \in Call, Closed(w)
      PROVE  TypeOK'
  BY <1>6, CallTypes DEF Closed, Unregister, TypeOK
<1>7. ASSUME NEW w \in Call, NEW n \in Connection, Opened(w, n)
      PROVE  TypeOK'
  <2>1. call[w].cfg \in Config /\ Signature[call[w].cfg] \in Sig
    BY <1>7, Marks DEF Opened, InStage, Frames
  <2>2. call' \in [Call -> CallState]
    BY <1>7, <2>1, CallTypes DEF Opened, Holding
  <2> QED
    BY <1>7, <2>1, <2>2 DEF Opened, TypeOK
<1>8. ASSUME NEW w \in Call, OpenFails(w)
      PROVE  TypeOK'
  BY <1>8, CallTypes, CountTypes DEF OpenFails, ReconnectTimer, TypeOK
<1>9. ASSUME NEW w \in Call, ToolsAnswer(w)
      PROVE  TypeOK'
  <2>1. call' \in [Call -> CallState]
    BY <1>9, CallTypes DEF ToolsAnswer, Holding
  <2> QED
    BY <1>9, <2>1 DEF ToolsAnswer, TypeOK
<1>10. ASSUME NEW w \in Call, ToolsFail(w)
       PROVE  TypeOK'
  <2>1. call' \in [Call -> CallState]
    BY <1>10, CallTypes DEF ToolsFail, Holding
  <2> QED
    BY <1>10, <2>1, CountTypes DEF ToolsFail, TypeOK
<1>11. ASSUME NEW w \in Call, EndConnect(w)
       PROVE  TypeOK'
  BY <1>11, CallTypes DEF EndConnect, TypeOK
<1>12. ASSUME Monitor
       PROVE  TypeOK'
  BY <1>12 DEF Monitor, TypeOK
<1>13. ASSUME NEW w \in Call, TimerFires(w)
       PROVE  TypeOK'
  <2>1. timer \in Config /\ BeginConnect(w, timer, NoConfig)
    BY <1>13 DEF TimerFires, TypeOK
  <2> QED
    BY <1>13, <2>1, BeginConnectType DEF TimerFires, TypeOK
<1>14. ASSUME NEW w \in Call, RefreshFires(w)
       PROVE  TypeOK'
  <2>1. CASE client # Nobody
    <3>1. Enter(w, "relisting", NoConfig, client) /\ overlapped' \in BOOLEAN
      BY <1>14, <2>1 DEF RefreshFires, Starts, TypeOK
    <3>2. call' \in [Call -> CallState]
      BY <3>1, CallTypes DEF TypeOK, Holding
    <3> QED
      BY <1>14, <3>1, <3>2 DEF RefreshFires, TypeOK
  <2>2. CASE client = Nobody
    BY <1>14, <2>2 DEF RefreshFires, TypeOK
  <2> QED
    BY <2>1, <2>2
<1>15. ASSUME NEW n \in Connection, LoseConnection(n)
       PROVE  TypeOK'
  BY <1>15, CountTypes DEF LoseConnection, TypeOK
<1>16. ASSUME UNCHANGED vars
       PROVE  TypeOK'
  BY <1>16 DEF vars, TypeOK
<1> QED
  BY <1>1, <1>2, <1>3, <1>4, <1>5, <1>6, <1>7, <1>8, <1>9, <1>10, <1>11, <1>12,
     <1>13, <1>14, <1>15, <1>16 DEF Next, Snapshot, CallStep

-----------------------------------------------------------------------------
(* What the calls carry.                                                    *)

\* A call that is entered or left, and the others.
LEMMA CallChange ==
  ASSUME TypeOK, NEW w \in Call
  PROVE  /\ Leave(w) =>
              /\ call'[w].stage = "idle" /\ call'[w].conn = Nobody
              /\ \A v \in Call \ {w} : call'[v] = call[v]
         /\ \A stage, c, n : Enter(w, stage, c, n) =>
              /\ call'[w].stage = stage /\ call'[w].cfg = c /\ call'[w].conn = n
              /\ \A v \in Call \ {w} : call'[v] = call[v]
  BY DEF TypeOK, Leave, Enter, Idle

\* Entering with a frame, or leaving, keeps the frames.
LEMMA FrameChange ==
  ASSUME TypeOK, Frames, NEW w \in Call
  PROVE  /\ Leave(w) => Frames'
         /\ \A stage, c, n :
              /\ Enter(w, stage, c, n)
              /\ stage \in {"reclosing", "opening", "tools", "rest"} => c \in Config
              /\ stage = "opening" => c \notin Parked
              /\ stage \in Holding <=> n \in Connection
              => Frames'
         /\ UNCHANGED call => Frames'
<1>1. Nobody \notin Connection
  BY Marks
<1>2. Leave(w) => Frames'
  BY <1>1, CallChange DEF Frames, Holding, InStage
<1>3. ASSUME NEW stage, NEW c, NEW n,
             Enter(w, stage, c, n),
             stage \in {"reclosing", "opening", "tools", "rest"} => c \in Config,
             stage = "opening" => c \notin Parked,
             stage \in Holding <=> n \in Connection
      PROVE  Frames'
  <2>1. /\ call'[w].stage = stage /\ call'[w].cfg = c /\ call'[w].conn = n
        /\ \A v \in Call \ {w} : call'[v] = call[v]
    BY <1>3, CallChange
  <2> QED
    BY <1>3, <2>1 DEF Frames, InStage
<1>4. UNCHANGED call => Frames'
  BY DEF Frames, InStage
<1> QED
  BY <1>2, <1>3, <1>4

\* A call that starts while nothing runs is alone; so is one that goes on.
LEMMA Alone ==
  ASSUME TypeOK, Frames, Solo, NEW w \in Call, ~ overlapped'
  PROVE  /\ Starts(w) =>
              /\ ~ overlapped
              /\ \A v \in Call : call[v].stage = "idle" /\ call[v].conn = Nobody
         /\ ~ overlapped /\ call[w].stage # "idle" =>
              \A v \in Call \ {w} : call[v].stage = "idle" /\ call[v].conn = Nobody
<1>1. \A v \in Call : call[v].stage = "idle" => call[v].conn = Nobody
  BY CallTypes DEF Frames, Holding
<1> QED
  BY <1>1 DEF Starts, Quiet, InStage, Solo, TypeOK

\* What the first part of connectServer does when no other call runs.
LEMMA BeginConnectShape ==
  ASSUME TypeOK, NEW w \in Call, NEW c \in Config, NEW t, BeginConnect(w, c, t)
  PROVE  /\ Starts(w) /\ client' = client /\ offered' = offered /\ tracked' = tracked
         /\ \/ /\ Skips(c) /\ call' = call /\ cfg' = c /\ timer' = t
               /\ signature' = signature /\ status' = status
            \/ /\ client # Nobody /\ Enter(w, "reclosing", c, client)
               /\ cfg' = NoConfig /\ timer' = NoConfig
            \/ /\ client = Nobody /\ c \notin Parked /\ Enter(w, "opening", c, Nobody)
               /\ cfg' = c /\ timer' = t
            \/ /\ client = Nobody /\ c \in Parked /\ Leave(w)
               /\ cfg' = c /\ timer' = NoConfig
  BY DEF BeginConnect, Open, tools

\* What the first part of disconnectServer does.
LEMMA BeginDisconnectShape ==
  ASSUME TypeOK, NEW w \in Call, BeginDisconnect(w)
  PROVE  /\ Starts(w) /\ client' = client /\ cfg' = NoConfig /\ timer' = NoConfig
         /\ \/ /\ client # Nobody /\ Enter(w, "closing", NoConfig, client)
               /\ offered' = offered /\ tracked' = tracked
            \/ /\ client = Nobody /\ call' = call
               /\ offered' = offered \ tracked /\ tracked' = {}
  BY DEF BeginDisconnect, tools, Unregister

\* What the three ways to start a call of connectServer or disconnectServer do.
LEMMA SnapshotShape ==
  ASSUME TypeOK, NEW w \in Call, SnapshotActive(w) \/ SnapshotInactive(w)
  PROVE  \/ registry \in Config /\ registry # previous /\ BeginConnect(w, registry, timer)
              /\ restored' = restored
         \/ registry \in Config /\ registry = previous /\ restored' = TRUE
              /\ UNCHANGED <<manager, tools, call, overlapped>>
         \/ registry \notin Config /\ BeginDisconnect(w) /\ restored' = restored
         \/ registry \notin Config /\ registry # "inactive" /\ previous = NoConfig
              /\ restored' = restored /\ UNCHANGED <<manager, tools, call, overlapped>>
  BY DEF SnapshotActive, SnapshotInactive

\* Every step keeps the frames.
LEMMA FrameStep ==
  ASSUME TypeOK, Frames, [Next]_vars
  PROVE  Frames'
<1>0. Nobody \notin Connection /\ NoConfig \notin Config /\ client \in Connection \union {Nobody}
  BY Marks DEF TypeOK
<1>1. ASSUME NEW w \in Call, NEW c \in Config, NEW t, BeginConnect(w, c, t)
      PROVE  Frames'
  BY <1>0, <1>1, BeginConnectShape, FrameChange DEF Holding
<1>2. ASSUME NEW w \in Call, BeginDisconnect(w)
      PROVE  Frames'
  BY <1>0, <1>2, BeginDisconnectShape, FrameChange DEF Holding
<1>3. ASSUME NEW w \in Call, SnapshotActive(w) \/ SnapshotInactive(w)
      PROVE  Frames'
  <2>1. (\E v \in Call : UNCHANGED call) => Frames'
    BY FrameChange
  <2> QED
    BY <1>1, <1>2, <1>3, <2>1, SnapshotShape
<1>4. ASSUME NEW w \in Call, Reclosed(w)
      PROVE  Frames'
  <2>1. call[w].cfg \in Config
    BY <1>4 DEF Reclosed, InStage, Frames
  <2>2. Leave(w) \/ (call[w].cfg \notin Parked /\ Enter(w, "opening", call[w].cfg, Nobody))
    BY <1>4 DEF Reclosed, Open
  <2> QED
    BY <1>0, <2>1, <2>2, FrameChange DEF Holding
<1>5. ASSUME NEW w \in Call, Closed(w) \/ OpenFails(w) \/ EndConnect(w)
      PROVE  Frames'
  BY <1>5, FrameChange DEF Closed, OpenFails, EndConnect
<1>6. ASSUME NEW w \in Call, NEW n \in Connection, Opened(w, n)
      PROVE  Frames'
  <2>1. call[w].cfg \in Config /\ Enter(w, "tools", call[w].cfg, n)
    BY <1>6 DEF Opened, InStage, Frames
  <2> QED
    BY <1>0, <2>1, FrameChange DEF Holding
<1>7. ASSUME NEW w \in Call, ToolsAnswer(w) \/ ToolsFail(w)
      PROVE  Frames'
  <2>1. CASE InStage(w, "tools")
    <3>1. /\ call[w].cfg \in Config /\ call[w].conn \in Connection
          /\ Enter(w, "rest", call[w].cfg, call[w].conn)
      BY <1>7, <2>1 DEF ToolsAnswer, ToolsFail, InStage, Frames, Holding
    <3> QED
      BY <3>1, FrameChange DEF Holding
  <2>2. CASE ~ InStage(w, "tools")
    BY <1>7, <2>2, FrameChange DEF ToolsAnswer, ToolsFail
  <2> QED
    BY <2>1, <2>2
<1>8. ASSUME NEW w \in Call, TimerFires(w)
      PROVE  Frames'
  BY <1>1, <1>8 DEF TimerFires, TypeOK
<1>9. ASSUME NEW w \in Call, RefreshFires(w)
      PROVE  Frames'
  BY <1>0, <1>9, FrameChange DEF RefreshFires, Holding
<1>10. ASSUME UNCHANGED call
       PROVE  Frames'
  BY <1>10 DEF Frames, InStage
<1>11. (\E r \in Entry : ChangeRegistry(r)) \/ (\E l \in SUBSET Tool : ListChanges(l)) \/ Monitor
          \/ (\E n \in Connection : LoseConnection(n)) \/ UNCHANGED vars
          => UNCHANGED call
  BY DEF ChangeRegistry, ListChanges, Monitor, LoseConnection, vars, manager
<1> QED
  BY <1>3, <1>4, <1>5, <1>6, <1>7, <1>8, <1>9, <1>10, <1>11 DEF Next, Snapshot, CallStep

-----------------------------------------------------------------------------
(* Who holds a connection.                                                  *)

Owned == Solo /\ Holds /\ Owns

\* The first part of connectServer and disconnectServer keeps the owners.
LEMMA BeginOwned ==
  ASSUME TypeOK, Frames, Owned, NEW w \in Call, open' = open,
         \/ \E c \in Config, t \in Config \union {NoConfig} : BeginConnect(w, c, t)
         \/ BeginDisconnect(w)
  PROVE  Owned'
<1>1. SUFFICES ASSUME ~ overlapped'
      PROVE  Owned'
  BY DEF Owned, Solo, Holds, Owns
<1>2. Starts(w) /\ client' = client
  BY BeginConnectShape, BeginDisconnectShape
<1>3. ~ overlapped /\ \A v \in Call : call[v].stage = "idle" /\ call[v].conn = Nobody
  BY <1>1, <1>2, Alone DEF Owned
<1>4. \A v \in Call \ {w} : call'[v] = call[v]
  BY BeginConnectShape, BeginDisconnectShape, CallChange
<1>5. /\ call'[w].stage \in Holding => call'[w].conn = client
      /\ call'[w].stage = "opening" => client = Nobody
  BY <1>3, BeginConnectShape, BeginDisconnectShape, CallChange DEF Holding
<1>6. \A n \in open : n = client
  <2>1. \A n \in open : n = client \/ n = Nobody
    BY <1>3 DEF Owned, Owns
  <2> QED
    BY <2>1, Marks DEF TypeOK
<1>7. Solo'
  BY <1>3, <1>4 DEF Solo, InStage
<1>8. Holds'
  BY <1>2, <1>3, <1>4, <1>5 DEF Holds, InStage, Holding
<1>9. Owns'
  BY <1>2, <1>6 DEF Owns
<1> QED
  BY <1>7, <1>8, <1>9 DEF Owned

\* A call that goes on alone, closes or opens a connection, and the owners.
LEMMA CallOwned ==
  ASSUME TypeOK, Frames, Owned, NEW w \in Call, CallStep(w)
  PROVE  Owned'
<1>0. overlapped' = overlapped /\ call[w].stage # "idle"
  BY DEF CallStep, Reclosed, Closed, Opened, OpenFails, ToolsAnswer, ToolsFail, EndConnect, InStage
<1>1. SUFFICES ASSUME ~ overlapped, ~ overlapped'
      PROVE  Owned'
  BY <1>0 DEF Owned, Solo, Holds, Owns
<1>2. \A v \in Call \ {w} : call[v].stage = "idle" /\ call[v].conn = Nobody
  BY <1>0, <1>1, Alone DEF Owned
<1>3. \A v \in Call \ {w} : call'[v] = call[v]
  BY CallChange DEF CallStep, Reclosed, Open, Closed, Opened, OpenFails, ToolsAnswer, ToolsFail, EndConnect
<1>4. open \subseteq Connection /\ Nobody \notin Connection
  BY Marks DEF TypeOK
<1>5. \A n \in open : n = client \/ n = call[w].conn
  BY <1>1, <1>2, <1>4 DEF Owned, Owns
<1>6. Solo'
  BY <1>2, <1>3 DEF Solo, InStage
<1>7. SUFFICES /\ call'[w].stage \in Holding => call'[w].conn = client'
               /\ call'[w].stage = "opening" => client' = Nobody
               /\ \A n \in open' : n = client'
  <2>1. Holds'
    BY <1>2, <1>3, <1>7 DEF Holds, InStage, Holding
  <2>2. Owns'
    BY <1>7 DEF Owns
  <2> QED
    BY <1>6, <2>1, <2>2 DEF Owned
<1>8. /\ call[w].stage \in Holding => call[w].conn = client
      /\ call[w].stage = "opening" => client = Nobody /\ call[w].conn = Nobody
  BY <1>1, CallTypes DEF Owned, Holds, InStage, Frames, Holding
<1>9. \A n \in open : n = client
  BY <1>0, <1>4, <1>5, <1>8, CallTypes DEF Holding
<1>10. CASE Reclosed(w)
  <2>1. client' = Nobody /\ open' = open \ {client}
    BY <1>8, <1>10 DEF Reclosed, InStage, Holding
  <2>2. call'[w].stage \in {"idle", "opening"}
    BY <1>10, CallChange DEF Reclosed, Open
  <2> QED
    BY <1>9, <2>1, <2>2 DEF Holding
<1>11. CASE Closed(w)
  <2>1. client' = Nobody /\ open' = open \ {client}
    BY <1>8, <1>11 DEF Closed, InStage, Holding
  <2>2. call'[w].stage = "idle"
    BY <1>11, CallChange DEF Closed
  <2> QED
    BY <1>9, <2>1, <2>2 DEF Holding
<1>12. ASSUME NEW n \in Connection, Opened(w, n)
       PROVE  /\ call'[w].stage \in Holding => call'[w].conn = client'
              /\ call'[w].stage = "opening" => client' = Nobody
              /\ \A m \in open' : m = client'
  <2>1. client = Nobody /\ client' = n /\ open' = open \union {n}
    BY <1>8, <1>12 DEF Opened, InStage
  <2>2. call'[w].stage = "tools" /\ call'[w].conn = n
    BY <1>12, CallChange DEF Opened
  <2> QED
    BY <1>4, <1>9, <2>1, <2>2
<1>13. CASE OpenFails(w) \/ EndConnect(w)
  <2>1. client' = client /\ open' = open
    BY <1>13 DEF OpenFails, EndConnect, manager
  <2>2. call'[w].stage = "idle"
    BY <1>13, CallChange DEF OpenFails, EndConnect
  <2> QED
    BY <1>9, <2>1, <2>2 DEF Holding
<1>14. CASE ToolsAnswer(w) \/ ToolsFail(w)
  <2>1. client' = client /\ open' = open /\ call[w].stage \in Holding
    BY <1>14 DEF ToolsAnswer, ToolsFail, manager, Holding
  <2>2. call'[w].stage = "idle" \/ (call'[w].stage = "rest" /\ call'[w].conn = call[w].conn)
    <3>1. Leave(w) \/ Enter(w, "rest", call[w].cfg, call[w].conn)
      BY <1>14 DEF ToolsAnswer, ToolsFail
    <3> QED
      BY <3>1, CallChange
  <2> QED
    BY <1>8, <1>9, <2>1, <2>2 DEF Holding
<1> QED
  BY <1>10, <1>11, <1>12, <1>13, <1>14 DEF CallStep

\* Every step keeps the owners.
LEMMA OwnedStep ==
  ASSUME TypeOK, Frames, Owned, [Next]_vars
  PROVE  Owned'
<1>1. ASSUME UNCHANGED <<client, call, overlapped>>, open' \subseteq open
      PROVE  Owned'
  <2>1. Solo' /\ Holds'
    BY <1>1 DEF Owned, Solo, Holds, InStage
  <2>2. Owns'
    BY <1>1 DEF Owned, Owns
  <2> QED
    BY <2>1, <2>2 DEF Owned
<1>2. ASSUME NEW w \in Call, SnapshotActive(w) \/ SnapshotInactive(w)
      PROVE  Owned'
  <2>1. open' = open /\ timer \in Config \union {NoConfig}
    BY <1>2 DEF SnapshotActive, SnapshotInactive, TypeOK
  <2>2. CASE UNCHANGED <<manager, tools, call, overlapped>>
    BY <1>1, <2>1, <2>2 DEF manager
  <2>3. CASE ~ UNCHANGED <<manager, tools, call, overlapped>>
    BY <1>2, <2>1, <2>3, SnapshotShape, BeginOwned
  <2> QED
    BY <2>2, <2>3
<1>3. ASSUME NEW w \in Call, TimerFires(w)
      PROVE  Owned'
  <2>1. open' = open /\ timer \in Config /\ BeginConnect(w, timer, NoConfig)
    BY <1>3 DEF TimerFires, TypeOK
  <2> QED
    BY <2>1, BeginOwned
<1>4. ASSUME NEW w \in Call, RefreshFires(w)
      PROVE  Owned'
  <2>1. CASE client = Nobody
    BY <1>1, <1>4, <2>1 DEF RefreshFires, manager
  <2>2. CASE client # Nobody /\ overlapped'
    BY <2>2 DEF Owned, Solo, Holds, Owns
  <2>3. CASE client # Nobody /\ ~ overlapped'
    <3>1. Starts(w) /\ Enter(w, "relisting", NoConfig, client) /\ UNCHANGED <<client, open>>
      BY <1>4, <2>3 DEF RefreshFires, manager
    <3>2. ~ overlapped /\ \A v \in Call : call[v].stage = "idle" /\ call[v].conn = Nobody
      BY <2>3, <3>1, Alone DEF Owned
    <3>3. /\ call'[w].stage = "relisting" /\ call'[w].conn = client
          /\ \A v \in Call \ {w} : call'[v] = call[v]
      BY <3>1, CallChange
    <3>4. \A n \in open : n = client
      BY <3>2, Marks DEF Owned, Owns, TypeOK
    <3>5. Solo' /\ Holds'
      BY <3>1, <3>2, <3>3 DEF Solo, Holds, InStage, Holding
    <3>6. Owns'
      BY <3>1, <3>4 DEF Owns
    <3> QED
      BY <3>5, <3>6 DEF Owned
  <2> QED
    BY <2>1, <2>2, <2>3
<1>5. (\E r \in Entry : ChangeRegistry(r)) \/ (\E l \in SUBSET Tool : ListChanges(l)) \/ Monitor
          \/ (\E n \in Connection : LoseConnection(n)) \/ UNCHANGED vars
          => UNCHANGED <<client, call, overlapped>> /\ open' \subseteq open
  BY DEF ChangeRegistry, ListChanges, Monitor, LoseConnection, vars, manager
<1> QED
  BY <1>1, <1>2, <1>3, <1>4, <1>5, CallOwned DEF Next, Snapshot

-----------------------------------------------------------------------------
(* The connection and the registry.                                         *)

Base == TypeOK /\ Frames /\ Owned

\* A history of overlap and faults is never forgotten.
LEMMA HealthyBefore ==
  ASSUME TypeOK, [Next]_vars
  PROVE  /\ Healthy' => Healthy
         /\ overlapped => overlapped'
         /\ faults' = 0 => faults = 0 /\ ~ Fault
         /\ restored => restored'
         /\ shrunk => shrunk'
         /\ missed => missed'
         /\ Fault => ~ Healthy'
<1>1. Fault => faults' # 0
  BY CountTypes
<1>2. (overlapped => overlapped') /\ (faults # 0 => faults' # 0)
  <2>1. faults' = faults \/ Fault
    BY DEF Next, Snapshot, CallStep, ChangeRegistry, ListChanges, SnapshotActive,
           SnapshotInactive, Reclosed, Closed, Opened, OpenFails, ToolsAnswer, ToolsFail,
           EndConnect, TimerFires, RefreshFires, Monitor, LoseConnection, world, vars
  <2>2. overlapped => overlapped'
    <3>1. \A w \in Call : Starts(w) /\ overlapped => overlapped'
      BY DEF Starts
    <3>2. \A w \in Call : \A c, t : BeginConnect(w, c, t) => Starts(w)
      BY DEF BeginConnect
    <3>3. \A w \in Call : BeginDisconnect(w) => Starts(w)
      BY DEF BeginDisconnect
    <3> QED
      BY <3>1, <3>2, <3>3
         DEF Next, Snapshot, CallStep, ChangeRegistry, ListChanges, SnapshotActive,
             SnapshotInactive, Reclosed, Closed, Opened, OpenFails, ToolsAnswer, ToolsFail,
             EndConnect, TimerFires, RefreshFires, Monitor, LoseConnection, vars
  <2> QED
    BY <1>1, <2>1, <2>2
<1>3. restored => restored'
  BY DEF Next, Snapshot, CallStep, ChangeRegistry, ListChanges, SnapshotActive,
         SnapshotInactive, Reclosed, Closed, Opened, OpenFails, ToolsAnswer, ToolsFail,
         EndConnect, TimerFires, RefreshFires, Monitor, LoseConnection, watcher, vars
<1>4. (shrunk => shrunk') /\ (missed => missed')
  <2>1. \A l : ListChanges(l) => (shrunk => shrunk') /\ (missed => missed')
    BY DEF ListChanges
  <2>2. (\A l : ~ ListChanges(l)) => UNCHANGED <<shrunk, missed>>
    BY DEF Next, Snapshot, CallStep, ChangeRegistry, SnapshotActive,
           SnapshotInactive, Reclosed, Closed, Opened, OpenFails, ToolsAnswer, ToolsFail,
           EndConnect, TimerFires, RefreshFires, Monitor, LoseConnection, world, vars
  <2> QED
    BY <2>1, <2>2
<1> QED
  BY <1>1, <1>2, <1>3, <1>4 DEF Healthy

\* A call that goes on without overlap is alone, and the map has its connection.
LEMMA CallAlone ==
  ASSUME Base, NEW w \in Call, CallStep(w), ~ overlapped'
  PROVE  /\ ~ overlapped /\ call[w].stage # "idle"
         /\ \A v \in Call \ {w} : call[v].stage = "idle" /\ call'[v] = call[v]
         /\ call[w].stage \in Holding => call[w].conn = client /\ client # Nobody
         /\ call[w].stage = "opening" => client = Nobody
<1>1. overlapped' = overlapped /\ call[w].stage # "idle" /\ ~ overlapped'
  BY DEF CallStep, Reclosed, Closed, Opened, OpenFails, ToolsAnswer, ToolsFail, EndConnect,
         InStage
<1>2. \A v \in Call \ {w} : call[v].stage = "idle"
  BY <1>1, Alone DEF Base, Owned
<1>3. \A v \in Call \ {w} : call'[v] = call[v]
  BY CallChange DEF Base, CallStep, Reclosed, Open, Closed, Opened, OpenFails, ToolsAnswer,
                    ToolsFail, EndConnect
<1> QED
  BY <1>1, <1>2, <1>3, Marks DEF Base, Owned, Holds, Frames, InStage

\* A call that starts without overlap is alone.
LEMMA StartAlone ==
  ASSUME Base, NEW w \in Call, Starts(w), ~ overlapped'
  PROVE  \A v \in Call : call[v].stage = "idle"
  BY Alone DEF Base, Owned

\* The steps that neither start nor continue a call, and those of a snapshot
\* that find nothing to do, leave the manager's connection alone.
LEMMA Bystanders ==
  ASSUME TypeOK
  PROVE  /\ \A r \in Entry : ChangeRegistry(r) =>
              UNCHANGED <<seen, previous, restored, manager, tools, open, listens, call,
                          listed, refresh, faults, overlapped, shrunk, missed>>
         /\ Monitor => UNCHANGED <<seen, previous, restored, cfg, client, signature, status,
                          tools, open, listens, call, listed, refresh, faults, overlapped,
                          shrunk, missed>>
         /\ \A n \in Connection : LoseConnection(n) => Fault
  BY DEF ChangeRegistry, Monitor, LoseConnection, watcher, world

\* Every step keeps the connection in the map up and listening.
LEMMA UpStep ==
  ASSUME Base, Up, [Next]_vars
  PROVE  Up'
<1>1. SUFFICES ASSUME Healthy'
      PROVE  Up'
  BY DEF Up
<1>2. /\ Healthy /\ ~ Fault
      /\ client # Nobody => client \in open
      /\ client # Nobody /\ (\A w \in Call : call[w].stage \notin Connected) => client \in listens
  BY <1>1, HealthyBefore DEF Base, Up
<1>3. ASSUME UNCHANGED <<client, open, listens>>,
             \A v \in Call : call[v].stage \in Connected => call'[v].stage \in Connected
      PROVE  Up'
  BY <1>2, <1>3 DEF Up
<1>4. ASSUME NEW w \in Call, Starts(w), UNCHANGED <<client, open, listens>>
      PROVE  Up'
  <2>1. \A v \in Call : call[v].stage = "idle"
    BY <1>1, <1>4, StartAlone DEF Healthy
  <2> QED
    BY <1>3, <1>4, <2>1 DEF Connected
<1>5. ASSUME NEW w \in Call, SnapshotActive(w) \/ SnapshotInactive(w)
      PROVE  Up'
  <2>1. UNCHANGED <<open, listens>>
    BY <1>5 DEF SnapshotActive, SnapshotInactive
  <2>2. UNCHANGED <<client, call>> \/ (Starts(w) /\ UNCHANGED client)
    <3>1. \A c \in Config : \A t : BeginConnect(w, c, t) => Starts(w) /\ UNCHANGED client
      BY BeginConnectShape DEF Base
    <3> QED
      BY <1>5, <3>1, SnapshotShape, BeginDisconnectShape DEF Base, manager
  <2> QED
    BY <1>3, <1>4, <2>1, <2>2
<1>6. ASSUME NEW w \in Call, TimerFires(w)
      PROVE  Up'
  <2>1. timer \in Config /\ BeginConnect(w, timer, NoConfig) /\ UNCHANGED <<open, listens>>
    BY <1>6 DEF TimerFires, Base, TypeOK
  <2> QED
    BY <1>4, <2>1, BeginConnectShape DEF Base
<1>7. ASSUME NEW w \in Call, RefreshFires(w)
      PROVE  Up'
  <2>1. UNCHANGED <<client, open, listens>> /\ (UNCHANGED call \/ Starts(w))
    BY <1>7 DEF RefreshFires, manager
  <2> QED
    BY <1>3, <1>4, <2>1
<1>8. ASSUME NEW w \in Call, CallStep(w)
      PROVE  Up'
  <2>1. /\ \A v \in Call \ {w} : call'[v] = call[v]
        /\ call[w].stage \in Holding => call[w].conn = client /\ client # Nobody
    BY <1>1, <1>8, CallAlone DEF Healthy
  <2>2. CASE Reclosed(w) \/ Closed(w)
    BY <2>2 DEF Reclosed, Closed, Up
  <2>3. ASSUME NEW n \in Connection, Opened(w, n)
        PROVE  Up'
    <3>1. call'[w].stage = "tools" /\ client' = n /\ open' = open \union {n}
      BY <2>3, CallChange DEF Opened, Base
    <3> QED
      BY <3>1 DEF Up, Connected
  <2>4. CASE OpenFails(w)
    BY <1>2, <2>4 DEF OpenFails
  <2>5. CASE ToolsAnswer(w) \/ ToolsFail(w)
    <3>1. UNCHANGED <<client, open, listens>> /\ call[w].stage \in {"tools", "relisting"}
      BY <2>5 DEF ToolsAnswer, ToolsFail, manager
    <3>2. call[w].stage = "tools" => call'[w].stage = "rest"
      BY <2>5, CallChange DEF ToolsAnswer, ToolsFail, Base, InStage
    <3> QED
      BY <1>3, <2>1, <3>1, <3>2 DEF Connected
  <2>6. CASE EndConnect(w)
    <3>1. /\ call[w].stage = "rest" /\ UNCHANGED <<client, open>>
          /\ listens' = listens \union ({call[w].conn} \intersect open)
      BY <2>6 DEF EndConnect, InStage, manager
    <3> QED
      BY <1>2, <2>1, <3>1 DEF Up, Holding
  <2> QED
    BY <1>8, <2>2, <2>3, <2>4, <2>5, <2>6 DEF CallStep
<1>9. ASSUME NEW l \in SUBSET Tool, ListChanges(l)
      PROVE  Up'
  BY <1>3, <1>9 DEF ListChanges, manager
<1>10. CASE UNCHANGED vars
  BY <1>3, <1>10 DEF vars
<1>11. (\E r \in Entry : ChangeRegistry(r)) \/ Monitor => Up'
  BY <1>3, Bystanders DEF Base, manager
<1> QED
  BY <1>2, <1>5, <1>6, <1>7, <1>8, <1>9, <1>10, <1>11, Bystanders DEF Base, Next, Snapshot

\* What an idle manager has done, from Follows.
LEMMA IdleFollows ==
  ASSUME Base, Follows, Healthy, ~ restored, \A v \in Call : call[v].stage = "idle"
  PROVE  /\ IF seen \in Config \ Parked THEN Serves(seen) ELSE Rests
         /\ timer = NoConfig
  BY DEF Follows, Settled, InStage

\* The first part of connectServer, for the configuration in the new snapshot.
LEMMA ConnectFollows ==
  ASSUME Base, Follows, NEW w \in Call, NEW c \in Config, BeginConnect(w, c, timer),
         seen' = c, Healthy, ~ restored, Healthy'
  PROVE  Follows'
<1>1. Starts(w) /\ client' = client
  BY BeginConnectShape DEF Base
<1>2. \A v \in Call : call[v].stage = "idle"
  BY <1>1, StartAlone DEF Healthy
<1>3. timer = NoConfig
  BY <1>2, IdleFollows
<1>4. CASE Skips(c) /\ call' = call /\ cfg' = c /\ timer' = timer
              /\ signature' = signature /\ status' = status
  <2>1. Serves(c)'
    BY <1>1, <1>4 DEF Skips, Serves
  <2> QED
    BY <1>2, <1>3, <1>4, <2>1 DEF Follows, InStage, Connected, Serves
<1>5. CASE Enter(w, "reclosing", c, client) /\ cfg' = NoConfig /\ timer' = NoConfig
  <2>1. call'[w].stage = "reclosing" /\ call'[w].cfg = c /\ \A v \in Call \ {w} : call'[v] = call[v]
    BY <1>5, CallChange DEF Base
  <2> QED
    BY <1>2, <1>5, <2>1 DEF Follows, Settled, InStage, Connected
<1>6. CASE Enter(w, "opening", c, Nobody) /\ cfg' = c /\ timer' = timer
  <2>1. call'[w].stage = "opening" /\ call'[w].cfg = c /\ \A v \in Call \ {w} : call'[v] = call[v]
    BY <1>6, CallChange DEF Base
  <2> QED
    BY <1>2, <1>6, <2>1 DEF Follows, Settled, InStage, Connected
<1>7. CASE client = Nobody /\ c \in Parked /\ Leave(w) /\ cfg' = c /\ timer' = NoConfig
  <2>1. call'[w].stage = "idle" /\ \A v \in Call \ {w} : call'[v] = call[v]
    BY <1>7, CallChange DEF Base
  <2>2. Rests'
    BY <1>1, <1>7 DEF Rests
  <2> QED
    BY <1>2, <1>7, <2>1, <2>2 DEF Follows, InStage, Connected
<1> QED
  BY <1>4, <1>5, <1>6, <1>7, BeginConnectShape DEF Base

\* The first part of disconnectServer, for a snapshot without a configuration.
LEMMA DisconnectFollows ==
  ASSUME Base, Follows, NEW w \in Call, BeginDisconnect(w), seen' \notin Config,
         Healthy, ~ restored, Healthy'
  PROVE  Follows'
<1>1. Starts(w) /\ client' = client /\ cfg' = NoConfig /\ timer' = NoConfig
  BY BeginDisconnectShape DEF Base
<1>2. \A v \in Call : call[v].stage = "idle"
  BY <1>1, StartAlone DEF Healthy
<1>3. CASE Enter(w, "closing", NoConfig, client)
  <2>1. call'[w].stage = "closing" /\ \A v \in Call \ {w} : call'[v] = call[v]
    BY <1>3, CallChange DEF Base
  <2> QED
    BY <1>1, <1>2, <2>1 DEF Follows, Settled, InStage, Connected
<1>4. CASE client = Nobody /\ call' = call
  <2>1. Rests'
    BY <1>1, <1>4 DEF Rests
  <2> QED
    BY <1>1, <1>2, <1>4, <2>1 DEF Follows, InStage, Connected
<1> QED
  BY <1>3, <1>4, BeginDisconnectShape DEF Base

\* A call that goes on keeps to the last snapshot.
LEMMA CallFollows ==
  ASSUME Base, Follows, Up, NEW w \in Call, CallStep(w),
         Healthy, ~ restored, Healthy', ~ Fault
  PROVE  Follows'
<1>1. /\ \A v \in Call \ {w} : call[v].stage = "idle" /\ call'[v] = call[v]
      /\ call[w].stage # "idle"
      /\ call[w].stage \in Holding => call[w].conn = client /\ client # Nobody
  BY CallAlone DEF Healthy
<1>2. seen' = seen
  BY DEF CallStep, Reclosed, Closed, Opened, OpenFails, ToolsAnswer, ToolsFail, EndConnect, watcher
<1>3. /\ call[w].stage = "relisting" =>
            IF seen \in Config \ Parked THEN Serves(seen) ELSE Rests
      /\ call[w].stage = "reclosing" => call[w].cfg = seen /\ cfg = NoConfig
      /\ call[w].stage = "opening" => call[w].cfg = seen /\ cfg = seen
      /\ call[w].stage \in Connected => Serves(seen)
      /\ call[w].stage = "closing" => seen \notin Config /\ cfg = NoConfig
      /\ call[w].stage # "opening" => timer = NoConfig
  BY <1>1 DEF Follows, Settled, InStage
<1>4. ASSUME call'[w].stage = "idle", timer' = NoConfig,
             (IF seen \in Config \ Parked THEN Serves(seen) ELSE Rests)'
      PROVE  Follows'
  BY <1>1, <1>2, <1>3, <1>4 DEF Follows, InStage, Connected
<1>5. CASE Reclosed(w)
  <2> PICK c \in Config : c = call[w].cfg
    BY <1>5 DEF Reclosed, InStage, Base, Frames
  <2>1. c = seen /\ client' = Nobody /\ Open(w, c, timer)
    BY <1>3, <1>5 DEF Reclosed, InStage
  <2>2. CASE c \in Parked
    <3>1. cfg' = c /\ timer' = NoConfig /\ call'[w].stage = "idle"
      BY <2>1, <2>2, CallChange DEF Open, Base
    <3>2. Rests'
      BY <2>1, <2>2, <3>1 DEF Rests
    <3> QED
      BY <1>2, <1>4, <2>1, <2>2, <3>1, <3>2
  <2>3. CASE c \notin Parked
    <3>1. cfg' = c /\ call'[w].stage = "opening" /\ call'[w].cfg = c
      BY <2>1, <2>3, CallChange DEF Open, Base
    <3> QED
      BY <1>1, <1>2, <1>3, <2>1, <3>1 DEF Follows, Settled, InStage, Connected
  <2> QED
    BY <2>2, <2>3
<1>6. CASE Closed(w)
  <2>1. /\ call[w].stage = "closing" /\ client' = Nobody /\ cfg' = cfg /\ timer' = timer
        /\ call'[w].stage = "idle"
    BY <1>6, CallChange DEF Closed, InStage, Base
  <2>2. Rests' /\ seen' \notin Config
    BY <1>2, <1>3, <2>1 DEF Rests
  <2> QED
    BY <1>3, <1>4, <2>1, <2>2
<1>7. ASSUME NEW n \in Connection, Opened(w, n)
      PROVE  Follows'
  <2> PICK c \in Config \ Parked : c = call[w].cfg
    BY <1>7 DEF Opened, InStage, Base, Frames
  <2>1. /\ c = seen /\ cfg' = c /\ client' = n /\ signature' = Signature[c]
        /\ status' = "connected" /\ timer' = NoConfig /\ call'[w].stage = "tools"
    BY <1>3, <1>7, CallChange DEF Opened, InStage, Base
  <2>2. Serves(c)'
    BY <2>1, Marks DEF Serves
  <2> QED
    BY <1>1, <1>2, <1>3, <2>1, <2>2 DEF Follows, Settled, InStage, Connected, Serves
<1>8. CASE OpenFails(w)
  BY <1>8 DEF OpenFails
<1>9. CASE ToolsAnswer(w) \/ ToolsFail(w)
  <2>1. UNCHANGED manager /\ call[w].stage \in {"tools", "relisting"}
    BY <1>9 DEF ToolsAnswer, ToolsFail
  <2>2. /\ call[w].stage = "tools" => call'[w].stage = "rest"
        /\ call[w].stage = "relisting" => call'[w].stage = "idle"
    BY <1>9, CallChange DEF ToolsAnswer, ToolsFail, Base, InStage
  <2>3. timer = NoConfig /\ timer' = NoConfig
    BY <1>3, <2>1 DEF manager
  <2>4. CASE call[w].stage = "tools"
    <3>1. Serves(seen)'
      BY <1>2, <1>3, <2>1, <2>4 DEF Serves, Connected, manager
    <3> QED
      BY <1>1, <1>2, <1>3, <2>2, <2>3, <2>4, <3>1 DEF Follows, Settled, InStage, Connected
  <2>5. CASE call[w].stage = "relisting"
    <3>1. (IF seen \in Config \ Parked THEN Serves(seen) ELSE Rests)'
      BY <1>2, <1>3, <2>1, <2>5 DEF Serves, Rests, manager
    <3> QED
      BY <1>4, <2>2, <2>3, <2>5, <3>1
  <2> QED
    BY <2>1, <2>4, <2>5
<1>10. CASE EndConnect(w)
  <2>1. UNCHANGED manager /\ call[w].stage = "rest" /\ call'[w].stage = "idle"
    BY <1>10, CallChange DEF EndConnect, InStage, Base
  <2>2. timer' = NoConfig
    BY <1>3, <2>1 DEF manager
  <2>3. Serves(seen)' /\ seen' \in Config \ Parked
    BY <1>2, <1>3, <2>1 DEF Serves, Connected, manager
  <2> QED
    BY <1>4, <2>1, <2>2, <2>3
<1> QED
  BY <1>5, <1>6, <1>7, <1>8, <1>9, <1>10 DEF CallStep

\* Every step keeps to the last snapshot.
LEMMA FollowsStep ==
  ASSUME Base, Remembers, Follows, Up, [Next]_vars
  PROVE  Follows'
<1>1. SUFFICES ASSUME Healthy', ~ restored'
      PROVE  Follows'
  BY DEF Follows
<1>2. Healthy /\ ~ Fault /\ ~ restored
  BY <1>1, HealthyBefore DEF Base
<1>3. ASSUME UNCHANGED <<seen, previous, manager, call>>
      PROVE  Follows'
  BY <1>2, <1>3 DEF Follows, Settled, Serves, Rests, InStage, manager
<1>4. ASSUME NEW w \in Call, SnapshotActive(w)
      PROVE  Follows'
  <2>1. registry \in Config /\ seen' = registry
    BY <1>4 DEF SnapshotActive
  <2>2. BeginConnect(w, registry, timer)
    BY <1>1, <1>4 DEF SnapshotActive
  <2> QED
    BY <1>1, <1>2, <2>1, <2>2, ConnectFollows
<1>5. ASSUME NEW w \in Call, SnapshotInactive(w)
      PROVE  Follows'
  <2>1. seen' = registry /\ registry \notin Config
    BY <1>5 DEF SnapshotInactive
  <2>2. CASE BeginDisconnect(w)
    BY <1>1, <1>2, <2>1, <2>2, DisconnectFollows
  <2>3. CASE UNCHANGED <<manager, call>> /\ previous = NoConfig
    <3>1. seen \notin Config
      BY <2>3, Marks DEF Remembers
    <3>2. \A v \in Call : call[v].stage \notin {"reclosing", "opening"} \union Connected
      BY <1>2, <3>1 DEF Follows, Serves, Base, Frames, InStage, Connected
    <3> QED
      BY <1>2, <2>1, <2>3, <3>1, <3>2 DEF Follows, Settled, Rests, InStage, manager
  <2> QED
    BY <1>5, <2>2, <2>3 DEF SnapshotInactive
<1>6. ASSUME NEW w \in Call, TimerFires(w)
      PROVE  Follows'
  <2>1. timer \in Config /\ BeginConnect(w, timer, NoConfig) /\ timer # NoConfig
    BY <1>6 DEF TimerFires, Base, TypeOK
  <2>2. \A v \in Call : call[v].stage = "idle"
    BY <1>1, <2>1, BeginConnectShape, StartAlone DEF Base, Healthy
  <2> QED
    BY <1>2, <2>1, <2>2, IdleFollows
<1>7. ASSUME NEW w \in Call, RefreshFires(w)
      PROVE  Follows'
  <2>1. UNCHANGED <<seen, previous, manager>>
    BY <1>7 DEF RefreshFires, watcher
  <2>2. CASE client = Nobody
    BY <1>3, <1>7, <2>1, <2>2 DEF RefreshFires
  <2>3. CASE client # Nobody
    <3>1. Starts(w) /\ Enter(w, "relisting", NoConfig, client)
      BY <1>7, <2>3 DEF RefreshFires
    <3>2. \A v \in Call : call[v].stage = "idle"
      BY <1>1, <3>1, StartAlone DEF Healthy
    <3>3. call'[w].stage = "relisting" /\ \A v \in Call \ {w} : call'[v] = call[v]
      BY <3>1, CallChange DEF Base
    <3>4. /\ IF seen \in Config \ Parked THEN Serves(seen) ELSE Rests
          /\ timer = NoConfig
      BY <1>2, <3>2, IdleFollows
    <3> QED
      BY <2>1, <3>2, <3>3, <3>4 DEF Follows, Serves, Rests, InStage, Connected, manager
  <2> QED
    BY <2>2, <2>3
<1>8. ASSUME Monitor
      PROVE  Follows'
  <2>1. UNCHANGED <<seen, previous, cfg, client, signature, status, call>>
    BY <1>8, Bystanders DEF Base
  <2>2. /\ status # "connected" \/ client = Nobody
        /\ cfg \notin Parked \union {NoConfig}
    BY <1>8 DEF Monitor
  <2>3. ~ Serves(seen) /\ ~ Rests
    BY <2>2 DEF Serves, Rests
  <2>4. \E v \in Call : InStage(v, "opening")
    <3>1. PICK v \in Call : call[v].stage \notin {"idle", "relisting"}
      BY <1>2, <2>3 DEF Follows, Settled
    <3>2. call[v].stage \in {"reclosing", "opening", "tools", "rest", "closing"}
      BY <3>1, CallTypes DEF Base, Holding
    <3> QED
      BY <1>2, <2>2, <2>3, <3>2 DEF Follows, InStage, Connected
  <2> QED
    BY <1>2, <2>1, <2>4 DEF Follows, Settled, Serves, Rests, InStage
<1>9. ASSUME NEW l \in SUBSET Tool, ListChanges(l)
      PROVE  Follows'
  BY <1>3, <1>9 DEF ListChanges, watcher
<1>10. CASE UNCHANGED vars
  BY <1>3, <1>10 DEF vars, manager
<1>11. (\E r \in Entry : ChangeRegistry(r)) => Follows'
  BY <1>3, Bystanders DEF Base
<1>12. ASSUME NEW w \in Call, CallStep(w)
       PROVE  Follows'
  BY <1>1, <1>2, <1>12, CallFollows
<1> QED
  BY <1>2, <1>4, <1>5, <1>6, <1>7, <1>8, <1>9, <1>10, <1>11, <1>12, Bystanders
     DEF Base, Next, Snapshot

-----------------------------------------------------------------------------
(* A server the registry has given up.                                      *)

\* A snapshot that is handled is remembered.
LEMMA RemembersStep ==
  ASSUME Base, Remembers, [Next]_vars
  PROVE  Remembers'
<1>1. ASSUME NEW w \in Call, SnapshotActive(w) \/ SnapshotInactive(w)
      PROVE  Remembers'
  BY <1>1 DEF SnapshotActive, SnapshotInactive, Remembers
<1>2. (\A w \in Call : ~ SnapshotActive(w) /\ ~ SnapshotInactive(w)) => UNCHANGED <<seen, previous>>
  BY DEF Next, Snapshot, CallStep, ChangeRegistry, ListChanges, Reclosed, Closed, Opened,
         OpenFails, ToolsAnswer, ToolsFail, EndConnect, TimerFires, RefreshFires, Monitor,
         LoseConnection, watcher, vars
<1> QED
  BY <1>1, <1>2 DEF Remembers

\* Nothing but a snapshot takes up a server that is given up, and a snapshot
\* only takes up what the registry asks for.
LEMMA GivenUpStep ==
  ASSUME Base, Remembers, GivenUp, [Next]_vars
  PROVE  GivenUp'
<1>1. SUFFICES ASSUME ~ overlapped', seen' \notin Config \ Parked
      PROVE  GivenUp'
  BY DEF GivenUp
<1>2. ~ overlapped
  BY <1>1, HealthyBefore DEF Base
<1> DEFINE Off == seen \notin Config \ Parked
<1>3. Off =>
        /\ cfg \in Parked \union {NoConfig}
        /\ timer = NoConfig
        /\ \A w \in Call :
            /\ call[w].stage \notin {"opening", "tools", "rest"}
            /\ call[w].stage = "reclosing" => call[w].cfg \in Parked
        /\ client # Nobody => \E w \in Call : call[w].stage \in {"reclosing", "closing"}
  BY <1>2 DEF GivenUp, InStage
<1>4. ASSUME Off, UNCHANGED <<cfg, timer, client, call>>
      PROVE  GivenUp'
  BY <1>3, <1>4 DEF GivenUp, InStage
<1>5. ASSUME NEW w \in Call, \A v \in Call \ {w} : call'[v].stage = "idle",
             call'[w].stage = "idle", cfg' \in Parked \union {NoConfig}, timer' = NoConfig,
             client' = Nobody
      PROVE  GivenUp'
  BY <1>5 DEF GivenUp, InStage
<1>6. ASSUME NEW w \in Call, SnapshotActive(w)
      PROVE  GivenUp'
  <2>1. registry \in Parked /\ registry # seen
    BY <1>1, <1>6 DEF SnapshotActive
  <2>2. CASE registry = previous /\ UNCHANGED <<manager, tools, call, overlapped>>
    <3>1. Off
      BY <2>1, <2>2 DEF Remembers
    <3> QED
      BY <1>4, <2>2, <3>1 DEF manager
  <2>3. CASE BeginConnect(w, registry, timer)
    <3> PICK c \in Config : c = registry /\ c \in Parked
      BY <2>1, Marks
    <3>1. Starts(w) /\ ~ Skips(c) /\ client' = client
      BY <2>3, BeginConnectShape DEF Base, Skips
    <3>2. \A v \in Call : call[v].stage = "idle"
      BY <1>1, <3>1, StartAlone
    <3>3. CASE Enter(w, "reclosing", c, client) /\ cfg' = NoConfig /\ timer' = NoConfig
      <4>1. /\ call'[w].stage = "reclosing" /\ call'[w].cfg = c
            /\ \A v \in Call \ {w} : call'[v] = call[v]
        BY <3>3, CallChange DEF Base
      <4> QED
        BY <3>2, <3>3, <4>1 DEF GivenUp, InStage
    <3>4. CASE client = Nobody /\ Leave(w) /\ cfg' = c /\ timer' = NoConfig
      <4>1. call'[w].stage = "idle" /\ \A v \in Call \ {w} : call'[v] = call[v]
        BY <3>4, CallChange DEF Base
      <4> QED
        BY <1>5, <3>1, <3>2, <3>4, <4>1
    <3> QED
      BY <2>3, <3>1, <3>3, <3>4, BeginConnectShape DEF Base
  <2> QED
    BY <1>6, <2>2, <2>3 DEF SnapshotActive
<1>7. ASSUME NEW w \in Call, SnapshotInactive(w)
      PROVE  GivenUp'
  <2>1. CASE previous = NoConfig /\ UNCHANGED <<manager, tools, call, overlapped>>
    <3>1. Off
      BY <2>1, Marks DEF Remembers
    <3> QED
      BY <1>4, <2>1, <3>1 DEF manager
  <2>2. CASE BeginDisconnect(w)
    <3>1. Starts(w) /\ client' = client /\ cfg' = NoConfig /\ timer' = NoConfig
      BY <2>2, BeginDisconnectShape DEF Base
    <3>2. \A v \in Call : call[v].stage = "idle"
      BY <1>1, <3>1, StartAlone
    <3>3. CASE Enter(w, "closing", NoConfig, client)
      <4>1. call'[w].stage = "closing" /\ \A v \in Call \ {w} : call'[v] = call[v]
        BY <3>3, CallChange DEF Base
      <4> QED
        BY <3>1, <3>2, <4>1 DEF GivenUp, InStage
    <3>4. CASE client = Nobody /\ call' = call
      BY <1>5, <3>1, <3>2, <3>4
    <3> QED
      BY <2>2, <3>3, <3>4, BeginDisconnectShape DEF Base
  <2> QED
    BY <1>7, <2>1, <2>2 DEF SnapshotInactive
<1>8. ASSUME NEW w \in Call, TimerFires(w) \/ RefreshFires(w)
      PROVE  GivenUp'
  <2>1. Off
    BY <1>1, <1>8 DEF TimerFires, RefreshFires, watcher
  <2>2. RefreshFires(w)
    BY <1>3, <1>8, <2>1 DEF TimerFires
  <2>3. CASE client = Nobody
    BY <1>4, <2>1, <2>2, <2>3 DEF RefreshFires, manager
  <2>4. CASE client # Nobody
    <3>1. \A v \in Call : call[v].stage = "idle"
      BY <1>1, <2>2, <2>4, StartAlone DEF RefreshFires
    <3> QED
      BY <1>3, <2>1, <2>4, <3>1
  <2> QED
    BY <2>3, <2>4
<1>9. ASSUME NEW w \in Call, CallStep(w)
      PROVE  GivenUp'
  <2>1. Off
    BY <1>1, <1>9 DEF CallStep, Reclosed, Closed, Opened, OpenFails, ToolsAnswer, ToolsFail,
                      EndConnect, watcher
  <2>2. /\ \A v \in Call \ {w} : call[v].stage = "idle" /\ call'[v] = call[v]
        /\ call[w].stage \in Holding => client # Nobody
    BY <1>1, <1>9, CallAlone
  <2>3. CASE Reclosed(w)
    <3> PICK c \in Parked : c = call[w].cfg
      BY <1>3, <2>1, <2>3 DEF Reclosed, InStage
    <3>1. /\ client' = Nobody /\ cfg' = c /\ timer' = NoConfig /\ call'[w].stage = "idle"
      BY <2>3, CallChange DEF Reclosed, Open, Base
    <3> QED
      BY <1>5, <2>2, <3>1
  <2>4. CASE Closed(w)
    <3>1. client' = Nobody /\ cfg' = cfg /\ timer' = timer /\ call'[w].stage = "idle"
      BY <2>4, CallChange DEF Closed, Base
    <3> QED
      BY <1>3, <1>5, <2>1, <2>2, <3>1
  <2>5. call[w].stage \in {"reclosing", "closing"}
    <3>1. call[w].stage # "idle" /\ call[w].stage \in Holding \union {"idle", "opening"}
      BY <1>1, <1>9, CallAlone, CallTypes DEF Base
    <3>2. call[w].stage \in {"reclosing", "closing", "relisting"}
      BY <1>3, <2>1, <3>1 DEF Holding
    <3> QED
      BY <1>3, <2>1, <2>2, <3>2 DEF Holding
  <2> QED
    BY <1>9, <2>3, <2>4, <2>5 DEF CallStep, Opened, OpenFails, ToolsAnswer, ToolsFail,
                                  EndConnect, InStage
<1>10. CASE Monitor
  BY <1>1, <1>3, <1>10 DEF Monitor, watcher
<1>11. (\E r \in Entry : ChangeRegistry(r)) \/ (\E l \in SUBSET Tool : ListChanges(l))
          \/ (\E n \in Connection : LoseConnection(n)) \/ UNCHANGED vars
        => UNCHANGED <<seen, cfg, timer, client, call>>
  BY DEF ChangeRegistry, ListChanges, LoseConnection, watcher, manager, vars
<1> QED
  BY <1>1, <1>4, <1>6, <1>7, <1>8, <1>9, <1>10, <1>11 DEF Next, Snapshot

-----------------------------------------------------------------------------
(* The tools on offer.                                                      *)

\* Every step keeps the offer.
LEMMA OffersStep ==
  ASSUME Base, Up, Offers, [Next]_vars
  PROVE  Offers'
<1>1. SUFFICES ASSUME ~ overlapped', ~ shrunk'
      PROVE  Offers'
  BY DEF Offers
<1>2. /\ ~ overlapped /\ ~ shrunk
      /\ missed => missed'
      /\ faults' = 0 => Healthy /\ ~ Fault
  BY <1>1, HealthyBefore DEF Base, Healthy
<1>3. /\ offered = tracked
      /\ offered \subseteq listed
      /\ client = Nobody => offered = {}
      /\ (/\ Healthy /\ ~ missed
          /\ client # Nobody
          /\ \A w \in Call : call[w].stage \in {"idle", "rest"}
          /\ ~ refresh)
            => offered = listed
  BY <1>2 DEF Offers, Healthy
<1>4. ASSUME UNCHANGED <<offered, tracked, listed, client, refresh>>,
             faults' = 0 /\ (\A v \in Call : call'[v].stage \in {"idle", "rest"})
                => (\A v \in Call : call[v].stage \in {"idle", "rest"})
      PROVE  Offers'
  BY <1>2, <1>3, <1>4 DEF Offers
<1>5. ASSUME NEW w \in Call, NEW c \in Config, NEW t, BeginConnect(w, c, t),
             UNCHANGED <<listed, refresh>>
      PROVE  Offers'
  <2>1. Starts(w) /\ client' = client /\ offered' = offered /\ tracked' = tracked
    BY <1>5, BeginConnectShape DEF Base
  <2>2. \A v \in Call : call[v].stage = "idle"
    BY <1>1, <2>1, StartAlone
  <2> QED
    BY <1>4, <1>5, <2>1, <2>2
<1>6. ASSUME NEW w \in Call, BeginDisconnect(w), UNCHANGED <<listed, refresh>>
      PROVE  Offers'
  <2>1. Starts(w) /\ client' = client
    BY <1>6, BeginDisconnectShape DEF Base
  <2>2. \A v \in Call : call[v].stage = "idle"
    BY <1>1, <2>1, StartAlone
  <2>3. CASE offered' = offered /\ tracked' = tracked
    BY <1>4, <1>6, <2>1, <2>2, <2>3
  <2>4. CASE client = Nobody /\ offered' = offered \ tracked /\ tracked' = {}
    BY <1>3, <1>6, <2>1, <2>4 DEF Offers
  <2> QED
    BY <1>6, <2>3, <2>4, BeginDisconnectShape DEF Base
<1>7. ASSUME NEW w \in Call, SnapshotActive(w) \/ SnapshotInactive(w)
      PROVE  Offers'
  <2>1. UNCHANGED <<listed, refresh>>
    BY <1>7 DEF SnapshotActive, SnapshotInactive, world
  <2>2. CASE UNCHANGED <<manager, tools, call, overlapped>>
    BY <1>4, <2>1, <2>2 DEF manager, tools
  <2> QED
    BY <1>5, <1>6, <1>7, <2>1, <2>2, SnapshotShape DEF Base
<1>8. ASSUME NEW w \in Call, TimerFires(w)
      PROVE  Offers'
  <2>1. timer \in Config /\ BeginConnect(w, timer, NoConfig) /\ UNCHANGED <<listed, refresh>>
    BY <1>8 DEF TimerFires, Base, TypeOK, world
  <2> QED
    BY <1>5, <2>1
<1>9. ASSUME NEW w \in Call, RefreshFires(w)
      PROVE  Offers'
  <2>1. UNCHANGED <<offered, tracked, listed, client>>
    BY <1>9 DEF RefreshFires, manager, tools, world
  <2>2. CASE client = Nobody
    BY <1>3, <2>1, <2>2 DEF Offers
  <2>3. CASE client # Nobody
    <3>1. call'[w].stage = "relisting"
      BY <1>9, <2>3, CallChange DEF RefreshFires, Base
    <3> QED
      BY <1>3, <2>1, <2>3, <3>1 DEF Offers
  <2> QED
    BY <2>2, <2>3
<1>10. ASSUME NEW w \in Call, CallStep(w)
       PROVE  Offers'
  <2>1. /\ \A v \in Call \ {w} : call'[v] = call[v]
        /\ call[w].stage \in Holding => call[w].conn = client /\ client # Nobody
        /\ call[w].stage = "opening" => client = Nobody
    BY <1>1, <1>10, CallAlone
  <2>2. CASE Reclosed(w) \/ Closed(w)
    <3>1. client' = Nobody /\ offered' = offered \ tracked /\ tracked' = {}
      BY <2>2 DEF Reclosed, Closed, Unregister
    <3> QED
      BY <1>3, <3>1 DEF Offers
  <2>3. ASSUME NEW n \in Connection, Opened(w, n)
        PROVE  Offers'
    <3>1. call'[w].stage = "tools" /\ UNCHANGED <<offered, tracked, listed>> /\ client = Nobody
      BY <2>1, <2>3, CallChange DEF Opened, Base, tools, world, InStage
    <3>2. client' # Nobody
      BY <2>3, Marks DEF Opened
    <3> QED
      BY <1>3, <3>1, <3>2 DEF Offers
  <2>4. CASE OpenFails(w)
    BY <1>2, <1>4, <2>4 DEF OpenFails, tools
  <2>5. CASE ToolsAnswer(w)
    <3>1. /\ offered' = offered \union listed /\ tracked' = listed
          /\ UNCHANGED <<client, listed>> /\ client # Nobody
      BY <2>1, <2>5 DEF ToolsAnswer, manager, world, Holding
    <3> QED
      BY <1>3, <3>1 DEF Offers
  <2>6. CASE ToolsFail(w)
    <3>1. Healthy => call[w].conn \in open
      BY <2>1, <2>6 DEF ToolsFail, Up, Holding
    <3>2. faults' # 0
      BY <1>2, <2>6, <3>1 DEF ToolsFail
    <3> QED
      BY <1>4, <2>6, <3>2 DEF ToolsFail, manager, tools
  <2>7. CASE EndConnect(w)
    <3>1. UNCHANGED <<offered, tracked, listed, client, refresh>> /\ call[w].stage = "rest"
      BY <2>7 DEF EndConnect, manager, tools, world, InStage
    <3> QED
      BY <1>4, <2>1, <3>1
  <2> QED
    BY <1>10, <2>2, <2>3, <2>4, <2>5, <2>6, <2>7 DEF CallStep
<1>11. ASSUME NEW l \in SUBSET Tool, ListChanges(l)
       PROVE  Offers'
  <2>1. /\ UNCHANGED <<offered, tracked, client, call>> /\ listed' = l
        /\ listed \subseteq l
        /\ ~ missed' => \A w \in Call : call[w].stage # "rest"
        /\ refresh' = (refresh \/ open \intersect listens # {})
    BY <1>1, <1>11 DEF ListChanges, manager, tools, InStage
  <2>2. (/\ Healthy /\ ~ missed' /\ client # Nobody
         /\ \A w \in Call : call[w].stage \in {"idle", "rest"}) => refresh'
    BY <2>1 DEF Up, Connected
  <2> QED
    BY <1>2, <1>3, <2>1, <2>2 DEF Offers
<1>12. CASE UNCHANGED vars
  BY <1>4, <1>12 DEF vars
<1>13. (\E r \in Entry : ChangeRegistry(r)) \/ Monitor => Offers'
  BY <1>4, Bystanders DEF Base, manager, tools
<1>14. ASSUME NEW n \in Connection, LoseConnection(n)
       PROVE  Offers'
  BY <1>2, <1>4, <1>14 DEF LoseConnection, manager, tools
<1> QED
  BY <1>7, <1>8, <1>9, <1>10, <1>11, <1>12, <1>13, <1>14 DEF Next, Snapshot

-----------------------------------------------------------------------------
(* The theorems.                                                            *)

\* The first state satisfies the invariant.
LEMMA InvInit == Init => Inv
<1> SUFFICES ASSUME Init
    PROVE  Inv
  OBVIOUS
<1>1. \A w \in Call : call[w] = Idle
  BY DEF Init
<1>2. TypeOK
  <2>1. Idle \in CallState
    BY DEF Idle, CallState
  <2>2. 0 \in 0..MaxChanges /\ 0 \in 0..MaxFaults
    BY Marks
  <2> QED
    BY <2>1, <2>2 DEF Init, TypeOK, Entry
<1>3. Frames /\ Solo /\ Holds
  BY <1>1, Marks DEF Init, Frames, Solo, Holds, InStage, Idle, Holding
<1>4. Owns /\ Up /\ Offers /\ Remembers
  BY Marks DEF Init, Owns, Up, Offers, Remembers
<1>5. Follows
  <2>1. seen \notin Config /\ Rests /\ timer = NoConfig
    BY Marks DEF Init, Rests
  <2> QED
    BY <1>1, <2>1 DEF Follows, InStage, Idle, Connected
<1>6. GivenUp
  BY <1>1 DEF Init, GivenUp, InStage, Idle
<1> QED
  BY <1>2, <1>3, <1>4, <1>5, <1>6 DEF Inv

\* The invariant is inductive.
THEOREM Invariance == Spec => []Inv
<1>1. Inv /\ [Next]_vars => Inv'
  <2> SUFFICES ASSUME Inv, [Next]_vars
      PROVE  Inv'
    OBVIOUS
  <2>1. Base /\ Owned
    BY DEF Inv, Base, Owned
  <2>2. TypeOK' /\ Frames' /\ Owned'
    BY <2>1, TypeStep, FrameStep, OwnedStep DEF Base
  <2>3. Up' /\ Remembers' /\ GivenUp' /\ Follows' /\ Offers'
    BY <2>1, UpStep, RemembersStep, GivenUpStep, FollowsStep, OffersStep DEF Inv
  <2> QED
    BY <2>2, <2>3 DEF Inv, Owned
<1> QED
  BY <1>1, InvInit, PTL DEF Spec

\* Registry, manager, calls and tools keep their types.
THEOREM TypeCorrect == Spec => []TypeOK
<1>1. Inv => TypeOK
  BY DEF Inv
<1> QED
  BY <1>1, Invariance, PTL

\* The only connection that is up is the one in the map of clients, as long as
\* no two calls overlapped (client-manager.ts, connectServer's guards).
THEOREM NoOrphanAlways == Spec => []NoOrphan
<1>1. Inv => NoOrphan
  <2> SUFFICES ASSUME Inv, ~ overlapped, NEW n \in open
      PROVE  n = client
    BY DEF NoOrphan
  <2>1. n \in Connection
    BY DEF Inv, TypeOK
  <2>2. CASE n = client
    BY <2>2
  <2>3. ASSUME NEW w \in Call, call[w].conn = n
      PROVE  n = client
    BY <2>1, <2>3 DEF Inv, Frames, Holds
  <2> QED
    BY <2>2, <2>3 DEF Inv, Owns
<1> QED
  BY <1>1, Invariance, PTL

\* At rest the manager's connection is the one the registry asks for; that of a
\* server it has given up is closed, whatever failed.
THEOREM FollowsRegistryAlways == Spec => []FollowsRegistry
<1>1. Inv => FollowsRegistry
  <2> SUFFICES ASSUME Inv, AtRest, ~ overlapped
      PROVE  IF registry \in Config \ Parked
             THEN faults = 0 /\ ~ restored => client \in open /\ signature = Signature[registry]
             ELSE client = Nobody /\ open = {}
    BY DEF FollowsRegistry
  <2>1. Settled /\ seen = registry /\ \A w \in Call : call[w].stage = "idle"
    BY DEF AtRest, Quiet, Settled, InStage
  <2>2. ASSUME registry \in Config \ Parked, faults = 0, ~ restored
        PROVE  client \in open /\ signature = Signature[registry]
    <3>1. Healthy /\ Serves(seen)
      BY <2>1, <2>2 DEF Inv, Follows, Healthy
    <3> QED
      BY <2>1, <3>1 DEF Serves, Inv, Up
  <2>3. ASSUME registry \notin Config \ Parked
        PROVE  client = Nobody /\ open = {}
    <3>1. client = Nobody
      BY <2>1, <2>3 DEF Inv, GivenUp
    <3>2. \A w \in Call : call[w].conn = Nobody
      BY <2>1, CallTypes DEF Inv, Frames, Holding
    <3> QED
      BY <3>1, <3>2, Marks DEF Inv, Owns, TypeOK
  <2> QED
    BY <2>2, <2>3
<1> QED
  BY <1>1, Invariance, PTL

\* At rest the tools on offer are the server's, and none without a connection.
THEOREM OffersAlways == Spec => []OffersServerTools
<1>1. Inv => OffersServerTools
  BY DEF Inv, Offers, OffersServerTools, AtRest, Quiet, InStage
<1> QED
  BY <1>1, Invariance, PTL

=============================================================================
