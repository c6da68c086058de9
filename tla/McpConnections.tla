--------------------------- MODULE McpConnections ---------------------------
(***************************************************************************)
(* One MCP server as a Bit with a registry watcher sees it: its entry in   *)
(* the registry, RegistryWatcher, and the part of McpClientManager kept    *)
(* under the server's name (every map of the manager is keyed by the name, *)
(* so servers do not touch each other).                                    *)
(*                                                                         *)
(* The watcher does not wait for connectServer and disconnectServer, nor   *)
(* do the reconnect timer and the notification timer: calls overlap, and   *)
(* each works on what it read before its last await.  A member of Call is  *)
(* a place for one of them.  Only tools are modelled of the three lists a  *)
(* server has; resources and prompts are asked for between the answer with *)
(* the tools and the end of the call.                                      *)
(***************************************************************************)
EXTENDS Naturals, FiniteSets

CONSTANTS
    Config,     \* active configurations of the server
    Signature,  \* [Config -> resolved connection signature]
    Parked,     \* those with the transport "inactive"
    Tool,
    Call,       \* bound: calls of the manager that run at one time
    Connection, \* bound: connections that exist at one time
    MaxChanges, \* bound: changes of the registry or of the server's tools
    MaxFaults   \* bound: connects and listings that fail, connections lost

NoConfig == "no config"
Nobody == "nobody"

ASSUME McpAssumption ==
    /\ {NoConfig, "inactive", "absent"} \intersect Config = {}
    /\ DOMAIN Signature = Config
    /\ NoConfig \notin {Signature[c] : c \in Config}
    /\ Parked \subseteq Config
    /\ Nobody \notin Connection
    /\ MaxChanges \in Nat
    /\ MaxFaults \in Nat

VARIABLES
    registry,  \* the server's entry: a Config, "inactive" or "absent"
    seen,      \* the entry in the last snapshot
    previous,  \* RegistryWatcher.previousConfigs
    cfg,       \* serverConfigs
    client,    \* clients (and bridges, written with it)
    signature, \* connectedSignatures
    status,    \* the status in the stats
    timer,     \* reconnectTimers: the configuration the callback captured
    refresh,   \* notificationDebounceTimers
    offered,   \* the server's tools in the tool registry
    tracked,   \* serverTools
    listed,    \* the tools the server has
    open,      \* connections that are up
    listens,   \* connections with notification handlers
    call,      \* [Call -> state of the call]
    changes,
    faults,
    (* history variables, read by the properties only *)
    overlapped, \* a call began while another ran
    restored,   \* the entry came back as it was after a snapshot without it
    shrunk,     \* a tool left the server's list
    missed      \* the list changed between the answer and the handlers

watcher == <<registry, seen, previous, restored>>
manager == <<cfg, client, signature, status, timer>>
tools == <<offered, tracked>>
world == <<listed, shrunk, missed, changes, faults>>
vars == <<registry, seen, previous, cfg, client, signature, status, timer,
          refresh, offered, tracked, listed, open, listens, call, changes,
          faults, overlapped, restored, shrunk, missed>>

Entry == Config \union {"inactive", "absent"}
Sig == {Signature[c] : c \in Config}

\* reclosing: connectServer awaits its disconnectServer; opening: connect;
\* tools: listTools; rest: the other two lists; closing: disconnectServer;
\* relisting: the notification timer's listTools.
CallState == [stage : {"idle", "reclosing", "opening", "tools", "rest", "closing", "relisting"},
              cfg : Config \union {NoConfig}, conn : Connection \union {Nobody}]
Idle == [stage |-> "idle", cfg |-> NoConfig, conn |-> Nobody]

TypeOK ==
    /\ registry \in Entry
    /\ seen \in Entry
    /\ previous \in Config \union {NoConfig}
    /\ cfg \in Config \union {NoConfig}
    /\ client \in Connection \union {Nobody}
    /\ signature \in Sig \union {NoConfig}
    /\ status \in {"none", "connecting", "connected", "error", "disconnected"}
    /\ timer \in Config \union {NoConfig}
    /\ refresh \in BOOLEAN
    /\ offered \subseteq Tool
    /\ tracked \subseteq Tool
    /\ listed \subseteq Tool
    /\ open \subseteq Connection
    /\ listens \subseteq Connection
    /\ call \in [Call -> CallState]
    /\ changes \in 0..MaxChanges
    /\ faults \in 0..MaxFaults
    /\ overlapped \in BOOLEAN
    /\ restored \in BOOLEAN
    /\ shrunk \in BOOLEAN
    /\ missed \in BOOLEAN

Init ==
    /\ registry = "absent"
    /\ seen = "absent"
    /\ previous = NoConfig
    /\ cfg = NoConfig
    /\ client = Nobody
    /\ signature = NoConfig
    /\ status = "none"
    /\ timer = NoConfig
    /\ refresh = FALSE
    /\ offered = {}
    /\ tracked = {}
    /\ listed \in SUBSET Tool
    /\ open = {}
    /\ listens = {}
    /\ call = [w \in Call |-> Idle]
    /\ changes = 0
    /\ faults = 0
    /\ overlapped = FALSE
    /\ restored = FALSE
    /\ shrunk = FALSE
    /\ missed = FALSE

-----------------------------------------------------------------------------
(* Helpers.                                                                 *)

InStage(w, stage) == call[w].stage = stage
Quiet == \A w \in Call : InStage(w, "idle")

Enter(w, stage, c, n) ==
    call' = [call EXCEPT ![w] = [stage |-> stage, cfg |-> c, conn |-> n]]
Leave(w) == call' = [call EXCEPT ![w] = Idle]

\* w takes up a call.
Starts(w) ==
    /\ InStage(w, "idle")
    /\ overlapped' = (overlapped \/ ~ Quiet)

Fault == faults < MaxFaults /\ faults' = faults + 1
Change == changes < MaxChanges /\ changes' = changes + 1

\* What disconnectServer does to the tools.
Unregister ==
    /\ offered' = offered \ tracked
    /\ tracked' = {}

\* The idempotency guard of connectServer.
Skips(c) ==
    /\ client # Nobody
    /\ status = "connected"
    /\ signature = Signature[c]
    /\ c \notin Parked

\* connectServer from its call of the transport on; t are the timers before.
Open(w, c, t) ==
    /\ cfg' = c
    /\ status' = "connecting"
    /\ IF c \in Parked
       THEN timer' = NoConfig /\ Leave(w)
       ELSE timer' = t /\ Enter(w, "opening", c, Nobody)

\* Mutant of BeginConnect: the old connection is not closed first.
BeginConnectOver(w, c, t) ==
    /\ Starts(w)
    /\ IF Skips(c)
       THEN /\ cfg' = c
            /\ timer' = t
            /\ UNCHANGED <<client, signature, status, call>>
       ELSE Open(w, c, t) /\ UNCHANGED <<client, signature>>
    /\ UNCHANGED tools

\* connectServer up to its first await.
BeginConnect(w, c, t) ==
    /\ Starts(w)
    /\ IF Skips(c)
       THEN /\ cfg' = c
            /\ timer' = t
            /\ UNCHANGED <<client, signature, status, call>>
       ELSE IF client # Nobody
       THEN /\ cfg' = NoConfig
            /\ signature' = NoConfig
            /\ status' = "disconnected"
            /\ timer' = NoConfig
            /\ Enter(w, "reclosing", c, client)
            /\ UNCHANGED client
       ELSE Open(w, c, t) /\ UNCHANGED <<client, signature>>
    /\ UNCHANGED tools

\* disconnectServer up to its await.
BeginDisconnect(w) ==
    /\ Starts(w)
    /\ cfg' = NoConfig
    /\ signature' = NoConfig
    /\ status' = "disconnected"
    /\ timer' = NoConfig
    /\ IF client # Nobody
       THEN Enter(w, "closing", NoConfig, client) /\ UNCHANGED tools
       ELSE Unregister /\ UNCHANGED call
    /\ UNCHANGED client

\* scheduleReconnect, for the configuration in the map.
ReconnectTimer ==
    IF timer = NoConfig /\ cfg \notin Parked THEN cfg ELSE timer

-----------------------------------------------------------------------------
(* The registry and its watcher.                                            *)

\* Somebody writes or deletes the server's entry.
ChangeRegistry(r) ==
    /\ r # registry
    /\ Change
    /\ registry' = r
    /\ UNCHANGED <<seen, previous, restored, manager, refresh, tools, listed,
                   open, listens, call, faults, overlapped, shrunk, missed>>

\* A snapshot with a configuration that differs from the last one acted upon.
SnapshotActive(w) ==
    /\ registry # seen
    /\ registry \in Config
    /\ seen' = registry
    /\ previous' = registry
    /\ IF registry # previous
       THEN BeginConnect(w, registry, timer) /\ UNCHANGED restored
       ELSE /\ restored' = TRUE
            /\ UNCHANGED <<manager, tools, call, overlapped>>
    /\ UNCHANGED <<registry, refresh, open, listens, world>>

\* A snapshot without the entry, or with the status inactive; of a removed
\* name the watcher keeps the configuration.  It is repeated with every change
\* of another server, and so is the disconnect.
SnapshotInactive(w) ==
    /\ registry \notin Config
    /\ seen' = registry
    /\ previous' = IF registry = "inactive" THEN NoConfig ELSE previous
    /\ IF registry = "inactive" \/ previous # NoConfig
       THEN BeginDisconnect(w)
       ELSE UNCHANGED <<manager, tools, call, overlapped>>
    /\ UNCHANGED <<registry, restored, refresh, open, listens, world>>

-----------------------------------------------------------------------------
(* connectServer and disconnectServer after their awaits.                   *)

\* Mutant of Reclosed: the configuration is not put back.
ReclosedForgets(w) ==
    /\ InStage(w, "reclosing")
    /\ client' = Nobody
    /\ open' = open \ {call[w].conn}
    /\ listens' = listens \ {call[w].conn}
    /\ Unregister
    /\ status' = "connecting"
    /\ cfg' = NoConfig
    /\ Enter(w, "opening", call[w].cfg, Nobody)
    /\ UNCHANGED <<watcher, signature, timer, refresh, world, overlapped>>

\* The close within connectServer ends.
Reclosed(w) ==
    /\ InStage(w, "reclosing")
    /\ client' = Nobody
    /\ open' = open \ {call[w].conn}
    /\ listens' = listens \ {call[w].conn}
    /\ Unregister
    /\ Open(w, call[w].cfg, timer)
    /\ UNCHANGED <<watcher, signature, refresh, world, overlapped>>

\* Mutant of Closed: the tools stay.
ClosedKeepsTools(w) ==
    /\ InStage(w, "closing")
    /\ client' = Nobody
    /\ open' = open \ {call[w].conn}
    /\ listens' = listens \ {call[w].conn}
    /\ tracked' = {}
    /\ Leave(w)
    /\ UNCHANGED <<watcher, cfg, signature, status, timer, refresh, offered,
                   world, overlapped>>

\* The close within disconnectServer ends.
Closed(w) ==
    /\ InStage(w, "closing")
    /\ client' = Nobody
    /\ open' = open \ {call[w].conn}
    /\ listens' = listens \ {call[w].conn}
    /\ Unregister
    /\ Leave(w)
    /\ UNCHANGED <<watcher, cfg, signature, status, timer, refresh, world, overlapped>>

\* A connection that is neither up nor held by anybody.
Fresh(n) ==
    n \notin open /\ n # client /\ \A w \in Call : call[w].conn # n

\* connect succeeds.
Opened(w, n) ==
    /\ InStage(w, "opening")
    /\ Fresh(n)
    /\ open' = open \union {n}
    /\ client' = n
    /\ signature' = Signature[call[w].cfg]
    /\ status' = "connected"
    /\ timer' = NoConfig
    /\ Enter(w, "tools", call[w].cfg, n)
    /\ UNCHANGED <<watcher, cfg, refresh, tools, listens, world, overlapped>>

\* Mutant of OpenFails: a status the interface does not have, and no timer.
OpenFailsForever(w) ==
    /\ InStage(w, "opening")
    /\ Fault
    /\ status' = "failed"
    /\ timer' = NoConfig
    /\ Leave(w)
    /\ UNCHANGED <<watcher, cfg, client, signature, refresh, tools, open,
                   listens, listed, shrunk, missed, changes, overlapped>>

\* connect throws.
OpenFails(w) ==
    /\ InStage(w, "opening")
    /\ Fault
    /\ status' = "error"
    /\ timer' = ReconnectTimer
    /\ Leave(w)
    /\ UNCHANGED <<watcher, cfg, client, signature, refresh, tools, open,
                   listens, listed, shrunk, missed, changes, overlapped>>

\* listTools answers: every tool is registered, and the list of those to
\* unregister is replaced.
ToolsAnswer(w) ==
    /\ call[w].stage \in {"tools", "relisting"}
    /\ call[w].conn \in open
    /\ offered' = offered \union listed
    /\ tracked' = listed
    /\ IF InStage(w, "tools") THEN Enter(w, "rest", call[w].cfg, call[w].conn) ELSE Leave(w)
    /\ UNCHANGED <<watcher, manager, refresh, open, listens, world, overlapped>>

\* listTools throws, which discoverTools logs: the connection is closed, or
\* the server fails.
ToolsFail(w) ==
    /\ call[w].stage \in {"tools", "relisting"}
    /\ call[w].conn \in open => Fault
    /\ call[w].conn \notin open => UNCHANGED faults
    /\ IF InStage(w, "tools") THEN Enter(w, "rest", call[w].cfg, call[w].conn) ELSE Leave(w)
    /\ UNCHANGED <<watcher, manager, refresh, tools, open, listens, listed,
                   shrunk, missed, changes, overlapped>>

\* The other lists have answered or failed; setupNotificationHandlers.
EndConnect(w) ==
    /\ InStage(w, "rest")
    /\ listens' = listens \union ({call[w].conn} \intersect open)
    /\ Leave(w)
    /\ UNCHANGED <<watcher, manager, refresh, tools, open, world, overlapped>>

-----------------------------------------------------------------------------
(* Timers, and the server.                                                  *)

\* Mutant of Monitor: only a status of "error" is healed.
MonitorErrors ==
    /\ status = "error"
    /\ timer = NoConfig
    /\ cfg \notin Parked \union {NoConfig}
    /\ timer' = cfg
    /\ UNCHANGED <<watcher, cfg, client, signature, status, refresh, tools,
                   open, listens, call, world, overlapped>>

\* The monitor's interval.
Monitor ==
    /\ status # "connected" \/ client = Nobody
    /\ timer = NoConfig
    /\ cfg \notin Parked \union {NoConfig}
    /\ timer' = cfg
    /\ UNCHANGED <<watcher, cfg, client, signature, status, refresh, tools,
                   open, listens, call, world, overlapped>>

\* The reconnect timer fires, for the configuration it captured.
TimerFires(w) ==
    /\ timer # NoConfig
    /\ BeginConnect(w, timer, NoConfig)
    /\ UNCHANGED <<watcher, refresh, open, listens, world>>

\* The notification timer fires.
RefreshFires(w) ==
    /\ refresh
    /\ refresh' = FALSE
    /\ IF client # Nobody
       THEN Starts(w) /\ Enter(w, "relisting", NoConfig, client)
       ELSE UNCHANGED <<call, overlapped>>
    /\ UNCHANGED <<watcher, manager, tools, open, listens, world>>

\* The server's tools change; it notifies the connections that listen.
ListChanges(l) ==
    /\ l # listed
    /\ Change
    /\ listed' = l
    /\ refresh' = (refresh \/ open \intersect listens # {})
    /\ shrunk' = (shrunk \/ ~ listed \subseteq l)
    /\ missed' = (missed \/ \E w \in Call : InStage(w, "rest"))
    /\ UNCHANGED <<watcher, manager, tools, open, listens, call, faults, overlapped>>

\* A connection goes down.  Nothing in the manager hears of it.
LoseConnection(n) ==
    /\ n \in open
    /\ Fault
    /\ open' = open \ {n}
    /\ listens' = listens \ {n}
    /\ UNCHANGED <<watcher, manager, refresh, tools, call, listed, shrunk,
                   missed, changes, overlapped>>

-----------------------------------------------------------------------------
CallStep(w) ==
    \/ Reclosed(w)
    \/ Closed(w)
    \/ \E n \in Connection : Opened(w, n)
    \/ OpenFails(w)
    \/ ToolsAnswer(w)
    \/ ToolsFail(w)
    \/ EndConnect(w)

Snapshot == \E w \in Call : SnapshotActive(w) \/ SnapshotInactive(w)

Next ==
    \/ \E r \in Entry : ChangeRegistry(r)
    \/ \E l \in SUBSET Tool : ListChanges(l)
    \/ Snapshot
    \/ \E w \in Call : CallStep(w) \/ TimerFires(w) \/ RefreshFires(w)
    \/ Monitor
    \/ \E n \in Connection : LoseConnection(n)

Spec == Init /\ [][Next]_vars

\* Snapshots are delivered, timers fire, and a call of the SDK ends.
Fairness ==
    /\ WF_vars(Snapshot)
    /\ WF_vars(Monitor)
    /\ WF_vars(\E w \in Call : TimerFires(w))
    /\ WF_vars(\E w \in Call : RefreshFires(w))
    /\ \A w \in Call : WF_vars(CallStep(w))

FairSpec == Spec /\ Fairness

-----------------------------------------------------------------------------
(* Properties.                                                              *)

\* Nothing is under way: the last snapshot is handled and no timer is set.
AtRest == Quiet /\ seen = registry /\ timer = NoConfig /\ ~ refresh

\* As long as no two calls overlapped, the connection in the map of clients is
\* the only one that is up: none is forgotten, and the server never has two.
NoOrphan == ~ overlapped => open \subseteq {client}

\* At rest, without overlap, a server the registry does not ask for has no
\* connection, whatever failed on the way; one it asks for has the connection
\* asked for, unless something failed or its entry came back unchanged after a
\* removal, which is forgotten.
FollowsRegistry ==
    (AtRest /\ ~ overlapped) =>
        IF registry \in Config \ Parked
        THEN faults = 0 /\ ~ restored =>
                /\ client \in open
                /\ signature = Signature[registry]
        ELSE client = Nobody /\ open = {}

\* At rest, without overlap and unless a tool was withdrawn (re-discovery never
\* unregisters), nothing of a server without a connection is on offer, whatever
\* failed on the way, and otherwise its tools are, unless something failed or
\* the list changed before the handlers were set.
OffersServerTools ==
    (AtRest /\ ~ overlapped /\ ~ shrunk) =>
        IF client = Nobody
        THEN offered = {}
        ELSE faults = 0 /\ ~ missed => offered = listed

\* A server the manager knows is connected in the end, or given up by the
\* registry, whatever overlaps and fails on the way: the monitor heals it.
MonitorHeals ==
    cfg \notin Parked \union {NoConfig}
        ~> (\/ cfg \in Parked \union {NoConfig}
            \/ status = "connected" /\ client # Nobody)

\* client-manager.ts:289 "This solves the startup race condition": at rest, with
\* a connection that never failed, the server's tools are on offer.
NoToolMissed ==
    (AtRest /\ ~ overlapped /\ faults = 0 /\ client # Nobody) => listed \subseteq offered

\* client-manager.ts:203 "cache latest config for reconnects": a reconnect uses
\* the configuration in the cache.
ReconnectsWithLatest ==
    [][\A w \in Call :
          /\ timer # NoConfig /\ timer' = NoConfig
          /\ seen' = seen
          /\ InStage(w, "idle") /\ call'[w].stage = "opening"
          => call'[w].cfg = cfg]_vars

=============================================================================
