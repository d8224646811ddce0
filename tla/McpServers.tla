----------------------------- MODULE McpServers -----------------------------
(***************************************************************************)
(* The manager of MCP servers (mcp-runtime) and what drives it: turns that *)
(* load their tool catalog (app-host runtime), mcp.connect and             *)
(* mcp.set_server_token (app-host ipc).  The manager's lock is not held    *)
(* over a handshake, a token read or a discovery, so configurations and    *)
(* tokens change while a client made from the old ones is on its way.      *)
(***************************************************************************)
EXTENDS Naturals

CONSTANTS
  Server,           \* server ids
  Config, Disabled, \* configurations, and those with enabled = false
  Registrar,        \* turns and mcp.connect calls that run at once
  MaxSaves,         \* bound on changes of settings and tokens
  MaxRegistrations  \* bound on registrations

ASSUME McpAssumption ==
  Disabled \subseteq Config /\ MaxSaves \in Nat /\ MaxRegistrations \in Nat

Absent == "absent"
NoServer == [config |-> Absent, client |-> <<>>, tools |-> FALSE]

VARIABLES
  mcpSetting,  \* the stored setting mcp.servers
  mcpSlot,     \* the setting the last turn saw
  mcpToken,    \* the version of the stored bearer token, by server
  servers,     \* the manager's table
  registrar,   \* the calls that register servers
  dropping,    \* the servers whose token has changed, the client not yet dropped
  saves, registrations, \* counters for the bounds
  synced,      \* what was synced last (history)
  raced        \* servers whose client was stored after what it was made from
               \* had changed (history)

mcpVars == <<mcpSetting, mcpSlot, mcpToken, servers, registrar, dropping, saves,
             registrations, synced, raced>>

Setting == [Server -> Config \cup {Absent}]
NoRegistrar == [at |-> "idle", server |-> Absent, wanted |-> [s \in Server |-> Absent],
                client |-> <<>>]

McpTypeOK ==
  /\ {mcpSetting, mcpSlot, synced} \subseteq Setting
  /\ mcpToken \in [Server -> 0 .. MaxSaves]
  /\ \A s \in Server :
       /\ servers[s].config \in Config \cup {Absent}
       /\ servers[s].config = Absent => servers[s] = NoServer
  /\ \A r \in Registrar :
       /\ registrar[r].at \in {"idle", "sync", "ready", "config", "token", "connect",
                               "store", "list", "record"}
       /\ registrar[r].at \in {"connect", "store", "list", "record"} => registrar[r].client # <<>>
  /\ dropping \subseteq Server /\ raced \subseteq Server

McpInit ==
  /\ mcpSetting = [s \in Server |-> Absent] /\ mcpSlot = mcpSetting
  /\ mcpToken = [s \in Server |-> 0] /\ servers = [s \in Server |-> NoServer]
  /\ registrar = [r \in Registrar |-> NoRegistrar]
  /\ dropping = {} /\ saves = 0 /\ registrations = 0
  /\ synced = mcpSetting /\ raced = {}

-----------------------------------------------------------------------------
(* The user saves the setting, or a token; the token's call then drops the *)
(* client made with the old one.                                           *)
SaveSetting(s, c) ==
  /\ saves < MaxSaves /\ saves' = saves + 1
  /\ mcpSetting' = [mcpSetting EXCEPT ![s] = c]
  /\ UNCHANGED <<mcpSlot, mcpToken, servers, registrar, dropping, registrations, synced, raced>>
SaveToken(s) ==
  /\ saves < MaxSaves /\ saves' = saves + 1 /\ s \notin dropping
  /\ mcpToken' = [mcpToken EXCEPT ![s] = @ + 1] /\ dropping' = dropping \cup {s}
  /\ UNCHANGED <<mcpSetting, mcpSlot, servers, registrar, registrations, synced, raced>>
WithoutClient(entry) == [entry EXCEPT !.client = <<>>]
DropClient(s) ==
  /\ s \in dropping /\ dropping' = dropping \ {s}
  /\ servers' = [servers EXCEPT ![s] = WithoutClient(@)] /\ raced' = raced \ {s}
  /\ UNCHANGED <<mcpSetting, mcpSlot, mcpToken, registrar, saves, registrations, synced>>

-----------------------------------------------------------------------------
Goes(r, place) == registrar' = [registrar EXCEPT ![r].at = place]

(* A turn syncs when the setting is not the one the last turn saw, and     *)
(* remembers it first; mcp.connect always syncs.                           *)
BeginTurn(r) ==
  /\ registrar[r].at = "idle" /\ registrations < MaxRegistrations
  /\ mcpSlot' = mcpSetting
  /\ registrar' = [registrar EXCEPT ![r] = [NoRegistrar EXCEPT !.wanted = mcpSetting,
                     !.at = IF mcpSlot = mcpSetting THEN "ready" ELSE "sync"]]
  /\ UNCHANGED <<mcpSetting, mcpToken, servers, dropping, saves, registrations, synced, raced>>
BeginConnect(r) ==
  /\ registrar[r].at = "idle" /\ registrations < MaxRegistrations
  /\ registrar' = [registrar EXCEPT ![r] = [NoRegistrar EXCEPT !.wanted = mcpSetting, !.at = "sync"]]
  /\ UNCHANGED <<mcpSetting, mcpSlot, mcpToken, servers, dropping, saves, registrations,
                 synced, raced>>

(* sync_configs: servers that are not wanted go with their clients, a      *)
(* changed configuration loses client and tools, the rest is kept.         *)
Reconfigured(entry, c) ==
  IF entry.config = c THEN entry ELSE [NoServer EXCEPT !.config = c]
SyncConfigs(r) ==
  LET wanted == registrar[r].wanted IN
  /\ registrar[r].at = "sync" /\ Goes(r, "ready")
  /\ servers' = [s \in Server |-> Reconfigured(servers[s], wanted[s])]
  /\ synced' = wanted
  /\ raced' = {s \in raced : servers'[s].client # <<>>}
  /\ UNCHANGED <<mcpSetting, mcpSlot, mcpToken, dropping, saves, registrations>>

(* register_into, one server at a time: an enabled server's client is      *)
(* used as it is.                                                          *)
Look(r, s) ==
  /\ registrar[r].at = "ready" /\ registrations < MaxRegistrations
  /\ registrations' = registrations + 1
  /\ registrar' = [registrar EXCEPT ![r] =
       IF servers[s].config \notin Disabled /\ servers[s].client # <<>>
         THEN [@ EXCEPT !.at = "list", !.server = s, !.client = servers[s].client]
         ELSE [@ EXCEPT !.at = "config", !.server = s, !.client = <<>>]]
  /\ UNCHANGED <<mcpSetting, mcpSlot, mcpToken, servers, dropping, saves, synced, raced>>
EndRegistrar(r) ==
  /\ registrar[r].at = "ready" /\ registrar' = [registrar EXCEPT ![r] = NoRegistrar]
  /\ UNCHANGED <<mcpSetting, mcpSlot, mcpToken, servers, dropping, saves, registrations,
                 synced, raced>>

(* Else a client is made from the configuration, unless that is gone or    *)
(* disabled, and the token as it is then.                                  *)
ReadConfig(r) ==
  LET c == servers[registrar[r].server].config IN
  /\ registrar[r].at = "config"
  /\ registrar' = [registrar EXCEPT ![r] =
       IF c \in Disabled \cup {Absent} THEN [@ EXCEPT !.at = "ready"]
                                       ELSE [@ EXCEPT !.at = "token", !.client = <<c>>]]
  /\ UNCHANGED <<mcpSetting, mcpSlot, mcpToken, servers, dropping, saves, registrations,
                 synced, raced>>
ReadToken(r) ==
  /\ registrar[r].at = "token"
  /\ registrar' = [registrar EXCEPT ![r] =
       [@ EXCEPT !.at = "connect",
                 !.client = <<registrar[r].client[1], mcpToken[registrar[r].server]>>]]
  /\ UNCHANGED <<mcpSetting, mcpSlot, mcpToken, servers, dropping, saves, registrations,
                 synced, raced>>

(* A handshake or a discovery fails or times out: the next registration    *)
(* starts over, with the client that is stored.                            *)
RemoteFails(r) ==
  /\ registrar[r].at \in {"connect", "list"} /\ Goes(r, "ready")
  /\ UNCHANGED <<mcpSetting, mcpSlot, mcpToken, servers, dropping, saves, registrations,
                 synced, raced>>
RemoteAnswers(r) ==
  /\ \/ registrar[r].at = "connect" /\ Goes(r, "store")
     \/ registrar[r].at = "list" /\ Goes(r, "record")
  /\ UNCHANGED <<mcpSetting, mcpSlot, mcpToken, servers, dropping, saves, registrations,
                 synced, raced>>

(* The client is stored, whatever the configuration is by now, unless the  *)
(* server is gone.                                                         *)
Stored(entry, client) ==
  IF entry.config = Absent THEN entry ELSE [entry EXCEPT !.client = client]
StoreClient(r) ==
  LET s == registrar[r].server
      client == registrar[r].client
  IN
  /\ registrar[r].at = "store" /\ Goes(r, "list")
  /\ servers' = [servers EXCEPT ![s] = Stored(@, client)]
  /\ raced' = IF servers[s].config # Absent /\ client # <<servers[s].config, mcpToken[s]>>
                THEN raced \cup {s} ELSE raced \ {s}
  /\ UNCHANGED <<mcpSetting, mcpSlot, mcpToken, dropping, saves, registrations, synced>>

RecordTools(r) ==
  LET s == registrar[r].server IN
  /\ registrar[r].at = "record" /\ Goes(r, "ready")
  /\ servers' = [servers EXCEPT ![s] = IF @.config = Absent THEN @ ELSE [@ EXCEPT !.tools = TRUE]]
  /\ UNCHANGED <<mcpSetting, mcpSlot, mcpToken, dropping, saves, registrations, synced, raced>>

McpNext ==
  \/ \E s \in Server : DropClient(s) \/ SaveToken(s)
                       \/ \E c \in Config \cup {Absent} : SaveSetting(s, c)
  \/ \E r \in Registrar :
       \/ BeginTurn(r) \/ BeginConnect(r) \/ SyncConfigs(r) \/ EndRegistrar(r)
       \/ \E s \in Server : Look(r, s)
       \/ ReadConfig(r) \/ ReadToken(r) \/ RemoteFails(r) \/ RemoteAnswers(r)
       \/ StoreClient(r) \/ RecordTools(r)

McpSpec == McpInit /\ [][McpNext]_mcpVars

-----------------------------------------------------------------------------
(* The table holds what was synced last: a connect or a discovery that     *)
(* comes back late revives no server and no old configuration.             *)
TableIsSynced == \A s \in Server : servers[s].config = synced[s]

(* A stored client was made from the server's present configuration and    *)
(* token, unless they changed during its handshake, or the call that saved *)
(* the token is about to drop it.                                          *)
ClientFollowsConfig ==
  \A s \in Server : servers[s].client # <<>> /\ s \notin raced \cup dropping =>
    servers[s].client = <<servers[s].config, mcpToken[s]>>
=============================================================================
