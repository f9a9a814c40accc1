--------------------------- MODULE Configuration ----------------------------
(***************************************************************************)
(* plugin-config.ts, config.ts and channel.ts: where a configuration is     *)
(* found, and which lease a runtime started from it takes.                  *)
(*                                                                         *)
(* A block is [gatewayUrl, agentId, agentSk, enabled]; a field that is      *)
(* missing, empty or no string is Absent, and so is a whole block that is no  *)
(* object.  `channel` is cfg.channels.uniagentgate and `entry` is           *)
(* cfg.plugins.entries.uniagentgate, whose config OpenClaw hands to         *)
(* registerFull as pluginConfig.                                            *)
(***************************************************************************)
CONSTANT Absent

(* resolvePluginConfig: trailing slashes are stripped; it throws unless the *)
(* three fields are there.                                                  *)
stripped(url) == CASE url = "g/" -> "g" [] OTHER -> url
isComplete(block) == block # Absent /\ Absent \notin {block.gatewayUrl, block.agentId, block.agentSk}

(* Fault: the URL is taken as it is.                                        *)
resolvePluginConfig_AsIs(block) ==
    IF isComplete(block) THEN [gatewayBaseUrl |-> block.gatewayUrl, agentId |-> block.agentId]
    ELSE Absent

resolvePluginConfig(block) ==
    IF isComplete(block)
    THEN [gatewayBaseUrl |-> stripped(block.gatewayUrl), agentId |-> block.agentId]
    ELSE Absent

(* resolveRuntimePluginConfig.                                              *)
resolveRuntimePluginConfig(pluginConfig, channel) ==
    IF ~isComplete(pluginConfig) /\ isComplete(channel)
    THEN resolvePluginConfig(channel)
    ELSE resolvePluginConfig(pluginConfig)

(* The key of the lease; Absent: startConnectorRuntime throws.                *)
registerFull(channel, entry) == resolveRuntimePluginConfig(entry, channel)
startAccount(channel) == resolveRuntimePluginConfig(Absent, channel)

(* resolveAccount.                                                          *)
configured(channel, entry) == isComplete(channel) \/ isComplete(entry)
enabled(channel, entry) ==
    /\ channel # Absent => channel.enabled
    /\ entry # Absent => entry.enabled
    /\ configured(channel, entry)
=============================================================================
