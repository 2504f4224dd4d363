----------------------------- MODULE LidarSetup -----------------------------
\* How livox_ros_driver2 brings its lidars up: LivoxLidarSdkInit and its sockets, the
\* detection of the lidars, the query of their firmware type, the destination of their
\* data, the notification of the driver, the driver's settings and the state "sampling"
\* from which on the driver publishes a lidar's points.
\*
\* Three threads act: the main thread of the driver, the detection IO thread (search
\* answers) and the command IO thread (answers to commands); a timed out command is
\* reported by any IO thread. One handler is one step, but the driver's callback for a new
\* lidar is a step per command it sends, for answers to the first ones arrive meanwhile.
\* A request is the lidar it is for and its command; the rest follows from the
\* configuration. What a lidar does with its requests is the environment's.
EXTENDS LidarConfig, Bags, BagsExt

CONSTANTS
  Files,        \* configuration files of the SDK
  UserConfigs,  \* what the driver's lidar_configs section asks of each lidar it lists
  TypeOf,       \* the lidars on the network, by address, with their type
  RetryLimit,   \* failed queries of the firmware type before it is taken for granted (10)
  MaxPending,   \* bound on copies of one request under way
  MaxTrouble    \* bound on lost and refused requests

Lidar == DOMAIN TypeOf
Setting == {"pcl_data_type", "pattern_mode", "blind_spot_set", "dual_emit_en"}

ASSUME SetupAssumption ==
  /\ RetryLimit \in 0 .. 126 /\ MaxPending \in Nat \ {0} /\ MaxTrouble \in Nat
  /\ \A u \in UserConfigs : \A l \in DOMAIN u :
       DOMAIN u[l] \subseteq Setting /\ \A s \in DOMAIN u[l] : u[l][s] \in Int

Command == Setting \cup {"FwType", "HostCfg", "Attitude", "WorkMode", "Imu"}
Thread == {"detection", "command"}
None == "none"

VARIABLES
  main,            \* of the driver: "init", "fill", "run", "stopped", "failed"
  cfg,             \* the configuration file, then what was loaded from it
  custom_lidars_cfg_map_, channel_info_,
  devices_,        \* DeviceInfo of the detected lidars
  updated,         \* devices_ of the command handlers: lidars that took their destination
  count,           \* failed firmware type queries, counted for all the lidars together
  pending,         \* bag of the requests under way
  livox_config,    \* the driver's settings for the lidars it lists; -1 is unset
  set_bits, sampling,
  running,         \* the driver's callback on each thread: the requests it has yet to send
  config_mutex_,   \* the thread in the callback's locked part
  user, mode,      \* the user's wishes; firmware of each lidar
  value, destination, refused,   \* what the lidars took and what they refused
  trouble

sdk == <<main, cfg, custom_lidars_cfg_map_, channel_info_, devices_, updated, count>>
driver == <<livox_config, set_bits, sampling, running, config_mutex_>>
lidars == <<user, mode, value, destination, refused>>
setupVars == <<sdk, driver, lidars, pending, trouble>>

-----------------------------------------------------------------------------
\* The driver's settings: its fields are 8 bits wide, -1 meaning unset.
Int8(v) == ((v + 128) % 256) - 128
ParseUserConfigs(u) ==
  [l \in DOMAIN u |-> [s \in Setting |-> IF s \in DOMAIN u[l] THEN Int8(u[l][s]) ELSE -1]]
Configured(l) == {s \in Setting : livox_config[l][s] # -1}

\* The API functions of the driver: the parameter of the lidar that is written, and the
\* value. Data type 0 is sent as a request for IMU data, and any mode but 0 turns dual
\* emission on.
SetLivoxLidarPclDataType(v) == IF v = 0 THEN <<"imu_data_en", 1>> ELSE <<"pcl_data_type", v>>
SetLivoxLidarScanPattern(v) == <<"pattern_mode", v>>
SetLivoxLidarBlindSpot(v) == <<"blind_spot_set", v>>
SetLivoxLidarDualEmit(v) == <<"dual_emit_en", IF v = 0 THEN 0 ELSE 1>>
SetLivoxLidarInstallAttitude == <<"install_attitude", "extrinsics">>
kLivoxLidarNormal == 1
SetLivoxLidarWorkMode == <<"work_tgt_mode", kLivoxLidarNormal>>
EnableLivoxLidarImuData == <<"imu_data_en", 1>>

LidarKey(cmd, v) ==
  CASE cmd = "pcl_data_type" -> SetLivoxLidarPclDataType(v)
    [] cmd = "pattern_mode" -> SetLivoxLidarScanPattern(v)
    [] cmd = "blind_spot_set" -> SetLivoxLidarBlindSpot(v)
    [] cmd = "dual_emit_en" -> SetLivoxLidarDualEmit(v)
    [] cmd = "Attitude" -> SetLivoxLidarInstallAttitude
    [] cmd = "WorkMode" -> SetLivoxLidarWorkMode
    [] cmd = "Imu" -> EnableLivoxLidarImuData

\* The calls of LidarInfoChangeCallback: a lidar the user did not list is only started.
SettingCalls(l) ==
  LET IfSet(s) == IF s \in Configured(l) THEN <<<<l, s>>>> ELSE <<>>
  IN  IfSet("pcl_data_type") \o IfSet("pattern_mode") \o IfSet("blind_spot_set") \o IfSet("dual_emit_en")
Calls(l) ==
  IF l \in DOMAIN livox_config
  THEN SettingCalls(l) \o <<<<l, "Attitude">>, <<l, "WorkMode">>, <<l, "Imu">>>>
  ELSE <<<<l, "WorkMode">>, <<l, "Imu">>>>

Send(l, cmd) == pending' = BagAdd(pending, <<l, cmd>>)
UnderWay(l, cmd) == IF BagIn(<<l, cmd>>, pending) THEN pending[<<l, cmd>>] ELSE 0
Known(l) == l \in DOMAIN devices_
Update(f, l, v) == [k \in DOMAIN f \cup {l} |-> IF k = l THEN v ELSE f[k]]

-----------------------------------------------------------------------------
\* The main thread. InitLivoxLidar reads the driver's settings, starts the SDK, fills in
\* its lidars and registers the callback; detection runs since the SDK was started.
SdkInit ==
  /\ main = "init"
  /\ LET c == Load(cfg)
     IN  IF ~c.ok THEN main' = "failed" /\ UNCHANGED <<cfg, custom_lidars_cfg_map_, channel_info_>>
         ELSE /\ main' = "fill"
              /\ cfg' = c
              /\ custom_lidars_cfg_map_' = InitialCustomMap(c)
              /\ channel_info_' = CreateChannels(CreateDetectionChannel(c), c.custom_lidars_cfg, c)
  /\ UNCHANGED <<devices_, updated, count, driver, lidars, pending, trouble>>

SetLivoxLidarInfoChangeCallback ==
  /\ main = "fill"
  /\ main' = "run"
  /\ livox_config' = ParseUserConfigs(user)
  /\ set_bits' = [l \in DOMAIN user |-> {}]
  /\ UNCHANGED <<cfg, custom_lidars_cfg_map_, channel_info_, devices_, updated, count,
                 sampling, running, config_mutex_, lidars, pending, trouble>>

\* LivoxLidarSdkUninit forgets the lidars; requests under way are not answered any more.
LivoxLidarSdkUninit ==
  /\ main = "run" /\ running = [t \in Thread |-> <<>>]
  /\ main' = "stopped"
  /\ custom_lidars_cfg_map_' = <<>> /\ channel_info_' = <<>>
  /\ devices_' = <<>> /\ updated' = {}
  /\ UNCHANGED <<cfg, count, driver, lidars, pending, trouble>>

-----------------------------------------------------------------------------
\* The detection IO thread.
Listening(t) == main \in {"fill", "run"} /\ running[t] = <<>>

\* LivoxLidarInfoChange on thread t: the driver is told once, if it has registered by then.
LivoxLidarInfoChange(l, t) ==
  /\ devices_' = [devices_ EXCEPT ![l].is_update_cfg = TRUE, ![l].is_callback = TRUE]
  /\ running' = IF ~devices_[l].is_callback /\ main = "run"
                THEN [running EXCEPT ![t] = Calls(l)] ELSE running

\* The answer of a lidar no configuration names gives it the one of its type; the next
\* answer is the first that is looked at.
AddLidar(l) ==
  LET types == type_lidars_cfg_map_(cfg)
  IN  /\ Listening("detection")
      /\ OnData(custom_lidars_cfg_map_, l, kDetectionPort, cfg) = "unknown"
      /\ TypeOf[l] \in DOMAIN types
      /\ LET g == [types[TypeOf[l]] EXCEPT !.lidar_ip = l]
         IN  /\ custom_lidars_cfg_map_' = Update(custom_lidars_cfg_map_, l, g)
             /\ channel_info_' = CreateChannels(channel_info_, <<g>>, cfg)
      /\ UNCHANGED <<main, cfg, devices_, updated, count, driver, lidars, pending, trouble>>

\* The first answer of a lidar: a master asks for its firmware type.
NewDevice(l) ==
  /\ Listening("detection") /\ ~Known(l)
  /\ OnData(custom_lidars_cfg_map_, l, kDetectionPort, cfg) = "GeneralCommandHandler"
  /\ devices_' = Update(devices_, l, [is_get_loader_mode |-> FALSE, is_loader_mode |-> FALSE,
                                      is_update_cfg |-> FALSE, is_callback |-> FALSE])
  /\ IF cfg.master_sdk THEN Send(l, "FwType") ELSE UNCHANGED pending
  /\ UNCHANGED <<main, cfg, custom_lidars_cfg_map_, channel_info_, updated, count, driver,
                 lidars, trouble>>

\* A later answer: UpdateLidarCfg, by the handler of the lidar's type and only for a lidar
\* configured under this type, until the lidar has taken it.
UpdateLidarCfg(l) ==
  LET d == devices_[l]
  IN  /\ Listening("detection") /\ Known(l)
      /\ ~d.is_update_cfg /\ d.is_get_loader_mode /\ ~d.is_loader_mode
      /\ cfg.master_sdk /\ l \notin updated
      /\ custom_lidars_cfg_map_[l].device_type = TypeOf[l]
      /\ SetCustomLidarRequest(custom_lidars_cfg_map_[l]) # <<>>
      /\ UnderWay(l, "HostCfg") < MaxPending
      /\ Send(l, "HostCfg")
      /\ UNCHANGED <<sdk, driver, lidars, trouble>>

\* A lidar in its loader is reported to the driver as it is.
LoaderFound(l) ==
  /\ Listening("detection") /\ Known(l)
  /\ devices_[l].is_get_loader_mode /\ devices_[l].is_loader_mode
  /\ LivoxLidarInfoChange(l, "detection")
  /\ UNCHANGED <<main, cfg, custom_lidars_cfg_map_, channel_info_, updated, count, livox_config,
                 set_bits, sampling, config_mutex_, lidars, pending, trouble>>

-----------------------------------------------------------------------------
\* The callbacks of the commands, for an answer ("ok", "refused") or its absence
\* ("timeout"). A request sent again takes the place of the one that ended.
Done(l, cmd) == pending' = BagRemove(pending, <<l, cmd>>)
SendAgain == UNCHANGED pending

UpdateFwType(l, loader) ==
  devices_' = IF Known(l) THEN [devices_ EXCEPT ![l].is_get_loader_mode = TRUE,
                                                ![l].is_loader_mode = loader] ELSE devices_

\* QueryFwTypeCallback looks at the count before the answer: once the queries of all the
\* lidars failed too often, the next answer, whatever it says, counts as an application.
QueryFwTypeCallback(l, status) ==
  /\ IF count > RetryLimit
     THEN count' = 0 /\ UpdateFwType(l, FALSE) /\ Done(l, "FwType")
     ELSE IF status = "ok"
     THEN count' = 0 /\ UpdateFwType(l, mode[l] = "loader") /\ Done(l, "FwType")
     ELSE count' = count + 1 /\ SendAgain /\ UNCHANGED devices_
  /\ UNCHANGED <<updated, driver>>

\* UpdateLidarCallback: the HAP's handler reports a lidar that refused like one that took
\* its configuration; those of the Mid-360 family try again at the next search answer.
HapReports(status) == status \in {"ok", "refused"}
Mid360Reports(status) == status = "ok"
Mid360sReports(status) == status = "ok"

UpdateLidarCallback(l, status) ==
  LET type == custom_lidars_cfg_map_[l].device_type
  IN  /\ Done(l, "HostCfg")
      /\ updated' = IF status = "ok" THEN updated \cup {l} ELSE updated
      /\ IF \/ type = "HAP" /\ HapReports(status)
            \/ type = "MID360" /\ Mid360Reports(status)
            \/ type = "Mid360s" /\ Mid360sReports(status)
         THEN LivoxLidarInfoChange(l, "command") ELSE UNCHANGED <<devices_, running>>
      /\ UNCHANGED <<count, livox_config, set_bits, sampling, config_mutex_>>

\* Mutant of SetCallback: it does not wait for the callback that sends the settings.
SetCallbackUnlocked(l, s, status) ==
  /\ IF status = "timeout" THEN SendAgain /\ UNCHANGED <<set_bits, sampling>>
     ELSE /\ set_bits' = [set_bits EXCEPT ![l] = @ \ {s}]
          /\ sampling' = IF set_bits'[l] = {} THEN sampling \cup {l} ELSE sampling
          /\ Done(l, s)
  /\ UNCHANGED <<devices_, updated, count, livox_config, running, config_mutex_>>

\* The callbacks of the four settings: any answer settles a setting, also a refusal; the
\* lidar is sampling once all are settled. They wait for the callback that sends them.
SetCallback(l, s, status) ==
  /\ IF status = "timeout" THEN SendAgain /\ UNCHANGED <<set_bits, sampling>>
     ELSE /\ config_mutex_ = None
          /\ set_bits' = [set_bits EXCEPT ![l] = @ \ {s}]
          /\ sampling' = IF set_bits'[l] = {} THEN sampling \cup {l} ELSE sampling
          /\ Done(l, s)
  /\ UNCHANGED <<devices_, updated, count, livox_config, running, config_mutex_>>

\* Attitude and work mode are tried again after a timeout and never checked; the branch
\* that would try the IMU again cannot be reached, for a timeout comes without a response.
OtherCallback(l, cmd, status) ==
  /\ IF status = "timeout" /\ cmd \in {"Attitude", "WorkMode"} THEN SendAgain ELSE Done(l, cmd)
  /\ UNCHANGED <<devices_, updated, count, driver>>

Callback(l, cmd, status) ==
  /\ CASE cmd = "FwType" -> QueryFwTypeCallback(l, status)
       [] cmd = "HostCfg" -> UpdateLidarCallback(l, status)
       [] cmd \in Setting -> SetCallback(l, cmd, status)
       [] OTHER -> OtherCallback(l, cmd, status)
  /\ UNCHANGED <<main, cfg, custom_lidars_cfg_map_, channel_info_, user, mode>>

-----------------------------------------------------------------------------
\* LidarInfoChangeCallback on thread t: the next call. The settings are sent under
\* config_mutex_, each with its bit; the rest after it is released.
LidarInfoChangeCallback(t) ==
  /\ running[t] # <<>>
  /\ LET l == Head(running[t])[1]
         cmd == Head(running[t])[2]
         rest == Tail(running[t])
     IN  /\ cmd \in Setting => config_mutex_ \in {None, t}
         /\ config_mutex_' = IF cmd \notin Setting THEN config_mutex_
                             ELSE IF Head(rest)[2] \in Setting THEN t ELSE None
         /\ set_bits' = IF cmd \in Setting THEN [set_bits EXCEPT ![l] = @ \cup {cmd}] ELSE set_bits
         /\ Send(l, cmd)
         /\ running' = [running EXCEPT ![t] = rest]
  /\ UNCHANGED <<sdk, livox_config, sampling, lidars, trouble>>

\* The effect of a request on its lidar (the lidar's firmware, seen from the requests).
Execute(l, cmd) ==
  CASE cmd = "HostCfg" ->
         /\ destination' = Update(destination, l, SetCustomLidarRequest(custom_lidars_cfg_map_[l]))
         /\ UNCHANGED <<value, refused>>
    [] cmd = "FwType" -> UNCHANGED <<value, destination, refused>>
    [] OTHER ->
         /\ LET w == LidarKey(cmd, IF cmd \in Setting THEN livox_config[l][cmd] ELSE 0)
            IN  value' = [value EXCEPT ![l] = Update(@, w[1], w[2])]
         /\ UNCHANGED <<destination, refused>>

\* An answer reaches the command IO thread if OnData lets the lidar's command port pass.
Answered(l, cmd) ==
  /\ BagIn(<<l, cmd>>, pending) /\ Listening("command")
  /\ OnData(custom_lidars_cfg_map_, l, LidarPorts(TypeOf[l]).cmd_data_port, cfg) = "GeneralCommandHandler"

Accepted(l, cmd) ==
  /\ Answered(l, cmd)
  /\ Execute(l, cmd)
  /\ Callback(l, cmd, "ok")
  /\ UNCHANGED trouble

Refused(l, cmd) ==
  /\ Answered(l, cmd) /\ trouble < MaxTrouble
  /\ refused' = refused \cup {<<l, cmd>>}
  /\ Callback(l, cmd, "refused")
  /\ trouble' = trouble + 1
  /\ UNCHANGED <<value, destination>>

\* The request or its answer is lost: done tells which. CommandsHandle reports it.
TimedOut(l, cmd, done) ==
  /\ BagIn(<<l, cmd>>, pending) /\ main \in {"fill", "run"} /\ trouble < MaxTrouble
  /\ IF done THEN Execute(l, cmd) ELSE UNCHANGED <<value, destination, refused>>
  /\ Callback(l, cmd, "timeout")
  /\ trouble' = trouble + 1

-----------------------------------------------------------------------------
SetupInit ==
  /\ main = "init" /\ cfg \in Files /\ user \in UserConfigs
  /\ custom_lidars_cfg_map_ = <<>> /\ channel_info_ = <<>> /\ devices_ = <<>>
  /\ updated = {} /\ count = 0 /\ pending = EmptyBag
  /\ livox_config = <<>> /\ set_bits = <<>> /\ sampling = {}
  /\ running = [t \in Thread |-> <<>>] /\ config_mutex_ = None
  /\ mode \in [Lidar -> {"application", "loader"}]
  /\ value = [l \in Lidar |-> <<>>] /\ destination = <<>> /\ refused = {} /\ trouble = 0

SetupNext ==
  \/ SdkInit \/ SetLivoxLidarInfoChangeCallback \/ LivoxLidarSdkUninit
  \/ \E l \in Lidar : AddLidar(l) \/ NewDevice(l) \/ UpdateLidarCfg(l) \/ LoaderFound(l)
  \/ \E t \in Thread : LidarInfoChangeCallback(t)
  \/ \E l \in Lidar, cmd \in Command :
       Accepted(l, cmd) \/ Refused(l, cmd) \/ \E done \in BOOLEAN : TimedOut(l, cmd, done)

SetupSpec == SetupInit /\ [][SetupNext]_setupVars

-----------------------------------------------------------------------------
SetupTypeOK ==
  /\ main \in {"init", "fill", "run", "stopped", "failed"}
  /\ DOMAIN devices_ \subseteq DOMAIN custom_lidars_cfg_map_
  /\ updated \cup sampling \subseteq Lidar /\ count \in 0 .. RetryLimit + 1
  /\ BagToSet(pending) \subseteq Lidar \X Command
  /\ \A l \in DOMAIN set_bits : set_bits[l] \subseteq Configured(l)
  /\ config_mutex_ \in Thread \cup {None} /\ trouble \in 0 .. MaxTrouble

\* A lidar that the driver shows as sampling has every setting the user asked for, and
\* has it as the user wrote it, except one it refused, one that 8 bits cannot hold and -1,
\* which is unset: whatever was lost, repeated or answered late on the way.
SettingsAgreed ==
  \A l \in sampling : \A s \in DOMAIN user[l] :
    \/ user[l][s] \notin (-128 .. 127) \ {-1} \/ <<l, s>> \in refused
    \/ LET w == LidarKey(s, user[l][s]) IN w[1] \in DOMAIN value[l] /\ value[l][w[1]] = w[2]

\* Two configurations that share a socket agree on its group; the file may break this.
SharesGroup(g) ==
  \A k \in DOMAIN custom_lidars_cfg_map_ :
    LET h == custom_lidars_cfg_map_[k]
    IN  h.host_ip = g.host_ip => h.multicast_ip = g.multicast_ip

\* The points and IMU samples of a lidar that took its destination reach DataHandler:
\* a socket is bound to where they are sent, and OnData knows the port they come from.
\* Not claimed where the file itself says otherwise: a host port that is never opened, a
\* HAP given ports it does not send from, one socket meant for two groups.
DataReachable ==
  main \in {"fill", "run"} =>
    \A l \in DOMAIN destination, s \in {"point", "imu"} :
      LET d == destination[l][s]
          g == custom_lidars_cfg_map_[l]
      IN  \/ d.port \in {0, kDetectionPort} \/ ~SharesGroup(g)
          \/ g.device_type = "HAP" /\ g.lidar_ports # LidarPorts("HAP")
          \/ /\ \E k \in DOMAIN channel_info_ : channel_info_[k] = <<d.ip, d.port>>
             /\ OnData(custom_lidars_cfg_map_, l, d.from, cfg) = "DataHandler"
=============================================================================
