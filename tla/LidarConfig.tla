---------------------------- MODULE LidarConfig ----------------------------
\* The configuration of the Livox SDK: what ParseCfgFile makes of the JSON file, what
\* ParamsCheck accepts and corrects, the sockets DeviceManager opens for it, the requests
\* BuildRequest makes of it and where OnData hands a datagram of a lidar. Pure operators.
\*
\* A JSON object is a function from the names of its members; a member that is missing,
\* or not of the kind the parser asks for, is not in its domain. An IP address is the
\* tuple of its numbers, the empty string the empty tuple.
EXTENDS Integers, Sequences, SequencesExt, FiniteSets

kDetectionPort == 56000
kHostDebugPointCloudPort == 44332
kLogPort == 0

LidarType == {"HAP", "MID360", "Mid360s"}
Mid360Family == {"MID360", "Mid360s"}
PortName == {"cmd_data_port", "push_msg_port", "point_data_port", "imu_data_port", "log_data_port"}

\* The ports the lidars send from.
LidarPorts(type) ==
  IF type = "HAP"
  THEN [cmd_data_port |-> 56000, push_msg_port |-> 0, point_data_port |-> 57000,
        imu_data_port |-> 58000, log_data_port |-> 59000]
  ELSE [cmd_data_port |-> 56100, push_msg_port |-> 56200, point_data_port |-> 56300,
        imu_data_port |-> 56400, log_data_port |-> 56500]

Bad == [ok |-> FALSE]
PortsOf(object) == [p \in PortName |-> object[p]]

\* host_ip, or else the cmd_data_ip of older files; no multicast_ip means unicast.
ParseHostNetInfo(host) ==
  IF DOMAIN host \cap {"host_ip", "cmd_data_ip"} = {} \/ ~(PortName \subseteq DOMAIN host) THEN Bad
  ELSE [ok |-> TRUE,
        host_ip |-> IF "host_ip" \in DOMAIN host THEN host.host_ip ELSE host.cmd_data_ip,
        multicast_ip |-> IF "multicast_ip" \in DOMAIN host THEN host.multicast_ip ELSE <<>>,
        ports |-> PortsOf(host)]

ParseLidarNetInfo(object) ==
  IF "lidar_net_info" \in DOMAIN object /\ PortName \subseteq DOMAIN object.lidar_net_info
  THEN [ok |-> TRUE, ports |-> PortsOf(object.lidar_net_info)] ELSE Bad

\* A LivoxLidarCfg: custom for a lidar the file lists by its address, or for all the other
\* lidars of a type.
ParseTypeLidarCfg(object, host, type, custom, ip) ==
  LET l == ParseLidarNetInfo(object)
      h == ParseHostNetInfo(host)
  IN  IF ~l.ok \/ ~h.ok THEN Bad
      ELSE [ok |-> TRUE, device_type |-> type, custom |-> custom, lidar_ip |-> ip, lidar_ports |-> l.ports,
            host_ip |-> h.host_ip, multicast_ip |-> h.multicast_ip, host_ports |-> h.ports]

\* One entry of host_net_info in the new format: a configuration of the type, or one for
\* each lidar it lists.
ParseEntry(object, host, type) ==
  IF "lidar_ip" \in DOMAIN host
  THEN [i \in DOMAIN host.lidar_ip |-> ParseTypeLidarCfg(object, host, type, TRUE, host.lidar_ip[i])]
  ELSE <<ParseTypeLidarCfg(object, host, type, FALSE, <<>>)>>

ParseNewLidarCfg(object, type) ==
  FlattenSeq([i \in DOMAIN object.host_net_info |-> ParseEntry(object, object.host_net_info[i], type)])

ParseOldLidarCfg(object, type) == <<ParseTypeLidarCfg(object, object.host_net_info, type, FALSE, <<>>)>>

\* host_net_info is an array in the new format (format = "new") and an object in the old
\* one; an old object's lidar_ip list is not looked at.
ParseLidarCfg(object, type) ==
  IF "host_net_info" \notin DOMAIN object THEN <<Bad>>
  ELSE IF object.format = "new" THEN ParseNewLidarCfg(object, type)
  ELSE ParseOldLidarCfg(object, type)

\* Parse: the sections in the order of the code, those of a type and those of one lidar
\* kept apart. The log settings are all there or the file is refused.
Parse(file) ==
  LET cfgs == FlattenSeq([i \in 1 .. 3 |->
                LET type == <<"HAP", "MID360", "Mid360s">>[i]
                IN  IF type \in DOMAIN file THEN ParseLidarCfg(file[type], type) ELSE <<>>])
      logs == "lidar_log_enable" \in DOMAIN file
  IN  IF \/ \E i \in DOMAIN cfgs : ~cfgs[i].ok
         \/ logs /\ ~({"lidar_log_cache_size_MB", "lidar_log_path"} \subseteq DOMAIN file)
      THEN Bad
      ELSE [ok |-> TRUE,
            master_sdk |-> IF "master_sdk" \in DOMAIN file THEN file.master_sdk ELSE TRUE,
            log |-> logs /\ file.lidar_log_enable,
            lidars_cfg |-> SelectSeq(cfgs, LAMBDA c : ~c.custom),
            custom_lidars_cfg |-> SelectSeq(cfgs, LAMBDA c : c.custom)]

-----------------------------------------------------------------------------
\* ParamsCheck

\* 256 passes the test of IpToU8 and is stored in a byte as 0.
IpToU8(ip) == IF Len(ip) = 4 /\ \A i \in 1 .. 4 : ip[i] \in 0 .. 256
              THEN [i \in 1 .. 4 |-> ip[i] % 256] ELSE <<>>

CheckLidarIp(cfgs) ==
  \A i \in DOMAIN cfgs : cfgs[i].custom =>
    cfgs[i].lidar_ip # <<>> /\ \A j \in DOMAIN cfgs : i # j => cfgs[i].lidar_ip # cfgs[j].lidar_ip

CheckLidarMulticastIp(cfg) ==
  cfg.multicast_ip # <<>> =>
    LET b == IpToU8(cfg.multicast_ip)
    IN  b # <<>> /\ b[1] \in 224 .. 239 /\ b # <<224, 0, 0, 0>>

\* Mutant of CheckPort: the Mid-360s was forgotten.
CheckPortMid360Only(cfg) ==
  IF cfg.device_type = "MID360"
  THEN [cfg EXCEPT !.lidar_ports = LidarPorts(cfg.device_type)] ELSE cfg

\* The ports of the Mid-360 and the Mid-360s are fixed, whatever the file says.
CheckPort(cfg) ==
  IF cfg.device_type \in Mid360Family
  THEN [cfg EXCEPT !.lidar_ports = LidarPorts(cfg.device_type)] ELSE cfg

CheckLidarPort(cfgs) == [i \in DOMAIN cfgs |-> CheckPort(cfgs[i])]

Check(parsed) ==
  LET cfgs == parsed.lidars_cfg \o parsed.custom_lidars_cfg
  IN  IF cfgs = <<>> \/ ~CheckLidarIp(cfgs) \/ \E i \in DOMAIN cfgs : ~CheckLidarMulticastIp(cfgs[i])
      THEN Bad
      ELSE [parsed EXCEPT !.lidars_cfg = CheckLidarPort(@), !.custom_lidars_cfg = CheckLidarPort(@)]

\* What LivoxLidarSdkInit makes of a file before DeviceManager::Init.
Load(file) == LET parsed == Parse(file) IN IF parsed.ok THEN Check(parsed) ELSE Bad

\* GetLidarConfigMap: the last configuration of a type, of a lidar, is the one kept.
LastOf(cfgs, key, value) ==
  LET of == {i \in DOMAIN cfgs : cfgs[i][key] = value}
  IN  cfgs[CHOOSE i \in of : \A j \in of : j <= i]
type_lidars_cfg_map_(c) ==
  [t \in {c.lidars_cfg[i].device_type : i \in DOMAIN c.lidars_cfg} |->
     LastOf(c.lidars_cfg, "device_type", t)]
InitialCustomMap(c) ==
  [ip \in {c.custom_lidars_cfg[i].lidar_ip : i \in DOMAIN c.custom_lidars_cfg} |->
     LastOf(c.custom_lidars_cfg, "lidar_ip", ip)]

\* The address the SDK broadcasts its searches from.
detection_host_ip_(c) ==
  IF c.lidars_cfg # <<>> THEN c.lidars_cfg[1].host_ip ELSE c.custom_lidars_cfg[1].host_ip

-----------------------------------------------------------------------------
\* Sockets. channel_info_ maps host address and port to the address its socket is bound
\* to; a second socket for the same address and port is never opened.
OpenOnce(channels, ip, port, bound) ==
  IF <<ip, port>> \in DOMAIN channels THEN channels
  ELSE [k \in DOMAIN channels \cup {<<ip, port>>} |-> IF k = <<ip, port>> THEN bound ELSE channels[k]]

\* A socket that joins a multicast group is bound to the group, not to the host.
CreateDataSocketAndAddDelegate(channels, cfg, port) ==
  IF cfg.host_ip = <<>> \/ port \in {0, kLogPort, kDetectionPort} THEN channels
  ELSE OpenOnce(channels, cfg.host_ip, port,
                <<IF cfg.multicast_ip = <<>> THEN cfg.host_ip ELSE cfg.multicast_ip, port>>)

CreateDataChannel(channels, cfg) ==
  FoldLeft(LAMBDA ch, p : CreateDataSocketAndAddDelegate(ch, cfg, p), channels,
           <<cfg.host_ports.point_data_port, cfg.host_ports.imu_data_port, kHostDebugPointCloudPort>>)

CreateCmdSocketAndAddDelegate(channels, cfg, port) ==
  IF cfg.host_ip = <<>> \/ port \in {0, kLogPort} THEN channels
  ELSE OpenOnce(channels, cfg.host_ip, port, <<cfg.host_ip, port>>)

\* The command socket belongs to the master; the log socket to an enabled log. The socket
\* for broadcast state of the Mid-360 family is kept outside channel_info_.
CreateCommandChannel(channels, cfg, c) ==
  FoldLeft(LAMBDA ch, p : CreateCmdSocketAndAddDelegate(ch, cfg, p), channels,
           (IF c.master_sdk THEN <<cfg.host_ports.cmd_data_port>> ELSE <<>>)
             \o <<cfg.host_ports.push_msg_port>>
             \o (IF c.log THEN <<cfg.host_ports.log_data_port>> ELSE <<>>))

CreateDetectionChannel(c) ==
  [k \in {<<detection_host_ip_(c), kDetectionPort>>} |-> k]

\* The channels of a list of configurations, each with its data before its commands.
CreateChannels(channels, cfgs, c) ==
  FoldLeft(LAMBDA ch, g : CreateCommandChannel(CreateDataChannel(ch, g), g, c), channels, cfgs)

-----------------------------------------------------------------------------
\* The request that tells a lidar where to send what: key to destination and lidar port.
Stream == {"state", "point", "imu"}
StreamPort(s) == CASE s = "state" -> "push_msg_port" [] s = "point" -> "point_data_port"
                   [] s = "imu" -> "imu_data_port"

InitHostIpAddr(cfg) == IpToU8(IF cfg.multicast_ip = <<>> THEN cfg.host_ip ELSE cfg.multicast_ip)

HostIpInfo(cfg, s) == [ip |-> InitHostIpAddr(cfg), port |-> cfg.host_ports[StreamPort(s)],
                       from |-> LidarPorts(cfg.device_type)[StreamPort(s)]]

BuildUpdateLidarCfgRequest(cfg) == [s \in {"point", "imu"} |-> HostIpInfo(cfg, s)]

\* The Mid-360 family is also told where its state goes; the host's own address has to be
\* readable even when the streams go to a group.
BuildUpdateMid360LidarCfgRequest(cfg) == [s \in Stream |-> HostIpInfo(cfg, s)]

\* SetCustomLidar of the three command handlers: no request is sent when an address cannot
\* be read (the empty function).
HapRequest(cfg) == IF InitHostIpAddr(cfg) = <<>> THEN <<>> ELSE BuildUpdateLidarCfgRequest(cfg)
Readable(cfg) == InitHostIpAddr(cfg) # <<>> /\ IpToU8(cfg.host_ip) # <<>>
Mid360Request(cfg) == IF Readable(cfg) THEN BuildUpdateMid360LidarCfgRequest(cfg) ELSE <<>>
Mid360sRequest(cfg) == IF Readable(cfg) THEN BuildUpdateMid360LidarCfgRequest(cfg) ELSE <<>>

\* By the handler of the type (CreateCommandHandler).
SetCustomLidarRequest(cfg) ==
  CASE cfg.device_type = "HAP" -> HapRequest(cfg)
    [] cfg.device_type = "MID360" -> Mid360Request(cfg)
    [] cfg.device_type = "Mid360s" -> Mid360sRequest(cfg)

\* OnData for a datagram of lidar l from its port: who gets it. Datagrams of the host's
\* own address are dropped, and those of an unknown lidar only count as search answers.
OnData(cfgs, l, port, c) ==
  IF l = detection_host_ip_(c) THEN "dropped"
  ELSE IF l \in DOMAIN cfgs
       THEN LET p == cfgs[l].lidar_ports
            IN  IF port \in {p.imu_data_port, p.point_data_port} THEN "DataHandler"
                ELSE IF port \in {kDetectionPort, p.cmd_data_port, p.push_msg_port, p.log_data_port}
                     THEN "GeneralCommandHandler" ELSE "dropped"
  ELSE IF port = kDetectionPort THEN "unknown" ELSE "dropped"
=============================================================================
