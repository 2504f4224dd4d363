------------------------------ MODULE Programs ------------------------------
\* Four programs checked together on small instances: the livox_ros_driver2 node that sets
\* its lidars up (LidarSetup), an upgrade (Upgrader) and a logging session (LogSession) of
\* the Livox SDK, and the rslidar_sdk node (RsNode). They share no state: a behavior is one
\* of the programs.
EXTENDS LidarSetup, Upgrader, LogSession, RsNode, TLC

VARIABLE program

programVars == <<program, setupVars, upgradeVars, logVars, nodeVars>>

\* The network: one lidar of each family, a host and two multicast groups.
Host == <<192, 168, 1, 5>>
Mid == <<192, 168, 1, 10>>
Hap == <<192, 168, 1, 11>>
Group == <<224, 1, 1, 5>>
MCTypes == Mid :> "Mid360s" @@ Hap :> "HAP"

HostPorts(p) == [cmd_data_port |-> p, push_msg_port |-> p + 100, point_data_port |-> p + 200,
                 imu_data_port |-> p + 300, log_data_port |-> p + 400]
HostInfo(p) == [host_ip |-> Host] @@ HostPorts(p)
GroupInfo(p, group) == [multicast_ip |-> group] @@ HostInfo(p)
Section(type, host, format) ==
  [lidar_net_info |-> LidarPorts(type), host_net_info |-> host, format |-> format]
OddPorts == [LidarPorts("Mid360s") EXCEPT !.point_data_port = 57300]
Logged == [lidar_log_enable |-> TRUE, lidar_log_cache_size_MB |-> 500, lidar_log_path |-> "./"]

\* Files as the samples of the SDK have them, and with what users change in them.
GoodFiles ==
  { \* a section of the old format for each type, on sockets of their own
    [Mid360s |-> Section("Mid360s", HostInfo(56101), "old"),
     HAP |-> Section("HAP", [cmd_data_ip |-> Host] @@ HostPorts(56000), "old")] @@ Logged,
    \* the new format: a group for the lidar that is listed, unicast for the others, and
    \* lidar ports that are not those of the Mid-360s
    [Mid360s |-> [lidar_net_info |-> OddPorts, format |-> "new",
                  host_net_info |-> <<GroupInfo(56101, Group) @@ [lidar_ip |-> <<Mid>>]>>],
     HAP |-> Section("HAP", <<HostInfo(57001)>>, "new")],
    \* a second group on the same sockets
    [Mid360s |-> Section("Mid360s", GroupInfo(56101, Group), "old"),
     HAP |-> Section("HAP", GroupInfo(56101, <<224, 1, 1, 6>>), "old")] }

OtherFiles ==
  { \* a slave, whose lidars another host sets up; a lidar listed under the wrong type
    [master_sdk |-> FALSE, HAP |-> Section("HAP", HostInfo(57001), "old")],
    [MID360 |-> [lidar_net_info |-> OddPorts, format |-> "new",
                 host_net_info |-> <<HostInfo(56101) @@ [lidar_ip |-> <<Mid, Hap>>]>>]],
    \* refused: nothing configured, no host, a lidar twice, no group, half a log
    Logged, [HAP |-> [lidar_net_info |-> LidarPorts("HAP"), format |-> "old"]],
    [HAP |-> Section("HAP", <<HostInfo(57001) @@ [lidar_ip |-> <<Hap, Hap>>]>>, "new")],
    [HAP |-> Section("HAP", GroupInfo(57001, <<10, 0, 0, 1>>), "old")],
    [HAP |-> Section("HAP", HostInfo(57001), "old"), lidar_log_enable |-> TRUE] }

MCFiles == GoodFiles \cup OtherFiles

MCUsers ==
  { Mid :> [pcl_data_type |-> 1, blind_spot_set |-> 200],
    Mid :> [pattern_mode |-> 0] @@ Hap :> [pcl_data_type |-> 0, dual_emit_en |-> 1] }

\* One RoboSense lidar that sends four frames; the sources of a node share only main()'s
\* loops over them.
MCFramesOf == <<4>>

Init ==
  /\ program \in {"driver", "upgrade", "logging", "node"}
  /\ SetupInit /\ UpgradeInit /\ LogInit /\ NodeInit
  /\ program # "driver" => cfg = CHOOSE f \in Files : TRUE
  /\ program # "driver" \/ cfg \in OtherFiles => /\ user = CHOOSE u \in UserConfigs : TRUE
                                                /\ mode = [l \in Lidar |-> "application"]
  /\ program # "upgrade" => firmware_ = "whole"
  /\ program # "logging" => numbering = "file"
  /\ config.msg_source = "packets" => ~config.ros_send_by_rows /\ ~config.dense_points
  /\ program # "node" => config = [msg_source |-> "lidar", ros_send_by_rows |-> FALSE, dense_points |-> FALSE]

Next ==
  /\ UNCHANGED program
  /\ \/ program = "driver" /\ SetupNext /\ UNCHANGED <<upgradeVars, logVars, nodeVars>>
     \/ program = "upgrade" /\ UpgradeNext /\ UNCHANGED <<setupVars, logVars, nodeVars>>
     \/ program = "logging" /\ LogNext /\ UNCHANGED <<setupVars, upgradeVars, nodeVars>>
     \/ program = "node" /\ NodeNext /\ UNCHANGED <<setupVars, upgradeVars, logVars>>

Spec == Init /\ [][Next]_programVars

\* Every variable of the four programs is of its type.
TypeOK == SetupTypeOK /\ UpgradeTypeOK /\ LogTypeOK /\ NodeTypeOK
=============================================================================
