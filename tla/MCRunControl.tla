------------------------------ MODULE MCRunControl ------------------------------
(* RunControls that Qt Creator sets up, as small instances of RunControl    *)
(* for TLC.                                                                 *)
EXTENDS RunControl

NoDependencies == [w \in Worker |-> {}]

Dependencies(w, ds) == [NoDependencies EXCEPT ![w] = ds]

(* A program of this machine: one SimpleTargetRunner.                       *)
RunLocally ==
    [m_workers |-> {1}, kind |-> <<"local", "tool", "tool">>,
     startDependencies |-> NoDependencies, stopDependencies |-> NoDependencies,
     essential |-> {}]

(* LocalQmlProfilerSupport with its QmlProfilerRunner.                      *)
ProfileLocally ==
    [m_workers |-> {1, 2}, kind |-> <<"local", "engine", "tool">>,
     startDependencies |-> Dependencies(1, {2}),
     stopDependencies |-> Dependencies(1, {2}), essential |-> {}]

(* LinuxDeviceDebugSupport with its PortsGatherer and DebugServerRunner.    *)
DebugOnDevice ==
    [m_workers |-> {1, 2, 3}, kind |-> <<"engine", "tool", "device">>,
     startDependencies |-> [Dependencies(1, {2, 3}) EXCEPT ![3] = {2}],
     stopDependencies |-> NoDependencies, essential |-> {3}]

(* RemoteLinuxQmlToolingSupport with its PortsGatherer and the tool.        *)
ProfileOnDevice ==
    [m_workers |-> {1, 2, 3}, kind |-> <<"device", "tool", "engine">>,
     startDependencies |-> [Dependencies(1, {2}) EXCEPT ![3] = {1}],
     stopDependencies |-> Dependencies(1, {2, 3}), essential |-> {}]

(* QdbDevicePerfProfilerSupport with its QdbDeviceInferiorRunner and the    *)
(* ports gatherer of that.                                                  *)
PerfOnBoot2Qt ==
    [m_workers |-> {1, 2, 3}, kind |-> <<"tool", "closing", "tool">>,
     startDependencies |-> [Dependencies(1, {2}) EXCEPT ![2] = {3}],
     stopDependencies |-> Dependencies(1, {2}), essential |-> {}]

Usual == {RunLocally, ProfileLocally, DebugOnDevice, ProfileOnDevice, PerfOnBoot2Qt}
=============================================================================
