------------------------------- MODULE JobSpec -------------------------------
(***************************************************************************)
(* The spec of a PyTorchJob as users write it, its validation, its         *)
(* defaults, and the environment that its pods get from it: what torch     *)
(* needs to form the process group.                                        *)
(*                                                                         *)
(* A value that is not given is Unset.  The map of replica types has a     *)
(* spec, NilSpec or, where a name is missing, Absent under every name.  Of *)
(* a container only what these functions look at is kept: its name,        *)
(* whether it has an image, and its first port named pytorchjob-port.      *)
(***************************************************************************)
EXTENDS Integers, Sequences

CONSTANTS Unset, NilSpec, Absent

Rtypes == {"Master", "Worker"}
Policies == {"Always", "OnFailure", "Never", "ExitCode"}
CleanPolicies == {"None", "Running", "All"}
DefaultContainerName == "pytorch"
DefaultPort == 23456
DefaultRestartPolicy == "OnFailure"

\* The spellings of the names of replica types that strings.EqualFold equates.
Spellings == [Master |-> {"Master", "master", "MASTER"}, Worker |-> {"Worker", "worker"}]
Names == Spellings.Master \cup Spellings.Worker \cup {"Chief"}

Container == [name : {DefaultContainerName, "sidecar"}, image : BOOLEAN,
              port : Nat \cup {Unset}]

\* The schema of the CRD asks for at least one replica of a type; the code
\* works with none as well.
ReplicaSpec == [replicas : Nat \cup {Unset}, restart : Policies \cup {Unset},
                containers : Seq(Container)]

JobSpecType ==
    [clean : CleanPolicies \cup {Unset}, ttl : BOOLEAN,
     types : [Names -> ReplicaSpec \cup {NilSpec, Absent}]]

ASSUME NothingAssumption ==
    /\ Unset \notin Int /\ Unset \notin Policies /\ Unset \notin CleanPolicies
    /\ NilSpec \notin ReplicaSpec /\ Absent \notin ReplicaSpec /\ NilSpec # Absent

\* The keys of the map of replica types.
Keys(types) == {t \in Names : types[t] # Absent}

-----------------------------------------------------------------------------
(* Validation. *)

\* The containers of a replica spec are those of a trainer.
validContainers(containers) ==
    /\ \A i \in 1 .. Len(containers) : containers[i].image
    /\ \E i \in 1 .. Len(containers) : containers[i].name = DefaultContainerName

\* Master and workers with proper containers, and one master.
ValidateV1PyTorchJobSpec(s) ==
    /\ \A t \in Keys(s.types) :
         t \in Rtypes /\ s.types[t] # NilSpec /\ validContainers(s.types[t].containers)
    /\ "Master" \in Keys(s.types)
    /\ s.types["Master"].replicas \in {Unset, 1}

-----------------------------------------------------------------------------
(* Defaults. *)

\* A type whose name is spelled in some other way gets the name typ, and
\* replaces a spec that has it already.  One is renamed, whichever comes first
\* in the order of a Go map: the set of what may result.
setTypeNameToCamelCase(types, typ) ==
    LET other == Keys(types) \cap (Spellings[typ] \ {typ})
    IN IF other = {} THEN {types}
       ELSE {[types EXCEPT ![typ] = types[t], ![t] = Absent] : t \in other}

setTypeNamesToCamelCase(types) ==
    UNION {setTypeNameToCamelCase(ts, "Worker") : ts \in setTypeNameToCamelCase(types, "Master")}

\* The first container with the name of a trainer, else the first of all.
trainerIndex(containers) ==
    LET named == {i \in 1 .. Len(containers) : containers[i].name = DefaultContainerName}
    IN IF named = {} THEN 1 ELSE CHOOSE i \in named : \A j \in named : i <= j

setDefaultPortMutant(containers) ==
    [containers EXCEPT ![1].port = IF @ = Unset THEN DefaultPort ELSE @]

setDefaultPort(containers) ==
    [containers EXCEPT ![trainerIndex(containers)].port = IF @ = Unset THEN DefaultPort ELSE @]

setDefaultReplicas(r) ==
    [r EXCEPT !.replicas = IF @ = Unset THEN 1 ELSE @,
              !.restart = IF @ = Unset THEN DefaultRestartPolicy ELSE @]

\* The spec of one type with its defaults.
defaultType(t, r) ==
    IF t = "Master"
    THEN [setDefaultReplicas(r) EXCEPT !.containers = setDefaultPort(r.containers)]
    ELSE setDefaultReplicas(r)

\* What SetDefaults_PyTorchJob may make of a spec that has no NilSpec.
SetDefaults_PyTorchJob(s) ==
    {[clean |-> IF s.clean = Unset THEN "None" ELSE s.clean,
      ttl |-> s.ttl,
      types |-> [t \in Names |-> IF ts[t] = Absent THEN Absent ELSE defaultType(t, ts[t])]] :
        ts \in setTypeNamesToCamelCase(s.types)}

-----------------------------------------------------------------------------
(* The environment of the pods of a valid spec with its defaults. *)

Size(s, t) == IF t \in Keys(s.types) THEN s.types[t].replicas ELSE 0

getTotalReplicas(s) == Size(s, "Master") + Size(s, "Worker")

\* The slices of getPodSlices: one for each index of each type.
ReplicasOf(s) ==
    {<<"Master", i>> : i \in 0 .. Size(s, "Master") - 1} \cup
    {<<"Worker", i>> : i \in 0 .. Size(s, "Worker") - 1}

\* The ports among which GetPortFromPyTorchJob finds that of the master.
masterPorts(s) ==
    LET containers == s.types["Master"].containers
    IN {containers[i].port : i \in {j \in 1 .. Len(containers) :
          containers[j].name = DefaultContainerName /\ containers[j].port # Unset}}

\* The name of the master's service, which is that of its pod.
MasterName == "master-0"

\* setClusterSpec: MASTER_ADDR, WORLD_SIZE and RANK of the replica <<type, index>>.
clusterSpecMutant(s, r) ==
    [addr |-> IF r[1] = "Master" THEN "localhost" ELSE MasterName,
     world |-> getTotalReplicas(s),
     rank |-> r[2]]

clusterSpec(s, r) ==
    [addr |-> IF r[1] = "Master" THEN "localhost" ELSE MasterName,
     world |-> getTotalReplicas(s),
     rank |-> IF r[1] = "Master" THEN r[2] ELSE r[2] + 1]

\* setRestartPolicy: what the kubelet does with a container that ends.
podRestartPolicy(policy) == IF policy = "ExitCode" THEN "Never" ELSE policy

-----------------------------------------------------------------------------
(* What a spec that users write should be good for. *)

\* Nothing is left unset that the controller dereferences, and the API server
\* takes the restart policies of the pods.
Complete(s) ==
    /\ s.clean \in CleanPolicies
    /\ \A t \in Keys(s.types) :
         /\ s.types[t].replicas \in Nat
         /\ podRestartPolicy(s.types[t].restart) \in {"Always", "OnFailure", "Never"}

\* A spec that passed the validation has one outcome of its defaults, whatever
\* the order of the map; it is complete, it still passes (the cache holds it
\* with its defaults and it is validated again at every sync), it has a port
\* for the master's service, and defaulting it again changes nothing.
Usable(s) ==
    ValidateV1PyTorchJobSpec(s) =>
      \E d \in SetDefaults_PyTorchJob(s) :
        /\ SetDefaults_PyTorchJob(s) = {d}
        /\ Complete(d)
        /\ ValidateV1PyTorchJobSpec(d)
        /\ masterPorts(d) # {}
        /\ SetDefaults_PyTorchJob(d) = {d}

\* The pods of a job form one process group: their ranks are exactly those
\* below the world size that all of them are told, none is given twice, and the
\* process of rank 0 is the one that is told to listen.
FormsTheWorld(s) ==
    ValidateV1PyTorchJobSpec(s) =>
      \A d \in SetDefaults_PyTorchJob(s) :
        /\ {clusterSpec(d, r).rank : r \in ReplicasOf(d)} = 0 .. getTotalReplicas(d) - 1
        /\ \A q, r \in ReplicasOf(d) :
             clusterSpec(d, q).rank = clusterSpec(d, r).rank => q = r
        /\ \A r \in ReplicasOf(d) :
             clusterSpec(d, r).rank = 0 <=> clusterSpec(d, r).addr = "localhost"
=============================================================================
