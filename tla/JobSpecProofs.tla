---------------------------- MODULE JobSpecProofs ----------------------------
(***************************************************************************)
(* The properties of JobSpec for any set of specs: any number of replicas, *)
(* containers and ports.                                                   *)
(***************************************************************************)
EXTENDS JobSpec, WellFoundedInduction, TLAPS

\* What the defaults make of a valid spec, whose names need no change.
Defaulted(s) ==
    [clean |-> IF s.clean = Unset THEN "None" ELSE s.clean,
     ttl |-> s.ttl,
     types |-> [t \in Names |->
        IF s.types[t] = Absent THEN Absent ELSE defaultType(t, s.types[t])]]

-----------------------------------------------------------------------------
(* Valid specs. *)

\* The names of a valid spec are those of the types, its values are specs of
\* replicas with the containers of a trainer, and there is one master.
LEMMA ValidTypes ==
    ASSUME NEW s \in JobSpecType, ValidateV1PyTorchJobSpec(s)
    PROVE  /\ Rtypes \subseteq Names
           /\ \A t \in Names \ Rtypes : s.types[t] = Absent
           /\ s.types["Master"] # Absent
           /\ \A t \in Names : s.types[t] # Absent =>
                /\ t \in Rtypes
                /\ s.types[t] \in ReplicaSpec
                /\ validContainers(s.types[t].containers)
           /\ s.types["Master"].replicas \in {Unset, 1}
<1>1. Rtypes \subseteq Names
  BY DEF Rtypes, Names, Spellings
<1>2. s.types \in [Names -> ReplicaSpec \cup {NilSpec, Absent}]
  BY DEF JobSpecType
<1>3. \A t \in Names : s.types[t] # Absent =>
        t \in Rtypes /\ s.types[t] # NilSpec /\ validContainers(s.types[t].containers)
  BY DEF ValidateV1PyTorchJobSpec, Keys
<1>4. \A t \in Names : s.types[t] # Absent => s.types[t] \in ReplicaSpec
  BY <1>2, <1>3
<1>5. s.types["Master"] # Absent /\ s.types["Master"].replicas \in {Unset, 1}
  BY DEF ValidateV1PyTorchJobSpec, Keys
<1> QED BY <1>1, <1>3, <1>4, <1>5

\* A valid spec has no name that would have to be spelled anew.
LEMMA NothingRenamed ==
    ASSUME NEW s \in JobSpecType, ValidateV1PyTorchJobSpec(s)
    PROVE  setTypeNamesToCamelCase(s.types) = {s.types}
<1>1. Keys(s.types) \subseteq Rtypes
  BY ValidTypes DEF Keys
<1>2. /\ Keys(s.types) \cap (Spellings["Master"] \ {"Master"}) = {}
      /\ Keys(s.types) \cap (Spellings["Worker"] \ {"Worker"}) = {}
  BY <1>1 DEF Rtypes, Spellings
<1>3. /\ setTypeNameToCamelCase(s.types, "Master") = {s.types}
      /\ setTypeNameToCamelCase(s.types, "Worker") = {s.types}
  BY <1>2 DEF setTypeNameToCamelCase
<1>4. setTypeNamesToCamelCase(s.types) =
        UNION {setTypeNameToCamelCase(ts, "Worker") : ts \in {s.types}}
  BY <1>3 DEF setTypeNamesToCamelCase
<1>5. {setTypeNameToCamelCase(ts, "Worker") : ts \in {s.types}} = {{s.types}}
  BY <1>3
<1> QED BY <1>4, <1>5

\* So the defaults of a valid spec have one outcome.
LEMMA OneOutcome ==
    ASSUME NEW s \in JobSpecType, ValidateV1PyTorchJobSpec(s)
    PROVE  SetDefaults_PyTorchJob(s) = {Defaulted(s)}
BY NothingRenamed DEF SetDefaults_PyTorchJob, Defaulted

-----------------------------------------------------------------------------
(* The defaults of a type. *)

\* The trainer is a container of its name.
LEMMA TrainerIsNamed ==
    ASSUME NEW cs \in Seq(Container), validContainers(cs)
    PROVE  /\ trainerIndex(cs) \in 1 .. Len(cs)
           /\ cs[trainerIndex(cs)].name = DefaultContainerName
<1> DEFINE named == {i \in 1 .. Len(cs) : cs[i].name = DefaultContainerName}
<1>1. named # {} /\ named \in SUBSET Nat
  BY DEF validContainers
<1>2. \E i \in named : \A j \in named : i <= j
  <2> DEFINE less == {p \in Nat \X Nat : p[1] < p[2]}
  <2>1. IsWellFoundedOn(less, Nat)
    BY NatLessThanWellFounded, Zenon DEF OpToRel
  <2>2. PICK i \in named : \A j \in named : ~(<<j, i>> \in less)
    <3> HIDE DEF less, named
    <3> QED BY <1>1, <2>1, WFMin, Zenon
  <2>3. \A j, k \in Nat : ~(<<j, k>> \in less) => k <= j
    OBVIOUS
  <2>4. \A j \in named : i <= j
    <3> HIDE DEF less
    <3> QED BY <1>1, <2>2, <2>3
  <2> QED BY <2>4
<1>3. trainerIndex(cs) \in named
  BY <1>1, <1>2 DEF trainerIndex
<1> QED BY <1>3

\* The default port changes the port of the trainer only, and only if it has
\* none; what has its default keeps it.
LEMMA DefaultPortSet ==
    ASSUME NEW cs \in Seq(Container), validContainers(cs)
    PROVE  /\ setDefaultPort(cs) \in Seq(Container)
           /\ validContainers(setDefaultPort(cs))
           /\ setDefaultPort(cs)[trainerIndex(cs)].port # Unset
           /\ trainerIndex(setDefaultPort(cs)) = trainerIndex(cs)
           /\ setDefaultPort(setDefaultPort(cs)) = setDefaultPort(cs)
<1> DEFINE i == trainerIndex(cs)
           ds == setDefaultPort(cs)
<1>1. i \in 1 .. Len(cs) /\ cs[i].name = DefaultContainerName
  BY TrainerIsNamed
<1>2. \A j \in 1 .. Len(cs) : cs[j] \in Container
  OBVIOUS
<1>3. DefaultPort \in Nat /\ Unset \notin Nat
  BY NothingAssumption DEF DefaultPort
<1>4. /\ ds \in Seq(Container)
      /\ Len(ds) = Len(cs)
      /\ \A j \in 1 .. Len(cs) : ds[j] =
           IF j = i THEN [cs[j] EXCEPT !.port = IF @ = Unset THEN DefaultPort ELSE @]
                    ELSE cs[j]
  <2> DEFINE Ported(c) == [c EXCEPT !.port = IF c.port = Unset THEN DefaultPort ELSE c.port]
  <2>1. Ported(cs[i]) \in Container
    BY <1>1, <1>2, <1>3 DEF Container
  <2>2. ds = [cs EXCEPT ![i] = Ported(cs[i])]
    BY DEF setDefaultPort
  <2> HIDE DEF Ported
  <2>3. ds \in Seq(Container) /\ Len(ds) = Len(cs)
        /\ \A j \in 1 .. Len(cs) : ds[j] = IF j = i THEN Ported(cs[i]) ELSE cs[j]
    BY <1>1, <1>2, <2>1, <2>2
  <2> QED BY <2>3 DEF Ported
<1>5. \A j \in 1 .. Len(cs) : ds[j].name = cs[j].name /\ ds[j].image = cs[j].image
  BY <1>2, <1>4 DEF Container
<1>6. ds[i].port # Unset
  BY <1>1, <1>2, <1>3, <1>4 DEF Container
<1>7. validContainers(ds)
  BY <1>4, <1>5 DEF validContainers
<1>8. trainerIndex(ds) = i
  <2> DEFINE First(S) == IF S = {} THEN 1 ELSE CHOOSE k \in S : \A j \in S : k <= j
             Named(c) == {j \in 1 .. Len(c) : c[j].name = DefaultContainerName}
  <2>1. Named(ds) = Named(cs)
    BY <1>4, <1>5
  <2>2. \A c : trainerIndex(c) = First(Named(c))
    BY DEF trainerIndex
  <2> HIDE DEF ds, First, Named
  <2> QED BY <2>1, <2>2
<1>9. ds \in Seq(Container) /\ Len(ds) = Len(cs)
  BY <1>4
<1>10. setDefaultPort(ds) = ds
  <2> HIDE DEF i, ds
  <2>1. i \in 1 .. Len(ds) /\ ds[i] \in Container
    BY <1>1, <1>9
  <2>2. [ds[i] EXCEPT !.port = ds[i].port] = ds[i]
    BY <2>1 DEF Container
  <2>3. setDefaultPort(ds) = [ds EXCEPT ![i] = [ds[i] EXCEPT !.port = ds[i].port]]
    BY <1>6, <1>8 DEF setDefaultPort
  <2>4. [ds EXCEPT ![i] = ds[i]] = ds
    BY <1>9, <2>1
  <2> QED BY <2>2, <2>3, <2>4
<1> QED BY <1>4, <1>6, <1>7, <1>8, <1>10

\* Replicas and restart policy get values, and keep them.
LEMMA DefaultReplicasSet ==
    ASSUME NEW r \in ReplicaSpec
    PROVE  LET d == setDefaultReplicas(r) IN
             /\ d \in ReplicaSpec
             /\ d.replicas \in Nat /\ d.restart \in Policies
             /\ d.containers = r.containers
             /\ r.replicas \in {Unset, 1} => d.replicas = 1
             /\ setDefaultReplicas(d) = d
BY NothingAssumption DEF setDefaultReplicas, ReplicaSpec, DefaultRestartPolicy, Policies

\* A type with its defaults is complete, and its defaults are what it has.
LEMMA DefaultTypeSet ==
    ASSUME NEW t \in Rtypes, NEW r \in ReplicaSpec, validContainers(r.containers)
    PROVE  LET d == defaultType(t, r) IN
             /\ d \in ReplicaSpec
             /\ d.replicas \in Nat /\ d.restart \in Policies
             /\ validContainers(d.containers)
             /\ r.replicas \in {Unset, 1} => d.replicas = 1
             /\ t = "Master" => d.containers = setDefaultPort(r.containers)
             /\ defaultType(t, d) = d
<1> DEFINE e == setDefaultReplicas(r)
           d == defaultType(t, r)
<1>1. /\ e \in ReplicaSpec
      /\ e.replicas \in Nat /\ e.restart \in Policies
      /\ e.containers = r.containers
      /\ r.replicas \in {Unset, 1} => e.replicas = 1
      /\ setDefaultReplicas(e) = e
  BY DefaultReplicasSet
<1>2. CASE t # "Master"
  <2>1. d = e
    BY <1>2 DEF defaultType
  <2>2. defaultType(t, e) = e
    BY <1>1, <1>2 DEF defaultType
  <2> QED BY <1>1, <1>2, <2>1, <2>2
<1>3. CASE t = "Master"
  <2>1. r.containers \in Seq(Container)
    BY DEF ReplicaSpec
  <2>2. /\ setDefaultPort(r.containers) \in Seq(Container)
        /\ validContainers(setDefaultPort(r.containers))
        /\ setDefaultPort(setDefaultPort(r.containers)) = setDefaultPort(r.containers)
    BY <2>1, DefaultPortSet
  <2>3. d = [e EXCEPT !.containers = setDefaultPort(r.containers)]
    BY <1>3 DEF defaultType
  <2>4. /\ d \in ReplicaSpec
        /\ d.replicas = e.replicas /\ d.restart = e.restart
        /\ d.containers = setDefaultPort(r.containers)
    BY <1>1, <2>2, <2>3 DEF ReplicaSpec
  <2>5. setDefaultReplicas(d) = d
    BY <1>1, <2>4, NothingAssumption DEF setDefaultReplicas, ReplicaSpec
  <2>6. defaultType(t, d) = d
    BY <1>3, <2>2, <2>4, <2>5 DEF defaultType, ReplicaSpec
  <2> QED BY <1>1, <1>3, <2>2, <2>4, <2>6
<1> QED BY <1>2, <1>3

-----------------------------------------------------------------------------
(* The defaults of a spec. *)

\* A valid spec with its defaults is a valid spec with one master.
LEMMA DefaultedIsValid ==
    ASSUME NEW s \in JobSpecType, ValidateV1PyTorchJobSpec(s)
    PROVE  /\ Defaulted(s) \in JobSpecType
           /\ ValidateV1PyTorchJobSpec(Defaulted(s))
           /\ Defaulted(s).types["Master"].replicas = 1
           /\ Keys(Defaulted(s).types) = Keys(s.types)
           /\ \A t \in Keys(s.types) :
                Defaulted(s).types[t] = defaultType(t, s.types[t])
<1> DEFINE d == Defaulted(s)
<1>1. /\ d.ttl = s.ttl
      /\ d.clean = IF s.clean = Unset THEN "None" ELSE s.clean
      /\ d.types = [t \in Names |->
           IF s.types[t] = Absent THEN Absent ELSE defaultType(t, s.types[t])]
      /\ d = [clean |-> d.clean, ttl |-> d.ttl, types |-> d.types]
  BY DEF Defaulted
<1>2. \A t \in Names : s.types[t] # Absent =>
        /\ t \in Rtypes
        /\ d.types[t] = defaultType(t, s.types[t])
        /\ d.types[t] \in ReplicaSpec
        /\ validContainers(d.types[t].containers)
        /\ s.types[t].replicas \in {Unset, 1} => d.types[t].replicas = 1
  BY <1>1, ValidTypes, DefaultTypeSet
<1>3. \A t \in Names : s.types[t] = Absent => d.types[t] = Absent
  BY <1>1
<1>4. d.types \in [Names -> ReplicaSpec \cup {NilSpec, Absent}]
  BY <1>1, <1>2, <1>3
<1>5. d.clean \in CleanPolicies /\ d.ttl \in BOOLEAN
  BY <1>1 DEF JobSpecType, CleanPolicies
<1>6. d \in JobSpecType
  BY <1>1, <1>4, <1>5 DEF JobSpecType
<1>7. Keys(d.types) = Keys(s.types)
  BY <1>2, <1>3, NothingAssumption DEF Keys
<1>8. "Master" \in Keys(s.types) /\ d.types["Master"].replicas = 1
  BY <1>2, ValidTypes DEF Keys, Rtypes
<1>9. ValidateV1PyTorchJobSpec(d)
  BY <1>2, <1>7, <1>8, NothingAssumption DEF ValidateV1PyTorchJobSpec, Keys
<1> QED BY <1>2, <1>6, <1>7, <1>8, <1>9 DEF Keys

-----------------------------------------------------------------------------
(* Theorems. *)

\* A spec that passes the validation has one set of defaults, with which it is
\* complete and passes again, has a port for its master, and stays as it is.
THEOREM ValidSpecsUsable == \A s \in JobSpecType : Usable(s)
<1> SUFFICES ASSUME NEW s \in JobSpecType, ValidateV1PyTorchJobSpec(s)
             PROVE  /\ SetDefaults_PyTorchJob(s) = {Defaulted(s)}
                    /\ Complete(Defaulted(s))
                    /\ ValidateV1PyTorchJobSpec(Defaulted(s))
                    /\ masterPorts(Defaulted(s)) # {}
                    /\ SetDefaults_PyTorchJob(Defaulted(s)) = {Defaulted(s)}
  BY DEF Usable
<1> DEFINE d == Defaulted(s)
<1>1. s \in JobSpecType
  OBVIOUS
<1>2. /\ d \in JobSpecType
      /\ ValidateV1PyTorchJobSpec(d)
      /\ Keys(d.types) = Keys(s.types)
      /\ \A t \in Keys(s.types) : d.types[t] = defaultType(t, s.types[t])
  BY <1>1, DefaultedIsValid
<1>3. \A t \in Keys(s.types) :
        /\ t \in Rtypes
        /\ d.types[t].replicas \in Nat /\ d.types[t].restart \in Policies
        /\ t = "Master" => d.types[t].containers = setDefaultPort(s.types[t].containers)
        /\ defaultType(t, d.types[t]) = d.types[t]
  BY <1>1, <1>2, ValidTypes, DefaultTypeSet DEF Keys
<1>4. Complete(d)
  <2>1. d.clean \in CleanPolicies
    BY <1>1 DEF Defaulted, JobSpecType, CleanPolicies
  <2>2. \A p \in Policies : podRestartPolicy(p) \in {"Always", "OnFailure", "Never"}
    BY DEF Policies, podRestartPolicy
  <2> QED BY <1>2, <1>3, <2>1, <2>2 DEF Complete
<1>5. masterPorts(d) # {}
  <2> DEFINE cs == s.types["Master"].containers
             i == trainerIndex(cs)
  <2>1. "Master" \in Keys(s.types) /\ cs \in Seq(Container) /\ validContainers(cs)
    BY <1>1, ValidTypes DEF Keys, Rtypes, ReplicaSpec
  <2>2. d.types["Master"].containers = setDefaultPort(cs)
    BY <1>3, <2>1
  <2>3. /\ trainerIndex(setDefaultPort(cs)) = i
        /\ setDefaultPort(cs)[i].port # Unset
        /\ setDefaultPort(cs) \in Seq(Container)
        /\ validContainers(setDefaultPort(cs))
    BY <2>1, DefaultPortSet
  <2>4. /\ i \in 1 .. Len(setDefaultPort(cs))
        /\ setDefaultPort(cs)[i].name = DefaultContainerName
    BY <2>3, TrainerIsNamed
  <2> QED BY <2>2, <2>3, <2>4 DEF masterPorts
<1>6. Defaulted(d) = d
  <2>1. d.clean # Unset
    BY <1>4, NothingAssumption DEF Complete
  <2>2. \A t \in Names :
          d.types[t] = IF d.types[t] = Absent THEN Absent ELSE defaultType(t, d.types[t])
    BY <1>2, <1>3 DEF Keys
  <2>3. d.types \in [Names -> ReplicaSpec \cup {NilSpec, Absent}]
    BY <1>2 DEF JobSpecType
  <2>4. d.types = [t \in Names |->
          IF d.types[t] = Absent THEN Absent ELSE defaultType(t, d.types[t])]
    BY <2>2, <2>3
  <2>5. d = [clean |-> d.clean, ttl |-> d.ttl, types |-> d.types]
    BY <1>2 DEF JobSpecType
  <2>6. Defaulted(d) = [clean |-> d.clean, ttl |-> d.ttl, types |-> d.types]
    BY <2>1, <2>4 DEF Defaulted
  <2> QED BY <2>5, <2>6
<1>7. SetDefaults_PyTorchJob(d) = {d}
  BY <1>2, <1>6, OneOutcome
<1> QED BY <1>1, <1>2, <1>4, <1>5, <1>7, OneOutcome

\* The ranks of the pods of a valid job are those of a process group of its
\* size, whatever the number of workers (setClusterSpec).
THEOREM RanksAreComplete == \A s \in JobSpecType : FormsTheWorld(s)
<1> SUFFICES ASSUME NEW s \in JobSpecType, ValidateV1PyTorchJobSpec(s),
                    NEW d \in SetDefaults_PyTorchJob(s)
             PROVE
        /\ {clusterSpec(d, r).rank : r \in ReplicasOf(d)} = 0 .. getTotalReplicas(d) - 1
        /\ \A q, r \in ReplicasOf(d) :
             clusterSpec(d, q).rank = clusterSpec(d, r).rank => q = r
        /\ \A r \in ReplicasOf(d) :
             clusterSpec(d, r).rank = 0 <=> clusterSpec(d, r).addr = "localhost"
  BY DEF FormsTheWorld
<1> DEFINE n == Size(d, "Worker")
<1>1. d = Defaulted(s) /\ s \in JobSpecType
  BY OneOutcome
<1>2. Size(d, "Master") = 1
  BY <1>1, DefaultedIsValid, ValidTypes DEF Size, Keys, Rtypes
<1>3. n \in Nat
  <2>1. \A t \in Keys(d.types) : d.types[t].replicas \in Nat
    BY <1>1, DefaultedIsValid, DefaultTypeSet, ValidTypes DEF Keys
  <2> QED BY <2>1 DEF Size
<1>4. getTotalReplicas(d) - 1 = n
  BY <1>2, <1>3 DEF getTotalReplicas
<1>5. \A r : r \in ReplicasOf(d) <=>
        r = <<"Master", 0>> \/ \E i \in 0 .. n - 1 : r = <<"Worker", i>>
  BY <1>2, <1>3 DEF ReplicasOf
<1>6. clusterSpec(d, <<"Master", 0>>).rank = 0
      /\ clusterSpec(d, <<"Master", 0>>).addr = "localhost"
  BY DEF clusterSpec
<1>7. \A i \in 0 .. n - 1 :
        /\ clusterSpec(d, <<"Worker", i>>).rank = i + 1
        /\ clusterSpec(d, <<"Worker", i>>).addr # "localhost"
  BY DEF clusterSpec, MasterName
<1> HIDE DEF n
<1>8. \A k \in 0 .. n : \E r \in ReplicasOf(d) : clusterSpec(d, r).rank = k
  <2> TAKE k \in 0 .. n
  <2>1. CASE k = 0
    BY <1>5, <1>6, <2>1
  <2>2. CASE k # 0
    <3>1. k - 1 \in 0 .. n - 1 /\ (k - 1) + 1 = k
      BY <1>3, <2>2
    <3> QED BY <1>5, <1>7, <3>1
  <2> QED BY <2>1, <2>2
<1>9. \A r \in ReplicasOf(d) : clusterSpec(d, r).rank \in 0 .. n
  BY <1>3, <1>5, <1>6, <1>7
<1>10. \A q, r \in ReplicasOf(d) :
         clusterSpec(d, q).rank = clusterSpec(d, r).rank => q = r
  BY <1>3, <1>5, <1>6, <1>7
<1>11. \A r \in ReplicasOf(d) :
         clusterSpec(d, r).rank = 0 <=> clusterSpec(d, r).addr = "localhost"
  BY <1>3, <1>5, <1>6, <1>7
<1> QED BY <1>4, <1>8, <1>9, <1>10, <1>11
=============================================================================
