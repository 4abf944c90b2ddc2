--------------------------- MODULE KubernetesTargets ---------------------------
(***************************************************************************)
(* Target groups of Kubernetes objects (sd_k8s/targets.rs).  A group has   *)
(* one target; its labels are reduced to the objects they are taken from:  *)
(* the service of the slice, the endpoint, the node, the pod, and the      *)
(* container with its port.  An address is a host and a port, which        *)
(* join_host_port keeps apart by its brackets.                             *)
(*                                                                         *)
(* A pod has an ip, a node and containers, the regular ones before the     *)
(* init ones; a container has ports; a slice has ports and endpoints, and  *)
(* an endpoint addresses, a node and a reference to a pod.                 *)
(***************************************************************************)
EXTENDS Naturals, Sequences, FiniteSets, SequencesExt

CONSTANTS
  Absent,  \* an optional field that is not set, or a label that is not there
  NoStore  \* nodes, when the entry does not attach node metadata

Ports(container) == ToSet(container.ports)
Address(host, port) == [host |-> host, port |-> port]

\* The group every builder starts from.
NoLabels ==
  [service |-> Absent, endpoint |-> Absent, node |-> Absent, pod |-> Absent,
   container |-> Absent, port |-> Absent]

Group(address, labels) == [address |-> address, labels |-> labels]

\* add_node_labels: nothing without a store, or of a node that is not in it.
NodeLabels(nodes, node) == IF nodes # NoStore /\ node \in nodes THEN node ELSE Absent

-----------------------------------------------------------------------------
\* pod_target_groups

\* Pods that have no address yet, and those on nodes that are filtered out,
\* have no targets.
Admitted(pod, nodes) ==
  /\ pod.ip # Absent
  /\ nodes # NoStore => pod.node \in nodes

\* One target per port, or one without a port.
ContainerGroups(pod, container, labels) ==
  LET Of(port) ==
        Group(Address(pod.ip, port), [labels EXCEPT !.container = container, !.port = port])
  IN IF container.ports = <<>> THEN <<Of(Absent)>>
     ELSE [i \in DOMAIN container.ports |-> Of(container.ports[i])]

PodGroups(pod, nodes) ==
  IF ~Admitted(pod, nodes) THEN <<>>
  ELSE LET labels == [NoLabels EXCEPT !.pod = pod, !.node = NodeLabels(nodes, pod.node)]
       IN FlattenSeq([i \in DOMAIN pod.containers |->
            ContainerGroups(pod, pod.containers[i], labels)])

PodTargetGroups(pods, nodes) ==
  FlattenSeq([i \in DOMAIN pods |-> PodGroups(pods[i], nodes)])

-----------------------------------------------------------------------------
\* endpointslice_target_groups: pods and services are the stores, by name.

\* resolvePodRef: only references to pods that are in the store.
PodOf(endpoint, pods) ==
  IF endpoint.ref.kind = "Pod" /\ endpoint.ref.name \in DOMAIN pods
  THEN pods[endpoint.ref.name]
  ELSE Absent

EndpointNode(endpoint, nodes) ==
  IF endpoint.ref.kind = "Node" THEN NodeLabels(nodes, endpoint.ref.name)
  ELSE NodeLabels(nodes, endpoint.node)

\* The first container of the pod that declares the port.
Declaring(pod, port) ==
  IF pod = Absent \/ port = Absent THEN Absent
  ELSE LET k == SelectInSeq(pod.containers, LAMBDA c : port \in Ports(c))
       IN IF k = 0 THEN Absent ELSE pod.containers[k]

EndpointGroup(labels, address, endpoint, port, pods, nodes) ==
  LET pod == PodOf(endpoint, pods)
      container == Declaring(pod, port)
  IN Group(Address(address, port),
           [labels EXCEPT !.endpoint = endpoint,
                          !.node = EndpointNode(endpoint, nodes),
                          !.pod = pod,
                          !.container = container,
                          !.port = IF container = Absent THEN Absent ELSE port])

\* The groups of a slice's endpoints, by endpoint, port and address.
EndpointGroups(slice, labels, pods, nodes) ==
  FlattenSeq([e \in DOMAIN slice.endpoints |->
    FlattenSeq([p \in DOMAIN slice.ports |->
      [a \in DOMAIN slice.endpoints[e].addresses |->
         EndpointGroup(labels, slice.endpoints[e].addresses[a], slice.endpoints[e],
                       slice.ports[p], pods, nodes)]])])

\* Mutant: a pod is noted only where a port of the slice is one of its own.
JoinedByPort(slice, pods) ==
  {name \in DOMAIN pods :
     \E e \in ToSet(slice.endpoints), port \in ToSet(slice.ports) :
       /\ e.addresses # <<>>
       /\ e.ref = [kind |-> "Pod", name |-> name]
       /\ Declaring(pods[name], port) # Absent}

\* seen_pods: the pods that were joined, and the ports they were joined with.
JoinedPods(slice, pods) ==
  {name \in DOMAIN pods :
     \E e \in ToSet(slice.endpoints) :
       /\ e.addresses # <<>> /\ slice.ports # <<>>
       /\ e.ref = [kind |-> "Pod", name |-> name]}

SeenPorts(slice) == ToSet(slice.ports) \ {Absent}

\* Targets for the ports of a joined pod that the slice does not have.
AdditionalGroups(slice, labels, pod) ==
  IF pod.ip = Absent THEN <<>>
  ELSE FlattenSeq([i \in DOMAIN pod.containers |->
         LET container == pod.containers[i]
             Of(port) == Group(Address(pod.ip, port),
                               [labels EXCEPT !.pod = pod, !.container = container, !.port = port])
         IN FlattenSeq([p \in DOMAIN container.ports |->
              IF container.ports[p] \in SeenPorts(slice) THEN <<>>
              ELSE <<Of(container.ports[p])>>])])

\* The pods come out of a hash map: in any order.
SliceGroups(slice, services, pods, nodes) ==
  LET labels == [NoLabels EXCEPT
                   !.service = IF slice.service \in services THEN slice.service ELSE Absent]
      joined == SetToSeq(JoinedPods(slice, pods))
  IN EndpointGroups(slice, labels, pods, nodes)
       \o FlattenSeq([i \in DOMAIN joined |->
            AdditionalGroups(slice, labels, pods[joined[i]])])

EndpointsliceTargetGroups(slices, services, pods, nodes) ==
  FlattenSeq([i \in DOMAIN slices |-> SliceGroups(slices[i], services, pods, nodes)])

-----------------------------------------------------------------------------
\* The pods a slice with ports refers to under their own address.
Behind(slice, pods) ==
  {name \in DOMAIN pods :
     /\ slice.ports # <<>>
     /\ \E e \in ToSet(slice.endpoints) :
          /\ e.ref = [kind |-> "Pod", name |-> name]
          /\ pods[name].ip \in ToSet(e.addresses)}

Addresses(groups) == {groups[i].address : i \in DOMAIN groups}

\* The two roles agree on what there is to scrape: the slice role reaches
\* every declared port of a pod behind a slice that the pod role reaches, also
\* those that are not ports of the service.
ReachesDeclaredPorts(slice, services, pods, nodes) ==
  \A name \in Behind(slice, pods) :
    {address \in Addresses(PodGroups(pods[name], NoStore)) : address.port # Absent}
      \subseteq Addresses(SliceGroups(slice, services, pods, nodes))

\* A target that is added for a port of a pod is never a second one of a
\* target the slice lists: its ports are those "already emitted".
NoPortTwice(slice, services, pods, nodes) ==
  LET groups == SliceGroups(slice, services, pods, nodes)
      Listed == {g \in ToSet(groups) : g.labels.endpoint # Absent}
  IN \A added \in ToSet(groups) \ Listed, listed \in Listed :
       added.labels.pod = listed.labels.pod => added.address.port # listed.address.port
=============================================================================
