------------------------------- MODULE K8sPods -------------------------------
(***************************************************************************)
(* The pods of one Kubernetes namespace as the adapter and the reconcilers *)
(* use them.  The API server and the kubelet are external: a name          *)
(* identifies at most one pod at a time, Delete only marks a pod, which    *)
(* keeps its name until the kubelet has stopped it, and a container's end  *)
(* shows as the pod phase Succeeded or Failed (RestartPolicyNever).  A pod *)
(* that is Pending is not told apart from one that is Running.             *)
(***************************************************************************)
CONSTANTS UIDs,   \* identities of the pods that can be created
          Names   \* pod names, each a sequence of words

NoName == <<>>

ASSUME NameAssumption == NoName \notin Names

VARIABLES podName,   \* podName[u]: metadata.name, NoName before creation
          podObj,    \* podObj[u]: the object in the API server
          podRun     \* podRun[u]: status.phase; kept after the object is gone

podVars == <<podName, podObj, podRun>>

PodTypeOK ==
  /\ podName \in [UIDs -> Names \cup {NoName}]
  /\ podObj \in [UIDs -> {"none", "present", "deleting", "gone"}]
  /\ podRun \in [UIDs -> {"Running", "Succeeded", "Failed"}]

PodInit ==
  /\ podName = [u \in UIDs |-> NoName]
  /\ podObj = [u \in UIDs |-> "none"]
  /\ podRun = [u \in UIDs |-> "Running"]

Exists(u) == podObj[u] \in {"present", "deleting"}

\* The pod a Get of the name finds: a set of at most one.
PodsAt(n) == {u \in UIDs : Exists(u) /\ podName[u] = n}

\* Containers run and nobody has asked for their end.
Live(u) == podObj[u] = "present" /\ podRun[u] = "Running"

\* Create; AlreadyExists while the name is taken.
CreatePod(u, n) ==
  /\ PodsAt(n) = {}
  /\ podObj[u] = "none"
  /\ podName' = [podName EXCEPT ![u] = n]
  /\ podObj' = [podObj EXCEPT ![u] = "present"]
  /\ UNCHANGED podRun

\* Delete by name; NotFound when there is no such pod.
DeletePod(n) ==
  /\ PodsAt(n) # {}
  /\ podObj' = [u \in UIDs |-> IF u \in PodsAt(n) THEN "deleting" ELSE podObj[u]]
  /\ UNCHANGED <<podName, podRun>>

\* The containers end by themselves or on SIGTERM.
PodExits(u, s) ==
  /\ Exists(u) /\ podRun[u] = "Running"
  /\ podRun' = [podRun EXCEPT ![u] = s]
  /\ UNCHANGED <<podName, podObj>>

\* The kubelet has stopped a deleted pod and the object goes away.
PodRemoved(u) ==
  /\ podObj[u] = "deleting"
  /\ podObj' = [podObj EXCEPT ![u] = "gone"]
  /\ UNCHANGED <<podName, podRun>>

\* Somebody else (an administrator, a node drain) deletes the pod.
PodEvicted(u) ==
  /\ podObj[u] = "present"
  /\ podObj' = [podObj EXCEPT ![u] = "deleting"]
  /\ UNCHANGED <<podName, podRun>>
=============================================================================
