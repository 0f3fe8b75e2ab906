----------------------------- MODULE ImageRegistry -----------------------------
(***************************************************************************)
(* What KubeHICE knows of the images of its pods, and who keeps it: the    *)
(* etcd keys kubehice/images and kubehice/unavailableimages, which three   *)
(* programs read and write without transactions.                           *)
(*   - Hicev1 in the scheduler (plugins/hicev1/hice.go): PreFilter reads   *)
(*     the first key, adds the images it does not find to the second, and  *)
(*     Filter keeps the nodes of an architecture every image exists for;   *)
(*   - container-manifests (kubehice-tools): a loop that inspects the      *)
(*     images of the second key and moves them to the first;               *)
(*   - multi-arch-images (kubehice-tools): an administrator's import that  *)
(*     overwrites the first key.                                           *)
(*                                                                         *)
(* A pod that no node fits is tried again and again (SchedulingQueue);     *)
(* once it fits, Bind replaces the names of its images.  An absent and an  *)
(* empty kubehice/unavailableimages are treated alike by all the code, and *)
(* are the empty set here.                                                 *)
(***************************************************************************)
EXTENDS Integers, Sequences, FiniteSets, SequencesExt

CONSTANTS
    Pods,
    Images,        \* names of images in pod specs
    Archs,         \* architectures
    DefaultArch,   \* "amd64"
    Nil,
    PodImages,     \* pod -> the images of its containers
    NodeArchs,     \* label kubernetes.io/arch of the nodes there are
    Registry,      \* image -> what "docker manifest inspect" lists: a set of
                   \* architectures ({}: no manifest list), or Nil if it fails
    Keyword,       \* image -> architecture its name contains (CheckKeywords), or Nil
    InitialKeys,   \* what the two keys may hold at the start: records of images, a list
                   \* or Nil for no key, and unavailable, a set
    ImportList,    \* the administrator's list, a sequence of entries
    MaxImports, MaxFaults,
    MaxEntries     \* bound on the length of kubehice/images

\* One version of an image: the name to pull on an architecture.
ImageInf == [arch : Archs, of : Images, imported : BOOLEAN]
Entry == [name : Images, infs : SUBSET ImageInf]

ASSUME RegistryAssumption ==
    /\ DefaultArch \in Archs /\ NodeArchs \subseteq Archs
    /\ \A p \in Pods : PodImages[p] # <<>> /\ Range(PodImages[p]) \subseteq Images
    /\ \A i \in Images : /\ Registry[i] = Nil \/ Registry[i] \subseteq Archs
                         /\ Keyword[i] \in Archs \cup {Nil}
    /\ ImportList \in Seq(Entry)
    /\ \A keys \in InitialKeys : keys.unavailable \subseteq Images
    /\ MaxImports \in Nat /\ MaxFaults \in Nat /\ MaxEntries \in Nat

VARIABLES
    images,        \* kubehice/images: a sequence of entries, or Nil
    unavailable,   \* kubehice/unavailableimages
    cycle,         \* the scheduling cycle: [pod, pc, data, old], or Nil
    placed,        \* pod -> the architecture and image names it was bound with, or Nil
    tool,          \* container-manifests: [pc, todo, found, failed, old]
    imports, faults

vars == <<images, unavailable, cycle, placed, tool, imports, faults>>

-----------------------------------------------------------------------------
(* Reading a list of images.                                               *)

\* The index of the first entry of that name, if there is one.
FirstOf(image, data) ==
    {k \in DOMAIN data : data[k].name = image /\ \A j \in 1 .. k - 1 : data[j].name # image}

\* The first entry of that name decides; there may be more than one.
GetMultiArchImages(image, data) == UNION {data[k].infs : k \in FirstOf(image, data)}

ArchsOf(image, data) == {inf.arch : inf \in GetMultiArchImages(image, data)}

\* Mutant of PodAvailableArch: an architecture some container has an image for.
PodSomeArch(p, data) == UNION {ArchsOf(i, data) : i \in Range(PodImages[p])}

\* The architectures that all the containers of the pod have an image for.
PodAvailableArch(p, data) ==
    {a \in Archs : \A i \in Range(PodImages[p]) : a \in ArchsOf(i, data)}

GetUnAvailableImages(p, data) ==
    {i \in Range(PodImages[p]) : GetMultiArchImages(i, data) = {}}

\* Mutant of ConvertPodImages: only the first container is converted.
ConvertFirstImage(p, arch, data) ==
    [k \in {1} |-> CHOOSE inf \in GetMultiArchImages(PodImages[p][k], data) : inf.arch = arch]

\* Bind: the versions for the architecture of the node, one per container; an image
\* without one keeps its name, for which Nil stands here.
ConvertPodImages(p, arch, data) ==
    [k \in DOMAIN PodImages[p] |->
        LET infs == {inf \in GetMultiArchImages(PodImages[p][k], data) : inf.arch = arch}
        IN  IF infs = {} THEN Nil ELSE CHOOSE inf \in infs : TRUE]

-----------------------------------------------------------------------------
(* The scheduler: PreFilter, Filter and Bind of Hicev1, one pod at a time. *)

\* A pod that is not bound yet has its turn.
StartCycle(p) ==
    /\ cycle = Nil
    /\ placed[p] = Nil
    /\ cycle' = [pod |-> p, pc |-> "images", data |-> <<>>, old |-> {}]
    /\ UNCHANGED <<images, unavailable, placed, tool, imports, faults>>

InCycle(pc) == cycle # Nil /\ cycle.pc = pc

PreFilterGetImages ==
    /\ InCycle("images")
    /\ images # Nil
    /\ cycle' = [cycle EXCEPT !.data = images,
                   !.pc = IF GetUnAvailableImages(cycle.pod, images) = {}
                          THEN "filter" ELSE "unavailable"]
    /\ UNCHANGED <<images, unavailable, placed, tool, imports, faults>>

PreFilterGetUnavailable ==
    /\ InCycle("unavailable")
    /\ cycle' = [cycle EXCEPT !.old = unavailable, !.pc = "put"]
    /\ UNCHANGED <<images, unavailable, placed, tool, imports, faults>>

\* Mutant of UpdateUnAvailableImageData: an absent key stays absent.
UpdateExistingDataOnly(old, unknown) == IF old = {} THEN {} ELSE old \cup unknown

UpdateUnAvailableImageData(old, unknown) == old \cup unknown

\* The Put's error nobody looks at.
PreFilterPut ==
    /\ InCycle("put")
    /\ \/ /\ unavailable' = UpdateUnAvailableImageData(
                                cycle.old, GetUnAvailableImages(cycle.pod, cycle.data))
          /\ UNCHANGED faults
       \/ /\ faults < MaxFaults
          /\ faults' = faults + 1
          /\ UNCHANGED unavailable
    /\ cycle' = [cycle EXCEPT !.pc = "filter"]
    /\ UNCHANGED <<images, placed, tool, imports>>

\* fitsArches on the nodes there are; the pod is bound, or waits for another cycle.  Bind
\* runs later, in a goroutine, but it reads the list out of the state of its own cycle,
\* and not from etcd: what is written in between does not matter to it.
FilterAndBind ==
    LET p      == cycle.pod
        arches == PodAvailableArch(p, cycle.data) \cap NodeArchs
    IN  /\ InCycle("filter")
        /\ \/ /\ arches = {}
              /\ UNCHANGED placed
           \/ \E a \in arches :
                placed' = [placed EXCEPT
                    ![p] = [arch |-> a, images |-> ConvertPodImages(p, a, cycle.data)]]
        /\ cycle' = Nil
        /\ UNCHANGED <<images, unavailable, tool, imports, faults>>

\* The snapshot has lost the node, or etcd fails Bind's Get or Put of the pod: the pod is
\* not bound and has its turn again.
BindError ==
    /\ InCycle("filter")
    /\ PodAvailableArch(cycle.pod, cycle.data) \cap NodeArchs # {}
    /\ faults < MaxFaults
    /\ faults' = faults + 1
    /\ cycle' = Nil
    /\ UNCHANGED <<images, unavailable, placed, tool, imports>>

\* etcdClient fails (PreFilter returns nil, but Filter finds no state), or the Get of
\* the images fails: either way the cycle ends with an error.  An error of the second
\* Get leaves resp nil, and resp.Kvs panics; the scheduler is started again.
PreFilterError ==
    /\ InCycle("images") \/ InCycle("unavailable")
    /\ faults < MaxFaults
    /\ faults' = faults + 1
    /\ cycle' = Nil
    /\ UNCHANGED <<images, unavailable, placed, tool, imports>>

\* resp.Kvs[0] when there is no key: the scheduler panics and is started again.
PreFilterPanic ==
    /\ InCycle("images")
    /\ images = Nil
    /\ cycle' = Nil
    /\ UNCHANGED <<images, unavailable, placed, tool, imports, faults>>

-----------------------------------------------------------------------------
(* container-manifests.                                                    *)

NewRound == [pc |-> "get", todo |-> {}, found |-> <<>>, failed |-> {}, old |-> <<>>]

Asleep == [NewRound EXCEPT !.pc = "sleep"]

\* Nothing to do, or an error: sleep for a minute.
GetUnavailable ==
    /\ tool.pc = "get"
    /\ \/ /\ tool' = IF unavailable = {} THEN Asleep
                     ELSE [tool EXCEPT !.pc = "inspect", !.todo = unavailable]
          /\ UNCHANGED faults
       \/ /\ faults < MaxFaults
          /\ faults' = faults + 1
          /\ tool' = Asleep
    /\ UNCHANGED <<images, unavailable, cycle, placed, imports>>

Wake ==
    /\ tool.pc = "sleep"
    /\ tool' = NewRound
    /\ UNCHANGED <<images, unavailable, cycle, placed, imports, faults>>

\* Without a manifest list the architecture is guessed from the name.
InspectedArchs(i) ==
    IF Registry[i] # {} THEN Registry[i]
    ELSE {IF Keyword[i] # Nil THEN Keyword[i] ELSE DefaultArch}

InspectedEntry(i) ==
    [name |-> i,
     infs |-> {[arch |-> a, of |-> i, imported |-> FALSE] : a \in InspectedArchs(i)}]

\* The versions of an image that exist: what the registry and the administrator list.
Versions(i) ==
    (IF Registry[i] = Nil THEN {} ELSE InspectedEntry(i).infs)
        \cup UNION {ImportList[k].infs : k \in {j \in DOMAIN ImportList : ImportList[j].name = i}}

\* What the key holds at the start was found or imported by an earlier run.
ASSUME InitialAssumption ==
    \A keys \in InitialKeys :
        \/ keys.images = Nil
        \/ /\ keys.images \in Seq(Entry)
           /\ \A k \in DOMAIN keys.images : keys.images[k].infs \subseteq Versions(keys.images[k].name)

Inspect(i) ==
    /\ tool.pc = "inspect"
    /\ i \in tool.todo
    /\ \/ /\ Registry[i] # Nil
          /\ tool' = [tool EXCEPT !.todo = @ \ {i}, !.found = Append(@, InspectedEntry(i))]
          /\ UNCHANGED faults
       \/ /\ Registry[i] = Nil
          /\ tool' = [tool EXCEPT !.todo = @ \ {i}, !.failed = @ \cup {i}]
          /\ UNCHANGED faults
       \/ /\ Registry[i] # Nil            \* the registry does not answer
          /\ faults < MaxFaults
          /\ faults' = faults + 1
          /\ tool' = [tool EXCEPT !.todo = @ \ {i}, !.failed = @ \cup {i}]
    /\ UNCHANGED <<images, unavailable, cycle, placed, imports>>

\* Nothing is written when no image was found; the next round starts at once.
EndInspect ==
    /\ tool.pc = "inspect"
    /\ tool.todo = {}
    /\ tool' = IF tool.found = <<>> THEN NewRound ELSE [tool EXCEPT !.pc = "getImages"]
    /\ UNCHANGED <<images, unavailable, cycle, placed, imports, faults>>

\* UpdateMultiArchImagesDataInEtcd.  Whether it fails or not, the other key is
\* overwritten next.  Without a key it panics, and is started again.
GetImages ==
    /\ tool.pc = "getImages"
    /\ \/ /\ tool' = IF images = Nil THEN NewRound
                     ELSE [tool EXCEPT !.pc = "putImages", !.old = images]
          /\ UNCHANGED faults
       \/ /\ faults < MaxFaults
          /\ faults' = faults + 1
          /\ tool' = [tool EXCEPT !.pc = "putUnavailable"]
    /\ UNCHANGED <<images, unavailable, cycle, placed, imports>>

\* Mutant of UpdateMultiArchImagesData: the new list replaces the old one.
ReplaceMultiArchImagesData(old, found) == found

UpdateMultiArchImagesData(old, found) == old \o found

PutImages ==
    /\ tool.pc = "putImages"
    /\ \/ /\ Len(tool.old) + Len(tool.found) <= MaxEntries
          /\ images' = UpdateMultiArchImagesData(tool.old, tool.found)
          /\ UNCHANGED faults
       \/ /\ faults < MaxFaults
          /\ faults' = faults + 1
          /\ UNCHANGED images
    /\ tool' = [tool EXCEPT !.pc = "putUnavailable"]
    /\ UNCHANGED <<unavailable, cycle, placed, imports>>

\* UpdateUnAvailableImagesDataInEtcd: what failed in this round replaces the key.
PutUnavailable ==
    /\ tool.pc = "putUnavailable"
    /\ \/ /\ unavailable' = tool.failed
          /\ UNCHANGED faults
       \/ /\ faults < MaxFaults
          /\ faults' = faults + 1
          /\ UNCHANGED unavailable
    /\ tool' = NewRound
    /\ UNCHANGED <<images, cycle, placed, imports>>

\* Either program is killed and started again.
Crash ==
    /\ faults < MaxFaults
    /\ faults' = faults + 1
    /\ \/ tool' = NewRound /\ UNCHANGED cycle
       \/ cycle' = Nil /\ UNCHANGED tool
    /\ UNCHANGED <<images, unavailable, placed, imports>>

-----------------------------------------------------------------------------
(* multi-arch-images.                                                      *)

Import ==
    /\ imports < MaxImports
    /\ imports' = imports + 1
    /\ images' = ImportList
    /\ UNCHANGED <<unavailable, cycle, placed, tool, faults>>

-----------------------------------------------------------------------------

Init ==
    /\ \E keys \in InitialKeys : images = keys.images /\ unavailable = keys.unavailable
    /\ cycle = Nil
    /\ placed = [p \in Pods |-> Nil]
    /\ tool = NewRound
    /\ imports = 0
    /\ faults = 0

Scheduler == PreFilterGetImages \/ PreFilterGetUnavailable \/ PreFilterPut
                \/ FilterAndBind \/ PreFilterPanic

Tool == GetUnavailable \/ Wake \/ (\E i \in Images : Inspect(i)) \/ EndInspect
            \/ GetImages \/ PutImages \/ PutUnavailable

Next == (\E p \in Pods : StartCycle(p)) \/ Scheduler \/ PreFilterError \/ BindError
            \/ Tool \/ Crash \/ Import

Spec == Init /\ [][Next]_vars

\* Both programs go on, and every waiting pod has its turn again.
Fairness ==
    /\ \A p \in Pods : SF_vars(StartCycle(p))
    /\ WF_vars(Scheduler)
    /\ WF_vars(Tool)

FairSpec == Spec /\ Fairness

-----------------------------------------------------------------------------
(* Properties.                                                             *)

\* Type correctness of the two keys and of the programs' local state; a bound pod has
\* one image per container.
TypeOK ==
    /\ images = Nil \/ images \in Seq(Entry)
    /\ unavailable \subseteq Images
    /\ cycle # Nil =>
          /\ cycle.pod \in Pods
          /\ cycle.pc \in {"images", "unavailable", "put", "filter"}
          /\ cycle.old \subseteq Images
    /\ \A p \in Pods : placed[p] # Nil =>
          placed[p].arch \in Archs /\ DOMAIN placed[p].images = DOMAIN PodImages[p]
    /\ tool.pc \in {"get", "sleep", "inspect", "getImages", "putImages", "putUnavailable"}
    /\ tool.todo \subseteq Images /\ tool.failed \subseteq Images
    /\ imports \in 0..MaxImports /\ faults \in 0..MaxFaults

\* README: a pod runs on a node of an architecture all its images exist for, under
\* the names for that architecture, whatever the three programs write meanwhile: the
\* lists Filter and Bind use belong together.
RunsExistingImages ==
    \A p \in Pods : placed[p] # Nil =>
        /\ placed[p].arch \in NodeArchs
        /\ \A k \in DOMAIN PodImages[p] :
              /\ placed[p].images[k] \in Versions(PodImages[p][k])
              /\ placed[p].images[k].arch = placed[p].arch

\* The list of an image, once a pod can see it, stays what it is: repeated and concurrent
\* registrations of an image that is known already, failed writes and crashes change
\* nothing of what pods see.  Only an import does, and after one the Put with which
\* container-manifests undoes it, writing back a list that it read before.
LookupIsStable ==
    [][ \A i \in Images :
          (/\ images # Nil /\ GetMultiArchImages(i, images) # {}
           /\ GetMultiArchImages(i, images') # GetMultiArchImages(i, images)) =>
              \/ imports' # imports
              \/ imports # 0 /\ tool.pc = "putImages" /\ tool.old # images ]_vars

\* The images of the pod can be inspected, and have an architecture of the cluster.
CanBePlaced(p) ==
    \E a \in NodeArchs : \A i \in Range(PodImages[p]) :
        Registry[i] # Nil /\ a \in InspectedArchs(i)

\* Once there is a kubehice/images, every pod that can be placed is placed in the end,
\* although names are lost from kubehice/unavailableimages on the way, and imports and
\* results overwrite each other: its retries register the names again.
PlacedOnceImported ==
    \A p \in Pods : CanBePlaced(p) => ((images # Nil) ~> (placed[p] # Nil))

\* README: container-manifests finds out about images by itself, without an import: every
\* pod that can be placed is placed in the end.
EventuallyPlaced ==
    \A p \in Pods : CanBePlaced(p) => <>(placed[p] # Nil)
=============================================================================
