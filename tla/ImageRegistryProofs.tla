------------------------- MODULE ImageRegistryProofs -------------------------
(***************************************************************************)
(* The lists of images, for every set of pods, images and architectures,   *)
(* every registry, import and initial content of the keys, and every bound.*)
(***************************************************************************)
EXTENDS ImageRegistry, SequenceTheorems, TLAPS

-----------------------------------------------------------------------------
(* The inductive invariant, in parts.                                      *)

\* A list in which every entry names only versions that exist of its own image.
Sound(data) ==
    /\ data \in Seq(Entry)
    /\ \A k \in DOMAIN data : data[k].infs \subseteq Versions(data[k].name)

CycleState == [pod : Pods, pc : {"images", "unavailable", "put", "filter"},
               data : Seq(Entry), old : SUBSET Images]

ToolState == [pc : {"get", "sleep", "inspect", "getImages", "putImages", "putUnavailable"},
              todo : SUBSET Images, found : Seq(Entry), failed : SUBSET Images,
              old : Seq(Entry)]

KeysInv ==
    /\ images = Nil \/ Sound(images)
    /\ unavailable \subseteq Images
    /\ imports \in 0..MaxImports /\ faults \in 0..MaxFaults

CycleInv == cycle # Nil => cycle \in CycleState /\ Sound(cycle.data)

ToolInv == tool \in ToolState /\ Sound(tool.found) /\ Sound(tool.old)

PlacedInv ==
    /\ DOMAIN placed = Pods
    /\ \A p \in Pods : placed[p] # Nil =>
          /\ placed[p].arch \in Archs
          /\ DOMAIN placed[p].images = DOMAIN PodImages[p]
    /\ RunsExistingImages

\* Until something is imported nobody else writes kubehice/images: what
\* container-manifests read is still there when it writes the longer list.
ReadIsCurrent == tool.pc = "putImages" /\ imports = 0 => tool.old = images

IInv == KeysInv /\ CycleInv /\ ToolInv /\ PlacedInv /\ ReadIsCurrent

-----------------------------------------------------------------------------
(* Lists.                                                                  *)

\* What "docker manifest inspect" finds of an image is an entry of existing versions.
LEMMA InspectedExists ==
    ASSUME NEW i \in Images, Registry[i] # Nil
    PROVE  /\ InspectedEntry(i) \in Entry
           /\ InspectedEntry(i).name = i
           /\ InspectedEntry(i).infs \subseteq Versions(i)
<1>0. Registry[i] \subseteq Archs /\ Keyword[i] \in Archs \cup {Nil} /\ DefaultArch \in Archs
  BY RegistryAssumption
<1>1. InspectedArchs(i) \subseteq Archs
  <2>1. CASE Registry[i] # {}
    BY <1>0, <2>1 DEF InspectedArchs
  <2>2. CASE Registry[i] = {}
    <3>1. (IF Keyword[i] # Nil THEN Keyword[i] ELSE DefaultArch) \in Archs
      BY <1>0
    <3> QED
      BY <2>2, <3>1 DEF InspectedArchs
  <2> QED
    BY <2>1, <2>2
<1>2. {[arch |-> a, of |-> i, imported |-> FALSE] : a \in InspectedArchs(i)} \subseteq ImageInf
  <2>1. ASSUME NEW a \in InspectedArchs(i)
        PROVE  [arch |-> a, of |-> i, imported |-> FALSE] \in ImageInf
    <3>1. a \in Archs /\ FALSE \in BOOLEAN
      BY <1>1
    <3> QED
      BY <3>1, Zenon DEF ImageInf
  <2> QED
    BY <2>1, Zenon
<1>3. InspectedEntry(i).infs \subseteq ImageInf /\ InspectedEntry(i).name = i
  BY <1>2 DEF InspectedEntry
<1>4. InspectedEntry(i) \in Entry
  BY <1>3 DEF InspectedEntry, Entry
<1> QED
  BY <1>3, <1>4 DEF Versions

\* The administrator's list names existing versions.
LEMMA ImportIsSound == Sound(ImportList)
<1>1. ImportList \in Seq(Entry)
  BY RegistryAssumption
<1>2. ASSUME NEW k \in DOMAIN ImportList
      PROVE  ImportList[k].infs \subseteq Versions(ImportList[k].name)
  BY DEF Versions
<1> QED
  BY <1>1, <1>2 DEF Sound

\* The empty list is sound.
LEMMA EmptyIsSound == Sound(<<>>)
BY DEF Sound

\* A list stays sound when a sound entry is appended.
LEMMA AppendIsSound ==
    ASSUME NEW data, Sound(data), NEW e \in Entry, e.infs \subseteq Versions(e.name)
    PROVE  Sound(Append(data, e))
<1>1. data \in Seq(Entry)
  BY DEF Sound
<1>2. Append(data, e) \in Seq(Entry)
  BY <1>1
<1>3. ASSUME NEW k \in DOMAIN Append(data, e)
      PROVE  Append(data, e)[k] = e \/ (k \in DOMAIN data /\ Append(data, e)[k] = data[k])
  BY <1>1
<1> QED
  BY <1>2, <1>3 DEF Sound

\* Two sound lists make a sound list.
LEMMA ConcatIsSound ==
    ASSUME NEW old, NEW found, Sound(old), Sound(found)
    PROVE  Sound(old \o found)
<1>1. old \in Seq(Entry) /\ found \in Seq(Entry)
  BY DEF Sound
<1>2. old \o found \in Seq(Entry)
  BY <1>1
<1>3. ASSUME NEW k \in DOMAIN (old \o found)
      PROVE  \/ k \in DOMAIN old /\ (old \o found)[k] = old[k]
             \/ k - Len(old) \in DOMAIN found /\ (old \o found)[k] = found[k - Len(old)]
  BY <1>1
<1> QED
  BY <1>2, <1>3 DEF Sound

\* What a pod sees of an image in a sound list exists.
LEMMA LookupExists ==
    ASSUME NEW data, Sound(data), NEW i
    PROVE  GetMultiArchImages(i, data) \subseteq Versions(i)
BY DEF Sound, GetMultiArchImages, FirstOf

\* Entries that are appended change nothing for an image that has an entry already:
\* the first one decides.
LEMMA FirstEntryDecides ==
    ASSUME NEW old \in Seq(Entry), NEW found \in Seq(Entry), NEW i,
           GetMultiArchImages(i, old) # {}
    PROVE  GetMultiArchImages(i, old \o found) = GetMultiArchImages(i, old)
<1>1. PICK k \in FirstOf(i, old) : TRUE
  BY DEF GetMultiArchImages
<1>2. k \in 1 .. Len(old) /\ old[k].name = i /\ \A j \in 1 .. k - 1 : old[j].name # i
  BY <1>1 DEF FirstOf
<1>3. /\ DOMAIN (old \o found) = 1 .. Len(old) + Len(found)
      /\ \A j \in 1 .. Len(old) : (old \o found)[j] = old[j]
      /\ Len(old) \in Nat /\ Len(found) \in Nat
  OBVIOUS
<1>4. ASSUME NEW m \in FirstOf(i, old)
      PROVE  m = k
  BY <1>2 DEF FirstOf
<1>5. ASSUME NEW m \in FirstOf(i, old \o found)
      PROVE  m = k
  <2>1. /\ m \in 1 .. Len(old) + Len(found)
        /\ (old \o found)[m].name = i
        /\ \A j \in 1 .. m - 1 : (old \o found)[j].name # i
    BY <1>3 DEF FirstOf
  <2>2. ~(k < m)
    BY <1>2, <1>3, <2>1
  <2>3. ~(m < k)
    BY <1>2, <1>3, <2>1
  <2> QED
    BY <1>2, <1>3, <2>1, <2>2, <2>3
<1>6. k \in FirstOf(i, old \o found)
  BY <1>2, <1>3 DEF FirstOf
<1>7. FirstOf(i, old) = {k} /\ FirstOf(i, old \o found) = {k}
  BY <1>1, <1>4, <1>5, <1>6
<1> QED
  BY <1>2, <1>3, <1>7 DEF GetMultiArchImages

\* The versions Bind writes for an architecture that passed Filter exist and are for
\* that architecture, one for every container.
LEMMA ConvertsAll ==
    ASSUME NEW p \in Pods, NEW data, Sound(data), NEW a \in PodAvailableArch(p, data)
    PROVE  /\ DOMAIN ConvertPodImages(p, a, data) = DOMAIN PodImages[p]
           /\ \A k \in DOMAIN PodImages[p] :
                 /\ ConvertPodImages(p, a, data)[k] \in Versions(PodImages[p][k])
                 /\ ConvertPodImages(p, a, data)[k].arch = a
<1>1. DOMAIN ConvertPodImages(p, a, data) = DOMAIN PodImages[p]
  BY DEF ConvertPodImages
<1>2. ASSUME NEW k \in DOMAIN PodImages[p]
      PROVE  /\ ConvertPodImages(p, a, data)[k] \in Versions(PodImages[p][k])
             /\ ConvertPodImages(p, a, data)[k].arch = a
  <2> DEFINE infs == {inf \in GetMultiArchImages(PodImages[p][k], data) : inf.arch = a}
  <2>1. a \in ArchsOf(PodImages[p][k], data)
    BY DEF PodAvailableArch, Range
  <2>2. infs # {}
    BY <2>1 DEF ArchsOf
  <2>3. ConvertPodImages(p, a, data)[k] = CHOOSE inf \in infs : TRUE
    BY <2>2 DEF ConvertPodImages
  <2>4. ConvertPodImages(p, a, data)[k] \in infs
    BY <2>2, <2>3
  <2> QED
    BY <2>4, LookupExists
<1> QED
  BY <1>1, <1>2

-----------------------------------------------------------------------------
(* The scheduler's steps.                                                  *)

\* The scheduler and Hicev1 keep the invariant: whatever is written while a pod is in
\* its cycle, Filter and Bind work on the one list that PreFilter read.
LEMMA SchedulerKeeps ==
    ASSUME IInv,
           (\E p \in Pods : StartCycle(p)) \/ Scheduler \/ PreFilterError \/ BindError
    PROVE  IInv'
<1> USE DEF IInv
<1>1. ASSUME NEW p \in Pods, StartCycle(p)
      PROVE  IInv'
  <2>1. cycle' \in CycleState /\ Sound(cycle'.data)
    BY <1>1, EmptyIsSound DEF StartCycle, CycleState
  <2> QED
    BY <1>1, <2>1 DEF StartCycle, KeysInv, CycleInv, ToolInv, PlacedInv, ReadIsCurrent,
         RunsExistingImages
<1>2. CASE PreFilterGetImages
  <2>1. cycle \in CycleState /\ Sound(images)
    BY <1>2 DEF PreFilterGetImages, InCycle, CycleInv, KeysInv
  <2>2. cycle' \in CycleState /\ cycle'.data = images
    BY <1>2, <2>1 DEF PreFilterGetImages, CycleState, Sound
  <2> QED
    BY <1>2, <2>1, <2>2 DEF PreFilterGetImages, KeysInv, CycleInv, ToolInv, PlacedInv,
         ReadIsCurrent, RunsExistingImages
<1>3. CASE PreFilterGetUnavailable
  <2>1. cycle \in CycleState /\ Sound(cycle.data)
    BY <1>3 DEF PreFilterGetUnavailable, InCycle, CycleInv
  <2>2. cycle' \in CycleState /\ cycle'.data = cycle.data
    BY <1>3, <2>1 DEF PreFilterGetUnavailable, CycleState, KeysInv
  <2> QED
    BY <1>3, <2>1, <2>2 DEF PreFilterGetUnavailable, KeysInv, CycleInv, ToolInv, PlacedInv,
         ReadIsCurrent, RunsExistingImages
<1>4. CASE PreFilterPut
  <2>1. cycle \in CycleState /\ Sound(cycle.data)
    BY <1>4 DEF PreFilterPut, InCycle, CycleInv
  <2>2. cycle' \in CycleState /\ cycle'.data = cycle.data
    BY <1>4, <2>1 DEF PreFilterPut, CycleState
  <2>3. GetUnAvailableImages(cycle.pod, cycle.data) \subseteq Images
    BY <2>1, RegistryAssumption DEF GetUnAvailableImages, CycleState
  <2>4. unavailable' \subseteq Images
    BY <1>4, <2>1, <2>3 DEF PreFilterPut, UpdateUnAvailableImageData, CycleState, KeysInv
  <2>5. faults' \in 0..MaxFaults
    BY <1>4, RegistryAssumption DEF PreFilterPut, KeysInv
  <2> QED
    BY <1>4, <2>1, <2>2, <2>4, <2>5 DEF PreFilterPut, KeysInv, CycleInv, ToolInv, PlacedInv,
         ReadIsCurrent, RunsExistingImages
<1>5. CASE FilterAndBind
  <2> DEFINE p == cycle.pod
  <2>1. p \in Pods /\ Sound(cycle.data)
    BY <1>5 DEF FilterAndBind, InCycle, CycleInv, CycleState
  <2>2. CASE placed' = placed
    BY <1>5, <2>2 DEF FilterAndBind, KeysInv, CycleInv, ToolInv, PlacedInv, ReadIsCurrent,
         RunsExistingImages
  <2>3. ASSUME NEW a \in PodAvailableArch(p, cycle.data) \cap NodeArchs,
               placed' = [placed EXCEPT
                   ![p] = [arch |-> a, images |-> ConvertPodImages(p, a, cycle.data)]]
        PROVE  IInv'
    <3> DEFINE c == ConvertPodImages(p, a, cycle.data)
    <3>1. /\ DOMAIN c = DOMAIN PodImages[p]
          /\ \A k \in DOMAIN PodImages[p] :
                c[k] \in Versions(PodImages[p][k]) /\ c[k].arch = a
      BY <2>1, ConvertsAll
    <3>2. a \in Archs
      BY RegistryAssumption
    <3> HIDE DEF c
    <3>3. placed'[p].arch = a /\ placed'[p].images = c
      BY <2>1, <2>3 DEF c, PlacedInv
    <3>4. /\ DOMAIN placed' = Pods
          /\ \A q \in Pods : q # p => placed'[q] = placed[q]
      BY <2>3 DEF PlacedInv
    <3> HIDE DEF p
    <3>5. PlacedInv'
      BY <2>1, <3>1, <3>2, <3>3, <3>4 DEF PlacedInv, RunsExistingImages
    <3> QED
      BY <1>5, <3>5 DEF FilterAndBind, KeysInv, CycleInv, ToolInv, ReadIsCurrent
  <2> QED
    BY <1>5, <2>2, <2>3 DEF FilterAndBind
<1>6. CASE PreFilterError
  <2>1. faults' \in 0..MaxFaults
    BY <1>6, RegistryAssumption DEF PreFilterError, KeysInv
  <2> QED
    BY <1>6, <2>1 DEF PreFilterError, KeysInv, CycleInv, ToolInv, PlacedInv, ReadIsCurrent,
         RunsExistingImages
<1>7. CASE PreFilterPanic
  BY <1>7 DEF PreFilterPanic, KeysInv, CycleInv, ToolInv, PlacedInv, ReadIsCurrent,
       RunsExistingImages
<1>8. CASE BindError
  <2>1. faults' \in 0..MaxFaults
    BY <1>8, RegistryAssumption DEF BindError, KeysInv
  <2> QED
    BY <1>8, <2>1 DEF BindError, KeysInv, CycleInv, ToolInv, PlacedInv, ReadIsCurrent,
         RunsExistingImages
<1> QED
  BY <1>1, <1>2, <1>3, <1>4, <1>5, <1>6, <1>7, <1>8 DEF Scheduler

-----------------------------------------------------------------------------
(* The steps of container-manifests and multi-arch-images.                 *)

\* A step that leaves the scheduler alone keeps the invariant if it keeps the parts
\* about the keys and the tool.
LEMMA SchedulerUntouched ==
    ASSUME IInv, UNCHANGED <<cycle, placed>>, KeysInv', ToolInv', ReadIsCurrent'
    PROVE  IInv'
BY DEF IInv, CycleInv, PlacedInv, RunsExistingImages

\* A round of the tool that starts anew.
LEMMA NewRoundIsSound ==
    ASSUME NEW t \in {NewRound, Asleep}
    PROVE  t \in ToolState /\ Sound(t.found) /\ Sound(t.old) /\ t.pc # "putImages"
<1>1. NewRound \in ToolState
  BY EmptyIsSound DEF NewRound, ToolState, Sound
<1>2. /\ NewRound.found = <<>> /\ NewRound.old = <<>> /\ NewRound.pc = "get"
      /\ Asleep.found = <<>> /\ Asleep.old = <<>> /\ Asleep.pc = "sleep"
  BY DEF NewRound, Asleep
<1>3. Asleep \in ToolState
  BY <1>1 DEF Asleep, ToolState
<1> QED
  BY <1>1, <1>2, <1>3, EmptyIsSound

\* container-manifests keeps the invariant: it writes what it read and found, and
\* every entry of both names existing versions.
LEMMA ToolKeeps ==
    ASSUME IInv, Tool
    PROVE  IInv'
<1> USE DEF IInv
<1>0. tool \in ToolState /\ Sound(tool.found) /\ Sound(tool.old)
  BY DEF ToolInv
<1>a. ASSUME faults' = faults \/ (faults < MaxFaults /\ faults' = faults + 1)
      PROVE  faults' \in 0..MaxFaults
  BY <1>a, RegistryAssumption DEF KeysInv
<1>b. ASSUME tool' \in {NewRound, Asleep}
      PROVE  ToolInv' /\ ReadIsCurrent'
  BY <1>b, NewRoundIsSound DEF ToolInv, ReadIsCurrent
<1>1. CASE GetUnavailable
  <2>1. KeysInv' /\ UNCHANGED <<cycle, placed>>
    BY <1>1, <1>a DEF GetUnavailable, KeysInv
  <2>2. CASE tool' = Asleep
    BY <1>b, <2>1, <2>2, SchedulerUntouched
  <2>3. CASE tool' = [tool EXCEPT !.pc = "inspect", !.todo = unavailable]
    <3>1. /\ tool' \in ToolState /\ tool'.found = tool.found
          /\ tool'.old = tool.old /\ tool'.pc = "inspect"
      BY <1>0, <2>3 DEF ToolState, KeysInv
    <3> QED
      BY <1>0, <2>1, <3>1, SchedulerUntouched DEF ToolInv, ReadIsCurrent
  <2> QED
    BY <1>1, <2>2, <2>3 DEF GetUnavailable
<1>2. CASE Wake
  BY <1>2, <1>b, SchedulerUntouched DEF Wake, KeysInv
<1>3. ASSUME NEW i \in Images, Inspect(i)
      PROVE  IInv'
  <2>1. KeysInv' /\ UNCHANGED <<cycle, placed>>
    BY <1>3, <1>a DEF Inspect, KeysInv
  <2>2. CASE /\ Registry[i] # Nil
             /\ tool' = [tool EXCEPT !.todo = @ \ {i}, !.found = Append(@, InspectedEntry(i))]
    <3>1. Sound(Append(tool.found, InspectedEntry(i)))
      BY <1>0, <2>2, InspectedExists, AppendIsSound
    <3>2. Append(tool.found, InspectedEntry(i)) \in Seq(Entry)
      BY <3>1 DEF Sound
    <3>3. /\ tool' \in ToolState /\ tool'.found = Append(tool.found, InspectedEntry(i))
          /\ tool'.old = tool.old /\ tool'.pc = tool.pc
      BY <1>0, <2>2, <3>2 DEF ToolState
    <3> QED
      BY <1>0, <1>3, <2>1, <3>1, <3>3, SchedulerUntouched DEF ToolInv, ReadIsCurrent, Inspect
  <2>3. CASE tool' = [tool EXCEPT !.todo = @ \ {i}, !.failed = @ \cup {i}]
    <3>1. /\ tool' \in ToolState /\ tool'.found = tool.found
          /\ tool'.old = tool.old /\ tool'.pc = tool.pc
      BY <1>0, <2>3 DEF ToolState
    <3> QED
      BY <1>0, <1>3, <2>1, <3>1, SchedulerUntouched DEF ToolInv, ReadIsCurrent, Inspect
  <2> QED
    BY <1>3, <2>2, <2>3 DEF Inspect
<1>4. CASE EndInspect
  <2>1. KeysInv' /\ UNCHANGED <<cycle, placed>>
    BY <1>4 DEF EndInspect, KeysInv
  <2>2. CASE tool' = NewRound
    BY <1>b, <2>1, <2>2, SchedulerUntouched
  <2>3. CASE tool' = [tool EXCEPT !.pc = "getImages"]
    <3>1. /\ tool' \in ToolState /\ tool'.found = tool.found
          /\ tool'.old = tool.old /\ tool'.pc = "getImages"
      BY <1>0, <2>3 DEF ToolState
    <3> QED
      BY <1>0, <2>1, <3>1, SchedulerUntouched DEF ToolInv, ReadIsCurrent
  <2> QED
    BY <1>4, <2>2, <2>3 DEF EndInspect
<1>5. CASE GetImages
  <2>1. KeysInv' /\ UNCHANGED <<cycle, placed, images>>
    BY <1>5, <1>a DEF GetImages, KeysInv
  <2>2. CASE tool' = NewRound
    BY <1>b, <2>1, <2>2, SchedulerUntouched
  <2>3. CASE images # Nil /\ tool' = [tool EXCEPT !.pc = "putImages", !.old = images]
    <3>1. Sound(images) /\ images \in Seq(Entry)
      BY <2>3 DEF KeysInv, Sound
    <3>2. /\ tool' \in ToolState /\ tool'.found = tool.found /\ tool'.old = images
      BY <1>0, <2>3, <3>1 DEF ToolState
    <3> QED
      BY <1>0, <2>1, <3>1, <3>2, SchedulerUntouched DEF ToolInv, ReadIsCurrent
  <2>4. CASE tool' = [tool EXCEPT !.pc = "putUnavailable"]
    <3>1. /\ tool' \in ToolState /\ tool'.found = tool.found
          /\ tool'.old = tool.old /\ tool'.pc = "putUnavailable"
      BY <1>0, <2>4 DEF ToolState
    <3> QED
      BY <1>0, <2>1, <3>1, SchedulerUntouched DEF ToolInv, ReadIsCurrent
  <2> QED
    BY <1>5, <2>2, <2>3, <2>4 DEF GetImages
<1>6. CASE PutImages
  <2>1. Sound(tool.old \o tool.found)
    BY <1>0, ConcatIsSound
  <2>2. images' = images \/ images' = tool.old \o tool.found
    BY <1>6 DEF PutImages, UpdateMultiArchImagesData
  <2>3. KeysInv' /\ UNCHANGED <<cycle, placed>>
    BY <1>6, <1>a, <2>1, <2>2 DEF PutImages, KeysInv
  <2>4. /\ tool' \in ToolState /\ tool'.found = tool.found
        /\ tool'.old = tool.old /\ tool'.pc = "putUnavailable"
    BY <1>0, <1>6 DEF PutImages, ToolState
  <2> QED
    BY <1>0, <2>3, <2>4, SchedulerUntouched DEF ToolInv, ReadIsCurrent
<1>7. CASE PutUnavailable
  <2>1. unavailable' \subseteq Images
    BY <1>0, <1>7 DEF PutUnavailable, ToolState, KeysInv
  <2>2. KeysInv' /\ UNCHANGED <<cycle, placed>>
    BY <1>7, <1>a, <2>1 DEF PutUnavailable, KeysInv
  <2> QED
    BY <1>7, <1>b, <2>2, SchedulerUntouched DEF PutUnavailable
<1> QED
  BY <1>1, <1>2, <1>3, <1>4, <1>5, <1>6, <1>7 DEF Tool

\* Crashes of either program keep the invariant: what they had read is gone with them.
LEMMA CrashKeeps ==
    ASSUME IInv, Crash
    PROVE  IInv'
<1>1. faults' \in 0..MaxFaults
  BY RegistryAssumption DEF IInv, Crash, KeysInv
<1>2. KeysInv' /\ PlacedInv'
  BY <1>1 DEF IInv, Crash, KeysInv, PlacedInv, RunsExistingImages
<1>3. CASE tool' = NewRound /\ UNCHANGED cycle
  BY <1>2, <1>3, NewRoundIsSound DEF IInv, CycleInv, ToolInv, ReadIsCurrent
<1>4. CASE cycle' = Nil /\ UNCHANGED tool
  BY <1>2, <1>4 DEF IInv, Crash, CycleInv, ToolInv, ReadIsCurrent
<1> QED
  BY <1>3, <1>4 DEF Crash

\* An import keeps the invariant; from then on lists read before it may be written.
LEMMA ImportKeeps ==
    ASSUME IInv, Import
    PROVE  IInv'
<1>1. imports' \in 0..MaxImports /\ imports' # 0
  BY RegistryAssumption DEF IInv, Import, KeysInv
<1> QED
  BY <1>1, ImportIsSound, SchedulerUntouched DEF IInv, Import, KeysInv, ToolInv, ReadIsCurrent

-----------------------------------------------------------------------------
(* Theorems.                                                               *)

\* The initial states satisfy the invariant.
LEMMA InitInvariant == Init => IInv
<1> SUFFICES ASSUME Init PROVE IInv
  OBVIOUS
<1>1. KeysInv
  BY RegistryAssumption, InitialAssumption DEF Init, KeysInv, Sound
<1>2. ToolInv /\ ReadIsCurrent
  BY NewRoundIsSound DEF Init, ToolInv, ReadIsCurrent
<1>3. CycleInv /\ PlacedInv
  BY DEF Init, CycleInv, PlacedInv, RunsExistingImages
<1> QED
  BY <1>1, <1>2, <1>3 DEF IInv

\* Every step keeps it.
LEMMA NextInvariant == IInv /\ [Next]_vars => IInv'
<1> SUFFICES ASSUME IInv, [Next]_vars PROVE IInv'
  OBVIOUS
<1>1. CASE UNCHANGED vars
  BY <1>1 DEF vars, IInv, KeysInv, CycleInv, ToolInv, PlacedInv, ReadIsCurrent,
       RunsExistingImages
<1>2. CASE Next
  BY <1>2, SchedulerKeeps, ToolKeeps, CrashKeeps, ImportKeeps DEF Next
<1> QED
  BY <1>1, <1>2

\* The two keys and the local state of the three programs always have their types.
THEOREM RegistryTypeCorrect == Spec => []TypeOK
<1>1. IInv => TypeOK
  BY DEF IInv, KeysInv, CycleInv, ToolInv, PlacedInv, Sound, CycleState, ToolState, TypeOK
<1> QED
  BY <1>1, InitInvariant, NextInvariant, PTL DEF Spec

\* For every registry, import and interleaving of the scheduler, container-manifests
\* and multi-arch-images: a bound pod has an existing version of every image, for the
\* architecture of its node.
THEOREM BoundPodsCanRun == Spec => []RunsExistingImages
<1>1. IInv => RunsExistingImages
  BY DEF IInv, PlacedInv
<1> QED
  BY <1>1, InitInvariant, NextInvariant, PTL DEF Spec

\* What a pod can see of an image changes only by an import, or when container-manifests
\* writes back a list that an import has overwritten since it was read: neither repeated
\* registrations nor failed writes nor crashes of container-manifests matter, before or
\* after any number of imports.
THEOREM LookupsAreStable == Spec => LookupIsStable
<1> DEFINE Stable(i) ==
      (/\ images # Nil /\ GetMultiArchImages(i, images) # {}
       /\ GetMultiArchImages(i, images') # GetMultiArchImages(i, images)) =>
          \/ imports' # imports
          \/ imports # 0 /\ tool.pc = "putImages" /\ tool.old # images
<1>1. ASSUME IInv, [Next]_vars, NEW i \in Images
      PROVE  Stable(i)
  <2>1. CASE images' = images
    BY <2>1
  <2>2. CASE Import
    <3>1. imports' # imports
      BY <1>1, <2>2 DEF Import, IInv, KeysInv
    <3> QED
      BY <3>1
  <2>3. CASE PutImages /\ images' # images
    <3>1. images' = tool.old \o tool.found /\ tool.pc = "putImages"
      BY <2>3 DEF PutImages, UpdateMultiArchImagesData
    <3>2. tool.old \in Seq(Entry) /\ tool.found \in Seq(Entry)
      BY <1>1 DEF IInv, ToolInv, Sound
    <3>3. CASE tool.old = images
      BY <3>1, <3>2, <3>3, FirstEntryDecides
    <3>4. CASE tool.old # images
      <4>1. imports # 0
        BY <1>1, <3>1, <3>4 DEF IInv, ReadIsCurrent
      <4> QED
        BY <3>1, <3>4, <4>1
    <3> QED
      BY <3>3, <3>4
  <2> QED
    BY <1>1, <2>1, <2>2, <2>3 DEF Next, vars, StartCycle, Scheduler, PreFilterGetImages,
         PreFilterGetUnavailable, PreFilterPut, FilterAndBind, PreFilterPanic, PreFilterError,
         BindError, Tool, GetUnavailable, Wake, Inspect, EndInspect, GetImages, PutUnavailable,
         Crash
<1>2. IInv /\ [Next]_vars => [\A i \in Images : Stable(i)]_vars
  BY <1>1
<1> QED
  BY <1>2, InitInvariant, NextInvariant, PTL DEF Spec, LookupIsStable
=============================================================================
