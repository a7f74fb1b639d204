-------------------------- MODULE GpuSession_proofs --------------------------
(***************************************************************************)
(* Proofs about GpuSession: for every host, every selector, every number of *)
(* rows, batches and failures, and every one of the three protocols.        *)
(***************************************************************************)
EXTENDS GpuSession, FiniteSetTheorems, TLAPS

-----------------------------------------------------------------------------
(* The inductive invariant. *)

(* The commands still in the queue are the last ones of one submission. *)
RestOf(p) ==
  /\ Len(commands) <= Len(Submission(p))
  /\ \A i \in 1 .. Len(commands) :
       commands[i] = Submission(p)[Len(Submission(p)) - Len(commands) + i]

CommandNames ==
  {"unmap_features", "unmap_labels", "rows", "reduce", "read_metrics", "read_model", "phase6",
   "write_input", "double", "read_output"}

Regions == {"values", "labels"}
unmap_of(region) == IF region = "values" THEN "unmap_features" ELSE "unmap_labels"

(* What the object is before the constructor has finished. *)
Unborn ==
  /\ thrown = "no" /\ opened = NoDevice /\ pending = 0 /\ status = "running" /\ smoke = "none"
  /\ handles = {} /\ orphans = {} /\ mapped = {} /\ cl_mapped = {} /\ commands = <<>>
  /\ stream_capacity_rows = 0

LifeInv ==
  /\ protocol \in {"training", "phase6", "smoke"}
  /\ life \in {"selecting", "constructing", "live", "destroyed"}
  /\ thrown \in {"no", "selection", "opencl", "logic_error"}
  /\ host \in Hosts
  /\ pending \in Nat /\ next_version \in Nat \ {0} /\ stream_capacity_rows \in Nat
  /\ commands \in Seq(CommandNames)
  /\ life \in {"selecting", "constructing"} => Unborn
  /\ life = "live" => opened # NoDevice
  /\ protocol = "smoke" => mapped = {} /\ cl_mapped = {} /\ pending = 0

(* The OpenCL objects. *)
ObjectInv ==
  /\ handles \subseteq Released
  /\ life = "destroyed" => handles = {}
  /\ orphans # {} => thrown = "opencl"
  /\ calling /\ stream_capacity_rows > 0 => ToSet(StreamBuffers) \subseteq handles

(* The mapped memory: what the runtime has mapped is mapped by the object,  *)
(* or its unmap is in the queue; and its buffer exists.                     *)
MapInv ==
  /\ mapped \subseteq Regions /\ cl_mapped \subseteq Regions
  /\ protocol = "phase6" => "labels" \notin mapped
  /\ \A region \in cl_mapped : region \in mapped \/ unmap_of(region) \in ToSet(commands)
  /\ life = "live" /\ cl_mapped # {} => {"input", "label"} \subseteq handles
  /\ life = "destroyed" => mapped = {}
  /\ calling /\ mapped # {} => commands = <<>> /\ pending = 0

(* The queue: only the commands of the submission that is waited for. *)
QueueInv ==
  /\ calling /\ pending # 0 => RestOf(protocol)
  /\ calling /\ pending = 0 /\ protocol # "smoke" => commands = <<>>
  /\ calling /\ protocol = "smoke" =>
       /\ RestOf("smoke")
       /\ commands # <<>> \/ status # "running" => "smoke_output_complete" \in handles
       /\ "smoke_output_complete" \in handles => "smoke_input" \in handles
  /\ calling /\ protocol = "smoke" /\ status # "running" => commands = <<>>
  /\ life = "destroyed" /\ thrown = "no" => commands = <<>>

(* The verdict of the smoke test, and the device. *)
VerdictInv ==
  /\ life = "constructing" /\ ~host_changed =>
       selected \in requested_gpus(host, selector.index, selector.name)
  /\ opened # NoDevice /\ ~host_changed =>
       opened \in requested_gpus(host, selector.index, selector.name)
  /\ status = "passed" => smoke = "read" /\ opened # NoDevice /\ protocol = "smoke" /\ commands = <<>>
  /\ status = "skipped" => life = "destroyed" /\ selected = SelectionError /\ gpus(host) = {}

SessionInv == LifeInv /\ ObjectInv /\ MapInv /\ QueueInv /\ VerdictInv

-----------------------------------------------------------------------------
(* The names. *)
LEMMA Names ==
  /\ ToSet(Constructed) = {"context", "queue", "program", "smoke_kernel", "phase6_update_kernel",
                           "training_kernel", "training_reduce_kernel"}
  /\ ToSet(StreamBuffers) = {"input", "label", "update", "gradient", "loss", "correct", "metrics"}
  /\ ToSet(SmokeBuffers) = {"smoke_input", "smoke_output"}
  /\ Len(Constructed) = 7 /\ Len(StreamBuffers) = 7 /\ Len(SmokeBuffers) = 2
  <1>1. ToSet(Constructed) = {"context", "queue", "program", "smoke_kernel", "phase6_update_kernel",
                              "training_kernel", "training_reduce_kernel"} /\ Len(Constructed) = 7
    BY DEF ToSet, Constructed
  <1>2. ToSet(StreamBuffers) = {"input", "label", "update", "gradient", "loss", "correct", "metrics"}
        /\ Len(StreamBuffers) = 7
    BY DEF ToSet, StreamBuffers
  <1>3. ToSet(SmokeBuffers) = {"smoke_input", "smoke_output"} /\ Len(SmokeBuffers) = 2
    BY DEF ToSet, SmokeBuffers
  <1>. QED
    BY <1>1, <1>2, <1>3

LEMMA Submissions ==
  /\ Submission("training") = <<"unmap_features", "unmap_labels", "rows", "reduce", "read_metrics", "read_model">>
  /\ Submission("phase6") = <<"unmap_features", "phase6", "read_model">>
  /\ Submission("smoke") = <<"write_input", "double", "read_output">>
  /\ \A p \in {"training", "phase6", "smoke"} :
       Submission(p) \in Seq(CommandNames) /\ Len(Submission(p)) = IF p = "training" THEN 6 ELSE 3
  <1>1. /\ Submission("training") = <<"unmap_features", "unmap_labels", "rows", "reduce", "read_metrics", "read_model">>
        /\ Submission("phase6") = <<"unmap_features", "phase6", "read_model">>
        /\ Submission("smoke") = <<"write_input", "double", "read_output">>
    BY DEF Submission
  <1>2. /\ Len(<<"unmap_features", "unmap_labels", "rows", "reduce", "read_metrics", "read_model">>) = 6
        /\ <<"unmap_features", "unmap_labels", "rows", "reduce", "read_metrics", "read_model">> \in Seq(CommandNames)
    BY DEF CommandNames
  <1>3. /\ <<"unmap_features", "phase6", "read_model">> \in Seq(CommandNames)
        /\ Len(<<"unmap_features", "phase6", "read_model">>) = 3
    BY DEF CommandNames
  <1>4. /\ <<"write_input", "double", "read_output">> \in Seq(CommandNames)
        /\ Len(<<"write_input", "double", "read_output">>) = 3
    BY DEF CommandNames
  <1>. QED
    BY <1>1, <1>2, <1>3, <1>4

(* The first n of a sequence. *)
LEMMA FirstPart ==
  ASSUME NEW S, NEW s \in Seq(S), NEW n \in 0 .. Len(s)
  PROVE  /\ SubSeq(s, 1, n) \in Seq(S) /\ Len(SubSeq(s, 1, n)) = n
         /\ \A i \in 1 .. n : SubSeq(s, 1, n)[i] = s[i]
         /\ ToSet(SubSeq(s, 1, n)) \subseteq ToSet(s)
         /\ n = Len(s) => SubSeq(s, 1, n) = s
  <1>1. /\ SubSeq(s, 1, n) \in Seq(S) /\ Len(SubSeq(s, 1, n)) = n
        /\ \A i \in 1 .. n : SubSeq(s, 1, n)[i] = s[i]
    OBVIOUS
  <1>2. ToSet(SubSeq(s, 1, n)) \subseteq ToSet(s)
    BY <1>1 DEF ToSet
  <1>3. n = Len(s) => SubSeq(s, 1, n) = s
    BY <1>1
  <1>. QED
    BY <1>1, <1>2, <1>3

LEMMA FirstNames ==
  ASSUME NEW n \in Nat
  PROVE  /\ n <= 7 => FirstOf(Constructed, n) \subseteq ToSet(Constructed)
         /\ n <= 7 => FirstOf(StreamBuffers, n) \subseteq ToSet(StreamBuffers)
         /\ n <= 2 => FirstOf(SmokeBuffers, n) \subseteq ToSet(SmokeBuffers)
         /\ n = 7 => FirstOf(StreamBuffers, n) = ToSet(StreamBuffers)
         /\ n = 2 => FirstOf(SmokeBuffers, n) = ToSet(SmokeBuffers)
  <1>1. /\ Constructed \in Seq(ToSet(Constructed)) /\ StreamBuffers \in Seq(ToSet(StreamBuffers))
        /\ SmokeBuffers \in Seq(ToSet(SmokeBuffers))
    BY Names DEF Constructed, StreamBuffers, SmokeBuffers
  <1>2. n <= 7 => n \in 0 .. Len(Constructed) /\ n \in 0 .. Len(StreamBuffers)
    BY Names
  <1>3. n <= 2 => n \in 0 .. Len(SmokeBuffers)
    BY Names
  <1>4. n <= 7 => FirstOf(Constructed, n) \subseteq ToSet(Constructed)
    BY <1>1, <1>2, FirstPart DEF FirstOf
  <1>5. n <= 7 => /\ FirstOf(StreamBuffers, n) \subseteq ToSet(StreamBuffers)
                  /\ n = 7 => FirstOf(StreamBuffers, n) = ToSet(StreamBuffers)
    BY <1>1, <1>2, Names, FirstPart DEF FirstOf
  <1>6. n <= 2 => /\ FirstOf(SmokeBuffers, n) \subseteq ToSet(SmokeBuffers)
                  /\ n = 2 => FirstOf(SmokeBuffers, n) = ToSet(SmokeBuffers)
    BY <1>1, <1>3, Names, FirstPart DEF FirstOf
  <1>. QED
    BY <1>4, <1>5, <1>6

(* The events of a submission. *)
LEMMA EventNames ==
  /\ \A n \in 0 .. 6 : EventsOf("training", n) \subseteq StreamEvents
  /\ \A n \in 0 .. 3 : EventsOf("phase6", n) \subseteq StreamEvents
  /\ \A n \in 0 .. 3 : EventsOf("smoke", n) \subseteq SmokeEvents
  /\ "smoke_output_complete" \in EventsOf("smoke", 3)
  <1> DEFINE t == <<"unmap_complete", "none", "kernel_complete", "reduce_complete", "none", "read_complete">>
             p == <<"unmap_complete", "kernel_complete", "read_complete">>
             s == <<"smoke_input_complete", "smoke_kernel_complete", "smoke_output_complete">>
  <1>1. /\ ToSet(t) = StreamEvents \cup {"none"} /\ ToSet(p) \subseteq StreamEvents /\ ToSet(s) = SmokeEvents
    BY DEF ToSet, StreamEvents, SmokeEvents
  <1>2. /\ t \in Seq({"unmap_complete", "none", "kernel_complete", "reduce_complete", "read_complete"}) /\ Len(t) = 6
        /\ p \in Seq(StreamEvents) /\ Len(p) = 3 /\ s \in Seq(SmokeEvents) /\ Len(s) = 3
    BY DEF StreamEvents, SmokeEvents
  <1>3. \A n : /\ EventsOf("training", n) = ToSet(SubSeq(t, 1, n)) \ {"none"}
               /\ EventsOf("phase6", n) = ToSet(SubSeq(p, 1, n))
               /\ EventsOf("smoke", n) = ToSet(SubSeq(s, 1, n))
    BY DEF EventsOf, FirstOf
  <1> HIDE DEF t, p, s
  <1>4. ASSUME NEW n \in 0 .. 6 PROVE EventsOf("training", n) \subseteq StreamEvents
    <2>1. n \in 0 .. Len(t)
      BY <1>2
    <2>2. ToSet(SubSeq(t, 1, n)) \subseteq ToSet(t)
      BY <1>2, <2>1, FirstPart
    <2>. QED
      BY <1>1, <1>3, <2>2
  <1>5. ASSUME NEW n \in 0 .. 3
        PROVE  EventsOf("phase6", n) \subseteq StreamEvents /\ EventsOf("smoke", n) \subseteq SmokeEvents
    <2>1. n \in 0 .. Len(p) /\ n \in 0 .. Len(s)
      BY <1>2
    <2>2. ToSet(SubSeq(p, 1, n)) \subseteq ToSet(p) /\ ToSet(SubSeq(s, 1, n)) \subseteq ToSet(s)
      BY <1>2, <2>1, FirstPart
    <2>. QED
      BY <1>1, <1>3, <2>2
  <1>6. EventsOf("smoke", 3) = SmokeEvents
    <2>1. 3 \in 0 .. Len(s) /\ 3 = Len(s)
      BY <1>2
    <2>2. SubSeq(s, 1, 3) = s
      BY <1>2, <2>1, FirstPart
    <2>. QED
      BY <1>1, <1>3, <2>2
  <1>. QED
    BY <1>4, <1>5, <1>6 DEF SmokeEvents

-----------------------------------------------------------------------------
(* The choice of the device. *)

LEMMA PositionsFinite ==
  ASSUME NEW h \in Hosts
  PROVE  /\ IsFiniteSet(gpus(h))
         /\ \A at \in Positions(h) : at \in (Nat \ {0}) \X (Nat \ {0}) /\ at = <<at[1], at[2]>>
         /\ gpus(h) \subseteq Positions(h)
  <1>1. h \in Seq(Seq([gpu : BOOLEAN, contains : SUBSET STRING]))
    BY SessionAssumption
  <1>2. DOMAIN h = 1 .. Len(h) /\ Len(h) \in Nat
    BY <1>1
  <1>3. IsFiniteSet(1 .. Len(h)) /\ IsFiniteSet(1 .. MaxDevices)
    <2>1. 1 \in Int /\ Len(h) \in Int /\ MaxDevices \in Int
      BY <1>2, SessionAssumption
    <2>. QED
      BY <2>1, FS_Interval
  <1>4. IsFiniteSet((DOMAIN h) \X (1 .. MaxDevices))
    BY <1>2, <1>3, FS_Product
  <1>5. gpus(h) \in SUBSET ((DOMAIN h) \X (1 .. MaxDevices)) /\ gpus(h) \subseteq Positions(h)
    <2>1. gpus(h) \subseteq Positions(h)
      BY Zenon DEF gpus
    <2>2. Positions(h) \subseteq (DOMAIN h) \X (1 .. MaxDevices)
      BY Zenon DEF Positions
    <2>. QED
      BY <2>1, <2>2, Zenon
  <1>6. IsFiniteSet(gpus(h))
    BY <1>4, <1>5, FS_Subset
  <1>7. ASSUME NEW at \in Positions(h)
        PROVE  at \in (Nat \ {0}) \X (Nat \ {0}) /\ at = <<at[1], at[2]>>
    <2>1. at \in (1 .. Len(h)) \X (1 .. MaxDevices)
      BY <1>2 DEF Positions
    <2>. QED
      BY <1>2, <2>1, SessionAssumption
  <1>. QED
    BY <1>5, <1>6, <1>7

(* No value that stands for an error is a device. *)
LEMMA DevicesAreNoErrors ==
  ASSUME NEW h \in Hosts, NEW at \in Positions(h)
  PROVE  at \notin {NoDevice, SelectionError, Unavailable}
  <1>1. at[1] \in Nat \ {0}
    BY PositionsFinite
  <1>2. NoDevice[1] = 0 /\ SelectionError[1] = 0 /\ Unavailable[1] = 0
    BY DEF NoDevice, SelectionError, Unavailable
  <1>. QED
    BY <1>1, <1>2

LEMMA SelectedIsRequested ==
  ASSUME NEW h, NEW index, NEW name, select_opencl_gpu(h, index, name) # SelectionError
  PROVE  select_opencl_gpu(h, index, name) \in requested_gpus(h, index, name)
  <1> DEFINE R == requested_gpus(h, index, name)
  <1>1. Cardinality(R) = 1
    BY DEF select_opencl_gpu
  <1>2. R # {}
    BY <1>1, FS_EmptySet
  <1> HIDE DEF R
  <1>3. (CHOOSE g \in R : TRUE) \in R
    BY <1>2
  <1>4. select_opencl_gpu(h, index, name) = CHOOSE g \in R : TRUE
    BY <1>1 DEF select_opencl_gpu, R
  <1>. QED
    BY <1>3, <1>4 DEF R

(* A set of naturals that is not empty has a least element. *)
LEMMA Least ==
  ASSUME NEW S \in SUBSET Nat, S # {}
  PROVE  \E least \in S : \A n \in S : least <= n
  <1>1. \E x \in S : \A y \in S : ~ (<<y, x>> \in OpToRel(<, Nat))
    BY NatLessThanWellFounded, WFMin
  <1>2. PICK x \in S : \A y \in S : ~ (<<y, x>> \in OpToRel(<, Nat))
    BY <1>1
  <1>3. ASSUME NEW y \in S PROVE x <= y
    <2>1. ~(y < x)
      BY <1>2, <1>3 DEF OpToRel
    <2>. QED
      BY <2>1
  <1>. QED
    BY <1>3

(* Where there is a GPU there is exactly one that is the first. *)
LEMMA FirstGpu ==
  ASSUME NEW h \in Hosts, gpus(h) # {}
  PROVE  \E first \in gpus(h) : {g \in gpus(h) : gpu_index(h, g) = 0} = {first}
  <1>0. /\ IsFiniteSet(gpus(h))
        /\ \A at \in gpus(h) : at[1] \in Nat /\ at[2] \in Nat /\ at = <<at[1], at[2]>>
    BY PositionsFinite
  <1> DEFINE platforms == {at[1] : at \in gpus(h)}
  <1>1. PICK p \in platforms : \A q \in platforms : p <= q
    BY <1>0, Least
  <1> DEFINE on == {at[2] : at \in {g \in gpus(h) : g[1] = p}}
  <1>2. on # {} /\ on \in SUBSET Nat
    BY <1>0
  <1>3. PICK d \in on : \A e \in on : d <= e
    BY <1>2, Least
  <1>4. PICK first \in gpus(h) : first[1] = p /\ first[2] = d
    BY <1>3
  <1>5. ASSUME NEW g \in gpus(h), g # first PROVE discovered_before(first, g) /\ ~discovered_before(g, first)
    <2>1. g[1] \in platforms /\ p <= g[1] /\ p \in Nat
      BY <1>0, <1>1
    <2>2. CASE g[1] = p
      <3>1. g[2] \in on
        BY <2>2
      <3>2. d <= g[2] /\ d \in Nat /\ g[2] \in Nat
        BY <1>2, <1>3, <3>1
      <3>3. g[2] # d
        BY <1>0, <1>4, <1>5, <2>2
      <3>. QED
        BY <1>4, <2>1, <2>2, <3>2, <3>3 DEF discovered_before
    <2>3. CASE g[1] # p
      BY <1>0, <1>4, <2>1, <2>3 DEF discovered_before
    <2>. QED
      BY <2>2, <2>3
  <1>6. ~discovered_before(first, first)
    BY <1>0, <1>4 DEF discovered_before
  <1>7. gpu_index(h, first) = 0
    <2>1. {g \in gpus(h) : discovered_before(g, first)} = {}
      BY <1>5, <1>6
    <2>. QED
      BY <2>1, FS_EmptySet DEF gpu_index
  <1>8. ASSUME NEW g \in gpus(h), g # first PROVE gpu_index(h, g) # 0
    <2> DEFINE before == {k \in gpus(h) : discovered_before(k, g)}
    <2>1. before # {} /\ before \in SUBSET gpus(h)
      BY <1>5, <1>8
    <2>2. IsFiniteSet(before)
      BY <1>0, <2>1, FS_Subset
    <2> HIDE DEF before
    <2>3. Cardinality(before) # 0
      BY <2>1, <2>2, FS_EmptySet
    <2>. QED
      BY <2>3 DEF gpu_index, before
  <1>. QED
    BY <1>7, <1>8

LEMMA NothingToSelect ==
  ASSUME NEW h \in Hosts, select_opencl_gpu(h, NoIndex, NoName) = SelectionError
  PROVE  gpus(h) = {}
  <1> SUFFICES ASSUME gpus(h) # {} PROVE FALSE
    OBVIOUS
  <1> DEFINE R == requested_gpus(h, NoIndex, NoName)
  <1>1. R = {g \in gpus(h) : gpu_index(h, g) = 0}
    BY DEF requested_gpus
  <1>2. PICK first \in gpus(h) : R = {first}
    BY <1>1, FirstGpu
  <1>3. Cardinality(R) = 1
    BY <1>2, FS_Singleton
  <1>4. select_opencl_gpu(h, NoIndex, NoName) \in R
    <2>1. select_opencl_gpu(h, NoIndex, NoName) = CHOOSE g \in R : TRUE
      BY <1>3 DEF select_opencl_gpu
    <2> HIDE DEF R
    <2>. QED
      BY <1>2, <2>1
  <1>5. select_opencl_gpu(h, NoIndex, NoName) \in Positions(h)
    BY <1>2, <1>4, PositionsFinite
  <1>. QED
    BY <1>5, DevicesAreNoErrors

-----------------------------------------------------------------------------
(* The steps, one after the other. *)

LEMMA SelectKeeps == ASSUME SessionInv, SelectGpu PROVE SessionInv'
  <1>0. /\ life = "selecting" /\ Unborn /\ host \in Hosts
        /\ UNCHANGED <<protocol, selector, host, opened, host_changed, handles, orphans, mapped, cl_mapped,
                       stream_capacity_rows, pending, next_version, commands, smoke>>
        /\ \/ selected' # SelectionError /\ life' = "constructing" /\ thrown' = "no" /\ status' = status
           \/ selected' = SelectionError /\ life' = "destroyed" /\ thrown' = "selection"
    BY DEF SelectGpu, SessionInv, LifeInv, stream
  <1>1. LifeInv'
    BY <1>0 DEF SessionInv, LifeInv, Unborn
  <1>2. ObjectInv' /\ MapInv' /\ QueueInv'
    BY <1>0 DEF SessionInv, ObjectInv, MapInv, QueueInv, Unborn, calling
  <1>3. VerdictInv'
    <2>1. selected' = select_opencl_gpu(host, selector.index, selector.name)
      BY DEF SelectGpu
    <2>2. selected' # SelectionError => selected' \in requested_gpus(host, selector.index, selector.name)
      BY <2>1, SelectedIsRequested
    <2>3. status' # "passed" /\ (status' = "skipped" => life' = "destroyed" /\ selected' = SelectionError
            /\ selector = [index |-> NoIndex, name |-> NoName])
      BY <1>0 DEF SelectGpu, Unborn
    <2>4. status' = "skipped" => gpus(host) = {}
      <3>1. SUFFICES ASSUME status' = "skipped" PROVE gpus(host) = {}
        OBVIOUS
      <3>2. selector.index = NoIndex /\ selector.name = NoName
        BY <2>3, <3>1
      <3>3. select_opencl_gpu(host, NoIndex, NoName) = SelectionError
        BY <2>1, <2>3, <3>1, <3>2
      <3>. QED
        BY <1>0, <3>3, NothingToSelect
    <2>. QED
      BY <1>0, <2>2, <2>3, <2>4 DEF VerdictInv, Unborn
  <1>. QED
    BY <1>1, <1>2, <1>3 DEF SessionInv

LEMMA HostKeeps == ASSUME SessionInv, HostChanges PROVE SessionInv'
  <1>0. /\ life = "constructing" /\ Unborn /\ host' \in Hosts /\ host_changed' = TRUE
        /\ UNCHANGED <<protocol, selector, selected, opened, life, thrown, handles, orphans, mapped, cl_mapped,
                       stream_capacity_rows, pending, next_version, commands, smoke, status>>
    BY DEF HostChanges, SessionInv, LifeInv, stream
  <1>1. LifeInv' /\ ObjectInv'
    BY <1>0 DEF SessionInv, LifeInv, ObjectInv, Unborn, calling
  <1>2. MapInv' /\ QueueInv'
    BY <1>0 DEF SessionInv, MapInv, QueueInv, Unborn, calling
  <1>3. VerdictInv'
    BY <1>0 DEF SessionInv, VerdictInv, Unborn
  <1>. QED
    BY <1>1, <1>2, <1>3 DEF SessionInv

LEMMA ConstructKeeps == ASSUME SessionInv, Construct PROVE SessionInv'
  <1>0. /\ life = "constructing" /\ Unborn /\ host \in Hosts
        /\ UNCHANGED <<protocol, selector, host, selected, host_changed, orphans, mapped, cl_mapped,
                       stream_capacity_rows, pending, next_version, commands, smoke>>
        /\ life' = (IF thrown' = "no" THEN "live" ELSE "destroyed")
        /\ status' = (IF thrown' = "no" THEN status ELSE "failed")
    BY DEF Construct, SessionInv, LifeInv, stream
  <1>1. PICK made \in 0 .. 7 :
          /\ opened' = IF made = 0 THEN NoDevice ELSE find_device_id(host, selected)
          /\ find_device_id(host, selected) = Unavailable => made = 0
          /\ (thrown' = "no" /\ made = 7 /\ find_device_id(host, selected) # Unavailable) \/ thrown' = "opencl"
          /\ handles' = IF thrown' = "no" THEN ToSet(Constructed) ELSE FirstOf(Constructed, made) \ Released
    BY Names DEF Construct, Outcome
  <1>2. opened' = NoDevice \/ (opened' = selected /\ opened' \in Positions(host))
    BY <1>1 DEF find_device_id
  <1>3. thrown' = "no" => opened' # NoDevice
    BY <1>0, <1>1, DevicesAreNoErrors DEF find_device_id
  <1>4. ToSet(Constructed) \subseteq Released /\ (thrown' # "no" => handles' = {})
    BY <1>1, FirstNames DEF Released
  <1>5. LifeInv'
    BY <1>0, <1>1, <1>3 DEF SessionInv, LifeInv, Unborn
  <1>6. ObjectInv'
    <2>1. stream_capacity_rows = 0
      BY <1>0 DEF Unborn
    <2>. QED
      BY <1>0, <1>1, <1>4, <2>1 DEF SessionInv, ObjectInv, Unborn, calling
  <1>7. MapInv' /\ QueueInv'
    <2>1. commands' = <<>> /\ Len(commands') = 0
      BY <1>0 DEF Unborn
    <2>2. RestOf("smoke")'
      BY <2>1, Submissions DEF RestOf
    <2>3. status' = "running" \/ thrown' # "no"
      BY <1>0 DEF Unborn
    <2>4. "smoke_output_complete" \notin handles'
      BY <1>1, <1>4, Names
    <2>. QED
      BY <1>0, <1>1, <2>1, <2>2, <2>3, <2>4 DEF SessionInv, MapInv, QueueInv, Unborn, calling
  <1>8. VerdictInv'
    BY <1>0, <1>2 DEF SessionInv, VerdictInv, Unborn
  <1>. QED
    BY <1>5, <1>6, <1>7, <1>8 DEF SessionInv

(* A call or a refusal that changes no OpenCL object. *)
LEMMA QuietKeeps ==
  ASSUME SessionInv, calling, UNCHANGED <<choice, life, handles, orphans, mapped, cl_mapped, stream_capacity_rows,
                                          pending, next_version, commands, smoke, status>>,
         thrown' \in {"no", "opencl", "logic_error"}
  PROVE  SessionInv'
  <1>1. LifeInv' /\ ObjectInv'
    BY DEF SessionInv, LifeInv, ObjectInv, Unborn, calling, choice
  <1>2. MapInv' /\ VerdictInv'
    BY DEF SessionInv, MapInv, VerdictInv, calling, choice
  <1>3. QueueInv'
    BY DEF SessionInv, QueueInv, RestOf, calling, choice
  <1>. QED
    BY <1>1, <1>2, <1>3 DEF SessionInv

(* Without commands in the queue, what the runtime has mapped the object has. *)
LEMMA MappedHere ==
  ASSUME SessionInv, commands = <<>>
  PROVE  cl_mapped \subseteq mapped /\ ToSet(commands) = {}
  <1>1. ToSet(<<>>) = {}
    BY DEF ToSet
  <1>. QED
    BY <1>1 DEF SessionInv, MapInv

LEMMA MapKeeps == ASSUME SessionInv, NEW rows \in 1 .. MaxRows, MapBatch(rows) PROVE SessionInv'
  <1>0. /\ calling /\ protocol \in {"training", "phase6"} /\ mapped = {} /\ pending = 0 /\ commands = <<>>
        /\ UNCHANGED <<choice, protocol, life, orphans, pending, next_version, commands, smoke, status>>
        /\ MaxRows \in Nat /\ stream_capacity_rows \in Nat /\ orphans = {}
    BY SessionAssumption DEF MapBatch, SessionInv, LifeInv, ObjectInv, calling, choice
  <1>1. PICK step \in (IF rows > stream_capacity_rows THEN 1 .. 9 ELSE {9})
                        \cup (IF protocol = "training" THEN {10} ELSE {}) \cup {11} :
          /\ thrown' = IF step = 11 THEN "no" ELSE "opencl"
          /\ handles' = IF rows > stream_capacity_rows
                          THEN (handles \ ToSet(StreamBuffers))
                                 \cup FirstOf(StreamBuffers, IF step > 7 THEN 7 ELSE step - 1)
                          ELSE handles
          /\ IF rows > stream_capacity_rows /\ step > 8
               THEN stream_capacity_rows' = rows ELSE UNCHANGED stream_capacity_rows
          /\ mapped' = (IF step > 9 THEN {"values"} ELSE {})
                         \cup (IF step > 10 /\ protocol = "training" THEN {"labels"} ELSE {})
          /\ cl_mapped' = mapped'
    BY Zenon DEF MapBatch, Outcome
  <1>2. step \in 1 .. 11 /\ (~(rows > stream_capacity_rows) => step >= 9)
    BY <1>1
  <1>3. handles' \subseteq Released /\ (step > 7 => ToSet(StreamBuffers) \subseteq handles')
    <2>1. CASE ~(rows > stream_capacity_rows)
      <3>1. stream_capacity_rows > 0
        BY <1>0, <2>1
      <3>. QED
        BY <1>0, <1>1, <1>2, <2>1, <3>1 DEF SessionInv, ObjectInv
    <2>2. CASE rows > stream_capacity_rows
      <3> DEFINE n == IF step > 7 THEN 7 ELSE step - 1
      <3>1. n \in Nat /\ n <= 7 /\ (step > 7 => n = 7)
        BY <1>2
      <3>2. handles' = (handles \ ToSet(StreamBuffers)) \cup FirstOf(StreamBuffers, n)
        BY <1>1, <2>2
      <3> HIDE DEF n
      <3>3. FirstOf(StreamBuffers, n) \subseteq ToSet(StreamBuffers)
            /\ (step > 7 => FirstOf(StreamBuffers, n) = ToSet(StreamBuffers))
        BY <3>1, FirstNames
      <3>. QED
        BY <3>2, <3>3 DEF SessionInv, ObjectInv, Released
    <2>. QED
      BY <2>1, <2>2
  <1>4. LifeInv'
    BY <1>0, <1>1, <1>2 DEF SessionInv, LifeInv, calling, choice
  <1>5. ObjectInv'
    <2>1. life' = "live" /\ orphans' = {} /\ (calling' => step = 11)
      BY <1>0, <1>1 DEF calling
    <2>. QED
      BY <1>3, <2>1 DEF ObjectInv
  <1>6. MapInv'
    <2>1. /\ mapped' \subseteq Regions /\ cl_mapped' = mapped' /\ (protocol' = "phase6" => "labels" \notin mapped')
          /\ (mapped' # {} => step > 7) /\ commands' = <<>> /\ pending' = 0 /\ life' = "live"
      BY <1>0, <1>1 DEF Regions, calling
    <2>2. {"input", "label"} \subseteq ToSet(StreamBuffers)
      BY Names
    <2>. QED
      BY <1>3, <2>1, <2>2 DEF MapInv
  <1>7. QueueInv' /\ VerdictInv'
    BY <1>0 DEF SessionInv, QueueInv, VerdictInv, calling, choice
  <1>. QED
    BY <1>4, <1>5, <1>6, <1>7 DEF SessionInv

LEMMA SubmitKeeps == ASSUME SessionInv, SubmitBatch PROVE SessionInv'
  <1> DEFINE all == Submission(protocol)
  <1>0. /\ calling /\ protocol \in {"training", "phase6"} /\ mapped # {} /\ pending = 0 /\ commands = <<>>
        /\ UNCHANGED <<choice, protocol, life, cl_mapped, stream_capacity_rows, next_version, smoke, status>>
        /\ orphans = {} /\ next_version \in Nat \ {0} /\ mapped \subseteq Regions
        /\ protocol = "phase6" => "labels" \notin mapped
    BY DEF SubmitBatch, SessionInv, LifeInv, ObjectInv, MapInv, calling, choice
  <1>1. all \in Seq(CommandNames) /\ Len(all) = (IF protocol = "training" THEN 6 ELSE 3)
    BY <1>0, Submissions
  <1>2. PICK done \in 0 .. Len(all), flushed \in BOOLEAN :
          /\ flushed => done = Len(all)
          /\ Outcome(flushed)
          /\ commands' = commands \o SubSeq(all, 1, done)
          /\ handles' = (handles \ StreamEvents) \cup EventsOf(protocol, done)
          /\ orphans' = orphans \cup (IF protocol = "training" /\ done = 2 THEN {"label_unmap_complete"} ELSE {})
          /\ mapped' = IF done >= (IF protocol = "training" THEN 2 ELSE 1) THEN {} ELSE mapped
          /\ pending' = IF flushed THEN next_version ELSE 0
    BY DEF SubmitBatch, pointers_after
  <1>3. thrown' = (IF flushed THEN "no" ELSE "opencl")
    BY <1>2 DEF Outcome
  <1>4. /\ commands' \in Seq(CommandNames) /\ Len(commands') = done
        /\ \A i \in 1 .. done : commands'[i] = all[i]
    <2>1. /\ SubSeq(all, 1, done) \in Seq(CommandNames) /\ Len(SubSeq(all, 1, done)) = done
          /\ \A i \in 1 .. done : SubSeq(all, 1, done)[i] = all[i]
      BY <1>1, FirstPart
    <2>2. commands' = SubSeq(all, 1, done)
      BY <1>0, <1>2, <2>1
    <2>. QED
      BY <2>1, <2>2
  <1> HIDE DEF all
  <1>5. EventsOf(protocol, done) \subseteq StreamEvents
    BY <1>0, <1>1, EventNames
  <1>6. LifeInv'
    BY <1>0, <1>2, <1>3, <1>4 DEF SessionInv, LifeInv, calling, choice
  <1>7. ObjectInv'
    <2>1. ToSet(StreamBuffers) \cap StreamEvents = {}
      BY Names DEF StreamEvents
    <2>2. handles' \subseteq Released
      BY <1>2, <1>5 DEF SessionInv, ObjectInv, Released
    <2>3. orphans' # {} => thrown' = "opencl"
      BY <1>0, <1>1, <1>2, <1>3
    <2>4. stream_capacity_rows > 0 => ToSet(StreamBuffers) \subseteq handles'
      BY <1>0, <1>2, <2>1 DEF SessionInv, ObjectInv
    <2>. QED
      BY <1>0, <2>2, <2>3, <2>4 DEF ObjectInv, calling
  <1>8. MapInv'
    <2>1. cl_mapped \subseteq mapped
      BY <1>0, MappedHere
    <2>2. \A region \in cl_mapped : region \in mapped' \/ unmap_of(region) \in ToSet(commands')
      <3>1. CASE mapped' = mapped
        BY <2>1, <3>1
      <3>2. CASE mapped' # mapped
        <4>1. done >= 1 /\ (protocol = "training" => done >= 2)
          BY <1>2, <3>2
        <4>2. all[1] = "unmap_features" /\ (protocol = "training" => all[2] = "unmap_labels")
          BY <1>0, Submissions DEF all
        <4>3. DOMAIN commands' = 1 .. done
          BY <1>4
        <4>4. 1 \in 1 .. done /\ (protocol = "training" => 2 \in 1 .. done)
          BY <1>1, <4>1
        <4>5. "unmap_features" \in ToSet(commands')
              /\ (protocol = "training" => "unmap_labels" \in ToSet(commands'))
          BY <1>4, <4>2, <4>3, <4>4 DEF ToSet
        <4>6. "labels" \in cl_mapped => protocol = "training"
          BY <1>0, <2>1
        <4>. QED
          BY <1>0, <2>1, <4>5, <4>6 DEF unmap_of, Regions
      <3>. QED
        BY <3>1, <3>2
    <2>3. {"input", "label"} \cap StreamEvents = {}
      BY DEF StreamEvents
    <2>4. flushed => mapped' = {}
      BY <1>1, <1>2
    <2>5. life' = "live" /\ cl_mapped' # {} => {"input", "label"} \subseteq handles'
      BY <1>0, <1>2, <2>3 DEF SessionInv, MapInv
    <2>6. mapped' \subseteq mapped /\ (calling' => mapped' = {}) /\ life' = "live"
      BY <1>0, <1>2, <1>3, <2>4 DEF calling
    <2>. QED
      BY <1>0, <2>1, <2>2, <2>5, <2>6 DEF MapInv
  <1>9. QueueInv'
    <2>1. flushed => RestOf(protocol)'
      <3>1. protocol' = protocol /\ (flushed => Len(commands') = Len(Submission(protocol)))
        BY <1>0, <1>2, <1>4 DEF all
      <3>2. flushed => \A i \in 1 .. Len(commands') : commands'[i] = Submission(protocol)[i]
        BY <1>2, <1>4 DEF all
      <3>3. Len(Submission(protocol)) \in Nat
        BY <1>1 DEF all
      <3>4. \A i \in 1 .. Len(Submission(protocol)) : Len(Submission(protocol)) - Len(Submission(protocol)) + i = i
        BY <3>3
      <3>. QED
        BY <3>1, <3>2, <3>3, <3>4 DEF RestOf
    <2>2. calling' => flushed /\ pending' # 0
      BY <1>0, <1>2, <1>3 DEF calling
    <2>. QED
      BY <1>0, <2>1, <2>2 DEF QueueInv, calling
  <1>10. VerdictInv'
    BY <1>0 DEF SessionInv, VerdictInv, calling, choice
  <1>. QED
    BY <1>6, <1>7, <1>8, <1>9, <1>10 DEF SessionInv

(* The last command of a submission leaves the queue last. *)
LEMMA NothingLeft ==
  ASSUME LifeInv, NEW p \in {"training", "phase6", "smoke"}, RestOf(p),
         Submission(p)[Len(Submission(p))] \notin ToSet(commands)
  PROVE  commands = <<>>
  <1>1. Len(commands) \in Nat /\ DOMAIN commands = 1 .. Len(commands) /\ commands \in Seq(CommandNames)
    BY DEF LifeInv
  <1>2. CASE Len(commands) > 0
    <2>1. Len(commands) \in 1 .. Len(commands) /\ Len(Submission(p)) \in Nat
      BY <1>1, <1>2, Submissions
    <2>2. commands[Len(commands)] = Submission(p)[Len(Submission(p)) - Len(commands) + Len(commands)]
      BY <2>1 DEF RestOf
    <2>3. Len(Submission(p)) - Len(commands) + Len(commands) = Len(Submission(p))
      BY <1>1, <2>1
    <2>4. commands[Len(commands)] \in ToSet(commands)
      BY <1>1, <2>1 DEF ToSet
    <2>. QED
      BY <2>2, <2>3, <2>4
  <1>3. CASE Len(commands) = 0
    BY <1>1, <1>3
  <1>. QED
    BY <1>1, <1>2, <1>3

LEMMA LastCommand ==
  /\ Submission("training")[Len(Submission("training"))] = "read_model"
  /\ Submission("phase6")[Len(Submission("phase6"))] = "read_model"
  /\ Submission("smoke")[Len(Submission("smoke"))] = "read_output"
  <1>1. /\ Len(Submission("training")) = 6 /\ Len(Submission("phase6")) = 3 /\ Len(Submission("smoke")) = 3
    BY Submissions
  <1>2. Submission("training")[6] = "read_model" /\ Submission("phase6")[3] = "read_model"
        /\ Submission("smoke")[3] = "read_output"
    BY Submissions
  <1>. QED
    BY <1>1, <1>2

LEMMA PollKeeps == ASSUME SessionInv, PollUpdate PROVE SessionInv'
  <1>0. /\ calling /\ calling' /\ pending # 0 /\ "read_model" \notin ToSet(commands)
        /\ protocol \in {"training", "phase6"} /\ LifeInv /\ pending \in Nat
        /\ next_version' = pending + 1 /\ pending' = 0 /\ handles' = handles \ StreamEvents
        /\ UNCHANGED <<choice, protocol, life, thrown, orphans, mapped, cl_mapped, stream_capacity_rows, commands,
                       smoke, status>>
    BY DEF PollUpdate, SessionInv, LifeInv, calling, choice
  <1>1. commands = <<>>
    BY <1>0, NothingLeft, LastCommand DEF SessionInv, QueueInv
  <1>2. LifeInv'
    BY <1>0 DEF LifeInv, Unborn, calling, choice
  <1>3. ({"input", "label"} \cup ToSet(StreamBuffers)) \cap StreamEvents = {}
    BY Names DEF StreamEvents
  <1>4. ObjectInv'
    BY <1>0, <1>3 DEF SessionInv, ObjectInv, calling
  <1>5. MapInv'
    BY <1>0, <1>1, <1>3 DEF SessionInv, MapInv, calling
  <1>6. QueueInv' /\ VerdictInv'
    BY <1>0, <1>1 DEF SessionInv, QueueInv, VerdictInv, calling, choice
  <1>. QED
    BY <1>2, <1>4, <1>5, <1>6 DEF SessionInv

LEMMA DiscardKeeps == ASSUME SessionInv, DiscardBatch PROVE SessionInv'
  <1>0. /\ calling /\ mapped # {} /\ mapped \subseteq Regions /\ commands = <<>> /\ pending = 0 /\ orphans = {}
        /\ protocol \in {"training", "phase6"}
        /\ UNCHANGED <<choice, protocol, life, handles, stream_capacity_rows, pending, next_version, smoke, status>>
    BY DEF DiscardBatch, SessionInv, LifeInv, ObjectInv, MapInv, calling, choice
  <1>1. PICK step \in {1, 2, 5} \cup (IF "labels" \in mapped THEN {3, 4} ELSE {}) :
          /\ thrown' = IF step = 5 THEN "no" ELSE "opencl"
          /\ mapped' = CASE step = 1 -> mapped
                         [] step \in {2, 3} -> mapped \ {"values"}
                         [] OTHER -> {}
          /\ commands' = CASE step = 2 -> <<"unmap_features">>
                           [] step = 4 -> <<"unmap_labels">>
                           [] OTHER -> <<>>
          /\ cl_mapped' = CASE step \in {1, 2} -> cl_mapped
                            [] step \in {3, 4} -> cl_mapped \ {"values"}
                            [] OTHER -> {}
          /\ orphans' = IF step \in {2, 4} THEN orphans \cup {"discard_event"} ELSE orphans
    BY Zenon DEF DiscardBatch, Outcome
  <1>2. step \in 1 .. 5
    BY <1>1
  <1>3. /\ commands' \in Seq(CommandNames) /\ mapped' \subseteq mapped /\ cl_mapped' \subseteq cl_mapped
        /\ (step = 5 => commands' = <<>> /\ mapped' = {} /\ orphans' = {})
    <2>1. mapped' \subseteq mapped /\ cl_mapped' \subseteq cl_mapped
      BY <1>1, <1>2
    <2>2. <<"unmap_features">> \in Seq(CommandNames) /\ <<"unmap_labels">> \in Seq(CommandNames)
          /\ <<>> \in Seq(CommandNames)
      BY DEF CommandNames
    <2>3. commands' \in {<<"unmap_features">>, <<"unmap_labels">>, <<>>}
      BY <1>1, Zenon
    <2>4. step = 5 => commands' = <<>> /\ mapped' = {} /\ orphans' = {}
      BY <1>0, <1>1
    <2>. QED
      BY <2>1, <2>2, <2>3, <2>4
  <1>4. LifeInv'
    BY <1>0, <1>1, <1>3 DEF SessionInv, LifeInv, calling, choice
  <1>5. ObjectInv'
    BY <1>0, <1>1, <1>3 DEF SessionInv, ObjectInv, calling
  <1>6. MapInv'
    <2>1. cl_mapped \subseteq mapped
      BY <1>0, MappedHere
    <2>2. \A region \in cl_mapped' : region \in mapped' \/ unmap_of(region) \in ToSet(commands')
      <3>1. CASE step \in {1, 3, 5}
        BY <1>1, <2>1, <3>1
      <3>2. CASE step = 2
        <4>1. mapped' = mapped \ {"values"} /\ cl_mapped' = cl_mapped
          BY <1>1, <3>2
        <4>2. commands' = <<"unmap_features">>
          BY <1>1, <3>2
        <4>3. "unmap_features" \in ToSet(commands')
          BY <4>2 DEF ToSet
        <4>. QED
          BY <2>1, <4>1, <4>3 DEF unmap_of
      <3>3. CASE step = 4
        <4>1. cl_mapped' = cl_mapped \ {"values"}
          BY <1>1, <3>3
        <4>2. commands' = <<"unmap_labels">>
          BY <1>1, <3>3
        <4>3. "unmap_labels" \in ToSet(commands')
          BY <4>2 DEF ToSet
        <4>. QED
          BY <1>0, <2>1, <4>1, <4>3 DEF unmap_of, Regions
      <3>. QED
        BY <1>2, <3>1, <3>2, <3>3
    <2>. QED
      BY <1>0, <1>1, <1>3, <2>1, <2>2 DEF SessionInv, MapInv, calling
  <1>7. QueueInv' /\ VerdictInv'
    BY <1>0, <1>1, <1>3 DEF SessionInv, QueueInv, VerdictInv, calling, choice
  <1>. QED
    BY <1>4, <1>5, <1>6, <1>7 DEF SessionInv

LEMMA SmokeSubmitKeeps == ASSUME SessionInv, SmokeSubmit PROVE SessionInv'
  <1>0. /\ calling /\ protocol = "smoke" /\ "smoke_input" \notin handles /\ orphans = {}
        /\ mapped = {} /\ cl_mapped = {} /\ pending = 0
        /\ UNCHANGED <<choice, protocol, life, orphans, mapped, cl_mapped, stream_capacity_rows, pending,
                       next_version, smoke, status>>
    BY Names DEF SmokeSubmit, SessionInv, LifeInv, ObjectInv, calling, choice, stream
  <1>1. PICK made \in 0 .. 2, done \in 0 .. 3 :
          /\ done > 0 => made = 2
          /\ thrown' = IF done = 3 THEN "no" ELSE "opencl"
          /\ handles' = handles \cup FirstOf(SmokeBuffers, made) \cup EventsOf("smoke", done)
          /\ commands' = SubSeq(Submission("smoke"), 1, done)
    BY Zenon DEF SmokeSubmit, Outcome
  <1>2. Submission("smoke") \in Seq(CommandNames) /\ Len(Submission("smoke")) = 3
    BY Submissions
  <1>3. commands' \in Seq(CommandNames) /\ (done = 3 => commands' = Submission("smoke"))
    BY <1>1, <1>2, FirstPart
  <1>4. /\ FirstOf(SmokeBuffers, made) \subseteq ToSet(SmokeBuffers) /\ EventsOf("smoke", done) \subseteq SmokeEvents
        /\ done = 3 => "smoke_input" \in handles' /\ "smoke_output_complete" \in handles'
    BY <1>1, FirstNames, Names, EventNames
  <1>5. LifeInv'
    BY <1>0, <1>1, <1>3 DEF SessionInv, LifeInv, calling, choice
  <1>6. ObjectInv'
    BY <1>0, <1>1, <1>4 DEF SessionInv, ObjectInv, Released, calling
  <1>7. MapInv'
    BY <1>0 DEF MapInv, calling
  <1>8. status = "running"
    BY <1>0 DEF SessionInv, QueueInv
  <1>9. QueueInv'
    <2>1. done = 3 => RestOf("smoke")'
      <3>1. Len(Submission("smoke")) - Len(Submission("smoke")) = 0
        BY <1>2
      <3>2. \A i \in 1 .. 3 : 0 + i = i
        OBVIOUS
      <3>. QED
        BY <1>2, <1>3, <3>1, <3>2 DEF RestOf
    <2>. QED
      BY <1>0, <1>1, <1>4, <1>8, <2>1 DEF QueueInv, calling
  <1>10. VerdictInv'
    BY <1>0, <1>8 DEF SessionInv, VerdictInv, calling, choice
  <1>. QED
    BY <1>5, <1>6, <1>7, <1>9, <1>10 DEF SessionInv

LEMMA SmokeWaitKeeps == ASSUME SessionInv, SmokeWait PROVE SessionInv'
  <1>0. /\ calling /\ protocol = "smoke" /\ "smoke_output_complete" \in handles /\ LifeInv /\ RestOf("smoke")
        /\ UNCHANGED <<choice, protocol, life, handles, orphans, mapped, cl_mapped, stream_capacity_rows, pending,
                       next_version, commands, smoke>>
    BY DEF SmokeWait, SessionInv, QueueInv, choice, stream
  <1>1. \/ /\ thrown' = "no" /\ "read_output" \notin ToSet(commands)
           /\ status' = IF smoke = "read" THEN "passed" ELSE "failed"
        \/ thrown' = "opencl" /\ status' = "failed"
    BY DEF SmokeWait, Outcome
  <1>2. thrown' = "no" => commands = <<>>
    BY <1>0, <1>1, NothingLeft, LastCommand
  <1>3. LifeInv'
    BY <1>0, <1>1 DEF LifeInv, calling, choice
  <1>4. ObjectInv' /\ MapInv'
    BY <1>0, <1>1 DEF SessionInv, ObjectInv, MapInv, calling
  <1>5. QueueInv'
    BY <1>0, <1>1, <1>2 DEF SessionInv, QueueInv, RestOf, calling
  <1>6. VerdictInv'
    BY <1>0, <1>1, <1>2 DEF SessionInv, LifeInv, VerdictInv, calling, choice
  <1>. QED
    BY <1>3, <1>4, <1>5, <1>6 DEF SessionInv

(* The runtime takes the first command. *)
LEMMA RunsTheFirst ==
  ASSUME SessionInv, DeviceStep
  PROVE  /\ commands # <<>> /\ commands' = Tail(commands) /\ life = "live"
         /\ cl_mapped' = cl_mapped \ (CASE commands[1] = "unmap_features" -> {"values"}
                                       [] commands[1] = "unmap_labels" -> {"labels"}
                                       [] OTHER -> {})
  <1>0. commands \in Seq(CommandNames)
    BY DEF SessionInv, LifeInv
  <1>1. PICK i \in runnable : RunCommand(i)
    BY DEF DeviceStep
  <1>2. i = 1 /\ 1 \in DOMAIN commands /\ Len(commands) >= 1 /\ Len(commands) \in Nat
    BY <1>0, <1>1 DEF runnable
  <1>3. commands' = SubSeq(commands, 1, 1 - 1) \o SubSeq(commands, 1 + 1, Len(commands))
    BY <1>1, <1>2 DEF RunCommand, RemoveAt
  <1>4. commands' = Tail(commands)
    BY <1>0, <1>2, <1>3
  <1>5. life = "live"
    BY <1>0, <1>2 DEF DeviceStep, SessionInv, LifeInv, Unborn
  <1>. QED
    BY <1>0, <1>1, <1>2, <1>4, <1>5 DEF RunCommand

LEMMA DeviceKeeps == ASSUME SessionInv, DeviceStep PROVE SessionInv'
  <1>0. /\ UNCHANGED <<choice, protocol, life, thrown, handles, orphans, mapped, stream_capacity_rows, pending,
                       next_version, status>>
        /\ commands \in Seq(CommandNames) /\ protocol \in {"training", "phase6", "smoke"}
    BY DEF DeviceStep, SessionInv, LifeInv, choice
  <1>1. commands # <<>> /\ commands' = Tail(commands) /\ life = "live"
    BY RunsTheFirst
  <1>2. /\ Len(commands) \in Nat /\ Len(commands) >= 1 /\ commands' \in Seq(CommandNames)
        /\ Len(commands') = Len(commands) - 1
        /\ \A i \in 1 .. Len(commands') : commands'[i] = commands[i + 1] /\ i + 1 \in 1 .. Len(commands)
        /\ DOMAIN commands = 1 .. Len(commands) /\ DOMAIN commands' = 1 .. Len(commands')
    BY <1>0, <1>1
  <1>3. LifeInv' /\ ObjectInv'
    <2>1. cl_mapped' \subseteq cl_mapped
      BY RunsTheFirst
    <2>. QED
      BY <1>0, <1>1, <1>2, <2>1 DEF SessionInv, LifeInv, ObjectInv, calling, choice
  <1>4. MapInv'
    <2>1. ASSUME NEW region \in cl_mapped', region \notin mapped
          PROVE  unmap_of(region) \in ToSet(commands')
      <3>1. region \in cl_mapped /\ region \in Regions /\ unmap_of(region) \in ToSet(commands)
        BY <2>1, RunsTheFirst DEF SessionInv, MapInv
      <3>2. unmap_of(region) # commands[1]
        BY <2>1, <3>1, RunsTheFirst DEF unmap_of, Regions
      <3>3. PICK i \in 1 .. Len(commands) : commands[i] = unmap_of(region)
        BY <1>2, <3>1 DEF ToSet
      <3>4. i - 1 \in 1 .. Len(commands')
        BY <1>2, <3>2, <3>3
      <3>5. commands'[i - 1] = commands[i]
        BY <1>2, <3>4
      <3>. QED
        BY <1>2, <3>3, <3>4, <3>5 DEF ToSet
    <2>2. cl_mapped' \subseteq cl_mapped
      BY RunsTheFirst
    <2>. QED
      BY <1>0, <1>1, <2>1, <2>2 DEF SessionInv, MapInv, calling
  <1>5. ASSUME NEW p \in {"training", "phase6", "smoke"}, RestOf(p) PROVE RestOf(p)'
    <2>1. Len(Submission(p)) \in Nat
      BY Submissions
    <2>2. ASSUME NEW i \in 1 .. Len(commands')
          PROVE  commands'[i] = Submission(p)[Len(Submission(p)) - Len(commands') + i]
      <3>1. commands'[i] = commands[i + 1] /\ i + 1 \in 1 .. Len(commands)
        BY <1>2
      <3>2. commands[i + 1] = Submission(p)[Len(Submission(p)) - Len(commands) + (i + 1)]
        BY <1>5, <3>1 DEF RestOf
      <3>3. Len(Submission(p)) - Len(commands) + (i + 1) = Len(Submission(p)) - Len(commands') + i
        BY <1>2, <2>1
      <3>. QED
        BY <3>1, <3>2, <3>3
    <2>. QED
      BY <1>2, <1>5, <2>1, <2>2 DEF RestOf
  <1>6. QueueInv'
    BY <1>0, <1>1, <1>5 DEF SessionInv, QueueInv, calling
  <1>7. VerdictInv'
    BY <1>0, <1>1 DEF SessionInv, VerdictInv, choice
  <1>. QED
    BY <1>3, <1>4, <1>6, <1>7 DEF SessionInv

LEMMA DestroyKeeps == ASSUME SessionInv, Destroy PROVE SessionInv'
  <1>0. /\ life = "live" /\ life' = "destroyed" /\ mapped' = {} /\ cl_mapped' = cl_mapped \ mapped
        /\ handles' = {} /\ stream_capacity_rows' = 0 /\ pending' = 0
        /\ UNCHANGED <<choice, protocol, thrown, orphans, next_version, commands, smoke>>
        /\ status' = IF thrown = "no" THEN status ELSE "failed"
    BY DEF Destroy, SessionInv, ObjectInv, choice
  <1>1. LifeInv' /\ ObjectInv'
    BY <1>0 DEF SessionInv, LifeInv, ObjectInv, calling, choice
  <1>2. MapInv'
    <2>1. \A region \in cl_mapped' : unmap_of(region) \in ToSet(commands)
      BY <1>0 DEF SessionInv, MapInv
    <2>. QED
      BY <1>0, <2>1 DEF SessionInv, MapInv, calling
  <1>3. QueueInv'
    <2>1. thrown = "no" => commands = <<>>
      BY <1>0 DEF Destroy, may_destroy, SessionInv, QueueInv, calling
    <2>. QED
      BY <1>0, <2>1 DEF QueueInv, calling
  <1>4. VerdictInv'
    BY <1>0 DEF SessionInv, VerdictInv, choice
  <1>. QED
    BY <1>1, <1>2, <1>3, <1>4 DEF SessionInv

LEMMA SessionInductive == SessionInv /\ [Next]_vars => SessionInv'
  <1> SUFFICES ASSUME SessionInv, [Next]_vars PROVE SessionInv'
    OBVIOUS
  <1>1. CASE SetTrainingModel \/ PollFails \/ RefusedCall
    BY <1>1, QuietKeeps DEF SetTrainingModel, PollFails, RefusedCall, Outcome, stream, calling
  <1>2. CASE UNCHANGED vars
    <2>1. UNCHANGED <<choice, life, thrown, handles, orphans, mapped, cl_mapped, stream_capacity_rows, pending,
                      next_version, commands, smoke, status>>
      BY <1>2 DEF vars, stream
    <2>2. LifeInv' /\ ObjectInv'
      BY <2>1 DEF SessionInv, LifeInv, ObjectInv, Unborn, calling, choice
    <2>3. MapInv' /\ VerdictInv'
      BY <2>1 DEF SessionInv, MapInv, VerdictInv, calling, choice
    <2>4. QueueInv'
      BY <2>1 DEF SessionInv, QueueInv, RestOf, calling, choice
    <2>. QED
      BY <2>2, <2>3, <2>4 DEF SessionInv
  <1>. QED
    BY <1>1, <1>2, SelectKeeps, HostKeeps, ConstructKeeps, MapKeeps, SubmitKeeps, PollKeeps, DiscardKeeps,
       SmokeSubmitKeeps, SmokeWaitKeeps, DeviceKeeps, DestroyKeeps DEF Next, Done

LEMMA SessionInit == Init => SessionInv
  <1> SUFFICES ASSUME Init PROVE SessionInv
    OBVIOUS
  <1>1. LifeInv /\ ObjectInv
    BY DEF Init, LifeInv, ObjectInv, Unborn, calling
  <1>2. MapInv /\ QueueInv /\ VerdictInv
    BY DEF Init, MapInv, QueueInv, VerdictInv, calling
  <1>. QED
    BY <1>1, <1>2 DEF SessionInv

LEMMA SessionInvariant == Spec => []SessionInv
  BY SessionInit, SessionInductive, PTL DEF Spec

(* However the constructor, the calls and the kernels went, the destructor  *)
(* leaves no OpenCL object behind, and no call loses one unless OpenCL      *)
(* failed under it.                                                         *)
THEOREM NothingLeaks == Spec => []CleanupReleasesAll
  <1>1. SessionInv => CleanupReleasesAll
    BY DEF SessionInv, ObjectInv, CleanupReleasesAll
  <1>. QED
    BY SessionInvariant, <1>1, PTL

(* No buffer is released while it is mapped, unless its unmap is already in *)
(* the queue, and a session without a failure destroys nothing a readback   *)
(* is still writing to.                                                     *)
THEOREM MemoryOutlivesItsUse == Spec => []ReleasedMemoryUntouched
  <1>1. SessionInv => ReleasedMemoryUntouched
    <2> SUFFICES ASSUME SessionInv PROVE ReleasedMemoryUntouched
      OBVIOUS
    <2>1. ASSUME NEW region \in cl_mapped
          PROVE  \/ (IF region = "values" THEN "input" ELSE "label") \in handles
                 \/ (IF region = "values" THEN "unmap_features" ELSE "unmap_labels") \in ToSet(commands)
      <3>1. CASE life \in {"selecting", "constructing"}
        BY <2>1, <3>1 DEF SessionInv, LifeInv, Unborn
      <3>2. CASE life = "live"
        BY <2>1, <3>2 DEF SessionInv, MapInv
      <3>3. CASE life = "destroyed"
        BY <2>1, <3>3 DEF SessionInv, MapInv, unmap_of
      <3>. QED
        BY <3>1, <3>2, <3>3 DEF SessionInv, LifeInv
    <2>. QED
      BY <2>1 DEF SessionInv, QueueInv, ReleasedMemoryUntouched
  <1>. QED
    BY SessionInvariant, <1>1, PTL

(* Whatever the host lists and whatever was asked for, the context is on a  *)
(* GPU that was asked for as long as the list has not changed; the smoke    *)
(* test passes only on values read back, and skips only without a GPU.      *)
THEOREM VerdictsAreSound == Spec => []VerdictsSound
  <1>1. SessionInv => VerdictsSound
    <2>1. \A h, i, n : requested_gpus(h, i, n) \subseteq gpus(h)
      BY DEF requested_gpus
    <2>2. \A h : \A g \in gpus(h) : device_at(h, g).gpu
      BY DEF gpus
    <2>. QED
      BY <2>1, <2>2 DEF SessionInv, VerdictInv, VerdictsSound
  <1>. QED
    BY SessionInvariant, <1>1, PTL

-----------------------------------------------------------------------------
(* That the session implements TrainingService. *)

(* What the device and the host's arrays hold. *)
Trained == [seed : BOOLEAN, batches : Seq(Nat)]
Entry ==
  [kind : {"reset"}, seed : BOOLEAN]
    \cup [kind : {"update"}, version : Nat, model : Trained, metrics : Nat]

DataType ==
  /\ history \in Seq(Entry)
  /\ has_configured_training_model \in BOOLEAN
  /\ batch \in Nat /\ device_metrics \in Nat /\ stream_training_metrics \in Nat
  /\ gradient \in [batch : Nat, model : Trained]
  /\ device_model \in Trained /\ stream_update_values \in Trained

(* The model with one more batch. *)
Learned(m, version) == [m EXCEPT !.batches = Append(@, version)]
Fresh(version) == [seed |-> FALSE, batches |-> <<version>>]

(* Buffers of some size have been reset; the input holds the client's batch. *)
BufferInv ==
  /\ life \in {"selecting", "constructing"} => Service!Resets = {}
  /\ calling =>
       /\ stream_capacity_rows > 0 => Service!Resets # {}
       /\ mapped # {} => stream_capacity_rows > 0 /\ batch = next_version
       /\ pending # 0 => Service!Resets # {} /\ batch = pending

(* How far each value has come, by the number of commands still to run. *)
TrainingInv ==
  calling /\ protocol = "training" /\ Service!Resets # {} =>
    /\ pending = 0 \/ Len(commands) >= 4 => device_model = Service!Model
    /\ pending # 0 =>
         /\ Len(commands) = 3 => gradient = [batch |-> pending, model |-> Service!Model]
         /\ Len(commands) <= 2 => /\ device_model = Learned(Service!Model, pending)
                                  /\ device_metrics = pending
         /\ Len(commands) <= 1 => stream_training_metrics = pending
         /\ Len(commands) = 0 => stream_update_values = Learned(Service!Model, pending)
Phase6Inv ==
  calling /\ protocol = "phase6" /\ pending # 0 =>
    /\ Len(commands) <= 1 => device_model = Fresh(pending)
    /\ Len(commands) = 0 => stream_update_values = Fresh(pending)

DataInv == DataType /\ BufferInv /\ TrainingInv /\ Phase6Inv

(* The definitions of TrainingService as functions of a history. *)
ResetsOf(h) == {i \in DOMAIN h : h[i].kind = "reset"}
LastOf(h) == CHOOSE i \in ResetsOf(h) : \A j \in ResetsOf(h) : j <= i
SinceOf(h) == SubSeq(h, LastOf(h) + 1, Len(h))
VersionsOf(s) == [i \in DOMAIN s |-> s[i].version]
ModelOf(h) == [seed |-> h[LastOf(h)].seed, batches |-> VersionsOf(SinceOf(h))]

LEMMA ServiceModel ==
  /\ Service!Resets = ResetsOf(history) /\ Service!Model = ModelOf(history)
  /\ Service!Resets' = ResetsOf(history') /\ Service!Model' = ModelOf(history')
  BY DEF Service!Resets, Service!Model, Service!SinceReset, Service!LastReset, ResetsOf, ModelOf, SinceOf,
         LastOf, VersionsOf

(* The last of the resets. *)
LEMMA LastIs ==
  ASSUME NEW S, NEW h \in Seq(S), NEW r \in ResetsOf(h), \A i \in ResetsOf(h) : i <= r
  PROVE  LastOf(h) = r
  <1>1. ResetsOf(h) \subseteq Nat
    BY DEF ResetsOf
  <1>2. LastOf(h) \in ResetsOf(h) /\ \A j \in ResetsOf(h) : j <= LastOf(h)
    BY Zenon DEF LastOf
  <1>3. LastOf(h) <= r /\ r <= LastOf(h) /\ LastOf(h) \in Nat /\ r \in Nat
    BY <1>1, <1>2
  <1>. QED
    BY <1>3

LEMMA LastExists ==
  ASSUME NEW S, NEW h \in Seq(S), ResetsOf(h) # {}
  PROVE  LastOf(h) \in ResetsOf(h) /\ \A i \in ResetsOf(h) : i <= LastOf(h)
  <1> DEFINE n == Len(h)
             D == {d \in Nat : n - d \in ResetsOf(h)}
  <1>1. /\ n \in Nat /\ ResetsOf(h) \subseteq 1 .. n
    BY DEF ResetsOf
  <1>2. PICK r \in ResetsOf(h) : TRUE
    OBVIOUS
  <1>3. n - r \in Nat /\ n - (n - r) = r
    BY <1>1
  <1>4. D \in SUBSET Nat /\ D # {}
    BY <1>2, <1>3
  <1> HIDE DEF D
  <1>5. PICK d \in D : \A e \in D : d <= e
    BY <1>4, Least
  <1>6. n - d \in ResetsOf(h) /\ d \in Nat
    BY <1>4 DEF D
  <1>7. ASSUME NEW i \in ResetsOf(h) PROVE i <= n - d
    <2>1. i \in Nat /\ n - i \in Nat /\ n - (n - i) = i
      BY <1>1
    <2>2. n - i \in D
      BY <2>1 DEF D
    <2>3. d <= n - i
      BY <1>5, <2>2
    <2>. QED
      BY <1>1, <1>6, <2>1, <2>3
  <1>. QED
    BY <1>6, <1>7, Zenon DEF LastOf

(* A reset leaves a model without batches. *)
LEMMA ResetModel ==
  ASSUME NEW S, NEW h \in Seq(S), NEW e \in S, e.kind = "reset"
  PROVE  /\ ResetsOf(Append(h, e)) # {}
         /\ ModelOf(Append(h, e)) = [seed |-> e.seed, batches |-> <<>>]
  <1> DEFINE n == Len(h)
             g == Append(h, e)
  <1>1. n \in Nat /\ g \in Seq(S) /\ Len(g) = n + 1 /\ g[n + 1] = e /\ DOMAIN g = 1 .. n + 1
    OBVIOUS
  <1> HIDE DEF g
  <1>2. n + 1 \in ResetsOf(g) /\ \A i \in ResetsOf(g) : i <= n + 1
    BY <1>1 DEF ResetsOf
  <1>3. LastOf(g) = n + 1
    BY <1>1, <1>2, LastIs
  <1>4. SinceOf(g) = <<>>
    BY <1>1, <1>3 DEF SinceOf
  <1>5. VersionsOf(<<>>) = <<>>
    BY DEF VersionsOf
  <1>. QED
    BY <1>1, <1>2, <1>3, <1>4, <1>5 DEF ModelOf, g

(* An answer adds its batch. *)
LEMMA UpdateModel ==
  ASSUME NEW S, NEW h \in Seq(S), NEW e \in S, e.kind # "reset", ResetsOf(h) # {}
  PROVE  /\ ResetsOf(Append(h, e)) # {}
         /\ ModelOf(Append(h, e)) = Learned(ModelOf(h), e.version)
  <1> DEFINE n == Len(h)
             g == Append(h, e)
             l == LastOf(h)
             V == {x.version : x \in S}
  <1>1. /\ n \in Nat /\ g \in Seq(S) /\ Len(g) = n + 1 /\ g[n + 1] = e /\ DOMAIN g = 1 .. n + 1
        /\ \A i \in 1 .. n : g[i] = h[i]
    OBVIOUS
  <1>2. ResetsOf(g) = ResetsOf(h)
    BY <1>1 DEF ResetsOf
  <1>3. l \in ResetsOf(h) /\ \A i \in ResetsOf(h) : i <= l
    BY LastExists
  <1>4. l \in 1 .. n
    BY <1>3 DEF ResetsOf
  <1>5. LastOf(g) = l
    BY <1>1, <1>2, <1>3, LastIs
  <1>6. /\ SinceOf(h) \in Seq(S) /\ Len(SinceOf(h)) = n - l
        /\ \A i \in 1 .. n - l : SinceOf(h)[i] = h[l + i]
    BY <1>1, <1>4 DEF SinceOf
  <1>7. /\ SinceOf(g) \in Seq(S) /\ Len(SinceOf(g)) = n + 1 - l
        /\ \A i \in 1 .. n + 1 - l : SinceOf(g)[i] = g[l + i]
    <2> HIDE DEF g, l
    <2>. QED
      BY <1>1, <1>4, <1>5 DEF SinceOf
  <1>8. VersionsOf(SinceOf(g)) = Append(VersionsOf(SinceOf(h)), e.version)
    <2> DEFINE A == VersionsOf(SinceOf(h))
               B == VersionsOf(SinceOf(g))
    <2>1. \A x \in S : x.version \in V
      OBVIOUS
    <2> HIDE DEF V, g, l
    <2>2. n - l \in Nat /\ n + 1 - l = n - l + 1
      BY <1>1, <1>4
    <2>3. A \in Seq(V) /\ Len(A) = n - l /\ \A i \in 1 .. n - l : A[i] = SinceOf(h)[i].version
      BY <1>6, <2>1, <2>2 DEF VersionsOf
    <2>4. B \in Seq(V) /\ Len(B) = n + 1 - l /\ \A i \in 1 .. n + 1 - l : B[i] = SinceOf(g)[i].version
      BY <1>7, <2>1, <2>2 DEF VersionsOf
    <2> HIDE DEF A, B
    <2>5. ASSUME NEW i \in 1 .. n - l PROVE B[i] = A[i]
      <3>1. i \in 1 .. n + 1 - l /\ l + i \in 1 .. n
        BY <1>1, <1>4
      <3>2. B[i] = SinceOf(g)[i].version /\ SinceOf(g)[i] = g[l + i] /\ g[l + i] = h[l + i]
        BY <1>1, <1>7, <2>4, <3>1
      <3>3. A[i] = SinceOf(h)[i].version /\ SinceOf(h)[i] = h[l + i]
        BY <1>6, <2>3
      <3>. QED
        BY <3>2, <3>3
    <2>6. B[n + 1 - l] = e.version
      <3>1. n + 1 - l \in 1 .. n + 1 - l /\ l + (n + 1 - l) = n + 1
        BY <1>1, <1>4
      <3>. QED
        BY <1>1, <1>7, <2>4, <3>1
    <2>7. e.version \in V
      BY <2>1
    <2>8. B = Append(A, e.version)
      BY <2>2, <2>3, <2>4, <2>5, <2>6, <2>7
    <2>. QED
      BY <2>8 DEF A, B
  <1>9. g[l].seed = h[l].seed
    BY <1>1, <1>4
  <1>10. ModelOf(g) = [seed |-> h[l].seed, batches |-> Append(VersionsOf(SinceOf(h)), e.version)]
    <2> HIDE DEF g, l
    <2>. QED
      BY <1>5, <1>8, <1>9 DEF ModelOf
  <1>11. Learned(ModelOf(h), e.version)
           = [seed |-> h[l].seed, batches |-> Append(VersionsOf(SinceOf(h)), e.version)]
    <2> DEFINE m == ModelOf(h)
               b == VersionsOf(SinceOf(h))
               w == Append(b, e.version)
    <2>1. m = [seed |-> h[l].seed, batches |-> b]
      BY DEF ModelOf
    <2> HIDE DEF m, b
    <2>2. m.batches = b
      BY <2>1
    <2>3. Learned(m, e.version) = [m EXCEPT !.batches = w]
      BY <2>2, Zenon DEF Learned
    <2> HIDE DEF w
    <2>4. [m EXCEPT !.batches = w] = [seed |-> h[l].seed, batches |-> w]
      BY <2>1
    <2>. QED
      BY <2>3, <2>4 DEF m, b, w
  <1>. QED
    BY <1>2, <1>10, <1>11

LEMMA HistoryKept ==
  ASSUME UNCHANGED history
  PROVE  Service!Resets' = Service!Resets /\ Service!Model' = Service!Model
  BY ServiceModel

LEMMA DataInit == Init => DataInv
  <1> SUFFICES ASSUME Init PROVE DataInv
    OBVIOUS
  <1>1. InitialModel \in Trained
    BY DEF InitialModel, Trained
  <1>2. DataType
    <2>1. [batch |-> 0, model |-> InitialModel] \in [batch : Nat, model : Trained]
      BY <1>1
    <2>2. <<>> \in Seq(Entry)
      OBVIOUS
    <2>. QED
      BY <1>1, <2>1, <2>2 DEF Init, DataType
  <1>3. Service!Resets = {}
    BY DEF Init, Service!Resets
  <1>. QED
    BY <1>2, <1>3 DEF Init, DataInv, BufferInv, TrainingInv, Phase6Inv, calling

(* A step that leaves the data alone and the batch where it is. *)
LEMMA QuietData ==
  ASSUME DataInv, UNCHANGED <<history, device, readback, protocol, pending, next_version, stream_capacity_rows>>,
         has_configured_training_model' \in BOOLEAN,
         calling' => calling /\ mapped' \subseteq mapped /\ (pending # 0 => commands' = commands),
         life' \in {"selecting", "constructing"} => life \in {"selecting", "constructing"}
  PROVE  DataInv'
  <1>0. UNCHANGED <<batch, gradient, device_model, device_metrics, stream_update_values, stream_training_metrics>>
    BY DEF device, readback
  <1>1. Service!Resets' = Service!Resets /\ Service!Model' = Service!Model
    BY HistoryKept
  <1>2. DataType'
    BY <1>0 DEF DataInv, DataType
  <1>3. BufferInv'
    BY <1>0, <1>1 DEF DataInv, BufferInv
  <1>4. TrainingInv'
    BY <1>0, <1>1 DEF DataInv, TrainingInv, Learned
  <1>5. Phase6Inv'
    BY <1>0 DEF DataInv, Phase6Inv, Fresh
  <1>. QED
    BY <1>2, <1>3, <1>4, <1>5 DEF DataInv

(* Before the session is live there is no data, and after it nothing asks for it. *)
LEMMA OutsideData ==
  ASSUME SessionInv, DataInv, UNCHANGED <<history, device, readback, protocol, has_configured_training_model>>,
         \/ life' = "destroyed"
         \/ /\ life \in {"selecting", "constructing"}
            /\ UNCHANGED <<mapped, pending, stream_capacity_rows>>
  PROVE  DataInv'
  <1>0. UNCHANGED <<batch, gradient, device_model, device_metrics, stream_update_values, stream_training_metrics>>
    BY DEF device, readback
  <1>1. Service!Resets' = Service!Resets
    BY HistoryKept
  <1>2. DataType'
    BY <1>0 DEF DataInv, DataType
  <1>3. CASE life' = "destroyed"
    BY <1>2, <1>3 DEF DataInv, BufferInv, TrainingInv, Phase6Inv, calling
  <1>4. CASE life \in {"selecting", "constructing"} /\ UNCHANGED <<mapped, pending, stream_capacity_rows>>
    <2>1. mapped' = {} /\ pending' = 0 /\ stream_capacity_rows' = 0 /\ Service!Resets' = {}
      BY <1>1, <1>4 DEF SessionInv, LifeInv, Unborn, DataInv, BufferInv
    <2>. QED
      BY <1>2, <2>1 DEF DataInv, BufferInv, TrainingInv, Phase6Inv
  <1>. QED
    BY <1>3, <1>4

LEMMA MapData == ASSUME SessionInv, DataInv, NEW rows \in 1 .. MaxRows, MapBatch(rows) PROVE DataInv'
  <1> DEFINE seeded == [seed |-> has_configured_training_model, batches |-> <<>>]
             entry == [kind |-> "reset", seed |-> has_configured_training_model]
             grows == rows > stream_capacity_rows
  <1>0. /\ calling /\ life' = "live" /\ protocol \in {"training", "phase6"} /\ pending = 0 /\ commands = <<>>
        /\ UNCHANGED <<protocol, pending, next_version, commands, gradient, device_metrics,
                       stream_training_metrics, has_configured_training_model>>
        /\ MaxRows \in Nat /\ stream_capacity_rows \in Nat /\ next_version \in Nat
    BY SessionAssumption DEF MapBatch, SessionInv, LifeInv, calling, choice
  <1>1. PICK step \in (IF grows THEN 1 .. 9 ELSE {9}) \cup (IF protocol = "training" THEN {10} ELSE {}) \cup {11} :
          /\ thrown' = IF step = 11 THEN "no" ELSE "opencl"
          /\ IF grows /\ step > 7 THEN stream_update_values' = seeded ELSE UNCHANGED stream_update_values
          /\ IF grows /\ step > 8
               THEN /\ stream_capacity_rows' = rows
                    /\ device_model' = seeded
                    /\ history' = Append(history, [kind |-> "reset", seed |-> seeded.seed])
               ELSE UNCHANGED <<stream_capacity_rows, device_model, history>>
          /\ batch' = IF step = 11 THEN next_version ELSE batch
    BY Zenon DEF MapBatch, Outcome
  <1>2. seeded \in Trained /\ entry \in Entry /\ entry.kind = "reset"
        /\ entry.seed = has_configured_training_model /\ seeded.seed = has_configured_training_model
    BY DEF DataInv, DataType, Trained, Entry
  <1>3. history \in Seq(Entry) /\ Append(history, entry) \in Seq(Entry)
    BY <1>2 DEF DataInv, DataType
  <1> HIDE DEF seeded, entry
  <1>4. grows /\ step > 8 => history' = Append(history, entry)
    BY <1>1, <1>2 DEF entry
  <1>5. DataType'
    BY <1>0, <1>1, <1>2, <1>3, <1>4 DEF DataInv, DataType
  <1>6. CASE step # 11
    <2>1. ~calling' /\ life' = "live"
      BY <1>0, <1>1, <1>6 DEF calling
    <2>. QED
      BY <1>5, <2>1 DEF DataInv, BufferInv, TrainingInv, Phase6Inv
  <1>7. CASE step = 11 /\ grows
    <2>1. Service!Resets' # {} /\ Service!Model' = seeded
      <3>1. history' = Append(history, entry)
        BY <1>4, <1>7
      <3>2. /\ ResetsOf(Append(history, entry)) # {}
            /\ ModelOf(Append(history, entry)) = [seed |-> entry.seed, batches |-> <<>>]
        BY <1>2, <1>3, ResetModel
      <3>. QED
        BY <1>2, <3>1, <3>2, ServiceModel DEF seeded
    <2>2. device_model' = seeded /\ batch' = next_version /\ stream_capacity_rows' = rows /\ rows > 0
      BY <1>0, <1>1, <1>7
    <2>. QED
      BY <1>0, <1>5, <2>1, <2>2 DEF DataInv, BufferInv, TrainingInv, Phase6Inv, calling
  <1>8. CASE step = 11 /\ ~grows
    <2>1. UNCHANGED <<history, device_model, stream_capacity_rows>> /\ batch' = next_version
      BY <1>1, <1>8
    <2>2. stream_capacity_rows > 0 /\ Service!Resets # {}
      BY <1>0, <1>8 DEF DataInv, BufferInv
    <2>3. Service!Resets' = Service!Resets /\ Service!Model' = Service!Model
      BY <2>1, HistoryKept
    <2>. QED
      BY <1>0, <1>5, <2>1, <2>2, <2>3 DEF DataInv, BufferInv, TrainingInv, Phase6Inv, calling
  <1>. QED
    BY <1>6, <1>7, <1>8

LEMMA SubmitData == ASSUME SessionInv, DataInv, SubmitBatch PROVE DataInv'
  <1> DEFINE all == Submission(protocol)
  <1>0. /\ calling /\ life' = "live" /\ protocol \in {"training", "phase6"} /\ mapped # {} /\ pending = 0
        /\ commands = <<>> /\ next_version \in Nat \ {0} /\ UNCHANGED <<history, device, readback>>
        /\ UNCHANGED <<protocol, stream_capacity_rows, next_version, has_configured_training_model>>
        /\ UNCHANGED <<batch, gradient, device_model, device_metrics, stream_update_values,
                       stream_training_metrics>>
    BY DEF SubmitBatch, SessionInv, LifeInv, MapInv, calling, choice, device, readback
  <1>1. all \in Seq(CommandNames) /\ Len(all) = (IF protocol = "training" THEN 6 ELSE 3)
    BY <1>0, Submissions
  <1>2. PICK done \in 0 .. Len(all), flushed \in BOOLEAN :
          /\ flushed => done = Len(all)
          /\ thrown' = (IF flushed THEN "no" ELSE "opencl")
          /\ commands' = commands \o SubSeq(all, 1, done)
          /\ mapped' = IF done >= (IF protocol = "training" THEN 2 ELSE 1) THEN {} ELSE mapped
          /\ pending' = IF flushed THEN next_version ELSE 0
    BY DEF SubmitBatch, pointers_after, Outcome
  <1>3. DataType'
    BY <1>0 DEF DataInv, DataType
  <1>4. Service!Resets' = Service!Resets /\ Service!Model' = Service!Model
    BY <1>0, HistoryKept
  <1>5. CASE ~flushed
    <2>1. ~calling'
      BY <1>2, <1>5 DEF calling
    <2>. QED
      BY <1>0, <1>3, <2>1 DEF DataInv, BufferInv, TrainingInv, Phase6Inv
  <1>6. CASE flushed
    <2>1. Len(commands') = Len(all)
      <3>1. SubSeq(all, 1, done) = all
        BY <1>1, <1>2, <1>6, FirstPart
      <3> HIDE DEF all
      <3>2. commands' = all
        BY <1>0, <1>1, <1>2, <3>1
      <3>. QED
        BY <3>2
    <2>2. Len(commands') = (IF protocol = "training" THEN 6 ELSE 3)
      BY <1>1, <2>1
    <2>3. mapped' = {} /\ pending' = next_version
      BY <1>1, <1>2, <1>6
    <2>4. stream_capacity_rows > 0 /\ batch = next_version /\ Service!Resets # {}
      BY <1>0 DEF DataInv, BufferInv
    <2>5. BufferInv'
      BY <1>0, <1>4, <2>3, <2>4 DEF BufferInv
    <2>6. protocol = "training" => device_model = Service!Model
      BY <1>0, <2>4 DEF DataInv, TrainingInv
    <2>7. TrainingInv' /\ Phase6Inv'
      BY <1>0, <1>4, <2>2, <2>6 DEF TrainingInv, Phase6Inv
    <2>. QED
      BY <1>3, <2>5, <2>7 DEF DataInv
  <1>. QED
    BY <1>5, <1>6

(* What the queue still holds tells how far the answer has come. *)
LEMMA NextCommand ==
  ASSUME SessionInv, calling, pending # 0, commands # <<>>
  PROVE  /\ protocol \in {"training", "phase6"} /\ Len(commands) \in Nat \ {0}
         /\ protocol = "training" =>
              /\ Len(commands) <= 6
              /\ Len(commands) = 6 => commands[1] = "unmap_features"
              /\ Len(commands) = 5 => commands[1] = "unmap_labels"
              /\ Len(commands) = 4 => commands[1] = "rows"
              /\ Len(commands) = 3 => commands[1] = "reduce"
              /\ Len(commands) = 2 => commands[1] = "read_metrics"
              /\ Len(commands) = 1 => commands[1] = "read_model"
         /\ protocol = "phase6" =>
              /\ Len(commands) <= 3
              /\ Len(commands) = 3 => commands[1] = "unmap_features"
              /\ Len(commands) = 2 => commands[1] = "phase6"
              /\ Len(commands) = 1 => commands[1] = "read_model"
  <1>1. /\ protocol \in {"training", "phase6"} /\ commands \in Seq(CommandNames)
        /\ Len(commands) \in Nat \ {0} /\ 1 \in 1 .. Len(commands)
        /\ RestOf(protocol)
    BY DEF SessionInv, LifeInv, QueueInv
  <1>2. /\ Len(commands) <= Len(Submission(protocol))
        /\ commands[1] = Submission(protocol)[Len(Submission(protocol)) - Len(commands) + 1]
    BY <1>1 DEF RestOf
  <1>3. CASE protocol = "training"
    <2> DEFINE all == Submission("training")
    <2>1. all = <<"unmap_features", "unmap_labels", "rows", "reduce", "read_metrics", "read_model">>
      BY Submissions
    <2>2. /\ Len(all) = 6 /\ all[1] = "unmap_features" /\ all[2] = "unmap_labels" /\ all[3] = "rows"
          /\ all[4] = "reduce" /\ all[5] = "read_metrics" /\ all[6] = "read_model"
      BY <2>1
    <2>3. Len(commands) <= Len(all) /\ commands[1] = all[Len(all) - Len(commands) + 1]
      BY <1>2, <1>3
    <2> HIDE DEF all
    <2>4. Len(commands) \in Nat /\ Len(commands) <= 6
      BY <1>1, <2>2, <2>3
    <2>5. commands[1] = all[7 - Len(commands)]
      BY <2>2, <2>3, <2>4
    <2>6. /\ Len(commands) = 1 => commands[1] = all[6]
          /\ Len(commands) = 2 => commands[1] = all[5]
          /\ Len(commands) = 3 => commands[1] = all[4]
          /\ Len(commands) = 4 => commands[1] = all[3]
          /\ Len(commands) = 5 => commands[1] = all[2]
          /\ Len(commands) = 6 => commands[1] = all[1]
      <3> DEFINE k == Len(commands)
      <3>1. k \in Nat /\ commands[1] = all[7 - k]
        BY <2>4, <2>5
      <3> HIDE DEF k
      <3>2. /\ k = 1 => commands[1] = all[6]
            /\ k = 2 => commands[1] = all[5]
            /\ k = 3 => commands[1] = all[4]
            /\ k = 4 => commands[1] = all[3]
            /\ k = 5 => commands[1] = all[2]
            /\ k = 6 => commands[1] = all[1]
        BY <3>1
      <3>. QED
        BY <3>2 DEF k
    <2>7. /\ Len(commands) = 1 => commands[1] = "read_model"
          /\ Len(commands) = 2 => commands[1] = "read_metrics"
          /\ Len(commands) = 3 => commands[1] = "reduce"
          /\ Len(commands) = 4 => commands[1] = "rows"
          /\ Len(commands) = 5 => commands[1] = "unmap_labels"
          /\ Len(commands) = 6 => commands[1] = "unmap_features"
      BY <2>2, <2>6
    <2>8. protocol # "phase6"
      BY <1>3
    <2>9. Len(commands) <= 6
      BY <2>4
    <2>. QED
      BY <1>1, <2>7, <2>8, <2>9
  <1>4. CASE protocol = "phase6"
    <2> DEFINE all == Submission("phase6")
    <2>1. all = <<"unmap_features", "phase6", "read_model">>
      BY Submissions
    <2>2. Len(all) = 3 /\ all[1] = "unmap_features" /\ all[2] = "phase6" /\ all[3] = "read_model"
      BY <2>1
    <2>3. Len(commands) <= Len(all) /\ commands[1] = all[Len(all) - Len(commands) + 1]
      BY <1>2, <1>4
    <2> HIDE DEF all
    <2>4. Len(commands) \in Nat /\ Len(commands) <= 3
      BY <1>1, <2>2, <2>3
    <2>5. commands[1] = all[4 - Len(commands)]
      BY <2>2, <2>3, <2>4
    <2>6. /\ Len(commands) = 1 => commands[1] = all[3]
          /\ Len(commands) = 2 => commands[1] = all[2]
          /\ Len(commands) = 3 => commands[1] = all[1]
      <3> DEFINE k == Len(commands)
      <3>1. k \in Nat /\ commands[1] = all[4 - k]
        BY <2>4, <2>5
      <3> HIDE DEF k
      <3>2. /\ k = 1 => commands[1] = all[3]
            /\ k = 2 => commands[1] = all[2]
            /\ k = 3 => commands[1] = all[1]
        BY <3>1
      <3>. QED
        BY <3>2 DEF k
    <2>7. /\ Len(commands) = 1 => commands[1] = "read_model"
          /\ Len(commands) = 2 => commands[1] = "phase6"
          /\ Len(commands) = 3 => commands[1] = "unmap_features"
      BY <2>2, <2>6
    <2>8. protocol # "training"
      BY <1>4
    <2>9. Len(commands) <= 3
      BY <2>4
    <2>. QED
      BY <1>1, <2>7, <2>8, <2>9
  <1>. QED
    BY <1>1, <1>3, <1>4

LEMMA DeviceData == ASSUME SessionInv, DataInv, DeviceStep PROVE DataInv'
  <1> DEFINE c == commands[1]
             k == Len(commands)
             M == Service!Model
             learned == Learned(gradient.model, gradient.batch)
  <1>0. /\ UNCHANGED <<protocol, life, thrown, mapped, pending, next_version, stream_capacity_rows, batch, history,
                       has_configured_training_model>>
        /\ commands \in Seq(CommandNames)
    BY DEF DeviceStep, SessionInv, LifeInv, choice
  <1>1. commands # <<>> /\ commands' = Tail(commands)
    BY RunsTheFirst
  <1>2. k \in Nat \ {0} /\ Len(commands') = k - 1
    BY <1>0, <1>1
  <1>3. /\ gradient' = IF c = "rows" THEN [batch |-> batch, model |-> device_model] ELSE gradient
        /\ device_model' = CASE c = "reduce" -> learned
                             [] c = "phase6" -> Fresh(batch)
                             [] OTHER -> device_model
        /\ device_metrics' = IF c = "reduce" THEN gradient.batch ELSE device_metrics
        /\ stream_training_metrics' = IF c = "read_metrics" THEN device_metrics ELSE stream_training_metrics
        /\ stream_update_values' = IF c = "read_model" THEN device_model ELSE stream_update_values
    <2>1. PICK i \in runnable : RunCommand(i)
      BY DEF DeviceStep
    <2>2. i = 1
      BY <2>1 DEF runnable
    <2>. QED
      BY <2>1, <2>2, Zenon DEF RunCommand, Learned, Fresh
  <1>4. learned \in Trained /\ Fresh(batch) \in Trained
    <2>1. gradient.model \in Trained /\ gradient.batch \in Nat /\ batch \in Nat
      BY DEF DataInv, DataType
    <2>2. Append(gradient.model.batches, gradient.batch) \in Seq(Nat) /\ <<batch>> \in Seq(Nat)
      BY <2>1 DEF Trained
    <2>. QED
      BY <2>1, <2>2 DEF Trained, Learned, Fresh
  <1>5. Service!Resets' = Service!Resets /\ Service!Model' = M
    BY <1>0, HistoryKept
  <1> HIDE DEF learned, c, k, M
  <1>6. DataType'
    <2>1. gradient' \in [batch : Nat, model : Trained]
      BY <1>3 DEF DataInv, DataType
    <2>2. device_model' \in Trained
      BY <1>3, <1>4 DEF DataInv, DataType
    <2>. QED
      BY <1>0, <1>3, <2>1, <2>2 DEF DataInv, DataType
  <1>7. BufferInv'
    BY <1>0, <1>5 DEF DataInv, BufferInv, calling
  <1>8. CASE ~calling \/ pending = 0 \/ protocol = "smoke"
    <2>1. ~calling \/ protocol = "smoke"
      BY <1>1, <1>8 DEF SessionInv, QueueInv
    <2>2. TrainingInv' /\ Phase6Inv'
      BY <1>0, <2>1 DEF TrainingInv, Phase6Inv, calling
    <2>. QED
      BY <1>6, <1>7, <2>2 DEF DataInv
  <1>9. CASE calling /\ pending # 0
    <2>1. /\ protocol \in {"training", "phase6"}
          /\ protocol = "training" =>
              /\ k <= 6
              /\ k = 6 => c = "unmap_features"
              /\ k = 5 => c = "unmap_labels"
              /\ k = 4 => c = "rows"
              /\ k = 3 => c = "reduce"
              /\ k = 2 => c = "read_metrics"
              /\ k = 1 => c = "read_model"
          /\ protocol = "phase6" =>
              /\ k <= 3
              /\ k = 3 => c = "unmap_features"
              /\ k = 2 => c = "phase6"
              /\ k = 1 => c = "read_model"
      BY <1>1, <1>9, NextCommand DEF k, c
    <2>2. Service!Resets # {} /\ batch = pending
      BY <1>9 DEF DataInv, BufferInv
    <2>3. CASE protocol = "training"
      <3>1. /\ k >= 4 => device_model = M
            /\ k = 3 => gradient = [batch |-> pending, model |-> M]
            /\ k <= 2 => device_model = Learned(M, pending) /\ device_metrics = pending
            /\ k <= 1 => stream_training_metrics = pending
        BY <1>2, <1>9, <2>2, <2>3 DEF DataInv, TrainingInv, k, M
      <3>2. k >= 5 => device_model' = M
        BY <1>2, <1>3, <2>1, <2>3, <3>1
      <3>3. k = 4 => gradient' = [batch |-> pending, model |-> M]
        BY <1>3, <2>1, <2>2, <2>3, <3>1
      <3>4. k <= 3 => device_model' = Learned(M, pending) /\ device_metrics' = pending
        <4>1. CASE k = 3
          <5>1. c = "reduce" /\ gradient.batch = pending /\ gradient.model = M
            BY <2>1, <2>3, <3>1, <4>1
          <5>. QED
            BY <1>3, <5>1 DEF learned
        <4>2. CASE k <= 2
          BY <1>2, <1>3, <2>1, <2>3, <3>1, <4>2
        <4>. QED
          BY <1>2, <4>1, <4>2
      <3>5. k <= 2 => stream_training_metrics' = pending
        BY <1>2, <1>3, <2>1, <2>3, <3>1
      <3>6. k = 1 => stream_update_values' = Learned(M, pending)
        BY <1>3, <2>1, <2>3, <3>1
      <3>7. TrainingInv'
        BY <1>0, <1>2, <1>5, <1>9, <2>3, <3>2, <3>3, <3>4, <3>5, <3>6 DEF TrainingInv, calling
      <3>8. Phase6Inv'
        BY <1>0, <2>3 DEF Phase6Inv
      <3>. QED
        BY <1>6, <1>7, <3>7, <3>8 DEF DataInv
    <2>4. CASE protocol = "phase6"
      <3>1. k <= 1 => device_model = Fresh(pending)
        BY <1>9, <2>4 DEF DataInv, Phase6Inv, k
      <3>2. k <= 2 => device_model' = Fresh(pending)
        BY <1>2, <1>3, <2>1, <2>2, <2>4, <3>1
      <3>3. k = 1 => stream_update_values' = Fresh(pending)
        BY <1>3, <2>1, <2>4, <3>1
      <3>4. Phase6Inv'
        BY <1>0, <1>2, <3>2, <3>3 DEF Phase6Inv
      <3>5. TrainingInv'
        BY <1>0, <2>4 DEF TrainingInv
      <3>. QED
        BY <1>6, <1>7, <3>4, <3>5 DEF DataInv
    <2>. QED
      BY <2>1, <2>3, <2>4
  <1>. QED
    BY <1>8, <1>9

(* The answer of a poll. *)
LEMMA PollAnswers ==
  ASSUME SessionInv, DataInv, PollUpdate
  PROVE  /\ protocol \in {"training", "phase6"} /\ commands = <<>> /\ Service!Resets # {}
         /\ pending \in Nat \ {0} /\ device_model = stream_update_values
         /\ stream_update_values = IF protocol = "training" THEN Learned(Service!Model, pending)
                                                            ELSE Fresh(pending)
         /\ protocol = "training" => stream_training_metrics = pending
         /\ history' = Append(history, [kind |-> "update", version |-> pending,
                                        model |-> stream_update_values,
                                        metrics |-> IF protocol = "training" THEN pending ELSE 0])
  <1>0. /\ calling /\ pending # 0 /\ "read_model" \notin ToSet(commands) /\ LifeInv
        /\ protocol \in {"training", "phase6"} /\ pending \in Nat
    BY DEF PollUpdate, SessionInv, LifeInv, calling
  <1>1. commands = <<>>
    BY <1>0, NothingLeft, LastCommand DEF SessionInv, QueueInv
  <1>2. Len(commands) = 0
    BY <1>1
  <1>3. Service!Resets # {}
    BY <1>0 DEF DataInv, BufferInv
  <1>4. protocol = "training" =>
          /\ stream_update_values = Learned(Service!Model, pending)
          /\ device_model = Learned(Service!Model, pending)
          /\ stream_training_metrics = pending
    BY <1>0, <1>2, <1>3 DEF DataInv, TrainingInv
  <1>5. protocol = "phase6" => stream_update_values = Fresh(pending) /\ device_model = Fresh(pending)
    BY <1>0, <1>2 DEF DataInv, Phase6Inv
  <1>6. history' = Append(history, [kind |-> "update", version |-> pending,
                                    model |-> stream_update_values,
                                    metrics |-> IF protocol = "training" THEN pending ELSE 0])
    BY <1>4, Zenon DEF PollUpdate
  <1>. QED
    BY <1>0, <1>1, <1>3, <1>4, <1>5, <1>6

LEMMA PollData == ASSUME SessionInv, DataInv, PollUpdate PROVE DataInv'
  <1> DEFINE e == [kind |-> "update", version |-> pending, model |-> stream_update_values,
                   metrics |-> IF protocol = "training" THEN pending ELSE 0]
  <1>0. /\ calling /\ life' = "live" /\ pending' = 0
        /\ UNCHANGED <<protocol, mapped, stream_capacity_rows, has_configured_training_model, batch, gradient,
                       device_model, device_metrics, stream_update_values, stream_training_metrics>>
    BY DEF PollUpdate, calling, choice, device, readback
  <1>1. /\ Service!Resets # {} /\ pending \in Nat /\ history' = Append(history, e)
        /\ protocol = "training" => device_model = Learned(Service!Model, pending)
    BY PollAnswers
  <1>2. e \in Entry /\ e.kind # "reset" /\ e.version = pending
    BY <1>1 DEF Entry, DataInv, DataType
  <1> HIDE DEF e
  <1>3. history \in Seq(Entry) /\ history' \in Seq(Entry)
    BY <1>1, <1>2 DEF DataInv, DataType
  <1>4. Service!Resets' # {} /\ Service!Model' = Learned(Service!Model, pending)
    <2>1. /\ ResetsOf(Append(history, e)) # {}
          /\ ModelOf(Append(history, e)) = Learned(ModelOf(history), e.version)
      BY <1>1, <1>2, <1>3, UpdateModel, ServiceModel
    <2>. QED
      BY <1>1, <1>2, <2>1, ServiceModel
  <1>5. DataType'
    BY <1>0, <1>3 DEF DataInv, DataType
  <1>6. mapped = {}
    BY <1>0, PollUpdate DEF PollUpdate, SessionInv, MapInv
  <1>7. BufferInv'
    BY <1>0, <1>4, <1>6 DEF BufferInv
  <1>8. TrainingInv' /\ Phase6Inv'
    BY <1>0, <1>1, <1>4 DEF TrainingInv, Phase6Inv
  <1>. QED
    BY <1>5, <1>7, <1>8 DEF DataInv

LEMMA DataInductive == SessionInv /\ DataInv /\ [Next]_vars => DataInv'
  <1> SUFFICES ASSUME SessionInv, DataInv, [Next]_vars PROVE DataInv'
    OBVIOUS
  <1>0. has_configured_training_model \in BOOLEAN
    BY DEF DataInv, DataType
  <1>1. CASE SelectGpu \/ HostChanges \/ Construct
    <2>1. /\ life \in {"selecting", "constructing"} /\ UNCHANGED <<mapped, pending, stream_capacity_rows>>
          /\ UNCHANGED <<history, device, readback, protocol, has_configured_training_model>>
      BY <1>1 DEF SelectGpu, HostChanges, Construct, stream
    <2>. QED
      BY <2>1, OutsideData
  <1>2. CASE SetTrainingModel \/ PollFails \/ RefusedCall
    BY <1>0, <1>2, QuietData
       DEF SetTrainingModel, PollFails, RefusedCall, Outcome, stream, calling, choice
  <1>3. CASE DiscardBatch
    <2>1. /\ calling /\ life' = "live" /\ mapped' \subseteq mapped
          /\ UNCHANGED <<history, device, readback, protocol, pending, next_version, stream_capacity_rows,
                         has_configured_training_model>>
      BY <1>3 DEF DiscardBatch, choice, calling
    <2>2. pending = 0
      BY <1>3 DEF DiscardBatch, SessionInv, MapInv
    <2>. QED
      BY <1>0, <2>1, <2>2, QuietData
  <1>4. CASE SmokeSubmit \/ SmokeWait
    <2>1. /\ calling /\ life' = "live" /\ mapped' = mapped /\ pending = 0
          /\ UNCHANGED <<history, device, readback, protocol, pending, next_version, stream_capacity_rows,
                         has_configured_training_model>>
      BY <1>4 DEF SmokeSubmit, SmokeWait, choice, calling, stream, SessionInv, LifeInv
    <2>. QED
      BY <1>0, <2>1, QuietData
  <1>5. CASE Destroy
    BY <1>5, OutsideData DEF Destroy, choice
  <1>6. CASE UNCHANGED vars
    BY <1>0, <1>6, QuietData DEF vars, choice, stream, calling
  <1>. QED
    BY <1>1, <1>2, <1>3, <1>4, <1>5, <1>6, MapData, SubmitData, PollData, DeviceData DEF Next, Done

LEMMA DataInvariant == Spec => []DataInv
  BY SessionInvariant, DataInit, DataInductive, PTL DEF Spec

LEMMA StepImplements ==
  SessionInv /\ DataInv /\ [Next]_vars => [Service!Next]_(Service!vars)
  <1> SUFFICES ASSUME SessionInv, DataInv, [Next]_vars PROVE [Service!Next]_(Service!vars)
    OBVIOUS
  <1>1. CASE SetTrainingModel
    BY <1>1 DEF SetTrainingModel, Service!Next, Service!Configure, stream, choice
  <1>2. ASSUME NEW rows \in 1 .. MaxRows, MapBatch(rows) PROVE [Service!Next]_(Service!vars)
    <2>1. /\ pending = 0 /\ UNCHANGED <<protocol, pending, has_configured_training_model>>
          /\ \/ UNCHANGED history
             \/ history' = Append(history, [kind |-> "reset", seed |-> has_configured_training_model])
      BY <1>2 DEF MapBatch, choice
    <2>. QED
      BY <2>1 DEF Service!Next, Service!Reset, Service!vars
  <1>3. CASE SubmitBatch
    <2>1. /\ calling /\ mapped # {} /\ pending = 0 /\ next_version \in Nat \ {0}
          /\ pending' \in {0, next_version}
          /\ UNCHANGED <<protocol, has_configured_training_model, history>>
      BY <1>3 DEF SubmitBatch, choice, SessionInv, LifeInv
    <2>2. Service!Resets # {}
      BY <2>1 DEF DataInv, BufferInv
    <2>. QED
      BY <2>1, <2>2 DEF Service!Next, Service!Submit, Service!vars
  <1>4. CASE PollUpdate
    <2>1. pending # 0 /\ pending' = 0 /\ UNCHANGED <<protocol, has_configured_training_model>>
      BY <1>4 DEF PollUpdate, choice
    <2>2. protocol \in {"training", "phase6"} /\ stream_update_values = Service!ModelAfter(pending)
      BY <1>4, PollAnswers DEF Service!ModelAfter, Learned, Fresh
    <2>3. history' = Append(history, [kind |-> "update", version |-> pending,
                                      model |-> Service!ModelAfter(pending),
                                      metrics |-> IF protocol # "phase6" THEN pending ELSE 0])
      BY <1>4, <2>2, PollAnswers
    <2>. QED
      BY <2>1, <2>3 DEF Service!Next, Service!Answer
  <1>5. CASE Destroy
    BY <1>5 DEF Destroy, choice, Service!Next, Service!Abandon
  <1>6. CASE \/ SelectGpu \/ HostChanges \/ Construct \/ PollFails \/ DiscardBatch \/ RefusedCall
             \/ SmokeSubmit \/ SmokeWait \/ DeviceStep \/ UNCHANGED vars
    <2>1. UNCHANGED <<protocol, pending, has_configured_training_model, history>>
      BY <1>6 DEF SelectGpu, HostChanges, Construct, PollFails, DiscardBatch, RefusedCall, SmokeSubmit,
                  SmokeWait, DeviceStep, vars, choice, stream
    <2>. QED
      BY <2>1 DEF Service!vars
  <1>. QED
    BY <1>1, <1>2, <1>3, <1>4, <1>5, <1>6 DEF Next, Done

(* For every schedule of the device, every batch size and every failure,    *)
(* the answers a client polls are those of the service that trains one      *)
(* batch after the other: the model of all batches since the last reset,    *)
(* and the metrics of the batch the answer is for.                          *)
THEOREM SessionImplementsService == Spec => ImplementsService
  <1>1. Init => Service!Init
    BY DEF Init, Service!Init
  <1>. QED
    BY <1>1, StepImplements, SessionInvariant, DataInvariant, PTL DEF Spec, ImplementsService, Service!Spec
=============================================================================
