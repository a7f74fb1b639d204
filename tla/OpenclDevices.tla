---------------------------- MODULE OpenclDevices ----------------------------
(***************************************************************************)
(* The choice of a GPU (src/app/opencl_devices.cpp) and the second look-up  *)
(* of what was chosen (find_device_id in src/gpu/gpu_model.cpp).  A host is *)
(* the sequence of its platforms, a platform the sequence of its devices.   *)
(* Of a device's name only the requested parts that it contains matter.     *)
(***************************************************************************)
EXTENDS Integers, Sequences, FiniteSets

CONSTANT MaxDevices       \* no platform lists more devices

NoIndex == -1             \* an empty gpu_index
NoName == "none"          \* an empty gpu_name
NoDevice == <<0, 0>>
SelectionError == <<0, -1>>   \* OpenclSelectionError is thrown
Unavailable == <<0, -2>>      \* the selected device is no longer available

(* platform_index and device_index of every device, in discovery order. *)
Positions(host) ==
  {at \in (DOMAIN host) \X (1 .. MaxDevices) : at[2] \in DOMAIN host[at[1]]}
device_at(host, at) == host[at[1]][at[2]]
discovered_before(a, b) == a[1] < b[1] \/ (a[1] = b[1] /\ a[2] < b[2])

(* GPUs are numbered across all platforms; other devices have no number. *)
gpus(host) == {at \in Positions(host) : device_at(host, at).gpu}
gpu_index(host, at) == Cardinality({g \in gpus(host) : discovered_before(g, at)})

(* select_opencl_gpu(): by index, else by name, else the first. *)
requested_gpus(host, index, name) ==
  {g \in gpus(host) :
     CASE index # NoIndex -> gpu_index(host, g) = index
       [] index = NoIndex /\ name # NoName -> name \in device_at(host, g).contains
       [] OTHER -> gpu_index(host, g) = 0}

select_opencl_gpu(host, index, name) ==
  IF Cardinality(requested_gpus(host, index, name)) = 1
    THEN CHOOSE g \in requested_gpus(host, index, name) : TRUE
    ELSE SelectionError

(* A mistake: the device number is taken for a number among GPUs. *)
find_gpu_by_number(host, selected) ==
  IF \E at \in gpus(host) : gpu_index(host, at) = selected[2] - 1
    THEN CHOOSE at \in gpus(host) : gpu_index(host, at) = selected[2] - 1
    ELSE Unavailable

(* find_device_id(): the platforms and devices are listed once more. *)
find_device_id(host, selected) ==
  IF selected \in Positions(host) THEN selected ELSE Unavailable
=============================================================================
