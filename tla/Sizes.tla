------------------------------- MODULE Sizes --------------------------------
(***************************************************************************)
(* How src/src/hijack_call.c computes what a call asks for and what it     *)
(* tells the application about the limit: size_t arithmetic modulo SizeMod.*)
(*                                                                         *)
(* One application reports and allocates; in between, the usage moves with *)
(* the calls of the other processes, and so may GPU_MEM_LIMIT, which is    *)
(* read from the environment on every call.                                *)
(***************************************************************************)
EXTENDS Integers

CONSTANTS
  SizeMod,   \* size_t arithmetic is modulo SizeMod
  Requests,  \* the allocation calls that the application makes
  Usages,    \* what gmem_used may return
  Texts,     \* the numbers that GPU_MEM_LIMIT may spell, or NULL if not set
  Device,    \* the memory of the device
  NULL

Bytes == 0..(SizeMod - 1)

(* The calls, with the fields of their descriptors that matter; the others *)
(* of hijack_call.c, cuMemAllocManaged and the _v2, do as these do.        *)
Formats == {"INT8", "INT16", "HALF", "INT32", "FLOAT", "OTHER"}
Linear  == [fn : {"cuMemAlloc"}, bytes : Bytes]
Pitched == [fn : {"cuMemAllocPitch", "cuMemAllocPitch_v2"},
            width : Bytes, height : Bytes, element : Bytes]
Flat    == [fn : {"cuArrayCreate"}, format : Formats, channels : Bytes,
            width : Bytes, height : Bytes]
Deep    == [fn : {"cuArray3DCreate", "cuMipmappedArrayCreate"}, format : Formats,
            channels : Bytes, width : Bytes, height : Bytes, depth : Bytes]

ASSUME SizesAssumption ==
  /\ SizeMod \in Nat \ {0}
  /\ NULL \notin Linear \cup Pitched \cup Flat \cup Deep
  /\ NULL \notin {"granted", "refused", "fault"}
  /\ \A r \in Requests :
       r \in Linear \/ r \in Pitched \/ r \in Flat \/ r \in Deep
  /\ Usages \subseteq Bytes /\ Device \in Bytes
  /\ Texts \subseteq Int \cup {NULL} /\ NULL \notin Int

(***************************************************************************)
(* Request sizes                                                           *)
(***************************************************************************)
(* ROUND_UP; a base of 0 divides by zero.                                  *)
RoundUpM(n, base) == (n + base - (n % base)) % SizeMod
RoundUp(n, base) ==
  IF n % base # 0 THEN (n + base - (n % base)) % SizeMod ELSE n

(* get_array_base_size: bits per channel.                                  *)
BaseSizeM(format) ==
  CASE format = "INT8" -> 1 [] format \in {"INT16", "HALF"} -> 2 [] OTHER -> 4
BaseSize(format) ==
  CASE format = "INT8" -> 8 [] format \in {"INT16", "HALF"} -> 16 [] OTHER -> 32

(* cuArrayCreate_helper and cuArray3DCreate_helper are the same product.   *)
Plane(r) == BaseSize(r.format) * r.channels * r.height * r.width

RequestSize(r) ==
  CASE r \in Linear  -> r.bytes
    [] r \in Pitched -> RoundUp((r.width * r.height) % SizeMod, r.element)
    [] r \in Flat    -> Plane(r) % SizeMod
    [] r \in Deep    ->
         (Plane(r) * (IF r.fn = "cuMipmappedArrayCreate" THEN r.depth ELSE 1)) % SizeMod

DividesByZero(r) == r \in Pitched /\ r.element = 0

(***************************************************************************)
(* The limit and the reports                                               *)
(***************************************************************************)
(* strtoul: 0 for nothing, the greatest size_t for what is out of range,   *)
(* and the complement of a negative number.                                *)
LimitOf(text) ==
  CASE text = NULL -> 0
    [] text # NULL /\ text \notin (1 - SizeMod)..(SizeMod - 1) -> SizeMod - 1
    [] OTHER -> text % SizeMod

Refused(seen, size, limit) == (seen + size) % SizeMod > limit

(* cuDeviceTotalMem and cuMemGetInfo.                                      *)
TotalMemM(limit, bytes) == IF limit > bytes THEN limit ELSE bytes
TotalMem(limit, bytes) == IF limit < bytes THEN limit ELSE bytes
FreeM(seen, limit) == (limit - seen) % SizeMod
Free(seen, limit)  == IF seen > limit THEN 0 ELSE limit - seen

(***************************************************************************)
(* The application                                                         *)
(***************************************************************************)
VARIABLES
  used,      \* what gmem_used returns
  env,       \* GPU_MEM_LIMIT
  info,      \* the last report: usage then, free, total and device memory
  call,      \* the allocation call, NULL before and between
  verdict    \* what came of it

vars == <<used, env, info, call, verdict>>

Limit == LimitOf(env)

Init ==
  /\ used \in Usages /\ env \in Texts
  /\ info = NULL /\ call = NULL /\ verdict = NULL

(* cuMemGetInfo and cuDeviceTotalMem, one after the other.                 *)
Report ==
  /\ call = NULL
  /\ info' = [used |-> used, free |-> Free(used, Limit), total |-> Limit,
              device |-> TotalMem(Limit, Device)]
  /\ UNCHANGED <<used, env, call, verdict>>

(* The usage check of an allocation call; cuMemAllocPitch takes used as 0. *)
Allocate(r) ==
  LET seen == IF r.fn = "cuMemAllocPitch" THEN 0 ELSE used IN
  /\ call = NULL
  /\ call' = r
  /\ verdict' = IF DividesByZero(r) THEN "fault"
                ELSE IF Refused(seen, RequestSize(r), Limit) THEN "refused" ELSE "granted"
  /\ UNCHANGED <<used, env, info>>

Return ==
  /\ call # NULL /\ verdict # "fault"
  /\ call' = NULL /\ verdict' = NULL
  /\ UNCHANGED <<used, env, info>>

(* Other processes allocate, free or end; somebody calls setenv.           *)
OthersMove ==
  /\ call = NULL
  /\ used' \in Usages
  /\ UNCHANGED <<env, info, call, verdict>>
SetEnv ==
  /\ call = NULL
  /\ env' \in Texts
  /\ UNCHANGED <<used, info, call, verdict>>

Next == Report \/ (\E r \in Requests : Allocate(r)) \/ Return \/ OthersMove \/ SetEnv
Spec == Init /\ [][Next]_vars

(***************************************************************************)
(* What the calls take from the driver                                     *)
(***************************************************************************)
AtLeast1(n) == IF n = 0 THEN 1 ELSE n

(* The driver may pad rows, and refuses OTHER formats.                     *)
ElementBytes(format) ==
  CASE format = "INT8" -> 1 [] format \in {"INT16", "HALF"} -> 2
    [] format \in {"INT32", "FLOAT"} -> 4 [] OTHER -> 0

(* The levels of a mipmap take together less than twice the first.         *)
Layers(r) == AtLeast1(r.depth) * (IF r.fn = "cuMipmappedArrayCreate" THEN 2 ELSE 1)

Takes(r) ==
  CASE r \in Linear  -> r.bytes
    [] r \in Pitched -> r.width * r.height
    [] r \in Flat    ->
         ElementBytes(r.format) * r.channels * r.width * AtLeast1(r.height)
    [] r \in Deep    ->
         ElementBytes(r.format) * r.channels * r.width * AtLeast1(r.height)
           * Layers(r)

(* The exact product is no size_t, or the sum with the usage is none.      *)
Product(r) ==
  CASE r \in Linear -> r.bytes
    [] r \in Pitched -> r.width * r.height + r.element
    [] OTHER -> Plane(r) * (IF r.fn = "cuMipmappedArrayCreate" THEN r.depth ELSE 1)
Wraps(r) == Product(r) >= SizeMod \/ used + RequestSize(r) >= SizeMod

(* A 1D array has height 0 and counts nothing; the depth of a 3D array is  *)
(* left out, which bits for bytes makes good up to a depth of 8.           *)
Thin(r) == \/ r \in Flat \cup Deep /\ r.height = 0
           \/ r.fn = "cuMipmappedArrayCreate" /\ r.depth = 0
           \/ r.fn = "cuArray3DCreate" /\ r.depth > 8

(***************************************************************************)
(* Properties                                                              *)
(***************************************************************************)
(* A call is granted memory beyond GPU_MEM_LIMIT only if size_t wraps, the *)
(* array counts less than it takes, or it is cuMemAllocPitch, which does   *)
(* not look at the usage: there is no other hole in the arithmetic.        *)
BeyondLimitOnly ==
  verdict = "granted" /\ used + Takes(call) > Limit =>
    Wraps(call) \/ Thin(call) \/ call.fn = "cuMemAllocPitch"

(* A pitched request that does not wrap counts the least multiple of the   *)
(* element size that holds the rows: never more than rows that are padded  *)
(* one by one, so the limit refuses nothing that its rows would fit.       *)
PitchIsLeast ==
  LET fits(r) == {m \in Bytes : m % r.element = 0 /\ m >= r.width * r.height} IN
  call # NULL /\ call \in Pitched /\ verdict # "fault" /\ ~Wraps(call) =>
    /\ RequestSize(call) \in fits(call)
    /\ \A m \in fits(call) : RequestSize(call) <= m
    /\ RequestSize(call) <= RoundUp(call.width, call.element) * call.height

(* What cuMemGetInfo called free is granted when it is asked for later, as *)
(* long as the usage of the others did not grow and GPU_MEM_LIMIT did not  *)
(* shrink, also when the usage was above the limit at the time; and so is  *)
(* what completes the usage to no more than cuDeviceTotalMem reported.     *)
ReportedIsGranted ==
  /\ call # NULL /\ call \in Linear /\ info # NULL
  /\ Limit >= info.total
  /\ \/ 0 < call.bytes /\ call.bytes <= info.free /\ used <= info.used
     \/ used + call.bytes <= info.device
  => verdict = "granted"
=============================================================================
