---------------------------- MODULE SizesProofs -----------------------------
(***************************************************************************)
(* Proofs about Sizes for every width of size_t, every set of calls, and   *)
(* every usage, limit and device.                                          *)
(***************************************************************************)
EXTENDS Sizes, TLAPS

(* The report was true of the usage and the limit then.                    *)
InfoInv ==
  info # NULL =>
    /\ info.used \in Bytes /\ info.total \in Bytes
    /\ info.free = Free(info.used, info.total)
    /\ info.device = TotalMem(info.total, Device)

(* Between the check and the return neither usage nor limit moves, so the  *)
(* verdict on a linear call is still the one that they give.               *)
CallInv ==
  call # NULL /\ call \in Linear =>
    verdict = IF Refused(used, call.bytes, Limit) THEN "refused" ELSE "granted"

(* The inductive invariant.                                                *)
ReportInv ==
  /\ used \in Bytes /\ env \in Texts
  /\ InfoInv
  /\ CallInv

(* strtoul returns a size_t whatever GPU_MEM_LIMIT spells.                 *)
LEMMA LimitIsSize == ASSUME NEW text \in Texts PROVE LimitOf(text) \in Bytes
  <1>1. text = NULL \/ text \in Int
    BY SizesAssumption
  <1>2. SizeMod \in Nat /\ SizeMod > 0
    BY SizesAssumption
  <1>3. CASE text = NULL
    BY <1>2, <1>3 DEF LimitOf, Bytes
  <1>4. CASE text \in Int
    <2>1. text # NULL
      BY <1>4, SizesAssumption
    <2>2. text % SizeMod \in Bytes
      BY <1>2, <1>4 DEF Bytes
    <2>3. SizeMod - 1 \in Bytes
      BY <1>2 DEF Bytes
    <2>4. CASE text \in (1 - SizeMod)..(SizeMod - 1)
      BY <2>1, <2>2, <2>4 DEF LimitOf
    <2>5. CASE text \notin (1 - SizeMod)..(SizeMod - 1)
      BY <2>1, <2>3, <2>5 DEF LimitOf
    <2> QED BY <2>4, <2>5
  <1> QED BY <1>1, <1>3, <1>4

(* ROUND_UP returns the least multiple of the base that is not below n, if *)
(* that multiple is a size_t.                                              *)
LEMMA RoundUpIsLeast ==
  ASSUME NEW n \in Nat, NEW base \in Nat \ {0}, n + base < SizeMod
  PROVE  /\ RoundUp(n, base) \in n..(n + base - 1)
         /\ RoundUp(n, base) % base = 0
  <1> DEFINE q == n \div base
             r == n % base
  <1>1. SizeMod \in Nat
    BY SizesAssumption
  <1>2. q \in Nat /\ r \in 0..(base - 1) /\ n = base * q + r
    OBVIOUS
  <1>3. CASE r = 0
    BY <1>3 DEF RoundUp
  <1>4. CASE r # 0
    <2> DEFINE up == n + base - r
    <2>1. up \in Nat /\ up < SizeMod
      BY <1>1, <1>2
    <2>2. up % SizeMod = up
      BY <1>1, <2>1
    <2>3. RoundUp(n, base) = up
      BY <1>4, <2>2 DEF RoundUp
    <2>4. up = base * (q + 1)
      BY <1>2
    <2>5. (base * (q + 1)) % base = 0
      BY <1>2
    <2> QED BY <1>2, <1>4, <2>3, <2>4, <2>5
  <1> QED BY <1>3, <1>4

(* A linear call counts the bytes that it asks for, and nothing else.      *)
LEMMA LinearRequest ==
  ASSUME NEW r \in Linear
  PROVE  r.fn = "cuMemAlloc" /\ r \notin Pitched /\ RequestSize(r) = r.bytes
  <1>1. r.fn = "cuMemAlloc"
    BY DEF Linear
  <1>2. r \notin Pitched /\ r \notin Flat /\ r \notin Deep
    BY <1>1 DEF Pitched, Flat, Deep
  <1>3. RequestSize(r) = r.bytes
    BY <1>2, Zenon DEF RequestSize
  <1> QED BY <1>1, <1>2, <1>3

(* The check of a linear call is exact if what it asks for was free.       *)
LEMMA FreeFits ==
  ASSUME NEW seen \in Bytes, NEW was \in Bytes, NEW total \in Bytes,
         NEW limit \in Bytes, NEW size \in Bytes,
         0 < size, size <= Free(was, total), seen <= was, limit >= total
  PROVE  ~Refused(seen, size, limit)
  <1>1. SizeMod \in Nat /\ SizeMod > 0
    BY SizesAssumption
  <1>2. seen + size <= limit /\ limit < SizeMod
    BY <1>1 DEF Free, Bytes
  <1>3. (seen + size) % SizeMod = seen + size
    BY <1>1, <1>2 DEF Bytes
  <1> QED BY <1>1, <1>2, <1>3 DEF Refused, Bytes

(* So is the check of one that stays below the memory reported.            *)
LEMMA TotalFits ==
  ASSUME NEW seen \in Bytes, NEW total \in Bytes, NEW limit \in Bytes,
         NEW size \in Bytes,
         seen + size <= TotalMem(total, Device), limit >= total
  PROVE  ~Refused(seen, size, limit)
  <1>1. SizeMod \in Nat /\ SizeMod > 0 /\ Device \in Bytes
    BY SizesAssumption
  <1>2. seen + size <= limit /\ limit < SizeMod
    BY <1>1 DEF TotalMem, Bytes
  <1>3. (seen + size) % SizeMod = seen + size
    BY <1>1, <1>2 DEF Bytes
  <1> QED BY <1>1, <1>2, <1>3 DEF Refused, Bytes

(* The start and every step.                                               *)
LEMMA ReportInit == Init => ReportInv
  BY SizesAssumption DEF Init, ReportInv, InfoInv, CallInv

LEMMA ReportStep == ASSUME ReportInv, [Next]_vars PROVE ReportInv'
  <1>1. CASE Report
    <2>1. Limit \in Bytes
      BY LimitIsSize DEF ReportInv, Limit
    <2>2. InfoInv'
      BY <1>1, <2>1 DEF Report, ReportInv, InfoInv
    <2> QED BY <1>1, <2>2 DEF Report, ReportInv, CallInv
  <1>2. ASSUME NEW r \in Requests, Allocate(r) PROVE ReportInv'
    <2>1. r \in Linear => r.fn = "cuMemAlloc" /\ r \notin Pitched /\ RequestSize(r) = r.bytes
      BY LinearRequest
    <2>2. CallInv'
      BY <1>2, <2>1 DEF Allocate, CallInv, DividesByZero, Limit
    <2> QED BY <1>2, <2>2 DEF Allocate, ReportInv, InfoInv
  <1>3. CASE Return
    BY <1>3 DEF Return, ReportInv, InfoInv, CallInv
  <1>4. CASE OthersMove
    BY <1>4, SizesAssumption DEF OthersMove, ReportInv, InfoInv, CallInv
  <1>5. CASE SetEnv
    BY <1>5 DEF SetEnv, ReportInv, InfoInv, CallInv
  <1>6. CASE UNCHANGED vars
    BY <1>6 DEF vars, ReportInv, InfoInv, CallInv, Limit
  <1> QED BY <1>1, <1>2, <1>3, <1>4, <1>5, <1>6 DEF Next

LEMMA ReportHolds == ASSUME ReportInv PROVE ReportedIsGranted
  <1> SUFFICES ASSUME call # NULL, call \in Linear, info # NULL, Limit >= info.total,
                      \/ /\ 0 < call.bytes /\ call.bytes <= info.free
                         /\ used <= info.used
                      \/ used + call.bytes <= info.device
               PROVE  verdict = "granted"
    BY DEF ReportedIsGranted
  <1>1. call.bytes \in Bytes /\ Limit \in Bytes
    BY LimitIsSize DEF Linear, ReportInv, Limit
  <1>2. ~Refused(used, call.bytes, Limit)
    <2>1. CASE 0 < call.bytes /\ call.bytes <= info.free /\ used <= info.used
      BY <1>1, <2>1, FreeFits DEF ReportInv, InfoInv
    <2>2. CASE used + call.bytes <= info.device
      BY <1>1, <2>2, TotalFits DEF ReportInv, InfoInv
    <2> QED BY <2>1, <2>2
  <1> QED BY <1>2 DEF ReportInv, CallInv

(* What cuMemGetInfo called free is granted when cuMemAlloc asks for it,   *)
(* if the usage did not grow and the limit did not shrink in between, and  *)
(* so is all the memory that cuDeviceTotalMem reported.                    *)
THEOREM ReportedCanBeHad == Spec => []ReportedIsGranted
  <1> QED BY ReportInit, ReportStep, ReportHolds, PTL DEF Spec

(* A pitched call that got past ROUND_UP has an element size.              *)
PitchInv == call # NULL /\ call \in Pitched /\ verdict # "fault" => call.element # 0

LEMMA PitchStep == ASSUME PitchInv, [Next]_vars PROVE PitchInv'
  <1>1. CASE Report
    BY <1>1 DEF Report, PitchInv
  <1>2. ASSUME NEW r \in Requests, Allocate(r) PROVE PitchInv'
    BY <1>2 DEF Allocate, PitchInv, DividesByZero
  <1>3. CASE Return
    BY <1>3 DEF Return, PitchInv
  <1>4. CASE OthersMove
    BY <1>4 DEF OthersMove, PitchInv
  <1>5. CASE SetEnv
    BY <1>5 DEF SetEnv, PitchInv
  <1>6. CASE UNCHANGED vars
    BY <1>6 DEF vars, PitchInv
  <1> QED BY <1>1, <1>2, <1>3, <1>4, <1>5, <1>6 DEF Next

(* Of two multiples of the base, the one that is less than the other plus  *)
(* the base is not above it.                                               *)
LEMMA MultiplesApart ==
  ASSUME NEW base \in Nat \ {0}, NEW m \in Nat, NEW u \in Nat,
         m % base = 0, u % base = 0, u < m + base
  PROVE  u <= m
  <1> DEFINE i == m \div base
             j == u \div base
  <1>1. i \in Nat /\ j \in Nat /\ m = base * i /\ u = base * j
    OBVIOUS
  <1>2. base * (i + 1) = m + base
    BY <1>1
  <1>3. ASSUME j >= i + 1 PROVE FALSE
    <2> DEFINE d == j - (i + 1)
    <2>1. d \in Nat /\ j = (i + 1) + d
      BY <1>1, <1>3
    <2>2. u = base * (i + 1) + base * d /\ base * d >= 0
      BY <1>1, <2>1
    <2> QED BY <1>1, <1>2, <2>2
  <1>4. j <= i
    BY <1>1, <1>3
  <1>5. i - j \in Nat /\ m - u = base * (i - j)
    BY <1>1, <1>4
  <1>6. base * (i - j) >= 0
    BY <1>5
  <1> QED BY <1>5, <1>6

LEMMA PitchedRequest ==
  ASSUME NEW r \in Pitched
  PROVE  RequestSize(r) = RoundUp((r.width * r.height) % SizeMod, r.element)
  <1>1. r.fn # "cuMemAlloc" /\ r.fn # "cuArrayCreate"
        /\ r.fn # "cuArray3DCreate" /\ r.fn # "cuMipmappedArrayCreate"
    BY DEF Pitched
  <1>2. r \notin Linear /\ r \notin Flat /\ r \notin Deep
    BY <1>1 DEF Linear, Flat, Deep
  <1> QED BY <1>2, Zenon DEF RequestSize

(* The least multiple of the element size that holds the rows is at most   *)
(* what the rows take when they are padded one by one.                     *)
LEMMA PaddedRows ==
  ASSUME NEW w \in Nat, NEW h \in Nat, NEW e \in Nat \ {0}, w * h + e < SizeMod
  PROVE  RoundUp(w * h, e) <= RoundUp(w, e) * h
  <1>1. SizeMod \in Nat /\ w * h \in Nat
    BY SizesAssumption
  <1>2. RoundUp(w * h, e) \in (w * h)..(w * h + e - 1) /\ RoundUp(w * h, e) % e = 0
    BY <1>1, RoundUpIsLeast
  <1>3. CASE h = 0
    <2>1. RoundUp(0, e) = 0
      BY DEF RoundUp
    <2>2. w * h = 0
      BY <1>3
    <2>3. RoundUp(w, e) \in Int
      BY SizesAssumption DEF RoundUp
    <2> QED BY <1>3, <2>1, <2>2, <2>3
  <1>4. CASE h # 0
    <2>1. w <= w * h
      <3>1. h - 1 \in Nat /\ w * h = w + w * (h - 1) /\ w * (h - 1) \in Nat
        BY <1>4
      <3> QED BY <3>1
    <2>2. w + e < SizeMod
      BY <1>1, <2>1
    <2> DEFINE pad == RoundUp(w, e)
    <2>3. pad \in w..(w + e - 1) /\ pad % e = 0
      BY <2>2, RoundUpIsLeast
    <2> HIDE DEF pad
    <2>4. pad \in Nat /\ pad >= w
      BY <2>3
    <2>5. pad * h \in Nat /\ pad * h >= w * h
      <3>1. pad - w \in Nat /\ (pad - w) * h \in Nat /\ pad * h = w * h + (pad - w) * h
        BY <2>4
      <3> QED BY <1>1, <3>1
    <2>6. (pad * h) % e = 0
      <3> DEFINE k == pad \div e
      <3>1. k \in Nat /\ pad = e * k
        BY <2>3, <2>4
      <3> HIDE DEF k
      <3>2. k * h \in Nat /\ pad * h = e * (k * h)
        BY <3>1
      <3>3. ASSUME NEW x \in Nat PROVE (e * x) % e = 0
        OBVIOUS
      <3> QED BY <3>2, <3>3
    <2>7. RoundUp(w * h, e) < pad * h + e
      BY <1>1, <1>2, <2>5
    <2>8. RoundUp(w * h, e) <= pad * h
      BY <1>1, <1>2, <2>5, <2>6, <2>7, MultiplesApart
    <2> QED BY <2>8 DEF pad
  <1> QED BY <1>3, <1>4

LEMMA PitchedIsLeast == ASSUME PitchInv PROVE PitchIsLeast
  <1> DEFINE n == call.width * call.height
             e == call.element
             fits == {m \in Bytes : m % e = 0 /\ m >= n}
  <1> SUFFICES ASSUME call # NULL, call \in Pitched, verdict # "fault", ~Wraps(call)
               PROVE  /\ RequestSize(call) \in fits
                      /\ \A m \in fits : RequestSize(call) <= m
                      /\ RequestSize(call) <= RoundUp(call.width, e) * call.height
    BY DEF PitchIsLeast
  <1>1. SizeMod \in Nat /\ SizeMod > 0
    BY SizesAssumption
  <1>2. call.width \in Nat /\ call.height \in Nat /\ e \in Nat \ {0}
    BY <1>1 DEF PitchInv, Pitched, Bytes
  <1>3. n \in Nat
    BY <1>2
  <1>4. Product(call) = n + e
    <2>1. call.fn # "cuMemAlloc"
      BY DEF Pitched
    <2>2. call \notin Linear
      BY <2>1 DEF Linear
    <2> QED BY <2>2, Zenon DEF Product
  <1>5. ~(n + e >= SizeMod)
    BY <1>4 DEF Wraps
  <1> HIDE DEF n, e
  <1>6. n + e < SizeMod /\ n % SizeMod = n
    BY <1>1, <1>2, <1>3, <1>5
  <1>7. RequestSize(call) = RoundUp(n, e)
    BY <1>6, PitchedRequest DEF n, e
  <1>8. RoundUp(n, e) \in n..(n + e - 1) /\ RoundUp(n, e) % e = 0
    BY <1>2, <1>3, <1>6, RoundUpIsLeast
  <1>9. RequestSize(call) \in fits
    BY <1>1, <1>2, <1>3, <1>6, <1>7, <1>8 DEF Bytes
  <1>10. ASSUME NEW m \in fits PROVE RequestSize(call) <= m
    <2>1. m \in Nat /\ m % e = 0 /\ m >= n
      BY <1>1 DEF Bytes
    <2>2. RoundUp(n, e) \in Nat /\ RoundUp(n, e) < m + e
      BY <1>2, <1>3, <1>8, <2>1
    <2> QED BY <1>2, <1>7, <1>8, <2>1, <2>2, MultiplesApart
  <1>11. RequestSize(call) <= RoundUp(call.width, e) * call.height
    BY <1>2, <1>6, <1>7, PaddedRows DEF n, e
  <1> QED BY <1>9, <1>10, <1>11

(* Whatever the pitch of the device, a pitched request that does not wrap  *)
(* counts the least multiple of the element size that holds its rows, and  *)
(* no more than rows that are padded one by one.                           *)
THEOREM PitchCountsLeast == Spec => []PitchIsLeast
  <1>1. Init => PitchInv
    BY DEF Init, PitchInv
  <1> QED BY <1>1, PitchStep, PitchedIsLeast, PTL DEF Spec

(* What was granted had passed the check against the usage, unless it was  *)
(* cuMemAllocPitch.                                                        *)
GrantInv ==
  /\ used \in Bytes /\ env \in Texts
  /\ call = NULL => verdict = NULL
  /\ call # NULL =>
       /\ call \in Requests
       /\ verdict = "granted" /\ call.fn # "cuMemAllocPitch" =>
            ~DividesByZero(call) /\ ~Refused(used, RequestSize(call), Limit)

LEMMA GrantStep == ASSUME GrantInv, [Next]_vars PROVE GrantInv'
  <1>1. CASE Report
    BY <1>1 DEF Report, GrantInv, Limit
  <1>2. ASSUME NEW r \in Requests, Allocate(r) PROVE GrantInv'
    BY <1>2, SizesAssumption DEF Allocate, GrantInv, Limit
  <1>3. CASE Return
    BY <1>3 DEF Return, GrantInv
  <1>4. CASE OthersMove
    BY <1>4, SizesAssumption DEF OthersMove, GrantInv
  <1>5. CASE SetEnv
    BY <1>5 DEF SetEnv, GrantInv
  <1>6. CASE UNCHANGED vars
    BY <1>6 DEF vars, GrantInv, Limit
  <1> QED BY <1>1, <1>2, <1>3, <1>4, <1>5, <1>6 DEF Next

(* Bits for bytes: the count per channel is eight times the bytes of the   *)
(* formats that the driver takes.                                          *)
LEMMA BitsForBytes ==
  ASSUME NEW f \in Formats
  PROVE  /\ BaseSize(f) \in Nat /\ ElementBytes(f) \in Nat
         /\ ElementBytes(f) * 8 <= BaseSize(f)
  BY DEF Formats, BaseSize, ElementBytes

(* A product of sizes grows with each of its factors.                      *)
LEMMA TimesMonotone ==
  ASSUME NEW a \in Nat, NEW b \in Nat, NEW x \in Nat, a <= b
  PROVE  a * x <= b * x /\ a * x \in Nat /\ b * x \in Nat
  <1>1. b - a \in Nat /\ (b - a) * x \in Nat /\ b * x = a * x + (b - a) * x
    OBVIOUS
  <1>2. a * x \in Nat
    OBVIOUS
  <1> QED BY <1>1, <1>2

LEMMA FlatCovers ==
  ASSUME NEW r \in Flat, ~Wraps(r), ~Thin(r)
  PROVE  RequestSize(r) \in Nat /\ Takes(r) \in Nat /\ Takes(r) <= RequestSize(r)
  <1>1. SizeMod \in Nat /\ SizeMod > 0
    BY SizesAssumption
  <1>2. /\ r.format \in Formats
        /\ r.channels \in Nat /\ r.width \in Nat /\ r.height \in Nat
    BY <1>1 DEF Flat, Bytes
  <1>3. r \notin Linear /\ r \notin Pitched /\ r \notin Deep
    BY DEF Flat, Linear, Pitched, Deep
  <1>4. r.fn # "cuMipmappedArrayCreate" /\ r.height # 0
    BY DEF Flat, Thin
  <1>5. /\ RequestSize(r) = Plane(r) % SizeMod
        /\ Takes(r) = ElementBytes(r.format) * r.channels * r.width * AtLeast1(r.height)
    BY <1>3, Zenon DEF RequestSize, Takes
  <1>6. Product(r) = Plane(r) * (IF r.fn = "cuMipmappedArrayCreate" THEN r.depth ELSE 1)
    BY <1>3, Zenon DEF Product
  <1> DEFINE x == r.channels * r.width * r.height
             b == BaseSize(r.format)
             e == ElementBytes(r.format)
  <1>7. x \in Nat /\ b \in Nat /\ e \in Nat /\ e <= b
    BY <1>2, BitsForBytes
  <1>8. Plane(r) = b * x
    BY <1>2, <1>7 DEF Plane
  <1>9. Takes(r) = e * x
    BY <1>2, <1>4, <1>5, <1>7 DEF AtLeast1
  <1>10. e * x <= b * x /\ e * x \in Nat /\ b * x \in Nat
    BY <1>7, TimesMonotone
  <1> HIDE DEF x, b, e
  <1>11. b * x < SizeMod
    BY <1>1, <1>4, <1>6, <1>8, <1>10 DEF Wraps
  <1> QED BY <1>1, <1>5, <1>8, <1>9, <1>10, <1>11

LEMMA DeepCovers ==
  ASSUME NEW r \in Deep, ~Wraps(r), ~Thin(r)
  PROVE  RequestSize(r) \in Nat /\ Takes(r) \in Nat /\ Takes(r) <= RequestSize(r)
  <1>1. SizeMod \in Nat /\ SizeMod > 0
    BY SizesAssumption
  <1>2. /\ r.format \in Formats /\ r.channels \in Nat
        /\ r.width \in Nat /\ r.height \in Nat /\ r.depth \in Nat
    BY <1>1 DEF Deep, Bytes
  <1>3. r \notin Linear /\ r \notin Pitched /\ r \notin Flat
    BY DEF Flat, Linear, Pitched, Deep
  <1> DEFINE mip == r.fn = "cuMipmappedArrayCreate"
             times == IF mip THEN r.depth ELSE 1
             x == r.channels * r.width * r.height
             b == BaseSize(r.format)
             e == ElementBytes(r.format)
  <1>4. /\ RequestSize(r) = (Plane(r) * times) % SizeMod
        /\ Takes(r) = ElementBytes(r.format) * r.channels * r.width
                        * AtLeast1(r.height) * Layers(r)
    BY <1>3, Zenon DEF RequestSize, Takes
  <1>5. Product(r) = Plane(r) * times
    BY <1>3, Zenon DEF Product
  <1>6. r.height # 0 /\ (mip => r.depth # 0) /\ (~mip => r.depth <= 8)
    BY <1>2 DEF Deep, Thin
  <1>7. x \in Nat /\ b \in Nat /\ e \in Nat /\ e * 8 <= b
    BY <1>2, BitsForBytes
  <1>8. Plane(r) = b * x
    BY <1>2, <1>7 DEF Plane
  <1>9. Layers(r) \in Nat /\ Takes(r) = e * x * Layers(r)
    <2>1. Layers(r) \in Nat
      BY <1>2 DEF Layers, AtLeast1
    <2> QED BY <1>2, <1>4, <1>6, <1>7, <2>1 DEF AtLeast1
  <1>10. times \in Nat /\ Layers(r) <= 8 * times
    BY <1>2, <1>6 DEF Layers, AtLeast1
  <1> DEFINE d == Layers(r)
  <1> HIDE DEF mip, times, x, b, e, d
  <1>11. d \in Nat /\ d <= 8 * times /\ Takes(r) = (e * x) * d
    BY <1>9, <1>10 DEF d
  <1>12. (e * x) * d <= (8 * times) * (e * x) /\ (e * x) * d \in Nat
    <2>1. e * x \in Nat /\ 8 * times \in Nat
      BY <1>7, <1>10
    <2>2. d * (e * x) <= (8 * times) * (e * x) /\ d * (e * x) \in Nat
      BY <1>11, <2>1, TimesMonotone
    <2> QED BY <1>11, <2>1, <2>2
  <1>13. (e * 8) * (x * times) <= b * (x * times) /\ b * (x * times) \in Nat
    BY <1>7, <1>10, TimesMonotone
  <1>14. (8 * times) * (e * x) = (e * 8) * (x * times)
    BY <1>7, <1>10
  <1>15. Plane(r) * times = b * (x * times)
    BY <1>7, <1>8, <1>10
  <1>16. b * (x * times) < SizeMod
    BY <1>1, <1>5, <1>13, <1>15 DEF Wraps
  <1>17. RequestSize(r) = b * (x * times)
    BY <1>1, <1>4, <1>13, <1>15, <1>16
  <1>18. (8 * times) * (e * x) \in Int
    BY <1>7, <1>10
  <1> HIDE DEF Takes
  <1> QED BY <1>11, <1>12, <1>13, <1>14, <1>17, <1>18

LEMMA PitchedCovers ==
  ASSUME NEW r \in Pitched, ~Wraps(r), ~DividesByZero(r)
  PROVE  RequestSize(r) \in Nat /\ Takes(r) \in Nat /\ Takes(r) <= RequestSize(r)
  <1> DEFINE n == r.width * r.height
             e == r.element
  <1>1. SizeMod \in Nat /\ SizeMod > 0
    BY SizesAssumption
  <1>2. n \in Nat /\ e \in Nat \ {0}
    BY <1>1 DEF Pitched, Bytes, DividesByZero
  <1>3. r \notin Linear /\ r \notin Flat /\ r \notin Deep
    BY DEF Linear, Pitched, Flat, Deep
  <1>4. Takes(r) = n /\ Product(r) = n + e
    BY <1>3, Zenon DEF Takes, Product
  <1>5. RequestSize(r) = RoundUp(n % SizeMod, e)
    BY PitchedRequest
  <1> HIDE DEF n, e
  <1>6. n + e < SizeMod /\ n % SizeMod = n
    BY <1>1, <1>2, <1>4 DEF Wraps
  <1>7. RoundUp(n, e) \in n..(n + e - 1)
    BY <1>2, <1>6, RoundUpIsLeast
  <1> QED BY <1>2, <1>4, <1>5, <1>6, <1>7

LEMMA GrantedFits == ASSUME GrantInv PROVE BeyondLimitOnly
  <1> SUFFICES ASSUME verdict = "granted", call.fn # "cuMemAllocPitch",
                      ~Wraps(call), ~Thin(call)
               PROVE  ~(used + Takes(call) > Limit)
    BY DEF BeyondLimitOnly
  <1>1. SizeMod \in Nat /\ SizeMod > 0
    BY SizesAssumption
  <1>2. used \in Nat /\ Limit \in Nat
    BY <1>1, LimitIsSize DEF GrantInv, Bytes, Limit
  <1>3. call # NULL /\ ~DividesByZero(call) /\ ~Refused(used, RequestSize(call), Limit)
    BY SizesAssumption DEF GrantInv
  <1>4. /\ RequestSize(call) \in Nat /\ Takes(call) \in Nat
        /\ Takes(call) <= RequestSize(call)
    <2>1. CASE call \in Linear
      <3>1. RequestSize(call) = call.bytes /\ call.bytes \in Nat
        BY <1>1, <2>1, LinearRequest DEF Linear, Bytes
      <3>2. call \notin Pitched /\ call \notin Flat /\ call \notin Deep
        BY <2>1 DEF Linear, Pitched, Flat, Deep
      <3>3. Takes(call) = call.bytes
        BY <2>1, <3>2, Zenon DEF Takes
      <3> QED BY <3>1, <3>3
    <2>2. CASE call \in Pitched
      BY <1>3, <2>2, PitchedCovers
    <2>3. CASE call \in Flat
      BY <2>3, FlatCovers
    <2>4. CASE call \in Deep
      BY <2>4, DeepCovers
    <2> QED BY <1>3, <2>1, <2>2, <2>3, <2>4, SizesAssumption DEF GrantInv
  <1>5. used + RequestSize(call) < SizeMod
    BY <1>1, <1>2, <1>4 DEF Wraps
  <1>6. (used + RequestSize(call)) % SizeMod = used + RequestSize(call)
    BY <1>1, <1>2, <1>4, <1>5
  <1> QED BY <1>2, <1>3, <1>4, <1>6 DEF Refused

(* The arithmetic of the usage check has no hole but the named ones: a     *)
(* call that wraps nowhere, counts its height and depth and looks at the   *)
(* usage is granted nothing beyond the limit.                              *)
THEOREM NothingBeyondLimit == Spec => []BeyondLimitOnly
  <1>1. Init => GrantInv
    BY SizesAssumption DEF Init, GrantInv
  <1> QED BY <1>1, GrantStep, GrantedFits, PTL DEF Spec
=============================================================================
