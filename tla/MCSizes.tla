------------------------------ MODULE MCSizes -------------------------------
(* Values of the constants of Sizes for the run.                           *)
EXTENDS Sizes

Lines  == [fn : {"cuMemAlloc"}, bytes : {0, 1, 5, 39, 40, 41, 200, 255}]
Rows   == [fn : {"cuMemAllocPitch", "cuMemAllocPitch_v2"},
           width : {0, 3, 10, 100}, height : {0, 1, 3, 4}, element : {0, 1, 4, 8}]
Planes == [fn : {"cuArrayCreate"}, format : Formats, channels : {1, 2},
           width : {1, 3, 5}, height : {0, 1, 2}]
Cubes  == [fn : {"cuArray3DCreate", "cuMipmappedArrayCreate"}, format : Formats,
           channels : {1}, width : {1, 3}, height : {0, 1, 2}, depth : {0, 1, 8, 9}]
AllCalls == Lines \cup Rows \cup Planes \cup Cubes

(* Nothing set, a limit below and above the device, out of range, negative.*)
Spelled == {NULL, 0, 40, 255, 300, -6}
=============================================================================
