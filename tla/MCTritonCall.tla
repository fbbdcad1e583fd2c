---------------------------- MODULE MCTritonCall ----------------------------
EXTENDS TritonCall

CONSTANTS p1, p2, small, large

MCProcs == {p1, p2}
MCConfigs == {small, large}
MCTile == [c \in MCConfigs |-> IF c = small THEN 64 ELSE 128]
MCKeys == {"single", "grouped", "paged"}

(* A page size fixes TILE_N.  The file may have an entry that does not fit. *)
MCFitting == [k \in MCKeys |-> IF k = "paged" THEN {large} ELSE MCConfigs]

Job(k, t, k2) == [key |-> k, tuner |-> t, kernel |-> k2]

(* Functions that allocate, clear and write the same are one kernel here.  *)
Forwards ==
    UNION {{DenseForward(split), DenseVarlenForward(split), SparseForward(split),
            SparseVarlenForward(split), GatedForward(split), GatedVarlenForward(split)} :
           split \in BOOLEAN}
Decodes == {DenseDecode, DenseVarlenDecode, SparseDecode, SparseVarlenDecode,
            GatedDecode, GatedVarlenDecode}

(* Fixed and varlen calls of a kernel share keys; calls with one and with  *)
(* several query heads per key head share the autotuner's key only.        *)
MCJobSets ==
    {{Job("single", "fwd", k)} : k \in Forwards \cup Decodes} \cup
    {{Job("paged", "paged", DenseForward(split))} : split \in BOOLEAN} \cup
    {{Job("grouped", "bwd", DenseBackward(TRUE)),
      Job("grouped", "bwd", DenseVarlenBackward(TRUE))},
     {Job("single", "bwd", GatedVarlenBackward(FALSE)),
      Job("grouped", "bwd", GatedBackward(TRUE))},
     {Job("single", "bwd", SparseBackward(FALSE))},
     {Job("grouped", "bwd", SparseVarlenBackward(TRUE))}}

MCOldFiles ==
    {[k \in MCKeys |-> NoConfig],
     [k \in MCKeys |-> CASE k = "grouped" -> large
                         [] k = "paged"   -> small
                         [] OTHER         -> NoConfig]}
=============================================================================
