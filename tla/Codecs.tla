------------------------------- MODULE Codecs -------------------------------
(***************************************************************************)
(* The codecs: VECTOR and DECODE, LABEL and RENDER, PALETTE and COLOR      *)
(* (src/src/vector_format.cpp, codec.cpp, label_format.cpp, renderer.cpp,  *)
(* palette_header.cpp, palette.cpp).  Each pair is a plan and a use of it  *)
(* that does not look at the limits again.  Contents are known by their    *)
(* sizes.                                                                  *)
(***************************************************************************)
EXTENDS Store

CONSTANTS
    CountLimit,      \* most elements of a vector (the code: 100000)
    WidthLimit,      \* widest element (the code: 32)
    StorageLimit,    \* most bytes of a vector (the code: 2^20)
    DeclaredLimit,   \* longest label that may be declared (the code: 255)
    LabelLimit,      \* longest label there is room for (the code: 32)
    PaletteSize,     \* colors (the code: 16)
    VectorPlans,     \* counts, widths and sizes of sources commands give
    Labels,          \* declared and true lengths commands give
    Colors           \* colors commands choose

ASSUME CodecConstants ==
    /\ {CountLimit, WidthLimit, StorageLimit, DeclaredLimit} \subseteq Nat
    /\ {LabelLimit, PaletteSize} \subseteq Nat \ {0}
    /\ Colors \subseteq Nat

VARIABLES
    vector,          \* Store.vector_plan: count, width, bytes of the output
    label,           \* Store.label_plan: declared size, size of the text
    palette          \* Store.palette_plan.selected

codecVars == <<vector, label, palette>>

NoVector == [count |-> 0, width |-> 0, source |-> 0, allocated |-> 0]

CodecInit ==
    /\ vector = NoVector
    /\ label = [declared_size |-> 0, text |-> 0]
    /\ palette = 0

-----------------------------------------------------------------------------
(* VECTOR count width source: the old output is freed and the plan set      *)
(* before the size of the new output is looked at.                          *)

PlanFits(count, width, source) ==
    count \in 1..CountLimit /\ width \in 1..WidthLimit /\ source # 0

VectorCheck(count, width, source) ==
    IF ~PlanFits(count, width, source) \/ count * width > StorageLimit
    THEN "limit" ELSE "ok"

ConfigureVector(count, width, source) ==
    /\ status' = VectorCheck(count, width, source)
    /\ vector' = IF PlanFits(count, width, source)
                 THEN [count |-> count, width |-> width, source |-> source,
                       allocated |-> IF status' = "ok" THEN count * width ELSE 0]
                 ELSE vector
    /\ UNCHANGED <<label, palette>>

(* DECODE: writes count * width bytes and hashes what was allocated. *)
DecodeVector ==
    /\ IF vector.allocated = 0 \/ vector.source = 0 THEN status' = "invalid_state"
       ELSE status' \in ReadOutcome(vector.count * vector.width = vector.allocated)
    /\ UNCHANGED codecVars

-----------------------------------------------------------------------------
(* LABEL declared text *)

\* Mutant: the room for a label is not looked at.
LabelCheckRoomless(declared, size) ==
    IF declared \notin 1..DeclaredLimit \/ size # declared THEN "malformed" ELSE "ok"

LabelCheck(declared, size) ==
    IF declared \notin 1..DeclaredLimit \/ size # declared THEN "malformed"
    ELSE IF declared > LabelLimit THEN "limit" ELSE "ok"

ConfigureLabel(declared, size) ==
    /\ status' = LabelCheck(declared, size)
    /\ label' = IF status' = "ok"
                THEN [declared_size |-> declared, text |-> size] ELSE label
    /\ UNCHANGED <<vector, palette>>

(* RENDER: copies as many characters as declared into room for LabelLimit. *)
RenderLabel ==
    /\ IF label.text = 0 THEN status' = "invalid_state"
       ELSE status' \in ReadOutcome(/\ label.declared_size <= label.text
                                    /\ label.declared_size <= LabelLimit)
    /\ UNCHANGED codecVars

-----------------------------------------------------------------------------
(* PALETTE index *)
ChoosePalette(index) ==
    /\ status' = IF index >= PaletteSize THEN "limit" ELSE "ok"
    /\ palette' = IF status' = "ok" THEN index ELSE palette
    /\ UNCHANGED <<vector, label>>

(* COLOR: indexes the table of colors; never fails. *)
EmitPaletteColor ==
    /\ status' \in ReadOutcome(palette < PaletteSize)
    /\ UNCHANGED codecVars

-----------------------------------------------------------------------------
CodecNext ==
    \/ \E plan \in VectorPlans : ConfigureVector(plan[1], plan[2], plan[3])
    \/ DecodeVector
    \/ \E text \in Labels : ConfigureLabel(text[1], text[2])
    \/ RenderLabel
    \/ \E index \in Colors : ChoosePalette(index)
    \/ EmitPaletteColor
=============================================================================
